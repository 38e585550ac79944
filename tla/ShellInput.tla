----------------------------- MODULE ShellInput -----------------------------
(***************************************************************************)
(* Where the shell's commands come from (src/src/cprog/shell.c): the stack *)
(* of input sources - the terminal, command files, strings returned by     *)
(* jobs - read by rdcom, entered by push and left by pop, which an error   *)
(* message also calls; and ^G, which sets a flag for the routines that     *)
(* hold a file open, or else restarts the main loop, be it in the middle   *)
(* of push or of pop.                                                      *)
(***************************************************************************)
EXTENDS Integers, Sequences, FiniteSets

CONSTANTS max_files,    \* input sources at one time
          Streams,      \* the channels the shell can open
          Lines,        \* lines in a command file or a returned string
          MaxCtrlG      \* times the user types ^G

TTYINPUT == -1
VALINPUT == -2
NoInput == -3
Strings == 100 .. 100 + max_files + MaxCtrlG   \* what calloc returns
Free == 0

ASSUME InputAssumption ==
  /\ max_files \in Nat /\ max_files >= 2 /\ MaxCtrlG \in Nat
  /\ Streams \intersect ({TTYINPUT, VALINPUT, NoInput, Free} \union Strings) = {}

VARIABLES inp,          \* infile, inptr, incnt and the arrays of the stack
          chans, heap,  \* channels that are open, strings not yet freed
          left,         \* lines still to come of a channel or a string
          ipc, iarg, g2s, sflag, ctrlgs, restarted,
          mid,          \* where push or pop is: after which of their steps
          tagged,       \* maktag and on have been called
          torn,         \* a ^G has left push or pop in the middle
          exited        \* the terminal has ended and the exit file was tried

inputVars == <<inp, chans, heap, left, ipc, iarg, g2s, sflag, ctrlgs, restarted,
               mid, tagged, torn, exited>>

InputInit ==
  /\ inp = [infile |-> TTYINPUT, inptr |-> Free, incnt |-> 1,
            instk |-> [i \in 0 .. max_files |-> 0],
            inpts |-> [i \in 0 .. max_files |-> Free],
            inval |-> [i \in 0 .. max_files |-> Free]]
  /\ chans = {} /\ heap = {}
  /\ left = [x \in Streams \union Strings |-> 0]
  /\ ipc = "doinit" /\ iarg = Free
  /\ g2s = 0 /\ sflag = FALSE /\ ctrlgs = 0 /\ restarted = FALSE
  /\ mid = "no" /\ tagged = FALSE /\ torn = FALSE /\ exited = FALSE

(* The steps of pop, after it has released the source: --incnt, and what   *)
(* is below is entered again.                                              *)
Lowered(s) == [s EXCEPT !.incnt = @ - 1]
Entered(s) == [s EXCEPT !.infile = IF s.incnt > 0 THEN s.instk[s.incnt] ELSE NoInput]

\* Mutant: the place in the string below is not taken up again.
TakenUpNot(s) == s

TakenUp(s) == IF s.incnt > 0 THEN [s EXCEPT !.inptr = s.inpts[s.incnt]] ELSE s

(* The steps of push: what is read is saved, the source gets its place and *)
(* then its string.                                                        *)
Saved(s) == [s EXCEPT !.instk[s.incnt] = s.infile, !.inpts[s.incnt] = s.inptr, !.incnt = @ + 1]
Headed(s, fd) == [s EXCEPT !.infile = fd, !.instk[s.incnt] = fd]
Handed(s, p) == [s EXCEPT !.inptr = p, !.inpts[s.incnt] = p, !.inval[s.incnt] = p]

(* What pop releases: the channel, or the copy of the string.              *)
CloseOrFree(s) ==
  /\ chans' = chans \ {s.infile}
  /\ heap' = IF s.infile = VALINPUT THEN heap \ {s.inval[s.incnt]} ELSE heap

pop == CloseOrFree(inp) /\ mid' = "closed"

(* eprint: a string that is being read is left.                            *)
eprint == IF inp.infile = VALINPUT THEN pop ELSE UNCHANGED <<chans, heap, mid>>

popSame == <<left, ipc, iarg, g2s, sflag, ctrlgs, restarted, tagged, torn, exited>>

popLowers ==
  /\ mid = "closed" /\ inp' = Lowered(inp) /\ mid' = "lowered"
  /\ UNCHANGED <<chans, heap, popSame>>
popEnters ==
  /\ mid = "lowered" /\ inp' = Entered(inp)
  /\ mid' = IF inp.incnt > 0 THEN "entered below" ELSE "no"
  /\ UNCHANGED <<chans, heap, popSame>>
popPlaces ==
  /\ mid = "entered below" /\ inp' = TakenUp(inp) /\ mid' = "no"
  /\ UNCHANGED <<chans, heap, popSame>>

PushFails == inp.incnt >= max_files - 1

Back == IF tagged THEN "main" ELSE "maktag"
inputSame == <<ctrlgs, restarted, tagged, torn, exited>>

(* push saves what is read, or tells that there are too many sources.      *)
push ==
  /\ ipc = "push" /\ mid = "no"
  /\ IF PushFails THEN eprint /\ ipc' = "refused" /\ UNCHANGED inp
     ELSE inp' = Saved(inp) /\ mid' = "saved" /\ UNCHANGED <<ipc, chans, heap>>
  /\ UNCHANGED <<left, iarg, g2s, sflag, inputSame>>

refused ==
  /\ ipc = "refused" /\ mid = "no"
  /\ chans' = chans \ {iarg}
  /\ ipc' = Back /\ iarg' = Free /\ g2s' = 0
  /\ UNCHANGED <<inp, heap, left, sflag, mid, inputSame>>

pushHeads ==
  /\ mid = "saved" /\ inp' = Headed(inp, iarg) /\ mid' = "headed"
  /\ UNCHANGED <<chans, heap, popSame>>

\* calloc and stcpy; the pointer p is in iarg from here.
pushCopies ==
  /\ mid = "headed" /\ mid' = "copied"
  /\ IF iarg = VALINPUT
     THEN /\ Strings \ heap # {}
          /\ iarg' = CHOOSE p \in Strings : p \notin heap
          /\ heap' = heap \union {iarg'} /\ left' = [left EXCEPT ![iarg'] = Lines]
     ELSE iarg' = Free /\ UNCHANGED <<heap, left>>
  /\ UNCHANGED <<inp, chans, ipc, g2s, sflag, inputSame>>

pushHands ==
  /\ mid = "copied" /\ inp' = Handed(inp, iarg) /\ mid' = "no"
  /\ ipc' = Back /\ iarg' = Free /\ g2s' = 0
  /\ UNCHANGED <<chans, heap, left, sflag, inputSame>>

(* eopen: a channel, or none when all are taken or there is no such file.  *)
Opens(next) ==
  \/ /\ iarg' = Free /\ ipc' = Back /\ g2s' = 0
     /\ UNCHANGED <<chans, left>>
  \/ \E fd \in Streams \ chans :
       /\ chans' = chans \union {fd} /\ left' = [left EXCEPT ![fd] = Lines]
       /\ iarg' = fd /\ ipc' = next /\ UNCHANGED g2s

doinit ==
  /\ ipc = "doinit" /\ Opens("push")
  /\ UNCHANGED <<inp, heap, sflag, mid, inputSame>>

(* maktag(&restart) and on(ctrlg_interrupt, ghandler): a ^G counts now.    *)
maktag ==
  /\ ipc = "maktag" /\ ipc' = "main" /\ tagged' = TRUE
  /\ UNCHANGED <<inp, chans, heap, left, iarg, g2s, sflag, mid, ctrlgs, restarted, torn, exited>>

Reading == ipc = "main" /\ mid = "no" /\ inp.incnt > 0

(* At the end of the terminal the shell obeys an exit file, once.          *)
exitFile ==
  /\ ipc = "main" /\ mid = "no" /\ inp.incnt = 0 /\ ~exited
  /\ exited' = TRUE
  /\ Opens("push")
  /\ UNCHANGED <<inp, heap, sflag, mid, ctrlgs, restarted, tagged, torn>>

Source == IF inp.infile = VALINPUT THEN inp.inptr ELSE inp.infile
SourceOpen == Source \in chans \union heap

(* rdcom, at the end of the source, or on a channel that is closed: the    *)
(* main loop pops it.  A string that is freed may end anywhere.            *)
rdcomEnd ==
  /\ Reading
  /\ SourceOpen => left[Source] = 0
  /\ pop
  /\ UNCHANGED <<inp, left, ipc, iarg, g2s, sflag, inputSame>>

(* rdcom: a line, and the command on it: nothing, one with n messages of   *)
(* error, a command file, a file to print, or a job that returns a string. *)
rdcom ==
  /\ Reading
  /\ \/ SourceOpen /\ left[Source] > 0 /\ left' = [left EXCEPT ![Source] = @ - 1]
     \/ ~SourceOpen /\ inp.infile \in {TTYINPUT, VALINPUT} /\ UNCHANGED left
  /\ \/ \E n \in 1 .. 2 : ipc' = "error" /\ iarg' = n /\ UNCHANGED g2s
     \/ ipc' \in {"xfile", "cat"} /\ g2s' = 1 /\ UNCHANGED iarg
     \/ ipc' = "push" /\ iarg' = VALINPUT /\ UNCHANGED g2s
  /\ UNCHANGED <<inp, chans, heap, sflag, mid, inputSame>>

errorStep ==
  /\ ipc = "error" /\ mid = "no" /\ eprint
  /\ IF iarg = 1 THEN ipc' = "main" /\ iarg' = Free ELSE ipc' = ipc /\ iarg' = iarg - 1
  /\ UNCHANGED <<inp, left, g2s, sflag, inputSame>>

xfile ==
  /\ ipc = "xfile" /\ Opens("push")
  /\ UNCHANGED <<inp, heap, sflag, mid, inputSame>>

cat ==
  /\ ipc = "cat" /\ Opens("typfil")
  /\ UNCHANGED <<inp, heap, sflag, mid, inputSame>>

(* typfil, typdir: from where they clear the flag a ^G stops the typing.   *)
typfil ==
  /\ ipc = "typfil" /\ sflag' = FALSE /\ ipc' = "typing"
  /\ UNCHANGED <<inp, chans, heap, left, iarg, g2s, mid, inputSame>>

typing ==
  /\ ipc = "typing"
  /\ IF left[iarg] > 0 /\ ~sflag
     THEN left' = [left EXCEPT ![iarg] = @ - 1] /\ UNCHANGED <<chans, ipc, iarg, g2s>>
     ELSE /\ chans' = chans \ {iarg} /\ iarg' = Free
          /\ ipc' = "main" /\ g2s' = 0 /\ UNCHANGED left
  /\ UNCHANGED <<inp, heap, sflag, mid, inputSame>>

(* ^G, between any two of these steps: the flag, once, or gotag.           *)
ghandler ==
  /\ tagged /\ ctrlgs < MaxCtrlG
  /\ ctrlgs' = ctrlgs + 1
  /\ IF g2s > 0
     THEN g2s' = g2s - 1 /\ sflag' = TRUE /\ UNCHANGED <<ipc, iarg, restarted, mid, torn>>
     ELSE /\ ipc' = "main" /\ iarg' = Free /\ mid' = "no" /\ restarted' = TRUE
          /\ torn' = (torn \/ mid # "no") /\ UNCHANGED <<g2s, sflag>>
  /\ UNCHANGED <<inp, chans, heap, left, tagged, exited>>

InputNext ==
  \/ doinit \/ maktag \/ exitFile \/ push \/ refused \/ pushHeads \/ pushCopies \/ pushHands
  \/ rdcomEnd \/ rdcom \/ errorStep \/ popLowers \/ popEnters \/ popPlaces
  \/ xfile \/ cat \/ typfil \/ typing \/ ghandler

InputSpec == InputInit /\ [][InputNext]_inputVars
-----------------------------------------------------------------------------
InputTypeOK ==
  /\ inp.incnt \in 0 .. max_files - 1 /\ g2s \in 0 .. 1
  /\ chans \subseteq Streams /\ heap \subseteq Strings

(* The sources on the stack: their channels and strings, with none missing *)
(* or over, are those that are open, beside the one a command holds.  A ^G *)
(* while a routine has asked for the flag loses none, nor does it in push. *)
Stacked == {inp.instk[i] : i \in 1 .. inp.incnt} \intersect Streams
SourcesHeld ==
  ~restarted /\ mid = "no" =>
    /\ chans = Stacked \union (IF ipc # "error" THEN {iarg} \intersect Streams ELSE {})
    /\ heap = {inp.inval[i] : i \in {k \in 2 .. inp.incnt : inp.instk[k] = VALINPUT}}

(* Reading goes on in the source that is on the top, which is still open,  *)
(* and in its own string, also after a restart, and after an error has     *)
(* flushed what was above: but not after a ^G that found push or pop in    *)
(* the middle with no flag asked for, from where gotag leaves the stack as *)
(* it happens to be.                                                       *)
ReadsOwnString ==
  ~torn /\ mid = "no" /\ inp.incnt > 1 =>
    /\ inp.infile = inp.instk[inp.incnt]
    /\ inp.infile = VALINPUT => inp.inptr = inp.inval[inp.incnt]
    /\ SourceOpen

(* Each source is open as long as it is on the stack, and the one on the   *)
(* top is read.                                                            *)
InputKept == InputTypeOK /\ SourcesHeld /\ ReadsOwnString
=============================================================================
