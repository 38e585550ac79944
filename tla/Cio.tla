---------------------------------- MODULE Cio ----------------------------------
(***************************************************************************)
(* Channels of the C library (src/src/clib/c10io.c): copen, which takes an *)
(* fcb and for a file an ITS channel; cclose; the redirection of the       *)
(* standard channels by fxarg; and setappend, which reads the last word of *)
(* a file that other jobs append to as well.  And the pages of a program   *)
(* (c10pag.c, c10map.c).                                                   *)
(***************************************************************************)
EXTENDS Integers, Sequences, SequencesExt, FiniteSets, FiniteSetsExt

CONSTANTS NCHANNEL,     \* fcbs
          Chans,        \* ITS channels
          WordChars,    \* characters in a word
          Tries,        \* how often setappend tries
          MaxFile,      \* characters in the file that is appended to
          NPages        \* pages of the address space

OPENLOSS == 0           \* no fcb
NoChan == -1

VARIABLES fcb, itsopen, ttyin, ttyout, cin, cout, cerr, started,
          nocore,       \* copen has failed for want of core
          apc, file, there, wordlen, abuf, ntry,
          fresh,        \* another job has made the file since setappend first found it,
                        \* or found none
          page_table, first_free_page, exists, maps

fcbVars == <<fcb, itsopen, ttyin, ttyout, cin, cout, cerr, started, nocore>>
appendVars == <<apc, file, there, wordlen, abuf, ntry, fresh>>
pageVars == <<page_table, first_free_page, exists, maps>>
cioVars == <<fcbVars, appendVars, pageVars>>

Closed == [open |-> FALSE, kind |-> "none", write |-> FALSE, chan |-> NoChan]
Fcb(kind, write, chan) ==
  [open |-> TRUE, kind |-> kind, write |-> write, chan |-> chan]
FreeFcb(f) == Min({NCHANNEL + 1} \union {i \in 1 .. NCHANNEL : ~f[i].open})

\* Mutant: a channel that is open is taken for a free one.
chnlocBlind(its) == Min(Chans)

chnloc(its) == Min(Chans \ its)
NoChannel(its) == Chans \subseteq its

CioInit ==      \* c0init: the three standard channels on the terminal
  /\ fcb = [i \in 1 .. NCHANNEL |->
             IF i = 1 THEN Fcb("tty", FALSE, NoChan)
             ELSE IF i = 2 THEN Fcb("tty", TRUE, NoChan) ELSE Closed]
  /\ itsopen = {} /\ ttyin = NoChan /\ ttyout = NoChan
  /\ cin = 1 /\ cout = 2 /\ cerr = 2 /\ started = FALSE /\ nocore = FALSE
  /\ apc = "idle" /\ file = <<>> /\ there = FALSE /\ wordlen = 0 /\ abuf = <<>> /\ ntry = 0
  /\ fresh = FALSE
  /\ page_table = [p \in 0 .. NPages - 1 |-> 0] /\ first_free_page = 0
  /\ exists \in {{0}, {0, 2}} /\ maps = {}

(* What copen leaves when it is asked for a string, for the terminal, and  *)
(* for a file: which may not open, or open as a terminal in image mode and *)
(* then be opened again, or open when there is no core for its buffer (an  *)
(* fcb that has had one keeps it, which is left out).                      *)
Failed(f, its) == [fcb |-> f, its |-> its, fd |-> OPENLOSS, nocore |-> FALSE]

copenString(f, its, write) ==
  LET i == FreeFcb(f) IN
  IF i > NCHANNEL THEN {Failed(f, its)}
  ELSE {[fcb |-> [f EXCEPT ![i] = Fcb("str", write, NoChan)],
         its |-> its, fd |-> i, nocore |-> FALSE]}

copenTty(f, its, write) ==
  LET i == FreeFcb(f) IN
  IF i > NCHANNEL THEN {Failed(f, its)}
  ELSE {[fcb |-> [f EXCEPT ![i] = Fcb("tty", write, NoChan)],
         its |-> its, fd |-> i, nocore |-> FALSE]}

\* Mutant: the first channel is kept when a terminal is opened again.
copenFileTwice(f, its, write) ==
  LET i == FreeFcb(f)
      opened == [fcb |-> [f EXCEPT ![i] = Fcb("file", write, chnloc(its))],
                 its |-> its \union {chnloc(its)}, fd |-> i, nocore |-> FALSE]
  IN IF i > NCHANNEL \/ NoChannel(its) THEN {Failed(f, its)}
     ELSE {Failed(f, its \union {chnloc(its)}), opened}

copenFile(f, its, write) ==
  LET i == FreeFcb(f)
      opened == [fcb |-> [f EXCEPT ![i] = Fcb("file", write, chnloc(its))],
                 its |-> its \union {chnloc(its)}, fd |-> i, nocore |-> FALSE]
  IN IF i > NCHANNEL \/ NoChannel(its) THEN {Failed(f, its)}
     ELSE {Failed(f, its), opened,
           [fcb |-> f, its |-> its \union {chnloc(its)}, fd |-> OPENLOSS, nocore |-> TRUE]}

(* cclose, by the way the fcb was opened.  A file's channel is closed,     *)
(* unless it is one of the terminal's.                                     *)
Released(f, its, i) == IF f[i].open /\ f[i].kind = "file" THEN its \ ({f[i].chan} \ {ttyin, ttyout}) ELSE its
ClosedFcb(f, i) == [f EXCEPT ![i] = Closed]

copen ==
  /\ started
  /\ \E write \in BOOLEAN :
       \E r \in copenString(fcb, itsopen, write) \union copenTty(fcb, itsopen, write)
                \union copenFile(fcb, itsopen, write) :
         fcb' = r.fcb /\ itsopen' = r.its /\ nocore' = (nocore \/ r.nocore)
  /\ UNCHANGED <<ttyin, ttyout, cin, cout, cerr, started>>

cclose ==
  /\ started
  /\ \E i \in 1 .. NCHANNEL : fcb' = ClosedFcb(fcb, i) /\ itsopen' = Released(fcb, itsopen, i)
  /\ UNCHANGED <<ttyin, ttyout, cin, cout, cerr, started, nocore>>

(* The first character on a terminal's fcb opens the terminal.             *)
setdev ==
  /\ \E i \in 1 .. NCHANNEL :
       /\ fcb[i].open /\ fcb[i].kind = "tty" /\ fcb[i].chan = NoChan
       /\ LET have == IF fcb[i].write THEN ttyout ELSE ttyin
              ch == IF have = NoChan THEN chnloc(itsopen) ELSE have IN
          /\ have = NoChan => ~NoChannel(itsopen)
          /\ itsopen' = itsopen \union {ch} /\ fcb' = [fcb EXCEPT ![i].chan = ch]
          /\ IF fcb[i].write THEN ttyout' = ch /\ UNCHANGED ttyin
                             ELSE ttyin' = ch /\ UNCHANGED ttyout
  /\ UNCHANGED <<cin, cout, cerr, started, nocore>>

\* Mutant: the channel of error messages is closed though output uses it.
ClosesCerrAlways(out, err) == TRUE

ClosesCerr(out, err) == out # err

(* fxarg: input, then output, then error messages, each of them if it is   *)
(* asked for and can be opened.                                            *)
fxarg_open ==
  /\ ~started
  /\ started' = TRUE
  /\ \E in, out, err \in BOOLEAN :
     LET keep == [fcb |-> fcb, its |-> itsopen, fd |-> OPENLOSS, nocore |-> FALSE] IN
     \E a \in IF in THEN copenFile(fcb, itsopen, FALSE) ELSE {keep} :
     LET f1 == IF a.fd # OPENLOSS THEN ClosedFcb(a.fcb, cin) ELSE a.fcb IN
     \E b \in IF out THEN copenFile(f1, a.its, TRUE) ELSE {[keep EXCEPT !.fcb = f1, !.its = a.its]} :
     LET o == IF b.fd # OPENLOSS THEN b.fd ELSE cout IN
     \E c \in IF err THEN copenFile(b.fcb, b.its, TRUE) ELSE {[keep EXCEPT !.fcb = b.fcb, !.its = b.its]} :
       /\ cin' = IF a.fd # OPENLOSS THEN a.fd ELSE cin
       /\ cout' = o
       /\ cerr' = IF c.fd # OPENLOSS THEN c.fd ELSE cerr
       /\ fcb' = IF c.fd # OPENLOSS /\ ClosesCerr(o, cerr) THEN ClosedFcb(c.fcb, cerr) ELSE c.fcb
       /\ itsopen' = c.its
       /\ nocore' = (a.nocore \/ b.nocore \/ c.nocore)
  /\ UNCHANGED <<ttyin, ttyout>>
-----------------------------------------------------------------------------
(* setappend.  The file is the characters written to it, each with the job *)
(* that wrote it: "me" or another; it may not be there, and other jobs may *)
(* make it, append to it and delete it.                                    *)
Words(s) == (Len(s) + WordChars - 1) \div WordChars
LastWord(s) == SubSeq(s, (Words(s) - 1) * WordChars + 1, Len(s))
WholeWords(s) == SubSeq(s, 1, (Words(s) - 1) * WordChars)

\* Mutant: the length is not looked at again.
SameLengthAny == TRUE

SameLength == wordlen = Words(file)

(* Each of the three opens may find that there is no file: then copen      *)
(* opens one to write, without looking again.                              *)
NotFound == ~there /\ apc' = "create" /\ UNCHANGED <<wordlen, abuf, ntry>>
fileSame == <<file, there>>

fillen ==
  /\ apc = "idle" /\ ntry < Tries
  /\ fresh' = FALSE
  /\ \/ NotFound
     \/ there /\ apc' = "read" /\ wordlen' = Words(file) /\ UNCHANGED <<abuf, ntry>>
  /\ UNCHANGED fileSame

readLast ==
  /\ apc = "read"
  /\ \/ NotFound
     \/ /\ there /\ apc' = "open"
        /\ abuf' = (IF file = <<>> THEN <<>> ELSE LastWord(file)) /\ UNCHANGED <<wordlen, ntry>>
  /\ UNCHANGED <<fileSame, fresh>>

openAppend ==
  /\ apc = "open"
  /\ \/ NotFound
     \/ there /\ SameLength /\ apc' = "mine" /\ UNCHANGED <<wordlen, abuf, ntry>>
     \/ there /\ ~SameLength /\ apc' = "idle" /\ ntry' = ntry + 1 /\ UNCHANGED <<wordlen, abuf>>
  /\ UNCHANGED <<fileSame, fresh>>

Appended(s) == file' = s /\ there' = TRUE /\ apc' = "idle" /\ ntry' = 0 /\ UNCHANGED <<wordlen, abuf, fresh>>

(* copen writes the characters it has read over the last word, and then    *)
(* come those of the program; the file is closed.                          *)
writeAppend ==
  /\ apc = "mine" /\ Len(file) < MaxFile
  /\ Appended((IF file = <<>> THEN <<>> ELSE WholeWords(file)) \o abuf \o <<"me">>)

writeNew == apc = "create" /\ Appended(<<"me">>)

\* An open fails in another way, or setappend has tried often enough.
copenFails ==
  /\ apc \in {"read", "open", "create"} \/ (apc = "idle" /\ ntry = Tries)
  /\ apc' = "idle" /\ ntry' = 0
  /\ UNCHANGED <<fileSame, wordlen, abuf, fresh>>

mySame == <<apc, wordlen, abuf, ntry>>
otherAppends ==
  /\ apc # "mine" /\ there /\ Len(file) < MaxFile
  /\ \E n \in 1 .. WordChars : file' = file \o [i \in 1 .. n |-> "other"]
  /\ UNCHANGED <<mySame, there, fresh>>

otherMakes ==
  /\ apc # "mine" /\ ~there
  /\ there' = TRUE /\ file' = <<"other">> /\ fresh' = TRUE
  /\ UNCHANGED mySame

otherDeletes ==
  /\ apc # "mine" /\ there
  /\ there' = FALSE /\ file' = <<>>
  /\ UNCHANGED <<mySame, fresh>>
-----------------------------------------------------------------------------
(* Pages.                                                                  *)
Used(p) == page_table[p] # 0 \/ p \in exists
Fits(p, n) == \A i \in p .. p + n - 1 : ~Used(i)
Runs(n) == {p \in first_free_page .. NPages - n : Fits(p, n)}

\* Mutant: the first free page moves past a hole that was too small.
PassedNone(page, n) == TRUE

(* The free pages pg_get has looked at, when it takes n of them at page,   *)
(* are those it takes.                                                     *)
Passed(page, n) == \A p \in first_free_page .. page - 1 : Used(p)

pg_get(n) ==
  IF n < 1 \/ n > NPages - 2 \/ Runs(n) = {}
  THEN maps' = maps /\ UNCHANGED <<page_table, first_free_page>>
  ELSE LET page == Min(Runs(n)) IN
       /\ page_table' = [p \in DOMAIN page_table |->
                          IF p \in page .. page + n - 1 THEN -1
                          ELSE IF p \in first_free_page .. page - 1 /\ page_table[p] = 0
                                  /\ p \in exists THEN 1 ELSE page_table[p]]
       /\ first_free_page' = IF Passed(page, n) THEN page + n ELSE first_free_page
       /\ maps' = maps \union {<<page, n>>}

(* filmap maps n pages of a file, or fewer when there is an error on the   *)
(* way: the pages are held all the same.                                   *)
filmap ==
  /\ \E n \in 1 .. NPages : \E k \in 0 .. n :
       /\ pg_get(n)
       /\ exists' = exists \union UNION {m[1] .. m[1] + k - 1 : m \in maps' \ maps}
  /\ UNCHANGED <<fcbVars, appendVars>>

pg_ret(page, n) ==
  IF n < 1 \/ page <= 0 \/ page + n > NPages THEN UNCHANGED pageVars
  ELSE /\ first_free_page' = IF page < first_free_page THEN page ELSE first_free_page
       /\ page_table' = [p \in DOMAIN page_table |->
                          IF p \in page .. page + n - 1 THEN 0 ELSE page_table[p]]
       /\ exists' = exists \ (page .. page + n - 1)
       /\ maps' = maps \ {<<page, n>>}

filunmap ==
  /\ \E m \in maps : pg_ret(m[1], m[2])
  /\ UNCHANGED <<fcbVars, appendVars>>

FcbNext == (copen \/ cclose \/ setdev \/ fxarg_open) /\ UNCHANGED <<appendVars, pageVars>>
AppendNext ==
  /\ \/ fillen \/ readLast \/ openAppend \/ writeAppend \/ writeNew \/ copenFails
     \/ otherAppends \/ otherMakes \/ otherDeletes
  /\ UNCHANGED <<fcbVars, pageVars>>
PageNext == filmap \/ filunmap
-----------------------------------------------------------------------------
(* No file that is open has lost its channel to another, or to a close of  *)
(* another or of the terminal.                                             *)
OpenFiles == {i \in 1 .. NCHANNEL : fcb[i].open /\ fcb[i].kind = "file"}
ChannelsOwned ==
  /\ \A i \in OpenFiles : fcb[i].chan \in itsopen \ {ttyin, ttyout}
  /\ \A i, j \in OpenFiles : i # j => fcb[i].chan # fcb[j].chan

(* Every channel that is open belongs to a file that is open or to the     *)
(* terminal, whichever way copen failed; but when there was no core for    *)
(* the buffer, copen has forgotten the channel.                            *)
ChannelsReturned ==
  ~nocore => itsopen \subseteq {fcb[i].chan : i \in OpenFiles} \union {ttyin, ttyout}

(* When a program starts, its input can be read and its output and error   *)
(* messages written, whichever of the three it asked to be elsewhere.      *)
StartsWithChannels ==
  ~started => /\ fcb[cin].open /\ ~fcb[cin].write
              /\ \A o \in {cout, cerr} : fcb[o].open /\ fcb[o].write
StandardChannels ==
  [][started' /\ ~started => (StartsWithChannels /\ fcb'[cin'].open /\ ~fcb'[cin'].write
     /\ \A o \in {cout', cerr'} : fcb'[o].open /\ fcb'[o].write)]_cioVars

(* When copen writes over the last word of the file, what it has read is   *)
(* how that word begins, so that of what another job has appended it loses *)
(* only what was added to that same word after it was read; and when it    *)
(* opens the file to write it as a new one, it replaces none.  But nothing *)
(* protects a file that another job makes after setappend has looked.      *)
AppendSound ==
  ~fresh => /\ apc = "mine" /\ file # <<>> => IsPrefix(abuf, LastWord(file))
            /\ apc = "mine" => there
            /\ apc = "create" => ~there

(* Pages given out do not overlap, and there is no page to be had before   *)
(* the first free page: pg_get fails only when there is no room.           *)
PagesSound ==
  /\ \A a, b \in maps : a # b => (a[1] .. a[1] + a[2] - 1) \intersect (b[1] .. b[1] + b[2] - 1) = {}
  /\ \A p \in 0 .. first_free_page - 1 : Used(p)
  /\ \A m \in maps : \A p \in m[1] .. m[1] + m[2] - 1 : page_table[p] = -1

(* Channels, the words of a file that several append to, and pages are     *)
(* nobody else's and come back, and a program starts with its channels.    *)
FilesKept == [](ChannelsOwned /\ ChannelsReturned /\ AppendSound /\ PagesSound) /\ StandardChannels
=============================================================================
