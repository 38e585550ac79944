---------------------------- MODULE Clib_proofs ----------------------------
(***************************************************************************)
(* Proofs about the parts of the C library and of the shell that are       *)
(* machines of their own: the shell's stack of command sources, character  *)
(* arrays, the terminal's output buffer and line editor, the shell's ring  *)
(* of jobs, and IPAK.                                                      *)
(***************************************************************************)
EXTENDS ShellInput, CharArray, TtyIO, RingLife, Ipak, FiniteSetTheorems,
        FunctionTheorems, SequenceTheorems, TLAPS

-----------------------------------------------------------------------------
(* The sources of the shell's commands: what is open is what the stack     *)
(* holds.  A ^G may leave push and pop in the middle; as long as none has, *)
(* the stack is that from before a push or from after a pop, Whole.        *)
Chan == Streams \union {TTYINPUT, VALINPUT, NoInput, Free}
Text0 == Strings \union {Free}
Stacks == [infile : Chan, inptr : Text0, incnt : 0 .. max_files - 1,
           instk : [0 .. max_files -> Chan], inpts : [0 .. max_files -> Text0],
           inval : [0 .. max_files -> Text0]]

(* The source that is read is on the top of the stack, but that the        *)
(* terminal is not entered there until something is pushed above it.       *)
Top(s) ==
  /\ s.incnt = 0 => s.infile = NoInput
  /\ s.incnt > 0 =>
       s.infile = s.instk[s.incnt] \/ (s.incnt = 1 /\ s.infile = TTYINPUT /\ s.instk[1] = 0)
  /\ s.incnt > 1 /\ s.infile = VALINPUT => s.inptr = s.inval[s.incnt]

Below(s) ==
  /\ s.incnt > 0 => s.instk[1] # VALINPUT
  /\ \A i \in 2 .. s.incnt : s.instk[i] \in Streams \union {VALINPUT}
  /\ \A i \in 2 .. s.incnt : s.instk[i] = VALINPUT => s.inval[i] \in Strings /\ s.inpts[i] = s.inval[i]
  /\ \A i, k \in 1 .. s.incnt : i # k /\ s.instk[i] = s.instk[k] => s.instk[i] \notin Streams
  /\ \A i, k \in 2 .. s.incnt : i # k /\ s.instk[i] = VALINPUT /\ s.instk[k] = VALINPUT
                                => s.inval[i] # s.inval[k]

Sound(s) == s \in Stacks /\ Top(s) /\ Below(s)
OnStack(s) == {s.instk[i] : i \in 1 .. s.incnt} \intersect Streams
Strung(s) == {k \in 2 .. s.incnt : s.instk[k] = VALINPUT}
TextsOf(s) == {s.inval[i] : i \in Strung(s)}

Popped(s) == TakenUp(Entered(Lowered(s)))
Unpushed(s) == [s EXCEPT !.incnt = @ - 1, !.infile = s.instk[s.incnt - 1], !.inptr = s.inpts[s.incnt - 1]]
Whole ==
  IF mid \in {"saved", "headed"} THEN Unpushed(inp)
  ELSE IF mid = "copied" THEN Handed(inp, iarg)
  ELSE IF mid = "closed" THEN Popped(inp)
  ELSE IF mid = "lowered" THEN TakenUp(Entered(inp))
  ELSE IF mid = "entered below" THEN TakenUp(inp)
  ELSE inp

(* What a command holds beside the stack.                                  *)
HeldNow == IF ipc # "error" THEN {iarg} \intersect Streams ELSE {}
ArgInv ==
  /\ ipc \in {"doinit", "maktag", "push", "refused", "main", "error", "xfile", "cat", "typfil", "typing"}
  /\ ipc \in {"doinit", "maktag", "main", "xfile", "cat"} => iarg = Free
  /\ ipc = "push" /\ mid # "copied" => iarg \in Streams \union {VALINPUT}
  /\ ipc = "push" /\ mid = "no" /\ iarg = VALINPUT => inp.incnt > 0
  /\ ipc = "push" /\ mid \in {"saved", "headed"} /\ iarg = VALINPUT => inp.incnt > 1
  /\ mid = "copied" => iarg \in Text0
  /\ ipc = "refused" => iarg \in Streams \union {VALINPUT}
  /\ ipc = "error" => iarg \in 1 .. 2
  /\ ipc \in {"typfil", "typing"} => iarg \in Streams
  /\ restarted \in BOOLEAN /\ torn \in BOOLEAN /\ (torn => restarted) /\ tagged \in BOOLEAN /\ g2s \in 0 .. 1

(* Where push and pop may be, and what is set there.                       *)
MidInv ==
  /\ mid \in {"no", "saved", "headed", "copied", "closed", "lowered", "entered below"}
  /\ mid \in {"saved", "headed", "copied"} => ipc = "push" /\ inp.incnt > 0
  /\ mid = "headed" => inp.infile = iarg /\ inp.instk[inp.incnt] = iarg
  /\ mid \in {"closed", "lowered", "entered below"} => ipc \in {"main", "error", "refused"}
  /\ mid \in {"closed", "entered below"} => inp.incnt > 0
  /\ mid = "no" /\ ipc = "error" /\ inp.incnt = 0 => inp.infile = NoInput

KeptInv ==
  /\ Sound(Whole)
  /\ OnStack(Whole) \union HeldNow \subseteq chans
  /\ OnStack(Whole) \intersect HeldNow = {}
  /\ ~restarted => chans = OnStack(Whole) \union HeldNow
  /\ heap = TextsOf(Whole)

TypedInv == inp \in Stacks /\ chans \subseteq Streams /\ heap \subseteq Strings /\ ArgInv /\ MidInv

InputInv == TypedInv /\ (~torn => KeptInv)

(* The inductive invariant of the command sources gives the property.      *)
LEMMA InputInvImplies == InputInv => InputKept
<1> SUFFICES ASSUME InputInv PROVE InputKept
  OBVIOUS
<1> USE InputAssumption
<1>1. InputTypeOK
  BY DEF InputInv, TypedInv, Stacks, ArgInv, InputTypeOK
<1>2. ~torn /\ mid = "no" => KeptInv /\ Whole = inp
  BY DEF InputInv, Whole
<1>3. ~restarted => ~torn
  BY DEF InputInv, TypedInv, ArgInv
<1>4. SourcesHeld
  <2> SUFFICES ASSUME ~restarted, mid = "no" PROVE SourcesHeld
    BY DEF SourcesHeld
  <2> QED BY <1>2, <1>3 DEF KeptInv, OnStack, TextsOf, Strung, HeldNow, Stacked, SourcesHeld
<1>5. ReadsOwnString
  <2> SUFFICES ASSUME ~torn, mid = "no", inp.incnt > 1
               PROVE  (inp.infile = inp.instk[inp.incnt] /\ (inp.infile = VALINPUT => inp.inptr = inp.inval[inp.incnt]))
                      /\ SourceOpen
    BY DEF ReadsOwnString
  <2>1. Sound(inp) /\ OnStack(inp) \subseteq chans /\ heap = TextsOf(inp)
    BY <1>2 DEF KeptInv
  <2>2. inp.incnt \in Nat
    BY <2>1 DEF Sound, Stacks
  <2>3. inp.infile = inp.instk[inp.incnt] /\ (inp.infile = VALINPUT => inp.inptr = inp.inval[inp.incnt])
    BY <2>1, <2>2 DEF Sound, Top
  <2>4. inp.incnt \in 2 .. inp.incnt /\ inp.incnt \in 1 .. inp.incnt
    BY <2>2
  <2>5. inp.infile \in Streams \union {VALINPUT}
    BY <2>1, <2>3, <2>4 DEF Sound, Below
  <2>6. CASE inp.infile = VALINPUT
    BY <2>1, <2>3, <2>4, <2>6 DEF SourceOpen, Source, TextsOf, Strung
  <2>7. CASE inp.infile # VALINPUT
    BY <2>1, <2>3, <2>4, <2>5, <2>7 DEF SourceOpen, Source, OnStack
  <2> QED BY <2>3, <2>5, <2>6, <2>7
<1> QED BY <1>1, <1>4, <1>5 DEF InputKept

(* It holds when the shell starts.                                         *)
LEMMA InputInvInit == InputInit => InputInv
<1> SUFFICES ASSUME InputInit PROVE InputInv
  OBVIOUS
<1> USE InputAssumption DEF InputInit
<1>1. inp \in Stacks
  BY DEF Stacks, Chan, Text0, Free
<1>2. Sound(inp)
  BY <1>1 DEF InputInit, Sound, Top, Below, VALINPUT
<1>3. ArgInv
  <2>1. ipc = "doinit" /\ iarg = Free /\ restarted = FALSE /\ g2s = 0 /\ torn = FALSE /\ tagged = FALSE /\ mid = "no"
    BY DEF InputInit
  <2>2. g2s \in 0 .. 1
    BY <2>1
  <2> QED BY <2>1, <2>2, Zenon DEF ArgInv
<1>4. MidInv
  BY DEF InputInit, MidInv
<1>5. Whole = inp
  BY DEF InputInit, Whole
<1>6. chans = {} /\ heap = {} /\ OnStack(inp) = {} /\ HeldNow = {} /\ TextsOf(inp) = {}
  BY DEF InputInit, OnStack, HeldNow, TextsOf, Strung, Free
<1>7. KeptInv
  BY <1>2, <1>5, <1>6 DEF KeptInv
<1> QED BY <1>1, <1>3, <1>4, <1>6, <1>7 DEF InputInv, TypedInv

\* The steps of pop keep the form of the record.
LEMMA StepTypes ==
  ASSUME NEW s \in Stacks
  PROVE  /\ s.incnt \in 0 .. max_files - 1 /\ max_files \in Nat /\ max_files >= 2
         /\ s.incnt > 0 => Lowered(s) \in Stacks /\ Lowered(s).incnt = s.incnt - 1
         /\ Entered(s) \in Stacks /\ Entered(s).incnt = s.incnt
         /\ s.incnt = 0 => Entered(s).infile = NoInput
         /\ TakenUp(s) \in Stacks /\ TakenUp(s).incnt = s.incnt
<1> USE InputAssumption DEF Stacks
<1>1. s.incnt \in 0 .. max_files - 1 /\ max_files \in Nat /\ max_files >= 2
  OBVIOUS
<1>2. s.incnt > 0 => Lowered(s) \in Stacks /\ Lowered(s).incnt = s.incnt - 1
  <2>1. s.incnt > 0 => s.incnt - 1 \in 0 .. max_files - 1
    BY <1>1
  <2>2. Lowered(s) = [s EXCEPT !.incnt = s.incnt - 1]
    BY DEF Lowered
  <2> QED BY <2>1, <2>2
<1>3. s.incnt \in 0 .. max_files
  BY <1>1
<1>4. Entered(s) \in Stacks /\ Entered(s).incnt = s.incnt /\ (s.incnt = 0 => Entered(s).infile = NoInput)
  <2>1. (IF s.incnt > 0 THEN s.instk[s.incnt] ELSE NoInput) \in Chan
    BY <1>3 DEF Chan
  <2>2. Entered(s) = [s EXCEPT !.infile = IF s.incnt > 0 THEN s.instk[s.incnt] ELSE NoInput]
    BY DEF Entered
  <2>3. s.incnt = 0 => ~(s.incnt > 0)
    OBVIOUS
  <2> QED BY <2>1, <2>2, <2>3, <1>1
<1>5. TakenUp(s) \in Stacks /\ TakenUp(s).incnt = s.incnt
  <2>1. s.inpts[s.incnt] \in Text0
    BY <1>3
  <2> QED BY <2>1 DEF TakenUp
<1> QED BY <1>1, <1>2, <1>4, <1>5

\* What pop makes of the stack, field by field.
LEMMA PoppedIs ==
  ASSUME NEW s \in Stacks, s.incnt > 0
  PROVE  /\ Popped(s) \in Stacks /\ Popped(s).incnt = s.incnt - 1
         /\ Popped(s).instk = s.instk /\ Popped(s).inpts = s.inpts /\ Popped(s).inval = s.inval
         /\ s.incnt > 1 => Popped(s).infile = s.instk[s.incnt - 1] /\ Popped(s).inptr = s.inpts[s.incnt - 1]
         /\ s.incnt = 1 => Popped(s).infile = NoInput
<1> DEFINE a == Lowered(s)
           b == Entered(a)
<1>1. a \in Stacks /\ a.incnt = s.incnt - 1 /\ s.incnt \in Nat
  BY StepTypes
<1>2. a.instk = s.instk /\ a.inpts = s.inpts /\ a.inval = s.inval
  BY DEF Lowered, Stacks
<1>3. b \in Stacks /\ b.incnt = a.incnt /\ TakenUp(b) \in Stacks /\ TakenUp(b).incnt = a.incnt
  BY <1>1, StepTypes
<1>4. /\ b.instk = a.instk /\ b.inpts = a.inpts /\ b.inval = a.inval
      /\ b.infile = IF a.incnt > 0 THEN a.instk[a.incnt] ELSE NoInput
  <2> HIDE DEF a
  <2> QED BY <1>1 DEF Entered, Stacks
<1>5. /\ TakenUp(b).instk = b.instk /\ TakenUp(b).inpts = b.inpts /\ TakenUp(b).inval = b.inval
      /\ TakenUp(b).infile = b.infile
      /\ b.incnt > 0 => TakenUp(b).inptr = b.inpts[b.incnt]
  <2> HIDE DEF b
  <2> QED BY <1>3 DEF TakenUp, Stacks
<1>6. Popped(s) = TakenUp(b)
  BY DEF Popped
<1> HIDE DEF a, b
<1> QED BY <1>1, <1>2, <1>3, <1>4, <1>5, <1>6

(* The top is taken off.                                                   *)
LEMMA PopSound ==
  ASSUME NEW s, Sound(s), s.incnt > 0
  PROVE  /\ Sound(Popped(s)) /\ OnStack(Popped(s)) = OnStack(s) \ {s.infile}
         /\ s.infile \in Streams => s.infile \in OnStack(s)
         /\ TextsOf(Popped(s)) = IF s.infile = VALINPUT THEN TextsOf(s) \ {s.inval[s.incnt]} ELSE TextsOf(s)
<1> USE InputAssumption DEF Sound
<1> DEFINE n == s.incnt - 1
           t == Popped(s)
<1>0. s \in Stacks /\ s.incnt \in Nat /\ n \in Nat /\ s.incnt = n + 1 /\ s.incnt < max_files /\ max_files \in Nat
  BY DEF Stacks
<1>1. /\ t \in Stacks /\ t.incnt = n /\ t.instk = s.instk /\ t.inpts = s.inpts /\ t.inval = s.inval
      /\ n > 0 => t.infile = s.instk[n] /\ t.inptr = s.inpts[n]
      /\ n = 0 => t.infile = NoInput
  BY <1>0, PoppedIs
<1> HIDE DEF t
<1>2. Top(t)
  BY <1>0, <1>1 DEF Top, Below
<1>3. Below(t)
  BY <1>0, <1>1 DEF Below
<1>4. s.infile = s.instk[s.incnt] \/ (n = 0 /\ s.infile = TTYINPUT /\ s.instk[1] = 0)
  BY <1>0 DEF Top
<1>5. OnStack(t) = {s.instk[i] : i \in 1 .. n} \intersect Streams
  BY <1>1 DEF OnStack
<1>6. 1 .. s.incnt = (1 .. n) \union {s.incnt}
  BY <1>0
<1>7. OnStack(t) = OnStack(s) \ {s.infile} /\ (s.infile \in Streams => s.infile \in OnStack(s))
  <2>1. CASE s.infile = s.instk[s.incnt]
    <3>1. \A i \in 1 .. n : s.instk[i] \in Streams => s.instk[i] # s.infile
      BY <2>1, <1>0 DEF Below
    <3> HIDE DEF n
    <3> QED BY <2>1, <1>5, <1>6, <3>1 DEF OnStack
  <2>2. CASE n = 0 /\ s.infile = TTYINPUT /\ s.instk[1] = 0
    <3>1. 1 .. n = {} /\ s.incnt = 1
      BY <2>2, <1>0
    <3>2. \A i \in 1 .. s.incnt : s.instk[i] \notin Streams
      BY <2>2, <3>1 DEF Free
    <3>3. OnStack(s) = {}
      BY <3>2 DEF OnStack
    <3> QED BY <2>2, <1>5, <3>1, <3>3
  <2> QED BY <1>4, <2>1, <2>2
<1>8. TextsOf(t) = IF s.infile = VALINPUT THEN TextsOf(s) \ {s.inval[s.incnt]} ELSE TextsOf(s)
  <2>1. Strung(t) = {k \in 2 .. n : s.instk[k] = VALINPUT} /\ TextsOf(t) = {s.inval[i] : i \in Strung(t)}
    BY <1>1 DEF Strung, TextsOf
  <2>2. CASE s.infile = VALINPUT
    <3>1. s.instk[s.incnt] = VALINPUT /\ s.incnt > 1
      BY <2>2, <1>0, <1>4 DEF Below, VALINPUT, TTYINPUT
    <3>2. \A k \in Strung(t) : s.inval[k] # s.inval[s.incnt]
      BY <3>1, <2>1, <1>0 DEF Below
    <3>3. Strung(s) = Strung(t) \union {s.incnt}
      BY <3>1, <2>1, <1>0 DEF Strung
    <3> QED BY <3>2, <3>3, <2>1, <2>2 DEF TextsOf
  <2>3. CASE s.infile # VALINPUT
    <3>1. Strung(t) = Strung(s)
      BY <2>3, <2>1, <1>0 DEF Strung, Top
    <3> QED BY <3>1, <2>1, <2>3 DEF TextsOf
  <2> QED BY <2>2, <2>3
<1> QED BY <1>1, <1>2, <1>3, <1>7, <1>8 DEF t

\* What push saves, field by field.
LEMMA SavedIs ==
  ASSUME NEW s \in Stacks, s.incnt < max_files - 1
  PROVE  /\ Saved(s) \in Stacks /\ Saved(s).incnt = s.incnt + 1
         /\ Saved(s).instk[s.incnt] = s.infile /\ Saved(s).inpts[s.incnt] = s.inptr
         /\ \A i \in 0 .. max_files : i # s.incnt => Saved(s).instk[i] = s.instk[i] /\ Saved(s).inpts[i] = s.inpts[i]
         /\ Saved(s).inval = s.inval /\ Saved(s).infile = s.infile /\ Saved(s).inptr = s.inptr
<1> USE DEF Stacks
<1>0. s.incnt \in 0 .. max_files - 1 /\ max_files \in Nat /\ s.incnt \in 0 .. max_files
  BY InputAssumption
<1>1. Saved(s) = [s EXCEPT !.instk = [s.instk EXCEPT ![s.incnt] = s.infile],
                           !.inpts = [s.inpts EXCEPT ![s.incnt] = s.inptr], !.incnt = s.incnt + 1]
  BY DEF Saved
<1>2. [s.instk EXCEPT ![s.incnt] = s.infile] \in [0 .. max_files -> Chan]
  BY <1>0, Zenon
<1>3. [s.inpts EXCEPT ![s.incnt] = s.inptr] \in [0 .. max_files -> Text0]
  BY <1>0, Zenon
<1>4. s.incnt + 1 \in 0 .. max_files - 1
  BY <1>0
<1>5. Saved(s) \in Stacks
  BY <1>1, <1>2, <1>3, <1>4
<1> QED BY <1>0, <1>1, <1>5

(* The source that is read is saved: the stack below is as it was.         *)
LEMMA SaveSound ==
  ASSUME NEW s, Sound(s), s.incnt < max_files - 1
  PROVE  /\ Saved(s) \in Stacks /\ Saved(s).incnt = s.incnt + 1
         /\ Sound(Unpushed(Saved(s))) /\ OnStack(Unpushed(Saved(s))) = OnStack(s)
         /\ TextsOf(Unpushed(Saved(s))) = TextsOf(s)
<1> USE InputAssumption DEF Sound
<1> DEFINE u == Saved(s)
           t == Unpushed(u)
           m == s.incnt
<1>0. s \in Stacks /\ m \in Nat /\ m + 1 \in Nat /\ m + 1 < max_files /\ max_files \in Nat /\ m + 1 - 1 = m
  BY DEF Stacks
<1>1. /\ u \in Stacks /\ u.incnt = m + 1
      /\ u.instk[m] = s.infile /\ u.inpts[m] = s.inptr
      /\ \A i \in 0 .. max_files : i # m => u.instk[i] = s.instk[i] /\ u.inpts[i] = s.inpts[i]
      /\ u.inval = s.inval
  BY SavedIs
<1>2. /\ t \in Stacks /\ t.incnt = m /\ t.infile = s.infile /\ t.inptr = s.inptr
      /\ t.instk = u.instk /\ t.inpts = u.inpts /\ t.inval = s.inval
  <2> HIDE DEF u
  <2>1. m \in 0 .. max_files - 1
    BY <1>0
  <2>2. t = [u EXCEPT !.incnt = m, !.infile = s.infile, !.inptr = s.inptr]
    <3>1. u.incnt - 1 = m /\ u.instk[u.incnt - 1] = s.infile /\ u.inpts[u.incnt - 1] = s.inptr
      BY <1>0, <1>1
    <3> HIDE DEF m
    <3> QED BY <3>1, <1>1 DEF Unpushed, Stacks
  <2>3. s.infile \in Chan /\ s.inptr \in Text0
    BY <1>0 DEF Stacks
  <2> HIDE DEF t, m
  <2> QED BY <1>1, <2>1, <2>2, <2>3 DEF Stacks
<1> HIDE DEF u, t, m
<1>3. /\ t.incnt = m /\ s.incnt = m /\ t.infile = s.infile /\ t.inptr = s.inptr /\ t.inval = s.inval
      /\ t.instk[m] = s.infile /\ t.inpts[m] = s.inptr
      /\ \A i \in 0 .. max_files : i # m => t.instk[i] = s.instk[i] /\ t.inpts[i] = s.inpts[i]
  BY <1>1, <1>2 DEF m
<1>4. m > 0 => s.infile = s.instk[m] \/ (m = 1 /\ s.infile = TTYINPUT /\ s.instk[1] = 0)
  BY <1>0, <1>3 DEF Top
<1>5. \A i \in 1 .. m : t.instk[i] = s.instk[i] \/ (i = 1 /\ t.instk[i] = TTYINPUT /\ s.instk[i] = 0)
  <2> SUFFICES ASSUME NEW i \in 1 .. m
               PROVE  t.instk[i] = s.instk[i] \/ (i = 1 /\ t.instk[i] = TTYINPUT /\ s.instk[i] = 0)
    OBVIOUS
  <2>1. m > 0 /\ i \in 0 .. max_files
    BY <1>0
  <2>2. CASE i = m
    BY <2>1, <2>2, <1>3, <1>4
  <2>3. CASE i # m
    BY <2>1, <2>3, <1>3
  <2> QED BY <2>2, <2>3
<1>6. TTYINPUT \notin Streams /\ VALINPUT \notin Streams /\ 0 \notin Streams /\ TTYINPUT # VALINPUT /\ 0 # VALINPUT
  BY DEF Free, TTYINPUT, VALINPUT
<1>7. \A i \in 2 .. m : t.instk[i] = s.instk[i] /\ (s.instk[i] = VALINPUT => t.inpts[i] = s.inpts[i])
  BY <1>0, <1>3, <1>4 DEF Top, Below
<1>8. Top(t)
  BY <1>0, <1>3, <1>4 DEF Top
<1>9. Below(t)
  <2>1. m > 0 => t.instk[1] # VALINPUT
    BY <1>0, <1>3, <1>5, <1>6 DEF Below
  <2>2. \A i \in 2 .. m : t.instk[i] \in Streams \union {VALINPUT}
    BY <1>3, <1>7 DEF Below
  <2>3. \A i \in 2 .. m : t.instk[i] = VALINPUT => t.inval[i] \in Strings /\ t.inpts[i] = t.inval[i]
    BY <1>3, <1>7 DEF Below
  <2>4. \A i, k \in 1 .. m : i # k /\ t.instk[i] = t.instk[k] => t.instk[i] \notin Streams
    <3>1. \A i \in 1 .. m : t.instk[i] \in Streams => t.instk[i] = s.instk[i]
      BY <1>5, <1>6
    <3> QED BY <1>3, <3>1 DEF Below
  <2>5. \A i, k \in 2 .. m : i # k /\ t.instk[i] = VALINPUT /\ t.instk[k] = VALINPUT => t.inval[i] # t.inval[k]
    BY <1>3, <1>7 DEF Below
  <2> QED BY <1>3, <2>1, <2>2, <2>3, <2>4, <2>5 DEF Below
<1>10. OnStack(t) = OnStack(s)
  <2>1. \A i \in 1 .. m : (t.instk[i] \in Streams \/ s.instk[i] \in Streams) => t.instk[i] = s.instk[i]
    BY <1>5, <1>6
  <2> QED BY <1>3, <2>1 DEF OnStack
<1>11. TextsOf(t) = TextsOf(s)
  <2>1. Strung(t) = Strung(s)
    BY <1>3, <1>7 DEF Strung
  <2> QED BY <1>3, <2>1 DEF TextsOf
<1> QED BY <1>1, <1>2, <1>8, <1>9, <1>10, <1>11 DEF u, t, m

\* The new source in its place above changes nothing below.
LEMMA HeadSound ==
  ASSUME NEW s \in Stacks, s.incnt > 0, NEW fd \in Chan
  PROVE  /\ Headed(s, fd) \in Stacks /\ Headed(s, fd).incnt = s.incnt
         /\ Headed(s, fd).infile = fd /\ Headed(s, fd).instk[s.incnt] = fd
         /\ Sound(Unpushed(s)) => Sound(Unpushed(Headed(s, fd)))
         /\ OnStack(Unpushed(Headed(s, fd))) = OnStack(Unpushed(s))
         /\ TextsOf(Unpushed(Headed(s, fd))) = TextsOf(Unpushed(s))
<1> USE InputAssumption
<1> DEFINE u == Headed(s, fd)
           t == Unpushed(u)
           b == Unpushed(s)
           n == s.incnt
<1>0. n \in Nat /\ n - 1 \in Nat /\ n < max_files /\ max_files \in Nat /\ n \in 0 .. max_files
      /\ n - 1 \in 0 .. max_files /\ n - 1 \in 0 .. max_files - 1 /\ n # n - 1
  BY DEF Stacks
<1>1. /\ u \in Stacks /\ u.incnt = n /\ u.infile = fd /\ u.instk[n] = fd
      /\ \A i \in 0 .. max_files : i # n => u.instk[i] = s.instk[i]
      /\ u.inpts = s.inpts /\ u.inval = s.inval
  <2>1. u = [s EXCEPT !.infile = fd, !.instk = [s.instk EXCEPT ![n] = fd]]
    BY DEF Headed
  <2>2. [s.instk EXCEPT ![n] = fd] \in [0 .. max_files -> Chan]
    BY <1>0, Zenon DEF Stacks
  <2> HIDE DEF n
  <2> QED BY <1>0, <2>1, <2>2 DEF Stacks, n
<1>2. /\ b \in Stacks /\ b.incnt = n - 1 /\ b.infile = s.instk[n - 1] /\ b.inptr = s.inpts[n - 1]
      /\ b.instk = s.instk /\ b.inpts = s.inpts /\ b.inval = s.inval
  BY <1>0 DEF Unpushed, Stacks
<1>3. /\ t \in Stacks /\ t.incnt = n - 1 /\ t.infile = u.instk[n - 1] /\ t.inptr = u.inpts[n - 1]
      /\ t.instk = u.instk /\ t.inpts = u.inpts /\ t.inval = u.inval
  <2> HIDE DEF u
  <2> QED BY <1>0, <1>1 DEF Unpushed, Stacks
<1> HIDE DEF u, t, b, n
<1>4. /\ t.incnt = b.incnt /\ t.infile = b.infile /\ t.inptr = b.inptr /\ t.inpts = b.inpts /\ t.inval = b.inval
      /\ b.incnt = n - 1 /\ \A i \in 0 .. n - 1 : t.instk[i] = b.instk[i]
  BY <1>0, <1>1, <1>2, <1>3
<1>5. OnStack(t) = OnStack(b) /\ TextsOf(t) = TextsOf(b)
  <2>1. Strung(t) = Strung(b)
    BY <1>0, <1>4 DEF Strung
  <2>2. \A i \in 1 .. n - 1 : t.instk[i] = b.instk[i]
    BY <1>0, <1>4
  <2> QED BY <1>4, <2>1, <2>2 DEF OnStack, TextsOf
<1>6. ASSUME Sound(b) PROVE Sound(t)
  <2>1. Top(t)
    BY <1>0, <1>4, <1>6 DEF Top, Sound
  <2>2. Below(t)
    <3>1. n - 1 > 0 => t.instk[1] # VALINPUT
      BY <1>0, <1>4, <1>6 DEF Sound, Below
    <3> QED BY <3>1, <1>0, <1>4, <1>6 DEF Sound, Below
  <2> QED BY <1>3, <2>1, <2>2 DEF Sound
<1> QED BY <1>1, <1>5, <1>6 DEF u, t, b, n

(* The source and its string are on the stack.                             *)
LEMMA HandSound ==
  ASSUME NEW s \in Stacks, s.incnt > 0, Sound(Unpushed(s)), NEW p \in Text0,
         s.infile = s.instk[s.incnt], s.infile \in Streams \union {VALINPUT},
         s.infile \notin OnStack(Unpushed(s)),
         s.infile = VALINPUT => s.incnt > 1 /\ p \in Strings /\ p \notin TextsOf(Unpushed(s))
  PROVE  /\ Sound(Handed(s, p))
         /\ OnStack(Handed(s, p)) = OnStack(Unpushed(s)) \union ({s.infile} \intersect Streams)
         /\ TextsOf(Handed(s, p)) = IF s.infile = VALINPUT THEN TextsOf(Unpushed(s)) \union {p}
                                                           ELSE TextsOf(Unpushed(s))
<1> USE InputAssumption
<1> DEFINE n == s.incnt
           b == Unpushed(s)
           t == Handed(s, p)
           fd == s.infile
<1>0. n \in Nat /\ n > 0 /\ n - 1 \in Nat /\ n < max_files /\ max_files \in Nat /\ n \in 0 .. max_files /\ VALINPUT \notin Streams
  BY DEF Stacks
<1>1. /\ b \in Stacks /\ b.incnt = n - 1 /\ b.instk = s.instk /\ b.inpts = s.inpts /\ b.inval = s.inval
  BY DEF Unpushed, Stacks, Sound
<1>2. /\ t \in Stacks /\ t.incnt = n /\ t.infile = fd /\ t.instk = s.instk /\ t.inptr = p
      /\ t.inpts[n] = p /\ t.inval[n] = p
      /\ \A i \in 0 .. max_files : i # n => t.inpts[i] = s.inpts[i] /\ t.inval[i] = s.inval[i]
  <2>1. t = [s EXCEPT !.inptr = p, !.inpts = [s.inpts EXCEPT ![n] = p], !.inval = [s.inval EXCEPT ![n] = p]]
    BY DEF Handed
  <2>2. [s.inpts EXCEPT ![n] = p] \in [0 .. max_files -> Text0] /\ [s.inval EXCEPT ![n] = p] \in [0 .. max_files -> Text0]
    <3>1. s.inpts \in [0 .. max_files -> Text0] /\ s.inval \in [0 .. max_files -> Text0]
      BY DEF Stacks
    <3> HIDE DEF n
    <3> QED BY <3>1, Zenon
  <2> HIDE DEF n, t
  <2> QED BY <1>0, <2>1, <2>2 DEF Stacks, n
<1>3. Top(b) /\ Below(b) /\ fd = s.instk[n]
  BY DEF Sound
<1> HIDE DEF n, b, t
<1>4. \A i \in 1 .. n : i # n => i \in 1 .. n - 1 /\ i \in 0 .. max_files
  BY <1>0
<1>5. \A i \in 2 .. n : i # n => i \in 2 .. n - 1 /\ i \in 0 .. max_files
  BY <1>0
<1>6. Top(t)
  BY <1>0, <1>2, <1>3 DEF Top
<1>7. Below(t)
  <2>1. t.instk[1] # VALINPUT
    <3>1. CASE n = 1
      BY <3>1, <1>2, <1>3 DEF n
    <3>2. CASE n > 1
      BY <3>2, <1>0, <1>1, <1>2, <1>3 DEF Below
    <3> QED BY <3>1, <3>2, <1>0
  <2>2. \A i \in 2 .. n : t.instk[i] \in Streams \union {VALINPUT}
    BY <1>5, <1>1, <1>2, <1>3 DEF Below
  <2>3. \A i \in 2 .. n : t.instk[i] = VALINPUT => t.inval[i] \in Strings /\ t.inpts[i] = t.inval[i]
    BY <1>5, <1>1, <1>2, <1>3 DEF Below
  <2>4. \A i, k \in 1 .. n : i # k /\ t.instk[i] = t.instk[k] => t.instk[i] \notin Streams
    <3>1. \A i \in 1 .. n : i # n /\ t.instk[i] \in Streams => t.instk[i] # fd
      BY <1>4, <1>1, <1>2 DEF OnStack, b, fd
    <3> QED BY <3>1, <1>4, <1>1, <1>2, <1>3 DEF Below
  <2>5. \A i, k \in 2 .. n : i # k /\ t.instk[i] = VALINPUT /\ t.instk[k] = VALINPUT => t.inval[i] # t.inval[k]
    <3>1. fd = VALINPUT => \A i \in 2 .. n : i # n /\ t.instk[i] = VALINPUT => t.inval[i] # p
      BY <1>5, <1>1, <1>2 DEF TextsOf, Strung, b, fd
    <3> QED BY <3>1, <1>5, <1>1, <1>2, <1>3 DEF Below
  <2> QED BY <1>2, <2>1, <2>2, <2>3, <2>4, <2>5 DEF Below
<1>8. OnStack(t) = OnStack(b) \union ({fd} \intersect Streams)
  <2>1. 1 .. n = (1 .. n - 1) \union {n}
    BY <1>0
  <2> QED BY <2>1, <1>1, <1>2, <1>3 DEF OnStack
<1>9. TextsOf(t) = IF fd = VALINPUT THEN TextsOf(b) \union {p} ELSE TextsOf(b)
  <2>1. \A i \in Strung(b) : i \in 2 .. n - 1 /\ t.inval[i] = b.inval[i]
    BY <1>0, <1>1, <1>2 DEF Strung
  <2>2. CASE fd = VALINPUT
    <3>1. n \in 2 .. n
      BY <2>2, <1>0 DEF n
    <3>2. Strung(t) = Strung(b) \union {n}
      BY <2>2, <3>1, <1>0, <1>1, <1>2, <1>3 DEF Strung
    <3> QED BY <2>1, <2>2, <3>2, <1>2 DEF TextsOf
  <2>3. CASE fd # VALINPUT
    <3>1. Strung(t) = Strung(b)
      BY <2>3, <1>0, <1>1, <1>2, <1>3 DEF Strung
    <3> QED BY <2>1, <2>3, <3>1 DEF TextsOf
  <2> QED BY <2>2, <2>3
<1> QED BY <1>2, <1>6, <1>7, <1>8, <1>9 DEF t, b, Sound

\* The stack is left alone between operations.
LEMMA StackSame ==
  ASSUME InputInv, UNCHANGED <<inp, heap, mid, torn>>, mid = "no"
  PROVE  /\ Whole' = Whole /\ inp' \in Stacks /\ heap' \subseteq Strings
         /\ ~torn' => /\ Sound(Whole') /\ OnStack(Whole') = OnStack(Whole) /\ heap' = TextsOf(Whole') /\ KeptInv
<1>1. Whole' = inp' /\ Whole = inp
  BY DEF Whole
<1> QED BY <1>1 DEF InputInv, TypedInv, KeptInv

(* A channel that is opened is on no stack.                                *)
LEMMA OpensKeeps ==
  ASSUME InputInv, UNCHANGED <<inp, heap, mid, restarted, tagged, torn>>, ipc # "error", iarg = Free, mid = "no",
         NEW next \in {"push", "typfil"}, Opens(next)
  PROVE  InputInv'
<1> USE InputAssumption
<1>1. ArgInv'
  BY DEF Opens, Back, InputInv, TypedInv, ArgInv
<1>2. MidInv'
  BY DEF Opens, Back, InputInv, TypedInv, MidInv
<1>3. HeldNow = {}
  BY DEF HeldNow
<1>4. chans' \subseteq Streams
  BY DEF Opens, InputInv, TypedInv
<1>5. ASSUME ~torn' PROVE KeptInv'
  BY <1>3, <1>5, StackSame DEF KeptInv, Opens, HeldNow, Back
<1> QED BY <1>1, <1>2, <1>4, <1>5, StackSame DEF InputInv, TypedInv

(* What pop releases was held by the top of the stack alone.               *)
LEMMA PopStarts ==
  ASSUME InputInv, pop, mid = "no", inp.incnt > 0, UNCHANGED <<inp, restarted, torn>>,
         HeldNow' = HeldNow
  PROVE  (~torn' => KeptInv') /\ chans' \subseteq Streams /\ heap' \subseteq Strings
<1>1. chans' \subseteq Streams /\ heap' \subseteq Strings
  BY DEF InputInv, TypedInv, pop, CloseOrFree
<1>2. ASSUME ~torn' PROVE KeptInv'
  <2>1. KeptInv /\ Whole = inp /\ Whole' = Popped(inp)
    BY <1>2 DEF InputInv, Whole, pop
  <2>2. /\ Sound(Popped(inp)) /\ OnStack(Popped(inp)) = OnStack(inp) \ {inp.infile}
        /\ inp.infile \in Streams => inp.infile \in OnStack(inp)
        /\ TextsOf(Popped(inp)) = IF inp.infile = VALINPUT THEN TextsOf(inp) \ {inp.inval[inp.incnt]} ELSE TextsOf(inp)
    BY <2>1, PopSound DEF KeptInv
  <2>3. inp.infile \notin HeldNow
    BY <2>1, <2>2 DEF KeptInv, HeldNow
  <2> QED BY <2>1, <2>2, <2>3 DEF KeptInv, pop, CloseOrFree
<1> QED BY <1>1, <1>2

\* An error message starts to leave a string, or leaves the stack alone.
LEMMA EprintKeeps ==
  ASSUME InputInv, eprint, mid = "no", inp.infile = VALINPUT => inp.incnt > 0,
         UNCHANGED <<inp, restarted, torn>>, HeldNow' = HeldNow
  PROVE  (~torn' => KeptInv') /\ chans' \subseteq Streams /\ heap' \subseteq Strings /\ inp' \in Stacks
         /\ IF inp.infile = VALINPUT THEN mid' = "closed" ELSE mid' = "no"
<1>1. CASE inp.infile = VALINPUT
  BY <1>1, PopStarts DEF eprint, pop, InputInv, TypedInv
<1>2. CASE inp.infile # VALINPUT
  BY <1>2, StackSame DEF eprint, InputInv, TypedInv, KeptInv
<1> QED BY <1>1, <1>2

(* The end of a source is popped.                                          *)
LEMMA rdcomEndKeeps == ASSUME InputInv, rdcomEnd PROVE InputInv'
<1>1. /\ inp.incnt > 0 /\ pop /\ ipc = "main" /\ mid = "no" /\ mid' = "closed"
      /\ UNCHANGED <<inp, ipc, iarg, g2s, restarted, tagged, torn>>
  BY DEF rdcomEnd, Reading, pop, inputSame
<1>2. ArgInv' /\ MidInv'
  <2>1. ArgInv'
    BY <1>1 DEF InputInv, TypedInv, ArgInv
  <2>2. MidInv'
    BY <1>1 DEF InputInv, TypedInv, MidInv
  <2> QED BY <2>1, <2>2
<1>3. HeldNow' = HeldNow
  BY <1>1 DEF HeldNow
<1> QED BY <1>1, <1>2, <1>3, PopStarts DEF InputInv, TypedInv

(* An error message.                                                       *)
LEMMA errorStepKeeps == ASSUME InputInv, errorStep PROVE InputInv'
<1> USE InputAssumption
<1>1. /\ ipc = "error" /\ mid = "no" /\ eprint /\ UNCHANGED <<inp, g2s, restarted, tagged, torn>> /\ iarg \in 1 .. 2
      /\ IF iarg = 1 THEN ipc' = "main" /\ iarg' = Free ELSE ipc' = ipc /\ iarg' = iarg - 1
  BY DEF errorStep, inputSame, InputInv, TypedInv, ArgInv
<1>2. inp.infile = VALINPUT => inp.incnt > 0
  BY <1>1 DEF InputInv, TypedInv, MidInv, Stacks, NoInput, VALINPUT
<1>3. HeldNow = {} /\ HeldNow' = {}
  BY <1>1 DEF HeldNow
<1>4. (~torn' => KeptInv') /\ chans' \subseteq Streams /\ heap' \subseteq Strings /\ inp' \in Stacks
      /\ IF inp.infile = VALINPUT THEN mid' = "closed" ELSE mid' = "no"
  BY <1>1, <1>2, <1>3, EprintKeeps
<1>5. ipc' \in {"main", "error"} /\ (ipc' = "error" => iarg' \in 1 .. 2) /\ (ipc' = "main" => iarg' = Free)
  BY <1>1
<1>6. ArgInv'
  BY <1>1, <1>4, <1>5 DEF InputInv, TypedInv, ArgInv
<1>7. MidInv'
  BY <1>1, <1>2, <1>4, <1>5 DEF InputInv, TypedInv, MidInv
<1> QED BY <1>4, <1>6, <1>7 DEF InputInv, TypedInv

(* The steps of pop that follow leave the whole as it is.                  *)
LEMMA PopStepsKeep == ASSUME InputInv, popLowers \/ popEnters \/ popPlaces PROVE InputInv'
<1> USE InputAssumption
<1>1. UNCHANGED <<chans, heap, ipc, iarg, g2s, restarted, tagged, torn>>
  BY DEF popLowers, popEnters, popPlaces, popSame
<1>2. HeldNow' = HeldNow
  BY <1>1 DEF HeldNow
<1>3. /\ inp' \in Stacks /\ Whole' = Whole /\ mid # "copied" /\ mid' \notin {"copied", "saved", "headed", "closed"}
      /\ ipc \in {"main", "error", "refused"} /\ MidInv'
  <2>1. CASE popLowers
    <3>1. mid = "closed" /\ inp' = Lowered(inp) /\ mid' = "lowered" /\ inp.incnt > 0 /\ ipc \in {"main", "error", "refused"}
      BY <2>1 DEF popLowers, InputInv, TypedInv, MidInv
    <3>2. inp' \in Stacks
      BY <3>1, StepTypes DEF InputInv, TypedInv
    <3>3. Whole' = Whole
      BY <3>1 DEF Whole, Popped
    <3> QED BY <3>1, <3>2, <3>3, <1>1 DEF MidInv
  <2>2. CASE popEnters
    <3>1. /\ mid = "lowered" /\ inp' = Entered(inp) /\ ipc \in {"main", "error", "refused"}
          /\ mid' = IF inp.incnt > 0 THEN "entered below" ELSE "no"
      BY <2>2 DEF popEnters, InputInv, TypedInv, MidInv
    <3>2. inp' \in Stacks /\ inp'.incnt = inp.incnt /\ (inp.incnt = 0 => inp'.infile = NoInput) /\ inp.incnt \in Nat
      <4>1. inp \in Stacks
        BY DEF InputInv, TypedInv
      <4>2. Entered(inp) \in Stacks /\ Entered(inp).incnt = inp.incnt /\ (inp.incnt = 0 => Entered(inp).infile = NoInput)
        BY <4>1, StepTypes
      <4>3. inp.incnt \in Nat
        BY <4>1 DEF Stacks
      <4> QED BY <3>1, <4>2, <4>3
    <3>3. Whole = TakenUp(inp')
      BY <3>1 DEF Whole
    <3>4. ~(inp'.incnt > 0) => TakenUp(inp') = inp'
      BY DEF TakenUp
    <3>5. Whole' = Whole
      <4>1. CASE inp.incnt > 0
        BY <4>1, <3>1, <3>3 DEF Whole
      <4>2. CASE ~(inp.incnt > 0)
        BY <4>2, <3>1, <3>2, <3>3, <3>4 DEF Whole
      <4> QED BY <4>1, <4>2
    <3> QED BY <3>1, <3>2, <3>5, <1>1 DEF MidInv
  <2>3. CASE popPlaces
    <3>1. mid = "entered below" /\ inp' = TakenUp(inp) /\ mid' = "no" /\ inp.incnt > 0 /\ ipc \in {"main", "error", "refused"}
      BY <2>3 DEF popPlaces, InputInv, TypedInv, MidInv
    <3>2. inp' \in Stacks /\ inp'.incnt = inp.incnt
      BY <3>1, StepTypes DEF InputInv, TypedInv
    <3>3. Whole' = Whole
      BY <3>1 DEF Whole
    <3>4. inp'.incnt # 0
      <4>1. inp \in Stacks
        BY DEF InputInv, TypedInv
      <4>2. inp.incnt \in Nat
        BY <4>1 DEF Stacks
      <4>3. inp.incnt > 0
        BY <3>1
      <4>4. inp.incnt # 0
        BY <4>2, <4>3
      <4> QED BY <3>2, <4>4, Zenon
    <3>5. MidInv'
      BY <3>1, <3>4, <1>1 DEF MidInv
    <3> QED BY <3>1, <3>2, <3>3, <3>5
  <2> QED BY <2>1, <2>2, <2>3
<1>4. ArgInv'
  BY <1>1, <1>3 DEF InputInv, TypedInv, ArgInv
<1>5. ASSUME ~torn' PROVE KeptInv'
  BY <1>1, <1>2, <1>3, <1>5 DEF InputInv, KeptInv
<1> QED BY <1>1, <1>3, <1>4, <1>5 DEF InputInv, TypedInv

(* push starts: what is read is saved, or there is no room.                *)
LEMMA pushKeeps == ASSUME InputInv, push PROVE InputInv'
<1> USE InputAssumption
<1>1. /\ ipc = "push" /\ mid = "no" /\ UNCHANGED <<iarg, g2s, restarted, tagged, torn>>
      /\ inp \in Stacks /\ inp.incnt \in Nat /\ max_files \in Nat
      /\ iarg \in Streams \union {VALINPUT} /\ (iarg = VALINPUT => inp.incnt > 0)
  BY DEF push, inputSame, InputInv, TypedInv, ArgInv, Stacks
<1>2. CASE PushFails
  <2>1. eprint /\ ipc' = "refused" /\ inp' = inp
    BY <1>2 DEF push
  <2>2. inp.incnt > 0
    BY <1>1, <1>2 DEF PushFails
  <2>3. HeldNow' = HeldNow
    BY <1>1, <2>1 DEF HeldNow
  <2>4. (~torn' => KeptInv') /\ chans' \subseteq Streams /\ heap' \subseteq Strings /\ inp' \in Stacks
        /\ IF inp.infile = VALINPUT THEN mid' = "closed" ELSE mid' = "no"
    BY <1>1, <2>1, <2>2, <2>3, EprintKeeps
  <2>5. ArgInv'
    BY <1>1, <2>1, <2>4 DEF InputInv, TypedInv, ArgInv
  <2>6. MidInv'
    BY <1>1, <2>1, <2>2, <2>4 DEF InputInv, TypedInv, MidInv
  <2> QED BY <2>4, <2>5, <2>6 DEF InputInv, TypedInv
<1>3. CASE ~PushFails
  <2>1. inp' = Saved(inp) /\ mid' = "saved" /\ UNCHANGED <<ipc, chans, heap>>
    BY <1>3 DEF push
  <2>2. inp.incnt < max_files - 1
    BY <1>1, <1>3 DEF PushFails
  <2>3. inp' \in Stacks /\ inp'.incnt = inp.incnt + 1
    BY <1>1, <2>1, <2>2, SavedIs
  <2>4. inp'.incnt > 0 /\ (inp.incnt > 0 => inp'.incnt > 1)
    BY <1>1, <2>3
  <2>5. ArgInv'
    BY <1>1, <2>1, <2>4 DEF InputInv, TypedInv, ArgInv
  <2>6. MidInv'
    BY <1>1, <2>1, <2>4 DEF InputInv, TypedInv, MidInv
  <2>7. ASSUME ~torn' PROVE KeptInv'
    <3>1. KeptInv /\ Whole = inp /\ Whole' = Unpushed(Saved(inp))
      BY <1>1, <2>1, <2>7 DEF InputInv, Whole
    <3>2. HeldNow' = HeldNow
      BY <1>1, <2>1 DEF HeldNow
    <3>3. Sound(Whole') /\ OnStack(Whole') = OnStack(Whole) /\ TextsOf(Whole') = TextsOf(Whole)
      BY <2>2, <3>1, SaveSound DEF KeptInv
    <3> QED BY <1>1, <2>1, <3>1, <3>2, <3>3 DEF KeptInv
  <2> QED BY <2>1, <2>3, <2>5, <2>6, <2>7 DEF InputInv, TypedInv
<1> QED BY <1>2, <1>3

(* The channel that found no room is closed.                               *)
LEMMA refusedKeeps == ASSUME InputInv, refused PROVE InputInv'
<1> USE InputAssumption
<1>1. /\ ipc = "refused" /\ mid = "no" /\ UNCHANGED <<inp, heap, mid, restarted, tagged, torn>>
      /\ chans' = chans \ {iarg} /\ ipc' = Back /\ iarg' = Free /\ g2s' = 0
  BY DEF refused, inputSame
<1>2. ArgInv'
  BY <1>1 DEF InputInv, TypedInv, ArgInv, Back
<1>3. MidInv'
  BY <1>1 DEF InputInv, TypedInv, MidInv, Back
<1>4. HeldNow' = {} /\ HeldNow = {iarg} \intersect Streams
  BY <1>1 DEF HeldNow
<1>5. ASSUME ~torn' PROVE KeptInv'
  <2>1. Whole' = Whole /\ KeptInv
    BY <1>1, <1>5, StackSame
  <2>2. chans \subseteq Streams
    BY DEF InputInv, TypedInv
  <2> QED BY <1>1, <1>4, <2>1, <2>2 DEF KeptInv
<1> QED BY <1>1, <1>2, <1>3, <1>5 DEF InputInv, TypedInv

\* The source that is pushed gets its place.
LEMMA pushHeadsKeeps == ASSUME InputInv, pushHeads PROVE InputInv'
<1> USE InputAssumption
<1>1. /\ mid = "saved" /\ inp' = Headed(inp, iarg) /\ mid' = "headed"
      /\ UNCHANGED <<chans, heap, ipc, iarg, g2s, restarted, tagged, torn>>
      /\ inp \in Stacks /\ ipc = "push" /\ inp.incnt > 0 /\ iarg \in Chan
  BY DEF pushHeads, popSame, InputInv, TypedInv, MidInv, ArgInv, Chan
<1>2. /\ inp' \in Stacks /\ inp'.incnt = inp.incnt /\ inp'.infile = iarg /\ inp'.instk[inp'.incnt] = iarg
      /\ Sound(Unpushed(inp)) => Sound(Unpushed(inp'))
      /\ OnStack(Unpushed(inp')) = OnStack(Unpushed(inp)) /\ TextsOf(Unpushed(inp')) = TextsOf(Unpushed(inp))
  BY <1>1, HeadSound
<1>3. ArgInv'
  BY <1>1, <1>2 DEF InputInv, TypedInv, ArgInv
<1>4. MidInv'
  BY <1>1, <1>2 DEF InputInv, TypedInv, MidInv
<1>5. Whole = Unpushed(inp) /\ Whole' = Unpushed(inp') /\ HeldNow' = HeldNow
  BY <1>1 DEF Whole, HeldNow
<1>6. ASSUME ~torn' PROVE KeptInv'
  BY <1>1, <1>2, <1>5, <1>6 DEF InputInv, KeptInv
<1> QED BY <1>1, <1>2, <1>3, <1>4, <1>6 DEF InputInv, TypedInv

(* A string is copied, and then belongs to the stack.                      *)
LEMMA pushCopiesKeeps == ASSUME InputInv, pushCopies PROVE InputInv'
<1> USE InputAssumption
<1>1. /\ mid = "headed" /\ mid' = "copied" /\ UNCHANGED <<inp, chans, ipc, g2s, restarted, tagged, torn>>
      /\ inp \in Stacks /\ ipc = "push" /\ inp.incnt > 0 /\ iarg \in Streams \union {VALINPUT}
      /\ inp.infile = iarg /\ inp.instk[inp.incnt] = iarg /\ (iarg = VALINPUT => inp.incnt > 1)
  BY DEF pushCopies, inputSame, InputInv, TypedInv, MidInv, ArgInv
<1>2. /\ iarg = VALINPUT => iarg' \in Strings \ heap /\ heap' = heap \union {iarg'}
      /\ iarg # VALINPUT => iarg' = Free /\ heap' = heap
  BY DEF pushCopies
<1>3. iarg' \in Text0 /\ heap' \subseteq Strings
  BY <1>2 DEF Text0, InputInv, TypedInv
<1>4. ArgInv'
  BY <1>1, <1>3 DEF InputInv, TypedInv, ArgInv
<1>5. MidInv'
  BY <1>1 DEF InputInv, TypedInv, MidInv
<1>6. ASSUME ~torn' PROVE KeptInv'
  <2>1. KeptInv /\ Whole = Unpushed(inp) /\ Whole' = Handed(inp, iarg')
    BY <1>1, <1>6 DEF InputInv, Whole
  <2>2. HeldNow = {iarg} \intersect Streams /\ HeldNow' = {}
    BY <1>1, <1>3 DEF HeldNow, Text0
  <2>3. inp.infile \notin OnStack(Unpushed(inp))
    BY <1>1, <2>1, <2>2 DEF KeptInv, OnStack
  <2>4. inp.infile = VALINPUT => inp.incnt > 1 /\ iarg' \in Strings /\ iarg' \notin TextsOf(Unpushed(inp))
    BY <1>1, <1>2, <2>1 DEF KeptInv
  <2>5. /\ Sound(Handed(inp, iarg'))
        /\ OnStack(Handed(inp, iarg')) = OnStack(Unpushed(inp)) \union ({inp.infile} \intersect Streams)
        /\ TextsOf(Handed(inp, iarg')) = IF inp.infile = VALINPUT THEN TextsOf(Unpushed(inp)) \union {iarg'}
                                                                ELSE TextsOf(Unpushed(inp))
    <3>1. Sound(Unpushed(inp))
      BY <2>1 DEF KeptInv
    <3> QED BY <1>1, <1>3, <2>3, <2>4, <3>1, HandSound
  <2>6. heap' = TextsOf(Whole')
    BY <1>1, <1>2, <2>1, <2>5 DEF KeptInv
  <2> QED BY <1>1, <2>1, <2>2, <2>5, <2>6 DEF KeptInv
<1> QED BY <1>1, <1>3, <1>4, <1>5, <1>6 DEF InputInv, TypedInv

LEMMA pushHandsKeeps == ASSUME InputInv, pushHands PROVE InputInv'
<1> USE InputAssumption
<1>1. /\ mid = "copied" /\ inp' = Handed(inp, iarg) /\ mid' = "no" /\ UNCHANGED <<chans, heap, restarted, tagged, torn>>
      /\ ipc' = Back /\ iarg' = Free /\ g2s' = 0 /\ inp \in Stacks /\ iarg \in Text0 /\ inp.incnt \in 0 .. max_files
      /\ ipc = "push"
  BY DEF pushHands, inputSame, InputInv, TypedInv, ArgInv, MidInv, Stacks
<1>2. inp' \in Stacks
  <2>1. inp' = [inp EXCEPT !.inptr = iarg, !.inpts = [inp.inpts EXCEPT ![inp.incnt] = iarg],
                           !.inval = [inp.inval EXCEPT ![inp.incnt] = iarg]]
    BY <1>1 DEF Handed
  <2>2. inp.inpts \in [0 .. max_files -> Text0] /\ inp.inval \in [0 .. max_files -> Text0]
    BY <1>1 DEF Stacks
  <2>3. /\ [inp.inpts EXCEPT ![inp.incnt] = iarg] \in [0 .. max_files -> Text0]
        /\ [inp.inval EXCEPT ![inp.incnt] = iarg] \in [0 .. max_files -> Text0]
    BY <1>1, <2>2, Zenon
  <2> QED BY <1>1, <2>1, <2>3 DEF Stacks
<1>3. ArgInv'
  BY <1>1 DEF InputInv, TypedInv, ArgInv, Back
<1>4. MidInv'
  BY <1>1 DEF InputInv, TypedInv, MidInv, Back
<1>5. Whole' = Whole /\ HeldNow' = HeldNow
  BY <1>1 DEF Whole, HeldNow, Back, Text0
<1>6. ASSUME ~torn' PROVE KeptInv'
  BY <1>1, <1>5, <1>6 DEF InputInv, KeptInv
<1> QED BY <1>1, <1>2, <1>3, <1>4, <1>6 DEF InputInv, TypedInv

(* rdcom takes a line and may start a command.                             *)
LEMMA rdcomKeeps == ASSUME InputInv, rdcom PROVE InputInv'
<1> USE InputAssumption
<1>1. /\ ipc = "main" /\ mid = "no" /\ inp.incnt > 0 /\ iarg = Free
      /\ UNCHANGED <<inp, chans, heap, mid, restarted, tagged, torn>>
  BY DEF rdcom, Reading, inputSame, InputInv, TypedInv, ArgInv
<1>2. \/ ipc' = "error" /\ iarg' \in 1 .. 2 /\ g2s' = g2s
      \/ ipc' \in {"xfile", "cat"} /\ g2s' = 1 /\ iarg' = iarg
      \/ ipc' = "push" /\ iarg' = VALINPUT /\ g2s' = g2s
  BY DEF rdcom
<1>3. ArgInv'
  BY <1>1, <1>2 DEF InputInv, TypedInv, ArgInv
<1>4. MidInv'
  BY <1>1, <1>2 DEF InputInv, TypedInv, MidInv, Stacks
<1>5. HeldNow = {} /\ HeldNow' = {}
  BY <1>1, <1>2 DEF HeldNow
<1>6. ASSUME ~torn' PROVE KeptInv'
  BY <1>1, <1>5, <1>6, StackSame DEF KeptInv
<1> QED BY <1>1, <1>3, <1>4, <1>6, StackSame DEF InputInv, TypedInv

\* maktag, and typfil before and while it types.
LEMMA OthersKeep == ASSUME InputInv, maktag \/ typfil \/ typing PROVE InputInv'
<1> USE InputAssumption
<1>0. ArgInv /\ MidInv
  BY DEF InputInv, TypedInv
<1>1. /\ UNCHANGED <<inp, heap, mid, restarted, torn>> /\ mid = "no" /\ ipc # "error"
      /\ tagged' \in BOOLEAN /\ g2s' \in 0 .. 1
      /\ \/ ipc' = "main" /\ iarg' = Free /\ chans' = chans \ HeldNow
         \/ UNCHANGED <<iarg, chans>> /\ ipc' = "typing" /\ iarg \in Streams
  <2>1. CASE maktag
    <3>1. ipc = "maktag" /\ ipc' = "main" /\ tagged' = TRUE /\ UNCHANGED <<inp, chans, heap, iarg, g2s, mid, restarted, torn>>
      BY <2>1 DEF maktag
    <3>2. mid = "no" /\ iarg = Free /\ HeldNow = {}
      BY <3>1, <1>0 DEF ArgInv, MidInv, HeldNow
    <3> QED BY <3>1, <3>2, <1>0 DEF ArgInv
  <2>2. CASE typfil
    <3>1. ipc = "typfil" /\ ipc' = "typing" /\ UNCHANGED <<inp, chans, heap, iarg, g2s, mid, restarted, tagged, torn>>
      BY <2>2 DEF typfil, inputSame
    <3> QED BY <3>1, <1>0 DEF ArgInv, MidInv
  <2>3. CASE typing
    <3>1. /\ ipc = "typing" /\ UNCHANGED <<inp, heap, mid, restarted, tagged, torn>>
          /\ \/ UNCHANGED <<chans, ipc, iarg, g2s>>
             \/ chans' = chans \ {iarg} /\ iarg' = Free /\ ipc' = "main" /\ g2s' = 0
      BY <2>3 DEF typing, inputSame
    <3>2. iarg \in Streams /\ mid = "no" /\ HeldNow = {iarg}
      BY <3>1, <1>0 DEF ArgInv, MidInv, HeldNow
    <3> QED BY <3>1, <3>2, <1>0 DEF ArgInv
  <2> QED BY <2>1, <2>2, <2>3
<1>2. ArgInv'
  BY <1>1 DEF InputInv, TypedInv, ArgInv
<1>3. MidInv'
  BY <1>1 DEF InputInv, TypedInv, MidInv
<1>4. (HeldNow' = {} /\ chans' = chans \ HeldNow) \/ (HeldNow' = HeldNow /\ chans' = chans)
  BY <1>1 DEF HeldNow
<1>5. chans' \subseteq Streams
  BY <1>4 DEF InputInv, TypedInv
<1>6. ASSUME ~torn' PROVE KeptInv'
  BY <1>1, <1>4, <1>6, StackSame DEF KeptInv
<1> QED BY <1>1, <1>2, <1>3, <1>5, <1>6, StackSame DEF InputInv, TypedInv

(* ^G restarts the main loop, or sets the flag.                            *)
LEMMA ghandlerKeeps == ASSUME InputInv, ghandler PROVE InputInv'
<1> USE InputAssumption
<1>1. UNCHANGED <<inp, heap, chans, tagged>>
  BY DEF ghandler
<1>2. CASE g2s > 0
  <2>1. g2s' = g2s - 1 /\ UNCHANGED <<ipc, iarg, restarted, mid, torn>>
    BY <1>2 DEF ghandler
  <2>2. g2s' \in 0 .. 1
    BY <1>2, <2>1 DEF InputInv, TypedInv, ArgInv
  <2>3. ArgInv' /\ MidInv'
    <3>1. ArgInv /\ MidInv
      BY DEF InputInv, TypedInv
    <3>2. ArgInv'
      BY <3>1, <1>1, <2>1, <2>2 DEF ArgInv
    <3>3. MidInv'
      BY <3>1, <1>1, <2>1 DEF MidInv
    <3> QED BY <3>2, <3>3
  <2>4. Whole' = Whole /\ HeldNow' = HeldNow
    BY <1>1, <2>1 DEF Whole, HeldNow
  <2>5. ASSUME ~torn' PROVE KeptInv'
    BY <1>1, <2>1, <2>4, <2>5 DEF InputInv, KeptInv
  <2>6. inp' \in Stacks /\ chans' \subseteq Streams /\ heap' \subseteq Strings
    BY <1>1 DEF InputInv, TypedInv
  <2> QED BY <2>3, <2>5, <2>6 DEF InputInv, TypedInv
<1>3. CASE ~(g2s > 0)
  <2>1. /\ ipc' = "main" /\ iarg' = Free /\ mid' = "no" /\ restarted' = TRUE
        /\ torn' = (torn \/ mid # "no") /\ g2s' = g2s
    BY <1>3 DEF ghandler
  <2>2. ArgInv'
    BY <1>1, <2>1 DEF InputInv, TypedInv, ArgInv
  <2>3. MidInv'
    BY <1>1, <2>1 DEF MidInv
  <2>4. ASSUME ~torn' PROVE KeptInv'
    <3>1. ~torn /\ mid = "no"
      BY <2>1, <2>4 DEF InputInv, TypedInv, ArgInv
    <3>2. Whole' = Whole /\ HeldNow' = {}
      BY <1>1, <2>1, <3>1 DEF Whole, HeldNow
    <3> QED BY <1>1, <2>1, <3>1, <3>2 DEF InputInv, KeptInv
  <2> QED BY <1>1, <2>2, <2>3, <2>4 DEF InputInv, TypedInv
<1> QED BY <1>2, <1>3

(* Every step keeps the invariant of the command sources.                  *)
LEMMA InputInvNext == InputInv /\ [InputNext]_inputVars => InputInv'
<1> SUFFICES ASSUME InputInv, [InputNext]_inputVars PROVE InputInv'
  OBVIOUS
<1>1. ASSUME doinit \/ exitFile \/ xfile \/ cat PROVE InputInv'
  <2>1. /\ UNCHANGED <<inp, heap, mid, restarted, tagged, torn>> /\ ipc # "error" /\ iarg = Free /\ mid = "no"
        /\ \E next \in {"push", "typfil"} : Opens(next)
    BY <1>1 DEF doinit, exitFile, xfile, cat, inputSame, InputInv, TypedInv, ArgInv, MidInv
  <2> QED BY <2>1, OpensKeeps
<1>2. ASSUME UNCHANGED inputVars PROVE InputInv'
  <2> USE <1>2 DEF inputVars
  <2>1. ArgInv' = ArgInv
    BY Zenon DEF ArgInv
  <2>2. MidInv' = MidInv
    BY Zenon DEF MidInv
  <2>3. Whole' = Whole /\ HeldNow' = HeldNow
    BY DEF Whole, HeldNow
  <2>4. KeptInv' = KeptInv
    BY <2>3, Zenon DEF KeptInv
  <2> QED BY <2>1, <2>2, <2>4, Zenon DEF InputInv, TypedInv
<1>3. ASSUME InputNext PROVE InputInv'
  BY <1>1, <1>3, pushKeeps, refusedKeeps, pushHeadsKeeps, pushCopiesKeeps, pushHandsKeeps, rdcomEndKeeps,
     rdcomKeeps, errorStepKeeps, PopStepsKeep, OthersKeep, ghandlerKeeps DEF InputNext
<1> QED BY <1>2, <1>3

(* For any number of input sources, whatever errors, ends and ^Gs come:    *)
(* as long as no ^G has left push or pop in the middle, the shell reads    *)
(* the source on the top of its stack, which is open, each string from its *)
(* own place; and as long as none has restarted it, it has open and copied *)
(* just what is on the stack (shell.c, rdcom, push, pop and ghandler).     *)
THEOREM InputAlways == InputSpec => []InputKept
<1>1. InputInv => InputKept
  BY InputInvImplies
<1> QED BY <1>1, InputInvInit, InputInvNext, PTL DEF InputSpec

-----------------------------------------------------------------------------
(* Character arrays: every live array has its text in a block of its own.  *)
Chars == Letters \union {"NULL"}
ArrayRecs == [count : Nat, s : Blocks \union {0}, csize : Nat, msize : Nat]

\* A block holds a text, and has room for the NULL.
Fits(k, b, t) ==
  /\ b \in [1 .. k.msize -> Chars]
  /\ k.csize = Len(t) /\ k.csize < k.msize
  /\ \A i \in 1 .. k.csize : b[i] = t[i]

AcType ==
  /\ acs \in [Arrays -> ArrayRecs] /\ refs \in [Arrays -> Nat] /\ text \in [Arrays -> Seq(Letters)]
  /\ \A a \in Arrays : acs[a].count = refs[a]

BlockInv ==
  /\ blocks = [b \in DOMAIN blocks |-> blocks[b]]
  /\ DOMAIN blocks = {acs[a].s : a \in Live}
  /\ \A a \in Live : acs[a].s \in Blocks
  /\ \A a, b \in Live : a # b => acs[a].s # acs[b].s

CountInv == IsFiniteSet(Live) /\ nac = Cardinality(Live)

TextInv == \A a \in Live : Fits(acs[a], blocks[acs[a].s], text[a])

AcInv == AcType /\ BlockInv /\ CountInv /\ TextInv

\* The text that the block holds is the array's.
LEMMA TextIs ==
  ASSUME AcInv, NEW a \in Live
  PROVE  Text(a) = text[a] /\ Text(a) \in Seq(Letters) /\ Len(Text(a)) = acs[a].csize
<1> DEFINE b == blocks[acs[a].s]
           n == acs[a].csize
           t == text[a]
<1>1. Fits(acs[a], b, t) /\ t \in Seq(Letters) /\ acs[a] \in ArrayRecs
  BY DEF AcInv, AcType, TextInv, Live
<1>2. n \in Nat /\ acs[a].msize \in Nat /\ n < acs[a].msize /\ Len(t) = n
  BY <1>1 DEF ArrayRecs, Fits
<1>3. b \in [1 .. acs[a].msize -> Chars] /\ \A i \in 1 .. n : b[i] = t[i]
  BY <1>1 DEF Fits
<1>4. b \in Seq(Chars) /\ Len(b) = acs[a].msize
  BY <1>2, <1>3
<1>5. Text(a) = SubSeq(b, 1, n)
  BY DEF Text
<1> HIDE DEF b, n, t
<1>6. SubSeq(b, 1, n) = [i \in 1 .. n |-> b[i]]
  BY <1>2, <1>4
<1>7. t = [i \in 1 .. n |-> t[i]]
  BY <1>1, <1>2
<1>8. SubSeq(b, 1, n) = t
  BY <1>3, <1>6, <1>7
<1> QED BY <1>1, <1>2, <1>5, <1>8 DEF n, t

(* The inductive invariant of the arrays gives the property.               *)
LEMMA AcInvImplies == AcInv => StorageKept
<1> SUFFICES ASSUME AcInv PROVE StorageKept
  OBVIOUS
<1>1. TextKept
  <2> SUFFICES ASSUME NEW a \in Live
               PROVE  /\ Len(blocks[acs[a].s]) = acs[a].msize /\ acs[a].csize < acs[a].msize
                      /\ Text(a) = text[a]
    BY DEF TextKept
  <2>1. Fits(acs[a], blocks[acs[a].s], text[a]) /\ acs[a] \in ArrayRecs
    BY DEF AcInv, AcType, TextInv, Live
  <2>2. blocks[acs[a].s] \in [1 .. acs[a].msize -> Chars] /\ acs[a].msize \in Nat
    BY <2>1 DEF Fits, ArrayRecs
  <2>3. Len(blocks[acs[a].s]) = acs[a].msize
    BY <2>2
  <2> QED BY <2>1, <2>3, TextIs DEF Fits
<1>2. Cardinality(DOMAIN blocks) = Cardinality(Live)
  <2> DEFINE f == [a \in Live |-> acs[a].s]
             T == DOMAIN blocks
  <2>1. f \in Surjection(Live, T) /\ f \in Injection(Live, T)
    BY DEF AcInv, BlockInv, Surjection, Injection, IsInjective
  <2>2. IsFiniteSet(Live)
    BY DEF AcInv, CountInv
  <2> HIDE DEF f, T
  <2>3. Cardinality(T) = Cardinality(Live)
    BY <2>1, <2>2, FS_Surjection
  <2> QED BY <2>3 DEF T
<1> QED BY <1>1, <1>2 DEF AcInv, AcType, BlockInv, CountInv, StorageKept, StorageExact

(* It holds with no array made.                                            *)
LEMMA AcInvInit == AcInit => AcInv
<1> SUFFICES ASSUME AcInit PROVE AcInv
  OBVIOUS
<1>1. Live = {}
  BY DEF AcInit, Live
<1>2. AcType
  BY DEF AcInit, AcType, ArrayRecs, NoArray
<1>3. BlockInv
  BY <1>1 DEF AcInit, BlockInv
<1>4. CountInv
  BY <1>1, FS_EmptySet DEF AcInit, CountInv
<1> QED BY <1>1, <1>2, <1>3, <1>4 DEF AcInv, TextInv

\* What is done to one array leaves the others alone.
LEMMA OneArray ==
  ASSUME AcInv, NEW a \in Arrays, NEW k \in ArrayRecs, NEW r \in Nat, NEW t \in Seq(Letters), k.count = r,
         acs' = [acs EXCEPT ![a] = k], refs' = [refs EXCEPT ![a] = r], text' = [text EXCEPT ![a] = t],
         blocks' = [b \in DOMAIN blocks' |-> blocks'[b]],
         DOMAIN blocks' = {acs[x].s : x \in Live \ {a}} \union (IF r > 0 THEN {k.s} ELSE {}),
         \A x \in Live \ {a} : blocks'[acs[x].s] = blocks[acs[x].s],
         r > 0 => /\ k.s \in Blocks
                  /\ \A x \in Live \ {a} : acs[x].s # k.s
                  /\ Fits(k, blocks'[k.s], t),
         nac' = IF r > 0 /\ a \notin Live THEN nac + 1 ELSE IF r = 0 /\ a \in Live THEN nac - 1 ELSE nac
  PROVE  AcInv'
<1>1. /\ acs \in [Arrays -> ArrayRecs] /\ refs \in [Arrays -> Nat] /\ text \in [Arrays -> Seq(Letters)]
      /\ \A x \in Arrays : acs[x].count = refs[x]
  BY DEF AcInv, AcType
<1>2. /\ acs'[a] = k /\ refs'[a] = r /\ text'[a] = t
      /\ \A x \in Arrays \ {a} : acs'[x] = acs[x] /\ refs'[x] = refs[x] /\ text'[x] = text[x]
  BY <1>1
<1>3. AcType'
  BY <1>1, <1>2 DEF AcType
<1>4. Live' = (Live \ {a}) \union (IF r > 0 THEN {a} ELSE {})
  BY <1>2 DEF Live
<1>5. a \notin Live \ {a} /\ Live \ {a} \subseteq Arrays \ {a}
  BY DEF Live
<1>6. BlockInv'
  <2>1. DOMAIN blocks' = {acs'[x].s : x \in Live'}
    BY <1>2, <1>4, <1>5
  <2>2. \A x \in Live' : acs'[x].s \in Blocks
    BY <1>2, <1>4, <1>5 DEF AcInv, BlockInv
  <2>3. \A x, y \in Live' : x # y => acs'[x].s # acs'[y].s
    BY <1>2, <1>4, <1>5 DEF AcInv, BlockInv
  <2> QED BY <2>1, <2>2, <2>3 DEF BlockInv
<1>7. TextInv'
  <2> SUFFICES ASSUME NEW x \in Live' PROVE Fits(acs'[x], blocks'[acs'[x].s], text'[x])
    BY DEF TextInv
  <2>1. CASE x = a
    BY <2>1, <1>2, <1>4
  <2>2. CASE x # a
    <3>1. x \in Live \ {a}
      BY <2>2, <1>4
    <3>2. Fits(acs[x], blocks[acs[x].s], text[x])
      BY <3>1 DEF AcInv, TextInv
    <3>3. acs'[x] = acs[x] /\ text'[x] = text[x] /\ blocks'[acs[x].s] = blocks[acs[x].s]
      BY <3>1, <1>2, <1>5
    <3> QED BY <3>2, <3>3
  <2> QED BY <2>1, <2>2
<1>8. CountInv'
  <2>1. IsFiniteSet(Live) /\ nac = Cardinality(Live) /\ Cardinality(Live) \in Nat
    BY FS_CardinalityType DEF AcInv, CountInv
  <2>2. CASE r > 0 /\ a \notin Live
    <3>1. Live' = Live \union {a}
      BY <2>2, <1>4
    <3>2. IsFiniteSet(Live \union {a}) /\ Cardinality(Live \union {a}) = Cardinality(Live) + 1
      BY <2>1, <2>2, FS_AddElement
    <3> QED BY <2>1, <2>2, <3>1, <3>2 DEF CountInv
  <2>3. CASE r = 0 /\ a \in Live
    <3>1. Live' = Live \ {a}
      BY <2>3, <1>4
    <3>2. IsFiniteSet(Live \ {a}) /\ Cardinality(Live \ {a}) = Cardinality(Live) - 1
      BY <2>1, <2>3, FS_RemoveElement
    <3> QED BY <2>1, <2>3, <3>1, <3>2 DEF CountInv
  <2>4. CASE ~(r > 0 /\ a \notin Live) /\ ~(r = 0 /\ a \in Live)
    <3>1. Live' = Live /\ nac' = nac
      BY <2>4, <1>4
    <3> QED BY <2>1, <3>1 DEF CountInv
  <2> QED BY <2>2, <2>3, <2>4
<1> QED BY <1>3, <1>6, <1>7, <1>8 DEF AcInv

\* calloc gives a block that is not allocated.
LEMMA FreeBlockFree ==
  ASSUME SomeBlock, AcInv
  PROVE  FreeBlock \in Blocks /\ FreeBlock \notin DOMAIN blocks
<1>1. DOMAIN blocks \subseteq Blocks
  BY DEF AcInv, BlockInv
<1>2. \E b \in Blocks : b \notin DOMAIN blocks
  BY <1>1 DEF SomeBlock
<1> QED BY <1>2 DEF FreeBlock

\* A block that is filled with a text holds it.
LEMMA BlockHolds ==
  ASSUME NEW t \in Seq(Letters), NEW size \in Nat, Len(t) < size,
         NEW k, k.msize = size, k.csize = Len(t)
  PROVE  Fits(k, Block(t, size), t)
<1>1. Block(t, size) = [i \in 1 .. size |-> IF i <= Len(t) THEN t[i] ELSE "NULL"]
  BY DEF Block
<1>2. Len(t) \in Nat /\ \A i \in 1 .. Len(t) : t[i] \in Letters
  OBVIOUS
<1>3. Block(t, size) \in [1 .. size -> Chars]
  BY <1>1, <1>2 DEF Chars
<1>4. \A i \in 1 .. Len(t) : Block(t, size)[i] = t[i]
  BY <1>1, <1>2
<1> QED BY <1>3, <1>4 DEF Fits

(* ac_new makes an empty array.                                            *)
LEMMA MadeKeeps ==
  ASSUME AcInv, NEW a \in Arrays, refs[a] = 0, NEW t \in Seq(Letters), NEW size \in Nat,
         Len(t) <= size, Made(a, t, size)
  PROVE  AcInv'
<1> DEFINE k == [count |-> 1, s |-> FreeBlock, csize |-> Len(t), msize |-> size + 1]
<1>1. FreeBlock \in Blocks /\ FreeBlock \notin DOMAIN blocks
  BY FreeBlockFree DEF Made
<1>2. k \in ArrayRecs /\ k.count = 1 /\ k.s = FreeBlock /\ k.msize = size + 1 /\ k.csize = Len(t)
  BY <1>1 DEF ArrayRecs
<1>3. a \notin Live /\ Live \ {a} = Live
  BY DEF Live
<1>4. /\ acs' = [acs EXCEPT ![a] = k] /\ refs' = [refs EXCEPT ![a] = 1] /\ text' = [text EXCEPT ![a] = t]
      /\ nac' = nac + 1
      /\ blocks' = [b \in DOMAIN blocks \union {FreeBlock} |->
                     IF b = FreeBlock THEN Block(t, size + 1) ELSE blocks[b]]
  BY DEF Made
<1>5. /\ DOMAIN blocks = {acs[x].s : x \in Live}
  BY DEF AcInv, BlockInv
<1> HIDE DEF k
<1>6. Fits(k, Block(t, size + 1), t)
  <2>1. size + 1 \in Nat /\ Len(t) < size + 1
    OBVIOUS
  <2> QED BY <2>1, <1>2, BlockHolds
<1>7. /\ DOMAIN blocks' = {acs[x].s : x \in Live} \union {FreeBlock}
      /\ blocks' = [b \in DOMAIN blocks' |-> blocks'[b]]
      /\ blocks'[FreeBlock] = Block(t, size + 1)
      /\ \A x \in Live : blocks'[acs[x].s] = blocks[acs[x].s] /\ acs[x].s # FreeBlock
  BY <1>1, <1>4, <1>5
<1>8. /\ 1 \in Nat /\ 1 > 0 /\ k.count = 1
      /\ DOMAIN blocks' = {acs[x].s : x \in Live \ {a}} \union (IF 1 > 0 THEN {k.s} ELSE {})
      /\ \A x \in Live \ {a} : blocks'[acs[x].s] = blocks[acs[x].s]
      /\ 1 > 0 => /\ k.s \in Blocks
                  /\ \A x \in Live \ {a} : acs[x].s # k.s
                  /\ Fits(k, blocks'[k.s], t)
      /\ nac' = IF 1 > 0 /\ a \notin Live THEN nac + 1 ELSE IF 1 = 0 /\ a \in Live THEN nac - 1 ELSE nac
  <2>1. 1 \in Nat /\ 1 > 0 /\ 1 # 0
    OBVIOUS
  <2>2. DOMAIN blocks' = {acs[x].s : x \in Live \ {a}} \union {k.s}
    BY <1>2, <1>3, <1>7
  <2>3. \A x \in Live \ {a} : acs[x].s # k.s /\ blocks'[acs[x].s] = blocks[acs[x].s]
    BY <1>2, <1>7
  <2>4. k.s \in Blocks /\ Fits(k, blocks'[k.s], t)
    BY <1>1, <1>2, <1>6, <1>7
  <2> QED BY <2>1, <2>2, <2>3, <2>4, <1>2, <1>3, <1>4
<1> QED BY <1>2, <1>4, <1>7, <1>8, OneArray

\* A record with one field changed.
LEMMA OneField ==
  ASSUME NEW k \in ArrayRecs, NEW n
  PROVE  /\ [k EXCEPT !.count = n] = [count |-> n, s |-> k.s, csize |-> k.csize, msize |-> k.msize]
         /\ [k EXCEPT !.csize = n] = [count |-> k.count, s |-> k.s, csize |-> n, msize |-> k.msize]
<1>1. k = [count |-> k.count, s |-> k.s, csize |-> k.csize, msize |-> k.msize]
  BY DEF ArrayRecs
<1>2. [k EXCEPT !.count = n] = [count |-> n, s |-> k.s, csize |-> k.csize, msize |-> k.msize]
  BY <1>1
<1>3. [k EXCEPT !.csize = n] = [count |-> k.count, s |-> k.s, csize |-> n, msize |-> k.msize]
  BY <1>1
<1> QED BY <1>2, <1>3

(* A step that changes no array keeps the invariant.                       *)
LEMMA AcStutters == ASSUME AcInv, UNCHANGED acVars PROVE AcInv'
BY DEF acVars, AcInv, AcType, BlockInv, CountInv, TextInv, Live

\* The array goes on in another block.
LEMMA MovedKeeps ==
  ASSUME AcInv, NEW a \in Live, NEW t \in Seq(Letters), NEW size \in Nat, Len(t) < size, Moved(a, size, t),
         text' = [text EXCEPT ![a] = t], UNCHANGED <<nac, refs>>
  PROVE  AcInv'
<1> DEFINE k == [count |-> acs[a].count, s |-> FreeBlock, csize |-> Len(t), msize |-> size]
           r == refs[a]
<1>0. a \in Arrays /\ acs \in [Arrays -> ArrayRecs] /\ refs \in [Arrays -> Nat] /\ r \in Nat /\ r > 0
      /\ acs[a] \in ArrayRecs /\ acs[a].count = r
  BY DEF AcInv, AcType, Live
<1>1. FreeBlock \in Blocks /\ FreeBlock \notin DOMAIN blocks
  BY FreeBlockFree DEF Moved
<1>2. k \in ArrayRecs /\ k.count = r /\ k.s = FreeBlock /\ k.msize = size /\ k.csize = Len(t)
  BY <1>0, <1>1 DEF ArrayRecs
<1>4. /\ acs' = [acs EXCEPT ![a] = k] /\ refs' = [refs EXCEPT ![a] = r]
      /\ blocks' = [b \in (DOMAIN blocks \union {FreeBlock}) \ {acs[a].s} |->
                     IF b = FreeBlock THEN Block(t, size) ELSE blocks[b]]
  <2>1. acs' = [acs EXCEPT ![a] = k]
    BY DEF Moved
  <2> QED BY <2>1, <1>0 DEF Moved
<1>5. /\ DOMAIN blocks = {acs[x].s : x \in Live}
      /\ \A x \in Live \ {a} : acs[x].s # acs[a].s
  BY DEF AcInv, BlockInv
<1> HIDE DEF k, r
<1>6. Fits(k, Block(t, size), t)
  BY <1>2, BlockHolds
<1>7. /\ DOMAIN blocks' = {acs[x].s : x \in Live \ {a}} \union {FreeBlock}
      /\ blocks' = [b \in DOMAIN blocks' |-> blocks'[b]]
      /\ blocks'[FreeBlock] = Block(t, size)
      /\ \A x \in Live \ {a} : blocks'[acs[x].s] = blocks[acs[x].s] /\ acs[x].s # FreeBlock
  <2>1. acs[a].s # FreeBlock /\ acs[a].s \in DOMAIN blocks
    BY <1>1, <1>5
  <2>2. (DOMAIN blocks \union {FreeBlock}) \ {acs[a].s} = {acs[x].s : x \in Live \ {a}} \union {FreeBlock}
    BY <1>5, <2>1
  <2> QED BY <1>1, <1>4, <1>5, <2>1, <2>2
<1>8. /\ DOMAIN blocks' = {acs[x].s : x \in Live \ {a}} \union (IF r > 0 THEN {k.s} ELSE {})
      /\ \A x \in Live \ {a} : blocks'[acs[x].s] = blocks[acs[x].s]
      /\ r > 0 => /\ k.s \in Blocks
                  /\ \A x \in Live \ {a} : acs[x].s # k.s
                  /\ Fits(k, blocks'[k.s], t)
      /\ nac' = IF r > 0 /\ a \notin Live THEN nac + 1 ELSE IF r = 0 /\ a \in Live THEN nac - 1 ELSE nac
  BY <1>0, <1>1, <1>2, <1>6, <1>7
<1> QED BY <1>0, <1>2, <1>4, <1>7, <1>8, OneArray

\* The block of an array is changed in place.
LEMMA InPlace ==
  ASSUME AcInv, NEW a \in Live, NEW k \in ArrayRecs, NEW r \in Nat \ {0}, NEW t \in Seq(Letters), NEW b,
         k.count = r, k.s = acs[a].s, Fits(k, b, t),
         acs' = [acs EXCEPT ![a] = k], refs' = [refs EXCEPT ![a] = r], text' = [text EXCEPT ![a] = t],
         blocks' = [blocks EXCEPT ![acs[a].s] = b], nac' = nac
  PROVE  AcInv'
<1>1. /\ blocks = [x \in DOMAIN blocks |-> blocks[x]]
      /\ DOMAIN blocks = {acs[x].s : x \in Live}
      /\ \A x \in Live \ {a} : acs[x].s # acs[a].s
      /\ acs[a].s \in Blocks /\ a \in Arrays
  BY DEF AcInv, BlockInv, Live
<1>2. /\ DOMAIN blocks' = {acs[x].s : x \in Live \ {a}} \union {acs[a].s}
      /\ blocks' = [x \in DOMAIN blocks' |-> blocks'[x]]
      /\ blocks'[acs[a].s] = b
      /\ \A x \in Live \ {a} : blocks'[acs[x].s] = blocks[acs[x].s]
  <2>1. DOMAIN blocks' = DOMAIN blocks /\ acs[a].s \in DOMAIN blocks
    BY <1>1
  <2>2. DOMAIN blocks = {acs[x].s : x \in Live \ {a}} \union {acs[a].s}
    BY <1>1
  <2>3. \A x \in Live \ {a} : acs[x].s \in DOMAIN blocks
    BY <1>1
  <2> QED BY <2>1, <2>2, <2>3, <1>1
<1>3. /\ r \in Nat /\ r > 0
      /\ DOMAIN blocks' = {acs[x].s : x \in Live \ {a}} \union (IF r > 0 THEN {k.s} ELSE {})
      /\ r > 0 => /\ k.s \in Blocks
                  /\ \A x \in Live \ {a} : acs[x].s # k.s
                  /\ Fits(k, blocks'[k.s], t)
      /\ nac' = IF r > 0 /\ a \notin Live THEN nac + 1 ELSE IF r = 0 /\ a \in Live THEN nac - 1 ELSE nac
  BY <1>1, <1>2
<1> QED BY <1>1, <1>2, <1>3, OneArray

(* ac_xh puts a character at the end.                                      *)
LEMMA ac_xhKeeps == ASSUME AcInv, NEW a \in Live, NEW c \in Letters, ac_xh(a, c) PROVE AcInv'
<1> DEFINE t == Append(text[a], c)
           b == [blocks[acs[a].s] EXCEPT ![acs[a].csize + 1] = c]
           k == [count |-> acs[a].count, s |-> acs[a].s, csize |-> acs[a].csize + 1, msize |-> acs[a].msize]
<1>0. /\ a \in Arrays /\ acs \in [Arrays -> ArrayRecs] /\ acs[a] \in ArrayRecs /\ text[a] \in Seq(Letters)
      /\ refs \in [Arrays -> Nat] /\ refs[a] \in Nat \ {0} /\ acs[a].count = refs[a]
      /\ Fits(acs[a], blocks[acs[a].s], text[a])
  BY DEF AcInv, AcType, TextInv, Live
<1>1. /\ acs[a].csize \in Nat /\ acs[a].msize \in Nat /\ acs[a].csize = Len(text[a])
      /\ acs[a].csize < acs[a].msize
  BY <1>0 DEF ArrayRecs, Fits
<1>2. t \in Seq(Letters) /\ Len(t) = acs[a].csize + 1
  BY <1>0, <1>1
<1>3. text' = [text EXCEPT ![a] = t] /\ UNCHANGED <<nac, refs>>
  BY DEF ac_xh
<1>4. CASE Full(a)
  <2>1. Moved(a, acs[a].msize * 2, t)
    BY <1>4, TextIs DEF ac_xh
  <2>2. acs[a].msize * 2 \in Nat /\ Len(t) < acs[a].msize * 2
    <3>1. acs[a].csize + 1 < acs[a].msize * 2
      BY <1>1, <1>4 DEF Full
    <3> QED BY <1>1, <1>2, <3>1
  <2> HIDE DEF t
  <2> QED BY <2>1, <2>2, <1>2, <1>3, MovedKeeps
<1>5. CASE ~Full(a)
  <2>1. acs[a].csize + 1 < acs[a].msize
    BY <1>1, <1>5 DEF Full
  <2>2. /\ acs' = [acs EXCEPT ![a] = [acs[a] EXCEPT !.csize = acs[a].csize + 1]]
        /\ blocks' = [blocks EXCEPT ![acs[a].s] = b]
    BY <1>5 DEF ac_xh
  <2>3. k \in ArrayRecs /\ k.count = refs[a] /\ k.s = acs[a].s /\ k.csize = Len(t) /\ k.msize = acs[a].msize
    BY <1>0, <1>1, <1>2 DEF ArrayRecs
  <2>4. acs' = [acs EXCEPT ![a] = k]
    <3>1. [acs[a] EXCEPT !.csize = acs[a].csize + 1] = k
      BY <1>0, OneField
    <3> QED BY <3>1, <2>2
  <2>5. Fits(k, b, t)
    <3>1. blocks[acs[a].s] \in [1 .. acs[a].msize -> Chars]
          /\ \A i \in 1 .. acs[a].csize : blocks[acs[a].s][i] = text[a][i]
      BY <1>0 DEF Fits
    <3>2. b \in [1 .. acs[a].msize -> Chars]
      BY <3>1 DEF Chars
    <3>3. \A i \in 1 .. acs[a].csize + 1 : b[i] = t[i]
      BY <3>1, <1>0, <1>1, <2>1
    <3> HIDE DEF b, k, t
    <3> QED BY <3>2, <3>3, <2>3, <1>2, <2>1 DEF Fits
  <2>6. refs' = [refs EXCEPT ![a] = refs[a]]
    BY <1>0, <1>3
  <2> HIDE DEF b, k, t
  <2> QED BY <2>2, <2>3, <2>4, <2>5, <2>6, <1>0, <1>2, <1>3, InPlace
<1> QED BY <1>4, <1>5

(* ac_trim gives back what is not used.                                    *)
LEMMA ac_trimKeeps == ASSUME AcInv, NEW a \in Live, ac_trim(a) PROVE AcInv'
<1>1. CASE Full(a)
  BY <1>1, AcStutters DEF ac_trim, acVars
<1>2. CASE ~Full(a)
  <2>1. Moved(a, acs[a].csize + 1, text[a]) /\ UNCHANGED <<nac, refs, text>>
    BY <1>2, TextIs DEF ac_trim
  <2>2. a \in Arrays /\ text \in [Arrays -> Seq(Letters)] /\ acs[a] \in ArrayRecs
        /\ Fits(acs[a], blocks[acs[a].s], text[a])
    BY DEF AcInv, AcType, TextInv, Live
  <2>3. text[a] \in Seq(Letters) /\ text' = [text EXCEPT ![a] = text[a]]
        /\ acs[a].csize + 1 \in Nat /\ Len(text[a]) < acs[a].csize + 1
    BY <2>1, <2>2 DEF Fits, ArrayRecs
  <2> QED BY <2>1, <2>3, MovedKeeps
<1> QED BY <1>1, <1>2

\* The block of an array is the same.
LEMMA BlockSame ==
  ASSUME AcInv, NEW a \in Live
  PROVE  blocks = [blocks EXCEPT ![acs[a].s] = blocks[acs[a].s]]
BY DEF AcInv, BlockInv

(* ac_link shares the array once more.                                     *)
LEMMA ac_linkKeeps == ASSUME AcInv, NEW a \in Live, ac_link(a) PROVE AcInv'
<1> DEFINE k == [count |-> acs[a].count + 1, s |-> acs[a].s, csize |-> acs[a].csize, msize |-> acs[a].msize]
           r == refs[a] + 1
<1>0. /\ a \in Arrays /\ acs \in [Arrays -> ArrayRecs] /\ acs[a] \in ArrayRecs /\ text[a] \in Seq(Letters)
      /\ refs \in [Arrays -> Nat] /\ refs[a] \in Nat \ {0} /\ acs[a].count = refs[a]
      /\ Fits(acs[a], blocks[acs[a].s], text[a]) /\ text \in [Arrays -> Seq(Letters)]
  BY DEF AcInv, AcType, TextInv, Live
<1>1. r \in Nat \ {0}
  BY <1>0
<1>2. k \in ArrayRecs /\ k.count = r /\ k.s = acs[a].s /\ k.csize = acs[a].csize /\ k.msize = acs[a].msize
  BY <1>0 DEF ArrayRecs
<1>3. acs' = [acs EXCEPT ![a] = k] /\ refs' = [refs EXCEPT ![a] = r]
  <2>1. [acs[a] EXCEPT !.count = acs[a].count + 1] = k
    BY <1>0, OneField
  <2>2. acs' = [acs EXCEPT ![a] = [acs[a] EXCEPT !.count = acs[a].count + 1]]
    BY DEF ac_link
  <2> QED BY <2>1, <2>2 DEF ac_link
<1>4. text' = [text EXCEPT ![a] = text[a]] /\ nac' = nac
      /\ blocks' = [blocks EXCEPT ![acs[a].s] = blocks[acs[a].s]]
  BY <1>0, BlockSame DEF ac_link
<1> HIDE DEF k, r
<1>5. Fits(k, blocks[acs[a].s], text[a])
  BY <1>0, <1>2 DEF Fits
<1> QED BY <1>0, <1>1, <1>2, <1>3, <1>4, <1>5, InPlace

(* ac_unlink frees the block with the last user.                           *)
LEMMA ac_unlinkKeeps == ASSUME AcInv, NEW a \in Live, ac_unlink(a) PROVE AcInv'
<1> DEFINE k == [count |-> acs[a].count - 1, s |-> acs[a].s, csize |-> acs[a].csize, msize |-> acs[a].msize]
           r == refs[a] - 1
<1>0. /\ a \in Arrays /\ acs \in [Arrays -> ArrayRecs] /\ acs[a] \in ArrayRecs /\ text[a] \in Seq(Letters)
      /\ refs \in [Arrays -> Nat] /\ refs[a] \in Nat \ {0} /\ acs[a].count = refs[a]
      /\ Fits(acs[a], blocks[acs[a].s], text[a]) /\ text \in [Arrays -> Seq(Letters)]
  BY DEF AcInv, AcType, TextInv, Live
<1>1. r \in Nat /\ refs' = [refs EXCEPT ![a] = r]
  BY <1>0 DEF ac_unlink
<1>2. CASE LastLink(a)
  <2>1. r = 0 /\ acs[a].count = 1
    BY <1>0, <1>2 DEF LastLink
  <2>2. /\ acs' = [acs EXCEPT ![a] = NoArray] /\ text' = [text EXCEPT ![a] = <<>>] /\ nac' = nac - 1
        /\ blocks' = [b \in DOMAIN blocks \ {acs[a].s} |-> blocks[b]]
    BY <1>2 DEF ac_unlink
  <2>3. NoArray \in ArrayRecs /\ NoArray.count = 0 /\ <<>> \in Seq(Letters)
    BY DEF NoArray, ArrayRecs
  <2>4. /\ DOMAIN blocks = {acs[x].s : x \in Live}
        /\ \A x \in Live \ {a} : acs[x].s # acs[a].s
    BY DEF AcInv, BlockInv
  <2>5. DOMAIN blocks' = {acs[x].s : x \in Live \ {a}}
        /\ blocks' = [b \in DOMAIN blocks' |-> blocks'[b]]
        /\ \A x \in Live \ {a} : blocks'[acs[x].s] = blocks[acs[x].s]
    BY <2>2, <2>4
  <2> HIDE DEF r
  <2>6. /\ ~(r > 0)
        /\ DOMAIN blocks' = {acs[x].s : x \in Live \ {a}} \union (IF r > 0 THEN {NoArray.s} ELSE {})
        /\ r > 0 => /\ NoArray.s \in Blocks
                    /\ \A x \in Live \ {a} : acs[x].s # NoArray.s
                    /\ Fits(NoArray, blocks'[NoArray.s], <<>>)
        /\ nac' = IF r > 0 /\ a \notin Live THEN nac + 1 ELSE IF r = 0 /\ a \in Live THEN nac - 1 ELSE nac
    BY <2>1, <2>2, <2>5
  <2>7. NoArray.count = r
    BY <2>1, <2>3
  <2> QED BY <1>0, <1>1, <2>2, <2>3, <2>5, <2>6, <2>7, OneArray
<1>3. CASE ~LastLink(a)
  <2>1. r \in Nat \ {0}
    BY <1>0, <1>3 DEF LastLink
  <2>2. k \in ArrayRecs /\ k.count = r /\ k.s = acs[a].s /\ k.csize = acs[a].csize /\ k.msize = acs[a].msize
    BY <1>0, <2>1 DEF ArrayRecs
  <2>3. acs' = [acs EXCEPT ![a] = k]
    <3>1. [acs[a] EXCEPT !.count = acs[a].count - 1] = k
      BY <1>0, OneField
    <3>2. acs' = [acs EXCEPT ![a] = [acs[a] EXCEPT !.count = acs[a].count - 1]]
      BY <1>3 DEF ac_unlink
    <3> QED BY <3>1, <3>2
  <2>4. text' = [text EXCEPT ![a] = text[a]] /\ nac' = nac
        /\ blocks' = [blocks EXCEPT ![acs[a].s] = blocks[acs[a].s]]
    BY <1>0, <1>3, BlockSame DEF ac_unlink
  <2> HIDE DEF k, r
  <2>5. Fits(k, blocks[acs[a].s], text[a])
    BY <1>0, <2>2 DEF Fits
  <2> QED BY <1>0, <1>1, <2>1, <2>2, <2>3, <2>4, <2>5, InPlace
<1> QED BY <1>2, <1>3

(* ac_string has a place for the NULL.                                     *)
LEMMA ac_stringKeeps == ASSUME AcInv, NEW a \in Live, ac_string(a) PROVE AcInv'
<1> DEFINE b == [blocks[acs[a].s] EXCEPT ![acs[a].csize + 1] = "NULL"]
<1>0. /\ a \in Arrays /\ acs \in [Arrays -> ArrayRecs] /\ acs[a] \in ArrayRecs /\ text[a] \in Seq(Letters)
      /\ refs \in [Arrays -> Nat] /\ refs[a] \in Nat \ {0} /\ acs[a].count = refs[a]
      /\ Fits(acs[a], blocks[acs[a].s], text[a]) /\ text \in [Arrays -> Seq(Letters)]
  BY DEF AcInv, AcType, TextInv, Live
<1>1. /\ acs' = [acs EXCEPT ![a] = acs[a]] /\ refs' = [refs EXCEPT ![a] = refs[a]]
      /\ text' = [text EXCEPT ![a] = text[a]] /\ nac' = nac
      /\ blocks' = [blocks EXCEPT ![acs[a].s] = b]
  BY <1>0 DEF ac_string
<1>2. Fits(acs[a], b, text[a])
  <2>1. acs[a].csize \in Nat /\ acs[a].msize \in Nat
    BY <1>0 DEF ArrayRecs
  <2>2. b \in [1 .. acs[a].msize -> Chars]
    BY <1>0, <2>1 DEF Fits, Chars
  <2>3. \A i \in 1 .. acs[a].csize : b[i] = text[a][i]
    BY <1>0, <2>1 DEF Fits
  <2> HIDE DEF b
  <2> QED BY <1>0, <2>2, <2>3 DEF Fits
<1> HIDE DEF b
<1> QED BY <1>0, <1>1, <1>2, InPlace

(* ac_flush empties the array where it is.                                 *)
LEMMA ac_flushKeeps == ASSUME AcInv, NEW a \in Live, ac_flush(a) PROVE AcInv'
<1> DEFINE k == [count |-> acs[a].count, s |-> acs[a].s, csize |-> 0, msize |-> acs[a].msize]
<1>0. /\ a \in Arrays /\ acs \in [Arrays -> ArrayRecs] /\ acs[a] \in ArrayRecs
      /\ refs \in [Arrays -> Nat] /\ refs[a] \in Nat \ {0} /\ acs[a].count = refs[a]
      /\ Fits(acs[a], blocks[acs[a].s], text[a]) /\ <<>> \in Seq(Letters)
  BY DEF AcInv, AcType, TextInv, Live
<1>2. k \in ArrayRecs /\ k.count = refs[a] /\ k.s = acs[a].s /\ k.csize = 0 /\ k.msize = acs[a].msize
  BY <1>0 DEF ArrayRecs
<1>3. acs' = [acs EXCEPT ![a] = k]
  <2>1. [acs[a] EXCEPT !.csize = 0] = k
    BY <1>0, OneField
  <2>2. acs' = [acs EXCEPT ![a] = [acs[a] EXCEPT !.csize = 0]]
    BY DEF ac_flush
  <2> QED BY <2>1, <2>2
<1>4. /\ text' = [text EXCEPT ![a] = <<>>] /\ nac' = nac /\ refs' = [refs EXCEPT ![a] = refs[a]]
      /\ blocks' = [blocks EXCEPT ![acs[a].s] = blocks[acs[a].s]]
  BY <1>0, BlockSame DEF ac_flush
<1> HIDE DEF k
<1>5. Fits(k, blocks[acs[a].s], <<>>)
  <2>1. acs[a].csize \in Nat /\ acs[a].msize \in Nat /\ acs[a].csize < acs[a].msize
    BY <1>0 DEF ArrayRecs, Fits
  <2> QED BY <1>0, <1>2, <2>1 DEF Fits
<1> QED BY <1>0, <1>2, <1>3, <1>4, <1>5, InPlace

(* ac_create makes an array of a string.                                   *)
LEMMA CreateKeeps ==
  ASSUME AcInv, NEW a \in Arrays, refs[a] = 0, ac_alloc(a) \/ ac_create(a) \/ ac_cat(a) \/ ac_copy(a)
  PROVE  AcInv'
<1>1. CASE ac_alloc(a)
  <2>1. PICK size \in 0 .. MaxText : Made(a, <<>>, size)
    BY <1>1 DEF ac_alloc
  <2>2. size \in Nat /\ <<>> \in Seq(Letters) /\ Len(<<>>) <= size
    BY ArrayAssumption
  <2> QED BY <2>1, <2>2, MadeKeeps
<1>2. CASE ac_create(a)
  <2>1. PICK c \in Letters : Made(a, <<c>>, 1)
    BY <1>2 DEF ac_create
  <2>2. 1 \in Nat /\ <<c>> \in Seq(Letters) /\ Len(<<c>>) <= 1
    OBVIOUS
  <2> QED BY <2>1, <2>2, MadeKeeps
<1>3. CASE ac_cat(a)
  <2>1. PICK p, q \in Live : Made(a, Text(p) \o Text(q), Len(Text(p) \o Text(q)))
    BY <1>3 DEF ac_cat, Live
  <2> DEFINE t == Text(p) \o Text(q)
  <2>2. Text(p) \in Seq(Letters) /\ Text(q) \in Seq(Letters)
    BY TextIs
  <2>3. t \in Seq(Letters) /\ Len(t) \in Nat /\ Len(t) <= Len(t)
    BY <2>2
  <2> HIDE DEF t
  <2>4. Made(a, t, Len(t))
    BY <2>1 DEF t
  <2> QED BY <2>3, <2>4, MadeKeeps
<1>4. CASE ac_copy(a)
  <2>1. PICK p \in Live : Made(a, Text(p), Len(Text(p)))
    BY <1>4 DEF ac_copy, Live
  <2>2. Text(p) \in Seq(Letters) /\ Len(Text(p)) \in Nat /\ Len(Text(p)) <= Len(Text(p))
    <3>1. Text(p) \in Seq(Letters)
      BY TextIs
    <3>2. Len(Text(p)) \in Nat
      BY <3>1
    <3> QED BY <3>1, <3>2
  <2> QED BY <2>1, <2>2, MadeKeeps
<1> QED BY <1>1, <1>2, <1>3, <1>4

(* Every step keeps the invariant of the arrays.                           *)
LEMMA AcInvNext == AcInv /\ [AcNext]_acVars => AcInv'
<1> SUFFICES ASSUME AcInv, [AcNext]_acVars PROVE AcInv'
  OBVIOUS
<1>1. ASSUME NEW a \in {x \in Arrays : refs[x] = 0}, ac_alloc(a) \/ ac_create(a) \/ ac_cat(a) \/ ac_copy(a)
      PROVE  AcInv'
  BY <1>1, CreateKeeps
<1>2. ASSUME NEW a \in {x \in Arrays : refs[x] > 0},
             \/ \E c \in Letters : ac_xh(a, c)
             \/ ac_trim(a) \/ ac_link(a) \/ ac_unlink(a) \/ ac_string(a) \/ ac_flush(a)
      PROVE  AcInv'
  <2>1. a \in Live
    BY DEF Live
  <2> QED BY <1>2, <2>1, ac_xhKeeps, ac_trimKeeps, ac_linkKeeps, ac_unlinkKeeps, ac_stringKeeps, ac_flushKeeps
<1>3. ASSUME UNCHANGED acVars PROVE AcInv'
  BY <1>3, AcStutters
<1> QED BY <1>1, <1>2, <1>3 DEF AcNext

(* For any number of arrays and any length of text: however arrays are     *)
(* shared, grown, trimmed and freed, each keeps its text, in a block of    *)
(* its own that is freed with it (ac.c).                                   *)
THEOREM StorageAlways == AcSpec => []StorageKept
<1>1. AcInv => StorageKept
  BY AcInvImplies
<1> QED BY <1>1, AcInvInit, AcInvNext, PTL DEF AcSpec

-----------------------------------------------------------------------------
(* The terminal: what is stored, counted and typed, and the line that is   *)
(* edited.                                                                 *)
InKeys == {"a", "^A", "BEL"}
Storing == {"half", "stored", "storedCR", "storedP"}
Size(pc) == IF pc = "storedP" THEN 2 ELSE 1

OutType ==
  /\ tty_output_buffer \in [0 .. OutSize -> Nat]
  /\ tty_output_ptr \in Nat /\ tty_output_count \in Nat /\ arg \in Nat /\ sent \in Nat
  /\ since \in 0 .. sent /\ screen \in Seq(Nat) /\ broken \in BOOLEAN
  /\ tpc \in {"idle", "flush", "siot", "reset", "recount"} \union Storing

(* A character is taken only when two have room; what is stored is at most *)
(* one character, or one ^P, ahead of the count.                           *)
RoomInv ==
  /\ tty_output_count <= OutSize
  /\ tpc \in {"idle"} \union Storing => tty_output_count = 0 \/ tty_output_count < OutSize - 2
  /\ tpc \in Storing => tty_output_ptr <= tty_output_count + Size(tpc)
  /\ tpc \in {"idle", "flush", "siot", "reset"} => tty_output_ptr <= tty_output_count
  /\ tpc = "siot" => tty_output_ptr <= arg /\ arg <= OutSize
  /\ tpc = "recount" => tty_output_ptr = 0

(* All from `since' on but the last n characters have been typed, and those *)
(* n are buffered.                                                         *)
TypedBut(n) ==
  /\ n <= sent - since /\ Len(screen) = sent - since - n
  /\ \A i \in 1 .. sent - since - n : screen[i] = since + i
  /\ \A i \in 0 .. n - 1 : tty_output_buffer[i] = sent - n + 1 + i

OrderInv ==
  ~broken =>
    /\ hit = {}
    /\ tpc \in {"idle", "flush", "siot"} => tty_output_ptr = tty_output_count /\ TypedBut(tty_output_count)
    /\ tpc = "siot" => arg = tty_output_count
    /\ tpc \in Storing => tty_output_ptr = tty_output_count + Size(tpc) /\ TypedBut(tty_output_ptr)
    /\ tpc \in {"reset", "recount"} => TypedBut(0)

LineInv ==
  /\ line \in Seq(InKeys) /\ Len(line) <= InSize - 1
  /\ column = Shown(line)
  /\ answer \in Seq(InKeys \union {"NL"}) /\ Len(answer) <= InSize

OutInv == OutType /\ RoomInv /\ OrderInv /\ NoneDropped
TtyInv == OutInv /\ LineInv

(* One character is stored, or the two of a ^P.                            *)
LEMMA SizeIs ==
  ASSUME NEW pc
  PROVE  /\ Size(pc) \in 1 .. 2
         /\ pc = "storedP" => Size(pc) = 2
         /\ pc # "storedP" => Size(pc) = 1
<1>1. CASE pc = "storedP"
  <2>1. Size(pc) = 2
    BY <1>1 DEF Size
  <2>2. 2 \in 1 .. 2
    OBVIOUS
  <2>3. Size(pc) \in 1 .. 2
    BY Zenon, <2>1, <2>2
  <2> QED BY <1>1, <2>1, <2>3
<1>2. CASE pc # "storedP"
  <2>1. Size(pc) = 1
    BY <1>2 DEF Size
  <2>2. 1 \in 1 .. 2
    OBVIOUS
  <2>3. Size(pc) \in 1 .. 2
    BY Zenon, <2>1, <2>2
  <2> QED BY <1>2, <2>1, <2>3
<1> QED BY <1>1, <1>2

(* The places of a key in a line are finitely many.                        *)
LEMMA ThoseFinite ==
  ASSUME NEW b \in Seq(InKeys), NEW key
  PROVE  /\ Those(b, key) \subseteq 1 .. Len(b)
         /\ IsFiniteSet(Those(b, key)) /\ Cardinality(Those(b, key)) \in Nat
<1>1. Len(b) \in Nat
  OBVIOUS
<1>2. Those(b, key) \subseteq 1 .. Len(b)
  BY DEF Those
<1>3. IsFiniteSet(1 .. Len(b))
  BY <1>1, FS_Interval
<1>4. IsFiniteSet(Those(b, key))
  BY <1>2, <1>3, FS_Subset
<1> QED BY <1>2, <1>4, FS_CardinalityType

(* A line shows in at most two columns for each character.                 *)
LEMMA ShownBounds ==
  ASSUME NEW b \in Seq(InKeys)
  PROVE  Shown(b) \in 0 .. 2 * Len(b)
<1> DEFINE A == Those(b, "a")  B == Those(b, "^A")  I == 1 .. Len(b)
<1>1. Len(b) \in Nat /\ 1 \in Int /\ Len(b) \in Int
  OBVIOUS
<1>2. IsFiniteSet(I) /\ Cardinality(I) = Len(b)
  BY SMTT(30), <1>1, FS_Interval
<1>3. /\ IsFiniteSet(A) /\ Cardinality(A) \in Nat
      /\ IsFiniteSet(B) /\ Cardinality(B) \in Nat
      /\ A \subseteq I /\ B \subseteq I
  BY ThoseFinite
<1>4. A \intersect B = {}
  BY DEF Those
<1>5. IsFiniteSet(A \union B) /\ Cardinality(A \union B) = Cardinality(A) + Cardinality(B) - Cardinality(A \intersect B)
  BY <1>3, FS_Union
<1>6. Cardinality(A \intersect B) = 0
  BY <1>4, FS_EmptySet
<1>7. Cardinality(A \union B) <= Cardinality(I)
  <2>1. A \union B \subseteq I
    BY <1>3
  <2> HIDE DEF A, B, I
  <2> QED BY <1>2, <2>1, FS_Subset
<1>8. Shown(b) = Cardinality(A) + 2 * Cardinality(B)
  <2>1. Width("a") = 1 /\ Width("^A") = 2
    BY DEF Width
  <2> QED BY <2>1, <1>3 DEF Shown
<1> HIDE DEF A, B, I
<1> QED BY <1>1, <1>2, <1>3, <1>5, <1>6, <1>7, <1>8

(* A character more shows in its own columns more.                         *)
LEMMA ShownAppend ==
  ASSUME NEW b \in Seq(InKeys), NEW key \in InKeys
  PROVE  /\ Append(b, key) \in Seq(InKeys) /\ Len(Append(b, key)) = Len(b) + 1
         /\ Shown(Append(b, key)) = Shown(b) + Width(key)
<1> DEFINE c == Append(b, key)
<1>1. Len(b) \in Nat /\ c \in Seq(InKeys) /\ Len(c) = Len(b) + 1
  OBVIOUS
<1>2. \A i \in 1 .. Len(b) : c[i] = b[i]
  OBVIOUS
<1>3. c[Len(b) + 1] = key
  OBVIOUS
<1>d. DOMAIN b = 1 .. Len(b) /\ DOMAIN c = 1 .. Len(b) + 1
  BY <1>1
<1> HIDE DEF c
<1>4. ASSUME NEW k
      PROVE  Cardinality(Those(c, k)) = Cardinality(Those(b, k)) + (IF k = key THEN 1 ELSE 0)
  <2>1. IsFiniteSet(Those(b, k)) /\ Those(b, k) \subseteq 1 .. Len(b) /\ Cardinality(Those(b, k)) \in Nat
    BY ThoseFinite
  <2>2. CASE k = key
    <3>1. Those(c, k) = Those(b, k) \union {Len(b) + 1}
      BY <1>1, <1>2, <1>3, <1>d, <2>2 DEF Those
    <3>2. Len(b) + 1 \notin Those(b, k)
      BY <1>1, <2>1
    <3> QED BY <3>1, <3>2, <2>1, <2>2, FS_AddElement
  <2>3. CASE k # key
    <3>1. Those(c, k) = Those(b, k)
      BY <1>1, <1>2, <1>3, <1>d, <2>3 DEF Those
    <3> QED BY <3>1, <2>1, <2>3
  <2> QED BY <2>2, <2>3
<1>5. Cardinality(Those(b, "a")) \in Nat /\ Cardinality(Those(b, "^A")) \in Nat
  BY ThoseFinite
<1>6. Shown(c) = Shown(b) + Width(key)
  <2>1. Width("a") = 1 /\ Width("^A") = 2 /\ Width("BEL") = 0
    BY DEF Width
  <2>2. CASE key = "a"
    BY <1>4, <1>5, <2>1, <2>2 DEF Shown
  <2>3. CASE key = "^A"
    BY <1>4, <1>5, <2>1, <2>3 DEF Shown
  <2>4. CASE key = "BEL"
    BY <1>4, <1>5, <2>1, <2>4 DEF Shown
  <2> QED BY <2>2, <2>3, <2>4 DEF InKeys
<1> QED BY <1>1, <1>6 DEF c

(* A character less shows in its own columns less.                         *)
LEMMA ShownFront ==
  ASSUME NEW b \in Seq(InKeys), b # <<>>
  PROVE  /\ Front(b) \in Seq(InKeys) /\ Len(Front(b)) = Len(b) - 1
         /\ Shown(Front(b)) = Shown(b) - Width(Last(b))
<1> DEFINE c == Front(b)  key == b[Len(b)]
<1>1. Len(b) \in Nat /\ Len(b) >= 1
  OBVIOUS
<1>2. c \in Seq(InKeys) /\ Len(c) = Len(b) - 1 /\ \A i \in 1 .. Len(b) - 1 : c[i] = b[i]
  <2>1. 1 \in 1 .. Len(b) + 1 /\ Len(b) - 1 \in 0 .. Len(b)
    BY <1>1
  <2>2. \A i \in 1 .. Len(b) - 1 : b[i] \in InKeys
    BY <1>1
  <2>3. c = [i \in 1 .. Len(b) - 1 |-> b[i]]
    BY <1>1 DEF Front
  <2> HIDE DEF c
  <2>4. c \in [1 .. Len(b) - 1 -> InKeys]
    BY <2>2, <2>3
  <2>5. c \in Seq(InKeys) /\ Len(c) = Len(b) - 1
    BY <1>1, <2>4
  <2> QED BY <2>3, <2>5
<1>3. key \in InKeys /\ key = Last(b)
  BY <1>1 DEF Last
<1>d. DOMAIN b = 1 .. Len(b) /\ DOMAIN c = 1 .. Len(b) - 1
  BY <1>1, <1>2
<1> HIDE DEF c
<1>4. ASSUME NEW k
      PROVE  Cardinality(Those(c, k)) = Cardinality(Those(b, k)) - (IF k = key THEN 1 ELSE 0)
  <2>1. IsFiniteSet(Those(b, k)) /\ Cardinality(Those(b, k)) \in Nat
    BY ThoseFinite
  <2>2. CASE k = key
    <3>1. Those(c, k) = Those(b, k) \ {Len(b)}
      BY <1>1, <1>2, <1>d, <2>2 DEF Those
    <3>2. Len(b) \in Those(b, k)
      BY <1>1, <1>d, <2>2 DEF Those
    <3> QED BY <3>1, <3>2, <2>1, <2>2, FS_RemoveElement
  <2>3. CASE k # key
    <3>1. Those(c, k) = Those(b, k)
      BY <1>1, <1>2, <1>d, <2>3 DEF Those
    <3> QED BY <3>1, <2>1, <2>3
  <2> QED BY <2>2, <2>3
<1>5. Cardinality(Those(b, "a")) \in Nat /\ Cardinality(Those(b, "^A")) \in Nat
  BY ThoseFinite
<1> HIDE DEF key
<1>6. Shown(c) = Shown(b) - Width(key)
  <2>1. Width("a") = 1 /\ Width("^A") = 2 /\ Width("BEL") = 0
    BY DEF Width
  <2>2. CASE key = "a"
    BY <1>4, <1>5, <2>1, <2>2 DEF Shown
  <2>3. CASE key = "^A"
    BY <1>4, <1>5, <2>1, <2>3 DEF Shown
  <2>4. CASE key = "BEL"
    BY <1>4, <1>5, <2>1, <2>4 DEF Shown
  <2> QED BY <2>2, <2>3, <2>4, <1>3 DEF InKeys
<1> QED BY <1>2, <1>3, <1>6 DEF c

(* A key keeps the column true and the line in its buffer.                 *)
LEMMA LineInvUserTypes == LineInv /\ UserTypes => LineInv'
<1> SUFFICES ASSUME LineInv, UserTypes PROVE LineInv'
  OBVIOUS
<1>1. PICK key \in InKeys \union {"rubout", "^L", "NL", "EOF", "break"} : get_buf(key)
  BY DEF UserTypes, InKeys
<1>2. /\ line \in Seq(InKeys) /\ Len(line) \in Nat /\ Len(line) <= InSize - 1
      /\ column = Shown(line) /\ answer \in Seq(InKeys \union {"NL"}) /\ Len(answer) <= InSize
      /\ InSize \in Nat /\ InSize >= 1
  BY TtyAssumption DEF LineInv
<1>3. Shown(line) \in Nat
  BY <1>2, ShownBounds
<1>4. CASE key \in {"break", "EOF"}
  <2>1. line' = <<>> /\ column' = 0 /\ answer' = IF key = "break" THEN Append(line, "NL") ELSE line
    BY <1>1, <1>4 DEF get_buf
  <2>2. <<>> \in Seq(InKeys) /\ Len(<<>>) = 0
    OBVIOUS
  <2>3. Shown(<<>>) = 0
    <3>1. Shown(<<>>) \in 0 .. 2 * Len(<<>>)
      BY <2>2, ShownBounds
    <3> QED BY <2>2, <3>1
  <2>4. line \in Seq(InKeys \union {"NL"})
    BY <1>2
  <2>5. answer' \in Seq(InKeys \union {"NL"}) /\ Len(answer') <= InSize
    BY <2>1, <2>4, <1>2
  <2> QED BY <1>2, <2>1, <2>2, <2>3, <2>5 DEF LineInv
<1>5. CASE key = "rubout"
  <2>1. CASE line = <<>>
    BY <1>1, <1>2, <1>5, <2>1 DEF get_buf, LineInv
  <2>2. CASE line # <<>>
    <3>1. line' = Front(line) /\ column' = column - Width(Last(line)) /\ answer' = answer
      BY <1>1, <1>5, <2>2 DEF get_buf, Erased
    <3>2. Front(line) \in Seq(InKeys) /\ Len(Front(line)) = Len(line) - 1 /\ Shown(Front(line)) = Shown(line) - Width(Last(line))
      BY <1>2, <2>2, ShownFront
    <3> QED BY <1>2, <3>1, <3>2 DEF LineInv
  <2> QED BY <2>1, <2>2
<1>6. CASE key = "^L"
  <2>1. line' = line /\ column' = Shown(line) /\ answer' = answer
    BY <1>1, <1>6 DEF get_buf
  <2> QED BY <1>2, <2>1 DEF LineInv
<1>7. CASE key = "NL"
  <2>1. line' = line /\ column' = column /\ answer' = answer
    BY <1>1, <1>7 DEF get_buf, inVars
  <2> QED BY <1>2, <2>1 DEF LineInv
<1>8. CASE key \in InKeys
  <2>1. CASE HasRoom(line)
    <3>1. line' = Append(line, key) /\ column' = column + Width(key) /\ answer' = answer
      BY <1>1, <1>8, <2>1 DEF get_buf, InKeys
    <3>2. /\ Append(line, key) \in Seq(InKeys) /\ Len(Append(line, key)) = Len(line) + 1
          /\ Shown(Append(line, key)) = Shown(line) + Width(key)
      BY <1>2, <1>8, ShownAppend
    <3>3. Len(line) + 1 <= InSize - 1
      BY <1>2, <2>1 DEF HasRoom
    <3> QED BY <1>2, <3>1, <3>2, <3>3 DEF LineInv
  <2>2. CASE ~HasRoom(line)
    <3>1. line' = line /\ column' = column /\ answer' = answer
      BY <1>1, <1>8, <2>2 DEF get_buf, InKeys
    <3> QED BY <1>2, <3>1 DEF LineInv
  <2> QED BY <2>1, <2>2
<1> QED BY <1>1, <1>4, <1>5, <1>6, <1>7, <1>8

(* So does every other step.                                               *)
LEMMA LineInvNext == LineInv /\ [TtyNext]_ttyVars => LineInv'
<1> SUFFICES ASSUME LineInv, [TtyNext]_ttyVars PROVE LineInv'
  OBVIOUS
<1>1. CASE UserTypes
  BY <1>1, LineInvUserTypes
<1>2. CASE tyi
  <2>1. line' = line /\ column' = column /\ answer' = Tail(answer) /\ answer # <<>>
    BY <1>2 DEF tyi
  <2>2. answer \in Seq(InKeys \union {"NL"}) /\ Len(answer) <= InSize /\ InSize \in Nat
    BY TtyAssumption DEF LineInv
  <2>3. Tail(answer) \in Seq(InKeys \union {"NL"}) /\ Len(Tail(answer)) = Len(answer) - 1
    BY <2>1, <2>2
  <2>4. Len(answer) \in Nat
    BY <2>2
  <2>5. Len(Tail(answer)) <= InSize
    BY <2>2, <2>3, <2>4
  <2> QED BY <2>1, <2>3, <2>5 DEF LineInv
<1>3. CASE UNCHANGED inVars
  BY <1>3 DEF LineInv, inVars
<1> QED
  <2>1. CASE TtyNext
    BY <1>1, <1>2, <1>3, <2>1 DEF TtyNext, OutNext, LineNext, tyo, tyoP, Stores, tyoCount, tyo_flush, siot, resetPtr,
                                  resetCount, message
  <2>2. CASE UNCHANGED ttyVars
    BY <1>3, <2>2 DEF ttyVars
  <2> QED BY <2>1, <2>2

\* What is in the buffer goes behind what is on the screen.
LEMMA TypeBuffer ==
  ASSUME OutType, NEW n \in Nat, n <= OutSize
  PROVE  /\ screen \o Buffered(n) \in Seq(Nat)
         /\ TypedBut(n) =>
              /\ Len(screen \o Buffered(n)) = sent - since
              /\ \A i \in 1 .. sent - since : (screen \o Buffered(n))[i] = since + i
         /\ \A i \in DOMAIN screen : \E j \in DOMAIN (screen \o Buffered(n)) : (screen \o Buffered(n))[j] = screen[i]
         /\ \A i \in 0 .. n - 1 :
              \E j \in DOMAIN (screen \o Buffered(n)) : (screen \o Buffered(n))[j] = tty_output_buffer[i]
<1> DEFINE t == Buffered(n)  w == screen \o t
<1>1. /\ OutSize \in Nat /\ tty_output_buffer \in [0 .. OutSize -> Nat] /\ screen \in Seq(Nat)
      /\ sent \in Nat /\ since \in 0 .. sent /\ Len(screen) \in Nat
  BY TtyAssumption DEF OutType
<1>2. \A i \in 1 .. n : i - 1 \in 0 .. OutSize
  BY <1>1
<1>3. t \in [1 .. n -> Nat] /\ \A i \in 1 .. n : t[i] = tty_output_buffer[i - 1]
  BY <1>1, <1>2 DEF Buffered
<1>4. t \in Seq(Nat) /\ Len(t) = n
  BY <1>3
<1> HIDE DEF t
<1>5. w \in Seq(Nat) /\ Len(w) = Len(screen) + n
  BY ZenonT(60), <1>1, <1>4, ConcatProperties
<1>6. \A i \in 1 .. Len(w) : w[i] = IF i <= Len(screen) THEN screen[i] ELSE t[i - Len(screen)]
  BY <1>1, <1>4, <1>5, ConcatProperties
<1> HIDE DEF w
<1>7. ASSUME TypedBut(n)
      PROVE  Len(w) = sent - since /\ \A i \in 1 .. sent - since : w[i] = since + i
  <2>1. Len(screen) = sent - since - n /\ n <= sent - since
    BY <1>7 DEF TypedBut
  <2>2. Len(w) = sent - since
    BY <2>1, <1>1, <1>5
  <2>3. ASSUME NEW i \in 1 .. sent - since PROVE w[i] = since + i
    <3>1. CASE i <= Len(screen)
      <4>1. screen[i] = since + i
        BY <3>1, <2>1, <1>1, <1>7 DEF TypedBut
      <4> QED BY <4>1, <3>1, <1>6, <2>2
    <3>2. CASE ~(i <= Len(screen))
      <4>1. i - Len(screen) \in 1 .. n /\ i - Len(screen) - 1 \in 0 .. n - 1
        BY <3>2, <1>1, <2>1
      <4>2. t[i - Len(screen)] = tty_output_buffer[i - Len(screen) - 1]
        BY <4>1, <1>3
      <4>3. tty_output_buffer[i - Len(screen) - 1] = sent - n + 1 + (i - Len(screen) - 1)
        BY <4>1, <1>7 DEF TypedBut
      <4>4. sent - n + 1 + (i - Len(screen) - 1) = since + i
        BY <1>1, <2>1
      <4> QED BY <4>2, <4>3, <4>4, <3>2, <1>6, <2>2
    <3> QED BY <3>1, <3>2
  <2> QED BY <2>2, <2>3
<1>8. \A i \in DOMAIN screen : \E j \in DOMAIN w : w[j] = screen[i]
  <2> SUFFICES ASSUME NEW i \in DOMAIN screen PROVE \E j \in DOMAIN w : w[j] = screen[i]
    OBVIOUS
  <2>1. i \in 1 .. Len(screen)
    BY <1>1
  <2>2. i \in 1 .. Len(w) /\ i <= Len(screen)
    BY <2>1, <1>1, <1>5
  <2>3. i \in DOMAIN w
    BY <2>2, <1>5
  <2> QED BY <2>2, <2>3, <1>6
<1>9. \A i \in 0 .. n - 1 : \E j \in DOMAIN w : w[j] = tty_output_buffer[i]
  <2> SUFFICES ASSUME NEW i \in 0 .. n - 1 PROVE \E j \in DOMAIN w : w[j] = tty_output_buffer[i]
    OBVIOUS
  <2> DEFINE j == Len(screen) + i + 1
  <2>1. j \in 1 .. Len(w) /\ ~(j <= Len(screen)) /\ j - Len(screen) = i + 1 /\ i + 1 \in 1 .. n /\ i + 1 - 1 = i
    BY <1>1, <1>5
  <2>2. w[j] = t[i + 1] /\ t[i + 1] = tty_output_buffer[i]
    <3>1. t[i + 1] = tty_output_buffer[i + 1 - 1]
      BY <2>1, <1>3
    <3>2. w[j] = t[j - Len(screen)]
      BY <2>1, <1>6, Zenon
    <3> QED BY <3>1, <3>2, <2>1
  <2>3. j \in DOMAIN w
    <3> HIDE DEF j
    <3> QED BY <2>1, <1>5
  <2> QED BY <2>2, <2>3
<1> QED BY <1>5, <1>7, <1>8, <1>9 DEF w, t

(* The output buffer starts empty.                                         *)
LEMMA OutInvInit == TtyInit => OutInv
<1> SUFFICES ASSUME TtyInit PROVE OutInv
  OBVIOUS
<1> USE TtyAssumption
<1>1. OutType
  <2>1. tty_output_buffer \in [0 .. OutSize -> Nat]
    BY DEF TtyInit
  <2>2. screen \in Seq(Nat)
    BY DEF TtyInit
  <2>3. tpc = "idle" /\ broken \in BOOLEAN
    BY Zenon DEF TtyInit
  <2>4. tty_output_ptr \in Nat /\ tty_output_count \in Nat /\ sent \in Nat /\ arg \in Nat /\ since \in 0 .. sent
    BY DEF TtyInit
  <2> QED BY <2>1, <2>2, <2>3, <2>4 DEF OutType
<1>2. RoomInv
  BY DEF TtyInit, RoomInv, Storing
<1>3. OrderInv
  <2>1. TypedBut(0)
    BY DEF TtyInit, TypedBut
  <2>2. tpc = "idle" /\ tty_output_ptr = 0 /\ tty_output_count = 0 /\ hit = {}
    BY DEF TtyInit
  <2> QED BY <2>1, <2>2 DEF OrderInv, Storing
<1>4. NoneDropped
  BY DEF TtyInit, NoneDropped
<1> QED BY <1>1, <1>2, <1>3, <1>4 DEF OutInv

(* A character is stored behind those that are there, and has room.        *)
LEMMA StoresKeeps ==
  ASSUME OutInv, Stores, tpc \in {"idle", "half"}, tpc' \in Storing,
         tpc' = "storedP" <=> tpc = "half"
  PROVE  OutInv'
<1>1. /\ tty_output_buffer' = [tty_output_buffer EXCEPT ![tty_output_ptr] = sent + 1]
      /\ tty_output_ptr' = tty_output_ptr + 1 /\ sent' = sent + 1
      /\ UNCHANGED <<tty_output_count, arg, screen, since, broken, hit>>
  BY DEF Stores, history
<1>2. /\ tty_output_buffer \in [0 .. OutSize -> Nat] /\ tty_output_ptr \in Nat /\ screen \in Seq(Nat)
      /\ tty_output_count \in Nat /\ sent \in Nat /\ since \in 0 .. sent /\ OutSize \in Nat /\ OutSize >= 5
  BY TtyAssumption DEF OutInv, OutType
<1>3. /\ tty_output_ptr + 1 <= tty_output_count + Size(tpc') /\ tty_output_ptr <= OutSize - 1
      /\ tty_output_count = 0 \/ tty_output_count < OutSize - 2
  <2>1. CASE tpc = "idle"
    <3>1. tty_output_ptr <= tty_output_count /\ (tty_output_count = 0 \/ tty_output_count < OutSize - 2)
      BY <2>1 DEF OutInv, RoomInv
    <3>2. Size(tpc') = 1
      BY <2>1 DEF Size
    <3> QED BY <3>1, <3>2, <1>2
  <2>2. CASE tpc = "half"
    <3>1. tty_output_ptr <= tty_output_count + 1 /\ (tty_output_count = 0 \/ tty_output_count < OutSize - 2)
      BY <2>2 DEF OutInv, RoomInv, Storing, Size
    <3>2. Size(tpc') = 2
      BY <2>2 DEF Size
    <3> QED BY <3>1, <3>2, <1>2
  <2> QED BY <2>1, <2>2
<1>4. /\ tty_output_buffer' \in [0 .. OutSize -> Nat] /\ tty_output_buffer'[tty_output_ptr] = sent + 1
      /\ \A i \in 0 .. tty_output_ptr - 1 : tty_output_buffer'[i] = tty_output_buffer[i]
  <2>1. tty_output_ptr \in 0 .. OutSize
    BY <1>2, <1>3
  <2> QED BY <2>1, <1>1, <1>2
<1>5. OutType'
  BY <1>1, <1>2, <1>4 DEF OutInv, OutType
<1>6. RoomInv'
  <2>1. tpc' \notin {"idle", "flush", "siot", "reset", "recount"}
    BY DEF Storing
  <2>2. tty_output_ptr' <= tty_output_count' + Size(tpc')
    BY <1>1, <1>3
  <2>3. tty_output_count' <= OutSize /\ (tty_output_count' = 0 \/ tty_output_count' < OutSize - 2)
    BY <1>1, <1>2, <1>3
  <2> QED BY <2>1, <2>2, <2>3 DEF RoomInv
<1>7. OrderInv'
  <2> SUFFICES ASSUME ~broken'
               PROVE  hit' = {} /\ tty_output_ptr' = tty_output_count' + Size(tpc') /\ TypedBut(tty_output_ptr)'
    BY DEF OrderInv, Storing
  <2>0. ~broken /\ hit' = {}
    BY <1>1 DEF OutInv, OrderInv
  <2>1. TypedBut(tty_output_ptr) /\ tty_output_ptr + 1 = tty_output_count + Size(tpc')
    <3>1. CASE tpc = "idle"
      <4>1. tty_output_ptr = tty_output_count /\ TypedBut(tty_output_count)
        BY <3>1, <2>0 DEF OutInv, OrderInv
      <4>2. Size(tpc') = 1
        BY <3>1 DEF Size
      <4> QED BY <4>1, <4>2, <1>2
    <3>2. CASE tpc = "half"
      <4>1. tty_output_ptr = tty_output_count + Size(tpc) /\ TypedBut(tty_output_ptr)
        BY <3>2, <2>0 DEF OutInv, OrderInv, Storing
      <4>2. Size(tpc) = 1 /\ Size(tpc') = 2
        BY <3>2 DEF Size
      <4> QED BY <4>1, <4>2, <1>2
    <3> QED BY <3>1, <3>2
  <2>2. /\ tty_output_ptr <= sent - since /\ Len(screen) = sent - since - tty_output_ptr
        /\ \A i \in 1 .. sent - since - tty_output_ptr : screen[i] = since + i
        /\ \A i \in 0 .. tty_output_ptr - 1 : tty_output_buffer[i] = sent - tty_output_ptr + 1 + i
    BY <2>1 DEF TypedBut
  <2>3. /\ sent' - since' - tty_output_ptr' = sent - since - tty_output_ptr /\ tty_output_ptr' <= sent' - since'
        /\ sent' - tty_output_ptr' = sent - tty_output_ptr
    BY <1>1, <1>2, <2>2
  <2>5. ASSUME NEW i \in 0 .. tty_output_ptr' - 1
        PROVE  tty_output_buffer'[i] = sent' - tty_output_ptr' + 1 + i
    <3>1. CASE i = tty_output_ptr
      BY <3>1, <1>1, <1>2, <1>4
    <3>2. CASE i # tty_output_ptr
      <4>1. i \in 0 .. tty_output_ptr - 1
        BY <3>2, <1>1, <1>2
      <4> QED BY <4>1, <1>4, <2>2, <2>3
    <3> QED BY <3>1, <3>2
  <2>6. TypedBut(tty_output_ptr)'
    BY <2>2, <2>3, <2>5, <1>1 DEF TypedBut
  <2> QED BY <2>0, <2>1, <2>6, <1>1
<1>8. NoneDropped'
  <2> SUFFICES ASSUME NEW k \in since' + 1 .. sent'
               PROVE  \/ k \in hit' \/ \E i \in DOMAIN screen' : screen'[i] = k
                      \/ \E i \in 0 .. tty_output_ptr' - 1 : tty_output_buffer'[i] = k
    BY DEF NoneDropped, Storing
  <2>1. CASE k = sent + 1
    <3>1. tty_output_ptr \in 0 .. tty_output_ptr' - 1
      BY <1>1, <1>2
    <3> QED BY <3>1, <2>1, <1>4
  <2>2. CASE k # sent + 1
    <3>1. k \in since + 1 .. sent
      BY <2>2, <1>1, <1>2
    <3>2. \/ k \in hit \/ \E i \in DOMAIN screen : screen[i] = k
          \/ \E i \in 0 .. tty_output_ptr - 1 : tty_output_buffer[i] = k
      BY <3>1 DEF OutInv, NoneDropped
    <3>3. \A i \in 0 .. tty_output_ptr - 1 : i \in 0 .. tty_output_ptr' - 1
      BY <1>1, <1>2
    <3> QED BY <3>2, <3>3, <1>1, <1>4
  <2> QED BY <2>1, <2>2
<1> QED BY <1>5, <1>6, <1>7, <1>8 DEF OutInv

(* tyo stores a character, or the first and then the second of a ^P.       *)
LEMMA OutInvTyo == OutInv /\ (tyo \/ tyoP) => OutInv'
<1>1. ASSUME OutInv, tyo PROVE OutInv'
  <2>1. tpc = "idle" /\ Stores /\ tpc' \in {"half", "stored", "storedCR"}
    BY <1>1 DEF tyo, Kinds, Stored
  <2>2. tpc' \in Storing /\ (tpc' = "storedP" <=> tpc = "half")
    BY <2>1 DEF Storing
  <2> QED BY <1>1, <2>1, <2>2, StoresKeeps
<1>2. ASSUME OutInv, tyoP PROVE OutInv'
  <2>1. tpc = "half" /\ Stores /\ tpc' = "storedP"
    BY <1>2 DEF tyoP
  <2>2. tpc' \in Storing /\ (tpc' = "storedP" <=> tpc = "half")
    BY <2>1 DEF Storing
  <2> QED BY <1>2, <2>1, <2>2, StoresKeeps
<1> QED BY <1>1, <1>2

(* Then it is counted, and the line goes out in time.                      *)
LEMMA OutInvTyoCount == OutInv /\ tyoCount => OutInv'
<1> SUFFICES ASSUME OutInv, tyoCount PROVE OutInv'
  OBVIOUS
<1>1. tpc \in Storing /\ tpc # "half"
  BY DEF tyoCount, Storing
<1>2. tty_output_count' = tty_output_count + Size(tpc) /\ Size(tpc) \in 1 .. 2
  <2>1. Size(tpc) = IF tpc = "storedP" THEN 2 ELSE 1
    BY DEF Size
  <2>2. tty_output_count' = tty_output_count + (IF tpc = "storedP" THEN 2 ELSE 1)
    BY Zenon DEF tyoCount
  <2>3. tty_output_count' = tty_output_count + Size(tpc)
    BY <2>1, <2>2
  <2>4. Size(tpc) \in 1 .. 2
    BY SizeIs
  <2> QED BY <2>3, <2>4
<1>3. UNCHANGED <<tty_output_buffer, tty_output_ptr, sent, screen, since, broken, hit>>
  BY DEF tyoCount, history
<1>4. /\ tty_output_ptr \in Nat /\ tty_output_count \in Nat /\ OutSize \in Nat /\ OutSize >= 5
      /\ tty_output_ptr <= tty_output_count + Size(tpc)
      /\ tty_output_count = 0 \/ tty_output_count < OutSize - 2
  BY <1>1, TtyAssumption DEF OutInv, OutType, RoomInv
<1>5. tpc' \in {"flush", "idle"} /\ (tpc' = "idle" => ~(tty_output_count' >= OutSize - 2)) /\ arg' = arg
  BY DEF tyoCount, LineFull
<1>6. OutType'
  <2>1. tty_output_count' \in Nat
    BY <1>2, <1>4
  <2> QED BY <2>1, <1>3, <1>5 DEF OutInv, OutType
<1>7. RoomInv'
  <2>1. tty_output_count' <= OutSize /\ tty_output_ptr' <= tty_output_count'
    BY <1>2, <1>3, <1>4
  <2>2. tpc' = "idle" => tty_output_count' < OutSize - 2
    BY <1>2, <1>4, <1>5
  <2>3. tpc' \notin Storing \union {"siot", "reset", "recount"}
    BY <1>5 DEF Storing
  <2> QED BY <2>1, <2>2, <2>3 DEF RoomInv
<1>8. OrderInv'
  <2>1. ~broken => hit = {} /\ tty_output_ptr = tty_output_count + Size(tpc) /\ TypedBut(tty_output_ptr)
    BY <1>1 DEF OutInv, OrderInv
  <2>2. tpc' \notin Storing \union {"siot", "reset", "recount"}
    BY <1>5 DEF Storing
  <2>3. ~broken' => hit' = {} /\ tty_output_ptr' = tty_output_count' /\ TypedBut(tty_output_count)'
    BY <2>1, <1>2, <1>3 DEF TypedBut
  <2> QED BY <2>2, <2>3 DEF OrderInv
<1>9. NoneDropped'
  <2>1. tpc \notin {"reset", "recount"} /\ tpc' \notin {"reset", "recount"}
    BY <1>1, <1>5 DEF Storing
  <2> QED BY <2>1, <1>3 DEF OutInv, NoneDropped
<1> QED BY <1>6, <1>7, <1>8, <1>9 DEF OutInv

\* What a message has broken is over with an empty buffer.
LEMMA OverKeeps ==
  ASSUME OutInv, Settled, tpc' \in {"idle", "flush"}, tty_output_ptr' = 0, tty_output_count' = 0,
         UNCHANGED <<sent, arg>>, tty_output_buffer' \in [0 .. OutSize -> Nat]
  PROVE  OutInv'
<1>1. /\ since' = sent /\ screen' = <<>> /\ broken' = FALSE /\ hit' = {}
      /\ sent \in Nat /\ OutSize \in Nat /\ OutSize >= 5
  BY TtyAssumption DEF Settled, OutInv, OutType
<1>2. OutType'
  <2>1. arg \in Nat /\ screen' \in Seq(Nat)
    BY <1>1 DEF OutInv, OutType
  <2>2. since' \in 0 .. sent'
    BY <1>1
  <2> QED BY <1>1, <2>1, <2>2 DEF OutType
<1>3. RoomInv'
  <2>1. tpc' \notin Storing \union {"siot", "reset", "recount"}
    BY DEF Storing
  <2> QED BY <2>1, <1>1 DEF RoomInv
<1>4. OrderInv'
  <2>1. tpc' \notin Storing \union {"siot", "reset", "recount"}
    BY DEF Storing
  <2>2. TypedBut(0)'
    BY <1>1 DEF TypedBut
  <2>3. TypedBut(tty_output_count)'
    BY <2>2 DEF TypedBut
  <2> QED BY <2>1, <2>3, <1>1 DEF OrderInv
<1>5. NoneDropped'
  BY <1>1 DEF NoneDropped
<1> QED BY <1>2, <1>3, <1>4, <1>5 DEF OutInv

(* The flush types what is counted and empties the buffer.                 *)
LEMMA OutInvFlush == OutInv /\ (tyo_flush \/ siot \/ resetPtr \/ resetCount) => OutInv'
<1> SUFFICES ASSUME OutInv, tyo_flush \/ siot \/ resetPtr \/ resetCount PROVE OutInv'
  OBVIOUS
<1>t. /\ tty_output_buffer \in [0 .. OutSize -> Nat] /\ tty_output_ptr \in Nat /\ arg \in Nat
      /\ tty_output_count \in Nat /\ sent \in Nat /\ screen \in Seq(Nat) /\ broken \in BOOLEAN /\ since \in 0 .. sent
      /\ OutSize \in Nat /\ OutSize >= 5 /\ tty_output_count <= OutSize
  BY TtyAssumption DEF OutInv, OutType, RoomInv
<1>0. CASE tyo_flush
  <2>1. /\ tpc = "flush" /\ UNCHANGED <<tty_output_buffer, tty_output_ptr, tty_output_count, sent, screen, since, broken, hit>>
        /\ \/ tty_output_count > 0 /\ tpc' = "siot" /\ arg' = tty_output_count
           \/ tty_output_count = 0 /\ tpc' = "idle" /\ arg' = arg
    BY <1>0, <1>t DEF tyo_flush, history
  <2>2. tty_output_ptr <= tty_output_count
    BY <2>1 DEF OutInv, RoomInv
  <2>3. OutType'
    BY <2>1, <1>t DEF OutType
  <2>4. RoomInv'
    BY <2>1, <2>2, <1>t DEF RoomInv, Storing
  <2>5. OrderInv'
    <3>1. ~broken => hit = {} /\ tty_output_ptr = tty_output_count /\ TypedBut(tty_output_count)
      BY <2>1 DEF OutInv, OrderInv
    <3>2. ~broken' => hit' = {} /\ tty_output_ptr' = tty_output_count' /\ TypedBut(tty_output_count)'
      BY <2>1, <3>1 DEF TypedBut
    <3>3. tpc' \notin Storing \union {"reset", "recount"} /\ (tpc' = "siot" => arg' = tty_output_count')
      BY <2>1 DEF Storing
    <3> QED BY <3>2, <3>3 DEF OrderInv
  <2>6. NoneDropped'
    BY <2>1 DEF OutInv, NoneDropped
  <2> QED BY <2>3, <2>4, <2>5, <2>6 DEF OutInv
<1>1. CASE siot
  <2>1. /\ tpc = "siot" /\ tpc' = "reset" /\ screen' = screen \o Buffered(arg)
        /\ UNCHANGED <<tty_output_buffer, tty_output_ptr, tty_output_count, arg, sent, since, broken, hit>>
    BY <1>1 DEF siot, history
  <2>2. tty_output_ptr <= arg /\ arg <= OutSize /\ tty_output_ptr <= tty_output_count
    BY <2>1 DEF OutInv, RoomInv
  <2>3. /\ screen' \in Seq(Nat)
        /\ TypedBut(arg) => Len(screen') = sent - since /\ \A i \in 1 .. sent - since : screen'[i] = since + i
        /\ \A i \in DOMAIN screen : \E j \in DOMAIN screen' : screen'[j] = screen[i]
        /\ \A i \in 0 .. arg - 1 : \E j \in DOMAIN screen' : screen'[j] = tty_output_buffer[i]
    BY <2>1, <2>2, <1>t, TypeBuffer DEF OutInv
  <2>4. OutType'
    BY <2>1, <2>3, <1>t DEF OutType
  <2>5. RoomInv'
    <3>1. tpc' \notin {"idle", "flush", "siot", "recount"} \union Storing
      BY <2>1 DEF Storing
    <3> QED BY <3>1, <2>1, <2>2, <1>t DEF RoomInv
  <2>6. OrderInv'
    <3>1. tpc' \notin {"idle", "flush", "siot"} \union Storing
      BY <2>1 DEF Storing
    <3>2. ~broken => hit = {} /\ TypedBut(arg)
      BY <2>1 DEF OutInv, OrderInv
    <3>3. ASSUME ~broken' PROVE hit' = {} /\ TypedBut(0)'
      <4>1. hit' = {} /\ sent' = sent /\ since' = since /\ TypedBut(arg)
        BY <3>2, <3>3, <2>1
      <4>2. Len(screen') = sent - since /\ \A i \in 1 .. sent - since : screen'[i] = since + i
        BY <2>3, <4>1
      <4>3. 0 <= sent - since /\ sent - since - 0 = sent - since /\ 0 .. 0 - 1 = {}
        BY <1>t
      <4>4. TypedBut(0)'
        BY <4>1, <4>2, <4>3 DEF TypedBut
      <4> QED BY <4>1, <4>4
    <3> QED BY <3>1, <3>3 DEF OrderInv
  <2>7. NoneDropped'
    <3> SUFFICES ASSUME NEW k \in since + 1 .. sent
                 PROVE  k \in hit \/ \E i \in DOMAIN screen' : screen'[i] = k
      BY <2>1 DEF NoneDropped
    <3>1. \/ k \in hit \/ \E i \in DOMAIN screen : screen[i] = k
          \/ \E i \in 0 .. tty_output_ptr - 1 : tty_output_buffer[i] = k
      BY DEF OutInv, NoneDropped
    <3>2. \A i \in 0 .. tty_output_ptr - 1 : i \in 0 .. arg - 1
      BY <2>2, <1>t
    <3> QED BY <3>1, <3>2, <2>3
  <2> QED BY <2>4, <2>5, <2>6, <2>7 DEF OutInv
<1>2. CASE resetPtr
  <2>1. /\ tpc = "reset" /\ tpc' = "recount" /\ tty_output_ptr' = 0
        /\ UNCHANGED <<tty_output_buffer, tty_output_count, arg, sent, screen, since, broken, hit>>
    BY <1>2 DEF resetPtr, history
  <2>2. OutType'
    BY <2>1, <1>t DEF OutType
  <2>3. tpc' \notin {"idle", "flush", "siot", "reset"} \union Storing
    BY <2>1 DEF Storing
  <2>4. RoomInv'
    BY <2>1, <2>3, <1>t DEF RoomInv
  <2>5. ~broken => hit = {} /\ TypedBut(0)
    BY <2>1 DEF OutInv, OrderInv
  <2>6. OrderInv'
    BY <2>1, <2>3, <2>5 DEF OrderInv, TypedBut
  <2>7. NoneDropped'
    BY <2>1 DEF OutInv, NoneDropped
  <2> QED BY <2>2, <2>4, <2>6, <2>7 DEF OutInv
<1>3. CASE resetCount
  <2>1. /\ tpc = "recount" /\ tpc' = "idle" /\ tty_output_count' = 0
        /\ UNCHANGED <<tty_output_buffer, tty_output_ptr, arg, sent>>
        /\ IF broken THEN Settled ELSE UNCHANGED <<screen, since, broken, hit>>
    BY <1>3 DEF resetCount, history
  <2>2. tty_output_ptr = 0
    BY <2>1 DEF OutInv, RoomInv
  <2>3. CASE broken
    BY <2>1, <2>2, <2>3, <1>t, OverKeeps
  <2>4. CASE ~broken
    <3>1. UNCHANGED <<screen, since, broken, hit>>
      BY <2>1, <2>4
    <3>2. OutType'
      BY <2>1, <3>1, <1>t DEF OutType
    <3>3. tpc' \notin {"flush", "siot", "reset", "recount"} \union Storing
      BY <2>1 DEF Storing
    <3>4. RoomInv'
      BY <2>1, <2>2, <3>3, <1>t DEF RoomInv
    <3>5. hit = {} /\ TypedBut(0)
      BY <2>1, <2>4 DEF OutInv, OrderInv
    <3>6. OrderInv'
      BY <2>1, <2>2, <3>1, <3>3, <3>5 DEF OrderInv, TypedBut
    <3>7. NoneDropped'
      BY <2>1, <3>1 DEF OutInv, NoneDropped
    <3> QED BY <3>2, <3>4, <3>6, <3>7 DEF OutInv
  <2> QED BY <2>3, <2>4
<1> QED BY <1>0, <1>1, <1>2, <1>3

(* A message empties the buffer; inside tyo it takes with it what is not   *)
(* counted.                                                                *)
LEMMA OutInvMessage == OutInv /\ message => OutInv'
<1> SUFFICES ASSUME OutInv, message PROVE OutInv'
  OBVIOUS
<1> DEFINE n == IF tty_output_count > 0 THEN tty_output_count ELSE tty_output_ptr
           between == tpc \in {"idle", "flush"}
<1>t. /\ tty_output_buffer \in [0 .. OutSize -> Nat] /\ tty_output_ptr \in Nat /\ arg \in Nat
      /\ tty_output_count \in Nat /\ sent \in Nat /\ screen \in Seq(Nat) /\ broken \in BOOLEAN /\ since \in 0 .. sent
      /\ OutSize \in Nat /\ OutSize >= 5 /\ tty_output_count <= OutSize
      /\ tpc \in {"idle", "flush", "siot", "reset", "recount"} \union Storing
  BY TtyAssumption DEF OutInv, OutType, RoomInv
<1>1. /\ tty_output_ptr' = 0 /\ tty_output_count' = 0 /\ UNCHANGED <<arg, sent, tpc>>
      /\ IF between /\ broken THEN Settled
         ELSE /\ screen' = screen \o Buffered(n)
              /\ hit' = hit \union {tty_output_buffer[i] : i \in n .. tty_output_ptr - 1}
              /\ broken' = (broken \/ ~between) /\ since' = since
  BY DEF message
<1>2. tty_output_buffer' \in [0 .. OutSize -> Nat]
  <2>1. PICK first \in Nat, m \in Nat : tty_output_buffer' = [i \in 0 .. OutSize |->
                                  IF i \in first .. first + m - 1 THEN 0 ELSE tty_output_buffer[i]]
    <3>1. PICK m \in 3 .. OutSize - 2 :
            tty_output_buffer' = [i \in 0 .. OutSize |->
              IF i \in (IF tty_output_count > 0 THEN 0 ELSE tty_output_ptr)
                       .. (IF tty_output_count > 0 THEN 0 ELSE tty_output_ptr) + m - 1
              THEN 0 ELSE tty_output_buffer[i]]
      BY DEF message
    <3>2. m \in Nat /\ (IF tty_output_count > 0 THEN 0 ELSE tty_output_ptr) \in Nat
      BY <1>t
    <3> QED BY <3>1, <3>2
  <2> QED BY <2>1, <1>t
<1>3. n \in Nat /\ n <= OutSize /\ (tpc \in {"idle", "flush", "siot", "reset", "recount"} => tty_output_ptr <= n)
  <2>1. CASE tpc \in Storing
    <3>1. /\ tty_output_ptr <= tty_output_count + Size(tpc) /\ Size(tpc) \in 1 .. 2
      BY <2>1, SizeIs DEF OutInv, RoomInv
    <3>2. tpc \notin {"idle", "flush", "siot", "reset", "recount"}
      BY <2>1 DEF Storing
    <3>3. n \in Nat /\ n <= OutSize
      BY <3>1, <1>t
    <3> QED BY <3>2, <3>3
  <2>2. CASE tpc \notin Storing
    <3>1. tty_output_ptr <= tty_output_count
      BY <2>2, <1>t DEF OutInv, RoomInv
    <3> QED BY <3>1, <1>t
  <2> QED BY <2>1, <2>2
<1>4. CASE between /\ broken
  <2>1. Settled
    BY <1>1, <1>4
  <2> QED BY <2>1, <1>1, <1>2, <1>4, OverKeeps
<1>5. CASE ~(between /\ broken)
  <2>1. /\ screen' = screen \o Buffered(n)
        /\ hit' = hit \union {tty_output_buffer[i] : i \in n .. tty_output_ptr - 1}
        /\ broken' = (broken \/ ~between) /\ since' = since
    BY <1>1, <1>5
  <2>2. /\ screen' \in Seq(Nat)
        /\ TypedBut(n) => Len(screen') = sent - since /\ \A i \in 1 .. sent - since : screen'[i] = since + i
        /\ \A i \in DOMAIN screen : \E j \in DOMAIN screen' : screen'[j] = screen[i]
        /\ \A i \in 0 .. n - 1 : \E j \in DOMAIN screen' : screen'[j] = tty_output_buffer[i]
    <3> HIDE DEF n
    <3> QED BY <2>1, <1>3, TypeBuffer DEF OutInv
  <2>3. OutType'
    BY <1>1, <1>2, <2>1, <2>2, <1>t DEF OutType
  <2>4. RoomInv'
    <3>1. Size(tpc) \in Nat
      BY DEF Size
    <3>2. tpc = "siot" => arg <= OutSize
      BY DEF OutInv, RoomInv
    <3> QED BY <3>1, <3>2, <1>1, <1>t DEF RoomInv
  <2>5. OrderInv'
    <3> SUFFICES ASSUME ~broken' PROVE hit' = {} /\ TypedBut(0)' /\ tpc \in {"idle", "flush"}
      BY <1>1 DEF OrderInv, Storing, TypedBut
    <3>1. ~broken /\ between
      BY <2>1, <1>t
    <3>2. hit = {} /\ tty_output_ptr = tty_output_count /\ TypedBut(tty_output_count)
      BY <3>1 DEF OutInv, OrderInv
    <3>3. n = tty_output_count /\ n = tty_output_ptr
      BY <3>2, <1>t
    <3>4. n .. tty_output_ptr - 1 = {}
      BY <3>3, <1>t
    <3>5. Len(screen') = sent - since /\ \A i \in 1 .. sent - since : screen'[i] = since + i
      BY <2>2, <3>2, <3>3
    <3>6. TypedBut(0)'
      <4>1. 0 <= sent - since /\ sent - since - 0 = sent - since /\ 0 .. 0 - 1 = {}
        BY <1>t
      <4> QED BY <3>5, <4>1, <1>1, <2>1 DEF TypedBut
    <3> QED BY <3>1, <3>2, <3>4, <3>6, <2>1
  <2>6. NoneDropped'
    <3> SUFFICES ASSUME NEW k \in since + 1 .. sent
                 PROVE  k \in hit' \/ \E i \in DOMAIN screen' : screen'[i] = k
      BY <1>1, <2>1 DEF NoneDropped
    <3>1. \/ k \in hit \/ \E i \in DOMAIN screen : screen[i] = k
          \/ \E i \in 0 .. tty_output_ptr - 1 : tty_output_buffer[i] = k
      BY DEF OutInv, NoneDropped
    <3>2. ASSUME NEW i \in 0 .. tty_output_ptr - 1, tty_output_buffer[i] = k
          PROVE  k \in hit' \/ \E j \in DOMAIN screen' : screen'[j] = k
      <4>1. i \in 0 .. n - 1 \/ i \in n .. tty_output_ptr - 1
        BY <1>t, <1>3
      <4> HIDE DEF n
      <4> QED BY <3>2, <4>1, <2>1, <2>2
    <3>3. CASE k \in hit
      BY <3>3, <2>1
    <3>4. CASE \E i \in DOMAIN screen : screen[i] = k
      BY <3>4, <2>2
    <3> QED BY <3>1, <3>2, <3>3, <3>4
  <2> QED BY <2>3, <2>4, <2>5, <2>6 DEF OutInv
<1> QED BY <1>4, <1>5

(* Every step keeps the invariant of the output buffer.                    *)
LEMMA OutInvNext == OutInv /\ [TtyNext]_ttyVars => OutInv'
<1> SUFFICES ASSUME OutInv, [TtyNext]_ttyVars PROVE OutInv'
  OBVIOUS
<1>1. CASE tyo \/ tyoP
  BY <1>1, OutInvTyo
<1>2. CASE tyoCount
  BY <1>2, OutInvTyoCount
<1>3. CASE tyo_flush \/ siot \/ resetPtr \/ resetCount
  BY <1>3, OutInvFlush
<1>4. CASE message
  BY <1>4, OutInvMessage
<1>5. CASE UNCHANGED <<outVars, tpc>>
  BY <1>5 DEF OutInv, OutType, RoomInv, OrderInv, NoneDropped, TypedBut, outVars, history
<1> QED
  <2>1. CASE TtyNext
    BY <1>1, <1>2, <1>3, <1>4, <1>5, <2>1 DEF TtyNext, OutNext, LineNext, UserTypes, tyi
  <2>2. CASE UNCHANGED ttyVars
    BY <1>5, <2>2 DEF ttyVars
  <2> QED BY <2>1, <2>2

(* The inductive invariant of the terminal gives the property.             *)
LEMMA TtyInvImplies == TtyInv => TypingKept
<1> SUFFICES ASSUME TtyInv PROVE TypingKept
  OBVIOUS
<1>t. /\ tty_output_ptr \in Nat /\ tty_output_count \in Nat /\ sent \in Nat /\ screen \in Seq(Nat) /\ since \in 0 .. sent
      /\ OutSize \in Nat /\ OutSize >= 5 /\ tty_output_count <= OutSize
      /\ tpc \in {"idle", "flush", "siot", "reset", "recount"} \union Storing
  BY TtyAssumption DEF TtyInv, OutInv, OutType, RoomInv
<1>1. tty_output_ptr <= OutSize /\ (tty_output_count = 0 => tty_output_ptr + (OutSize - 2) <= OutSize)
  <2>1. CASE tpc \in Storing
    <3>1. /\ tty_output_ptr <= tty_output_count + Size(tpc)
          /\ tty_output_count = 0 \/ tty_output_count < OutSize - 2
      BY <2>1 DEF TtyInv, OutInv, RoomInv
    <3>2. Size(tpc) \in 1 .. 2
      BY SizeIs
    <3> QED BY <3>1, <3>2, <1>t
  <2>2. CASE tpc \notin Storing
    <3>1. tty_output_ptr <= tty_output_count
      BY <2>2, <1>t DEF TtyInv, OutInv, RoomInv
    <3> QED BY <3>1, <1>t
  <2> QED BY <2>1, <2>2
<1>2. TtyTypeOK /\ ColumnTrue
  <2>1. /\ line \in Seq(InKeys) /\ Len(line) <= InSize - 1 /\ column = Shown(line)
        /\ InSize \in Nat /\ Len(line) \in Nat
    BY TtyAssumption DEF TtyInv, LineInv
  <2>2. Shown(line) \in 0 .. 2 * Len(line)
    BY <2>1, ShownBounds
  <2>3. column \in 0 .. 2 * InSize
    BY <2>1, <2>2
  <2>4. tty_output_count \in 0 .. OutSize + 2 /\ tty_output_ptr \in 0 .. OutSize
    BY <1>1, <1>t
  <2> QED BY <2>1, <2>3, <2>4 DEF TtyTypeOK, ColumnTrue
<1>3. BuffersKept
  BY <1>1 DEF BuffersKept, TtyInv, LineInv
<1>4. TypedInOrder
  <2> SUFFICES ASSUME ~broken, tpc \in {"idle", "flush"}
               PROVE  hit = {} /\ screen \o Buffered(tty_output_count) = [i \in 1 .. sent - since |-> since + i]
    BY DEF TypedInOrder
  <2> DEFINE n == tty_output_count  w == screen \o Buffered(n)
  <2>1. hit = {} /\ TypedBut(n)
    BY DEF TtyInv, OutInv, OrderInv
  <2>2. w \in Seq(Nat) /\ Len(w) = sent - since /\ \A i \in 1 .. sent - since : w[i] = since + i
    BY <2>1, <1>t, TypeBuffer DEF TtyInv, OutInv
  <2> HIDE DEF w
  <2>3. w = [i \in 1 .. sent - since |-> w[i]]
    BY <2>2
  <2>4. w = [i \in 1 .. sent - since |-> since + i]
    BY <2>2, <2>3
  <2> QED BY <2>1, <2>4 DEF w
<1> QED BY <1>2, <1>3, <1>4 DEF TypingKept, TtyInv, OutInv

(* For buffers of any size: what the program types comes out whole and in  *)
(* order, over messages of interrupt handlers between calls of tyo; one    *)
(* inside a call loses at most what it finds stored and not counted, and   *)
(* disturbs the order only up to the next flush; and a line is rubbed out  *)
(* as it shows (c10tty.c).                                                 *)
THEOREM TypingAlways == TtySpec => []TypingKept
<1>1. TtyInit => TtyInv
  <2> SUFFICES ASSUME TtyInit PROVE LineInv
    BY OutInvInit DEF TtyInv
  <2>1. <<>> \in Seq(InKeys) /\ Len(<<>>) = 0 /\ <<>> \in Seq(InKeys \union {"NL"})
    OBVIOUS
  <2>2. Shown(<<>>) = 0
    <3>1. Shown(<<>>) \in 0 .. 2 * Len(<<>>)
      BY <2>1, ShownBounds
    <3> QED BY <2>1, <3>1
  <2>3. InSize \in Nat /\ InSize >= 1
    BY TtyAssumption
  <2> QED BY <2>1, <2>2, <2>3 DEF TtyInit, LineInv
<1>2. TtyInv /\ [TtyNext]_ttyVars => TtyInv'
  BY OutInvNext, LineInvNext DEF TtyInv
<1>3. TtyInv => TypingKept
  BY TtyInvImplies
<1> QED BY <1>1, <1>2, <1>3, PTL DEF TtySpec
-----------------------------------------------------------------------------
(* The ring of jobs: the slots from the head, each with a job of its own.  *)
RingType(r) == r \in [slot : [Slots -> Jobs \union {None}], head : Slots, tail : Slots]
Held(r, k) == r.slot[Spot(r, k)]
RingHolds(r, j) == \E k \in 0 .. Length(r) - 1 : Held(r, k) = j
EachOnce(r) ==
  /\ \A k \in 0 .. Length(r) - 1 : Held(r, k) \in Jobs
  /\ \A i, k \in 0 .. Length(r) - 1 : i # k => Held(r, i) # Held(r, k)

RingInv ==
  /\ RingType(ring) /\ EachOnce(ring)
  /\ live \subseteq Jobs /\ current \subseteq live
  /\ \A j \in current : RingHolds(ring, j)

(* Before and After go round the slots.                                    *)
LEMMA SlotsNext ==
  ASSUME NEW p \in Slots
  PROVE  /\ After(p) \in Slots /\ Before(p) \in Slots
         /\ After(Before(p)) = p /\ Before(After(p)) = p
<1>1. MaxJobs \in Nat /\ MaxJobs >= 1 /\ p \in 0 .. MaxJobs
  BY MaxJobsAssumption DEF Slots
<1> QED BY <1>1 DEF After, Before, Slots

(* Spot finds the slot that is so far behind the head.                     *)
LEMMA SpotIs ==
  ASSUME NEW r, r.head \in Slots, NEW k \in 0 .. MaxJobs
  PROVE  Spot(r, k) \in Slots /\ Behind(r, Spot(r, k)) = k
<1> DEFINE h == r.head
<1>1. MaxJobs \in Nat /\ h \in 0 .. MaxJobs
  BY MaxJobsAssumption DEF Slots
<1>2. Spot(r, k) = IF h + k <= MaxJobs THEN h + k ELSE h + k - MaxJobs - 1
  BY DEF Spot
<1>3. \A p : Behind(r, p) = IF p >= h THEN p - h ELSE p - h + MaxJobs + 1
  BY DEF Behind
<1> HIDE DEF h
<1> QED BY <1>1, <1>2, <1>3 DEF Slots

(* Behind counts how far.                                                  *)
LEMMA BehindIs ==
  ASSUME NEW r, r.head \in Slots, NEW p \in Slots
  PROVE  Behind(r, p) \in 0 .. MaxJobs /\ Spot(r, Behind(r, p)) = p
<1> DEFINE h == r.head
<1>1. MaxJobs \in Nat /\ h \in 0 .. MaxJobs /\ p \in 0 .. MaxJobs
  BY MaxJobsAssumption DEF Slots
<1>2. \A k : Spot(r, k) = IF h + k <= MaxJobs THEN h + k ELSE h + k - MaxJobs - 1
  BY DEF Spot
<1>3. Behind(r, p) = IF p >= h THEN p - h ELSE p - h + MaxJobs + 1
  BY DEF Behind
<1> HIDE DEF h
<1> QED BY <1>1, <1>2, <1>3

(* The parts of a ring, and its length.                                    *)
LEMMA TypedParts ==
  ASSUME NEW r, RingType(r)
  PROVE  /\ r.slot \in [Slots -> Jobs \union {None}] /\ r.head \in Slots /\ r.tail \in Slots
         /\ Length(r) \in 0 .. MaxJobs /\ Spot(r, Length(r)) = r.tail
         /\ (Length(r) = 0) = (r.head = r.tail)
         /\ Spot(r, 0) = r.head
<1>1. r.slot \in [Slots -> Jobs \union {None}] /\ r.head \in Slots /\ r.tail \in Slots
  BY DEF RingType
<1>2. Length(r) \in 0 .. MaxJobs /\ Spot(r, Length(r)) = r.tail
  BY <1>1, BehindIs DEF Length
<1>3. MaxJobs \in Nat /\ r.head \in 0 .. MaxJobs /\ r.tail \in 0 .. MaxJobs
  BY <1>1, MaxJobsAssumption DEF Slots
<1>4. Length(r) = IF r.tail >= r.head THEN r.tail - r.head ELSE r.tail - r.head + MaxJobs + 1
  BY DEF Length, Behind
<1>5. (Length(r) = 0) = (r.head = r.tail)
  BY <1>3, <1>4
<1>6. Spot(r, 0) = r.head
  BY <1>3 DEF Spot
<1> QED BY <1>1, <1>2, <1>5, <1>6

(* Taking the head off.                                                    *)
LEMMA DropIs ==
  ASSUME NEW r, NEW f \in [Slots -> Jobs \union {None}], NEW t \in Slots, RingType(r),
         r.head # t
  PROVE  LET s == [slot |-> f, head |-> After(r.head), tail |-> t] IN
         /\ RingType(s)
         /\ Length(s) = Behind(r, t) - 1
         /\ \A k \in 0 .. MaxJobs - 1 : Spot(s, k) = Spot(r, k + 1)
<1> DEFINE s == [slot |-> f, head |-> After(r.head), tail |-> t]  h == r.head  g == After(r.head)
<1>1. r.head \in Slots
  BY DEF RingType
<1>2. After(r.head) \in Slots
  BY <1>1, SlotsNext
<1>3. RingType(s)
  BY <1>2 DEF RingType
<1>4. s.head = g /\ s.tail = t
  OBVIOUS
<1>5. MaxJobs \in Nat /\ MaxJobs >= 1 /\ h \in 0 .. MaxJobs /\ t \in 0 .. MaxJobs
  BY <1>1, MaxJobsAssumption DEF Slots
<1>6. g = IF h = MaxJobs THEN 0 ELSE h + 1
  BY DEF After
<1> HIDE DEF s
<1>7. Length(s) = IF t >= g THEN t - g ELSE t - g + MaxJobs + 1
  BY <1>4 DEF Length, Behind
<1>8. Behind(r, t) = IF t >= h THEN t - h ELSE t - h + MaxJobs + 1
  BY DEF Behind
<1>9. \A k : /\ Spot(s, k) = IF g + k <= MaxJobs THEN g + k ELSE g + k - MaxJobs - 1
             /\ Spot(r, k) = IF h + k <= MaxJobs THEN h + k ELSE h + k - MaxJobs - 1
  BY <1>4 DEF Spot
<1>10. h # t
  OBVIOUS
<1> HIDE DEF h, g
<1>11. Length(s) = Behind(r, t) - 1
  BY <1>5, <1>6, <1>7, <1>8, <1>10
<1>12. \A k \in 0 .. MaxJobs - 1 : Spot(s, k) = Spot(r, k + 1)
  BY <1>5, <1>6, <1>9
<1> QED BY <1>3, <1>11, <1>12 DEF s

(* next_job turns the ring by one place.                                   *)
LEMMA RotatedIs ==
  ASSUME NEW r, RingType(r), r.head # r.tail
  PROVE  /\ RingType(Rotated(r)) /\ Length(Rotated(r)) = Length(r) /\ Length(r) \in 1 .. MaxJobs
         /\ Rotated(r).head # Rotated(r).tail
         /\ \A k \in 0 .. Length(r) - 2 : Held(Rotated(r), k) = Held(r, k + 1)
         /\ Held(Rotated(r), Length(r) - 1) = Held(r, 0)
<1> DEFINE n == Length(r)
<1>1. /\ r.slot \in [Slots -> Jobs \union {None}] /\ r.head \in Slots /\ r.tail \in Slots
      /\ n \in 1 .. MaxJobs /\ Spot(r, n) = r.tail /\ Spot(r, 0) = r.head
      /\ MaxJobs \in Nat /\ MaxJobs >= 1
  BY TypedParts, MaxJobsAssumption
<1>2. CASE After(r.head) = r.tail
  <2>1. Rotated(r) = r
    BY <1>2 DEF Rotated
  <2>2. n = 1
    <3>1. r.head \in 0 .. MaxJobs /\ r.tail \in 0 .. MaxJobs
      BY <1>1 DEF Slots
    <3>2. n = IF r.tail >= r.head THEN r.tail - r.head ELSE r.tail - r.head + MaxJobs + 1
      BY DEF Length, Behind
    <3>3. r.tail = IF r.head = MaxJobs THEN 0 ELSE r.head + 1
      BY <1>2 DEF After
    <3> HIDE DEF n
    <3> QED BY <3>1, <3>2, <3>3, <1>1
  <2>3. 0 .. n - 2 = {} /\ n - 1 = 0 /\ 1 \in 1 .. MaxJobs
    <3> HIDE DEF n
    <3> QED BY <2>2, <1>1
  <2> QED BY <2>1, <2>2, <2>3
<1>3. CASE After(r.head) # r.tail
  <2> DEFINE f == [r.slot EXCEPT ![r.tail] = AtHead(r)]
             s == [slot |-> f, head |-> After(r.head), tail |-> After(r.tail)]
  <2>1. Rotated(r) = s
    BY <1>3 DEF Rotated
  <2>2. AtHead(r) = Held(r, 0) /\ AtHead(r) \in Jobs \union {None}
    BY <1>1 DEF AtHead, Held
  <2>3. f \in [Slots -> Jobs \union {None}]
    BY <1>1, <2>2
  <2>5. After(r.tail) \in Slots /\ After(r.head) \in Slots
    BY <1>1, SlotsNext
  <2>6. RingType(s)
    BY <2>3, <2>5 DEF RingType
  <2>7. s.head = After(r.head) /\ s.tail = After(r.tail) /\ s.slot = f
    OBVIOUS
  <2>h. r.head \in 0 .. MaxJobs /\ r.tail \in 0 .. MaxJobs
    BY <1>1 DEF Slots
  <2>n. n = IF r.tail >= r.head THEN r.tail - r.head ELSE r.tail - r.head + MaxJobs + 1
    BY DEF Length, Behind
  <2> HIDE DEF s, f
  <2> DEFINE a == After(r.head)  b == After(r.tail)
  <2>8. Length(s) = IF b >= a THEN b - a ELSE b - a + MaxJobs + 1
    BY <2>7 DEF Length, Behind
  <2>9. /\ a = IF r.head = MaxJobs THEN 0 ELSE r.head + 1
        /\ b = IF r.tail = MaxJobs THEN 0 ELSE r.tail + 1
    BY DEF After
  <2> HIDE DEF a, b, n
  <2>10. Length(s) = n
    BY <2>8, <2>9, <2>h, <2>n, <1>1
  <2>11. \A k \in 0 .. MaxJobs - 1 : Spot(s, k) = Spot(r, k + 1)
    <3>1. \A k : /\ Spot(s, k) = IF a + k <= MaxJobs THEN a + k ELSE a + k - MaxJobs - 1
                 /\ Spot(r, k) = IF r.head + k <= MaxJobs THEN r.head + k ELSE r.head + k - MaxJobs - 1
      BY <2>7 DEF Spot, a
    <3> QED BY <3>1, <2>9, <2>h, <1>1
  <2>12. ASSUME NEW k \in 0 .. n - 2 PROVE Held(s, k) = Held(r, k + 1)
    <3>1. k \in 0 .. MaxJobs - 1 /\ k + 1 \in 0 .. MaxJobs /\ k + 1 # n
      BY <1>1
    <3>2. Spot(s, k) = Spot(r, k + 1) /\ Spot(r, k + 1) \in Slots /\ Behind(r, Spot(r, k + 1)) = k + 1
      BY <3>1, <2>11, <1>1, SpotIs
    <3>3. Spot(r, k + 1) # r.tail
      BY <3>1, <3>2 DEF Length, n
    <3> QED BY <3>2, <3>3, <2>7, <1>1 DEF Held, f
  <2>13. Held(s, n - 1) = Held(r, 0)
    <3>1. n - 1 \in 0 .. MaxJobs - 1 /\ n - 1 + 1 = n
      BY <1>1
    <3>2. Spot(s, n - 1) = r.tail
      BY <3>1, <2>11, <1>1
    <3> QED BY <3>2, <2>2, <2>7, <1>1 DEF Held, f
  <2>14. s.head # s.tail
    BY <2>7, <2>9, <2>h, <2>n, <1>1, <1>3 DEF a, b
  <2> QED BY <2>1, <2>6, <2>10, <2>12, <2>13, <2>14, <1>1 DEF n
<1> QED BY <1>2, <1>3

(* It takes nothing else.                                                  *)
LEMMA DropKeeps ==
  ASSUME NEW r, RingType(r), EachOnce(r), r.head # r.tail
  PROVE  LET s == [slot |-> r.slot, head |-> After(r.head), tail |-> r.tail] IN
         /\ RingType(s) /\ EachOnce(s) /\ Length(s) = Length(r) - 1
         /\ \A k \in 0 .. Length(r) - 2 : Held(s, k) = Held(r, k + 1)
<1> DEFINE s == [slot |-> r.slot, head |-> After(r.head), tail |-> r.tail]  n == Length(r)
<1>1. /\ r.slot \in [Slots -> Jobs \union {None}] /\ r.tail \in Slots /\ n \in 0 .. MaxJobs /\ MaxJobs \in Nat
  BY TypedParts, MaxJobsAssumption
<1>2. /\ RingType(s) /\ Length(s) = n - 1
      /\ \A k \in 0 .. MaxJobs - 1 : Spot(s, k) = Spot(r, k + 1)
  BY <1>1, DropIs DEF Length
<1>3. s.slot = r.slot
  OBVIOUS
<1> HIDE DEF s, n
<1>4. \A k \in 0 .. n - 2 : Held(s, k) = Held(r, k + 1)
  BY <1>1, <1>2, <1>3 DEF Held
<1>5. EachOnce(s)
  <2>1. ASSUME NEW k \in 0 .. Length(s) - 1 PROVE Held(s, k) \in Jobs
    <3>1. k \in 0 .. n - 2 /\ k + 1 \in 0 .. n - 1
      BY <1>1, <1>2
    <3> QED BY <3>1, <1>4 DEF EachOnce, n
  <2>2. ASSUME NEW i \in 0 .. Length(s) - 1, NEW k \in 0 .. Length(s) - 1, i # k
        PROVE  Held(s, i) # Held(s, k)
    <3>1. i \in 0 .. n - 2 /\ k \in 0 .. n - 2 /\ i + 1 \in 0 .. n - 1 /\ k + 1 \in 0 .. n - 1 /\ i + 1 # k + 1
      BY <1>1, <1>2, <2>2
    <3> QED BY <3>1, <1>4 DEF EachOnce, n
  <2> QED BY <2>1, <2>2 DEF EachOnce
<1> QED BY <1>2, <1>4, <1>5 DEF s, n

(* No job is lost or doubled by the turn.                                  *)
LEMMA RotatedKeeps ==
  ASSUME NEW r, RingType(r), EachOnce(r), r.head # r.tail
  PROVE  /\ RingType(Rotated(r)) /\ EachOnce(Rotated(r)) /\ Rotated(r).head # Rotated(r).tail
         /\ \A j : RingHolds(r, j) => RingHolds(Rotated(r), j)
<1> DEFINE s == Rotated(r)  n == Length(r)
<1>1. /\ RingType(s) /\ s.head # s.tail /\ Length(s) = n /\ n \in 1 .. MaxJobs /\ MaxJobs \in Nat
      /\ \A k \in 0 .. n - 2 : Held(s, k) = Held(r, k + 1)
      /\ Held(s, n - 1) = Held(r, 0)
  BY RotatedIs, MaxJobsAssumption
<1> HIDE DEF s, n
<1>2. \A k \in 0 .. n - 1 : k \in 0 .. n - 2 \/ k = n - 1
  BY <1>1
<1> DEFINE from(k) == IF k = n - 1 THEN 0 ELSE k + 1
<1>3. \A k \in 0 .. n - 1 : from(k) \in 0 .. n - 1 /\ Held(s, k) = Held(r, from(k))
  <2> TAKE k \in 0 .. n - 1
  <2>1. CASE k = n - 1
    BY <1>1, <2>1
  <2>2. CASE k # n - 1
    <3>1. k \in 0 .. n - 2 /\ from(k) = k + 1 /\ k + 1 \in 0 .. n - 1
      BY <1>1, <2>2
    <3> QED BY <3>1, <1>1
  <2> QED BY <2>1, <2>2
<1>4. \A i, k \in 0 .. n - 1 : i # k => from(i) # from(k)
  BY <1>1
<1>5. \A k \in 0 .. n - 1 : \E i \in 0 .. n - 1 : from(i) = k
  <2> TAKE k \in 0 .. n - 1
  <2>1. CASE k = 0
    <3>1. n - 1 \in 0 .. n - 1 /\ from(n - 1) = k
      BY <1>1, <2>1
    <3> QED BY <3>1
  <2>2. CASE k # 0
    <3>1. k - 1 \in 0 .. n - 1 /\ from(k - 1) = k
      BY <1>1, <2>2
    <3> QED BY <3>1
  <2> QED BY <2>1, <2>2
<1> HIDE DEF from
<1>6. EachOnce(s)
  BY <1>1, <1>3, <1>4 DEF EachOnce, n
<1>7. \A j : RingHolds(r, j) => RingHolds(s, j)
  BY <1>1, <1>3, <1>5 DEF RingHolds, n
<1> QED BY <1>1, <1>6, <1>7 DEF s

(* setjob takes the job out of its place behind the head, if it has one.   *)
LEMMA WithoutIs ==
  ASSUME NEW r, RingType(r), EachOnce(r), NEW j, AtHead(r) # j
  PROVE  /\ RingType(Without(r, j)) /\ EachOnce(Without(r, j))
         /\ ~RingHolds(Without(r, j), j)
         /\ \A i : RingHolds(r, i) /\ i # j => RingHolds(Without(r, j), i)
<1> DEFINE n == Length(r)
           found == {q \in Slots : Behind(r, q) \in 1 .. n - 1 /\ r.slot[q] = j}
           places == {Behind(r, p) : p \in found}
           first == CHOOSE i \in places : \A k \in places : i <= k
<1>1. /\ r.slot \in [Slots -> Jobs \union {None}] /\ r.head \in Slots /\ r.tail \in Slots
      /\ n \in 0 .. MaxJobs /\ Spot(r, n) = r.tail /\ Spot(r, 0) = r.head /\ MaxJobs \in Nat
      /\ MaxJobs >= 1
  BY TypedParts, MaxJobsAssumption
<1>2. \A k : k \in places <=> k \in 1 .. n - 1 /\ Held(r, k) = j
  <2> TAKE k
  <2>1. ASSUME k \in places PROVE k \in 1 .. n - 1 /\ Held(r, k) = j
    <3>1. PICK p \in Slots : Behind(r, p) = k /\ k \in 1 .. n - 1 /\ r.slot[p] = j
      BY <2>1
    <3>2. Spot(r, k) = p
      BY <3>1, <1>1, BehindIs
    <3> QED BY <3>1, <3>2 DEF Held
  <2>2. ASSUME k \in 1 .. n - 1, Held(r, k) = j PROVE k \in places
    <3>1. k \in 0 .. MaxJobs
      BY <1>1, <2>2
    <3>2. Spot(r, k) \in Slots /\ Behind(r, Spot(r, k)) = k
      BY <3>1, <1>1, SpotIs
    <3>3. Spot(r, k) \in found
      BY <3>2, <2>2 DEF Held
    <3> QED BY <3>2, <3>3
  <2> QED BY <2>1, <2>2
<1>3. Held(r, 0) # j
  BY <1>1 DEF AtHead, Held
<1>4. CASE places = {}
  <2>1. Without(r, j) = r
    BY <1>4 DEF Without
  <2>2. ~RingHolds(r, j)
    <3> SUFFICES ASSUME NEW k \in 0 .. n - 1, Held(r, k) = j PROVE FALSE
      BY DEF RingHolds
    <3>1. k # 0
      BY <1>3
    <3>2. k \in 1 .. n - 1
      <4> HIDE DEF n
      <4> QED BY <3>1, <1>1
    <3> QED BY <3>2, <1>2, <1>4
  <2> QED BY <2>1, <2>2
<1>5. CASE places # {}
  <2>1. PICK f : f \in places
    BY <1>5
  <2>2. f \in 1 .. n - 1 /\ Held(r, f) = j
    BY <2>1, <1>2
  <2>3. \A k \in places : k = f
    <3> SUFFICES ASSUME NEW k \in places, k # f PROVE FALSE
      OBVIOUS
    <3>1. k \in 1 .. n - 1 /\ Held(r, k) = j
      BY <1>2
    <3>2. k \in 0 .. n - 1 /\ f \in 0 .. n - 1
      <4> HIDE DEF n
      <4> QED BY <3>1, <2>2, <1>1
    <3> QED BY <3>1, <3>2, <2>2 DEF EachOnce
  <2>4. first = f
    <3>1. f <= f
      <4> HIDE DEF n
      <4> QED BY <2>2, <1>1
    <3> HIDE DEF places
    <3> QED BY <3>1, <2>1, <2>3
  <2> DEFINE slots == [p \in Slots |-> IF Behind(r, p) \in f .. n - 2 THEN r.slot[After(p)] ELSE r.slot[p]]
             s == [slot |-> slots, head |-> r.head, tail |-> Before(r.tail)]
  <2>5. Without(r, j) = s
    BY <1>5, <2>4 DEF Without
  <2>6. \A p \in Slots : After(p) \in Slots /\ Before(p) \in Slots
    BY SlotsNext
  <2>7. slots \in [Slots -> Jobs \union {None}]
    <3>1. \A p \in Slots : r.slot[p] \in Jobs \union {None} /\ r.slot[After(p)] \in Jobs \union {None}
      BY <2>6, <1>1
    <3> QED BY <3>1
  <2>8. RingType(s)
    BY <2>6, <2>7, <1>1 DEF RingType
  <2>9. s.slot = slots /\ s.head = r.head /\ s.tail = Before(r.tail)
    OBVIOUS
  <2> HIDE DEF s
  <2>n. n = IF r.tail >= r.head THEN r.tail - r.head ELSE r.tail - r.head + MaxJobs + 1
    BY DEF Length, Behind
  <2>h. r.head \in 0 .. MaxJobs /\ r.tail \in 0 .. MaxJobs
    BY <1>1 DEF Slots
  <2>10. Length(s) = n - 1
    <3> DEFINE b == Before(r.tail)
    <3>1. Length(s) = IF b >= r.head THEN b - r.head ELSE b - r.head + MaxJobs + 1
      BY <2>9 DEF Length, Behind
    <3>2. b = IF r.tail = 0 THEN MaxJobs ELSE r.tail - 1
      BY DEF Before
    <3> HIDE DEF b, n
    <3> QED BY <3>1, <3>2, <2>n, <2>h, <2>2, <1>1
  <2>11. \A k \in 0 .. MaxJobs - 1 : Spot(s, k) = Spot(r, k) /\ Spot(r, k + 1) = After(Spot(r, k))
    <3>1. \A k : Spot(s, k) = Spot(r, k)
      BY <2>9 DEF Spot
    <3>2. \A k : Spot(r, k) = IF r.head + k <= MaxJobs THEN r.head + k ELSE r.head + k - MaxJobs - 1
      BY DEF Spot
    <3>3. ASSUME NEW k \in 0 .. MaxJobs - 1 PROVE Spot(r, k + 1) = After(Spot(r, k))
      <4> DEFINE a == Spot(r, k)  c == Spot(r, k + 1)
      <4>1. a = IF r.head + k <= MaxJobs THEN r.head + k ELSE r.head + k - MaxJobs - 1
        BY <3>2
      <4>2. c = IF r.head + (k + 1) <= MaxJobs THEN r.head + (k + 1) ELSE r.head + (k + 1) - MaxJobs - 1
        BY <3>2
      <4>3. After(a) = IF a = MaxJobs THEN 0 ELSE a + 1
        BY DEF After
      <4> HIDE DEF a, c
      <4>4. c = After(a)
        BY <4>1, <4>2, <4>3, <2>h, <1>1
      <4> QED BY <4>4 DEF a, c
    <3> QED BY <3>1, <3>3
  <2> DEFINE from(k) == IF k < f THEN k ELSE k + 1
  <2>f. f \in 1 .. MaxJobs /\ n \in 2 .. MaxJobs /\ n - 1 \in 1 .. MaxJobs - 1
    <3> HIDE DEF n
    <3> QED BY <2>2, <1>1
  <2>12. ASSUME NEW k \in 0 .. n - 2 PROVE Held(s, k) = Held(r, from(k))
    <3> DEFINE p == Spot(r, k)
    <3>1. k \in 0 .. MaxJobs - 1 /\ k \in 0 .. MaxJobs
      <4> HIDE DEF n
      <4> QED BY <2>f, <1>1
    <3>2. p \in Slots /\ Behind(r, p) = k /\ Spot(s, k) = p /\ Spot(r, k + 1) = After(p)
      BY <3>1, <1>1, <2>11, SpotIs
    <3>3. Held(s, k) = IF k \in f .. n - 2 THEN r.slot[After(p)] ELSE r.slot[p]
      BY <3>2, <2>9 DEF Held
    <3>4. CASE k < f
      <4>1. k \notin f .. n - 2
        <5> HIDE DEF n
        <5> QED BY <3>4, <2>f, <1>1
      <4> QED BY <3>3, <3>4, <4>1 DEF Held
    <3>5. CASE ~(k < f)
      <4>1. k \in f .. n - 2
        <5> HIDE DEF n
        <5> QED BY <3>5, <2>f, <1>1
      <4> QED BY <3>2, <3>3, <3>5, <4>1 DEF Held
    <3> QED BY <3>4, <3>5
  <2> HIDE DEF slots, places, first, found
  <2>13. /\ \A k \in 0 .. n - 2 : from(k) \in 0 .. n - 1 /\ from(k) # f
         /\ \A i, k \in 0 .. n - 2 : i # k => from(i) # from(k)
         /\ \A k \in 0 .. n - 1 : k # f => \E i \in 0 .. n - 2 : from(i) = k
    <3> HIDE DEF n
    <3>1. \A k \in 0 .. n - 2 : from(k) \in 0 .. n - 1 /\ from(k) # f
      BY <2>f, <1>1
    <3>2. \A i, k \in 0 .. n - 2 : i # k => from(i) # from(k)
      BY <2>f, <1>1
    <3>3. ASSUME NEW k \in 0 .. n - 1, k # f PROVE \E i \in 0 .. n - 2 : from(i) = k
      <4>1. CASE k < f
        <5>1. k \in 0 .. n - 2 /\ from(k) = k
          BY <4>1, <2>f, <2>2, <1>1
        <5> QED BY <5>1
      <4>2. CASE ~(k < f)
        <5>1. k - 1 \in 0 .. n - 2 /\ from(k - 1) = k
          BY <4>2, <3>3, <2>f, <2>2, <1>1
        <5> QED BY <5>1
      <4> QED BY <4>1, <4>2
    <3> QED BY <3>1, <3>2, <3>3
  <2>14. 0 .. Length(s) - 1 = 0 .. n - 2
    <3> HIDE DEF n
    <3> QED BY <2>10, <2>f, <1>1
  <2>15. f \in 0 .. n - 1
    <3> HIDE DEF n
    <3> QED BY <2>2, <2>f, <1>1
  <2> HIDE DEF from
  <2>16. EachOnce(s)
    <3>1. \A k \in 0 .. n - 2 : Held(s, k) \in Jobs
      BY <2>12, <2>13 DEF EachOnce
    <3>2. ASSUME NEW i \in 0 .. n - 2, NEW k \in 0 .. n - 2, i # k PROVE Held(s, i) # Held(s, k)
      <4>1. from(i) # from(k) /\ from(i) \in 0 .. n - 1 /\ from(k) \in 0 .. n - 1
        BY <2>13, <3>2
      <4>2. Held(r, from(i)) # Held(r, from(k))
        BY <4>1 DEF EachOnce
      <4> QED BY <4>2, <2>12
    <3> HIDE DEF n
    <3> QED BY <3>1, <3>2, <2>14 DEF EachOnce
  <2>17. ~RingHolds(s, j)
    BY <2>2, <2>12, <2>13, <2>14, <2>15 DEF EachOnce, RingHolds
  <2>18. ASSUME NEW i, RingHolds(r, i), i # j PROVE RingHolds(s, i)
    <3>1. PICK k \in 0 .. n - 1 : Held(r, k) = i
      BY <2>18 DEF RingHolds
    <3>2. k # f
      BY <3>1, <2>2, <2>18
    <3>3. PICK l \in 0 .. n - 2 : from(l) = k
      BY <3>2, <2>13
    <3> QED BY <3>1, <3>3, <2>12, <2>14 DEF RingHolds
  <2> QED BY <2>5, <2>8, <2>16, <2>17, <2>18
<1> QED BY <1>4, <1>5

(* A ring without a job of the table has a place for it.                   *)
LEMMA RoomFor ==
  ASSUME NEW r, RingType(r), EachOnce(r), NEW j \in Jobs, ~RingHolds(r, j)
  PROVE  Length(r) <= MaxJobs - 1
<1> DEFINE n == Length(r)  D == 0 .. n - 1  T == Jobs \ {j}
           f == [k \in D |-> Held(r, k)]
<1>1. n \in 0 .. MaxJobs /\ MaxJobs \in Nat /\ MaxJobs >= 1 /\ 0 \in Int /\ MaxJobs - 1 \in Int /\ n - 1 \in Int
  BY TypedParts, MaxJobsAssumption
<1>2. IsFiniteSet(Jobs) /\ Cardinality(Jobs) = MaxJobs
  <2>1. IsFiniteSet(0 .. MaxJobs - 1)
        /\ Cardinality(0 .. MaxJobs - 1) = IF 0 > MaxJobs - 1 THEN 0 ELSE MaxJobs - 1 - 0 + 1
    BY <1>1, FS_Interval
  <2> QED BY <2>1, <1>1 DEF Jobs
<1>3. IsFiniteSet(T) /\ Cardinality(T) = MaxJobs - 1
  BY <1>2, FS_RemoveElement
<1>4. Cardinality(D) = IF 0 > n - 1 THEN 0 ELSE n - 1 - 0 + 1
  BY <1>1, FS_Interval
<1>5. f \in Injection(D, T)
  <2>1. f \in [D -> T]
    BY DEF EachOnce, RingHolds
  <2>2. \A i, k \in D : f[i] = f[k] => i = k
    BY DEF EachOnce
  <2> QED BY <2>1, <2>2, Fun_IsInj
<1>6. Cardinality(D) <= Cardinality(T)
  <2> HIDE DEF D, T, f
  <2> QED BY <1>3, <1>5, FS_Injection
<1> HIDE DEF D, T, f, n
<1>7. n <= MaxJobs - 1
  BY <1>1, <1>3, <1>4, <1>6
<1> QED BY <1>7 DEF n

(* setjob puts the job before the head, where there is room.               *)
LEMMA EnteredIs ==
  ASSUME NEW r, RingType(r), EachOnce(r), NEW j \in Jobs, ~RingHolds(r, j)
  PROVE  LET s == [slot |-> [r.slot EXCEPT ![Before(r.head)] = j], head |-> Before(r.head), tail |-> r.tail] IN
         /\ RingType(s) /\ EachOnce(s) /\ RingHolds(s, j)
         /\ \A i : RingHolds(r, i) => RingHolds(s, i)
<1> DEFINE n == Length(r)  b == Before(r.head)  slots == [r.slot EXCEPT ![b] = j]
           s == [slot |-> slots, head |-> b, tail |-> r.tail]
<1>1. /\ r.slot \in [Slots -> Jobs \union {None}] /\ r.head \in Slots /\ r.tail \in Slots
      /\ n \in 0 .. MaxJobs /\ MaxJobs \in Nat /\ MaxJobs >= 1
  BY TypedParts, MaxJobsAssumption
<1>2. n <= MaxJobs - 1
  BY RoomFor
<1>3. b \in Slots /\ After(b) = r.head
  BY <1>1, SlotsNext
<1>4. slots \in [Slots -> Jobs \union {None}] /\ slots[b] = j /\ \A p \in Slots : p # b => slots[p] = r.slot[p]
  BY <1>1, <1>3
<1>5. RingType(s)
  BY <1>1, <1>3, <1>4 DEF RingType
<1>6. s.slot = slots /\ s.head = b /\ s.tail = r.tail
  OBVIOUS
<1>h. r.head \in 0 .. MaxJobs /\ r.tail \in 0 .. MaxJobs /\ b \in 0 .. MaxJobs
  BY <1>1, <1>3 DEF Slots
<1>b. b = IF r.head = 0 THEN MaxJobs ELSE r.head - 1
  BY DEF Before
<1>n. n = IF r.tail >= r.head THEN r.tail - r.head ELSE r.tail - r.head + MaxJobs + 1
  BY DEF Length, Behind
<1>l. Length(s) = IF r.tail >= b THEN r.tail - b ELSE r.tail - b + MaxJobs + 1
  BY <1>6 DEF Length, Behind
<1>p. \A k : /\ Spot(r, k) = IF r.head + k <= MaxJobs THEN r.head + k ELSE r.head + k - MaxJobs - 1
             /\ Spot(s, k) = IF b + k <= MaxJobs THEN b + k ELSE b + k - MaxJobs - 1
  BY <1>6 DEF Spot
<1> HIDE DEF n, b, s, slots
<1>7. Length(s) = n + 1
  BY <1>1, <1>2, <1>h, <1>b, <1>n, <1>l
<1>8. Spot(s, 0) = b
  BY <1>h, <1>p, <1>1
<1>9. \A k \in 1 .. n : Spot(s, k) = Spot(r, k - 1) /\ Spot(r, k - 1) # b /\ Spot(r, k - 1) \in Slots
  <2> SUFFICES ASSUME NEW k \in 1 .. n
               PROVE  Spot(s, k) = Spot(r, k - 1) /\ Spot(r, k - 1) # b /\ Spot(r, k - 1) \in Slots
    OBVIOUS
  <2> DEFINE x == Spot(s, k)  y == Spot(r, k - 1)
  <2>1. y = IF r.head + (k - 1) <= MaxJobs THEN r.head + (k - 1) ELSE r.head + (k - 1) - MaxJobs - 1
    BY <1>p
  <2>2. x = IF b + k <= MaxJobs THEN b + k ELSE b + k - MaxJobs - 1
    BY <1>p
  <2> HIDE DEF x, y
  <2>3. x = y /\ y # b /\ y \in 0 .. MaxJobs
    BY <2>1, <2>2, <1>h, <1>b, <1>1, <1>2
  <2> QED BY <2>3 DEF x, y, Slots
<1>10. Held(s, 0) = j
  BY <1>4, <1>6, <1>8 DEF Held
<1>11. \A k \in 1 .. n : Held(s, k) = Held(r, k - 1)
  BY <1>4, <1>6, <1>9 DEF Held
<1>12. 0 .. Length(s) - 1 = 0 .. n /\ \A k \in 0 .. n : k = 0 \/ k \in 1 .. n
  BY <1>1, <1>7
<1>13. EachOnce(s)
  <2>1. ASSUME NEW k \in 0 .. n PROVE Held(s, k) \in Jobs
    <3>1. CASE k = 0
      BY <3>1, <1>10
    <3>2. CASE k \in 1 .. n
      <4>1. k - 1 \in 0 .. n - 1
        BY <3>2, <1>1
      <4> QED BY <4>1, <3>2, <1>11 DEF EachOnce, n
    <3> QED BY <3>1, <3>2, <1>12
  <2>2. ASSUME NEW k \in 1 .. n PROVE Held(s, k) # j
    <3>1. k - 1 \in 0 .. n - 1
      BY <1>1
    <3> QED BY <3>1, <1>11 DEF RingHolds, n
  <2>3. ASSUME NEW i \in 0 .. n, NEW k \in 0 .. n, i # k PROVE Held(s, i) # Held(s, k)
    <3>1. CASE i = 0
      <4>1. k \in 1 .. n
        BY <3>1, <2>3, <1>12
      <4> QED BY <3>1, <4>1, <2>2, <1>10
    <3>2. CASE k = 0
      <4>1. i \in 1 .. n
        BY <3>2, <2>3, <1>12
      <4> QED BY <3>2, <4>1, <2>2, <1>10
    <3>3. CASE i \in 1 .. n /\ k \in 1 .. n
      <4>1. i - 1 \in 0 .. n - 1 /\ k - 1 \in 0 .. n - 1 /\ i - 1 # k - 1
        BY <3>3, <2>3, <1>1
      <4> QED BY <4>1, <3>3, <1>11 DEF EachOnce, n
    <3> QED BY <3>1, <3>2, <3>3, <1>12
  <2> QED BY <2>1, <2>3, <1>12 DEF EachOnce
<1>14. RingHolds(s, j)
  <2>1. 0 \in 0 .. n
    BY <1>1
  <2> QED BY <2>1, <1>10, <1>12 DEF RingHolds
<1>15. ASSUME NEW i, RingHolds(r, i) PROVE RingHolds(s, i)
  <2>1. PICK k \in 0 .. n - 1 : Held(r, k) = i
    BY <1>15 DEF RingHolds, n
  <2>2. k + 1 \in 1 .. n /\ k + 1 \in 0 .. n /\ k + 1 - 1 = k
    BY <1>1
  <2>3. Held(s, k + 1) = Held(r, k)
    BY <2>2, <1>11
  <2> QED BY <2>1, <2>2, <2>3, <1>12 DEF RingHolds
<1> QED BY <1>5, <1>13, <1>14, <1>15 DEF s, slots, b

(* setjob keeps each job once, loses none, and enters its own.             *)
LEMMA SetjobKeeps ==
  ASSUME NEW r, RingType(r), EachOnce(r), NEW j \in Jobs
  PROVE  /\ RingType(setjob(r, j)) /\ EachOnce(setjob(r, j))
         /\ \A i : RingHolds(r, i) => RingHolds(setjob(r, j), i)
         /\ ~(Length(r) = 0 /\ AtHead(r) = j) => RingHolds(setjob(r, j), j)
<1>1. CASE AtHead(r) = j
  <2>1. setjob(r, j) = r
    BY <1>1 DEF setjob
  <2>2. ASSUME Length(r) # 0 PROVE RingHolds(r, j)
    <3>1. Length(r) \in Nat /\ Spot(r, 0) = r.head
      BY TypedParts
    <3>2. 0 \in 0 .. Length(r) - 1
      BY <3>1, <2>2
    <3> QED BY <3>1, <3>2, <1>1 DEF RingHolds, Held, AtHead
  <2> QED BY <2>1, <2>2, <1>1
<1>2. CASE AtHead(r) # j
  <2> DEFINE s == Without(r, j)
  <2>1. /\ RingType(s) /\ EachOnce(s) /\ ~RingHolds(s, j)
        /\ \A i : RingHolds(r, i) /\ i # j => RingHolds(s, i)
    BY <1>2, WithoutIs
  <2>2. setjob(r, j) = [slot |-> [s.slot EXCEPT ![Before(s.head)] = j], head |-> Before(s.head), tail |-> s.tail]
    BY <1>2 DEF setjob
  <2> HIDE DEF s
  <2>3. /\ RingType(setjob(r, j)) /\ EachOnce(setjob(r, j)) /\ RingHolds(setjob(r, j), j)
        /\ \A i : RingHolds(s, i) => RingHolds(setjob(r, j), i)
    BY <2>1, <2>2, EnteredIs
  <2> QED BY <2>1, <2>3
<1> QED BY <1>1, <1>2

(* next_job keeps each job once, and loses none that lives.                *)
LEMMA NextInRingKeeps ==
  ASSUME NEW r, RingType(r), EachOnce(r), r.head # r.tail, NEW living
  PROVE  /\ RingType(NextInRing(r, living)) /\ EachOnce(NextInRing(r, living))
         /\ \A j \in living : RingHolds(r, j) => RingHolds(NextInRing(r, living), j)
<1> DEFINE s == Rotated(r)
<1>1. /\ RingType(s) /\ EachOnce(s) /\ s.head # s.tail
      /\ \A j : RingHolds(r, j) => RingHolds(s, j)
  BY RotatedKeeps
<1> HIDE DEF s
<1>2. CASE AtHead(s) = None \/ AtHead(s) \notin living
  <2> DEFINE t == [slot |-> s.slot, head |-> After(s.head), tail |-> s.tail]
  <2>1. NextInRing(r, living) = t
    BY <1>2 DEF NextInRing, s
  <2>2. /\ RingType(t) /\ EachOnce(t) /\ Length(t) = Length(s) - 1
        /\ \A k \in 0 .. Length(s) - 2 : Held(t, k) = Held(s, k + 1)
    BY <1>1, DropKeeps
  <2>3. Length(s) \in Nat /\ Spot(s, 0) = s.head
    BY <1>1, TypedParts
  <2> HIDE DEF t
  <2>4. ASSUME NEW j \in living, RingHolds(s, j) PROVE RingHolds(t, j)
    <3>1. PICK k \in 0 .. Length(s) - 1 : Held(s, k) = j
      BY <2>4 DEF RingHolds
    <3>2. 0 \in 0 .. Length(s) - 1
      BY <3>1, <2>3
    <3>3. AtHead(s) \in Jobs
      BY <3>2, <2>3, <1>1 DEF EachOnce, Held, AtHead
    <3>4. AtHead(s) \notin living
      BY <3>3, <1>2, MaxJobsAssumption DEF Jobs, None
    <3>5. k # 0
      BY <3>1, <3>4, <2>3, <2>4 DEF Held, AtHead
    <3>6. k - 1 \in 0 .. Length(s) - 2 /\ k - 1 \in 0 .. Length(t) - 1 /\ k - 1 + 1 = k
      BY <3>5, <2>2, <2>3
    <3>7. Held(t, k - 1) = Held(s, k - 1 + 1)
      BY <3>6, <2>2
    <3> QED BY <3>1, <3>6, <3>7 DEF RingHolds
  <2> QED BY <2>1, <2>2, <2>4, <1>1
<1>3. CASE ~(AtHead(s) = None \/ AtHead(s) \notin living)
  <2>1. NextInRing(r, living) = s
    BY <1>3 DEF NextInRing, s
  <2> QED BY <2>1, <1>1
<1> QED BY <1>2, <1>3

(* The ring starts empty.                                                  *)
LEMMA RingInvInit == RingInit => RingInv
<1> SUFFICES ASSUME RingInit PROVE RingInv
  OBVIOUS
<1> DEFINE r == NewRing
<1>1. MaxJobs \in Nat /\ 0 \in Slots
  BY MaxJobsAssumption DEF Slots
<1>2. RingType(r)
  BY <1>1 DEF NewRing, RingType
<1>3. r.head = 0 /\ r.tail = 0
  BY DEF NewRing
<1>4. Length(r) = 0
  BY <1>2, <1>3, TypedParts
<1>5. EachOnce(r)
  BY <1>4 DEF EachOnce
<1> QED BY <1>2, <1>5 DEF RingInit, RingInv

(* Every step keeps the invariant of the ring.                             *)
LEMMA RingInvNext == RingInv /\ [RingNext]_ringVars => RingInv'
<1> SUFFICES ASSUME RingInv, [RingNext]_ringVars PROVE RingInv'
  OBVIOUS
<1> USE DEF RingInv
<1>1. ASSUME NEW j \in Jobs, made(j) PROVE RingInv'
  BY <1>1 DEF made
<1>2. ASSUME NEW j \in live, dies(j) PROVE RingInv'
  BY <1>2 DEF dies
<1>3. ASSUME NEW j \in live, enters(j) PROVE RingInv'
  <2>1. ring' = setjob(ring, j) /\ live' = live /\ j \in Jobs
    BY <1>3 DEF enters
  <2>2. /\ RingType(ring') /\ EachOnce(ring')
        /\ \A i : RingHolds(ring, i) => RingHolds(ring', i)
        /\ ~(Length(ring) = 0 /\ AtHead(ring) = j) => RingHolds(ring', j)
    BY <2>1, SetjobKeeps
  <2>3. CASE Length(ring) = 0 /\ AtHead(ring) = j
    <3>1. current' = current
      BY <1>3, <2>3 DEF enters
    <3> QED BY <2>1, <2>2, <3>1
  <2>4. CASE ~(Length(ring) = 0 /\ AtHead(ring) = j)
    <3>1. current' = current \union {j}
      BY <1>3, <2>4 DEF enters
    <3> QED BY <2>1, <2>2, <2>4, <3>1
  <2> QED BY <2>3, <2>4
<1>4. CASE goesRound
  <2>1. ring' = NextInRing(ring, live) /\ live' = live /\ current' = current /\ ring.head # ring.tail
    BY <1>4 DEF goesRound
  <2>2. /\ RingType(ring') /\ EachOnce(ring')
        /\ \A j \in live : RingHolds(ring, j) => RingHolds(ring', j)
    BY <2>1, NextInRingKeeps
  <2> QED BY <2>1, <2>2
<1>5. CASE UNCHANGED ringVars
  BY <1>5 DEF ringVars
<1> QED BY <1>1, <1>2, <1>3, <1>4, <1>5 DEF RingNext

(* The inductive invariant of the ring gives the property.                 *)
LEMMA RingInvImplies == RingInv => RingKept
<1> SUFFICES ASSUME RingInv PROVE RingKept
  OBVIOUS
<1> DEFINE n == Length(ring)
<1>1. ring.head \in Slots /\ ring.tail \in Slots /\ n \in Nat
  BY TypedParts DEF RingInv
<1>2. \A i \in 1 .. n : InRing(ring)[i] = Held(ring, i - 1) /\ i - 1 \in 0 .. n - 1
  BY <1>1 DEF InRing, Held
<1>3. \A k \in 0 .. n - 1 : k + 1 \in 1 .. n /\ (k + 1) - 1 = k
  <2> HIDE DEF n
  <2> QED BY <1>1
<1>4. RingSound
  <2> SUFFICES ASSUME NEW i \in 1 .. n, NEW k \in 1 .. n, i # k PROVE InRing(ring)[i] # InRing(ring)[k]
    BY <1>1 DEF RingSound
  <2>1. i - 1 # k - 1
    BY <1>1
  <2> QED BY <2>1, <1>2 DEF RingInv, EachOnce
<1>5. RingLosesNone
  <2> SUFFICES ASSUME NEW j \in current PROVE \E i \in 1 .. n : InRing(ring)[i] = j
    BY DEF RingLosesNone
  <2>1. PICK k \in 0 .. n - 1 : Held(ring, k) = j
    BY DEF RingInv, RingHolds
  <2>2. k + 1 \in 1 .. n /\ InRing(ring)[k + 1] = Held(ring, k)
    BY <1>2, <1>3
  <2> QED BY <2>1, <2>2
<1> QED BY <1>4, <1>5 DEF RingKept

(* For a table of any number of jobs: the ring has each job once, is never *)
(* overrun, and loses no job that lives (shell.c, setjob and next_job).    *)
THEOREM RingAlways == RingSpec => []RingKept
<1> QED BY RingInvInit, RingInvNext, RingInvImplies, PTL DEF RingSpec
-----------------------------------------------------------------------------
(* IPAK: the last version of a file that the user did not delete is on the *)
(* disk, in the pack, or in the new pack.                                  *)
Files == [date : Nat, scrambled : BOOLEAN]
Entries == [name : Names, date : Nat, scrambled : BOOLEAN]

PakType ==
  /\ disk \in [Names -> Files] /\ pakfil \in Seq(Entries) /\ out \in Seq(Entries)
  /\ hasPak \in BOOLEAN /\ encrypt \in BOOLEAN /\ cmd \in {"idle", "r"} \union Writes
  /\ argv \in SUBSET Names /\ entry \in Nat
  /\ latest \in [Names -> Nat] /\ tossed \in SUBSET Names /\ overwritten \in SUBSET Names
  /\ halfMoved \in BOOLEAN

Excused == tossed \union overwritten

(* No copy of a file is newer than what the user wrote, so that one as new *)
(* as another may stand for it.                                            *)
NoneNewer(p) == \A k \in DOMAIN p : p[k].date <= latest[p[k].name]
DatesInv ==
  /\ \A n \in Names : disk[n].date <= latest[n]
  /\ NoneNewer(pakfil) /\ NoneNewer(out)

(* What the command has passed of the old pack: the new pack and the disk  *)
(* can do without it.                                                      *)
PassedInv ==
  /\ cmd # "idle" => entry # 0
  /\ cmd = "d" => \A n \in argv : n \in tossed \/ disk[n].date = latest[n]
  /\ cmd \in Writes =>
       \A k \in DOMAIN pakfil :
         k < entry /\ pakfil[k].name \notin Excused /\ pakfil[k].date = latest[pakfil[k].name]
           => disk[pakfil[k].name].date = pakfil[k].date \/ Holds(out, pakfil[k].name)
  /\ cmd = "r" => \A k \in DOMAIN pakfil \ unopened :
                    k < entry /\ pakfil[k].name \in argv => disk[pakfil[k].name].date >= pakfil[k].date
  /\ cmd \in {"b", "u"} => \A k \in DOMAIN pakfil : k < entry =>
       \E m \in DOMAIN out : out[m].name = pakfil[k].name /\ out[m].date >= pakfil[k].date

EmptyInv == ~hasPak => pakfil = <<>>

(* What is in the new pack of a command that deletes nothing is elsewhere  *)
(* too, also when the pack is left incomplete.                             *)
CopiesInv ==
  ~Deletes /\ (cmd \in {"idle", "r"} => ~halfMoved) => \A n \in Names : Holds(out, n) => Safe(n)

PakInv ==
  PakType /\ DatesInv /\ PassedInv /\ EmptyInv /\ CopiesInv /\ NothingLost /\ ScrambledOnce

(* An entry at the end of a pack keeps what the pack has.                  *)
LEMMA AppendKeeps ==
  ASSUME PakType, NEW e \in Entries
  PROVE  LET q == Append(out, e) IN
         /\ q \in Seq(Entries) /\ Len(q) = Len(out) + 1 /\ q[Len(out) + 1] = e
         /\ DOMAIN q = 1 .. Len(out) + 1 /\ DOMAIN out = 1 .. Len(out)
         /\ \A k \in DOMAIN out : k \in DOMAIN q /\ q[k] = out[k]
<1> QED BY DEF PakType

LEMMA PakInvInit == PakInit => PakInv
<1> SUFFICES ASSUME PakInit PROVE PakInv
  OBVIOUS
<1> USE DEF PakInit
<1>1. NoFile \in Files /\ NoFile.date = 0 /\ ~NoFile.scrambled
  BY DEF NoFile, Files
<1>2. PakType
  <2>1. disk \in [Names -> Files] /\ latest \in [Names -> Nat]
    BY <1>1
  <2>2. hasPak \in BOOLEAN /\ encrypt \in BOOLEAN /\ cmd \in {"idle", "r"} \union Writes
    BY Zenon
  <2>3. pakfil \in Seq(Entries) /\ out \in Seq(Entries) /\ entry \in Nat
    OBVIOUS
  <2>4. argv \in SUBSET Names /\ tossed \in SUBSET Names /\ overwritten \in SUBSET Names
    OBVIOUS
  <2>5. halfMoved \in BOOLEAN
    BY Zenon
  <2> QED BY <2>1, <2>2, <2>3, <2>4, <2>5 DEF PakType
<1>3. DatesInv
  BY <1>1 DEF DatesInv, NoneNewer
<1>4. PassedInv
  BY DEF PassedInv, Writes
<1>5. EmptyInv /\ NothingLost /\ ScrambledOnce
  BY <1>1 DEF EmptyInv, NothingLost, ScrambledOnce
<1>6. CopiesInv
  BY DEF CopiesInv, Holds
<1> QED BY <1>2, <1>3, <1>4, <1>5, <1>6 DEF PakInv

(* A step that writes one more entry to the new pack, a file of the disk   *)
(* or the entry of the old pack the command is at, and may delete that     *)
(* file.                                                                   *)
LEMMA WritingKeeps ==
  ASSUME PakInv, NEW e \in Entries, e.date <= latest[e.name], e.scrambled = encrypt,
         out' = Append(out, e), pakSame' = pakSame, cmd # "r",
         disk' \in [Names -> Files], ~Deletes => disk' = disk,
         ~Deletes => e.date = disk[e.name].date \/ e \in {pakfil[k] : k \in DOMAIN pakfil},
         \A x \in Names : disk'[x] = disk[x]
                          \/ (disk'[x] = NoFile /\ x = e.name /\ e.date = disk[x].date),
         argv' \subseteq argv,
         entry' = entry \/ (entry' = entry + 1 /\ entry \in DOMAIN pakfil
                            /\ e.name = pakfil[entry].name /\ e.date >= pakfil[entry].date)
  PROVE  PakInv'
<1> DEFINE L == Len(out) + 1
<1>0. /\ disk \in [Names -> Files] /\ latest \in [Names -> Nat] /\ L \in Nat
      /\ pakfil \in Seq(Entries) /\ out \in Seq(Entries) /\ entry \in Nat
      /\ encrypt \in BOOLEAN
  BY DEF PakInv, PakType
<1>1. /\ out' \in Seq(Entries) /\ L \in DOMAIN out' /\ out'[L] = e
      /\ \A k \in DOMAIN out : k \in DOMAIN out' /\ out'[k] = out[k]
      /\ \A k \in DOMAIN out' : k \in DOMAIN out \/ k = L
  BY AppendKeeps DEF PakInv
<1>2. /\ pakfil' = pakfil /\ hasPak' = hasPak /\ cmd' = cmd /\ encrypt' = encrypt
      /\ latest' = latest /\ Excused' = Excused /\ halfMoved' = halfMoved /\ tossed' = tossed
      /\ Deletes' = Deletes /\ overwritten' = overwritten
  BY DEF pakSame, pakPast, Excused, Deletes
<1>3. NoFile.date = 0 /\ ~NoFile.scrambled
  BY DEF NoFile
<1>4. e.name \in Names /\ e.date \in Nat
  BY DEF Entries
<1>4a. \A k \in DOMAIN pakfil : k \in Nat /\ pakfil[k].name \in Names /\ pakfil[k].date \in Nat
  <2>1. \A k \in DOMAIN pakfil : k \in Nat /\ pakfil[k] \in Entries
    BY <1>0
  <2> QED BY <2>1 DEF Entries
<1>4b. \A x \in Names : disk[x].date \in Nat /\ disk'[x].date \in Nat
  BY <1>0 DEF Files
<1> HIDE DEF L
<1>5. PakType'
  <2>1. entry' \in Nat /\ argv' \in SUBSET Names
    BY <1>0 DEF PakInv, PakType
  <2> QED BY <2>1, <1>1, <1>2 DEF PakInv, PakType
<1>6. DatesInv'
  <2>1. \A n \in Names : disk'[n].date <= latest'[n]
    <3> SUFFICES ASSUME NEW n \in Names PROVE disk'[n].date <= latest[n]
      BY <1>2
    <3>1. disk[n].date <= latest[n] /\ latest[n] \in Nat
      BY <1>0 DEF PakInv, DatesInv
    <3>2. CASE disk'[n] = disk[n]
      BY <3>1, <3>2
    <3>3. CASE disk'[n] = NoFile
      BY <3>1, <3>3, <1>3
    <3> QED BY <3>2, <3>3
  <2>2. \A k \in DOMAIN pakfil' : pakfil'[k].date <= latest'[pakfil'[k].name]
    BY <1>2 DEF PakInv, DatesInv, NoneNewer
  <2>3. \A k \in DOMAIN out' : out'[k].date <= latest'[out'[k].name]
    BY <1>1, <1>2 DEF PakInv, DatesInv, NoneNewer
  <2> QED BY <2>1, <2>2, <2>3 DEF DatesInv, NoneNewer
<1>7. \A x \in Names : Holds(out, x) => Holds(out, x)'
  BY <1>1, <1>2 DEF Holds
<1>8. e.date = latest[e.name] => Holds(out, e.name)'
  BY <1>1, <1>2 DEF Holds
<1>9. \A x \in Names : disk[x].date = latest[x] => disk'[x].date = latest[x] \/ Holds(out, x)'
  BY <1>8
<1>10. NothingLost'
  <2> SUFFICES ASSUME NEW x \in Names, x \notin Excused
               PROVE  latest[x] = 0 \/ Safe(x)' \/ Holds(out, x)'
    BY <1>2 DEF NothingLost, Excused
  <2>1. latest[x] = 0 \/ Safe(x) \/ Holds(out, x)
    BY DEF PakInv, NothingLost, Excused
  <2>2. Holds(pakfil, x) => Holds(pakfil, x)'
    BY <1>2 DEF Holds
  <2>3. Safe(x) => Safe(x)' \/ Holds(out, x)'
    BY <2>2, <1>2, <1>9 DEF Safe
  <2> QED BY <2>1, <2>3, <1>7
<1>10a. CopiesInv'
  <2> SUFFICES ASSUME ~Deletes, cmd \in {"idle", "r"} => ~halfMoved, NEW x \in Names, Holds(out, x)'
               PROVE  Safe(x)'
    BY <1>2 DEF CopiesInv
  <2>1. Safe(x) => Safe(x)'
    BY <1>2 DEF Safe, Holds
  <2>2. PICK k \in DOMAIN out' : out'[k].name = x /\ out'[k].date = latest[x]
    BY <1>2 DEF Holds
  <2>3. CASE k \in DOMAIN out
    <3>1. Holds(out, x)
      BY <2>2, <2>3, <1>1 DEF Holds
    <3> QED BY <3>1, <2>1 DEF PakInv, CopiesInv
  <2>4. CASE k = L
    <3>1. e.name = x /\ e.date = latest[x]
      BY <2>2, <2>4, <1>1
    <3>2. Safe(x)
      BY <3>1 DEF Safe, Holds
    <3> QED BY <3>2, <2>1
  <2> QED BY <2>2, <2>3, <2>4, <1>1
<1>11. ScrambledOnce'
  <2>1. \A x \in Names : ~disk'[x].scrambled
    BY <1>3 DEF PakInv, ScrambledOnce
  <2>2. \A k \in DOMAIN out' : out'[k].scrambled = encrypt'
    BY <1>1, <1>2 DEF PakInv, ScrambledOnce
  <2> QED BY <2>1, <2>2, <1>2 DEF PakInv, ScrambledOnce
<1>12. PassedInv'
  <2>1. cmd' = "d" => \A n \in argv' : n \in tossed' \/ disk'[n].date = latest'[n]
    BY <1>2 DEF PakInv, PassedInv, Deletes
  <2>2. ASSUME cmd \in Writes, NEW k \in DOMAIN pakfil, k < entry', NEW x \in Names, x = pakfil[k].name,
               x \notin Excused, pakfil[k].date = latest[x]
        PROVE  disk'[x].date = pakfil[k].date \/ Holds(out, x)'
    <3>1. CASE k < entry
      <4>1. disk[x].date = pakfil[k].date \/ Holds(out, x)
        BY <2>2, <3>1 DEF PakInv, PassedInv
      <4> QED BY <4>1, <2>2, <1>7, <1>9
    <3>2. CASE ~(k < entry)
      <4>1. k = entry /\ e.name = x /\ e.date >= pakfil[k].date
        BY <2>2, <3>2, <1>0, <1>4a
      <4>2. e.date = latest[e.name]
        BY <4>1, <2>2, <1>0, <1>4, <1>4a
      <4> QED BY <4>1, <4>2, <1>8
    <3> QED BY <3>1, <3>2
  <2>2a. ASSUME cmd' \in Writes, NEW k \in DOMAIN pakfil', k < entry', pakfil'[k].name \notin Excused',
                pakfil'[k].date = latest'[pakfil'[k].name]
         PROVE  disk'[pakfil'[k].name].date = pakfil'[k].date \/ Holds(out, pakfil[k].name)'
    <3> DEFINE x == pakfil[k].name
    <3>1. x \in Names /\ x \notin Excused /\ pakfil[k].date = latest[x] /\ cmd \in Writes
      BY <2>2a, <1>2, <1>4a
    <3>2. disk'[x].date = pakfil[k].date \/ (\E m \in DOMAIN out' : out'[m].name = x /\ out'[m].date = latest'[x])
      <4> HIDE DEF x
      <4> SUFFICES ASSUME NEW y \in Names, y = x
                   PROVE  disk'[y].date = pakfil[k].date
                          \/ (\E m \in DOMAIN out' : out'[m].name = y /\ out'[m].date = latest'[y])
        BY <3>1
      <4>1. disk'[y].date = pakfil[k].date \/ Holds(out, y)'
        BY <3>1, <2>2, <2>2a, <1>2 DEF x
      <4> QED BY <4>1 DEF Holds
    <3> QED BY <3>2, <1>2 DEF Holds
  <2>3. ASSUME cmd \in {"b", "u"}, NEW k \in DOMAIN pakfil, k < entry'
        PROVE  \E m \in DOMAIN out' : out'[m].name = pakfil[k].name /\ out'[m].date >= pakfil[k].date
    <3>1. CASE k < entry
      <4>1. PICK m \in DOMAIN out : out[m].name = pakfil[k].name /\ out[m].date >= pakfil[k].date
        BY <2>3, <3>1 DEF PakInv, PassedInv
      <4> QED BY <4>1, <1>1
    <3>2. CASE ~(k < entry)
      <4>1. k = entry /\ e.name = pakfil[k].name /\ e.date >= pakfil[k].date
        BY <2>3, <3>2, <1>0, <1>4a
      <4> QED BY <4>1, <1>1
    <3> QED BY <3>1, <3>2
  <2>4. cmd' # "r" /\ (cmd' # "idle" => entry' # 0)
    BY <1>0, <1>2 DEF PakInv, PassedInv
  <2> QED BY <2>1, <2>2a, <2>3, <2>4, <1>2 DEF PassedInv
<1>13. EmptyInv'
  BY <1>2 DEF PakInv, EmptyInv
<1> QED BY <1>5, <1>6, <1>10, <1>10a, <1>11, <1>12, <1>13 DEF PakInv

(* A step that leaves the packs, the new pack and the disk alone, and what *)
(* the command has passed too.                                             *)
LEMMA IdleKeeps ==
  ASSUME PakInv, UNCHANGED <<disk, pakfil, hasPak, out, encrypt, latest, tossed, overwritten>>,
         cmd' = "idle", argv' = {}, entry' = 0, halfMoved' = (halfMoved \/ Deletes)
  PROVE  PakInv'
<1>1. PakType'
  <2>1. halfMoved' \in BOOLEAN
    BY Zenon DEF Deletes, PakInv, PakType
  <2> QED BY <2>1 DEF PakInv, PakType
<1>2. DatesInv' /\ EmptyInv' /\ ScrambledOnce'
  BY DEF PakInv, DatesInv, NoneNewer, EmptyInv, ScrambledOnce
<1>3. NothingLost'
  BY DEF PakInv, NothingLost, Safe, Holds
<1>4. PassedInv'
  BY DEF PassedInv, Writes
<1>5. CopiesInv'
  <2>1. \A n \in Names : Holds(out, n)' = Holds(out, n) /\ Safe(n)' = Safe(n)
    BY DEF Safe, Holds
  <2> SUFFICES ASSUME ~halfMoved' PROVE \A n \in Names : Holds(out, n)' => Safe(n)'
    BY DEF CopiesInv
  <2>2. ~halfMoved /\ ~Deletes
    OBVIOUS
  <2> QED BY <2>1, <2>2 DEF PakInv, CopiesInv
<1> QED BY <1>1, <1>2, <1>3, <1>4, <1>5 DEF PakInv

LEMMA StartKeeps == PakInv /\ startPak => PakInv'
<1> SUFFICES ASSUME PakInv, startPak PROVE PakInv'
  OBVIOUS
<1>1. PICK c \in Writes \union {"r"}, names \in SUBSET Names :
        /\ IF c \in {"c", "m"} THEN ~hasPak ELSE hasPak
        /\ cmd' = c /\ argv' = names
        /\ entry' = IF c \in {"c", "m"} THEN Len(pakfil) + 1 ELSE 1
        /\ tossed' = tossed \union {n \in names : c = "d" /\ disk[n].date # latest[n]}
        /\ IF c \in Writes
           THEN /\ out' = <<>> /\ halfMoved' = FALSE
                /\ overwritten' = overwritten \union {n \in Names : Holds(out, n) /\ ~Safe(n)}
           ELSE UNCHANGED <<out, halfMoved, overwritten>>
  BY DEF startPak
<1>2. UNCHANGED <<disk, pakfil, hasPak, encrypt, latest>>
  BY DEF startPak
<1>2a. \A n \in Names : Safe(n)' = Safe(n)
  BY <1>2 DEF Safe, Holds
<1>3. out' = out \/ out' = <<>>
  BY <1>1
<1>4. pakfil \in Seq(Entries) /\ out \in Seq(Entries) /\ Len(pakfil) \in Nat
      /\ DOMAIN pakfil = 1 .. Len(pakfil)
  BY DEF PakInv, PakType
<1>5. PakType'
  <2>1. out' \in Seq(Entries)
    <3>1. <<>> \in Seq(Entries)
      OBVIOUS
    <3> QED BY <3>1, <1>3, <1>4
  <2>2. entry' \in Nat /\ argv' \in SUBSET Names /\ cmd' \in {"idle", "r"} \union Writes
    BY <1>1, <1>4
  <2>3. tossed' \in SUBSET Names /\ overwritten' \in SUBSET Names
    BY <1>1 DEF PakInv, PakType
  <2>4. halfMoved' \in BOOLEAN
    BY <1>1, Zenon DEF PakInv, PakType
  <2> QED BY <2>1, <2>2, <2>3, <2>4, <1>2 DEF PakInv, PakType
<1>6. DatesInv' /\ ScrambledOnce'
  <2>1. CASE out' = out
    BY <2>1, <1>2 DEF PakInv, DatesInv, NoneNewer, ScrambledOnce
  <2>2. CASE out' = <<>>
    BY <2>2, <1>2 DEF PakInv, DatesInv, NoneNewer, ScrambledOnce
  <2> QED BY <2>1, <2>2, <1>3
<1>7. EmptyInv'
  BY <1>2 DEF PakInv, EmptyInv
<1>8. NothingLost'
  <2> SUFFICES ASSUME NEW n \in Names, n \notin tossed' \union overwritten'
               PROVE  latest[n] = 0 \/ Safe(n) \/ Holds(out, n)'
    BY <1>2, <1>2a DEF NothingLost
  <2>1. latest[n] = 0 \/ Safe(n) \/ Holds(out, n)
    <3>1. n \notin tossed \union overwritten
      BY <1>1
    <3> QED BY <3>1 DEF PakInv, NothingLost
  <2>2. CASE c \in Writes
    <3>1. ~(Holds(out, n) /\ ~Safe(n))
      BY <2>2, <1>1
    <3> QED BY <3>1, <2>1
  <2>3. CASE c \notin Writes
    <3>1. Holds(out, n)' = Holds(out, n)
      BY <2>3, <1>1, <1>2 DEF Holds
    <3> QED BY <3>1, <2>1
  <2> QED BY <2>2, <2>3
<1>8a. CopiesInv'
  <2>1. CASE c \in Writes
    <3>1. \A n \in Names : ~Holds(out, n)'
      BY <2>1, <1>1 DEF Holds
    <3> QED BY <3>1 DEF CopiesInv
  <2>2. CASE c \notin Writes
    <3>1. \A n \in Names : Holds(out, n)' = Holds(out, n)
      BY <2>2, <1>1, <1>2 DEF Holds
    <3>2. halfMoved' = halfMoved /\ cmd = "idle" /\ cmd' = "r"
      BY <2>2, <1>1 DEF startPak
    <3> QED BY <3>1, <3>2, <1>2a DEF PakInv, CopiesInv, Deletes
  <2> QED BY <2>1, <2>2
<1>9. \A k \in DOMAIN pakfil' : ~(k < entry')
  <2>1. CASE c \in {"c", "m"}
    <3>1. pakfil = <<>>
      BY <2>1, <1>1 DEF PakInv, EmptyInv
    <3> QED BY <3>1, <1>2
  <2>2. CASE c \notin {"c", "m"}
    <3>1. entry' = 1
      BY <2>2, <1>1
    <3> QED BY <3>1, <1>2, <1>4
  <2> QED BY <2>1, <2>2
<1>10. PassedInv'
  <2>1. cmd' = "d" => \A n \in argv' : n \in tossed' \/ disk'[n].date = latest'[n]
    BY <1>1, <1>2
  <2>2. entry' # 0
    BY <1>1, <1>4
  <2> QED BY <2>1, <2>2, <1>9 DEF PassedInv
<1> QED BY <1>5, <1>6, <1>7, <1>8, <1>8a, <1>10 DEF PakInv

LEMMA UserKeeps == PakInv /\ userWrites => PakInv'
<1> SUFFICES ASSUME PakInv, userWrites PROVE PakInv'
  OBVIOUS
<1>1. PICK n \in Names, date \in 1 .. MaxDate :
        /\ \A x \in Names : latest[x] < date
        /\ disk' = [disk EXCEPT ![n] = [date |-> date, scrambled |-> FALSE]]
        /\ latest' = [latest EXCEPT ![n] = date]
        /\ tossed' = tossed \ {n} /\ overwritten' = overwritten \ {n}
  BY DEF userWrites
<1>2. UNCHANGED <<pakfil, hasPak, out, cmd, argv, entry, encrypt, unopened, halfMoved>> /\ cmd = "idle"
  BY DEF userWrites
<1>3. /\ disk \in [Names -> Files] /\ latest \in [Names -> Nat] /\ date \in Nat
      /\ pakfil \in Seq(Entries) /\ out \in Seq(Entries)
  BY PakAssumption DEF PakInv, PakType
<1>4. disk'[n] = [date |-> date, scrambled |-> FALSE] /\ latest'[n] = date
      /\ \A x \in Names : x # n => disk'[x] = disk[x] /\ latest'[x] = latest[x]
  BY <1>1, <1>3
<1>4a. \A x \in Names : latest[x] <= latest'[x] /\ latest[x] \in Nat /\ latest'[x] \in Nat
  BY <1>1, <1>3, <1>4
<1>5. PakType'
  <2>1. [date |-> date, scrambled |-> FALSE] \in Files
    BY <1>3 DEF Files
  <2>2. disk' \in [Names -> Files] /\ latest' \in [Names -> Nat]
    BY <2>1, <1>1, <1>3
  <2>3. tossed' \in SUBSET Names /\ overwritten' \in SUBSET Names
    BY <1>1 DEF PakInv, PakType
  <2> QED BY <2>2, <2>3, <1>2 DEF PakInv, PakType
<1>6. DatesInv'
  <2>1. ASSUME NEW x \in Names PROVE disk'[x].date <= latest'[x]
    <3>1. CASE x = n
      BY <3>1, <1>3, <1>4
    <3>2. CASE x # n
      BY <3>2, <1>4 DEF PakInv, DatesInv
    <3> QED BY <3>1, <3>2
  <2>2. ASSUME NEW p \in Seq(Entries), NoneNewer(p), NEW k \in DOMAIN p PROVE p[k].date <= latest'[p[k].name]
    <3>1. p[k] \in Entries
      OBVIOUS
    <3>2. p[k].name \in Names /\ p[k].date \in Nat
      BY <3>1 DEF Entries
    <3>3. p[k].date <= latest[p[k].name]
      BY <2>2 DEF NoneNewer
    <3> QED BY <3>2, <3>3, <1>4a
  <2> QED BY <2>1, <2>2, <1>2, <1>3 DEF PakInv, DatesInv, NoneNewer
<1>7. ScrambledOnce'
  <2>1. ASSUME NEW x \in Names PROVE ~disk'[x].scrambled
    BY <1>4 DEF PakInv, ScrambledOnce
  <2> QED BY <2>1, <1>2 DEF PakInv, ScrambledOnce
<1>8. \A x \in Names : x # n => Safe(x)' = Safe(x) /\ Holds(out, x)' = Holds(out, x)
  BY <1>2, <1>4 DEF Safe, Holds
<1>8a. Safe(n)'
  BY <1>4 DEF Safe
<1>9. NothingLost'
  <2> SUFFICES ASSUME NEW x \in Names, x \notin tossed' \union overwritten'
               PROVE  latest'[x] = 0 \/ Safe(x)' \/ Holds(out, x)'
    BY DEF NothingLost
  <2>1. CASE x = n
    BY <2>1, <1>8a
  <2>2. CASE x # n
    <3>1. latest[x] = 0 \/ Safe(x) \/ Holds(out, x)
      BY <2>2, <1>1 DEF PakInv, NothingLost
    <3> QED BY <3>1, <2>2, <1>4, <1>8
  <2> QED BY <2>1, <2>2
<1>10. CopiesInv'
  BY <1>2, <1>8, <1>8a DEF PakInv, CopiesInv, Deletes
<1>11. PassedInv' /\ EmptyInv'
  BY <1>2 DEF PakInv, PassedInv, EmptyInv, Writes
<1> QED BY <1>5, <1>6, <1>7, <1>9, <1>10, <1>11 DEF PakInv

(* r: a file that is passed is replaced by a newer one only.               *)
LEMMA ReadKeeps == PakInv /\ readfile => PakInv'
<1> SUFFICES ASSUME PakInv, readfile PROVE PakInv'
  OBVIOUS
<1>1. /\ cmd = "r" /\ entry <= Len(pakfil) /\ entry' = entry + 1
      /\ UNCHANGED <<out, argv, pakfil, hasPak, cmd, encrypt, latest, tossed, overwritten, halfMoved>>
  BY DEF readfile, MoreEntries, pakSame, pakPast
<1> DEFINE e == pakfil[entry]
           f == [date |-> e.date, scrambled |-> Copied(e).scrambled]
<1>2. \/ disk' = disk /\ ~(e.name \in argv /\ IsNewer(e)) /\ unopened' = unopened
      \/ disk' = [disk EXCEPT ![e.name] = f] /\ IsNewer(e) /\ unopened' = unopened
      \/ disk' = disk /\ unopened' = unopened \union {entry}
  BY DEF readfile, NextEntry
<1>3. /\ disk \in [Names -> Files] /\ latest \in [Names -> Nat] /\ encrypt \in BOOLEAN
      /\ pakfil \in Seq(Entries) /\ entry \in Nat /\ argv \in SUBSET Names
  BY DEF PakInv, PakType
<1>3a. \A k \in DOMAIN pakfil : k \in Nat /\ pakfil[k].name \in Names /\ pakfil[k].date \in Nat
                                /\ pakfil[k].scrambled \in BOOLEAN
  <2>1. \A k \in DOMAIN pakfil : k \in Nat /\ pakfil[k] \in Entries
    BY <1>3
  <2> QED BY <2>1 DEF Entries
<1>4. \A x \in Names : disk[x].date \in Nat
  BY <1>3 DEF Files
<1>5. entry \in DOMAIN pakfil
  <2>1. entry # 0
    BY <1>1 DEF PakInv, PassedInv
  <2> QED BY <2>1, <1>1, <1>3
<1>6. f \in Files /\ f.date = e.date /\ ~f.scrambled /\ e.name \in Names /\ e.date \in Nat
  <2>1. e.date \in Nat /\ e.name \in Names
    BY <1>3a, <1>5
  <2>2. e.scrambled = encrypt
    BY <1>5 DEF PakInv, ScrambledOnce
  <2>3. Copied(e).scrambled = FALSE
    <3> HIDE DEF e
    <3>1. e \in Entries
      BY <1>3, <1>5 DEF e
    <3> QED BY <3>1, <2>2 DEF Copied, Entries
  <2> QED BY <2>1, <2>3 DEF Files
<1> HIDE DEF f
<1>7. \A x \in Names : disk'[x].date >= disk[x].date /\ disk'[x].date \in Nat
                       /\ disk'[x].date <= latest[x] /\ ~disk'[x].scrambled
  <2> SUFFICES ASSUME NEW x \in Names
               PROVE  disk'[x].date >= disk[x].date /\ disk'[x].date \in Nat
                      /\ disk'[x].date <= latest[x] /\ ~disk'[x].scrambled
    OBVIOUS
  <2>1. disk[x].date <= latest[x] /\ ~disk[x].scrambled /\ disk[x].date \in Nat
    BY <1>4 DEF PakInv, DatesInv, ScrambledOnce
  <2>2. CASE disk'[x] = disk[x]
    BY <2>1, <2>2
  <2>3. CASE disk'[x] # disk[x]
    <3>1. x = e.name /\ disk'[x] = f /\ e.date > disk[x].date
      BY <2>3, <1>2, <1>3 DEF IsNewer
    <3>2. e.date <= latest[x]
      BY <3>1, <1>5 DEF PakInv, DatesInv, NoneNewer
    <3> QED BY <3>1, <3>2, <2>1, <1>6
  <2> QED BY <2>2, <2>3
<1>8. disk' \in [Names -> Files]
  BY <1>2, <1>3, <1>6
<1>9. PakType'
  BY <1>1, <1>8 DEF PakInv, PakType
<1>10. DatesInv' /\ ScrambledOnce' /\ EmptyInv'
  BY <1>1, <1>7 DEF PakInv, DatesInv, NoneNewer, ScrambledOnce, EmptyInv
<1>11. \A x \in Names : (Safe(x) => Safe(x)') /\ Holds(out, x)' = Holds(out, x)
  <2> SUFFICES ASSUME NEW x \in Names PROVE (Safe(x) => Safe(x)') /\ Holds(out, x)' = Holds(out, x)
    OBVIOUS
  <2>1. disk[x].date = latest[x] => disk'[x].date = latest[x]
    BY <1>3, <1>4, <1>7
  <2> QED BY <2>1, <1>1 DEF Safe, Holds
<1>11a. NothingLost' /\ CopiesInv'
  <2>1. NothingLost'
    BY <1>1, <1>11 DEF PakInv, NothingLost
  <2>2. CopiesInv'
    BY <1>1, <1>11 DEF PakInv, CopiesInv, Deletes
  <2> QED BY <2>1, <2>2
<1>12. PassedInv'
  <2>1. ASSUME NEW k \in DOMAIN pakfil, k \notin unopened', k < entry + 1, pakfil[k].name \in argv
        PROVE  disk'[pakfil[k].name].date >= pakfil[k].date
    <3> DEFINE x == pakfil[k].name
    <3>1. x \in Names /\ pakfil[k].date \in Nat /\ k \in Nat
      BY <1>3a
    <3>2. CASE k < entry
      <4>0. k \notin unopened
        BY <1>2, <2>1
      <4>1. disk[x].date >= pakfil[k].date
        BY <1>1, <2>1, <3>2, <4>0 DEF PakInv, PassedInv
      <4> HIDE DEF x
      <4>2. disk'[x].date >= pakfil[k].date
        BY <4>1, <3>1, <1>4, <1>7
      <4> QED BY <4>2 DEF x
    <3>3. CASE k = entry
      <4>1. CASE ~IsNewer(e)
        <5>1. disk[x].date >= pakfil[k].date
          BY <3>1, <3>3, <4>1, <1>4 DEF IsNewer
        <5> HIDE DEF x
        <5>2. disk'[x].date >= pakfil[k].date
          BY <5>1, <3>1, <1>4, <1>7
        <5> QED BY <5>2 DEF x
      <4>2. CASE IsNewer(e)
        <5>1. disk'[x] = f
          BY <1>2, <1>3, <2>1, <3>1, <3>3, <4>2
        <5> QED BY <5>1, <1>6, <3>3
      <4> QED BY <4>1, <4>2
    <3> QED BY <3>1, <3>2, <3>3, <2>1, <1>3
  <2>2. cmd' = "r" /\ cmd' # "d" /\ cmd' \notin Writes /\ cmd' \notin {"b", "u", "d"} /\ entry' # 0
    BY <1>1, <1>3 DEF Writes
  <2> QED BY <2>1, <2>2, <1>1 DEF PassedInv
<1> QED BY <1>9, <1>10, <1>11a, <1>12 DEF PakInv

(* The entry the command is at, copied as it stands.                       *)
LEMMA KeptEntry ==
  ASSUME PakInv, cmd # "idle", MoreEntries
  PROVE  /\ entry \in DOMAIN pakfil /\ NextEntry \in Entries
         /\ Kept(NextEntry).date <= latest[Kept(NextEntry).name]
         /\ Kept(NextEntry).scrambled = encrypt
<1>1. entry # 0 /\ entry \in Nat /\ pakfil \in Seq(Entries) /\ entry <= Len(pakfil)
  BY DEF PakInv, PakType, PassedInv, MoreEntries
<1>2. entry \in DOMAIN pakfil /\ NextEntry \in Entries
  BY <1>1 DEF NextEntry
<1> QED BY <1>2 DEF PakInv, DatesInv, NoneNewer, ScrambledOnce, NextEntry, Kept

(* A file of the disk, with its text scrambled if the option says so.      *)
LEMMA CopiedFile ==
  ASSUME PakInv, NEW n \in Names
  PROVE  LET e == Copied(Entry(n)) IN
         e \in Entries /\ e.name = n /\ e.date = disk[n].date /\ e.date <= latest[n] /\ e.scrambled = encrypt
<1>1. disk[n] \in Files /\ encrypt \in BOOLEAN
  BY DEF PakInv, PakType
<1>2. disk[n].date \in Nat /\ disk[n].scrambled = FALSE
  BY <1>1 DEF PakInv, ScrambledOnce, Files
<1>3. Entry(n) \in Entries /\ Entry(n).name = n /\ Entry(n).date = disk[n].date /\ Entry(n).scrambled = FALSE
  BY <1>2 DEF Entry, Entries
<1>4. ASSUME NEW e \in Entries, e.scrambled = FALSE
      PROVE  /\ Copied(e) \in Entries /\ Copied(e).name = e.name /\ Copied(e).date = e.date
             /\ Copied(e).scrambled = encrypt
  <2>1. Copied(e).name = e.name /\ Copied(e).date = e.date
    BY DEF Copied, Entries
  <2>2. Copied(e) \in Entries
    BY DEF Copied, Entries
  <2>3. Copied(e).scrambled = encrypt
    BY <1>1, <1>4 DEF Copied, Entries
  <2> QED BY <2>1, <2>2, <2>3
<1>6. disk[n].date <= latest[n]
  BY DEF PakInv, DatesInv
<1> QED BY <1>3, <1>4, <1>6

LEMMA DeleteKeeps == PakInv /\ deltc => PakInv'
<1> SUFFICES ASSUME PakInv, deltc PROVE PakInv'
  OBVIOUS
<1>1. /\ cmd = "d" /\ MoreEntries /\ entry' = entry + 1 /\ disk' = disk /\ argv' = argv
      /\ pakSame' = pakSame
      /\ out' = IF NextEntry.name \in argv THEN out ELSE Append(out, Kept(NextEntry))
  BY DEF deltc
<1>2. disk \in [Names -> Files]
  BY DEF PakInv, PakType
<1>3. CASE NextEntry.name \notin argv
  <2>1. out' = Append(out, NextEntry)
    BY <1>1, <1>3 DEF Kept
  <2>2. /\ entry \in DOMAIN pakfil /\ NextEntry \in Entries
        /\ NextEntry.date <= latest[NextEntry.name] /\ NextEntry.scrambled = encrypt
    BY <1>1, KeptEntry DEF Kept
  <2>3. NextEntry.date \in Nat
    BY <2>2 DEF Entries
  <2>4. NextEntry.date >= NextEntry.date
    BY <2>3
  <2>5. NextEntry.name = pakfil[entry].name /\ NextEntry.date >= pakfil[entry].date
        /\ NextEntry \in {pakfil[k] : k \in DOMAIN pakfil}
    BY <2>2, <2>4 DEF NextEntry
  <2> QED BY <1>1, <1>2, <2>1, <2>2, <2>5, WritingKeeps
<1>4. CASE NextEntry.name \in argv
  <2>1. UNCHANGED <<disk, pakfil, hasPak, out, cmd, argv, encrypt, pakPast>>
    BY <1>1, <1>4 DEF pakSame
  <2>2. entry \in Nat /\ pakfil \in Seq(Entries)
    BY DEF PakInv, PakType
  <2>3. PakType'
    BY <1>1, <2>1, <2>2 DEF PakInv, PakType, pakPast
  <2>4. DatesInv' /\ ScrambledOnce' /\ EmptyInv'
    BY <2>1 DEF PakInv, DatesInv, NoneNewer, ScrambledOnce, EmptyInv, pakPast
  <2>5. NothingLost' /\ CopiesInv'
    <3>1. \A n \in Names : Safe(n)' = Safe(n) /\ Holds(out, n)' = Holds(out, n)
      BY <2>1 DEF Safe, Holds, pakPast
    <3>2. NothingLost'
      BY <2>1, <3>1 DEF PakInv, NothingLost, pakPast
    <3>3. CopiesInv'
      BY <2>1, <3>1 DEF PakInv, CopiesInv, Deletes, pakPast
    <3> QED BY <3>2, <3>3
  <2>6. ASSUME NEW k \in DOMAIN pakfil, k < entry + 1, pakfil[k].name \notin Excused,
               pakfil[k].date = latest[pakfil[k].name]
        PROVE  disk[pakfil[k].name].date = pakfil[k].date \/ Holds(out, pakfil[k].name)
    <3>1. CASE k = entry
      BY <1>1, <1>4, <2>6, <3>1 DEF NextEntry, PakInv, PassedInv, Excused
    <3>2. CASE k # entry
      <4>1. k < entry
        BY <3>2, <2>2, <2>6
      <4>2. cmd \in Writes
        BY <1>1 DEF Writes
      <4> QED BY <4>1, <4>2, <2>6 DEF PakInv, PassedInv
    <3> QED BY <3>1, <3>2
  <2>7. PassedInv'
    <3>1. /\ cmd' = "d" /\ entry' # 0 /\ entry' = entry + 1
          /\ \A n \in argv' : n \in tossed' \/ disk'[n].date = latest'[n]
      BY <1>1, <2>1, <2>2 DEF PakInv, PassedInv, pakPast
    <3> QED BY <3>1, <2>1, <2>6 DEF PassedInv, Holds, Excused, pakPast
  <2> QED BY <2>3, <2>4, <2>5, <2>7 DEF PakInv
<1> QED BY <1>3, <1>4

(* writnfile writes a file of the disk and may delete it there.            *)
LEMMA WrittenFile ==
  ASSUME PakInv, NEW n \in Names, writnfile(n)
  PROVE  LET e == Copied(Entry(n)) IN
         /\ out' = Append(out, e) /\ disk' \in [Names -> Files] /\ (~Deletes => disk' = disk)
         /\ ~Deletes => disk' = disk
        /\ \A x \in Names : disk'[x] = disk[x]
                             \/ (disk'[x] = NoFile /\ x = e.name /\ e.date = disk[x].date)
<1>1. NoFile \in Files /\ disk \in [Names -> Files]
  BY DEF NoFile, Files, PakInv, PakType
<1>2. /\ out' = Append(out, Copied(Entry(n))) /\ (disk' = disk \/ disk' = [disk EXCEPT ![n] = NoFile])
      /\ ~Deletes => disk' = disk
  BY DEF writnfile
<1> QED BY <1>1, <1>2, CopiedFile

LEMMA UpdateKeeps == PakInv /\ updatfile => PakInv'
<1> SUFFICES ASSUME PakInv, updatfile PROVE PakInv'
  OBVIOUS
<1>1. cmd \in {"b", "u"} /\ MoreEntries /\ entry' = entry + 1 /\ argv' = argv /\ pakSame' = pakSame
  BY DEF updatfile
<1>2. /\ entry \in DOMAIN pakfil /\ NextEntry \in Entries
      /\ NextEntry.date <= latest[NextEntry.name] /\ NextEntry.scrambled = encrypt
  BY <1>1, KeptEntry DEF Kept
<1>3. NextEntry.date \in Nat /\ NextEntry.name \in Names
  BY <1>2 DEF Entries
<1>4. cmd # "r" /\ argv' \subseteq argv /\ disk \in [Names -> Files]
  BY <1>1 DEF PakInv, PakType
<1>5. CASE UpToDate(NextEntry) /\ writnfile(NextEntry.name)
  <2> DEFINE e == Copied(Entry(NextEntry.name))
  <2>1. /\ e \in Entries /\ e.name = NextEntry.name /\ e.date = disk[NextEntry.name].date
        /\ e.date <= latest[e.name] /\ e.scrambled = encrypt
    BY <1>3, CopiedFile
  <2>2. /\ out' = Append(out, e) /\ disk' \in [Names -> Files]
        /\ ~Deletes => disk' = disk
        /\ \A x \in Names : disk'[x] = disk[x]
                            \/ (disk'[x] = NoFile /\ x = e.name /\ e.date = disk[x].date)
    BY <1>3, <1>5, WrittenFile
  <2>3. e.name = pakfil[entry].name /\ e.date >= pakfil[entry].date
    BY <1>5, <2>1 DEF UpToDate, NextEntry
  <2> HIDE DEF e
  <2> QED BY <1>1, <1>2, <1>4, <2>1, <2>2, <2>3, WritingKeeps
<1>6. CASE out' = Append(out, Kept(NextEntry)) /\ UNCHANGED disk
  <2>1. out' = Append(out, NextEntry) /\ disk' = disk
    BY <1>6 DEF Kept
  <2>2. NextEntry.date >= NextEntry.date
    BY <1>3
  <2>3. NextEntry.name = pakfil[entry].name /\ NextEntry.date >= pakfil[entry].date
        /\ NextEntry \in {pakfil[k] : k \in DOMAIN pakfil}
    BY <1>2, <2>2 DEF NextEntry
  <2> QED BY <1>1, <1>2, <1>4, <2>1, <2>3, WritingKeeps
<1> QED BY <1>5, <1>6 DEF updatfile

LEMMA WriteKeeps == PakInv /\ writefile => PakInv'
<1> SUFFICES ASSUME PakInv, writefile PROVE PakInv'
  OBVIOUS
<1>1. PICK n \in argv : argv' = argv \ {n} /\ (writnfile(n) \/ UNCHANGED <<out, disk>>)
  BY DEF writefile
<1>2. /\ cmd \in {"c", "m", "b", "u"} /\ entry' = entry /\ pakSame' = pakSame /\ argv' \subseteq argv
      /\ n \in Names
  BY <1>1 DEF writefile, PakInv, PakType
<1>3. CASE writnfile(n)
  <2> DEFINE e == Copied(Entry(n))
  <2>1. /\ e \in Entries /\ e.name = n /\ e.date = disk[n].date /\ e.date <= latest[e.name] /\ e.scrambled = encrypt
    BY <1>2, CopiedFile
  <2>2. /\ out' = Append(out, e) /\ disk' \in [Names -> Files]
        /\ ~Deletes => disk' = disk
        /\ \A x \in Names : disk'[x] = disk[x]
                            \/ (disk'[x] = NoFile /\ x = e.name /\ e.date = disk[x].date)
    BY <1>2, <1>3, WrittenFile
  <2>3. cmd # "r"
    BY <1>2
  <2> HIDE DEF e
  <2> QED BY <1>2, <2>1, <2>2, <2>3, WritingKeeps
<1>4. CASE UNCHANGED <<out, disk>>
  <2>1. UNCHANGED <<disk, pakfil, hasPak, out, cmd, entry, encrypt, pakPast>>
    BY <1>2, <1>4 DEF pakSame
  <2>2. PakType' /\ DatesInv' /\ ScrambledOnce' /\ EmptyInv'
    BY <1>2, <2>1 DEF PakInv, PakType, DatesInv, NoneNewer, ScrambledOnce, EmptyInv, pakPast
  <2>3. NothingLost' /\ CopiesInv'
    <3>1. \A x \in Names : Safe(x)' = Safe(x) /\ Holds(out, x)' = Holds(out, x)
      BY <2>1 DEF Safe, Holds, pakPast
    <3>2. NothingLost'
      BY <2>1, <3>1 DEF PakInv, NothingLost, pakPast
    <3>3. CopiesInv'
      BY <2>1, <3>1 DEF PakInv, CopiesInv, Deletes, pakPast
    <3> QED BY <3>2, <3>3
  <2>4. PassedInv'
    BY <1>2, <2>1 DEF PakInv, PassedInv, Holds, Excused, pakPast
  <2> QED BY <2>2, <2>3, <2>4 DEF PakInv
<1> QED BY <1>1, <1>3, <1>4

LEMMA CloseKeeps == PakInv /\ closwrite => PakInv'
<1> SUFFICES ASSUME PakInv, closwrite PROVE PakInv'
  OBVIOUS
<1>1. /\ cmd # "idle" /\ ~MoreEntries /\ cmd' = "idle" /\ argv' = {} /\ entry' = 0
      /\ UNCHANGED <<disk, encrypt, latest, tossed, overwritten, halfMoved>>
  BY DEF closwrite, pakPast
<1>2. CASE cmd \in Writes
  <2>1. pakfil' = out /\ hasPak' = TRUE /\ out' = <<>>
    BY <1>2 DEF closwrite
  <2>2. pakfil \in Seq(Entries) /\ out \in Seq(Entries) /\ entry \in Nat
    BY DEF PakInv, PakType
  <2>3. \A k \in DOMAIN pakfil : k < entry
    BY <1>1, <2>2 DEF MoreEntries
  <2>4. PakType'
    <3>1. <<>> \in Seq(Entries)
      OBVIOUS
    <3>2. hasPak' \in BOOLEAN /\ cmd' \in {"idle", "r"} \union Writes /\ argv' \in SUBSET Names /\ entry' \in Nat
      BY <1>1, <2>1
    <3> QED BY <1>1, <2>1, <2>2, <3>1, <3>2 DEF PakInv, PakType
  <2>5. DatesInv' /\ ScrambledOnce' /\ EmptyInv'
    BY <1>1, <2>1 DEF PakInv, DatesInv, NoneNewer, ScrambledOnce, EmptyInv
  <2>6. NothingLost'
    <3> SUFFICES ASSUME NEW x \in Names, x \notin Excused
                 PROVE  latest[x] = 0 \/ disk[x].date = latest[x] \/ Holds(pakfil, x)'
      BY <1>1 DEF NothingLost, Safe, Excused
    <3>1. latest[x] = 0 \/ disk[x].date = latest[x] \/ Holds(pakfil, x) \/ Holds(out, x)
      BY DEF PakInv, NothingLost, Safe, Excused
    <3>2. CASE Holds(out, x)
      BY <3>2, <1>1, <2>1 DEF Holds
    <3>3. CASE Holds(pakfil, x)
      <4>1. PICK k \in DOMAIN pakfil : pakfil[k].name = x /\ pakfil[k].date = latest[x]
        BY <3>3 DEF Holds
      <4>2. k < entry
        BY <2>3
      <4>3. disk[pakfil[k].name].date = pakfil[k].date \/ Holds(out, pakfil[k].name)
        BY <1>2, <4>1, <4>2 DEF PakInv, PassedInv
      <4> QED BY <4>1, <4>3, <3>2
    <3> QED BY <3>1, <3>2, <3>3
  <2>6a. CopiesInv'
    <3>1. \A n \in Names : ~Holds(out, n)'
      BY <2>1 DEF Holds
    <3> QED BY <3>1 DEF CopiesInv
  <2>7. PassedInv'
    BY <1>1 DEF PassedInv, Writes
  <2> QED BY <2>4, <2>5, <2>6, <2>6a, <2>7 DEF PakInv
<1>3. CASE cmd \notin Writes
  <2>1. UNCHANGED <<pakfil, hasPak, out>>
    BY <1>3 DEF closwrite
  <2>2. halfMoved' = (halfMoved \/ Deletes)
    BY <1>1, <1>3 DEF Deletes, Writes, PakInv, PakType
  <2> QED BY <1>1, <2>1, <2>2, IdleKeeps
<1> QED BY <1>2, <1>3

LEMMA PakInvNext == PakInv /\ [PakNext]_pakVars => PakInv'
<1> SUFFICES ASSUME PakInv, [PakNext]_pakVars PROVE PakInv'
  OBVIOUS
<1>1. CASE stopPak
  BY <1>1, IdleKeeps DEF stopPak
<1>2. CASE UNCHANGED pakVars
  <2>1. PakType' /\ DatesInv' /\ ScrambledOnce' /\ EmptyInv'
    BY <1>2 DEF pakVars, pakPast, PakInv, PakType, DatesInv, NoneNewer, ScrambledOnce, EmptyInv
  <2>2. NothingLost' /\ CopiesInv'
    <3>1. \A x \in Names : Safe(x)' = Safe(x) /\ Holds(out, x)' = Holds(out, x)
      BY <1>2 DEF Safe, Holds, pakVars, pakPast
    <3>2. NothingLost'
      BY <1>2, <3>1 DEF PakInv, NothingLost, pakVars, pakPast
    <3>3. CopiesInv'
      BY <1>2, <3>1 DEF PakInv, CopiesInv, Deletes, pakVars, pakPast
    <3> QED BY <3>2, <3>3
  <2>3. PassedInv'
    BY <1>2 DEF pakVars, pakPast, PakInv, PassedInv, Holds, Excused
  <2> QED BY <2>1, <2>2, <2>3 DEF PakInv
<1> QED BY <1>1, <1>2, StartKeeps, ReadKeeps, DeleteKeeps, UpdateKeeps, WriteKeeps, CloseKeeps, UserKeeps
        DEF PakNext

(* A pack that is complete has for each entry of the old one a file as new.*)
LEMMA UpdateStep ==
  ASSUME PakInv, [PakNext]_pakVars, cmd \in {"b", "u"}, pakfil' # pakfil
  PROVE  UpToDateWith(pakfil', pakfil)
<1>1. ~MoreEntries /\ cmd \in Writes /\ closwrite
  <2>1. closwrite
    BY DEF PakNext, pakVars, pakPast, startPak, readfile, deltc, updatfile, writefile, stopPak, userWrites, pakSame
  <2> QED BY <2>1 DEF closwrite, Writes
<1>2. pakfil' = out
  BY <1>1 DEF closwrite
<1>3. \A k \in DOMAIN pakfil : k < entry
  BY <1>1 DEF PakInv, PakType, MoreEntries
<1>4. UpToDateWith(out, pakfil)
  BY <1>3 DEF PakInv, PassedInv, UpToDateWith
<1> QED BY <1>2, <1>4

(* An r command that ends has passed every entry of the pack.              *)
LEMMA RetrieveStep ==
  ASSUME PakInv, cmd = "r", ~MoreEntries, NEW n \in argv
  PROVE  Retrieved(n)
<1>1. \A k \in DOMAIN pakfil : k < entry
  BY DEF PakInv, PakType, MoreEntries
<1> QED BY <1>1 DEF PakInv, PassedInv, Retrieved

(* Only a new pack that holds what is nowhere else is a loss when a        *)
(* command writes over it.                                                 *)
LEMMA OverwriteStep ==
  ASSUME PakInv, [PakNext]_pakVars, ~(overwritten' \subseteq overwritten)
  PROVE  halfMoved /\ cmd = "idle" /\ cmd' \in Writes
<1>1. startPak
  BY DEF PakNext, pakVars, pakPast, readfile, deltc, updatfile, writefile, closwrite, stopPak, userWrites, pakSame
<1>2. cmd = "idle" /\ cmd' \in Writes
  BY <1>1 DEF startPak
<1>3. \E n \in Names : Holds(out, n) /\ ~Safe(n)
  BY <1>1 DEF startPak
<1> QED BY <1>2, <1>3 DEF PakInv, CopiesInv, Deletes

(* For any names, dates and packs: the last version of a file that the     *)
(* user did not delete is on the disk, in the pack or in the new pack,     *)
(* also when commands are stopped, until a command writes its new pack     *)
(* over that of a stopped m or u, which is the only loss; an entry is      *)
(* scrambled once, r leaves the newest version that could be opened of     *)
(* what it is asked for, and b and u leave nothing out (ipak.c).           *)
THEOREM PacksAlways == PakSpec => PacksKept
<1>1. PakSpec => []PakInv
  BY PakInvInit, PakInvNext, PTL DEF PakSpec
<1>2. PakInv => NothingLost /\ ScrambledOnce
  BY DEF PakInv
<1>3. PakInv /\ [PakNext]_pakVars
        => [cmd = "r" /\ ~MoreEntries /\ cmd' = "idle" => \A n \in argv : Retrieved(n)]_pakVars
  BY RetrieveStep
<1>3a. PakInv /\ [PakNext]_pakVars
        => [overwritten' \subseteq overwritten \/ (halfMoved /\ cmd = "idle" /\ cmd' \in Writes)]_pakVars
  BY OverwriteStep
<1>4. PakInv /\ [PakNext]_pakVars
        => [(cmd \in {"b", "u"} /\ pakfil' # pakfil) => UpToDateWith(pakfil', pakfil)]_pakVars
  BY UpdateStep
<1> QED BY <1>1, <1>2, <1>3, <1>3a, <1>4, PTL
        DEF PakSpec, PacksKept, LostHalfMoved, RetrievesNewest, UpdateKeepsAll
=============================================================================
