----------------------------- MODULE Pclsr_proofs -----------------------------
(* Proofs about Pclsr, for any number of jobs and any set of switches. *)
EXTENDS Pclsr, FiniteSetTheorems, TLAPS

-----------------------------------------------------------------------------
(* Types.                                                                   *)

\* The values of RPCL: 0, and a job with either sign.
LEMMA RpclRange ==
  /\ 0 \in -NJobs..NJobs
  /\ \A j \in Job : j \in -NJobs..NJobs /\ -j \in -NJobs..NJobs
  /\ \A r \in -NJobs..NJobs : r \in Int /\ (r > 0 => r \in Job)
                                         /\ (r < 0 => -r \in Job)
BY PclsrAssumption DEF Job

\* Both results of PCLSR that do not crash leave values of the right kinds.
LEMMA CountedType ==
  ASSUME TypeOK, NEW n, NEW S
  PROVE  Counted(n, S) \in [Job -> Int]
BY DEF TypeOK, Counted

\* Types after a job is thrown out of its call.
LEMMA ThrownOutType ==
  ASSUME TypeOK, NEW u \in Job, ThrownOut(u)
  PROVE  /\ swpcl' \in [Job -> BOOLEAN]
         /\ sw' \in [Switch -> BOOLEAN]
         /\ held' \in [Job -> SUBSET Switch]
         /\ ust' \in [Job -> SUBSET Job]
         /\ want' \in [Job -> Switch \cup {NoSwitch}]
BY DEF TypeOK, ThrownOut

\* Types after PCLSR backs a job out.
LEMMA PclsrWinsType ==
  ASSUME TypeOK, NEW u \in Job, PclsrWins(u)
  PROVE  /\ rpcl' \in [Job -> -NJobs..NJobs]
         /\ suexit' \in [Job -> Exits]
         /\ flsins' \in [Job -> Waits]
         /\ swpcl' \in [Job -> BOOLEAN]
         /\ sw' \in [Switch -> BOOLEAN]
         /\ held' \in [Job -> SUBSET Switch]
         /\ ust' \in [Job -> SUBSET Job]
         /\ want' \in [Job -> Switch \cup {NoSwitch}]
<1>1. rpcl' \in [Job -> -NJobs..NJobs]
  BY RpclRange DEF TypeOK, PclsrWins, RpclAfter
<1>2. suexit' \in [Job -> Exits] /\ flsins' \in [Job -> Waits]
  BY DEF TypeOK, PclsrWins, Exits, Waits
<1> QED BY <1>1, <1>2, ThrownOutType DEF PclsrWins, TypeOK, call

\* Types of what PCLSR leaves in RPCL and SUEXIT.
LEMMA PclsrTypes ==
  ASSUME TypeOK, NEW u \in Job
  PROVE  /\ RpclAfter(u) \in [Job -> -NJobs..NJobs]
         /\ ExitsAfterFailure(u) \in [Job -> Exits]
         /\ PcAfter(u) \in [Job -> Places]
         /\ TgtAfter(u) \in [Job -> Job]
<1>1. RpclAfter(u) \in [Job -> -NJobs..NJobs]
  BY RpclRange DEF TypeOK, RpclAfter
<1>2. ExitsAfterFailure(u) \in [Job -> Exits]
  BY DEF TypeOK, ExitsAfterFailure, Exits
<1>3. PcAfter(u) \in [Job -> Places] /\ TgtAfter(u) \in [Job -> Job]
  BY DEF TypeOK, PcAfter, TgtAfter, Places
<1> QED BY <1>1, <1>2, <1>3

\* Types after PCLSR from clock level.
LEMMA ClockPclsrType ==
  ASSUME TypeOK, NEW u \in Job, ClockPclsr(u) PROVE TypeOK'
<1>1. CASE PclsrFails(u) /\ suexit' = ExitsAfterFailure(u)
           /\ rpcl' = RpclAfter(u)
           /\ UNCHANGED <<pc, flsins, ustp, busrc, call, tgt, halted>>
  BY <1>1, PclsrTypes DEF TypeOK, call
<1>2. CASE halted' = TRUE
           /\ UNCHANGED <<pc, suexit, flsins, rpcl, ustp, busrc, call, tgt>>
  BY <1>2 DEF TypeOK, call
<1>3. CASE PclsrWins(u) /\ pc' = PcAfter(u) /\ tgt' = TgtAfter(u)
           /\ ustp' = Counted(0, UstAfter(u)) /\ UNCHANGED <<busrc, halted>>
  BY <1>3, PclsrWinsType, PclsrTypes, CountedType DEF TypeOK
<1> QED BY <1>1, <1>2, <1>3 DEF ClockPclsr

\* Types after a job lets another stop it.
LEMMA SurrenderType ==
  ASSUME TypeOK, NEW j \in Job, NEW exits \in [Job -> Exits],
         Surrender(j, exits), UNCHANGED busrc
  PROVE  TypeOK'
<1> USE DEF Surrender, StopSelf
<1>1. ustp' \in [Job -> Int]
  BY CountedType
<1>2. suexit' \in [Job -> Exits]
  BY DEF Exits
<1>3. pc' \in [Job -> Places] /\ flsins' \in [Job -> Waits]
  BY DEF TypeOK, Places, Waits
<1>4. rpcl' \in [Job -> -NJobs..NJobs]
  BY RpclRange DEF TypeOK
<1>5. tgt' \in [Job -> Job] /\ halted' \in BOOLEAN
  BY DEF TypeOK
<1> QED BY <1>1, <1>2, <1>3, <1>4, <1>5, ThrownOutType DEF TypeOK

\* Types after UFLS.
LEMMA UflsType ==
  ASSUME TypeOK, NEW j \in Job, NEW w \in Waits, NEW p \in Places,
         NEW s \in Switch \cup {NoSwitch}, Ufls(j, w, p, s), UNCHANGED busrc
  PROVE  TypeOK'
<1>1. CASE rpcl[j] < 0
  BY <1>1, SurrenderType DEF Ufls, TypeOK
<1>2. CASE ~(rpcl[j] < 0)
  <2>1. /\ pc' = [pc EXCEPT ![j] = p] /\ flsins' = [flsins EXCEPT ![j] = w]
        /\ want' = [want EXCEPT ![j] = s]
        /\ UNCHANGED <<suexit, rpcl, ustp, swpcl, sw, held, ust, tgt, halted>>
    BY <1>2 DEF Ufls
  <2> QED BY <2>1 DEF TypeOK
<1> QED BY <1>1, <1>2

\* Types at system start.
LEMMA TypeInit == Init => TypeOK
<1> SUFFICES ASSUME Init PROVE TypeOK
  OBVIOUS
<1> USE DEF Init
<1>1. rpcl \in [Job -> -NJobs..NJobs]
  BY RpclRange
<1>2. pc \in [Job -> Places] /\ suexit \in [Job -> Exits]
      /\ flsins \in [Job -> Waits]
  BY DEF Places, Exits, Waits
<1>3. ustp \in [Job -> Int] /\ busrc \in [Job -> BOOLEAN]
      /\ swpcl \in [Job -> BOOLEAN] /\ sw \in [Switch -> BOOLEAN]
  OBVIOUS
<1>4. held \in [Job -> SUBSET Switch] /\ ust \in [Job -> SUBSET Job]
  OBVIOUS
<1>5. want \in [Job -> Switch \cup {NoSwitch}]
  OBVIOUS
<1>6. tgt \in [Job -> Job] /\ halted \in BOOLEAN
  OBVIOUS
<1> QED BY <1>1, <1>2, <1>3, <1>4, <1>5, <1>6 DEF TypeOK

\* Types after a step of a job.
LEMMA TypeJobStep ==
  ASSUME TypeOK, PlacesConsistent, NEW j \in Job, JobStep(j) PROVE TypeOK'
<1>1. ASSUME UUOH(j) PROVE TypeOK'
  BY <1>1 DEF UUOH, TypeOK, call, Places, Exits
<1>2. ASSUME Hang(j) PROVE TypeOK'
  BY <1>2, UflsType DEF Hang, Places, Waits
<1>3. ASSUME PageFault(j) PROVE TypeOK'
  <2>1. CASE rpcl[j] < 0 /\ pc[j] = "user"
    BY <1>3, <2>1 DEF PageFault, TypeOK, call
  <2>2. CASE ~(rpcl[j] < 0 /\ pc[j] = "user")
    BY <1>3, <2>2, UflsType DEF PageFault, Places, Waits
  <2> QED BY <2>1, <2>2
<1>4. ASSUME Exit(j) PROVE TypeOK'
  <2>1. CASE suexit[j] = "uuoh" \/ rpcl[j] = 0
    BY <1>4, <2>1 DEF Exit, TypeOK, Places, Exits
  <2>2. CASE ~(suexit[j] = "uuoh" \/ rpcl[j] = 0) /\ rpcl[j] > 0
    BY <1>4, <2>2 DEF Exit, TypeOK, Exits
  <2>3. CASE StopSelf(j) /\ ustp' = Counted(j, {})
    <3>1. pc' \in [Job -> Places] /\ flsins' \in [Job -> Waits]
      BY <2>3 DEF StopSelf, TypeOK, Places, Waits
    <3>3. rpcl' \in [Job -> -NJobs..NJobs] /\ halted' \in BOOLEAN
      BY <2>3, RpclRange DEF StopSelf, TypeOK
    <3>2. suexit' \in [Job -> Exits] /\ ustp' \in [Job -> Int]
      BY <1>4, <2>3, CountedType DEF Exit, TypeOK, Exits
    <3> QED BY <1>4, <3>1, <3>2, <3>3 DEF Exit, TypeOK
  <2> QED BY <1>4, <2>1, <2>2, <2>3 DEF Exit
<1>5. ASSUME NEW s \in Switch, SWTL(j, s) PROVE TypeOK'
  <2>1. CASE sw[s]
    BY <1>5, <2>1, UflsType DEF SWTL, Places, Waits
  <2>2. CASE ~sw[s]
    BY <1>5, <2>2 DEF SWTL, TypeOK, Places
  <2> QED BY <2>1, <2>2
<1>6. ASSUME SWTL1(j) PROVE TypeOK'
  <2>1. CASE sw[want[j]]
    BY <1>6, <2>1, UflsType DEF SWTL1, TypeOK, Places, Waits
  <2>2. CASE ~sw[want[j]]
    <3>1. want[j] \in Switch
      BY <1>6 DEF SWTL1, PlacesConsistent
    <3>2. want' \in [Job -> Switch \cup {NoSwitch}]
      BY <1>6, <2>2 DEF SWTL1, TypeOK
    <3>3. sw' \in [Switch -> BOOLEAN]
      BY <1>6, <2>2, <3>1 DEF SWTL1, TypeOK
    <3>5. held' \in [Job -> SUBSET Switch]
      <4>1. held[j] \cup {want[j]} \in SUBSET Switch
        BY <3>1 DEF TypeOK
      <4> QED BY <1>6, <2>2, <4>1 DEF SWTL1, TypeOK
    <3>4. pc' \in [Job -> Places]
      BY <1>6, <2>2 DEF SWTL1, TypeOK, Places
    <3> QED BY <1>6, <2>2, <3>2, <3>3, <3>4, <3>5 DEF SWTL1, TypeOK
  <2> QED BY <2>1, <2>2
<1>7. ASSUME LSWPOP(j) PROVE TypeOK'
  BY <1>7 DEF LSWPOP, TypeOK
<1>8. ASSUME LSWPOPStop(j) PROVE TypeOK'
  BY <1>8, CountedType DEF LSWPOPStop, TypeOK
<1>9. ASSUME NEW b \in Job, RPCLSR(j, b) PROVE TypeOK'
  <2>1. CASE StopNow(j, b)
    BY <1>9, <2>1, PclsrWinsType, PclsrTypes, CountedType
       DEF RPCLSR, StopNow, TypeOK, Places
  <2>2. CASE RPCLOS(j, b)
    <3>1. CASE Surrender(j, ExitsAfterFailure(b))
      BY <1>9, <3>1, PclsrTypes, SurrenderType DEF RPCLSR
    <3>2. CASE halted' = TRUE
               /\ UNCHANGED <<pc, suexit, flsins, rpcl, ustp, call, tgt>>
      BY <1>9, <3>2 DEF RPCLSR, TypeOK, call
    <3>3. CASE \E w \in {"rpclos", "rpcls2"} :
                 /\ flsins' = [flsins EXCEPT ![j] = w]
                 /\ pc' = [pc EXCEPT ![j] = w]
                 /\ tgt' = [tgt EXCEPT ![j] = b]
                 /\ \/ rpcl' = RpclAfter(b)
                    \/ rpcl' = [RpclAfter(b) EXCEPT ![b] = -j, ![j] = b]
                 /\ suexit' = ExitsAfterFailure(b)
                 /\ UNCHANGED <<ustp, call, halted>>
      <4>1. rpcl' \in [Job -> -NJobs..NJobs]
        <5>1. RpclAfter(b) \in [Job -> -NJobs..NJobs]
          BY PclsrTypes
        <5>2. [RpclAfter(b) EXCEPT ![b] = -j, ![j] = b]
                \in [Job -> -NJobs..NJobs]
          BY <5>1, RpclRange
        <5> QED BY <3>3, <5>1, <5>2
      <4>2. pc' \in [Job -> Places] /\ flsins' \in [Job -> Waits]
        BY <3>3 DEF TypeOK, Places, Waits
      <4> QED BY <1>9, <3>3, <4>1, <4>2, PclsrTypes DEF RPCLSR, TypeOK, call
    <3> QED BY <2>2, <3>1, <3>2, <3>3 DEF RPCLOS
  <2>3. CASE /\ halted' = TRUE
             /\ UNCHANGED <<pc, suexit, flsins, rpcl, ustp, call, tgt>>
    BY <1>9, <2>3 DEF RPCLSR, TypeOK, call
  <2> QED BY <1>9, <2>1, <2>2, <2>3 DEF RPCLSR
<1>10. ASSUME UPCLSR(j) PROVE TypeOK'
  BY <1>10, CountedType DEF UPCLSR, TypeOK, call, Places
<1>11. ASSUME SOSSET(j) PROVE TypeOK'
  BY <1>11 DEF SOSSET, TypeOK, Places
<1> QED BY <1>1, <1>2, <1>3, <1>4, <1>5, <1>6, <1>7, <1>8, <1>9, <1>10, <1>11
        DEF JobStep

\* Types after a step at clock level.
LEMMA TypeClockStep ==
  ASSUME TypeOK, NEW j \in Job, ClockStep(j) PROVE TypeOK'
<1>1. ASSUME SCHED5(j) PROVE TypeOK'
  <2>1. CASE swpcl[j]
    BY <1>1, <2>1, ClockPclsrType DEF SCHED5
  <2>2. CASE ~swpcl[j]
    <3>1. Resumed(pc[j]) \in Places
      BY DEF Resumed, Places, TypeOK
    <3> QED BY <1>1, <2>2, <3>1 DEF SCHED5, TypeOK, Waits, call
  <2> QED BY <2>1, <2>2
<1>2. ASSUME Interrupt(j) PROVE TypeOK'
  BY <1>2, ClockPclsrType DEF Interrupt
<1>3. ASSUME FatalInterrupt(j) PROVE TypeOK'
  BY <1>3, PclsrWinsType, PclsrTypes, CountedType DEF FatalInterrupt, TypeOK
<1>4. ASSUME SwapOut(j) PROVE TypeOK'
  <2>1. CASE ~HasSwitches(j) /\ flsins[j] # "run"
    BY <1>4, <2>1 DEF SwapOut, TypeOK
  <2> QED BY <1>4, <2>1, ClockPclsrType DEF SwapOut
<1> QED BY <1>1, <1>2, <1>3, <1>4 DEF ClockStep

-----------------------------------------------------------------------------
(* Counting the stoppers of a job.                                          *)

\* The stoppers of a job are finite in number, and USTP counts them.
LEMMA StoppersCounted ==
  ASSUME Inv, NEW b \in Job
  PROVE  /\ IsFiniteSet(Stoppers(b))
         /\ ustp[b] \in Nat
         /\ ustp[b] = 0 <=> Stoppers(b) = {}
<1>1. IsFiniteSet(Job)
  BY PclsrAssumption, FS_Interval DEF Job
<1>2. Stoppers(b) \in SUBSET Job
  BY DEF Stoppers
<1>3. IsFiniteSet(Stoppers(b))
  BY <1>1, <1>2, FS_Subset
<1>4. ustp[b] = Cardinality(Stoppers(b))
  BY DEF Inv, Safe, StopsAccounted
<1> QED BY <1>3, <1>4, FS_CardinalityType, FS_EmptySet

\* The count stays right when one stopper comes, or one goes.
LEMMA Recount ==
  ASSUME Inv, NEW b \in Job, NEW j \in Job,
         \/ /\ ustp'[b] = ustp[b]
            /\ Stoppers(b)' = Stoppers(b)
         \/ /\ ustp'[b] = ustp[b] + 1 /\ j \notin Stoppers(b)
            /\ Stoppers(b)' = Stoppers(b) \cup {j}
         \/ /\ ustp'[b] = ustp[b] - 1 /\ j \in Stoppers(b)
            /\ Stoppers(b)' = Stoppers(b) \ {j}
  PROVE  ustp'[b] = Cardinality(Stoppers(b)')
<1>1. ustp[b] = Cardinality(Stoppers(b)) /\ IsFiniteSet(Stoppers(b))
  BY StoppersCounted DEF Inv, Safe, StopsAccounted
<1>2. Cardinality(Stoppers(b) \cup {j})
        = IF j \in Stoppers(b) THEN ustp[b] ELSE ustp[b] + 1
  BY <1>1, FS_AddElement
<1>3. Cardinality(Stoppers(b) \ {j})
        = IF j \in Stoppers(b) THEN ustp[b] - 1 ELSE ustp[b]
  BY <1>1, FS_RemoveElement
<1> QED BY <1>1, <1>2, <1>3

\* Nobody stops a job that is not stopped.
LEMMA RunningFacts ==
  ASSUME Inv, NEW j \in Job, ~Stopped(j)
  PROVE  ustp[j] = 0 /\ ~busrc[j] /\ Stoppers(j) = {}
BY StoppersCounted DEF Stopped

-----------------------------------------------------------------------------
(* The steps of a job that stop nobody and release nobody.                  *)

\* Entering a system call keeps the invariant.
LEMMA SafeUUOH ==
  ASSUME Inv, NEW j \in Job, UUOH(j) PROVE Safe'
<1> USE DEF UUOH, call, Inv, TypeOK, Safe
<1>1. /\ pc[j] = "user" /\ ~HasSwitches(j)
      /\ pc' = [pc EXCEPT ![j] = "exec"]
      /\ \/ suexit' = suexit
         \/ suexit' = [suexit EXCEPT ![j] = "onepr4"]
      /\ UNCHANGED <<flsins, rpcl, ustp, busrc, call, tgt, halted>>
  BY DEF PlacesConsistent
<1>2. ~Stopped(j)
  BY DEF CanRun
<1>3. NeverHalts'
  BY <1>1 DEF NeverHalts
<1>4. StoppedInUserMode'
  BY <1>1, <1>2 DEF StoppedInUserMode, Stopped, HasSwitches
<1>5. PlacesConsistent'
  BY <1>1 DEF PlacesConsistent, HasSwitches
<1>6. RpclPaired'
  BY <1>1 DEF RpclPaired, Stopped
<1>7. SwitchesAccounted'
  BY <1>1 DEF SwitchesAccounted
<1>8. StopsAccounted'
  <2>1. ASSUME NEW b \in Job PROVE Stoppers(b)' = Stoppers(b)
    BY <1>1 DEF Stoppers
  <2> QED BY <1>1, <2>1, Recount DEF StopsAccounted
<1> QED BY <1>3, <1>4, <1>5, <1>6, <1>7, <1>8

\* A job that hangs and is not being stopped.
LEMMA SafeHung ==
  ASSUME Inv, NEW j \in Job, CanRun(j), rpcl[j] >= 0,
         NEW w, NEW p, NEW s,
         \/ pc[j] = "user" /\ p = "user" /\ w = "event"
         \/ pc[j] = "exec" /\ p = "exec" /\ w = "event"
         \/ pc[j] \in {"exec", "swtl"} /\ p = "swtl" /\ w = "swtl"
            /\ s \in Switch,
         Ufls(j, w, p, s), UNCHANGED busrc
  PROVE  Safe'
<1> USE DEF Inv, TypeOK, Safe
<1>1. /\ flsins' = [flsins EXCEPT ![j] = w]
      /\ pc' = [pc EXCEPT ![j] = p]
      /\ want' = [want EXCEPT ![j] = s]
      /\ UNCHANGED <<suexit, rpcl, ustp, swpcl, sw, held, ust, tgt, halted>>
  BY DEF Ufls
<1>2. ~Stopped(j) /\ rpcl[j] = 0
  BY DEF CanRun, RpclPaired
<1>3. NeverHalts'
  BY <1>1 DEF NeverHalts
<1>4. StoppedInUserMode'
  BY <1>1, <1>2 DEF StoppedInUserMode, Stopped, HasSwitches
<1>5. PlacesConsistent'
  BY <1>1 DEF PlacesConsistent, HasSwitches
<1>6. RpclPaired'
  BY <1>1, <1>2 DEF RpclPaired, Stopped
<1>7. SwitchesAccounted'
  BY <1>1 DEF SwitchesAccounted
<1>8. StopsAccounted'
  <2>1. ASSUME NEW b \in Job PROVE Stoppers(b)' = Stoppers(b)
    BY <1>1 DEF Stoppers
  <2> QED BY <1>1, <2>1, Recount DEF StopsAccounted
<1> QED BY <1>3, <1>4, <1>5, <1>6, <1>7, <1>8

\* The words RPCL of a stopping and a stopped job.
LEMMA PairedFacts ==
  ASSUME Inv
  PROVE  \A k \in Job :
           /\ k \in Int /\ k > 0 /\ rpcl[k] \in Int
           /\ rpcl[k] > 0 => rpcl[k] \in Job /\ rpcl[rpcl[k]] = -k
           /\ rpcl[k] < 0 => -rpcl[k] \in Job /\ rpcl[-rpcl[k]] = k
<1>1. \A k \in Job : k \in Int /\ k > 0
  BY DEF Job
<1>2. \A k \in Job : rpcl[k] \in -NJobs..NJobs
  BY DEF Inv, TypeOK
<1> QED BY <1>1, <1>2, RpclRange DEF Inv, Safe, RpclPaired

-----------------------------------------------------------------------------
(* Backing a job out of its call.                                           *)

\* What PclsrWins does, in the same form for a job that was stopped, was in
\* user mode or was hung in a call: in the first two there is nothing to undo.
LEMMA PclsrWinsFacts ==
  ASSUME Inv, NEW u \in Job, PclsrWins(u)
  PROVE  /\ rpcl[u] >= 0 /\ pc[u] # "stop" /\ pc[u] # "rpclsr"
         /\ rpcl' = [k \in Job |-> IF k = u \/ k = rpcl[u] THEN 0 ELSE rpcl[k]]
         /\ flsins' = [flsins EXCEPT ![u] = "run"]
         /\ suexit' = [suexit EXCEPT ![u] = "uuoh"]
         /\ PcAfter(u) = [pc EXCEPT ![u] = "user"]
         /\ TgtAfter(u) = [tgt EXCEPT ![u] = u]
         /\ UstAfter(u) = ust[u]
         /\ sw' = [s \in Switch |-> sw[s] /\ s \notin held[u]]
         /\ held' = [held EXCEPT ![u] = {}]
         /\ ust' = [ust EXCEPT ![u] = {}]
         /\ \A k \in Job : k # u => want'[k] = want[k]
<1> USE DEF Inv, TypeOK
<1>1. CASE Stopped(u)
  <2>1. /\ pc[u] = "user" /\ flsins[u] = "run" /\ held[u] = {} /\ ust[u] = {}
        /\ suexit[u] = "uuoh" /\ tgt[u] = u
    BY <1>1 DEF Safe, StoppedInUserMode, PlacesConsistent, HasSwitches
  <2>2. rpcl[u] = 0
    BY <1>1, <2>1 DEF Safe, RpclPaired
  <2>3. UNCHANGED <<rpcl, flsins, suexit, sw, held, ust, want>>
    BY <1>1 DEF PclsrWins, RpclAfter, MustBackOut, call
  <2>4. PcAfter(u) = pc /\ TgtAfter(u) = tgt /\ UstAfter(u) = {}
    BY <1>1 DEF PcAfter, TgtAfter, UstAfter, MustBackOut
  <2>5. rpcl' = [k \in Job |-> IF k = u \/ k = rpcl[u] THEN 0 ELSE rpcl[k]]
    BY <2>2, <2>3, PairedFacts
  <2>6. sw' = [s \in Switch |-> sw[s] /\ s \notin held[u]]
    BY <2>1, <2>3
  <2> QED BY <2>1, <2>2, <2>3, <2>4, <2>5, <2>6
<1>2. CASE ~Stopped(u)
  <2>1. /\ flsins' = [flsins EXCEPT ![u] = "run"]
        /\ suexit' = [suexit EXCEPT ![u] = "uuoh"]
        /\ pc[u] # "user" => flsins[u] # "run"
    BY <1>2 DEF PclsrWins, PclsrFails
  <2>2. pc[u] # "stop" /\ pc[u] # "rpclsr" /\ rpcl[u] >= 0
    BY <1>2, <2>1, RpclRange DEF Safe, PlacesConsistent, RpclPaired
  <2>3. rpcl' = [k \in Job |-> IF k = u \/ k = rpcl[u] THEN 0 ELSE rpcl[k]]
    <3>1. CASE rpcl[u] > 0
      BY <1>2, <3>1, RpclRange DEF PclsrWins, RpclAfter
    <3>2. CASE rpcl[u] = 0
      BY <1>2, <3>2 DEF PclsrWins, RpclAfter, Job
    <3> QED BY <2>2, <3>1, <3>2, RpclRange
  <2>4. CASE pc[u] = "user"
    <3>1. held[u] = {} /\ ust[u] = {} /\ tgt[u] = u
      BY <2>4 DEF Safe, PlacesConsistent, HasSwitches
    <3>2. UNCHANGED <<sw, held, ust, want>>
      BY <2>4 DEF PclsrWins, MustBackOut, call
    <3>3. PcAfter(u) = pc /\ TgtAfter(u) = tgt /\ UstAfter(u) = {}
      BY <2>4 DEF PcAfter, TgtAfter, UstAfter, MustBackOut
    <3>4. sw' = [s \in Switch |-> sw[s] /\ s \notin held[u]]
      BY <3>1, <3>2
    <3> QED BY <2>1, <2>2, <2>3, <2>4, <3>1, <3>2, <3>3, <3>4
  <2>5. CASE pc[u] # "user"
    <3>1. MustBackOut(u) /\ ThrownOut(u)
      BY <1>2, <2>5 DEF PclsrWins, MustBackOut
    <3> QED BY <2>1, <2>2, <2>3, <3>1
            DEF ThrownOut, PcAfter, TgtAfter, UstAfter
  <2> QED BY <2>4, <2>5
<1> QED BY <1>1, <1>2

\* A job is backed out, and may be left stopped for its superior.
LEMMA SafeBackOut ==
  ASSUME Inv, NEW u \in Job, PclsrWins(u),
         pc' = PcAfter(u), tgt' = TgtAfter(u), ustp' = Counted(0, UstAfter(u)),
         busrc' \in [Job -> BOOLEAN],
         \A k \in Job : k # u => busrc'[k] = busrc[k],
         UNCHANGED halted
  PROVE  Safe'
<1> USE DEF Inv, TypeOK
<1>1. /\ rpcl[u] >= 0 /\ pc[u] # "stop"
      /\ rpcl' = [k \in Job |-> IF k = u \/ k = rpcl[u] THEN 0 ELSE rpcl[k]]
      /\ flsins' = [flsins EXCEPT ![u] = "run"]
      /\ suexit' = [suexit EXCEPT ![u] = "uuoh"]
      /\ pc' = [pc EXCEPT ![u] = "user"]
      /\ tgt' = [tgt EXCEPT ![u] = u]
      /\ sw' = [s \in Switch |-> sw[s] /\ s \notin held[u]]
      /\ held' = [held EXCEPT ![u] = {}]
      /\ ust' = [ust EXCEPT ![u] = {}]
      /\ \A k \in Job : k # u => want'[k] = want[k]
  BY PclsrWinsFacts
<1>2. \A k \in Job : ustp'[k] = ustp[k] - (IF k \in ust[u] THEN 1 ELSE 0)
  BY PclsrWinsFacts, PairedFacts DEF Counted
<1>3. u \notin ust[u]
  BY DEF Safe, PlacesConsistent
<1>4. \A k \in Job : k \in ust[u] => ustp[k] # 0
  BY StoppersCounted DEF Stoppers
<1>5. \A k \in Job : k # u /\ Stopped(k)' => Stopped(k)
  BY <1>2, <1>4 DEF Stopped
<1>6. NeverHalts'
  BY DEF Safe, NeverHalts
<1>7. StoppedInUserMode'
  BY <1>1, <1>5 DEF Safe, StoppedInUserMode, HasSwitches
<1>8. PlacesConsistent'
  <2>1. ASSUME NEW k \in Job, pc[k] = "rpclos", k # u PROVE rpcl'[k] = rpcl[k]
    BY <1>1, <2>1, PairedFacts DEF Safe, PlacesConsistent
  <2> QED BY <1>1, <2>1 DEF Safe, PlacesConsistent, HasSwitches
<1>9. RpclPaired'
  <2>1. ASSUME NEW k \in Job, rpcl'[k] # 0
        PROVE  /\ rpcl'[k] = rpcl[k] /\ k # u /\ k # rpcl[u]
               /\ rpcl[k] # u /\ rpcl[k] # -u
    <3>1. k # u /\ k # rpcl[u] /\ rpcl'[k] = rpcl[k]
      BY <1>1, <2>1
    <3>2. rpcl[k] # u
      BY <1>1, <3>1, PairedFacts
    <3>3. rpcl[k] # -u
      BY <3>1, PairedFacts
    <3> QED BY <3>1, <3>2, <3>3
  <2>2. ASSUME NEW k \in Job, NEW m \in Job, rpcl'[k] = m \/ rpcl'[k] = -m
        PROVE  rpcl'[m] = rpcl[m]
    <3>1. rpcl'[k] # 0 /\ k \in Int /\ m \in Int /\ k > 0 /\ m > 0
      BY <2>2, PairedFacts
    <3>2. /\ rpcl[k] = m \/ rpcl[k] = -m
          /\ rpcl[k] # u /\ rpcl[k] # -u /\ k # u
      BY <2>1, <2>2, <3>1
    <3>3. m # u
      BY <3>2
    <3>4. CASE m = rpcl[u]
      <4>1. rpcl[m] = -u
        BY <3>1, <3>4, PairedFacts
      <4>2. rpcl[m] = -k \/ rpcl[m] = k
        BY <3>1, <3>2, PairedFacts
      <4>3. u \in Int /\ u > 0
        BY PairedFacts
      <4> QED BY <3>1, <3>2, <4>1, <4>2, <4>3
    <3> QED BY <1>1, <3>3, <3>4
  <2>3. ASSUME NEW k \in Job, rpcl'[k] > 0
        PROVE  /\ rpcl'[rpcl'[k]] = -k
               /\ flsins'[k] = "rpclos" /\ tgt'[k] = rpcl'[k]
    <3>1. /\ rpcl'[k] = rpcl[k] /\ k # u /\ rpcl[k] > 0 /\ rpcl[k] \in Job
          /\ rpcl[rpcl[k]] = -k
      BY <2>1, <2>3, PairedFacts
    <3>2. rpcl'[rpcl'[k]] = -k
      BY <2>2, <3>1
    <3>3. flsins'[k] = flsins[k] /\ tgt'[k] = tgt[k]
      BY <1>1, <3>1
    <3> QED BY <3>1, <3>2, <3>3 DEF Safe, RpclPaired
  <2>4. ASSUME NEW k \in Job, rpcl'[k] < 0
        PROVE  /\ rpcl'[-rpcl'[k]] = k
               /\ flsins'[k] = "run" /\ ~Stopped(k)'
               /\ pc'[k] # "user" /\ suexit'[k] # "uuoh"
    <3>1. /\ rpcl'[k] = rpcl[k] /\ k # u /\ rpcl[k] < 0 /\ -rpcl[k] \in Job
          /\ rpcl[-rpcl[k]] = k
      BY <2>1, <2>4, PairedFacts
    <3>2. rpcl'[k] = -(-rpcl[k]) /\ -rpcl[k] \in Job
      BY <3>1, PairedFacts
    <3>3. rpcl'[-rpcl'[k]] = k
      BY <2>2, <3>1, <3>2
    <3>4. flsins'[k] = flsins[k] /\ pc'[k] = pc[k] /\ suexit'[k] = suexit[k]
      BY <1>1, <3>1
    <3>5. ~Stopped(k)'
      BY <1>5, <3>1 DEF Safe, RpclPaired
    <3> QED BY <3>1, <3>3, <3>4, <3>5 DEF Safe, RpclPaired
  <2> QED BY <2>3, <2>4 DEF RpclPaired
<1>10. SwitchesAccounted'
  <2>1. ASSUME NEW s \in Switch PROVE sw'[s] <=> \E k \in Job : s \in held'[k]
    <3>1. sw'[s] <=> sw[s] /\ s \notin held[u]
      BY <1>1
    <3>2. (\E k \in Job : s \in held'[k])
            <=> \E k \in Job : k # u /\ s \in held[k]
      BY <1>1
    <3> QED BY <3>1, <3>2 DEF Safe, SwitchesAccounted
  <2> QED BY <1>1, <2>1 DEF Safe, SwitchesAccounted
<1>11. StopsAccounted'
  <2>1. ASSUME NEW b \in Job PROVE ustp'[b] = Cardinality(Stoppers(b)')
    <3>1. CASE b \in ust[u]
      <4>1. u \in Stoppers(b) /\ Stoppers(b)' = Stoppers(b) \ {u}
        BY <1>1, <3>1 DEF Stoppers
      <4> QED BY <1>2, <3>1, <4>1, Recount
    <3>2. CASE b \notin ust[u]
      <4>1. Stoppers(b)' = Stoppers(b)
        BY <1>1, <3>2 DEF Stoppers
      <4> QED BY <1>2, <3>2, <4>1, Recount
    <3> QED BY <3>1, <3>2
  <2> QED BY <2>1 DEF StopsAccounted
<1> QED BY <1>6, <1>7, <1>8, <1>9, <1>10, <1>11 DEF Safe

\* A job for which PCLSR fails keeps running its call, with another exit.
LEMMA PclsrFailsFacts ==
  ASSUME Inv, NEW u \in Job, PclsrFails(u)
  PROVE  /\ pc[u] # "user" /\ flsins[u] = "run" /\ ~Stopped(u)
         /\ RpclAfter(u) = rpcl
         /\ ExitsAfterFailure(u)[u] # "uuoh"
         /\ \A k \in Job : \/ ExitsAfterFailure(u)[k] = suexit[k]
                           \/ ExitsAfterFailure(u)[k] # "uuoh" /\ pc[k] # "user"
<1> USE DEF Inv, TypeOK
<1>1. pc[u] # "user" /\ flsins[u] = "run" /\ ~Stopped(u)
  BY DEF PclsrFails, Safe, PlacesConsistent
<1>2. ~(rpcl[u] > 0)
  BY <1>1 DEF Safe, RpclPaired
<1>3. RpclAfter(u) = rpcl
  BY <1>2 DEF RpclAfter
<1>4. ExitsAfterFailure(u)[u] # "uuoh"
  BY DEF ExitsAfterFailure
<1>5. \A k \in Job : k # u => ExitsAfterFailure(u)[k] = suexit[k]
  BY DEF ExitsAfterFailure
<1>6. ASSUME NEW k \in Job
      PROVE  \/ ExitsAfterFailure(u)[k] = suexit[k]
             \/ ExitsAfterFailure(u)[k] # "uuoh" /\ pc[k] # "user"
  <2>1. CASE k = u
    BY <1>1, <1>4, <2>1
  <2>2. CASE k # u
    BY <1>5, <2>2
  <2> QED BY <2>1, <2>2
<1> HIDE DEF Inv, TypeOK
<1> QED BY <1>1, <1>3, <1>4, <1>6, Zenon

\* The test before the BUG of PCLSR6 never succeeds.
LEMMA NoPclsrBug == ASSUME Inv, NEW u \in Job PROVE ~PclsrBug(u)
BY DEF Inv, Safe, PlacesConsistent, PclsrBug

\* PCLSR from clock level keeps the invariant.
LEMMA SafeClockPclsr ==
  ASSUME Inv, NEW u \in Job, ClockPclsr(u) PROVE Safe'
<1> USE DEF Inv, TypeOK
<1>1. CASE PclsrWins(u) /\ pc' = PcAfter(u) /\ tgt' = TgtAfter(u)
           /\ ustp' = Counted(0, UstAfter(u)) /\ UNCHANGED <<busrc, halted>>
  BY <1>1, SafeBackOut
<1>2. CASE PclsrFails(u) /\ suexit' = ExitsAfterFailure(u)
           /\ rpcl' = RpclAfter(u)
           /\ UNCHANGED <<pc, flsins, ustp, busrc, call, tgt, halted>>
  <2>1. /\ rpcl' = rpcl
        /\ \A k \in Job : \/ suexit'[k] = suexit[k]
                          \/ suexit'[k] # "uuoh" /\ pc[k] # "user"
    BY <1>2, PclsrFailsFacts
  <2>2. StoppedInUserMode'
    BY <1>2 DEF Safe, StoppedInUserMode, Stopped, HasSwitches, call
  <2>3. PlacesConsistent'
    BY <1>2, <2>1 DEF Safe, PlacesConsistent, HasSwitches, call
  <2>4. RpclPaired'
    BY <1>2, <2>1 DEF Safe, RpclPaired, Stopped
  <2>5. SwitchesAccounted'
    BY <1>2 DEF Safe, SwitchesAccounted, call
  <2>6. StopsAccounted'
    <3>1. ASSUME NEW b \in Job PROVE Stoppers(b)' = Stoppers(b)
      BY <1>2 DEF Stoppers, call
    <3> QED BY <1>2, <3>1 DEF Safe, StopsAccounted
  <2> QED BY <1>2, <2>2, <2>3, <2>4, <2>5, <2>6 DEF Safe, NeverHalts
<1> QED BY <1>1, <1>2, NoPclsrBug DEF ClockPclsr

\* A job that runs stops itself for the one that waits for it, either at the
\* end of its call or backing itself out.
LEMMA SafeStopSelf ==
  ASSUME Inv, NEW j \in Job, CanRun(j), rpcl[j] < 0, StopSelf(j),
         pc[j] # "stop",
         tgt' = [tgt EXCEPT ![j] = j],
         suexit'[j] = "uuoh",
         \A k \in Job : k # j => \/ suexit'[k] = suexit[k]
                                 \/ suexit'[k] # "uuoh" /\ pc[k] # "user",
         ustp' = Counted(j, ust[j]),
         sw' = [s \in Switch |-> sw[s] /\ s \notin held[j]],
         held' = [held EXCEPT ![j] = {}],
         ust' = [ust EXCEPT ![j] = {}],
         \A k \in Job : k # j => want'[k] = want[k],
         UNCHANGED busrc
  PROVE  Safe'
<1> USE DEF Inv, TypeOK
<1> DEFINE t == -rpcl[j]
<1>1. /\ t \in Job /\ rpcl[t] = j /\ t # j /\ flsins[t] = "rpclos"
      /\ pc[t] = "rpclos" /\ tgt[t] = j /\ j \notin ust[t] /\ ~Stopped(t)
  <2>1. t \in Job /\ rpcl[t] = j /\ t # j
    BY PairedFacts
  <2>2. flsins[t] = "rpclos" /\ tgt[t] = j
    BY <2>1, PairedFacts DEF Safe, RpclPaired
  <2>3. pc[t] = "rpclos"
    BY <2>1, <2>2 DEF Safe, PlacesConsistent, Places
  <2> QED BY <2>1, <2>2, <2>3
          DEF Safe, PlacesConsistent, StoppedInUserMode
<1>2. /\ halted' = FALSE
      /\ flsins' = [flsins EXCEPT ![t] = "run", ![j] = "run"]
      /\ rpcl' = [rpcl EXCEPT ![j] = 0, ![t] = 0]
      /\ pc' = [pc EXCEPT ![j] = "user", ![t] = "stop"]
  BY <1>1 DEF StopSelf
<1> HIDE DEF t
<1>3. ~Stopped(j) /\ flsins[j] = "run" /\ pc[j] # "user" /\ j \notin ust[j]
  BY DEF CanRun, Safe, RpclPaired, PlacesConsistent
<1>4. \A k \in Job : ustp'[k] = ustp[k] + (IF k = j THEN 1 ELSE 0)
                                     - (IF k \in ust[j] THEN 1 ELSE 0)
  BY DEF Counted
<1>5. \A k \in Job : k \in ust[j] => ustp[k] # 0
  BY StoppersCounted DEF Stoppers
<1>6. \A k \in Job : k # j /\ Stopped(k)' => Stopped(k)
  BY <1>4, <1>5 DEF Stopped
<1>7. StoppedInUserMode'
  BY <1>1, <1>2, <1>6 DEF Safe, StoppedInUserMode, HasSwitches
<1>8. PlacesConsistent'
  <2>1. ASSUME NEW k \in Job, pc[k] = "rpclos", k # t PROVE rpcl'[k] = rpcl[k]
    BY <1>2, <1>3, <2>1 DEF Safe, PlacesConsistent
  <2>2. ASSUME NEW k \in Job, k # j, k # t
        PROVE  /\ pc'[k] = pc[k] /\ flsins'[k] = flsins[k] /\ tgt'[k] = tgt[k]
               /\ held'[k] = held[k] /\ ust'[k] = ust[k] /\ want'[k] = want[k]
    BY <1>2, <2>2
  <2> QED BY <1>1, <1>2, <1>3, <2>1, <2>2 DEF Safe, PlacesConsistent, HasSwitches
<1>9. RpclPaired'
  <2>1. ASSUME NEW k \in Job, rpcl'[k] # 0
        PROVE  /\ rpcl'[k] = rpcl[k] /\ k # j /\ k # t
               /\ rpcl[k] # j /\ rpcl[k] # -j /\ rpcl[k] # t /\ rpcl[k] # -t
    <3>1. k # j /\ k # t /\ rpcl'[k] = rpcl[k]
      BY <1>1, <1>2, <2>1
    <3>2. rpcl[k] # j /\ rpcl[k] # -t
      BY <1>1, <3>1, PairedFacts DEF t
    <3>3. ASSUME rpcl[k] = -j PROVE FALSE
      <4>0. j \in Int /\ j > 0
        BY PairedFacts
      <4>1. rpcl[k] < 0 /\ -rpcl[k] = j
        BY <3>3, <4>0
      <4> QED BY <4>1, PairedFacts
    <3>4. rpcl[k] # t
      BY <1>1, <3>1, PairedFacts
    <3> QED BY <3>1, <3>2, <3>3, <3>4
  <2>2. ASSUME NEW k \in Job, NEW m \in Job, rpcl'[k] = m \/ rpcl'[k] = -m
        PROVE  rpcl'[m] = rpcl[m]
    BY <1>1, <1>2, <2>1, <2>2, PairedFacts
  <2>3. ASSUME NEW k \in Job, k # j, k # t
        PROVE  /\ pc'[k] = pc[k] /\ flsins'[k] = flsins[k] /\ tgt'[k] = tgt[k]
    BY <1>2, <2>3
  <2> QED BY <1>1, <1>6, <2>1, <2>2, <2>3, RpclRange DEF Safe, RpclPaired
<1>10. SwitchesAccounted'
  <2>1. ASSUME NEW s \in Switch PROVE sw'[s] <=> \E k \in Job : s \in held'[k]
    <3>1. sw'[s] <=> sw[s] /\ s \notin held[j]
      OBVIOUS
    <3>2. (\E k \in Job : s \in held'[k])
            <=> \E k \in Job : k # j /\ s \in held[k]
      OBVIOUS
    <3> QED BY <3>1, <3>2 DEF Safe, SwitchesAccounted
  <2> QED BY <2>1 DEF Safe, SwitchesAccounted
<1>11. StopsAccounted'
  <2>1. ASSUME NEW b \in Job PROVE ustp'[b] = Cardinality(Stoppers(b)')
    <3>1. CASE b = j
      <4>1. t \notin Stoppers(b) /\ Stoppers(b)' = Stoppers(b) \cup {t}
        BY <1>1, <1>2, <1>3, <3>1 DEF Stoppers, Safe, PlacesConsistent
      <4>2. ustp'[b] = ustp[b] + 1
        BY <1>3, <1>4, <3>1
      <4> QED BY <1>1, <4>1, <4>2, Recount
    <3>2. CASE b # j /\ b \in ust[j]
      <4>1. j \in Stoppers(b) /\ Stoppers(b)' = Stoppers(b) \ {j}
        BY <1>1, <1>2, <3>2 DEF Stoppers
      <4>2. ustp'[b] = ustp[b] - 1
        BY <1>4, <3>2
      <4> QED BY <4>1, <4>2, Recount
    <3>3. CASE b # j /\ b \notin ust[j]
      <4>1. Stoppers(b)' = Stoppers(b)
        BY <1>1, <1>2, <3>3 DEF Stoppers
      <4>2. ustp'[b] = ustp[b]
        BY <1>4, <3>3
      <4> QED BY <4>1, <4>2, Recount
    <3> QED BY <3>1, <3>2, <3>3
  <2> QED BY <2>1 DEF StopsAccounted
<1> QED BY <1>2, <1>7, <1>8, <1>9, <1>10, <1>11 DEF Safe, NeverHalts

\* A job that lets another stop it keeps the invariant.
LEMMA SafeSurrender ==
  ASSUME Inv, NEW j \in Job, CanRun(j), rpcl[j] < 0, pc[j] # "stop",
         NEW exits \in [Job -> Exits],
         \A k \in Job : k # j => \/ exits[k] = suexit[k]
                                 \/ exits[k] # "uuoh" /\ pc[k] # "user",
         Surrender(j, exits), UNCHANGED busrc
  PROVE  Safe'
<1>1. /\ suexit'[j] = "uuoh"
      /\ \A k \in Job : k # j => suexit'[k] = exits[k]
  BY DEF Surrender
<1>2. /\ sw' = [s \in Switch |-> sw[s] /\ s \notin held[j]]
      /\ held' = [held EXCEPT ![j] = {}]
      /\ ust' = [ust EXCEPT ![j] = {}]
      /\ \A k \in Job : k # j => want'[k] = want[k]
  BY DEF Surrender, ThrownOut, Inv, TypeOK
<1> QED BY <1>1, <1>2, SafeStopSelf DEF Surrender

\* UFLS from any of its callers.
LEMMA SafeUfls ==
  ASSUME Inv, NEW j \in Job, CanRun(j), rpcl[j] < 0 => pc[j] # "user",
         NEW w, NEW p, NEW s,
         \/ pc[j] = "user" /\ p = "user" /\ w = "event"
         \/ pc[j] = "exec" /\ p = "exec" /\ w = "event"
         \/ pc[j] \in {"exec", "swtl"} /\ p = "swtl" /\ w = "swtl"
            /\ s \in Switch,
         Ufls(j, w, p, s), UNCHANGED busrc
  PROVE  Safe'
<1>1. CASE rpcl[j] < 0
  <2>1. Surrender(j, suexit) /\ suexit \in [Job -> Exits]
    BY <1>1 DEF Ufls, Inv, TypeOK
  <2> QED BY <1>1, <2>1, SafeSurrender
<1>2. CASE ~(rpcl[j] < 0)
  <2>1. rpcl[j] >= 0
    BY <1>2, PairedFacts
  <2> QED BY <2>1, SafeHung
<1> QED BY <1>1, <1>2

\* A page fault keeps the invariant.
LEMMA SafePageFault ==
  ASSUME Inv, NEW j \in Job, PageFault(j) PROVE Safe'
<1>1. rpcl[j] < 0 => pc[j] # "user"
  BY DEF Inv, Safe, RpclPaired
<1> QED BY <1>1, SafeUfls DEF PageFault

\* Leaving a system call keeps the invariant.
LEMMA SafeExit ==
  ASSUME Inv, NEW j \in Job, Exit(j) PROVE Safe'
<1> USE DEF Inv, TypeOK
<1>1. /\ CanRun(j) /\ ~Stopped(j) /\ pc[j] = "exec" /\ held[j] = {}
      /\ ust[j] = {} /\ tgt[j] = j
      /\ suexit' = [suexit EXCEPT ![j] = "uuoh"]
      /\ UNCHANGED <<busrc, swpcl, sw, held, ust, want, tgt>>
  BY DEF Exit, CanRun, HasSwitches, Safe, PlacesConsistent
<1>2. rpcl[j] <= 0
  BY <1>1, PairedFacts DEF Safe, RpclPaired, CanRun
<1>3. CASE suexit[j] = "uuoh" \/ rpcl[j] = 0
  <2>1. /\ pc' = [pc EXCEPT ![j] = "user"]
        /\ UNCHANGED <<flsins, rpcl, ustp, halted>>
    BY <1>3 DEF Exit
  <2>2. rpcl[j] = 0
    BY <1>2, <1>3, PairedFacts DEF Safe, RpclPaired
  <2>3. StoppedInUserMode'
    BY <1>1, <2>1 DEF Safe, StoppedInUserMode, Stopped, HasSwitches
  <2>4. PlacesConsistent'
    BY <1>1, <2>1 DEF Safe, PlacesConsistent, HasSwitches
  <2>5. RpclPaired'
    BY <1>1, <2>1, <2>2 DEF Safe, RpclPaired, Stopped
  <2>6. SwitchesAccounted'
    BY <1>1 DEF Safe, SwitchesAccounted
  <2>7. StopsAccounted'
    <3>1. ASSUME NEW b \in Job PROVE Stoppers(b)' = Stoppers(b)
      BY <1>1, <2>1 DEF Stoppers
    <3> QED BY <2>1, <3>1 DEF Safe, StopsAccounted
  <2> QED BY <2>1, <2>3, <2>4, <2>5, <2>6, <2>7 DEF Safe, NeverHalts
<1>4. CASE ~(suexit[j] = "uuoh" \/ rpcl[j] = 0)
  <2>1. rpcl[j] < 0 /\ StopSelf(j) /\ ustp' = Counted(j, {})
    BY <1>2, <1>4, PairedFacts DEF Exit
  <2>2. sw' = [s \in Switch |-> sw[s] /\ s \notin held[j]]
    BY <1>1
  <2>3. /\ held' = [held EXCEPT ![j] = {}]
        /\ ust' = [ust EXCEPT ![j] = {}]
        /\ tgt' = [tgt EXCEPT ![j] = j]
        /\ ustp' = Counted(j, ust[j])
    BY <1>1, <2>1
  <2> QED BY <1>1, <2>1, <2>2, <2>3, SafeStopSelf
<1> QED BY <1>3, <1>4

-----------------------------------------------------------------------------
(* Switches.                                                                *)

\* Locking a switch, or starting to wait for it, keeps the invariant.
LEMMA SafeSWTL ==
  ASSUME Inv, NEW j \in Job, NEW s \in Switch, SWTL(j, s) PROVE Safe'
<1> USE DEF Inv, TypeOK
<1>1. CASE sw[s]
  BY <1>1, SafeUfls DEF SWTL
<1>2. CASE ~sw[s]
  <2>1. /\ pc[j] = "exec" /\ flsins[j] = "run" /\ ~Stopped(j)
        /\ pc' = [pc EXCEPT ![j] = "swtl"]
        /\ want' = [want EXCEPT ![j] = s]
        /\ UNCHANGED <<suexit, flsins, rpcl, ustp, swpcl, sw, held, ust, tgt,
                       halted, busrc>>
    BY <1>2 DEF SWTL, CanRun
  <2>2. StoppedInUserMode'
    BY <2>1 DEF Safe, StoppedInUserMode, Stopped, HasSwitches
  <2>3. PlacesConsistent'
    BY <2>1 DEF Safe, PlacesConsistent, HasSwitches
  <2>4. RpclPaired'
    BY <2>1 DEF Safe, RpclPaired, Stopped
  <2>5. SwitchesAccounted'
    BY <2>1 DEF Safe, SwitchesAccounted
  <2>6. StopsAccounted'
    <3>1. ASSUME NEW b \in Job PROVE Stoppers(b)' = Stoppers(b)
      BY <2>1 DEF Stoppers
    <3> QED BY <2>1, <3>1 DEF Safe, StopsAccounted
  <2> QED BY <2>1, <2>2, <2>3, <2>4, <2>5, <2>6 DEF Safe, NeverHalts
<1> QED BY <1>1, <1>2

\* Locking a switch after a wait keeps the invariant.
LEMMA SafeSWTL1 ==
  ASSUME Inv, NEW j \in Job, SWTL1(j) PROVE Safe'
<1> USE DEF Inv, TypeOK
<1>1. want[j] \in Switch
  BY DEF SWTL1, Safe, PlacesConsistent
<1>2. CASE sw[want[j]]
  BY <1>1, <1>2, SafeUfls DEF SWTL1
<1>3. CASE ~sw[want[j]]
  <2>1. /\ pc[j] = "swtl" /\ flsins[j] = "run" /\ ~Stopped(j)
        /\ sw' = [sw EXCEPT ![want[j]] = TRUE]
        /\ held' = [held EXCEPT ![j] = @ \cup {want[j]}]
        /\ want' = [want EXCEPT ![j] = NoSwitch]
        /\ pc' = [pc EXCEPT ![j] = "exec"]
        /\ UNCHANGED <<suexit, flsins, rpcl, ustp, swpcl, ust, tgt, halted,
                       busrc>>
    BY <1>3 DEF SWTL1, CanRun
  <2>2. StoppedInUserMode'
    BY <2>1 DEF Safe, StoppedInUserMode, Stopped, HasSwitches
  <2>3. PlacesConsistent'
    BY <2>1 DEF Safe, PlacesConsistent, HasSwitches
  <2>4. RpclPaired'
    BY <2>1 DEF Safe, RpclPaired, Stopped
  <2>5. SwitchesAccounted'
    <3>1. \A k \in Job : want[j] \notin held[k]
      BY <1>1, <1>3 DEF Safe, SwitchesAccounted
    <3>2. ASSUME NEW s \in Switch PROVE sw'[s] <=> \E k \in Job : s \in held'[k]
      <4>1. CASE s = want[j]
        BY <1>1, <2>1, <4>1
      <4>2. CASE s # want[j]
        <5>1. sw'[s] = sw[s]
          BY <2>1, <4>2
        <5>2. \A k \in Job : s \in held'[k] <=> s \in held[k]
          BY <2>1, <4>2
        <5> QED BY <5>1, <5>2 DEF Safe, SwitchesAccounted
      <4> QED BY <4>1, <4>2
    <3>3. ASSUME NEW s \in Switch, NEW k \in Job, NEW m \in Job,
                 s \in held'[k] \cap held'[m]
          PROVE  k = m
      <4>1. CASE s = want[j]
        BY <2>1, <3>1, <3>3, <4>1
      <4>2. CASE s # want[j]
        BY <2>1, <3>3, <4>2 DEF Safe, SwitchesAccounted
      <4> QED BY <4>1, <4>2
    <3> QED BY <3>2, <3>3 DEF SwitchesAccounted
  <2>6. StopsAccounted'
    <3>1. ASSUME NEW b \in Job PROVE Stoppers(b)' = Stoppers(b)
      BY <2>1 DEF Stoppers
    <3> QED BY <2>1, <3>1 DEF Safe, StopsAccounted
  <2> QED BY <2>1, <2>2, <2>3, <2>4, <2>5, <2>6 DEF Safe, NeverHalts
<1> QED BY <1>2, <1>3

\* Unlocking the top switch keeps the invariant.
LEMMA SafeLSWPOP ==
  ASSUME Inv, NEW j \in Job, LSWPOP(j) PROVE Safe'
<1> USE DEF Inv, TypeOK
<1>1. PICK s \in held[j] : /\ held' = [held EXCEPT ![j] = @ \ {s}]
                           /\ sw' = [sw EXCEPT ![s] = FALSE]
  BY DEF LSWPOP
<1>2. /\ pc[j] = "exec" /\ s \in Switch
      /\ UNCHANGED <<pc, suexit, flsins, rpcl, ustp, busrc, swpcl, ust, want,
                     tgt, halted>>
  BY DEF LSWPOP
<1>3. \A k \in Job : held'[k] \subseteq held[k]
  BY <1>1
<1>4. StoppedInUserMode'
  BY <1>2, <1>3 DEF Safe, StoppedInUserMode, Stopped, HasSwitches
<1>5. PlacesConsistent'
  BY <1>2, <1>3 DEF Safe, PlacesConsistent, HasSwitches
<1>6. RpclPaired'
  BY <1>2 DEF Safe, RpclPaired, Stopped
<1>7. SwitchesAccounted'
  <2>1. ASSUME NEW r \in Switch PROVE sw'[r] <=> \E k \in Job : r \in held'[k]
    <3>1. CASE r = s
      <4>1. ~sw'[r]
        BY <1>1, <3>1
      <4>2. \A k \in Job : r \notin held'[k]
        BY <1>1, <3>1 DEF Safe, SwitchesAccounted
      <4> QED BY <4>1, <4>2
    <3>2. CASE r # s
      <4>1. sw'[r] = sw[r]
        BY <1>1, <3>2
      <4>2. \A k \in Job : r \in held'[k] <=> r \in held[k]
        BY <1>1, <3>2
      <4> QED BY <4>1, <4>2 DEF Safe, SwitchesAccounted
    <3> QED BY <3>1, <3>2
  <2> QED BY <1>3, <2>1 DEF Safe, SwitchesAccounted
<1>8. StopsAccounted'
  <2>1. ASSUME NEW b \in Job PROVE Stoppers(b)' = Stoppers(b)
    BY <1>2 DEF Stoppers
  <2> QED BY <1>2, <2>1 DEF Safe, StopsAccounted
<1> QED BY <1>2, <1>4, <1>5, <1>6, <1>7, <1>8 DEF Safe, NeverHalts

-----------------------------------------------------------------------------
(* Stopping and releasing others.                                           *)

\* One stop of job b is undone by job j, which stays in its call.
LEMMA SafeRelease ==
  ASSUME Inv, NEW j \in Job, NEW b \in Job, CanRun(j), j \in Stoppers(b),
         Stoppers(b)' = Stoppers(b) \ {j},
         \A k \in Job : k # b => Stoppers(k)' = Stoppers(k),
         ustp' = Counted(0, {b}),
         pc' = [pc EXCEPT ![j] = "exec"], pc[j] \in {"exec", "stop"},
         tgt' = [tgt EXCEPT ![j] = j],
         \A k \in Job : ust'[k] \subseteq ust[k],
         busrc' \in [Job -> BOOLEAN],
         \A k \in Job : k # b => busrc'[k] = busrc[k],
         UNCHANGED <<suexit, flsins, rpcl, swpcl, sw, held, want, halted>>
  PROVE  Safe'
<1> USE DEF Inv, TypeOK
<1>1. /\ ustp'[b] = ustp[b] - 1
      /\ \A k \in Job : k # b => ustp'[k] = ustp[k]
  BY PairedFacts, StoppersCounted DEF Counted
<1>2. ustp[b] > 0 /\ Stopped(b)
  BY StoppersCounted DEF Stopped
<1>3. \A k \in Job : Stopped(k)' => Stopped(k)
  BY <1>1, <1>2 DEF Stopped
<1>4. ~Stopped(j) /\ flsins[j] = "run"
  BY DEF CanRun
<1>5. StoppedInUserMode'
  BY <1>3, <1>4 DEF Safe, StoppedInUserMode, HasSwitches
<1>6. PlacesConsistent'
  BY <1>4 DEF Safe, PlacesConsistent, HasSwitches
<1>7. RpclPaired'
  BY <1>3, <1>4 DEF Safe, RpclPaired
<1>8. SwitchesAccounted'
  BY DEF Safe, SwitchesAccounted
<1>9. StopsAccounted'
  <2>1. ASSUME NEW k \in Job PROVE ustp'[k] = Cardinality(Stoppers(k)')
    <3>1. CASE k = b
      <4>1. ustp'[k] = ustp[k] - 1
        BY <1>1, <3>1
      <4> QED BY <3>1, <4>1, Recount
    <3>2. CASE k # b
      <4>1. ustp'[k] = ustp[k]
        BY <1>1, <3>2
      <4> QED BY <3>2, <4>1, Recount
    <3> QED BY <3>1, <3>2
  <2> QED BY <2>1 DEF StopsAccounted
<1> QED BY <1>5, <1>6, <1>7, <1>8, <1>9 DEF Safe, NeverHalts

\* Undoing a stop kept on the switch list keeps the invariant.
LEMMA SafeLSWPOPStop ==
  ASSUME Inv, NEW j \in Job, LSWPOPStop(j) PROVE Safe'
<1> USE DEF Inv, TypeOK
<1>1. PICK b \in ust[j] : /\ ust' = [ust EXCEPT ![j] = @ \ {b}]
                          /\ ustp' = Counted(0, {b})
  BY DEF LSWPOPStop
<1>2. /\ CanRun(j) /\ pc[j] = "exec" /\ b \in Job /\ tgt[j] = j
      /\ UNCHANGED <<pc, suexit, flsins, rpcl, busrc, swpcl, sw, held, want,
                     tgt, halted>>
  BY DEF LSWPOPStop, Safe, PlacesConsistent
<1>3. j \in Stoppers(b) /\ Stoppers(b)' = Stoppers(b) \ {j}
  BY <1>1, <1>2 DEF Stoppers
<1>4. ASSUME NEW k \in Job, k # b PROVE Stoppers(k)' = Stoppers(k)
  BY <1>1, <1>2, <1>4 DEF Stoppers
<1>5. pc' = [pc EXCEPT ![j] = "exec"] /\ tgt' = [tgt EXCEPT ![j] = j]
  BY <1>2
<1>6. \A k \in Job : ust'[k] \subseteq ust[k]
  BY <1>1
<1> QED BY <1>1, <1>2, <1>3, <1>4, <1>5, <1>6, SafeRelease

\* Letting a stopped job go keeps the invariant.
LEMMA SafeUPCLSR ==
  ASSUME Inv, NEW j \in Job, UPCLSR(j) PROVE Safe'
<1> USE DEF Inv, TypeOK
<1> PICK b \in Job : b = tgt[j]
  OBVIOUS
<1>1. /\ CanRun(j) /\ pc[j] = "stop" /\ b \in Job /\ b # j /\ b \notin ust[j]
      /\ ustp' = Counted(0, {b})
      /\ pc' = [pc EXCEPT ![j] = "exec"]
      /\ tgt' = [tgt EXCEPT ![j] = j]
      /\ UNCHANGED <<suexit, flsins, rpcl, swpcl, sw, held, ust, want>>
  BY DEF UPCLSR, call, Safe, PlacesConsistent
<1>2. j \in Stoppers(b) /\ Stoppers(b)' = Stoppers(b) \ {j}
  BY <1>1 DEF Stoppers
<1>3. ASSUME NEW k \in Job, k # b PROVE Stoppers(k)' = Stoppers(k)
  BY <1>1, <1>3 DEF Stoppers
<1>4. ustp[b] > 0
  BY <1>1, <1>2, StoppersCounted
<1>5. halted' = halted
  BY <1>4 DEF UPCLSR, Safe, NeverHalts
<1>6. busrc' \in [Job -> BOOLEAN] /\ \A k \in Job : k # b => busrc'[k] = busrc[k]
  BY DEF UPCLSR
<1> QED BY <1>1, <1>2, <1>3, <1>5, <1>6, SafeRelease

\* Putting a stop on the switch list keeps the invariant.
LEMMA SafeSOSSET ==
  ASSUME Inv, NEW j \in Job, SOSSET(j) PROVE Safe'
<1> USE DEF Inv, TypeOK
<1>1. /\ pc[j] = "stop" /\ tgt[j] \in Job /\ tgt[j] # j /\ ~Stopped(j)
      /\ flsins[j] = "run"
      /\ ust' = [ust EXCEPT ![j] = @ \cup {tgt[j]}]
      /\ pc' = [pc EXCEPT ![j] = "exec"]
      /\ tgt' = [tgt EXCEPT ![j] = j]
      /\ UNCHANGED <<suexit, flsins, rpcl, ustp, busrc, swpcl, sw, held, want,
                     halted>>
  BY DEF SOSSET, CanRun, Safe, PlacesConsistent
<1>2. StoppedInUserMode'
  BY <1>1 DEF Safe, StoppedInUserMode, Stopped, HasSwitches
<1>3. PlacesConsistent'
  BY <1>1 DEF Safe, PlacesConsistent, HasSwitches
<1>4. RpclPaired'
  BY <1>1 DEF Safe, RpclPaired, Stopped
<1>5. SwitchesAccounted'
  BY <1>1 DEF Safe, SwitchesAccounted
<1>6. StopsAccounted'
  <2>1. ASSUME NEW b \in Job PROVE Stoppers(b)' = Stoppers(b)
    BY <1>1 DEF Stoppers
  <2> QED BY <1>1, <2>1 DEF Safe, StopsAccounted
<1> QED BY <1>1, <1>2, <1>3, <1>4, <1>5, <1>6 DEF Safe, NeverHalts

\* Stopping a job that PCLSR could back out keeps the invariant.
LEMMA SafeStopNow ==
  ASSUME Inv, NEW j \in Job, NEW b \in Job, b # j, b \notin ust[j], CanRun(j),
         pc[j] \in {"exec", "rpclsr"}, StopNow(j, b), UNCHANGED busrc
  PROVE  Safe'
<1> USE DEF Inv, TypeOK
<1>1. /\ rpcl[b] >= 0 /\ pc[b] # "stop"
      /\ rpcl' = [k \in Job |-> IF k = b \/ k = rpcl[b] THEN 0 ELSE rpcl[k]]
      /\ flsins' = [flsins EXCEPT ![b] = "run"]
      /\ suexit' = [suexit EXCEPT ![b] = "uuoh"]
      /\ sw' = [s \in Switch |-> sw[s] /\ s \notin held[b]]
      /\ held' = [held EXCEPT ![b] = {}]
      /\ ust' = [ust EXCEPT ![b] = {}]
      /\ \A k \in Job : k # b => want'[k] = want[k]
  BY PclsrWinsFacts DEF StopNow
<1>2. /\ pc'[b] = "user" /\ pc'[j] = "stop" /\ tgt'[b] = b /\ tgt'[j] = b
      /\ \A k \in Job : k # b /\ k # j => pc'[k] = pc[k] /\ tgt'[k] = tgt[k]
  BY PclsrWinsFacts DEF StopNow
<1>3. \A k \in Job : ustp'[k] = ustp[k] + (IF k = b THEN 1 ELSE 0)
                                     - (IF k \in ust[b] THEN 1 ELSE 0)
  BY PclsrWinsFacts DEF StopNow, Counted
<1>4. b \notin ust[b] /\ flsins[j] = "run" /\ ~Stopped(j)
  BY DEF Safe, PlacesConsistent, CanRun
<1>5. \A k \in Job : k \in ust[b] => ustp[k] # 0
  BY StoppersCounted DEF Stoppers
<1>6. \A k \in Job : k # b /\ Stopped(k)' => Stopped(k)
  BY <1>3, <1>5 DEF Stopped, StopNow
<1>7. StoppedInUserMode'
  BY <1>1, <1>2, <1>4, <1>6 DEF Safe, StoppedInUserMode, HasSwitches
<1>8. PlacesConsistent'
  <2>1. ASSUME NEW k \in Job, pc[k] = "rpclos", k # b PROVE rpcl'[k] = rpcl[k]
    BY <1>1, <2>1, PairedFacts DEF Safe, PlacesConsistent
  <2>2. ASSUME NEW k \in Job, k # b, k # j
        PROVE  /\ pc'[k] = pc[k] /\ flsins'[k] = flsins[k] /\ tgt'[k] = tgt[k]
               /\ held'[k] = held[k] /\ ust'[k] = ust[k] /\ want'[k] = want[k]
               /\ suexit'[k] = suexit[k]
    BY <1>1, <1>2, <2>2
  <2> QED BY <1>1, <1>2, <1>4, <2>1, <2>2 DEF Safe, PlacesConsistent, HasSwitches
<1>9. RpclPaired'
  <2>1. ASSUME NEW k \in Job, rpcl'[k] # 0
        PROVE  /\ rpcl'[k] = rpcl[k] /\ k # b /\ k # rpcl[b]
               /\ rpcl[k] # b /\ rpcl[k] # -b
    <3>1. k # b /\ k # rpcl[b] /\ rpcl'[k] = rpcl[k]
      BY <1>1, <2>1
    <3>2. rpcl[k] # b
      BY <1>1, <3>1, PairedFacts
    <3>3. rpcl[k] # -b
      BY <3>1, PairedFacts
    <3> QED BY <3>1, <3>2, <3>3
  <2>2. ASSUME NEW k \in Job, NEW m \in Job, rpcl'[k] = m \/ rpcl'[k] = -m
        PROVE  rpcl'[m] = rpcl[m]
    <3>1. m # b /\ k # b /\ (rpcl[k] = m \/ rpcl[k] = -m)
      BY <2>1, <2>2, PairedFacts
    <3>2. \/ rpcl[k] > 0 /\ rpcl[m] = -k
          \/ rpcl[k] < 0 /\ rpcl[m] = k
      BY <3>1, PairedFacts
    <3>3. m # rpcl[b]
      BY <3>1, <3>2, PairedFacts
    <3> QED BY <1>1, <3>1, <3>3
  <2>3. ASSUME NEW k \in Job, k # b
        PROVE  /\ flsins'[k] = flsins[k] /\ suexit'[k] = suexit[k]
               /\ pc'[k] = "user" => pc[k] = "user"
               /\ k # j => tgt'[k] = tgt[k]
    BY <1>1, <1>2, <2>3
  <2>4. rpcl[j] <= 0
    BY <1>4, PairedFacts DEF Safe, RpclPaired
  <2> QED BY <1>1, <1>6, <2>1, <2>2, <2>3, <2>4, RpclRange DEF Safe, RpclPaired
<1>10. SwitchesAccounted'
  <2>1. ASSUME NEW s \in Switch PROVE sw'[s] <=> \E k \in Job : s \in held'[k]
    <3>1. sw'[s] <=> sw[s] /\ s \notin held[b]
      BY <1>1
    <3>2. (\E k \in Job : s \in held'[k])
            <=> \E k \in Job : k # b /\ s \in held[k]
      BY <1>1
    <3> QED BY <3>1, <3>2 DEF Safe, SwitchesAccounted
  <2> QED BY <1>1, <2>1 DEF Safe, SwitchesAccounted
<1>11. StopsAccounted'
  <2>1. ASSUME NEW c \in Job PROVE ustp'[c] = Cardinality(Stoppers(c)')
    <3>1. CASE c = b
      <4>1. j \notin Stoppers(c) /\ Stoppers(c)' = Stoppers(c) \cup {j}
        BY <1>1, <1>2, <1>4, <3>1 DEF Stoppers
      <4>2. ustp'[c] = ustp[c] + 1
        BY <1>3, <1>4, <3>1
      <4> QED BY <4>1, <4>2, Recount
    <3>2. CASE c # b /\ c \in ust[b]
      <4>1. b \in Stoppers(c) /\ Stoppers(c)' = Stoppers(c) \ {b}
        BY <1>1, <1>2, <3>2 DEF Stoppers
      <4>2. ustp'[c] = ustp[c] - 1
        BY <1>3, <3>2
      <4> QED BY <4>1, <4>2, Recount
    <3>3. CASE c # b /\ c \notin ust[b]
      <4>1. Stoppers(c)' = Stoppers(c)
        BY <1>1, <1>2, <3>3 DEF Stoppers
      <4>2. ustp'[c] = ustp[c]
        <5>1. ustp'[c] = ustp[c] + 0 - 0
          BY <1>3, <3>3
        <5>2. ustp[c] \in Int
          OBVIOUS
        <5> HIDE DEF Inv, TypeOK
        <5> QED BY <5>1, <5>2
      <4> QED BY <4>1, <4>2, Recount
    <3> QED BY <3>1, <3>2, <3>3
  <2> QED BY <2>1 DEF StopsAccounted
<1> QED BY <1>7, <1>8, <1>9, <1>10, <1>11 DEF Safe, NeverHalts, StopNow

\* A job that hangs in RPCLOS, pointed to by its target, or in RPCLS2.
LEMMA SafeStopLater ==
  ASSUME Inv, NEW j \in Job, NEW b \in Job, b # j, b \notin ust[j], CanRun(j),
         pc[j] \in {"exec", "rpclsr"}, PclsrFails(b), rpcl[j] = 0,
         NEW w,
         \/ w = "rpcls2" /\ rpcl' = rpcl
         \/ w = "rpclos" /\ rpcl[b] = 0 /\ rpcl' = [rpcl EXCEPT ![b] = -j, ![j] = b],
         flsins' = [flsins EXCEPT ![j] = w],
         pc' = [pc EXCEPT ![j] = w],
         tgt' = [tgt EXCEPT ![j] = b],
         suexit' = ExitsAfterFailure(b),
         UNCHANGED <<ustp, busrc, call, halted>>
  PROVE  Safe'
<1> USE DEF Inv, TypeOK
<1>1. ~Stopped(j) /\ flsins[j] = "run"
  BY DEF CanRun
<1>2. /\ pc[b] # "user" /\ flsins[b] = "run" /\ ~Stopped(b) /\ suexit'[b] # "uuoh"
      /\ \A k \in Job : \/ suexit'[k] = suexit[k]
                        \/ suexit'[k] # "uuoh" /\ pc[k] # "user"
  BY PclsrFailsFacts
<1>3. UNCHANGED <<swpcl, sw, held, ust, want>>
  BY DEF call
<1>4. StoppedInUserMode'
  BY <1>1, <1>3 DEF Safe, StoppedInUserMode, Stopped, HasSwitches
<1>5. PlacesConsistent'
  <2>1. \A k \in Job : k # j => /\ pc'[k] = pc[k] /\ flsins'[k] = flsins[k]
                                /\ tgt'[k] = tgt[k]
    OBVIOUS
  <2>2. \A k \in Job : k # j /\ pc[k] = "rpclos" => rpcl'[k] = rpcl[k]
    BY <1>2 DEF Safe, PlacesConsistent
  <2>3. /\ pc'[j] = w /\ flsins'[j] = w /\ tgt'[j] = b
        /\ w = "rpclos" => rpcl'[j] = b
    OBVIOUS
  <2> QED BY <1>2, <1>3, <2>1, <2>2, <2>3 DEF Safe, PlacesConsistent, HasSwitches
<1>6. RpclPaired'
  <2>1. CASE w = "rpcls2" /\ rpcl' = rpcl
    BY <1>1, <1>2, <2>1 DEF Safe, RpclPaired, Stopped
  <2>2. CASE w = "rpclos" /\ rpcl[b] = 0 /\ rpcl' = [rpcl EXCEPT ![b] = -j, ![j] = b]
    <3>1. rpcl'[b] = -j /\ rpcl'[j] = b
      BY <2>2
    <3>2. ASSUME NEW k \in Job, k # b, k # j
          PROVE  rpcl'[k] = rpcl[k] /\ rpcl[k] \notin {b, j, -b, -j}
      <4>1. rpcl'[k] = rpcl[k]
        BY <2>2, <3>2
      <4>2. rpcl[k] # b /\ rpcl[k] # j
        BY <2>2, <3>2, PairedFacts
      <4>3. ASSUME NEW m \in Job, rpcl[m] = 0, rpcl[k] = -m PROVE FALSE
        <5>1. m \in Int /\ m > 0 /\ k > 0
          BY PairedFacts
        <5>2. rpcl[k] < 0 /\ -rpcl[k] = m
          BY <4>3, <5>1
        <5> QED BY <4>3, <5>1, <5>2, PairedFacts
      <4> QED BY <2>2, <4>1, <4>2, <4>3
    <3>3. ASSUME NEW k \in Job, k # b, k # j
          PROVE  /\ rpcl'[k] > 0 => rpcl'[rpcl'[k]] = -k
                 /\ rpcl'[k] < 0 => rpcl'[-rpcl'[k]] = k
      <4>1. ASSUME NEW m \in Job, m # b, m # j PROVE rpcl'[m] = rpcl[m]
        BY <3>2, <4>1
      <4> QED BY <3>2, <3>3, <4>1, PairedFacts
    <3>4. \A k \in Job : k # j => flsins'[k] = flsins[k] /\ tgt'[k] = tgt[k]
                                  /\ pc'[k] = pc[k]
      OBVIOUS
    <3>5. ASSUME NEW k \in Job
          PROVE  /\ rpcl'[k] > 0 => flsins'[k] = "rpclos" /\ tgt'[k] = rpcl'[k]
                 /\ rpcl'[k] < 0 => /\ flsins'[k] = "run" /\ ~Stopped(k)'
                                    /\ pc'[k] # "user" /\ suexit'[k] # "uuoh"
      <4>1. CASE k = j
        BY <2>2, <3>1, <4>1, PairedFacts
      <4>2. CASE k = b
        BY <1>2, <3>1, <3>4, <4>2, PairedFacts DEF Stopped
      <4>3. CASE k # j /\ k # b
        BY <1>2, <3>2, <3>4, <4>3 DEF Safe, RpclPaired, Stopped
      <4> QED BY <4>1, <4>2, <4>3
    <3>6. /\ rpcl'[j] > 0 /\ rpcl'[rpcl'[j]] = -j
          /\ rpcl'[b] < 0 /\ rpcl'[-rpcl'[b]] = b
      BY <3>1, PairedFacts
    <3> QED BY <3>3, <3>5, <3>6, PairedFacts DEF RpclPaired
  <2> QED BY <2>1, <2>2
<1>7. SwitchesAccounted'
  BY <1>3 DEF Safe, SwitchesAccounted
<1>8. StopsAccounted'
  <2>1. ASSUME NEW k \in Job PROVE Stoppers(k)' = Stoppers(k)
    BY <1>3 DEF Stoppers
  <2> QED BY <2>1 DEF Safe, StopsAccounted
<1> QED BY <1>4, <1>5, <1>6, <1>7, <1>8 DEF Safe, NeverHalts

\* All outcomes of RPCLSR keep the invariant.
LEMMA SafeRPCLSR ==
  ASSUME Inv, NEW j \in Job, NEW b \in Job, RPCLSR(j, b) PROVE Safe'
<1> USE DEF Inv, TypeOK
<1>1. /\ CanRun(j) /\ flsins[j] = "run" /\ pc[j] \in {"exec", "rpclsr"}
      /\ b # j /\ b \notin ust[j] /\ UNCHANGED busrc
  BY DEF RPCLSR, CanRun, Safe, PlacesConsistent
<1>2. rpcl[j] <= 0 /\ rpcl[j] \in Int
  BY <1>1, PairedFacts DEF Safe, RpclPaired
<1>3. CASE StopNow(j, b)
  BY <1>1, <1>3, SafeStopNow
<1>4. CASE RPCLOS(j, b)
  <2>1. /\ PclsrFails(b) /\ RpclAfter(b) = rpcl
        /\ \A k \in Job : \/ ExitsAfterFailure(b)[k] = suexit[k]
                          \/ ExitsAfterFailure(b)[k] # "uuoh" /\ pc[k] # "user"
        /\ ExitsAfterFailure(b) \in [Job -> Exits]
    BY <1>4, PclsrFailsFacts, PclsrTypes DEF RPCLOS
  <2>2. CASE rpcl[j] < 0 /\ Surrender(j, ExitsAfterFailure(b))
    BY <1>1, <2>1, <2>2, SafeSurrender
  <2>3. CASE rpcl[j] = 0
    <3> DEFINE Hung(w, r) == /\ flsins' = [flsins EXCEPT ![j] = w]
                             /\ pc' = [pc EXCEPT ![j] = w]
                             /\ tgt' = [tgt EXCEPT ![j] = b]
                             /\ rpcl' = r
                             /\ suexit' = ExitsAfterFailure(b)
                             /\ UNCHANGED <<ustp, call, halted>>
    <3>1. \/ Hung("rpcls2", rpcl)
          \/ rpcl[b] = 0 /\ Hung("rpclos", [rpcl EXCEPT ![b] = -j, ![j] = b])
      BY <1>4, <2>1, <2>3 DEF RPCLOS
    <3> QED BY <1>1, <2>1, <2>3, <3>1, SafeStopLater
  <2> QED BY <1>2, <1>4, <2>1, <2>2, <2>3 DEF RPCLOS
<1> QED BY <1>3, <1>4, NoPclsrBug DEF RPCLSR

-----------------------------------------------------------------------------
(* The scheduler and the swapper, and the theorems.                         *)

\* The scheduler keeps the invariant.
LEMMA SafeSCHED5 ==
  ASSUME Inv, NEW j \in Job, SCHED5(j) PROVE Safe'
<1> USE DEF Inv, TypeOK
<1>1. CASE swpcl[j]
  BY <1>1, SafeClockPclsr DEF SCHED5
<1>2. CASE ~swpcl[j]
  <2>1. /\ ~Stopped(j) /\ Unblocked(j)
        /\ flsins' = [flsins EXCEPT ![j] = "run"]
        /\ pc' = [pc EXCEPT ![j] = Resumed(pc[j])]
        /\ UNCHANGED <<suexit, rpcl, ustp, busrc, swpcl, sw, held, ust, want,
                       tgt, halted>>
    BY <1>2 DEF SCHED5, call
  <2>2. flsins[j] # "rpclos" /\ pc[j] # "rpclos"
    <3>1. flsins[j] = "rpclos" <=> pc[j] = "rpclos"
      BY DEF Safe, PlacesConsistent, Places
    <3>2. pc[j] = "rpclos" => rpcl[j] > 0
      BY PairedFacts DEF Safe, PlacesConsistent
    <3> QED BY <2>1, <3>1, <3>2 DEF Unblocked
  <2>3. pc[j] # "stop" /\ pc[j] # "rpclsr"
    BY <2>1 DEF Unblocked, Safe, PlacesConsistent
  <2>4. \/ pc[j] # "rpcls2" /\ pc' = pc
        \/ pc[j] = "rpcls2" /\ pc' = [pc EXCEPT ![j] = "rpclsr"]
    BY <2>1, <2>2 DEF Resumed, Places
  <2>5. rpcl[j] = 0
    BY <2>1, <2>2, PairedFacts DEF Unblocked, Safe, RpclPaired
  <2>6. StoppedInUserMode'
    BY <2>1 DEF Safe, StoppedInUserMode, Stopped, HasSwitches
  <2>7. PlacesConsistent'
    <3>1. CASE pc[j] # "rpcls2" /\ pc' = pc
      BY <2>1, <2>2, <3>1 DEF Safe, PlacesConsistent, HasSwitches, Unblocked
    <3>2. CASE pc[j] = "rpcls2" /\ pc' = [pc EXCEPT ![j] = "rpclsr"]
      BY <2>1, <3>2 DEF Safe, PlacesConsistent, HasSwitches
    <3> QED BY <2>4, <3>1, <3>2
  <2>8. RpclPaired'
    BY <2>1, <2>4, <2>5 DEF Safe, RpclPaired, Stopped
  <2>9. SwitchesAccounted'
    BY <2>1 DEF Safe, SwitchesAccounted
  <2>10. StopsAccounted'
    <3>1. ASSUME NEW k \in Job PROVE Stoppers(k)' = Stoppers(k)
      BY <2>1, <2>3, <2>4 DEF Stoppers
    <3> QED BY <2>1, <3>1 DEF Safe, StopsAccounted
  <2> QED BY <2>1, <2>6, <2>7, <2>8, <2>9, <2>10 DEF Safe, NeverHalts
<1> QED BY <1>1, <1>2

\* A fatal interrupt keeps the invariant.
LEMMA SafeFatalInterrupt ==
  ASSUME Inv, NEW j \in Job, FatalInterrupt(j) PROVE Safe'
<1>1. /\ busrc' \in [Job -> BOOLEAN]
      /\ \A k \in Job : k # j => busrc'[k] = busrc[k]
  BY DEF FatalInterrupt, Inv, TypeOK
<1> QED BY <1>1, SafeBackOut DEF FatalInterrupt

\* Swapping a job out keeps the invariant.
LEMMA SafeSwapOut ==
  ASSUME Inv, NEW j \in Job, SwapOut(j) PROVE Safe'
<1> USE DEF Inv, TypeOK
<1>1. CASE ~HasSwitches(j) /\ flsins[j] # "run"
  <2>1. UNCHANGED <<pc, suexit, flsins, rpcl, ustp, busrc, sw, held, ust, want,
                    tgt, halted>>
    BY <1>1 DEF SwapOut
  <2>2. ASSUME NEW k \in Job PROVE Stoppers(k)' = Stoppers(k)
    BY <2>1 DEF Stoppers
  <2>3. PlacesConsistent' /\ StoppedInUserMode'
    BY <2>1 DEF Safe, PlacesConsistent, StoppedInUserMode, Stopped, HasSwitches
  <2>4. RpclPaired' /\ SwitchesAccounted'
    BY <2>1 DEF Safe, RpclPaired, SwitchesAccounted, Stopped
  <2> QED BY <2>1, <2>2, <2>3, <2>4 DEF Safe, StopsAccounted, NeverHalts
<1>2. CASE ~(~HasSwitches(j) /\ flsins[j] # "run")
  BY <1>2, SafeClockPclsr DEF SwapOut
<1> QED BY <1>1, <1>2

\* The invariant holds at system start.
LEMMA InvInit == Init => Inv
<1> SUFFICES ASSUME Init PROVE Inv
  OBVIOUS
<1> USE DEF Init
<1>1. \A j \in Job : /\ pc[j] = "user" /\ suexit[j] = "uuoh" /\ flsins[j] = "run"
                     /\ rpcl[j] = 0 /\ ustp[j] = 0 /\ ~busrc[j]
                     /\ held[j] = {} /\ ust[j] = {} /\ tgt[j] = j
  OBVIOUS
<1>2. PlacesConsistent /\ StoppedInUserMode
  BY <1>1 DEF PlacesConsistent, StoppedInUserMode, HasSwitches
<1>3. RpclPaired
  BY <1>1 DEF RpclPaired
<1>4. SwitchesAccounted
  BY <1>1 DEF SwitchesAccounted
<1>5. StopsAccounted
  <2>1. \A b \in Job : Stoppers(b) = {}
    BY <1>1 DEF Stoppers
  <2> QED BY <1>1, <2>1, FS_EmptySet DEF StopsAccounted
<1> QED BY <1>2, <1>3, <1>4, <1>5, TypeInit DEF Inv, Safe, NeverHalts

\* Every step of a job keeps the invariant.
LEMMA SafeJobStep ==
  ASSUME Inv, NEW j \in Job, JobStep(j) PROVE Safe'
<1>1. ASSUME Hang(j) PROVE Safe'
  <2>1. rpcl[j] < 0 => pc[j] # "user"
    BY <1>1 DEF Hang
  <2> QED BY <1>1, <2>1, SafeUfls DEF Hang
<1> QED BY <1>1, SafeUUOH, SafePageFault, SafeExit, SafeSWTL, SafeSWTL1,
           SafeLSWPOP, SafeLSWPOPStop, SafeRPCLSR, SafeUPCLSR, SafeSOSSET
        DEF JobStep

\* Every step at clock level keeps the invariant.
LEMMA SafeClockStep ==
  ASSUME Inv, NEW j \in Job, ClockStep(j) PROVE Safe'
<1>1. ASSUME Interrupt(j) PROVE Safe'
  BY <1>1, SafeClockPclsr DEF Interrupt
<1> QED BY <1>1, SafeSCHED5, SafeFatalInterrupt, SafeSwapOut DEF ClockStep

\* Every step keeps the types and the invariant.
LEMMA InvStep == Inv /\ [Next]_vars => Inv'
<1> SUFFICES ASSUME Inv, [Next]_vars PROVE Inv'
  OBVIOUS
<1>1. CASE UNCHANGED vars
  <2>1. UNCHANGED <<pc, suexit, flsins, rpcl, ustp, busrc, swpcl, sw, held, ust,
                    want, tgt, halted>>
    BY <1>1 DEF vars, call
  <2>2. TypeOK'
    BY <2>1 DEF Inv, TypeOK
  <2>3. ASSUME NEW k \in Job PROVE Stoppers(k)' = Stoppers(k)
    BY <2>1 DEF Stoppers
  <2>4. Safe'
    BY <2>1, <2>3 DEF Inv, Safe, PlacesConsistent, StoppedInUserMode, RpclPaired,
          SwitchesAccounted, StopsAccounted, NeverHalts, Stopped, HasSwitches
  <2> QED BY <2>2, <2>4 DEF Inv
<1>2. ASSUME NEW j \in Job, JobStep(j) PROVE Inv'
  BY <1>2, TypeJobStep, SafeJobStep DEF Inv, Safe
<1>3. ASSUME NEW j \in Job, ClockStep(j) PROVE Inv'
  BY <1>3, TypeClockStep, SafeClockStep DEF Inv
<1> QED BY <1>1, <1>2, <1>3 DEF Next

\* The inductive invariant: types, the pairing of RPCL, the accounts of the
\* switches and of the stops, and what each place in a call is blocked on.
THEOREM InvAlways == Spec => []Inv
<1>1. Init => Inv
  BY InvInit
<1>2. Inv /\ [Next]_vars => Inv'
  BY InvStep
<1> QED BY <1>1, <1>2, PTL DEF Spec

\* Every variable of the program holds a value of its kind, always.
THEOREM TypeAlways == Spec => []TypeOK
<1>1. Inv => TypeOK
  BY DEF Inv
<1> QED BY <1>1, InvAlways, PTL

\* PC losering reaches no BUG and no JRST 4, for any number of jobs.
THEOREM NoHalt == Spec => []NeverHalts
<1>1. Inv => NeverHalts
  BY DEF Inv, Safe
<1> QED BY <1>1, InvAlways, PTL

\* A job that is stopped is out of its system call and holds no switch.
THEOREM StoppedOutside == Spec => []StoppedInUserMode
<1>1. Inv => StoppedInUserMode
  BY DEF Inv, Safe
<1> QED BY <1>1, InvAlways, PTL

\* Wherever an interrupt finds a job, its blocking instruction, the job it is
\* stopping and its exit are those of that place in the call.
THEOREM PlacesAgree == Spec => []PlacesConsistent
<1>1. Inv => PlacesConsistent
  BY DEF Inv, Safe
<1> QED BY <1>1, InvAlways, PTL

\* The words RPCL of a job that stops and of the one it stops always agree.
THEOREM RpclAgrees == Spec => []RpclPaired
<1>1. Inv => RpclPaired
  BY DEF Inv, Safe
<1> QED BY <1>1, InvAlways, PTL

\* No switch is lost and none is held by two jobs.
THEOREM SwitchesKept == Spec => []SwitchesAccounted
<1>1. Inv => SwitchesAccounted
  BY DEF Inv, Safe
<1> QED BY <1>1, InvAlways, PTL

\* USTP counts the stops that will be undone, no more and no fewer.
THEOREM StopsKept == Spec => []StopsAccounted
<1>1. Inv => StopsAccounted
  BY DEF Inv, Safe
<1> QED BY <1>1, InvAlways, PTL

-----------------------------------------------------------------------------
(***************************************************************************)
(* Pclsr implements JobStop, for any number of jobs and any set of          *)
(* switches: every step of the stop protocol is one of the steps Call,      *)
(* Leave, Stop, Release and GoDown, or changes nothing of what JobStop sees. *)
(***************************************************************************)
Simulated == JS!Next \/ UNCHANGED JS!vars

-----------------------------------------------------------------------------
(* The steps of JobStop, in terms of PCs and stoppers.                      *)

\* A job that is not stopped in Pclsr is not stopped in JobStop.
LEMMA CanGoIsRunning ==
  ASSUME Inv, NEW j \in Job, ~Stopped(j) PROVE JS!CanGo(j)
<1>1. ~busrc[j] /\ Stoppers(j) = {}
  BY RunningFacts
<1> QED BY <1>1 DEF JS!CanGo, JS!Job, down, stops, Job

\* Nothing happens that JobStop sees.
LEMMA Stutters ==
  ASSUME \A k \in Job : pc'[k] # "user" <=> pc[k] # "user",
         \A k \in Job : Stoppers(k)' = Stoppers(k),
         \A k \in Job : busrc'[k] = busrc[k]
  PROVE  Simulated
<1>1. inside' = inside
  BY DEF inside
<1>2. stops' = stops
  BY DEF stops
<1>3. down' = down
  BY DEF down
<1> QED BY <1>1, <1>2, <1>3 DEF Simulated, JS!vars

\* Job u leaves its call, and its stops end.
LEMMA Leaves ==
  ASSUME Inv, NEW u \in Job, ~Stopped(u), pc[u] # "user", pc'[u] = "user",
         \A k \in Job : k # u => (pc'[k] # "user" <=> pc[k] # "user"),
         \A k \in Job : Stoppers(k)' = Stoppers(k) \ {u},
         \A k \in Job : busrc'[k] = busrc[k]
  PROVE  Simulated
<1>1. u \in inside /\ inside' = inside \ {u}
  BY DEF inside
<1>2. stops' = stops \ ({u} \X Job)
  BY DEF stops, Stoppers
<1>3. down' = down
  BY DEF down
<1>4. JS!Leave(u)
  BY <1>1, <1>2, <1>3, CanGoIsRunning DEF JS!Leave, JS!StopsOf, JS!Job, Job
<1> QED BY <1>4 DEF Simulated, JS!Next, JS!Job, Job

\* A call of job j stops job u.
LEMMA Stops ==
  ASSUME Inv, NEW j \in Job, NEW u \in Job, j # u,
         ~Stopped(j), pc[j] # "user", pc'[u] = "user",
         \A k \in Job : k # u => (pc'[k] # "user" <=> pc[k] # "user"),
         \A k \in Job : Stoppers(k)' = (Stoppers(k) \ {u})
                                         \cup (IF k = u THEN {j} ELSE {}),
         \A k \in Job : busrc'[k] = busrc[k]
  PROVE  Simulated
<1>1. j \in inside /\ inside' = inside \ {u}
  BY DEF inside
<1>2. stops' = (stops \ ({u} \X Job)) \cup {<<j, u>>}
  BY DEF stops, Stoppers
<1>3. down' = down
  BY DEF down
<1>4. JS!Stop(j, u)
  BY <1>1, <1>2, <1>3, CanGoIsRunning DEF JS!Stop, JS!StopsOf, JS!Job, Job
<1> QED BY <1>4 DEF Simulated, JS!Next, JS!Job, Job

\* A call of job j lets job u go, and may leave it stopped if j is its superior.
LEMMA Releases ==
  ASSUME Inv, NEW j \in Job, NEW u \in Job, j # u, ~Stopped(j), j \in Stoppers(u),
         \A k \in Job : pc'[k] # "user" <=> pc[k] # "user",
         \A k \in Job : Stoppers(k)' = IF k = u THEN Stoppers(k) \ {j} ELSE Stoppers(k),
         \A k \in Job : busrc'[k] = busrc[k] \/ (k = u /\ ~IsInferior(j))
  PROVE  Simulated
<1>1. inside' = inside
  BY DEF inside
<1>2. <<j, u>> \in stops /\ stops' = stops \ {<<j, u>>}
  BY DEF stops, Stoppers
<1>3. \/ UNCHANGED down
      \/ j = 1 /\ u # 1 /\ down' \in {down \cup {u}, down \ {u}}
  BY DEF down, IsInferior
<1>4. JS!Release(j, u)
  BY <1>1, <1>2, <1>3, CanGoIsRunning DEF JS!Release, JS!Superior
<1> QED BY <1>4 DEF Simulated, JS!Next, JS!Job, Job

-----------------------------------------------------------------------------
(* What PCLSR and UFLS do to the PCs and the stoppers.                      *)

\* A job that is backed out is in user mode and stops nobody.
LEMMA BackedOutFacts ==
  ASSUME Inv, NEW u \in Job, PclsrWins(u), pc' = PcAfter(u), tgt' = TgtAfter(u)
  PROVE  /\ pc' = [pc EXCEPT ![u] = "user"]
         /\ \A k \in Job : Stoppers(k)' = Stoppers(k) \ {u}
<1> USE DEF Inv, TypeOK
<1>1. /\ pc[u] # "stop"
      /\ pc' = [pc EXCEPT ![u] = "user"]
      /\ tgt' = [tgt EXCEPT ![u] = u]
      /\ ust' = [ust EXCEPT ![u] = {}]
  BY PclsrWinsFacts
<1> QED BY <1>1 DEF Stoppers

\* Job u is backed out, in its call or in user mode, by nobody.
LEMMA SimulatesBackOut ==
  ASSUME Inv, NEW u \in Job, PclsrWins(u), pc' = PcAfter(u), tgt' = TgtAfter(u),
         UNCHANGED busrc
  PROVE  Simulated
<1>1. /\ pc'[u] = "user" /\ \A k \in Job : k # u => pc'[k] = pc[k]
      /\ \A k \in Job : Stoppers(k)' = Stoppers(k) \ {u}
  BY BackedOutFacts DEF Inv, TypeOK
<1>2. CASE pc[u] # "user"
  <2>1. ~Stopped(u)
    BY <1>2 DEF Inv, Safe, StoppedInUserMode
  <2> QED BY <1>1, <1>2, <2>1, Leaves
<1>3. CASE pc[u] = "user"
  <2>1. \A k \in Job : u \notin Stoppers(k)
    BY <1>3 DEF Stoppers, Inv, TypeOK, Safe, PlacesConsistent, HasSwitches
  <2>2. \A k \in Job : Stoppers(k)' = Stoppers(k)
    BY <1>1, <2>1
  <2>3. \A k \in Job : pc'[k] # "user" <=> pc[k] # "user"
    BY <1>1, <1>3
  <2> QED BY <2>2, <2>3, Stutters
<1> QED BY <1>2, <1>3

\* PCLSR from clock level is Leave or is not seen.
LEMMA SimulatesClockPclsr ==
  ASSUME Inv, NEW u \in Job, ClockPclsr(u) PROVE Simulated
<1>1. CASE UNCHANGED <<pc, tgt, call, busrc>>
  <2>1. ASSUME NEW k \in Job PROVE Stoppers(k)' = Stoppers(k)
    BY <1>1 DEF Stoppers, call
  <2> QED BY <1>1, <2>1, Stutters
<1>2. CASE PclsrWins(u) /\ pc' = PcAfter(u) /\ tgt' = TgtAfter(u) /\ UNCHANGED busrc
  BY <1>2, SimulatesBackOut
<1> QED BY <1>1, <1>2 DEF ClockPclsr

\* A job that stops itself is stopped by the call of the one that waits for it.
LEMMA SimulatesStopSelf ==
  ASSUME Inv, NEW j \in Job, rpcl[j] < 0, StopSelf(j), pc[j] # "stop",
         tgt' = [tgt EXCEPT ![j] = j], ust' = [ust EXCEPT ![j] = {}],
         UNCHANGED busrc
  PROVE  Simulated
<1> USE DEF Inv, TypeOK
<1> DEFINE t == -rpcl[j]
<1>1. /\ t \in Job /\ rpcl[t] = j /\ t # j
      /\ pc[t] = "rpclos" /\ tgt[t] = j /\ j \notin ust[t] /\ ~Stopped(t)
  <2>1. t \in Job /\ rpcl[t] = j /\ t # j
    BY PairedFacts
  <2>2. flsins[t] = "rpclos" /\ tgt[t] = j
    BY <2>1, PairedFacts DEF Safe, RpclPaired
  <2>3. pc[t] = "rpclos"
    BY <2>1, <2>2 DEF Safe, PlacesConsistent, Places
  <2> QED BY <2>1, <2>2, <2>3
          DEF Safe, PlacesConsistent, StoppedInUserMode
<1>2. pc' = [pc EXCEPT ![j] = "user", ![t] = "stop"]
  BY DEF StopSelf
<1> HIDE DEF t
<1>3. ASSUME NEW k \in Job
      PROVE  Stoppers(k)' = (Stoppers(k) \ {j}) \cup (IF k = j THEN {t} ELSE {})
  BY <1>1, <1>2 DEF Stoppers
<1>4. /\ pc'[j] = "user" /\ pc[t] # "user"
      /\ \A k \in Job : k # j => (pc'[k] # "user" <=> pc[k] # "user")
  BY <1>1, <1>2
<1> QED BY <1>1, <1>3, <1>4, Stops

\* A job that lets another stop it is stopped by the call of the other.
LEMMA SimulatesSurrender ==
  ASSUME Inv, NEW j \in Job, rpcl[j] < 0, pc[j] # "stop", NEW exits,
         Surrender(j, exits), UNCHANGED busrc
  PROVE  Simulated
BY SimulatesStopSelf DEF Surrender, ThrownOut

\* UFLS in the same mode: the job hangs, or stops itself.
LEMMA SimulatesUfls ==
  ASSUME Inv, NEW j \in Job, pc[j] # "stop", NEW w, NEW p, NEW s, p # "stop",
         p = "user" <=> pc[j] = "user", Ufls(j, w, p, s), UNCHANGED busrc
  PROVE  Simulated
<1>1. CASE rpcl[j] < 0
  BY <1>1, SimulatesSurrender DEF Ufls
<1>2. CASE ~(rpcl[j] < 0)
  <2>1. pc' = [pc EXCEPT ![j] = p] /\ UNCHANGED <<ust, tgt>>
    BY <1>2 DEF Ufls
  <2>2. ASSUME NEW k \in Job PROVE Stoppers(k)' = Stoppers(k)
    BY <2>1 DEF Stoppers, Inv, TypeOK
  <2>3. \A k \in Job : pc'[k] # "user" <=> pc[k] # "user"
    BY <2>1 DEF Inv, TypeOK
  <2> QED BY <2>2, <2>3, Stutters
<1> QED BY <1>1, <1>2

-----------------------------------------------------------------------------
(* The steps of a job.                                                      *)

\* Entering a system call is Call.
LEMMA SimulatesUUOH == ASSUME Inv, NEW j \in Job, UUOH(j) PROVE Simulated
<1> USE DEF Inv, TypeOK
<1>1. /\ ~Stopped(j) /\ pc' = [pc EXCEPT ![j] = "exec"]
      /\ UNCHANGED <<busrc, ust, tgt>> /\ pc[j] = "user"
  BY DEF UUOH, CanRun, call, Safe, PlacesConsistent
<1>2. stops' = stops
  <2>1. ASSUME NEW k \in Job PROVE Stoppers(k)' = Stoppers(k)
    BY <1>1 DEF Stoppers
  <2> QED BY <2>1 DEF stops
<1>3. inside' = inside \cup {j} /\ down' = down
  BY <1>1 DEF inside, down
<1>4. JS!Call(j)
  BY <1>1, <1>2, <1>3, CanGoIsRunning DEF JS!Call
<1> QED BY <1>4 DEF Simulated, JS!Next, JS!Job, Job

\* Leaving a system call is Leave, or Stop if another waits for it.
LEMMA SimulatesExit == ASSUME Inv, NEW j \in Job, Exit(j) PROVE Simulated
<1> USE DEF Inv, TypeOK
<1>1. /\ ~Stopped(j) /\ pc[j] = "exec" /\ ust[j] = {} /\ tgt[j] = j
      /\ flsins[j] = "run" /\ UNCHANGED <<busrc, ust, tgt>>
  BY DEF Exit, CanRun, HasSwitches, Safe, PlacesConsistent
<1>2. CASE suexit[j] = "uuoh" \/ rpcl[j] = 0
  <2>1. pc' = [pc EXCEPT ![j] = "user"]
    BY <1>2 DEF Exit
  <2>2. ASSUME NEW k \in Job PROVE Stoppers(k)' = Stoppers(k) \ {j}
    BY <1>1, <2>1 DEF Stoppers
  <2> QED BY <1>1, <2>1, <2>2, Leaves
<1>3. CASE ~(suexit[j] = "uuoh" \/ rpcl[j] = 0)
  <2>1. rpcl[j] < 0
    BY <1>1, <1>3, PairedFacts DEF Safe, RpclPaired
  <2>2. StopSelf(j)
    BY <1>3, <2>1, PairedFacts DEF Exit
  <2>3. tgt' = [tgt EXCEPT ![j] = j] /\ ust' = [ust EXCEPT ![j] = {}]
    BY <1>1
  <2> QED BY <1>1, <2>1, <2>2, <2>3, SimulatesStopSelf
<1> QED BY <1>2, <1>3

\* Locking and unlocking switches, and hanging, is not seen by JobStop.
LEMMA SimulatesSwitches ==
  ASSUME Inv, NEW j \in Job,
         \/ Hang(j) \/ PageFault(j) \/ SWTL1(j) \/ LSWPOP(j) \/ SOSSET(j)
         \/ \E s \in Switch : SWTL(j, s)
  PROVE  Simulated
<1> USE DEF Inv, TypeOK
<1>1. CASE Hang(j)
  BY <1>1, SimulatesUfls DEF Hang
<1>2. CASE PageFault(j)
  <2>1. ~(rpcl[j] < 0 /\ pc[j] = "user")
    BY DEF Safe, RpclPaired
  <2> QED BY <1>2, <2>1, SimulatesUfls DEF PageFault
<1>3. ASSUME NEW p,
             pc[j] # "user" /\ p # "user" /\ pc[j] # "stop" /\ p # "stop",
             pc' = [pc EXCEPT ![j] = p], UNCHANGED <<ust, tgt, busrc>>
      PROVE  Simulated
  <2>1. ASSUME NEW k \in Job PROVE Stoppers(k)' = Stoppers(k)
    BY <1>3 DEF Stoppers
  <2>2. \A k \in Job : pc'[k] # "user" <=> pc[k] # "user"
    BY <1>3
  <2> QED BY <1>3, <2>1, <2>2, Stutters
<1>4. CASE SWTL1(j)
  <2>1. CASE sw[want[j]]
    BY <1>4, <2>1, SimulatesUfls DEF SWTL1
  <2>2. CASE ~sw[want[j]]
    BY <1>3, <1>4, <2>2 DEF SWTL1
  <2> QED BY <2>1, <2>2
<1>5. CASE LSWPOP(j)
  <2>1. pc' = [pc EXCEPT ![j] = "exec"] /\ pc[j] = "exec"
    BY <1>5 DEF LSWPOP
  <2> QED BY <1>3, <1>5, <2>1 DEF LSWPOP
<1>6. ASSUME NEW s \in Switch, SWTL(j, s) PROVE Simulated
  <2>1. CASE sw[s]
    BY <1>6, <2>1, SimulatesUfls DEF SWTL
  <2>2. CASE ~sw[s]
    BY <1>3, <1>6, <2>2 DEF SWTL
  <2> QED BY <2>1, <2>2
<1>7. CASE SOSSET(j)
  <2>1. /\ pc[j] = "stop" /\ ust' = [ust EXCEPT ![j] = @ \cup {tgt[j]}]
        /\ pc' = [pc EXCEPT ![j] = "exec"] /\ tgt' = [tgt EXCEPT ![j] = j]
        /\ busrc' = busrc
    BY <1>7 DEF SOSSET
  <2>2. ASSUME NEW k \in Job PROVE Stoppers(k)' = Stoppers(k)
    BY <2>1 DEF Stoppers
  <2> QED BY <2>1, <2>2, Stutters
<1> QED BY <1>1, <1>2, <1>4, <1>5, <1>6, <1>7

\* Undoing a stop is Release.
LEMMA SimulatesRelease ==
  ASSUME Inv, NEW j \in Job, LSWPOPStop(j) \/ UPCLSR(j) PROVE Simulated
<1> USE DEF Inv, TypeOK
<1>1. ~Stopped(j)
  BY DEF LSWPOPStop, UPCLSR, CanRun
<1>2. CASE LSWPOPStop(j)
  <2>1. PICK b \in ust[j] : ust' = [ust EXCEPT ![j] = @ \ {b}]
    BY <1>2 DEF LSWPOPStop
  <2>2. /\ b \in Job /\ b # j /\ pc[j] = "exec" /\ UNCHANGED <<pc, tgt, busrc>>
    BY <1>2 DEF LSWPOPStop, Safe, PlacesConsistent
  <2>3. j \in Stoppers(b)
    BY DEF Stoppers
  <2>4. ASSUME NEW k \in Job
        PROVE  Stoppers(k)' = IF k = b THEN Stoppers(k) \ {j} ELSE Stoppers(k)
    BY <2>1, <2>2 DEF Stoppers
  <2>5. j # b /\ \A k \in Job : /\ pc'[k] # "user" <=> pc[k] # "user"
                                 /\ busrc'[k] = busrc[k]
    BY <2>2
  <2> HIDE DEF Inv, TypeOK
  <2> QED BY <1>1, <2>2, <2>3, <2>4, <2>5, Releases
<1>3. CASE UPCLSR(j)
  <2> PICK b \in Job : b = tgt[j]
    OBVIOUS
  <2>1. /\ pc[j] = "stop" /\ b # j /\ b \notin ust[j] /\ ust' = ust
        /\ pc' = [pc EXCEPT ![j] = "exec"] /\ tgt' = [tgt EXCEPT ![j] = j]
    BY <1>3 DEF UPCLSR, call, Safe, PlacesConsistent
  <2>2. j \in Stoppers(b)
    BY <2>1 DEF Stoppers
  <2>3. ASSUME NEW k \in Job
        PROVE  Stoppers(k)' = IF k = b THEN Stoppers(k) \ {j} ELSE Stoppers(k)
    BY <2>1 DEF Stoppers
  <2>4. \A k \in Job : busrc'[k] = busrc[k] \/ (k = b /\ ~IsInferior(j))
    BY <1>3 DEF UPCLSR
  <2>5. \A k \in Job : pc'[k] # "user" <=> pc[k] # "user"
    BY <2>1
  <2> HIDE DEF Inv, TypeOK
  <2> QED BY <1>1, <2>1, <2>2, <2>3, <2>4, <2>5, Releases
<1> QED BY <1>2, <1>3

\* RPCLSR is Stop, or the caller is stopped instead, or waits unseen.
LEMMA SimulatesRPCLSR ==
  ASSUME Inv, NEW j \in Job, NEW b \in Job, RPCLSR(j, b) PROVE Simulated
<1> USE DEF Inv, TypeOK
<1>1. /\ ~Stopped(j) /\ pc[j] \in {"exec", "rpclsr"} /\ b # j /\ UNCHANGED busrc
  BY DEF RPCLSR, CanRun, Safe, PlacesConsistent
<1>2. CASE StopNow(j, b)
  <2>1. /\ pc[b] # "stop" /\ ust' = [ust EXCEPT ![b] = {}]
        /\ pc' = [pc EXCEPT ![b] = "user", ![j] = "stop"]
        /\ tgt' = [tgt EXCEPT ![b] = b, ![j] = b]
    BY <1>2, PclsrWinsFacts DEF StopNow
  <2>2. ASSUME NEW k \in Job
        PROVE  Stoppers(k)' = (Stoppers(k) \ {b}) \cup (IF k = b THEN {j} ELSE {})
    BY <1>1, <2>1 DEF Stoppers
  <2>3. /\ pc'[b] = "user"
        /\ \A k \in Job : k # b => (pc'[k] # "user" <=> pc[k] # "user")
    BY <1>1, <2>1
  <2> QED BY <1>1, <2>2, <2>3, Stops
<1>3. CASE RPCLOS(j, b)
  <2>1. CASE rpcl[j] < 0 /\ Surrender(j, ExitsAfterFailure(b))
    BY <1>1, <2>1, SimulatesSurrender
  <2>2. CASE \E w \in {"rpclos", "rpcls2"} :
               /\ pc' = [pc EXCEPT ![j] = w] /\ tgt' = [tgt EXCEPT ![j] = b]
               /\ UNCHANGED call
    <3>1. ASSUME NEW k \in Job PROVE Stoppers(k)' = Stoppers(k)
      BY <1>1, <2>2 DEF Stoppers, call
    <3>2. \A k \in Job : pc'[k] # "user" <=> pc[k] # "user"
      BY <1>1, <2>2
    <3> QED BY <1>1, <3>1, <3>2, Stutters
  <2>3. CASE UNCHANGED <<pc, call, tgt>>
    <3>1. ASSUME NEW k \in Job PROVE Stoppers(k)' = Stoppers(k)
      BY <2>3 DEF Stoppers, call
    <3> QED BY <1>1, <2>3, <3>1, Stutters
  <2> QED BY <1>3, <2>1, <2>2, <2>3 DEF RPCLOS
<1> QED BY <1>2, <1>3, NoPclsrBug DEF RPCLSR

-----------------------------------------------------------------------------
(* The steps at clock level, and the theorem.                               *)

\* A fatal interrupt is GoDown.
LEMMA SimulatesFatal ==
  ASSUME Inv, NEW j \in Job, FatalInterrupt(j) PROVE Simulated
<1>1. ~Stopped(j) /\ j # 1
  BY DEF FatalInterrupt, IsInferior
<1>2. /\ pc' = [pc EXCEPT ![j] = "user"]
      /\ \A k \in Job : Stoppers(k)' = Stoppers(k) \ {j}
      /\ busrc' = [busrc EXCEPT ![j] = TRUE]
  BY BackedOutFacts DEF FatalInterrupt
<1>3. inside' = inside \ {j}
  BY <1>2 DEF inside, Inv, TypeOK
<1>4. stops' = stops \ ({j} \X Job)
  BY <1>2 DEF stops, Stoppers
<1>5. down' = down \cup {j}
  BY <1>2 DEF down, Inv, TypeOK
<1>6. JS!GoDown(j)
  BY <1>1, <1>3, <1>4, <1>5, CanGoIsRunning
     DEF JS!GoDown, JS!Superior, JS!StopsOf, JS!Job, Job
<1> QED BY <1>6 DEF Simulated, JS!Next, JS!Job, Job

\* Every step at clock level is a step of JobStop or is not seen.
LEMMA SimulatesClockStep ==
  ASSUME Inv, NEW j \in Job, ClockStep(j) PROVE Simulated
<1> USE DEF Inv, TypeOK
<1>1. CASE SCHED5(j)
  <2>1. CASE swpcl[j]
    BY <1>1, <2>1, SimulatesClockPclsr DEF SCHED5
  <2>2. CASE ~swpcl[j]
    <3>1. /\ pc' = [pc EXCEPT ![j] = Resumed(pc[j])] /\ Unblocked(j)
          /\ UNCHANGED <<busrc, ust, tgt>>
      BY <1>1, <2>2 DEF SCHED5, call
    <3>2. pc[j] # "rpclos"
      BY <3>1, PairedFacts DEF Unblocked, Safe, PlacesConsistent
    <3>3. pc' = pc \/ (pc[j] = "rpcls2" /\ pc' = [pc EXCEPT ![j] = "rpclsr"])
      BY <3>1, <3>2 DEF Resumed, Places
    <3>4. ASSUME NEW k \in Job PROVE Stoppers(k)' = Stoppers(k)
      BY <3>1, <3>3 DEF Stoppers
    <3>5. \A k \in Job : pc'[k] # "user" <=> pc[k] # "user"
      BY <3>3
    <3> QED BY <3>1, <3>4, <3>5, Stutters
  <2> QED BY <2>1, <2>2
<1>2. CASE SwapOut(j)
  <2>1. CASE UNCHANGED <<pc, tgt, ust, busrc>>
    <3>1. ASSUME NEW k \in Job PROVE Stoppers(k)' = Stoppers(k)
      BY <2>1 DEF Stoppers
    <3> QED BY <2>1, <3>1, Stutters
  <2> QED BY <1>2, <2>1, SimulatesClockPclsr DEF SwapOut
<1>3. CASE Interrupt(j)
  BY <1>3, SimulatesClockPclsr DEF Interrupt
<1> QED BY <1>1, <1>2, <1>3, SimulatesFatal DEF ClockStep

\* At system start nobody is in a call or stopped.
LEMMA SimulatesInit == Init => JS!Init
<1> SUFFICES ASSUME Init PROVE JS!Init
  OBVIOUS
<1>1. \A k \in Job : /\ pc[k] = "user" /\ ust[k] = {} /\ ~busrc[k]
  BY DEF Init
<1>2. inside = {} /\ stops = {} /\ down = {}
  BY <1>1 DEF inside, stops, down, Stoppers
<1> QED BY <1>2 DEF JS!Init

\* Every step is a step of JobStop or is not seen.
LEMMA SimulatesNext == Inv /\ [Next]_vars => [JS!Next]_(JS!vars)
<1> SUFFICES ASSUME Inv, [Next]_vars PROVE Simulated
  BY DEF Simulated
<1>1. ASSUME NEW j \in Job, JobStep(j) PROVE Simulated
  BY <1>1, SimulatesUUOH, SimulatesExit, SimulatesSwitches, SimulatesRelease,
     SimulatesRPCLSR DEF JobStep
<1>2. ASSUME NEW j \in Job, ClockStep(j) PROVE Simulated
  BY <1>2, SimulatesClockStep
<1>3. CASE UNCHANGED vars
  <2>1. UNCHANGED <<pc, tgt, ust, busrc>>
    BY <1>3 DEF vars, call
  <2>2. ASSUME NEW k \in Job PROVE Stoppers(k)' = Stoppers(k)
    BY <2>1 DEF Stoppers
  <2> QED BY <2>1, <2>2, Stutters
<1> QED BY <1>1, <1>2, <1>3 DEF Next

\* For any number of jobs, one that keeps another stopped is in a call and is
\* stopped by nobody (RPCLSR, LSWZAP).
THEOREM NeverEmbrace == Spec => []NoEmbrace
<1>1. ASSUME Inv, NEW j \in JS!Job, NEW u \in JS!Job, <<j, u>> \in stops
      PROVE  JS!CanGo(j) /\ j \in inside
  <2>1. j \in Job /\ j \in Stoppers(u)
    BY <1>1 DEF stops, Job, JS!Job
  <2>2. pc[j] # "user"
    BY <2>1, <1>1 DEF Stoppers, Inv, Safe, PlacesConsistent, HasSwitches
  <2>3. ~Stopped(j)
    BY <2>1, <2>2, <1>1 DEF Inv, Safe, StoppedInUserMode
  <2> QED BY <1>1, <2>1, <2>2, <2>3, CanGoIsRunning DEF inside
<1>2. Inv => NoEmbrace
  BY <1>1 DEF NoEmbrace, JS!NoEmbrace
<1> QED BY <1>2, InvAlways, PTL

\* PC losering keeps all that JobStop promises: Pclsr is an implementation of
\* it, for any number of jobs (PCLSR, RPCLSR, UFLS, ONEFL2).
THEOREM Implements == Spec => StopsJobs
<1>1. Spec => []Inv
  BY InvAlways
<1>2. Init => JS!Init
  BY SimulatesInit
<1>3. Inv /\ [Next]_vars => [JS!Next]_(JS!vars)
  BY SimulatesNext
<1> QED BY <1>1, <1>2, <1>3, PTL DEF Spec, StopsJobs, JS!Spec
=============================================================================
