---------------------------- MODULE JobStop_proofs ----------------------------
(* Proofs about JobStop, for any number of jobs. *)
EXTENDS JobStop, TLAPS

\* A stopped job is in user mode: with NoEmbrace, an inductive invariant.
StoppedOutside == \A u \in Job : ~CanGo(u) => u \notin inside

Inv == TypeOK /\ StoppedOutside /\ NoEmbrace

\* At first nobody is in a call or stopped.
LEMMA InvInit == Init => Inv
BY DEF Init, Inv, TypeOK, StoppedOutside, NoEmbrace, CanGo

\* Each of the actions keeps Inv: who is added to inside can go, who is
\* stopped is taken out of it, and with a job its stops go.
LEMMA InvStep == Inv /\ [Next]_vars => Inv'
<1> SUFFICES ASSUME Inv, [Next]_vars PROVE Inv'
  OBVIOUS
<1> USE DEF Inv, TypeOK, StoppedOutside, NoEmbrace, CanGo, StopsOf
<1>1. ASSUME NEW u \in Job, Call(u) PROVE Inv'
  BY <1>1 DEF Call
<1>2. ASSUME NEW u \in Job, Leave(u) PROVE Inv'
  BY <1>2 DEF Leave
<1>3. ASSUME NEW u \in Job, GoDown(u) PROVE Inv'
  BY <1>3 DEF GoDown
<1>4. ASSUME NEW u \in Job, NEW j \in Job, Stop(j, u) PROVE Inv'
  <2>1. /\ inside' = inside \ {u} /\ down' = down /\ j \in inside /\ j # u /\ CanGo(j)
        /\ stops' = {s \in stops : s \notin {u} \X Job} \cup {<<j, u>>}
    BY <1>4 DEF Stop
  <2>2. TypeOK'
    BY <2>1
  <2>3. ASSUME NEW i \in Job, NEW v \in Job
        PROVE  <<i, v>> \in stops' <=> (<<i, v>> \in stops /\ i # u) \/ (i = j /\ v = u)
    BY <2>1
  <2>4. StoppedOutside'
    BY <2>1, <2>3
  <2>5. NoEmbrace'
    BY <2>1, <2>3
  <2> QED BY <2>2, <2>4, <2>5
<1>5. ASSUME NEW u \in Job, NEW j \in Job, Release(j, u) PROVE Inv'
  BY <1>5 DEF Release
<1>6. CASE UNCHANGED vars
  BY <1>6 DEF vars
<1> QED BY <1>1, <1>2, <1>3, <1>4, <1>5, <1>6 DEF Next

\* For any number of jobs, the stops and the calls always fit together (PCLSR, RPCLSR).
THEOREM InvAlways == Spec => []Inv
<1>1. Init => Inv
  BY InvInit
<1>2. Inv /\ [Next]_vars => Inv'
  BY InvStep
<1> QED BY <1>1, <1>2, PTL DEF Spec

\* The jobs in a call, the stops and the jobs stopped for good keep their types.
THEOREM TypeAlways == Spec => []TypeOK
<1>1. Inv => TypeOK
  BY DEF Inv
<1> QED BY <1>1, InvAlways, PTL

\* Jobs that are stopped never wait for each other to be let go.
THEOREM NeverEmbrace == Spec => []NoEmbrace
<1>1. Inv => NoEmbrace
  BY DEF Inv
<1> QED BY <1>1, InvAlways, PTL

\* A stopped job takes no step, whichever the number of jobs.
THEOREM StoppedNeverMove == Spec => StoppedStayPut
<1>1. ASSUME Inv, [Next]_vars, NEW u \in Job, ~CanGo(u)
      PROVE  u \notin inside /\ u \notin inside'
  <2>1. u \notin inside
    BY <1>1 DEF Inv, StoppedOutside
  <2>2. ASSUME NEW v \in Job, Call(v) PROVE u \notin inside'
    BY <1>1, <2>1, <2>2 DEF Call
  <2>3. ASSUME NEW v \in Job, ~Call(v),
               \/ Leave(v) \/ GoDown(v)
               \/ \E j \in Job : Stop(j, v) \/ Release(j, v)
        PROVE  u \notin inside'
    BY <2>1, <2>3 DEF Leave, GoDown, Stop, Release
  <2>4. CASE UNCHANGED vars
    BY <2>1, <2>4 DEF vars
  <2> QED BY <1>1, <2>1, <2>2, <2>3, <2>4 DEF Next
<1>2. Inv /\ [Next]_vars
        => [\A u \in Job : ~CanGo(u) => u \notin inside /\ u \notin inside']_vars
  BY <1>1
<1> QED BY <1>2, InvAlways, PTL DEF Spec, StoppedStayPut
=============================================================================
