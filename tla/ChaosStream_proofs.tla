-------------------------- MODULE ChaosStream_proofs --------------------------
(***************************************************************************)
(* The promises of ChaosStream, for any window.  The writer decides by     *)
(* what is acknowledged, so that the invariant bounds wrote by acked and   *)
(* not, as Flows does, by read.                                            *)
(***************************************************************************)
EXTENDS ChaosStream, TLAPS

InWindow == wrote <= acked + Win

IInv == TypeOK /\ Flows /\ InWindow

\* What is within k of a is within k of anything greater.
LEMMA MoreSlack ==
  ASSUME NEW w \in Int, NEW a \in Int, NEW b \in Int, NEW k \in Int, w <= a + k, a < b
  PROVE  w <= b + k
OBVIOUS

\* A new stream has its counters in order.
LEMMA InitIInv ==
  ASSUME Win \in Nat \ {0}, MaxWrote \in Nat
  PROVE  Init => IInv
<1> SUFFICES ASSUME Init PROVE IInv
  OBVIOUS
<1>1. up \in BOOLEAN
  BY DEF Init
<1>2. wrote = 0 /\ got = 0 /\ read = 0 /\ acked = 0
  BY DEF Init
<1> QED
  BY <1>1, <1>2 DEF IInv, TypeOK, Flows, InStep, InWindow

\* Write, Deliver, Read and Acknowledge keep the counters in order.
LEMMA NextIInv ==
  ASSUME Win \in Nat \ {0}, MaxWrote \in Nat
  PROVE  IInv /\ [Next]_stream => IInv'
<1> USE DEF IInv, TypeOK, Flows, InStep, InWindow
<1> SUFFICES ASSUME IInv, [Next]_stream PROVE IInv'
  OBVIOUS
<1>1. CASE Join
  BY <1>1 DEF Join
<1>2. CASE Commit
  BY <1>2 DEF Commit
<1>3. CASE Arrive
  BY <1>3 DEF Arrive
<1>4. CASE Read
  BY <1>4 DEF Read
<1>5. CASE Ack
  <2>1. /\ acked' \in Nat /\ acked < acked' /\ acked' <= read
        /\ up' \in BOOLEAN /\ wrote' = wrote /\ got' = got /\ read' = read
    BY <1>5 DEF Ack
  <2>2. TypeOK'
    BY <2>1
  <2>3. Flows'
    BY <2>1
  <2>4. InWindow'
    <3>1. /\ acked \in Int /\ acked' \in Int /\ wrote \in Int /\ Win \in Int
          /\ wrote <= acked + Win
      BY <2>1
    <3>2. wrote <= acked' + Win
      BY <2>1, <3>1, MoreSlack
    <3> QED
      BY <2>1, <3>2
  <2> QED
    BY <2>2, <2>3, <2>4
<1>6. CASE Part
  <2>1. up' \in BOOLEAN
    BY <1>6 DEF Part
  <2>2. wrote' = 0 /\ got' = 0 /\ read' = 0 /\ acked' = 0
    BY <1>6 DEF Part
  <2> QED
    BY <2>1, <2>2
<1>7. CASE UNCHANGED stream
  BY <1>7 DEF stream
<1> QED
  BY <1>1, <1>2, <1>3, <1>4, <1>5, <1>6, <1>7 DEF Next

\* The counters of a stream are always in order.
LEMMA Invariance ==
  ASSUME Win \in Nat \ {0}, MaxWrote \in Nat
  PROVE  Spec => []IInv
<1>1. Init => IInv
  BY InitIInv
<1>2. IInv /\ [Next]_stream => IInv'
  BY NextIInv
<1> QED
  BY <1>1, <1>2, PTL DEF Spec

(* The counters keep their type. *)
THEOREM StreamTyped ==
  ASSUME Win \in Nat \ {0}, MaxWrote \in Nat
  PROVE  Spec => []TypeOK
<1>1. IInv => TypeOK
  BY DEF IInv
<1>2. Spec => []IInv
  BY Invariance
<1> QED
  BY <1>1, <1>2, PTL

(* Whatever the window, nothing is acknowledged unread, read unreceived or received unwritten, *)
(* and the writer is at most one window ahead of the reader.                                   *)
THEOREM StreamFlows ==
  ASSUME Win \in Nat \ {0}, MaxWrote \in Nat
  PROVE  Spec => []Flows
<1>1. IInv => Flows
  BY DEF IInv
<1>2. Spec => []IInv
  BY Invariance
<1> QED
  BY <1>1, <1>2, PTL
=============================================================================
