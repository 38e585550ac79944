-------------------------- MODULE ChaosData_proofs --------------------------
(***************************************************************************)
(* More proofs about Chaos: what a step does to what a connection counts   *)
(* (StepCounts), and, from that and from the names, the data of a          *)
(* connection: its numbers, its window, what has been received in order    *)
(* and early, and what is acknowledged.  All this is for indices that do   *)
(* not use up half of the packet numbers in one life (Short).              *)
(***************************************************************************)
EXTENDS ChaosNames_proofs, FiniteSetTheorems

-----------------------------------------------------------------------------
(* What a step does to what a connection counts: the packets it has numbered and those it  *)
(* keeps, what has been acknowledged to it, and the window.                                 *)

SameCounts(k, r) ==
  r.uniq = k.uniq /\ r.pknx = k.pknx /\ r.ackx = k.ackx /\ r.winx = k.winx /\ r.nos = k.nos

KeepsNothingNew(k, r) == Kept(r.obf) \subseteq Kept(k.obf)
KeepsOne(k, r, op, pn) ==
  \A q \in Kept(r.obf) : q \in Kept(k.obf) \/ (q.op = op /\ q.pn = pn)

\* A new life of the index, which may have sent a RFC.
Born(k, r) ==
  /\ r.uniq = k.uniq + 1 /\ r.ackx = 0 /\ r.nos = 0 /\ r.pc \in {"user", "listen"} /\ r.op = "DAT"
  /\ \/ r.sta \in {"CLS", "LSN", "RFC"} /\ r.pknx = 0
     \/ r.sta = "RFS" /\ r.pknx = 1
  /\ r.sta # "RFC" => r.pknr = 0
  /\ \A q \in Kept(r.obf) : r.sta = "RFS" /\ q.op = "RFC" /\ q.pn = 1

Stays(c, k, r) ==
  /\ SameCounts(k, r) /\ KeepsNothingNew(k, r)
  /\ r.sta \in {"LSN", "RFS", "OPN"} => k.sta = r.sta
  /\ r.sta = "RFC" => k.sta \in {"LSN", "RFC"}
  /\ r.pc \in {"window", "number"} =>
       k.pc \in {"window", "number"} \/ (k.sta = "OPN" /\ k.pknx < MaxPkn[c])
  /\ r.pc = "queue" <=> k.pc = "queue"
  /\ r.pc = "number" => k.pc = "number" \/ (k.nos > 0 /\ k.pc # "queue")
  /\ r.op = "EOF" => k.op = "EOF" \/ "EOF" \in Kinds[c]

\* A packet is numbered (CHODT1, CHOOP1).
Numbers(k, r) ==
  /\ k.pc = "number" /\ r.pc = "queue" /\ r.op = k.op
  /\ r.uniq = k.uniq /\ r.pknx = Succ(k.pknx) /\ r.ackx = k.ackx /\ r.winx = k.winx /\ r.nos = k.nos
  /\ KeepsNothingNew(k, r)
  /\ r.sta = k.sta \/ (r.sta = "OPN" /\ k.op = "EOF")

\* It is put on the send list.
Queues(k, r) ==
  /\ k.pc = "queue" /\ r.pc = "user" /\ r.op = "DAT" /\ r.sta = k.sta
  /\ r.uniq = k.uniq /\ r.pknx = k.pknx /\ r.ackx = k.ackx /\ r.winx = k.winx
  /\ r.nos = (IF k.op = "DAT" THEN k.nos - 1 ELSE k.nos)
  /\ KeepsOne(k, r, k.op, k.pknx)

\* A RFC is accepted (CHOOPN).
Accepts(k, r) ==
  /\ k.sta = "RFC" /\ r.sta = "OPN" /\ r.pc = k.pc /\ r.op = k.op
  /\ r.uniq = k.uniq /\ r.pknx = Succ(k.pknx) /\ r.ackx = k.ackx /\ r.winx = k.winx /\ r.nos = k.nos
  /\ KeepsOne(k, r, "OPN", r.pknx)

\* A packet of the other end acknowledges others (CHIAK0).
Acks(c, k, r, p) ==
  /\ p.op \in Named \ {"RFC"} /\ p.src = r.frn /\ p.dst = <<c, k.uniq>>
  /\ k.sta \in {"RFS", "OPN"} /\ r.sta = "OPN" /\ r.pc = k.pc /\ r.op = k.op
  /\ r.uniq = k.uniq /\ r.pknx = k.pknx
  /\ r.ackx = (IF Before(k.ackx, p.ack) THEN p.ack ELSE k.ackx)
  /\ r.nos = FreeWindow(r.winx, r.ackx, k.pknx)
  /\ KeepsNothingNew(k, r)

Counts(c, k, r) ==
  \/ Born(k, r) \/ Stays(c, k, r) \/ Numbers(k, r) \/ Queues(k, r) \/ Accepts(k, r)
  \/ \E p \in Traffic : Acks(c, k, r, p)

CountsAll == \A c \in Conn : cb'[c] = cb[c] \/ Counts(c, cb[c], cb'[c])

LEMMA CountsBy ==
  ASSUME TypeInv, NEW c \in Conn, NEW r, cb' = [cb EXCEPT ![c] = r], Counts(c, cb[c], r)
  PROVE  CountsAll
<1>1. cb'[c] = r /\ \A d \in Conn : d # c => cb'[d] = cb[d]
  BY OneChanges DEF TypeInv
<1> QED BY <1>1 DEF CountsAll

LEMMA CallCounts ==
  ASSUME ConnAssumption, TypeInv, ControlInv, NEW c \in Conn, Call(c)
  PROVE  CountsAll
<1> DEFINE k == cb[c]
           h == HostOf[c]
<1>0. k \in GoodConnections /\ k \in Connections /\ k.uniq \in Nat /\ Control(c, k) /\ k.obf \in Seq(GoodPackets)
  BY FieldTypes DEF TypeInv, ControlInv
<1>1. CASE CHAOSO(c)
  <2> DEFINE r == [Closed(k.uniq + 1) EXCEPT !.usr = TRUE]
  <2>1. cb' = [cb EXCEPT ![c] = r]
    BY <1>1 DEF CHAOSO
  <2>2. /\ r.uniq = k.uniq + 1 /\ r.ackx = 0 /\ r.nos = 0 /\ r.pc = "user" /\ r.op = "DAT"
        /\ r.sta = "CLS" /\ r.pknx = 0 /\ r.pknr = 0 /\ r.obf = <<>>
    BY DEF Closed
  <2> HIDE DEF r
  <2>3. Counts(c, k, r)
    BY <2>2, KeptNone DEF Counts, Born
  <2> QED BY <2>1, <2>3, CountsBy
<1>2. CASE CHOLSN(c)
  <2> DEFINE f == CHORF1(k)
             r == [f EXCEPT !.sta = "LSN"]
             l == [r EXCEPT !.pc = "listen"]
             pending == chqrfc[h]
  <2>1. f \in Connections
    BY <1>0, CHORF1Good, FieldTypes
  <2>2. /\ f.obf = <<>> /\ f.uniq = k.uniq + 1 /\ f.pc = "user" /\ f.op = "DAT"
        /\ f.pknr = 0 /\ f.pknx = 0 /\ f.ackx = 0 /\ f.nos = 0
    BY <1>0, CHORF1Fields
  <2> HIDE DEF f
  <2>3. /\ r \in Connections /\ r.sta = "LSN" /\ r.obf = <<>> /\ r.uniq = k.uniq + 1 /\ r.pc = "user"
        /\ r.op = "DAT" /\ r.pknr = 0 /\ r.pknx = 0 /\ r.ackx = 0 /\ r.nos = 0
    BY ZenonT(60), <2>1, <2>2 DEF Connections
  <2>5. CASE pending = <<>>
    <3>1. cb' = [cb EXCEPT ![c] = l]
      BY <1>2, <2>5 DEF CHOLSN, f
    <3> HIDE DEF r
    <3>2. /\ l.sta = "LSN" /\ l.obf = <<>> /\ l.uniq = k.uniq + 1 /\ l.pc = "listen"
          /\ l.op = "DAT" /\ l.pknr = 0 /\ l.pknx = 0 /\ l.ackx = 0 /\ l.nos = 0
      BY <2>3 DEF Connections
    <3> HIDE DEF l
    <3>3. Counts(c, k, l)
      BY <3>2, KeptNone DEF Counts, Born
    <3> QED BY <3>1, <3>3, CountsBy
  <2>6. CASE pending # <<>>
    <3> DEFINE p == Head(pending)
               m == CHIRF0(r, p)
    <3>1. cb' = [cb EXCEPT ![c] = m]
      BY <1>2, <2>6 DEF CHOLSN, f
    <3> HIDE DEF r
    <3>a. pending \in Seq(GoodPackets)
      BY DEF TypeInv, Hosts
    <3>b. p \in GoodPackets
      BY <2>6, <3>a
    <3>c. p \in PacketTypes
      BY <3>b, PacketFields
    <3> HIDE DEF p
    <3>d. r \in Connections /\ p \in PacketTypes
      BY <2>3, <3>c
    <3>e. /\ m.sta = "RFC" /\ m.obf = <<>> /\ m.uniq = r.uniq /\ m.pc = r.pc
          /\ m.op = r.op /\ m.pknx = r.pknx /\ m.ackx = r.ackx /\ m.nos = r.nos
      BY ZenonT(60), <3>d, CHIRF0Fields
    <3> HIDE DEF m
    <3>3. Counts(c, k, m)
      BY <2>3, <3>e, KeptNone DEF Counts, Born
    <3> QED BY <3>1, <3>3, CountsBy
  <2> QED BY <2>5, <2>6
<1>3. CASE CHOOPN(c)
  <2> DEFINE n == Succ(k.pknx)
             m == [k EXCEPT !.sta = "OPN", !.off = FALSE, !.sts = FALSE,
                            !.pknx = n, !.ackr = k.pknr]
             p == WithReceipt(c, m, Outgoing(c, m, "OPN", m.pknx))
             q == Append(k.obf, p)
             r == [m EXCEPT !.obf = q]
  <2>1. cb' = [cb EXCEPT ![c] = r] /\ k.sta = "RFC"
    BY <1>0, <1>3 DEF CHOOPN, Connections
  <2>a. n \in PktNumber
    BY <1>0, FieldTypes, NumberTypes
  <2> HIDE DEF n
  <2>b. m \in Connections
    BY <1>0, <2>a, ZenonT(60) DEF Connections
  <2>2. /\ m.sta = "OPN" /\ m.pc = k.pc /\ m.op = k.op /\ m.uniq = k.uniq
        /\ m.pknx = n /\ m.ackx = k.ackx /\ m.winx = k.winx /\ m.nos = k.nos
    BY <1>0 DEF Connections
  <2> HIDE DEF m
  <2>3. p.op = "OPN" /\ p.pn = n
    <3>1. p = WithReceipt(c, m, Outgoing(c, m, "OPN", n))
      BY <2>2
    <3> QED BY <3>1, ReceiptFields
  <2> HIDE DEF p
  <2>4. q = Append(k.obf, p)
    OBVIOUS
  <2> HIDE DEF q
  <2>5. /\ r.sta = "OPN" /\ r.pc = k.pc /\ r.op = k.op /\ r.uniq = k.uniq
        /\ r.pknx = n /\ r.ackx = k.ackx /\ r.winx = k.winx /\ r.nos = k.nos /\ r.obf = q
    BY <2>b, <2>2 DEF Connections
  <2> HIDE DEF r
  <2>6. \A x \in Kept(r.obf) : x \in Kept(k.obf) \/ x = p
    BY <1>0, <2>4, <2>5, KeptAppend
  <2>7. Accepts(k, r)
    BY <2>1, <2>3, <2>5, <2>6 DEF Accepts, KeepsOne, n
  <2>8. Counts(c, k, r)
    BY <2>7 DEF Counts
  <2> QED BY <2>1, <2>8, CountsBy
<1>4. ASSUME NEW op \in {"CLS", "ANS"}, NEW from, Shut(c, op, from) PROVE CountsAll
  <2> DEFINE r == [k EXCEPT !.sta = "CLS", !.off = TRUE, !.sts = FALSE, !.ackr = k.pknr]
  <2>1. cb' = [cb EXCEPT ![c] = r] /\ k.pc = "user"
    BY <1>4 DEF Shut, CanIO
  <2>2. /\ r.sta = "CLS" /\ r.pc = k.pc /\ r.op = k.op /\ r.uniq = k.uniq
        /\ r.pknx = k.pknx /\ r.ackx = k.ackx /\ r.winx = k.winx /\ r.nos = k.nos /\ r.obf = k.obf
    BY <1>0 DEF Connections
  <2> HIDE DEF r
  <2>3. Counts(c, k, r)
    BY <2>1, <2>2 DEF Counts, Stays, SameCounts, KeepsNothingNew
  <2> QED BY <2>1, <2>3, CountsBy
<1>5. ASSUME NEW l \in Listeners, CHORFC(c, HostOf[l]) PROVE CountsAll
  <2> DEFINE f == CHORF1(k)
             g == HostAddr(HostOf[l])
             m == [f EXCEPT !.frn = g, !.sta = "RFS", !.off = FALSE, !.pknx = 1]
             p == Outgoing(c, m, "RFC", 1)
             q == <<p>>
             r == [m EXCEPT !.obf = q]
  <2>1. f \in Connections
    BY <1>0, CHORF1Good, FieldTypes
  <2>2. /\ f.pknr = 0 /\ f.ackx = 0 /\ f.nos = 0 /\ f.op = "DAT"
        /\ f.uniq = k.uniq + 1 /\ f.pc = "user"
    BY <1>0, CHORF1Fields
  <2>3. cb' = [cb EXCEPT ![c] = r]
    BY <1>5 DEF CHORFC
  <2> HIDE DEF f, g, m
  <2>6. p.op = "RFC" /\ p.pn = 1
    BY OutgoingFields
  <2> HIDE DEF p
  <2>7. \A x \in Kept(q) : x = p
    BY KeptOne
  <2> HIDE DEF q
  <2> USE DEF m
  <2>8. /\ r.sta = "RFS" /\ r.pknr = f.pknr /\ r.uniq = f.uniq /\ r.pc = "user" /\ r.obf = q
        /\ r.pknx = 1 /\ r.ackx = f.ackx /\ r.nos = f.nos /\ r.op = f.op
    BY <2>1, <2>2 DEF Connections
  <2> HIDE DEF r, m
  <2>9. Counts(c, k, r)
    BY <2>2, <2>6, <2>7, <2>8 DEF Counts, Born
  <2> QED BY <2>3, <2>9, CountsBy
<1>6. ASSUME NEW op \in {"DAT", "EOF"}, CHODAT(c, op) PROVE CountsAll
  <2> DEFINE s == IF k.nos > 0 THEN "number" ELSE "window"
             r == [k EXCEPT !.pc = s, !.op = op]
  <2>1. /\ cb' = [cb EXCEPT ![c] = r] /\ k.sta = "OPN" /\ k.pknx < MaxPkn[c] /\ k.pc = "user"
        /\ op = "EOF" => "EOF" \in Kinds[c]
    BY <1>6 DEF CHODAT, CanIO
  <2>a. s \in {"number", "window"} /\ (s = "number" => k.nos > 0)
    OBVIOUS
  <2> HIDE DEF s
  <2>2. /\ r.sta = k.sta /\ r.pc = s /\ r.op = op /\ r.uniq = k.uniq
        /\ r.pknx = k.pknx /\ r.ackx = k.ackx /\ r.winx = k.winx /\ r.nos = k.nos /\ r.obf = k.obf
    BY <1>0 DEF Connections
  <2> HIDE DEF r
  <2>3. Counts(c, k, r)
    BY <2>a, <2>1, <2>2 DEF Counts, Stays, SameCounts, KeepsNothingNew
  <2> QED BY <2>1, <2>3, CountsBy
<1>7. ASSUME NEW n \in UncNumbers, CHOUNC(c, n) PROVE CountsAll
  BY <1>7 DEF CHOUNC, CountsAll
<1>8. CASE CHACS7(c)
  <2> DEFINE r == [k EXCEPT !.half = TRUE]
  <2>1. cb' = [cb EXCEPT ![c] = r]
    BY <1>8 DEF CHACS7
  <2>2. /\ r.sta = k.sta /\ r.pc = k.pc /\ r.op = k.op /\ r.uniq = k.uniq
        /\ r.pknx = k.pknx /\ r.ackx = k.ackx /\ r.winx = k.winx /\ r.nos = k.nos /\ r.obf = k.obf
    BY <1>0 DEF Connections
  <2> HIDE DEF r
  <2>3. Counts(c, k, r)
    BY <2>2 DEF Counts, Stays, SameCounts, KeepsNothingNew
  <2> QED BY <2>1, <2>3, CountsBy
<1>9. CASE CHACS1(c)
  <2> DEFINE r == [k EXCEPT !.off = TRUE, !.ibf = <<>>, !.pbf = <<>>, !.obf = <<>>, !.pc = "close"]
  <2>1. cb' = [cb EXCEPT ![c] = r] /\ k.pc = "user"
    BY <1>9 DEF CHACS1
  <2>2. /\ r.sta = k.sta /\ r.pc = "close" /\ r.op = k.op /\ r.uniq = k.uniq
        /\ r.pknx = k.pknx /\ r.ackx = k.ackx /\ r.winx = k.winx /\ r.nos = k.nos /\ r.obf = <<>>
    BY <1>0 DEF Connections
  <2> HIDE DEF r
  <2>3. Counts(c, k, r)
    BY <2>1, <2>2, KeptNone DEF Counts, Stays, SameCounts, KeepsNothingNew
  <2> QED BY <2>1, <2>3, CountsBy
<1> QED BY <1>1, <1>2, <1>3, <1>4, <1>5, <1>6, <1>7, <1>8, <1>9 DEF Call, CHOCLS, CHOFWD

LEMMA CHPKICounts ==
  ASSUME ConnAssumption, TypeInv, NEW c \in Conn, CHPKI(c)
  PROVE  CountsAll
<1> DEFINE k == cb[c]
           p == Head(k.ibf)
<1>0. /\ k \in GoodConnections /\ k \in Connections /\ k.ibf \in Seq(PacketTypes)
      /\ k.ibf # <<>> /\ k.obf \in Seq(GoodPackets)
  BY FieldTypes DEF TypeInv, CHPKI
<1>1. p \in PacketTypes
  BY <1>0
<1>2. PICK mem \in BOOLEAN :
        LET a == IF p.op \in {"DAT", "EOF"} THEN CHPKIA(c, k, p, mem) ELSE [k |-> k, out |-> {}]
        IN cb' = [cb EXCEPT ![c] = [a.k EXCEPT !.ibf = Tail(@)]]
  BY DEF CHPKI, Mem
<1> HIDE DEF p
<1> DEFINE a == IF p.op \in {"DAT", "EOF"} THEN CHPKIA(c, k, p, mem) ELSE [k |-> k, out |-> {}]
           m == CHPKIA(c, k, p, mem).k
           b == a.k
           t == Tail(b.ibf)
           r == [b EXCEPT !.ibf = t]
<1>3. cb' = [cb EXCEPT ![c] = r]
  BY <1>2
<1>4. b = k \/ b = m
  OBVIOUS
<1>5. /\ m.sta = k.sta /\ m.pc = k.pc /\ m.op = k.op /\ m.obf = k.obf /\ m.uniq = k.uniq
      /\ m.pknx = k.pknx /\ m.ackx = k.ackx /\ m.winx = k.winx /\ m.nos = k.nos
  BY <1>0, <1>1, CHPKIAFields
<1>6. m \in Connections
  BY <1>0, <1>1, CHPKIAGood, FieldTypes
<1> HIDE DEF m, a, b, t
<1>7. /\ b \in Connections /\ b.sta = k.sta /\ b.pc = k.pc /\ b.op = k.op /\ b.obf = k.obf /\ b.uniq = k.uniq
      /\ b.pknx = k.pknx /\ b.ackx = k.ackx /\ b.winx = k.winx /\ b.nos = k.nos
  BY <1>0, <1>4, <1>5, <1>6
<1>8. /\ r.sta = k.sta /\ r.pc = k.pc /\ r.op = k.op /\ r.obf = k.obf /\ r.uniq = k.uniq
      /\ r.pknx = k.pknx /\ r.ackx = k.ackx /\ r.winx = k.winx /\ r.nos = k.nos
  BY <1>7 DEF Connections
<1> HIDE DEF r
<1>9. Counts(c, k, r)
  BY <1>8 DEF Counts, Stays, SameCounts, KeepsNothingNew
<1> QED BY <1>3, <1>9, CountsBy

LEMMA ContinueCounts ==
  ASSUME ConnAssumption, TypeInv, ControlInv, NEW c \in Conn, Continue(c)
  PROVE  CountsAll
<1> DEFINE k == cb[c]
<1>0. /\ k \in GoodConnections /\ k \in Connections /\ Control(c, k) /\ k.obf \in Seq(GoodPackets)
  BY FieldTypes DEF TypeInv, ControlInv
<1>1. ASSUME NEW pc \in {"user", "number"}, NEW op,
             cb' = [cb EXCEPT ![c] = [k EXCEPT !.pc = pc, !.op = op]],
             pc = "number" => k.pc = "window" /\ k.nos > 0, k.pc # "queue", op = k.op \/ op = "DAT"
      PROVE  CountsAll
  <2> DEFINE r == [k EXCEPT !.pc = pc, !.op = op]
  <2>2. /\ r.sta = k.sta /\ r.pc = pc /\ r.op = op /\ r.obf = k.obf /\ r.uniq = k.uniq
        /\ r.pknx = k.pknx /\ r.ackx = k.ackx /\ r.winx = k.winx /\ r.nos = k.nos
    BY <1>0 DEF Connections
  <2>3. cb' = [cb EXCEPT ![c] = r]
    BY <1>1
  <2> HIDE DEF r
  <2>4. Counts(c, k, r)
    BY <1>1, <2>2 DEF Counts, Stays, SameCounts, KeepsNothingNew
  <2> QED BY <2>3, <2>4, CountsBy
<1>2. \A pc : [k EXCEPT !.pc = pc] = [k EXCEPT !.pc = pc, !.op = k.op]
  BY <1>0 DEF Connections
<1>3. CASE CHAQPL(c) \/ WindowOpens(c) \/ BackedOut(c)
  <2>1. CASE CHAQPL(c)
    <3>1. cb' = [cb EXCEPT ![c] = [k EXCEPT !.pc = "user"]] /\ k.pc = "listen"
      BY <2>1 DEF CHAQPL
    <3> QED BY <1>1, <1>2, <3>1
  <2>2. CASE WindowOpens(c)
    <3>1. cb' = [cb EXCEPT ![c] = [k EXCEPT !.pc = "number"]] /\ k.pc = "window" /\ k.nos > 0
      BY <2>2 DEF WindowOpens
    <3> QED BY <1>1, <1>2, <3>1
  <2>3. CASE BackedOut(c)
    <3>1. cb' = [cb EXCEPT ![c] = [k EXCEPT !.pc = "user", !.op = "DAT"]] /\ k.pc = "window"
      BY <2>3 DEF BackedOut
    <3> QED BY <1>1, <3>1
  <2> QED BY <1>3, <2>1, <2>2, <2>3
<1>4. CASE CHODT1(c) \/ CHOOP1(c)
  <2> DEFINE n == Succ(k.pknx)
             r == [k EXCEPT !.pknx = n, !.pc = "queue"]
             s == [k EXCEPT !.sta = "OPN", !.off = FALSE, !.sts = FALSE, !.pknx = n, !.pc = "queue"]
  <2>1. k.pc = "number" /\ (cb' = [cb EXCEPT ![c] = r] \/ (k.op = "EOF" /\ cb' = [cb EXCEPT ![c] = s]))
    BY ZenonT(60), <1>4 DEF CHODT1, CHOOP1
  <2> HIDE DEF n
  <2>2. /\ r.sta = k.sta /\ r.pc = "queue" /\ r.op = k.op /\ r.obf = k.obf /\ r.uniq = k.uniq
        /\ r.pknx = n /\ r.ackx = k.ackx /\ r.winx = k.winx /\ r.nos = k.nos
        /\ s.sta = "OPN" /\ s.pc = "queue" /\ s.op = k.op /\ s.obf = k.obf /\ s.uniq = k.uniq
        /\ s.pknx = n /\ s.ackx = k.ackx /\ s.winx = k.winx /\ s.nos = k.nos
    BY <1>0 DEF Connections
  <2> HIDE DEF r, s
  <2>3. Counts(c, k, r) /\ (k.op = "EOF" => Counts(c, k, s))
    BY <2>1, <2>2 DEF Counts, Numbers, KeepsNothingNew, n
  <2> QED BY <2>1, <2>3, CountsBy
<1>5. CASE Queue(c)
  <2> DEFINE p == Outgoing(c, k, k.op, k.pknx)
             q == Append(k.obf, p)
             n == IF k.op = "DAT" THEN k.nos - 1 ELSE k.nos
             r == [k EXCEPT !.obf = q, !.nos = n, !.ackr = k.pknr, !.pc = "user", !.op = "DAT"]
  <2>1. /\ cb' = [cb EXCEPT ![c] = r] /\ k.pc = "queue"
    BY <1>5 DEF Queue
  <2>2. p.op = k.op /\ p.pn = k.pknx
    BY OutgoingFields
  <2> HIDE DEF p, n
  <2>4. q = Append(k.obf, p)
    OBVIOUS
  <2> HIDE DEF q
  <2>5. /\ r.sta = k.sta /\ r.pc = "user" /\ r.op = "DAT" /\ r.obf = q /\ r.uniq = k.uniq
        /\ r.pknx = k.pknx /\ r.ackx = k.ackx /\ r.winx = k.winx /\ r.nos = n
    BY <1>0 DEF Connections
  <2> HIDE DEF r
  <2>6. \A x \in Kept(r.obf) : x \in Kept(k.obf) \/ x = p
    BY <1>0, <2>4, <2>5, KeptAppend
  <2>7. Queues(k, r)
    BY <2>1, <2>2, <2>5, <2>6 DEF Queues, KeepsOne, n
  <2> QED BY <2>1, <2>7, CountsBy DEF Counts
<1>6. CASE CHACS4(c)
  <2> DEFINE r == [k EXCEPT !.usr = FALSE, !.pc = "user"]
  <2>1. cb' = [cb EXCEPT ![c] = r] /\ k.pc = "close"
    BY <1>6 DEF CHACS4
  <2>2. /\ r.sta = k.sta /\ r.pc = "user" /\ r.op = k.op /\ r.obf = k.obf /\ r.uniq = k.uniq
        /\ r.pknx = k.pknx /\ r.ackx = k.ackx /\ r.winx = k.winx /\ r.nos = k.nos
    BY <1>0 DEF Connections
  <2> HIDE DEF r
  <2>4. Counts(c, k, r)
    BY <2>1, <2>2 DEF Counts, Stays, SameCounts, KeepsNothingNew
  <2> QED BY <2>1, <2>4, CountsBy
<1> QED BY <1>3, <1>4, <1>5, <1>6 DEF Continue

\* What neither numbers, nor keeps, nor acknowledges anything counts as nothing.
LEMMA CHASTOStays ==
  ASSUME NEW c \in Conn, NEW k \in Connections, NEW mem \in BOOLEAN
  PROVE  Stays(c, k, CHASTO(c, k, mem).k)
<1> DEFINE r == CHASTO(c, k, mem).k
<1>1. /\ r.sta = k.sta /\ r.pc = k.pc /\ r.op = k.op /\ r.obf = k.obf /\ r.uniq = k.uniq
      /\ r.pknx = k.pknx /\ r.ackx = k.ackx /\ r.winx = k.winx /\ r.nos = k.nos
  BY CHASTOFields
<1> HIDE DEF r
<1>2. Stays(c, k, r)
  BY <1>1 DEF Stays, SameCounts, KeepsNothingNew
<1> QED BY <1>2 DEF r

LEMMA ClockCounts == ASSUME ConnAssumption, TypeInv, Clock PROVE CountsAll
<1>1. ASSUME NEW c \in Conn, CHACLK(c) \/ Silence(c) \/ Probe(c) PROVE CountsAll
  <2> DEFINE k == cb[c]
  <2>0. k \in Connections
    BY FieldTypes DEF TypeInv
  <2>1. CASE CHACLK(c)
    <3>1. PICK mem \in BOOLEAN : \/ cb' = [cb EXCEPT ![c] = CHASTO(c, k, mem).k]
                                 \/ cb' = [cb EXCEPT ![c] = k]
      BY <2>1 DEF CHACLK, Mem
    <3>2. Stays(c, k, k) /\ Stays(c, k, CHASTO(c, k, mem).k)
      <4>1. Stays(c, k, CHASTO(c, k, mem).k)
        BY <2>0, CHASTOStays
      <4> QED BY <4>1 DEF Stays, SameCounts, KeepsNothingNew
    <3>3. Counts(c, k, k) /\ Counts(c, k, CHASTO(c, k, mem).k)
      BY <3>2 DEF Counts
    <3> QED BY <3>1, <3>3, CountsBy
  <2>2. CASE Silence(c)
    <3> DEFINE r == [k EXCEPT !.sta = "INC", !.off = TRUE]
    <3>1. cb' = [cb EXCEPT ![c] = r]
      BY <2>2 DEF Silence, CHINT
    <3>2. /\ r.sta = "INC" /\ r.pc = k.pc /\ r.op = k.op /\ r.obf = k.obf /\ r.uniq = k.uniq
          /\ r.pknx = k.pknx /\ r.ackx = k.ackx /\ r.winx = k.winx /\ r.nos = k.nos
      BY <2>0 DEF Connections
    <3> HIDE DEF r
    <3>3. Counts(c, k, r)
      BY <3>2 DEF Counts, Stays, SameCounts, KeepsNothingNew
    <3> QED BY <3>1, <3>3, CountsBy
  <2>3. CASE Probe(c)
    <3> DEFINE r == [k EXCEPT !.ackr = k.pknr]
    <3>1. cb' = [cb EXCEPT ![c] = r]
      BY <2>3 DEF Probe
    <3>2. /\ r.sta = k.sta /\ r.pc = k.pc /\ r.op = k.op /\ r.obf = k.obf /\ r.uniq = k.uniq
          /\ r.pknx = k.pknx /\ r.ackx = k.ackx /\ r.winx = k.winx /\ r.nos = k.nos
      BY <2>0 DEF Connections
    <3> HIDE DEF r
    <3>3. Counts(c, k, r)
      BY <3>2 DEF Counts, Stays, SameCounts, KeepsNothingNew
    <3> QED BY <3>1, <3>3, CountsBy
  <2> QED BY <1>1, <2>1, <2>2, <2>3
<1>2. ASSUME NEW h \in Hosts, RfcTimesOut(h) \/ CHAOSQ(h) PROVE CountsAll
  BY <1>2 DEF RfcTimesOut, CHAOSQ, CountsAll
<1> QED BY <1>1, <1>2 DEF Clock

\* What an acknowledgement does.
LEMMA CHIAK0Counts ==
  ASSUME NEW k \in Connections, NEW rcp, NEW ack
  PROVE  LET r == CHIAK0(k, rcp, ack)
         IN /\ r.ackx = (IF Before(k.ackx, ack) THEN ack ELSE k.ackx)
            /\ r.nos = FreeWindow(k.winx, r.ackx, k.pknx)
<1> DEFINE first == SelectInSeq(k.obf, LAMBDA p : Before(rcp, p.pn))
           obf == IF first = 0 THEN <<>> ELSE SubSeq(k.obf, first, Len(k.obf))
           ackx == IF Before(k.ackx, ack) THEN ack ELSE k.ackx
           nos == FreeWindow(k.winx, ackx, k.pknx)
<1>1. CHIAK0(k, rcp, ack) = [k EXCEPT !.obf = obf, !.ackx = ackx, !.nos = nos]
  BY DEF CHIAK0
<1> HIDE DEF obf
<1> DEFINE a == ackx
           n == nos
<1>2. CHIAK0(k, rcp, ack) = [k EXCEPT !.obf = obf, !.ackx = a, !.nos = n]
  BY <1>1
<1>3. n = FreeWindow(k.winx, a, k.pknx) /\ a = (IF Before(k.ackx, ack) THEN ack ELSE k.ackx)
  OBVIOUS
<1> HIDE DEF a, n
<1>4. CHIAK0(k, rcp, ack).ackx = a /\ CHIAK0(k, rcp, ack).nos = n
  BY <1>2 DEF Connections
<1> QED BY <1>3, <1>4

LEMMA CHIST1Counts ==
  ASSUME NEW k \in Connections, NEW p \in PacketTypes
  PROVE  LET r == CHIST1(k, p)
         IN /\ r.ackx = (IF Before(k.ackx, p.ack) THEN p.ack ELSE k.ackx)
            /\ r.nos = FreeWindow(r.winx, r.ackx, k.pknx)
<1> DEFINE w == [k EXCEPT !.winx = p.win]
<1>1. p.win \in 0 .. 64
  BY DEF PacketTypes
<1>2. w \in Connections /\ w.pknx = k.pknx /\ w.ackx = k.ackx
  BY ZenonT(60), <1>1 DEF Connections
<1>3. CHIST1(k, p) = CHIAK0(w, p.rcp, p.ack)
  BY DEF CHIST1
<1> HIDE DEF w
<1>4. CHIAK0(w, p.rcp, p.ack).winx = w.winx
  BY <1>2, CHIAK0Fields
<1>5. /\ CHIAK0(w, p.rcp, p.ack).ackx = (IF Before(w.ackx, p.ack) THEN p.ack ELSE w.ackx)
      /\ CHIAK0(w, p.rcp, p.ack).nos = FreeWindow(w.winx, CHIAK0(w, p.rcp, p.ack).ackx, w.pknx)
  BY <1>2, CHIAK0Counts
<1> QED BY <1>2, <1>3, <1>4, <1>5

LEMMA BecomesCounts ==
  ASSUME TypeInv, NEW p, NEW c \in Conn, NEW r, NEW out, Becomes(p, c, r, out), Counts(c, cb[c], r)
  PROVE  CountsAll
BY CountsBy DEF Becomes

LEMMA CHIRFCCounts ==
  ASSUME ConnAssumption, TypeInv, NEW p \in net, CHIRFC(p)
  PROVE  CountsAll
<1> DEFINE h == p.dst[1]
           q == chqlsn[h]
<1>0. /\ p \in PacketTypes /\ h \in Hosts /\ q \in Seq(Conn)
  BY NetGood, PacketFields DEF TypeInv, CHIRFC
<1>1. ASSUME q # <<>>, cb[Head(q)].sta = "LSN",
             cb' = [cb EXCEPT ![Head(q)] = CHIRF0(cb[Head(q)], p)]
      PROVE  CountsAll
  <2> DEFINE c == Head(q)
             k == cb[c]
             r == CHIRF0(k, p)
  <2>1. c \in Conn
    BY <1>0, <1>1
  <2> HIDE DEF c
  <2>2. k \in Connections /\ k.sta = "LSN" /\ cb' = [cb EXCEPT ![c] = r]
    BY <1>1, <2>1, FieldTypes DEF TypeInv, c
  <2> HIDE DEF k
  <2>4. /\ r.sta = "RFC" /\ r.pc = k.pc /\ r.op = k.op /\ r.obf = <<>> /\ r.uniq = k.uniq
        /\ r.pknx = k.pknx /\ r.ackx = k.ackx /\ r.winx = k.winx /\ r.nos = k.nos
    <3>1. k \in Connections /\ p \in PacketTypes
      BY <1>0, <2>2
    <3> QED BY ZenonT(60), <3>1, CHIRF0Fields
  <2> HIDE DEF r
  <2>6. Counts(c, k, r)
    BY <2>2, <2>4, KeptNone DEF Counts, Stays, SameCounts, KeepsNothingNew
  <2> QED BY <2>1, <2>2, <2>6, CountsBy DEF k
<1>2. CASE UNCHANGED cb
  BY <1>2 DEF CountsAll
<1> QED BY <1>1, <1>2 DEF CHIRFC, CHABRT, Answer

LEMMA CHIOPNCounts ==
  ASSUME ConnAssumption, TypeInv, NEW p \in net, p.op = "OPN",
         NEW c \in Conn, CHFNDX(p, c), cb[c].sta = "RFS", NEW k,
         k = CHIST1([cb[c] EXCEPT !.pknr = p.pn, !.frn = p.src], p),
         NEW again, NEW mem \in BOOLEAN,
         Becomes(p, c, CHINT(CHASTO(c, k, mem).k, "OPN"), CHASTO(c, k, mem).out \cup again)
  PROVE  CountsAll
<1> DEFINE b == cb[c]
           m == [b EXCEPT !.pknr = p.pn, !.frn = p.src]
           a == CHASTO(c, k, mem).k
           r == CHINT(a, "OPN")
<1>1. /\ p \in PacketTypes /\ p \in GoodPackets /\ p \in Traffic /\ p.pn \in PktNumber
      /\ p.src \in Nat \X Nat /\ p.op \in {"STS", "OPN"}
  BY NetGood, PacketFields, KeptTraffic DEF TypeInv, Address
<1>2. b \in Connections /\ b.obf \in Seq(GoodPackets) /\ b \in GoodConnections
  BY FieldTypes DEF TypeInv
<1>3. /\ m \in Connections /\ m.obf = b.obf /\ m.nos = b.nos /\ m.winx = b.winx
      /\ m.pc = b.pc /\ m.op = b.op /\ m.uniq = b.uniq /\ m.frn = p.src /\ m.pknx = b.pknx /\ m.ackx = b.ackx
  BY ZenonT(60), <1>1, <1>2 DEF Connections
<1>a. b.sta = "RFS" /\ p.dst = <<c, b.uniq>>
  BY DEF CHFNDX, Lcl
<1> HIDE DEF m, b
<1>4. m \in GoodConnections
  BY <1>2, <1>3, SameWindowGood
<1>b. k = CHIST1(m, p)
  BY DEF m, b
<1>5. k \in GoodConnections /\ k \in Connections
  BY <1>1, <1>4, <1>b, CHIST1Good, FieldTypes
<1>6. k.uniq = m.uniq /\ k.frn = m.frn /\ k.pc = m.pc /\ k.op = m.op /\ k.pknx = m.pknx
  <2>1. m \in Connections /\ p \in PacketTypes
    BY <1>1, <1>3
  <2> QED BY <2>1, <1>b, CHIST1Fields
<1>7. Kept(k.obf) \subseteq Kept(m.obf)
  BY <1>1, <1>4, <1>b, CHIST1Kept
<1>c. k.ackx = (IF Before(m.ackx, p.ack) THEN p.ack ELSE m.ackx) /\ k.nos = FreeWindow(k.winx, k.ackx, m.pknx)
  BY <1>1, <1>3, <1>b, CHIST1Counts
<1>8. a \in GoodConnections /\ a \in Connections
  BY <1>5, CHASTOGood, FieldTypes
<1>9. /\ a.uniq = k.uniq /\ a.frn = k.frn /\ a.obf = k.obf /\ a.pc = k.pc /\ a.op = k.op
      /\ a.pknx = k.pknx /\ a.ackx = k.ackx /\ a.winx = k.winx /\ a.nos = k.nos
  BY <1>5, CHASTOFields
<1> HIDE DEF a
<1>10. /\ r.uniq = a.uniq /\ r.frn = a.frn /\ r.obf = a.obf /\ r.pc = a.pc /\ r.op = a.op
       /\ r.pknx = a.pknx /\ r.ackx = a.ackx /\ r.winx = a.winx /\ r.nos = a.nos
       /\ r.sta = "OPN"
  BY <1>8 DEF CHINT, Connections
<1>12. \E out : Becomes(p, c, r, out)
  BY DEF a
<1> HIDE DEF r
<1>13. Acks(c, b, r, p)
  BY <1>1, <1>3, <1>a, <1>6, <1>7, <1>c, <1>9, <1>10 DEF Acks, Named, KeepsNothingNew
<1>14. Counts(c, b, r)
  BY <1>1, <1>13 DEF Counts
<1> QED BY <1>12, <1>14, BecomesCounts DEF b

LEMMA CHICL2Counts ==
  ASSUME ConnAssumption, TypeInv, NEW p \in net,
         NEW c \in Conn, NEW state \in {"CLS", "LOS"}, Becomes(p, c, CHICL2(cb[c], p, state), {})
  PROVE  CountsAll
<1>1. PICK k \in Connections : k = cb[c]
  BY FieldTypes DEF TypeInv
<1>2. p \in PacketTypes
  BY NetGood, PacketFields DEF TypeInv
<1>3. PICK r : r = CHICL2(k, p, state)
  OBVIOUS
<1>4. /\ r.sta \in {"CLS", "LOS"} /\ r.pc = k.pc /\ r.op = k.op /\ r.obf = <<>> /\ r.uniq = k.uniq
      /\ r.pknx = k.pknx /\ r.ackx = k.ackx /\ r.winx = k.winx /\ r.nos = k.nos
  <2> DEFINE q == Append(k.ibf, p)
  <2>1. r = [k EXCEPT !.sta = state, !.off = (state # "OPN"), !.pbf = <<>>, !.obf = <<>>, !.ibf = q]
    BY <1>3 DEF CHICL2, CHINT, Connections
  <2> HIDE DEF q
  <2>2. r.sta = state
    BY <2>1 DEF Connections
  <2>3. state \in {"CLS", "LOS"}
    OBVIOUS
  <2> QED BY <2>1, <2>2, <2>3 DEF Connections
<1>5. Counts(c, k, r)
  BY <1>4, KeptNone DEF Counts, Stays, SameCounts, KeepsNothingNew
<1> QED BY <1>1, <1>3, <1>5, BecomesCounts

LEMMA CHISTSCounts ==
  ASSUME ConnAssumption, TypeInv, NEW p \in net, p.op = "STS", NEW c \in Conn, CHFNDX(p, c),
         cb[c].sta = "OPN", NEW again, Becomes(p, c, CHIST1(cb[c], p), again)
  PROVE  CountsAll
<1> DEFINE k == cb[c]
           r == CHIST1(k, p)
<1>1. p \in GoodPackets /\ p \in PacketTypes /\ p \in Traffic
  BY NetGood, PacketFields, KeptTraffic DEF TypeInv
<1>2. k \in GoodConnections /\ k \in Connections
  BY FieldTypes DEF TypeInv
<1>3. r.sta = k.sta /\ r.uniq = k.uniq /\ r.frn = k.frn /\ r.pc = k.pc /\ r.op = k.op /\ r.pknx = k.pknx
  BY <1>1, <1>2, CHIST1Fields
<1>4. Kept(r.obf) \subseteq Kept(k.obf)
  BY <1>1, <1>2, CHIST1Kept
<1>5. r.ackx = (IF Before(k.ackx, p.ack) THEN p.ack ELSE k.ackx) /\ r.nos = FreeWindow(r.winx, r.ackx, k.pknx)
  BY <1>1, <1>2, CHIST1Counts
<1>6. p.dst = <<c, k.uniq>> /\ p.src = k.frn /\ k.sta = "OPN"
  BY DEF CHFNDX, Lcl
<1>7. Becomes(p, c, r, again)
  OBVIOUS
<1> HIDE DEF r
<1>8. Acks(c, k, r, p)
  BY <1>3, <1>4, <1>5, <1>6 DEF Acks, Named, KeepsNothingNew
<1> QED BY <1>1, <1>7, <1>8, BecomesCounts DEF Counts

LEMMA CHIDATCounts ==
  ASSUME ConnAssumption, TypeInv, NEW p \in net, p.op \in {"DAT", "EOF"},
         NEW c \in Conn, CHFNDX(p, c), cb[c].sta = "OPN", NEW k, k = CHIAK0(cb[c], p.ack, p.ack),
         NEW r, NEW out, Becomes(p, c, r, out),
         r = k \/ r = CHIDT1(k, p) \/ r = OutOfOrder(k, p) \/ \E mem \in BOOLEAN : r = CHASTO(c, k, mem).k
  PROVE  CountsAll
<1> DEFINE b == cb[c]
<1>1. p \in PacketTypes /\ p \in Traffic
  BY NetGood, PacketFields, KeptTraffic DEF TypeInv
<1>2. b \in Connections /\ b.obf \in Seq(GoodPackets) /\ b \in GoodConnections
  BY FieldTypes DEF TypeInv
<1>3. k \in Connections
  <2>1. p.ack \in PktNumber /\ (b.pc \in {"number", "queue"} => b.winx >= 1)
        /\ (b.winx = 0 \/ b.winx \in Given)
    BY <1>1, <1>2, FieldTypes DEF NosOK, PacketTypes
  <2> QED BY <1>2, <2>1, CHIAK0Good, FieldTypes
<1>4. Kept(k.obf) \subseteq Kept(b.obf)
  BY <1>2, CHIAK0Kept
<1>5. k.sta = b.sta /\ k.pc = b.pc /\ k.op = b.op /\ k.uniq = b.uniq /\ k.frn = b.frn /\ k.pknx = b.pknx
      /\ k.winx = b.winx
  BY <1>2, CHIAK0Fields
<1>6. k.ackx = (IF Before(b.ackx, p.ack) THEN p.ack ELSE b.ackx) /\ k.nos = FreeWindow(b.winx, k.ackx, b.pknx)
  BY <1>2, CHIAK0Counts
<1>7. p.dst = <<c, b.uniq>> /\ p.src = b.frn /\ b.sta = "OPN"
  BY DEF CHFNDX, Lcl
<1> HIDE DEF b
<1>8. /\ r.sta = k.sta /\ r.pc = k.pc /\ r.op = k.op /\ r.uniq = k.uniq /\ r.frn = k.frn /\ r.pknx = k.pknx
      /\ r.winx = k.winx /\ r.ackx = k.ackx /\ r.nos = k.nos /\ r.obf = k.obf
  <2>1. CASE r = k
    BY <2>1
  <2>2. CASE r = CHIDT1(k, p)
    BY <1>1, <1>3, <2>2, CHIDT1Fields
  <2>3. CASE r = OutOfOrder(k, p)
    BY <1>1, <1>3, <2>3, OutOfOrderFields
  <2>4. ASSUME NEW mem \in BOOLEAN, r = CHASTO(c, k, mem).k
        PROVE  /\ r.sta = k.sta /\ r.pc = k.pc /\ r.op = k.op /\ r.uniq = k.uniq /\ r.frn = k.frn /\ r.pknx = k.pknx
               /\ r.winx = k.winx /\ r.ackx = k.ackx /\ r.nos = k.nos /\ r.obf = k.obf
    BY <1>3, <2>4, CHASTOFields
  <2> QED BY <2>1, <2>2, <2>3, <2>4
<1>9. Acks(c, b, r, p)
  BY <1>4, <1>5, <1>6, <1>7, <1>8 DEF Acks, Named, KeepsNothingNew
<1> QED BY <1>1, <1>9, BecomesCounts DEF Counts, b

LEMMA CHAPIICounts == ASSUME ConnAssumption, TypeInv, NEW p \in net, CHAPII(p) PROVE CountsAll
<1>a. UNCHANGED cb => CountsAll
  BY DEF CountsAll
<1>b. CHABRT(p) \/ CHALOS(p) => CountsAll
  BY <1>a DEF CHABRT, CHALOS, Answer
<1>m. Mem \subseteq BOOLEAN
  BY DEF Mem
<1>1. CASE CHIRFC(p)
  BY <1>1, CHIRFCCounts
<1>2. CASE CHIOPN(p)
  BY <1>2, <1>b, <1>m, CHIOPNCounts DEF CHIOPN
<1>3. CASE CHICLS(p)
  BY <1>3, <1>b, CHICL2Counts DEF CHICLS
<1>4. CASE CHILOS(p)
  BY <1>4, <1>b, CHICL2Counts DEF CHILOS
<1>5. CASE CHISNS(p)
  <2>1. ASSUME NEW c \in Conn, NEW mem \in BOOLEAN, NEW out, Becomes(p, c, CHASTO(c, cb[c], mem).k, out)
        PROVE  CountsAll
    <3>1. cb[c] \in Connections
      BY FieldTypes DEF TypeInv
    <3>2. Stays(c, cb[c], CHASTO(c, cb[c], mem).k)
      BY <3>1, CHASTOStays
    <3> QED BY <2>1, <3>2, BecomesCounts DEF Counts
  <2> QED BY <1>5, <1>b, <1>m, <2>1 DEF CHISNS
<1>6. CASE CHISTS(p)
  BY <1>6, <1>b, CHISTSCounts DEF CHISTS
<1>7. CASE CHIDAT(p)
  BY <1>7, <1>b, <1>m, CHIDATCounts DEF CHIDAT
<1>8. CASE CHIUNC(p)
  <2>1. ASSUME NEW c \in Conn, NEW r, r \in {cb[c], [cb[c] EXCEPT !.ibf = Append(@, p)]}, Becomes(p, c, r, {})
        PROVE  CountsAll
    <3> DEFINE k == cb[c]
               q == Append(k.ibf, p)
               m == [k EXCEPT !.ibf = q]
    <3>1. k \in Connections
      BY FieldTypes DEF TypeInv
    <3>2. r = k \/ r = m
      BY <2>1
    <3> HIDE DEF q
    <3>3. /\ r.sta = k.sta /\ r.pc = k.pc /\ r.op = k.op /\ r.obf = k.obf /\ r.uniq = k.uniq
          /\ r.pknx = k.pknx /\ r.ackx = k.ackx /\ r.winx = k.winx /\ r.nos = k.nos
      BY ZenonT(60), <3>1, <3>2 DEF Connections
    <3> HIDE DEF m
    <3>4. Counts(c, k, r)
      BY <3>3 DEF Counts, Stays, SameCounts, KeepsNothingNew
    <3> QED BY <2>1, <3>4, BecomesCounts
  <2>2. ASSUME NEW c \in Conn, p.dst = Lcl(c) PROVE p.dst[1] = c
    BY <2>2 DEF Lcl
  <2> QED BY <1>8, <1>b, <2>1, <2>2 DEF CHIUNC
<1> QED BY <1>1, <1>2, <1>3, <1>4, <1>5, <1>6, <1>7, <1>8 DEF CHAPII

LEMMA StepCounts == ASSUME ConnAssumption, TypeInv, ControlInv, [Next]_vars PROVE CountsAll
<1>1. ASSUME NEW c \in Conn, Call(c) PROVE CountsAll
  BY <1>1, CallCounts
<1>2. ASSUME NEW c \in Conn, CHPKI(c) PROVE CountsAll
  BY <1>2, CHPKICounts
<1>3. ASSUME NEW c \in Conn, Continue(c) PROVE CountsAll
  BY <1>3, ContinueCounts
<1>4. CASE Clock
  BY <1>4, ClockCounts
<1>5. ASSUME NEW p \in net, CHAPII(p) PROVE CountsAll
  BY <1>5, CHAPIICounts
<1>6. (\E p \in net : Lose(p)) \/ UNCHANGED vars => CountsAll
  BY DEF Lose, vars, CountsAll
<1> QED BY <1>1, <1>2, <1>3, <1>4, <1>5, <1>6 DEF Next

-----------------------------------------------------------------------------
(* Numbers, when no index uses more than half of them: an index begins again at 0, so that *)
(* two numbers of one life are less than half of the range apart, whatever the network      *)
(* delays.                                                                                  *)

Short == \A c \in Conn : MaxPkn[c] < Half

NumberOK(c, k) ==
  /\ k.pknx < Half /\ k.pknr < Half /\ k.ackx < Half
  /\ k.sta \in {"LSN", "RFC"} => k.pknx = 0
  /\ k.sta \in {"RFS", "OPN"} => k.pknx >= 1
  /\ k.sta \in {"LSN", "RFS"} => k.pknr = 0
  /\ k.pc \in {"window", "number"} => k.pknx >= 1 /\ k.pknx < MaxPkn[c]
  /\ k.pc = "queue" => k.pknx >= 2
  /\ \A q \in Kept(k.obf) : q.pn <= k.pknx

Low(q) == q.op \in Data => q.pn >= 2 /\ q.pn < Half

NumberInv ==
  /\ \A c \in Conn : NumberOK(c, cb[c]) /\ \A q \in Kept(cb[c].ibf) \cup Kept(cb[c].pbf) : Low(q)
  /\ \A q \in Traffic : q.op \in Named => Low(q) /\ q.pn < Half /\ q.ack < Half

\* In that range the comparison of numbers is that of integers.
LEMMA ShortNumbers ==
  /\ Half \in Int /\ Half = 32768
  /\ \A m, n \in PktNumber : m < Half /\ n < Half => (Before(m, n) <=> m < n)
  /\ \A n \in PktNumber : n < Half => Succ(n) = n + 1 /\ Succ(n) <= Half
  /\ \A w \in 1 .. 64 : \A m, n \in PktNumber : m < Half /\ n < Half /\ ~OverWindow(w, m, n) => n <= m + w
  /\ \A w \in 0 .. 64 : \A m, n \in PktNumber : m < Half /\ n < Half =>
       FreeWindow(w, m, n) <= w /\ FreeWindow(w, m, n) + (n - m) <= w
<1>1. Half \in Int /\ Half = 32768
  BY DEF Half
<1>2. \A d \in Int : -32768 < d /\ d < 32768 => (Minus(d) <=> d < 0)
  <2> TAKE d \in Int
  <2> HAVE -32768 < d /\ d < 32768
  <2>1. CASE d >= 0
    <3>1. d % 65536 = d
      BY <2>1
    <3> QED BY <2>1, <3>1 DEF Minus, Mod, Half
  <2>2. CASE d < 0
    <3>1. d % 65536 = d + 65536
      BY <2>2
    <3> QED BY <2>2, <3>1 DEF Minus, Mod, Half
  <2> QED BY <2>1, <2>2
<1>3. ASSUME NEW m \in PktNumber, NEW n \in PktNumber, m < Half, n < Half PROVE Before(m, n) <=> m < n
  <2>1. m - n \in Int /\ -32768 < m - n /\ m - n < 32768
    BY <1>1, <1>3, NumberRange
  <2>2. Minus(m - n) <=> m - n < 0
    BY <1>2, <2>1
  <2> QED BY <2>2, NumberRange DEF Before
<1>4. ASSUME NEW n \in PktNumber, n < Half PROVE Succ(n) = n + 1 /\ Succ(n) <= Half
  BY <1>1, <1>4, NumberRange DEF Succ, Mod
<1>5. ASSUME NEW w \in 1 .. 64, NEW m \in PktNumber, NEW n \in PktNumber, m < Half, n < Half,
             ~OverWindow(w, m, n)
      PROVE  n <= m + w
  <2> DEFINE d == w + m - n
  <2>1. d \in Int /\ -32768 < d /\ m \in Int /\ n \in Int /\ w \in Int
    BY <1>1, <1>5, NumberRange
  <2>2. ~Minus(d)
    BY <1>5 DEF OverWindow
  <2>3. CASE d < 32768
    <3> HIDE DEF d
    <3>1. d >= 0
      BY <1>2, <2>1, <2>2, <2>3
    <3> QED BY <2>1, <3>1 DEF d
  <2>4. CASE d >= 32768
    BY <2>1, <2>4
  <2> QED BY <2>1, <2>3, <2>4
<1>6. ASSUME NEW w \in 0 .. 64, NEW m \in PktNumber, NEW n \in PktNumber, m < Half, n < Half
      PROVE  FreeWindow(w, m, n) <= w /\ FreeWindow(w, m, n) + (n - m) <= w
  <2>1. m \in Int /\ n \in Int /\ w \in Int /\ m <= 65535 /\ n <= 65535 /\ 0 <= m /\ 0 <= n
    BY NumberRange
  <2> QED BY <2>1 DEF FreeWindow, InUse, Mod
<1> QED BY <1>1, <1>3, <1>4, <1>5, <1>6

LEMMA ShortBefore ==
  ASSUME NEW m \in PktNumber, NEW n \in PktNumber, m < Half, n < Half
  PROVE  Before(m, n) <=> m < n
BY ShortNumbers

LEMMA ShortFree ==
  ASSUME NEW w \in 0 .. 64, NEW m \in PktNumber, NEW n \in PktNumber, m < Half, n < Half
  PROVE  FreeWindow(w, m, n) <= w /\ FreeWindow(w, m, n) + (n - m) <= w
BY ShortNumbers

\* What is on the receive lists was there, or was sent.
LEMMA KeptSub ==
  ASSUME NEW S, NEW s \in Seq(S), NEW m \in Nat, NEW n \in 0 .. Len(s), m >= 1
  PROVE  Kept(SubSeq(s, m, n)) \subseteq Kept(s)
<1> DEFINE t == SubSeq(s, m, n)
<1>0. Len(s) \in Nat
  OBVIOUS
<1>1. Len(t) = (IF m <= n THEN n - m + 1 ELSE 0) /\ \A i \in 1 .. n - m + 1 : t[i] = s[m + i - 1]
  BY <1>0, SubSeqProperties
<1> HIDE DEF t
<1>2. ASSUME NEW i \in 1 .. Len(t) PROVE i \in 1 .. n - m + 1 /\ m + i - 1 \in 1 .. Len(s)
  BY <1>0, <1>1, <1>2
<1> QED BY <1>1, <1>2 DEF Kept

LEMMA KeptConcat ==
  ASSUME NEW S, NEW s \in Seq(S), NEW t \in Seq(S)
  PROVE  Kept(s \o t) \subseteq Kept(s) \cup Kept(t)
<1> DEFINE u == s \o t
<1>1. /\ Len(u) = Len(s) + Len(t) /\ Len(s) \in Nat /\ Len(t) \in Nat
      /\ \A i \in 1 .. Len(s) + Len(t) : u[i] = IF i <= Len(s) THEN s[i] ELSE t[i - Len(s)]
  BY ConcatProperties
<1> HIDE DEF u
<1>2. ASSUME NEW i \in 1 .. Len(u), ~(i <= Len(s)) PROVE i - Len(s) \in 1 .. Len(t)
  BY <1>1, <1>2
<1>3. ASSUME NEW i \in 1 .. Len(u), i <= Len(s) PROVE i \in 1 .. Len(s)
  BY <1>1, <1>3
<1> QED BY <1>1, <1>2, <1>3 DEF Kept

LEMMA KeptOutOfOrder ==
  ASSUME NEW k \in Connections, NEW p \in PacketTypes
  PROVE  Kept(OutOfOrder(k, p).pbf) \subseteq Kept(k.pbf) \cup {p}
<1> DEFINE s == k.pbf
           I == {i \in 1 .. Len(s) : ~Before(s[i].pn, p.pn)}
           place == SelectInSeq(s, LAMBDA q : ~Before(q.pn, p.pn))
           b == IF place = 0 THEN Append(s, p) ELSE InsertAt(s, place, p)
<1>0. s \in Seq(PacketTypes) /\ Len(s) \in Nat
  BY DEF Connections
<1>1. OutOfOrder(k, p) = [k EXCEPT !.pbf = b]
  BY DEF OutOfOrder
<1>2. place \in 0 .. Len(s)
  <2>1. place = IF I # {} THEN Min(I) ELSE 0
    BY DEF SelectInSeq
  <2>2. I # {} => Min(I) \in I
    BY <1>0, MinPlace
  <2> QED BY <1>0, <2>1, <2>2
<1> HIDE DEF place
<1>3. Kept(b) \subseteq Kept(s) \cup {p}
  <2>1. CASE place = 0
    BY <1>0, <2>1, KeptAppend
  <2>2. CASE place # 0
    <3>1. place \in 1 .. Len(s)
      BY <1>2, <2>2
    <3> DEFINE t == InsertAt(s, place, p)
    <3>2. /\ Len(t) = Len(s) + 1
          /\ \A j \in 1 .. Len(s) + 1 : t[j] = IF j < place THEN s[j] ELSE IF j = place THEN p ELSE s[j - 1]
      BY <1>0, <3>1, InsertAtPlaces
    <3> HIDE DEF t
    <3>3. ASSUME NEW j \in 1 .. Len(t) PROVE t[j] \in Kept(s) \cup {p}
      <4>1. CASE j < place
        <5>1. j \in 1 .. Len(s) /\ t[j] = s[j]
          BY <1>0, <3>1, <3>2, <3>3, <4>1
        <5> QED BY <5>1 DEF Kept
      <4>2. CASE j = place
        BY <3>2, <3>3, <4>2
      <4>3. CASE j > place
        <5>1. j - 1 \in 1 .. Len(s) /\ t[j] = s[j - 1]
          BY <1>0, <3>1, <3>2, <3>3, <4>3
        <5> QED BY <5>1 DEF Kept
      <4> QED BY <1>0, <3>1, <4>1, <4>2, <4>3
    <3>4. b = t
      BY <2>2 DEF t
    <3> HIDE DEF b
    <3> QED BY <3>3, <3>4 DEF Kept
  <2> QED BY <2>1, <2>2
<1> HIDE DEF b
<1>4. OutOfOrder(k, p).pbf = b
  BY <1>1 DEF Connections
<1> QED BY <1>3, <1>4

LEMMA EffectKept ==
  ASSUME TypeInv, NEW c \in Conn, NEW r, Effect(c, cb[c], r)
  PROVE  /\ \A q \in Kept(r.pbf) : q \in Kept(cb[c].pbf) \/ (q \in Traffic /\ q.op \in Data)
         /\ \A q \in Kept(r.ibf) : q \in Kept(cb[c].ibf) \cup Kept(cb[c].pbf) \/ q \in Traffic
<1>1. PICK k \in Connections : k = cb[c]
  BY FieldTypes DEF TypeInv
<1>2. k.ibf \in Seq(PacketTypes) /\ k.pbf \in Seq(PacketTypes) /\ Len(k.pbf) \in Nat
  BY DEF Connections
<1>3. \A p \in Traffic : p \in PacketTypes
  BY TrafficGood, PacketFields
<1> DEFINE Goal == /\ \A q \in Kept(r.pbf) : q \in Kept(k.pbf) \/ (q \in Traffic /\ q.op \in Data)
                   /\ \A q \in Kept(r.ibf) : q \in Kept(k.ibf) \cup Kept(k.pbf) \/ q \in Traffic
<1> SUFFICES Goal
  BY <1>1
<1>4. CASE Starts(k, r) \/ Drops(k, r)
  BY <1>4, KeptNone DEF Starts, Drops
<1>5. CASE Reads(k, r)
  BY <1>2, <1>5, KeptTail DEF Reads
<1>6. CASE Goes(k, r)
  BY <1>6 DEF Goes
<1>7. ASSUME NEW p \in Traffic, Hooks(c, k, r, p) PROVE Goal
  BY <1>7, KeptOne, KeptNone DEF Hooks
<1>8. ASSUME NEW p \in Traffic, Opens(c, k, r, p) PROVE Goal
  BY <1>8, KeptNone DEF Opens
<1>9. ASSUME NEW p \in Traffic, Shuts(k, r, p) PROVE Goal
  BY <1>2, <1>9, KeptNone, KeptAppend DEF Shuts
<1>10. ASSUME NEW p \in Traffic, Gets(c, k, r, p) PROVE Goal
  <2>1. ASSUME p.op \in Data, NEW n \in 0 .. Len(k.pbf),
               r.ibf = Append(k.ibf, p) \o SubSeq(k.pbf, 1, n), r.pbf = SubSeq(k.pbf, n + 1, Len(k.pbf))
        PROVE  Goal
    <3>1. Kept(r.pbf) \subseteq Kept(k.pbf)
      <4>1. n + 1 \in Nat /\ n + 1 >= 1 /\ Len(k.pbf) \in 0 .. Len(k.pbf)
        BY <1>2, <2>1
      <4> QED BY <1>2, <2>1, <4>1, KeptSub
    <3> DEFINE a == Append(k.ibf, p)
               b == SubSeq(k.pbf, 1, n)
    <3>2. /\ \A q \in Kept(a) : q \in Kept(k.ibf) \/ q = p
          /\ Kept(b) \subseteq Kept(k.pbf)
      BY <1>2, <2>1, KeptAppend, KeptSub
    <3>3. a \in Seq(PacketTypes) /\ b \in Seq(PacketTypes)
      BY <1>2, <1>3, <2>1, SubSeqProperties
    <3>4. r.ibf = a \o b
      BY <2>1
    <3> HIDE DEF a, b
    <3>5. Kept(r.ibf) \subseteq Kept(a) \cup Kept(b)
      BY <3>3, <3>4, KeptConcat
    <3> QED BY <2>1, <3>1, <3>2, <3>5
  <2>2. CASE p.op \in Data /\ r.ibf = k.ibf /\ r.pbf = OutOfOrder(k, p).pbf
    BY <1>1, <1>3, <2>2, KeptOutOfOrder
  <2>3. CASE p.op = "UNC" /\ r.ibf = Append(k.ibf, p) /\ r.pbf = k.pbf
    BY <1>2, <2>3, KeptAppend
  <2> QED BY <1>10, <2>1, <2>2, <2>3 DEF Gets
<1> QED BY <1>1, <1>4, <1>5, <1>6, <1>7, <1>8, <1>9, <1>10 DEF Effect

\* A step of a connection: it does what Effect says, and counts as Counts says.
Steps(c) == Moves(c) /\ (cb'[c] = cb[c] \/ Counts(c, cb[c], cb'[c]))

LEMMA StepSteps ==
  ASSUME ConnAssumption, NetInv, [Next]_vars
  PROVE  Rests \/ \E c \in Conn : Steps(c)
BY StepMoves, StepCounts DEF NetInv, CountsAll, Steps

LEMMA NumberMoves ==
  ASSUME ConnAssumption, Short, TypeInv, TypeInv', ControlInv, NumberInv, NEW c \in Conn, Steps(c)
  PROVE  NumberOK(c, cb'[c])
<1> DEFINE k == cb[c]
           r == cb'[c]
<1>1. /\ k \in Connections /\ r \in Connections /\ k.ackx \in PktNumber /\ k.pknx \in PktNumber
      /\ k.pknr \in PktNumber /\ k.obf \in Seq(GoodPackets) /\ k.ibf \in Seq(PacketTypes)
      /\ r.obf \in Seq(GoodPackets)
  BY FieldTypes DEF TypeInv
<1>2. Effect(c, k, r) /\ (r = k \/ Counts(c, k, r))
  BY DEF Steps, Moves
<1>3. Control(c, k) /\ NumberOK(c, k) /\ \A q \in Kept(k.ibf) : Low(q)
  BY DEF ControlInv, NumberInv
<1>4. \A q \in Traffic : q.op \in Named => Low(q) /\ q.pn < Half /\ q.ack < Half
  BY DEF NumberInv
<1>5. MaxPkn[c] \in PktNumber /\ MaxPkn[c] < Half
  BY DEF ConnAssumption, Short
<1>a. k.pknx < Half /\ Half = 32768
  BY <1>3, ShortNumbers DEF NumberOK
<1>b. Succ(k.pknx) = k.pknx + 1
  BY <1>1, <1>a, ShortNumbers
<1>c. k.pknx \in Int /\ k.pknx >= 0 /\ MaxPkn[c] \in Int
  BY <1>1, <1>5, NumberRange
<1>6. /\ k.pknx \in Int /\ k.pknx >= 0 /\ MaxPkn[c] \in Int /\ Half = 32768
      /\ k.pknx < Half /\ Succ(k.pknx) = k.pknx + 1
  BY <1>a, <1>b, <1>c
<1> HIDE DEF k, r
<1>8. r.pknr < Half /\ (r.sta \in {"LSN", "RFS"} => r.pknr = 0)
  <2>0. Counts(c, k, r) \/ r = k
    BY <1>2
  <2>1. CASE Starts(k, r)
    <3>1. r.uniq # k.uniq
      BY <1>1, <2>1 DEF Starts, Connections
    <3>2. Born(k, r)
      BY <2>0, <3>1 DEF Counts, Stays, SameCounts, Numbers, Queues, Accepts, Acks
    <3> QED BY <2>1, <3>2, <1>6 DEF Born, Starts
  <2>2. CASE ~Starts(k, r) /\ r.sta \in {"LSN", "RFS"}
    <3>1. k.sta = r.sta
      BY <2>0, <2>2, <1>2 DEF Effect, Drops, Reads, Goes, Hooks, Opens, Shuts, Gets
    <3>2. ~Reads(k, r)
      BY <1>3, <2>2, <3>1 DEF Control, Reads
    <3>3. r.pknr = k.pknr
      BY <1>2, <2>2, <3>1, <3>2 DEF Effect, Drops, Goes, Hooks, Opens, Shuts, Gets
    <3> QED BY <1>3, <2>2, <3>1, <3>3 DEF NumberOK
  <2>3. CASE ~Starts(k, r) /\ r.sta \notin {"LSN", "RFS"}
    <3>1. CASE Reads(k, r)
      <4>1. Head(k.ibf) \in Kept(k.ibf)
        BY <1>1, <3>1, KeptTail DEF Reads
      <4> QED BY <1>3, <2>3, <3>1, <4>1 DEF Reads, Low, NumberOK
    <3>2. CASE ~Reads(k, r)
      <4>1. r.pknr = k.pknr \/ \E p \in Traffic : p.op \in Named /\ r.pknr = p.pn
        BY <1>2, <2>3, <3>2 DEF Effect, Drops, Goes, Hooks, Opens, Shuts, Gets, Named
      <4> QED BY <1>3, <1>4, <2>3, <4>1 DEF NumberOK
    <3> QED BY <2>3, <3>1, <3>2
  <2> QED BY <2>1, <2>2, <2>3
<1> DEFINE Goal ==
  /\ r.pknx < Half /\ r.ackx < Half
  /\ r.sta \in {"LSN", "RFC"} => r.pknx = 0
  /\ r.sta \in {"RFS", "OPN"} => r.pknx >= 1
  /\ r.pc \in {"window", "number"} => r.pknx >= 1 /\ r.pknx < MaxPkn[c]
  /\ r.pc = "queue" => r.pknx >= 2
  /\ \A q \in Kept(r.obf) : q.pn <= r.pknx
<1> SUFFICES Goal
  BY <1>8 DEF NumberOK, r
<1>7. CASE r = k
  BY <1>3, <1>7 DEF NumberOK
<1>9. CASE Born(k, r)
  BY <1>6, <1>9 DEF Born
<1>10. CASE Stays(c, k, r)
  BY <1>3, <1>10 DEF Stays, SameCounts, KeepsNothingNew, NumberOK
<1>11. CASE Numbers(k, r)
  <2>1. /\ k.sta \notin {"LSN", "RFC", "RFS"} /\ k.pknx >= 1 /\ k.pknx < MaxPkn[c]
        /\ r.pknx = k.pknx + 1 /\ r.pc = "queue" /\ r.ackx = k.ackx
        /\ r.sta = k.sta \/ r.sta = "OPN"
        /\ Kept(r.obf) \subseteq Kept(k.obf)
    BY <1>3, <1>6, <1>11 DEF Numbers, Control, NumberOK, KeepsNothingNew
  <2>2. r.pknx \in Int /\ r.pknx < Half /\ r.pknx >= 2 /\ k.pknx <= r.pknx
    BY <1>5, <1>6, <2>1
  <2>3. \A q \in Kept(r.obf) : q.pn <= r.pknx
    <3> TAKE q \in Kept(r.obf)
    <3>1. q \in Kept(k.obf) /\ q.pn <= k.pknx
      BY <1>3, <2>1 DEF NumberOK
    <3>2. q.pn \in PktNumber
      BY <1>1, <3>1, PacketFields DEF Kept
    <3> QED BY <1>6, <2>2, <3>1, <3>2, NumberRange
  <2> QED BY <1>3, <2>1, <2>2, <2>3 DEF NumberOK
<1>12. CASE Queues(k, r)
  <2>1. /\ k.sta \notin {"LSN", "RFC", "RFS"} /\ r.sta = k.sta /\ r.pknx = k.pknx /\ r.pc = "user"
        /\ r.ackx = k.ackx /\ \A q \in Kept(r.obf) : q \in Kept(k.obf) \/ q.pn = k.pknx
    BY <1>3, <1>12 DEF Queues, Control, KeepsOne
  <2> QED BY <1>3, <1>6, <2>1 DEF NumberOK
<1>13. CASE Accepts(k, r)
  <2>1. /\ k.pknx = 0 /\ r.pknx = 1 /\ r.sta = "OPN" /\ r.pc \notin {"window", "number", "queue"}
        /\ r.ackx = k.ackx /\ \A q \in Kept(r.obf) : q \in Kept(k.obf) \/ q.pn = 1
    BY <1>3, <1>6, <1>13 DEF Accepts, Control, KeepsOne, NumberOK
  <2>3. \A q \in Kept(r.obf) : q.pn <= r.pknx
    <3> TAKE q \in Kept(r.obf)
    <3>1. CASE q \in Kept(k.obf)
      <4>2. q.pn \in PktNumber /\ q.pn <= 0
        BY <1>1, <1>3, <2>1, <3>1, PacketFields DEF Kept, NumberOK
      <4> QED BY <2>1, <4>2, NumberRange
    <3> QED BY <2>1, <3>1
  <2> QED BY <1>3, <1>6, <2>1, <2>3 DEF NumberOK
<1>14. ASSUME NEW p \in Traffic, Acks(c, k, r, p) PROVE Goal
  <2>1. /\ k.sta \in {"RFS", "OPN"} /\ r.sta = "OPN" /\ r.pc = k.pc /\ r.pknx = k.pknx
        /\ r.ackx \in {k.ackx, p.ack} /\ p.op \in Named /\ Kept(r.obf) \subseteq Kept(k.obf)
    BY <1>14 DEF Acks, KeepsNothingNew
  <2> QED BY <1>3, <1>4, <2>1 DEF NumberOK
<1> QED BY <1>2, <1>7, <1>9, <1>10, <1>11, <1>12, <1>13, <1>14 DEF Counts

LEMMA NumberNext ==
  ASSUME ConnAssumption, Short, NetInv, NumberInv, [Next]_vars
  PROVE  NumberInv'
<1>0. TypeInv /\ TypeInv' /\ ControlInv
  BY NamesNext DEF NetInv
<1>1. CASE Rests
  BY <1>1 DEF Rests, NumberInv
<1>2. ASSUME NEW c \in Conn, Steps(c) PROVE NumberInv'
  <2> DEFINE k == cb[c]
             r == cb'[c]
  <2>1. /\ \A d \in Conn : d # c => cb'[d] = cb[d]
        /\ Effect(c, k, r)
        /\ \A q \in Traffic' : q.op \in Named => q \in Traffic \/ Fresh(c, k, r, q)
        /\ r = k \/ Counts(c, k, r)
    BY <1>2 DEF Steps, Moves
  <2>2. NumberOK(c, r)
    BY <1>0, <1>2, NumberMoves
  <2>3. \A q \in Kept(r.ibf) \cup Kept(r.pbf) : Low(q)
    <3>1. \A q \in Traffic : Low(q)
      BY DEF NumberInv, Low, Named, Data
    <3>2. \A q \in Kept(k.ibf) \cup Kept(k.pbf) : Low(q)
      BY DEF NumberInv
    <3> QED BY <1>0, <2>1, <3>1, <3>2, EffectKept
  <2>4. \A d \in Conn : NumberOK(d, cb'[d]) /\ \A q \in Kept(cb'[d].ibf) \cup Kept(cb'[d].pbf) : Low(q)
    BY <2>1, <2>2, <2>3 DEF NumberInv
  <2>5. ASSUME NEW q \in Traffic', q.op \in Named PROVE Low(q) /\ q.pn < Half /\ q.ack < Half
    <3>1. CASE q \in Traffic
      BY <2>5, <3>1 DEF NumberInv
    <3>2. CASE Fresh(c, k, r, q)
      <4>1. q.ack = r.pknr /\ r.pknr < Half /\ r.pknx < Half /\ Half = 32768
        BY <2>2, <3>2, ShortNumbers DEF Fresh, NumberOK
      <4>2. CASE q.op \in {"RFC", "OPN", "STS"}
        BY <3>2, <4>1, <4>2 DEF Fresh, Low, Data
      <4>3. CASE q.op \in {"DAT", "EOF"}
        <5>1. k.pc = "queue" /\ q.pn = r.pknx /\ r.uniq = k.uniq
          BY <3>2, <4>3 DEF Fresh, Named
        <5>2. k.pknx >= 2 /\ k.sta # "RFC" /\ k.uniq \in Nat
          BY <1>0, <5>1, FieldTypes DEF NumberInv, NumberOK, ControlInv, Control, TypeInv
        <5>3. r.pknx = k.pknx
          BY <2>1, <5>1, <5>2 DEF Counts, Born, Stays, SameCounts, Numbers, Queues, Accepts, Acks
        <5> QED BY <4>1, <5>1, <5>2, <5>3 DEF Low
      <4> QED BY <2>5, <4>2, <4>3 DEF Named
    <3> QED BY <2>1, <2>5, <3>1, <3>2
  <2> QED BY <2>4, <2>5 DEF NumberInv
<1> QED BY <1>1, <1>2, StepSteps

LEMMA NumberInit == ASSUME ConnAssumption, Init PROVE NumberInv
<1>1. \A c \in Conn : cb[c] = Closed(0)
  BY DEF Init
<1>2. Traffic = {}
  BY <1>1 DEF Traffic, Kept, Init, Closed
<1>3. ASSUME NEW c \in Conn PROVE NumberOK(c, Closed(0)) /\ Kept(Closed(0).ibf) = {} /\ Kept(Closed(0).pbf) = {}
  BY KeptNone, ShortNumbers DEF NumberOK, Closed
<1> QED BY <1>1, <1>2, <1>3 DEF NumberInv

LEMMA NumberAlways == ASSUME ConnAssumption, Short PROVE Spec => [](NetInv /\ NumberInv)
<1>1. Init => NetInv /\ NumberInv
  BY TypeInit, ControlInit, NamesInit, NumberInit DEF NetInv
<1>2. NetInv /\ NumberInv /\ [Next]_vars => NetInv' /\ NumberInv'
  BY NamesNext, NumberNext
<1> QED BY <1>1, <1>2, PTL DEF Spec

-----------------------------------------------------------------------------
(* CHSNOS is what the window leaves free: it and the data packets that are on the send list *)
(* and not acknowledged yet fit in the window.                                              *)

Unacknowledged(k) == {n \in 0 .. k.pknx : n > k.ackx /\ \E q \in Kept(k.obf) : q.op = "DAT" /\ q.pn = n}

RoomOK(k) == k.nos + Cardinality(Unacknowledged(k)) <= k.winx

RoomInv == \A c \in Conn : RoomOK(cb[c])

LEMMA UnacknowledgedCount ==
  ASSUME NEW k \in Connections
  PROVE  /\ IsFiniteSet(Unacknowledged(k)) /\ Cardinality(Unacknowledged(k)) \in Nat
         /\ k.ackx >= k.pknx => Cardinality(Unacknowledged(k)) = 0
         /\ k.ackx <= k.pknx => Cardinality(Unacknowledged(k)) <= k.pknx - k.ackx
<1> DEFINE S == (k.ackx + 1) .. k.pknx
<1>1. k.ackx \in Int /\ k.pknx \in Int /\ k.ackx >= 0
  BY NumberRange DEF Connections
<1>2. IsFiniteSet(S) /\ Cardinality(S) = IF k.ackx + 1 > k.pknx THEN 0 ELSE k.pknx - (k.ackx + 1) + 1
  BY SMTT(30), <1>1, FS_Interval
<1>3. Unacknowledged(k) \in SUBSET S
  BY <1>1 DEF Unacknowledged
<1>4. IsFiniteSet(Unacknowledged(k)) /\ Cardinality(Unacknowledged(k)) <= Cardinality(S)
  BY <1>2, <1>3, FS_Subset
<1>5. Cardinality(Unacknowledged(k)) \in Nat
  BY <1>4, FS_CardinalityType
<1> QED BY <1>1, <1>2, <1>4, <1>5

\* Fewer of them leave as much room.
LEMMA FewerRoom ==
  ASSUME NEW k \in Connections, NEW r \in Connections, RoomOK(k), k.nos \in Int, k.winx \in Int,
         r.nos = k.nos, r.winx = k.winx, Unacknowledged(r) \subseteq Unacknowledged(k)
  PROVE  RoomOK(r)
<1>1. Cardinality(Unacknowledged(r)) <= Cardinality(Unacknowledged(k))
  BY UnacknowledgedCount, FS_Subset
<1>2. Cardinality(Unacknowledged(r)) \in Int /\ Cardinality(Unacknowledged(k)) \in Int
  BY UnacknowledgedCount
<1> QED BY <1>1, <1>2 DEF RoomOK

LEMMA RoomMoves ==
  ASSUME ConnAssumption, Short, TypeInv, TypeInv', ControlInv, NumberInv, NumberInv', RoomInv,
         NEW c \in Conn, Steps(c)
  PROVE  RoomOK(cb'[c])
<1> DEFINE k == cb[c]
           r == cb'[c]
<1>1. /\ k \in Connections /\ k.ackx \in PktNumber /\ k.pknx \in PktNumber /\ k.winx \in Int
      /\ k.nos \in Int /\ k.obf \in Seq(GoodPackets)
  BY FieldTypes DEF TypeInv
<1>r. /\ r \in Connections /\ r.ackx \in PktNumber /\ r.pknx \in PktNumber /\ r.winx \in 0 .. 64
      /\ r.winx \in Int /\ r.obf \in Seq(GoodPackets)
  BY FieldTypes DEF TypeInv
<1>2. r = k \/ Counts(c, k, r)
  BY DEF Steps
<1>3. NumberOK(c, k) /\ NumberOK(c, r) /\ RoomOK(k) /\ Control(c, k)
  BY DEF NumberInv, RoomInv, ControlInv
<1>4. /\ k.pknx \in Int /\ r.pknx \in Int /\ k.ackx \in Int /\ r.ackx \in Int
      /\ 0 <= k.ackx /\ 0 <= r.ackx /\ k.pknx >= 0
  BY <1>1, <1>r, NumberRange
<1>5. r.winx >= 0
  BY <1>r, WindowRange, Zenon
<1> HIDE DEF k, r
<1> SUFFICES RoomOK(r)
  BY DEF r
<1>6. CASE r = k
  BY <1>3, <1>6
<1>7. CASE Born(k, r)
  <2>1. Unacknowledged(r) = {} /\ r.nos = 0
    BY <1>7 DEF Born, Unacknowledged
  <2> QED BY <2>1, <1>5, FS_EmptySet DEF RoomOK
<1>8. ASSUME r.nos = k.nos, r.winx = k.winx, r.ackx = k.ackx, r.pknx >= k.pknx,
             \A q \in Kept(r.obf) : q \in Kept(k.obf) \/ q.op # "DAT"
      PROVE  RoomOK(r)
  <2>1. \A q \in Kept(k.obf) : q.pn <= k.pknx
    BY <1>3 DEF NumberOK
  <2>2. Unacknowledged(r) \subseteq Unacknowledged(k)
    BY <1>4, <1>8, <2>1 DEF Unacknowledged
  <2> QED BY <1>1, <1>r, <1>3, <1>8, <2>2, FewerRoom
<1>9. CASE Stays(c, k, r)
  BY <1>4, <1>8, <1>9 DEF Stays, SameCounts, KeepsNothingNew
<1>s. Succ(k.pknx) = k.pknx + 1
  BY <1>1, <1>3, ShortNumbers DEF NumberOK
<1>10. CASE Numbers(k, r)
  BY <1>4, <1>8, <1>10, <1>s DEF Numbers, KeepsNothingNew
<1>11. CASE Accepts(k, r)
  BY <1>4, <1>8, <1>11, <1>s DEF Accepts, KeepsOne
<1>12. CASE Queues(k, r)
  <2>1. CASE k.op = "DAT"
    <3>1. r.nos = k.nos - 1 /\ r.winx = k.winx /\ r.ackx = k.ackx /\ r.pknx = k.pknx
      BY <1>12, <2>1 DEF Queues
    <3>2. Unacknowledged(r) \subseteq Unacknowledged(k) \cup {k.pknx}
      BY <1>12, <3>1 DEF Queues, KeepsOne, Unacknowledged
    <3> DEFINE U == Unacknowledged(k)
               V == U \cup {k.pknx}
    <3>3. IsFiniteSet(U) /\ Cardinality(U) \in Nat
      BY <1>1, UnacknowledgedCount
    <3>4. IsFiniteSet(V) /\ Cardinality(V) <= Cardinality(U) + 1 /\ Cardinality(V) \in Nat
      <4> HIDE DEF U
      <4>1. IsFiniteSet(V) /\ Cardinality(V) = IF k.pknx \in U THEN Cardinality(U) ELSE Cardinality(U) + 1
        BY <3>3, FS_AddElement
      <4> QED BY <3>3, <4>1
    <3>5. Cardinality(Unacknowledged(r)) <= Cardinality(V) /\ Cardinality(Unacknowledged(r)) \in Nat
      BY <1>r, <3>2, <3>4, FS_Subset, UnacknowledgedCount
    <3> HIDE DEF V
    <3>6. k.nos + Cardinality(U) <= k.winx
      BY <1>3 DEF RoomOK
    <3> HIDE DEF U
    <3> QED BY <1>1, <3>1, <3>3, <3>4, <3>5, <3>6 DEF RoomOK
  <2>2. CASE k.op # "DAT"
    BY <1>4, <1>8, <1>12, <2>2 DEF Queues, KeepsOne
  <2> QED BY <2>1, <2>2
<1>13. ASSUME NEW p \in Traffic, Acks(c, k, r, p) PROVE RoomOK(r)
  <2>1. r.pknx = k.pknx /\ r.nos = FreeWindow(r.winx, r.ackx, r.pknx)
    BY <1>13 DEF Acks
  <2>2. r.ackx < Half /\ r.pknx < Half
    BY <1>3 DEF NumberOK
  <2>3. r.nos <= r.winx /\ r.nos + (r.pknx - r.ackx) <= r.winx /\ r.nos \in Int
    <3>1. FreeWindow(r.winx, r.ackx, r.pknx) \in Int
      BY <1>r, FreeWindowType
    <3>2. FreeWindow(r.winx, r.ackx, r.pknx) <= r.winx
          /\ FreeWindow(r.winx, r.ackx, r.pknx) + (r.pknx - r.ackx) <= r.winx
      BY <1>r, <2>2, ShortFree
    <3> QED BY <2>1, <3>1, <3>2
  <2> DEFINE u == Cardinality(Unacknowledged(r))
  <2>4. u \in Int /\ (r.ackx >= r.pknx => u = 0) /\ (r.ackx <= r.pknx => u <= r.pknx - r.ackx)
    BY <1>r, UnacknowledgedCount
  <2> HIDE DEF u
  <2>5. r.nos + u <= r.winx
    BY SMTT(30), <1>4, <1>r, <2>3, <2>4
  <2> QED BY <2>5 DEF RoomOK, u
<1> QED BY <1>2, <1>6, <1>7, <1>9, <1>10, <1>11, <1>12, <1>13 DEF Counts

LEMMA RoomNext ==
  ASSUME ConnAssumption, Short, NetInv, NumberInv, RoomInv, [Next]_vars
  PROVE  RoomInv'
<1>0. TypeInv /\ TypeInv' /\ ControlInv /\ NumberInv'
  BY NamesNext, NumberNext DEF NetInv
<1>1. CASE Rests
  BY <1>1 DEF Rests, RoomInv
<1>2. ASSUME NEW c \in Conn, Steps(c) PROVE RoomInv'
  <2>1. \A d \in Conn : d # c => cb'[d] = cb[d]
    BY <1>2 DEF Steps, Moves
  <2>2. RoomOK(cb'[c])
    BY <1>0, <1>2, RoomMoves
  <2> QED BY <2>1, <2>2 DEF RoomInv
<1> QED BY <1>1, <1>2, StepSteps

LEMMA RoomAlways == ASSUME ConnAssumption, Short PROVE Spec => [](NetInv /\ NumberInv /\ RoomInv)
<1>1. Init => NetInv /\ NumberInv /\ RoomInv
  <2> SUFFICES ASSUME Init PROVE NetInv /\ NumberInv /\ RoomInv
    OBVIOUS
  <2>1. \A c \in Conn : cb[c] = Closed(0)
    BY DEF Init
  <2>2. Unacknowledged(Closed(0)) = {} /\ Closed(0).nos = 0 /\ Closed(0).winx = 0
    BY KeptNone DEF Unacknowledged, Closed
  <2>3. RoomOK(Closed(0))
    <3>1. Cardinality(Unacknowledged(Closed(0))) = 0
      BY <2>2, FS_EmptySet
    <3> QED BY <2>2, <3>1 DEF RoomOK
  <2> QED BY <2>1, <2>3, TypeInit, ControlInit, NamesInit, NumberInit DEF NetInv, RoomInv
<1>2. NetInv /\ NumberInv /\ RoomInv /\ [Next]_vars => NetInv' /\ NumberInv' /\ RoomInv'
  BY NamesNext, NumberNext, RoomNext
<1> QED BY <1>1, <1>2, PTL DEF Spec

(* When FINISH returns, because CHSNOS is back at the whole window, no data packet is on the *)
(* send list that has not been acknowledged (CHAFIN).                                        *)
THEOREM FinishAlways == Short => (Spec => []FinishWaits)
<1>1. ASSUME ConnAssumption, NetInv, NumberInv, RoomInv, NEW c \in Conn, cb[c].winx <= cb[c].nos,
             NEW i \in DOMAIN cb[c].obf, cb[c].obf[i].op = "DAT"
      PROVE  ~Before(cb[c].ackx, cb[c].obf[i].pn)
  <2> DEFINE k == cb[c]
             q == k.obf[i]
  <2>1. /\ k \in Connections /\ k.ackx \in PktNumber /\ k.pknx \in PktNumber /\ k.winx \in Int
        /\ k.nos \in Int /\ k.obf \in Seq(GoodPackets)
    BY <1>1, FieldTypes DEF NetInv, TypeInv
  <2>2. q \in GoodPackets /\ q.pn \in PktNumber /\ q \in Kept(k.obf) /\ q.op = "DAT"
    BY <1>1, <2>1, PacketFields DEF Kept
  <2>3. /\ k.ackx < Half /\ k.pknx < Half /\ \A x \in Kept(k.obf) : x.pn <= k.pknx
        /\ k.nos + Cardinality(Unacknowledged(k)) <= k.winx
    BY <1>1 DEF NumberInv, NumberOK, RoomInv, RoomOK
  <2>4. k.winx <= k.nos
    BY <1>1
  <2> HIDE DEF k, q
  <2>5. Cardinality(Unacknowledged(k)) = 0 /\ IsFiniteSet(Unacknowledged(k))
    BY <2>1, <2>3, <2>4, UnacknowledgedCount
  <2>6. Unacknowledged(k) = {}
    BY <2>5, FS_EmptySet
  <2>7. q.pn <= k.pknx /\ k.pknx \in Int /\ k.ackx \in Int /\ q.pn \in Int /\ q.pn >= 0
    BY <2>1, <2>2, <2>3, NumberRange
  <2>8. ~(q.pn > k.ackx) /\ q.pn < Half
    BY <2>2, <2>3, <2>6, <2>7, ShortNumbers DEF Unacknowledged
  <2>9. ~Before(k.ackx, q.pn)
    <3>1. Before(k.ackx, q.pn) <=> k.ackx < q.pn
      BY <2>1, <2>2, <2>3, <2>8, ShortBefore
    <3> QED BY <2>7, <2>8, <3>1
  <2> QED BY <2>9 DEF k, q
<1>2. ConnAssumption /\ NetInv /\ NumberInv /\ RoomInv => FinishWaits
  BY <1>1 DEF FinishWaits
<1> SUFFICES ASSUME Short PROVE Spec => []FinishWaits
  OBVIOUS
<1>3. Spec => [](NetInv /\ NumberInv /\ RoomInv)
  BY ConnAssumption, RoomAlways
<1>4. NetInv /\ NumberInv /\ RoomInv => FinishWaits
  BY <1>2, ConnAssumption
<1> QED BY <1>3, <1>4, PTL

-----------------------------------------------------------------------------
(* What has been received in order: the data on CHSIBF has the numbers from the one after  *)
(* pknr up to last, in this order and without a gap, and comes from the other end.          *)

Ends == {"CLS", "ANS", "LOS"}

Received(k, last) ==
  /\ last \in Nat /\ last < Half /\ k.pknr <= last
  /\ \A i \in Numbered(k) : k.pknr < k.ibf[i].pn /\ k.ibf[i].pn <= last /\ k.ibf[i].src = k.frn
  /\ \A i, j \in Numbered(k) : i < j => k.ibf[i].pn < k.ibf[j].pn
  /\ \A n \in k.pknr + 1 .. last : \E i \in Numbered(k) : k.ibf[i].pn = n

\* The rest of CHSIBF: a RFC is in front and ends give no number; and what is early.
Around(k) ==
  /\ \A i \in 1 .. Len(k.ibf) :
       /\ k.ibf[i].op \in Data \cup Ends \cup {"RFC", "UNC"}
       /\ k.ibf[i].op = "RFC" => i = 1 /\ k.ibf[i].pn = k.pknr
       /\ k.ibf[i].op \in Ends => k.ibf[i].pn = 0
  /\ \A q \in Kept(k.pbf) : q.op \in Data /\ q.src = k.frn
  /\ k.sta \in {"LSN", "RFS"} => k.pbf = <<>>

ReceiveInv == \A c \in Conn : Around(cb[c]) /\ \E last \in Nat : Received(cb[c], last)

LEMMA NumberedPlaces ==
  ASSUME NEW k \in Connections
  PROVE  /\ k.ibf \in Seq(PacketTypes) /\ Len(k.ibf) \in Nat /\ k.pknr \in Nat
         /\ \A i \in 1 .. Len(k.ibf) : k.ibf[i].pn \in Nat
         /\ \A i : i \in Numbered(k) <=> i \in 1 .. Len(k.ibf) /\ k.ibf[i].op \in Data
         /\ \A i \in Numbered(k) : i \in 1 .. Len(k.ibf) /\ k.ibf[i].pn \in Nat
<1>1. k.ibf \in Seq(PacketTypes) /\ Len(k.ibf) \in Nat /\ DOMAIN k.ibf = 1 .. Len(k.ibf) /\ k.pknr \in PktNumber
  BY DEF Connections
<1>2. \A i \in 1 .. Len(k.ibf) : k.ibf[i] \in PacketTypes
  BY <1>1
<1>3. \A i \in 1 .. Len(k.ibf) : k.ibf[i].pn \in Nat
  BY <1>2, NumberTypes DEF PacketTypes
<1>4. \A i : i \in Numbered(k) <=> i \in 1 .. Len(k.ibf) /\ k.ibf[i].op \in Data
  BY <1>1 DEF Numbered, Data
<1> QED BY <1>1, <1>3, <1>4, NumberTypes

\* Nothing has been received.
LEMMA ReceivedNone ==
  ASSUME NEW k \in Connections, k.pknr < Half, \A i \in 1 .. Len(k.ibf) : k.ibf[i].op \notin Data
  PROVE  Received(k, k.pknr)
<1>1. k.pknr \in Nat /\ Numbered(k) = {}
  BY NumberedPlaces
<1> QED BY <1>1, ShortNumbers DEF Received

\* The same data is in the same places.
LEMMA ReceivedSame ==
  ASSUME NEW k \in Connections, NEW r \in Connections, NEW last, Received(k, last),
         r.pknr = k.pknr, r.frn = k.frn, Numbered(r) = Numbered(k),
         \A i \in Numbered(k) : r.ibf[i] = k.ibf[i]
  PROVE  Received(r, last)
BY DEF Received

\* What there is after a packet without number is put at the end.
LEMMA ReceivedAppend ==
  ASSUME NEW k \in Connections, NEW r \in Connections, NEW last, Received(k, last),
         r.pknr = k.pknr, r.frn = k.frn, NEW p \in PacketTypes, p.op \notin Data, r.ibf = Append(k.ibf, p)
  PROVE  Received(r, last)
<1>1. /\ Len(r.ibf) = Len(k.ibf) + 1 /\ r.ibf[Len(k.ibf) + 1] = p
      /\ \A i \in 1 .. Len(k.ibf) : r.ibf[i] = k.ibf[i]
  BY NumberedPlaces, AppendProperties
<1>2. Len(k.ibf) \in Nat
  BY NumberedPlaces
<1>3. \A i : i \in 1 .. Len(r.ibf) <=> i \in 1 .. Len(k.ibf) \/ i = Len(k.ibf) + 1
  BY <1>1, <1>2
<1>4. Numbered(r) = Numbered(k)
  <2>1. \A i : i \in Numbered(r) <=> i \in Numbered(k)
    BY <1>1, <1>3, NumberedPlaces
  <2> QED BY <2>1
<1>5. \A i \in Numbered(k) : r.ibf[i] = k.ibf[i]
  BY <1>1, NumberedPlaces
<1> QED BY <1>4, <1>5, ReceivedSame

\* What there is after data has come in order, with what it brings.
LEMMA ReceivedMore ==
  ASSUME NEW k \in Connections, NEW r \in Connections, NEW last, Received(k, last),
         r.pknr = k.pknr, r.frn = k.frn, NEW m \in Nat, last + m < Half, Len(r.ibf) = Len(k.ibf) + m,
         \A i \in 1 .. Len(k.ibf) : r.ibf[i] = k.ibf[i],
         \A i \in 1 .. m : /\ r.ibf[Len(k.ibf) + i].op \in Data /\ r.ibf[Len(k.ibf) + i].src = k.frn
                           /\ r.ibf[Len(k.ibf) + i].pn = last + i
  PROVE  Received(r, last + m)
<1> DEFINE L == Len(k.ibf)
<1>0. L \in Nat /\ last \in Nat /\ k.pknr \in Nat /\ k.pknr <= last /\ Half = 32768
  BY NumberedPlaces, ShortNumbers DEF Received
<1>1. ASSUME NEW i \in Numbered(r)
      PROVE  (i \in Numbered(k) /\ r.ibf[i] = k.ibf[i]) \/ (i > L /\ r.ibf[i].pn = last + (i - L) /\ i - L \in 1 .. m /\ r.ibf[i].src = k.frn)
  <2>1. i \in 1 .. L + m /\ r.ibf[i].op \in Data
    BY NumberedPlaces
  <2>2. CASE i \in 1 .. L
    BY <2>1, <2>2, NumberedPlaces
  <2>3. CASE i \notin 1 .. L
    <3>1. i - L \in 1 .. m /\ L + (i - L) = i /\ i > L
      BY <1>0, <2>1, <2>3
    <3> QED BY <3>1
  <2> QED BY <2>2, <2>3
<1>2. \A i \in Numbered(k) : i \in Numbered(r) /\ i <= L /\ r.ibf[i] = k.ibf[i]
  <2> TAKE i \in Numbered(k)
  <2>1. i \in 1 .. L /\ k.ibf[i].op \in Data
    BY NumberedPlaces
  <2>2. i \in 1 .. L + m
    BY <1>0, <2>1
  <2> QED BY <2>1, <2>2, NumberedPlaces
<1>3. \A i \in 1 .. m : L + i \in Numbered(r)
  <2> TAKE i \in 1 .. m
  <2>1. L + i \in 1 .. L + m
    BY <1>0
  <2> QED BY <2>1, NumberedPlaces
<1>4. \A i \in Numbered(k) : k.ibf[i].pn \in Nat /\ k.pknr < k.ibf[i].pn /\ k.ibf[i].pn <= last /\ k.ibf[i].src = k.frn
  BY NumberedPlaces DEF Received
<1>5. ASSUME NEW i \in Numbered(r)
      PROVE  k.pknr < r.ibf[i].pn /\ r.ibf[i].pn <= last + m /\ r.ibf[i].src = k.frn
  <2>1. CASE i \in Numbered(k) /\ r.ibf[i] = k.ibf[i]
    BY <1>0, <1>4, <2>1
  <2>2. CASE i > L /\ r.ibf[i].pn = last + (i - L) /\ i - L \in 1 .. m /\ r.ibf[i].src = k.frn
    <3>1. ASSUME NEW e \in 1 .. m, NEW x, x = last + e PROVE k.pknr < x /\ x <= last + m
      BY <1>0, <3>1
    <3>2. PICK e \in 1 .. m : r.ibf[i].pn = last + e
      BY <2>2
    <3> QED BY <2>2, <3>1, <3>2
  <2> QED BY <1>1, <2>1, <2>2
<1>6. ASSUME NEW i \in Numbered(r), NEW j \in Numbered(r), i < j
      PROVE  r.ibf[i].pn < r.ibf[j].pn
  <2>0. i \in Nat /\ j \in Nat
    BY NumberedPlaces
  <2>1. CASE i \in Numbered(k) /\ j \in Numbered(k)
    BY <1>2, <1>6, <2>1 DEF Received
  <2>2. CASE i \in Numbered(k) /\ j > L /\ r.ibf[j].pn = last + (j - L) /\ j - L \in 1 .. m
    <3>1. PICK e \in 1 .. m : r.ibf[j].pn = last + e
      BY <2>2
    <3>2. r.ibf[i].pn \in Nat /\ r.ibf[i].pn <= last
      BY <1>2, <1>4, <2>2
    <3>3. last < last + e
      BY <1>0, <3>1
    <3> HIDE DEF L
    <3> QED BY <1>0, <3>1, <3>2, <3>3
  <2>3. CASE i > L /\ r.ibf[i].pn = last + (i - L) /\ j \in Numbered(k)
    BY <1>0, <1>2, <1>6, <2>0, <2>3
  <2>4. CASE /\ i > L /\ r.ibf[i].pn = last + (i - L)
             /\ j > L /\ r.ibf[j].pn = last + (j - L)
    <3>1. last + (i - L) < last + (j - L)
      <4> HIDE DEF L
      <4> QED BY <1>0, <1>6, <2>0
    <3> QED BY <2>4, <3>1
  <2> QED BY <1>1, <2>1, <2>2, <2>3, <2>4
<1>7. ASSUME NEW n \in k.pknr + 1 .. last + m
      PROVE  \E i \in Numbered(r) : r.ibf[i].pn = n
  <2>1. CASE n <= last
    <3>1. n \in k.pknr + 1 .. last
      BY <1>0, <2>1
    <3> QED BY <1>2, <3>1 DEF Received
  <2>2. CASE n > last
    <3>1. n - last \in 1 .. m /\ last + (n - last) = n
      BY <1>0, <2>2
    <3> QED BY <1>3, <3>1
  <2> QED BY <1>0, <2>1, <2>2
<1>8. last + m \in Nat /\ k.pknr <= last + m
  BY <1>0
<1> QED BY <1>5, <1>6, <1>7, <1>8 DEF Received

\* The first number is read first.
LEMMA ReceivedFirst ==
  ASSUME NEW k \in Connections, NEW last, Received(k, last), 1 \in Numbered(k)
  PROVE  k.ibf[1].pn = k.pknr + 1
<1>1. k.pknr \in Nat /\ last \in Nat /\ k.ibf[1].pn \in Nat /\ k.pknr < k.ibf[1].pn /\ k.ibf[1].pn <= last
  BY NumberedPlaces DEF Received
<1>2. k.pknr + 1 \in k.pknr + 1 .. last
  BY <1>1
<1>3. PICK j \in Numbered(k) : k.ibf[j].pn = k.pknr + 1
  BY <1>2 DEF Received
<1>4. j \in Nat /\ j >= 1
  BY NumberedPlaces
<1>5. j > 1 => k.ibf[1].pn < k.ibf[j].pn
  BY DEF Received
<1> QED BY <1>1, <1>3, <1>4, <1>5

\* What there is after the first packet has been read.
LEMMA ReceivedTail ==
  ASSUME NEW k \in Connections, NEW r \in Connections, NEW last, Received(k, last), k.ibf # <<>>,
         r.frn = k.frn, r.ibf = Tail(k.ibf),
         r.pknr = (IF Head(k.ibf).op \in Data THEN Head(k.ibf).pn ELSE k.pknr)
  PROVE  Received(r, last) /\ k.pknr <= r.pknr
<1>0. /\ Head(k.ibf) = k.ibf[1] /\ Len(k.ibf) \in Nat \ {0}
      /\ Len(r.ibf) = Len(k.ibf) - 1 /\ \A i \in 1 .. Len(r.ibf) : r.ibf[i] = k.ibf[i + 1]
  BY NumberedPlaces, HeadTailProperties
<1>1. \A i : i \in Numbered(r) => i + 1 \in Numbered(k) /\ r.ibf[i] = k.ibf[i + 1] /\ i \in Nat
  <2> SUFFICES ASSUME NEW i \in Numbered(r) PROVE i + 1 \in Numbered(k) /\ r.ibf[i] = k.ibf[i + 1] /\ i \in Nat
    OBVIOUS
  <2>1. i \in 1 .. Len(r.ibf) /\ r.ibf[i].op \in Data
    BY NumberedPlaces
  <2>2. i + 1 \in 1 .. Len(k.ibf) /\ r.ibf[i] = k.ibf[i + 1]
    BY <1>0, <2>1
  <2> QED BY <2>1, <2>2, NumberedPlaces
<1>2. \A j \in Numbered(k) : j # 1 => j - 1 \in Numbered(r) /\ r.ibf[j - 1] = k.ibf[j]
  <2> TAKE j \in Numbered(k)
  <2> HAVE j # 1
  <2>1. j \in 1 .. Len(k.ibf) /\ k.ibf[j].op \in Data
    BY NumberedPlaces
  <2>2. j - 1 \in 1 .. Len(r.ibf) /\ (j - 1) + 1 = j
    BY <1>0, <2>1
  <2>3. r.ibf[j - 1] = k.ibf[j]
    BY <1>0, <2>2
  <2> QED BY <2>1, <2>2, <2>3, NumberedPlaces
<1>3. \/ 1 \notin Numbered(k) /\ r.pknr = k.pknr
      \/ 1 \in Numbered(k) /\ r.pknr = k.ibf[1].pn /\ r.pknr = k.pknr + 1
  <2>1. 1 \in Numbered(k) <=> Head(k.ibf).op \in Data
    BY <1>0, NumberedPlaces
  <2> QED BY <1>0, <2>1, ReceivedFirst
<1>4. k.pknr \in Nat /\ last \in Nat /\ k.pknr <= last /\ \A i \in Numbered(k) : i \in Nat /\ i >= 1 /\ k.ibf[i].pn \in Nat
  BY NumberedPlaces DEF Received
<1>5. r.pknr <= last /\ r.pknr \in Nat /\ k.pknr <= r.pknr
  BY <1>3, <1>4 DEF Received
<1>6. ASSUME NEW i \in Numbered(r)
      PROVE  r.pknr < r.ibf[i].pn /\ r.ibf[i].pn <= last /\ r.ibf[i].src = k.frn
  <2>1. i + 1 \in Numbered(k) /\ r.ibf[i] = k.ibf[i + 1] /\ i \in Nat /\ i >= 1
    BY <1>1, <1>6, NumberedPlaces
  <2>2. 1 \in Numbered(k) => k.ibf[1].pn < k.ibf[i + 1].pn
    <3>1. 1 < i + 1
      BY <2>1
    <3> QED BY <2>1, <3>1 DEF Received
  <2>3. k.pknr < k.ibf[i + 1].pn /\ k.ibf[i + 1].pn <= last /\ k.ibf[i + 1].src = k.frn
    BY <2>1 DEF Received
  <2> QED BY <1>3, <2>1, <2>2, <2>3
<1>7. ASSUME NEW i \in Numbered(r), NEW j \in Numbered(r), i < j
      PROVE  r.ibf[i].pn < r.ibf[j].pn
  <2>1. i + 1 \in Numbered(k) /\ j + 1 \in Numbered(k) /\ i + 1 < j + 1
    BY <1>1, <1>7
  <2> QED BY ZenonT(60), <1>1, <2>1 DEF Received
<1>8. ASSUME NEW n \in r.pknr + 1 .. last
      PROVE  \E i \in Numbered(r) : r.ibf[i].pn = n
  <2>1. n \in k.pknr + 1 .. last /\ n # r.pknr
    BY <1>3, <1>4, <1>5
  <2>2. PICK j \in Numbered(k) : k.ibf[j].pn = n
    BY <2>1 DEF Received
  <2>3. j # 1
    BY <1>3, <2>1, <2>2
  <2> QED BY <1>2, <2>2, <2>3
<1> QED BY <1>5, <1>6, <1>7, <1>8 DEF Received

\* The number expected next follows what has been received, unless it has ended.
LEMMA NextFollows ==
  ASSUME NEW k \in Connections, NEW last, Received(k, last), Around(k)
  PROVE  \/ NextInOrder(k) = last + 1
         \/ NextInOrder(k) = 1 /\ \E i \in 1 .. Len(k.ibf) : k.ibf[i].op \in Ends
<1> DEFINE I == {i \in 1 .. Len(k.ibf) : k.ibf[i].op # "UNC"}
           place == SelectLastInSeq(k.ibf, LAMBDA p : p.op # "UNC")
<1>0. /\ last \in Nat /\ last < Half /\ k.pknr \in Nat /\ k.pknr <= last /\ Half = 32768
      /\ Len(k.ibf) \in Nat /\ k.pknr \in PktNumber /\ last \in PktNumber
  <2>1. k.pknr \in PktNumber
    BY DEF Connections
  <2> QED BY <2>1, NumberedPlaces, ShortNumbers, NumberRange DEF Received
<1>1. \A n \in PktNumber : n < Half => Succ(n) = n + 1
  BY ShortNumbers
<1>2. place = IF I # {} THEN Max(I) ELSE 0
  BY DEF SelectLastInSeq
<1>3. NextInOrder(k) = Succ(IF place = 0 THEN k.pknr ELSE k.ibf[place].pn)
  BY DEF NextInOrder
<1> HIDE DEF place
<1>4. CASE I = {}
  <2>1. Numbered(k) = {}
    BY <1>4, NumberedPlaces DEF Data
  <2>2. ~(k.pknr < last)
    <3>1. k.pknr < last => last \in k.pknr + 1 .. last
      BY <1>0
    <3> QED BY <2>1, <3>1 DEF Received
  <2>3. last = k.pknr
    BY <1>0, <2>2
  <2>4. NextInOrder(k) = Succ(k.pknr)
    <3>1. place = 0
      BY <1>2, <1>4
    <3> QED BY <1>3, <3>1
  <2>5. Succ(last) = last + 1
    BY <1>0, <1>1
  <2> QED BY <2>3, <2>4, <2>5
<1>5. CASE I # {}
  <2>0. I \in SUBSET (1 .. Len(k.ibf)) /\ place = Max(I)
    BY <1>2, <1>5
  <2>a. place \in I /\ \A i \in I : i <= place
    <3>0. Len(k.ibf) \in Nat /\ I \in SUBSET (1 .. Len(k.ibf)) /\ I # {}
      BY <1>0, <1>5, <2>0
    <3> HIDE DEF I
    <3>1. Max(I) \in I /\ \A i \in I : i <= Max(I)
      BY <3>0, MaxPlace
    <3> QED BY <2>0, <3>1
  <2>1. place \in 1 .. Len(k.ibf) /\ k.ibf[place].op # "UNC" /\ \A i \in I : i <= place
    BY <2>a
  <2>2. place # 0 /\ NextInOrder(k) = Succ(k.ibf[place].pn)
    BY <1>0, <1>3, <2>1
  <2>3. k.ibf[place].op \in Data \cup Ends \cup {"RFC"}
    BY <2>1 DEF Around
  <2>4. CASE k.ibf[place].op \in Ends
    <3>1. k.ibf[place].pn = 0
      BY <2>1, <2>4 DEF Around
    <3>2. Succ(0) = 1
      BY <1>0, <1>1, NumberTypes
    <3> QED BY <2>1, <2>2, <2>4, <3>1, <3>2
  <2>5. CASE k.ibf[place].op = "RFC"
    <3>1. place = 1 /\ k.ibf[place].pn = k.pknr
      BY <2>1, <2>5 DEF Around
    <3>2. Numbered(k) = {}
      <4> SUFFICES ASSUME NEW i \in Numbered(k) PROVE FALSE
        OBVIOUS
      <4>1. i \in 1 .. Len(k.ibf) /\ k.ibf[i].op \in Data
        BY NumberedPlaces
      <4>2. i \in I /\ k.ibf[i].op # "RFC"
        BY <4>1 DEF Data
      <4>3. i <= 1 /\ i \in Nat /\ i >= 1
        BY <2>1, <3>1, <4>1, <4>2
      <4>4. i = 1
        BY <4>3
      <4> QED BY <2>5, <3>1, <4>2, <4>4
    <3>3. ~(k.pknr < last)
      <4>1. k.pknr < last => last \in k.pknr + 1 .. last
        BY <1>0
      <4> QED BY <3>2, <4>1 DEF Received
    <3>4. last = k.pknr
      BY <1>0, <3>3
    <3> QED BY <1>0, <1>1, <2>2, <3>1, <3>4
  <2>6. CASE k.ibf[place].op \in Data
    <3>1. place \in Numbered(k)
      BY <2>1, <2>6, NumberedPlaces
    <3>2. k.ibf[place].pn \in Nat /\ k.pknr < k.ibf[place].pn /\ k.ibf[place].pn <= last
      BY <3>1, NumberedPlaces DEF Received
    <3>3. last \in k.pknr + 1 .. last
      BY <1>0, <3>2
    <3>4. PICK j \in Numbered(k) : k.ibf[j].pn = last
      BY <3>3 DEF Received
    <3>5. j \in I /\ j \in Nat
      BY <3>4, NumberedPlaces DEF Data
    <3>6. j <= place /\ place \in Nat
      BY <2>1, <3>5
    <3>7. j < place => last < k.ibf[place].pn
      BY <3>1, <3>4 DEF Received
    <3>8. j = place
      BY <1>0, <3>2, <3>5, <3>6, <3>7
    <3> QED BY <1>0, <1>1, <2>2, <3>4, <3>8
  <2> QED BY <2>3, <2>4, <2>5, <2>6
<1> QED BY <1>4, <1>5

LEMMA ReceiveGets ==
  ASSUME ConnAssumption, TypeInv, TypeInv', NumberInv, NumberInv', NEW c \in Conn,
         Around(cb[c]), NEW last, Received(cb[c], last), NEW p \in Traffic, Gets(c, cb[c], cb'[c], p)
  PROVE  Around(cb'[c]) /\ \E new \in Nat : Received(cb'[c], new)
<1> DEFINE k == cb[c]
           r == cb'[c]
<1>1. /\ k \in Connections /\ r \in Connections /\ k.ibf \in Seq(PacketTypes)
      /\ k.pbf \in Seq(PacketTypes) /\ Len(k.ibf) \in Nat /\ Len(k.pbf) \in Nat
  <2>1. k \in Connections /\ r \in Connections /\ k.ibf \in Seq(PacketTypes) /\ k.pbf \in Seq(PacketTypes)
    BY FieldTypes DEF TypeInv
  <2> HIDE DEF k, r
  <2>2. Len(k.ibf) \in Nat /\ Len(k.pbf) \in Nat
    BY <2>1, LenProperties
  <2> QED BY <2>1, <2>2
<1>2. p \in PacketTypes /\ p.pn \in PktNumber
  BY TrafficGood, PacketFields
<1>3. Around(k) /\ Received(k, last) /\ Gets(c, k, r, p)
  OBVIOUS
<1>4. (p.op \in Data => p.pn >= 2 /\ p.pn < Half) /\ \A q \in Kept(k.ibf) \cup Kept(k.pbf) : Low(q)
  BY DEF NumberInv, Low, Named, Data
<1>5. \A q \in Kept(r.ibf) : Low(q)
  BY DEF NumberInv
<1>6. last \in Nat /\ last < Half /\ Half = 32768 /\ last \in PktNumber
  BY <1>3, ShortNumbers, NumberRange DEF Received
<1> HIDE DEF k, r
<1>7. /\ r.frn = k.frn /\ r.pknr = k.pknr /\ r.sta = "OPN" /\ p.src = k.frn
  BY <1>3 DEF Gets, Fixed
<1> DEFINE Goal == Around(r) /\ \E new \in Nat : Received(r, new)
<1> SUFFICES Goal
  BY DEF r
<1>8. ASSUME p.op \in Data, p.pn = NextInOrder(k), NEW n \in 0 .. Len(k.pbf), Follows(k, p, n),
             r.ibf = Append(k.ibf, p) \o SubSeq(k.pbf, 1, n), r.pbf = SubSeq(k.pbf, n + 1, Len(k.pbf))
      PROVE  Goal
  <2> DEFINE L == Len(k.ibf)
             a == Append(k.ibf, p)
             b == SubSeq(k.pbf, 1, n)
  <2>1. p.pn = last + 1
    BY <1>1, <1>3, <1>4, <1>8, NextFollows
  <2>2. /\ a \in Seq(PacketTypes) /\ Len(a) = L + 1 /\ a[L + 1] = p /\ \A i \in 1 .. L : a[i] = k.ibf[i]
    BY <1>1, <1>2, AppendProperties
  <2>3. b \in Seq(PacketTypes) /\ Len(b) = n /\ n \in Nat /\ \A i \in 1 .. n : b[i] = k.pbf[i]
    BY SMTT(30), <1>1, <1>8, SubSeqProperties
  <2>4. /\ Len(r.ibf) = Len(a) + Len(b)
        /\ \A i \in 1 .. Len(a) + Len(b) : r.ibf[i] = IF i <= Len(a) THEN a[i] ELSE b[i - Len(a)]
    <3>1. r.ibf = a \o b
      BY <1>8
    <3> HIDE DEF a, b
    <3> DEFINE u == a \o b
    <3>2. /\ Len(u) = Len(a) + Len(b)
          /\ \A i \in 1 .. Len(a) + Len(b) : u[i] = IF i <= Len(a) THEN a[i] ELSE b[i - Len(a)]
      <4>1. a \in Seq(PacketTypes) /\ b \in Seq(PacketTypes)
        BY <2>2, <2>3
      <4> QED BY <4>1, ConcatProperties
    <3>3. r.ibf = u
      BY <3>1
    <3> HIDE DEF u
    <3> QED BY <3>2, <3>3
  <2> HIDE DEF a, b
  <2>5. Len(r.ibf) = L + (n + 1) /\ n + 1 \in Nat /\ L \in Nat
    <3>1. L \in Nat
      BY <1>1
    <3> HIDE DEF L
    <3> QED BY <2>2, <2>3, <2>4, <3>1
  <2>6. ASSUME NEW i \in 1 .. L PROVE r.ibf[i] = k.ibf[i]
    <3>1. i \in 1 .. Len(a) + Len(b) /\ i <= Len(a)
      BY <1>1, <2>2, <2>3
    <3> QED BY <2>2, <2>4, <3>1
  <2>7. r.ibf[L + 1] = p
    <3>1. L + 1 \in 1 .. Len(a) + Len(b) /\ L + 1 <= Len(a)
      BY <1>1, <2>2, <2>3
    <3> QED BY <2>2, <2>4, <3>1
  <2>8. ASSUME NEW i \in 1 .. n PROVE r.ibf[L + (i + 1)] = k.pbf[i]
    <3>1. L + (i + 1) \in 1 .. Len(a) + Len(b) /\ ~(L + (i + 1) <= Len(a)) /\ (L + (i + 1)) - Len(a) = i
      <4> HIDE DEF L
      <4> QED BY <2>2, <2>3, <2>5
    <3> QED BY <2>3, <2>4, <3>1
  <2>9. ASSUME NEW i \in 1 .. n
        PROVE  k.pbf[i].op \in Data /\ k.pbf[i].src = k.frn /\ k.pbf[i].pn < Half /\ k.pbf[i].pn = (p.pn + i) % Mod
    <3>1. i \in 1 .. Len(k.pbf) /\ k.pbf[i] \in Kept(k.pbf)
      BY SMTT(30), <1>1, <1>8 DEF Kept
    <3> QED BY <1>3, <1>4, <1>8, <3>1 DEF Around, Low, Follows
  <2>10. ASSUME NEW i \in 1 .. n, p.pn + i < Half PROVE k.pbf[i].pn = last + (i + 1)
    <3>1. (p.pn + i) % Mod = p.pn + i
      BY <1>6, <2>1, <2>10 DEF Mod
    <3> QED BY <1>6, <2>1, <2>9, <3>1
  <2>11. p.pn + n < Half
    <3> SUFFICES ASSUME ~(p.pn + n < Half) PROVE FALSE
      OBVIOUS
    <3>1. Half - p.pn \in 1 .. n /\ p.pn + (Half - p.pn) = Half /\ Half % Mod = Half
      <4>1. p.pn \in Int /\ p.pn < Half
        BY <1>2, <1>4, <1>8, NumberRange
      <4>2. Half \in Int /\ Half % Mod = Half
        BY DEF Half, Mod
      <4> QED BY <2>3, <4>1, <4>2
    <3> DEFINE i == Half - p.pn
    <3>2. i \in 1 .. n /\ (p.pn + i) % Mod = Half
      BY <3>1
    <3> HIDE DEF i
    <3> QED BY SMTT(30), <1>6, <2>9, <3>2
  <2>12. last + (n + 1) < Half
    BY <1>6, <2>1, <2>3, <2>11
  <2>13. ASSUME NEW j \in 1 .. n + 1
         PROVE  r.ibf[L + j].op \in Data /\ r.ibf[L + j].src = k.frn /\ r.ibf[L + j].pn = last + j
    <3>1. CASE j = 1
      BY <1>7, <1>8, <2>1, <2>7, <3>1
    <3>2. CASE j # 1
      <4>1. j - 1 \in 1 .. n /\ L + ((j - 1) + 1) = L + j /\ last + ((j - 1) + 1) = last + j
        BY <1>6, <2>3, <2>5, <3>2
      <4>2. p.pn + (j - 1) < Half
        BY <1>6, <2>1, <2>3, <2>11, <4>1
      <4> QED BY ZenonT(60), <2>8, <2>9, <2>10, <4>1, <4>2
    <3> QED BY <3>1, <3>2
  <2>14. Received(r, last + (n + 1)) /\ last + (n + 1) \in Nat
    <3> HIDE DEF L
    <3>1. Len(r.ibf) = Len(k.ibf) + (n + 1)
      BY <2>5 DEF L
    <3>2. \A i \in 1 .. Len(k.ibf) : r.ibf[i] = k.ibf[i]
      BY <2>6 DEF L
    <3>3. \A i \in 1 .. n + 1 : /\ r.ibf[Len(k.ibf) + i].op \in Data /\ r.ibf[Len(k.ibf) + i].src = k.frn
                                /\ r.ibf[Len(k.ibf) + i].pn = last + i
      BY <2>13 DEF L
    <3>4. Received(r, last + (n + 1))
      BY <1>1, <1>3, <1>7, <2>5, <2>12, <3>1, <3>2, <3>3, ReceivedMore
    <3> QED BY <1>6, <2>5, <3>4
  <2>15. Around(r)
    <3>1. ASSUME NEW i \in 1 .. Len(r.ibf)
          PROVE  /\ r.ibf[i].op \in Data \cup Ends \cup {"RFC", "UNC"}
                 /\ r.ibf[i].op = "RFC" => i = 1 /\ r.ibf[i].pn = r.pknr
                 /\ r.ibf[i].op \in Ends => r.ibf[i].pn = 0
      <4>1. CASE i \in 1 .. L
        BY <1>3, <1>7, <2>6, <4>1 DEF Around
      <4>2. CASE i \notin 1 .. L
        <5>1. i - L \in 1 .. n + 1 /\ L + (i - L) = i
          BY <2>3, <2>5, <4>2
        <5>2. r.ibf[i].op \in Data
          BY <2>13, <5>1
        <5> QED BY <5>2 DEF Data, Ends
      <4> QED BY <4>1, <4>2
    <3>2. Kept(r.pbf) \subseteq Kept(k.pbf)
      <4>1. n + 1 \in Nat /\ n + 1 >= 1 /\ Len(k.pbf) \in 0 .. Len(k.pbf)
        BY <1>1, <2>3
      <4> QED BY <1>1, <1>8, <4>1, KeptSub
    <3> QED BY <1>3, <1>7, <3>1, <3>2 DEF Around
  <2> QED BY <2>14, <2>15
<1>9. CASE p.op \in Data /\ r.ibf = k.ibf /\ r.pbf = OutOfOrder(k, p).pbf
  <2>1. Received(r, last)
    BY <1>1, <1>3, <1>7, <1>9, ReceivedSame DEF Numbered
  <2>2. Kept(r.pbf) \subseteq Kept(k.pbf) \cup {p}
    BY <1>1, <1>2, <1>9, KeptOutOfOrder
  <2>3. Around(r)
    BY <1>3, <1>7, <1>9, <2>2 DEF Around
  <2> QED BY <1>6, <2>1, <2>3
<1>10. CASE p.op = "UNC" /\ r.ibf = Append(k.ibf, p) /\ r.pbf = k.pbf
  <2>1. Received(r, last)
    BY <1>1, <1>2, <1>3, <1>7, <1>10, ReceivedAppend DEF Data
  <2>2. \A i \in 1 .. Len(r.ibf) : (i \in 1 .. Len(k.ibf) /\ r.ibf[i] = k.ibf[i]) \/ r.ibf[i] = p
    BY <1>1, <1>10, AppendProperties
  <2>3. Around(r)
    BY <1>3, <1>7, <1>10, <2>2 DEF Around, Data, Ends
  <2> QED BY <1>6, <2>1, <2>3
<1> QED BY <1>3, <1>8, <1>9, <1>10 DEF Gets

LEMMA ReceiveMoves ==
  ASSUME ConnAssumption, TypeInv, TypeInv', ControlInv, NumberInv, NumberInv', ReceiveInv,
         NEW c \in Conn, Moves(c)
  PROVE  Around(cb'[c]) /\ \E new \in Nat : Received(cb'[c], new)
<1> DEFINE k == cb[c]
           r == cb'[c]
<1>1. /\ k \in Connections /\ r \in Connections /\ k.ibf \in Seq(PacketTypes)
      /\ r.pknr < Half /\ r.pknr \in PktNumber /\ Len(k.ibf) \in Nat
  <2>1. k \in Connections /\ r \in Connections /\ r.pknr \in PktNumber /\ k.ibf \in Seq(PacketTypes)
    BY FieldTypes DEF TypeInv
  <2>2. r.pknr < Half
    BY DEF NumberInv, NumberOK
  <2> HIDE DEF k, r
  <2>3. Len(k.ibf) \in Nat
    BY <2>1, LenProperties
  <2> QED BY <2>1, <2>2, <2>3
<1>2. Effect(c, k, r) /\ Control(c, k)
  BY DEF Moves, ControlInv
<1>3. Around(k)
  BY DEF ReceiveInv
<1>4. PICK last \in Nat : Received(k, last)
  BY DEF ReceiveInv
<1>5. \A p \in Traffic : p \in PacketTypes /\ (p.op \in Ends => p.pn = 0)
  BY TrafficGood, PacketFields DEF Ends
<1>6. r.pknr \in Nat
  BY <1>1, NumberTypes
<1> DEFINE Goal == Around(r) /\ \E new \in Nat : Received(r, new)
<1>7. ASSUME NEW p \in Traffic, Gets(c, k, r, p) PROVE Goal
  BY <1>3, <1>4, <1>7, ReceiveGets
<1> HIDE DEF k, r
<1> SUFFICES Goal
  BY DEF r
<1>8. ASSUME r.ibf = <<>>, r.pbf = <<>> PROVE Goal
  <2>1. Len(r.ibf) = 0 /\ Kept(r.pbf) = {}
    BY <1>8, KeptNone
  <2> QED BY <1>1, <1>6, <1>8, <2>1, ReceivedNone DEF Around
<1>9. CASE Starts(k, r) \/ Drops(k, r)
  BY <1>8, <1>9 DEF Starts, Drops
<1>10. CASE Reads(k, r)
  <2>1. /\ r.frn = k.frn /\ r.ibf = Tail(k.ibf) /\ k.ibf # <<>> /\ r.pbf = k.pbf /\ r.sta = k.sta
        /\ r.pknr = (IF Head(k.ibf).op \in Data THEN Head(k.ibf).pn ELSE k.pknr)
    BY <1>10 DEF Reads, Fixed
  <2>2. Received(r, last)
    BY <1>1, <1>4, <2>1, ReceivedTail
  <2>3. \A i \in 1 .. Len(r.ibf) : i + 1 \in 1 .. Len(k.ibf) /\ r.ibf[i] = k.ibf[i + 1] /\ i + 1 # 1
    <3>1. Len(k.ibf) \in Nat \ {0} /\ Len(r.ibf) = Len(k.ibf) - 1
          /\ \A i \in 1 .. Len(r.ibf) : r.ibf[i] = k.ibf[i + 1]
      BY <1>1, <2>1, HeadTailProperties
    <3> QED BY <3>1
  <2>4. Around(r)
    BY <1>3, <2>1, <2>3 DEF Around
  <2> QED BY <1>4, <2>2, <2>4
<1>11. CASE Goes(k, r)
  <2>1. r.frn = k.frn /\ r.pknr = k.pknr /\ r.ibf = k.ibf /\ r.pbf = k.pbf
        /\ (r.sta \in {"LSN", "RFS"} => r.sta = k.sta)
    BY <1>11 DEF Goes, Fixed
  <2>2. Received(r, last)
    BY <1>1, <1>4, <2>1, ReceivedSame DEF Numbered
  <2>3. Around(r)
    BY <1>3, <2>1 DEF Around
  <2> QED BY <1>4, <2>2, <2>3
<1>12. ASSUME NEW p \in Traffic, Hooks(c, k, r, p) PROVE Goal
  <2>1. r.ibf = <<p>> /\ r.pbf = <<>> /\ r.pknr = p.pn /\ p.op = "RFC"
    BY <1>12 DEF Hooks
  <2>2. \A i \in 1 .. Len(r.ibf) : i = 1 /\ r.ibf[i] = p
    BY <2>1
  <2>3. Received(r, r.pknr)
    BY <1>1, <2>1, <2>2, ReceivedNone DEF Data
  <2>4. Around(r)
    BY <2>1, <2>2, KeptNone DEF Around, Ends
  <2> QED BY <1>6, <2>3, <2>4
<1>13. ASSUME NEW p \in Traffic, Opens(c, k, r, p) PROVE Goal
  <2>1. r.ibf = <<>> /\ r.pbf = k.pbf /\ k.sta = "RFS"
    BY <1>13 DEF Opens
  <2>2. k.pbf = <<>>
    BY <1>3, <2>1 DEF Around
  <2> QED BY <1>8, <2>1, <2>2
<1>14. ASSUME NEW p \in Traffic, Shuts(k, r, p) PROVE Goal
  <2>1. r.frn = k.frn /\ r.pknr = k.pknr /\ r.ibf = Append(k.ibf, p) /\ r.pbf = <<>> /\ p.op \in Ends
    BY <1>14 DEF Shuts, Fixed, Ends
  <2>2. p \in PacketTypes /\ p.pn = 0 /\ p.op \notin Data /\ p.op # "RFC"
    BY <1>5, <2>1 DEF Data, Ends
  <2>3. Received(r, last)
    BY <1>1, <1>4, <2>1, <2>2, ReceivedAppend
  <2>4. \A i \in 1 .. Len(r.ibf) : (i \in 1 .. Len(k.ibf) /\ r.ibf[i] = k.ibf[i]) \/ r.ibf[i] = p
    BY <1>1, <2>1, AppendProperties
  <2>5. Around(r)
    BY <1>3, <2>1, <2>2, <2>4, KeptNone DEF Around
  <2> QED BY <1>4, <2>3, <2>5
<1> QED BY <1>2, <1>7, <1>9, <1>10, <1>11, <1>12, <1>13, <1>14 DEF Effect, k, r

LEMMA ReceiveNext ==
  ASSUME ConnAssumption, Short, NetInv, NumberInv, ReceiveInv, [Next]_vars
  PROVE  ReceiveInv'
<1>0. TypeInv /\ TypeInv' /\ ControlInv /\ NumberInv'
  BY NamesNext, NumberNext DEF NetInv
<1>1. CASE Rests
  BY <1>1 DEF Rests, ReceiveInv
<1>2. ASSUME NEW c \in Conn, Steps(c) PROVE ReceiveInv'
  <2>1. Moves(c) /\ \A d \in Conn : d # c => cb'[d] = cb[d]
    BY <1>2 DEF Steps, Moves
  <2>2. Around(cb'[c]) /\ \E new \in Nat : Received(cb'[c], new)
    BY <1>0, <2>1, ReceiveMoves
  <2> QED BY <2>1, <2>2 DEF ReceiveInv
<1> QED BY <1>1, <1>2, StepSteps

LEMMA ReceiveInit == ASSUME ConnAssumption, Init PROVE ReceiveInv
<1>1. \A c \in Conn : cb[c] = Closed(0) /\ cb[c] \in Connections
  BY TypeInit, FieldTypes DEF Init, TypeInv
<1>2. Closed(0).ibf = <<>> /\ Closed(0).pbf = <<>> /\ Closed(0).pknr = 0
  BY DEF Closed
<1>3. ASSUME NEW c \in Conn PROVE Around(cb[c]) /\ Received(cb[c], 0)
  <2>1. cb[c].ibf = <<>> /\ cb[c].pbf = <<>> /\ cb[c].pknr = 0 /\ cb[c] \in Connections
    BY <1>1, <1>2
  <2>2. Len(cb[c].ibf) = 0 /\ 0 < Half
    BY <2>1, ShortNumbers
  <2> QED BY <2>1, <2>2, KeptNone, ReceivedNone DEF Around
<1> QED BY <1>3 DEF ReceiveInv

LEMMA ReceiveAlways == ASSUME ConnAssumption, Short PROVE Spec => [](NetInv /\ NumberInv /\ ReceiveInv)
<1>1. Init => NetInv /\ NumberInv /\ ReceiveInv
  BY TypeInit, ControlInit, NamesInit, NumberInit, ReceiveInit DEF NetInv
<1>2. NetInv /\ NumberInv /\ ReceiveInv /\ [Next]_vars => NetInv' /\ NumberInv' /\ ReceiveInv'
  BY NamesNext, NumberNext, ReceiveNext
<1> QED BY <1>1, <1>2, PTL DEF Spec

\* Each number is the one after that of the packet before it.
LEMMA ReceivedOrder ==
  ASSUME NEW k \in Connections, NEW last, Received(k, last), NEW i \in Numbered(k)
  PROVE  k.ibf[i].pn = Succ(NumberBefore(k, i))
<1> DEFINE earlier == {j \in Numbered(k) : j < i}
           pn(j) == k.ibf[j].pn
<1>1. /\ last \in Nat /\ k.pknr \in Nat /\ Len(k.ibf) \in Nat /\ last < Half /\ Half = 32768
      /\ i \in Nat /\ pn(i) \in Nat /\ k.pknr < pn(i) /\ pn(i) <= last
      /\ \A j \in Numbered(k) : j \in Nat /\ pn(j) \in Nat /\ k.pknr < pn(j) /\ pn(j) <= last
      /\ \A j \in Numbered(k) : j < i => pn(j) < pn(i)
      /\ \A j \in Numbered(k) : i < j => pn(i) < pn(j)
  BY NumberedPlaces, ShortNumbers DEF Received
<1>2. \A n \in k.pknr + 1 .. last : \E j \in Numbered(k) : pn(j) = n
  BY DEF Received
<1>3. \A n \in Nat : n < last => Succ(n) = n + 1
  <2> TAKE n \in Nat
  <2> HAVE n < last
  <2>1. n \in PktNumber /\ n < Half
    BY <1>1, NumberRange
  <2> QED BY <2>1, ShortNumbers
<1>4. CASE earlier = {}
  <2>1. NumberBefore(k, i) = k.pknr
    BY <1>4 DEF NumberBefore
  <2>2. k.pknr + 1 \in k.pknr + 1 .. last
    BY <1>1
  <2>3. PICK j \in Numbered(k) : pn(j) = k.pknr + 1
    BY <1>2, <2>2
  <2>4. ~(j < i)
    BY <1>4
  <2>5. j = i
    <3> HIDE DEF pn
    <3> QED BY <1>1, <2>3, <2>4
  <2>6. Succ(k.pknr) = k.pknr + 1
    BY <1>1, <1>3
  <2> QED BY <2>1, <2>3, <2>5, <2>6
<1>5. CASE earlier # {}
  <2> DEFINE m == Max(earlier)
  <2>1. NumberBefore(k, i) = pn(m)
    BY <1>5 DEF NumberBefore
  <2>2. m \in earlier /\ \A j \in earlier : j <= m
    <3>1. earlier \in SUBSET (1 .. Len(k.ibf)) /\ Len(k.ibf) \in Nat
      BY <1>1, NumberedPlaces
    <3> HIDE DEF earlier
    <3> QED BY <1>5, <3>1, MaxPlace
  <2> HIDE DEF m
  <2>3. m \in Numbered(k) /\ m < i /\ \A j \in Numbered(k) : j < i => j <= m
    BY <2>2
  <2>4. m \in Nat /\ pn(m) \in Nat /\ k.pknr < pn(m) /\ pn(m) < pn(i)
    <3>1. m \in Numbered(k) /\ m < i
      BY <2>3
    <3> HIDE DEF pn
    <3> QED BY <1>1, <3>1
  <2>5. pn(m) + 1 \in k.pknr + 1 .. last
    <3> HIDE DEF pn
    <3> QED BY <1>1, <2>4
  <2>6. PICK j \in Numbered(k) : pn(j) = pn(m) + 1
    BY <1>2, <2>5
  <2>7. j < i => j = m \/ pn(j) < pn(m)
    <3>1. j < i => j <= m /\ j \in Nat
      BY <1>1, <2>3
    <3>2. j < m => pn(j) < pn(m)
      BY <2>3 DEF Received
    <3> QED BY <2>4, <3>1, <3>2
  <2>8. j = i
    <3>1. j \in Nat /\ pn(j) \in Nat /\ (i < j => pn(i) < pn(j))
      BY <1>1
    <3> HIDE DEF pn
    <3> QED BY <1>1, <2>4, <2>6, <2>7, <3>1
  <2>9. Succ(pn(m)) = pn(m) + 1
    <3> HIDE DEF pn
    <3>1. pn(m) < last
      BY <1>1, <2>4
    <3> QED BY <1>3, <2>4, <3>1
  <2> QED BY <2>1, <2>6, <2>8, <2>9
<1> QED BY <1>4, <1>5

(* The packets a user is going to be given follow the last one it was given without a gap, *)
(* and come from the other end of this very connection, whatever the network loses,         *)
(* duplicates and reorders (CHIDAT, CHIDT1, CHFNDX).                                          *)
THEOREM OrderAlways == Short => (Spec => []NoGaps)
<1> SUFFICES ASSUME Short PROVE Spec => []NoGaps
  OBVIOUS
<1>1. ASSUME ConnAssumption, NetInv, ReceiveInv PROVE NoGaps
  <2> SUFFICES ASSUME NEW c \in Conn, NEW i \in Numbered(cb[c])
               PROVE  cb[c].ibf[i].pn = Succ(NumberBefore(cb[c], i)) /\ cb[c].ibf[i].src = cb[c].frn
    BY DEF NoGaps
  <2>1. cb[c] \in Connections
    BY <1>1, FieldTypes DEF NetInv, TypeInv
  <2>2. PICK last \in Nat : Received(cb[c], last)
    BY <1>1 DEF ReceiveInv
  <2>3. cb[c].ibf[i].src = cb[c].frn
    BY <2>2 DEF Received
  <2> QED BY <2>1, <2>2, <2>3, ReceivedOrder
<1>2. Spec => [](NetInv /\ NumberInv /\ ReceiveInv)
  BY ConnAssumption, ReceiveAlways
<1>3. NetInv /\ ReceiveInv => NoGaps
  BY <1>1, ConnAssumption
<1> QED BY <1>2, <1>3, PTL

-----------------------------------------------------------------------------
(* An acknowledgement that is under way, or has come, is for something that has been read. *)

AckInv ==
  /\ \A c \in Conn : cb[c].sta \in {"LSN", "RFS"} => cb[c].ackx = 0
  /\ \A q \in Traffic, d \in Conn : q.op \in Named /\ q.src = Lcl(d) => q.ack <= cb[d].pknr
  /\ \A c, d \in Conn : cb[c].frn[2] # 0 /\ cb[c].frn = Lcl(d) => cb[c].ackx <= cb[d].pknr

\* What a user has read stays read while the index is in the same life.
LEMMA ReadStays ==
  ASSUME TypeInv, TypeInv', NumberInv, ReceiveInv, NEW c \in Conn, Steps(c), cb'[c].uniq = cb[c].uniq
  PROVE  cb[c].pknr <= cb'[c].pknr
<1> DEFINE k == cb[c]
           r == cb'[c]
<1>1. k \in Connections /\ r \in Connections /\ k.pknr \in Int /\ r.pknr \in Int /\ r.pknr >= 0 /\ k.uniq \in Nat
  BY FieldTypes, NumberRange DEF TypeInv
<1>2. Effect(c, k, r) /\ r.uniq = k.uniq
  BY DEF Steps, Moves
<1>3. k.sta \in {"LSN", "RFS"} => k.pknr = 0
  BY DEF NumberInv, NumberOK
<1>4. PICK last \in Nat : Received(k, last)
  BY DEF ReceiveInv
<1> HIDE DEF k, r
<1> SUFFICES k.pknr <= r.pknr
  BY DEF k, r
<1>5. CASE Reads(k, r)
  <2>1. /\ r.frn = k.frn /\ r.ibf = Tail(k.ibf) /\ k.ibf # <<>>
        /\ r.pknr = (IF Head(k.ibf).op \in Data THEN Head(k.ibf).pn ELSE k.pknr)
    BY <1>5 DEF Reads, Fixed
  <2> QED BY <1>1, <1>4, <2>1, ReceivedTail
<1>6. CASE ~Reads(k, r)
  <2>1. r.pknr = k.pknr \/ k.sta \in {"LSN", "RFS"}
    <3>1. ~(r.uniq = k.uniq + 1)
      BY <1>1, <1>2
    <3> QED BY <1>2, <1>6, <3>1 DEF Effect, Starts, Drops, Goes, Hooks, Opens, Shuts, Gets
  <2> QED BY <1>1, <1>3, <2>1
<1> QED BY <1>5, <1>6

LEMMA AckMoves ==
  ASSUME ConnAssumption, NetInv, TypeInv', NumberInv, ReceiveInv, AckInv, NEW c \in Conn, Steps(c)
  PROVE  AckInv'
<1> DEFINE k == cb[c]
           r == cb'[c]
<1>0. TypeInv /\ ControlInv /\ LifeInv /\ NameInv
  BY DEF NetInv, NamesInv
<1>1. /\ \A d \in Conn : d # c => cb'[d] = cb[d]
      /\ Effect(c, k, r) /\ (r = k \/ Counts(c, k, r))
      /\ \A q \in Traffic' : q.op \in Named => q \in Traffic \/ Fresh(c, k, r, q)
  BY DEF Steps, Moves
<1>2. /\ k.uniq \in Nat /\ r.uniq \in Nat /\ k.pknr \in Int /\ r.pknr \in Int /\ r.pknr >= 0
      /\ \A d \in Conn : cb[d].uniq \in Nat /\ cb[d].pknr \in Int /\ cb[d].pknr >= 0
                         /\ cb[d].ackx \in Int /\ cb'[d].pknr \in Int /\ cb'[d].pknr >= 0
  BY <1>0, FieldTypes, NumberRange DEF TypeInv
<1>3. r.uniq = k.uniq => k.pknr <= r.pknr
  BY <1>0, ReadStays
<1>4. r.uniq = k.uniq \/ r.uniq = k.uniq + 1
  BY <1>1 DEF Effect, Starts, Drops, Reads, Goes, Hooks, Opens, Shuts, Gets, Fixed
<1>5. Control(c, k) /\ (k.sta \in {"LSN", "RFS"} => k.ackx = 0)
  BY <1>0 DEF ControlInv, AckInv
<1>6. \A d \in Conn : d # c => cb'[d] = cb[d]
  BY <1>1
<1>7. ASSUME NEW q \in Traffic, q.op \in Named, NEW d \in Conn, q.src = <<d, cb'[d].uniq>>
      PROVE  q.ack <= cb'[d].pknr
  <2>0. q.ack \in Int
    BY <1>0, TrafficGood, PacketFields, NumberRange
  <2>1. CASE d # c
    BY <1>6, <1>7, <2>1 DEF AckInv, Lcl
  <2>2. CASE d = c /\ r.uniq = k.uniq
    <3>1. q.ack <= k.pknr
      BY <1>7, <2>2 DEF AckInv, Lcl
    <3> QED BY <1>2, <1>3, <2>0, <2>2, <3>1
  <2>3. CASE d = c /\ r.uniq = k.uniq + 1
    <3>1. q.src[1] = c /\ q.src[2] = k.uniq + 1
      BY <1>7, <2>3
    <3>2. q.src[2] <= k.uniq
      BY <1>0, <1>7, <3>1 DEF NameInv
    <3> QED BY <1>2, <3>1, <3>2
  <2> QED BY <1>4, <2>1, <2>2, <2>3
<1>8. ASSUME NEW q \in Traffic', q.op \in Named, NEW d \in Conn, q.src = <<d, cb'[d].uniq>>
      PROVE  q.ack <= cb'[d].pknr
  <2>1. CASE q \in Traffic
    BY <1>7, <1>8, <2>1
  <2>2. CASE Fresh(c, k, r, q)
    <3>1. q.src = <<c, r.uniq>> /\ q.ack = r.pknr
      BY <2>2 DEF Fresh
    <3>2. d = c
      BY <1>8, <3>1
    <3> QED BY <1>2, <3>1, <3>2
  <2> QED BY <1>1, <1>8, <2>1, <2>2
<1> HIDE DEF k, r
<1>9. r.sta \in {"LSN", "RFS"} => r.ackx = 0
  <2>1. CASE r = k
    BY <1>5, <2>1
  <2>2. CASE Counts(c, k, r)
    BY <1>5, <2>2 DEF Counts, Born, Stays, SameCounts, Numbers, Queues, Accepts, Acks, Control
  <2> QED BY <1>1, <2>1, <2>2
\* What has been acknowledged to c, when the other end is the one it had, or a new one.
<1>10. \/ r.uniq = k.uniq /\ r.frn = k.frn
       \/ r.frn[2] = 0
       \/ (r.ackx = 0 \/ \E p \in Traffic : p.op \in Named /\ p.src = r.frn /\ r.ackx = p.ack)
          /\ \E p \in Traffic : p.op \in Named /\ r.frn = p.src
  <2>1. CASE Starts(k, r)
    BY <2>1 DEF Starts
  <2>2. CASE Drops(k, r) \/ Reads(k, r) \/ Goes(k, r)
    BY <2>2 DEF Drops, Reads, Goes, Fixed
  <2>3. ASSUME NEW p \in Traffic, Shuts(k, r, p) \/ Gets(c, k, r, p) PROVE r.uniq = k.uniq /\ r.frn = k.frn
    BY <2>3 DEF Shuts, Gets, Fixed
  <2>4. ASSUME NEW p \in Traffic, Hooks(c, k, r, p) \/ Opens(c, k, r, p)
        PROVE  /\ r.ackx = 0 \/ \E q \in Traffic : q.op \in Named /\ q.src = r.frn /\ r.ackx = q.ack
               /\ p.op \in Named /\ r.frn = p.src
    <3>1. p.op \in Named /\ r.frn = p.src
      BY <2>4 DEF Hooks, Opens, Named
    <3>2. r.uniq = k.uniq + 1 \/ k.ackx = 0
      BY <1>5, <2>4 DEF Hooks, Opens
    <3>3. CASE r = k
      BY <1>2, <3>1, <3>2, <3>3
    <3>4. CASE Counts(c, k, r)
      <4>1. CASE r.uniq = k.uniq + 1
        BY <1>2, <3>1, <3>4, <4>1 DEF Counts, Born, Stays, SameCounts, Numbers, Queues, Accepts, Acks
      <4>2. CASE k.ackx = 0
        <5>1. r.ackx = k.ackx \/ r.ackx = 0 \/ \E q \in Traffic : q.op \in Named /\ q.src = r.frn /\ r.ackx \in {k.ackx, q.ack}
          BY <3>4 DEF Counts, Born, Stays, SameCounts, Numbers, Queues, Accepts, Acks
        <5> QED BY <3>1, <4>2, <5>1
      <4> QED BY <3>2, <4>1, <4>2
    <3> QED BY <1>1, <3>1, <3>3, <3>4
  <2> QED BY <1>1, <2>1, <2>2, <2>3, <2>4 DEF Effect
<1>11. r.uniq = k.uniq =>
         r.ackx = k.ackx \/ r.ackx = 0 \/ \E q \in Traffic : q.op \in Named /\ q.src = r.frn /\ r.ackx = q.ack
  BY <1>1 DEF Counts, Born, Stays, SameCounts, Numbers, Queues, Accepts, Acks
\* Of an index that is used again nobody knows yet.
<1>12. ASSUME NEW b \in Conn, b # c, cb[b].frn[2] # 0, cb[b].frn = <<c, r.uniq>> PROVE r.uniq = k.uniq
  <2>1. cb[b].frn[1] = c /\ cb[b].frn[2] = r.uniq
    BY <1>12
  <2>2. r.uniq <= k.uniq
    BY <1>0, <1>12, <2>1 DEF LifeInv, k
  <2> QED BY <1>2, <1>4, <2>2
<1>13. ASSUME NEW d \in Conn, r.frn[2] # 0, r.frn = <<d, cb'[d].uniq>> PROVE r.ackx <= cb'[d].pknr
  <2>1. (\E q \in Traffic : q.op \in Named /\ q.src = r.frn /\ r.ackx = q.ack) => r.ackx <= cb'[d].pknr
    BY <1>7, <1>13 DEF r
  <2>2. r.ackx = 0 => r.ackx <= cb'[d].pknr
    BY <1>2
  <2>3. CASE r.uniq = k.uniq /\ r.frn = k.frn
    <3>1. cb'[d].uniq = cb[d].uniq
      BY <1>6, <2>3 DEF r, k
    <3>2. k.ackx <= cb[d].pknr
      BY <1>13, <2>3, <3>1 DEF AckInv, Lcl, k
    <3>3. cb[d].pknr <= cb'[d].pknr
      BY <1>2, <1>3, <1>6, <2>3 DEF r, k
    <3>4. k.ackx <= cb'[d].pknr
      BY <1>2, <3>2, <3>3 DEF k
    <3> QED BY <1>11, <2>1, <2>2, <2>3, <3>4
  <2>4. CASE ~(r.uniq = k.uniq /\ r.frn = k.frn)
    BY <1>10, <1>13, <2>1, <2>2, <2>4
  <2> QED BY <2>3, <2>4
<1>14. ASSUME NEW b \in Conn, NEW d \in Conn, cb'[b].frn[2] # 0, cb'[b].frn = <<d, cb'[d].uniq>>
       PROVE  cb'[b].ackx <= cb'[d].pknr
  <2>1. CASE b = c
    BY <1>13, <1>14, <2>1 DEF r
  <2>2. CASE b # c
    <3>1. cb'[b] = cb[b]
      BY <1>6, <2>2
    <3>2. CASE d # c
      BY <1>6, <1>14, <3>1, <3>2 DEF AckInv, Lcl
    <3>3. CASE d = c
      <4>1. r.uniq = k.uniq
        BY <1>12, <1>14, <2>2, <3>1, <3>3 DEF r
      <4>2. cb[b].ackx <= k.pknr
        BY <1>14, <3>1, <3>3, <4>1 DEF AckInv, Lcl, k, r
      <4>3. cb[b].ackx \in Int /\ k.pknr <= r.pknr
        BY <1>2, <1>3, <4>1
      <4> QED BY <1>2, <3>1, <3>3, <4>2, <4>3 DEF r
    <3> QED BY <3>2, <3>3
  <2> QED BY <2>1, <2>2
<1>15. \A b \in Conn : cb'[b].sta \in {"LSN", "RFS"} => cb'[b].ackx = 0
  BY <1>6, <1>9 DEF AckInv, r
<1> QED BY <1>8, <1>14, <1>15 DEF AckInv, Lcl

LEMMA AckNext ==
  ASSUME ConnAssumption, NetInv, NumberInv, ReceiveInv, AckInv, [Next]_vars
  PROVE  AckInv'
<1>0. TypeInv'
  BY NamesNext DEF NetInv
<1>1. CASE Rests
  BY <1>1 DEF Rests, AckInv, Lcl
<1>2. ASSUME NEW c \in Conn, Steps(c) PROVE AckInv'
  BY <1>0, <1>2, AckMoves
<1> QED BY <1>1, <1>2, StepSteps

LEMMA AckAlways == ASSUME ConnAssumption, Short PROVE Spec => [](NetInv /\ NumberInv /\ ReceiveInv /\ AckInv)
<1>1. Init => NetInv /\ NumberInv /\ ReceiveInv /\ AckInv
  <2> SUFFICES ASSUME Init PROVE AckInv
    BY TypeInit, ControlInit, NamesInit, NumberInit, ReceiveInit DEF NetInv
  <2>1. \A c \in Conn : cb[c].sta = "CLS" /\ cb[c].frn[2] = 0
    BY DEF Init, Closed
  <2>2. Traffic = {}
    <3>1. \A c \in Conn : Kept(cb[c].obf) = {}
      BY KeptNone DEF Init, Closed
    <3>2. \A h \in Hosts : Kept(chqrfc[h]) = {}
      BY KeptNone DEF Init
    <3> QED BY <3>1, <3>2 DEF Traffic, Init
  <2> QED BY <2>1, <2>2 DEF AckInv
<1>2. /\ NetInv /\ NumberInv /\ ReceiveInv /\ AckInv /\ [Next]_vars
      => NetInv' /\ NumberInv' /\ ReceiveInv' /\ AckInv'
  BY NamesNext, NumberNext, ReceiveNext, AckNext
<1> QED BY <1>1, <1>2, PTL DEF Spec

(* No packet is acknowledged before it has been given to the user, by the connection that *)
(* the acknowledgement is from (CHPKIA, CHODT2, CHASTO).                                    *)
THEOREM ReadAlways == Short => (Spec => []AckMeansRead)
<1> SUFFICES ASSUME Short PROVE Spec => []AckMeansRead
  OBVIOUS
<1>1. ASSUME ConnAssumption, NetInv, NumberInv, AckInv PROVE AckMeansRead
  <2> SUFFICES ASSUME NEW c \in Conn, NEW d \in Conn, Joined(c, d)
               PROVE  ~Before(cb[d].pknr, cb[c].ackx)
    BY DEF AckMeansRead
  <2>1. /\ cb[d].uniq \in Nat /\ cb[d].pknr \in PktNumber /\ cb[c].ackx \in PktNumber
        /\ cb[d].pknr < Half /\ cb[c].ackx < Half
    BY <1>1, FieldTypes DEF NetInv, TypeInv, NumberInv, NumberOK
  <2>2. cb[c].frn = <<d, cb[d].uniq>> /\ cb[c].frn[2] # 0
    BY <1>1, <2>1 DEF Joined, Lcl, NetInv, ControlInv, Control
  <2>3. cb[c].ackx <= cb[d].pknr
    BY <1>1, <2>2 DEF AckInv, Lcl
  <2>4. ~(cb[d].pknr < cb[c].ackx)
    BY <2>1, <2>3, NumberRange
  <2> QED BY <2>1, <2>4, ShortBefore
<1>2. Spec => [](NetInv /\ NumberInv /\ ReceiveInv /\ AckInv)
  BY ConnAssumption, AckAlways
<1>3. NetInv /\ NumberInv /\ AckInv => AckMeansRead
  BY <1>1, ConnAssumption
<1> QED BY <1>2, <1>3, PTL

-----------------------------------------------------------------------------
(* The window.  A second listen on an index goes on with the window of the connection       *)
(* before, and EOFs are not counted against it (CHORF1, CHOOP1), so that a writer may be    *)
(* further ahead than its reader asked for.  What bounds its data packets all the same is    *)
(* that a packet is numbered only after CHSNOS was seen to be more than 0.                   *)

Within(n) == \E w \in Given : n <= w

LEMMA WithinFacts ==
  ASSUME ConnAssumption
  PROVE  /\ \A m, n \in Int : Within(n) /\ m <= n => Within(m)
         /\ \A w \in Given : w \in Int /\ 1 <= w /\ w <= 64
         /\ Conn # {} => Within(1)
<1>1. \A w \in Given : w \in Int /\ 1 <= w /\ w <= 64
  BY DEF ConnAssumption, Given
<1>2. \A m, n \in Int : Within(n) /\ m <= n => Within(m)
  BY <1>1 DEF Within
<1>3. ASSUME NEW c \in Conn PROVE Within(1)
  <2>1. Window[c] \in Given
    BY DEF Given
  <2> QED BY <1>1, <2>1 DEF Within
<1> QED BY <1>1, <1>2, <1>3

\* The data packets a writer has on its send list that are not acknowledged, and one more
\* when it is about to put one there, are no more than some user asked for.
DataOK(k) ==
  /\ Within(Cardinality(Unacknowledged(k)))
  /\ k.pc \in {"number", "queue"} => Within(Cardinality(Unacknowledged(k)) + 1)

DataInv == \A c \in Conn : DataOK(cb[c])

\* Fewer of them are as few.
LEMMA FewerData ==
  ASSUME ConnAssumption, NEW k \in Connections, NEW r \in Connections, DataOK(k),
         Unacknowledged(r) \subseteq Unacknowledged(k),
         r.pc \in {"number", "queue"} => k.pc \in {"number", "queue"}
  PROVE  DataOK(r)
<1> DEFINE u == Cardinality(Unacknowledged(k))
           v == Cardinality(Unacknowledged(r))
<1>1. v <= u
  BY UnacknowledgedCount, FS_Subset
<1>2. v \in Int /\ u \in Int
  BY UnacknowledgedCount
<1>3. Within(u) /\ (k.pc \in {"number", "queue"} => Within(u + 1))
  BY DEF DataOK
<1> HIDE DEF u, v
<1>4. v + 1 <= u + 1 /\ v + 1 \in Int /\ u + 1 \in Int
  BY <1>1, <1>2
<1>5. Within(v) /\ (r.pc \in {"number", "queue"} => Within(v + 1))
  BY <1>1, <1>2, <1>3, <1>4, WithinFacts
<1> QED BY <1>5 DEF DataOK, v

LEMMA DataMoves ==
  ASSUME ConnAssumption, Short, TypeInv, TypeInv', ControlInv, NumberInv, NumberInv', RoomInv, DataInv,
         NEW c \in Conn, Steps(c)
  PROVE  DataOK(cb'[c])
<1> DEFINE k == cb[c]
           r == cb'[c]
<1>1. /\ k \in Connections /\ k.ackx \in PktNumber /\ k.pknx \in PktNumber /\ k.winx \in Int
      /\ k.nos \in Int /\ NosOK(k)
  BY FieldTypes DEF TypeInv
<1>r. /\ r \in Connections /\ r.ackx \in PktNumber /\ r.pknx \in PktNumber
  BY FieldTypes DEF TypeInv
<1>2. r = k \/ Counts(c, k, r)
  BY DEF Steps
<1>3. NumberOK(c, k) /\ NumberOK(c, r) /\ RoomOK(k) /\ DataOK(k) /\ Control(c, k)
  BY DEF NumberInv, RoomInv, DataInv, ControlInv
<1>4. /\ k.pknx \in Int /\ r.pknx \in Int /\ k.ackx \in Int /\ r.ackx \in Int
      /\ 0 <= k.ackx /\ 0 <= r.ackx /\ k.pknx >= 0
  BY <1>1, <1>r, NumberRange
<1>5. Succ(k.pknx) = k.pknx + 1
  BY <1>1, <1>3, ShortNumbers DEF NumberOK
<1>6. /\ \A m, n \in Int : Within(n) /\ m <= n => Within(m)
      /\ Within(1)
  BY WithinFacts
<1> DEFINE u == Cardinality(Unacknowledged(k))
           v == Cardinality(Unacknowledged(r))
<1>u. u \in Nat /\ v \in Nat
  BY <1>1, <1>r, UnacknowledgedCount
<1> HIDE DEF k, r
<1> SUFFICES DataOK(r)
  BY DEF r
<1>7. CASE r = k
  BY <1>3, <1>7
<1>8. CASE Born(k, r)
  <2>1. Unacknowledged(r) = {} /\ r.pc \notin {"number", "queue"}
    BY <1>8 DEF Born, Unacknowledged
  <2>2. Within(0)
    BY <1>6
  <2> QED BY <2>1, <2>2, FS_EmptySet DEF DataOK
<1>9. ASSUME r.ackx >= k.ackx, r.pknx >= k.pknx, \A q \in Kept(r.obf) : q \in Kept(k.obf) \/ q.op # "DAT"
      PROVE  Unacknowledged(r) \subseteq Unacknowledged(k)
  <2>1. \A q \in Kept(k.obf) : q.pn <= k.pknx
    BY <1>3 DEF NumberOK
  <2> QED BY <1>4, <1>9, <2>1 DEF Unacknowledged
<1>10. CASE Stays(c, k, r)
  <2>1. Unacknowledged(r) \subseteq Unacknowledged(k)
    BY <1>4, <1>9, <1>10 DEF Stays, SameCounts, KeepsNothingNew
  <2>2. CASE r.pc \in {"number", "queue"} => k.pc \in {"number", "queue"}
    BY <1>1, <1>r, <1>3, <2>1, <2>2, FewerData
  <2>3. CASE k.nos > 0
    <3>1. k.nos + u <= k.winx
      BY <1>3 DEF RoomOK
    <3> HIDE DEF u
    <3>2. u + 1 <= k.winx /\ k.winx # 0
      BY <1>1, <1>u, <2>3, <3>1
    <3>3. k.winx \in Given
      BY <1>1, <3>2 DEF NosOK
    <3>4. Within(u + 1)
      BY <3>2, <3>3 DEF Within
    <3>5. v <= u
      BY <1>1, <1>r, <2>1, UnacknowledgedCount, FS_Subset DEF u
    <3> HIDE DEF v
    <3>6. Within(v) /\ Within(v + 1)
      <4>1. v <= u + 1 /\ v + 1 <= u + 1 /\ v \in Int /\ v + 1 \in Int /\ u + 1 \in Int
        BY <1>u, <3>5
      <4> QED BY <1>6, <3>4, <4>1
    <3> QED BY <3>6 DEF DataOK, v
  <2> QED BY <1>10, <2>2, <2>3 DEF Stays
<1>11. CASE Numbers(k, r)
  <2>1. Unacknowledged(r) \subseteq Unacknowledged(k)
    BY <1>4, <1>5, <1>9, <1>11 DEF Numbers, KeepsNothingNew
  <2> QED BY <1>1, <1>r, <1>3, <1>11, <2>1, FewerData DEF Numbers
<1>12. CASE Accepts(k, r)
  <2>1. Unacknowledged(r) \subseteq Unacknowledged(k)
    BY <1>4, <1>5, <1>9, <1>12 DEF Accepts, KeepsOne
  <2> QED BY <1>1, <1>r, <1>3, <1>12, <2>1, FewerData DEF Accepts
<1>13. CASE Queues(k, r)
  <2>1. k.pc = "queue" /\ r.pc = "user" /\ r.ackx = k.ackx /\ r.pknx = k.pknx
    BY <1>13 DEF Queues
  <2>2. Within(u + 1)
    BY <1>3, <2>1 DEF DataOK
  <2>3. Unacknowledged(r) \subseteq Unacknowledged(k) \cup {k.pknx}
    BY <1>13, <2>1 DEF Queues, KeepsOne, Unacknowledged
  <2>4. v <= u + 1
    <3> DEFINE U == Unacknowledged(k)
               V == U \cup {k.pknx}
    <3>1. IsFiniteSet(U)
      BY <1>1, UnacknowledgedCount
    <3>2. IsFiniteSet(V) /\ Cardinality(V) <= Cardinality(U) + 1 /\ Cardinality(V) \in Nat
      <4>1. Cardinality(U) \in Nat
        BY <1>u
      <4> HIDE DEF U
      <4>2. IsFiniteSet(V) /\ Cardinality(V) = IF k.pknx \in U THEN Cardinality(U) ELSE Cardinality(U) + 1
        BY <3>1, FS_AddElement
      <4> QED BY <4>1, <4>2
    <3>3. Cardinality(Unacknowledged(r)) <= Cardinality(V)
      BY <2>3, <3>2, FS_Subset
    <3>4. Cardinality(U) = u /\ Cardinality(Unacknowledged(r)) = v
      OBVIOUS
    <3> HIDE DEF U, V, u, v
    <3> QED BY <1>u, <3>2, <3>3, <3>4
  <2> HIDE DEF u, v
  <2>5. Within(v)
    BY <1>6, <1>u, <2>2, <2>4
  <2> QED BY <2>1, <2>5 DEF DataOK, v
<1>14. ASSUME NEW p \in Traffic, Acks(c, k, r, p) PROVE DataOK(r)
  <2>1. /\ r.pc = k.pc /\ r.pknx = k.pknx /\ KeepsNothingNew(k, r)
        /\ r.ackx = (IF Before(k.ackx, p.ack) THEN p.ack ELSE k.ackx)
    BY <1>14 DEF Acks
  <2>2. k.ackx <= r.ackx
    <3>1. CASE Before(k.ackx, r.ackx)
      <4>1. k.ackx < r.ackx
        BY <1>1, <1>r, <1>3, <3>1, ShortBefore DEF NumberOK
      <4> QED BY <1>4, <4>1
    <3>2. CASE r.ackx = k.ackx
      BY <1>4, <3>2
    <3> QED BY <2>1, <3>1, <3>2
  <2>3. Unacknowledged(r) \subseteq Unacknowledged(k)
    BY <1>4, <1>9, <2>1, <2>2 DEF KeepsNothingNew
  <2> QED BY <1>1, <1>r, <1>3, <2>1, <2>3, FewerData
<1> QED BY <1>2, <1>7, <1>8, <1>10, <1>11, <1>12, <1>13, <1>14 DEF Counts

LEMMA DataNext ==
  ASSUME ConnAssumption, Short, NetInv, NumberInv, RoomInv, DataInv, [Next]_vars
  PROVE  DataInv'
<1>0. TypeInv /\ TypeInv' /\ ControlInv /\ NumberInv'
  BY NamesNext, NumberNext DEF NetInv
<1>1. CASE Rests
  BY <1>1 DEF Rests, DataInv
<1>2. ASSUME NEW c \in Conn, Steps(c) PROVE DataInv'
  <2>1. \A d \in Conn : d # c => cb'[d] = cb[d]
    BY <1>2 DEF Steps, Moves
  <2>2. DataOK(cb'[c])
    BY <1>0, <1>2, DataMoves
  <2> QED BY <2>1, <2>2 DEF DataInv
<1> QED BY <1>1, <1>2, StepSteps

LEMMA DataInit == ASSUME ConnAssumption, Init PROVE DataInv
<1> SUFFICES ASSUME NEW c \in Conn PROVE DataOK(cb[c])
  BY DEF DataInv
<1>1. cb[c] = Closed(0)
  BY DEF Init
<1>2. Unacknowledged(Closed(0)) = {} /\ Closed(0).pc = "user"
  BY KeptNone DEF Unacknowledged, Closed
<1>3. Within(0)
  BY WithinFacts
<1> QED BY <1>1, <1>2, <1>3, FS_EmptySet DEF DataOK

\* What an open connection has written, on its send list, that its reader has not read.
DataAhead(c, d) ==
  {n \in 0 .. cb[c].pknx : cb[d].pknr < n /\ \E q \in Kept(cb[c].obf) : q.op = "DAT" /\ q.pn = n}

DataWithin ==
  \A c, d \in Conn : Joined(c, d) => Within(Cardinality(DataAhead(c, d)))

(* Whatever windows users ask for, whichever EOFs they write and however often indices are  *)
(* used again: of the packets a writer still keeps for its reader, no more are data the      *)
(* reader has not read than the largest window that any user asked for (CHODAT, CHIAK0).     *)
THEOREM WindowAlways == Short => (Spec => []DataWithin)
<1> SUFFICES ASSUME Short PROVE Spec => []DataWithin
  OBVIOUS
<1>1. ASSUME ConnAssumption, NetInv, AckInv, DataInv PROVE DataWithin
  <2> SUFFICES ASSUME NEW c \in Conn, NEW d \in Conn, Joined(c, d)
               PROVE  Within(Cardinality(DataAhead(c, d)))
    BY DEF DataWithin
  <2>1. /\ cb[c] \in Connections /\ cb[c].ackx \in Int /\ cb[d].pknr \in Int /\ cb[d].uniq \in Nat
    BY <1>1, FieldTypes, NumberRange DEF NetInv, TypeInv
  <2>2. cb[c].frn = <<d, cb[d].uniq>> /\ cb[c].frn[2] # 0
    BY <1>1, <2>1 DEF Joined, Lcl, NetInv, ControlInv, Control
  <2>3. cb[c].ackx <= cb[d].pknr
    BY <1>1, <2>2 DEF AckInv, Lcl
  <2>4. DataAhead(c, d) \subseteq Unacknowledged(cb[c])
    BY <2>1, <2>3 DEF DataAhead, Unacknowledged
  <2> DEFINE U == Unacknowledged(cb[c])
  <2>5. IsFiniteSet(U) /\ Cardinality(U) \in Nat /\ Within(Cardinality(U))
    BY <1>1, <2>1, UnacknowledgedCount DEF DataInv, DataOK
  <2>6. Cardinality(DataAhead(c, d)) <= Cardinality(U) /\ Cardinality(DataAhead(c, d)) \in Nat
    BY <2>4, <2>5, FS_Subset, FS_CardinalityType
  <2> HIDE DEF U
  <2> QED BY <1>1, <2>5, <2>6, WithinFacts
<1>2. Init => DataInv
  BY ConnAssumption, DataInit
<1>3. NetInv /\ NumberInv /\ RoomInv /\ DataInv /\ [Next]_vars => DataInv'
  BY ConnAssumption, DataNext
<1>4. Spec => [](NetInv /\ NumberInv /\ RoomInv)
  BY ConnAssumption, RoomAlways
<1>5. Spec => [](NetInv /\ NumberInv /\ ReceiveInv /\ AckInv)
  BY ConnAssumption, AckAlways
<1>6. NetInv /\ AckInv /\ DataInv => DataWithin
  BY <1>1, ConnAssumption
<1> QED BY <1>2, <1>3, <1>4, <1>5, <1>6, PTL DEF Spec

-----------------------------------------------------------------------------
(* Without EOFs, all numbers are counted.                                                   *)

NoEofs == \A c \in Conn : "EOF" \notin Kinds[c]

\* A writer is no further than a window ahead of what has been acknowledged to it.
Ahead(k) == k.pknx - k.ackx

WindowOK(k) ==
  /\ k.op = "DAT"
  /\ k.sta \in {"LSN", "RFC"} => k.nos = 0
  /\ Within(Ahead(k))
  /\ k.pc = "number" => Within(Ahead(k) + 1)
  /\ k.nos > 0 => k.nos + Ahead(k) <= (IF k.pc = "queue" THEN k.winx + 1 ELSE k.winx)

WindowInv == \A c \in Conn : WindowOK(cb[c])

LEMMA WindowMoves ==
  ASSUME ConnAssumption, Short, NoEofs, TypeInv, TypeInv', ControlInv, NumberInv, NumberInv', WindowInv,
         NEW c \in Conn, Steps(c)
  PROVE  WindowOK(cb'[c])
<1> DEFINE k == cb[c]
           r == cb'[c]
<1>1. /\ k \in Connections /\ k.ackx \in PktNumber /\ k.pknx \in PktNumber /\ k.winx \in Int
      /\ k.nos \in Int /\ NosOK(k)
  BY FieldTypes DEF TypeInv
<1>r. /\ r \in Connections /\ r.ackx \in PktNumber /\ r.pknx \in PktNumber /\ r.winx \in 0 .. 64
      /\ r.winx \in Int /\ r.nos \in Int /\ NosOK(r)
  BY FieldTypes DEF TypeInv
<1>2. r = k \/ Counts(c, k, r)
  BY DEF Steps
<1>3. NumberOK(c, k) /\ NumberOK(c, r) /\ WindowOK(k) /\ Control(c, k)
  BY DEF NumberInv, WindowInv, ControlInv
<1>4. /\ k.pknx \in Int /\ r.pknx \in Int /\ k.ackx \in Int /\ r.ackx \in Int
      /\ 0 <= k.ackx /\ 0 <= r.ackx /\ 0 <= k.pknx
  BY <1>1, <1>r, NumberRange
<1>5. Succ(k.pknx) = k.pknx + 1
  BY <1>1, <1>3, ShortNumbers DEF NumberOK
<1>6. /\ \A m, n \in Int : Within(n) /\ m <= n => Within(m)
      /\ Within(1)
  BY WithinFacts
<1>7. r.winx = 0 \/ r.winx \in Given
  BY <1>r DEF NosOK
<1>8. r.winx \in Given => Within(r.winx)
  BY <1>r DEF Within
<1>9. "EOF" \notin Kinds[c]
  BY DEF NoEofs
<1> HIDE DEF k, r
<1> SUFFICES WindowOK(r)
  BY DEF r
<1>10. CASE r = k
  BY <1>3, <1>10
<1>11. CASE Born(k, r)
  <2>1. r.op = "DAT" /\ r.nos = 0 /\ r.pc # "number" /\ Ahead(r) \in Int /\ Ahead(r) <= 1
    BY <1>4, <1>11 DEF Born, Ahead
  <2> QED BY <1>6, <2>1 DEF WindowOK
<1>12. CASE Stays(c, k, r)
  <2>1. /\ r.pknx = k.pknx /\ r.ackx = k.ackx /\ r.winx = k.winx /\ r.nos = k.nos
        /\ Ahead(r) = Ahead(k)
    BY <1>12 DEF Stays, SameCounts, Ahead
  <2>2. r.op = "DAT"
    <3>1. r.op \in {"DAT", "EOF"}
      BY <1>r DEF Connections
    <3> QED BY <1>3, <1>9, <1>12, <3>1 DEF Stays, WindowOK
  <2>3. r.sta \in {"LSN", "RFC"} => r.nos = 0
    BY <1>3, <1>12, <2>1 DEF Stays, WindowOK
  <2>4. r.pc = "number" => Within(Ahead(r) + 1)
    <3>1. CASE k.pc = "number"
      BY <1>3, <2>1, <3>1 DEF WindowOK
    <3>2. CASE k.nos > 0 /\ k.pc # "queue" /\ r.pc = "number"
      <4>1. k.nos + Ahead(k) <= k.winx
        BY <1>3, <3>2 DEF WindowOK
      <4>2. Ahead(r) + 1 <= r.winx /\ Ahead(r) + 1 \in Int
        BY <1>1, <1>4, <2>1, <3>2, <4>1 DEF Ahead
      <4>3. r.winx \in Given
        BY <1>r, <1>7, <3>2 DEF NosOK
      <4> QED BY <1>6, <1>8, <1>r, <4>2, <4>3
    <3> QED BY <1>12, <3>1, <3>2 DEF Stays
  <2>5. r.nos > 0 => r.nos + Ahead(r) <= (IF r.pc = "queue" THEN r.winx + 1 ELSE r.winx)
    BY <1>3, <1>12, <2>1 DEF Stays, WindowOK
  <2> QED BY <1>3, <2>1, <2>2, <2>3, <2>4, <2>5 DEF WindowOK
<1>13. CASE Numbers(k, r)
  <2>1. /\ k.pc = "number" /\ r.pc = "queue" /\ r.op = k.op /\ r.pknx = k.pknx + 1 /\ r.ackx = k.ackx
        /\ r.winx = k.winx /\ r.nos = k.nos /\ r.sta \notin {"LSN", "RFC"}
    BY <1>3, <1>5, <1>13 DEF Numbers, Control
  <2>2. Ahead(r) = Ahead(k) + 1
    BY <1>4, <2>1 DEF Ahead
  <2>3. Within(Ahead(r)) /\ r.op = "DAT"
    BY <1>3, <2>1, <2>2 DEF WindowOK
  <2>4. r.nos > 0 => k.nos + Ahead(k) <= k.winx
    BY <1>3, <2>1 DEF WindowOK
  <2>5. Ahead(k) \in Int
    BY <1>4 DEF Ahead
  <2> QED BY <1>1, <2>1, <2>2, <2>3, <2>4, <2>5 DEF WindowOK
<1>14. CASE Queues(k, r)
  <2>1. /\ k.pc = "queue" /\ r.pc = "user" /\ r.op = "DAT" /\ r.sta = k.sta /\ r.pknx = k.pknx
        /\ r.ackx = k.ackx /\ r.winx = k.winx /\ r.nos = k.nos - 1 /\ k.sta \notin {"LSN", "RFC"}
        /\ Ahead(r) = Ahead(k)
    BY <1>3, <1>14 DEF Queues, Control, WindowOK, Ahead
  <2>2. Ahead(k) \in Int /\ (k.nos > 0 => k.nos + Ahead(k) <= k.winx + 1)
    BY <1>3, <1>4, <2>1 DEF WindowOK, Ahead
  <2>3. r.nos > 0 => r.nos + Ahead(r) <= r.winx
    BY <1>1, <2>1, <2>2
  <2> QED BY <1>3, <2>1, <2>3 DEF WindowOK
<1>15. CASE Accepts(k, r)
  <2>1. /\ k.sta = "RFC" /\ r.sta = "OPN" /\ r.pc = k.pc /\ r.op = k.op /\ r.pknx = 1
        /\ r.nos = 0 /\ k.pc # "number"
    BY <1>3, <1>5, <1>15 DEF Accepts, Control, NumberOK, WindowOK
  <2>2. Ahead(r) <= 1 /\ Ahead(r) \in Int
    BY <1>4, <2>1 DEF Ahead
  <2> QED BY <1>3, <1>6, <2>1, <2>2 DEF WindowOK
<1>16. ASSUME NEW p \in Traffic, Acks(c, k, r, p) PROVE WindowOK(r)
  <2>1. /\ r.sta = "OPN" /\ r.pc = k.pc /\ r.op = k.op /\ r.pknx = k.pknx
        /\ r.ackx = (IF Before(k.ackx, p.ack) THEN p.ack ELSE k.ackx)
        /\ r.nos = FreeWindow(r.winx, r.ackx, r.pknx)
    BY <1>16 DEF Acks
  <2>2. k.ackx <= r.ackx
    <3>1. CASE Before(k.ackx, r.ackx)
      <4>1. k.ackx < r.ackx
        BY <1>1, <1>r, <1>3, <3>1, ShortBefore DEF NumberOK
      <4> QED BY <1>4, <4>1
    <3>2. CASE r.ackx = k.ackx
      BY <1>4, <3>2
    <3> QED BY <2>1, <3>1, <3>2
  <2>3. Ahead(r) <= Ahead(k) /\ Ahead(r) + 1 <= Ahead(k) + 1 /\ Ahead(r) \in Int /\ Ahead(k) \in Int
    BY <1>4, <2>1, <2>2 DEF Ahead
  <2>4. r.nos + Ahead(r) <= r.winx
    <3>1. r.ackx < Half /\ r.pknx < Half
      BY <1>3 DEF NumberOK
    <3> QED BY <1>r, <2>1, <3>1, ShortFree DEF Ahead
  <2>5. Within(Ahead(r)) /\ (r.pc = "number" => Within(Ahead(r) + 1))
    <3>1. Within(Ahead(k)) /\ (r.pc = "number" => Within(Ahead(k) + 1))
      BY <1>3, <2>1 DEF WindowOK
    <3>2. Ahead(r) + 1 \in Int /\ Ahead(k) + 1 \in Int
      BY <2>3
    <3> QED BY <1>6, <2>3, <3>1, <3>2
  <2>6. r.nos + Ahead(r) <= (IF r.pc = "queue" THEN r.winx + 1 ELSE r.winx)
    BY <1>r, <2>3, <2>4
  <2> QED BY <1>3, <2>1, <2>5, <2>6 DEF WindowOK
<1> QED BY <1>2, <1>10, <1>11, <1>12, <1>13, <1>14, <1>15, <1>16 DEF Counts

LEMMA WindowNext ==
  ASSUME ConnAssumption, Short, NoEofs, NetInv, NumberInv, WindowInv, [Next]_vars
  PROVE  WindowInv'
<1>0. TypeInv /\ TypeInv' /\ ControlInv /\ NumberInv'
  BY NamesNext, NumberNext DEF NetInv
<1>1. CASE Rests
  BY <1>1 DEF Rests, WindowInv
<1>2. ASSUME NEW c \in Conn, Steps(c) PROVE WindowInv'
  <2>1. \A d \in Conn : d # c => cb'[d] = cb[d]
    BY <1>2 DEF Steps, Moves
  <2>2. WindowOK(cb'[c])
    BY <1>0, <1>2, WindowMoves
  <2> QED BY <2>1, <2>2 DEF WindowInv
<1> QED BY <1>1, <1>2, StepSteps

LEMMA WindowInit == ASSUME ConnAssumption, Init PROVE WindowInv
<1> SUFFICES ASSUME NEW c \in Conn PROVE WindowOK(cb[c])
  BY DEF WindowInv
<1>1. /\ cb[c].op = "DAT" /\ cb[c].nos = 0 /\ cb[c].pc = "user" /\ Ahead(cb[c]) = 0
  BY DEF Init, Closed, Ahead
<1>2. Within(0)
  BY WithinFacts
<1> QED BY <1>1, <1>2 DEF WindowOK

-----------------------------------------------------------------------------
(* The packets that came early.  A CLS or a LOS in front of them would make 1 the number    *)
(* expected next; without EOFs a connection that has been closed is not opened again, and    *)
(* has no early packets.                                                                     *)

EndOK(k) ==
  (\E q \in Kept(k.ibf) : q.op \in Ends) => k.pbf = <<>> /\ k.sta \notin {"LSN", "RFS", "RFC", "OPN"}

Increasing(s) == \A i, j \in 1 .. Len(s) : i < j => s[i].pn < s[j].pn

EarlyOK(c, k) ==
  /\ \A q \in Kept(k.ibf) \cup Kept(k.pbf) : q.op \in Data => q.pn <= k.pknr + Window[c]
  /\ Increasing(k.pbf)
  /\ \A last \in Nat : Received(k, last) => \A q \in Kept(k.pbf) : last + 1 < q.pn

EarlyInv == \A c \in Conn : EndOK(cb[c]) /\ EarlyOK(c, cb[c])

LEMMA EndMoves ==
  ASSUME ConnAssumption, TypeInv, TypeInv', ControlInv, WindowInv, ReceiveInv, EarlyInv,
         NEW c \in Conn, Steps(c)
  PROVE  EndOK(cb'[c])
<1> DEFINE k == cb[c]
           r == cb'[c]
           Up == {"LSN", "RFS", "RFC", "OPN"}
<1>1. /\ k \in Connections /\ k.ibf \in Seq(PacketTypes) /\ k.pbf \in Seq(PacketTypes)
      /\ Len(k.pbf) \in Nat /\ k.uniq \in Nat
  <2>1. /\ k \in Connections /\ k.ibf \in Seq(PacketTypes) /\ k.pbf \in Seq(PacketTypes)
        /\ k.uniq \in Nat
    BY FieldTypes DEF TypeInv
  <2> HIDE DEF k
  <2> QED BY <2>1, LenProperties
<1>2. Effect(c, k, r) /\ (r = k \/ Counts(c, k, r))
  BY DEF Steps, Moves
<1>3. Control(c, k) /\ k.op = "DAT" /\ EndOK(k) /\ Around(k)
  BY DEF ControlInv, WindowInv, WindowOK, EarlyInv, ReceiveInv
<1>4. \A p \in Traffic : p \in PacketTypes
  BY TrafficGood, PacketFields
<1> HIDE DEF k, r
<1> SUFFICES EndOK(r)
  BY DEF r
<1>5. r.uniq = k.uniq /\ r.sta \in Up => k.sta \in Up
  <2>1. r.uniq = k.uniq => ~Born(k, r)
    BY <1>1 DEF Born
  <2> QED BY <1>2, <1>3, <2>1 DEF Counts, Stays, Numbers, Queues, Accepts, Acks
<1>6. CASE Starts(k, r) \/ Drops(k, r)
  BY <1>6, KeptNone DEF Starts, Drops, EndOK
<1>7. CASE Reads(k, r)
  <2>1. Kept(r.ibf) \subseteq Kept(k.ibf)
    BY <1>1, <1>7, KeptTail DEF Reads
  <2> QED BY <1>3, <1>7, <2>1 DEF Reads, EndOK
<1>8. CASE Goes(k, r)
  BY <1>3, <1>5, <1>8 DEF Goes, Fixed, EndOK
<1>9. ASSUME NEW p \in Traffic, Hooks(c, k, r, p) PROVE EndOK(r)
  BY <1>9, KeptOne DEF Hooks, EndOK, Ends
<1>10. ASSUME NEW p \in Traffic, Opens(c, k, r, p) PROVE EndOK(r)
  BY <1>10, KeptNone DEF Opens, EndOK
<1>11. ASSUME NEW p \in Traffic, Shuts(k, r, p) PROVE EndOK(r)
  BY <1>11 DEF Shuts, EndOK
<1>12. ASSUME NEW p \in Traffic, Gets(c, k, r, p) PROVE EndOK(r)
  <2>1. \A q \in Kept(k.ibf) \cup Kept(k.pbf) : q.op \notin Ends
    <3>1. \A q \in Kept(k.ibf) : q.op \notin Ends
      BY <1>3, <1>12 DEF Gets, EndOK
    <3>2. \A q \in Kept(k.pbf) : q.op \notin Ends
      BY <1>3 DEF Around, Data, Ends
    <3> QED BY <3>1, <3>2
  <2>2. p.op \notin Ends
    BY <1>12 DEF Gets, Data, Ends
  <2>3. \A q \in Kept(r.ibf) : q \in Kept(k.ibf) \cup Kept(k.pbf) \/ q = p
    <3>1. ASSUME NEW n \in 0 .. Len(k.pbf), r.ibf = Append(k.ibf, p) \o SubSeq(k.pbf, 1, n)
          PROVE  \A q \in Kept(r.ibf) : q \in Kept(k.ibf) \cup Kept(k.pbf) \/ q = p
      <4> DEFINE a == Append(k.ibf, p)
                 b == SubSeq(k.pbf, 1, n)
      <4>1. /\ \A q \in Kept(a) : q \in Kept(k.ibf) \/ q = p
            /\ Kept(b) \subseteq Kept(k.pbf)
        BY <1>1, <3>1, KeptAppend, KeptSub
      <4>2. a \in Seq(PacketTypes) /\ b \in Seq(PacketTypes)
        BY <1>1, <1>4, SubSeqProperties
      <4>3. r.ibf = a \o b
        BY <3>1
      <4> HIDE DEF a, b
      <4>4. Kept(r.ibf) \subseteq Kept(a) \cup Kept(b)
        BY <4>2, <4>3, KeptConcat
      <4> QED BY <4>1, <4>4
    <3>2. CASE r.ibf = k.ibf
      BY <3>2
    <3>3. CASE r.ibf = Append(k.ibf, p)
      BY <1>1, <3>3, KeptAppend
    <3> QED BY <1>12, <3>1, <3>2, <3>3 DEF Gets
  <2> QED BY <2>1, <2>2, <2>3 DEF EndOK
<1> QED BY <1>2, <1>6, <1>7, <1>8, <1>9, <1>10, <1>11, <1>12 DEF Effect

\* All that has been received in order is at most m.
LEMMA LastAtMost ==
  ASSUME NEW k \in Connections, NEW last, Received(k, last), NEW m \in Nat, k.pknr <= m,
         \A q \in Kept(k.ibf) : q.op \in Data => q.pn <= m
  PROVE  last <= m
<1>1. last \in Nat /\ k.pknr \in Nat /\ k.pknr <= last
  BY NumberedPlaces DEF Received
<1>2. CASE last = k.pknr
  BY <1>2
<1>3. CASE last # k.pknr
  <2>1. last \in k.pknr + 1 .. last
    BY <1>1, <1>3
  <2>2. PICK i \in Numbered(k) : k.ibf[i].pn = last
    BY <2>1 DEF Received
  <2>3. k.ibf[i].op \in Data /\ k.ibf[i] \in Kept(k.ibf)
    BY NumberedPlaces DEF Kept
  <2> QED BY <2>2, <2>3
<1> QED BY <1>2, <1>3

LEMMA DataAtMost ==
  ASSUME NEW k \in Connections, NEW last, Received(k, last)
  PROVE  \A q \in Kept(k.ibf) : q.op \in Data => q.pn <= last
<1> SUFFICES ASSUME NEW i \in 1 .. Len(k.ibf), k.ibf[i].op \in Data PROVE k.ibf[i].pn <= last
  BY DEF Kept
<1>1. i \in Numbered(k)
  BY NumberedPlaces
<1> QED BY <1>1 DEF Received

LEMMA IncreasingRest ==
  ASSUME NEW s \in Seq(PacketTypes), Increasing(s), NEW n \in 0 .. Len(s)
  PROVE  /\ Increasing(SubSeq(s, n + 1, Len(s)))
         /\ \A q \in Kept(SubSeq(s, n + 1, Len(s))) : \E i \in n + 1 .. Len(s) : q = s[i]
<1> DEFINE t == SubSeq(s, n + 1, Len(s))
<1>0. Len(s) \in Nat /\ n \in Nat
  BY LenProperties
<1>1. Len(t) = (IF n + 1 <= Len(s) THEN Len(s) - (n + 1) + 1 ELSE 0)
      /\ \A i \in 1 .. Len(s) - (n + 1) + 1 : t[i] = s[n + 1 + i - 1]
  BY <1>0, SubSeqProperties
<1> HIDE DEF t
<1>2. ASSUME NEW i \in 1 .. Len(t) PROVE n + i \in n + 1 .. Len(s) /\ t[i] = s[n + i]
  <2>1. i \in 1 .. Len(s) - (n + 1) + 1 /\ n + 1 + i - 1 = n + i /\ n + i \in n + 1 .. Len(s)
    BY <1>0, <1>1, <1>2
  <2> QED BY <1>1, <2>1
<1>3. Len(t) \in Nat
  BY <1>0, <1>1
<1>4. \A i, j \in 1 .. Len(t) : i < j => t[i].pn < t[j].pn
  <2> SUFFICES ASSUME NEW i \in 1 .. Len(t), NEW j \in 1 .. Len(t), i < j PROVE t[i].pn < t[j].pn
    OBVIOUS
  <2>1. n + i \in 1 .. Len(s) /\ n + j \in 1 .. Len(s) /\ n + i < n + j
    BY <1>0, <1>2, <1>3
  <2>2. t[i] = s[n + i] /\ t[j] = s[n + j]
    BY <1>2
  <2> QED BY <2>1, <2>2 DEF Increasing
<1>5. \A q \in Kept(t) : \E i \in n + 1 .. Len(s) : q = s[i]
  BY <1>2 DEF Kept
<1> QED BY <1>4, <1>5 DEF Increasing, t

\* An early packet is put in its place.
LEMMA IncreasingInsert ==
  ASSUME NEW k \in Connections, NEW p \in PacketTypes, Increasing(k.pbf), p.pn < Half,
         \A i \in 1 .. Len(k.pbf) : k.pbf[i].pn < Half /\ k.pbf[i].pn # p.pn
  PROVE  Increasing(OutOfOrder(k, p).pbf)
<1> DEFINE s == k.pbf
           I == {i \in 1 .. Len(s) : ~Before(s[i].pn, p.pn)}
           place == SelectInSeq(s, LAMBDA q : ~Before(q.pn, p.pn))
           b == IF place = 0 THEN Append(s, p) ELSE InsertAt(s, place, p)
<1>0. s \in Seq(PacketTypes) /\ Len(s) \in Nat /\ p.pn \in PktNumber
  BY DEF Connections, PacketTypes
<1>1. OutOfOrder(k, p) = [k EXCEPT !.pbf = b]
  BY DEF OutOfOrder
<1>n. \A i \in 1 .. Len(s) : s[i].pn \in PktNumber /\ s[i].pn \in Int
  <2> TAKE i \in 1 .. Len(s)
  <2>1. s[i] \in PacketTypes
    BY <1>0
  <2>2. s[i].pn \in PktNumber
    BY <2>1 DEF PacketTypes
  <2> QED BY <2>2, NumberRange
<1>2. /\ place = 0 => I = {}
      /\ place # 0 => place \in 1 .. Len(s) /\ place \in I /\ \A i \in I : place <= i
  <2>1. place = IF I # {} THEN Min(I) ELSE 0
    BY DEF SelectInSeq
  <2>2. I # {} => Min(I) \in I /\ \A i \in I : Min(I) <= i
    BY <1>0, MinPlace
  <2>3. 0 \notin I
    OBVIOUS
  <2> QED BY <1>0, <2>1, <2>2, <2>3
<1>3. \A i \in 1 .. Len(s) : i \in I <=> ~(s[i].pn < p.pn)
  BY <1>0, <1>n, ShortBefore
<1> HIDE DEF place, I
<1>4. p.pn \in Int
  BY <1>0, NumberRange
<1>5. Increasing(b)
  <2>1. CASE place = 0
    <3>1. \A i \in 1 .. Len(s) : s[i].pn < p.pn
      BY <1>2, <1>3, <2>1
    <3> DEFINE t == Append(s, p)
    <3>2. Len(t) = Len(s) + 1 /\ t[Len(s) + 1] = p /\ \A i \in 1 .. Len(s) : t[i] = s[i]
      BY <1>0, AppendProperties
    <3> HIDE DEF t
    <3>3. ASSUME NEW i \in 1 .. Len(t), NEW j \in 1 .. Len(t), i < j PROVE t[i].pn < t[j].pn
      <4>1. i \in 1 .. Len(s) /\ (j \in 1 .. Len(s) \/ j = Len(s) + 1)
        BY <1>0, <3>2, <3>3
      <4> QED BY <3>1, <3>2, <3>3, <4>1 DEF Increasing
    <3>4. b = t
      BY <2>1 DEF t
    <3> QED BY <3>3, <3>4 DEF Increasing
  <2>2. CASE place # 0
    <3>1. place \in 1 .. Len(s) /\ ~(s[place].pn < p.pn)
          /\ \A i \in 1 .. Len(s) : i < place => s[i].pn < p.pn
      BY <1>0, <1>2, <1>3, <2>2
    <3> DEFINE t == InsertAt(s, place, p)
    <3>2. /\ Len(t) = Len(s) + 1
          /\ \A j \in 1 .. Len(s) + 1 : t[j] = IF j < place THEN s[j] ELSE IF j = place THEN p ELSE s[j - 1]
      <4>1. s \in Seq(PacketTypes) /\ place \in 1 .. Len(s)
        BY <1>0, <3>1
      <4> HIDE DEF s, b
      <4> QED BY <4>1, InsertAtPlaces, SMTT(60)
    <3> HIDE DEF t
    <3>3. \A i \in 1 .. Len(s) : i >= place => p.pn < s[i].pn
      <4> SUFFICES ASSUME NEW i \in 1 .. Len(s), i >= place PROVE p.pn < s[i].pn
        OBVIOUS
      <4>1. s[place].pn <= s[i].pn
        BY <1>n, <3>1 DEF Increasing
      <4>2. s[i].pn # p.pn
        OBVIOUS
      <4> QED BY <1>4, <1>n, <3>1, <4>1, <4>2
    <3>4. ASSUME NEW i \in 1 .. Len(t), NEW j \in 1 .. Len(t), i < j PROVE t[i].pn < t[j].pn
      <4>1. CASE j < place
        <5>1. i \in 1 .. Len(s) /\ j \in 1 .. Len(s) /\ t[i] = s[i] /\ t[j] = s[j]
          BY <1>0, <3>1, <3>2, <3>4, <4>1
        <5> QED BY <3>4, <5>1 DEF Increasing
      <4>2. CASE j = place
        <5>1. i \in 1 .. Len(s) /\ t[i] = s[i] /\ t[j] = p /\ i < place
          BY <1>0, <3>1, <3>2, <3>4, <4>2
        <5> QED BY <3>1, <5>1
      <4>3. CASE j > place
        <5>1. j - 1 \in 1 .. Len(s) /\ t[j] = s[j - 1] /\ j - 1 >= place
          BY <1>0, <3>1, <3>2, <3>4, <4>3
        <5>2. CASE i < place
          <6>1. i \in 1 .. Len(s) /\ t[i] = s[i] /\ i < j - 1
            BY <1>0, <3>1, <3>2, <3>4, <5>1, <5>2
          <6> QED BY <5>1, <6>1 DEF Increasing
        <5>3. CASE i = place
          <6>1. t[i] = p
            BY <3>2, <3>4, <5>3
          <6> QED BY <3>3, <5>1, <6>1
        <5>4. CASE i > place
          <6>1. i - 1 \in 1 .. Len(s) /\ t[i] = s[i - 1] /\ i - 1 < j - 1
            BY <1>0, <3>1, <3>2, <3>4, <5>1, <5>4
          <6> QED BY <5>1, <6>1 DEF Increasing
        <5> QED BY <3>1, <5>2, <5>3, <5>4
      <4> QED BY <1>0, <3>1, <4>1, <4>2, <4>3
    <3>5. b = t
      BY <2>2 DEF t
    <3> QED BY <3>4, <3>5 DEF Increasing
  <2> QED BY <2>1, <2>2
<1> HIDE DEF b
<1>6. OutOfOrder(k, p).pbf = b
  BY <1>1 DEF Connections
<1> QED BY <1>5, <1>6

\* Numbers that follow each other do not wrap while all are below half of the range.
LEMMA FollowsPlain ==
  ASSUME NEW k \in Connections, NEW p \in PacketTypes, p.pn < Half, NEW n \in 0 .. Len(k.pbf), Follows(k, p, n),
         \A i \in 1 .. Len(k.pbf) : k.pbf[i].pn < Half
  PROVE  /\ p.pn + n < Half
         /\ \A i \in 1 .. n : k.pbf[i].pn = p.pn + i
         /\ n # Len(k.pbf) => k.pbf[n + 1].pn # p.pn + (n + 1)
<1>1. Len(k.pbf) \in Nat /\ n \in Nat /\ n <= Len(k.pbf) /\ p.pn \in Int /\ 0 <= p.pn /\ Half = 32768 /\ Mod = 65536
  <2>1. k.pbf \in Seq(PacketTypes) /\ p.pn \in PktNumber
    BY DEF Connections, PacketTypes
  <2>2. Len(k.pbf) \in Nat
    BY <2>1, LenProperties
  <2> QED BY <2>1, <2>2, NumberRange DEF Half, Mod
<1>2. \A i \in 1 .. n : k.pbf[i].pn = (p.pn + i) % Mod /\ k.pbf[i].pn < Half
  <2>1. \A i \in 1 .. n : i \in 1 .. Len(k.pbf)
    BY <1>1
  <2> QED BY <2>1 DEF Follows
<1>3. p.pn + n < Half
  <2> SUFFICES ASSUME ~(p.pn + n < Half) PROVE FALSE
    OBVIOUS
  <2> DEFINE i == Half - p.pn
  <2>1. i \in 1 .. n /\ (p.pn + i) % Mod = Half
    <3>1. i \in 1 .. n /\ p.pn + i = Half
      BY <1>1
    <3>2. Half % Mod = Half
      BY DEF Half, Mod
    <3> QED BY <3>1, <3>2
  <2> HIDE DEF i
  <2>2. k.pbf[i].pn = Half /\ k.pbf[i].pn < Half
    BY <1>2, <2>1, Zenon
  <2> QED BY <1>1, <2>2
<1>4. \A i \in 1 .. n + 1 : (p.pn + i) % Mod = p.pn + i
  <2> TAKE i \in 1 .. n + 1
  <2> DEFINE u == p.pn + i
  <2>1. u \in Int /\ 0 <= u /\ u <= 40000
    BY <1>1, <1>3
  <2> HIDE DEF u
  <2>2. u % Mod = u
    BY <2>1 DEF Mod
  <2> QED BY <2>2 DEF u
<1>5. \A i \in 1 .. n : i \in 1 .. n + 1
  BY <1>1
<1>6. n + 1 \in 1 .. n + 1
  BY <1>1
<1>7. n # Len(k.pbf) => k.pbf[n + 1].pn # (p.pn + (n + 1)) % Mod
  BY DEF Follows
<1> QED BY <1>2, <1>3, <1>4, <1>5, <1>6, <1>7

\* What is in the first part of a list.
LEMMA KeptFirst ==
  ASSUME NEW s \in Seq(PacketTypes), NEW n \in 0 .. Len(s)
  PROVE  \A q \in Kept(SubSeq(s, 1, n)) : \E i \in 1 .. n : q = s[i]
<1> DEFINE t == SubSeq(s, 1, n)
<1>1. Len(t) = n /\ \A i \in 1 .. n : t[i] = s[i]
  BY LenProperties, SubSeqProperties
<1> HIDE DEF t
<1>2. \A q \in Kept(t) : \E i \in 1 .. n : q = s[i]
  BY <1>1 DEF Kept
<1> QED BY <1>2 DEF t

\* What a connection keeps early when it is given a packet.
LEMMA EarlyGets ==
  ASSUME ConnAssumption, Short, TypeInv, TypeInv', NumberInv, NumberInv', ReceiveInv, EarlyInv,
         NEW c \in Conn, NEW p \in Traffic, Gets(c, cb[c], cb'[c], p)
  PROVE  EarlyOK(c, cb'[c])
<1> DEFINE k == cb[c]
           r == cb'[c]
           w == Window[c]
<1>1. /\ k \in Connections /\ r \in Connections /\ k.ibf \in Seq(PacketTypes)
      /\ k.pbf \in Seq(PacketTypes) /\ Len(k.pbf) \in Nat /\ k.pknr \in PktNumber
  <2>1. k \in Connections /\ r \in Connections /\ k.ibf \in Seq(PacketTypes) /\ k.pbf \in Seq(PacketTypes)
        /\ k.pknr \in PktNumber
    BY FieldTypes DEF TypeInv
  <2> HIDE DEF k, r
  <2> QED BY <2>1, LenProperties
<1>2. p \in PacketTypes /\ p.pn \in PktNumber /\ p.pn \in Int
  BY TrafficGood, PacketFields, NumberRange
<1>3. Around(k) /\ EndOK(k) /\ EarlyOK(c, k) /\ Gets(c, k, r, p) /\ k.pknr < Half
  BY DEF ReceiveInv, EarlyInv, NumberInv, NumberOK
<1>4. PICK last \in Nat : Received(k, last)
  BY DEF ReceiveInv
<1>5. p.op \in Data => p.pn >= 2 /\ p.pn < Half
  BY DEF NumberInv, Low, Named, Data
<1>6. w \in 1 .. 64 /\ w \in Int /\ k.pknr \in Int /\ Half = 32768
  <2>1. w \in 1 .. 64
    BY DEF ConnAssumption
  <2>2. k.pknr \in Int
    BY <1>1, NumberRange
  <2> HIDE DEF w, k
  <2> QED BY <2>1, <2>2, ShortNumbers
<1>7. last < Half /\ k.pknr <= last /\ last \in Int
  BY <1>4 DEF Received
<1>8. \A q \in Kept(k.ibf) \cup Kept(k.pbf) : q \in PacketTypes /\ q.pn \in PktNumber /\ q.pn \in Int /\ (q.op \in Data => q.pn < Half)
  <2> TAKE q \in Kept(k.ibf) \cup Kept(k.pbf)
  <2>1. q \in PacketTypes
    BY <1>1 DEF Kept
  <2>2. q.pn \in PktNumber
    BY <2>1 DEF PacketTypes
  <2>3. Low(q)
    BY DEF NumberInv
  <2> QED BY <2>1, <2>2, <2>3, NumberRange DEF Low
<1>9. \A q \in Kept(k.pbf) : last + 1 < q.pn /\ q.op \in Data
  BY <1>3, <1>4 DEF EarlyOK, Around
<1>10. NextInOrder(k) = last + 1
  <2>1. \A i \in 1 .. Len(k.ibf) : k.ibf[i].op \notin Ends
    BY <1>3 DEF EndOK, Gets, Kept
  <2> QED BY <1>1, <1>3, <1>4, <2>1, NextFollows
<1>11. \A q \in Kept(k.ibf) : q.op \in Data => q.pn <= last
  BY <1>1, <1>4, DataAtMost
<1>12. \A q \in Kept(k.ibf) \cup Kept(k.pbf) : q.op \in Data => q.pn <= k.pknr + w
  BY <1>3 DEF EarlyOK
<1>13. Increasing(k.pbf)
  BY <1>3 DEF EarlyOK
<1> HIDE DEF k, r, w
<1>14. r.pknr = k.pknr
  BY <1>3 DEF Gets
<1>15. p.op \in Data /\ ~OverWindow(w, k.pknr, p.pn) => p.pn <= k.pknr + w
  <2> SUFFICES ASSUME p.op \in Data, ~OverWindow(w, k.pknr, p.pn) PROVE p.pn <= k.pknr + w
    OBVIOUS
  <2>1. k.pknr < Half /\ p.pn < Half /\ w \in 1 .. 64 /\ k.pknr \in PktNumber /\ p.pn \in PktNumber
    BY <1>1, <1>2, <1>3, <1>5, <1>6
  <2> QED BY <2>1, ShortNumbers
<1> SUFFICES EarlyOK(c, r)
  BY DEF r
<1>16. ASSUME p.op \in Data, p.pn = NextInOrder(k), p.pn <= k.pknr + w, NEW n \in 0 .. Len(k.pbf), Follows(k, p, n),
              r.ibf = Append(k.ibf, p) \o SubSeq(k.pbf, 1, n), r.pbf = SubSeq(k.pbf, n + 1, Len(k.pbf))
       PROVE  EarlyOK(c, r)
  <2>0. p.pn = last + 1 /\ n \in Nat /\ n <= Len(k.pbf)
    BY <1>1, <1>10, <1>16
  <2>1. Kept(r.ibf) \subseteq Kept(k.ibf) \cup {p} \cup Kept(SubSeq(k.pbf, 1, n))
    <3> DEFINE a == Append(k.ibf, p)
               b == SubSeq(k.pbf, 1, n)
    <3>1. \A q \in Kept(a) : q \in Kept(k.ibf) \/ q = p
      BY <1>1, KeptAppend
    <3>2. a \in Seq(PacketTypes) /\ b \in Seq(PacketTypes)
      BY <1>1, <1>2, <2>0, SubSeqProperties
    <3>3. r.ibf = a \o b
      BY <1>16
    <3> HIDE DEF a
    <3> SUFFICES Kept(r.ibf) \subseteq Kept(k.ibf) \cup {p} \cup Kept(b)
      OBVIOUS
    <3> HIDE DEF b
    <3>4. Kept(r.ibf) \subseteq Kept(a) \cup Kept(b)
      BY <3>2, <3>3, KeptConcat
    <3> QED BY <3>1, <3>4
  <2>2. \A i \in 1 .. Len(k.pbf) : k.pbf[i] \in Kept(k.pbf)
    BY DEF Kept
  <2>p. p.pn < Half /\ \A i \in 1 .. Len(k.pbf) : k.pbf[i].pn < Half
    BY <1>5, <1>8, <1>9, <1>16, <2>2
  <2>3. /\ \A i \in 1 .. n : k.pbf[i].pn = p.pn + i
        /\ n # Len(k.pbf) => k.pbf[n + 1].pn # p.pn + (n + 1)
    <3>1. /\ k \in Connections /\ p \in PacketTypes /\ p.pn < Half /\ Follows(k, p, n)
          /\ \A i \in 1 .. Len(k.pbf) : k.pbf[i].pn < Half
      BY <1>1, <1>2, <1>16, <2>p
    <3> QED BY <3>1, FollowsPlain
  \* What stays is behind another gap.
  <2>4. \A i \in n + 1 .. Len(k.pbf) : p.pn + n + 1 < k.pbf[i].pn
    <3> SUFFICES ASSUME NEW i \in n + 1 .. Len(k.pbf) PROVE p.pn + n + 1 < k.pbf[i].pn
      OBVIOUS
    <3>1. n + 1 \in 1 .. Len(k.pbf) /\ i \in 1 .. Len(k.pbf) /\ n # Len(k.pbf)
      BY <1>1, <2>0
    <3>2. k.pbf[n + 1].pn # p.pn + (n + 1)
      BY <2>3, <3>1
    <3>3. k.pbf[n + 1].pn \in Int /\ k.pbf[i].pn \in Int /\ p.pn < k.pbf[n + 1].pn
      BY <1>8, <1>9, <2>0, <2>2, <3>1
    <3>4. p.pn + n < k.pbf[n + 1].pn
      <4>1. CASE n = 0
        BY <1>2, <3>3, <4>1
      <4>2. CASE n # 0
        <5>1. n \in 1 .. n /\ n \in 1 .. Len(k.pbf) /\ n < n + 1
          BY <1>1, <2>0, <4>2
        <5>2. k.pbf[n].pn < k.pbf[n + 1].pn
          BY <1>13, <3>1, <5>1 DEF Increasing
        <5> QED BY <2>3, <5>1, <5>2
      <4> QED BY <4>1, <4>2
    <3>5. p.pn + n + 1 < k.pbf[n + 1].pn
      BY SMTT(30), <1>2, <2>0, <3>2, <3>3, <3>4
    <3>6. i = n + 1 \/ k.pbf[n + 1].pn < k.pbf[i].pn
      BY <1>13, <2>0, <3>1 DEF Increasing
    <3> QED BY <1>2, <2>0, <3>3, <3>5, <3>6
  <2>5. \A q \in Kept(SubSeq(k.pbf, 1, n)) : \E i \in 1 .. n : q = k.pbf[i]
    BY <1>1, <2>0, KeptFirst
  <2>6. Increasing(r.pbf) /\ \A q \in Kept(r.pbf) : \E i \in n + 1 .. Len(k.pbf) : q = k.pbf[i]
    <3>1. k.pbf \in Seq(PacketTypes) /\ Increasing(k.pbf)
      BY <1>1, <1>13
    <3>2. r.pbf = SubSeq(k.pbf, n + 1, Len(k.pbf))
      BY <1>16
    <3>3. /\ Increasing(SubSeq(k.pbf, n + 1, Len(k.pbf)))
          /\ \A q \in Kept(SubSeq(k.pbf, n + 1, Len(k.pbf))) : \E i \in n + 1 .. Len(k.pbf) : q = k.pbf[i]
      BY <3>1, IncreasingRest
    <3> QED BY <3>2, <3>3
  <2>7. \A q \in Kept(r.pbf) : p.pn + n + 1 < q.pn /\ q \in Kept(k.pbf)
    <3>1. \A i \in n + 1 .. Len(k.pbf) : i \in 1 .. Len(k.pbf)
      BY <1>1, <2>0
    <3> QED BY <2>2, <2>4, <2>6, <3>1
  <2>8. \A i \in 1 .. n : i \in 1 .. Len(k.pbf)
    BY <1>1, <2>0
  <2>9. ASSUME NEW q \in Kept(r.ibf), q.op \in Data PROVE q.pn <= k.pknr + w /\ q.pn <= p.pn + n
    <3>1. CASE q \in Kept(k.ibf)
      <4>1. q.pn \in Int /\ q.pn <= last /\ q.pn <= k.pknr + w
        BY <1>8, <1>11, <1>12, <2>9, <3>1
      <4> QED BY <1>2, <1>7, <2>0, <4>1
    <3>2. CASE q = p
      BY <1>2, <1>16, <2>0, <3>2
    <3>3. CASE q \in Kept(SubSeq(k.pbf, 1, n))
      <4>1. PICK i \in 1 .. n : q = k.pbf[i]
        BY <2>5, <3>3
      <4>2. q \in Kept(k.pbf) /\ q.pn = p.pn + i
        BY <2>2, <2>3, <2>8, <4>1
      <4> QED BY <1>2, <1>12, <2>0, <2>9, <4>2
    <3> QED BY <2>1, <3>1, <3>2, <3>3
  <2>10. \A q \in Kept(r.ibf) \cup Kept(r.pbf) : q.op \in Data => q.pn <= r.pknr + w
    BY <1>12, <1>14, <2>7, <2>9
  <2>11. ASSUME NEW new \in Nat, Received(r, new) PROVE \A q \in Kept(r.pbf) : new + 1 < q.pn
    <3>1. p.pn + n \in Nat /\ r.pknr <= p.pn + n
      BY <1>2, <1>6, <1>7, <1>14, <2>0, <1>4
    <3>2. new <= p.pn + n
      BY <1>1, <2>9, <2>11, <3>1, LastAtMost
    <3> SUFFICES ASSUME NEW q \in Kept(r.pbf) PROVE new + 1 < q.pn
      OBVIOUS
    <3>3. q.pn \in Int /\ p.pn + n + 1 < q.pn
      BY <1>8, <2>7
    <3> QED BY <3>1, <3>2, <3>3
  <2> QED BY <2>6, <2>10, <2>11 DEF EarlyOK, w
<1>17. CASE /\ p.op \in Data /\ p.pn <= k.pknr + w /\ p.pn # NextInOrder(k) /\ Before(NextInOrder(k), p.pn)
            /\ \A i \in 1 .. Len(k.pbf) : k.pbf[i].pn # p.pn
            /\ r.ibf = k.ibf /\ r.pbf = OutOfOrder(k, p).pbf
  <2>1. Kept(r.pbf) \subseteq Kept(k.pbf) \cup {p}
    BY <1>1, <1>2, <1>17, KeptOutOfOrder
  <2>2. p.pn < Half /\ \A i \in 1 .. Len(k.pbf) : k.pbf[i].pn < Half /\ k.pbf[i].pn # p.pn
    BY <1>5, <1>8, <1>9, <1>17 DEF Kept
  <2>3. Increasing(r.pbf)
    BY <1>1, <1>2, <1>13, <1>17, <2>2, IncreasingInsert
  <2>4. last + 1 < p.pn
    <3>1. Before(last + 1, p.pn) /\ last + 1 # p.pn
      BY <1>10, <1>17
    <3>2. CASE last + 1 < Half
      <4>1. last + 1 \in PktNumber
        BY <1>4, <1>6, <1>7, <3>2, NumberRange
      <4> QED BY <1>2, <2>2, <3>1, <3>2, <4>1, ShortBefore
    <3>3. CASE last + 1 = Half
      <4> DEFINE d == Half - p.pn
      <4>1. d \in Int /\ 0 < d /\ d <= 32766
        BY <1>2, <1>5, <1>6, <1>17
      <4> HIDE DEF d
      <4>2. d % Mod = d
        BY <4>1 DEF Mod
      <4>3. ~Minus(d)
        BY <4>1, <4>2 DEF Minus, Half
      <4> QED BY <3>1, <3>3, <4>3 DEF Before, d
    <3> QED BY <1>6, <1>7, <3>2, <3>3
  <2>5. \A q \in Kept(r.ibf) \cup Kept(r.pbf) : q.op \in Data => q.pn <= r.pknr + w
    BY <1>12, <1>14, <1>17, <2>1
  <2>6. ASSUME NEW new \in Nat, Received(r, new) PROVE \A q \in Kept(r.pbf) : new + 1 < q.pn
    <3>1. new <= last
      BY <1>1, <1>4, <1>7, <1>11, <1>14, <1>17, <2>6, LastAtMost
    <3>2. \A q \in Kept(r.pbf) : q.pn \in Int /\ last + 1 < q.pn
      BY <1>2, <1>8, <1>9, <2>1, <2>4
    <3> QED BY <1>7, <2>6, <3>1, <3>2
  <2> QED BY <2>3, <2>5, <2>6 DEF EarlyOK, w
<1>18. CASE p.op = "UNC" /\ r.ibf = Append(k.ibf, p) /\ r.pbf = k.pbf
  <2>1. \A q \in Kept(r.ibf) : q.op \in Data => q \in Kept(k.ibf)
    BY <1>1, <1>18, KeptAppend DEF Data
  <2>2. \A q \in Kept(r.ibf) \cup Kept(r.pbf) : q.op \in Data => q.pn <= r.pknr + w
    BY <1>12, <1>14, <1>18, <2>1
  <2>3. ASSUME NEW new \in Nat, Received(r, new) PROVE \A q \in Kept(r.pbf) : new + 1 < q.pn
    <3>1. new <= last
      BY <1>1, <1>4, <1>7, <1>11, <1>14, <2>1, <2>3, LastAtMost
    <3>2. \A q \in Kept(r.pbf) : q.pn \in Int /\ last + 1 < q.pn
      BY <1>8, <1>9, <1>18
    <3> QED BY <1>7, <2>3, <3>1, <3>2
  <2> QED BY <1>13, <1>18, <2>2, <2>3 DEF EarlyOK, w
<1> QED BY <1>3, <1>15, <1>16, <1>17, <1>18 DEF Gets, w

LEMMA NoEarly ==
  ASSUME NEW c, NEW r, r.pbf = <<>>, \A q \in Kept(r.ibf) : q.op \in Data => q.pn <= r.pknr + Window[c]
  PROVE  EarlyOK(c, r)
BY KeptNone DEF EarlyOK, Increasing

LEMMA EarlyMoves ==
  ASSUME ConnAssumption, Short, TypeInv, TypeInv', NumberInv, NumberInv', ReceiveInv, ReceiveInv', EarlyInv,
         NEW c \in Conn, Steps(c)
  PROVE  EarlyOK(c, cb'[c])
<1> DEFINE k == cb[c]
           r == cb'[c]
           w == Window[c]
<1>1. /\ k \in Connections /\ r \in Connections /\ k.ibf \in Seq(PacketTypes)
      /\ k.pbf \in Seq(PacketTypes) /\ k.uniq \in Nat /\ k.pknr \in Int /\ r.pknr \in Int
  BY FieldTypes, NumberRange DEF TypeInv
<1>2. Effect(c, k, r)
  BY DEF Steps, Moves
<1>3. Around(k) /\ EarlyOK(c, k)
  BY DEF ReceiveInv, EarlyInv
<1>4. PICK last \in Nat : Received(k, last)
  BY DEF ReceiveInv
<1>5. w \in Int
  BY DEF ConnAssumption
<1>6. \A q \in Kept(k.ibf) \cup Kept(k.pbf) : q.pn \in Int
  <2> TAKE q \in Kept(k.ibf) \cup Kept(k.pbf)
  <2>1. q \in PacketTypes
    BY <1>1 DEF Kept
  <2>2. q.pn \in PktNumber
    BY <2>1 DEF PacketTypes
  <2> QED BY <2>2, NumberRange
<1>7. \A p \in Traffic : Gets(c, k, r, p) => EarlyOK(c, r)
  BY EarlyGets
<1> HIDE DEF k, r, w
<1> SUFFICES EarlyOK(c, r)
  BY DEF r
<1>8. CASE Starts(k, r) \/ Drops(k, r)
  BY <1>8, KeptNone, NoEarly DEF Starts, Drops
<1>9. ASSUME NEW p \in Traffic, Hooks(c, k, r, p) PROVE EarlyOK(c, r)
  <2>1. r.pbf = <<>> /\ \A q \in Kept(r.ibf) : q.op \notin Data
    BY <1>9, KeptOne DEF Hooks, Data
  <2> QED BY <2>1, NoEarly
<1>10. ASSUME NEW p \in Traffic, Opens(c, k, r, p) PROVE EarlyOK(c, r)
  BY <1>3, <1>10, KeptNone, NoEarly DEF Opens, Around
<1>11. ASSUME NEW p \in Traffic, Shuts(k, r, p) PROVE EarlyOK(c, r)
  <2>1. r.pbf = <<>> /\ r.pknr = k.pknr /\ r.ibf = Append(k.ibf, p) /\ p.op \notin Data
    BY <1>11 DEF Shuts, Data
  <2>2. \A q \in Kept(r.ibf) : q.op \in Data => q \in Kept(k.ibf)
    BY <1>1, <2>1, KeptAppend
  <2>3. \A q \in Kept(r.ibf) : q.op \in Data => q.pn <= r.pknr + Window[c]
    BY <1>3, <2>1, <2>2 DEF EarlyOK
  <2> QED BY <2>1, <2>3, NoEarly
<1>12. CASE Goes(k, r)
  <2>1. r.pknr = k.pknr /\ r.ibf = k.ibf /\ r.pbf = k.pbf /\ r.frn = k.frn
    BY <1>12 DEF Goes, Fixed
  <2>2. \A new \in Nat : Received(r, new) => Received(k, new)
    BY <2>1 DEF Received, Numbered
  <2> QED BY <1>3, <2>1, <2>2 DEF EarlyOK
<1>13. CASE Reads(k, r)
  <2>1. /\ r.frn = k.frn /\ r.ibf = Tail(k.ibf) /\ k.ibf # <<>> /\ r.pbf = k.pbf
        /\ r.pknr = (IF Head(k.ibf).op \in Data THEN Head(k.ibf).pn ELSE k.pknr)
    BY <1>13 DEF Reads, Fixed
  <2>2. Received(r, last) /\ k.pknr <= r.pknr
    BY <1>1, <1>4, <2>1, ReceivedTail
  <2>3. Kept(r.ibf) \subseteq Kept(k.ibf)
    BY <1>1, <2>1, KeptTail
  <2>4. \A q \in Kept(r.ibf) \cup Kept(r.pbf) : q.op \in Data => q.pn <= r.pknr + w
    <3> SUFFICES ASSUME NEW q \in Kept(r.ibf) \cup Kept(r.pbf), q.op \in Data PROVE q.pn <= r.pknr + w
      OBVIOUS
    <3>1. q.pn \in Int /\ q.pn <= k.pknr + w
      BY <1>3, <1>6, <2>1, <2>3 DEF EarlyOK, w
    <3> QED BY <1>1, <1>5, <2>2, <3>1
  <2>5. ASSUME NEW new \in Nat, Received(r, new) PROVE \A q \in Kept(r.pbf) : new + 1 < q.pn
    <3>1. last \in Nat /\ last >= r.pknr
      BY <2>2 DEF Received
    <3>2. new <= last
      BY <1>1, <2>2, <2>5, <3>1, LastAtMost, DataAtMost
    <3>3. \A q \in Kept(r.pbf) : q.pn \in Int /\ last + 1 < q.pn
      BY <1>3, <1>4, <1>6, <2>1 DEF EarlyOK
    <3> QED BY <2>5, <3>1, <3>2, <3>3
  <2>6. Increasing(r.pbf)
    BY <1>3, <2>1 DEF EarlyOK
  <2> QED BY <2>4, <2>5, <2>6 DEF EarlyOK, w
<1> QED BY <1>2, <1>7, <1>8, <1>9, <1>10, <1>11, <1>12, <1>13 DEF Effect

EarlyState == NetInv /\ NumberInv /\ ReceiveInv /\ WindowInv /\ EarlyInv

LEMMA EarlyNext ==
  ASSUME ConnAssumption, Short, NoEofs, EarlyState, [Next]_vars
  PROVE  EarlyState'
<1>0. NetInv /\ NumberInv /\ ReceiveInv /\ WindowInv /\ EarlyInv /\ TypeInv /\ ControlInv
  BY DEF EarlyState, NetInv
<1>1. NetInv' /\ NumberInv' /\ ReceiveInv' /\ WindowInv' /\ TypeInv'
  BY <1>0, NamesNext, NumberNext, ReceiveNext, WindowNext DEF NetInv
<1>2. CASE Rests
  <2>1. EarlyInv'
    BY <1>0, <1>2 DEF Rests, EarlyInv
  <2> QED BY <1>1, <2>1 DEF EarlyState
<1>3. ASSUME NEW c \in Conn, Steps(c) PROVE EarlyState'
  <2>1. \A d \in Conn : d # c => cb'[d] = cb[d]
    BY <1>3 DEF Steps, Moves
  <2>2. EndOK(cb'[c])
    BY <1>0, <1>1, <1>3, EndMoves
  <2>3. EarlyOK(c, cb'[c])
    BY <1>0, <1>1, <1>3, EarlyMoves
  <2>4. EarlyInv'
    BY <1>0, <2>1, <2>2, <2>3 DEF EarlyInv
  <2> QED BY <1>1, <2>4 DEF EarlyState
<1> QED BY <1>0, <1>2, <1>3, StepSteps

LEMMA EarlyInit == ASSUME ConnAssumption, Init PROVE EarlyInv
<1> SUFFICES ASSUME NEW c \in Conn PROVE EndOK(cb[c]) /\ EarlyOK(c, cb[c])
  BY DEF EarlyInv
<1>1. cb[c].ibf = <<>> /\ cb[c].pbf = <<>>
  BY DEF Init, Closed
<1> QED BY <1>1, KeptNone, NoEarly DEF EndOK

\* Packets with different numbers take no more places than there are numbers.
LEMMA PlacesCount ==
  ASSUME NEW I, NEW lo \in Int, NEW hi \in Int, lo <= hi + 1, NEW f,
         \A i \in I : f[i] \in lo .. hi, \A i, j \in I : i # j => f[i] # f[j]
  PROVE  Cardinality(I) \in Nat /\ Cardinality(I) <= hi - lo + 1
<1> DEFINE S == lo .. hi
           g == [i \in I |-> f[i]]
<1>1. IsFiniteSet(S) /\ Cardinality(S) = hi - lo + 1
  BY FS_Interval
<1>2. g \in Injection(I, S)
  BY DEF Injection, IsInjective
<1>3. IsFiniteSet(I) /\ Cardinality(I) <= Cardinality(S)
  <2> HIDE DEF g, S
  <2> QED BY <1>1, <1>2, FS_Injection
<1>4. Cardinality(I) \in Nat
  BY <1>3, FS_CardinalityType
<1> QED BY <1>1, <1>3, <1>4

\* The places of what has been received, and of what is early, are no more than the window.
LEMMA WindowHolds ==
  ASSUME NEW k \in Connections, NEW w \in Int, w >= 1, NEW last \in Nat, Received(k, last), Increasing(k.pbf),
         \A q \in Kept(k.ibf) \cup Kept(k.pbf) : q.op \in Data => q.pn <= k.pknr + w,
         \A q \in Kept(k.pbf) : q.op \in Data /\ last + 1 < q.pn
  PROVE  Cardinality(Numbered(k)) + Len(k.pbf) <= w
<1>1. /\ k.pknr \in Nat /\ k.pknr <= last /\ k.pbf \in Seq(PacketTypes)
  BY NumberedPlaces DEF Received, Connections
<1>2. Len(k.pbf) \in Nat
  BY <1>1, LenProperties
<1>3. last <= k.pknr + w
  BY <1>1, LastAtMost
<1> DEFINE N == Numbered(k)
           f == [i \in N |-> k.ibf[i].pn]
           B == 1 .. Len(k.pbf)
           g == [i \in B |-> k.pbf[i].pn]
<1>4. Cardinality(N) \in Nat /\ Cardinality(N) <= last - k.pknr
  <2>1. \A i \in N : i \in Nat /\ k.ibf[i].pn \in Nat /\ k.pknr < k.ibf[i].pn /\ k.ibf[i].pn <= last
    BY NumberedPlaces DEF Received
  <2>2. \A i \in N : f[i] \in k.pknr + 1 .. last
    BY <1>1, <2>1
  <2>3. \A i, j \in N : i # j => f[i] # f[j]
    <3> SUFFICES ASSUME NEW i \in N, NEW j \in N, i # j PROVE f[i] # f[j]
      OBVIOUS
    <3>1. \A a, b \in N : a < b => k.ibf[a].pn < k.ibf[b].pn
      BY DEF Received
    <3>2. i < j \/ j < i
      BY <2>1
    <3> QED BY <2>1, <3>1, <3>2
  <2>4. k.pknr + 1 \in Int /\ last \in Int /\ k.pknr + 1 <= last + 1
    BY <1>1
  <2> HIDE DEF f, N
  <2>5. Cardinality(N) \in Nat /\ Cardinality(N) <= last - (k.pknr + 1) + 1
    BY <2>2, <2>3, <2>4, PlacesCount
  <2> QED BY <1>1, <2>5
<1>5. \A i \in B : k.pbf[i].pn \in Int /\ last + 1 < k.pbf[i].pn /\ k.pbf[i].pn <= k.pknr + w
  <2> TAKE i \in B
  <2>1. k.pbf[i] \in PacketTypes /\ k.pbf[i] \in Kept(k.pbf)
    BY <1>1 DEF Kept
  <2>2. k.pbf[i].pn \in PktNumber
    BY <2>1 DEF PacketTypes
  <2> QED BY <2>1, <2>2, NumberRange
<1>6. CASE last + 1 < k.pknr + w
  <2>1. \A i \in B : g[i] \in last + 2 .. k.pknr + w
    BY <1>1, <1>5
  <2>2. \A i, j \in B : i # j => g[i] # g[j]
    <3> SUFFICES ASSUME NEW i \in B, NEW j \in B, i # j PROVE g[i] # g[j]
      OBVIOUS
    <3>1. i < j \/ j < i
      BY <1>2
    <3> QED BY <1>5, <3>1 DEF Increasing
  <2>3. Cardinality(B) = Len(k.pbf)
    BY <1>2, FS_Interval
  <2>4. last + 2 \in Int /\ k.pknr + w \in Int /\ last + 2 <= k.pknr + w + 1
    BY <1>1, <1>6
  <2> HIDE DEF g, B
  <2>5. Cardinality(B) <= (k.pknr + w) - (last + 2) + 1
    BY <2>1, <2>2, <2>4, PlacesCount
  <2> HIDE DEF N
  <2> QED BY SMTT(30), <1>1, <1>2, <1>4, <2>3, <2>5 DEF N
<1>7. CASE ~(last + 1 < k.pknr + w)
  <2>1. Len(k.pbf) = 0
    <3> SUFFICES ASSUME Len(k.pbf) # 0 PROVE FALSE
      OBVIOUS
    <3>1. 1 \in B
      BY <1>2
    <3> QED BY <1>1, <1>5, <1>7, <3>1
  <2> HIDE DEF N
  <2> QED BY <1>1, <1>3, <1>4, <2>1 DEF N
<1> QED BY <1>6, <1>7

(* Those that came early are kept in order, each once, behind a gap, and within the window: *)
(* a connection never holds more buffers than its window (CHIDAT, CHIDT3).                   *)
THEOREM EarlyAlways == Short /\ NoEofs => (Spec => []EarlyOnesWait)
<1> SUFFICES ASSUME Short, NoEofs PROVE Spec => []EarlyOnesWait
  OBVIOUS
<1>1. ASSUME ConnAssumption, EarlyState PROVE EarlyOnesWait
  <2> DEFINE Waits(c) ==
        /\ \A i, j \in 1 .. Len(cb[c].pbf) : i < j => Before(cb[c].pbf[i].pn, cb[c].pbf[j].pn)
        /\ \A i \in 1 .. Len(cb[c].pbf) : Before(NextInOrder(cb[c]), cb[c].pbf[i].pn)
        /\ Cardinality(Numbered(cb[c])) + Len(cb[c].pbf) <= Window[c]
  <2> SUFFICES ASSUME NEW c \in Conn PROVE Waits(c)
    BY DEF EarlyOnesWait
  <2> DEFINE k == cb[c]
  <2>1. k \in Connections /\ k.pbf \in Seq(PacketTypes)
    BY <1>1, FieldTypes DEF EarlyState, NetInv, TypeInv
  <2>2. Around(k) /\ EndOK(k) /\ EarlyOK(c, k) /\ \A q \in Kept(k.pbf) : Low(q)
    BY <1>1 DEF EarlyState, ReceiveInv, EarlyInv, NumberInv
  <2>3. PICK last \in Nat : Received(k, last)
    BY <1>1 DEF EarlyState, ReceiveInv
  <2>4. Window[c] \in Int /\ Window[c] >= 1
    BY <1>1 DEF ConnAssumption
  <2> HIDE DEF k
  <2>5. \A i \in 1 .. Len(k.pbf) : k.pbf[i] \in Kept(k.pbf) /\ k.pbf[i].pn \in PktNumber
                                   /\ k.pbf[i].op \in Data /\ k.pbf[i].pn < Half /\ last + 1 < k.pbf[i].pn
    <3> TAKE i \in 1 .. Len(k.pbf)
    <3>1. k.pbf[i] \in PacketTypes /\ k.pbf[i] \in Kept(k.pbf)
      BY <2>1 DEF Kept
    <3> QED BY <2>2, <2>3, <3>1 DEF PacketTypes, Around, Low, EarlyOK
  <2>6. \A i, j \in 1 .. Len(k.pbf) : i < j => Before(k.pbf[i].pn, k.pbf[j].pn)
    BY <2>2, <2>5, ShortBefore DEF EarlyOK, Increasing
  <2>7. \A i \in 1 .. Len(k.pbf) : Before(NextInOrder(k), k.pbf[i].pn)
    <3> SUFFICES ASSUME NEW i \in 1 .. Len(k.pbf) PROVE Before(NextInOrder(k), k.pbf[i].pn)
      OBVIOUS
    <3>1. NextInOrder(k) = last + 1
      <4>1. k.pbf # <<>>
        BY <2>5
      <4>2. \A j \in 1 .. Len(k.ibf) : k.ibf[j].op \notin Ends
        BY <2>2, <4>1 DEF EndOK, Kept
      <4> QED BY <2>1, <2>2, <2>3, <4>2, NextFollows
    <3>2. last + 1 < k.pbf[i].pn /\ k.pbf[i].pn < Half /\ k.pbf[i].pn \in PktNumber
      BY <2>5
    <3>3. last + 1 \in PktNumber /\ last + 1 < Half
      <4>1. last \in Nat /\ Half = 32768 /\ k.pbf[i].pn \in Int
        BY <3>2, NumberRange, ShortNumbers
      <4>2. last + 1 \in Int /\ 0 <= last + 1 /\ last + 1 <= 65535 /\ last + 1 < Half
        BY <3>2, <4>1
      <4> QED BY <4>2, NumberRange
    <3> QED BY <3>1, <3>2, <3>3, ShortBefore
  <2>8. Cardinality(Numbered(k)) + Len(k.pbf) <= Window[c]
    <3>1. \A q \in Kept(k.pbf) : q.op \in Data /\ last + 1 < q.pn
      BY <2>2, <2>3 DEF EarlyOK, Around
    <3>2. Increasing(k.pbf) /\ \A q \in Kept(k.ibf) \cup Kept(k.pbf) : q.op \in Data => q.pn <= k.pknr + Window[c]
      BY <2>2 DEF EarlyOK
    <3> QED BY <2>1, <2>3, <2>4, <3>1, <3>2, WindowHolds
  <2> QED BY <2>6, <2>7, <2>8 DEF k
<1>2. Spec => []EarlyState
  <2>1. Init => EarlyState
    BY ConnAssumption, TypeInit, ControlInit, NamesInit, NumberInit, ReceiveInit, WindowInit, EarlyInit
       DEF EarlyState, NetInv
  <2>2. EarlyState /\ [Next]_vars => EarlyState'
    BY ConnAssumption, EarlyNext
  <2> QED BY <2>1, <2>2, PTL DEF Spec
<1> QED BY <1>1, <1>2, ConnAssumption, PTL
=============================================================================
