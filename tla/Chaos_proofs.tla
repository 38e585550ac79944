----------------------------- MODULE Chaos_proofs -----------------------------
(***************************************************************************)
(* Proofs about Chaos, for any connections, windows, kinds of packets and  *)
(* faults.                                                                 *)
(***************************************************************************)
EXTENDS Chaos, SequenceTheorems, WellFoundedInduction, TLAPS

-----------------------------------------------------------------------------
(* Places in sequences. *)

\* A set of natural numbers has a least element.
LEMMA LeastNat ==
  ASSUME NEW S \in SUBSET Nat, S # {}
  PROVE  \E m \in S : \A k \in S : m <= k
<1>1. IsWellFoundedOn(OpToRel(<, Nat), Nat)
  BY NatLessThanWellFounded
<1>2. \E x \in S : \A y \in S : ~(<<y, x>> \in OpToRel(<, Nat))
  BY <1>1, WFMin, Zenon
<1>3. \A x \in S, y \in S : y < x => <<y, x>> \in OpToRel(<, Nat)
  BY DEF OpToRel
<1>4. PICK x \in S : \A y \in S : ~(y < x)
  BY <1>2, <1>3, Zenon
<1>5. \A y \in S : x <= y
  BY <1>4
<1> QED BY <1>5

\* The first place with a property, as SelectInSeq finds it.
LEMMA MinPlace ==
  ASSUME NEW n \in Nat, NEW I \in SUBSET (1 .. n), I # {}
  PROVE  Min(I) \in I /\ \A i \in I : Min(I) <= i
<1>1. I \in SUBSET Nat
  OBVIOUS
<1>2. \E m \in I : \A k \in I : m <= k
  BY <1>1, LeastNat
<1> QED BY <1>2 DEF Min

\* The last one, as SelectLastInSeq finds it.
LEMMA MaxPlace ==
  ASSUME NEW n \in Nat, NEW I \in SUBSET (1 .. n), I # {}
  PROVE  Max(I) \in I /\ \A i \in I : i <= Max(I)
<1> DEFINE J == {n - i : i \in I}
<1>1. J \in SUBSET Nat /\ J # {}
  <2>1. \A i \in I : n - i \in Nat
    OBVIOUS
  <2> QED BY <2>1
<1>2. PICK m \in J : \A k \in J : m <= k
  BY <1>1, LeastNat
<1>3. PICK i \in I : m = n - i
  OBVIOUS
<1>4. \A k \in I : k <= i
  <2> TAKE k \in I
  <2>1. n - k \in J
    OBVIOUS
  <2>2. n - i <= n - k
    BY <2>1, <1>2, <1>3
  <2> QED BY <2>2
<1> QED BY <1>4 DEF Max

\* What is left when place i of a sequence is taken out.
LEMMA RemoveAtPlaces ==
  ASSUME NEW S, NEW q \in Seq(S), NEW i \in 1 .. Len(q)
  PROVE  /\ RemoveAt(q, i) \in Seq(S)
         /\ Len(RemoveAt(q, i)) = Len(q) - 1
         /\ \A j \in 1 .. Len(q) - 1 : RemoveAt(q, i)[j] = IF j < i THEN q[j] ELSE q[j + 1]
<1> DEFINE a == SubSeq(q, 1, i - 1)
           b == SubSeq(q, i + 1, Len(q))
<1>1. Len(q) \in Nat
  OBVIOUS
<1>2. a \in Seq(S) /\ Len(a) = i - 1 /\ \A j \in 1 .. i - 1 : a[j] = q[j]
  BY <1>1, SubSeqProperties
<1>3. b \in Seq(S) /\ Len(b) = Len(q) - i /\ \A j \in 1 .. Len(q) - i : b[j] = q[i + j]
  BY <1>1, SubSeqProperties
<1> HIDE DEF a, b
<1>4. /\ a \o b \in Seq(S) /\ Len(a \o b) = Len(q) - 1
      /\ \A j \in 1 .. Len(q) - 1 : (a \o b)[j] = IF j < i THEN a[j] ELSE b[j - (i - 1)]
  <2>1. /\ a \o b \in Seq(S) /\ Len(a \o b) = Len(a) + Len(b)
        /\ \A j \in 1 .. Len(a) + Len(b) : (a \o b)[j] = IF j <= Len(a) THEN a[j] ELSE b[j - Len(a)]
    BY <1>2, <1>3, ConcatProperties
  <2>2. Len(a) + Len(b) = Len(q) - 1
    BY <1>1, <1>2, <1>3
  <2>3. \A j \in 1 .. Len(q) - 1 : j <= Len(a) <=> j < i
    BY <1>1, <1>2
  <2> QED BY <1>2, <2>1, <2>2, <2>3
<1>5. RemoveAt(q, i) = a \o b
  BY DEF RemoveAt, a, b
<1>6. \A j \in 1 .. Len(q) - 1 : (a \o b)[j] = IF j < i THEN q[j] ELSE q[j + 1]
  <2> TAKE j \in 1 .. Len(q) - 1
  <2>1. CASE j < i
    BY <1>1, <1>2, <1>4, <2>1
  <2>2. CASE ~(j < i)
    <3>1. j - (i - 1) \in 1 .. Len(q) - i /\ i + (j - (i - 1)) = j + 1
      BY <1>1, <2>2
    <3> QED BY <1>3, <1>4, <2>2, <3>1
  <2> QED BY <2>1, <2>2
<1> QED BY <1>4, <1>5, <1>6

\* A listen that is queued once is taken off, and the others stay in their order.
LEMMA RemoveFirstPlaces ==
  ASSUME NEW S, NEW q \in Seq(S), NEW e
  PROVE  \/ /\ RemoveFirst(q, e) = q
            /\ \A j \in 1 .. Len(q) : q[j] # e
         \/ \E i \in 1 .. Len(q) : q[i] = e /\ RemoveFirst(q, e) = RemoveAt(q, i)
<1> DEFINE I == {i \in 1 .. Len(q) : q[i] = e}
<1>1. CASE I = {}
  BY <1>1 DEF RemoveFirst
<1>2. CASE I # {}
  <2>1. Len(q) \in Nat
    OBVIOUS
  <2>2. Min(I) \in I
    BY <1>2, <2>1, MinPlace
  <2>3. SelectInSeq(q, LAMBDA v : v = e) = Min(I)
    BY <1>2 DEF SelectInSeq
  <2>4. RemoveFirst(q, e) = RemoveAt(q, Min(I))
    BY <1>2, <2>3 DEF RemoveFirst
  <2> QED BY <2>2, <2>4
<1> QED BY <1>1, <1>2

\* What there is after a packet is put in at place i.
LEMMA InsertAtPlaces ==
  ASSUME NEW S, NEW q \in Seq(S), NEW e \in S, NEW i \in 1 .. Len(q)
  PROVE  /\ InsertAt(q, i, e) \in Seq(S)
         /\ Len(InsertAt(q, i, e)) = Len(q) + 1
         /\ \A j \in 1 .. Len(q) + 1 :
              InsertAt(q, i, e)[j] = IF j < i THEN q[j] ELSE IF j = i THEN e ELSE q[j - 1]
<1> DEFINE a == SubSeq(q, 1, i - 1)
           m == <<e>>
           b == SubSeq(q, i, Len(q))
<1>1. Len(q) \in Nat
  OBVIOUS
<1>2. a \in Seq(S) /\ Len(a) = i - 1 /\ \A j \in 1 .. i - 1 : a[j] = q[j]
  BY <1>1, SubSeqProperties
<1>3. b \in Seq(S) /\ Len(b) = Len(q) - i + 1 /\ \A j \in 1 .. Len(q) - i + 1 : b[j] = q[i + j - 1]
  BY <1>1, SubSeqProperties
<1>4. m \in Seq(S) /\ Len(m) = 1 /\ m[1] = e
  OBVIOUS
<1>5. InsertAt(q, i, e) = (a \o m) \o b
  BY DEF InsertAt
<1> HIDE DEF a, b, m
<1>6. /\ a \o m \in Seq(S) /\ Len(a \o m) = i
      /\ \A j \in 1 .. i : (a \o m)[j] = IF j <= i - 1 THEN a[j] ELSE m[j - (i - 1)]
  <2>1. /\ a \o m \in Seq(S) /\ Len(a \o m) = Len(a) + Len(m)
        /\ \A j \in 1 .. Len(a) + Len(m) : (a \o m)[j] = IF j <= Len(a) THEN a[j] ELSE m[j - Len(a)]
    BY <1>2, <1>4, ConcatProperties
  <2> QED BY <1>1, <1>2, <1>4, <2>1
<1> DEFINE am == a \o m
<1> HIDE DEF am
<1>7. am \in Seq(S) /\ Len(am) = i /\ \A j \in 1 .. i : am[j] = IF j < i THEN q[j] ELSE e
  BY <1>1, <1>2, <1>4, <1>6 DEF am
<1>8. /\ am \o b \in Seq(S) /\ Len(am \o b) = Len(am) + Len(b)
      /\ \A j \in 1 .. Len(am) + Len(b) : (am \o b)[j] = IF j <= Len(am) THEN am[j] ELSE b[j - Len(am)]
  BY <1>3, <1>7, ConcatProperties
<1>9. Len(am) + Len(b) = Len(q) + 1
  BY <1>1, <1>3, <1>7
<1>10. \A j \in 1 .. Len(q) + 1 :
         (am \o b)[j] = IF j < i THEN q[j] ELSE IF j = i THEN e ELSE q[j - 1]
  <2> TAKE j \in 1 .. Len(q) + 1
  <2>1. CASE j <= i
    BY <1>1, <1>7, <1>8, <1>9, <2>1
  <2>2. CASE ~(j <= i)
    <3>1. j - i \in 1 .. Len(q) - i + 1 /\ i + (j - i) - 1 = j - 1
      BY <1>1, <2>2
    <3>2. (am \o b)[j] = b[j - i]
      BY <1>7, <1>8, <1>9, <2>2
    <3>3. b[j - i] = q[j - 1]
      BY <1>3, <3>1
    <3> QED BY <1>1, <2>2, <3>2, <3>3
  <2> QED BY <2>1, <2>2
<1> QED BY <1>5, <1>8, <1>9, <1>10 DEF am

-----------------------------------------------------------------------------
(* Types, and what keeps CHSNOS within its bounds. *)

Ops == {"RFC", "OPN", "CLS", "ANS", "SNS", "STS", "LOS", "DAT", "EOF", "UNC"}
Address == Nat \X Nat

Given == {Window[c] : c \in Conn}

\* A STS or an OPN gives a window that a user asked for, a RFC is for a host there is, and
\* what ends a connection has no number.
GoodPackets ==
  {p \in PacketTypes : /\ p.op \in {"STS", "OPN"} => p.win >= 1 /\ p.win \in Given
                       /\ p.op = "RFC" => p.dst[1] \in Hosts
                       /\ p.op \in {"CLS", "ANS", "LOS"} => p.pn = 0}

\* There are never more packets under way than numbers; and a job that is past the test of
\* CHSNOS has been given a window.
NosOK(k) ==
  /\ k.winx = 0 \/ k.winx \in Given
  /\ k.nos <= k.winx /\ k.winx - k.nos <= Mod
  /\ k.winx = 0 \/ k.pc \in {"number", "queue"} => k.winx - k.nos <= Mod - 1
  /\ k.pc \in {"number", "queue"} => k.winx >= 1

GoodConnections == {k \in Connections : k.obf \in Seq(GoodPackets) /\ NosOK(k)}

TypeInv ==
  /\ cb \in [Conn -> GoodConnections]
  /\ chqlsn \in [Hosts -> Seq(Conn)]
  /\ chqrfc \in [Hosts -> Seq(GoodPackets)]
  /\ net \subseteq GoodPackets

LEMMA TypeInvTypeOK == TypeInv => TypeOK
<1> SUFFICES ASSUME TypeInv PROVE TypeOK
  OBVIOUS
<1>1. GoodPackets \subseteq PacketTypes /\ GoodConnections \subseteq Connections
  BY DEF GoodPackets, GoodConnections
<1>2. chqrfc \in [Hosts -> Seq(PacketTypes)]
  <2>1. \A h \in Hosts : chqrfc[h] \in Seq(PacketTypes)
    BY <1>1, SeqMonotonic DEF TypeInv
  <2> QED BY <2>1 DEF TypeInv
<1>3. cb \in [Conn -> Connections]
  BY <1>1 DEF TypeInv
<1> QED BY <1>1, <1>2, <1>3 DEF TypeInv, TypeOK

LEMMA ModLarge == Mod \in Int /\ Mod > 100
BY DEF Mod

LEMMA WindowRange ==
  /\ \A w \in 0 .. 64 : w \in Int /\ 0 <= w /\ w <= 64
  /\ \A w \in 1 - Mod .. 64 : w \in Int
BY ModLarge

LEMMA NumberRange ==
  /\ \A n \in PktNumber : n \in Int /\ 0 <= n /\ n <= 65535
  /\ \A n \in Int : 0 <= n /\ n <= 65535 => n \in PktNumber
<1>1. Mod \in Int /\ \A n \in Int : n <= 65535 <=> n <= Mod - 1
  BY DEF Mod
<1>2. \A n : n \in 0 .. Mod - 1 <=> n \in Int /\ 0 <= n /\ n <= Mod - 1
  BY <1>1
<1> QED BY <1>1, <1>2 DEF PktNumber

LEMMA NumberTypes ==
  /\ 0 \in PktNumber /\ 1 \in PktNumber
  /\ \A n \in PktNumber : n \in Nat /\ Succ(n) \in PktNumber
<1>1. \A n \in PktNumber : n \in Nat
  BY NumberRange
<1>2. ASSUME NEW n \in PktNumber PROVE Succ(n) \in Int /\ 0 <= Succ(n) /\ Succ(n) <= 65535
  BY NumberRange DEF Succ, Mod
<1>3. \A n \in PktNumber : Succ(n) \in PktNumber
  BY <1>2, NumberRange
<1> QED BY <1>1, <1>3, NumberRange

LEMMA FreeWindowType ==
  ASSUME NEW winx \in 0 .. 64, NEW ackx \in PktNumber, NEW pknx \in PktNumber
  PROVE  /\ FreeWindow(winx, ackx, pknx) \in 1 - Mod .. 64
         /\ FreeWindow(winx, ackx, pknx) \in Int
         /\ FreeWindow(winx, ackx, pknx) <= winx
         /\ winx - FreeWindow(winx, ackx, pknx) <= Mod - 1
<1>1. InUse(ackx, pknx) \in Int /\ 0 <= InUse(ackx, pknx) /\ InUse(ackx, pknx) <= Mod - 1
  BY NumberRange DEF InUse, Mod
<1>2. Mod \in Int
  BY DEF Mod
<1> QED BY <1>1, <1>2 DEF FreeWindow

LEMMA PacketTyped ==
  ASSUME NEW op \in Ops, NEW src \in Address, NEW dst \in Address, NEW pn \in PktNumber,
         NEW ack \in PktNumber, NEW rcp \in PktNumber, NEW win \in 0 .. 64
  PROVE  Packet(op, src, dst, pn, ack, rcp, win) \in PacketTypes
BY DEF Packet, PacketTypes, Address, Ops

\* The fields of a connection that are used below.
LEMMA FieldTypes ==
  ASSUME NEW k \in GoodConnections
  PROVE  /\ k \in Connections /\ NosOK(k)
         /\ k.ibf \in Seq(PacketTypes) /\ k.pbf \in Seq(PacketTypes) /\ k.obf \in Seq(GoodPackets)
         /\ k.pknr \in PktNumber /\ k.pknx \in PktNumber /\ k.ackr \in PktNumber
         /\ k.ackx \in PktNumber /\ k.winx \in 0 .. 64 /\ k.winx \in Int /\ k.nos \in Int
         /\ k.frn \in Address /\ k.uniq \in Nat
<1>1. /\ k \in Connections /\ NosOK(k)
      /\ k.ibf \in Seq(PacketTypes) /\ k.pbf \in Seq(PacketTypes) /\ k.obf \in Seq(GoodPackets)
      /\ k.pknr \in PktNumber /\ k.pknx \in PktNumber /\ k.ackr \in PktNumber
      /\ k.ackx \in PktNumber /\ k.winx \in 0 .. 64 /\ k.nos \in 1 - Mod .. 64
      /\ k.frn \in Address /\ k.uniq \in Nat
  BY DEF GoodConnections, Connections, Address
<1>2. k.winx \in Int /\ k.nos \in Int
  BY <1>1, WindowRange, Zenon
<1> QED BY <1>1, <1>2

LEMMA DPBRCPType == ASSUME NEW k \in GoodConnections PROVE DPBRCP(k) \in PktNumber
<1>1. CASE k.ibf = <<>>
  BY <1>1, FieldTypes DEF DPBRCP
<1>2. CASE k.ibf # <<>>
  <2>1. k.ibf[Len(k.ibf)] \in PacketTypes
    BY <1>2, FieldTypes
  <2> QED BY <1>2, <2>1 DEF DPBRCP, Last, PacketTypes
<1> QED BY <1>1, <1>2

LEMMA OutgoingGood ==
  ASSUME ConnAssumption, NEW c \in Conn, NEW k \in GoodConnections, NEW pn \in PktNumber, NEW op \in Ops
  PROVE  /\ Outgoing(c, k, op, pn) \in PacketTypes
         /\ op \notin {"STS", "OPN", "RFC", "CLS", "ANS", "LOS"} => Outgoing(c, k, op, pn) \in GoodPackets
         /\ op \in {"CLS", "ANS"} /\ pn = 0 => Outgoing(c, k, op, pn) \in GoodPackets
         /\ op \in {"STS", "OPN"} => WithReceipt(c, k, Outgoing(c, k, op, pn)) \in GoodPackets
<1>1. <<c, k.uniq>> \in Address /\ k.frn \in Address /\ 0 \in 0 .. 64
  BY FieldTypes DEF Address, ConnAssumption
<1>2. Outgoing(c, k, op, pn) \in PacketTypes /\ Outgoing(c, k, op, pn).op = op /\ Outgoing(c, k, op, pn).pn = pn
  BY <1>1, PacketTyped, NumberTypes, FieldTypes DEF Outgoing, Packet
<1>3. Window[c] \in 0 .. 64 /\ Window[c] >= 1 /\ Window[c] \in Given
  BY DEF ConnAssumption, Given
<1> QED BY <1>2, <1>3, DPBRCPType DEF GoodPackets, WithReceipt, PacketTypes

LEMMA ClosedGood ==
  ASSUME NEW u \in Nat
  PROVE  Closed(u) \in GoodConnections
<1>1. 0 \in 1 - Mod .. 64 /\ 0 \in 0 .. 64
  BY DEF Mod
<1>2. <<>> \in Seq(PacketTypes) /\ <<>> \in Seq(GoodPackets) /\ <<0, 0>> \in Nat \X Nat
  OBVIOUS
<1>3. Closed(u) \in Connections
  BY <1>1, <1>2, NumberTypes DEF Closed, Connections
<1>4. NosOK(Closed(u))
  BY DEF Closed, NosOK, Mod
<1> QED BY <1>2, <1>3, <1>4 DEF GoodConnections, Closed

LEMMA CHORF1Good ==
  ASSUME NEW k \in GoodConnections
  PROVE  CHORF1(k) \in GoodConnections
<1> DEFINE n == Closed(k.uniq + 1)
<1>1. n \in GoodConnections /\ n.nos = 0 /\ n.pc = "user" /\ n.obf = <<>>
  BY ClosedGood, FieldTypes DEF Closed
<1>2. n \in Connections /\ k.winx \in 0 .. 64
  BY <1>1, FieldTypes
<1>3. CHORF1(k) = [n EXCEPT !.usr = TRUE, !.winx = k.winx]
  BY DEF CHORF1
<1> HIDE DEF n
<1> DEFINE r == [n EXCEPT !.usr = TRUE, !.winx = k.winx]
<1>a. r.nos = 0 /\ r.pc = "user" /\ r.obf = <<>> /\ r.winx = k.winx
  BY <1>1, <1>2 DEF Connections
<1>b. r \in Connections
  BY <1>2, ZenonT(60) DEF Connections
<1>4. /\ CHORF1(k) \in Connections /\ CHORF1(k).nos = 0 /\ CHORF1(k).pc = "user"
      /\ CHORF1(k).obf = <<>> /\ CHORF1(k).winx = k.winx
  BY <1>3, <1>a, <1>b
<1>5. NosOK(CHORF1(k))
  <2> DEFINE w == k.winx
  <2>1. w \in Int /\ w >= 0 /\ w <= 64
    BY <1>2
  <2>2. w - 0 <= Mod /\ w - 0 <= Mod - 1
    BY <2>1, ModLarge
  <2>3. CHORF1(k).winx = w /\ (w = 0 \/ w \in Given)
    BY <1>4, FieldTypes DEF NosOK
  <2> HIDE DEF w
  <2> QED BY <1>4, <2>1, <2>2, <2>3 DEF NosOK
<1>6. <<>> \in Seq(GoodPackets)
  OBVIOUS
<1> QED BY <1>4, <1>5, <1>6 DEF GoodConnections

LEMMA CHASTOGood ==
  ASSUME ConnAssumption, NEW c \in Conn, NEW k \in GoodConnections, NEW mem \in BOOLEAN
  PROVE  /\ CHASTO(c, k, mem).k \in GoodConnections
         /\ CHASTO(c, k, mem).out \subseteq GoodPackets
<1>0. k \in Connections /\ NosOK(k) /\ k.obf \in Seq(GoodPackets)
  BY FieldTypes
<1> DEFINE a == [k EXCEPT !.sts = FALSE, !.ackr = k.pknr]
           b == [k EXCEPT !.sts = TRUE]
<1>1. a \in Connections /\ b \in Connections
  <2>1. a \in Connections
    BY <1>0, ZenonT(60) DEF Connections
  <2>2. b \in Connections
    BY <1>0, ZenonT(60) DEF Connections
  <2> QED BY <2>1, <2>2
<1>2. /\ a.obf = k.obf /\ a.nos = k.nos /\ a.winx = k.winx /\ a.pc = k.pc
      /\ b.obf = k.obf /\ b.nos = k.nos /\ b.winx = k.winx /\ b.pc = k.pc
  BY <1>0 DEF Connections
<1> HIDE DEF a, b
<1>3. a \in GoodConnections /\ b \in GoodConnections
  BY <1>0, <1>1, <1>2 DEF GoodConnections, NosOK
<1>4. CHASTO(c, k, mem).k \in {a, b}
  BY DEF CHASTO, a, b
<1>5. CHASTO(c, k, mem).out \subseteq {WithReceipt(c, k, Outgoing(c, k, "STS", 0))}
  BY DEF CHASTO
<1>6. WithReceipt(c, k, Outgoing(c, k, "STS", 0)) \in GoodPackets
  BY OutgoingGood, NumberTypes DEF Ops
<1> QED BY <1>3, <1>4, <1>5, <1>6

\* What CHIAK0 leaves: a tail of the send list, the later acknowledgement, and the window
\* computed from it.
LEMMA CHIAK0Good ==
  ASSUME NEW k \in Connections, k.obf \in Seq(GoodPackets),
         k.pc \in {"number", "queue"} => k.winx >= 1, k.winx = 0 \/ k.winx \in Given,
         NEW rcp \in PktNumber, NEW ack \in PktNumber
  PROVE  /\ CHIAK0(k, rcp, ack) \in GoodConnections
         /\ \E obf \in Seq(GoodPackets), ackx \in {k.ackx, ack} :
              CHIAK0(k, rcp, ack)
                = [k EXCEPT !.obf = obf, !.ackx = ackx, !.nos = FreeWindow(k.winx, ackx, k.pknx)]
<1>0. k \in Connections /\ k.obf \in Seq(GoodPackets)
  OBVIOUS
<1> DEFINE I == {i \in 1 .. Len(k.obf) : Before(rcp, k.obf[i].pn)}
           first == SelectInSeq(k.obf, LAMBDA p : Before(rcp, p.pn))
           ackx == IF Before(k.ackx, ack) THEN ack ELSE k.ackx
           obf == IF first = 0 THEN <<>> ELSE SubSeq(k.obf, first, Len(k.obf))
           nos == FreeWindow(k.winx, ackx, k.pknx)
           r == [k EXCEPT !.obf = obf, !.ackx = ackx, !.nos = nos]
<1>1. CHIAK0(k, rcp, ack) = r
  BY DEF CHIAK0
<1>2. ackx \in PktNumber /\ ackx \in {k.ackx, ack}
  BY DEF Connections
<1>3. first \in 0 .. Len(k.obf)
  <2>1. first = IF I # {} THEN Min(I) ELSE 0
    BY DEF SelectInSeq
  <2>2. Len(k.obf) \in Nat
    BY <1>0
  <2>3. I # {} => Min(I) \in I
    BY <2>2, MinPlace
  <2> QED BY <2>1, <2>2, <2>3
<1> HIDE DEF first
<1>4. obf \in Seq(GoodPackets)
  <2>1. CASE first = 0
    BY <2>1
  <2>2. CASE first # 0
    <3>1. first \in Int /\ Len(k.obf) \in Int /\ \A i \in first .. Len(k.obf) : k.obf[i] \in GoodPackets
      BY <1>0, <1>3, <2>2
    <3> QED BY <2>2, <3>1, SubSeqProperties
  <2> QED BY <2>1, <2>2
<1>5. k.winx \in 0 .. 64 /\ k.winx \in Int /\ k.pknx \in PktNumber
  <2>1. k.winx \in 0 .. 64 /\ k.pknx \in PktNumber
    BY <1>0 DEF Connections
  <2> QED BY <2>1, WindowRange, Zenon
<1>6. nos \in 1 - Mod .. 64 /\ nos \in Int /\ nos <= k.winx /\ k.winx - nos <= Mod - 1
  BY <1>2, <1>5, FreeWindowType
<1> HIDE DEF obf, ackx, nos, I
<1>7. obf \in Seq(PacketTypes)
  <2>1. GoodPackets \subseteq PacketTypes
    BY DEF GoodPackets
  <2> QED BY <1>4, <2>1, SeqMonotonic
<1>8. r \in Connections
  BY ZenonT(60), <1>0, <1>2, <1>6, <1>7 DEF Connections
<1>9. r.obf = obf /\ r.nos = nos /\ r.winx = k.winx /\ r.pc = k.pc
  BY <1>0 DEF Connections
<1>10. NosOK(r)
  <2>2. \A d \in Int : d <= Mod - 1 => d <= Mod
    BY ModLarge
  <2>3. k.winx - nos <= Mod
    BY <1>5, <1>6, <2>2
  <2> QED BY <1>0, <1>6, <1>9, <2>3 DEF NosOK
<1> QED BY <1>1, <1>2, <1>4, <1>8, <1>9, <1>10 DEF GoodConnections, nos

LEMMA CHIST1Good ==
  ASSUME NEW k \in GoodConnections, NEW p \in GoodPackets, p.op \in {"STS", "OPN"}
  PROVE  CHIST1(k, p) \in GoodConnections
<1> DEFINE w == [k EXCEPT !.winx = p.win]
<1>0. k \in Connections /\ k.obf \in Seq(GoodPackets)
  BY FieldTypes
<1>1. p.win \in 0 .. 64 /\ p.win >= 1 /\ p.win \in Given /\ p.rcp \in PktNumber /\ p.ack \in PktNumber
  BY DEF GoodPackets, PacketTypes
<1>2. w \in Connections /\ w.obf = k.obf /\ w.winx = p.win
  BY ZenonT(60), <1>0, <1>1 DEF Connections
<1>3. CHIST1(k, p) = CHIAK0(w, p.rcp, p.ack)
  BY DEF CHIST1
<1> HIDE DEF w
<1>4. CHIAK0(w, p.rcp, p.ack) \in GoodConnections
  BY <1>0, <1>1, <1>2, CHIAK0Good
<1> QED BY <1>3, <1>4

\* What leaves CHSNOS and CHSWIN alone, and does not go past the test of CHSNOS, is good.
LEMMA SameWindowGood ==
  ASSUME NEW k \in GoodConnections, NEW r \in Connections, r.obf \in Seq(GoodPackets),
         r.nos = k.nos, r.winx = k.winx,
         r.pc = k.pc \/ r.pc \notin {"number", "queue"} \/ k.pc \in {"number", "queue"}
  PROVE  r \in GoodConnections
BY FieldTypes DEF GoodConnections, NosOK

LEMMA EmptyQueues == <<>> \in Seq(GoodPackets) /\ <<>> \in Seq(PacketTypes)
OBVIOUS

LEMMA PacketFields ==
  ASSUME NEW p \in GoodPackets
  PROVE  /\ p \in PacketTypes /\ p.op \in Ops
         /\ p.pn \in PktNumber /\ p.ack \in PktNumber /\ p.rcp \in PktNumber
         /\ p.src \in Address /\ p.dst \in Address /\ p.win \in 0 .. 64
         /\ p.op \in {"STS", "OPN"} => p.win >= 1 /\ p.win \in Given
         /\ p.op = "RFC" => p.dst[1] \in Hosts
         /\ p.op \in {"CLS", "ANS", "LOS"} => p.pn = 0
<1>1. /\ p \in PacketTypes
      /\ p.op \in {"STS", "OPN"} => p.win >= 1 /\ p.win \in Given
      /\ p.op = "RFC" => p.dst[1] \in Hosts
      /\ p.op \in {"CLS", "ANS", "LOS"} => p.pn = 0
  BY DEF GoodPackets
<1> QED BY <1>1 DEF PacketTypes, Ops, Address

LEMMA CHICL2Good ==
  ASSUME NEW k \in GoodConnections, NEW p \in GoodPackets, NEW state \in {"CLS", "LOS"}
  PROVE  CHICL2(k, p, state) \in GoodConnections
<1>1. k \in Connections /\ p \in PacketTypes
  BY FieldTypes, PacketFields
<1> DEFINE r == CHICL2(k, p, state)
<1> DEFINE q == Append(k.ibf, p)
<1>a. q \in Seq(PacketTypes) /\ state \in {"CLS", "LOS"} /\ k.ibf \in Seq(PacketTypes)
  BY <1>1, FieldTypes
<1>b. r = [k EXCEPT !.sta = state, !.off = (state # "OPN"), !.pbf = <<>>, !.obf = <<>>, !.ibf = q]
  BY <1>1 DEF CHICL2, CHINT, Connections
<1> HIDE DEF q, r
<1>2. r \in Connections /\ r.obf = <<>> /\ r.nos = k.nos /\ r.winx = k.winx /\ r.pc = k.pc
  BY ZenonT(60), <1>1, <1>a, <1>b, EmptyQueues DEF Connections
<1>3. r \in GoodConnections
  BY <1>2, SameWindowGood, EmptyQueues
<1> QED BY <1>3 DEF r

LEMMA CHIRF0Good ==
  ASSUME NEW k \in GoodConnections, NEW p \in GoodPackets
  PROVE  CHIRF0(k, p) \in GoodConnections
<1>1. k \in Connections /\ p \in PacketTypes /\ p.pn \in PktNumber /\ p.src \in Nat \X Nat
  BY FieldTypes, PacketFields DEF Address
<1> DEFINE r == CHIRF0(k, p)
           q == Append(k.ibf, p)
<1>a. q \in Seq(PacketTypes)
  BY <1>1, FieldTypes
<1>b. r = [k EXCEPT !.pknr = p.pn, !.frn = p.src, !.sta = "RFC", !.off = TRUE,
                    !.pbf = <<>>, !.obf = <<>>, !.ibf = q]
  BY DEF CHIRF0
<1> HIDE DEF q, r
<1>2. r \in Connections /\ r.obf = <<>> /\ r.nos = k.nos /\ r.winx = k.winx /\ r.pc = k.pc
  BY ZenonT(60), <1>1, <1>a, <1>b, EmptyQueues DEF Connections
<1>3. r \in GoodConnections
  BY <1>2, SameWindowGood, EmptyQueues
<1> QED BY <1>3 DEF r

LEMMA CHPKIAGood ==
  ASSUME ConnAssumption, NEW c \in Conn, NEW k \in GoodConnections, NEW p \in PacketTypes, NEW mem \in BOOLEAN
  PROVE  /\ CHPKIA(c, k, p, mem).k \in GoodConnections
         /\ CHPKIA(c, k, p, mem).out \subseteq GoodPackets
<1> DEFINE k1 == [k EXCEPT !.pknr = p.pn]
<1>1. k \in Connections /\ k.obf \in Seq(GoodPackets)
  BY FieldTypes
<1>a. p.pn \in PktNumber
  BY DEF PacketTypes
<1>2. k1 \in Connections /\ k1.obf = k.obf /\ k1.nos = k.nos /\ k1.winx = k.winx /\ k1.pc = k.pc
  BY ZenonT(60), <1>1, <1>a DEF Connections
<1> HIDE DEF k1
<1>3. k1 \in GoodConnections
  BY <1>1, <1>2, SameWindowGood
<1>4. CHPKIA(c, k, p, mem) \in {CHASTO(c, k1, mem), [k |-> k1, out |-> {}]}
  BY DEF CHPKIA, k1
<1>5. /\ CHASTO(c, k1, mem).k \in GoodConnections /\ CHASTO(c, k1, mem).out \subseteq GoodPackets
  BY <1>3, CHASTOGood
<1> QED BY <1>3, <1>4, <1>5

\* CHIDT1 moves the packets that follow, and those only, from CHSPBF to CHSIBF.
LEMMA CHIDT1Moves ==
  ASSUME NEW k \in Connections, NEW p \in PacketTypes
  PROVE  \E n \in 0 .. Len(k.pbf) :
           /\ \A i \in 1 .. n : k.pbf[i].pn = (p.pn + i) % Mod
           /\ n = Len(k.pbf) \/ k.pbf[n + 1].pn # (p.pn + (n + 1)) % Mod
           /\ CHIDT1(k, p) = [k EXCEPT !.ibf = Append(k.ibf, p) \o SubSeq(k.pbf, 1, n),
                                       !.pbf = SubSeq(k.pbf, n + 1, Len(k.pbf))]
<1> DEFINE InOrder(n) == \A i \in 1 .. n : k.pbf[i].pn = (p.pn + i) % Mod
           L == Len(k.pbf)
           B == {i \in 1 .. L : k.pbf[i].pn # (p.pn + i) % Mod}
           N == CHOOSE n \in 0 .. L : InOrder(n) /\ (n = L \/ ~InOrder(n + 1))
<1>1. L \in Nat
  BY DEF Connections
<1>2. \E n \in 0 .. L : InOrder(n) /\ (n = L \/ ~InOrder(n + 1))
  <2>1. CASE B = {}
    <3>1. L \in 0 .. L /\ InOrder(L)
      BY <1>1, <2>1
    <3> QED BY <3>1
  <2>2. CASE B # {}
    <3> DEFINE m == Min(B)
    <3>1. m \in B /\ \A i \in B : m <= i
      BY <1>1, <2>2, MinPlace
    <3> HIDE DEF m
    <3>2. m - 1 \in 0 .. L /\ InOrder(m - 1) /\ ~InOrder((m - 1) + 1)
      BY <1>1, <3>1
    <3> QED BY <3>2
  <2> QED BY <2>1, <2>2
<1>3. N \in 0 .. L /\ InOrder(N) /\ (N = L \/ ~InOrder(N + 1))
  BY <1>2
<1>4. N = L \/ k.pbf[N + 1].pn # (p.pn + (N + 1)) % Mod
  <2> HIDE DEF N, L
  <2>0. N \in Nat
    BY <1>1, <1>3
  <2>1. \A i \in 1 .. N + 1 : i \in 1 .. N \/ i = N + 1
    BY <2>0
  <2> QED BY <1>3, <2>1
<1>5. CHIDT1(k, p) = [k EXCEPT !.ibf = Append(k.ibf, p) \o SubSeq(k.pbf, 1, N),
                               !.pbf = SubSeq(k.pbf, N + 1, Len(k.pbf))]
  BY DEF CHIDT1
<1> QED BY <1>3, <1>4, <1>5

LEMMA OutOfOrderGood ==
  ASSUME NEW k \in GoodConnections, NEW p \in PacketTypes
  PROVE  OutOfOrder(k, p) \in GoodConnections
<1> DEFINE I == {i \in 1 .. Len(k.pbf) : ~Before(k.pbf[i].pn, p.pn)}
           place == SelectInSeq(k.pbf, LAMBDA q : ~Before(q.pn, p.pn))
           q == IF place = 0 THEN Append(k.pbf, p) ELSE InsertAt(k.pbf, place, p)
           r == [k EXCEPT !.pbf = q]
<1>0. k \in Connections /\ k.obf \in Seq(GoodPackets) /\ k.pbf \in Seq(PacketTypes) /\ Len(k.pbf) \in Nat
  BY FieldTypes
<1>1. place = 0 \/ place \in 1 .. Len(k.pbf)
  <2>1. place = IF I # {} THEN Min(I) ELSE 0
    BY DEF SelectInSeq
  <2>2. I # {} => Min(I) \in I
    BY <1>0, MinPlace
  <2> QED BY <2>1, <2>2
<1>2. OutOfOrder(k, p) = r
  BY DEF OutOfOrder
<1> HIDE DEF place
<1>3. q \in Seq(PacketTypes)
  <2>1. CASE place = 0
    BY <1>0, <2>1
  <2>2. CASE place # 0
    <3>1. InsertAt(k.pbf, place, p) \in Seq(PacketTypes)
      BY <1>0, <1>1, <2>2, InsertAtPlaces
    <3> QED BY <2>2, <3>1
  <2> QED BY <2>1, <2>2
<1> HIDE DEF q
<1>4. r \in Connections /\ r.obf = k.obf /\ r.nos = k.nos /\ r.winx = k.winx /\ r.pc = k.pc
  BY ZenonT(60), <1>0, <1>3 DEF Connections
<1> HIDE DEF r
<1>5. r \in GoodConnections
  BY <1>0, <1>4, SameWindowGood
<1> QED BY <1>2, <1>5

\* CHIDT1 with its types.
LEMMA CHIDT1Good ==
  ASSUME NEW k \in GoodConnections, NEW p \in PacketTypes
  PROVE  CHIDT1(k, p) \in GoodConnections
<1>0. k \in Connections /\ k.obf \in Seq(GoodPackets) /\ k.ibf \in Seq(PacketTypes)
      /\ k.pbf \in Seq(PacketTypes) /\ Len(k.pbf) \in Nat
  BY FieldTypes
<1>1. PICK n \in 0 .. Len(k.pbf) :
        CHIDT1(k, p) = [k EXCEPT !.ibf = Append(k.ibf, p) \o SubSeq(k.pbf, 1, n),
                                 !.pbf = SubSeq(k.pbf, n + 1, Len(k.pbf))]
  BY <1>0, CHIDT1Moves
<1> DEFINE i == Append(k.ibf, p) \o SubSeq(k.pbf, 1, n)
           q == SubSeq(k.pbf, n + 1, Len(k.pbf))
           r == [k EXCEPT !.ibf = i, !.pbf = q]
<1>2. SubSeq(k.pbf, 1, n) \in Seq(PacketTypes) /\ q \in Seq(PacketTypes)
  BY <1>0, SubSeqProperties
<1>3. Append(k.ibf, p) \in Seq(PacketTypes)
  BY <1>0
<1>4. i \in Seq(PacketTypes)
  BY <1>2, <1>3, ConcatProperties
<1> HIDE DEF i, q
<1>5. r \in Connections /\ r.obf = k.obf /\ r.nos = k.nos /\ r.winx = k.winx /\ r.pc = k.pc
  BY ZenonT(60), <1>0, <1>2, <1>4 DEF Connections
<1>6. CHIDT1(k, p) = r
  BY <1>1 DEF i, q
<1> HIDE DEF r
<1>7. r \in GoodConnections
  BY <1>0, <1>5, SameWindowGood
<1> QED BY <1>6, <1>7

\* One connection changes at a time.
LEMMA OneChanges ==
  ASSUME NEW k, NEW c \in Conn, DOMAIN cb = Conn, cb' = [cb EXCEPT ![c] = k]
  PROVE  cb'[c] = k /\ DOMAIN cb' = Conn /\ \A d \in Conn : d # c => cb'[d] = cb[d]
OBVIOUS

LEMMA NetGood ==
  ASSUME TypeInv
  PROVE  /\ \A n, out : n \subseteq GoodPackets /\ out \subseteq GoodPackets => Sent(n, out) \subseteq GoodPackets
         /\ \A p \in net : p \in GoodPackets /\ \A rest \in Rest(p) : rest \subseteq GoodPackets
         /\ \A k \in GoodConnections : \A again \in CHARTR(k) : again \subseteq GoodPackets
         /\ \A p \in GoodPackets, op \in {"CLS", "LOS"} : Returned(op, p) \in GoodPackets
<1>1. \A n, out : n \subseteq GoodPackets /\ out \subseteq GoodPackets => Sent(n, out) \subseteq GoodPackets
  BY DEF Sent
<1>2. net \subseteq GoodPackets
  BY DEF TypeInv
<1>3. \A p \in net : p \in GoodPackets /\ \A rest \in Rest(p) : rest \subseteq GoodPackets
  BY <1>2 DEF Rest
<1>4. ASSUME NEW k \in GoodConnections, NEW again \in CHARTR(k)
      PROVE  again \subseteq GoodPackets
  <2>1. k.obf \in Seq(GoodPackets)
    BY FieldTypes
  <2>2. k.obf # <<>> => Head(k.obf) \in GoodPackets
    BY <2>1
  <2> QED BY <2>2, <1>4 DEF CHARTR
<1>5. ASSUME NEW p \in GoodPackets, NEW op \in {"CLS", "LOS"}
      PROVE  Returned(op, p) \in GoodPackets
  <2>1. op \in Ops /\ 0 \in PktNumber /\ 0 \in 0 .. 64 /\ p.src \in Address /\ p.dst \in Address
    BY PacketFields, NumberTypes DEF Ops
  <2>2. Packet(op, p.dst, p.src, 0, 0, 0, 0) \in PacketTypes
    BY <2>1, PacketTyped
  <2>3. Returned(op, p) = Packet(op, p.dst, p.src, 0, 0, 0, 0) /\ Returned(op, p).op = op /\ Returned(op, p).pn = 0
    BY DEF Returned, Packet
  <2> QED BY <2>2, <2>3, <1>5 DEF GoodPackets
<1> QED BY <1>1, <1>3, <1>4, <1>5

\* A step that changes one connection to a good one, and sends good packets.
LEMMA ChangeGood ==
  ASSUME TypeInv, NEW c \in Conn, NEW k \in GoodConnections, cb' = [cb EXCEPT ![c] = k],
         net' \subseteq GoodPackets, UNCHANGED <<chqlsn, chqrfc>>
  PROVE  TypeInv'
BY DEF TypeInv

LEMMA SentNow ==
  ASSUME TypeInv, NEW out, out \subseteq GoodPackets
  PROVE  Sent(net, out) \subseteq GoodPackets
BY NetGood DEF TypeInv

LEMMA BecomesGood ==
  ASSUME TypeInv, NEW p \in net, NEW c \in Conn, NEW k \in GoodConnections,
         NEW out, out \subseteq GoodPackets, Becomes(p, c, k, out)
  PROVE  TypeInv'
<1>1. PICK rest \in Rest(p) : net' = Sent(rest, out)
  BY DEF Becomes
<1>2. net' \subseteq GoodPackets
  BY <1>1, NetGood
<1>3. cb' = [cb EXCEPT ![c] = k] /\ UNCHANGED <<chqlsn, chqrfc>>
  BY DEF Becomes
<1> QED BY <1>2, <1>3, ChangeGood

LEMMA AnswerGood ==
  ASSUME TypeInv, NEW p \in net, NEW out, out \subseteq GoodPackets, Answer(p, out)
  PROVE  TypeInv'
<1>1. PICK rest \in Rest(p) : net' = Sent(rest, out)
  BY DEF Answer
<1>2. net' \subseteq GoodPackets
  BY <1>1, NetGood
<1> QED BY <1>2 DEF Answer, TypeInv

LEMMA RefusalGood ==
  ASSUME TypeInv, NEW p \in net, CHABRT(p) \/ CHALOS(p)
  PROVE  TypeInv'
<1>1. p \in GoodPackets /\ {Returned("LOS", p)} \subseteq GoodPackets /\ {} \subseteq GoodPackets
  BY NetGood
<1>2. Answer(p, {}) \/ Answer(p, {Returned("LOS", p)})
  BY DEF CHABRT, CHALOS
<1> QED BY <1>1, <1>2, AnswerGood

\* Past the test of CHSNOS there is window.
LEMMA PastTheTest ==
  ASSUME NEW k \in GoodConnections, k.nos > 0, NEW r \in Connections, r.obf \in Seq(GoodPackets),
         r.nos = k.nos, r.winx = k.winx
  PROVE  r \in GoodConnections
<1>1. k.winx \in 0 .. 64 /\ k.nos \in Int /\ NosOK(k)
  BY FieldTypes
<1>2. k.winx \in Int /\ 0 <= k.winx /\ k.winx <= 64
  BY <1>1, WindowRange, Zenon
<1> DEFINE w == k.winx
           n == k.nos
<1> HIDE DEF w, n
<1>3. w \in Int /\ n \in Int /\ w <= 64 /\ n <= w /\ w - n <= Mod /\ n > 0 /\ (w = 0 \/ w \in Given)
  BY <1>1, <1>2 DEF w, n, NosOK
<1>4. w >= 1 /\ w - n <= Mod - 1
  BY <1>3, ModLarge
<1>5. r.winx = w /\ r.nos = n
  BY DEF w, n
<1>6. NosOK(r)
  BY <1>3, <1>4, <1>5 DEF NosOK
<1> QED BY <1>6 DEF GoodConnections

LEMMA CallTypes ==
  ASSUME ConnAssumption, TypeInv, NEW c \in Conn, Call(c)
  PROVE  TypeInv'
<1> DEFINE k == cb[c]
           h == HostOf[c]
<1>0. k \in GoodConnections /\ k \in Connections /\ k.obf \in Seq(GoodPackets) /\ h \in Hosts
  BY FieldTypes DEF TypeInv, Hosts
<1>1. CASE CHAOSO(c)
  <2> DEFINE n == Closed(k.uniq + 1)
             r == [n EXCEPT !.usr = TRUE]
  <2>1. n \in GoodConnections /\ n \in Connections /\ n.obf \in Seq(GoodPackets)
    BY <1>0, ClosedGood, FieldTypes
  <2>2. cb' = [cb EXCEPT ![c] = r] /\ UNCHANGED <<chqlsn, chqrfc, net>>
    BY <1>1 DEF CHAOSO
  <2> HIDE DEF n
  <2>3. r \in Connections /\ r.obf = n.obf /\ r.nos = n.nos /\ r.winx = n.winx /\ r.pc = n.pc
    BY ZenonT(60), <2>1 DEF Connections
  <2> HIDE DEF r
  <2>4. r \in GoodConnections
    BY <2>1, <2>3, SameWindowGood
  <2> QED BY <2>2, <2>4, ChangeGood DEF TypeInv
<1>2. CASE CHOLSN(c)
  <2> DEFINE f == CHORF1(k)
             r == [f EXCEPT !.sta = "LSN"]
             l == [r EXCEPT !.pc = "listen"]
             pending == chqrfc[h]
  <2>1. f \in GoodConnections /\ f \in Connections /\ f.obf \in Seq(GoodPackets)
    BY <1>0, CHORF1Good, FieldTypes
  <2> HIDE DEF f
  <2>2. r \in Connections /\ r.obf = f.obf /\ r.nos = f.nos /\ r.winx = f.winx /\ r.pc = f.pc
    BY ZenonT(60), <2>1 DEF Connections
  <2> HIDE DEF r
  <2>3. r \in GoodConnections
    BY <2>1, <2>2, SameWindowGood
  <2>4. l \in GoodConnections
    <3>1. l \in Connections /\ l.obf = r.obf /\ l.nos = r.nos /\ l.winx = r.winx /\ l.pc = "listen"
      BY ZenonT(60), <2>2 DEF Connections
    <3> HIDE DEF l
    <3> QED BY <2>1, <2>2, <2>3, <3>1, SameWindowGood
  <2>5. CASE pending = <<>>
    <3>1. cb' = [cb EXCEPT ![c] = l] /\ UNCHANGED <<chqlsn, chqrfc, net>>
      BY <1>2, <2>5 DEF CHOLSN, r, f
    <3> QED BY <2>4, <3>1, ChangeGood DEF TypeInv
  <2>6. CASE pending # <<>>
    <3>1. pending \in Seq(GoodPackets)
      BY <1>0 DEF TypeInv
    <3>2. Head(pending) \in GoodPackets /\ Tail(pending) \in Seq(GoodPackets)
      BY <2>6, <3>1
    <3>3. /\ cb' = [cb EXCEPT ![c] = CHIRF0(r, Head(pending))]
          /\ chqrfc' = [chqrfc EXCEPT ![h] = Tail(pending)] /\ UNCHANGED <<chqlsn, net>>
      BY <1>2, <2>6 DEF CHOLSN, r, f
    <3>4. CHIRF0(r, Head(pending)) \in GoodConnections
      BY <2>3, <3>2, CHIRF0Good
    <3> QED BY <3>2, <3>3, <3>4 DEF TypeInv
  <2> QED BY <2>5, <2>6
<1>3. CASE CHOOPN(c)
  <2> DEFINE n == Succ(k.pknx)
             r == [k EXCEPT !.sta = "OPN", !.off = FALSE, !.sts = FALSE, !.pknx = n, !.ackr = k.pknr]
             p == WithReceipt(c, r, Outgoing(c, r, "OPN", n))
             q == [r EXCEPT !.obf = Append(r.obf, p)]
  <2>1. n \in PktNumber
    BY <1>0, FieldTypes, NumberTypes
  <2> HIDE DEF n
  <2>2. r \in Connections /\ r.obf = k.obf /\ r.nos = k.nos /\ r.winx = k.winx /\ r.pc = k.pc /\ r.pknx = n
    BY ZenonT(60), <1>0, <2>1 DEF Connections
  <2>a. cb' = [cb EXCEPT ![c] = q] /\ net' = Sent(net, {p}) /\ UNCHANGED <<chqlsn, chqrfc>>
    BY <1>3, <2>2 DEF CHOOPN, n
  <2> HIDE DEF r
  <2>3. r \in GoodConnections
    BY <1>0, <2>2, SameWindowGood
  <2>4. p \in GoodPackets
    BY <2>1, <2>3, OutgoingGood DEF Ops
  <2>5. Append(r.obf, p) \in Seq(GoodPackets) /\ p \in PacketTypes /\ r.obf \in Seq(PacketTypes)
    BY <2>2, <2>3, <2>4, FieldTypes, PacketFields DEF Connections
  <2> HIDE DEF p
  <2>6. Append(r.obf, p) \in Seq(PacketTypes)
    BY <2>5
  <2>7. q \in Connections /\ q.obf \in Seq(GoodPackets) /\ q.nos = r.nos /\ q.winx = r.winx /\ q.pc = r.pc
    BY ZenonT(60), <2>2, <2>5, <2>6 DEF Connections
  <2> HIDE DEF q
  <2>8. q \in GoodConnections
    BY <2>3, <2>7, SameWindowGood
  <2>9. net' \subseteq GoodPackets
    BY <2>a, <2>4, SentNow
  <2> QED BY <2>a, <2>8, <2>9, ChangeGood
<1>4. CASE CHOCLS(c) \/ CHOFWD(c)
  <2> DEFINE r == [k EXCEPT !.sta = "CLS", !.off = TRUE, !.sts = FALSE, !.ackr = k.pknr]
  <2>1. r \in Connections /\ r.obf = k.obf /\ r.nos = k.nos /\ r.winx = k.winx /\ r.pc = k.pc
    BY ZenonT(60), <1>0 DEF Connections
  <2>2. PICK op \in {"CLS", "ANS"} : cb' = [cb EXCEPT ![c] = r] /\ net' = Sent(net, {Outgoing(c, r, op, 0)})
                                    /\ UNCHANGED <<chqlsn, chqrfc>>
    BY <1>4 DEF CHOCLS, CHOFWD, Shut
  <2> HIDE DEF r
  <2>3. r \in GoodConnections
    BY <1>0, <2>1, SameWindowGood
  <2>4. Outgoing(c, r, op, 0) \in GoodPackets
    BY <2>3, OutgoingGood, NumberTypes DEF Ops
  <2>5. net' \subseteq GoodPackets
    BY <2>2, <2>4, SentNow
  <2> QED BY <2>2, <2>3, <2>5, ChangeGood
<1>5. ASSUME NEW l \in Listeners, CHORFC(c, HostOf[l]) PROVE TypeInv'
  <2> DEFINE f == CHORF1(k)
             g == HostOf[l]
             r == [f EXCEPT !.frn = HostAddr(g), !.sta = "RFS", !.off = FALSE, !.pknx = 1]
             p == Outgoing(c, r, "RFC", 1)
             q == [r EXCEPT !.obf = <<p>>]
  <2>1. f \in GoodConnections /\ f \in Connections /\ f.obf \in Seq(GoodPackets)
    BY <1>0, CHORF1Good, FieldTypes
  <2>2. g \in Hosts /\ g \in Nat /\ HostAddr(g) \in Nat \X Nat /\ HostAddr(g)[1] = g
    BY DEF ConnAssumption, Hosts, HostAddr
  <2>3. cb' = [cb EXCEPT ![c] = q] /\ net' = Sent(net, {p}) /\ UNCHANGED <<chqlsn, chqrfc>>
    BY <1>5 DEF CHORFC
  <2> HIDE DEF f, g
  <2>4. /\ r \in Connections /\ r.obf = f.obf /\ r.nos = f.nos /\ r.winx = f.winx /\ r.pc = f.pc
        /\ r.frn = HostAddr(g)
    BY ZenonT(60), <2>1, <2>2, NumberTypes DEF Connections
  <2> HIDE DEF r
  <2>5. r \in GoodConnections
    BY <2>1, <2>4, SameWindowGood
  <2>6. p \in PacketTypes /\ p.op = "RFC" /\ p.dst = HostAddr(g)
    BY <2>4, <2>5, OutgoingGood, NumberTypes DEF Ops, Outgoing, Packet
  <2>7. p \in GoodPackets
    BY <2>2, <2>6 DEF GoodPackets
  <2> HIDE DEF p
  <2>8. <<p>> \in Seq(GoodPackets) /\ <<p>> \in Seq(PacketTypes)
    BY <2>6, <2>7
  <2>9. q \in Connections /\ q.obf \in Seq(GoodPackets) /\ q.nos = r.nos /\ q.winx = r.winx /\ q.pc = r.pc
    BY ZenonT(60), <2>4, <2>8 DEF Connections
  <2> HIDE DEF q
  <2>10. q \in GoodConnections
    BY <2>5, <2>9, SameWindowGood
  <2>11. net' \subseteq GoodPackets
    BY <2>3, <2>7, SentNow
  <2> QED BY <2>3, <2>10, <2>11, ChangeGood
<1>6. ASSUME NEW op \in {"DAT", "EOF"}, CHODAT(c, op) PROVE TypeInv'
  <2> DEFINE s == IF k.nos > 0 THEN "number" ELSE "window"
             r == [k EXCEPT !.pc = s, !.op = op]
  <2>1. cb' = [cb EXCEPT ![c] = r] /\ UNCHANGED <<chqlsn, chqrfc, net>>
    BY <1>6 DEF CHODAT
  <2>2. s \in {"number", "window"} /\ (s = "number" <=> k.nos > 0)
    OBVIOUS
  <2> HIDE DEF s
  <2>3. r \in Connections /\ r.obf = k.obf /\ r.nos = k.nos /\ r.winx = k.winx /\ r.pc = s
    BY ZenonT(60), <1>0, <2>2 DEF Connections
  <2> HIDE DEF r
  <2>4. r \in GoodConnections
    <3>1. CASE k.nos > 0
      BY <1>0, <2>3, <3>1, PastTheTest
    <3>2. CASE ~(k.nos > 0)
      BY <1>0, <2>2, <2>3, <3>2, SameWindowGood
    <3> QED BY <3>1, <3>2
  <2> QED BY <2>1, <2>4, ChangeGood DEF TypeInv
<1>7. ASSUME NEW n \in UncNumbers, CHOUNC(c, n) PROVE TypeInv'
  <2> DEFINE p == [Outgoing(c, k, "UNC", n) EXCEPT !.ack = 0]
  <2>1. net' = Sent(net, {p}) /\ UNCHANGED <<cb, chqlsn, chqrfc>>
    BY <1>7 DEF CHOUNC
  <2>2. Outgoing(c, k, "UNC", n) \in PacketTypes /\ Outgoing(c, k, "UNC", n).op = "UNC"
    BY <1>0, OutgoingGood DEF Ops, ConnAssumption, Outgoing, Packet
  <2>3. p \in PacketTypes /\ p.op = "UNC"
    BY <2>2, NumberTypes DEF PacketTypes
  <2>4. p \in GoodPackets
    BY <2>3 DEF GoodPackets
  <2>5. net' \subseteq GoodPackets
    BY <2>1, <2>4, SentNow
  <2> QED BY <2>1, <2>5 DEF TypeInv
<1>8. CASE CHACS7(c)
  <2> DEFINE r == [k EXCEPT !.half = TRUE]
  <2>1. cb' = [cb EXCEPT ![c] = r] /\ UNCHANGED <<chqlsn, chqrfc, net>>
    BY <1>8 DEF CHACS7
  <2>2. r \in Connections /\ r.obf = k.obf /\ r.nos = k.nos /\ r.winx = k.winx /\ r.pc = k.pc
    BY ZenonT(60), <1>0 DEF Connections
  <2> HIDE DEF r
  <2>3. r \in GoodConnections
    BY <1>0, <2>2, SameWindowGood
  <2> QED BY <2>1, <2>3, ChangeGood DEF TypeInv
<1>9. CASE CHACS1(c)
  <2> DEFINE r == [k EXCEPT !.off = TRUE, !.ibf = <<>>, !.pbf = <<>>, !.obf = <<>>, !.pc = "close"]
  <2>1. cb' = [cb EXCEPT ![c] = r] /\ UNCHANGED <<chqlsn, chqrfc, net>>
    BY <1>9 DEF CHACS1
  <2>2. r \in Connections /\ r.obf = <<>> /\ r.nos = k.nos /\ r.winx = k.winx /\ r.pc = "close"
    BY ZenonT(60), <1>0, EmptyQueues DEF Connections
  <2> HIDE DEF r
  <2>3. r \in GoodConnections
    BY <1>0, <2>2, SameWindowGood, EmptyQueues
  <2> QED BY <2>1, <2>3, ChangeGood DEF TypeInv
<1> QED BY <1>1, <1>2, <1>3, <1>4, <1>5, <1>6, <1>7, <1>8, <1>9 DEF Call

LEMMA CHPKITypes ==
  ASSUME ConnAssumption, TypeInv, NEW c \in Conn, CHPKI(c)
  PROVE  TypeInv'
<1> DEFINE k == cb[c]
           p == Head(k.ibf)
<1>0. k \in GoodConnections /\ k.ibf \in Seq(PacketTypes) /\ k.ibf # <<>>
  BY FieldTypes DEF TypeInv, CHPKI
<1>1. p \in PacketTypes /\ Tail(k.ibf) \in Seq(PacketTypes)
  BY <1>0
<1> HIDE DEF p
<1>2. PICK mem \in BOOLEAN :
        \E a \in {CHPKIA(c, k, p, mem), [k |-> k, out |-> {}]} :
          /\ cb' = [cb EXCEPT ![c] = [a.k EXCEPT !.ibf = Tail(a.k.ibf)]]
          /\ net' = Sent(net, a.out)
  BY DEF CHPKI, Mem, p
<1>3. PICK a \in {CHPKIA(c, k, p, mem), [k |-> k, out |-> {}]} :
          /\ cb' = [cb EXCEPT ![c] = [a.k EXCEPT !.ibf = Tail(a.k.ibf)]]
          /\ net' = Sent(net, a.out)
  BY <1>2
<1>4. a.k \in GoodConnections /\ a.out \subseteq GoodPackets
  <2>1. CHPKIA(c, k, p, mem).k \in GoodConnections /\ CHPKIA(c, k, p, mem).out \subseteq GoodPackets
    BY <1>0, <1>1, CHPKIAGood
  <2>2. a = [k |-> k, out |-> {}] => a.k = k /\ a.out = {}
    OBVIOUS
  <2> QED BY <1>0, <2>1, <2>2
<1>5. a.k.ibf = k.ibf
  <2>1. k \in Connections
    BY <1>0, FieldTypes
  <2> DEFINE m == [k EXCEPT !.pknr = p.pn]
  <2>a. p.pn \in PktNumber
    BY <1>1 DEF PacketTypes
  <2>2. m.ibf = k.ibf /\ m \in Connections
    BY ZenonT(60), <2>1, <2>a DEF Connections
  <2> HIDE DEF m
  <2>3. CHASTO(c, m, mem).k.ibf = m.ibf
    BY <2>2 DEF CHASTO, Connections
  <2>4. CHPKIA(c, k, p, mem) \in {CHASTO(c, m, mem), [k |-> m, out |-> {}]}
    BY DEF CHPKIA, m
  <2>5. [k |-> m, out |-> {}].k = m /\ [k |-> k, out |-> {}].k = k
    OBVIOUS
  <2> QED BY <2>2, <2>3, <2>4, <2>5
<1> DEFINE q == Tail(k.ibf)
           r == [a.k EXCEPT !.ibf = q]
<1> HIDE DEF q
<1>6. q \in Seq(PacketTypes) /\ a.k \in Connections /\ a.k.obf \in Seq(GoodPackets)
  BY <1>1, <1>4, FieldTypes DEF q
<1>7. r \in Connections /\ r.obf = a.k.obf /\ r.nos = a.k.nos /\ r.winx = a.k.winx /\ r.pc = a.k.pc
  BY ZenonT(60), <1>6 DEF Connections
<1>8. cb' = [cb EXCEPT ![c] = r]
  BY <1>3, <1>5 DEF q
<1> HIDE DEF r
<1>9. r \in GoodConnections
  BY <1>4, <1>6, <1>7, SameWindowGood
<1>10. UNCHANGED <<chqlsn, chqrfc>> /\ net' \subseteq GoodPackets
  BY <1>3, <1>4, SentNow DEF CHPKI
<1> QED BY <1>8, <1>9, <1>10, ChangeGood

LEMMA ContinueTypes ==
  ASSUME ConnAssumption, TypeInv, NEW c \in Conn, Continue(c)
  PROVE  TypeInv'
<1> DEFINE k == cb[c]
           h == HostOf[c]
<1>0. k \in GoodConnections /\ k \in Connections /\ k.obf \in Seq(GoodPackets) /\ h \in Hosts
  BY FieldTypes DEF TypeInv, Hosts
<1>1. CASE CHAQPL(c)
  <2> DEFINE r == [k EXCEPT !.pc = "user"]
  <2>1. cb' = [cb EXCEPT ![c] = r] /\ chqlsn' = [chqlsn EXCEPT ![h] = Append(chqlsn[h], c)]
        /\ UNCHANGED <<chqrfc, net>>
    BY <1>1 DEF CHAQPL
  <2>2. r \in Connections /\ r.obf = k.obf /\ r.nos = k.nos /\ r.winx = k.winx /\ r.pc = "user"
    BY ZenonT(60), <1>0 DEF Connections
  <2> HIDE DEF r
  <2>3. r \in GoodConnections
    BY <1>0, <2>2, SameWindowGood
  <2>4. Append(chqlsn[h], c) \in Seq(Conn)
    BY <1>0 DEF TypeInv
  <2> QED BY <2>1, <2>3, <2>4 DEF TypeInv
<1>2. CASE WindowOpens(c)
  <2> DEFINE r == [k EXCEPT !.pc = "number"]
  <2>1. cb' = [cb EXCEPT ![c] = r] /\ k.nos > 0 /\ UNCHANGED <<chqlsn, chqrfc, net>>
    BY <1>2 DEF WindowOpens
  <2>2. r \in Connections /\ r.obf = k.obf /\ r.nos = k.nos /\ r.winx = k.winx
    BY ZenonT(60), <1>0 DEF Connections
  <2> HIDE DEF r
  <2>3. r \in GoodConnections
    BY <1>0, <2>1, <2>2, PastTheTest
  <2> QED BY <2>1, <2>3, ChangeGood DEF TypeInv
<1>3. CASE BackedOut(c)
  <2> DEFINE r == [k EXCEPT !.pc = "user", !.op = "DAT"]
  <2>1. cb' = [cb EXCEPT ![c] = r] /\ UNCHANGED <<chqlsn, chqrfc, net>>
    BY <1>3 DEF BackedOut
  <2>2. r \in Connections /\ r.obf = k.obf /\ r.nos = k.nos /\ r.winx = k.winx /\ r.pc = "user"
    BY ZenonT(60), <1>0 DEF Connections
  <2> HIDE DEF r
  <2>3. r \in GoodConnections
    BY <1>0, <2>2, SameWindowGood
  <2> QED BY <2>1, <2>3, ChangeGood DEF TypeInv
<1>4. CASE CHODT1(c) \/ CHOOP1(c)
  <2> DEFINE n == Succ(k.pknx)
             r == [k EXCEPT !.pknx = n, !.pc = "queue"]
             s == [k EXCEPT !.sta = "OPN", !.off = FALSE, !.sts = FALSE, !.pknx = n, !.pc = "queue"]
  <2>1. k.pc = "number" /\ (cb' = [cb EXCEPT ![c] = r] \/ cb' = [cb EXCEPT ![c] = s])
        /\ UNCHANGED <<chqlsn, chqrfc, net>>
    BY ZenonT(60), <1>4 DEF CHODT1, CHOOP1
  <2>2. n \in PktNumber
    BY <1>0, FieldTypes, NumberTypes
  <2> HIDE DEF n
  <2>3. r \in Connections /\ r.obf = k.obf /\ r.nos = k.nos /\ r.winx = k.winx /\ r.pc = "queue"
    BY ZenonT(60), <1>0, <2>2 DEF Connections
  <2>4. s \in Connections /\ s.obf = k.obf /\ s.nos = k.nos /\ s.winx = k.winx /\ s.pc = "queue"
    BY ZenonT(60), <1>0, <2>2 DEF Connections
  <2> HIDE DEF r, s
  <2>5. r \in GoodConnections /\ s \in GoodConnections
    BY <1>0, <2>1, <2>3, <2>4, SameWindowGood
  <2> QED BY <2>1, <2>5, ChangeGood DEF TypeInv
<1>5. CASE Queue(c)
  <2> DEFINE p == Outgoing(c, k, k.op, k.pknx)
             q == Append(k.obf, p)
             n == IF k.op = "DAT" THEN k.nos - 1 ELSE k.nos
             r == [k EXCEPT !.obf = q, !.nos = n, !.ackr = k.pknr, !.pc = "user", !.op = "DAT"]
  <2>1. cb' = [cb EXCEPT ![c] = r] /\ net' = Sent(net, {p}) /\ UNCHANGED <<chqlsn, chqrfc>>
    BY <1>5 DEF Queue
  <2>2. k.op \in {"DAT", "EOF"} /\ k.pknx \in PktNumber /\ k.op \in Ops /\ k.obf \in Seq(PacketTypes)
    BY <1>0, FieldTypes DEF Connections, Ops
  <2>3. p \in GoodPackets /\ p \in PacketTypes
    BY <1>0, <2>2, OutgoingGood
  <2> HIDE DEF p
  <2>4. q \in Seq(GoodPackets) /\ q \in Seq(PacketTypes)
    BY <1>0, <2>2, <2>3
  <2> HIDE DEF q
  <2>5. /\ n \in 1 - Mod .. 64 /\ n \in Int /\ n <= k.winx /\ k.winx - n <= Mod
        /\ k.winx # 0 /\ k.winx \in Given
    <3>1. k.winx \in 0 .. 64 /\ k.nos \in Int /\ NosOK(k) /\ k.pc = "queue"
      BY <1>0, <1>5, FieldTypes DEF Queue
    <3>2. k.winx \in Int /\ 0 <= k.winx /\ k.winx <= 64
      BY <3>1, WindowRange, Zenon
    <3> DEFINE w == k.winx
               m == k.nos
    <3> HIDE DEF w, m
    <3>3. w \in Int /\ m \in Int /\ w <= 64 /\ m <= w /\ w - m <= Mod - 1 /\ w >= 1
      BY <3>1, <3>2 DEF w, m, NosOK
    <3>4. m - 1 \in Int /\ m - 1 >= 1 - Mod /\ m - 1 <= 64 /\ m >= 1 - Mod /\ m <= 64
      BY <3>3, ModLarge
    <3>5. m - 1 \in 1 - Mod .. 64 /\ m \in 1 - Mod .. 64
      BY <3>3, <3>4, ModLarge
    <3>6. w - (m - 1) <= Mod /\ w - m <= Mod
      BY <3>3, ModLarge
    <3>7. n \in {m, m - 1} /\ k.winx = w
      BY DEF m, w
    <3>8. k.winx = 0 \/ k.winx \in Given
      BY <3>1 DEF NosOK
    <3> QED BY <3>3, <3>5, <3>6, <3>7, <3>8
  <2> HIDE DEF n
  <2>6. r \in Connections /\ r.obf = q /\ r.nos = n /\ r.winx = k.winx /\ r.pc = "user"
    BY ZenonT(60), <1>0, <2>4, <2>5 DEF Connections
  <2> HIDE DEF r
  <2>7. r \in GoodConnections
    BY <2>4, <2>5, <2>6 DEF GoodConnections, NosOK
  <2>8. net' \subseteq GoodPackets
    BY <2>1, <2>3, SentNow
  <2> QED BY <2>1, <2>7, <2>8, ChangeGood
<1>6. CASE CHACS4(c)
  <2> DEFINE r == [k EXCEPT !.usr = FALSE, !.pc = "user"]
             q == RemoveFirst(chqlsn[h], c)
             p == Packet("CLS", Lcl(c), k.frn, 0, 0, 0, 0)
  <2>1. cb' = [cb EXCEPT ![c] = r] /\ chqlsn' = [chqlsn EXCEPT ![h] = q] /\ UNCHANGED chqrfc
        /\ (net' = net \/ net' = Sent(net, {p}))
    BY <1>6 DEF CHACS4
  <2>2. r \in Connections /\ r.obf = k.obf /\ r.nos = k.nos /\ r.winx = k.winx /\ r.pc = "user"
    BY ZenonT(60), <1>0 DEF Connections
  <2> HIDE DEF r
  <2>3. r \in GoodConnections
    BY <1>0, <2>2, SameWindowGood
  <2>4. chqlsn[h] \in Seq(Conn)
    BY <1>0 DEF TypeInv
  <2>5. q \in Seq(Conn)
    BY SMTT(30), <2>4, RemoveFirstPlaces, RemoveAtPlaces
  <2>6. p \in GoodPackets
    <3>1. Lcl(c) \in Address /\ k.frn \in Address /\ 0 \in PktNumber /\ 0 \in 0 .. 64 /\ "CLS" \in Ops
      BY <1>0, FieldTypes, NumberTypes DEF Lcl, Address, Ops, ConnAssumption
    <3>2. p \in PacketTypes
      BY <3>1, PacketTyped
    <3> QED BY <3>2 DEF GoodPackets, Packet
  <2>7. net' \subseteq GoodPackets
    BY <2>1, <2>6, SentNow DEF TypeInv
  <2> HIDE DEF q
  <2> QED BY <2>1, <2>3, <2>5, <2>7 DEF TypeInv
<1> QED BY <1>1, <1>2, <1>3, <1>4, <1>5, <1>6 DEF Continue

LEMMA ClockTypes ==
  ASSUME ConnAssumption, TypeInv, Clock
  PROVE  TypeInv'
<1>1. ASSUME NEW c \in Conn, CHACLK(c) \/ Silence(c) \/ Probe(c) PROVE TypeInv'
  <2> DEFINE k == cb[c]
  <2>0. k \in GoodConnections /\ k \in Connections /\ k.obf \in Seq(GoodPackets)
    BY FieldTypes DEF TypeInv
  <2>1. CASE CHACLK(c)
    <3>a. PICK again \in CHARTR(k), mem \in BOOLEAN :
            \E a \in {CHASTO(c, k, mem), [k |-> k, out |-> {}]} :
              cb' = [cb EXCEPT ![c] = a.k] /\ net' = Sent(net, again \cup a.out) /\ UNCHANGED <<chqlsn, chqrfc>>
      BY <2>1 DEF CHACLK, Mem
    <3>1. PICK a \in {CHASTO(c, k, mem), [k |-> k, out |-> {}]} :
            cb' = [cb EXCEPT ![c] = a.k] /\ net' = Sent(net, again \cup a.out) /\ UNCHANGED <<chqlsn, chqrfc>>
      BY <3>a
    <3>b. CHASTO(c, k, mem).k \in GoodConnections /\ CHASTO(c, k, mem).out \subseteq GoodPackets
      BY <2>0, CHASTOGood
    <3>c. a = [k |-> k, out |-> {}] => a.k = k /\ a.out = {}
      OBVIOUS
    <3>2. a.k \in GoodConnections /\ a.out \subseteq GoodPackets
      BY <2>0, <3>b, <3>c
    <3>3. again \subseteq GoodPackets
      BY <2>0, NetGood
    <3>4. again \cup a.out \subseteq GoodPackets
      BY <3>2, <3>3
    <3>5. net' \subseteq GoodPackets
      BY <3>1, <3>4, SentNow
    <3> QED BY <3>1, <3>2, <3>5, ChangeGood
  <2>2. CASE Silence(c)
    <3> DEFINE r == [k EXCEPT !.sta = "INC", !.off = TRUE]
    <3>1. cb' = [cb EXCEPT ![c] = r] /\ UNCHANGED <<chqlsn, chqrfc, net>>
      BY <2>2 DEF Silence, CHINT
    <3>2. r \in Connections /\ r.obf = k.obf /\ r.nos = k.nos /\ r.winx = k.winx /\ r.pc = k.pc
      BY ZenonT(60), <2>0 DEF Connections
    <3> HIDE DEF r
    <3>3. r \in GoodConnections
      BY <2>0, <3>2, SameWindowGood
    <3> QED BY <3>1, <3>3, ChangeGood DEF TypeInv
  <2>3. CASE Probe(c)
    <3> DEFINE r == [k EXCEPT !.ackr = k.pknr]
               p == Outgoing(c, k, "SNS", 0)
    <3>1. cb' = [cb EXCEPT ![c] = r] /\ net' = Sent(net, {p}) /\ UNCHANGED <<chqlsn, chqrfc>>
      BY <2>3 DEF Probe
    <3>2. r \in Connections /\ r.obf = k.obf /\ r.nos = k.nos /\ r.winx = k.winx /\ r.pc = k.pc
      BY ZenonT(60), <2>0 DEF Connections
    <3> HIDE DEF r
    <3>3. r \in GoodConnections
      BY <2>0, <3>2, SameWindowGood
    <3>4. p \in GoodPackets
      BY <2>0, OutgoingGood, NumberTypes DEF Ops
    <3>5. net' \subseteq GoodPackets
      BY <3>1, <3>4, SentNow
    <3> QED BY <3>1, <3>3, <3>5, ChangeGood
  <2> QED BY <1>1, <2>1, <2>2, <2>3
<1>2. ASSUME NEW h \in Hosts, RfcTimesOut(h) \/ CHAOSQ(h) PROVE TypeInv'
  <2> DEFINE q == chqrfc[h]
  <2>0. q \in Seq(GoodPackets)
    BY DEF TypeInv
  <2>1. q # <<>>
    BY <1>2, <2>0 DEF RfcTimesOut, CHAOSQ
  <2>2. Head(q) \in GoodPackets /\ Tail(q) \in Seq(GoodPackets)
    BY <2>0, <2>1
  <2>3. Append(Tail(q), Head(q)) \in Seq(GoodPackets)
    BY <2>2
  <2>4. {Returned("CLS", Head(q))} \subseteq GoodPackets
    BY <2>2, NetGood
  <2>5. Sent(net, {Returned("CLS", Head(q))}) \subseteq GoodPackets
    BY <2>4, SentNow
  <2>6. CASE RfcTimesOut(h)
    BY <2>2, <2>5, <2>6 DEF TypeInv, RfcTimesOut
  <2>7. CASE CHAOSQ(h)
    BY <2>3, <2>7 DEF TypeInv, CHAOSQ
  <2> QED BY <1>2, <2>6, <2>7
<1> QED BY <1>1, <1>2 DEF Clock

LEMMA CHAPIITypes ==
  ASSUME ConnAssumption, TypeInv, NEW p \in net, CHAPII(p)
  PROVE  TypeInv'
<1>0. /\ p \in GoodPackets /\ p \in PacketTypes
      /\ \A c \in Conn : cb[c] \in GoodConnections
      /\ {} \subseteq GoodPackets
  BY NetGood, PacketFields DEF TypeInv
<1>1. CASE CHIRFC(p)
  <2> DEFINE h == p.dst[1]
             q == chqlsn[h]
  <2>0. h \in Hosts /\ q \in Seq(Conn) /\ chqrfc[h] \in Seq(GoodPackets)
    BY <1>0, <1>1, PacketFields DEF CHIRFC, TypeInv
  <2>1. ASSUME q # <<>>, cb' = [cb EXCEPT ![Head(q)] = CHIRF0(cb[Head(q)], p)],
               chqlsn' = [chqlsn EXCEPT ![h] = Tail(q)],
               NEW rest \in Rest(p), net' = rest, UNCHANGED chqrfc
        PROVE  TypeInv'
    <3>1. Head(q) \in Conn /\ Tail(q) \in Seq(Conn)
      BY <2>0, <2>1
    <3>2. CHIRF0(cb[Head(q)], p) \in GoodConnections
      BY <1>0, <3>1, CHIRF0Good
    <3>3. net' \subseteq GoodPackets
      BY <2>1, NetGood
    <3> QED BY <2>0, <2>1, <3>1, <3>2, <3>3 DEF TypeInv
  <2>2. ASSUME chqrfc' = [chqrfc EXCEPT ![h] = <<p>> \o @],
               NEW rest \in Rest(p), net' = rest, UNCHANGED <<cb, chqlsn>>
        PROVE  TypeInv'
    <3>1. <<p>> \in Seq(GoodPackets)
      BY <1>0
    <3>2. <<p>> \o chqrfc[h] \in Seq(GoodPackets)
      BY <2>0, <3>1, ConcatProperties
    <3>3. net' \subseteq GoodPackets
      BY <2>2, NetGood
    <3> QED BY <2>0, <2>2, <3>2, <3>3 DEF TypeInv
  <2>3. CASE CHABRT(p)
    BY <2>3, RefusalGood
  <2>4. CASE Answer(p, {Returned("CLS", p)})
    <3>1. {Returned("CLS", p)} \subseteq GoodPackets
      BY <1>0, NetGood
    <3> QED BY <2>4, <3>1, AnswerGood
  <2> QED BY <1>1, <2>1, <2>2, <2>3, <2>4 DEF CHIRFC
<1>2. CASE CHIOPN(p)
  <2>1. CASE CHALOS(p) \/ CHABRT(p)
    BY <2>1, RefusalGood
  <2>2. ASSUME NEW c \in Conn,
               NEW again, again \in CHARTR(CHIST1([cb[c] EXCEPT !.pknr = p.pn, !.frn = p.src], p)),
               NEW mem \in BOOLEAN, NEW a,
               a = CHASTO(c, CHIST1([cb[c] EXCEPT !.pknr = p.pn, !.frn = p.src], p), mem),
               Becomes(p, c, CHINT(a.k, "OPN"), a.out \cup again)
        PROVE  TypeInv'
    <3> DEFINE m == [cb[c] EXCEPT !.pknr = p.pn, !.frn = p.src]
               k == CHIST1(m, p)
               r == CHINT(a.k, "OPN")
    <3>1. p.pn \in PktNumber /\ p.src \in Nat \X Nat /\ p.op \in {"STS", "OPN"}
      BY <1>0, <1>2, PacketFields DEF Address, CHIOPN
    <3>2. cb[c] \in GoodConnections /\ cb[c] \in Connections /\ cb[c].obf \in Seq(GoodPackets)
      BY <1>0, FieldTypes
    <3>3. /\ m \in Connections /\ m.obf = cb[c].obf /\ m.nos = cb[c].nos
          /\ m.winx = cb[c].winx /\ m.pc = cb[c].pc
      BY ZenonT(60), <3>1, <3>2 DEF Connections
    <3>4. again \in CHARTR(k) /\ a = CHASTO(c, k, mem)
      BY <2>2
    <3> HIDE DEF m
    <3>5. m \in GoodConnections
      BY <3>2, <3>3, SameWindowGood
    <3>6. k \in GoodConnections
      BY <1>0, <3>1, <3>5, CHIST1Good
    <3> HIDE DEF k
    <3>7. a.k \in GoodConnections /\ a.out \subseteq GoodPackets
      BY <3>4, <3>6, CHASTOGood
    <3>8. a.k \in Connections /\ a.k.obf \in Seq(GoodPackets)
      BY <3>7, FieldTypes
    <3>9. r \in Connections /\ r.obf = a.k.obf /\ r.nos = a.k.nos /\ r.winx = a.k.winx /\ r.pc = a.k.pc
      <4> DEFINE b == a.k
                 s == [b EXCEPT !.sta = "OPN", !.off = FALSE]
      <4>1. b \in Connections
        BY <3>8
      <4> HIDE DEF b
      <4>2. s \in Connections /\ s.obf = b.obf /\ s.nos = b.nos /\ s.winx = b.winx /\ s.pc = b.pc
        BY ZenonT(60), <4>1 DEF Connections
      <4>3. r = s
        BY DEF CHINT, b
      <4> QED BY <4>2, <4>3 DEF b
    <3>10. again \subseteq GoodPackets
      BY <3>4, <3>6, NetGood
    <3>11. a.out \cup again \subseteq GoodPackets
      BY <3>7, <3>10
    <3>12. Becomes(p, c, r, a.out \cup again)
      BY <2>2
    <3> HIDE DEF r
    <3>13. r \in GoodConnections
      BY <3>7, <3>8, <3>9, SameWindowGood
    <3> QED BY <3>11, <3>12, <3>13, BecomesGood
  <2> QED BY <1>2, <2>1, <2>2 DEF CHIOPN, Mem
<1>3. CASE CHICLS(p)
  <2>1. CASE CHALOS(p) \/ CHABRT(p)
    BY <2>1, RefusalGood
  <2>2. ASSUME NEW c \in Conn, Becomes(p, c, CHICL2(cb[c], p, "CLS"), {}) PROVE TypeInv'
    <3>1. CHICL2(cb[c], p, "CLS") \in GoodConnections
      BY <1>0, CHICL2Good
    <3> QED BY <1>0, <2>2, <3>1, BecomesGood
  <2> QED BY <1>3, <2>1, <2>2 DEF CHICLS
<1>4. CASE CHILOS(p)
  <2>1. CASE CHABRT(p)
    BY <2>1, RefusalGood
  <2>2. ASSUME NEW c \in Conn, Becomes(p, c, CHICL2(cb[c], p, "LOS"), {}) PROVE TypeInv'
    <3>1. CHICL2(cb[c], p, "LOS") \in GoodConnections
      BY <1>0, CHICL2Good
    <3> QED BY <1>0, <2>2, <3>1, BecomesGood
  <2> QED BY <1>4, <2>1, <2>2 DEF CHILOS
<1>5. CASE CHISNS(p)
  <2>1. CASE CHALOS(p) \/ CHABRT(p)
    BY <2>1, RefusalGood
  <2>2. ASSUME NEW c \in Conn, NEW mem \in BOOLEAN,
               Becomes(p, c, CHASTO(c, cb[c], mem).k, CHASTO(c, cb[c], mem).out)
        PROVE  TypeInv'
    <3>1. CHASTO(c, cb[c], mem).k \in GoodConnections /\ CHASTO(c, cb[c], mem).out \subseteq GoodPackets
      BY <1>0, CHASTOGood
    <3> QED BY <2>2, <3>1, BecomesGood
  <2> QED BY <1>5, <2>1, <2>2 DEF CHISNS, Mem
<1>6. CASE CHISTS(p)
  <2>1. CASE CHALOS(p)
    BY <2>1, RefusalGood
  <2>2. ASSUME NEW c \in Conn, NEW again, again \in CHARTR(CHIST1(cb[c], p)),
               Becomes(p, c, CHIST1(cb[c], p), again)
        PROVE  TypeInv'
    <3>1. p.op \in {"STS", "OPN"}
      BY <1>6 DEF CHISTS
    <3>2. CHIST1(cb[c], p) \in GoodConnections
      BY <1>0, <3>1, CHIST1Good
    <3>3. again \subseteq GoodPackets
      BY <2>2, <3>2, NetGood
    <3> QED BY <2>2, <3>2, <3>3, BecomesGood
  <2> QED BY <1>6, <2>1, <2>2 DEF CHISTS
<1>7. CASE CHIDAT(p)
  <2>1. CASE CHALOS(p)
    BY <2>1, RefusalGood
  <2>2. ASSUME NEW c \in Conn, NEW k, k = CHIAK0(cb[c], p.ack, p.ack),
               \/ Becomes(p, c, k, {}) \/ Becomes(p, c, CHIDT1(k, p), {})
               \/ Becomes(p, c, OutOfOrder(k, p), {})
               \/ \E mem \in BOOLEAN : Becomes(p, c, CHASTO(c, k, mem).k, CHASTO(c, k, mem).out)
        PROVE  TypeInv'
    <3>1. p.ack \in PktNumber
      BY <1>0, PacketFields
    <3>2. cb[c] \in GoodConnections /\ cb[c] \in Connections /\ cb[c].obf \in Seq(GoodPackets)
      BY <1>0, FieldTypes
    <3>3. /\ cb[c].pc \in {"number", "queue"} => cb[c].winx >= 1
          /\ cb[c].winx = 0 \/ cb[c].winx \in Given
      BY <3>2, FieldTypes DEF NosOK
    <3>4. k \in GoodConnections
      BY <2>2, <3>1, <3>2, <3>3, CHIAK0Good
    <3>5. CHIDT1(k, p) \in GoodConnections /\ OutOfOrder(k, p) \in GoodConnections
      BY <1>0, <3>4, CHIDT1Good, OutOfOrderGood
    <3>6. ASSUME NEW mem \in BOOLEAN, Becomes(p, c, CHASTO(c, k, mem).k, CHASTO(c, k, mem).out)
          PROVE  TypeInv'
      <4>1. CHASTO(c, k, mem).k \in GoodConnections /\ CHASTO(c, k, mem).out \subseteq GoodPackets
        BY <3>4, CHASTOGood
      <4> QED BY <3>6, <4>1, BecomesGood
    <3> QED BY <1>0, <2>2, <3>4, <3>5, <3>6, BecomesGood
  <2> QED BY <1>7, <2>1, <2>2 DEF CHIDAT, Mem
<1>8. CASE CHIUNC(p)
  <2>1. CASE CHALOS(p)
    BY <2>1, RefusalGood
  <2>2. ASSUME NEW c \in Conn,
               \/ Becomes(p, c, cb[c], {})
               \/ Becomes(p, c, [cb[c] EXCEPT !.ibf = Append(@, p)], {})
        PROVE  TypeInv'
    <3> DEFINE q == Append(cb[c].ibf, p)
               r == [cb[c] EXCEPT !.ibf = q]
    <3>1. cb[c] \in GoodConnections /\ cb[c] \in Connections /\ cb[c].obf \in Seq(GoodPackets)
          /\ cb[c].ibf \in Seq(PacketTypes)
      BY <1>0, FieldTypes
    <3>2. q \in Seq(PacketTypes)
      BY <1>0, <3>1
    <3>3. Becomes(p, c, cb[c], {}) \/ Becomes(p, c, r, {})
      BY <2>2
    <3> HIDE DEF q
    <3>4. r \in Connections /\ r.obf = cb[c].obf /\ r.nos = cb[c].nos /\ r.winx = cb[c].winx /\ r.pc = cb[c].pc
      BY ZenonT(60), <3>1, <3>2 DEF Connections
    <3> HIDE DEF r
    <3>5. r \in GoodConnections
      BY <3>1, <3>4, SameWindowGood
    <3> QED BY <1>0, <3>1, <3>3, <3>5, BecomesGood
  <2>3. ASSUME NEW c \in Conn, p.dst = Lcl(c) PROVE p.dst[1] = c
    BY <2>3 DEF Lcl
  <2> QED BY <1>8, <2>1, <2>2, <2>3 DEF CHIUNC
<1> QED BY <1>1, <1>2, <1>3, <1>4, <1>5, <1>6, <1>7, <1>8 DEF CHAPII

LEMMA TypeInit == ASSUME ConnAssumption, Init PROVE TypeInv
<1>1. \A c \in Conn : Closed(0) \in GoodConnections
  BY ClosedGood
<1>2. <<>> \in Seq(Conn) /\ <<>> \in Seq(GoodPackets)
  OBVIOUS
<1> QED BY <1>1, <1>2 DEF Init, TypeInv

LEMMA TypeNext == ASSUME ConnAssumption, TypeInv, [Next]_vars PROVE TypeInv'
<1>1. ASSUME NEW c \in Conn, Call(c) PROVE TypeInv'
  BY <1>1, CallTypes
<1>2. ASSUME NEW c \in Conn, CHPKI(c) PROVE TypeInv'
  BY <1>2, CHPKITypes
<1>3. ASSUME NEW c \in Conn, Continue(c) PROVE TypeInv'
  BY <1>3, ContinueTypes
<1>4. CASE Clock
  BY <1>4, ClockTypes
<1>5. ASSUME NEW p \in net, CHAPII(p) PROVE TypeInv'
  BY <1>5, CHAPIITypes
<1>6. ASSUME NEW p \in net, Lose(p) PROVE TypeInv'
  BY <1>6 DEF Lose, TypeInv
<1>7. CASE UNCHANGED vars
  BY <1>7 DEF TypeInv, vars
<1> QED BY <1>1, <1>2, <1>3, <1>4, <1>5, <1>6, <1>7 DEF Next

LEMMA TypeInvAlways == ASSUME ConnAssumption PROVE Spec => []TypeInv
<1>1. Init => TypeInv
  BY TypeInit
<1>2. TypeInv /\ [Next]_vars => TypeInv'
  BY TypeNext
<1> QED BY <1>1, <1>2, PTL DEF Spec

(* Every variable of every connection, every queue and every packet keeps its type; CHSNOS *)
(* stays within eighteen bits although EOFs are sent without window (CHOOP1, CHIAK2).      *)
THEOREM TypeAlways == Spec => []TypeOK
BY ConnAssumption, TypeInvAlways, TypeInvTypeOK, PTL

-----------------------------------------------------------------------------
(* What each routine leaves alone. *)

LEMMA CHASTOFields ==
  ASSUME NEW c \in Conn, NEW k \in Connections, NEW mem \in BOOLEAN
  PROVE  LET r == CHASTO(c, k, mem).k
         IN /\ r.usr = k.usr /\ r.sta = k.sta /\ r.off = k.off /\ r.half = k.half
            /\ r.ibf = k.ibf /\ r.pbf = k.pbf /\ r.obf = k.obf /\ r.pknr = k.pknr
            /\ r.pknx = k.pknx /\ r.ackx = k.ackx /\ r.winx = k.winx /\ r.nos = k.nos
            /\ r.frn = k.frn /\ r.uniq = k.uniq /\ r.pc = k.pc /\ r.op = k.op
            /\ r.sts = ~mem
BY ZenonT(60) DEF CHASTO, Connections

LEMMA CHIAK0Fields ==
  ASSUME NEW k \in Connections, NEW rcp, NEW ack
  PROVE  LET r == CHIAK0(k, rcp, ack)
         IN /\ r.usr = k.usr /\ r.sta = k.sta /\ r.off = k.off /\ r.half = k.half
            /\ r.sts = k.sts /\ r.ibf = k.ibf /\ r.pbf = k.pbf /\ r.pknr = k.pknr
            /\ r.pknx = k.pknx /\ r.ackr = k.ackr /\ r.winx = k.winx
            /\ r.frn = k.frn /\ r.uniq = k.uniq /\ r.pc = k.pc /\ r.op = k.op
<1> DEFINE first == SelectInSeq(k.obf, LAMBDA p : Before(rcp, p.pn))
           obf == IF first = 0 THEN <<>> ELSE SubSeq(k.obf, first, Len(k.obf))
           ackx == IF Before(k.ackx, ack) THEN ack ELSE k.ackx
           nos == FreeWindow(k.winx, ackx, k.pknx)
<1>1. CHIAK0(k, rcp, ack) = [k EXCEPT !.obf = obf, !.ackx = ackx, !.nos = nos]
  BY DEF CHIAK0
<1> HIDE DEF obf, ackx, nos
<1> QED BY <1>1 DEF Connections

LEMMA CHIST1Fields ==
  ASSUME NEW k \in Connections, NEW p \in PacketTypes
  PROVE  LET r == CHIST1(k, p)
         IN /\ r.usr = k.usr /\ r.sta = k.sta /\ r.off = k.off /\ r.half = k.half
            /\ r.sts = k.sts /\ r.ibf = k.ibf /\ r.pbf = k.pbf /\ r.pknr = k.pknr
            /\ r.pknx = k.pknx /\ r.ackr = k.ackr /\ r.winx = p.win
            /\ r.frn = k.frn /\ r.uniq = k.uniq /\ r.pc = k.pc /\ r.op = k.op
<1> DEFINE w == [k EXCEPT !.winx = p.win]
<1>1. p.win \in 0 .. 64
  BY DEF PacketTypes
<1>2. /\ w \in Connections /\ w.usr = k.usr /\ w.sta = k.sta /\ w.off = k.off /\ w.half = k.half
      /\ w.sts = k.sts /\ w.ibf = k.ibf /\ w.pbf = k.pbf /\ w.pknr = k.pknr
      /\ w.pknx = k.pknx /\ w.ackr = k.ackr /\ w.winx = p.win
      /\ w.frn = k.frn /\ w.uniq = k.uniq /\ w.pc = k.pc /\ w.op = k.op
  BY ZenonT(60), <1>1 DEF Connections
<1> HIDE DEF w
<1>3. CHIST1(k, p) = CHIAK0(w, p.rcp, p.ack)
  BY DEF CHIST1, w
<1> QED BY <1>2, <1>3, CHIAK0Fields

LEMMA CHICL2Fields ==
  ASSUME NEW k \in Connections, NEW p \in PacketTypes, NEW state \in {"CLS", "LOS"}
  PROVE  LET r == CHICL2(k, p, state)
         IN /\ r.usr = k.usr /\ r.sta = state /\ r.off = TRUE /\ r.half = k.half
            /\ r.sts = k.sts /\ r.ibf = Append(k.ibf, p) /\ r.pbf = <<>> /\ r.obf = <<>>
            /\ r.pknr = k.pknr /\ r.pknx = k.pknx /\ r.ackr = k.ackr /\ r.ackx = k.ackx
            /\ r.winx = k.winx /\ r.nos = k.nos
            /\ r.frn = k.frn /\ r.uniq = k.uniq /\ r.pc = k.pc /\ r.op = k.op
<1> DEFINE q == Append(k.ibf, p)
<1>1. CHICL2(k, p, state) = [k EXCEPT !.sta = state, !.off = (state # "OPN"), !.pbf = <<>>, !.obf = <<>>, !.ibf = q]
  BY DEF CHICL2, CHINT, Connections
<1> HIDE DEF q
<1>2. CHICL2(k, p, state).ibf = q
  BY <1>1 DEF Connections
<1> QED BY ZenonT(60), <1>1, <1>2 DEF Connections, q

LEMMA CHICL2Control ==
  ASSUME NEW k \in Connections, NEW p \in PacketTypes, NEW state \in {"CLS", "LOS"}
  PROVE  LET r == CHICL2(k, p, state)
         IN r.usr = k.usr /\ r.sta = state /\ r.off = TRUE /\ r.pc = k.pc /\ r.uniq = k.uniq
BY ZenonT(60), CHICL2Fields

LEMMA CHIRF0Fields ==
  ASSUME NEW k \in Connections, NEW p \in PacketTypes
  PROVE  LET r == CHIRF0(k, p)
         IN /\ r.usr = k.usr /\ r.sta = "RFC" /\ r.off = TRUE /\ r.half = k.half
            /\ r.sts = k.sts /\ r.ibf = Append(k.ibf, p) /\ r.pbf = <<>> /\ r.obf = <<>>
            /\ r.pknr = p.pn /\ r.pknx = k.pknx /\ r.ackr = k.ackr /\ r.ackx = k.ackx
            /\ r.winx = k.winx /\ r.nos = k.nos
            /\ r.frn = p.src /\ r.uniq = k.uniq /\ r.pc = k.pc /\ r.op = k.op
<1> DEFINE q == Append(k.ibf, p)
<1>1. CHIRF0(k, p) = [k EXCEPT !.pknr = p.pn, !.frn = p.src, !.sta = "RFC", !.off = TRUE,
                               !.pbf = <<>>, !.obf = <<>>, !.ibf = q]
  BY DEF CHIRF0
<1> HIDE DEF q
<1>2. CHIRF0(k, p).ibf = q
  BY <1>1 DEF Connections
<1> QED BY <1>1, <1>2 DEF Connections, q

LEMMA CHORF1Fields ==
  ASSUME NEW k \in Connections
  PROVE  LET r == CHORF1(k)
         IN /\ r.usr = TRUE /\ r.sta = "CLS" /\ r.off = TRUE /\ r.half = FALSE
            /\ r.sts = FALSE /\ r.ibf = <<>> /\ r.pbf = <<>> /\ r.obf = <<>>
            /\ r.pknr = 0 /\ r.pknx = 0 /\ r.ackr = 0 /\ r.ackx = 0
            /\ r.winx = k.winx /\ r.nos = 0
            /\ r.frn = <<0, 0>> /\ r.uniq = k.uniq + 1 /\ r.pc = "user" /\ r.op = "DAT"
BY DEF CHORF1, Closed

LEMMA CHPKIAFields ==
  ASSUME NEW c \in Conn, NEW k \in Connections, NEW p \in PacketTypes, NEW mem \in BOOLEAN
  PROVE  LET r == CHPKIA(c, k, p, mem).k
         IN /\ r.usr = k.usr /\ r.sta = k.sta /\ r.off = k.off /\ r.half = k.half
            /\ r.ibf = k.ibf /\ r.pbf = k.pbf /\ r.obf = k.obf /\ r.pknr = p.pn
            /\ r.pknx = k.pknx /\ r.ackx = k.ackx /\ r.winx = k.winx /\ r.nos = k.nos
            /\ r.frn = k.frn /\ r.uniq = k.uniq /\ r.pc = k.pc /\ r.op = k.op
<1> DEFINE m == [k EXCEPT !.pknr = p.pn]
<1>1. p.pn \in PktNumber
  BY DEF PacketTypes
<1>2. /\ m \in Connections /\ m.usr = k.usr /\ m.sta = k.sta /\ m.off = k.off /\ m.half = k.half
      /\ m.ibf = k.ibf /\ m.pbf = k.pbf /\ m.obf = k.obf /\ m.pknr = p.pn
      /\ m.pknx = k.pknx /\ m.ackx = k.ackx /\ m.winx = k.winx /\ m.nos = k.nos
      /\ m.frn = k.frn /\ m.uniq = k.uniq /\ m.pc = k.pc /\ m.op = k.op
  BY ZenonT(60), <1>1 DEF Connections
<1> HIDE DEF m
<1>3. CHPKIA(c, k, p, mem) = IF NeedsAck(c, m, p) THEN CHASTO(c, m, mem) ELSE [k |-> m, out |-> {}]
   BY DEF CHPKIA, NeedsAck, Connections, m
<1> HIDE DEF NeedsAck
<1>4. CASE NeedsAck(c, m, p)
  <2> DEFINE s == CHASTO(c, m, mem).k
  <2>1. /\ s.usr = m.usr /\ s.sta = m.sta /\ s.off = m.off /\ s.half = m.half
        /\ s.ibf = m.ibf /\ s.pbf = m.pbf /\ s.obf = m.obf /\ s.pknr = m.pknr
        /\ s.pknx = m.pknx /\ s.ackx = m.ackx /\ s.winx = m.winx /\ s.nos = m.nos
        /\ s.frn = m.frn /\ s.uniq = m.uniq /\ s.pc = m.pc /\ s.op = m.op
    BY <1>2, CHASTOFields
  <2>2. CHPKIA(c, k, p, mem).k = s
    BY <1>3, <1>4
  <2> HIDE DEF s
  <2> QED BY <1>2, <2>1, <2>2
<1>5. CASE ~NeedsAck(c, m, p)
  BY <1>2, <1>3, <1>5
<1> QED BY <1>4, <1>5

LEMMA CHIDT1Fields ==
  ASSUME NEW k \in Connections, NEW p \in PacketTypes
  PROVE  LET r == CHIDT1(k, p)
         IN /\ r.usr = k.usr /\ r.sta = k.sta /\ r.off = k.off /\ r.half = k.half
            /\ r.sts = k.sts /\ r.obf = k.obf /\ r.pknr = k.pknr
            /\ r.pknx = k.pknx /\ r.ackr = k.ackr /\ r.ackx = k.ackx /\ r.winx = k.winx
            /\ r.nos = k.nos /\ r.frn = k.frn /\ r.uniq = k.uniq /\ r.pc = k.pc /\ r.op = k.op
<1>1. PICK n \in 0 .. Len(k.pbf) :
        CHIDT1(k, p) = [k EXCEPT !.ibf = Append(k.ibf, p) \o SubSeq(k.pbf, 1, n),
                                 !.pbf = SubSeq(k.pbf, n + 1, Len(k.pbf))]
  BY CHIDT1Moves
<1> DEFINE i == Append(k.ibf, p) \o SubSeq(k.pbf, 1, n)
           q == SubSeq(k.pbf, n + 1, Len(k.pbf))
<1>2. CHIDT1(k, p) = [k EXCEPT !.ibf = i, !.pbf = q]
  BY <1>1
<1> HIDE DEF i, q
<1> QED BY <1>2 DEF Connections

LEMMA OutOfOrderFields ==
  ASSUME NEW k \in Connections, NEW p \in PacketTypes
  PROVE  LET r == OutOfOrder(k, p)
         IN /\ r.usr = k.usr /\ r.sta = k.sta /\ r.off = k.off /\ r.half = k.half
            /\ r.sts = k.sts /\ r.ibf = k.ibf /\ r.obf = k.obf /\ r.pknr = k.pknr
            /\ r.pknx = k.pknx /\ r.ackr = k.ackr /\ r.ackx = k.ackx /\ r.winx = k.winx
            /\ r.nos = k.nos /\ r.frn = k.frn /\ r.uniq = k.uniq /\ r.pc = k.pc /\ r.op = k.op
<1> DEFINE place == SelectInSeq(k.pbf, LAMBDA q : ~Before(q.pn, p.pn))
           b == IF place = 0 THEN Append(k.pbf, p) ELSE InsertAt(k.pbf, place, p)
<1>1. OutOfOrder(k, p) = [k EXCEPT !.pbf = b]
  BY DEF OutOfOrder
<1> HIDE DEF b
<1> QED BY <1>1 DEF Connections

-----------------------------------------------------------------------------
(* Where a connection can be while its job is in a call, and what can be on the listening *)
(* queue.                                                                                  *)

Control(c, k) ==
  /\ k.usr => k.uniq >= 1
  /\ k.pc # "user" => k.usr
  /\ ~k.off => k.sta \in {"RFS", "OPN"}
  /\ k.sta = "LSN" => k.off /\ k.pc \in {"user", "listen", "close"}
  /\ k.sta \in {"LSN", "RFC"} => c \in Listeners
  /\ k.sta \in {"LSN", "RFS"} => k.ibf = <<>> /\ ~k.sts
  /\ k.pc = "listen" => k.sta = "LSN"
  /\ k.pc \in {"window", "number", "queue"} => k.sta \notin {"LSN", "RFS", "RFC"}

Listening(k) == k.sta = "LSN" /\ k.usr /\ k.pc # "listen"

ControlInv ==
  /\ \A c \in Conn : Control(c, cb[c])
  /\ \A h \in Hosts : \A i \in 1 .. Len(chqlsn[h]) :
       /\ HostOf[chqlsn[h][i]] = h /\ Listening(cb[chqlsn[h][i]])
       /\ \A j \in 1 .. Len(chqlsn[h]) : i # j => chqlsn[h][i] # chqlsn[h][j]

\* One connection changes, and goes on listening if it is on the queue.
LEMMA ControlChange ==
  ASSUME TypeInv, ControlInv, NEW c \in Conn, NEW r, cb' = [cb EXCEPT ![c] = r],
         Control(c, r), UNCHANGED chqlsn,
         Listening(cb[c]) => Listening(r)
  PROVE  ControlInv'
<1>1. cb'[c] = r /\ \A d \in Conn : d # c => cb'[d] = cb[d]
  BY OneChanges DEF TypeInv
<1>2. \A d \in Conn : Control(d, cb'[d])
  BY <1>1 DEF ControlInv
<1>3. ASSUME NEW h \in Hosts, NEW i \in 1 .. Len(chqlsn[h])
      PROVE  /\ HostOf[chqlsn[h][i]] = h /\ Listening(cb'[chqlsn[h][i]])
             /\ \A j \in 1 .. Len(chqlsn[h]) : i # j => chqlsn[h][i] # chqlsn[h][j]
  <2>1. chqlsn[h][i] \in Conn
    BY DEF TypeInv
  <2>2. Listening(cb[chqlsn[h][i]])
    BY DEF ControlInv
  <2>3. Listening(cb'[chqlsn[h][i]])
    BY <1>1, <2>1, <2>2
  <2> QED BY <2>3 DEF ControlInv
<1> QED BY <1>2, <1>3 DEF ControlInv

\* Nothing that counts here changes.
LEMMA ControlSame ==
  ASSUME TypeInv, ControlInv, NEW c \in Conn, NEW r, cb' = [cb EXCEPT ![c] = r], UNCHANGED chqlsn,
         r.usr = cb[c].usr, r.sta = cb[c].sta, r.off = cb[c].off, r.pc = cb[c].pc,
         r.uniq = cb[c].uniq, r.sta \in {"LSN", "RFS"} => r.ibf = <<>> /\ ~r.sts
  PROVE  ControlInv'
<1>1. Control(c, r)
  BY DEF ControlInv, Control
<1> QED BY <1>1, ControlChange DEF Listening

LEMMA ControlInit == ASSUME ConnAssumption, Init PROVE ControlInv
<1>1. \A c \in Conn : Control(c, Closed(0))
  BY DEF Control, Closed
<1> QED BY <1>1 DEF Init, ControlInv

LEMMA ControlCall ==
  ASSUME ConnAssumption, TypeInv, ControlInv, NEW c \in Conn, Call(c)
  PROVE  ControlInv'
<1> DEFINE k == cb[c]
           h == HostOf[c]
<1>0. k \in GoodConnections /\ k \in Connections /\ h \in Hosts /\ k.uniq \in Nat /\ Control(c, k)
  BY FieldTypes DEF TypeInv, Hosts, ControlInv
<1>1. CASE CHAOSO(c)
  <2> DEFINE r == [Closed(k.uniq + 1) EXCEPT !.usr = TRUE]
  <2>1. cb' = [cb EXCEPT ![c] = r] /\ UNCHANGED chqlsn /\ ~k.usr
    BY <1>1 DEF CHAOSO
  <2>2. Control(c, r)
    BY <1>0 DEF Control, Closed
  <2> QED BY <2>1, <2>2, ControlChange DEF Listening
<1>2. CASE CHOLSN(c)
  <2> DEFINE f == CHORF1(k)
             r == [f EXCEPT !.sta = "LSN"]
             l == [r EXCEPT !.pc = "listen"]
             pending == chqrfc[h]
  <2>1. f \in Connections
    BY <1>0, CHORF1Good, FieldTypes
  <2>2. /\ f.usr = TRUE /\ f.sta = "CLS" /\ f.off = TRUE /\ f.sts = FALSE /\ f.ibf = <<>>
        /\ f.uniq = k.uniq + 1 /\ f.pc = "user"
    BY <1>0, CHORF1Fields
  <2> HIDE DEF f
  <2>3. /\ r \in Connections /\ r.usr = TRUE /\ r.sta = "LSN" /\ r.off = TRUE /\ r.sts = FALSE /\ r.ibf = <<>>
        /\ r.uniq = k.uniq + 1 /\ r.pc = "user"
    BY ZenonT(60), <2>1, <2>2 DEF Connections
  <2>4. k.sta = "CLS" /\ c \in Listeners
    BY <1>2 DEF CHOLSN, CanStart
  <2>5. CASE pending = <<>>
    <3>1. cb' = [cb EXCEPT ![c] = l] /\ UNCHANGED chqlsn
      BY <1>2, <2>5 DEF CHOLSN, f
    <3> HIDE DEF r
    <3>2. /\ l.usr = TRUE /\ l.sta = "LSN" /\ l.off = TRUE /\ l.sts = FALSE /\ l.ibf = <<>>
          /\ l.uniq = k.uniq + 1 /\ l.pc = "listen"
      BY <2>3 DEF Connections
    <3> HIDE DEF l
    <3>3. Control(c, l)
      BY <1>0, <2>4, <3>2 DEF Control
    <3> QED BY <2>4, <3>1, <3>3, ControlChange DEF Listening
  <2>6. CASE pending # <<>>
    <3> DEFINE m == CHIRF0(r, Head(pending))
    <3>1. cb' = [cb EXCEPT ![c] = m] /\ UNCHANGED chqlsn
      BY <1>2, <2>6 DEF CHOLSN, f
    <3> HIDE DEF r
    <3>a. Head(pending) \in PacketTypes
      <4>1. chqrfc[h] \in Seq(GoodPackets)
        BY <1>0 DEF TypeInv
      <4>2. Head(pending) \in GoodPackets
        BY <2>6, <4>1
      <4> QED BY <4>2, PacketFields
    <3>2. m.usr = TRUE /\ m.sta = "RFC" /\ m.off = TRUE /\ m.uniq = k.uniq + 1 /\ m.pc = "user"
      BY ZenonT(60), <2>3, <3>a, CHIRF0Fields
    <3> HIDE DEF m
    <3>3. Control(c, m)
      BY <1>0, <2>4, <3>2 DEF Control
    <3> QED BY <2>4, <3>1, <3>3, ControlChange DEF Listening
  <2> QED BY <2>5, <2>6
<1>3. CASE CHOOPN(c)
  <2> DEFINE p == WithReceipt(c, [k EXCEPT !.sta = "OPN", !.off = FALSE, !.sts = FALSE,
                                   !.pknx = Succ(k.pknx), !.ackr = k.pknr],
                              Outgoing(c, [k EXCEPT !.sta = "OPN", !.off = FALSE, !.sts = FALSE,
                                   !.pknx = Succ(k.pknx), !.ackr = k.pknr], "OPN", Succ(k.pknx)))
             n == Succ(k.pknx)
             q == Append(k.obf, p)
             r == [k EXCEPT !.sta = "OPN", !.off = FALSE, !.sts = FALSE,
                            !.pknx = n, !.ackr = k.pknr, !.obf = q]
  <2>1. cb' = [cb EXCEPT ![c] = r] /\ UNCHANGED chqlsn /\ k.pc = "user" /\ k.sta = "RFC" /\ k.usr
    BY <1>0, <1>3 DEF CHOOPN, CanIO, Connections
  <2> HIDE DEF p, n, q
  <2>2. r.usr = k.usr /\ r.sta = "OPN" /\ r.off = FALSE /\ r.pc = k.pc /\ r.uniq = k.uniq
    BY <1>0 DEF Connections
  <2> HIDE DEF r
  <2>3. Control(c, r)
    BY <1>0, <2>1, <2>2 DEF Control
  <2> QED BY <2>1, <2>3, ControlChange DEF Listening
<1>4. CASE CHOCLS(c) \/ CHOFWD(c)
  <2> DEFINE r == [k EXCEPT !.sta = "CLS", !.off = TRUE, !.sts = FALSE, !.ackr = k.pknr]
  <2>1. cb' = [cb EXCEPT ![c] = r] /\ UNCHANGED chqlsn /\ k.pc = "user" /\ k.sta # "LSN"
    BY <1>4 DEF CHOCLS, CHOFWD, Shut, CanIO
  <2>2. r.usr = k.usr /\ r.sta = "CLS" /\ r.off = TRUE /\ r.pc = k.pc /\ r.uniq = k.uniq
    BY <1>0 DEF Connections
  <2> HIDE DEF r
  <2>3. Control(c, r)
    BY <1>0, <2>1, <2>2 DEF Control
  <2> QED BY <2>1, <2>3, ControlChange DEF Listening
<1>5. ASSUME NEW l \in Listeners, CHORFC(c, HostOf[l]) PROVE ControlInv'
  <2> DEFINE f == CHORF1(k)
             g == HostAddr(HostOf[l])
             s == [f EXCEPT !.frn = g, !.sta = "RFS", !.off = FALSE, !.pknx = 1]
             p == <<Outgoing(c, s, "RFC", 1)>>
             r == [s EXCEPT !.obf = p]
  <2>1. f \in Connections
    BY <1>0, CHORF1Good, FieldTypes
  <2>2. /\ f.usr = TRUE /\ f.sts = FALSE /\ f.ibf = <<>>
        /\ f.uniq = k.uniq + 1 /\ f.pc = "user"
    BY <1>0, CHORF1Fields
  <2>3. cb' = [cb EXCEPT ![c] = r] /\ UNCHANGED chqlsn /\ k.sta = "CLS"
    BY <1>5 DEF CHORFC, CanStart
  <2> HIDE DEF f, g, p
  <2>4. r.usr = TRUE /\ r.sta = "RFS" /\ r.off = FALSE /\ r.sts = FALSE /\ r.ibf = <<>>
        /\ r.uniq = k.uniq + 1 /\ r.pc = "user"
    BY <2>1, <2>2 DEF Connections
  <2> HIDE DEF r
  <2>5. Control(c, r)
    BY <1>0, <2>4 DEF Control
  <2> QED BY <2>3, <2>5, ControlChange DEF Listening
<1>6. ASSUME NEW op \in {"DAT", "EOF"}, CHODAT(c, op) PROVE ControlInv'
  <2> DEFINE s == IF k.nos > 0 THEN "number" ELSE "window"
             r == [k EXCEPT !.pc = s, !.op = op]
  <2>1. cb' = [cb EXCEPT ![c] = r] /\ UNCHANGED chqlsn /\ k.sta = "OPN" /\ k.usr
    BY <1>6 DEF CHODAT, CanIO
  <2>2. s \in {"number", "window"}
    OBVIOUS
  <2> HIDE DEF s
  <2>3. r.usr = k.usr /\ r.sta = k.sta /\ r.off = k.off /\ r.pc = s /\ r.uniq = k.uniq
    BY <1>0 DEF Connections
  <2> HIDE DEF r
  <2>4. Control(c, r)
    BY <1>0, <2>1, <2>2, <2>3 DEF Control
  <2> QED BY <2>1, <2>4, ControlChange DEF Listening
<1>7. ASSUME NEW n \in UncNumbers, CHOUNC(c, n) PROVE ControlInv'
  BY <1>7 DEF CHOUNC, ControlInv
<1>8. CASE CHACS7(c)
  <2> DEFINE r == [k EXCEPT !.half = TRUE]
  <2>1. cb' = [cb EXCEPT ![c] = r] /\ UNCHANGED chqlsn
    BY <1>8 DEF CHACS7
  <2>2. /\ r.usr = k.usr /\ r.sta = k.sta /\ r.off = k.off /\ r.pc = k.pc /\ r.uniq = k.uniq
        /\ r.ibf = k.ibf /\ r.sts = k.sts
    BY <1>0 DEF Connections
  <2> HIDE DEF r
  <2>3. r.sta \in {"LSN", "RFS"} => r.ibf = <<>> /\ ~r.sts
    BY <1>0, <2>2 DEF Control
  <2> QED BY <2>1, <2>2, <2>3, ControlSame
<1>9. CASE CHACS1(c)
  <2> DEFINE r == [k EXCEPT !.off = TRUE, !.ibf = <<>>, !.pbf = <<>>, !.obf = <<>>, !.pc = "close"]
  <2>1. cb' = [cb EXCEPT ![c] = r] /\ UNCHANGED chqlsn /\ k.usr
    BY <1>9 DEF CHACS1
  <2>2. /\ r.usr = k.usr /\ r.sta = k.sta /\ r.off = TRUE /\ r.pc = "close" /\ r.uniq = k.uniq
        /\ r.ibf = <<>> /\ r.sts = k.sts
    BY <1>0 DEF Connections
  <2> HIDE DEF r
  <2>3. Control(c, r)
    BY <1>0, <2>1, <2>2 DEF Control
  <2> QED BY <2>1, <2>2, <2>3, ControlChange DEF Listening
<1> QED BY <1>1, <1>2, <1>3, <1>4, <1>5, <1>6, <1>7, <1>8, <1>9 DEF Call

LEMMA ControlCHPKI ==
  ASSUME ConnAssumption, TypeInv, ControlInv, NEW c \in Conn, CHPKI(c)
  PROVE  ControlInv'
<1> DEFINE k == cb[c]
           p == Head(k.ibf)
<1>0. k \in GoodConnections /\ k \in Connections /\ Control(c, k) /\ k.ibf \in Seq(PacketTypes) /\ k.ibf # <<>>
  BY FieldTypes DEF TypeInv, ControlInv, CHPKI
<1>1. p \in PacketTypes
  BY <1>0
<1> HIDE DEF p
<1>2. PICK mem \in BOOLEAN :
        \E a \in {CHPKIA(c, k, p, mem), [k |-> k, out |-> {}]} :
          cb' = [cb EXCEPT ![c] = [a.k EXCEPT !.ibf = Tail(@)]]
  BY DEF CHPKI, Mem, p
<1>3. PICK a \in {CHPKIA(c, k, p, mem), [k |-> k, out |-> {}]} :
          cb' = [cb EXCEPT ![c] = [a.k EXCEPT !.ibf = Tail(@)]]
  BY <1>2
<1> DEFINE b == CHPKIA(c, k, p, mem).k
<1>4. b \in Connections /\ b.usr = k.usr /\ b.sta = k.sta /\ b.off = k.off /\ b.pc = k.pc /\ b.uniq = k.uniq
  <2>1. b \in GoodConnections
    BY <1>0, <1>1, CHPKIAGood
  <2>2. b.usr = k.usr /\ b.sta = k.sta /\ b.off = k.off /\ b.pc = k.pc /\ b.uniq = k.uniq
    BY <1>0, <1>1, CHPKIAFields
  <2> QED BY <2>1, <2>2, FieldTypes
<1>5. a.k \in {b, k}
  BY <1>3
<1> HIDE DEF b
<1> DEFINE s == a.k
           r == [s EXCEPT !.ibf = Tail(@)]
<1>6. s \in Connections /\ s.usr = k.usr /\ s.sta = k.sta /\ s.off = k.off /\ s.pc = k.pc /\ s.uniq = k.uniq
  BY <1>0, <1>4, <1>5
<1>7. cb' = [cb EXCEPT ![c] = r]
  BY <1>3
<1> HIDE DEF s
<1>8. r.usr = k.usr /\ r.sta = k.sta /\ r.off = k.off /\ r.pc = k.pc /\ r.uniq = k.uniq
  BY <1>6 DEF Connections
<1> HIDE DEF r
<1>9. k.sta \notin {"LSN", "RFS"} /\ UNCHANGED chqlsn
  BY <1>0 DEF Control, CHPKI
<1> QED BY <1>7, <1>8, <1>9, ControlSame

LEMMA ControlContinue ==
  ASSUME ConnAssumption, TypeInv, ControlInv, NEW c \in Conn, Continue(c)
  PROVE  ControlInv'
<1> DEFINE k == cb[c]
           h == HostOf[c]
           q == chqlsn[h]
<1>0. /\ k \in GoodConnections /\ k \in Connections /\ h \in Hosts /\ Control(c, k)
      /\ q \in Seq(Conn) /\ chqlsn \in [Hosts -> Seq(Conn)]
  BY FieldTypes DEF TypeInv, Hosts, ControlInv
<1>1. CASE CHAQPL(c)
  <2> DEFINE r == [k EXCEPT !.pc = "user"]
  <2>1. cb' = [cb EXCEPT ![c] = r] /\ chqlsn' = [chqlsn EXCEPT ![h] = Append(q, c)] /\ k.pc = "listen"
    BY <1>1 DEF CHAQPL
  <2>2. r.usr = k.usr /\ r.sta = k.sta /\ r.off = k.off /\ r.pc = "user" /\ r.uniq = k.uniq
        /\ r.ibf = k.ibf /\ r.sts = k.sts
    BY <1>0 DEF Connections
  <2> HIDE DEF r
  <2>3. cb'[c] = r /\ \A d \in Conn : d # c => cb'[d] = cb[d]
    BY <2>1, OneChanges DEF TypeInv
  <2>4. Control(c, r) /\ r.sta = "LSN" /\ r.usr
    BY <1>0, <2>1, <2>2 DEF Control
  <2>5. \A d \in Conn : Control(d, cb'[d])
    BY <2>3, <2>4 DEF ControlInv
  <2>6. ASSUME NEW g \in Hosts, NEW i \in 1 .. Len(chqlsn[g])
        PROVE  /\ chqlsn[g][i] \in Conn /\ chqlsn[g][i] # c /\ (HostOf[chqlsn[g][i]] = g /\ Listening(cb'[chqlsn[g][i]]))
               /\ \A j \in 1 .. Len(chqlsn[g]) : i # j => chqlsn[g][i] # chqlsn[g][j]
    <3>1. chqlsn[g][i] \in Conn
      BY DEF TypeInv
    <3>2. HostOf[chqlsn[g][i]] = g /\ Listening(cb[chqlsn[g][i]]) /\ \A j \in 1 .. Len(chqlsn[g]) : i # j => chqlsn[g][i] # chqlsn[g][j]
      BY DEF ControlInv
    <3>3. chqlsn[g][i] # c
      BY <2>1, <3>2 DEF Listening
    <3>4. (HostOf[chqlsn[g][i]] = g /\ Listening(cb'[chqlsn[g][i]]))
      BY <2>3, <3>1, <3>2, <3>3 DEF Listening
    <3> QED BY <3>1, <3>2, <3>3, <3>4
  <2>7. HostOf[c] = h /\ Listening(cb'[c])
    BY <2>2, <2>3, <2>4 DEF Listening
  <2>8. ASSUME NEW g \in Hosts, NEW i \in 1 .. Len(chqlsn'[g])
        PROVE  /\ HostOf[chqlsn'[g][i]] = g /\ Listening(cb'[chqlsn'[g][i]])
               /\ \A j \in 1 .. Len(chqlsn'[g]) : i # j => chqlsn'[g][i] # chqlsn'[g][j]
    <3>1. CASE g # h
      <4>1. chqlsn'[g] = chqlsn[g]
        BY <1>0, <2>1, <3>1
      <4>2. i \in 1 .. Len(chqlsn[g])
        BY <4>1
      <4> QED BY <2>6, <4>1, <4>2
    <3>2. CASE g = h
      <4>1. chqlsn'[g] = Append(q, c) /\ Len(Append(q, c)) = Len(q) + 1 /\ Len(q) \in Nat
        BY <1>0, <2>1, <3>2
      <4>2. Append(q, c)[Len(q) + 1] = c /\ \A j \in 1 .. Len(q) : Append(q, c)[j] = q[j]
        BY <1>0
      <4>3. \A j \in 1 .. Len(q) + 1 : j \in 1 .. Len(q) \/ j = Len(q) + 1
        BY <4>1
      <4>4. \A j \in 1 .. Len(q) : q[j] # c /\ HostOf[q[j]] = h /\ Listening(cb'[q[j]])
        BY <2>6, <3>2
      <4>5. \A j, l \in 1 .. Len(q) : j # l => q[j] # q[l]
        BY <2>6, <3>2
      <4>6. i \in 1 .. Len(q) + 1
        BY <4>1
      <4>7. HostOf[chqlsn'[g][i]] = g /\ Listening(cb'[chqlsn'[g][i]])
        BY <2>7, <3>2, <4>1, <4>2, <4>3, <4>4, <4>6
      <4>8. ASSUME NEW j \in 1 .. Len(q) + 1, i # j PROVE Append(q, c)[i] # Append(q, c)[j]
        BY <4>2, <4>3, <4>4, <4>5, <4>6, <4>8
      <4> QED BY <4>1, <4>7, <4>8
    <3> QED BY <3>1, <3>2
  <2>9. chqlsn' \in [Hosts -> Seq(Conn)]
    BY <1>0, <2>1
  <2> QED BY <2>5, <2>8 DEF ControlInv
<1>2. CASE WindowOpens(c)
  <2> DEFINE r == [k EXCEPT !.pc = "number"]
  <2>1. cb' = [cb EXCEPT ![c] = r] /\ k.pc = "window" /\ UNCHANGED chqlsn
    BY <1>2 DEF WindowOpens
  <2>2. /\ r.usr = k.usr /\ r.sta = k.sta /\ r.off = k.off /\ r.pc = "number" /\ r.uniq = k.uniq
        /\ r.ibf = k.ibf /\ r.sts = k.sts
    BY <1>0 DEF Connections
  <2> HIDE DEF r
  <2>3. Control(c, r) /\ k.sta # "LSN"
    BY <1>0, <2>1, <2>2 DEF Control
  <2> QED BY <2>1, <2>3, ControlChange DEF Listening
<1>3. CASE BackedOut(c)
  <2> DEFINE r == [k EXCEPT !.pc = "user", !.op = "DAT"]
  <2>1. cb' = [cb EXCEPT ![c] = r] /\ k.pc = "window" /\ UNCHANGED chqlsn
    BY <1>3 DEF BackedOut
  <2>2. /\ r.usr = k.usr /\ r.sta = k.sta /\ r.off = k.off /\ r.pc = "user" /\ r.uniq = k.uniq
        /\ r.ibf = k.ibf /\ r.sts = k.sts
    BY <1>0 DEF Connections
  <2> HIDE DEF r
  <2>3. Control(c, r) /\ k.sta # "LSN"
    BY <1>0, <2>1, <2>2 DEF Control
  <2> QED BY <2>1, <2>3, ControlChange DEF Listening
<1>4. CASE CHODT1(c) \/ CHOOP1(c)
  <2> DEFINE n == Succ(k.pknx)
             r == [k EXCEPT !.pknx = n, !.pc = "queue"]
             s == [k EXCEPT !.sta = "OPN", !.off = FALSE, !.sts = FALSE, !.pknx = n, !.pc = "queue"]
  <2>1. k.pc = "number" /\ (cb' = [cb EXCEPT ![c] = r] \/ cb' = [cb EXCEPT ![c] = s]) /\ UNCHANGED chqlsn
    BY ZenonT(60), <1>4 DEF CHODT1, CHOOP1
  <2> HIDE DEF n
  <2>2. /\ r.usr = k.usr /\ r.sta = k.sta /\ r.off = k.off /\ r.pc = "queue" /\ r.uniq = k.uniq
        /\ r.ibf = k.ibf /\ r.sts = k.sts
        /\ s.usr = k.usr /\ s.sta = "OPN" /\ s.off = FALSE /\ s.pc = "queue" /\ s.uniq = k.uniq
    BY <1>0 DEF Connections
  <2> HIDE DEF r, s
  <2>3. Control(c, r) /\ Control(c, s) /\ k.sta # "LSN"
    BY <1>0, <2>1, <2>2 DEF Control
  <2> QED BY <2>1, <2>3, ControlChange DEF Listening
<1>5. CASE Queue(c)
  <2> DEFINE q1 == Append(k.obf, Outgoing(c, k, k.op, k.pknx))
             n == IF k.op = "DAT" THEN k.nos - 1 ELSE k.nos
             r == [k EXCEPT !.obf = q1, !.nos = n, !.ackr = k.pknr, !.pc = "user", !.op = "DAT"]
  <2>1. cb' = [cb EXCEPT ![c] = r] /\ k.pc = "queue" /\ UNCHANGED chqlsn
    BY <1>5 DEF Queue
  <2> HIDE DEF q1, n
  <2>2. /\ r.usr = k.usr /\ r.sta = k.sta /\ r.off = k.off /\ r.pc = "user" /\ r.uniq = k.uniq
        /\ r.ibf = k.ibf /\ r.sts = k.sts
    BY <1>0 DEF Connections
  <2> HIDE DEF r
  <2>3. Control(c, r) /\ k.sta # "LSN"
    BY <1>0, <2>1, <2>2 DEF Control
  <2> QED BY <2>1, <2>3, ControlChange DEF Listening
<1>6. CASE CHACS4(c)
  <2> DEFINE r == [k EXCEPT !.usr = FALSE, !.pc = "user"]
             q2 == RemoveFirst(q, c)
  <2>1. cb' = [cb EXCEPT ![c] = r] /\ chqlsn' = [chqlsn EXCEPT ![h] = q2]
    BY <1>6 DEF CHACS4
  <2>2. /\ r.usr = FALSE /\ r.sta = k.sta /\ r.off = k.off /\ r.pc = "user" /\ r.uniq = k.uniq
        /\ r.ibf = k.ibf /\ r.sts = k.sts
    BY <1>0 DEF Connections
  <2> HIDE DEF r
  <2>3. cb'[c] = r /\ \A d \in Conn : d # c => cb'[d] = cb[d]
    BY <2>1, OneChanges DEF TypeInv
  <2>4. Control(c, r)
    BY <1>0, <2>2 DEF Control
  <2>5. \A d \in Conn : Control(d, cb'[d])
    BY <2>3, <2>4 DEF ControlInv
  <2>6. ASSUME NEW g \in Hosts, NEW i \in 1 .. Len(chqlsn[g])
        PROVE  /\ chqlsn[g][i] \in Conn /\ HostOf[chqlsn[g][i]] = g /\ Listening(cb[chqlsn[g][i]])
               /\ \A j \in 1 .. Len(chqlsn[g]) : i # j => chqlsn[g][i] # chqlsn[g][j]
               /\ chqlsn[g][i] # c => (HostOf[chqlsn[g][i]] = g /\ Listening(cb'[chqlsn[g][i]]))
    <3>1. chqlsn[g][i] \in Conn
      BY DEF TypeInv
    <3>2. HostOf[chqlsn[g][i]] = g /\ Listening(cb[chqlsn[g][i]]) /\ \A j \in 1 .. Len(chqlsn[g]) : i # j => chqlsn[g][i] # chqlsn[g][j]
      BY DEF ControlInv
    <3> QED BY <2>3, <3>1, <3>2 DEF Listening
  <2>7. \A j \in 1 .. Len(q2) : \E l \in 1 .. Len(q) : q2[j] = q[l] /\ q2[j] # c
    <3>1. CASE q2 = q /\ \A j \in 1 .. Len(q) : q[j] # c
      BY <3>1
    <3>2. ASSUME NEW i \in 1 .. Len(q), q[i] = c, q2 = RemoveAt(q, i)
          PROVE  \A j \in 1 .. Len(q2) : \E l \in 1 .. Len(q) : q2[j] = q[l] /\ q2[j] # c
      <4>1. Len(q2) = Len(q) - 1 /\ Len(q) \in Nat
            /\ \A j \in 1 .. Len(q) - 1 : q2[j] = IF j < i THEN q[j] ELSE q[j + 1]
        BY <1>0, <3>2, RemoveAtPlaces
      <4>2. \A l \in 1 .. Len(q) : l # i => q[l] # c
        BY <1>0, <2>6, <3>2
      <4> TAKE j \in 1 .. Len(q2)
      <4>3. CASE j < i
        <5>1. j \in 1 .. Len(q) /\ j # i /\ q2[j] = q[j]
          BY <4>1, <4>3
        <5> QED BY <4>2, <5>1
      <4>4. CASE ~(j < i)
        <5>1. j + 1 \in 1 .. Len(q) /\ j + 1 # i /\ q2[j] = q[j + 1]
          BY <4>1, <4>4
        <5> QED BY <4>2, <5>1
      <4> QED BY <4>3, <4>4
    <3> QED BY <1>0, <3>1, <3>2, RemoveFirstPlaces
  <2>8. \A j, l \in 1 .. Len(q2) : j # l => q2[j] # q2[l]
    <3>0. \A j, l \in 1 .. Len(q) : j # l => q[j] # q[l]
      BY <1>0, <2>6
    <3>1. CASE q2 = q
      BY <3>0, <3>1
    <3>2. ASSUME NEW i \in 1 .. Len(q), q2 = RemoveAt(q, i)
          PROVE  \A j, l \in 1 .. Len(q2) : j # l => q2[j] # q2[l]
      <4>1. Len(q2) = Len(q) - 1 /\ Len(q) \in Nat
            /\ \A j \in 1 .. Len(q) - 1 : q2[j] = IF j < i THEN q[j] ELSE q[j + 1]
        BY <1>0, <3>2, RemoveAtPlaces
      <4> DEFINE at(j) == IF j < i THEN j ELSE j + 1
      <4>2. \A j \in 1 .. Len(q2) : at(j) \in 1 .. Len(q) /\ q2[j] = q[at(j)]
        BY <4>1
      <4>3. \A j, l \in 1 .. Len(q2) : j # l => at(j) # at(l)
        BY <4>1
      <4> QED BY <3>0, <4>2, <4>3
    <3> QED BY <1>0, <3>1, <3>2, RemoveFirstPlaces
  <2> HIDE DEF q2
  <2>9. ASSUME NEW g \in Hosts, NEW i \in 1 .. Len(chqlsn'[g])
        PROVE  /\ HostOf[chqlsn'[g][i]] = g /\ Listening(cb'[chqlsn'[g][i]])
               /\ \A j \in 1 .. Len(chqlsn'[g]) : i # j => chqlsn'[g][i] # chqlsn'[g][j]
    <3>1. CASE g # h
      <4>1. chqlsn'[g] = chqlsn[g]
        BY <1>0, <2>1, <3>1
      <4>2. i \in 1 .. Len(chqlsn[g])
        BY <4>1
      <4>3. chqlsn[g][i] # c
        BY <2>6, <3>1, <4>2 DEF Listening
      <4> QED BY <2>6, <4>1, <4>2, <4>3
    <3>2. CASE g = h
      <4>1. chqlsn'[g] = q2
        BY <1>0, <2>1, <3>2
      <4>2. PICK l \in 1 .. Len(q) : q2[i] = q[l] /\ q2[i] # c
        BY <2>7, <4>1
      <4>3. HostOf[q2[i]] = g /\ Listening(cb'[q2[i]])
        BY <2>6, <3>2, <4>2
      <4> QED BY <2>8, <4>1, <4>3
    <3> QED BY <3>1, <3>2
  <2> QED BY <2>5, <2>9 DEF ControlInv
<1> QED BY <1>1, <1>2, <1>3, <1>4, <1>5, <1>6 DEF Continue

LEMMA ControlClock ==
  ASSUME ConnAssumption, TypeInv, ControlInv, Clock
  PROVE  ControlInv'
<1>1. ASSUME NEW c \in Conn, CHACLK(c) \/ Silence(c) \/ Probe(c) PROVE ControlInv'
  <2> DEFINE k == cb[c]
  <2>0. k \in GoodConnections /\ k \in Connections /\ Control(c, k)
    BY FieldTypes DEF TypeInv, ControlInv
  <2>1. CASE CHACLK(c)
    <3>1. PICK mem \in BOOLEAN : cb' = [cb EXCEPT ![c] = IF k.sts THEN CHASTO(c, k, mem).k ELSE k]
      BY <2>1 DEF CHACLK, Mem
    <3> DEFINE s == CHASTO(c, k, mem).k
               r == IF k.sts THEN s ELSE k
    <3>2. s.usr = k.usr /\ s.sta = k.sta /\ s.off = k.off /\ s.pc = k.pc /\ s.uniq = k.uniq
      BY <2>0, CHASTOFields
    <3>3. cb' = [cb EXCEPT ![c] = r] /\ UNCHANGED chqlsn
      BY <2>1, <3>1 DEF CHACLK
    <3> HIDE DEF s
    <3>4. r.usr = k.usr /\ r.sta = k.sta /\ r.off = k.off /\ r.pc = k.pc /\ r.uniq = k.uniq
      BY <3>2
    <3>5. r.sta \in {"LSN", "RFS"} => r.ibf = <<>> /\ ~r.sts
      BY <2>0, <3>2 DEF Control
    <3> HIDE DEF r
    <3> QED BY <3>3, <3>4, <3>5, ControlSame
  <2>2. CASE Silence(c)
    <3> DEFINE r == [k EXCEPT !.sta = "INC", !.off = TRUE]
    <3>1. cb' = [cb EXCEPT ![c] = r] /\ UNCHANGED chqlsn /\ ~k.off
      BY <2>2 DEF Silence, CHINT, Hears
    <3>2. r.usr = k.usr /\ r.sta = "INC" /\ r.off = TRUE /\ r.pc = k.pc /\ r.uniq = k.uniq
      BY <2>0 DEF Connections
    <3> HIDE DEF r
    <3>3. Control(c, r) /\ k.sta # "LSN"
      BY <2>0, <3>1, <3>2 DEF Control
    <3> QED BY <3>1, <3>3, ControlChange DEF Listening
  <2>3. CASE Probe(c)
    <3> DEFINE r == [k EXCEPT !.ackr = k.pknr]
    <3>1. cb' = [cb EXCEPT ![c] = r] /\ UNCHANGED chqlsn /\ k.sta = "OPN"
      BY <2>3 DEF Probe
    <3>2. r.usr = k.usr /\ r.sta = k.sta /\ r.off = k.off /\ r.pc = k.pc /\ r.uniq = k.uniq
      BY <2>0 DEF Connections
    <3> HIDE DEF r
    <3> QED BY <3>1, <3>2, ControlSame
  <2> QED BY <1>1, <2>1, <2>2, <2>3
<1>2. ASSUME NEW h \in Hosts, RfcTimesOut(h) \/ CHAOSQ(h) PROVE ControlInv'
  BY <1>2 DEF RfcTimesOut, CHAOSQ, ControlInv
<1> QED BY <1>1, <1>2 DEF Clock

\* A step of CHAPII that finds an open connection.
LEMMA ControlOpen ==
  ASSUME TypeInv, ControlInv, NEW p, NEW c \in Conn, NEW r, NEW out, Becomes(p, c, r, out),
         cb[c].sta \notin {"LSN", "RFS"},
         r.usr = cb[c].usr, r.sta = cb[c].sta, r.off = cb[c].off, r.pc = cb[c].pc,
         r.uniq = cb[c].uniq
  PROVE  ControlInv'
BY ControlSame DEF Becomes

LEMMA ControlCHAPII ==
  ASSUME ConnAssumption, TypeInv, ControlInv, NEW p \in net, CHAPII(p)
  PROVE  ControlInv'
<1>0. /\ p \in GoodPackets /\ p \in PacketTypes
      /\ \A c \in Conn : cb[c] \in GoodConnections /\ cb[c] \in Connections /\ Control(c, cb[c])
  BY NetGood, PacketFields, FieldTypes DEF TypeInv, ControlInv
<1>a. ASSUME CHABRT(p) \/ CHALOS(p) \/ UNCHANGED <<cb, chqlsn>> PROVE ControlInv'
  BY <1>a DEF CHABRT, CHALOS, Answer, ControlInv
<1>1. CASE CHIRFC(p)
  <2> DEFINE h == p.dst[1]
             q == chqlsn[h]
  <2>0. h \in Hosts /\ q \in Seq(Conn) /\ chqlsn \in [Hosts -> Seq(Conn)]
    BY <1>0, <1>1, PacketFields DEF CHIRFC, TypeInv
  <2>1. ASSUME q # <<>>, cb[Head(q)].sta = "LSN",
               cb' = [cb EXCEPT ![Head(q)] = CHIRF0(cb[Head(q)], p)],
               chqlsn' = [chqlsn EXCEPT ![h] = Tail(q)]
        PROVE  ControlInv'
    <3> DEFINE c == Head(q)
               r == CHIRF0(cb[c], p)
    <3>1. c \in Conn /\ Len(q) \in Nat /\ Len(q) >= 1 /\ q[1] = c
      BY <2>0, <2>1
    <3>2. /\ Len(Tail(q)) = Len(q) - 1 /\ \A j \in 1 .. Len(q) - 1 : Tail(q)[j] = q[j + 1]
      BY <2>0, <2>1
    <3> HIDE DEF c
    <3>a. cb[c] \in Connections /\ p \in PacketTypes
      BY <1>0, <3>1
    <3>3. r.usr = cb[c].usr /\ r.sta = "RFC" /\ r.off = TRUE /\ r.pc = cb[c].pc /\ r.uniq = cb[c].uniq
      BY ZenonT(60), <3>a, CHIRF0Fields
    <3>4. cb' = [cb EXCEPT ![c] = r]
      BY <2>1 DEF c
    <3> HIDE DEF r
    <3>5. cb'[c] = r /\ \A d \in Conn : d # c => cb'[d] = cb[d]
      BY <3>1, <3>4, OneChanges DEF TypeInv
    <3>6. ASSUME NEW g \in Hosts, NEW i \in 1 .. Len(chqlsn[g])
          PROVE  /\ chqlsn[g][i] \in Conn /\ HostOf[chqlsn[g][i]] = g /\ Listening(cb[chqlsn[g][i]])
                 /\ \A j \in 1 .. Len(chqlsn[g]) : i # j => chqlsn[g][i] # chqlsn[g][j]
                 /\ chqlsn[g][i] # c => Listening(cb'[chqlsn[g][i]])
      <4>1. chqlsn[g][i] \in Conn
        BY DEF TypeInv
      <4> QED BY <3>5, <4>1 DEF ControlInv
    <3>7. Control(c, r)
      <4>1. Control(c, cb[c]) /\ cb[c].sta = "LSN"
        BY <1>0, <2>1, <3>1 DEF c
      <4>2. Listening(cb[c])
        BY <2>0, <3>1, <3>6 DEF c
      <4> QED BY <3>3, <4>1, <4>2 DEF Control, Listening
    <3>8. \A d \in Conn : Control(d, cb'[d])
      BY <1>0, <3>5, <3>7
    <3>9. ASSUME NEW g \in Hosts, NEW i \in 1 .. Len(chqlsn'[g])
          PROVE  /\ HostOf[chqlsn'[g][i]] = g /\ Listening(cb'[chqlsn'[g][i]])
                 /\ \A j \in 1 .. Len(chqlsn'[g]) : i # j => chqlsn'[g][i] # chqlsn'[g][j]
      <4>0. HostOf[c] = h
        BY <2>0, <3>1, <3>6 DEF c
      <4>1. CASE g # h
        <5>1. chqlsn'[g] = chqlsn[g]
          BY <2>0, <2>1, <4>1
        <5>2. i \in 1 .. Len(chqlsn[g])
          BY <5>1
        <5>3. chqlsn[g][i] # c
          BY <3>6, <4>0, <4>1, <5>2
        <5> QED BY <3>6, <5>1, <5>2, <5>3
      <4>2. CASE g = h
        <5>1. chqlsn'[g] = Tail(q)
          BY <2>0, <2>1, <4>2
        <5>2. \A j \in 1 .. Len(q) - 1 : j + 1 \in 1 .. Len(q) /\ j + 1 # 1 /\ Tail(q)[j] = q[j + 1]
          BY <3>1, <3>2
        <5>3. \A j, l \in 1 .. Len(q) - 1 : j # l => j + 1 # l + 1
          BY <3>1
        <5>4. 1 \in 1 .. Len(q)
          BY <3>1
        <5>5. \A j, l \in 1 .. Len(q) : j # l => q[j] # q[l]
          BY <2>0, <3>6
        <5>6. i \in 1 .. Len(q) - 1
          BY <3>2, <5>1
        <5>7. q[i + 1] # c
          BY <3>1, <5>2, <5>4, <5>5, <5>6
        <5>8. HostOf[q[i + 1]] = h /\ Listening(cb'[q[i + 1]])
          BY <2>0, <3>6, <5>2, <5>6, <5>7
        <5>9. ASSUME NEW j \in 1 .. Len(q) - 1, i # j PROVE Tail(q)[i] # Tail(q)[j]
          BY <5>2, <5>3, <5>5, <5>6, <5>9
        <5> QED BY <3>2, <4>2, <5>1, <5>2, <5>6, <5>8, <5>9
      <4> QED BY <4>1, <4>2
    <3> QED BY <3>8, <3>9 DEF ControlInv
  <2> QED BY <1>1, <1>a, <2>1 DEF CHIRFC, Answer
<1>2. CASE CHIOPN(p)
  <2>2. ASSUME NEW c \in Conn, cb[c].sta = "RFS", CHFNDX(p, c), NEW mem \in BOOLEAN, NEW out,
               Becomes(p, c, CHINT(CHASTO(c, CHIST1([cb[c] EXCEPT !.pknr = p.pn, !.frn = p.src], p), mem).k, "OPN"), out)
        PROVE  ControlInv'
    <3> DEFINE m == [cb[c] EXCEPT !.pknr = p.pn, !.frn = p.src]
               k == CHIST1(m, p)
               a == CHASTO(c, k, mem).k
               r == CHINT(a, "OPN")
    <3>1. p.pn \in PktNumber /\ p.src \in Nat \X Nat /\ p.op \in {"STS", "OPN"}
      BY <1>0, <1>2, PacketFields DEF Address, CHIOPN
    <3>2. cb[c] \in Connections /\ cb[c].obf \in Seq(GoodPackets) /\ cb[c] \in GoodConnections
      BY <1>0, FieldTypes
    <3>3. /\ m \in Connections /\ m.obf = cb[c].obf /\ m.nos = cb[c].nos /\ m.winx = cb[c].winx
          /\ m.pc = cb[c].pc /\ m.usr = cb[c].usr /\ m.uniq = cb[c].uniq
      BY ZenonT(60), <3>1, <3>2 DEF Connections
    <3>4. Becomes(p, c, r, out)
      BY <2>2
    <3> HIDE DEF m
    <3>5. m \in GoodConnections
      BY <3>2, <3>3, SameWindowGood
    <3>6. k.pc = m.pc /\ k.usr = m.usr /\ k.uniq = m.uniq
      BY <1>0, <3>3, CHIST1Fields
    <3>7. k \in GoodConnections
      BY <1>0, <3>1, <3>5, CHIST1Good
    <3> HIDE DEF k
    <3>8. k \in Connections /\ a \in GoodConnections
      BY <3>7, CHASTOGood, FieldTypes
    <3>9. a.pc = k.pc /\ a.usr = k.usr /\ a.uniq = k.uniq
      BY <3>8, CHASTOFields
    <3>10. a \in Connections
      BY <3>8, FieldTypes
    <3> HIDE DEF a
    <3>11. r.pc = a.pc /\ r.usr = a.usr /\ r.uniq = a.uniq /\ r.sta = "OPN" /\ r.off = FALSE
      BY <3>10 DEF CHINT, Connections
    <3> HIDE DEF r
    <3>12. Control(c, r)
      BY <1>0, <2>2, <3>3, <3>6, <3>9, <3>11 DEF Control
    <3>13. cb' = [cb EXCEPT ![c] = r] /\ UNCHANGED chqlsn
      BY <3>4 DEF Becomes
    <3> QED BY <2>2, <3>12, <3>13, ControlChange DEF Listening
  <2> QED BY <1>2, <1>a, <2>2 DEF CHIOPN, Mem
<1>3. ASSUME NEW c \in Conn, NEW state \in {"CLS", "LOS"}, CHFNDX(p, c), Becomes(p, c, CHICL2(cb[c], p, state), {})
      PROVE  ControlInv'
  <2>a. PICK k \in Connections : k = cb[c]
    BY <1>0
  <2>b. p \in PacketTypes
    BY <1>0
  <2>c. PICK r : r = CHICL2(k, p, state)
    OBVIOUS
  <2>1. cb' = [cb EXCEPT ![c] = r] /\ UNCHANGED chqlsn /\ ~cb[c].off
    BY <1>3, <2>a, <2>c DEF Becomes, CHFNDX, Hears
  <2>2. r.usr = k.usr /\ r.sta = state /\ r.off = TRUE /\ r.pc = k.pc /\ r.uniq = k.uniq
    <3>1. CASE state = "CLS"
      BY ZenonT(60), <2>b, <2>c, <3>1, CHICL2Control
    <3>2. CASE state = "LOS"
      BY ZenonT(60), <2>b, <2>c, <3>2, CHICL2Control
    <3> QED BY <1>3, <3>1, <3>2
  <2>3. Control(c, r) /\ cb[c].sta # "LSN"
    BY <1>0, <2>1, <2>2, <2>a DEF Control
  <2> QED BY <2>1, <2>3, ControlChange DEF Listening
<1>4. CASE CHICLS(p) \/ CHILOS(p)
  BY <1>4, <1>a, <1>3 DEF CHICLS, CHILOS
<1>5. CASE CHISNS(p)
  <2>1. ASSUME NEW c \in Conn, cb[c].sta = "OPN", NEW mem \in BOOLEAN,
               Becomes(p, c, CHASTO(c, cb[c], mem).k, CHASTO(c, cb[c], mem).out)
        PROVE  ControlInv'
    <3> DEFINE r == CHASTO(c, cb[c], mem).k
    <3>1. r.usr = cb[c].usr /\ r.sta = cb[c].sta /\ r.off = cb[c].off /\ r.pc = cb[c].pc /\ r.uniq = cb[c].uniq
      BY <1>0, CHASTOFields
    <3> QED BY <2>1, <3>1, ControlOpen
  <2> QED BY <1>5, <1>a, <2>1 DEF CHISNS, Mem
<1>6. CASE CHISTS(p)
  <2>1. ASSUME NEW c \in Conn, cb[c].sta = "OPN", NEW out, Becomes(p, c, CHIST1(cb[c], p), out)
        PROVE  ControlInv'
    <3> DEFINE r == CHIST1(cb[c], p)
    <3>1. r.usr = cb[c].usr /\ r.sta = cb[c].sta /\ r.off = cb[c].off /\ r.pc = cb[c].pc /\ r.uniq = cb[c].uniq
      BY <1>0, CHIST1Fields
    <3> QED BY <2>1, <3>1, ControlOpen
  <2> QED BY <1>6, <1>a, <2>1 DEF CHISTS
<1>7. CASE CHIDAT(p)
  <2>1. ASSUME NEW c \in Conn, cb[c].sta = "OPN", NEW k, k = CHIAK0(cb[c], p.ack, p.ack), NEW r, NEW out,
               Becomes(p, c, r, out),
               \/ r = k \/ r = CHIDT1(k, p) \/ r = OutOfOrder(k, p)
               \/ \E mem \in BOOLEAN : r = CHASTO(c, k, mem).k
        PROVE  ControlInv'
    <3>1. k \in Connections
      <4>1. cb[c].obf \in Seq(GoodPackets) /\ p.ack \in PktNumber
        BY <1>0, FieldTypes, PacketFields
      <4>2. /\ cb[c].pc \in {"number", "queue"} => cb[c].winx >= 1
            /\ cb[c].winx = 0 \/ cb[c].winx \in Given
        BY <1>0, FieldTypes DEF NosOK
      <4> QED BY <1>0, <2>1, <4>1, <4>2, CHIAK0Good, FieldTypes
    <3>2. k.usr = cb[c].usr /\ k.sta = cb[c].sta /\ k.off = cb[c].off /\ k.pc = cb[c].pc /\ k.uniq = cb[c].uniq
      BY <1>0, <2>1, CHIAK0Fields
    <3>3. r.usr = k.usr /\ r.sta = k.sta /\ r.off = k.off /\ r.pc = k.pc /\ r.uniq = k.uniq
      BY <1>0, <2>1, <3>1, CHIDT1Fields, OutOfOrderFields, CHASTOFields
    <3> QED BY <2>1, <3>2, <3>3, ControlOpen
  <2> QED BY <1>7, <1>a, <2>1 DEF CHIDAT, Mem
<1>8. CASE CHIUNC(p)
  <2>2. ASSUME NEW c \in Conn, cb[c].sta = "OPN", NEW r, r = cb[c] \/ r = [cb[c] EXCEPT !.ibf = Append(@, p)],
               Becomes(p, c, r, {})
        PROVE  ControlInv'
    <3>1. r.usr = cb[c].usr /\ r.sta = cb[c].sta /\ r.off = cb[c].off /\ r.pc = cb[c].pc /\ r.uniq = cb[c].uniq
      BY SMTT(30), <1>0, <2>2 DEF Connections
    <3> QED BY <2>2, <3>1, ControlOpen
  <2>3. ASSUME NEW c \in Conn, p.dst = Lcl(c) PROVE p.dst[1] = c
    BY <2>3 DEF Lcl
  <2> QED BY <1>8, <1>a, <2>2, <2>3 DEF CHIUNC
<1> QED BY <1>1, <1>2, <1>4, <1>5, <1>6, <1>7, <1>8 DEF CHAPII

LEMMA ControlNext == ASSUME ConnAssumption, TypeInv, ControlInv, [Next]_vars PROVE ControlInv'
<1>1. ASSUME NEW c \in Conn, Call(c) PROVE ControlInv'
  BY <1>1, ControlCall
<1>2. ASSUME NEW c \in Conn, CHPKI(c) PROVE ControlInv'
  BY <1>2, ControlCHPKI
<1>3. ASSUME NEW c \in Conn, Continue(c) PROVE ControlInv'
  BY <1>3, ControlContinue
<1>4. CASE Clock
  BY <1>4, ControlClock
<1>5. ASSUME NEW p \in net, CHAPII(p) PROVE ControlInv'
  BY <1>5, ControlCHAPII
<1>6. ASSUME NEW p \in net, Lose(p) PROVE ControlInv'
  BY <1>6 DEF Lose, ControlInv
<1>7. CASE UNCHANGED vars
  BY <1>7 DEF ControlInv, vars
<1> QED BY <1>1, <1>2, <1>3, <1>4, <1>5, <1>6, <1>7 DEF Next

LEMMA ControlAlways == ASSUME ConnAssumption PROVE Spec => [](TypeInv /\ ControlInv)
<1>1. Init => TypeInv /\ ControlInv
  BY TypeInit, ControlInit
<1>2. (TypeInv /\ ControlInv) /\ [Next]_vars => (TypeInv /\ ControlInv)'
  BY TypeNext, ControlNext
<1> QED BY <1>1, <1>2, PTL DEF Spec

(* Whatever interrupts and closing jobs do, what is on the listening queue is listening for *)
(* a user, and is there once: CHIRFC never stops the system (CHOLSN, CHIRFC, CHACS4).        *)
THEOREM ListenersAlways == Spec => []ListenersListen
<1>1. TypeInv /\ ControlInv => ListenersListen
  BY DEF ControlInv, Listening, ListenersListen
<1> QED BY <1>1, ConnAssumption, ControlAlways, PTL

-----------------------------------------------------------------------------
(***************************************************************************)
(* The sixteen-bit arithmetic of PktNum agrees with that of the natural    *)
(* numbers it counts, as long as the numbers compared are less than half   *)
(* of the range apart.                                                     *)
(***************************************************************************)


\* A packet number has sixteen bits.
LEMMA ModRange ==
  ASSUME NEW n \in Int
  PROVE  n % 65536 \in Int /\ 0 <= n % 65536 /\ n % 65536 < 65536
BY SMT

\* A small step forward wraps at most once.
LEMMA ModAdd ==
  ASSUME NEW n \in Int, NEW k \in Int, 0 <= k, k < 65536
  PROVE  (n + k) % 65536 = IF (n % 65536) + k < 65536 THEN (n % 65536) + k
                                                      ELSE (n % 65536) + k - 65536
BY SMT

\* The sixteen-bit difference of two packet numbers is that of what they count.
LEMMA ModMinus ==
  ASSUME NEW m \in Int, NEW n \in Int
  PROVE  ((m % 65536) - (n % 65536)) % 65536 = (m - n) % 65536
BY SMT

\* Counting starts at packet number 0.
LEMMA ModZero == 0 % 65536 = 0
BY SMT

(* Bit 15 of a small difference is its sign. *)
LEMMA SignBit ==
  ASSUME NEW d \in Int, -32768 <= d, d < 32768
  PROVE  d % 65536 >= 32768 <=> d < 0
<1>1. CASE d >= 0
  <2>1. (0 % 65536) + d = d /\ 0 + d = d
    BY ModZero
  <2>2. d % 65536 = d
    BY <1>1, <2>1, ModAdd
  <2> QED
    BY <2>2, <1>1
<1>2. CASE d < 0
  <2>1. 0 <= 0 - d /\ 0 - d < 65536 /\ d + (0 - d) = 0
    BY <1>2
  <2>2. 0 % 65536 = IF (d % 65536) + (0 - d) < 65536 THEN (d % 65536) + (0 - d)
                                                     ELSE (d % 65536) + (0 - d) - 65536
    BY <2>1, ModAdd
  <2>3. d % 65536 = d + 65536
    BY <1>2, <2>2, ModZero, ModRange
  <2> QED
    BY <2>3, <1>2
<1> QED
  BY <1>1, <1>2

(* The number after that of packet n is that of packet n + 1 (CHODT1, CHOOP1, CHIDT6). *)
THEOREM SuccCounts ==
  ASSUME NEW n \in Nat
  PROVE  Succ(n % Mod) = (n + 1) % Mod
BY ModRange, ModAdd DEF Succ, Mod

(* Packet m is before packet n if its number is, when they are less than half of the range *)
(* apart: what keeps the lists sorted and picks the later of two acknowledgements.          *)
THEOREM BeforeAgrees ==
  ASSUME NEW m \in Nat, NEW n \in Nat, -Half <= m - n, m - n < Half
  PROVE  Before(m % Mod, n % Mod) <=> m < n
<1>1. -32768 <= m - n /\ m - n < 32768
  BY DEF Half
<1>2. Before(m % Mod, n % Mod) <=> (m - n) % 65536 >= 32768
  BY ModMinus DEF Before, Minus, Mod, Half
<1> QED
  BY <1>1, <1>2, SignBit

(* Of k packets after the last one acknowledged k are in use (CHIAK2). *)
THEOREM InUseCounts ==
  ASSUME NEW ack \in Nat, NEW k \in Nat, k < Mod
  PROVE  InUse(ack % Mod, (ack + k) % Mod) = k
BY ModRange, ModAdd DEF InUse, Mod

(* Of k packets read since the last acknowledgement k await one (CHPKIA). *)
THEOREM UnackedCounts ==
  ASSUME NEW ack \in Nat, NEW k \in Nat, k < Mod
  PROVE  Unacked((ack + k) % Mod, ack % Mod) = k
BY ModRange, ModAdd DEF Unacked, Mod

(* The packet d after the last one read is over the window if d is greater (CHIDAT). *)
THEOREM OverWindowAgrees ==
  ASSUME NEW win \in Nat, win <= 64, NEW last \in Nat, NEW d \in Nat, d < Half
  PROVE  OverWindow(win, last % Mod, (last + d) % Mod) <=> d > win
<1> DEFINE l == last % 65536
           p == (last + d) % 65536
<1>1. l \in Int /\ p \in Int /\ 0 <= l /\ l < 65536 /\ 0 <= p /\ p < 65536
  BY ModRange
<1>2. p = IF l + d < 65536 THEN l + d ELSE l + d - 65536
  BY ModAdd DEF Half
<1>3. (win + l - p) % 65536 >= 32768 <=> win - d < 0
  <2>1. -32768 <= win - d /\ win - d < 32768
    BY DEF Half
  <2>2. CASE l + d < 65536
    <3>1. win + l - p = win - d
      BY <1>1, <1>2, <2>2 DEF Half
    <3> QED
      BY <3>1, <2>1, SignBit
  <2>3. CASE l + d >= 65536
    <3>1. win + l - p = (win - d) + 65536
      BY <1>1, <1>2, <2>3 DEF Half
    <3>2. ((win - d) + 65536) % 65536 = (win - d) % 65536
      BY <2>1
    <3> QED
      BY <3>1, <3>2, <2>1, SignBit
  <2> QED
    BY <1>1, <2>2, <2>3 DEF Half
<1> QED
  BY <1>3 DEF OverWindow, Minus, Mod, Half
=============================================================================
