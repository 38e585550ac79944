-------------------------- MODULE ChaosNames_proofs --------------------------
(***************************************************************************)
(* More proofs about Chaos: what a step does to the one connection that    *)
(* moves and what it sends (StepMoves), and, from that, who knows of whom: *)
(* the lives of indices, the names packets carry, and the agreement of the *)
(* two ends of a call.                                                     *)
(***************************************************************************)
EXTENDS Chaos_proofs

-----------------------------------------------------------------------------
(* What a step does to one connection, and what it sends. *)

\* The packets that carry the name of a connection to the other end.
Named == {"RFC", "OPN", "STS", "DAT", "EOF"}

Kept(s) == {s[i] : i \in 1 .. Len(s)}

\* All the packets that have been sent and may yet be received.
Traffic ==
  net \cup (UNION {Kept(cb[c].obf) : c \in Conn}) \cup (UNION {Kept(chqrfc[h]) : h \in Hosts})

\* A connection that has not heard of an index of the other end.
Near(k) ==
  /\ k.sta \notin {"RFC", "OPN"} /\ k.pc \notin {"window", "number", "queue"} /\ ~k.sts
  /\ \A i \in 1 .. Len(k.ibf) : k.ibf[i].op \notin {"RFC", "DAT", "EOF"}

\* A packet that connection c sends as it goes from k to r.
Fresh(c, k, r, q) ==
  /\ q.src = <<c, r.uniq>> /\ q.dst = r.frn /\ q.ack = r.pknr
  /\ q.op = "RFC" => q.pn = 1 /\ r.sta = "RFS" /\ r.uniq = k.uniq + 1
  /\ q.op \in Named \ {"RFC"} =>
       r.uniq = k.uniq /\ r.sta \notin {"LSN", "RFS"} /\ (~Near(k) \/ ~Near(r))
  /\ q.op = "OPN" => k.sta = "RFC" /\ q.pn = r.pknx
  /\ q.op = "STS" => q.pn = 0
  /\ q.op \in {"DAT", "EOF"} => k.pc = "queue" /\ q.pn = r.pknx
  /\ q.op \in {"OPN", "STS"} => q.rcp \in {DPBRCP(k), DPBRCP(r)}

\* The same life of an index, with the same other end.
Fixed(k, r) == r.uniq = k.uniq /\ r.frn = k.frn

\* Initialized, perhaps to call or to listen.
Starts(k, r) ==
  /\ r.uniq = k.uniq + 1 /\ r.frn[2] = 0 /\ r.sta \in {"CLS", "LSN", "RFS"}
  /\ r.ibf = <<>> /\ r.pbf = <<>> /\ ~r.sts /\ r.pc \in {"user", "listen"}

\* Hooked up to a RFC.
Hooks(c, k, r, p) ==
  /\ p.op = "RFC" /\ c \in Listeners /\ r.sta = "RFC"
  /\ r.frn = p.src /\ r.pknr = p.pn /\ r.ibf = <<p>> /\ r.pbf = <<>>
  /\ \/ k.sta = "LSN" /\ r.uniq = k.uniq
     \/ r.uniq = k.uniq + 1

\* Opened by the other end.
Opens(c, k, r, p) ==
  /\ p.op = "OPN" /\ p.dst = Lcl(c) /\ k.sta = "RFS" /\ r.sta = "OPN"
  /\ r.uniq = k.uniq /\ r.frn = p.src /\ r.pknr = p.pn
  /\ r.ibf = <<>> /\ r.pbf = k.pbf

\* Closed by the other end.
Shuts(k, r, p) ==
  /\ p.op \in {"CLS", "ANS", "LOS"} /\ Fixed(k, r) /\ r.sta \in {"CLS", "LOS"}
  /\ r.pc = k.pc /\ r.sts = k.sts /\ r.pknr = k.pknr
  /\ r.ibf = Append(k.ibf, p) /\ r.pbf = <<>>

\* Flushed.
Drops(k, r) ==
  /\ Fixed(k, r) /\ r.sta = k.sta /\ r.pc = "close" /\ r.sts = k.sts
  /\ r.pknr = k.pknr /\ r.ibf = <<>> /\ r.pbf = <<>>

\* Read by its user.
Data == {"DAT", "EOF"}

Reads(k, r) ==
  /\ Fixed(k, r) /\ k.ibf # <<>> /\ r.sta = k.sta /\ r.pc = k.pc
  /\ r.sts => k.sts \/ Head(k.ibf).op \in Data
  /\ r.pknr = (IF Head(k.ibf).op \in Data THEN Head(k.ibf).pn ELSE k.pknr)
  /\ r.ibf = Tail(k.ibf) /\ r.pbf = k.pbf

\* A packet in order brings the next n early ones with it.
Follows(k, p, n) ==
  /\ \A i \in 1 .. n : k.pbf[i].pn = (p.pn + i) % Mod
  /\ n = Len(k.pbf) \/ k.pbf[n + 1].pn # (p.pn + (n + 1)) % Mod

\* Given a packet from the other end, in order, early, or unnumbered.
Gets(c, k, r, p) ==
  /\ Fixed(k, r) /\ k.sta = "OPN" /\ r.sta = "OPN" /\ p.src = k.frn
  /\ r.pc = k.pc /\ r.pknr = k.pknr
  /\ \/ /\ p.op \in Data /\ ~OverWindow(Window[c], k.pknr, p.pn) /\ p.pn = NextInOrder(k)
        /\ \E n \in 0 .. Len(k.pbf) :
             /\ Follows(k, p, n)
             /\ r.ibf = Append(k.ibf, p) \o SubSeq(k.pbf, 1, n)
             /\ r.pbf = SubSeq(k.pbf, n + 1, Len(k.pbf))
     \/ /\ p.op \in Data /\ ~OverWindow(Window[c], k.pknr, p.pn) /\ p.pn # NextInOrder(k)
        /\ Before(NextInOrder(k), p.pn) /\ \A i \in 1 .. Len(k.pbf) : k.pbf[i].pn # p.pn
        /\ r.ibf = k.ibf /\ r.pbf = OutOfOrder(k, p).pbf
     \/ p.op = "UNC" /\ r.ibf = Append(k.ibf, p) /\ r.pbf = k.pbf

\* Anything else.
Goes(k, r) ==
  /\ Fixed(k, r) /\ r.pknr = k.pknr /\ r.ibf = k.ibf /\ r.pbf = k.pbf
  /\ r.sta \in {"LSN", "RFS", "RFC"} => r.sta = k.sta
  /\ r.sta = "OPN" => k.sta \in {"RFC", "OPN"} \/ k.pc = "number"
  /\ r.pc \in {"window", "number", "queue"} =>
       k.sta = "OPN" \/ k.pc \in {"window", "number", "queue"}
  /\ r.sts => k.sts \/ k.sta = "OPN"

Effect(c, k, r) ==
  \/ Starts(k, r) \/ Drops(k, r) \/ Reads(k, r) \/ Goes(k, r)
  \/ \E p \in Traffic : Hooks(c, k, r, p) \/ Opens(c, k, r, p) \/ Shuts(k, r, p) \/ Gets(c, k, r, p)

Pending == \A h \in Hosts : \A q \in Kept(chqrfc[h]) : q.op = "RFC"

Moves(c) ==
  /\ Pending'
  /\ \A d \in Conn : d # c => cb'[d] = cb[d]
  /\ Effect(c, cb[c], cb'[c])
  /\ \A q \in Traffic' : q.op \in Named => q \in Traffic \/ Fresh(c, cb[c], cb'[c], q)

Rests == Pending' /\ cb' = cb /\ \A q \in Traffic' : q.op \in Named => q \in Traffic

LEMMA KeptTraffic ==
  /\ \A p \in net : p \in Traffic
  /\ \A c \in Conn : Kept(cb[c].obf) \subseteq Traffic
  /\ \A h \in Hosts : Kept(chqrfc[h]) \subseteq Traffic
BY DEF Traffic

LEMMA TrafficFrom ==
  ASSUME NEW q \in Traffic'
  PROVE  \/ q \in net'
         \/ \E c \in Conn : q \in Kept(cb'[c].obf)
         \/ \E h \in Hosts : q \in Kept(chqrfc'[h])
BY DEF Traffic, Kept

\* The pending RFCs were pending, or come from the network.
QueuesKept == \A h \in Hosts : \A q \in Kept(chqrfc'[h]) : q \in Traffic /\ q.op = "RFC"

\* One connection changes and sends the packets of out.
LEMMA MovesBy ==
  ASSUME TypeInv, NEW c \in Conn, NEW r, cb' = [cb EXCEPT ![c] = r], Effect(c, cb[c], r),
         NEW out, net' \subseteq net \cup out, QueuesKept,
         \A q \in out : q.op \in Named => q \in Traffic \/ Fresh(c, cb[c], r, q),
         \A q \in Kept(r.obf) : q \in Traffic \/ Fresh(c, cb[c], r, q)
  PROVE  Moves(c)
<1>1. cb'[c] = r /\ \A d \in Conn : d # c => cb'[d] = cb[d]
  BY OneChanges DEF TypeInv
<1>2. ASSUME NEW q \in Traffic', q.op \in Named PROVE q \in Traffic \/ Fresh(c, cb[c], r, q)
  <2>1. CASE q \in net'
    BY <1>2, <2>1, KeptTraffic
  <2>2. ASSUME NEW d \in Conn, q \in Kept(cb'[d].obf) PROVE q \in Traffic \/ Fresh(c, cb[c], r, q)
    BY <1>1, <2>2, KeptTraffic
  <2>3. ASSUME NEW h \in Hosts, q \in Kept(chqrfc'[h]) PROVE q \in Traffic
    BY <2>3 DEF QueuesKept
  <2> QED BY <2>1, <2>2, <2>3, TrafficFrom
<1>3. Pending'
  BY DEF Pending, QueuesKept, Kept
<1> QED BY <1>1, <1>2, <1>3 DEF Moves

LEMMA RestsBy ==
  ASSUME UNCHANGED cb, NEW out, net' \subseteq net \cup out, QueuesKept,
         \A q \in out : q.op \notin Named
  PROVE  Rests
<1>1. ASSUME NEW q \in Traffic', q.op \in Named PROVE q \in Traffic
  <2>1. CASE q \in net'
    BY <1>1, <2>1, KeptTraffic
  <2>2. ASSUME NEW d \in Conn, q \in Kept(cb'[d].obf) PROVE q \in Traffic
    BY <2>2, KeptTraffic
  <2>3. ASSUME NEW h \in Hosts, q \in Kept(chqrfc'[h]) PROVE q \in Traffic
    BY <2>3 DEF QueuesKept
  <2> QED BY <2>1, <2>2, <2>3, TrafficFrom
<1>2. Pending'
  BY DEF Pending, QueuesKept, Kept
<1> QED BY <1>1, <1>2 DEF Rests

LEMMA QueuesSame == Pending /\ UNCHANGED chqrfc => QueuesKept
BY KeptTraffic DEF QueuesKept, Pending

LEMMA SentSome == \A n, out : Sent(n, out) \subseteq n \cup out
BY DEF Sent

LEMMA RestSome == \A p : \A rest \in Rest(p) : rest \subseteq net
BY DEF Rest

LEMMA KeptAppend ==
  ASSUME NEW S, NEW s \in Seq(S), NEW p
  PROVE  \A q \in Kept(Append(s, p)) : q \in Kept(s) \/ q = p
<1> DEFINE t == Append(s, p)
<1>1. Len(t) = Len(s) + 1 /\ Len(s) \in Nat /\ t[Len(s) + 1] = p
  OBVIOUS
<1>2. \A i \in 1 .. Len(s) : t[i] = s[i]
  OBVIOUS
<1> HIDE DEF t
<1>3. \A i \in 1 .. Len(t) : i \in 1 .. Len(s) \/ i = Len(s) + 1
  BY <1>1
<1> QED BY <1>1, <1>2, <1>3 DEF Kept

LEMMA KeptOne == \A p : \A q \in Kept(<<p>>) : q = p
BY DEF Kept

LEMMA KeptNone == Kept(<<>>) = {}
BY DEF Kept

LEMMA KeptRest ==
  ASSUME NEW S, NEW s \in Seq(S), NEW m \in 1 .. Len(s)
  PROVE  Kept(SubSeq(s, m, Len(s))) \subseteq Kept(s)
<1> DEFINE t == SubSeq(s, m, Len(s))
<1>1. Len(t) = Len(s) - m + 1 /\ \A i \in 1 .. Len(s) - m + 1 : t[i] = s[m + i - 1]
  BY SubSeqProperties
<1>2. \A i \in 1 .. Len(s) - m + 1 : m + i - 1 \in 1 .. Len(s)
  OBVIOUS
<1> HIDE DEF t
<1> QED BY <1>1, <1>2 DEF Kept

LEMMA KeptTail ==
  ASSUME NEW S, NEW s \in Seq(S), s # <<>>
  PROVE  Head(s) \in Kept(s) /\ Kept(Tail(s)) \subseteq Kept(s)
<1>1. Len(Tail(s)) = Len(s) - 1 /\ \A i \in 1 .. Len(s) - 1 : Tail(s)[i] = s[i + 1]
  OBVIOUS
<1>2. Head(s) = s[1] /\ 1 \in 1 .. Len(s)
  OBVIOUS
<1> QED BY <1>1, <1>2 DEF Kept

LEMMA CHIAK0Kept ==
  ASSUME NEW k \in Connections, k.obf \in Seq(GoodPackets), NEW rcp, NEW ack
  PROVE  Kept(CHIAK0(k, rcp, ack).obf) \subseteq Kept(k.obf)
<1> DEFINE first == SelectInSeq(k.obf, LAMBDA p : Before(rcp, p.pn))
           obf == IF first = 0 THEN <<>> ELSE SubSeq(k.obf, first, Len(k.obf))
           ackx == IF Before(k.ackx, ack) THEN ack ELSE k.ackx
           nos == FreeWindow(k.winx, ackx, k.pknx)
<1>0. k \in Connections /\ k.obf \in Seq(GoodPackets)
  OBVIOUS
<1>1. CHIAK0(k, rcp, ack) = [k EXCEPT !.obf = obf, !.ackx = ackx, !.nos = nos]
  BY DEF CHIAK0
<1>2. first \in 0 .. Len(k.obf)
  <2> DEFINE I == {i \in 1 .. Len(k.obf) : Before(rcp, k.obf[i].pn)}
  <2>1. first = IF I # {} THEN Min(I) ELSE 0
    BY DEF SelectInSeq
  <2>2. Len(k.obf) \in Nat
    BY <1>0
  <2>3. I # {} => Min(I) \in I
    BY <2>2, MinPlace
  <2> QED BY <2>1, <2>2, <2>3
<1> HIDE DEF first
<1>3. Kept(obf) \subseteq Kept(k.obf)
  <2>1. CASE first = 0
    BY <2>1, KeptNone
  <2>2. CASE first # 0
    BY <1>0, <1>2, <2>2, KeptRest
  <2> QED BY <2>1, <2>2
<1> HIDE DEF obf, ackx, nos
<1>4. CHIAK0(k, rcp, ack).obf = obf
  BY <1>0, <1>1 DEF Connections
<1> QED BY <1>3, <1>4

LEMMA OutgoingFields ==
  ASSUME NEW c, NEW k, NEW op, NEW pn
  PROVE  LET p == Outgoing(c, k, op, pn)
         IN p.op = op /\ p.src = <<c, k.uniq>> /\ p.dst = k.frn /\ p.pn = pn /\ p.ack = k.pknr
BY DEF Outgoing, Packet

LEMMA ReceiptFields ==
  ASSUME NEW c, NEW k, NEW op, NEW pn
  PROVE  LET p == WithReceipt(c, k, Outgoing(c, k, op, pn))
         IN /\ p.op = op /\ p.src = <<c, k.uniq>> /\ p.dst = k.frn /\ p.pn = pn
            /\ p.ack = k.pknr /\ p.rcp = DPBRCP(k)
BY DEF WithReceipt, Outgoing, Packet

LEMMA CHASTOSends ==
  ASSUME NEW c, NEW k, NEW mem
  PROVE  \A p \in CHASTO(c, k, mem).out :
           /\ p.op = "STS" /\ p.src = <<c, k.uniq>> /\ p.dst = k.frn /\ p.pn = 0
           /\ p.ack = k.pknr /\ p.rcp = DPBRCP(k)
<1> TAKE p \in CHASTO(c, k, mem).out
<1>1. p = WithReceipt(c, k, Outgoing(c, k, "STS", 0))
  BY DEF CHASTO
<1> QED BY <1>1, ReceiptFields

\* Nothing is sent, and what was kept is still kept.
LEMMA MovesQuietly ==
  ASSUME TypeInv, Pending, NEW c \in Conn, NEW r, cb' = [cb EXCEPT ![c] = r], Effect(c, cb[c], r),
         net' = net, UNCHANGED chqrfc, Kept(r.obf) \subseteq Kept(cb[c].obf)
  PROVE  Moves(c)
<1>1. net' \subseteq net \cup {} /\ QueuesKept
  BY QueuesSame
<1>2. \A q \in Kept(r.obf) : q \in Traffic
  BY KeptTraffic
<1> QED BY <1>1, <1>2, MovesBy

\* One packet is sent, and perhaps kept.
LEMMA MovesSending ==
  ASSUME TypeInv, Pending, NEW c \in Conn, NEW r, cb' = [cb EXCEPT ![c] = r], Effect(c, cb[c], r),
         NEW p, net' = Sent(net, {p}), UNCHANGED chqrfc,
         p.op \in Named => Fresh(c, cb[c], r, p),
         \A q \in Kept(r.obf) : q \in Kept(cb[c].obf) \/ (q = p /\ Fresh(c, cb[c], r, p))
  PROVE  Moves(c)
<1>1. net' \subseteq net \cup {p} /\ QueuesKept
  BY QueuesSame, SentSome
<1>2. \A q \in Kept(r.obf) : q \in Traffic \/ Fresh(c, cb[c], r, q)
  BY KeptTraffic
<1>3. \A q \in {p} : q.op \in Named => q \in Traffic \/ Fresh(c, cb[c], r, q)
  OBVIOUS
<1> QED BY <1>1, <1>2, <1>3, MovesBy

LEMMA CallMoves ==
  ASSUME ConnAssumption, TypeInv, ControlInv, Pending, NEW c \in Conn, Call(c)
  PROVE  Rests \/ Moves(c)
<1> DEFINE k == cb[c]
           h == HostOf[c]
<1>0. /\ k \in GoodConnections /\ k \in Connections /\ h \in Hosts /\ k.uniq \in Nat /\ Control(c, k)
      /\ k.obf \in Seq(GoodPackets)
  BY FieldTypes DEF TypeInv, Hosts, ControlInv
<1>1. CASE CHAOSO(c)
  <2> DEFINE r == [Closed(k.uniq + 1) EXCEPT !.usr = TRUE]
  <2>1. cb' = [cb EXCEPT ![c] = r] /\ UNCHANGED <<chqrfc, net>>
    BY <1>1 DEF CHAOSO
  <2>2. Starts(k, r) /\ r.obf = <<>>
    BY DEF Starts, Closed
  <2> HIDE DEF r
  <2>3. Effect(c, k, r)
    BY <2>2 DEF Effect
  <2> QED BY <2>1, <2>2, <2>3, KeptNone, MovesQuietly
<1>2. CASE CHOLSN(c)
  <2> DEFINE f == CHORF1(k)
             r == [f EXCEPT !.sta = "LSN"]
             l == [r EXCEPT !.pc = "listen"]
             pending == chqrfc[h]
  <2>1. f \in Connections
    BY <1>0, CHORF1Good, FieldTypes
  <2>2. /\ f.sts = FALSE /\ f.ibf = <<>> /\ f.pbf = <<>> /\ f.obf = <<>> /\ f.frn = <<0, 0>>
        /\ f.uniq = k.uniq + 1 /\ f.pc = "user"
    BY <1>0, CHORF1Fields
  <2> HIDE DEF f
  <2>3. /\ r \in Connections /\ r.sta = "LSN" /\ r.sts = FALSE /\ r.ibf = <<>> /\ r.pbf = <<>>
        /\ r.obf = <<>> /\ r.frn = <<0, 0>> /\ r.uniq = k.uniq + 1 /\ r.pc = "user"
    BY ZenonT(60), <2>1, <2>2 DEF Connections
  <2>4. c \in Listeners /\ UNCHANGED net
    BY <1>2 DEF CHOLSN
  <2>5. CASE pending = <<>>
    <3>1. cb' = [cb EXCEPT ![c] = l] /\ UNCHANGED chqrfc
      BY <1>2, <2>5 DEF CHOLSN, f
    <3> HIDE DEF r
    <3>2. /\ l.sta = "LSN" /\ l.sts = FALSE /\ l.ibf = <<>> /\ l.pbf = <<>> /\ l.obf = <<>>
          /\ l.frn = <<0, 0>> /\ l.uniq = k.uniq + 1 /\ l.pc = "listen"
      BY <2>3 DEF Connections
    <3> HIDE DEF l
    <3>3. Effect(c, k, l)
      BY <3>2 DEF Effect, Starts
    <3> QED BY <2>4, <3>1, <3>2, <3>3, KeptNone, MovesQuietly
  <2>6. CASE pending # <<>>
    <3> DEFINE p == Head(pending)
               m == CHIRF0(r, p)
    <3>1. cb' = [cb EXCEPT ![c] = m] /\ chqrfc' = [chqrfc EXCEPT ![h] = Tail(pending)]
      BY <1>2, <2>6 DEF CHOLSN, f
    <3> HIDE DEF r
    <3>a. pending \in Seq(GoodPackets) /\ chqrfc \in [Hosts -> Seq(GoodPackets)]
      BY <1>0 DEF TypeInv
    <3>b. p \in GoodPackets /\ p \in Kept(pending) /\ Kept(Tail(pending)) \subseteq Kept(pending)
      BY <2>6, <3>a, KeptTail
    <3>c. p \in PacketTypes /\ p \in Traffic /\ p.op = "RFC"
      BY <1>0, <3>b, PacketFields, KeptTraffic DEF Pending
    <3> HIDE DEF p
    <3>d. r \in Connections /\ p \in PacketTypes
      BY <2>3, <3>c
    <3>e. /\ m.sta = "RFC" /\ m.pknr = p.pn /\ m.ibf = Append(r.ibf, p) /\ m.pbf = <<>>
          /\ m.obf = <<>> /\ m.frn = p.src /\ m.uniq = r.uniq
      BY ZenonT(60), <3>d, CHIRF0Fields
    <3> HIDE DEF m
    <3>2. /\ m.sta = "RFC" /\ m.pknr = p.pn /\ m.ibf = Append(<<>>, p) /\ m.pbf = <<>>
          /\ m.obf = <<>> /\ m.frn = p.src /\ m.uniq = k.uniq + 1
      BY <2>3, <3>e
    <3>3. Append(<<>>, p) = <<p>>
      OBVIOUS
    <3>4. Effect(c, k, m)
      BY <2>4, <3>c, <3>2, <3>3 DEF Effect, Hooks
    <3>5. QueuesKept
      <4>1. ASSUME NEW g \in Hosts, NEW q \in Kept(chqrfc'[g]) PROVE q \in Kept(chqrfc[g])
        <5>1. CASE g = h
          BY <3>1, <3>a, <3>b, <4>1, <5>1
        <5>2. CASE g # h
          BY <3>1, <3>a, <4>1, <5>2
        <5> QED BY <5>1, <5>2
      <4> QED BY <4>1, KeptTraffic DEF QueuesKept, Pending
    <3>6. net' \subseteq net \cup {} /\ Kept(m.obf) = {}
      BY <2>4, <3>2, KeptNone
    <3> QED BY <3>1, <3>4, <3>5, <3>6, MovesBy
  <2> QED BY <2>5, <2>6
<1>3. CASE CHOOPN(c)
  <2> DEFINE n == Succ(k.pknx)
             m == [k EXCEPT !.sta = "OPN", !.off = FALSE, !.sts = FALSE,
                            !.pknx = n, !.ackr = k.pknr]
             p == WithReceipt(c, m, Outgoing(c, m, "OPN", m.pknx))
             q == Append(k.obf, p)
             r == [m EXCEPT !.obf = q]
  <2>1. /\ cb' = [cb EXCEPT ![c] = r] /\ net' = Sent(net, {p}) /\ UNCHANGED chqrfc /\ k.sta = "RFC"
    BY <1>0, <1>3 DEF CHOOPN, Connections
  <2>a. n \in PktNumber
    BY <1>0, FieldTypes, NumberTypes
  <2> HIDE DEF n
  <2>b. m \in Connections
    BY <1>0, <2>a, ZenonT(60) DEF Connections
  <2>2. /\ m.sta = "OPN" /\ m.sts = FALSE /\ m.pc = k.pc
        /\ m.pknx = n /\ Fixed(k, m) /\ m.ibf = k.ibf /\ m.pbf = k.pbf /\ m.pknr = k.pknr /\ m.obf = k.obf
    BY <1>0 DEF Connections, Fixed
  <2> HIDE DEF m
  <2>3. /\ p.op = "OPN" /\ p.src = <<c, m.uniq>> /\ p.dst = m.frn /\ p.pn = n
        /\ p.ack = m.pknr /\ p.rcp = DPBRCP(m)
    <3>1. p = WithReceipt(c, m, Outgoing(c, m, "OPN", n))
      BY <2>2
    <3> QED BY <3>1, ReceiptFields
  <2> HIDE DEF p
  <2>4. q = Append(k.obf, p)
    OBVIOUS
  <2> HIDE DEF q
  <2>5. /\ r.sta = "OPN" /\ r.sts = FALSE /\ r.pc = k.pc /\ r.pknx = n
        /\ Fixed(k, r) /\ r.ibf = k.ibf /\ r.pbf = k.pbf /\ r.pknr = k.pknr /\ r.obf = q
        /\ Fixed(m, r)
    BY <2>2, <2>b DEF Connections, Fixed
  <2> HIDE DEF r
  <2>6. DPBRCP(m) = DPBRCP(r)
    BY <2>2, <2>5 DEF DPBRCP
  <2>7. Effect(c, k, r)
    BY <2>1, <2>5 DEF Effect, Goes
  <2>8. Fresh(c, k, r, p)
    BY <2>1, <2>2, <2>3, <2>5, <2>6 DEF Fresh, Near, Fixed
  <2>9. \A x \in Kept(r.obf) : x \in Kept(k.obf) \/ x = p
    BY <1>0, <2>4, <2>5, KeptAppend
  <2> QED BY <2>1, <2>7, <2>8, <2>9, MovesSending
<1>4. ASSUME NEW op \in {"CLS", "ANS"}, NEW from, Shut(c, op, from) PROVE Moves(c)
  <2> DEFINE r == [k EXCEPT !.sta = "CLS", !.off = TRUE, !.sts = FALSE, !.ackr = k.pknr]
             p == Outgoing(c, r, op, 0)
  <2>1. cb' = [cb EXCEPT ![c] = r] /\ net' = Sent(net, {p}) /\ UNCHANGED chqrfc /\ k.pc = "user"
    BY <1>4 DEF Shut, CanIO
  <2>2. /\ r.sta = "CLS" /\ r.sts = FALSE /\ r.pc = k.pc /\ Fixed(k, r)
        /\ r.ibf = k.ibf /\ r.pbf = k.pbf /\ r.pknr = k.pknr /\ r.obf = k.obf
    BY <1>0 DEF Connections, Fixed
  <2>3. p.op = op
    BY OutgoingFields
  <2> HIDE DEF r, p
  <2>4. Effect(c, k, r)
    BY <2>1, <2>2 DEF Effect, Goes
  <2>5. /\ p.op \in Named => Fresh(c, k, r, p)
        /\ \A q \in Kept(r.obf) : q \in Kept(k.obf) \/ (q = p /\ Fresh(c, k, r, p))
    BY <2>2, <2>3 DEF Named
  <2> QED BY <2>1, <2>4, <2>5, MovesSending
<1>5. ASSUME NEW l \in Listeners, CHORFC(c, HostOf[l]) PROVE Moves(c)
  <2> DEFINE f == CHORF1(k)
             g == HostAddr(HostOf[l])
             m == [f EXCEPT !.frn = g, !.sta = "RFS", !.off = FALSE, !.pknx = 1]
             p == Outgoing(c, m, "RFC", 1)
             q == <<p>>
             r == [m EXCEPT !.obf = q]
  <2>1. f \in Connections
    BY <1>0, CHORF1Good, FieldTypes
  <2>2. /\ f.sts = FALSE /\ f.ibf = <<>> /\ f.pbf = <<>> /\ f.pknr = 0
        /\ f.uniq = k.uniq + 1 /\ f.pc = "user"
    BY <1>0, CHORF1Fields
  <2>3. cb' = [cb EXCEPT ![c] = r] /\ net' = Sent(net, {p}) /\ UNCHANGED chqrfc
    BY <1>5 DEF CHORFC
  <2>4. g[2] = 0
    BY DEF HostAddr
  <2> HIDE DEF f, g
  <2>5. m.frn = g /\ m.uniq = f.uniq /\ m.pknr = f.pknr
    BY <2>1 DEF Connections
  <2> HIDE DEF m
  <2>6. /\ p.op = "RFC" /\ p.src = <<c, f.uniq>> /\ p.dst = g /\ p.pn = 1 /\ p.ack = f.pknr
    BY <2>5, OutgoingFields
  <2> HIDE DEF p
  <2>7. \A x \in Kept(q) : x = p
    BY KeptOne
  <2> HIDE DEF q
  <2> USE DEF m
  <2>8. /\ r.sta = "RFS" /\ r.sts = FALSE /\ r.ibf = <<>> /\ r.pbf = <<>> /\ r.pknr = f.pknr
        /\ r.frn = g /\ r.uniq = f.uniq /\ r.pc = "user" /\ r.obf = q
    BY <2>1, <2>2 DEF Connections
  <2> HIDE DEF r, m
  <2>9. Effect(c, k, r)
    BY <2>2, <2>4, <2>8 DEF Effect, Starts
  <2>10. Fresh(c, k, r, p)
    BY <2>2, <2>6, <2>8 DEF Fresh, Named
  <2> QED BY <2>3, <2>7, <2>8, <2>9, <2>10, MovesSending
<1>6. ASSUME NEW op \in {"DAT", "EOF"}, CHODAT(c, op) PROVE Moves(c)
  <2> DEFINE s == IF k.nos > 0 THEN "number" ELSE "window"
             r == [k EXCEPT !.pc = s, !.op = op]
  <2>1. cb' = [cb EXCEPT ![c] = r] /\ UNCHANGED <<chqrfc, net>> /\ k.sta = "OPN"
    BY <1>6 DEF CHODAT, CanIO
  <2> HIDE DEF s
  <2>2. /\ r.sta = k.sta /\ r.sts = k.sts /\ r.pc = s /\ Fixed(k, r)
        /\ r.ibf = k.ibf /\ r.pbf = k.pbf /\ r.pknr = k.pknr /\ r.obf = k.obf
    BY <1>0 DEF Connections, Fixed
  <2> HIDE DEF r
  <2>3. Effect(c, k, r)
    BY <2>1, <2>2 DEF Effect, Goes
  <2> QED BY <2>1, <2>2, <2>3, MovesQuietly
<1>7. ASSUME NEW n \in UncNumbers, CHOUNC(c, n) PROVE Rests
  <2> DEFINE p == [Outgoing(c, k, "UNC", n) EXCEPT !.ack = 0]
  <2>1. net' = Sent(net, {p}) /\ UNCHANGED <<cb, chqrfc>>
    BY <1>7 DEF CHOUNC
  <2>2. p.op = "UNC"
    BY DEF Outgoing, Packet
  <2> HIDE DEF p
  <2>3. net' \subseteq net \cup {p} /\ QueuesKept /\ \A q \in {p} : q.op \notin Named
    BY <2>1, <2>2, QueuesSame, SentSome DEF Named
  <2> QED BY <2>1, <2>3, RestsBy
<1>8. CASE CHACS7(c)
  <2> DEFINE r == [k EXCEPT !.half = TRUE]
  <2>1. cb' = [cb EXCEPT ![c] = r] /\ UNCHANGED <<chqrfc, net>>
    BY <1>8 DEF CHACS7
  <2>2. /\ r.sta = k.sta /\ r.sts = k.sts /\ r.pc = k.pc /\ Fixed(k, r)
        /\ r.ibf = k.ibf /\ r.pbf = k.pbf /\ r.pknr = k.pknr /\ r.obf = k.obf
    BY <1>0 DEF Connections, Fixed
  <2> HIDE DEF r
  <2>3. Effect(c, k, r)
    BY <2>2 DEF Effect, Goes
  <2> QED BY <2>1, <2>2, <2>3, MovesQuietly
<1>9. CASE CHACS1(c)
  <2> DEFINE r == [k EXCEPT !.off = TRUE, !.ibf = <<>>, !.pbf = <<>>, !.obf = <<>>, !.pc = "close"]
  <2>1. cb' = [cb EXCEPT ![c] = r] /\ UNCHANGED <<chqrfc, net>>
    BY <1>9 DEF CHACS1
  <2>2. /\ r.sta = k.sta /\ r.sts = k.sts /\ r.pc = "close" /\ Fixed(k, r)
        /\ r.ibf = <<>> /\ r.pbf = <<>> /\ r.pknr = k.pknr /\ r.obf = <<>>
    BY <1>0 DEF Connections, Fixed
  <2> HIDE DEF r
  <2>3. Effect(c, k, r)
    BY <2>2 DEF Effect, Drops
  <2> QED BY <2>1, <2>2, <2>3, KeptNone, MovesQuietly
<1> QED BY <1>1, <1>2, <1>3, <1>4, <1>5, <1>6, <1>7, <1>8, <1>9 DEF Call, CHOCLS, CHOFWD

LEMMA CHPKIASends ==
  ASSUME NEW c \in Conn, NEW k \in Connections, NEW p \in PacketTypes, NEW mem \in BOOLEAN,
         k.ibf # <<>>
  PROVE  \A q \in CHPKIA(c, k, p, mem).out :
           /\ q.op = "STS" /\ q.src = <<c, k.uniq>> /\ q.dst = k.frn /\ q.pn = 0
           /\ q.ack = p.pn /\ q.rcp = DPBRCP(k)
<1> TAKE q \in CHPKIA(c, k, p, mem).out
<1> DEFINE m == [k EXCEPT !.pknr = p.pn]
<1>1. p.pn \in PktNumber
  BY DEF PacketTypes
<1>2. m \in Connections /\ m.uniq = k.uniq /\ m.frn = k.frn /\ m.pknr = p.pn /\ m.ibf = k.ibf
  BY ZenonT(60), <1>1 DEF Connections
<1> HIDE DEF m
<1>3. CHPKIA(c, k, p, mem) = IF NeedsAck(c, m, p) THEN CHASTO(c, m, mem) ELSE [k |-> m, out |-> {}]
  BY DEF CHPKIA, NeedsAck, Connections, m
<1> HIDE DEF NeedsAck
<1>4. q \in CHASTO(c, m, mem).out
  BY <1>3
<1>5. /\ q.op = "STS" /\ q.src = <<c, m.uniq>> /\ q.dst = m.frn /\ q.pn = 0
      /\ q.ack = m.pknr /\ q.rcp = DPBRCP(m)
  BY <1>4, CHASTOSends
<1>6. DPBRCP(m) = DPBRCP(k)
  BY <1>2 DEF DPBRCP
<1> QED BY <1>2, <1>5, <1>6

LEMMA CHPKIMoves ==
  ASSUME ConnAssumption, TypeInv, ControlInv, Pending, NEW c \in Conn, CHPKI(c)
  PROVE  Moves(c)
<1> DEFINE k == cb[c]
           p == Head(k.ibf)
<1>0. /\ k \in GoodConnections /\ k \in Connections /\ Control(c, k) /\ k.ibf \in Seq(PacketTypes)
      /\ k.ibf # <<>> /\ k.obf \in Seq(GoodPackets)
  BY FieldTypes DEF TypeInv, ControlInv, CHPKI
<1>1. p \in PacketTypes /\ k.ibf[1] = p /\ 1 \in 1 .. Len(k.ibf)
  BY <1>0
<1>a. k.sta \notin {"LSN", "RFS"} /\ (p.op \in Data => ~Near(k))
  BY <1>0, <1>1 DEF Control, Near, Data
<1>2. PICK mem \in BOOLEAN :
        LET a == IF p.op \in {"DAT", "EOF"} THEN CHPKIA(c, k, p, mem) ELSE [k |-> k, out |-> {}]
        IN cb' = [cb EXCEPT ![c] = [a.k EXCEPT !.ibf = Tail(@)]] /\ net' = Sent(net, a.out)
  BY DEF CHPKI, Mem
<1> HIDE DEF p
<1> DEFINE a == IF p.op \in {"DAT", "EOF"} THEN CHPKIA(c, k, p, mem) ELSE [k |-> k, out |-> {}]
           t == Tail(k.ibf)
           r == [a.k EXCEPT !.ibf = t]
<1>3. /\ a.k \in Connections /\ Fixed(k, a.k) /\ a.k.sta = k.sta /\ a.k.pc = k.pc /\ a.k.ibf = k.ibf
      /\ a.k.pbf = k.pbf /\ a.k.obf = k.obf
      /\ a.k.pknr = IF p.op \in Data THEN p.pn ELSE k.pknr
      /\ p.op \notin Data => a.k.sts = k.sts
  <2>1. CASE p.op \in Data
    <3>1. a = CHPKIA(c, k, p, mem)
      BY <2>1 DEF Data
    <3> DEFINE m == CHPKIA(c, k, p, mem).k
    <3>2. m \in GoodConnections
      BY <1>0, <1>1, CHPKIAGood
    <3>3. m.sta = k.sta /\ m.pc = k.pc /\ m.ibf = k.ibf /\ m.pbf = k.pbf /\ m.obf = k.obf /\ m.pknr = p.pn
          /\ m.uniq = k.uniq /\ m.frn = k.frn
      BY <1>0, <1>1, CHPKIAFields
    <3>4. a.k = m
      BY <3>1
    <3> HIDE DEF a, m
    <3> QED BY <2>1, <3>2, <3>3, <3>4, FieldTypes DEF Fixed
  <2>2. CASE p.op \notin Data
    BY <1>0, <2>2 DEF Data, Fixed
  <2> QED BY <2>1, <2>2
<1>4. \A q \in a.out : q.op \in Named => Fresh(c, k, r, q)
  <2>1. ASSUME NEW q \in a.out PROVE Fresh(c, k, r, q)
    <3>1. a = CHPKIA(c, k, p, mem) /\ p.op \in Data
      BY <2>1 DEF Data
    <3>2. /\ q.op = "STS" /\ q.src = <<c, k.uniq>> /\ q.dst = k.frn /\ q.pn = 0
          /\ q.ack = p.pn /\ q.rcp = DPBRCP(k)
      <4>1. q \in CHPKIA(c, k, p, mem).out
        BY <2>1, <3>1
      <4> HIDE DEF a
      <4> QED BY SMTT(30), <1>0, <1>1, <4>1, CHPKIASends
    <3> HIDE DEF a, t
    <3>3. r.uniq = k.uniq /\ r.frn = k.frn /\ r.pknr = p.pn /\ r.sta = k.sta
      BY <1>3, <3>1 DEF Connections, Fixed
    <3> QED BY <1>a, <3>1, <3>2, <3>3 DEF Fresh, Named
  <2> QED BY <2>1
<1>5. cb' = [cb EXCEPT ![c] = r] /\ net' = Sent(net, a.out) /\ UNCHANGED chqrfc
  <2>1. cb' = [cb EXCEPT ![c] = [a.k EXCEPT !.ibf = Tail(a.k.ibf)]] /\ net' = Sent(net, a.out)
    BY <1>2
  <2>2. a.k.ibf = k.ibf
    BY <1>3
  <2> HIDE DEF a
  <2> QED BY <2>1, <2>2 DEF CHPKI
<1> HIDE DEF a, t
<1>6. /\ Fixed(k, r) /\ r.sta = k.sta /\ r.pc = k.pc /\ r.ibf = t /\ r.pbf = k.pbf /\ r.obf = k.obf
      /\ r.pknr = IF p.op \in Data THEN p.pn ELSE k.pknr
      /\ p.op \notin Data => r.sts = k.sts
  BY <1>3 DEF Connections, Fixed
<1> HIDE DEF r
<1>7. Effect(c, k, r)
  BY <1>0, <1>6 DEF Effect, Reads, p, t
<1>8. net' \subseteq net \cup a.out /\ QueuesKept /\ \A q \in Kept(r.obf) : q \in Traffic
  BY <1>5, <1>6, SentSome, QueuesSame, KeptTraffic
<1> QED BY <1>4, <1>5, <1>7, <1>8, MovesBy

LEMMA ContinueMoves ==
  ASSUME ConnAssumption, TypeInv, ControlInv, Pending, NEW c \in Conn, Continue(c)
  PROVE  Moves(c)
<1> DEFINE k == cb[c]
<1>0. /\ k \in GoodConnections /\ k \in Connections /\ Control(c, k) /\ k.obf \in Seq(GoodPackets)
  BY FieldTypes DEF TypeInv, ControlInv
<1>1. ASSUME NEW pc \in {"user", "number"}, NEW op,
             cb' = [cb EXCEPT ![c] = [k EXCEPT !.pc = pc, !.op = op]], UNCHANGED <<chqrfc, net>>,
             pc = "number" => k.pc = "window"
      PROVE  Moves(c)
  <2> DEFINE r == [k EXCEPT !.pc = pc, !.op = op]
  <2>2. /\ r.sta = k.sta /\ r.sts = k.sts /\ r.pc = pc /\ Fixed(k, r)
        /\ r.ibf = k.ibf /\ r.pbf = k.pbf /\ r.pknr = k.pknr /\ r.obf = k.obf
    BY <1>0 DEF Connections, Fixed
  <2>3. cb' = [cb EXCEPT ![c] = r]
    BY <1>1
  <2> HIDE DEF r
  <2>4. Effect(c, k, r)
    BY <1>1, <2>2 DEF Effect, Goes
  <2> QED BY <1>1, <2>2, <2>3, <2>4, MovesQuietly
<1>2. \A pc : [k EXCEPT !.pc = pc] = [k EXCEPT !.pc = pc, !.op = k.op]
  BY <1>0 DEF Connections
<1>3. CASE CHAQPL(c) \/ WindowOpens(c) \/ BackedOut(c)
  <2>1. CASE CHAQPL(c)
    <3>1. cb' = [cb EXCEPT ![c] = [k EXCEPT !.pc = "user"]] /\ UNCHANGED <<chqrfc, net>>
      BY <2>1 DEF CHAQPL
    <3> QED BY <1>1, <1>2, <3>1
  <2>2. CASE WindowOpens(c)
    <3>1. cb' = [cb EXCEPT ![c] = [k EXCEPT !.pc = "number"]] /\ UNCHANGED <<chqrfc, net>> /\ k.pc = "window"
      BY <2>2 DEF WindowOpens
    <3> QED BY <1>1, <1>2, <3>1
  <2>3. CASE BackedOut(c)
    <3>1. cb' = [cb EXCEPT ![c] = [k EXCEPT !.pc = "user", !.op = "DAT"]] /\ UNCHANGED <<chqrfc, net>>
      BY <2>3 DEF BackedOut
    <3> QED BY <1>1, <3>1
  <2> QED BY <1>3, <2>1, <2>2, <2>3
<1>4. CASE CHODT1(c) \/ CHOOP1(c)
  <2> DEFINE n == Succ(k.pknx)
             r == [k EXCEPT !.pknx = n, !.pc = "queue"]
             s == [k EXCEPT !.sta = "OPN", !.off = FALSE, !.sts = FALSE, !.pknx = n, !.pc = "queue"]
  <2>1. /\ k.pc = "number" /\ (cb' = [cb EXCEPT ![c] = r] \/ cb' = [cb EXCEPT ![c] = s])
        /\ UNCHANGED <<chqrfc, net>>
    BY ZenonT(60), <1>4 DEF CHODT1, CHOOP1
  <2> HIDE DEF n
  <2>2. /\ r.sta = k.sta /\ r.sts = k.sts /\ Fixed(k, r)
        /\ r.ibf = k.ibf /\ r.pbf = k.pbf /\ r.pknr = k.pknr /\ r.obf = k.obf
        /\ s.sta = "OPN" /\ s.sts = FALSE /\ Fixed(k, s)
        /\ s.ibf = k.ibf /\ s.pbf = k.pbf /\ s.pknr = k.pknr /\ s.obf = k.obf
    BY <1>0 DEF Connections, Fixed
  <2> HIDE DEF r, s
  <2>3. Effect(c, k, r) /\ Effect(c, k, s)
    BY <2>1, <2>2 DEF Effect, Goes
  <2> QED BY <2>1, <2>2, <2>3, MovesQuietly
<1>5. CASE Queue(c)
  <2> DEFINE p == Outgoing(c, k, k.op, k.pknx)
             q == Append(k.obf, p)
             n == IF k.op = "DAT" THEN k.nos - 1 ELSE k.nos
             r == [k EXCEPT !.obf = q, !.nos = n, !.ackr = k.pknr, !.pc = "user", !.op = "DAT"]
  <2>1. /\ cb' = [cb EXCEPT ![c] = r] /\ net' = Sent(net, {p}) /\ k.pc = "queue"
        /\ UNCHANGED chqrfc
    BY <1>5 DEF Queue
  <2>2. /\ p.op = k.op /\ p.src = <<c, k.uniq>> /\ p.dst = k.frn /\ p.pn = k.pknx /\ p.ack = k.pknr
    BY OutgoingFields
  <2>3. k.op \in {"DAT", "EOF"}
    BY <1>0 DEF Connections
  <2> HIDE DEF p, n
  <2>4. q = Append(k.obf, p)
    OBVIOUS
  <2> HIDE DEF q
  <2>5. /\ r.sta = k.sta /\ r.sts = k.sts /\ r.pc = "user" /\ Fixed(k, r) /\ r.pknx = k.pknx
        /\ r.ibf = k.ibf /\ r.pbf = k.pbf /\ r.pknr = k.pknr /\ r.obf = q
    BY <1>0 DEF Connections, Fixed
  <2> HIDE DEF r
  <2>6. Effect(c, k, r)
    BY <2>5 DEF Effect, Goes
  <2>7. Fresh(c, k, r, p)
    BY <1>0, <2>1, <2>2, <2>3, <2>5 DEF Fresh, Near, Fixed, Control
  <2>8. \A x \in Kept(r.obf) : x \in Kept(k.obf) \/ x = p
    BY <1>0, <2>4, <2>5, KeptAppend
  <2> QED BY <2>1, <2>6, <2>7, <2>8, MovesSending
<1>6. CASE CHACS4(c)
  <2> DEFINE r == [k EXCEPT !.usr = FALSE, !.pc = "user"]
             p == Packet("CLS", Lcl(c), k.frn, 0, 0, 0, 0)
  <2>1. cb' = [cb EXCEPT ![c] = r] /\ (net' = net \/ net' = Sent(net, {p})) /\ UNCHANGED chqrfc
    BY <1>6 DEF CHACS4
  <2>2. /\ r.sta = k.sta /\ r.sts = k.sts /\ r.pc = "user" /\ Fixed(k, r)
        /\ r.ibf = k.ibf /\ r.pbf = k.pbf /\ r.pknr = k.pknr /\ r.obf = k.obf
    BY <1>0 DEF Connections, Fixed
  <2>3. p.op \notin Named
    BY DEF Packet, Named
  <2> HIDE DEF r, p
  <2>4. Effect(c, k, r)
    BY <2>2 DEF Effect, Goes
  <2> QED BY <2>1, <2>2, <2>3, <2>4, MovesQuietly, MovesSending
<1> QED BY <1>3, <1>4, <1>5, <1>6 DEF Continue

LEMMA CHARTRKept ==
  ASSUME NEW k, k.obf \in Seq(GoodPackets), NEW again \in CHARTR(k)
  PROVE  again \subseteq Kept(k.obf)
BY KeptTail DEF CHARTR

\* A retransmission, and a STS that is due, of a connection that does not change otherwise.
LEMMA CHASTOFresh ==
  ASSUME NEW c, NEW b, NEW m, NEW r, NEW mem \in BOOLEAN,
         r.uniq = m.uniq, r.frn = m.frn, r.pknr = m.pknr, r.ibf = m.ibf,
         r.sta \notin {"LSN", "RFS"}, ~Near(b) \/ ~Near(r)
  PROVE  r.uniq = b.uniq => \A q \in CHASTO(c, m, mem).out : Fresh(c, b, r, q)
<1> SUFFICES ASSUME NEW q \in CHASTO(c, m, mem).out PROVE r.uniq = b.uniq => Fresh(c, b, r, q)
  OBVIOUS
<1>0. q = WithReceipt(c, m, Outgoing(c, m, "STS", 0))
  BY DEF CHASTO
<1>1. /\ q.op = "STS" /\ q.src = <<c, m.uniq>> /\ q.dst = m.frn /\ q.pn = 0
      /\ q.ack = m.pknr /\ q.rcp = DPBRCP(m)
  BY <1>0, ReceiptFields
<1>2. DPBRCP(m) = DPBRCP(r)
  BY DEF DPBRCP
<1> QED BY <1>1, <1>2 DEF Fresh, Named

LEMMA ClockMoves ==
  ASSUME ConnAssumption, TypeInv, ControlInv, Pending, Clock
  PROVE  Rests \/ \E c \in Conn : Moves(c)
<1>1. ASSUME NEW c \in Conn, CHACLK(c) \/ Silence(c) \/ Probe(c) PROVE Moves(c)
  <2> DEFINE k == cb[c]
  <2>0. k \in GoodConnections /\ k \in Connections /\ Control(c, k) /\ k.obf \in Seq(GoodPackets)
    BY FieldTypes DEF TypeInv, ControlInv
  <2>1. CASE CHACLK(c)
    <3>1. PICK again \in CHARTR(k), mem \in BOOLEAN :
            LET a == IF k.sts THEN CHASTO(c, k, mem) ELSE [k |-> k, out |-> {}]
            IN cb' = [cb EXCEPT ![c] = a.k] /\ net' = Sent(net, again \cup a.out)
      BY <2>1 DEF CHACLK, Mem
    <3>2. UNCHANGED chqrfc
      BY <2>1 DEF CHACLK
    <3>3. again \subseteq Kept(k.obf)
      BY <2>0, CHARTRKept
    <3>4. CASE k.sts
      <4> DEFINE r == CHASTO(c, k, mem).k
                 out == CHASTO(c, k, mem).out
      <4>1. cb' = [cb EXCEPT ![c] = r] /\ net' = Sent(net, again \cup out)
        BY <3>1, <3>4
      <4>2. /\ r.sta = k.sta /\ r.uniq = k.uniq /\ r.frn = k.frn /\ r.pc = k.pc
            /\ r.ibf = k.ibf /\ r.pbf = k.pbf /\ r.pknr = k.pknr /\ r.obf = k.obf
        BY <2>0, CHASTOFields
      <4> HIDE DEF r
      <4>3. k.sta \notin {"LSN", "RFS"} /\ ~Near(k)
        BY <2>0, <3>4 DEF Control, Near
      <4>4. \A q \in out : Fresh(c, k, r, q)
        BY <4>2, <4>3, CHASTOFresh
      <4> HIDE DEF out
      <4>5. Effect(c, k, r)
        BY <3>4, <4>2 DEF Effect, Goes, Fixed
      <4>6. net' \subseteq net \cup (again \cup out) /\ QueuesKept
        BY <3>2, <4>1, SentSome, QueuesSame
      <4>7. \A q \in again \cup out : q.op \in Named => q \in Traffic \/ Fresh(c, k, r, q)
        BY <3>3, <4>4, KeptTraffic
      <4> QED BY <4>1, <4>2, <4>5, <4>6, <4>7, KeptTraffic, MovesBy
    <3>5. CASE ~k.sts
      <4>1. cb' = [cb EXCEPT ![c] = k] /\ net' = Sent(net, again)
        BY <3>1, <3>5
      <4>2. Effect(c, k, k)
        BY DEF Effect, Goes, Fixed
      <4>3. net' \subseteq net \cup again /\ QueuesKept
        BY <3>2, <4>1, SentSome, QueuesSame
      <4> QED BY <3>3, <4>1, <4>2, <4>3, KeptTraffic, MovesBy
    <3> QED BY <3>4, <3>5
  <2>2. CASE Silence(c)
    <3> DEFINE r == [k EXCEPT !.sta = "INC", !.off = TRUE]
    <3>1. cb' = [cb EXCEPT ![c] = r] /\ UNCHANGED <<chqrfc, net>>
      BY <2>2 DEF Silence, CHINT
    <3>2. /\ r.sta = "INC" /\ r.sts = k.sts /\ r.pc = k.pc /\ Fixed(k, r)
          /\ r.ibf = k.ibf /\ r.pbf = k.pbf /\ r.pknr = k.pknr /\ r.obf = k.obf
      BY <2>0 DEF Connections, Fixed
    <3> HIDE DEF r
    <3>3. Effect(c, k, r)
      BY <3>2 DEF Effect, Goes
    <3> QED BY <3>1, <3>2, <3>3, MovesQuietly
  <2>3. CASE Probe(c)
    <3> DEFINE r == [k EXCEPT !.ackr = k.pknr]
               p == Outgoing(c, k, "SNS", 0)
    <3>1. cb' = [cb EXCEPT ![c] = r] /\ net' = Sent(net, {p}) /\ UNCHANGED chqrfc
      BY <2>3 DEF Probe
    <3>2. /\ r.sta = k.sta /\ r.sts = k.sts /\ r.pc = k.pc /\ Fixed(k, r)
          /\ r.ibf = k.ibf /\ r.pbf = k.pbf /\ r.pknr = k.pknr /\ r.obf = k.obf
      BY <2>0 DEF Connections, Fixed
    <3>3. p.op \notin Named
      BY OutgoingFields DEF Named
    <3> HIDE DEF r, p
    <3>4. Effect(c, k, r)
      BY <3>2 DEF Effect, Goes
    <3> QED BY <3>1, <3>2, <3>3, <3>4, MovesSending
  <2> QED BY <1>1, <2>1, <2>2, <2>3
<1>2. ASSUME NEW h \in Hosts, RfcTimesOut(h) \/ CHAOSQ(h) PROVE Rests
  <2> DEFINE s == chqrfc[h]
             p == Head(s)
             q == Returned("CLS", p)
  <2>0. s \in Seq(GoodPackets) /\ chqrfc \in [Hosts -> Seq(GoodPackets)] /\ s # <<>>
    BY <1>2 DEF TypeInv, RfcTimesOut, CHAOSQ
  <2>1. p \in Kept(s) /\ Kept(Tail(s)) \subseteq Kept(s) /\ Tail(s) \in Seq(GoodPackets)
    BY <2>0, KeptTail
  <2>2. \A x \in Kept(Append(Tail(s), p)) : x \in Kept(s)
    BY <2>1, KeptAppend
  <2>3. UNCHANGED cb /\ (net' = net \/ net' = Sent(net, {q}))
    BY <1>2 DEF RfcTimesOut, CHAOSQ
  <2>4. chqrfc' = [chqrfc EXCEPT ![h] = Tail(s)] \/ chqrfc' = [chqrfc EXCEPT ![h] = Append(Tail(s), p)]
    BY <1>2 DEF RfcTimesOut, CHAOSQ
  <2>5. QueuesKept
    <3>1. ASSUME NEW g \in Hosts, NEW x \in Kept(chqrfc'[g]) PROVE x \in Kept(chqrfc[g])
      <4>1. CASE g = h
        BY <2>0, <2>1, <2>2, <2>4, <3>1, <4>1
      <4>2. CASE g # h
        BY <2>0, <2>4, <3>1, <4>2
      <4> QED BY <4>1, <4>2
    <3> QED BY <3>1, KeptTraffic DEF QueuesKept, Pending
  <2>6. q.op \notin Named
    BY DEF Returned, Packet, Named
  <2> HIDE DEF q
  <2>7. net' \subseteq net \cup {q} /\ \A x \in {q} : x.op \notin Named
    BY <2>3, <2>6, SentSome
  <2> QED BY SMTT(30), <2>3, <2>5, <2>7, RestsBy
<1> QED BY <1>1, <1>2 DEF Clock

\* What the interrupt does to the connection a packet is for.
LEMMA BecomesMoves ==
  ASSUME TypeInv, Pending, NEW p, NEW c \in Conn, NEW r, NEW out, Becomes(p, c, r, out),
         Effect(c, cb[c], r), Kept(r.obf) \subseteq Kept(cb[c].obf),
         \A q \in out : q.op \in Named => q \in Traffic \/ Fresh(c, cb[c], r, q)
  PROVE  Moves(c)
<1>1. cb' = [cb EXCEPT ![c] = r] /\ QueuesKept
  BY QueuesSame DEF Becomes
<1>2. net' \subseteq net \cup out
  BY SentSome, RestSome DEF Becomes
<1> QED BY <1>1, <1>2, KeptTraffic, MovesBy

LEMMA AnswerRests ==
  ASSUME Pending, NEW p, NEW out, Answer(p, out), \A q \in out : q.op \notin Named
  PROVE  Rests
<1>1. UNCHANGED cb /\ QueuesKept
  BY QueuesSame DEF Answer
<1>2. net' \subseteq net \cup out
  BY SentSome, RestSome DEF Answer
<1> QED BY <1>1, <1>2, RestsBy

LEMMA RefusalRests ==
  ASSUME Pending, NEW p, CHABRT(p) \/ CHALOS(p) \/ Answer(p, {Returned("CLS", p)})
  PROVE  Rests
<1>1. \A op \in {"CLS", "LOS"} : Returned(op, p).op \notin Named
  BY DEF Returned, Packet, Named
<1> QED BY <1>1, AnswerRests DEF CHABRT, CHALOS

LEMMA CHIST1Kept ==
  ASSUME NEW k \in GoodConnections, NEW p \in GoodPackets
  PROVE  Kept(CHIST1(k, p).obf) \subseteq Kept(k.obf)
<1> DEFINE w == [k EXCEPT !.winx = p.win]
<1>0. k \in Connections /\ k.obf \in Seq(GoodPackets) /\ p.win \in 0 .. 64
  BY FieldTypes, PacketFields
<1>1. w \in Connections /\ w.obf = k.obf /\ k.obf \in Seq(GoodPackets)
  BY ZenonT(60), <1>0 DEF Connections
<1>2. CHIST1(k, p) = CHIAK0(w, p.rcp, p.ack)
  BY DEF CHIST1
<1> HIDE DEF w
<1> QED BY <1>1, <1>2, CHIAK0Kept

\* A RFC: hooked up, refused, thrown away or put in front of the queue.
LEMMA CHIRFCMoves ==
  ASSUME ConnAssumption, TypeInv, ControlInv, Pending, NEW p \in net, CHIRFC(p)
  PROVE  Rests \/ \E c \in Conn : Moves(c)
<1> DEFINE h == p.dst[1]
           q == chqlsn[h]
           s == chqrfc[h]
<1>0. /\ p \in PacketTypes /\ p.op = "RFC" /\ h \in Hosts /\ p \in Traffic
      /\ q \in Seq(Conn) /\ s \in Seq(GoodPackets) /\ chqrfc \in [Hosts -> Seq(GoodPackets)]
      /\ p \in GoodPackets
  BY NetGood, PacketFields, KeptTraffic DEF TypeInv, CHIRFC
<1>1. ASSUME q # <<>>, cb[Head(q)].sta = "LSN", UNCHANGED chqrfc,
             cb' = [cb EXCEPT ![Head(q)] = CHIRF0(cb[Head(q)], p)],
             \E rest \in Rest(p) : net' = rest
      PROVE  \E c \in Conn : Moves(c)
  <2> DEFINE c == Head(q)
             k == cb[c]
             r == CHIRF0(k, p)
  <2>1. c \in Conn
    BY <1>0, <1>1
  <2> HIDE DEF c
  <2>2. k \in Connections /\ Control(c, k) /\ k.sta = "LSN"
    BY <1>1, <2>1, FieldTypes DEF TypeInv, ControlInv, c
  <2>3. cb' = [cb EXCEPT ![c] = r]
    BY <1>1 DEF c
  <2> HIDE DEF k
  <2>4. /\ r.sta = "RFC" /\ r.pknr = p.pn /\ r.frn = p.src /\ r.uniq = k.uniq
        /\ r.ibf = Append(k.ibf, p) /\ r.pbf = <<>> /\ r.obf = <<>>
    <3>1. k \in Connections /\ p \in PacketTypes
      BY <1>0, <2>2
    <3> QED BY ZenonT(60), <3>1, CHIRF0Fields
  <2> HIDE DEF r
  <2>5. k.ibf = <<>> /\ c \in Listeners /\ Append(<<>>, p) = <<p>>
    BY <2>2 DEF Control
  <2>6. Effect(c, k, r)
    BY <1>0, <2>2, <2>4, <2>5 DEF Effect, Hooks
  <2>7. net' \subseteq net \cup {} /\ QueuesKept /\ Kept(r.obf) = {}
    BY <1>1, <2>4, RestSome, QueuesSame, KeptNone
  <2> QED BY <2>1, <2>3, <2>6, <2>7, MovesBy DEF k
<1>2. ASSUME UNCHANGED cb, chqrfc' = [chqrfc EXCEPT ![h] = <<p>> \o s],
             \E rest \in Rest(p) : net' = rest
      PROVE  Rests
  <2>1. \A x \in Kept(<<p>> \o s) : x = p \/ x \in Kept(s)
    <3> DEFINE t == <<p>> \o s
    <3>1. Len(t) = Len(s) + 1 /\ t[1] = p /\ \A i \in 2 .. Len(s) + 1 : t[i] = s[i - 1]
      <4>1. <<p>> \in Seq(GoodPackets) /\ Len(<<p>>) = 1 /\ <<p>>[1] = p
        BY <1>0
      <4> QED BY <1>0, <4>1, ConcatProperties
    <3>2. \A i \in 1 .. Len(s) + 1 : i = 1 \/ (i \in 2 .. Len(s) + 1 /\ i - 1 \in 1 .. Len(s))
      BY <1>0
    <3> HIDE DEF t
    <3> QED BY <3>1, <3>2 DEF Kept
  <2>2. ASSUME NEW g \in Hosts, NEW x \in Kept(chqrfc'[g]) PROVE x = p \/ x \in Kept(chqrfc[g])
    <3>1. CASE g = h
      BY <1>0, <1>2, <2>1, <2>2, <3>1
    <3>2. CASE g # h
      BY <1>0, <1>2, <2>2, <3>2
    <3> QED BY <3>1, <3>2
  <2>3. QueuesKept
    BY <1>0, <2>2, KeptTraffic DEF QueuesKept, Pending
  <2>4. PICK out : out = {} /\ net' \subseteq net \cup out
    BY ZenonT(60), <1>2, RestSome
  <2> QED BY SMTT(30), <1>2, <2>3, <2>4, RestsBy
<1> QED BY <1>0, <1>1, <1>2, RefusalRests DEF CHIRFC

LEMMA CHIOPNMoves ==
  ASSUME ConnAssumption, TypeInv, ControlInv, Pending, NEW p \in net, p.op = "OPN",
         NEW c \in Conn, CHFNDX(p, c), cb[c].sta = "RFS", NEW k,
         k = CHIST1([cb[c] EXCEPT !.pknr = p.pn, !.frn = p.src], p),
         NEW again \in CHARTR(k), NEW mem \in BOOLEAN,
         Becomes(p, c, CHINT(CHASTO(c, k, mem).k, "OPN"), CHASTO(c, k, mem).out \cup again)
  PROVE  Moves(c)
<1> DEFINE m == [cb[c] EXCEPT !.pknr = p.pn, !.frn = p.src]
           a == CHASTO(c, k, mem).k
           out == CHASTO(c, k, mem).out
           r == CHINT(a, "OPN")
<1>1. /\ p \in PacketTypes /\ p \in GoodPackets /\ p \in Traffic /\ p.pn \in PktNumber
      /\ p.src \in Nat \X Nat /\ p.op \in {"STS", "OPN"}
  BY NetGood, PacketFields, KeptTraffic DEF TypeInv, Address
<1>2. cb[c] \in Connections /\ cb[c].obf \in Seq(GoodPackets) /\ cb[c] \in GoodConnections
  BY FieldTypes DEF TypeInv
<1>3. /\ m \in Connections /\ m.obf = cb[c].obf /\ m.nos = cb[c].nos /\ m.winx = cb[c].winx
      /\ m.pc = cb[c].pc /\ m.uniq = cb[c].uniq /\ m.frn = p.src /\ m.pknr = p.pn
      /\ m.ibf = cb[c].ibf /\ m.pbf = cb[c].pbf
  BY ZenonT(60), <1>1, <1>2 DEF Connections
<1> HIDE DEF m
<1>4. m \in GoodConnections
  BY <1>2, <1>3, SameWindowGood
<1>5. k \in GoodConnections /\ k \in Connections /\ k.obf \in Seq(GoodPackets)
  BY <1>1, <1>4, CHIST1Good, FieldTypes DEF m
<1>6. /\ k.uniq = m.uniq /\ k.frn = m.frn /\ k.pknr = m.pknr /\ k.ibf = m.ibf /\ k.pbf = m.pbf
      /\ k.pc = m.pc /\ k.sts = m.sts
  <2>1. m \in Connections /\ p \in PacketTypes
    BY <1>1, <1>3
  <2>2. k = CHIST1(m, p)
    BY DEF m
  <2> QED BY <2>1, <2>2, CHIST1Fields
<1>7. Kept(k.obf) \subseteq Kept(m.obf)
  BY <1>1, <1>4, CHIST1Kept DEF m
<1>8. a \in GoodConnections /\ a \in Connections
  BY <1>5, CHASTOGood, FieldTypes
<1>9. /\ a.uniq = k.uniq /\ a.frn = k.frn /\ a.pknr = k.pknr /\ a.ibf = k.ibf /\ a.pbf = k.pbf
      /\ a.obf = k.obf
  BY <1>5, CHASTOFields
<1> HIDE DEF a
<1>10. /\ r.uniq = a.uniq /\ r.frn = a.frn /\ r.pknr = a.pknr /\ r.ibf = a.ibf /\ r.pbf = a.pbf
       /\ r.obf = a.obf /\ r.sta = "OPN"
  BY <1>8 DEF CHINT, Connections
<1>11. cb[c].ibf = <<>> /\ p.dst = Lcl(c)
  BY DEF ControlInv, Control, CHFNDX
<1>12. Becomes(p, c, r, out \cup again)
  BY DEF a
<1> HIDE DEF r
<1>13. Effect(c, cb[c], r)
  BY <1>1, <1>3, <1>6, <1>9, <1>10, <1>11 DEF Effect, Opens
<1>14. \A q \in out : Fresh(c, cb[c], r, q)
  <2>1. ~Near(r)
    BY <1>10 DEF Near
  <2>2. r.uniq = k.uniq /\ r.uniq = cb[c].uniq /\ r.frn = k.frn /\ r.pknr = k.pknr /\ r.ibf = k.ibf
        /\ r.sta \notin {"LSN", "RFS"}
    BY <1>3, <1>6, <1>9, <1>10
  <2> QED BY <2>1, <2>2, CHASTOFresh
<1> HIDE DEF out
<1>15. again \subseteq Kept(cb[c].obf) /\ Kept(r.obf) \subseteq Kept(cb[c].obf)
  BY <1>3, <1>5, <1>7, <1>9, <1>10, CHARTRKept
<1>16. \A q \in out \cup again : q.op \in Named => q \in Traffic \/ Fresh(c, cb[c], r, q)
  BY <1>14, <1>15, KeptTraffic
<1> QED BY <1>12, <1>13, <1>15, <1>16, BecomesMoves

\* A packet that closes a connection.
LEMMA CHICL2Moves ==
  ASSUME ConnAssumption, TypeInv, Pending, NEW p \in net, p.op \in {"CLS", "ANS", "LOS"},
         NEW c \in Conn, NEW state \in {"CLS", "LOS"}, Becomes(p, c, CHICL2(cb[c], p, state), {})
  PROVE  Moves(c)
<1>1. PICK k \in Connections : k = cb[c]
  BY FieldTypes DEF TypeInv
<1>2. p \in PacketTypes /\ p \in Traffic
  BY NetGood, PacketFields, KeptTraffic DEF TypeInv
<1>3. PICK r : r = CHICL2(k, p, state)
  OBVIOUS
<1>4. /\ r.sta \in {"CLS", "LOS"} /\ r.pc = k.pc /\ r.sts = k.sts /\ r.uniq = k.uniq /\ r.frn = k.frn
      /\ r.pknr = k.pknr /\ r.ibf = Append(k.ibf, p) /\ r.pbf = <<>> /\ r.obf = <<>>
  <2> DEFINE q == Append(k.ibf, p)
  <2>1. r = [k EXCEPT !.sta = state, !.off = (state # "OPN"), !.pbf = <<>>, !.obf = <<>>, !.ibf = q]
    BY <1>3 DEF CHICL2, CHINT, Connections
  <2> HIDE DEF q
  <2>2. r.sta = state /\ r.ibf = q
    BY <2>1 DEF Connections
  <2>3. q = Append(k.ibf, p) /\ state \in {"CLS", "LOS"}
    BY DEF q
  <2> QED BY <2>1, <2>2, <2>3 DEF Connections
<1>5. Effect(c, k, r)
  BY <1>2, <1>4 DEF Effect, Shuts, Fixed
<1>6. Becomes(p, c, r, {})
  BY <1>1, <1>3
<1> QED BY <1>1, <1>4, <1>5, <1>6, KeptNone, BecomesMoves

\* A data packet: too far, in order, early, or a duplicate, which is answered.
LEMMA CHIDATMoves ==
  ASSUME ConnAssumption, TypeInv, ControlInv, Pending, NEW p \in net, p.op \in {"DAT", "EOF"},
         NEW c \in Conn, CHFNDX(p, c), cb[c].sta = "OPN", NEW k, k = CHIAK0(cb[c], p.ack, p.ack),
         NEW r, NEW out, Becomes(p, c, r, out),
         \/ r = k /\ out = {}
         \/ /\ ~OverWindow(Window[c], k.pknr, p.pn) /\ p.pn = NextInOrder(k)
            /\ r = CHIDT1(k, p) /\ out = {}
         \/ /\ ~OverWindow(Window[c], k.pknr, p.pn) /\ p.pn # NextInOrder(k)
            /\ Before(NextInOrder(k), p.pn) /\ ~\E i \in 1 .. Len(k.pbf) : k.pbf[i].pn = p.pn
            /\ r = OutOfOrder(k, p) /\ out = {}
         \/ \E mem \in BOOLEAN : r = CHASTO(c, k, mem).k /\ out = CHASTO(c, k, mem).out
  PROVE  Moves(c)
<1> DEFINE b == cb[c]
<1>1. p \in PacketTypes /\ p \in Traffic /\ p.op \in Data /\ p.src = b.frn
  BY NetGood, PacketFields, KeptTraffic DEF TypeInv, CHFNDX, Data
<1>2. b \in Connections /\ b.obf \in Seq(GoodPackets) /\ b \in GoodConnections
  BY FieldTypes DEF TypeInv
<1>3. k \in Connections
  <2>1. p.ack \in PktNumber /\ (b.pc \in {"number", "queue"} => b.winx >= 1)
        /\ (b.winx = 0 \/ b.winx \in Given)
    BY <1>1, <1>2, FieldTypes DEF NosOK, PacketTypes
  <2> QED BY <1>2, <2>1, CHIAK0Good, FieldTypes
<1>4. Kept(k.obf) \subseteq Kept(b.obf)
  BY <1>2, CHIAK0Kept
<1>5. /\ k.sta = b.sta /\ k.sts = b.sts /\ k.pc = b.pc /\ k.uniq = b.uniq /\ k.frn = b.frn
      /\ k.ibf = b.ibf /\ k.pbf = b.pbf /\ k.pknr = b.pknr
  BY <1>2, CHIAK0Fields
<1>6. NextInOrder(k) = NextInOrder(b) /\ OutOfOrder(k, p).pbf = OutOfOrder(b, p).pbf
  <2>1. NextInOrder(k) = NextInOrder(b)
    BY <1>5 DEF NextInOrder
  <2>2. OutOfOrder(k, p).pbf = OutOfOrder(b, p).pbf
    BY <1>2, <1>3, <1>5 DEF OutOfOrder, Connections
  <2> QED BY <2>1, <2>2
<1>7. /\ r.obf = k.obf /\ r.sta = b.sta /\ r.pc = b.pc /\ r.uniq = b.uniq /\ r.frn = b.frn
      /\ r.pknr = b.pknr
  <2>1. CASE r = k
    BY <1>5, <2>1
  <2>2. CASE r = CHIDT1(k, p)
    BY <1>1, <1>3, <1>5, <2>2, CHIDT1Fields
  <2>3. CASE r = OutOfOrder(k, p)
    BY <1>1, <1>3, <1>5, <2>3, OutOfOrderFields
  <2>4. ASSUME NEW mem \in BOOLEAN, r = CHASTO(c, k, mem).k
        PROVE  /\ r.obf = k.obf /\ r.sta = b.sta /\ r.pc = b.pc /\ r.uniq = b.uniq /\ r.frn = b.frn
               /\ r.pknr = b.pknr
    BY <1>3, <1>5, <2>4, CHASTOFields
  <2> QED BY <2>1, <2>2, <2>3, <2>4
<1>8. CASE r = k /\ out = {}
  <2>1. Effect(c, b, r)
    BY <1>5, <1>8 DEF Effect, Goes, Fixed
  <2> QED BY <1>4, <1>7, <1>8, <2>1, BecomesMoves
<1>9. CASE /\ ~OverWindow(Window[c], k.pknr, p.pn) /\ p.pn = NextInOrder(k)
           /\ r = CHIDT1(k, p) /\ out = {}
  <2>1. \E n \in 0 .. Len(b.pbf) :
           /\ Follows(b, p, n)
           /\ r.ibf = Append(b.ibf, p) \o SubSeq(b.pbf, 1, n)
           /\ r.pbf = SubSeq(b.pbf, n + 1, Len(b.pbf))
    <3>1. PICK n \in 0 .. Len(k.pbf) :
            /\ \A i \in 1 .. n : k.pbf[i].pn = (p.pn + i) % Mod
            /\ n = Len(k.pbf) \/ k.pbf[n + 1].pn # (p.pn + (n + 1)) % Mod
            /\ CHIDT1(k, p) = [k EXCEPT !.ibf = Append(k.ibf, p) \o SubSeq(k.pbf, 1, n),
                                        !.pbf = SubSeq(k.pbf, n + 1, Len(k.pbf))]
      BY ZenonT(60), <1>1, <1>3, CHIDT1Moves
    <3> DEFINE x == Append(k.ibf, p) \o SubSeq(k.pbf, 1, n)
               y == SubSeq(k.pbf, n + 1, Len(k.pbf))
    <3>2. r = [k EXCEPT !.ibf = x, !.pbf = y]
      BY <1>9, <3>1
    <3>3. Follows(b, p, n) /\ x = Append(b.ibf, p) \o SubSeq(b.pbf, 1, n)
          /\ y = SubSeq(b.pbf, n + 1, Len(b.pbf)) /\ n \in 0 .. Len(b.pbf)
      BY SMTT(30), <1>5, <3>1 DEF Follows
    <3> HIDE DEF x, y
    <3>4. r.ibf = x /\ r.pbf = y
      BY <1>3, <3>2 DEF Connections
    <3> QED BY <3>3, <3>4
  <2>2. Gets(c, b, r, p)
    BY <1>1, <1>5, <1>6, <1>7, <1>9, <2>1 DEF Gets, Fixed
  <2>3. Effect(c, b, r)
    BY <1>1, <2>2 DEF Effect
  <2> QED BY <1>4, <1>7, <1>9, <2>3, BecomesMoves
<1>10. CASE /\ ~OverWindow(Window[c], k.pknr, p.pn) /\ p.pn # NextInOrder(k)
            /\ Before(NextInOrder(k), p.pn) /\ ~\E i \in 1 .. Len(k.pbf) : k.pbf[i].pn = p.pn
            /\ r = OutOfOrder(k, p) /\ out = {}
  <2>0. r.ibf = k.ibf
    BY ZenonT(60), <1>1, <1>3, <1>10, OutOfOrderFields
  <2>a. /\ ~OverWindow(Window[c], b.pknr, p.pn) /\ p.pn # NextInOrder(b)
        /\ Before(NextInOrder(b), p.pn) /\ \A i \in 1 .. Len(b.pbf) : b.pbf[i].pn # p.pn
    BY <1>5, <1>6, <1>10
  <2>b. r.ibf = b.ibf /\ r.pbf = OutOfOrder(b, p).pbf
    BY <1>5, <1>6, <1>10, <2>0
  <2>1. Gets(c, b, r, p)
    BY <1>1, <1>7, <2>a, <2>b DEF Gets, Fixed
  <2>2. Effect(c, b, r)
    BY <1>1, <2>1 DEF Effect
  <2> QED BY <1>4, <1>7, <1>10, <2>2, BecomesMoves
<1>11. ASSUME NEW mem \in BOOLEAN, r = CHASTO(c, k, mem).k, out = CHASTO(c, k, mem).out
       PROVE  Moves(c)
  <2>0. r = CHASTO(c, k, mem).k
    BY <1>11
  <2>1. r.ibf = k.ibf /\ r.pbf = k.pbf /\ r.uniq = k.uniq /\ r.frn = k.frn /\ r.pknr = k.pknr
    BY <1>3, <2>0, CHASTOFields
  <2>2. Effect(c, b, r)
    BY <1>5, <1>7, <2>1 DEF Effect, Goes, Fixed
  <2>3. \A q \in out : Fresh(c, b, r, q)
    <3>1. ~Near(b) /\ r.sta \notin {"LSN", "RFS"}
      BY <1>7 DEF Near
    <3> QED BY <1>7, <1>11, <2>1, <3>1, CHASTOFresh
  <2> QED BY <1>4, <1>7, <2>2, <2>3, BecomesMoves
<1> QED BY <1>8, <1>9, <1>10, <1>11

\* A SNS, a STS or an UNC for an open connection.
LEMMA CHISNSMoves ==
  ASSUME ConnAssumption, TypeInv, Pending, NEW p \in net, NEW c \in Conn, cb[c].sta = "OPN",
         NEW mem \in BOOLEAN, Becomes(p, c, CHASTO(c, cb[c], mem).k, CHASTO(c, cb[c], mem).out)
  PROVE  Moves(c)
<1> DEFINE k == cb[c]
           r == CHASTO(c, k, mem).k
<1>1. k \in Connections
  BY FieldTypes DEF TypeInv
<1>2. /\ r.sta = k.sta /\ r.uniq = k.uniq /\ r.frn = k.frn /\ r.pc = k.pc
      /\ r.ibf = k.ibf /\ r.pbf = k.pbf /\ r.pknr = k.pknr /\ r.obf = k.obf
  BY <1>1, CHASTOFields
<1>3. Becomes(p, c, r, CHASTO(c, k, mem).out)
  OBVIOUS
<1> HIDE DEF r
<1>4. ~Near(k) /\ r.sta \notin {"LSN", "RFS"}
  BY <1>2 DEF Near
<1>5. \A q \in CHASTO(c, k, mem).out : Fresh(c, k, r, q)
  BY <1>2, <1>4, CHASTOFresh
<1>6. Effect(c, k, r)
  BY <1>2 DEF Effect, Goes, Fixed
<1> QED BY <1>2, <1>3, <1>5, <1>6, BecomesMoves

LEMMA CHISTSMoves ==
  ASSUME ConnAssumption, TypeInv, Pending, NEW p \in net, p.op = "STS", NEW c \in Conn,
         cb[c].sta = "OPN", NEW again \in CHARTR(CHIST1(cb[c], p)),
         Becomes(p, c, CHIST1(cb[c], p), again)
  PROVE  Moves(c)
<1> DEFINE k == cb[c]
           r == CHIST1(k, p)
<1>1. p \in GoodPackets /\ p \in PacketTypes /\ p.op \in {"STS", "OPN"}
  BY NetGood, PacketFields DEF TypeInv
<1>2. k \in GoodConnections /\ k \in Connections
  BY FieldTypes DEF TypeInv
<1>3. /\ r.sta = k.sta /\ r.sts = k.sts /\ r.uniq = k.uniq /\ r.frn = k.frn /\ r.pc = k.pc
      /\ r.ibf = k.ibf /\ r.pbf = k.pbf /\ r.pknr = k.pknr
  BY <1>1, <1>2, CHIST1Fields
<1>4. r.obf \in Seq(GoodPackets) /\ Kept(r.obf) \subseteq Kept(k.obf)
  BY <1>1, <1>2, CHIST1Good, CHIST1Kept, FieldTypes
<1>5. Becomes(p, c, r, again) /\ again \in CHARTR(r)
  OBVIOUS
<1> HIDE DEF r
<1>6. Effect(c, k, r)
  BY <1>3 DEF Effect, Goes, Fixed
<1>7. \A q \in again : q \in Traffic
  BY <1>4, <1>5, CHARTRKept, KeptTraffic
<1> QED BY <1>4, <1>5, <1>6, <1>7, BecomesMoves

LEMMA CHIUNCMoves ==
  ASSUME ConnAssumption, TypeInv, Pending, NEW p \in net, p.op = "UNC", NEW c \in Conn,
         cb[c].sta = "OPN", cb[c].frn = p.src, NEW r,
         r \in {cb[c], [cb[c] EXCEPT !.ibf = Append(@, p)]}, Becomes(p, c, r, {})
  PROVE  Moves(c)
<1> DEFINE k == cb[c]
           q == Append(k.ibf, p)
           m == [k EXCEPT !.ibf = q]
<1>1. k \in Connections /\ p \in Traffic
  BY FieldTypes, KeptTraffic DEF TypeInv
<1>2. r = k \/ r = m
  OBVIOUS
<1>o. PICK out : out = {} /\ Becomes(p, c, r, out)
  OBVIOUS
<1> HIDE DEF q
<1>3. /\ r.sta = k.sta /\ r.sts = k.sts /\ r.uniq = k.uniq /\ r.frn = k.frn /\ r.pc = k.pc
      /\ r.ibf \in {k.ibf, q} /\ r.pbf = k.pbf /\ r.pknr = k.pknr /\ r.obf = k.obf
  BY ZenonT(60), <1>1, <1>2 DEF Connections
<1> HIDE DEF m
<1>q. ASSUME Effect(c, k, r) PROVE Moves(c)
  <2>1. Kept(r.obf) \subseteq Kept(k.obf)
    BY <1>3
  <2>2. \A x \in out : x.op \in Named => x \in Traffic \/ Fresh(c, k, r, x)
    BY <1>o
  <2> QED BY <1>o, <1>q, <2>1, <2>2, BecomesMoves
<1>4. CASE r.ibf = k.ibf
  <2>1. Effect(c, k, r)
    BY <1>3, <1>4 DEF Effect, Goes, Fixed
  <2> QED BY <1>q, <2>1
<1>5. CASE r.ibf = q
  <2>1. Effect(c, k, r)
    BY <1>1, <1>3, <1>5 DEF Effect, Gets, Fixed, q
  <2> QED BY <1>q, <2>1
<1> QED BY <1>3, <1>4, <1>5

LEMMA CHAPIIMoves ==
  ASSUME ConnAssumption, TypeInv, ControlInv, Pending, NEW p \in net, CHAPII(p)
  PROVE  Rests \/ \E c \in Conn : Moves(c)
<1>a. CHABRT(p) \/ CHALOS(p) => Rests
  BY RefusalRests
<1>1. CASE CHIRFC(p)
  BY <1>1, CHIRFCMoves
<1>2. CASE CHIOPN(p)
  <2>1. ASSUME NEW c \in Conn, NEW k, NEW again \in CHARTR(k), NEW mem \in BOOLEAN, CHFNDX(p, c),
               cb[c].sta = "RFS", p.op = "OPN",
               k = CHIST1([cb[c] EXCEPT !.pknr = p.pn, !.frn = p.src], p),
               Becomes(p, c, CHINT(CHASTO(c, k, mem).k, "OPN"), CHASTO(c, k, mem).out \cup again)
        PROVE  Moves(c)
    BY <2>1, CHIOPNMoves
  <2>2. Mem \subseteq BOOLEAN
    BY DEF Mem
  <2> QED BY <1>2, <1>a, <2>1, <2>2 DEF CHIOPN
<1>3. CASE CHICLS(p)
  <2>1. ASSUME NEW c \in Conn, p.op \in {"CLS", "ANS"}, Becomes(p, c, CHICL2(cb[c], p, "CLS"), {})
        PROVE  Moves(c)
    BY <2>1, CHICL2Moves
  <2> QED BY <1>3, <1>a, <2>1 DEF CHICLS
<1>4. CASE CHILOS(p)
  <2>1. ASSUME NEW c \in Conn, p.op = "LOS", Becomes(p, c, CHICL2(cb[c], p, "LOS"), {})
        PROVE  Moves(c)
    BY <2>1, CHICL2Moves
  <2> QED BY <1>4, <1>a, <2>1 DEF CHILOS
<1>5. CASE CHISNS(p)
  BY <1>5, <1>a, CHISNSMoves DEF CHISNS, Mem
<1>6. CASE CHISTS(p)
  BY <1>6, <1>a, CHISTSMoves DEF CHISTS
<1>7. CASE CHIDAT(p)
  BY ZenonT(60), <1>7, <1>a, CHIDATMoves DEF CHIDAT, Mem
<1>8. CASE CHIUNC(p)
  <2>1. ASSUME NEW c \in Conn, p.dst = Lcl(c) PROVE p.dst[1] = c
    BY <2>1 DEF Lcl
  <2> QED BY ZenonT(60), <1>8, <1>a, <2>1, CHIUNCMoves DEF CHIUNC
<1> QED BY <1>1, <1>2, <1>3, <1>4, <1>5, <1>6, <1>7, <1>8 DEF CHAPII

(* Every step leaves the connections as they are, or moves one of them; and what is sent *)
(* under the name of a connection is sent by the one that moves.                          *)
LEMMA StepMoves ==
  ASSUME ConnAssumption, TypeInv, ControlInv, Pending, [Next]_vars
  PROVE  Rests \/ \E c \in Conn : Moves(c)
<1>1. ASSUME NEW c \in Conn, Call(c) PROVE Rests \/ Moves(c)
  BY <1>1, CallMoves
<1>2. ASSUME NEW c \in Conn, CHPKI(c) PROVE Moves(c)
  BY <1>2, CHPKIMoves
<1>3. ASSUME NEW c \in Conn, Continue(c) PROVE Moves(c)
  BY <1>3, ContinueMoves
<1>4. CASE Clock
  BY <1>4, ClockMoves
<1>5. ASSUME NEW p \in net, CHAPII(p) PROVE Rests \/ \E c \in Conn : Moves(c)
  BY <1>5, CHAPIIMoves
<1>6. ASSUME UNCHANGED <<cb, chqrfc>>, net' \subseteq net PROVE Rests
  <2>1. PICK out : out = {} /\ net' \subseteq net \cup out
    BY <1>6
  <2> QED BY <1>6, <2>1, QueuesSame, RestsBy
<1>7. (\E p \in net : Lose(p)) \/ UNCHANGED vars => Rests
  BY <1>6 DEF Lose, vars
<1> QED BY <1>1, <1>2, <1>3, <1>4, <1>5, <1>7 DEF Next

-----------------------------------------------------------------------------
(* Who knows of whom. *)

(* A connection knows of an index of the other end only in a life in which that index has   *)
(* been; the packets that carry a name were sent by a life that has been; those of the life *)
(* an index is in go where it is hooked up to, and it was hooked up before it sent any; and *)
(* when a caller is hooked up, the other end is hooked up to that call.                     *)
NotYet(k) == Near(k) /\ k.sta \notin {"LSN", "RFS"}

LifeInv == \A c \in Conn :
  /\ cb[c].uniq = 0 => NotYet(cb[c])
  /\ cb[c].frn[2] = 0 => Near(cb[c])
  /\ cb[c].frn[2] # 0 => cb[c].frn[1] \in Conn /\ cb[c].frn[2] <= cb[cb[c].frn[1]].uniq

NameInv == \A q \in Traffic : q.op \in Named =>
  q.src[1] \in Conn /\ q.src[2] # 0 /\ q.src[2] <= cb[q.src[1]].uniq

Met(k) == k.sta \notin {"LSN", "RFS"} /\ k.frn[2] # 0

ToInv == \A c \in Conn : \A q \in Traffic : q.src = Lcl(c) /\ q.op \in Named \ {"RFC"} =>
  q.dst = cb[c].frn /\ Met(cb[c])

CallerInv == \A c \in Conn \ Listeners : \A d \in Conn :
  cb[c].frn[2] # 0 /\ cb[c].frn = Lcl(d) => cb[d].frn = Lcl(c) /\ Met(cb[d])

NamesInv == LifeInv /\ NameInv /\ ToInv /\ CallerInv

LEMMA TrafficGood == ASSUME TypeInv PROVE Traffic \subseteq GoodPackets
<1>1. \A c \in Conn : Kept(cb[c].obf) \subseteq GoodPackets
  <2> TAKE c \in Conn
  <2>1. cb[c].obf \in Seq(GoodPackets)
    BY FieldTypes DEF TypeInv
  <2> QED BY <2>1 DEF Kept
<1>2. \A h \in Hosts : Kept(chqrfc[h]) \subseteq GoodPackets
  BY DEF TypeInv, Kept
<1> QED BY <1>1, <1>2 DEF Traffic, TypeInv

\* What becomes of the names of the connection that moves.
LEMMA LifeFacts ==
  ASSUME TypeInv, TypeInv', NamesInv, NEW c \in Conn, Moves(c)
  PROVE  LET k == cb[c]
             r == cb'[c]
         IN /\ r.uniq = k.uniq \/ r.uniq = k.uniq + 1
            /\ r.uniq = k.uniq => /\ k.sta \notin {"LSN", "RFS"} => r.sta \notin {"LSN", "RFS"}
                                  /\ NotYet(k) => NotYet(r)
                                  /\ k.frn[2] # 0 => r.frn[2] # 0
                                  /\ Met(k) => r.frn = k.frn
            /\ \/ r.frn = k.frn /\ r.uniq = k.uniq /\ (Near(k) => Near(r))
               \/ r.frn[2] = 0 /\ Near(r) /\ r.uniq = k.uniq + 1
               \/ \E p \in Traffic : p.op \in Named /\ r.frn = p.src /\
                    \/ c \in Listeners
                    \/ p.op = "OPN" /\ p.dst = Lcl(c) /\ k.sta = "RFS" /\ r.uniq = k.uniq
<1> DEFINE k == cb[c]
           r == cb'[c]
<1>1. k \in Connections /\ r \in Connections /\ k.frn \in Address
  BY FieldTypes DEF TypeInv
<1>2. k.ibf \in Seq(PacketTypes) /\ k.uniq \in Nat
  BY <1>1 DEF Connections
<1>3. Effect(c, k, r)
  BY DEF Moves
<1> HIDE DEF k, r
<1> DEFINE Goal ==
      /\ r.uniq = k.uniq \/ r.uniq = k.uniq + 1
      /\ r.uniq = k.uniq => /\ k.sta \notin {"LSN", "RFS"} => r.sta \notin {"LSN", "RFS"}
                            /\ NotYet(k) => NotYet(r)
                            /\ k.frn[2] # 0 => r.frn[2] # 0
                            /\ Met(k) => r.frn = k.frn
      /\ \/ r.frn = k.frn /\ r.uniq = k.uniq /\ (Near(k) => Near(r))
         \/ r.frn[2] = 0 /\ Near(r) /\ r.uniq = k.uniq + 1
         \/ \E p \in Traffic : p.op \in Named /\ r.frn = p.src /\
              \/ c \in Listeners
              \/ p.op = "OPN" /\ p.dst = Lcl(c) /\ k.sta = "RFS" /\ r.uniq = k.uniq
<1> SUFFICES Goal
  BY DEF k, r
<1>4. CASE Starts(k, r)
  BY <1>2, <1>4 DEF Starts, Near
<1>5. CASE Drops(k, r)
  BY <1>5 DEF Drops, Fixed, Near, NotYet
<1>6. CASE Reads(k, r)
  <2>1. r.frn = k.frn /\ r.uniq = k.uniq /\ r.sta = k.sta /\ r.pc = k.pc
    BY <1>6 DEF Reads, Fixed
  <2>2. Near(k) => Near(r)
    <3>1. r.ibf = Tail(k.ibf) /\ k.ibf # <<>> /\ (r.sts => k.sts \/ Head(k.ibf).op \in Data)
      BY <1>6 DEF Reads
    <3>2. /\ Head(k.ibf) = k.ibf[1] /\ Len(k.ibf) \in Nat \ {0}
          /\ Len(r.ibf) = Len(k.ibf) - 1 /\ \A i \in 1 .. Len(r.ibf) : r.ibf[i] = k.ibf[i + 1]
      BY <1>2, <3>1, HeadTailProperties
    <3> QED BY <2>1, <3>1, <3>2 DEF Near, Data
  <2> QED BY <2>1, <2>2 DEF NotYet
<1>7. CASE Goes(k, r)
  BY <1>7 DEF Goes, Fixed, Near, NotYet
<1>8. ASSUME NEW p \in Traffic, Hooks(c, k, r, p) PROVE Goal
  <2>1. p.op = "RFC" /\ p.src[2] # 0
    BY <1>8 DEF Hooks, NamesInv, NameInv, Named
  <2> QED BY <1>8, <1>2, <2>1 DEF Hooks, NotYet, Near, Named, Met
<1>9. ASSUME NEW p \in Traffic, Opens(c, k, r, p) PROVE Goal
  <2>1. p.op = "OPN" /\ p.src[2] # 0
    BY <1>9 DEF Opens, NamesInv, NameInv, Named
  <2> QED BY <1>9, <1>2, <2>1 DEF Opens, NotYet, Named, Met
<1>10. ASSUME NEW p \in Traffic, Shuts(k, r, p) PROVE Goal
  <2>1. r.frn = k.frn /\ r.uniq = k.uniq /\ r.sta \in {"CLS", "LOS"} /\ r.pc = k.pc /\ r.sts = k.sts
    BY <1>10 DEF Shuts, Fixed
  <2>2. Near(k) => Near(r)
    <3>1. p.op \in {"CLS", "ANS", "LOS"} /\ r.ibf = Append(k.ibf, p)
      BY <1>10 DEF Shuts
    <3>2. \A i \in 1 .. Len(r.ibf) : (i \in 1 .. Len(k.ibf) /\ r.ibf[i] = k.ibf[i]) \/ r.ibf[i] = p
      BY <1>2, <3>1, AppendProperties
    <3> QED BY <2>1, <3>1, <3>2 DEF Near
  <2> QED BY <2>1, <2>2 DEF NotYet
<1>11. ASSUME NEW p \in Traffic, Gets(c, k, r, p) PROVE Goal
  <2>1. r.frn = k.frn /\ r.uniq = k.uniq /\ k.sta = "OPN" /\ r.sta = "OPN"
    BY <1>11 DEF Gets, Fixed
  <2> QED BY <2>1 DEF Near, NotYet
<1> QED
  BY <1>3, <1>4, <1>5, <1>6, <1>7, <1>8, <1>9, <1>10, <1>11 DEF Effect

LEMMA LifeMoves ==
  ASSUME TypeInv, TypeInv', NamesInv, NEW c \in Conn, Moves(c)
  PROVE  LifeInv' /\ NameInv'
<1> DEFINE k == cb[c]
           r == cb'[c]
<1>1. /\ \A d \in Conn : d # c => cb'[d] = cb[d]
      /\ \A q \in Traffic' : q.op \in Named => q \in Traffic \/ Fresh(c, k, r, q)
  BY DEF Moves
<1>2. \A d \in Conn : cb[d].uniq \in Nat /\ cb[d].frn \in Address
  BY FieldTypes DEF TypeInv
<1>3. \A q \in Traffic : q.src \in Address
  BY TrafficGood, PacketFields
<1>4. r.uniq = k.uniq \/ r.uniq = k.uniq + 1
  BY LifeFacts
<1>5. r.uniq = k.uniq /\ NotYet(k) => NotYet(r)
  BY LifeFacts
<1>6. \/ r.frn = k.frn /\ r.uniq = k.uniq /\ (Near(k) => Near(r))
      \/ r.frn[2] = 0 /\ Near(r)
      \/ \E p \in Traffic : p.op \in Named /\ r.frn = p.src
  BY LifeFacts
<1> HIDE DEF k, r
<1>7. \A d \in Conn : cb[d].uniq <= cb'[d].uniq /\ cb'[d].uniq \in Nat
  BY <1>1, <1>2, <1>4 DEF k, r
<1>8. /\ \A q \in Traffic : q.op \in Named => q.src[1] \in Conn /\ q.src[2] # 0
                                              /\ q.src[2] <= cb'[q.src[1]].uniq
      /\ \A d \in Conn : cb[d].frn[2] # 0 => cb[d].frn[1] \in Conn
                                              /\ cb[d].frn[2] <= cb'[cb[d].frn[1]].uniq
  BY <1>2, <1>3, <1>7 DEF NamesInv, LifeInv, NameInv, Address
<1>9. LifeInv'
  <2>1. ASSUME NEW d \in Conn
        PROVE  /\ cb'[d].uniq = 0 => NotYet(cb'[d])
               /\ cb'[d].frn[2] = 0 => Near(cb'[d])
               /\ cb'[d].frn[2] # 0 => cb'[d].frn[1] \in Conn /\ cb'[d].frn[2] <= cb'[cb'[d].frn[1]].uniq
    <3>1. CASE d # c
      BY <1>1, <1>8, <3>1 DEF NamesInv, LifeInv
    <3>2. CASE d = c
      <4>1. r.uniq = 0 => NotYet(r)
        BY <1>2, <1>4, <1>5 DEF NamesInv, LifeInv, k
      <4>2. r.frn[2] = 0 => Near(r)
        BY <1>6, <1>8 DEF NamesInv, LifeInv, k
      <4>3. r.frn[2] # 0 => r.frn[1] \in Conn /\ r.frn[2] <= cb'[r.frn[1]].uniq
        BY <1>6, <1>8 DEF k
      <4> QED BY <3>2, <4>1, <4>2, <4>3 DEF r
    <3> QED BY <3>1, <3>2
  <2> QED BY <2>1 DEF LifeInv
<1>10. NameInv'
  <2>1. ASSUME NEW q \in Traffic', q.op \in Named
        PROVE  q.src[1] \in Conn /\ q.src[2] # 0 /\ q.src[2] <= cb'[q.src[1]].uniq
    <3>1. CASE q \in Traffic
      BY <1>8, <2>1, <3>1
    <3>2. CASE Fresh(c, k, r, q)
      <4>1. q.src = <<c, r.uniq>> /\ r.uniq <= cb'[c].uniq
        BY <1>7, <3>2 DEF Fresh, r
      <4>2. r.uniq # 0
        <5>1. CASE q.op = "RFC"
          BY <1>2, <3>2, <5>1 DEF Fresh, k
        <5>2. CASE q.op # "RFC"
          <6>1. r.uniq = k.uniq /\ r.sta \notin {"LSN", "RFS"} /\ (~Near(k) \/ ~Near(r))
            BY <2>1, <3>2, <5>2 DEF Fresh
          <6>2. ~NotYet(k)
            BY <1>5, <6>1 DEF NotYet
          <6> QED BY <6>1, <6>2 DEF NamesInv, LifeInv, k
        <5> QED BY <5>1, <5>2
      <4> QED BY <4>1, <4>2
    <3> QED BY <1>1, <2>1, <3>1, <3>2
  <2> QED BY <2>1 DEF NameInv
<1> QED BY <1>9, <1>10

LEMMA ToMoves ==
  ASSUME TypeInv, TypeInv', NamesInv, LifeInv', NEW c \in Conn, Moves(c)
  PROVE  ToInv'
<1> DEFINE k == cb[c]
           r == cb'[c]
<1>1. /\ \A d \in Conn : d # c => cb'[d] = cb[d]
      /\ \A q \in Traffic' : q.op \in Named => q \in Traffic \/ Fresh(c, k, r, q)
  BY DEF Moves
<1>2. k.uniq \in Nat
  BY FieldTypes DEF TypeInv
<1>4. r.uniq = k.uniq \/ r.uniq = k.uniq + 1
  BY LifeFacts
<1>5. r.uniq = k.uniq => /\ k.sta \notin {"LSN", "RFS"} => r.sta \notin {"LSN", "RFS"}
                         /\ k.frn[2] # 0 => r.frn[2] # 0
                         /\ Met(k) => r.frn = k.frn
  BY LifeFacts
<1>6. /\ k.frn[2] = 0 => Near(k)
      /\ r.frn[2] = 0 => Near(r)
  BY DEF NamesInv, LifeInv
<1> HIDE DEF k, r
<1>7. ASSUME NEW d \in Conn, NEW q \in Traffic', q.src = <<d, cb'[d].uniq>>, q.op \in Named \ {"RFC"}
      PROVE  q.dst = cb'[d].frn /\ Met(cb'[d])
  <2>1. CASE q \in Traffic /\ d # c
    BY <1>1, <1>7, <2>1 DEF NamesInv, ToInv, Lcl
  <2>2. CASE q \in Traffic /\ d = c
    <3>1. q.src[1] = c /\ q.src[2] = r.uniq /\ q.src[2] <= k.uniq
      BY <1>7, <2>2 DEF NamesInv, NameInv, k, r
    <3>2. r.uniq = k.uniq
      BY <1>2, <1>4, <3>1
    <3>3. q.dst = k.frn /\ Met(k)
      BY <1>7, <2>2, <3>2 DEF NamesInv, ToInv, Lcl, k, r
    <3> QED BY <1>5, <2>2, <3>2, <3>3 DEF Met, r
  <2>3. CASE Fresh(c, k, r, q)
    <3>1. d = c /\ q.dst = r.frn
      BY <1>7, <2>3 DEF Fresh
    <3>2. r.uniq = k.uniq /\ r.sta \notin {"LSN", "RFS"} /\ (~Near(k) \/ ~Near(r))
      BY <1>7, <2>3 DEF Fresh
    <3>3. r.frn[2] # 0
      BY <1>5, <1>6, <3>2
    <3> QED BY <3>1, <3>2, <3>3 DEF Met, r
  <2> QED BY <1>1, <1>7, <2>1, <2>2, <2>3
<1> QED BY <1>7 DEF ToInv, Lcl

LEMMA CallerMoves ==
  ASSUME TypeInv, TypeInv', NamesInv, NEW c \in Conn, Moves(c)
  PROVE  CallerInv'
<1> DEFINE k == cb[c]
           r == cb'[c]
<1>1. \A d \in Conn : d # c => cb'[d] = cb[d]
  BY DEF Moves
<1>2. k.uniq \in Nat
  BY FieldTypes DEF TypeInv
<1>4. r.uniq = k.uniq \/ r.uniq = k.uniq + 1
  BY LifeFacts
<1>5. r.uniq = k.uniq => /\ k.sta \notin {"LSN", "RFS"} => r.sta \notin {"LSN", "RFS"}
                         /\ k.frn[2] # 0 => r.frn[2] # 0
                         /\ Met(k) => r.frn = k.frn
  BY LifeFacts
<1>6. \/ r.frn = k.frn /\ r.uniq = k.uniq
      \/ r.frn[2] = 0
      \/ c \in Listeners
      \/ \E p \in Traffic : /\ p.op = "OPN" /\ p.op \in Named /\ r.frn = p.src
                            /\ p.dst = Lcl(c) /\ k.sta = "RFS" /\ r.uniq = k.uniq
  BY LifeFacts
<1> HIDE DEF k, r
<1>7. ASSUME NEW a \in Conn \ Listeners, NEW b \in Conn, cb'[a].frn[2] # 0,
             cb'[a].frn = <<b, cb'[b].uniq>>
      PROVE  cb'[b].frn = <<a, cb'[a].uniq>> /\ Met(cb'[b])
  <2>1. CASE a # c /\ b # c
    BY <1>1, <1>7, <2>1 DEF NamesInv, CallerInv, Lcl
  <2>2. CASE a # c /\ b = c
    <3>1. cb[a].frn = <<c, r.uniq>> /\ cb[a].frn[2] # 0
      BY <1>1, <1>7, <2>2 DEF r
    <3>2. r.uniq <= k.uniq
      BY <1>7, <3>1 DEF NamesInv, LifeInv, k
    <3>3. r.uniq = k.uniq
      BY <1>2, <1>4, <3>2
    <3>4. k.frn = <<a, cb[a].uniq>> /\ Met(k) /\ cb[a].frn = Lcl(c)
      BY <1>7, <3>1, <3>3 DEF NamesInv, CallerInv, Lcl, k
    <3> QED BY <1>1, <1>5, <2>2, <3>3, <3>4 DEF Met, r
  <2>3. CASE a = c
    <3>1. r.frn[2] # 0 /\ r.frn = <<b, cb'[b].uniq>> /\ c \notin Listeners
      BY <1>7, <2>3 DEF r
    <3>2. CASE r.frn = k.frn /\ r.uniq = k.uniq
      <4>1. k.frn = Lcl(b)
        BY <1>1, <3>1, <3>2 DEF Lcl, k, r
      <4>2. cb[b].frn = Lcl(c) /\ Met(cb[b])
        BY <3>1, <3>2, <4>1 DEF NamesInv, CallerInv, k
      <4>3. CASE b # c
        <5>1. cb'[b] = cb[b]
          BY <1>1, <4>3
        <5>2. cb'[a].uniq = cb[c].uniq
          BY <2>3, <3>2 DEF k, r
        <5> QED BY <2>3, <4>2, <5>1, <5>2 DEF Lcl
      <4>4. CASE b = c
        <5>1. k.frn = <<c, k.uniq>> /\ Met(k)
          BY <4>2, <4>4 DEF Lcl, k
        <5>2. r.frn = <<c, r.uniq>> /\ Met(r)
          BY <1>5, <3>2, <5>1 DEF Met
        <5> QED BY <2>3, <4>4, <5>2 DEF r
      <4> QED BY <4>3, <4>4
    <3>3. ASSUME NEW p \in Traffic, p.op = "OPN", r.frn = p.src, p.dst = Lcl(c), k.sta = "RFS",
                 r.uniq = k.uniq
          PROVE  cb'[b].frn = <<a, cb'[a].uniq>> /\ Met(cb'[b])
      <4>1. p.src = Lcl(b)
        BY <1>1, <3>1, <3>3 DEF Lcl, k, r
      <4>2. p.dst = cb[b].frn /\ Met(cb[b])
        BY <3>3, <4>1 DEF NamesInv, ToInv, Named
      <4>3. b # c
        BY <3>3, <4>2 DEF Met, k
      <4> QED BY <1>1, <2>3, <3>3, <4>2, <4>3 DEF Met, Lcl, k, r
    <3> QED BY <1>6, <3>1, <3>2, <3>3
  <2> QED BY <2>1, <2>2, <2>3
<1> QED BY <1>7 DEF CallerInv, Lcl

LEMMA NamesRest == ASSUME NamesInv, Rests PROVE NamesInv'
<1>1. cb' = cb /\ \A q \in Traffic' : q.op \in Named => q \in Traffic
  BY DEF Rests
<1>2. LifeInv' /\ CallerInv'
  BY <1>1 DEF NamesInv, LifeInv, CallerInv, Lcl
<1>3. NameInv'
  BY <1>1 DEF NamesInv, NameInv
<1>4. ToInv'
  BY <1>1 DEF NamesInv, ToInv, Lcl
<1> QED BY <1>2, <1>3, <1>4 DEF NamesInv

LEMMA NamesInit == ASSUME ConnAssumption, Init PROVE Pending /\ NamesInv
<1>1. \A c \in Conn : cb[c] = Closed(0)
  BY DEF Init
<1>2. Traffic = {}
  BY <1>1 DEF Traffic, Kept, Init, Closed
<1>3. Pending
  BY DEF Pending, Kept, Init
<1>4. LifeInv
  BY <1>1 DEF LifeInv, NotYet, Near, Closed
<1>5. NameInv /\ ToInv
  BY <1>2 DEF NameInv, ToInv
<1>6. CallerInv
  BY <1>1 DEF CallerInv, Closed
<1> QED BY <1>3, <1>4, <1>5, <1>6 DEF NamesInv

NetInv == TypeInv /\ ControlInv /\ Pending /\ NamesInv

LEMMA NamesNext == ASSUME ConnAssumption, NetInv, [Next]_vars PROVE NetInv'
<1>1. TypeInv' /\ ControlInv'
  BY TypeNext, ControlNext DEF NetInv
<1>2. CASE Rests
  BY <1>1, <1>2, NamesRest DEF NetInv, Rests
<1>3. ASSUME NEW c \in Conn, Moves(c) PROVE Pending' /\ NamesInv'
  <2>1. LifeInv' /\ NameInv'
    BY <1>1, <1>3, LifeMoves DEF NetInv
  <2> QED BY <1>1, <1>3, <2>1, ToMoves, CallerMoves DEF NetInv, NamesInv, Moves
<1> QED BY <1>1, <1>2, <1>3, StepMoves DEF NetInv

LEMMA NetAlways == ASSUME ConnAssumption PROVE Spec => []NetInv
<1>1. Init => NetInv
  BY TypeInit, ControlInit, NamesInit DEF NetInv
<1>2. NetInv /\ [Next]_vars => NetInv'
  BY NamesNext
<1> QED BY <1>1, <1>2, PTL DEF Spec

(* When a caller has an open connection, the other end is hooked up to that very call. *)
THEOREM CallersAlways == Spec => []CallersAgree
<1>1. NetInv => CallersAgree
  <2> SUFFICES ASSUME NetInv, NEW c \in Callers \ Listeners, NEW d \in Conn, Open(c), cb[c].frn = Lcl(d)
               PROVE  cb[d].frn = Lcl(c)
    BY DEF CallersAgree
  <2>1. c \in Conn \ Listeners /\ ~Near(cb[c])
    BY ConnAssumption DEF Open, Near
  <2> QED BY <2>1 DEF NetInv, NamesInv, LifeInv, CallerInv
<1> QED BY <1>1, ConnAssumption, NetAlways, PTL
=============================================================================
