-------------------------------- MODULE Chaos --------------------------------
(***************************************************************************)
(* Connections of the Chaosnet NCP (chaos.292) over a network that loses,  *)
(* duplicates and reorders packets.  Both ends run this code.              *)
(*                                                                         *)
(* cb[c] holds the variables of index c: usr (CHSUSR), sta and the flags   *)
(* off, sts, half of CHSSTA, ibf, pbf, obf (CHSIBF, CHSPBF, CHSOBF), pknr  *)
(* and pknx (the halves of CHSPKN), ackr and ackx (of CHSACK), winx (the   *)
(* transmit half of CHSWIN), nos (CHSNOS), frn (CHSFRN), uniq (the         *)
(* uniquizer in CHSLCL).  pc is where the job of the connection is in its  *)
(* system call.  Network interrupts happen between any two steps of a job. *)
(***************************************************************************)
EXTENDS PktNum, Sequences, FiniteSets, SequencesExt

CONSTANTS
  Conn,       \* the indices, of all hosts together
  HostOf,     \* the host an index belongs to
  Window,     \* the receive window given to CHAOSO
  Callers,    \* indices whose jobs send RFCs
  Listeners,  \* indices whose jobs listen
  Kinds,      \* which of EOF, UNC, ANS, CLS, CLOSE the job of each connection uses besides data
  UncNumbers, \* what users put in the packet number of an UNC
  Faults,     \* which of DUP, NOMEM, SILENCE happen
  MaxPkn,     \* bound: the last packet number an index uses
  MaxUniq,    \* bound: how often an index is initialized
  MaxNet      \* bound: packets in the network; it loses what does not fit

ASSUME ConnAssumption ==
  /\ Conn \subseteq Nat \ {0}
  /\ HostOf \in [Conn -> Nat \ {0}]
  /\ Window \in [Conn -> 1 .. 64]
  /\ Callers \subseteq Conn /\ Listeners \subseteq Conn
  /\ MaxPkn \in [Conn -> PktNumber] /\ MaxUniq \in [Conn -> Nat]
  /\ UncNumbers \subseteq PktNumber

VARIABLES cb, chqlsn, chqrfc, net
vars == <<cb, chqlsn, chqrfc, net>>

-----------------------------------------------------------------------------
Hosts == {HostOf[c] : c \in Conn}

(* An address: an index with its uniquizer, or a host with neither. *)
Lcl(c) == <<c, cb[c].uniq>>
HostAddr(h) == <<h, 0>>
SourceHost(p) == IF p.src[2] = 0 THEN p.src ELSE HostAddr(HostOf[p.src[1]])

Closed(uniq) ==
  [usr |-> FALSE, sta |-> "CLS", off |-> TRUE, sts |-> FALSE, half |-> FALSE,
   ibf |-> <<>>, pbf |-> <<>>, obf |-> <<>>, pknr |-> 0, pknx |-> 0,
   ackr |-> 0, ackx |-> 0, winx |-> 0, nos |-> 0, frn |-> <<0, 0>>,
   uniq |-> uniq, pc |-> "user", op |-> "DAT"]

Init ==
  /\ cb = [c \in Conn |-> Closed(0)]
  /\ chqlsn = [h \in Hosts |-> <<>>]
  /\ chqrfc = [h \in Hosts |-> <<>>]
  /\ net = {}

Hears(c) == cb[c].usr /\ ~cb[c].off

-----------------------------------------------------------------------------
(* Packets.  Every one carries a number and an acknowledgement; rcp and win *)
(* are the data of a STS or an OPN.                                        *)

Packet(op, src, dst, pn, ack, rcp, win) ==
  [op |-> op, src |-> src, dst |-> dst, pn |-> pn, ack |-> ack, rcp |-> rcp, win |-> win]

\* Mutant: acknowledge what has been received, not what has been read.
OutgoingEarly(c, k, op, pn) ==
  Packet(op, <<c, k.uniq>>, k.frn, pn, IF k.ibf = <<>> THEN k.pknr ELSE Last(k.ibf).pn, 0, 0)

(* CHODT2: a packet of connection k to the other end, piggy-backing an acknowledgement. *)
Outgoing(c, k, op, pn) == Packet(op, <<c, k.uniq>>, k.frn, pn, k.pknr, 0, 0)

\* Mutant: receipt the last packet there is, in order or not.
DPBRCPAny(k) == IF k.pbf = <<>> THEN k.pknr ELSE Last(k.pbf).pn

(* The last packet received in order, read or not. *)
DPBRCP(k) == IF k.ibf = <<>> THEN k.pknr ELSE Last(k.ibf).pn

WithReceipt(c, k, p) == [p EXCEPT !.rcp = DPBRCP(k), !.win = Window[c]]

(* CHASTO: send a STS, or leave the flag on for the clock when there is no buffer. *)
CHASTO(c, k, mem) ==
  IF mem
    THEN [k |-> [k EXCEPT !.sts = FALSE, !.ackr = k.pknr],
          out |-> {WithReceipt(c, k, Outgoing(c, k, "STS", 0))}]
    ELSE [k |-> [k EXCEPT !.sts = TRUE], out |-> {}]

Mem == IF "NOMEM" \in Faults THEN BOOLEAN ELSE {TRUE}

(* CHAXMT, down to the other end: the queue of the interface is part of the network. *)
Sent(n, out) == IF Cardinality(n \cup out) <= MaxNet THEN n \cup out ELSE n

Rest(p) == {net \ {p}} \cup (IF "DUP" \in Faults THEN {net} ELSE {})

(* CHALOS and CHIRF2: turn a packet round. *)
Returned(op, p) == Packet(op, p.dst, p.src, 0, 0, 0, 0)

\* Mutant: nothing is sent again.
CHARTRNever(k) == {{}}

(* CHARTR: the head of the send list, unless sent too recently. *)
CHARTR(k) == {{}} \cup (IF k.obf = <<>> THEN {} ELSE {{Head(k.obf)}})

-----------------------------------------------------------------------------
(* System calls.  PKTIOT output starts with CHAIOS, which reads the state.  *)

(* CHAOSO: take an index that is not in use and initialize it (CHASO4). *)
CHAOSO(c) ==
  /\ ~cb[c].usr /\ cb[c].uniq < MaxUniq[c]
  /\ cb' = [cb EXCEPT ![c] = [Closed(cb[c].uniq + 1) EXCEPT !.usr = TRUE]]
  /\ UNCHANGED <<chqlsn, chqrfc, net>>

CanIO(c) == cb[c].usr /\ ~cb[c].half /\ cb[c].pc = "user"

(* CHORF1: flush the buffers and initialize again; CHSWIN stays. *)
CHORF1(k) == [Closed(k.uniq + 1) EXCEPT !.usr = TRUE, !.winx = k.winx]

CanStart(c) == CanIO(c) /\ cb[c].sta = "CLS" /\ cb[c].uniq < MaxUniq[c]

CHORFC(c, h) ==
  /\ c \in Callers /\ CanStart(c)
  /\ LET k == [CHORF1(cb[c]) EXCEPT !.frn = HostAddr(h), !.sta = "RFS",
                                    !.off = FALSE, !.pknx = 1]
         p == Outgoing(c, k, "RFC", 1)
     IN /\ cb' = [cb EXCEPT ![c] = [k EXCEPT !.obf = <<p>>]]
        /\ net' = Sent(net, {p})
  /\ UNCHANGED <<chqlsn, chqrfc>>

(* CHIRF0: hook a listening connection up to the RFC.  CHICL2 follows. *)
CHIRF0(k, p) ==
  [k EXCEPT !.pknr = p.pn, !.frn = p.src, !.sta = "RFC", !.off = TRUE,
            !.pbf = <<>>, !.obf = <<>>, !.ibf = Append(@, p)]

(* CHOLSN: match a pending RFC, or, with interrupts on again, go and queue the listen. *)
CHOLSN(c) ==
  /\ c \in Listeners /\ CanStart(c)
  /\ LET k == [CHORF1(cb[c]) EXCEPT !.sta = "LSN"]
         pending == chqrfc[HostOf[c]]
     IN IF pending = <<>>
          THEN /\ cb' = [cb EXCEPT ![c] = [k EXCEPT !.pc = "listen"]]
               /\ UNCHANGED chqrfc
          ELSE /\ cb' = [cb EXCEPT ![c] = CHIRF0(k, Head(pending))]
               /\ chqrfc' = [chqrfc EXCEPT ![HostOf[c]] = Tail(@)]
  /\ UNCHANGED <<chqlsn, net>>

CHAQPL(c) ==
  /\ cb[c].pc = "listen"
  /\ cb' = [cb EXCEPT ![c].pc = "user"]
  /\ chqlsn' = [chqlsn EXCEPT ![HostOf[c]] = Append(@, c)]
  /\ UNCHANGED <<chqrfc, net>>

CHOOPN(c) ==
  /\ CanIO(c) /\ cb[c].sta = "RFC"
  /\ LET k == [cb[c] EXCEPT !.sta = "OPN", !.off = FALSE, !.sts = FALSE,
                            !.pknx = Succ(@), !.ackr = cb[c].pknr]
         p == WithReceipt(c, k, Outgoing(c, k, "OPN", k.pknx))
     IN /\ cb' = [cb EXCEPT ![c] = [k EXCEPT !.obf = Append(@, p)]]
        /\ net' = Sent(net, {p})
  /\ UNCHANGED <<chqlsn, chqrfc>>

(* CHOCLS and CHOFWD: send it once, closed without waiting. *)
Shut(c, op, from) ==
  /\ op \in Kinds[c] /\ CanIO(c) /\ cb[c].sta \in from
  /\ LET k == [cb[c] EXCEPT !.sta = "CLS", !.off = TRUE, !.sts = FALSE, !.ackr = cb[c].pknr]
     IN /\ cb' = [cb EXCEPT ![c] = k]
        /\ net' = Sent(net, {Outgoing(c, k, op, 0)})
  /\ UNCHANGED <<chqlsn, chqrfc>>

CHOCLS(c) == Shut(c, "CLS", {"OPN", "RFC"})
CHOFWD(c) == Shut(c, "ANS", {"RFC"})

(* CHODAT and CHOEOF: the connection must be open; wait if the window is full. *)
CHODAT(c, op) ==
  /\ op \in {"DAT"} \cup (Kinds[c] \cap {"EOF"})
  /\ CanIO(c) /\ cb[c].sta = "OPN" /\ cb[c].pknx < MaxPkn[c]
  /\ cb' = [cb EXCEPT ![c].pc = IF cb[c].nos > 0 THEN "number" ELSE "window", ![c].op = op]
  /\ UNCHANGED <<chqlsn, chqrfc, net>>

(* UFLS: go on when there is window, or be backed out of the call. *)
WindowOpens(c) ==
  /\ cb[c].pc = "window" /\ cb[c].nos > 0 /\ Hears(c)
  /\ cb' = [cb EXCEPT ![c].pc = "number"]
  /\ UNCHANGED <<chqlsn, chqrfc, net>>

BackedOut(c) ==
  /\ cb[c].pc = "window"
  /\ cb' = [cb EXCEPT ![c].pc = "user", ![c].op = "DAT"]
  /\ UNCHANGED <<chqlsn, chqrfc, net>>

(* CHODT1: number the packet. *)
CHODT1(c) ==
  /\ cb[c].pc = "number" /\ cb[c].op = "DAT"
  /\ cb' = [cb EXCEPT ![c].pknx = Succ(@), ![c].pc = "queue"]
  /\ UNCHANGED <<chqlsn, chqrfc, net>>

(* CHOOP1: the state that CHAIOS read is stored back, then the packet is numbered. *)
CHOOP1(c) ==
  /\ cb[c].pc = "number" /\ cb[c].op = "EOF"
  /\ cb' = [cb EXCEPT ![c].sta = "OPN", ![c].off = FALSE, ![c].sts = FALSE,
                      ![c].pknx = Succ(@), ![c].pc = "queue"]
  /\ UNCHANGED <<chqlsn, chqrfc, net>>

(* The rest, down to CHAXMT: put it on the send list and transmit it.  Only CHODAT *)
(* uses up window here.                                                           *)
Queue(c) ==
  /\ cb[c].pc = "queue"
  /\ LET p == Outgoing(c, cb[c], cb[c].op, cb[c].pknx)
     IN /\ cb' = [cb EXCEPT ![c].obf = Append(@, p),
                            ![c].nos = IF cb[c].op = "DAT" THEN @ - 1 ELSE @,
                            ![c].ackr = cb[c].pknr, ![c].pc = "user", ![c].op = "DAT"]
        /\ net' = Sent(net, {p})
  /\ UNCHANGED <<chqlsn, chqrfc>>

(* CHOUN2: an UNC on an open connection keeps the user's packet number. *)
CHOUNC(c, n) ==
  /\ "UNC" \in Kinds[c] /\ CanIO(c) /\ cb[c].sta = "OPN"
  /\ net' = Sent(net, {[Outgoing(c, cb[c], "UNC", n) EXCEPT !.ack = 0]})
  /\ UNCHANGED <<cb, chqlsn, chqrfc>>

(* CHPKIA: acknowledge an EOF at once, data when a third of the window is unacknowledged. *)
NeedsAck(c, k, p) ==
  \/ p.op = "EOF"
  \/ 3 * Unacked(p.pn, k.ackr) >= Window[c]

CHPKIA(c, k, p, mem) ==
  LET k1 == [k EXCEPT !.pknr = p.pn]
  IN IF NeedsAck(c, k, p) THEN CHASTO(c, k1, mem) ELSE [k |-> k1, out |-> {}]

(* CHPKI: give the first packet to the user, acknowledge it, and free it. *)
CHPKI(c) ==
  /\ CanIO(c) /\ cb[c].ibf # <<>>
  /\ LET p == Head(cb[c].ibf)
     IN \E mem \in Mem :
          LET a == IF p.op \in {"DAT", "EOF"} THEN CHPKIA(c, cb[c], p, mem)
                                              ELSE [k |-> cb[c], out |-> {}]
          IN /\ cb' = [cb EXCEPT ![c] = [a.k EXCEPT !.ibf = Tail(@)]]
             /\ net' = Sent(net, a.out)
  /\ UNCHANGED <<chqlsn, chqrfc>>

(* CHACLS of the first of the two channels. *)
CHACS7(c) ==
  /\ "CLOSE" \in Kinds[c] /\ CanIO(c)
  /\ cb' = [cb EXCEPT ![c].half = TRUE]
  /\ UNCHANGED <<chqlsn, chqrfc, net>>

(* CHACLS of the second: CHACS1 disengages the interrupt level and frees the buffers. *)
CHACS1(c) ==
  /\ cb[c].usr /\ cb[c].half /\ cb[c].pc = "user"
  /\ cb' = [cb EXCEPT ![c].off = TRUE, ![c].ibf = <<>>, ![c].pbf = <<>>,
                      ![c].obf = <<>>, ![c].pc = "close"]
  /\ UNCHANGED <<chqlsn, chqrfc, net>>

\* Mutant: the LSN packet is left on the queue.
CHACS4KeepLsn(c) ==
  /\ cb[c].pc = "close"
  /\ cb' = [cb EXCEPT ![c].usr = FALSE, ![c].pc = "user"]
  /\ \E mem \in Mem :
       net' = IF cb[c].sta = "OPN" /\ mem
                THEN Sent(net, {Packet("CLS", Lcl(c), cb[c].frn, 0, 0, 0, 0)})
                ELSE net
  /\ UNCHANGED <<chqlsn, chqrfc>>

(* The rest of CHACLS, from CHACS4 with interrupts off: return the index, and flush the *)
(* listen that may still be queued for it.                                              *)
CHACS4(c) ==
  /\ cb[c].pc = "close"
  /\ cb' = [cb EXCEPT ![c].usr = FALSE, ![c].pc = "user"]
  /\ chqlsn' = [chqlsn EXCEPT ![HostOf[c]] = RemoveFirst(@, c)]
  /\ \E mem \in Mem :
       net' = IF cb[c].sta = "OPN" /\ mem
                THEN Sent(net, {Packet("CLS", Lcl(c), cb[c].frn, 0, 0, 0, 0)})
                ELSE net
  /\ UNCHANGED chqrfc

-----------------------------------------------------------------------------
(* Clock level. *)

(* CHACLK, every half second: retransmit, and send the STS that is still due. *)
CHACLK(c) ==
  /\ Hears(c) /\ (cb[c].obf # <<>> \/ cb[c].sts)
  /\ \E again \in CHARTR(cb[c]), mem \in Mem :
       LET a == IF cb[c].sts THEN CHASTO(c, cb[c], mem) ELSE [k |-> cb[c], out |-> {}]
       IN /\ cb' = [cb EXCEPT ![c] = a.k]
          /\ net' = Sent(net, again \cup a.out)
  /\ UNCHANGED <<chqlsn, chqrfc>>

(* CHINT: a new state; only an open connection listens to the network. *)
CHINT(k, state) == [k EXCEPT !.sta = state, !.off = (state # "OPN")]

(* CHA5CL, every five seconds: nothing was heard for 90 seconds. *)
Silence(c) ==
  /\ "SILENCE" \in Faults /\ Hears(c)
  /\ cb' = [cb EXCEPT ![c] = CHINT(cb[c], "INC")]
  /\ UNCHANGED <<chqlsn, chqrfc, net>>

\* Mutant: probe when some packet is not acknowledged, but not for lack of window.
AwaitsAckOnly(k) == k.winx # 0 /\ k.ackx # k.pknx

(* CHA5CL: probe when there is no window, when an acknowledgement is due, or when idle. *)
AwaitsAck(k) == k.winx = 0 \/ k.ackx # k.pknx

Probe(c) ==
  /\ Hears(c) /\ cb[c].sta = "OPN"
  /\ AwaitsAck(cb[c]) \/ "SILENCE" \in Faults
  /\ cb' = [cb EXCEPT ![c].ackr = cb[c].pknr]
  /\ net' = Sent(net, {Outgoing(c, cb[c], "SNS", 0)})
  /\ UNCHANGED <<chqlsn, chqrfc>>

(* CHA5C4: refuse the RFC at the front of the queue when it is a minute old. *)
RfcTimesOut(h) ==
  /\ "SILENCE" \in Faults /\ chqrfc[h] # <<>>
  /\ chqrfc' = [chqrfc EXCEPT ![h] = Tail(@)]
  /\ net' = Sent(net, {Returned("CLS", Head(chqrfc[h]))})
  /\ UNCHANGED <<cb, chqlsn>>

(* CHAOSQ: the server job looks at the first RFC, which goes to the end of the queue. *)
CHAOSQ(h) ==
  /\ Len(chqrfc[h]) > 1
  /\ chqrfc' = [chqrfc EXCEPT ![h] = Append(Tail(@), Head(@))]
  /\ UNCHANGED <<cb, chqlsn, net>>

-----------------------------------------------------------------------------
(* Network interrupt level: CHAPII, one action per opcode.                  *)

\* Mutant: the uniquizer is not looked at.
CHFNDXAnyLife(p, c) ==
  /\ Hears(c) /\ p.dst[1] = c
  /\ cb[c].frn = IF cb[c].sta = "RFS" THEN SourceHost(p) ELSE p.src

(* CHFNDX: the connection a packet is for; in RFC-sent only the source host has to match. *)
CHFNDX(p, c) ==
  /\ Hears(c) /\ p.dst = Lcl(c)
  /\ cb[c].frn = IF cb[c].sta = "RFS" THEN SourceHost(p) ELSE p.src

NotFound(p) == \A c \in Conn : ~CHFNDX(p, c)

(* What the interrupt leaves: the packet is gone unless the network keeps a copy. *)
Becomes(p, c, k, out) ==
  /\ cb' = [cb EXCEPT ![c] = k]
  /\ \E rest \in Rest(p) : net' = Sent(rest, out)
  /\ UNCHANGED <<chqlsn, chqrfc>>

Answer(p, out) ==
  /\ \E rest \in Rest(p) : net' = Sent(rest, out)
  /\ UNCHANGED <<cb, chqlsn, chqrfc>>

CHABRT(p) == Answer(p, {})
CHALOS(p) == Answer(p, {Returned("LOS", p)})

\* Mutant: the packets that are under way are not counted.
FreeWindowWhole(winx, ackx, pknx) == winx

FreeWindow(winx, ackx, pknx) == winx - InUse(ackx, pknx)

(* CHIAK0: advance the window to ack, and take what rcp receipts off the send list. *)
CHIAK0(k, rcp, ack) ==
  LET first == SelectInSeq(k.obf, LAMBDA p : Before(rcp, p.pn))
      ackx == IF Before(k.ackx, ack) THEN ack ELSE k.ackx
  IN [k EXCEPT !.obf = IF first = 0 THEN <<>> ELSE SubSeq(@, first, Len(@)),
               !.ackx = ackx,
               !.nos = FreeWindow(k.winx, ackx, k.pknx)]

(* CHIST1: the window size and the receipt of a STS or an OPN. *)
CHIST1(k, p) == CHIAK0([k EXCEPT !.winx = p.win], p.rcp, p.ack)

(* CHICL2: into a state in which the network is not heard, with the packet for the user. *)
CHICL2(k, p, state) ==
  [CHINT(k, state) EXCEPT !.pbf = <<>>, !.obf = <<>>, !.ibf = Append(@, p)]

(* An RFC: join it to a listener; if there is none, discard a duplicate, refuse it, or *)
(* queue it and start a server job.                                                    *)
CHIRFC(p) ==
  LET h == p.dst[1]
      Known(c) == /\ HostOf[c] = h /\ cb[c].usr /\ cb[c].frn = p.src
                  /\ cb[c].sta \in {"OPN", "RFC"}
  IN /\ p.op = "RFC"
     /\ \/ /\ chqlsn[h] # <<>>
           /\ LET c == Head(chqlsn[h])
              IN /\ cb[c].sta = "LSN"
                 /\ cb' = [cb EXCEPT ![c] = CHIRF0(cb[c], p)]
           /\ chqlsn' = [chqlsn EXCEPT ![h] = Tail(@)]
           /\ \E rest \in Rest(p) : net' = rest
           /\ UNCHANGED chqrfc
        \/ /\ chqlsn[h] = <<>>
           /\ CHABRT(p)
        \/ /\ chqlsn[h] = <<>>
           /\ \A i \in 1 .. Len(chqrfc[h]) : chqrfc[h][i].src # p.src
           /\ \A c \in Conn : ~Known(c)
           /\ \/ Answer(p, {Returned("CLS", p)})
              \/ /\ chqrfc' = [chqrfc EXCEPT ![h] = <<p>> \o @]
                 /\ \E rest \in Rest(p) : net' = rest
                 /\ UNCHANGED <<cb, chqlsn>>

(* The connection is open: take over the window, and answer with a STS. *)
CHIOPN(p) ==
  /\ p.op = "OPN"
  /\ \/ NotFound(p) /\ CHALOS(p)
     \/ \E c \in Conn : CHFNDX(p, c) /\
          \/ cb[c].sta # "RFS" /\ CHABRT(p)
          \/ /\ cb[c].sta = "RFS"
             /\ LET k == CHIST1([cb[c] EXCEPT !.pknr = p.pn, !.frn = p.src], p)
                IN \E again \in CHARTR(k), mem \in Mem :
                     LET a == CHASTO(c, k, mem)
                     IN Becomes(p, c, CHINT(a.k, "OPN"), a.out \cup again)

(* ANS and FWD are for a connection in RFC-sent; CLS is for any. *)
CHICLS(p) ==
  /\ p.op \in {"CLS", "ANS"}
  /\ \/ NotFound(p) /\ IF p.op = "CLS" THEN CHALOS(p) ELSE CHABRT(p)
     \/ \E c \in Conn : CHFNDX(p, c) /\
          IF p.op = "ANS" /\ cb[c].sta # "RFS"
            THEN CHABRT(p)
            ELSE Becomes(p, c, CHICL2(cb[c], p, "CLS"), {})

CHILOS(p) ==
  /\ p.op = "LOS"
  /\ \/ NotFound(p) /\ CHABRT(p)
     \/ \E c \in Conn : CHFNDX(p, c) /\ Becomes(p, c, CHICL2(cb[c], p, "LOS"), {})

(* A SNS for a connection that is not open yet must not break it. *)
CHISNS(p) ==
  /\ p.op = "SNS"
  /\ \/ /\ NotFound(p)
        /\ IF \E c \in Conn : c = p.dst[1] /\ Hears(c) /\ cb[c].sta # "OPN"
             THEN CHABRT(p) ELSE CHALOS(p)
     \/ \E c \in Conn : CHFNDX(p, c) /\
          \/ cb[c].sta # "OPN" /\ CHABRT(p)
          \/ /\ cb[c].sta = "OPN"
             /\ \E mem \in Mem :
                  LET a == CHASTO(c, cb[c], mem) IN Becomes(p, c, a.k, a.out)

CHISTS(p) ==
  /\ p.op = "STS"
  /\ \/ NotFound(p) /\ CHALOS(p)
     \/ \E c \in Conn : CHFNDX(p, c) /\
          \/ cb[c].sta # "OPN" /\ CHALOS(p)
          \/ /\ cb[c].sta = "OPN"
             /\ LET k == CHIST1(cb[c], p)
                IN \E again \in CHARTR(k) : Becomes(p, c, k, again)

\* Mutant: the packets on CHSIBF are forgotten.
NextInOrderRead(k) == Succ(k.pknr)

(* CHIDT6: the number expected next follows the last packet on CHSIBF, UNCs not counted. *)
NextInOrder(k) ==
  LET last == SelectLastInSeq(k.ibf, LAMBDA p : p.op # "UNC")
  IN Succ(IF last = 0 THEN k.pknr ELSE k.ibf[last].pn)

(* CHIDT1: a packet in order brings with it those of CHSPBF that follow it. *)
CHIDT1(k, p) ==
  LET InOrder(n) == \A i \in 1 .. n : k.pbf[i].pn = (p.pn + i) % Mod
      n == CHOOSE n \in 0 .. Len(k.pbf) :
             InOrder(n) /\ (n = Len(k.pbf) \/ ~InOrder(n + 1))
  IN [k EXCEPT !.ibf = Append(@, p) \o SubSeq(k.pbf, 1, n),
               !.pbf = SubSeq(@, n + 1, Len(@))]

\* Mutant: at the end of CHSPBF.
OutOfOrderLast(k, p) == [k EXCEPT !.pbf = Append(@, p)]

(* CHIDT3: in its place on CHSPBF. *)
OutOfOrder(k, p) ==
  LET place == SelectInSeq(k.pbf, LAMBDA q : ~Before(q.pn, p.pn))
  IN [k EXCEPT !.pbf = IF place = 0 THEN Append(@, p) ELSE InsertAt(@, place, p)]

(* A data packet or an EOF; it carries an acknowledgement as well. *)
CHIDAT(p) ==
  /\ p.op \in {"DAT", "EOF"}
  /\ \/ NotFound(p) /\ CHALOS(p)
     \/ \E c \in Conn : CHFNDX(p, c) /\
          \/ cb[c].sta # "OPN" /\ CHALOS(p)
          \/ /\ cb[c].sta = "OPN"
             /\ LET k == CHIAK0(cb[c], p.ack, p.ack)
                    next == NextInOrder(k)
                    held == \E i \in 1 .. Len(k.pbf) : k.pbf[i].pn = p.pn
                IN \/ /\ OverWindow(Window[c], k.pknr, p.pn)
                      /\ Becomes(p, c, k, {})
                   \/ /\ ~OverWindow(Window[c], k.pknr, p.pn) /\ p.pn = next
                      /\ Becomes(p, c, CHIDT1(k, p), {})
                   \/ /\ ~OverWindow(Window[c], k.pknr, p.pn) /\ p.pn # next
                      /\ Before(next, p.pn) /\ ~held
                      /\ Becomes(p, c, OutOfOrder(k, p), {})
                   \/ /\ ~OverWindow(Window[c], k.pknr, p.pn) /\ p.pn # next
                      /\ ~Before(next, p.pn) \/ held
                      /\ \E mem \in Mem :
                           LET a == CHASTO(c, k, mem) IN Becomes(p, c, a.k, a.out)

(* CHIUNC does not go through CHFNDX. *)
CHIUNC(p) ==
  /\ p.op = "UNC"
  /\ \/ /\ \E c \in Conn : p.dst = Lcl(c) /\ cb[c].usr /\ cb[c].frn = p.src
                            /\ cb[c].sta = "OPN"
        /\ LET c == p.dst[1]
               full == /\ cb[c].ibf # <<>> /\ Last(cb[c].ibf).op = "UNC"
                       /\ Len(cb[c].ibf) >= Window[c]
           IN Becomes(p, c, IF full THEN cb[c] ELSE [cb[c] EXCEPT !.ibf = Append(@, p)], {})
     \/ /\ ~\E c \in Conn : p.dst = Lcl(c) /\ cb[c].usr /\ cb[c].frn = p.src
                             /\ cb[c].sta = "OPN"
        /\ CHALOS(p)

Lose(p) ==
  /\ net' = net \ {p}
  /\ UNCHANGED <<cb, chqlsn, chqrfc>>

-----------------------------------------------------------------------------
Call(c) ==
  \/ CHAOSO(c) \/ CHOLSN(c) \/ CHOOPN(c) \/ CHOCLS(c) \/ CHOFWD(c)
  \/ \E l \in Listeners : CHORFC(c, HostOf[l])
  \/ \E op \in {"DAT", "EOF"} : CHODAT(c, op)
  \/ \E n \in UncNumbers : CHOUNC(c, n)
  \/ CHACS7(c) \/ CHACS1(c)

Continue(c) ==
  CHAQPL(c) \/ WindowOpens(c) \/ BackedOut(c) \/ CHODT1(c) \/ CHOOP1(c) \/ Queue(c) \/ CHACS4(c)

Clock == \/ \E c \in Conn : CHACLK(c) \/ Silence(c) \/ Probe(c)
         \/ \E h \in Hosts : RfcTimesOut(h) \/ CHAOSQ(h)

CHAPII(p) == CHIRFC(p) \/ CHIOPN(p) \/ CHICLS(p) \/ CHILOS(p) \/ CHISNS(p)
             \/ CHISTS(p) \/ CHIDAT(p) \/ CHIUNC(p)

Next ==
  \/ \E c \in Conn : Call(c) \/ CHPKI(c) \/ Continue(c)
  \/ Clock
  \/ \E p \in net : CHAPII(p) \/ Lose(p)

Spec == Init /\ [][Next]_vars

(* Jobs go on with their calls, unless they are backed out, and read what there is; the  *)
(* clock runs; and of what is sent again and again the network delivers something.        *)
Resend(c) == CHACLK(c) /\ cb[c].obf # <<>> /\ Head(cb[c].obf) \in net'
ProbeGoesOut(c) == Probe(c) /\ net' # net
Deliver(c, op) == \E p \in net : p.src[1] = c /\ p.op = op /\ CHAPII(p)

Fairness ==
  /\ \A c \in Conn : /\ WF_vars(Continue(c) /\ ~BackedOut(c)) /\ WF_vars(CHPKI(c))
                      /\ SF_vars(Resend(c)) /\ SF_vars(ProbeGoesOut(c))
                      /\ \A op \in {"RFC", "OPN", "SNS", "STS", "DAT"} :
                           SF_vars(Deliver(c, op))

FairSpec == Spec /\ Fairness

-----------------------------------------------------------------------------
PacketTypes == [op : {"RFC", "OPN", "CLS", "ANS", "SNS", "STS", "LOS", "DAT", "EOF", "UNC"},
                src : Nat \X Nat, dst : Nat \X Nat, pn : PktNumber, ack : PktNumber,
                rcp : PktNumber, win : 0 .. 64]

(* CHSNOS may become negative: EOFs are not counted against the window (CHOOP1). *)
Connections ==
  [usr : BOOLEAN, sta : {"CLS", "LSN", "RFC", "RFS", "OPN", "LOS", "INC"}, off : BOOLEAN,
   sts : BOOLEAN, half : BOOLEAN, ibf : Seq(PacketTypes), pbf : Seq(PacketTypes),
   obf : Seq(PacketTypes), pknr : PktNumber, pknx : PktNumber, ackr : PktNumber,
   ackx : PktNumber, winx : 0 .. 64, nos : 1 - Mod .. 64, frn : Nat \X Nat, uniq : Nat,
   pc : {"user", "listen", "window", "number", "queue", "close"}, op : {"DAT", "EOF"}]

TypeOK ==
  /\ cb \in [Conn -> Connections]
  /\ chqlsn \in [Hosts -> Seq(Conn)]
  /\ chqrfc \in [Hosts -> Seq(PacketTypes)]
  /\ net \subseteq PacketTypes

(* The two ends of a connection that both know of each other. *)
Joined(c, d) ==
  /\ cb[c].usr /\ cb[d].usr
  /\ cb[c].frn = Lcl(d) /\ cb[d].frn = Lcl(c)

Open(c) == Hears(c) /\ cb[c].sta = "OPN"

(* The places of the data on CHSIBF, and the number that comes before that of place i. *)
Numbered(k) == {i \in DOMAIN k.ibf : k.ibf[i].op \in {"DAT", "EOF"}}

NumberBefore(k, i) ==
  LET earlier == {j \in Numbered(k) : j < i}
  IN IF earlier = {} THEN k.pknr ELSE k.ibf[Max(earlier)].pn

(* The packets a user is going to be given follow the last one it was given without a gap, *)
(* and come from the other end of this very connection (CHIDAT, CHFNDX).                    *)
NoGaps ==
  \A c \in Conn : \A i \in Numbered(cb[c]) :
    /\ cb[c].ibf[i].pn = Succ(NumberBefore(cb[c], i))
    /\ cb[c].ibf[i].src = cb[c].frn

(* Those that came early are kept in order, each once, behind a gap, and within the window, *)
(* so that a connection never holds more buffers than its window (CHIDAT, CHIDT3).           *)
EarlyOnesWait ==
  \A c \in Conn :
    LET k == cb[c]
    IN /\ \A i, j \in 1 .. Len(k.pbf) : i < j => Before(k.pbf[i].pn, k.pbf[j].pn)
       /\ \A i \in 1 .. Len(k.pbf) : Before(NextInOrder(k), k.pbf[i].pn)
       /\ Cardinality(Numbered(k)) + Len(k.pbf) <= Window[c]

(* A packet that the other end has not received in order is still on the send list, or    *)
(* about to be put there: whatever the network loses can be sent again (CHIAK0, DPBRCP).   *)
NothingLost ==
  \A c, d \in Conn : Joined(c, d) /\ Open(c) /\ Open(d) =>
    \A n \in 1 .. cb[c].pknx : ~Before(n, NextInOrder(cb[d])) =>
      \/ \E i \in 1 .. Len(cb[c].obf) : cb[c].obf[i].pn = n
      \/ cb[c].pc = "queue" /\ n = cb[c].pknx

(* No packet is acknowledged before it has been given to the user (CHPKIA). *)
AckMeansRead ==
  \A c, d \in Conn : Joined(c, d) => ~Before(cb[d].pknr, cb[c].ackx)

(* A sender is never further ahead of the reader than the window the reader asked for    *)
(* (CHSNOS, CHIAK2).                                                                     *)
WindowKept ==
  \A c, d \in Conn : Joined(c, d) /\ Open(c) =>
    ~OverWindow(Window[d], cb[d].pknr, cb[c].pknx)

(* FINISH returns when all the data sent has been acknowledged; the EOFs, which the     *)
(* window does not count, need not be (CHAFIN).                                          *)
FinishWaits ==
  \A c \in Conn : Open(c) /\ cb[c].pc = "user" /\ cb[c].winx > 0 /\ cb[c].winx <= cb[c].nos =>
    \A i \in DOMAIN cb[c].obf : cb[c].obf[i].op # "DAT" \/ ~Before(cb[c].ackx, cb[c].obf[i].pn)

(* What is on the listening queue is listening, and is there once: CHIRFC stops the      *)
(* system otherwise.                                                                     *)
ListenersListen ==
  \A h \in Hosts : \A i, j \in 1 .. Len(chqlsn[h]) :
    /\ cb[chqlsn[h][i]].sta = "LSN" /\ cb[chqlsn[h][i]].usr
    /\ i # j => chqlsn[h][i] # chqlsn[h][j]

(* When a caller that never listens has an open connection, the other end has accepted   *)
(* that very call: a packet for an earlier user of the index never opens it (CHSLCL,      *)
(* CHFNDX).                                                                               *)
CallersAgree ==
  \A c \in Callers \ Listeners, d \in Conn :
    Open(c) /\ cb[c].frn = Lcl(d) => cb[d].frn = Lcl(c)

(* A job that waits for window gets some, whatever the network loses, unless the job it *)
(* writes to does not read because it waits for window as well (CHA5CL, CHIAK2).          *)
WriterGoesOn ==
  \A c \in Conn : cb[c].pc = "window" ~>
    cb[c].pc # "window" \/ \A d \in Conn \ {c} : cb[d].pc = "window"

(* What is on a send list is received and taken off it (CHACLK, CHIAK0). *)
SendListEmpties ==
  \A c \in Conn : cb[c].sta = "OPN" /\ cb[c].obf # <<>> ~> cb[c].obf = <<>>

(* What ChaosStream counts for the direction from c to d, while the reader has its buffers. *)
Flowing(c, d) == Joined(c, d) /\ cb[d].pc # "close"
Count(c, d, n) == IF Flowing(c, d) THEN n ELSE 0

Stream(c, d) == INSTANCE ChaosStream WITH
  Win <- Window[d], MaxWrote <- MaxPkn[c], up <- Flowing(c, d),
  wrote <- Count(c, d, cb[c].pknx), got <- Count(c, d, NextInOrder(cb[d]) - 1),
  read <- Count(c, d, cb[d].pknr), acked <- Count(c, d, cb[c].ackx)

(* Each direction of each connection implements ChaosStream: a user reads what the other *)
(* one wrote, each packet once and in order, and the writer stays within the window       *)
(* (CHODAT, CHIDAT, CHPKI, CHIAK0).                                                       *)
StreamsFlow ==
  /\ \A c, d \in Conn : Stream(c, d)!Init
  /\ [][\A c, d \in Conn : c # d =>
        UNCHANGED Stream(c, d)!stream \/ Stream(c, d)!Next]_vars
=============================================================================
