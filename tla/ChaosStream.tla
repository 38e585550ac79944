----------------------------- MODULE ChaosStream -----------------------------
(***************************************************************************)
(* What one direction of a Chaosnet connection promises: packets are       *)
(* committed by the writer, received by the NCP at the other end, read by  *)
(* its user, and acknowledged, in that order and each once, and the writer *)
(* stays within the window (sysdoc/chaord.57, flow and error control).     *)
(* The counters count packets from the start of the connection.            *)
(***************************************************************************)
EXTENDS Integers

CONSTANTS Win,      \* the window the reader asked for
          MaxWrote  \* bound: packets written

VARIABLES up,     \* both ends know of each other
          wrote, got, read, acked
stream == <<up, wrote, got, read, acked>>

InStep(a, r, g, w) == a <= r /\ r <= g /\ g <= w /\ w <= r + Win

Init == up = FALSE /\ wrote = 0 /\ got = 0 /\ read = 0 /\ acked = 0

(* The ends hear of each other; by then some packets may be under way. *)
Join ==
  /\ ~up /\ up' = TRUE
  /\ acked' \in 0 .. MaxWrote /\ read' \in 0 .. MaxWrote
  /\ got' \in 0 .. MaxWrote /\ wrote' \in 0 .. MaxWrote
  /\ InStep(acked', read', got', wrote') /\ wrote' <= acked' + Win

Commit ==
  /\ up /\ wrote < acked + Win /\ wrote < MaxWrote
  /\ wrote' = wrote + 1
  /\ UNCHANGED <<up, got, read, acked>>

(* A packet that fills a gap brings those behind it along. *)
Arrive ==
  /\ up /\ got' \in got + 1 .. wrote
  /\ UNCHANGED <<up, wrote, read, acked>>

Read ==
  /\ up /\ read < got /\ read' = read + 1
  /\ UNCHANGED <<up, wrote, got, acked>>

(* Acknowledgements come late and out of order; the greatest counts. *)
Ack ==
  /\ up /\ acked' \in acked + 1 .. read
  /\ UNCHANGED <<up, wrote, got, read>>

Part ==
  /\ up /\ up' = FALSE
  /\ wrote' = 0 /\ got' = 0 /\ read' = 0 /\ acked' = 0

Next == Join \/ Commit \/ Arrive \/ Read \/ Ack \/ Part

Spec == Init /\ [][Next]_stream

-----------------------------------------------------------------------------
TypeOK ==
  /\ up \in BOOLEAN
  /\ wrote \in 0 .. MaxWrote /\ got \in 0 .. MaxWrote
  /\ read \in 0 .. MaxWrote /\ acked \in 0 .. MaxWrote

(* Nothing is acknowledged unread, read unreceived or received unwritten, and the writer is *)
(* at most one window ahead of the reader, whose buffers are sized for that (CHIDAT).        *)
Flows == InStep(acked, read, got, wrote)
=============================================================================
