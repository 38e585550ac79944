------------------------------- MODULE PktNum -------------------------------
(***************************************************************************)
(* Chaosnet packet numbers: sixteen bits, counted modulo 2^16, compared by *)
(* the sign of their difference (chaos.292).                               *)
(***************************************************************************)
EXTENDS Integers

Mod == 65536
Half == 32768
PktNumber == 0 .. Mod - 1

(* CAIL B,177777 / TDZA B,B / ADDI B,1 : the number after n. *)
Succ(n) == IF n >= Mod - 1 THEN 0 ELSE n + 1

(* TRNE D,100000 on a difference: its bit 15, which the code takes for its sign. *)
Minus(d) == d % Mod >= Half

Before(a, b) == Minus(a - b)

\* Mutant: SKIPGE for SKIPLE.
InUseSkipge(ack, pkn) == LET t == ack - pkn IN IF t < 0 THEN Mod - t ELSE 0 - t

(* SUB T,C / SKIPLE T / SUBI T,200000: how much of the window is occupied. *)
InUse(ack, pkn) == LET t == ack - pkn IN IF t > 0 THEN Mod - t ELSE 0 - t

(* SUB T,TT / SKIPGE T / ADDI T,200000: how many packets await an acknowledgement. *)
Unacked(pkn, ack) == LET t == pkn - ack IN IF t < 0 THEN t + Mod ELSE t

(* ADDI T,(B) / SUB T,C / TRNE T,100000: the packet is further than the window. *)
OverWindow(win, last, pn) == Minus(win + last - pn)
=============================================================================
