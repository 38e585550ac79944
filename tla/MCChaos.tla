------------------------------ MODULE MCChaos -------------------------------
(* Instances of Chaos for TLC. *)
EXTENDS Chaos

TwoHosts == (1 :> 1) @@ (2 :> 2)
SmallWindows == (1 :> 1) @@ (2 :> 2)
WideWindow == (1 :> 3) @@ (2 :> 1)
OneLife == (1 :> 2) @@ (2 :> 2)
OnePacket == (1 :> 1) @@ (2 :> 1)
ServerTalks == (1 :> 1) @@ (2 :> 3)
ServerOnce == (1 :> 1) @@ (2 :> 2)
CallerTwice == (1 :> 3) @@ (2 :> 2)
OnlyData == [c \in 1 .. 2 |-> {}]
AllKinds == (1 :> {"CLS"}) @@ (2 :> {"EOF", "UNC", "ANS", "CLOSE"})
ShortTalk == (1 :> 2) @@ (2 :> 3)
ServerAhead == (1 :> 1) @@ (2 :> 4)
OnlyUnc == [c \in 1 .. 2 |-> {"UNC"}]
=============================================================================
