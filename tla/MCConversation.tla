-------------------------- MODULE MCConversation --------------------------
(* One switch that connects twice. *)
EXTENDS Conversation, TLC

CONSTANTS c1, c2, d1

TwoIds == {c1, c2}
TwoSides == {"switch", "controller"}
Messages == "switch" :> 3 @@ "controller" :> 2
Ends == Permutations(TwoIds)
OneSwitch == [c \in TwoIds |-> d1]
====
