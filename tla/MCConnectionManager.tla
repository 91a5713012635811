------------------------ MODULE MCConnectionManager ------------------------
(* One connection: the entries of the maps are kept apart by their ids, so *)
(* that all it takes is two threads with enough messages to meet.          *)
EXTENDS ConnectionManager, TLC

CONSTANT c1

OneId == {c1}
Messages == "switch" :> 3 @@ "controller" :> 2
====
