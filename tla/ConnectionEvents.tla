-------------------------- MODULE ConnectionEvents --------------------------
(***************************************************************************)
(* What the connection manager promises the main thread about the events   *)
(* in its queue.  Of each connection, NEW comes first and CLOSED at most   *)
(* once.  Between them come the messages of each side in the order they    *)
(* were received, and behind CLOSED one more message at most.              *)
(* Nothing is promised once accesses of two threads have collided.         *)
(* ConnectionManager implements this specification.                        *)
(***************************************************************************)
EXTENDS Naturals, Sequences

CONSTANTS
  Ids,     (* connection ids                                               *)
  Sides,   (* the switch and the controller                                *)
  MaxSent  (* bound on the messages of each side of a connection           *)

VARIABLES
  stage,    (* how far each connection has come                            *)
  last,     (* the last message posted of each side of each connection     *)
  events,   (* the event queue                                             *)
  intact    (* no accesses have collided                                   *)

vars == <<stage, last, events, intact>>

Init ==
  /\ stage = [c \in Ids |-> "unknown"]
  /\ last = [c \in Ids |-> [side \in Sides |-> 0]]
  /\ events = <<>>
  /\ intact = TRUE

Post(c, kind, n) == events' = Append(events, [id |-> c, kind |-> kind, n |-> n])

PostNew(c) ==
  /\ stage[c] = "unknown"
  /\ stage' = [stage EXCEPT ![c] = "open"]
  /\ Post(c, "new", 0)
  /\ UNCHANGED last

PostClosed(c) ==
  /\ stage[c] = "open"
  /\ stage' = [stage EXCEPT ![c] = "closed"]
  /\ Post(c, "closed", 0)
  /\ UNCHANGED last

PostMessage(c, side) ==
  /\ \/ stage[c] = "open" /\ UNCHANGED stage
     \/ stage[c] = "closed" /\ stage' = [stage EXCEPT ![c] = "late"]
  /\ \E n \in last[c][side] + 1 .. MaxSent[side] :
       /\ last' = [last EXCEPT ![c][side] = n]
       /\ Post(c, side, n)

(* The main thread takes the oldest event.                                 *)
Take ==
  /\ events # <<>>
  /\ events' = Tail(events)
  /\ UNCHANGED <<stage, last>>

Arrive ==
  \E c \in Ids :
    \/ PostNew(c)
    \/ PostClosed(c)
    \/ \E side \in Sides : PostMessage(c, side)

Next ==
  \/ /\ Arrive \/ Take
     /\ UNCHANGED intact
  \/ intact' = FALSE
  \/ intact = FALSE

Spec == Init /\ [][Next]_vars
====
