--------------------------- MODULE FlowModChannel ---------------------------
(***************************************************************************)
(* What the proxy promises the controller about its FlowMod messages: a    *)
(* FIFO channel to the switches.  Every message that was accepted is       *)
(* delivered at most once, in the order of acceptance and with none left   *)
(* out, until the process terminates; termination delivers a prefix of     *)
(* what is in flight and drops the rest.                                   *)
(* EpochPipeline implements this specification.                            *)
(***************************************************************************)
EXTENDS Naturals, Sequences, SequencesExt

CONSTANT Mods  (* the FlowMod messages the controller may send *)

VARIABLES
  inflight,   (* accepted and not delivered, oldest first     *)
  delivered,  (* what reached the switches, oldest first      *)
  open        (* FALSE once the process has terminated        *)

vars == <<inflight, delivered, open>>

Init ==
  /\ inflight = <<>>
  /\ delivered = <<>>
  /\ open = TRUE

Accept(m) ==
  /\ open
  /\ m \notin ToSet(inflight) \cup ToSet(delivered)
  /\ inflight' = Append(inflight, m)
  /\ UNCHANGED <<delivered, open>>

DeliverPrefix(n) == delivered' = delivered \o SubSeq(inflight, 1, n)

Deliver ==
  /\ open
  /\ \E n \in 1 .. Len(inflight) :
       /\ DeliverPrefix(n)
       /\ inflight' = SubSeq(inflight, n + 1, Len(inflight))
  /\ UNCHANGED open

Terminate ==
  /\ open
  /\ \E n \in 0 .. Len(inflight) : DeliverPrefix(n)
  /\ inflight' = <<>>
  /\ open' = FALSE

Next ==
  \/ \E m \in Mods : Accept(m)
  \/ Deliver
  \/ Terminate

Spec == Init /\ [][Next]_vars
====
