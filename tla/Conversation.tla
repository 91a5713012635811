---------------------------- MODULE Conversation ----------------------------
(***************************************************************************)
(* The life of a connection in the main thread: the event loop of          *)
(* Compromutator, the handshake and message handlers of Pipeline, and the  *)
(* two maps of SwitchManager.  The events come from the connection         *)
(* manager, which is represented by what it promises.                      *)
(*                                                                         *)
(* A message is told apart by what its handlers do with it:                *)
(*   hello      is forwarded by the handshake handler (Hello, Echo, ...)   *)
(*   features   brings the datapath id                                     *)
(*   ports      brings the ports                                           *)
(*   packetIn   waits for the handshake; its handler asks for the switch   *)
(*   flowMod    the same, from the controller                              *)
(***************************************************************************)
EXTENDS ConnectionEvents, SequencesExt

CONSTANTS
  Switches,   (* datapath ids                                              *)
  SwitchOf,   (* the switch at the other end of a connection               *)
  MaxEvents   (* bound on the length of the event queue                    *)

ASSUME SwitchOfAssumption == SwitchOf \in [Ids -> Switches]

Sorts == [switch |-> {"features", "ports", "packetIn"},
          controller |-> {"hello", "flowMod"}]

ASSUME SidesAssumption == Sides = DOMAIN Sorts

(* Variant: the handshake delays nothing. *)
AllSorts == {"hello", "features", "ports", "packetIn", "flowMod"}

ImmediateSorts == {"hello", "features", "ports"}

VARIABLES
  handshakes,    (* handshake_pipelines_: the information a handshake has  *)
  delayed,       (* the queue of each handshake pipeline                   *)
  handlers,      (* message_handlers_                                      *)
  switchMap,     (* connections that are in switch_map_                    *)
  connectionMap, (* connection_map_, from switches to connections          *)
  known,         (* switches the detector was told to add                  *)
  fault          (* "none", "handler" for a missing handler, "switch" for  *)
                 (* the use of a missing switch                            *)

(* History that only the properties read.                                  *)
VARIABLES
  handled,   (* the last message handled of each side that had to wait     *)
  inOrder,   (* such messages were handled in the order they came          *)
  rejected,  (* connections whose switch already had one                   *)
  cleared    (* connections over which a switch was initialised            *)

mainVars == <<handshakes, delayed, handlers, switchMap, connectionMap, known,
              fault, handled, inOrder, rejected, cleared>>
allVars == <<vars, mainVars>>

ConversationInit ==
  /\ Init
  /\ handshakes = <<>>
  /\ delayed = [c \in Ids |-> <<>>]
  /\ handlers = {}
  /\ switchMap = {}
  /\ connectionMap = <<>>
  /\ known = {}
  /\ fault = "none"
  /\ handled = [c \in Ids |-> [side \in Sides |-> 0]]
  /\ inOrder = TRUE
  /\ rejected = {}
  /\ cleared = {}
(***************************************************************************)
(* SwitchManager.                                                          *)
(***************************************************************************)

(* A map with one more entry.                                              *)
With(map, key, value) ==
  [k \in DOMAIN map \cup {key} |-> IF k = key THEN value ELSE map[k]]

(* A switch that is known is not added again, and is initialised over the  *)
(* connection that it is known by.                                         *)
Establish(c) ==
  LET d == SwitchOf[c]
      new == d \notin DOMAIN connectionMap
      map == IF new THEN With(connectionMap, d, c) ELSE connectionMap
  IN /\ connectionMap' = map
     /\ switchMap' = IF new THEN switchMap \cup {c} ELSE switchMap
     /\ known' = IF new THEN known \cup {d} ELSE known
     /\ rejected' = IF new THEN rejected ELSE rejected \cup {c}
     /\ cleared' = cleared \cup {map[d]}

KeepSwitches == UNCHANGED <<switchMap, connectionMap, known, rejected, cleared>>

(* Variant: the switch can still be found by its id.                       *)
ForgetConnection(c) ==
  IF c \in switchMap
  THEN /\ switchMap' = switchMap \ {c}
       /\ known' = known \ {SwitchOf[c]}
       /\ UNCHANGED <<connectionMap, rejected, cleared>>
  ELSE KeepSwitches

DeleteSwitch(c) ==
  IF c \in switchMap
  THEN /\ switchMap' = switchMap \ {c}
       /\ connectionMap' = Restrict(connectionMap, DOMAIN connectionMap \ {SwitchOf[c]})
       /\ known' = known \ {SwitchOf[c]}
       /\ UNCHANGED <<rejected, cleared>>
  ELSE KeepSwitches
(***************************************************************************)
(* Pipeline.                                                               *)
(***************************************************************************)

(* Ids are new.  So the switch that the temporary handler deletes with     *)
(* itself does not exist.                                                  *)
AddConnection(c) ==
  /\ handshakes' = With(handshakes, c, {})
  /\ handlers' = handlers \cup {c}
  /\ KeepSwitches
  /\ UNCHANGED <<delayed, fault, handled, inOrder>>

(* The handler deletes its switch; the handshake pipeline stays.           *)
DeleteConnection(c) ==
  /\ handlers' = handlers \ {c}
  /\ IF c \in handlers THEN DeleteSwitch(c) ELSE KeepSwitches
  /\ UNCHANGED <<handshakes, delayed, fault, handled, inOrder>>

NeedsSwitch(m) == m.sort \in {"packetIn", "flowMod"}

(* Where the messages of a side that ask for the switch are.               *)
Asking(messages, side) ==
  {i \in DOMAIN messages : NeedsSwitch(messages[i]) /\ messages[i].kind = side}

(* handle_message for one message after the other.                         *)
HandleMessages(c, messages) ==
  /\ fault' =
        CASE messages # <<>> /\ c \notin handlers -> "handler"
          [] /\ \E i \in DOMAIN messages : NeedsSwitch(messages[i])
             /\ c \in handlers /\ c \notin switchMap' -> "switch"
          [] OTHER -> "none"
  /\ handled' = [handled EXCEPT ![c] = [side \in Sides |->
        Max({@[side]} \cup {messages[i].n : i \in Asking(messages, side)})]]
  /\ inOrder' = (inOrder /\ \A side \in Sides : \A i \in Asking(messages, side) :
        /\ handled[c][side] < messages[i].n
        /\ \A j \in Asking(messages, side) : j < i => messages[j].n < messages[i].n)
  /\ UNCHANGED handlers

(* Variant: the newest first.                                              *)
DelayedNewestFirst(c) == Reverse(delayed[c])

Delayed(c) == delayed[c]

(* Variant: the handshake pipeline of the connection stays.                *)
KeepHandshake(c) ==
  /\ handshakes' = [handshakes EXCEPT ![c] = {"features", "ports"}]
  /\ delayed' = [delayed EXCEPT ![c] = <<>>]

EndHandshake(c) ==
  /\ handshakes' = Restrict(handshakes, DOMAIN handshakes \ {c})
  /\ delayed' = [delayed EXCEPT ![c] = <<>>]

(* A message during the handshake. *)
HandshakeMessage(c, m) ==
  LET info == handshakes[c] \cup ({m.sort} \cap {"features", "ports"})
      forwarded == IF m.sort \in ImmediateSorts THEN <<m>> ELSE <<>>
  IN IF info = {"features", "ports"}
     THEN /\ Establish(c)
          /\ HandleMessages(c, forwarded \o Delayed(c))
          /\ EndHandshake(c)
     ELSE /\ handshakes' = [handshakes EXCEPT ![c] = info]
          /\ delayed' = IF forwarded = <<>>
                        THEN [delayed EXCEPT ![c] = Append(@, m)] ELSE delayed
          /\ KeepSwitches
          /\ HandleMessages(c, forwarded)

ProcessMessage(c, m) ==
  IF c \in DOMAIN handshakes
  THEN HandshakeMessage(c, m)
  ELSE /\ KeepSwitches
       /\ HandleMessages(c, <<m>>)
       /\ UNCHANGED <<handshakes, delayed>>
(***************************************************************************)
(* The event loop.                                                         *)
(***************************************************************************)
HandleProxyEvent ==
  /\ fault = "none"
  /\ Take
  /\ LET e == Head(events)
     IN CASE e.kind = "new" -> AddConnection(e.id)
          [] e.kind = "closed" -> DeleteConnection(e.id)
          [] OTHER -> \E sort \in Sorts[e.kind] :
               ProcessMessage(e.id, [kind |-> e.kind, n |-> e.n, sort |-> sort])
  /\ UNCHANGED intact

PostEvent ==
  /\ fault = "none"
  /\ Len(events) < MaxEvents
  /\ Arrive
  /\ UNCHANGED <<intact, mainVars>>

ConversationNext == PostEvent \/ HandleProxyEvent

ConversationSpec == ConversationInit /\ [][ConversationNext]_allVars
----
(* Every variable keeps to its type, and no handshake lives on that has    *)
(* all it waits for.                                                       *)
TypeOK ==
  /\ DOMAIN handshakes \subseteq Ids
  /\ \A c \in DOMAIN handshakes : handshakes[c] \in {{}, {"features"}, {"ports"}}
  /\ \A c \in Ids : delayed[c] # <<>> => c \in DOMAIN handshakes
  /\ handlers \subseteq Ids
  /\ switchMap \subseteq Ids
  /\ DOMAIN connectionMap \subseteq Switches
  /\ known \subseteq Switches
  /\ fault \in {"none", "handler", "switch"}
  /\ rejected \subseteq Ids
  /\ cleared \subseteq Ids

(* The two maps of the switch manager and the switches of the detector     *)
(* tell the same, of connections that have a handler, and every switch was *)
(* initialised over the connection it is known by.                         *)
RegistryAgrees ==
  /\ known = DOMAIN connectionMap
  /\ switchMap = {connectionMap[d] : d \in known}
  /\ \A d \in known :
       /\ SwitchOf[connectionMap[d]] = d
       /\ connectionMap[d] \in cleared
  /\ fault = "none" => switchMap \subseteq handlers

(* Connections that are past their handshake and have no switch: a message *)
(* of theirs is what asks for a missing one.                               *)
Stranded == handlers \ (DOMAIN handshakes \cup switchMap)

(* The process ends only by a message behind the end of its connection, or *)
(* by one of a connection that was turned down because its switch was      *)
(* still known by another: no connection lacks its switch otherwise.       *)
FaultsExplained ==
  /\ fault = "handler" => \E c \in Ids : stage[c] = "late" /\ c \notin handlers
  /\ fault = "switch" => Stranded # {} /\ Stranded \subseteq rejected

(* The handshake keeps the messages of a side that it delays in order.     *)
DelayedInOrder == inOrder
====
