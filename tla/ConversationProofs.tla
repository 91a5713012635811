------------------------- MODULE ConversationProofs -------------------------
(***************************************************************************)
(* Proofs about Conversation, for any number of connections, switches and  *)
(* messages and an event queue of any length: the registries of switches   *)
(* agree, the process ends for two reasons only, and the handshake keeps   *)
(* the messages of each side in order.                                     *)
(***************************************************************************)
EXTENDS Conversation, SequenceFacts

Kinds == {"new", "closed"} \cup Sides
Event == [id : Ids, kind : Kinds, n : Int]
Message == [kind : Sides, n : Int, sort : Sorts.switch \cup Sorts.controller]

(* The event queue and the queues of the handshakes.                       *)
QueuesTyped ==
  /\ stage \in [Ids -> {"unknown", "open", "closed", "late"}]
  /\ events \in Seq(Event)
  /\ delayed \in [Ids -> Seq(Message)]

IsNew(i, c) == events[i].id = c /\ events[i].kind = "new"
IsClosed(i, c) == events[i].id = c /\ events[i].kind = "closed"
IsMessage(i, c) == events[i].id = c /\ events[i].kind \in Sides

(* An open connection has its handler or is about to get it.  So has a     *)
(* message when its turn comes, unless it came late; and an end of a       *)
(* connection in the queue is behind its beginning and is its only one.    *)
EventsInOrder ==
  \A c \in Ids :
    /\ stage[c] = "open" => c \in handlers \/ \E i \in DOMAIN events : IsNew(i, c)
    /\ \A j \in DOMAIN events :
         /\ IsClosed(j, c) => stage[c] \in {"closed", "late"}
         /\ IsMessage(j, c) =>
              \/ stage[c] = "late"
              \/ /\ c \in handlers \/ \E i \in 1 .. j - 1 : IsNew(i, c)
                 /\ \A i \in 1 .. j - 1 : ~IsClosed(i, c)

(* A connection that is past its handshake has its switch, or had to give  *)
(* way to another one of it.                                               *)
PastHandshake ==
  \A c \in handlers \ DOMAIN handshakes : c \in switchMap \cup rejected

IInv ==
  /\ TypeOK /\ QueuesTyped /\ RegistryAgrees /\ EventsInOrder /\ PastHandshake
  /\ FaultsExplained
----
LEMMA InitInv == ConversationInit => IInv
<1> SUFFICES ASSUME ConversationInit PROVE IInv
  OBVIOUS
<1> USE DEF ConversationInit, Init
<1>1. TypeOK
  BY DEF TypeOK
<1>2. QueuesTyped
  BY DEF QueuesTyped
<1>3. RegistryAgrees
  <2>1. DOMAIN connectionMap = {}
    OBVIOUS
  <2> QED BY <2>1 DEF RegistryAgrees
<1>4. PastHandshake /\ FaultsExplained
  BY DEF PastHandshake, FaultsExplained
<1>5. EventsInOrder
  <2>1. DOMAIN events = {} /\ \A c \in Ids : stage[c] = "unknown"
    OBVIOUS
  <2> QED BY <2>1 DEF EventsInOrder
<1> QED BY <1>1, <1>2, <1>3, <1>4, <1>5 DEF IInv
----
(* An event joins the queue.                                               *)
LEMMA PostStep ==
  ASSUME IInv, PostEvent
  PROVE  IInv'
<1> USE DEF PostNew, PostClosed, PostMessage
<1>1. PICK c \in Ids : PostNew(c) \/ PostClosed(c) \/ \E side \in Sides : PostMessage(c, side)
  BY DEF PostEvent, Arrive
<1>2. PICK kind \in Kinds, n \in Int :
        /\ events' = Append(events, [id |-> c, kind |-> kind, n |-> n])
        /\ \/ kind = "new" /\ stage[c] = "unknown" /\ stage' = [stage EXCEPT ![c] = "open"]
           \/ kind = "closed" /\ stage[c] = "open" /\ stage' = [stage EXCEPT ![c] = "closed"]
           \/ kind \in Sides /\ stage[c] = "open" /\ stage' = stage
           \/ kind \in Sides /\ stage[c] = "closed" /\ stage' = [stage EXCEPT ![c] = "late"]
  <2>1. CASE PostNew(c)
    BY <2>1 DEF Post, Kinds
  <2>2. CASE PostClosed(c)
    BY <2>2 DEF Post, Kinds
  <2>3. CASE \E side \in Sides : PostMessage(c, side)
    BY <2>3 DEF Post, Kinds
  <2> QED BY <1>1, <2>1, <2>2, <2>3
<1>3. /\ fault = "none" /\ stage \in [Ids -> {"unknown", "open", "closed", "late"}]
      /\ events \in Seq(Event) /\ "new" \notin Sides /\ "closed" \notin Sides
  BY SidesAssumption DEF PostEvent, IInv, QueuesTyped, Sorts
<1>4. /\ events' \in Seq(Event) /\ Len(events') = Len(events) + 1
      /\ \A i \in DOMAIN events : events'[i] = events[i]
      /\ events'[Len(events) + 1] = [id |-> c, kind |-> kind, n |-> n]
  BY <1>2, <1>3 DEF Event
<1>5. TypeOK' /\ QueuesTyped' /\ RegistryAgrees' /\ PastHandshake' /\ FaultsExplained'
  <2> USE DEF PostEvent, mainVars, IInv
  <2>1. TypeOK' /\ QueuesTyped'
    BY <1>2, <1>3, <1>4 DEF TypeOK, QueuesTyped
  <2>2. RegistryAgrees' /\ PastHandshake'
    BY DEF RegistryAgrees, PastHandshake
  <2>3. FaultsExplained'
    BY <1>3 DEF FaultsExplained
  <2> QED BY <2>1, <2>2, <2>3
<1>6. EventsInOrder'
  <2> SUFFICES ASSUME NEW d \in Ids
               PROVE  /\ stage'[d] = "open" =>
                           d \in handlers \/ \E i \in DOMAIN events' : IsNew(i, d)'
                      /\ \A j \in DOMAIN events' :
                           /\ IsClosed(j, d)' => stage'[d] \in {"closed", "late"}
                           /\ IsMessage(j, d)' =>
                                \/ stage'[d] = "late"
                                \/ /\ d \in handlers \/ \E i \in 1 .. j - 1 : IsNew(i, d)'
                                   /\ \A i \in 1 .. j - 1 : ~IsClosed(i, d)'
    BY DEF EventsInOrder, PostEvent, mainVars
  <2>1. /\ stage[d] = "open" => d \in handlers \/ \E i \in DOMAIN events : IsNew(i, d)
        /\ \A j \in DOMAIN events :
             /\ IsClosed(j, d) => stage[d] \in {"closed", "late"}
             /\ IsMessage(j, d) =>
                  \/ stage[d] = "late"
                  \/ /\ d \in handlers \/ \E i \in 1 .. j - 1 : IsNew(i, d)
                     /\ \A i \in 1 .. j - 1 : ~IsClosed(i, d)
    BY DEF IInv, EventsInOrder
  <2>2. \A i \in DOMAIN events :
          /\ IsNew(i, d)' <=> IsNew(i, d)
          /\ IsClosed(i, d)' <=> IsClosed(i, d)
          /\ IsMessage(i, d)' <=> IsMessage(i, d)
    BY <1>4 DEF IsNew, IsClosed, IsMessage
  <2>3. DOMAIN events = 1 .. Len(events) /\ DOMAIN events' = 1 .. Len(events) + 1
        /\ Len(events) \in Nat
    BY <1>3, <1>4
  <2>4. /\ stage[d] \in {"closed", "late"} => stage'[d] \in {"closed", "late"}
        /\ stage[d] = "late" => stage'[d] = "late"
    BY <1>2, <1>3
  <2>5. ASSUME stage'[d] = "open"
        PROVE  d \in handlers \/ \E i \in DOMAIN events' : IsNew(i, d)'
    <3>1. CASE stage[d] = "open"
      BY <2>1, <2>2, <2>3, <3>1
    <3>2. CASE stage[d] # "open"
      <4>1. d = c /\ kind = "new"
        BY <1>2, <1>3, <2>5, <3>2
      <4> QED BY <1>4, <2>3, <4>1 DEF IsNew
    <3> QED BY <3>1, <3>2
  <2>6. ASSUME NEW j \in DOMAIN events', IsClosed(j, d)'
        PROVE  stage'[d] \in {"closed", "late"}
    <3>1. CASE j \in DOMAIN events
      BY <2>1, <2>2, <2>4, <2>6, <3>1
    <3>2. CASE j = Len(events) + 1
      BY <1>2, <1>3, <1>4, <2>6, <3>2 DEF IsClosed
    <3> QED BY <2>3, <3>1, <3>2
  <2>7. ASSUME NEW j \in DOMAIN events', IsMessage(j, d)', stage'[d] # "late"
        PROVE  /\ d \in handlers \/ \E i \in 1 .. j - 1 : IsNew(i, d)'
               /\ \A i \in 1 .. j - 1 : ~IsClosed(i, d)'
    <3>1. 1 .. j - 1 \subseteq DOMAIN events
      BY <2>3
    <3>2. CASE j \in DOMAIN events
      BY <2>1, <2>2, <2>4, <2>7, <3>1, <3>2
    <3>3. CASE j = Len(events) + 1
      <4>1. d = c /\ kind \in Sides /\ stage[d] = "open"
        BY <1>2, <1>3, <1>4, <2>7, <3>3 DEF IsMessage
      <4>2. \A i \in 1 .. j - 1 : ~IsClosed(i, d)'
        BY <2>1, <2>2, <3>1, <4>1
      <4>3. DOMAIN events = 1 .. j - 1
        BY <2>3, <3>3
      <4>4. d \in handlers \/ \E i \in 1 .. j - 1 : IsNew(i, d)'
        BY <2>1, <2>2, <4>1, <4>3
      <4> QED BY <4>2, <4>4
    <3> QED BY <2>3, <3>2, <3>3
  <2> QED BY <2>5, <2>6, <2>7
<1> QED BY <1>5, <1>6 DEF IInv
----
(* The oldest event leaves the queue, and the handler of its connection    *)
(* comes or goes with it.                                                  *)
LEMMA TakeKeepsOrder ==
  ASSUME IInv, Take, NEW e, e = Head(events),
         handlers' = IF e.kind = "new" THEN handlers \cup {e.id}
                     ELSE IF e.kind = "closed" THEN handlers \ {e.id} ELSE handlers
  PROVE  EventsInOrder'
<1>1. /\ events \in Seq(Event) /\ events # <<>>
      /\ "new" \notin Sides /\ "closed" \notin Sides
  BY SidesAssumption DEF Take, IInv, QueuesTyped, Sorts
<1>2. /\ Len(events') = Len(events) - 1 /\ e = events[1]
      /\ DOMAIN events = 1 .. Len(events) /\ DOMAIN events' = 1 .. Len(events) - 1
      /\ \A i \in DOMAIN events' : events'[i] = events[i + 1]
      /\ Len(events) \in Nat \ {0}
  BY <1>1 DEF Take
<1>3. stage' = stage
  BY DEF Take
<1> SUFFICES ASSUME NEW c \in Ids
             PROVE  /\ stage[c] = "open" =>
                         c \in handlers' \/ \E i \in DOMAIN events' : IsNew(i, c)'
                    /\ \A j \in DOMAIN events' :
                         /\ IsClosed(j, c)' => stage[c] \in {"closed", "late"}
                         /\ IsMessage(j, c)' =>
                              \/ stage[c] = "late"
                              \/ /\ c \in handlers' \/ \E i \in 1 .. j - 1 : IsNew(i, c)'
                                 /\ \A i \in 1 .. j - 1 : ~IsClosed(i, c)'
  BY <1>3 DEF EventsInOrder
<1>4. /\ stage[c] = "open" => c \in handlers \/ \E i \in DOMAIN events : IsNew(i, c)
      /\ \A j \in DOMAIN events :
           /\ IsClosed(j, c) => stage[c] \in {"closed", "late"}
           /\ IsMessage(j, c) =>
                \/ stage[c] = "late"
                \/ /\ c \in handlers \/ \E i \in 1 .. j - 1 : IsNew(i, c)
                   /\ \A i \in 1 .. j - 1 : ~IsClosed(i, c)
  BY DEF IInv, EventsInOrder
<1>5. \A i \in DOMAIN events' :
        /\ IsNew(i, c)' <=> IsNew(i + 1, c)
        /\ IsClosed(i, c)' <=> IsClosed(i + 1, c)
        /\ IsMessage(i, c)' <=> IsMessage(i + 1, c)
  BY <1>2 DEF IsNew, IsClosed, IsMessage
<1>6. ASSUME c \in handlers, ~IsClosed(1, c) PROVE c \in handlers'
  BY <1>2, <1>6 DEF IsClosed
<1>7. ASSUME IsNew(1, c) PROVE c \in handlers'
  BY <1>2, <1>7 DEF IsNew
<1>8. 1 \in DOMAIN events
  BY <1>2
<1>9. ASSUME NEW k \in DOMAIN events', NEW i \in 2 .. k
      PROVE  i - 1 \in DOMAIN events' /\ i - 1 \in 1 .. k - 1 /\ (i - 1) + 1 = i
  BY <1>2
<1>10. ASSUME stage[c] = "open"
       PROVE  c \in handlers' \/ \E i \in DOMAIN events' : IsNew(i, c)'
  <2>1. ~IsClosed(1, c)
    BY <1>4, <1>8, <1>10
  <2>2. CASE c \in handlers
    BY <1>6, <2>1, <2>2
  <2>3. ASSUME NEW i \in DOMAIN events, IsNew(i, c)
        PROVE  c \in handlers' \/ \E k \in DOMAIN events' : IsNew(k, c)'
    <3>1. CASE i = 1
      BY <1>7, <2>3, <3>1
    <3>2. CASE i # 1
      <4>1. i - 1 \in DOMAIN events' /\ (i - 1) + 1 = i
        BY <1>2, <3>2
      <4> QED BY <1>5, <2>3, <4>1
    <3> QED BY <3>1, <3>2
  <2> QED BY <1>4, <1>10, <2>2, <2>3
<1>11. ASSUME NEW j \in DOMAIN events', IsClosed(j, c)'
       PROVE  stage[c] \in {"closed", "late"}
  BY <1>2, <1>4, <1>5, <1>11
<1>12. ASSUME NEW j \in DOMAIN events', IsMessage(j, c)', stage[c] # "late"
       PROVE  /\ c \in handlers' \/ \E i \in 1 .. j - 1 : IsNew(i, c)'
              /\ \A i \in 1 .. j - 1 : ~IsClosed(i, c)'
  <2>1. j + 1 \in DOMAIN events /\ (j + 1) - 1 = j
    BY <1>2
  <2>2. /\ c \in handlers \/ \E i \in 1 .. j : IsNew(i, c)
        /\ \A i \in 1 .. j : ~IsClosed(i, c)
    BY <1>4, <1>5, <1>12, <2>1
  <2>3. 1 \in 1 .. j
    BY <1>2
  <2>4. ASSUME NEW i \in 1 .. j - 1 PROVE ~IsClosed(i, c)'
    <3>1. i \in DOMAIN events' /\ i + 1 \in 1 .. j
      BY <1>2
    <3> QED BY <1>5, <2>2, <3>1
  <2>5. ASSUME c \in handlers PROVE c \in handlers'
    BY <1>6, <2>2, <2>3, <2>5
  <2>6. ASSUME NEW i \in 1 .. j, IsNew(i, c)
        PROVE  c \in handlers' \/ \E k \in 1 .. j - 1 : IsNew(k, c)'
    <3>1. CASE i = 1
      BY <1>7, <2>6, <3>1
    <3>2. CASE i # 1
      <4>1. i \in 2 .. j
        BY <3>2, <1>2
      <4>2. i - 1 \in DOMAIN events' /\ i - 1 \in 1 .. j - 1 /\ (i - 1) + 1 = i
        BY <1>9, <4>1
      <4> QED BY <1>5, <2>6, <4>2
    <3> QED BY <3>1, <3>2
  <2> QED BY <2>2, <2>4, <2>5, <2>6
<1> QED BY <1>10, <1>11, <1>12

(* A fault of a handler: it is missing, or its switch is.                  *)
LEMMA HandleFault ==
  ASSUME NEW c, NEW messages, HandleMessages(c, messages)
  PROVE  /\ handlers' = handlers /\ fault' \in {"none", "handler", "switch"}
         /\ fault' = "handler" <=> messages # <<>> /\ c \notin handlers
         /\ fault' = "switch" =>
              /\ \E i \in DOMAIN messages : NeedsSwitch(messages[i])
              /\ c \in handlers /\ c \notin switchMap'
<1> DEFINE missing == messages # <<>> /\ c \notin handlers
           asking == /\ \E i \in DOMAIN messages : NeedsSwitch(messages[i])
                     /\ c \in handlers /\ c \notin switchMap'
<1>1. handlers' = handlers /\ fault' = CASE missing -> "handler"
                                         [] asking -> "switch"
                                         [] OTHER -> "none"
  BY DEF HandleMessages
<1>2. ~(missing /\ asking)
  OBVIOUS
<1> HIDE DEF missing, asking
<1>3. /\ fault' \in {"none", "handler", "switch"}
      /\ fault' = "handler" <=> missing
      /\ fault' = "switch" => asking
  BY <1>1, <1>2
<1> QED BY <1>1, <1>3 DEF missing, asking
----
(* A connection begins.                                                    *)
LEMMA NewStep ==
  ASSUME IInv, NEW c \in Ids, AddConnection(c), fault = "none",
         stage' = stage, events' \in Seq(Event)
  PROVE  TypeOK' /\ QueuesTyped' /\ RegistryAgrees' /\ PastHandshake' /\ FaultsExplained'
<1> USE DEF AddConnection, KeepSwitches, IInv
<1>1. DOMAIN handshakes' = DOMAIN handshakes \cup {c}
      /\ \A d \in DOMAIN handshakes' :
           handshakes'[d] = IF d = c THEN {} ELSE handshakes[d]
  BY DEF With
<1>2. TypeOK' /\ QueuesTyped'
  BY <1>1 DEF TypeOK, QueuesTyped
<1>3. RegistryAgrees' /\ PastHandshake' /\ FaultsExplained'
  BY <1>1 DEF RegistryAgrees, PastHandshake, FaultsExplained
<1> QED BY <1>2, <1>3

(* A connection ends, and with its handler goes its switch.                *)
LEMMA ClosedStep ==
  ASSUME IInv, NEW c \in Ids, DeleteConnection(c), fault = "none",
         stage' = stage, events' \in Seq(Event)
  PROVE  TypeOK' /\ QueuesTyped' /\ RegistryAgrees' /\ PastHandshake' /\ FaultsExplained'
<1>1. /\ handlers' = handlers \ {c}
      /\ UNCHANGED <<handshakes, delayed, fault, rejected, cleared>>
  BY DEF DeleteConnection, DeleteSwitch, KeepSwitches
<1>2. CASE c \in handlers /\ c \in switchMap
  <2> DEFINE d == SwitchOf[c]
             left == DOMAIN connectionMap \ {d}
  <2>1. /\ switchMap' = switchMap \ {c} /\ known' = known \ {d}
        /\ connectionMap' = [x \in left |-> connectionMap[x]]
    BY <1>2 DEF DeleteConnection, DeleteSwitch, Restrict
  <2>2. DOMAIN connectionMap' = left /\ \A x \in left : connectionMap'[x] = connectionMap[x]
    BY <2>1
  <2>3. RegistryAgrees'
    <3>1. /\ known = DOMAIN connectionMap
          /\ switchMap = {connectionMap[x] : x \in known}
          /\ \A x \in known : SwitchOf[connectionMap[x]] = x /\ connectionMap[x] \in cleared
          /\ switchMap \subseteq handlers
      BY DEF IInv, RegistryAgrees
    <3>2. connectionMap[d] = c
      BY <1>2, <3>1
    <3>3. switchMap' = {connectionMap'[x] : x \in known'}
      <4>1. known' = left /\ \A x \in left : x # d /\ connectionMap'[x] = connectionMap[x]
        BY <2>1, <2>2, <3>1
      <4>2. ASSUME NEW x \in left PROVE connectionMap'[x] \in switchMap'
        BY <2>1, <2>2, <3>1, <4>1, <4>2
      <4>3. ASSUME NEW b \in switchMap' PROVE \E x \in left : b = connectionMap'[x]
        BY <2>1, <2>2, <3>1, <3>2, <4>3
      <4> QED BY <4>1, <4>2, <4>3
    <3> QED BY <1>1, <2>1, <2>2, <3>1, <3>3 DEF RegistryAgrees
  <2>4. TypeOK' /\ QueuesTyped' /\ PastHandshake' /\ FaultsExplained'
    BY <1>1, <2>1, <2>2 DEF IInv, TypeOK, QueuesTyped, PastHandshake, FaultsExplained
  <2> QED BY <2>3, <2>4
<1>3. CASE ~(c \in handlers /\ c \in switchMap)
  <2>1. UNCHANGED <<switchMap, connectionMap, known>>
    BY <1>3 DEF DeleteConnection, DeleteSwitch, KeepSwitches
  <2>2. c \notin switchMap
    BY <1>3 DEF IInv, RegistryAgrees
  <2>3. TypeOK' /\ QueuesTyped'
    BY <1>1, <2>1 DEF IInv, TypeOK, QueuesTyped
  <2>4. RegistryAgrees'
    BY <1>1, <2>1, <2>2 DEF IInv, RegistryAgrees
  <2>5. PastHandshake' /\ FaultsExplained'
    BY <1>1, <2>1 DEF IInv, PastHandshake, FaultsExplained
  <2> QED BY <2>3, <2>4, <2>5
<1> QED BY <1>2, <1>3

(* A handshake ends with its switch being registered.                      *)
LEMMA EstablishAgrees ==
  ASSUME IInv, NEW c \in Ids, Establish(c), handlers' = handlers,
         fault = "none", fault' = "none" => c \in handlers
  PROVE  /\ RegistryAgrees'
         /\ c \in switchMap' \cup rejected'
         /\ switchMap \subseteq switchMap' /\ rejected \subseteq rejected'
         /\ switchMap' \subseteq Ids /\ DOMAIN connectionMap' \subseteq Switches
         /\ known' \subseteq Switches /\ rejected' \subseteq Ids /\ cleared' \subseteq Ids
<1> DEFINE d == SwitchOf[c]
<1>1. /\ known = DOMAIN connectionMap
      /\ switchMap = {connectionMap[x] : x \in known}
      /\ \A x \in known : SwitchOf[connectionMap[x]] = x /\ connectionMap[x] \in cleared
      /\ switchMap \subseteq handlers
  BY DEF IInv, RegistryAgrees
<1>2. d \in Switches
  BY SwitchOfAssumption
<1>3. CASE d \notin DOMAIN connectionMap
  <2>1. /\ connectionMap' = With(connectionMap, d, c)
        /\ switchMap' = switchMap \cup {c} /\ known' = known \cup {d}
        /\ rejected' = rejected /\ cleared' = cleared \cup {With(connectionMap, d, c)[d]}
    BY <1>3 DEF Establish
  <2>2. /\ DOMAIN connectionMap' = known \cup {d} /\ connectionMap'[d] = c
        /\ \A x \in known : connectionMap'[x] = connectionMap[x]
        /\ cleared' = cleared \cup {c}
    BY <1>1, <1>3, <2>1 DEF With
  <2>3. RegistryAgrees'
    BY <1>1, <2>1, <2>2 DEF RegistryAgrees
  <2> QED BY <1>2, <2>1, <2>2, <2>3 DEF IInv, TypeOK
<1>4. CASE d \in DOMAIN connectionMap
  <2>1. /\ connectionMap' = connectionMap /\ switchMap' = switchMap
        /\ known' = known /\ rejected' = rejected \cup {c}
        /\ cleared' = cleared \cup {connectionMap[d]}
    BY <1>1, <1>4 DEF Establish
  <2>2. RegistryAgrees'
    BY <1>1, <2>1 DEF RegistryAgrees
  <2>3. cleared' \subseteq Ids
    BY <1>1, <1>4, <2>1 DEF IInv, TypeOK
  <2> QED BY <2>1, <2>2, <2>3 DEF IInv, TypeOK
<1> QED BY <1>3, <1>4

(* A message is handled, delayed, or ends the handshake.                   *)
LEMMA MessageStep ==
  ASSUME IInv, NEW c \in Ids, NEW m \in Message, ProcessMessage(c, m),
         fault = "none", stage' = stage, events' \in Seq(Event),
         c \in handlers \/ stage[c] = "late"
  PROVE  /\ handlers' = handlers
         /\ TypeOK' /\ QueuesTyped' /\ RegistryAgrees' /\ PastHandshake' /\ FaultsExplained'
<1> DEFINE info == handshakes[c] \cup ({m.sort} \cap {"features", "ports"})
           forwarded == IF m.sort \in ImmediateSorts THEN <<m>> ELSE <<>>
           whole == {"features", "ports"}
<1>1. ASSUME NEW messages, HandleMessages(c, messages),
             \A x \in handlers \ DOMAIN handshakes' : x \in switchMap' \cup rejected',
             c \in DOMAIN handshakes' =>
               \A i \in DOMAIN messages : ~NeedsSwitch(messages[i])
      PROVE  /\ handlers' = handlers /\ fault' \in {"none", "handler", "switch"}
             /\ FaultsExplained'
  <2>1. /\ handlers' = handlers /\ fault' \in {"none", "handler", "switch"}
        /\ fault' = "handler" => c \notin handlers
        /\ fault' = "switch" =>
             c \notin switchMap' /\ c \notin DOMAIN handshakes' /\ c \in handlers
    BY <1>1, HandleFault
  <2>2. Stranded' \subseteq rejected'
    BY <1>1, <2>1 DEF Stranded
  <2>3. fault' = "switch" => c \in Stranded'
    BY <2>1 DEF Stranded
  <2> QED BY <2>1, <2>2, <2>3 DEF FaultsExplained
<1>2. CASE c \notin DOMAIN handshakes
  <2>1. HandleMessages(c, <<m>>) /\ UNCHANGED <<handshakes, delayed>> /\ KeepSwitches
    BY <1>2 DEF ProcessMessage
  <2>2. /\ c \notin DOMAIN handshakes'
        /\ \A x \in handlers \ DOMAIN handshakes' : x \in switchMap' \cup rejected'
    BY <1>2, <2>1 DEF KeepSwitches, IInv, PastHandshake
  <2>3. /\ handlers' = handlers /\ fault' \in {"none", "handler", "switch"}
        /\ FaultsExplained'
    BY <1>1, <2>1, <2>2
  <2>4. TypeOK' /\ QueuesTyped'
    BY <2>1, <2>3 DEF KeepSwitches, IInv, TypeOK, QueuesTyped
  <2>5. RegistryAgrees' /\ PastHandshake'
    BY <2>1, <2>3 DEF KeepSwitches, IInv, RegistryAgrees, PastHandshake
  <2> QED BY <2>3, <2>4, <2>5
<1>3. CASE c \in DOMAIN handshakes /\ info # whole
  <2>1. /\ handshakes' = [handshakes EXCEPT ![c] = info]
        /\ delayed' = IF forwarded = <<>> THEN [delayed EXCEPT ![c] = Append(@, m)]
                      ELSE delayed
        /\ KeepSwitches /\ HandleMessages(c, forwarded)
    BY <1>3 DEF ProcessMessage, HandshakeMessage
  <2>2. \A i \in DOMAIN forwarded : ~NeedsSwitch(forwarded[i])
    <3>1. CASE m.sort \in ImmediateSorts
      BY <3>1 DEF NeedsSwitch, ImmediateSorts
    <3>2. CASE m.sort \notin ImmediateSorts
      BY <3>2
    <3> QED BY <3>1, <3>2
  <2>3. /\ handlers' = handlers /\ fault' \in {"none", "handler", "switch"}
        /\ FaultsExplained'
    <3>1. \A x \in handlers \ DOMAIN handshakes' : x \in switchMap' \cup rejected'
      BY <2>1 DEF KeepSwitches, IInv, PastHandshake
    <3> QED BY <1>1, <2>1, <2>2, <3>1
  <2>4. info \in {{}, {"features"}, {"ports"}}
    BY <1>3 DEF IInv, TypeOK
  <2> HIDE DEF info, forwarded
  <2>5. TypeOK'
    <3>1. /\ DOMAIN handshakes' = DOMAIN handshakes
          /\ \A x \in DOMAIN handshakes' :
               handshakes'[x] = IF x = c THEN info ELSE handshakes[x]
      BY <1>3, <2>1
    <3>2. \A x \in Ids : delayed'[x] # <<>> => x = c \/ delayed[x] # <<>>
      BY <2>1 DEF IInv, QueuesTyped
    <3> QED BY <1>3, <2>1, <2>3, <2>4, <3>1, <3>2 DEF KeepSwitches, IInv, TypeOK
  <2>6. QueuesTyped'
    BY <2>1 DEF IInv, QueuesTyped
  <2>7. RegistryAgrees' /\ PastHandshake'
    BY <2>1, <2>3 DEF KeepSwitches, IInv, RegistryAgrees, PastHandshake
  <2> QED BY <2>3, <2>5, <2>6, <2>7
<1>4. CASE c \in DOMAIN handshakes /\ info = whole
  <2>1. /\ Establish(c) /\ HandleMessages(c, forwarded \o delayed[c])
        /\ EndHandshake(c)
    BY <1>4 DEF ProcessMessage, HandshakeMessage, Delayed
  <2>2. forwarded = <<m>> /\ forwarded \o delayed[c] # <<>>
    <3>1. m.sort \in {"features", "ports"}
      BY <1>4 DEF IInv, TypeOK
    <3> QED BY <3>1 DEF ImmediateSorts, IInv, QueuesTyped
  <2>3. handlers' = handlers /\ (fault' = "none" => c \in handlers)
    BY <2>1, <2>2, HandleFault
  <2>4. /\ RegistryAgrees'
        /\ c \in switchMap' \cup rejected'
        /\ switchMap \subseteq switchMap' /\ rejected \subseteq rejected'
        /\ switchMap' \subseteq Ids /\ DOMAIN connectionMap' \subseteq Switches
        /\ known' \subseteq Switches /\ rejected' \subseteq Ids /\ cleared' \subseteq Ids
    BY <2>1, <2>3, EstablishAgrees
  <2>5. /\ DOMAIN handshakes' = DOMAIN handshakes \ {c}
        /\ \A x \in DOMAIN handshakes' : handshakes'[x] = handshakes[x]
        /\ delayed' = [delayed EXCEPT ![c] = <<>>]
    BY <2>1 DEF EndHandshake, Restrict
  <2>6. fault' \in {"none", "handler", "switch"} /\ FaultsExplained'
    <3>1. \A x \in handlers \ DOMAIN handshakes' : x \in switchMap' \cup rejected'
      BY <2>4, <2>5 DEF IInv, PastHandshake
    <3> QED BY <1>1, <2>1, <2>5, <3>1
  <2>7. TypeOK' /\ QueuesTyped'
    <3>1. /\ delayed' \in [Ids -> Seq(Message)]
          /\ \A x \in Ids : delayed'[x] # <<>> => x # c /\ delayed[x] # <<>>
      BY <2>5 DEF IInv, QueuesTyped
    <3>2. QueuesTyped'
      BY <3>1 DEF IInv, QueuesTyped
    <3>3. TypeOK'
      BY <2>3, <2>4, <2>5, <2>6, <3>1 DEF IInv, TypeOK
    <3> QED BY <3>2, <3>3
  <2>8. PastHandshake'
    BY <2>3, <2>4, <2>5 DEF IInv, PastHandshake
  <2> QED BY <2>3, <2>4, <2>6, <2>7, <2>8
<1> QED BY <1>2, <1>3, <1>4

(* The event loop takes an event.                                          *)
LEMMA TakeStep ==
  ASSUME IInv, HandleProxyEvent
  PROVE  IInv'
<1> DEFINE e == Head(events)
<1>1. /\ fault = "none" /\ Take /\ stage' = stage
      /\ events \in Seq(Event) /\ events # <<>>
  BY DEF HandleProxyEvent, Take, IInv, QueuesTyped
<1>2. e \in Event /\ events' \in Seq(Event) /\ e = events[1] /\ 1 \in DOMAIN events
  BY <1>1 DEF Take
<1>3. CASE e.kind = "new"
  <2>1. AddConnection(e.id)
    BY <1>3 DEF HandleProxyEvent
  <2>2. handlers' = handlers \cup {e.id}
    BY <2>1 DEF AddConnection
  <2>3. EventsInOrder'
    BY <1>1, <1>3, <2>2, TakeKeepsOrder
  <2> QED BY <1>1, <1>2, <2>1, <2>3, NewStep DEF Event, IInv
<1>4. CASE e.kind = "closed"
  <2>1. DeleteConnection(e.id)
    BY <1>4 DEF HandleProxyEvent
  <2>2. handlers' = handlers \ {e.id}
    BY <2>1 DEF DeleteConnection
  <2>3. EventsInOrder'
    BY <1>1, <1>4, <2>2, TakeKeepsOrder
  <2> QED BY <1>1, <1>2, <2>1, <2>3, ClosedStep DEF Event, IInv
<1>5. CASE e.kind \notin {"new", "closed"}
  <2> DEFINE m(sort) == [kind |-> e.kind, n |-> e.n, sort |-> sort]
  <2>1. e.kind \in Sides
    BY <1>2, <1>5 DEF Event, Kinds
  <2>2. PICK sort \in Sorts[e.kind] : ProcessMessage(e.id, m(sort))
    BY <1>5 DEF HandleProxyEvent
  <2>3. m(sort) \in Message
    BY <1>2, <2>1, <2>2, SidesAssumption DEF Event, Message, Sorts
  <2>4. e.id \in handlers \/ stage[e.id] = "late"
    <3>1. IsMessage(1, e.id)
      BY <1>2, <2>1 DEF IsMessage
    <3>2. 1 .. 1 - 1 = {}
      OBVIOUS
    <3> QED BY <1>2, <3>1, <3>2 DEF IInv, EventsInOrder, Event
  <2> HIDE DEF e, m
  <2>5. e.id \in Ids
    BY <1>2 DEF Event
  <2>6. /\ handlers' = handlers
        /\ TypeOK' /\ QueuesTyped' /\ RegistryAgrees' /\ PastHandshake' /\ FaultsExplained'
    BY <1>1, <1>2, <2>2, <2>3, <2>4, <2>5, MessageStep
  <2>7. EventsInOrder'
    BY <1>1, <1>5, <2>6, TakeKeepsOrder DEF e
  <2> QED BY <2>6, <2>7 DEF IInv
<1> QED BY <1>3, <1>4, <1>5

LEMMA InvStep == IInv /\ [ConversationNext]_allVars => IInv'
<1> SUFFICES ASSUME IInv, [ConversationNext]_allVars PROVE IInv'
  OBVIOUS
<1>1. ASSUME UNCHANGED allVars PROVE IInv'
  <2> USE <1>1 DEF allVars, vars, mainVars, IInv
  <2>1. TypeOK' /\ QueuesTyped'
    BY DEF TypeOK, QueuesTyped
  <2>2. RegistryAgrees' /\ PastHandshake' /\ FaultsExplained'
    BY DEF RegistryAgrees, PastHandshake, FaultsExplained, Stranded
  <2>3. EventsInOrder'
    BY DEF EventsInOrder, IsNew, IsClosed, IsMessage
  <2> QED BY <2>1, <2>2, <2>3
<1> QED BY <1>1, PostStep, TakeStep DEF ConversationNext
(***************************************************************************)
(* The order in which the messages of one side are handled.  Their numbers *)
(* grow from the last one handled through the queue of the handshake and   *)
(* the event queue to the last one that was posted.                        *)
(***************************************************************************)
FromSide(i, c, side) == events[i].id = c /\ events[i].kind = side

HeldBack(i, c, side) == delayed[c][i].kind = side

NumbersGrow(c, side) ==
  /\ handled[c][side] <= last[c][side]
  /\ \A i \in DOMAIN delayed[c] : HeldBack(i, c, side) =>
       /\ handled[c][side] < delayed[c][i].n
       /\ delayed[c][i].n <= last[c][side]
       /\ \A j \in 1 .. i - 1 : HeldBack(j, c, side) => delayed[c][j].n < delayed[c][i].n
       /\ \A k \in DOMAIN events : FromSide(k, c, side) => delayed[c][i].n < events[k].n
  /\ \A k \in DOMAIN events : FromSide(k, c, side) =>
       /\ handled[c][side] < events[k].n
       /\ events[k].n <= last[c][side]
       /\ \A l \in 1 .. k - 1 : FromSide(l, c, side) => events[l].n < events[k].n

OrderInv ==
  /\ inOrder
  /\ handled \in [Ids -> [Sides -> Int]]
  /\ last \in [Ids -> [Sides -> Int]]
  /\ \A c \in Ids, side \in Sides : NumbersGrow(c, side)

LEMMA OrderInit == ConversationInit => OrderInv
<1> SUFFICES ASSUME ConversationInit PROVE OrderInv
  OBVIOUS
<1> USE DEF ConversationInit, Init
<1>1. /\ inOrder /\ DOMAIN events = {}
      /\ handled \in [Ids -> [Sides -> Int]] /\ last \in [Ids -> [Sides -> Int]]
  OBVIOUS
<1>2. ASSUME NEW c \in Ids, NEW side \in Sides
      PROVE  DOMAIN delayed[c] = {} /\ handled[c][side] = 0 /\ last[c][side] = 0
  OBVIOUS
<1> QED BY <1>1, <1>2 DEF OrderInv, NumbersGrow

(* The highest number of those handled is among them.                      *)
LEMMA HighestHandled ==
  ASSUME NEW messages \in Seq(Message), NEW h \in Int, NEW side \in Sides,
         \A i \in Asking(messages, side) :
           /\ h < messages[i].n
           /\ \A j \in Asking(messages, side) : j < i => messages[j].n < messages[i].n
  PROVE  Max({h} \cup {messages[i].n : i \in Asking(messages, side)})
           \in {h} \cup {messages[i].n : i \in Asking(messages, side)}
<1> DEFINE A == Asking(messages, side)
           ns == {h} \cup {messages[i].n : i \in A}
<1>1. A \subseteq 1 .. Len(messages) /\ Len(messages) \in Nat
  BY DEF Asking
<1>2. ASSUME NEW i \in A PROVE messages[i].n \in Int
  <2>1. messages[i] \in Message
    BY <1>1
  <2> QED BY <2>1 DEF Message
<1> HIDE DEF A
<1>3. \E m \in ns : \A n \in ns : m >= n
  <2>1. CASE A = {}
    BY <2>1
  <2>2. CASE A # {}
    <3>1. PICK i \in A : \A j \in A : j <= i
      BY <1>1, <2>2, LastIndex
    <3>2. h < messages[i].n
      BY DEF A
    <3>3. \A j \in A : j < i => messages[j].n < messages[i].n
      BY DEF A
    <3>4. \A j \in A : j = i \/ j < i
      BY <1>1, <3>1
    <3>5. \A j \in A : messages[i].n >= messages[j].n
      BY <1>2, <3>3, <3>4
    <3> QED BY <1>2, <3>2, <3>5
  <2> QED BY <2>1, <2>2
<1> HIDE DEF ns
<1>4. Max(ns) \in ns
  BY <1>3 DEF Max
<1> QED BY <1>4 DEF ns, A

(* What handling a list of messages in order leaves behind.                *)
LEMMA HandledInOrder ==
  ASSUME inOrder, handled \in [Ids -> [Sides -> Int]],
         NEW c \in Ids, NEW messages \in Seq(Message), HandleMessages(c, messages),
         \A side \in Sides : \A i \in Asking(messages, side) :
           /\ handled[c][side] < messages[i].n
           /\ \A j \in Asking(messages, side) : j < i => messages[j].n < messages[i].n
  PROVE  /\ inOrder'
         /\ handled' \in [Ids -> [Sides -> Int]]
         /\ \A d \in Ids, side \in Sides :
              \/ handled'[d][side] = handled[d][side]
              \/ d = c /\ \E i \in Asking(messages, side) :
                            handled'[d][side] = messages[i].n
<1> DEFINE ns(side) == {handled[c][side]} \cup {messages[i].n : i \in Asking(messages, side)}
<1>1. inOrder'
  BY DEF HandleMessages
<1>2. handled' = [handled EXCEPT ![c] = [side \in Sides |-> Max(ns(side))]]
  BY DEF HandleMessages
<1>3. ASSUME NEW side \in Sides PROVE Max(ns(side)) \in ns(side)
  <2>1. handled[c][side] \in Int
    OBVIOUS
  <2> QED BY <2>1, HighestHandled
<1>4. ASSUME NEW side \in Sides, NEW i \in Asking(messages, side) PROVE messages[i].n \in Int
  <2>1. messages[i] \in Message
    BY DEF Asking
  <2> QED BY <2>1 DEF Message
<1> HIDE DEF ns
<1>5. ASSUME NEW side \in Sides
      PROVE  /\ Max(ns(side)) \in Int
             /\ \/ Max(ns(side)) = handled[c][side]
                \/ \E i \in Asking(messages, side) : Max(ns(side)) = messages[i].n
  <2>1. PICK x : x = Max(ns(side))
    OBVIOUS
  <2>2. x \in {handled[c][side]} \cup {messages[i].n : i \in Asking(messages, side)}
    BY <1>3, <2>1 DEF ns
  <2>3. handled[c][side] \in Int
    OBVIOUS
  <2>4. /\ x \in Int
        /\ x = handled[c][side] \/ \E i \in Asking(messages, side) : x = messages[i].n
    BY <1>4, <2>2, <2>3
  <2> QED BY <2>1, <2>4
<1>6. handled' \in [Ids -> [Sides -> Int]]
  BY <1>2, <1>5
<1>7. \A d \in Ids : \A side \in Sides :
        handled'[d][side] = IF d = c THEN Max(ns(side)) ELSE handled[d][side]
  BY <1>2
<1> QED BY <1>1, <1>5, <1>6, <1>7

(* An event that joins the queue is the newest of its side.                *)
LEMMA PostOrder ==
  ASSUME IInv, OrderInv, PostEvent
  PROVE  OrderInv'
<1> USE DEF PostNew, PostClosed, PostMessage
<1>1. PICK c \in Ids : PostNew(c) \/ PostClosed(c) \/ \E side \in Sides : PostMessage(c, side)
  BY DEF PostEvent, Arrive
<1>2. PICK kind \in Kinds, n \in Int :
        /\ events' = Append(events, [id |-> c, kind |-> kind, n |-> n])
        /\ \/ kind \notin Sides /\ last' = last
           \/ /\ kind \in Sides /\ n > last[c][kind]
              /\ last' = [last EXCEPT ![c][kind] = n]
  <2> USE DEF Post, Kinds
  <2>1. CASE PostNew(c)
    <3>1. "new" \in Kinds \ Sides /\ 0 \in Int
      BY SidesAssumption DEF Sorts
    <3> QED BY <2>1, <3>1
  <2>2. CASE PostClosed(c)
    <3>1. "closed" \in Kinds \ Sides /\ 0 \in Int
      BY SidesAssumption DEF Sorts
    <3> QED BY <2>2, <3>1
  <2>3. CASE \E side \in Sides : PostMessage(c, side)
    <3>1. PICK side \in Sides : PostMessage(c, side)
      BY <2>3
    <3>2. PICK n \in last[c][side] + 1 .. MaxSent[side] :
            /\ last' = [last EXCEPT ![c][side] = n]
            /\ events' = Append(events, [id |-> c, kind |-> side, n |-> n])
      BY <3>1
    <3>3. n \in Int /\ n > last[c][side]
      <4>1. last[c][side] \in Int
        BY DEF OrderInv
      <4> QED BY <3>2, <4>1
    <3> QED BY <3>2, <3>3
  <2> QED BY <1>1, <2>1, <2>2, <2>3
<1>3. events \in Seq(Event) /\ UNCHANGED <<delayed, handled, inOrder>>
  BY DEF PostEvent, IInv, QueuesTyped, mainVars
<1>4. /\ Len(events) \in Nat /\ DOMAIN events = 1 .. Len(events)
      /\ DOMAIN events' = 1 .. Len(events) + 1
      /\ \A i \in DOMAIN events : events'[i] = events[i]
      /\ events'[Len(events) + 1] = [id |-> c, kind |-> kind, n |-> n]
  BY <1>2, <1>3 DEF Event
<1>5. last' \in [Ids -> [Sides -> Int]]
      /\ \A d \in Ids, side \in Sides :
           IF d = c /\ side = kind THEN last'[d][side] = n /\ n > last[d][side]
                                   ELSE last'[d][side] = last[d][side]
  <2>1. last \in [Ids -> [Sides -> Int]]
    BY DEF OrderInv
  <2>2. CASE kind \notin Sides
    BY <1>2, <2>1, <2>2
  <2>3. CASE kind \in Sides
    <3>1. /\ [last[c] EXCEPT ![kind] = n] \in [Sides -> Int]
          /\ last' = [last EXCEPT ![c] = [last[c] EXCEPT ![kind] = n]]
      BY <1>2, <2>1, <2>3
    <3>2. last' \in [Ids -> [Sides -> Int]]
      BY <2>1, <3>1
    <3>3. ASSUME NEW d \in Ids, NEW side \in Sides
          PROVE  last'[d][side] = IF d = c /\ side = kind THEN n ELSE last[d][side]
      BY <2>1, <2>3, <3>1
    <3> QED BY <1>2, <2>3, <3>2, <3>3
  <2> QED BY <2>2, <2>3
<1>6. ASSUME NEW d \in Ids, NEW side \in Sides PROVE NumbersGrow(d, side)'
  <2>0. PICK end : end = Len(events) + 1
    OBVIOUS
  <2>1. /\ \A i \in DOMAIN events : FromSide(i, d, side)' <=> FromSide(i, d, side)
        /\ FromSide(end, d, side)' <=> d = c /\ side = kind
        /\ \A i \in DOMAIN delayed[d] : HeldBack(i, d, side)' <=> HeldBack(i, d, side)
    BY <1>3, <1>4, <2>0 DEF FromSide, HeldBack
  <2>2. NumbersGrow(d, side)
    BY DEF OrderInv
  <2>3. /\ handled[d][side] \in Int /\ last[d][side] \in Int /\ last'[d][side] \in Int
        /\ last[d][side] <= last'[d][side]
        /\ FromSide(end, d, side)' =>
             last[d][side] < events'[end].n /\ events'[end].n = last'[d][side]
    <3>1. /\ handled[d][side] \in Int /\ last[d][side] \in Int /\ last'[d][side] \in Int
      BY <1>5 DEF OrderInv
    <3>2. last[d][side] <= last'[d][side]
      BY <1>5, <3>1
    <3> QED BY <1>4, <1>5, <2>0, <2>1, <3>1, <3>2
  <2>4. /\ \A i \in DOMAIN events : events[i].n \in Int
        /\ \A i \in DOMAIN delayed[d] : delayed[d][i].n \in Int
    <3>1. \A i \in DOMAIN events : events[i] \in Event
      BY <1>3
    <3>2. \A i \in DOMAIN delayed[d] : delayed[d][i] \in Message
      BY DEF IInv, QueuesTyped
    <3> QED BY <3>1, <3>2 DEF Event, Message
  <2>5. ASSUME NEW i \in DOMAIN delayed[d], HeldBack(i, d, side)
        PROVE  /\ handled[d][side] < delayed[d][i].n
               /\ delayed[d][i].n <= last'[d][side]
               /\ \A j \in 1 .. i - 1 :
                    HeldBack(j, d, side) => delayed[d][j].n < delayed[d][i].n
               /\ \A k \in DOMAIN events' :
                    FromSide(k, d, side)' => delayed[d][i].n < events'[k].n
    <3>1. /\ handled[d][side] < delayed[d][i].n
          /\ delayed[d][i].n <= last[d][side]
          /\ \A j \in 1 .. i - 1 :
               HeldBack(j, d, side) => delayed[d][j].n < delayed[d][i].n
          /\ \A k \in DOMAIN events :
               FromSide(k, d, side) => delayed[d][i].n < events[k].n
      BY <2>2, <2>5 DEF NumbersGrow
    <3>2. ASSUME NEW k \in DOMAIN events', FromSide(k, d, side)'
          PROVE  delayed[d][i].n < events'[k].n
      <4>1. CASE k \in DOMAIN events
        BY <1>4, <2>1, <3>1, <3>2, <4>1
      <4>2. CASE k = end
        <5>1. /\ last[d][side] < events'[k].n /\ events'[k].n \in Int
              /\ delayed[d][i].n \in Int /\ delayed[d][i].n <= last[d][side]
          BY <2>3, <2>4, <3>1, <3>2, <4>2
        <5>2. last[d][side] \in Int
          BY <2>3
        <5> QED BY <5>1, <5>2
      <4> QED BY <1>4, <2>0, <4>1, <4>2
    <3> QED BY <2>3, <2>4, <3>1, <3>2
  <2>6. ASSUME NEW k \in DOMAIN events', FromSide(k, d, side)'
        PROVE  /\ handled[d][side] < events'[k].n
               /\ events'[k].n <= last'[d][side]
               /\ \A l \in 1 .. k - 1 : FromSide(l, d, side)' => events'[l].n < events'[k].n
    <3>1. \A l \in 1 .. k - 1 : l \in DOMAIN events
      BY <1>4
    <3>2. CASE k \in DOMAIN events
      <4>1. /\ events'[k] = events[k] /\ FromSide(k, d, side)
            /\ \A l \in 1 .. k - 1 : events'[l] = events[l]
                   /\ (FromSide(l, d, side)' <=> FromSide(l, d, side))
        BY <1>4, <2>1, <2>6, <3>1, <3>2
      <4>2. /\ handled[d][side] < events[k].n
            /\ events[k].n <= last[d][side]
            /\ \A l \in 1 .. k - 1 : FromSide(l, d, side) => events[l].n < events[k].n
        BY <2>2, <3>2, <4>1 DEF NumbersGrow
      <4>3. events[k].n <= last'[d][side]
        BY <2>3, <2>4, <3>2, <4>2
      <4> QED BY <4>1, <4>2, <4>3
    <3>3. CASE k = end
      <4>1. /\ last[d][side] < events'[k].n /\ events'[k].n = last'[d][side]
            /\ events'[k].n \in Int /\ handled[d][side] <= last[d][side]
        BY <2>2, <2>3, <2>6, <3>3 DEF NumbersGrow
      <4>2. \A l \in 1 .. k - 1 : FromSide(l, d, side)' => events'[l].n <= last[d][side]
        BY <1>4, <2>1, <2>2, <3>1 DEF NumbersGrow
      <4>3. \A l \in 1 .. k - 1 : events'[l].n \in Int
        BY <1>4, <2>4, <3>1
      <4> QED BY <2>3, <4>1, <4>2, <4>3
    <3> QED BY <1>4, <2>0, <3>2, <3>3
  <2>7. handled[d][side] <= last'[d][side]
    BY <2>2, <2>3 DEF NumbersGrow
  <2>8. handled' = handled /\ delayed' = delayed
    BY <1>3
  <2>9. ASSUME NEW i \in DOMAIN delayed[d]
        PROVE  /\ HeldBack(i, d, side)' <=> HeldBack(i, d, side)
               /\ \A j \in 1 .. i - 1 : HeldBack(j, d, side)' <=> HeldBack(j, d, side)
    BY <2>8 DEF HeldBack
  <2> QED BY <2>5, <2>6, <2>7, <2>8, <2>9 DEF NumbersGrow
<1> QED BY <1>3, <1>5, <1>6 DEF OrderInv

(* The oldest event leaves the queue.  What was handled or delayed with it *)
(* is older than what the queue still holds.                               *)
LEMMA TakeOrder ==
  ASSUME IInv, OrderInv, Take, inOrder', handled' \in [Ids -> [Sides -> Int]],
         NEW m \in Message, m.n = events[1].n,
         \A d \in Ids :
           \/ delayed'[d] = delayed[d]
           \/ delayed'[d] = <<>>
           \/ delayed'[d] = Append(delayed[d], m) /\ FromSide(1, d, m.kind),
         \A d \in Ids, side \in Sides :
           \/ handled'[d][side] = handled[d][side]
           \/ /\ delayed'[d] = <<>>
              /\ \/ \E i \in DOMAIN delayed[d] :
                      HeldBack(i, d, side) /\ handled'[d][side] = delayed[d][i].n
                 \/ FromSide(1, d, side) /\ handled'[d][side] = events[1].n
  PROVE  OrderInv'
<1>1. /\ events \in Seq(Event) /\ events # <<>> /\ last' = last
  BY DEF Take, IInv, QueuesTyped
<1>2. /\ Len(events) \in Nat \ {0} /\ DOMAIN events = 1 .. Len(events)
      /\ DOMAIN events' = 1 .. Len(events) - 1 /\ 1 \in DOMAIN events
      /\ \A k \in DOMAIN events' : k + 1 \in DOMAIN events /\ events'[k] = events[k + 1]
  BY <1>1 DEF Take
<1>3. /\ \A k \in DOMAIN events : events[k].n \in Int
      /\ \A d \in Ids : \A i \in DOMAIN delayed[d] : delayed[d][i].n \in Int
  <2>1. \A k \in DOMAIN events : events[k] \in Event
    BY <1>1
  <2>2. \A d \in Ids : \A i \in DOMAIN delayed[d] : delayed[d][i] \in Message
    BY DEF IInv, QueuesTyped
  <2> QED BY <2>1, <2>2 DEF Event, Message
<1>4. ASSUME NEW d \in Ids, NEW side \in Sides PROVE NumbersGrow(d, side)'
  <2>1. NumbersGrow(d, side)
    BY DEF OrderInv
  <2>2. /\ handled[d][side] \in Int /\ handled'[d][side] \in Int /\ last[d][side] \in Int
    BY DEF OrderInv
  <2>3. ASSUME NEW k \in DOMAIN events'
        PROVE  /\ FromSide(k, d, side)' <=> FromSide(k + 1, d, side)
               /\ 1 \in 1 .. (k + 1) - 1
               /\ \A l \in 1 .. k - 1 :
                    /\ l + 1 \in 1 .. (k + 1) - 1 /\ events'[l] = events[l + 1]
                    /\ FromSide(l, d, side)' <=> FromSide(l + 1, d, side)
    <3>1. \A l \in 1 .. k - 1 : l \in DOMAIN events' /\ l + 1 \in 1 .. (k + 1) - 1
      BY <1>2
    <3>2. k \in Nat /\ 1 \in 1 .. (k + 1) - 1
      BY <1>2
    <3>3. \A l \in DOMAIN events' : FromSide(l, d, side)' <=> FromSide(l + 1, d, side)
      BY <1>2 DEF FromSide
    <3> QED BY <1>2, <3>1, <3>2, <3>3
  <2>4. /\ handled'[d][side] <= last[d][side]
        /\ \A k \in DOMAIN events' :
             FromSide(k + 1, d, side) => handled'[d][side] < events[k + 1].n
    <3>1. CASE handled'[d][side] = handled[d][side]
      BY <1>2, <2>1, <3>1 DEF NumbersGrow
    <3>2. ASSUME NEW i \in DOMAIN delayed[d], HeldBack(i, d, side),
                 handled'[d][side] = delayed[d][i].n
          PROVE  <2>4
      BY <1>2, <2>1, <3>2 DEF NumbersGrow
    <3>3. CASE FromSide(1, d, side) /\ handled'[d][side] = events[1].n
      BY <1>2, <2>1, <2>3, <3>3 DEF NumbersGrow
    <3> QED BY <3>1, <3>2, <3>3
  <2>5. ASSUME NEW k \in DOMAIN events', FromSide(k, d, side)'
        PROVE  /\ handled'[d][side] < events'[k].n
               /\ events'[k].n <= last[d][side]
               /\ \A l \in 1 .. k - 1 : FromSide(l, d, side)' => events'[l].n < events'[k].n
    <3>1. /\ FromSide(k + 1, d, side) /\ k + 1 \in DOMAIN events
          /\ events'[k] = events[k + 1]
      BY <1>2, <2>3, <2>5
    <3>2. /\ events[k + 1].n <= last[d][side]
          /\ \A l \in 1 .. (k + 1) - 1 :
               FromSide(l, d, side) => events[l].n < events[k + 1].n
      BY <2>1, <3>1 DEF NumbersGrow
    <3> QED BY <2>3, <2>4, <3>1, <3>2
  <2>6. ASSUME NEW i \in DOMAIN delayed'[d], HeldBack(i, d, side)'
        PROVE  /\ handled'[d][side] < delayed'[d][i].n
               /\ delayed'[d][i].n <= last[d][side]
               /\ \A j \in 1 .. i - 1 :
                    HeldBack(j, d, side)' => delayed'[d][j].n < delayed'[d][i].n
               /\ \A k \in DOMAIN events' :
                    FromSide(k, d, side)' => delayed'[d][i].n < events'[k].n
    <3>0. /\ delayed'[d] # <<>> /\ handled'[d][side] = handled[d][side]
          /\ delayed[d] \in Seq(Message)
      BY <2>6 DEF IInv, QueuesTyped
    <3>1. ASSUME NEW x \in DOMAIN delayed[d], HeldBack(x, d, side)
          PROVE  /\ handled[d][side] < delayed[d][x].n
                 /\ delayed[d][x].n <= last[d][side]
                 /\ \A j \in 1 .. x - 1 :
                      HeldBack(j, d, side) => delayed[d][j].n < delayed[d][x].n
                 /\ \A k \in DOMAIN events' :
                      FromSide(k, d, side)' => delayed[d][x].n < events'[k].n
                 /\ FromSide(1, d, side) => delayed[d][x].n < events[1].n
      BY <1>2, <2>1, <2>3, <3>1 DEF NumbersGrow
    <3>2. CASE delayed'[d] = delayed[d]
      <4>1. /\ HeldBack(i, d, side)
            /\ \A j \in 1 .. i - 1 : HeldBack(j, d, side)' <=> HeldBack(j, d, side)
        BY <2>6, <3>2 DEF HeldBack
      <4> QED BY <3>0, <3>1, <3>2, <4>1
    <3>3. CASE delayed'[d] = Append(delayed[d], m) /\ FromSide(1, d, m.kind)
      <4>1. /\ DOMAIN delayed[d] = 1 .. Len(delayed[d]) /\ Len(delayed[d]) \in Nat
            /\ DOMAIN delayed'[d] = 1 .. Len(delayed[d]) + 1
            /\ \A j \in DOMAIN delayed[d] : delayed'[d][j] = delayed[d][j]
            /\ delayed'[d][Len(delayed[d]) + 1] = m
        BY <3>0, <3>3, AppendFacts
      <4>2. \A j \in DOMAIN delayed[d] : HeldBack(j, d, side)' <=> HeldBack(j, d, side)
        BY <4>1 DEF HeldBack
      <4>3. \A j \in 1 .. i - 1 : j \in DOMAIN delayed[d]
        BY <4>1
      <4>4. CASE i \in DOMAIN delayed[d]
        BY <2>6, <3>0, <3>1, <4>1, <4>2, <4>3, <4>4
      <4>5. CASE i = Len(delayed[d]) + 1
        <5>1. delayed'[d][i] = m /\ m.kind = side /\ FromSide(1, d, side)
          BY <2>6, <3>3, <4>1, <4>5 DEF HeldBack
        <5>2. /\ handled[d][side] < events[1].n /\ events[1].n <= last[d][side]
          BY <1>2, <2>1, <5>1 DEF NumbersGrow
        <5>3. ASSUME NEW k \in DOMAIN events', FromSide(k, d, side)'
              PROVE  events[1].n < events'[k].n
          <6>1. FromSide(k + 1, d, side) /\ k + 1 \in DOMAIN events /\ 1 \in 1 .. (k + 1) - 1
            BY <1>2, <2>3, <5>3
          <6>2. events[1].n < events[k + 1].n
            BY <2>1, <5>1, <6>1 DEF NumbersGrow
          <6> QED BY <1>2, <6>2
        <5> QED BY <3>0, <3>1, <4>1, <4>2, <4>3, <5>1, <5>2, <5>3
      <4> QED BY <4>1, <4>4, <4>5
    <3> QED BY <3>0, <3>2, <3>3
  <2> QED BY <1>1, <2>4, <2>5, <2>6 DEF NumbersGrow
<1> QED BY <1>1, <1>4 DEF OrderInv

(* A message is handled or delayed in its turn.                            *)
LEMMA MessageOrder ==
  ASSUME IInv, OrderInv, Take, NEW c \in Ids, NEW m \in Message,
         ProcessMessage(c, m), FromSide(1, c, m.kind), m.n = events[1].n
  PROVE  OrderInv'
<1> DEFINE info == handshakes[c] \cup ({m.sort} \cap {"features", "ports"})
           forwarded == IF m.sort \in ImmediateSorts THEN <<m>> ELSE <<>>
           whole == {"features", "ports"}
<1>1. /\ inOrder /\ handled \in [Ids -> [Sides -> Int]] /\ delayed \in [Ids -> Seq(Message)]
      /\ events \in Seq(Event) /\ events # <<>> /\ 1 \in DOMAIN events
  BY DEF OrderInv, IInv, QueuesTyped, Take
<1>2. ASSUME NEW side \in Sides PROVE NumbersGrow(c, side)
  BY DEF OrderInv
<1>3. ASSUME NEW messages \in Seq(Message), HandleMessages(c, messages),
             \A side \in Sides : Asking(messages, side) = {}
      PROVE  /\ inOrder' /\ handled' \in [Ids -> [Sides -> Int]]
             /\ \A d \in Ids, side \in Sides : handled'[d][side] = handled[d][side]
  BY <1>1, <1>3, HandledInOrder
<1>4. CASE c \notin DOMAIN handshakes
  <2>1. HandleMessages(c, <<m>>) /\ delayed' = delayed
    BY <1>4 DEF ProcessMessage
  <2>2. delayed'[c] = <<>>
    BY <1>4, <2>1 DEF IInv, TypeOK
  <2>3. ASSUME NEW side \in Sides, NEW i \in Asking(<<m>>, side)
        PROVE  i = 1 /\ <<m>>[i] = m /\ FromSide(1, c, side) /\ handled[c][side] < m.n
    <3>1. i = 1 /\ <<m>>[1] = m /\ m.kind = side
      BY DEF Asking
    <3> QED BY <1>1, <1>2, <3>1 DEF NumbersGrow
  <2>4. <<m>> \in Seq(Message)
    OBVIOUS
  <2>5. \A side \in Sides : \A i \in Asking(<<m>>, side) :
           /\ handled[c][side] < <<m>>[i].n
           /\ \A j \in Asking(<<m>>, side) : j < i => <<m>>[j].n < <<m>>[i].n
    BY <2>3
  <2>6. /\ inOrder' /\ handled' \in [Ids -> [Sides -> Int]]
        /\ \A d \in Ids, side \in Sides :
             \/ handled'[d][side] = handled[d][side]
             \/ d = c /\ \E i \in Asking(<<m>>, side) : handled'[d][side] = <<m>>[i].n
    BY <1>1, <2>1, <2>4, <2>5, HandledInOrder
  <2>7. \A d \in Ids, side \in Sides :
           \/ handled'[d][side] = handled[d][side]
           \/ d = c /\ FromSide(1, d, side) /\ handled'[d][side] = events[1].n
    BY <2>3, <2>6
  <2> QED BY <2>1, <2>2, <2>6, <2>7, TakeOrder
<1>5. CASE c \in DOMAIN handshakes /\ info # whole
  <2>1. /\ delayed' = IF forwarded = <<>> THEN [delayed EXCEPT ![c] = Append(@, m)]
                      ELSE delayed
        /\ HandleMessages(c, forwarded)
    BY <1>5 DEF ProcessMessage, HandshakeMessage
  <2>2. forwarded \in Seq(Message) /\ \A side \in Sides : Asking(forwarded, side) = {}
    <3>1. CASE m.sort \in ImmediateSorts
      BY <3>1 DEF Asking, NeedsSwitch, ImmediateSorts
    <3>2. CASE m.sort \notin ImmediateSorts
      BY <3>2 DEF Asking
    <3> QED BY <3>1, <3>2
  <2> HIDE DEF forwarded
  <2>3. /\ inOrder' /\ handled' \in [Ids -> [Sides -> Int]]
        /\ \A d \in Ids, side \in Sides : handled'[d][side] = handled[d][side]
    BY <1>3, <2>1, <2>2
  <2>4. \A d \in Ids :
           \/ delayed'[d] = delayed[d]
           \/ delayed'[d] = Append(delayed[d], m) /\ FromSide(1, d, m.kind)
    BY <1>1, <2>1
  <2> QED BY <2>3, <2>4, TakeOrder
<1>6. CASE c \in DOMAIN handshakes /\ info = whole
  <2> DEFINE messages == <<m>> \o delayed[c]
  <2>1. /\ HandleMessages(c, forwarded \o delayed[c])
        /\ delayed' = [delayed EXCEPT ![c] = <<>>]
    BY <1>6 DEF ProcessMessage, HandshakeMessage, Delayed, EndHandshake
  <2>2. m.sort \in {"features", "ports"}
    BY <1>6 DEF IInv, TypeOK
  <2>3. HandleMessages(c, messages) /\ ~NeedsSwitch(m)
    BY <2>1, <2>2 DEF ImmediateSorts, NeedsSwitch
  <2>4. /\ messages \in Seq(Message) /\ DOMAIN messages = 1 .. Len(delayed[c]) + 1
        /\ messages[1] = m /\ Len(delayed[c]) \in Nat
        /\ DOMAIN delayed[c] = 1 .. Len(delayed[c])
        /\ \A i \in DOMAIN messages : i # 1 =>
             i - 1 \in DOMAIN delayed[c] /\ messages[i] = delayed[c][i - 1]
    <3>1. delayed[c] \in Seq(Message) /\ <<m>> \in Seq(Message) /\ Len(<<m>>) = 1
          /\ <<m>>[1] = m
      BY <1>1
    <3> QED BY <3>1, JoinFacts
  <2> HIDE DEF messages
  <2>5. ASSUME NEW side \in Sides, NEW i \in Asking(messages, side)
        PROVE  /\ i - 1 \in DOMAIN delayed[c] /\ messages[i] = delayed[c][i - 1]
               /\ HeldBack(i - 1, c, side) /\ handled[c][side] < messages[i].n
               /\ \A j \in Asking(messages, side) : j < i => messages[j].n < messages[i].n
    <3>1. ASSUME NEW j \in Asking(messages, side)
          PROVE  /\ j - 1 \in DOMAIN delayed[c] /\ messages[j] = delayed[c][j - 1]
                 /\ HeldBack(j - 1, c, side)
      BY <2>3, <2>4 DEF Asking, HeldBack
    <3>2. /\ handled[c][side] < delayed[c][i - 1].n
          /\ \A j \in 1 .. (i - 1) - 1 :
               HeldBack(j, c, side) => delayed[c][j].n < delayed[c][i - 1].n
      BY <1>2, <3>1 DEF NumbersGrow
    <3>3. ASSUME NEW j \in Asking(messages, side), j < i
          PROVE  messages[j].n < messages[i].n
      <4>1. i \in Int /\ j \in Int /\ j < i /\ j - 1 \in DOMAIN delayed[c]
        BY <2>4, <3>1, <3>3 DEF Asking
      <4>2. j - 1 \in 1 .. (i - 1) - 1
        BY <2>4, <4>1
      <4> QED BY <3>1, <3>2, <4>2
    <3> QED BY <3>1, <3>2, <3>3
  <2>6. /\ inOrder' /\ handled' \in [Ids -> [Sides -> Int]]
        /\ \A d \in Ids, side \in Sides :
             \/ handled'[d][side] = handled[d][side]
             \/ d = c /\ \E i \in Asking(messages, side) : handled'[d][side] = messages[i].n
    BY <1>1, <2>3, <2>4, <2>5, HandledInOrder
  <2>7. delayed'[c] = <<>> /\ \A d \in Ids : d # c => delayed'[d] = delayed[d]
    BY <1>1, <2>1
  <2>8. \A d \in Ids, side \in Sides :
           \/ handled'[d][side] = handled[d][side]
           \/ /\ delayed'[d] = <<>>
              /\ \E i \in DOMAIN delayed[d] :
                   HeldBack(i, d, side) /\ handled'[d][side] = delayed[d][i].n
    BY <2>5, <2>6, <2>7
  <2> QED BY <2>6, <2>7, <2>8, TakeOrder
<1> QED BY <1>4, <1>5, <1>6

LEMMA OrderStep == IInv /\ OrderInv /\ [ConversationNext]_allVars => OrderInv'
<1> SUFFICES ASSUME IInv, OrderInv, [ConversationNext]_allVars PROVE OrderInv'
  OBVIOUS
<1>1. ASSUME UNCHANGED allVars PROVE OrderInv'
  BY <1>1 DEF allVars, vars, mainVars, OrderInv, NumbersGrow, FromSide, HeldBack
<1>2. ASSUME HandleProxyEvent PROVE OrderInv'
  <2> DEFINE e == Head(events)
  <2>1. /\ Take /\ events \in Seq(Event) /\ events # <<>>
    BY <1>2 DEF HandleProxyEvent, Take, IInv, QueuesTyped
  <2>2. e \in Event /\ e = events[1] /\ "new" \notin Sides /\ "closed" \notin Sides
    BY <2>1, SidesAssumption DEF Sorts
  <2>3. CASE e.kind \in {"new", "closed"}
    <3>1. UNCHANGED <<delayed, handled, inOrder>>
      BY <1>2, <2>3 DEF HandleProxyEvent, AddConnection, DeleteConnection
    <3> DEFINE m == [kind |-> "switch", n |-> e.n, sort |-> "features"]
    <3>2. m \in Message /\ m.n = events[1].n
      BY <2>2, SidesAssumption DEF Event, Message, Sorts
    <3>3. inOrder' /\ handled' \in [Ids -> [Sides -> Int]]
      BY <3>1 DEF OrderInv
    <3>4. /\ \A d \in Ids : delayed'[d] = delayed[d]
          /\ \A d \in Ids, side \in Sides : handled'[d][side] = handled[d][side]
      BY <3>1
    <3> HIDE DEF m
    <3> QED BY <2>1, <3>2, <3>3, <3>4, TakeOrder
  <2>4. CASE e.kind \notin {"new", "closed"}
    <3> DEFINE m(sort) == [kind |-> e.kind, n |-> e.n, sort |-> sort]
    <3>1. e.kind \in Sides
      BY <2>2, <2>4 DEF Event, Kinds
    <3>2. PICK sort \in Sorts[e.kind] : ProcessMessage(e.id, m(sort))
      BY <1>2, <2>4 DEF HandleProxyEvent
    <3>3. /\ m(sort) \in Message /\ m(sort).n = events[1].n
          /\ FromSide(1, e.id, m(sort).kind) /\ e.id \in Ids
      BY <2>2, <3>1, <3>2, SidesAssumption DEF Event, Message, Sorts, FromSide
    <3> HIDE DEF e, m
    <3> QED BY <2>1, <3>2, <3>3, MessageOrder
  <2> QED BY <2>3, <2>4
<1> QED BY <1>1, <1>2, PostOrder DEF ConversationNext
----
(* The inductive invariant holds.                                          *)
THEOREM InvCorrect == ConversationSpec => []IInv
BY InitInv, InvStep, PTL DEF ConversationSpec

(* Every variable keeps to its type.                                       *)
THEOREM TypeCorrect == ConversationSpec => []TypeOK
BY InvCorrect, PTL DEF IInv

(* switch_map_, connection_map_ and the detector never disagree, however   *)
(* connections of the same switch come and go.                             *)
THEOREM RegistryAgreesHolds == ConversationSpec => []RegistryAgrees
BY InvCorrect, PTL DEF IInv

(* at() of message_handlers_ throws only for a message behind CLOSED, and  *)
(* a missing switch is asked for only when every connection without one    *)
(* was turned down.                                                        *)
THEOREM FaultsExplainedHolds == ConversationSpec => []FaultsExplained
BY InvCorrect, PTL DEF IInv

(* The handshake delays messages, but it hands those of one side to their  *)
(* handlers in the order in which they came, before any that came later.   *)
THEOREM DelayedInOrderHolds == ConversationSpec => []DelayedInOrder
<1>1. IInv /\ OrderInv /\ [ConversationNext]_allVars => OrderInv'
  BY OrderStep
<1>2. OrderInv => DelayedInOrder
  BY DEF OrderInv, DelayedInOrder
<1> QED BY OrderInit, InvCorrect, <1>1, <1>2, PTL DEF ConversationSpec
====
