---------------------- MODULE ConnectionManagerProofs ----------------------
(***************************************************************************)
(* Proofs about ConnectionManager, for any number of connections and any   *)
(* bound on their messages: types; that what goes wrong takes two          *)
(* callbacks of one connection that overlap, or a lookup that is torn; and *)
(* that the event queue keeps the promise of ConnectionEvents.             *)
(***************************************************************************)
EXTENDS ConnectionManager, SequenceFacts

Steps == {"idle", "enlist", "adopt", "announce", "drain", "settle", "enqueue",
          "route", "post", "closeWaiting", "leave", "closeBoth", "farewell"}
Links == {"none", "connecting", "open", "closing", "closed"}
Numbers == 1 .. MaxSent["switch"]
Event == [id : Ids, kind : {"new", "closed"}, n : {0}]
         \cup Message("switch") \cup Message("controller")

(* TypeOK with the domains of the functions, and with what a thread has to *)
(* post.                                                                   *)
ControlTyped == pc \in [Threads -> Steps] /\ link \in [Threads -> Links]
SentTyped ==
  /\ sent \in [Threads -> Nat]
  /\ \A t \in Threads : sent[t] <= MaxSent[t[2]]
Pending == \A t \in Threads : pc[t] \in {"enqueue", "route", "post"} => sent[t] >= 1
MapsTyped ==
  /\ waiting \subseteq Ids
  /\ queue \in [Ids -> Seq(Numbers)]
  /\ \A c \in Ids : queue[c] # <<>> => c \in waiting
  /\ lost \subseteq Ids \X Numbers
PostedTyped == posted \in Seq(Event)
FaultTyped ==
  /\ fault \in {"none", "adopt", "drain", "settle", "enqueue", "closeWaiting", "closeBoth"}
  /\ torn \in BOOLEAN
  /\ crossed \in BOOLEAN

Typed ==
  ControlTyped /\ SentTyped /\ Pending /\ MapsTyped /\ PostedTyped /\ FaultTyped

(* The link to the controller follows the one to the switch.               *)
LinksInOrder ==
  /\ connections \subseteq {c \in Ids : link[Client(c)] \in {"open", "closing", "closed"}}
  /\ \A c \in Ids :
       /\ link[Server(c)] = "none" => link[Client(c)] = "none"
       /\ pc[Server(c)] = "enlist" =>
            link[Server(c)] # "none" /\ link[Client(c)] = "none"
       /\ pc[Client(c)] = "adopt" => link[Client(c)] \in {"open", "closing", "closed"}

(* While nothing has overlapped, one thread at a time is in a callback of  *)
(* a connection.                                                           *)
OneAtATime == ~crossed => \A t \in Threads : pc[t] = "idle" \/ pc[Peer(t)] = "idle"

(* Then what the thread has found is still there.                          *)
EntriesStay ==
  ~crossed /\ ~torn =>
    /\ \A t \in Threads :
         /\ pc[t] \in {"adopt", "announce", "drain", "settle", "enqueue", "closeWaiting"}
              => t[1] \in waiting
         /\ pc[t] = "closeBoth" => t[1] \in connections
         /\ pc[t] = "settle" => queue[t[1]] = <<>>
    /\ fault = "none"
    /\ lost = {}

IInv == Typed /\ LinksInOrder /\ OneAtATime /\ EntriesStay

----
(* The two threads of a connection are each other's peers.                 *)
LEMMA PeerOf ==
  ASSUME NEW t \in Threads
  PROVE  /\ Peer(t) \in Threads /\ Peer(t) # t /\ Peer(t)[1] = t[1]
         /\ Peer(Peer(t)) = t
         /\ \A u \in Threads : u[1] = t[1] => u \in {t, Peer(t)}
<1>1. PICK c \in Ids, side \in Sides : t = <<c, side>>
  BY DEF Threads
<1>2. CASE side = "switch"
  <2>1. (CHOOSE s \in Sides : s # t[2]) = "controller"
    BY <1>1, <1>2 DEF Sides
  <2>2. Peer(t) = <<c, "controller">>
    BY <1>1, <2>1 DEF Peer
  <2>3. (CHOOSE s \in Sides : s # "controller") = "switch"
    BY DEF Sides
  <2>4. Peer(Peer(t)) = t
    BY <1>1, <1>2, <2>2, <2>3 DEF Peer
  <2> QED BY <1>1, <1>2, <2>2, <2>4 DEF Threads, Sides
<1>3. CASE side = "controller"
  <2>1. (CHOOSE s \in Sides : s # t[2]) = "switch"
    BY <1>1, <1>3 DEF Sides
  <2>2. Peer(t) = <<c, "switch">>
    BY <1>1, <2>1 DEF Peer
  <2>3. (CHOOSE s \in Sides : s # "switch") = "controller"
    BY DEF Sides
  <2>4. Peer(Peer(t)) = t
    BY <1>1, <1>3, <2>2, <2>3 DEF Peer
  <2> QED BY <1>1, <1>3, <2>2, <2>4 DEF Threads, Sides
<1> QED BY <1>1, <1>2, <1>3 DEF Sides

(* A connection has one thread for each of its links.                      *)
LEMMA ThreadsOf ==
  ASSUME NEW c \in Ids
  PROVE  /\ Server(c) \in Threads /\ Client(c) \in Threads
         /\ Server(c)[1] = c /\ Server(c)[2] = "switch"
         /\ Client(c)[1] = c /\ Client(c)[2] = "controller"
         /\ Server(c) # Client(c)
BY DEF Server, Client, Threads, Sides

(* Every step is an action of a connection or of one of its threads.       *)
LEMMA StepsOf ==
  ASSUME Next
  PROVE  \/ \E c \in Ids : \/ SwitchStarted(c) \/ ControllerStarted(c)
                           \/ SwitchMessage(c) \/ ControllerMessage(c)
                           \/ StartControllerConnection(c) \/ EnqueueMessage(c)
                           \/ RouteMessage(c) \/ AddProxyConnection(c)
                           \/ Announce(c) \/ SendDelayedMessage(c) \/ EraseWaiting(c)
         \/ \E t \in Threads : \/ LinkClosed(t) \/ PostMessage(t) \/ CloseWaiting(t)
                               \/ LeaveConnection(t) \/ CloseBoth(t) \/ Farewell(t)
<1>1. \A t \in Threads : t[1] \in Ids
  BY DEF Threads
<1> QED BY <1>1 DEF Next, Continue, Accept

----
(* It holds at the beginning.                                              *)
LEMMA InitInv == Init => IInv
<1> SUFFICES ASSUME Init PROVE IInv
  OBVIOUS
<1>1. ControlTyped /\ Pending
  BY DEF Init, ControlTyped, Pending, Steps, Links
<1>2. SentTyped
  BY MaxSentAssumption DEF Init, SentTyped, Threads
<1>3. MapsTyped
  BY DEF Init, MapsTyped
<1>4. PostedTyped /\ FaultTyped
  <2>1. <<>> \in Seq(Event)
    OBVIOUS
  <2> QED BY <2>1 DEF Init, PostedTyped, FaultTyped
<1>5. LinksInOrder
  BY ThreadsOf DEF Init, LinksInOrder
<1>6. OneAtATime /\ EntriesStay
  BY DEF Init, OneAtATime, EntriesStay
<1> QED BY <1>1, <1>2, <1>3, <1>4, <1>5, <1>6 DEF IInv, Typed

(* Which actions change the counters, the maps and the event queue.        *)
SentChanges == \E c \in Ids : SwitchMessage(c) \/ ControllerMessage(c)
MapsChange ==
  \/ \E c \in Ids : \/ StartControllerConnection(c) \/ EnqueueMessage(c)
                     \/ SendDelayedMessage(c) \/ EraseWaiting(c)
  \/ \E t \in Threads : CloseWaiting(t)
PostedChanges ==
  \/ \E c \in Ids : Announce(c) \/ SendDelayedMessage(c)
  \/ \E t \in Threads : PostMessage(t) \/ Farewell(t)

LEMMA Frames ==
  ASSUME Next
  PROVE  /\ sent' = sent \/ SentChanges
         /\ UNCHANGED <<waiting, queue, lost>> \/ MapsChange
         /\ posted' = posted \/ PostedChanges
<1> USE DEF SentChanges, MapsChange, PostedChanges, maps
<1> DEFINE Goal == /\ sent' = sent \/ SentChanges
                   /\ UNCHANGED <<waiting, queue, lost>> \/ MapsChange
                   /\ posted' = posted \/ PostedChanges
<1>1. ASSUME NEW c \in Ids, SwitchStarted(c) PROVE Goal
  BY <1>1 DEF SwitchStarted, Begin
<1>2. ASSUME NEW c \in Ids, ControllerStarted(c) PROVE Goal
  BY <1>2 DEF ControllerStarted, Begin, Find, Miss
<1>3. ASSUME NEW c \in Ids, SwitchMessage(c) PROVE Goal
  BY <1>3 DEF SwitchMessage, Begin, Receive, LookUp, Find, Miss
<1>4. ASSUME NEW c \in Ids, ControllerMessage(c) PROVE Goal
  BY <1>4 DEF ControllerMessage, Begin, Receive, LookUp, Find, Miss
<1>5. ASSUME NEW c \in Ids, StartControllerConnection(c) PROVE Goal
  BY <1>5 DEF StartControllerConnection, Proceed
<1>6. ASSUME NEW c \in Ids, EnqueueMessage(c) PROVE Goal
  BY <1>6 DEF EnqueueMessage, Dangle, Proceed
<1>7. ASSUME NEW c \in Ids, RouteMessage(c) PROVE Goal
  BY <1>7 DEF RouteMessage, LookUp, Find, Miss
<1>8. ASSUME NEW c \in Ids, AddProxyConnection(c) PROVE Goal
  BY <1>8 DEF AddProxyConnection, Dangle, Proceed
<1>9. ASSUME NEW c \in Ids, Announce(c) PROVE Goal
  BY <1>9 DEF Announce, Post, Proceed
<1>10. ASSUME NEW c \in Ids, SendDelayedMessage(c) PROVE Goal
  BY <1>10 DEF SendDelayedMessage, Post, Dangle, Proceed
<1>11. ASSUME NEW c \in Ids, EraseWaiting(c) PROVE Goal
  BY <1>11 DEF EraseWaiting, Dangle
<1>12. ASSUME NEW t \in Threads, LinkClosed(t) PROVE Goal
  BY <1>12 DEF LinkClosed, Begin, LookUp, Find, Miss
<1>13. ASSUME NEW t \in Threads, PostMessage(t) PROVE Goal
  BY <1>13 DEF PostMessage, Post, Proceed
<1>14. ASSUME NEW t \in Threads, CloseWaiting(t) PROVE Goal
  BY <1>14 DEF CloseWaiting, Close, Dangle, Proceed
<1>15. ASSUME NEW t \in Threads, LeaveConnection(t) PROVE Goal
  BY <1>15 DEF LeaveConnection, LookUp, Find, Miss
<1>16. ASSUME NEW t \in Threads, CloseBoth(t) PROVE Goal
  BY <1>16 DEF CloseBoth, Close, Dangle, Proceed
<1>17. ASSUME NEW t \in Threads, Farewell(t) PROVE Goal
  BY <1>17 DEF Farewell, Post, Proceed
<1> QED
  BY StepsOf, <1>1, <1>2, <1>3, <1>4, <1>5, <1>6, <1>7, <1>8, <1>9, <1>10,
     <1>11, <1>12, <1>13, <1>14, <1>15, <1>16, <1>17

(* Program counters and links keep their types.                            *)
LEMMA ControlStep ==
  ASSUME ControlTyped, Next
  PROVE  ControlTyped'
<1> USE ThreadsOf DEF ControlTyped, Steps, Links, At, Go, maps
<1>1. ASSUME NEW c \in Ids, SwitchStarted(c) PROVE ControlTyped'
  BY <1>1 DEF SwitchStarted, Begin
<1>2. ASSUME NEW c \in Ids, ControllerStarted(c) PROVE ControlTyped'
  BY <1>2 DEF ControllerStarted, Begin, Find, Miss
<1>3. ASSUME NEW c \in Ids, SwitchMessage(c) PROVE ControlTyped'
  BY <1>3 DEF SwitchMessage, Begin, Receive, LookUp, Find, Miss
<1>4. ASSUME NEW c \in Ids, ControllerMessage(c) PROVE ControlTyped'
  BY <1>4 DEF ControllerMessage, Begin, Receive, LookUp, Find, Miss
<1>5. ASSUME NEW c \in Ids, StartControllerConnection(c) PROVE ControlTyped'
  BY <1>5 DEF StartControllerConnection, Proceed
<1>6. ASSUME NEW c \in Ids, EnqueueMessage(c) PROVE ControlTyped'
  BY <1>6 DEF EnqueueMessage, Dangle, Proceed
<1>7. ASSUME NEW c \in Ids, RouteMessage(c) PROVE ControlTyped'
  BY <1>7 DEF RouteMessage, LookUp, Find, Miss
<1>8. ASSUME NEW c \in Ids, AddProxyConnection(c) PROVE ControlTyped'
  BY <1>8 DEF AddProxyConnection, Dangle, Proceed
<1>9. ASSUME NEW c \in Ids, Announce(c) PROVE ControlTyped'
  BY <1>9 DEF Announce, Post, Proceed
<1>10. ASSUME NEW c \in Ids, SendDelayedMessage(c) PROVE ControlTyped'
  BY <1>10 DEF SendDelayedMessage, Post, Dangle, Proceed
<1>11. ASSUME NEW c \in Ids, EraseWaiting(c) PROVE ControlTyped'
  BY <1>11 DEF EraseWaiting, Dangle
<1>12. ASSUME NEW t \in Threads, LinkClosed(t) PROVE ControlTyped'
  BY <1>12 DEF LinkClosed, Begin, LookUp, Find, Miss
<1>13. ASSUME NEW t \in Threads, PostMessage(t) PROVE ControlTyped'
  BY <1>13 DEF PostMessage, Post, Proceed
<1>14. ASSUME NEW t \in Threads, CloseWaiting(t) PROVE ControlTyped'
  BY <1>14 DEF CloseWaiting, Close, Dangle, Proceed
<1>15. ASSUME NEW t \in Threads, LeaveConnection(t) PROVE ControlTyped'
  BY <1>15 DEF LeaveConnection, LookUp, Find, Miss
<1>16. ASSUME NEW t \in Threads, CloseBoth(t) PROVE ControlTyped'
  BY <1>16 DEF CloseBoth, Close, Dangle, Proceed
<1>17. ASSUME NEW t \in Threads, Farewell(t) PROVE ControlTyped'
  BY <1>17 DEF Farewell, Post, Proceed
<1> QED
  BY StepsOf, <1>1, <1>2, <1>3, <1>4, <1>5, <1>6, <1>7, <1>8, <1>9, <1>10,
     <1>11, <1>12, <1>13, <1>14, <1>15, <1>16, <1>17

(* The counters of messages keep their bounds.                             *)
LEMMA SentStep ==
  ASSUME SentTyped, Next
  PROVE  SentTyped'
<1> USE MaxSentAssumption, ThreadsOf DEF SentTyped
<1>1. CASE sent' = sent
  BY <1>1
<1>2. ASSUME NEW t \in Threads, Receive(t) PROVE SentTyped'
  <2>1. /\ sent' = [sent EXCEPT ![t] = sent[t] + 1]
        /\ sent[t] < MaxSent[t[2]]
    BY <1>2 DEF Receive
  <2>2. MaxSent[t[2]] \in Nat
    BY DEF Threads
  <2> QED BY <2>1, <2>2
<1>3. CASE SentChanges
  BY <1>2, <1>3 DEF SentChanges, SwitchMessage, ControllerMessage
<1> QED BY <1>1, <1>3, Frames

(* A thread that is to hand a message on has received one.                 *)
LEMMA PendingStep ==
  ASSUME ControlTyped, SentTyped, Pending, Next
  PROVE  Pending'
<1> USE MaxSentAssumption, ThreadsOf DEF ControlTyped, SentTyped, Pending, At, Go, maps
<1>1. ASSUME NEW c \in Ids, SwitchStarted(c) PROVE Pending'
  BY <1>1 DEF SwitchStarted, Begin
<1>2. ASSUME NEW c \in Ids, ControllerStarted(c) PROVE Pending'
  BY <1>2 DEF ControllerStarted, Begin, Find, Miss
<1>3. ASSUME NEW c \in Ids, SwitchMessage(c) PROVE Pending'
  BY <1>3 DEF SwitchMessage, Begin, Receive, LookUp, Find, Miss
<1>4. ASSUME NEW c \in Ids, ControllerMessage(c) PROVE Pending'
  BY <1>4 DEF ControllerMessage, Begin, Receive, LookUp, Find, Miss
<1>5. ASSUME NEW c \in Ids, StartControllerConnection(c) PROVE Pending'
  BY <1>5 DEF StartControllerConnection, Proceed
<1>6. ASSUME NEW c \in Ids, EnqueueMessage(c) PROVE Pending'
  BY <1>6 DEF EnqueueMessage, Dangle, Proceed
<1>7. ASSUME NEW c \in Ids, RouteMessage(c) PROVE Pending'
  BY <1>7 DEF RouteMessage, LookUp, Find, Miss
<1>8. ASSUME NEW c \in Ids, AddProxyConnection(c) PROVE Pending'
  BY <1>8 DEF AddProxyConnection, Dangle, Proceed
<1>9. ASSUME NEW c \in Ids, Announce(c) PROVE Pending'
  BY <1>9 DEF Announce, Post, Proceed
<1>10. ASSUME NEW c \in Ids, SendDelayedMessage(c) PROVE Pending'
  BY <1>10 DEF SendDelayedMessage, Post, Dangle, Proceed
<1>11. ASSUME NEW c \in Ids, EraseWaiting(c) PROVE Pending'
  BY <1>11 DEF EraseWaiting, Dangle
<1>12. ASSUME NEW t \in Threads, LinkClosed(t) PROVE Pending'
  BY <1>12 DEF LinkClosed, Begin, LookUp, Find, Miss
<1>13. ASSUME NEW t \in Threads, PostMessage(t) PROVE Pending'
  BY <1>13 DEF PostMessage, Post, Proceed
<1>14. ASSUME NEW t \in Threads, CloseWaiting(t) PROVE Pending'
  BY <1>14 DEF CloseWaiting, Close, Dangle, Proceed
<1>15. ASSUME NEW t \in Threads, LeaveConnection(t) PROVE Pending'
  BY <1>15 DEF LeaveConnection, LookUp, Find, Miss
<1>16. ASSUME NEW t \in Threads, CloseBoth(t) PROVE Pending'
  BY <1>16 DEF CloseBoth, Close, Dangle, Proceed
<1>17. ASSUME NEW t \in Threads, Farewell(t) PROVE Pending'
  BY <1>17 DEF Farewell, Post, Proceed
<1> QED
  BY StepsOf, <1>1, <1>2, <1>3, <1>4, <1>5, <1>6, <1>7, <1>8, <1>9, <1>10,
     <1>11, <1>12, <1>13, <1>14, <1>15, <1>16, <1>17

(* The maps keep their types.                                              *)
LEMMA MapsStep ==
  ASSUME ControlTyped, SentTyped, Pending, MapsTyped, Next
  PROVE  MapsTyped'
<1> USE ThreadsOf DEF MapsTyped, maps
<1>1. CASE UNCHANGED <<waiting, queue, lost>>
  BY <1>1
<1>2. ASSUME NEW c \in Ids, StartControllerConnection(c) PROVE MapsTyped'
  BY <1>2 DEF StartControllerConnection, Proceed
<1>3. ASSUME NEW c \in Ids, EnqueueMessage(c) PROVE MapsTyped'
  <2>1. sent[Server(c)] \in Numbers
    <3>1. pc[Server(c)] = "enqueue"
      BY <1>3 DEF EnqueueMessage, At
    <3>2. sent[Server(c)] >= 1
      BY <3>1 DEF Pending
    <3>3. sent[Server(c)] \in Nat /\ sent[Server(c)] <= MaxSent["switch"]
      BY DEF SentTyped
    <3>4. MaxSent["switch"] \in Nat
      BY MaxSentAssumption DEF Sides
    <3> QED BY <3>2, <3>3, <3>4 DEF Numbers
  <2>2. Append(queue[c], sent[Server(c)]) \in Seq(Numbers)
    BY <2>1
  <2>3. CASE c \in waiting
    <3>1. /\ queue' = [queue EXCEPT ![c] = Append(queue[c], sent[Server(c)])]
          /\ UNCHANGED <<waiting, lost>>
      BY <1>3, <2>3 DEF EnqueueMessage, Proceed
    <3> QED BY <2>2, <2>3, <3>1
  <2>4. CASE c \notin waiting
    BY <1>3, <2>4 DEF EnqueueMessage, Dangle
  <2> QED BY <2>3, <2>4
<1>4. ASSUME NEW c \in Ids, SendDelayedMessage(c) PROVE MapsTyped'
  <2>1. CASE c \in waiting /\ queue[c] # <<>>
    <3>1. Tail(queue[c]) \in Seq(Numbers)
      BY <2>1
    <3>2. /\ queue' = [queue EXCEPT ![c] = Tail(queue[c])]
          /\ UNCHANGED <<waiting, lost>>
      BY <1>4, <2>1 DEF SendDelayedMessage, Proceed
    <3> QED BY <2>1, <3>1, <3>2
  <2>2. CASE c \notin waiting \/ queue[c] = <<>>
    BY <1>4, <2>2 DEF SendDelayedMessage, Dangle, Proceed
  <2> QED BY <2>1, <2>2
<1>5. ASSUME NEW c \in Ids, EraseWaiting(c) PROVE MapsTyped'
  <2>1. CASE c \in waiting
    <3>1. /\ waiting' = waiting \ {c}
          /\ lost' = lost \cup {<<c, queue[c][i]>> : i \in DOMAIN queue[c]}
          /\ queue' = [queue EXCEPT ![c] = <<>>]
      BY <1>5, <2>1 DEF EraseWaiting
    <3>2. \A i \in DOMAIN queue[c] : queue[c][i] \in Numbers
      OBVIOUS
    <3>3. lost' \subseteq Ids \X Numbers
      BY <3>1, <3>2
    <3> QED BY <3>1, <3>3
  <2>2. CASE c \notin waiting
    BY <1>5, <2>2 DEF EraseWaiting, Dangle
  <2> QED BY <2>1, <2>2
<1>6. ASSUME NEW t \in Threads, CloseWaiting(t) PROVE MapsTyped'
  <2>1. t[1] \in Ids
    BY DEF Threads
  <2>2. CASE t[1] \in waiting
    <3>1. /\ queue' = [queue EXCEPT ![t[1]] = <<>>]
          /\ waiting' = waiting \ {t[1]}
          /\ lost' = lost
      BY <1>6, <2>2 DEF CloseWaiting, Proceed
    <3> QED BY <2>1, <3>1
  <2>3. CASE t[1] \notin waiting
    BY <1>6, <2>3 DEF CloseWaiting, Dangle
  <2> QED BY <2>2, <2>3
<1> QED BY <1>1, <1>2, <1>3, <1>4, <1>5, <1>6, Frames DEF MapsChange

(* Only events are posted.                                                 *)
LEMMA PostedStep ==
  ASSUME ControlTyped, SentTyped, Pending, MapsTyped, PostedTyped, Next
  PROVE  PostedTyped'
<1> USE ThreadsOf DEF PostedTyped
<1>1. ASSUME NEW e \in Event, posted' = Append(posted, e) PROVE PostedTyped'
  BY <1>1
<1>2. ASSUME NEW c \in Ids, NEW kind \in {"new", "closed"}, Post(c, kind, 0)
      PROVE  PostedTyped'
  <2>1. [id |-> c, kind |-> kind, n |-> 0] \in Event
    BY DEF Event
  <2> QED BY <1>1, <1>2, <2>1 DEF Post
<1>3. ASSUME NEW c \in Ids, NEW side \in Sides, NEW n \in 1 .. MaxSent[side],
             Post(c, side, n)
      PROVE  PostedTyped'
  <2>1. [id |-> c, kind |-> side, n |-> n] \in Message(side)
    BY DEF Message
  <2>2. [id |-> c, kind |-> side, n |-> n] \in Event
    BY <2>1 DEF Event, Sides
  <2> QED BY <1>1, <1>3, <2>2 DEF Post
<1>4. CASE posted' = posted
  BY <1>4
<1>5. ASSUME NEW c \in Ids, Announce(c) PROVE PostedTyped'
  BY <1>2, <1>5 DEF Announce
<1>6. ASSUME NEW c \in Ids, SendDelayedMessage(c) PROVE PostedTyped'
  <2>1. CASE c \in waiting /\ queue[c] # <<>>
    <3>1. Head(queue[c]) \in Numbers
      BY <2>1 DEF MapsTyped
    <3> QED BY <1>3, <1>6, <2>1, <3>1 DEF SendDelayedMessage, Sides, Numbers
  <2>2. CASE c \notin waiting \/ queue[c] = <<>>
    BY <1>4, <1>6, <2>2 DEF SendDelayedMessage, Dangle
  <2> QED BY <2>1, <2>2
<1>7. ASSUME NEW t \in Threads, PostMessage(t) PROVE PostedTyped'
  <2>1. t[1] \in Ids /\ t[2] \in Sides
    BY DEF Threads
  <2>2. sent[t] \in 1 .. MaxSent[t[2]]
    BY <1>7, <2>1, MaxSentAssumption DEF PostMessage, At, SentTyped, Pending
  <2> QED BY <1>3, <1>7, <2>1, <2>2 DEF PostMessage
<1>8. ASSUME NEW t \in Threads, Farewell(t) PROVE PostedTyped'
  <2>1. t[1] \in Ids
    BY DEF Threads
  <2> QED BY <1>2, <1>8, <2>1 DEF Farewell
<1> QED BY <1>4, <1>5, <1>6, <1>7, <1>8, Frames DEF PostedChanges

(* A fault has the name of its step.                                       *)
LEMMA FaultStep ==
  ASSUME ControlTyped, FaultTyped, Next
  PROVE  FaultTyped'
<1> USE ThreadsOf DEF FaultTyped, At, maps
<1>1. ASSUME NEW c \in Ids, SwitchStarted(c) PROVE FaultTyped'
  BY <1>1 DEF SwitchStarted, Begin
<1>2. ASSUME NEW c \in Ids, ControllerStarted(c) PROVE FaultTyped'
  BY <1>2 DEF ControllerStarted, Begin, Find, Miss
<1>3. ASSUME NEW c \in Ids, SwitchMessage(c) PROVE FaultTyped'
  BY <1>3 DEF SwitchMessage, Begin, Receive, LookUp, Find, Miss
<1>4. ASSUME NEW c \in Ids, ControllerMessage(c) PROVE FaultTyped'
  BY <1>4 DEF ControllerMessage, Begin, Receive, LookUp, Find, Miss
<1>5. ASSUME NEW c \in Ids, StartControllerConnection(c) PROVE FaultTyped'
  BY <1>5 DEF StartControllerConnection, Proceed
<1>6. ASSUME NEW c \in Ids, EnqueueMessage(c) PROVE FaultTyped'
  BY <1>6 DEF EnqueueMessage, Dangle, Proceed
<1>7. ASSUME NEW c \in Ids, RouteMessage(c) PROVE FaultTyped'
  BY <1>7 DEF RouteMessage, LookUp, Find, Miss
<1>8. ASSUME NEW c \in Ids, AddProxyConnection(c) PROVE FaultTyped'
  BY <1>8 DEF AddProxyConnection, Dangle, Proceed
<1>9. ASSUME NEW c \in Ids, Announce(c) PROVE FaultTyped'
  BY <1>9 DEF Announce, Post, Proceed
<1>10. ASSUME NEW c \in Ids, SendDelayedMessage(c) PROVE FaultTyped'
  BY <1>10 DEF SendDelayedMessage, Post, Dangle, Proceed
<1>11. ASSUME NEW c \in Ids, EraseWaiting(c) PROVE FaultTyped'
  BY <1>11 DEF EraseWaiting, Dangle
<1>12. ASSUME NEW t \in Threads, LinkClosed(t) PROVE FaultTyped'
  BY <1>12 DEF LinkClosed, Begin, LookUp, Find, Miss
<1>13. ASSUME NEW t \in Threads, PostMessage(t) PROVE FaultTyped'
  BY <1>13 DEF PostMessage, Post, Proceed
<1>14. ASSUME NEW t \in Threads, CloseWaiting(t) PROVE FaultTyped'
  BY <1>14 DEF CloseWaiting, Close, Dangle, Proceed
<1>15. ASSUME NEW t \in Threads, LeaveConnection(t) PROVE FaultTyped'
  BY <1>15 DEF LeaveConnection, LookUp, Find, Miss
<1>16. ASSUME NEW t \in Threads, CloseBoth(t) PROVE FaultTyped'
  BY <1>16 DEF CloseBoth, Close, Dangle, Proceed
<1>17. ASSUME NEW t \in Threads, Farewell(t) PROVE FaultTyped'
  BY <1>17 DEF Farewell, Post, Proceed
<1> QED
  BY StepsOf, <1>1, <1>2, <1>3, <1>4, <1>5, <1>6, <1>7, <1>8, <1>9, <1>10,
     <1>11, <1>12, <1>13, <1>14, <1>15, <1>16, <1>17

(* All the types together.                                                 *)
LEMMA TypedStep ==
  ASSUME Typed, Next
  PROVE  Typed'
BY ControlStep, SentStep, PendingStep, MapsStep, PostedStep, FaultStep DEF Typed

(* The links of a connection keep their order.                             *)
LEMMA LinksStep ==
  ASSUME ControlTyped, LinksInOrder, Next
  PROVE  LinksInOrder'
<1> USE ThreadsOf, PeerOf DEF ControlTyped, LinksInOrder, Steps, Links, At, Go, maps
<1>1. ASSUME NEW c \in Ids, SwitchStarted(c) PROVE LinksInOrder'
  BY <1>1 DEF SwitchStarted, Begin
<1>2. ASSUME NEW c \in Ids, ControllerStarted(c) PROVE LinksInOrder'
  BY <1>2 DEF ControllerStarted, Begin, Find, Miss
<1>3. ASSUME NEW c \in Ids, SwitchMessage(c) PROVE LinksInOrder'
  BY <1>3 DEF SwitchMessage, Begin, Receive, LookUp, Find, Miss
<1>4. ASSUME NEW c \in Ids, ControllerMessage(c) PROVE LinksInOrder'
  BY <1>4 DEF ControllerMessage, Begin, Receive, LookUp, Find, Miss
<1>5. ASSUME NEW c \in Ids, StartControllerConnection(c) PROVE LinksInOrder'
  BY <1>5 DEF StartControllerConnection, Proceed
<1>6. ASSUME NEW c \in Ids, EnqueueMessage(c) PROVE LinksInOrder'
  BY <1>6 DEF EnqueueMessage, Dangle, Proceed
<1>7. ASSUME NEW c \in Ids, RouteMessage(c) PROVE LinksInOrder'
  BY <1>7 DEF RouteMessage, LookUp, Find, Miss
<1>8. ASSUME NEW c \in Ids, AddProxyConnection(c) PROVE LinksInOrder'
  BY <1>8 DEF AddProxyConnection, Dangle, Proceed
<1>9. ASSUME NEW c \in Ids, Announce(c) PROVE LinksInOrder'
  BY <1>9 DEF Announce, Post, Proceed
<1>10. ASSUME NEW c \in Ids, SendDelayedMessage(c) PROVE LinksInOrder'
  BY <1>10 DEF SendDelayedMessage, Post, Dangle, Proceed
<1>11. ASSUME NEW c \in Ids, EraseWaiting(c) PROVE LinksInOrder'
  BY <1>11 DEF EraseWaiting, Dangle
<1>12. ASSUME NEW t \in Threads, LinkClosed(t) PROVE LinksInOrder'
  BY <1>12 DEF LinkClosed, Begin, LookUp, Find, Miss
<1>13. ASSUME NEW t \in Threads, PostMessage(t) PROVE LinksInOrder'
  BY <1>13 DEF PostMessage, Post, Proceed
<1>14. ASSUME NEW t \in Threads, CloseWaiting(t) PROVE LinksInOrder'
  BY <1>14 DEF CloseWaiting, Close, Dangle, Proceed
<1>15. ASSUME NEW t \in Threads, LeaveConnection(t) PROVE LinksInOrder'
  BY <1>15 DEF LeaveConnection, LookUp, Find, Miss
<1>16. ASSUME NEW t \in Threads, CloseBoth(t) PROVE LinksInOrder'
  BY <1>16 DEF CloseBoth, Close, Dangle, Proceed
<1>17. ASSUME NEW t \in Threads, Farewell(t) PROVE LinksInOrder'
  BY <1>17 DEF Farewell, Post, Proceed
<1> QED
  BY StepsOf, <1>1, <1>2, <1>3, <1>4, <1>5, <1>6, <1>7, <1>8, <1>9, <1>10,
     <1>11, <1>12, <1>13, <1>14, <1>15, <1>16, <1>17

(* A callback begins alone, or is marked.                                  *)
LEMMA AloneStep ==
  ASSUME ControlTyped, FaultTyped, OneAtATime, Next
  PROVE  OneAtATime'
<1> USE ThreadsOf, PeerOf DEF ControlTyped, FaultTyped, OneAtATime, maps
<1> DEFINE Begins(t) == \/ UNCHANGED pc /\ (crossed => crossed')
                        \/ /\ crossed' = (crossed \/ pc[Peer(t)] # "idle")
                           /\ \E s \in Steps : Go(t, s)
           Goes(t)   == \/ UNCHANGED <<pc, crossed>>
                        \/ /\ pc[t] # "idle" /\ UNCHANGED crossed
                           /\ \E s \in Steps : Go(t, s)
<1>a. ASSUME NEW t \in Threads, Begins(t) PROVE OneAtATime'
  <2>1. CASE UNCHANGED pc /\ (crossed => crossed')
    BY <2>1
  <2>2. CASE ~crossed' /\ ~UNCHANGED pc
    <3>1. pc[Peer(t)] = "idle" /\ ~crossed
      BY <1>a, <2>2
    <3>2. PICK s \in Steps : Go(t, s)
      BY <1>a, <2>2
    <3>3. \A u \in Threads \ {t} : pc'[u] = pc[u]
      BY <3>2 DEF Go
    <3>4. ASSUME NEW u \in Threads PROVE pc'[u] = "idle" \/ pc'[Peer(u)] = "idle"
      BY <3>1, <3>3
    <3> QED BY <3>4
  <2> QED BY <1>a, <2>1, <2>2
<1>b. ASSUME NEW t \in Threads, Goes(t) PROVE OneAtATime'
  <2>1. CASE UNCHANGED <<pc, crossed>>
    BY <2>1
  <2>2. CASE ~crossed' /\ ~UNCHANGED pc
    <3>1. pc[Peer(t)] = "idle" /\ ~crossed
      BY <1>b, <2>2
    <3>2. PICK s \in Steps : Go(t, s)
      BY <1>b, <2>2
    <3>3. \A u \in Threads \ {t} : pc'[u] = pc[u]
      BY <3>2 DEF Go
    <3>4. ASSUME NEW u \in Threads PROVE pc'[u] = "idle" \/ pc'[Peer(u)] = "idle"
      BY <3>1, <3>3
    <3> QED BY <3>4
  <2> QED BY <1>b, <2>1, <2>2
<1>1. ASSUME NEW c \in Ids, SwitchStarted(c) PROVE Begins(Server(c))
  BY <1>1 DEF SwitchStarted, Begin, At, Go, Steps
<1>2. ASSUME NEW c \in Ids, ControllerStarted(c) PROVE Begins(Client(c))
  BY <1>2 DEF ControllerStarted, Begin, Find, Miss, At, Go, Steps
<1>3. ASSUME NEW c \in Ids, SwitchMessage(c) PROVE Begins(Server(c))
  BY <1>3 DEF SwitchMessage, Begin, Receive, LookUp, Find, Miss, At, Go, Steps
<1>4. ASSUME NEW c \in Ids, ControllerMessage(c) PROVE Begins(Client(c))
  BY <1>4 DEF ControllerMessage, Begin, Receive, LookUp, Find, Miss, At, Go, Steps
<1>5. ASSUME NEW c \in Ids, StartControllerConnection(c) PROVE Goes(Server(c))
  BY <1>5 DEF StartControllerConnection, Proceed, At, Go, Steps
<1>6. ASSUME NEW c \in Ids, EnqueueMessage(c) PROVE Goes(Server(c))
  BY <1>6 DEF EnqueueMessage, Dangle, Proceed, At, Go, Steps
<1>7. ASSUME NEW c \in Ids, RouteMessage(c) PROVE Goes(Server(c))
  BY <1>7 DEF RouteMessage, LookUp, Find, Miss, At, Go, Steps
<1>8. ASSUME NEW c \in Ids, AddProxyConnection(c) PROVE Goes(Client(c))
  BY <1>8 DEF AddProxyConnection, Dangle, Proceed, At, Go, Steps
<1>9. ASSUME NEW c \in Ids, Announce(c) PROVE Goes(Client(c))
  BY <1>9 DEF Announce, Post, Proceed, At, Go, Steps
<1>10. ASSUME NEW c \in Ids, SendDelayedMessage(c) PROVE Goes(Client(c))
  BY <1>10 DEF SendDelayedMessage, Post, Dangle, Proceed, At, Go, Steps
<1>11. ASSUME NEW c \in Ids, EraseWaiting(c) PROVE Goes(Client(c))
  BY <1>11 DEF EraseWaiting, Dangle, At, Go, Steps
<1>12. ASSUME NEW t \in Threads, LinkClosed(t) PROVE Begins(t)
  BY <1>12 DEF LinkClosed, Begin, LookUp, Find, Miss, At, Go, Steps
<1>13. ASSUME NEW t \in Threads, PostMessage(t) PROVE Goes(t)
  BY <1>13 DEF PostMessage, Post, Proceed, At, Go, Steps
<1>14. ASSUME NEW t \in Threads, CloseWaiting(t) PROVE Goes(t)
  BY <1>14 DEF CloseWaiting, Close, Dangle, Proceed, At, Go, Steps
<1>15. ASSUME NEW t \in Threads, LeaveConnection(t) PROVE Goes(t)
  BY <1>15 DEF LeaveConnection, LookUp, Find, Miss, At, Go, Steps
<1>16. ASSUME NEW t \in Threads, CloseBoth(t) PROVE Goes(t)
  BY <1>16 DEF CloseBoth, Close, Dangle, Proceed, At, Go, Steps
<1>17. ASSUME NEW t \in Threads, Farewell(t) PROVE Goes(t)
  BY <1>17 DEF Farewell, Post, Proceed, At, Go, Steps
<1> QED
  BY StepsOf, <1>a, <1>b, <1>1, <1>2, <1>3, <1>4, <1>5, <1>6, <1>7, <1>8, <1>9, <1>10,
     <1>11, <1>12, <1>13, <1>14, <1>15, <1>16, <1>17

(* While a thread is in a callback the other one of its connection is not. *)
LEMMA OthersIdle ==
  ASSUME OneAtATime, ~crossed, NEW t \in Threads, pc[t] # "idle"
  PROVE  \A u \in Threads \ {t} : u[1] = t[1] => pc[u] = "idle"
<1>1. pc[Peer(t)] = "idle"
  BY DEF OneAtATime
<1> QED BY <1>1, PeerOf

(* Nothing takes an entry away from the thread that has found it.          *)
LEMMA EntriesStep ==
  ASSUME ControlTyped, FaultTyped, MapsTyped, OneAtATime, EntriesStay, Next
  PROVE  EntriesStay'
<1> USE ThreadsOf, PeerOf DEF ControlTyped, FaultTyped, OneAtATime, EntriesStay, At, Go, maps
<1>1. ASSUME NEW c \in Ids, SwitchStarted(c) PROVE EntriesStay'
  BY <1>1 DEF SwitchStarted, Begin
<1>2. ASSUME NEW c \in Ids, ControllerStarted(c) PROVE EntriesStay'
  BY <1>2 DEF ControllerStarted, Begin, Find, Miss
<1>3. ASSUME NEW c \in Ids, SwitchMessage(c) PROVE EntriesStay'
  BY <1>3 DEF SwitchMessage, Begin, Receive, LookUp, Find, Miss
<1>4. ASSUME NEW c \in Ids, ControllerMessage(c) PROVE EntriesStay'
  BY <1>4 DEF ControllerMessage, Begin, Receive, LookUp, Find, Miss
<1>5. ASSUME NEW c \in Ids, StartControllerConnection(c) PROVE EntriesStay'
  BY <1>5 DEF StartControllerConnection, Proceed
<1>6. ASSUME NEW c \in Ids, EnqueueMessage(c) PROVE EntriesStay'
  <2>1. ~crossed /\ ~torn => c \in waiting
    BY <1>6 DEF EnqueueMessage
  <2>2. CASE c \in waiting
    <3>0. pc[Server(c)] = "enqueue"
      BY <1>6 DEF EnqueueMessage
    <3>1. ~crossed => \A u \in Threads : pc[u] = "settle" => u[1] # c
      BY <3>0, OthersIdle
    <3> QED BY <1>6, <2>2, <3>1 DEF EnqueueMessage, Proceed, MapsTyped
  <2>3. CASE c \notin waiting
    BY <1>6, <2>1, <2>3 DEF EnqueueMessage, Dangle
  <2> QED BY <2>2, <2>3
<1>7. ASSUME NEW c \in Ids, RouteMessage(c) PROVE EntriesStay'
  BY <1>7 DEF RouteMessage, LookUp, Find, Miss
<1>8. ASSUME NEW c \in Ids, AddProxyConnection(c) PROVE EntriesStay'
  BY <1>8 DEF AddProxyConnection, Dangle, Proceed
<1>9. ASSUME NEW c \in Ids, Announce(c) PROVE EntriesStay'
  BY <1>9 DEF Announce, Post, Proceed
<1>10. ASSUME NEW c \in Ids, SendDelayedMessage(c) PROVE EntriesStay'
  <2>1. ~crossed /\ ~torn => c \in waiting
    BY <1>10 DEF SendDelayedMessage
  <2>2. CASE c \notin waiting
    BY <1>10, <2>1, <2>2 DEF SendDelayedMessage, Dangle
  <2>3. CASE c \in waiting /\ queue[c] = <<>>
    BY <1>10, <2>3 DEF SendDelayedMessage, Proceed
  <2>4. CASE c \in waiting /\ queue[c] # <<>>
    BY <1>10, <2>4 DEF SendDelayedMessage, Proceed, MapsTyped
  <2> QED BY <2>2, <2>3, <2>4
<1>11. ASSUME NEW c \in Ids, EraseWaiting(c) PROVE EntriesStay'
  <2>1. ~crossed /\ ~torn => c \in waiting /\ queue[c] = <<>>
    BY <1>11 DEF EraseWaiting
  <2>2. CASE c \notin waiting
    BY <1>11, <2>1, <2>2 DEF EraseWaiting, Dangle
  <2>3. CASE c \in waiting
    <3>0. pc[Client(c)] = "settle" /\ pc' = [pc EXCEPT ![Client(c)] = "idle"]
      BY <1>11, <2>3 DEF EraseWaiting
    <3>1. ~crossed => \A u \in Threads : u[1] = c => pc'[u] = "idle"
      BY <3>0, OthersIdle
    <3>2. ~crossed /\ ~torn => lost' = {}
      BY <1>11, <2>1, <2>3 DEF EraseWaiting
    <3>3. /\ waiting' = waiting \ {c} /\ queue' = [queue EXCEPT ![c] = <<>>]
          /\ UNCHANGED <<connections, fault, torn, crossed>>
          /\ \A u \in Threads : u[1] # c => pc'[u] = pc[u]
      BY <1>11, <2>3 DEF EraseWaiting
    <3> QED BY <3>1, <3>2, <3>3 DEF MapsTyped
  <2> QED BY <2>2, <2>3
<1>12. ASSUME NEW t \in Threads, LinkClosed(t) PROVE EntriesStay'
  BY <1>12 DEF LinkClosed, Begin, LookUp, Find, Miss
<1>13. ASSUME NEW t \in Threads, PostMessage(t) PROVE EntriesStay'
  BY <1>13 DEF PostMessage, Post, Proceed
<1>14. ASSUME NEW t \in Threads, CloseWaiting(t) PROVE EntriesStay'
  <2>1. ~crossed /\ ~torn => t[1] \in waiting
    BY <1>14 DEF CloseWaiting
  <2>2. CASE t[1] \notin waiting
    BY <1>14, <2>1, <2>2 DEF CloseWaiting, Dangle
  <2>3. CASE t[1] \in waiting
    <3>0. pc[t] = "closeWaiting" /\ pc' = [pc EXCEPT ![t] = "idle"]
      BY <1>14, <2>3 DEF CloseWaiting
    <3>1. ~crossed => \A u \in Threads : u[1] = t[1] => pc'[u] = "idle"
      BY <3>0, OthersIdle
    <3>2. /\ waiting' = waiting \ {t[1]} /\ queue' = [queue EXCEPT ![t[1]] = <<>>]
          /\ UNCHANGED <<connections, fault, lost, torn, crossed>>
          /\ \A u \in Threads : u[1] # t[1] => pc'[u] = pc[u]
      BY <1>14, <2>3 DEF CloseWaiting, Proceed
    <3> QED BY <3>1, <3>2 DEF MapsTyped
  <2> QED BY <2>2, <2>3
<1>15. ASSUME NEW t \in Threads, LeaveConnection(t) PROVE EntriesStay'
  BY <1>15 DEF LeaveConnection, LookUp, Find, Miss
<1>16. ASSUME NEW t \in Threads, CloseBoth(t) PROVE EntriesStay'
  BY <1>16 DEF CloseBoth, Close, Dangle, Proceed
<1>17. ASSUME NEW t \in Threads, Farewell(t) PROVE EntriesStay'
  BY <1>17 DEF Farewell, Post, Proceed
<1> QED
  BY StepsOf, <1>1, <1>2, <1>3, <1>4, <1>5, <1>6, <1>7, <1>8, <1>9, <1>10,
     <1>11, <1>12, <1>13, <1>14, <1>15, <1>16, <1>17

(***************************************************************************)
(* The events.  As long as no accesses have collided, where the threads of *)
(* a connection are says how far its events have come.                     *)
(***************************************************************************)
Intact == fault = "none" /\ ~torn

Accepted == {"open", "closing", "closed"}
Adopting == {"adopt", "announce", "drain", "settle"}
Handing == {"enqueue", "route", "post"}
Parting == {"closeWaiting", "leave", "closeBoth", "farewell"}

Shut == \A t \in Threads : pc[t] \in Parting => link[t] = "closed"

(* The entry of a waiting connection is there until the controller has     *)
(* accepted it, unless the switch has closed its link; and the server      *)
(* thread goes on to connections_ only without it.                         *)
AcceptInOrder == Intact => \A c \in Ids :
  /\ pc[Client(c)] # "closeWaiting"
  /\ pc[Client(c)] # "idle" => link[Client(c)] \in Accepted
  /\ link[Client(c)] \in Accepted /\ pc[Client(c)] \notin Adopting => c \notin waiting
  /\ pc[Client(c)] \in Adopting =>
       c \in waiting \/ (link[Server(c)] = "closed" /\ pc[Server(c)] = "idle")
  /\ pc[Server(c)] \in {"route", "post", "leave", "closeBoth", "farewell"} =>
       c \notin waiting
  /\ pc[Client(c)] \in {"announce", "drain", "settle"} => c \in connections

LEMMA ThreadCases ==
  ASSUME NEW t \in Threads
  PROVE  \E c \in Ids : t[1] = c /\ t \in {Server(c), Client(c)}
BY DEF Threads, Sides, Server, Client

(* A lookup that is not torn tells whether the entry is there.             *)
LEMMA MissHonest ==
  ASSUME NEW t, NEW map, NEW steps, Miss(t, map, steps), ~torn'
  PROVE  t[1] \notin map
BY DEF Miss

LEMMA LookUpHonest ==
  ASSUME NEW t, NEW map, NEW steps, NEW found, NEW missed,
         LookUp(t, map, steps, found, missed), ~torn'
  PROVE  \/ t[1] \in map /\ Go(t, found)
         \/ t[1] \notin map /\ Go(t, missed)
BY MissHonest DEF LookUp, Find

LEMMA IntactBefore ==
  ASSUME FaultTyped, Next, Intact'
  PROVE  Intact
<1> USE DEF Intact, At, FaultTyped, Running
<1>1. ASSUME NEW c \in Ids, SwitchStarted(c) PROVE Intact
  BY <1>1 DEF SwitchStarted, Begin
<1>2. ASSUME NEW c \in Ids, ControllerStarted(c) PROVE Intact
  BY <1>2 DEF ControllerStarted, Begin, Find, Miss
<1>3. ASSUME NEW c \in Ids, SwitchMessage(c) PROVE Intact
  BY <1>3 DEF SwitchMessage, Begin, Receive, LookUp, Find, Miss
<1>4. ASSUME NEW c \in Ids, ControllerMessage(c) PROVE Intact
  BY <1>4 DEF ControllerMessage, Begin, Receive, LookUp, Find, Miss
<1>5. ASSUME NEW c \in Ids, StartControllerConnection(c) PROVE Intact
  BY <1>5 DEF StartControllerConnection, Proceed
<1>6. ASSUME NEW c \in Ids, EnqueueMessage(c) PROVE Intact
  BY <1>6 DEF EnqueueMessage, Dangle, Proceed
<1>7. ASSUME NEW c \in Ids, RouteMessage(c) PROVE Intact
  BY <1>7 DEF RouteMessage, LookUp, Find, Miss
<1>8. ASSUME NEW c \in Ids, AddProxyConnection(c) PROVE Intact
  BY <1>8 DEF AddProxyConnection, Dangle, Proceed
<1>9. ASSUME NEW c \in Ids, Announce(c) PROVE Intact
  BY <1>9 DEF Announce, Post, Proceed
<1>10. ASSUME NEW c \in Ids, SendDelayedMessage(c) PROVE Intact
  BY <1>10 DEF SendDelayedMessage, Post, Dangle, Proceed
<1>11. ASSUME NEW c \in Ids, EraseWaiting(c) PROVE Intact
  BY <1>11 DEF EraseWaiting, Dangle
<1>12. ASSUME NEW t \in Threads, LinkClosed(t) PROVE Intact
  BY <1>12 DEF LinkClosed, Begin, LookUp, Find, Miss
<1>13. ASSUME NEW t \in Threads, PostMessage(t) PROVE Intact
  BY <1>13 DEF PostMessage, Post, Proceed
<1>14. ASSUME NEW t \in Threads, CloseWaiting(t) PROVE Intact
  BY <1>14 DEF CloseWaiting, Close, Dangle, Proceed
<1>15. ASSUME NEW t \in Threads, LeaveConnection(t) PROVE Intact
  BY <1>15 DEF LeaveConnection, LookUp, Find, Miss
<1>16. ASSUME NEW t \in Threads, CloseBoth(t) PROVE Intact
  BY <1>16 DEF CloseBoth, Close, Dangle, Proceed
<1>17. ASSUME NEW t \in Threads, Farewell(t) PROVE Intact
  BY <1>17 DEF Farewell, Post, Proceed
<1> QED
  BY StepsOf, <1>1, <1>2, <1>3, <1>4, <1>5, <1>6, <1>7, <1>8, <1>9, <1>10,
     <1>11, <1>12, <1>13, <1>14, <1>15, <1>16, <1>17

LEMMA ShutStep ==
  ASSUME ControlTyped, LinksInOrder, Shut, Next
  PROVE  Shut'
<1> USE ThreadsOf DEF ControlTyped, LinksInOrder, Shut, Parting, Steps, Links, At, Go, maps
<1>1. ASSUME NEW c \in Ids, SwitchStarted(c) PROVE Shut'
  BY <1>1 DEF SwitchStarted, Begin
<1>2. ASSUME NEW c \in Ids, ControllerStarted(c) PROVE Shut'
  BY <1>2 DEF ControllerStarted, Begin, Find, Miss
<1>3. ASSUME NEW c \in Ids, SwitchMessage(c) PROVE Shut'
  BY <1>3 DEF SwitchMessage, Begin, Receive, LookUp, Find, Miss
<1>4. ASSUME NEW c \in Ids, ControllerMessage(c) PROVE Shut'
  BY <1>4 DEF ControllerMessage, Begin, Receive, LookUp, Find, Miss
<1>5. ASSUME NEW c \in Ids, StartControllerConnection(c) PROVE Shut'
  BY <1>5 DEF StartControllerConnection, Proceed
<1>6. ASSUME NEW c \in Ids, EnqueueMessage(c) PROVE Shut'
  BY <1>6 DEF EnqueueMessage, Dangle, Proceed
<1>7. ASSUME NEW c \in Ids, RouteMessage(c) PROVE Shut'
  BY <1>7 DEF RouteMessage, LookUp, Find, Miss
<1>8. ASSUME NEW c \in Ids, AddProxyConnection(c) PROVE Shut'
  BY <1>8 DEF AddProxyConnection, Dangle, Proceed
<1>9. ASSUME NEW c \in Ids, Announce(c) PROVE Shut'
  BY <1>9 DEF Announce, Post, Proceed
<1>10. ASSUME NEW c \in Ids, SendDelayedMessage(c) PROVE Shut'
  BY <1>10 DEF SendDelayedMessage, Post, Dangle, Proceed
<1>11. ASSUME NEW c \in Ids, EraseWaiting(c) PROVE Shut'
  BY <1>11 DEF EraseWaiting, Dangle
<1>12. ASSUME NEW t \in Threads, LinkClosed(t) PROVE Shut'
  BY <1>12 DEF LinkClosed, Begin, LookUp, Find, Miss
<1>13. ASSUME NEW t \in Threads, PostMessage(t) PROVE Shut'
  BY <1>13 DEF PostMessage, Post, Proceed
<1>14. ASSUME NEW t \in Threads, CloseWaiting(t) PROVE Shut'
  BY <1>14 DEF CloseWaiting, Close, Dangle, Proceed
<1>15. ASSUME NEW t \in Threads, LeaveConnection(t) PROVE Shut'
  BY <1>15 DEF LeaveConnection, LookUp, Find, Miss
<1>16. ASSUME NEW t \in Threads, CloseBoth(t) PROVE Shut'
  BY <1>16 DEF CloseBoth, Close, Dangle, Proceed
<1>17. ASSUME NEW t \in Threads, Farewell(t) PROVE Shut'
  BY <1>17 DEF Farewell, Post, Proceed
<1> QED
  BY StepsOf, <1>1, <1>2, <1>3, <1>4, <1>5, <1>6, <1>7, <1>8, <1>9, <1>10,
     <1>11, <1>12, <1>13, <1>14, <1>15, <1>16, <1>17

LEMMA AcceptStep ==
  ASSUME ControlTyped, FaultTyped, LinksInOrder, Shut, AcceptInOrder, Next, Intact'
  PROVE  AcceptInOrder'
<1>0. Intact
  BY IntactBefore
<1> USE <1>0, ThreadsOf, PeerOf DEF ControlTyped, AcceptInOrder, Shut, Parting, Accepted,
        Adopting, Intact, LinksInOrder, Steps, Links, At, Go, maps
<1>1. ASSUME NEW c \in Ids, SwitchStarted(c) PROVE AcceptInOrder'
  BY <1>1 DEF SwitchStarted, Begin
<1>2. ASSUME NEW c \in Ids, ControllerStarted(c) PROVE AcceptInOrder'
  <2>1. /\ link[Client(c)] = "connecting" /\ pc[Client(c)] = "idle"
        /\ UNCHANGED <<waiting, connections>>
    BY <1>2 DEF ControllerStarted, Begin
  <2>2. \/ /\ c \in waiting /\ link' = [link EXCEPT ![Client(c)] = "open"]
           /\ pc' = [pc EXCEPT ![Client(c)] = "adopt"]
        \/ /\ c \notin waiting /\ link' = [link EXCEPT ![Client(c)] = "closing"]
           /\ pc' = pc
    <3>1. Miss(Client(c), waiting, ChangeWaiting) => c \notin waiting
      BY MissHonest
    <3> QED BY <1>2, <3>1 DEF ControllerStarted, Find
  <2>3. /\ \A d \in Ids : Server(d) # Client(c) /\ (Client(d) = Client(c) => d = c)
        /\ \A d \in Ids : pc'[Server(d)] = pc[Server(d)] /\ link'[Server(d)] = link[Server(d)]
        /\ \A d \in Ids \ {c} : pc'[Client(d)] = pc[Client(d)] /\ link'[Client(d)] = link[Client(d)]
    BY <2>1, <2>2
  <2>4. CASE c \in waiting
    BY <2>1, <2>2, <2>3, <2>4
  <2>5. CASE c \notin waiting
    BY <2>1, <2>2, <2>3, <2>5
  <2> QED BY <2>4, <2>5
<1>3. ASSUME NEW c \in Ids, SwitchMessage(c) PROVE AcceptInOrder'
  <2>1. /\ link[Server(c)] = "open" /\ pc[Server(c)] = "idle"
        /\ UNCHANGED <<link, waiting, connections>>
    BY <1>3 DEF SwitchMessage, Receive, Begin
  <2>2. \/ c \in waiting /\ pc' = [pc EXCEPT ![Server(c)] = "enqueue"]
        \/ c \notin waiting /\ pc' = [pc EXCEPT ![Server(c)] = "route"]
    <3>1. LookUp(Server(c), waiting, ChangeWaiting, "enqueue", "route")
      BY <1>3 DEF SwitchMessage
    <3> QED BY <3>1, LookUpHonest
  <2>3. /\ \A d \in Ids : pc'[Client(d)] = pc[Client(d)]
        /\ \A d \in Ids \ {c} : pc'[Server(d)] = pc[Server(d)]
    BY <2>2
  <2> QED BY <2>1, <2>2, <2>3
<1>4. ASSUME NEW c \in Ids, ControllerMessage(c) PROVE AcceptInOrder'
  BY <1>4 DEF ControllerMessage, Begin, Receive, LookUp, Find, Miss
<1>5. ASSUME NEW c \in Ids, StartControllerConnection(c) PROVE AcceptInOrder'
  BY <1>5 DEF StartControllerConnection, Proceed
<1>6. ASSUME NEW c \in Ids, EnqueueMessage(c) PROVE AcceptInOrder'
  BY <1>6 DEF EnqueueMessage, Dangle, Proceed
<1>7. ASSUME NEW c \in Ids, RouteMessage(c) PROVE AcceptInOrder'
  BY <1>7 DEF RouteMessage, LookUp, Find, Miss
<1>8. ASSUME NEW c \in Ids, AddProxyConnection(c) PROVE AcceptInOrder'
  BY <1>8 DEF AddProxyConnection, Dangle, Proceed
<1>9. ASSUME NEW c \in Ids, Announce(c) PROVE AcceptInOrder'
  BY <1>9 DEF Announce, Post, Proceed
<1>10. ASSUME NEW c \in Ids, SendDelayedMessage(c) PROVE AcceptInOrder'
  BY <1>10 DEF SendDelayedMessage, Post, Dangle, Proceed
<1>11. ASSUME NEW c \in Ids, EraseWaiting(c) PROVE AcceptInOrder'
  BY <1>11 DEF EraseWaiting, Dangle
<1>12. ASSUME NEW t \in Threads, LinkClosed(t) PROVE AcceptInOrder'
  <2>1. /\ link[t] \in {"open", "closing"} /\ pc[t] = "idle"
        /\ link' = [link EXCEPT ![t] = "closed"]
        /\ UNCHANGED <<waiting, connections>>
    BY <1>12 DEF LinkClosed, Begin
  <2>2. \/ t[1] \in waiting /\ pc' = [pc EXCEPT ![t] = "closeWaiting"]
        \/ t[1] \notin waiting /\ pc' = [pc EXCEPT ![t] = "leave"]
    <3>1. LookUp(t, waiting, ChangeWaiting, "closeWaiting", "leave")
      BY <1>12 DEF LinkClosed
    <3> QED BY <3>1, LookUpHonest
  <2>3. \A u \in Threads \ {t} : pc'[u] = pc[u] /\ link'[u] = link[u]
    BY <2>1, <2>2
  <2>4. PICK c \in Ids : t \in {Server(c), Client(c)}
    BY ThreadCases
  <2>5. CASE t = Server(c)
    BY <2>1, <2>2, <2>3, <2>5
  <2>6. CASE t = Client(c)
    BY <2>1, <2>2, <2>3, <2>6
  <2> QED BY <2>4, <2>5, <2>6
<1>13. ASSUME NEW t \in Threads, PostMessage(t) PROVE AcceptInOrder'
  BY <1>13 DEF PostMessage, Post, Proceed
<1>14. ASSUME NEW t \in Threads, CloseWaiting(t) PROVE AcceptInOrder'
  <2>1. PICK c \in Ids : t \in {Server(c), Client(c)}
    BY ThreadCases
  <2>2. t = Server(c) /\ pc[t] = "closeWaiting" /\ link[t] = "closed"
    BY <1>14, <2>1 DEF CloseWaiting
  <2>3. /\ pc' = [pc EXCEPT ![t] = "idle"] /\ waiting' = waiting \ {c}
        /\ connections' = connections /\ link' = Close(link, {t})
    <3>1. ~Dangle(t)
      BY <2>2 DEF Dangle
    <3>2. t[1] = c /\ Server(t[1]) = t
      BY <2>1, <2>2
    <3>3. /\ pc' = [pc EXCEPT ![t] = "idle"] /\ waiting' = waiting \ {t[1]}
          /\ connections' = connections /\ link' = Close(link, {Server(t[1])})
      BY <1>14, <3>1 DEF CloseWaiting
    <3> QED BY <3>2, <3>3
  <2>4. link' = link
    BY <2>2, <2>3 DEF Close
  <2>5. \A u \in Threads \ {t} : pc'[u] = pc[u]
    BY <2>3
  <2> QED BY <2>2, <2>3, <2>4, <2>5
<1>15. ASSUME NEW t \in Threads, LeaveConnection(t) PROVE AcceptInOrder'
  BY <1>15 DEF LeaveConnection, LookUp, Find, Miss
<1>16. ASSUME NEW t \in Threads, CloseBoth(t) PROVE AcceptInOrder'
  BY <1>16 DEF CloseBoth, Close, Dangle, Proceed
<1>17. ASSUME NEW t \in Threads, Farewell(t) PROVE AcceptInOrder'
  BY <1>17 DEF Farewell, Post, Proceed
<1> QED
  BY StepsOf, <1>1, <1>2, <1>3, <1>4, <1>5, <1>6, <1>7, <1>8, <1>9, <1>10,
     <1>11, <1>12, <1>13, <1>14, <1>15, <1>16, <1>17

----
(* The events of a connection in a queue, and what one more of them does   *)
(* to its stage and to the last numbers of its messages.                   *)
EventsIn(q, c) == {i \in DOMAIN q : q[i].id = c}
KindsIn(q, c) == {q[i].kind : i \in EventsIn(q, c)}
EndIn(q, c) == q[CHOOSE i \in EventsIn(q, c) : \A j \in EventsIn(q, c) : j <= i].kind
NumbersIn(q, c, side) == {q[i].n : i \in {j \in EventsIn(q, c) : q[j].kind = side}}
MaxOf(ns) == IF ns = {} THEN 0 ELSE CHOOSE n \in ns : \A k \in ns : k <= n

LEMMA EventsPosted ==
  ASSUME NEW c
  PROVE  /\ Kinds(c) = KindsIn(posted, c)
         /\ Kinds(c)' = KindsIn(posted', c)
         /\ StageOf(c) = IF "new" \notin Kinds(c) THEN "unknown"
                         ELSE IF "closed" \notin Kinds(c) THEN "open"
                         ELSE IF EndIn(posted, c) = "closed" THEN "closed" ELSE "late"
         /\ StageOf(c)' = IF "new" \notin Kinds(c)' THEN "unknown"
                          ELSE IF "closed" \notin Kinds(c)' THEN "open"
                          ELSE IF EndIn(posted', c) = "closed" THEN "closed" ELSE "late"
         /\ \A side : LastOf(c, side) = MaxOf(NumbersIn(posted, c, side))
         /\ \A side : LastOf(c, side)' = MaxOf(NumbersIn(posted', c, side))
<1>1. Kinds(c) = KindsIn(posted, c) /\ Kinds(c)' = KindsIn(posted', c)
  BY DEF Kinds, KindsIn, Of, EventsIn
<1>2. posted[CHOOSE i \in Of(c) : \A j \in Of(c) : j <= i].kind = EndIn(posted, c)
  BY DEF Of, EndIn, EventsIn
<1>3. StageOf(c) = IF "new" \notin Kinds(c) THEN "unknown"
                   ELSE IF "closed" \notin Kinds(c) THEN "open"
                   ELSE IF EndIn(posted, c) = "closed" THEN "closed" ELSE "late"
  BY <1>2 DEF StageOf
<1>4. StageOf(c)' = IF "new" \notin Kinds(c)' THEN "unknown"
                    ELSE IF "closed" \notin Kinds(c)' THEN "open"
                    ELSE IF EndIn(posted', c) = "closed" THEN "closed" ELSE "late"
  <2>1. posted'[CHOOSE i \in Of(c)' : \A j \in Of(c)' : j <= i].kind = EndIn(posted', c)
    BY DEF Of, EndIn, EventsIn
  <2> QED BY <2>1 DEF StageOf
<1>5. \A side : LastOf(c, side) = MaxOf(NumbersIn(posted, c, side))
  BY Zenon DEF LastOf, NumbersIn, MaxOf, Of, EventsIn
<1>6. \A side : LastOf(c, side)' = MaxOf(NumbersIn(posted', c, side))
  BY Zenon DEF LastOf, NumbersIn, MaxOf, Of, EventsIn
<1> QED BY <1>1, <1>3, <1>4, <1>5, <1>6

LEMMA OneMore ==
  ASSUME NEW q \in Seq(Event), NEW e \in Event, NEW c \in Ids
  PROVE  /\ e.id = c => /\ EventsIn(Append(q, e), c) = EventsIn(q, c) \cup {Len(q) + 1}
                        /\ KindsIn(Append(q, e), c) = KindsIn(q, c) \cup {e.kind}
                        /\ EndIn(Append(q, e), c) = e.kind
         /\ e.id # c => /\ KindsIn(Append(q, e), c) = KindsIn(q, c)
                        /\ EventsIn(q, c) # {} => EndIn(Append(q, e), c) = EndIn(q, c)
         /\ \A side :
              NumbersIn(Append(q, e), c, side)
                = IF e.id = c /\ e.kind = side THEN NumbersIn(q, c, side) \cup {e.n}
                                               ELSE NumbersIn(q, c, side)
<1> DEFINE r == Append(q, e)
<1>1. /\ Len(q) \in Nat /\ DOMAIN q = 1 .. Len(q) /\ DOMAIN r = 1 .. Len(q) + 1
      /\ \A i \in 1 .. Len(q) : r[i] = q[i]
      /\ r[Len(q) + 1] = e
  BY AppendFacts
<1> HIDE DEF r
<1>2. CASE e.id = c
  <2>1. EventsIn(r, c) = EventsIn(q, c) \cup {Len(q) + 1}
    BY <1>1, <1>2 DEF EventsIn
  <2>2. \A i \in EventsIn(q, c) : r[i] = q[i] /\ i <= Len(q) /\ i \in Nat
    BY <1>1 DEF EventsIn
  <2>3. KindsIn(r, c) = KindsIn(q, c) \cup {e.kind}
    BY <1>1, <2>1, <2>2 DEF KindsIn
  <2>4. EndIn(r, c) = e.kind
    <3> DEFINE P(i) == \A j \in EventsIn(r, c) : j <= i
    <3>1. Len(q) + 1 \in EventsIn(r, c) /\ P(Len(q) + 1)
      BY <1>1, <2>1, <2>2
    <3>2. \A i \in EventsIn(r, c) : P(i) => i = Len(q) + 1
      BY <1>1, <2>1, <2>2, <3>1
    <3>3. (CHOOSE i \in EventsIn(r, c) : P(i)) = Len(q) + 1
      BY <3>1, <3>2
    <3> QED BY <1>1, <3>3 DEF EndIn
  <2>5. \A side :
          NumbersIn(r, c, side) = IF e.kind = side THEN NumbersIn(q, c, side) \cup {e.n}
                                                   ELSE NumbersIn(q, c, side)
    BY <1>1, <2>1, <2>2 DEF NumbersIn
  <2> QED BY <1>2, <2>1, <2>3, <2>4, <2>5 DEF r
<1>3. CASE e.id # c
  <2>1. EventsIn(r, c) = EventsIn(q, c)
    BY <1>1, <1>3 DEF EventsIn
  <2>2. \A i \in EventsIn(q, c) : r[i] = q[i]
    BY <1>1 DEF EventsIn
  <2>3. KindsIn(r, c) = KindsIn(q, c)
    BY <2>1, <2>2 DEF KindsIn
  <2>4. \A side : NumbersIn(r, c, side) = NumbersIn(q, c, side)
    BY <2>1, <2>2 DEF NumbersIn
  <2>5. ASSUME EventsIn(q, c) # {} PROVE EndIn(r, c) = EndIn(q, c)
    <3>1. EventsIn(q, c) \in SUBSET (1 .. Len(q))
      BY <1>1 DEF EventsIn
    <3>2. \E i \in EventsIn(q, c) : \A j \in EventsIn(q, c) : j <= i
      BY <1>1, <2>5, <3>1, LastIndex
    <3>3. (CHOOSE i \in EventsIn(q, c) : \A j \in EventsIn(q, c) : j <= i) \in EventsIn(q, c)
      BY <3>2
    <3> QED BY <2>1, <2>2, <3>3 DEF EndIn
  <2> QED BY <1>3, <2>3, <2>4, <2>5 DEF r
<1> QED BY <1>2, <1>3

LEMMA LargestNumber ==
  ASSUME NEW m \in Nat, NEW ns \in SUBSET (1 .. m)
  PROVE  /\ MaxOf(ns) \in 0 .. m
         /\ \A n \in Nat : n > MaxOf(ns) => MaxOf(ns \cup {n}) = n
<1>1. CASE ns = {}
  <2>1. MaxOf(ns) = 0
    BY <1>1 DEF MaxOf
  <2>2. ASSUME NEW n \in Nat PROVE MaxOf(ns \cup {n}) = n
    BY <1>1 DEF MaxOf
  <2> QED BY <2>1, <2>2
<1>2. CASE ns # {}
  <2>1. PICK l \in ns : \A k \in ns : k <= l
    BY <1>2, LastIndex
  <2>2. MaxOf(ns) = l
    <3>1. \A x \in ns : (\A k \in ns : k <= x) => x = l
      BY <2>1
    <3> QED BY <1>2, <2>1, <3>1 DEF MaxOf
  <2>3. ASSUME NEW n \in Nat, n > l PROVE MaxOf(ns \cup {n}) = n
    <3>1. \A k \in ns \cup {n} : k <= n
      BY <2>1, <2>3
    <3>2. \A x \in ns \cup {n} : (\A k \in ns \cup {n} : k <= x) => x = n
      BY <2>1, <2>3, <3>1
    <3> QED BY <3>1, <3>2 DEF MaxOf
  <2> QED BY <2>1, <2>2, <2>3
<1> QED BY <1>1, <1>2

(* A message that is posted is in the bounds of its side.                  *)
LEMMA LastTyped ==
  ASSUME PostedTyped, NEW c \in Ids, NEW side \in Sides
  PROVE  /\ NumbersIn(posted, c, side) \in SUBSET (1 .. MaxSent[side])
         /\ MaxSent[side] \in Nat
         /\ LastOf(c, side) \in 0 .. MaxSent[side]
<1>1. MaxSent[side] \in Nat
  BY MaxSentAssumption
<1>2. ASSUME NEW i \in EventsIn(posted, c), posted[i].kind = side
      PROVE  posted[i].n \in 1 .. MaxSent[side]
  <2>1. posted[i] \in Event
    BY DEF PostedTyped, EventsIn
  <2> QED BY <1>2, <2>1 DEF Event, Message, Sides
<1>3. NumbersIn(posted, c, side) \in SUBSET (1 .. MaxSent[side])
  BY <1>2 DEF NumbersIn
<1> QED BY <1>1, <1>3, EventsPosted, LargestNumber

LEMMA EventTyped ==
  ASSUME NEW c \in Ids
  PROVE  /\ \A kind \in {"new", "closed"} : [id |-> c, kind |-> kind, n |-> 0] \in Event
         /\ \A side \in Sides : \A n \in 1 .. MaxSent[side] :
              [id |-> c, kind |-> side, n |-> n] \in Event
BY DEF Event, Message, Sides

LEMMA SentMessage ==
  ASSUME Typed, NEW t \in Threads, pc[t] \in {"enqueue", "route", "post"}
  PROVE  /\ t[1] \in Ids /\ t[2] \in Sides
         /\ sent[t] \in 1 .. MaxSent[t[2]]
         /\ [id |-> t[1], kind |-> t[2], n |-> sent[t]] \in Event
<1>1. t[1] \in Ids /\ t[2] \in Sides /\ MaxSent[t[2]] \in Nat
  BY MaxSentAssumption DEF Threads
<1>2. sent[t] \in 1 .. MaxSent[t[2]]
  BY <1>1 DEF Typed, Pending, SentTyped
<1> QED BY <1>1, <1>2, EventTyped

LEMMA AfterPost ==
  ASSUME PostedTyped, NEW e \in Event, posted' = Append(posted, e), NEW c \in Ids
  PROVE  /\ e.id = c =>
              /\ Kinds(c)' = Kinds(c) \cup {e.kind}
              /\ StageOf(c)' = IF "new" \notin Kinds(c)' THEN "unknown"
                               ELSE IF "closed" \notin Kinds(c)' THEN "open"
                               ELSE IF e.kind = "closed" THEN "closed" ELSE "late"
         /\ e.id # c => Kinds(c)' = Kinds(c) /\ StageOf(c)' = StageOf(c)
         /\ \A side \in Sides :
              /\ e.id # c \/ e.kind # side => LastOf(c, side)' = LastOf(c, side)
              /\ e.id = c /\ e.kind = side /\ LastOf(c, side) < e.n =>
                   LastOf(c, side)' = e.n
<1>1. posted \in Seq(Event)
  BY DEF PostedTyped
<1>2. e.id = c => Kinds(c)' = Kinds(c) \cup {e.kind} /\ EndIn(posted', c) = e.kind
  BY <1>1, EventsPosted, OneMore
<1>3. ASSUME e.id # c
      PROVE  Kinds(c)' = Kinds(c) /\ StageOf(c)' = StageOf(c)
  <2>1. Kinds(c)' = Kinds(c)
    BY <1>1, <1>3, EventsPosted, OneMore
  <2>2. "new" \in Kinds(c) => EventsIn(posted, c) # {}
    BY EventsPosted DEF KindsIn
  <2>3. "new" \in Kinds(c) => EndIn(posted', c) = EndIn(posted, c)
    BY <1>1, <1>3, <2>2, OneMore
  <2> QED BY <2>1, <2>3, EventsPosted
<1>4. ASSUME NEW side \in Sides
      PROVE  /\ e.id # c \/ e.kind # side => LastOf(c, side)' = LastOf(c, side)
             /\ e.id = c /\ e.kind = side /\ LastOf(c, side) < e.n => LastOf(c, side)' = e.n
  <2>1. /\ LastOf(c, side) = MaxOf(NumbersIn(posted, c, side))
        /\ LastOf(c, side)' = MaxOf(NumbersIn(posted', c, side))
    BY EventsPosted
  <2>2. NumbersIn(posted', c, side)
          = IF e.id = c /\ e.kind = side THEN NumbersIn(posted, c, side) \cup {e.n}
                                         ELSE NumbersIn(posted, c, side)
    BY <1>1, OneMore
  <2>3. e.kind = side => e.n \in Nat
    BY LastTyped DEF Event, Message, Sides
  <2>4. e.kind = side /\ e.n > LastOf(c, side) =>
          MaxOf(NumbersIn(posted, c, side) \cup {e.n}) = e.n
    BY <2>1, <2>3, LastTyped, LargestNumber
  <2>5. LastOf(c, side) \in Nat
    BY LastTyped
  <2> QED BY <2>1, <2>2, <2>3, <2>4, <2>5
<1> QED BY <1>2, <1>3, <1>4, EventsPosted

LEMMA NothingPosted ==
  ASSUME posted' = posted, NEW c
  PROVE  /\ Kinds(c)' = Kinds(c) /\ StageOf(c)' = StageOf(c)
         /\ \A side : LastOf(c, side)' = LastOf(c, side)
BY EventsPosted

----
(* A connection is announced before anything else is posted of it, and its *)
(* end is posted by the thread that takes it out of connections_.  What is *)
(* still to come then was routed before.                                   *)
Announced(c) == "new" \in Kinds(c)
Ended(c) == "closed" \in Kinds(c)

StagesInOrder == Intact =>
  /\ \A c \in Ids :
       /\ Announced(c) \/ Kinds(c) = {}
       /\ Announced(c) =>
            link[Client(c)] \in Accepted /\ pc[Client(c)] \notin {"adopt", "announce"}
       /\ c \in connections =>
            (Announced(c) \/ pc[Client(c)] = "announce") /\ ~Ended(c)
  /\ \A t \in Threads :
       /\ pc[t] \in {"post", "closeBoth", "farewell"} => Announced(t[1])
       /\ pc[t] = "farewell" =>
            ~Ended(t[1]) /\ t[1] \notin connections /\ pc[Peer(t)] # "farewell"
       /\ pc[t] = "post" /\ Ended(t[1]) =>
            pc[Peer(t)] # "post" /\ StageOf(t[1]) = "closed"

LEMMA StagesStep ==
  ASSUME Typed, LinksInOrder, Shut, AcceptInOrder, StagesInOrder, Next, Intact'
  PROVE  StagesInOrder'
<1>0. Intact /\ ControlTyped /\ FaultTyped
  BY IntactBefore DEF Typed
<1>q. ASSUME posted' = posted
      PROVE  \A c : Kinds(c)' = Kinds(c) /\ StageOf(c)' = StageOf(c)
  BY <1>q, NothingPosted
<1> USE <1>0, <1>q, ThreadsOf, PeerOf DEF ControlTyped, FaultTyped, StagesInOrder, Announced, Ended, AcceptInOrder, Shut, Parting, Accepted,
        Adopting, Intact, LinksInOrder, Steps, Links, At, Go, maps
<1>1. ASSUME NEW c \in Ids, SwitchStarted(c) PROVE StagesInOrder'
  BY <1>1 DEF SwitchStarted, Begin
<1>2. ASSUME NEW c \in Ids, ControllerStarted(c) PROVE StagesInOrder'
  BY <1>2 DEF ControllerStarted, Begin, Find, Miss
<1>3. ASSUME NEW c \in Ids, SwitchMessage(c) PROVE StagesInOrder'
  BY <1>3 DEF SwitchMessage, Begin, Receive, LookUp, Find, Miss
<1>4. ASSUME NEW c \in Ids, ControllerMessage(c) PROVE StagesInOrder'
  BY <1>4 DEF ControllerMessage, Begin, Receive, LookUp, Find, Miss
<1>5. ASSUME NEW c \in Ids, StartControllerConnection(c) PROVE StagesInOrder'
  BY <1>5 DEF StartControllerConnection, Proceed
<1>6. ASSUME NEW c \in Ids, EnqueueMessage(c) PROVE StagesInOrder'
  BY <1>6 DEF EnqueueMessage, Dangle, Proceed
<1>7. ASSUME NEW c \in Ids, RouteMessage(c) PROVE StagesInOrder'
  BY <1>7 DEF RouteMessage, LookUp, Find, Miss
<1>8. ASSUME NEW c \in Ids, AddProxyConnection(c) PROVE StagesInOrder'
  BY <1>8 DEF AddProxyConnection, Dangle, Proceed
<1>9. ASSUME NEW c \in Ids, Announce(c) PROVE StagesInOrder'
  <2> DEFINE e == [id |-> c, kind |-> "new", n |-> 0]
  <2>1. /\ pc[Client(c)] = "announce" /\ pc' = [pc EXCEPT ![Client(c)] = "drain"]
        /\ posted' = Append(posted, e) /\ UNCHANGED <<link, connections>>
    BY <1>9 DEF Announce, Post
  <2>2. e \in Event /\ e.id = c /\ e.kind = "new"
    BY EventTyped
  <2>3. Kinds(c) = {}
    BY <2>1
  <2> HIDE DEF e
  <2>4. /\ Kinds(c)' = {"new"}
        /\ \A d \in Ids \ {c} : Kinds(d)' = Kinds(d) /\ StageOf(d)' = StageOf(d)
    BY <2>1, <2>2, <2>3, AfterPost DEF Typed
  <2>5. \A u \in Threads : pc[u] \in {"post", "closeBoth", "farewell"} => u[1] # c
    BY <2>3
  <2>6. \A u \in Threads : u[1] \in Ids /\ (pc'[u] = pc[u] \/ (u = Client(c) /\ pc'[u] = "drain"))
    BY <2>1, ThreadCases
  <2> QED BY <2>1, <2>4, <2>5, <2>6
<1>10. ASSUME NEW c \in Ids, SendDelayedMessage(c) PROVE StagesInOrder'
  <2>1. pc[Client(c)] = "drain" /\ UNCHANGED <<link, connections>>
    BY <1>10 DEF SendDelayedMessage, Dangle
  <2>2. CASE posted' = posted
    <3>1. \E s \in {"drain", "settle"} : pc' = [pc EXCEPT ![Client(c)] = s]
      BY <1>10, <2>1 DEF SendDelayedMessage, Dangle
    <3> QED BY <2>1, <2>2, <3>1
  <2>3. CASE posted' # posted
    <3> DEFINE e == [id |-> c, kind |-> "switch", n |-> Head(queue[c])]
    <3>1. posted' = Append(posted, e) /\ pc' = pc /\ queue[c] # <<>>
      BY <1>10, <2>3 DEF SendDelayedMessage, Post, Dangle
    <3>2. e \in Event /\ e.id = c /\ e.kind = "switch"
      <4>1. queue[c] \in Seq(Numbers)
        BY DEF Typed, MapsTyped
      <4>2. Head(queue[c]) \in Numbers
        <5> DEFINE s == queue[c]
        <5>1. s \in Seq(Numbers) /\ s # <<>>
          BY <3>1, <4>1
        <5> HIDE DEF s
        <5>2. Head(s) \in Numbers
          BY <5>1
        <5> QED BY <5>2 DEF s
      <4> QED BY <4>2, EventTyped DEF Sides, Numbers
    <3> HIDE DEF e
    <3>3. Announced(c) /\ ~Ended(c)
      BY <2>1
    <3>4. /\ Kinds(c)' = Kinds(c) \cup {"switch"}
          /\ \A d \in Ids \ {c} : Kinds(d)' = Kinds(d) /\ StageOf(d)' = StageOf(d)
      BY <3>1, <3>2, AfterPost DEF Typed
    <3>5. \A u \in Threads : u[1] \in Ids
      BY ThreadCases
    <3> QED BY <2>1, <3>1, <3>3, <3>4, <3>5
  <2> QED BY <2>2, <2>3
<1>11. ASSUME NEW c \in Ids, EraseWaiting(c) PROVE StagesInOrder'
  BY <1>11 DEF EraseWaiting, Dangle
<1>12. ASSUME NEW t \in Threads, LinkClosed(t) PROVE StagesInOrder'
  BY <1>12 DEF LinkClosed, Begin, LookUp, Find, Miss
<1>13. ASSUME NEW t \in Threads, PostMessage(t) PROVE StagesInOrder'
  <2> DEFINE e == [id |-> t[1], kind |-> t[2], n |-> sent[t]]
  <2>1. /\ pc[t] = "post" /\ pc' = [pc EXCEPT ![t] = "idle"]
        /\ posted' = Append(posted, e) /\ UNCHANGED <<link, connections>>
    BY <1>13 DEF PostMessage, Post
  <2>2. e \in Event /\ e.id = t[1] /\ e.kind = t[2] /\ t[1] \in Ids /\ t[2] \in Sides
    BY <2>1, SentMessage
  <2> HIDE DEF e
  <2>3. /\ Kinds(t[1])' = Kinds(t[1]) \cup {t[2]}
        /\ \A d \in Ids \ {t[1]} : Kinds(d)' = Kinds(d) /\ StageOf(d)' = StageOf(d)
    BY <2>1, <2>2, AfterPost DEF Typed
  <2>4. \A d \in Ids : (Announced(d)' <=> Announced(d)) /\ (Ended(d)' <=> Ended(d))
    BY <2>2, <2>3 DEF Sides
  <2>5. Announced(t[1])
    BY <2>1
  <2>6. \A u \in Threads : u[1] \in Ids /\ (u # t => pc'[u] = pc[u])
    BY <2>1, ThreadCases
  <2>7. \A u \in Threads : pc'[u] = "post" /\ Ended(u[1])' =>
          pc'[Peer(u)] # "post" /\ StageOf(u[1])' = "closed"
    <3> SUFFICES ASSUME NEW u \in Threads, pc'[u] = "post", Ended(u[1])'
                 PROVE  pc'[Peer(u)] # "post" /\ StageOf(u[1])' = "closed"
      OBVIOUS
    <3>1. u # t /\ pc[u] = "post" /\ Ended(u[1])
      BY <2>1, <2>4, <2>6
    <3>2. pc[Peer(u)] # "post" /\ StageOf(u[1]) = "closed"
      BY <3>1
    <3>3. u[1] # t[1]
      BY <2>1, <3>1, <3>2
    <3>4. pc'[Peer(u)] # "post"
      BY <2>1, <3>2
    <3> QED BY <2>3, <2>6, <3>2, <3>3, <3>4
  <2>8. \A d \in Ids \ {t[1]} : Kinds(d)' = Kinds(d)
    BY <2>3
  <2>9. \A d \in Ids : Announced(d)' \/ (Kinds(d) = {})'
    BY <2>4, <2>5, <2>8
  <2> HIDE DEF Announced, Ended
  <2> QED BY <2>1, <2>4, <2>6, <2>7, <2>9
<1>14. ASSUME NEW t \in Threads, CloseWaiting(t) PROVE StagesInOrder'
  BY <1>14 DEF CloseWaiting, Close, Dangle, Proceed
<1>15. ASSUME NEW t \in Threads, LeaveConnection(t) PROVE StagesInOrder'
  <2>1. pc[t] = "leave" /\ UNCHANGED <<link, connections, posted>>
    BY <1>15 DEF LeaveConnection
  <2>2. \/ t[1] \in connections /\ pc' = [pc EXCEPT ![t] = "closeBoth"]
        \/ t[1] \notin connections /\ pc' = [pc EXCEPT ![t] = "idle"]
    <3>1. LookUp(t, connections, ChangeConnections, "closeBoth", "idle")
      BY <1>15 DEF LeaveConnection
    <3> QED BY <3>1, LookUpHonest
  <2>3. PICK c \in Ids : t[1] = c /\ t \in {Server(c), Client(c)}
    BY ThreadCases
  <2>4. t[1] \in connections => Announced(t[1])
    <3>1. pc[Client(c)] # "announce"
      BY <2>1, <2>3
    <3> QED BY <2>3, <3>1
  <2>5. \A u \in Threads : u # t => pc'[u] = pc[u]
    BY <2>2
  <2> QED BY <2>1, <2>2, <2>4, <2>5
<1>16. ASSUME NEW t \in Threads, CloseBoth(t) PROVE StagesInOrder'
  BY <1>16 DEF CloseBoth, Close, Dangle, Proceed
<1>17. ASSUME NEW t \in Threads, Farewell(t) PROVE StagesInOrder'
  <2> DEFINE e == [id |-> t[1], kind |-> "closed", n |-> 0]
  <2>1. /\ pc[t] = "farewell" /\ pc' = [pc EXCEPT ![t] = "idle"]
        /\ posted' = Append(posted, e) /\ UNCHANGED <<link, connections>>
    BY <1>17 DEF Farewell, Post
  <2>2. t[1] \in Ids /\ e \in Event /\ e.id = t[1] /\ e.kind = "closed"
    <3>1. t[1] \in Ids
      BY ThreadCases
    <3>2. e \in Event
      BY <3>1, EventTyped, Zenon
    <3> QED BY <3>1, <3>2
  <2> HIDE DEF e
  <2>3. /\ Kinds(t[1])' = Kinds(t[1]) \cup {"closed"}
        /\ \A d \in Ids \ {t[1]} : Kinds(d)' = Kinds(d) /\ StageOf(d)' = StageOf(d)
    BY <2>1, <2>2, AfterPost DEF Typed
  <2>4. Announced(t[1]) /\ t[1] \notin connections /\ pc[Peer(t)] # "farewell"
    BY <2>1
  <2>5. StageOf(t[1])' = "closed"
    BY <2>1, <2>2, <2>3, <2>4, AfterPost DEF Typed
  <2>6. \A u \in Threads : /\ u[1] \in Ids /\ (u # t => pc'[u] = pc[u])
                           /\ u[1] = t[1] => u \in {t, Peer(t)}
    BY <2>1, ThreadCases
  <2> QED BY <2>1, <2>3, <2>4, <2>5, <2>6
<1> QED
  BY StepsOf, <1>1, <1>2, <1>3, <1>4, <1>5, <1>6, <1>7, <1>8, <1>9, <1>10,
     <1>11, <1>12, <1>13, <1>14, <1>15, <1>16, <1>17

----
(* The messages of a side are posted in the order they were received: what *)
(* is queued is younger than what was posted, and what a thread is about   *)
(* to hand on is younger than both.                                        *)
NumbersInOrder == Intact =>
  /\ \A t \in Threads :
       /\ LastOf(t[1], t[2]) <= sent[t]
       /\ pc[t] \in Handing => LastOf(t[1], t[2]) < sent[t]
  /\ \A c \in Ids : \A i \in DOMAIN queue[c] :
       /\ LastOf(c, "switch") < queue[c][i]
       /\ queue[c][i] <= sent[Server(c)]
       /\ pc[Server(c)] \in Handing => queue[c][i] < sent[Server(c)]
       /\ \A j \in 1 .. i - 1 : queue[c][j] < queue[c][i]

(* What the numbers are, and those of a queue.                             *)
LEMMA NumbersTyped ==
  ASSUME Typed
  PROVE  /\ \A c \in Ids, side \in Sides : LastOf(c, side) \in Nat
         /\ \A t \in Threads : sent[t] \in Nat /\ t[1] \in Ids /\ t[2] \in Sides
         /\ \A c \in Ids : /\ queue[c] \in Seq(Numbers)
                           /\ \A i \in DOMAIN queue[c] : queue[c][i] \in Nat
                           /\ c \notin waiting => queue[c] = <<>>
<1>1. \A c \in Ids, side \in Sides : LastOf(c, side) \in Nat
  BY LastTyped DEF Typed
<1>2. \A t \in Threads : sent[t] \in Nat /\ t[1] \in Ids /\ t[2] \in Sides
  BY DEF Typed, SentTyped, Threads
<1>3. \A c \in Ids : queue[c] \in Seq(Numbers) /\ (c \notin waiting => queue[c] = <<>>)
  BY DEF Typed, MapsTyped
<1>4. ASSUME NEW c \in Ids, NEW i \in DOMAIN queue[c] PROVE queue[c][i] \in Nat
  <2>1. queue[c] \in Seq(Numbers)
    BY <1>3
  <2>2. queue[c][i] \in Numbers
    BY <1>4, <2>1
  <2> QED BY <2>2 DEF Numbers
<1> QED BY <1>1, <1>2, <1>3, <1>4

(* A step that neither posts nor receives a message.                       *)
LEMMA NumbersStay ==
  ASSUME NumbersInOrder, Intact,
         \A c \in Ids, side \in Sides : LastOf(c, side)' = LastOf(c, side),
         \A t \in Threads : sent'[t] = sent[t] /\ t[1] \in Ids /\ t[2] \in Sides,
         \A c \in Ids : queue'[c] = queue[c] \/ queue'[c] = <<>>,
         \A t \in Threads : pc'[t] \in Handing => pc[t] \in Handing
  PROVE  NumbersInOrder'
<1>1. \A t \in Threads :
        /\ LastOf(t[1], t[2])' <= sent'[t]
        /\ pc'[t] \in Handing => LastOf(t[1], t[2])' < sent'[t]
  BY DEF NumbersInOrder
<1>2. ASSUME NEW c \in Ids, NEW i \in DOMAIN queue'[c]
      PROVE  /\ LastOf(c, "switch")' < queue'[c][i]
             /\ queue'[c][i] <= sent'[Server(c)]
             /\ pc'[Server(c)] \in Handing => queue'[c][i] < sent'[Server(c)]
             /\ \A j \in 1 .. i - 1 : queue'[c][j] < queue'[c][i]
  <2>1. queue'[c] = queue[c]
    BY <1>2
  <2>2. Server(c) \in Threads /\ "switch" \in Sides
    BY ThreadsOf DEF Sides
  <2> QED BY <1>2, <2>1, <2>2 DEF NumbersInOrder
<1> QED BY <1>1, <1>2 DEF NumbersInOrder

(* A thread has received one more message.                                 *)
LEMMA ReceiveOrder ==
  ASSUME Typed, NumbersInOrder, Intact, NEW t \in Threads, Receive(t),
         UNCHANGED <<queue, posted>>, \A u \in Threads \ {t} : pc'[u] = pc[u]
  PROVE  NumbersInOrder'
<1>1. /\ sent'[t] = sent[t] + 1 /\ \A u \in Threads \ {t} : sent'[u] = sent[u]
  BY DEF Receive, Typed, SentTyped
<1>2. \A c \in Ids, side \in Sides : LastOf(c, side)' = LastOf(c, side)
  BY NothingPosted
<1>3. ASSUME NEW u \in Threads
      PROVE  /\ LastOf(u[1], u[2])' <= sent'[u]
             /\ pc'[u] \in Handing => LastOf(u[1], u[2])' < sent'[u]
  <2>1. LastOf(u[1], u[2])' = LastOf(u[1], u[2]) /\ LastOf(u[1], u[2]) \in Nat
    BY <1>2, NumbersTyped
  <2>2. LastOf(u[1], u[2]) <= sent[u] /\ sent[u] \in Nat
    BY NumbersTyped DEF NumbersInOrder
  <2>3. CASE u = t
    BY <1>1, <2>1, <2>2, <2>3
  <2>4. CASE u # t
    BY <1>1, <2>1, <2>4 DEF NumbersInOrder
  <2> QED BY <2>3, <2>4
<1>4. ASSUME NEW c \in Ids, NEW i \in DOMAIN queue'[c]
      PROVE  /\ LastOf(c, "switch")' < queue'[c][i]
             /\ queue'[c][i] <= sent'[Server(c)]
             /\ pc'[Server(c)] \in Handing => queue'[c][i] < sent'[Server(c)]
             /\ \A j \in 1 .. i - 1 : queue'[c][j] < queue'[c][i]
  <2>1. queue'[c] = queue[c] /\ LastOf(c, "switch")' = LastOf(c, "switch")
    BY <1>2 DEF Sides
  <2>2. /\ LastOf(c, "switch") < queue[c][i] /\ queue[c][i] <= sent[Server(c)]
        /\ pc[Server(c)] \in Handing => queue[c][i] < sent[Server(c)]
        /\ \A j \in 1 .. i - 1 : queue[c][j] < queue[c][i]
    BY <1>4 DEF NumbersInOrder
  <2>3. Server(c) \in Threads /\ sent[Server(c)] \in Nat /\ queue[c][i] \in Nat
    BY <1>4, ThreadsOf, NumbersTyped
  <2>4. CASE Server(c) = t
    BY <1>1, <2>1, <2>2, <2>3, <2>4
  <2>5. CASE Server(c) # t
    BY <1>1, <2>1, <2>2, <2>3, <2>5
  <2> QED BY <2>4, <2>5
<1> QED BY <1>3, <1>4 DEF NumbersInOrder

(* A message joins the queue behind those that came before it.             *)
LEMMA EnqueueOrder ==
  ASSUME Typed, AcceptInOrder, NumbersInOrder, Intact, Intact',
         NEW c \in Ids, EnqueueMessage(c)
  PROVE  NumbersInOrder'
<1> DEFINE s == queue[c]
           n == sent[Server(c)]
<1>1. /\ pc[Server(c)] = "enqueue" /\ pc' = [pc EXCEPT ![Server(c)] = "idle"]
      /\ queue' = [queue EXCEPT ![c] = Append(s, n)]
      /\ UNCHANGED <<sent, posted>>
  BY DEF EnqueueMessage, Dangle, At, Go, Intact
<1>2. Server(c) \in Threads /\ Server(c)[1] = c /\ Server(c)[2] = "switch"
  BY ThreadsOf
<1>3. s \in Seq(Numbers) /\ n \in Numbers
  BY <1>1, <1>2, NumbersTyped, SentMessage DEF Numbers
<1>4. /\ queue'[c] = Append(s, n) /\ \A d \in Ids \ {c} : queue'[d] = queue[d]
      /\ pc'[Server(c)] = "idle" /\ \A u \in Threads \ {Server(c)} : pc'[u] = pc[u]
  BY <1>1, <1>2 DEF Typed, MapsTyped, ControlTyped
<1> HIDE DEF s, n
<1>5. /\ Len(s) \in Nat /\ DOMAIN s = 1 .. Len(s) /\ DOMAIN queue'[c] = 1 .. Len(s) + 1
      /\ \A i \in DOMAIN s : queue'[c][i] = s[i]
      /\ queue'[c][Len(s) + 1] = n
  BY <1>3, <1>4, AppendFacts
<1>6. \A d \in Ids, side \in Sides : LastOf(d, side)' = LastOf(d, side)
  BY <1>1, NothingPosted
<1>7. n \in Nat /\ LastOf(c, "switch") < n /\ \A i \in DOMAIN s : s[i] < n
  BY <1>1, <1>2, <1>3, NumbersTyped DEF NumbersInOrder, Handing, s, n, Numbers
<1>8. ASSUME NEW u \in Threads
      PROVE  /\ LastOf(u[1], u[2])' <= sent'[u]
             /\ pc'[u] \in Handing => LastOf(u[1], u[2])' < sent'[u]
  <2>1. LastOf(u[1], u[2])' = LastOf(u[1], u[2])
    BY <1>6, NumbersTyped
  <2> QED BY <1>1, <1>4, <2>1 DEF NumbersInOrder, Handing
<1>9. ASSUME NEW d \in Ids, NEW i \in DOMAIN queue'[d]
      PROVE  /\ LastOf(d, "switch")' < queue'[d][i]
             /\ queue'[d][i] <= sent'[Server(d)]
             /\ pc'[Server(d)] \in Handing => queue'[d][i] < sent'[Server(d)]
             /\ \A j \in 1 .. i - 1 : queue'[d][j] < queue'[d][i]
  <2>1. LastOf(d, "switch")' = LastOf(d, "switch")
    BY <1>6 DEF Sides
  <2>2. CASE d # c
    <3>1. queue'[d] = queue[d] /\ Server(d) \in Threads /\ Server(d) # Server(c)
      BY <1>4, <2>2, ThreadsOf
    <3> QED BY <1>1, <1>4, <1>9, <2>1, <3>1 DEF NumbersInOrder
  <2>3. CASE d = c /\ i \in DOMAIN s
    <3>1. /\ LastOf(c, "switch") < s[i] /\ s[i] <= n
          /\ \A j \in 1 .. i - 1 : s[j] < s[i] /\ j \in DOMAIN s
      BY <1>5, <2>3 DEF NumbersInOrder, s, n
    <3> QED BY <1>1, <1>4, <1>5, <2>1, <2>3, <3>1 DEF Handing, n
  <2>4. CASE d = c /\ i = Len(s) + 1
    <3>1. \A j \in 1 .. i - 1 : j \in DOMAIN s
      BY <1>5, <2>4
    <3>2. queue'[d][i] = n /\ sent'[Server(d)] = n
      <4>1. queue'[d][i] = n
        BY <1>5, <2>4
      <4>2. sent'[Server(d)] = n
        BY <1>1, <2>4 DEF n
      <4> QED BY <4>1, <4>2
    <3>3. queue'[d][i] <= sent'[Server(d)] /\ LastOf(d, "switch")' < queue'[d][i]
      BY <1>7, <2>1, <2>4, <3>2
    <3>4. pc'[Server(d)] \notin Handing
      BY <1>4, <2>4 DEF Handing
    <3>5. \A j \in 1 .. i - 1 : queue'[d][j] < queue'[d][i]
      BY <1>5, <1>7, <2>4, <3>1, <3>2
    <3> QED BY <3>3, <3>4, <3>5
  <2> QED BY <1>5, <1>9, <2>2, <2>3, <2>4
<1> QED BY <1>8, <1>9 DEF NumbersInOrder

(* The oldest message of the queue is posted.                              *)
LEMMA DelayedOrder ==
  ASSUME Typed, NumbersInOrder, Intact, Intact', NEW c \in Ids, SendDelayedMessage(c)
  PROVE  NumbersInOrder'
<1>1. CASE posted' = posted
  <2>1. /\ UNCHANGED <<sent, queue>>
        /\ \E step \in {"drain", "settle"} : pc' = [pc EXCEPT ![Client(c)] = step]
    <3>1. ~Dangle(Client(c)) /\ Append(posted, [id |-> c, kind |-> "switch", n |-> Head(queue[c])]) # posted
      <4>1. pc[Client(c)] = "drain"
        BY DEF SendDelayedMessage, At
      <4>2. posted \in Seq(Event)
        BY DEF Typed, PostedTyped
      <4>3. Len(Append(posted, [id |-> c, kind |-> "switch", n |-> Head(queue[c])])) # Len(posted)
        BY <4>2
      <4> QED BY <4>1, <4>3 DEF Dangle, Intact
    <3> QED BY <1>1, <3>1 DEF SendDelayedMessage, Post, Go, maps
  <2>2. \A u \in Threads : pc'[u] \in Handing => pc[u] \in Handing
    BY <2>1 DEF Handing, Typed, ControlTyped
  <2>3. \A d \in Ids, side \in Sides : LastOf(d, side)' = LastOf(d, side)
    BY <1>1, NothingPosted
  <2> QED BY <2>1, <2>2, <2>3, NumbersTyped, NumbersStay
<1>2. CASE posted' # posted
  <2> DEFINE s == queue[c]
             e == [id |-> c, kind |-> "switch", n |-> Head(s)]
  <2>1. /\ s # <<>> /\ posted' = Append(posted, e) /\ queue' = [queue EXCEPT ![c] = Tail(s)]
        /\ UNCHANGED <<pc, sent>>
    BY <1>2 DEF SendDelayedMessage, Dangle, Post, Intact
  <2>2. s \in Seq(Numbers)
    BY NumbersTyped
  <2>3. queue'[c] = Tail(s) /\ \A d \in Ids \ {c} : queue'[d] = queue[d]
    BY <2>1 DEF Typed, MapsTyped
  <2> HIDE DEF s
  <2>4. /\ Head(s) = s[1] /\ s[1] \in Numbers /\ 1 \in DOMAIN s
        /\ \A i \in DOMAIN Tail(s) : i \in Nat /\ i + 1 \in DOMAIN s /\ Tail(s)[i] = s[i + 1]
        /\ \A i \in DOMAIN Tail(s) : \A j \in 1 .. i - 1 :
             j \in DOMAIN Tail(s) /\ j + 1 \in 1 .. (i + 1) - 1
    BY <2>1, <2>2
  <2>5. e \in Event /\ e.id = c /\ e.kind = "switch" /\ e.n = s[1]
    BY <2>4, EventTyped DEF Numbers, Sides
  <2> HIDE DEF e
  <2>6. LastOf(c, "switch") < s[1] /\ \A i \in DOMAIN s : i > 1 => s[1] < s[i]
    <3>1. \A i \in DOMAIN s : i > 1 => 1 \in 1 .. i - 1
      BY <2>2
    <3> QED BY <2>4, <3>1 DEF NumbersInOrder, s
  <2>7. /\ LastOf(c, "switch")' = s[1]
        /\ \A d \in Ids, side \in Sides :
             d # c \/ side # "switch" => LastOf(d, side)' = LastOf(d, side)
    BY <2>1, <2>5, <2>6, AfterPost DEF Typed, Sides
  <2>8. ASSUME NEW u \in Threads
        PROVE  /\ LastOf(u[1], u[2])' <= sent'[u]
               /\ pc'[u] \in Handing => LastOf(u[1], u[2])' < sent'[u]
    <3>1. u[1] \in Ids /\ u[2] \in Sides
      BY NumbersTyped
    <3>2. CASE u = Server(c)
      <4>1. u[1] = c /\ u[2] = "switch"
        BY <3>2, ThreadsOf
      <4>2. s[1] <= sent[u] /\ (pc[u] \in Handing => s[1] < sent[u])
        BY <2>4, <3>2 DEF NumbersInOrder, s
      <4> QED BY <2>1, <2>7, <4>1, <4>2
    <3>3. CASE u # Server(c)
      <4>1. u[1] # c \/ u[2] # "switch"
        BY <3>3 DEF Threads, Server
      <4>2. LastOf(u[1], u[2])' = LastOf(u[1], u[2])
        BY <2>7, <3>1, <4>1
      <4> QED BY <2>1, <4>2 DEF NumbersInOrder
    <3> QED BY <3>2, <3>3
  <2>9. ASSUME NEW d \in Ids, NEW i \in DOMAIN queue'[d]
        PROVE  /\ LastOf(d, "switch")' < queue'[d][i]
               /\ queue'[d][i] <= sent'[Server(d)]
               /\ pc'[Server(d)] \in Handing => queue'[d][i] < sent'[Server(d)]
               /\ \A j \in 1 .. i - 1 : queue'[d][j] < queue'[d][i]
    <3>1. CASE d # c
      <4>1. queue'[d] = queue[d] /\ LastOf(d, "switch")' = LastOf(d, "switch")
        BY <2>3, <2>7, <3>1 DEF Sides
      <4> QED BY <2>1, <2>9, <4>1 DEF NumbersInOrder
    <3>2. CASE d = c
      <4>1. i \in DOMAIN Tail(s) /\ queue'[d] = Tail(s)
        BY <2>3, <2>9, <3>2
      <4>2. i + 1 \in DOMAIN s /\ Tail(s)[i] = s[i + 1] /\ i + 1 > 1
        BY <2>2, <2>4, <4>1
      <4>3. s[1] < s[i + 1]
        BY <2>6, <4>2
      <4>4. /\ s[i + 1] <= sent[Server(c)]
            /\ pc[Server(c)] \in Handing => s[i + 1] < sent[Server(c)]
            /\ \A k \in 1 .. (i + 1) - 1 : s[k] < s[i + 1]
        BY <4>2 DEF NumbersInOrder, s
      <4>5. \A j \in 1 .. i - 1 : Tail(s)[j] < Tail(s)[i]
        BY <2>4, <4>1, <4>2, <4>4
      <4> QED BY <2>1, <2>7, <3>2, <4>1, <4>2, <4>3, <4>4, <4>5
    <3> QED BY <3>1, <3>2
  <2> QED BY <2>8, <2>9 DEF NumbersInOrder
<1> QED BY <1>1, <1>2

(* A thread posts the message that it has received last.                   *)
LEMMA PostOrder ==
  ASSUME Typed, AcceptInOrder, NumbersInOrder, Intact, NEW t \in Threads, PostMessage(t)
  PROVE  NumbersInOrder'
<1> DEFINE e == [id |-> t[1], kind |-> t[2], n |-> sent[t]]
<1>1. /\ pc[t] = "post" /\ pc' = [pc EXCEPT ![t] = "idle"]
      /\ posted' = Append(posted, e) /\ UNCHANGED <<sent, queue>>
  BY DEF PostMessage, Post, At, Go, maps
<1>2. e \in Event /\ e.id = t[1] /\ e.kind = t[2] /\ e.n = sent[t]
      /\ t[1] \in Ids /\ t[2] \in Sides
  BY <1>1, SentMessage
<1> HIDE DEF e
<1>3. LastOf(t[1], t[2]) < sent[t]
  BY <1>1 DEF NumbersInOrder, Handing
<1>4. /\ LastOf(t[1], t[2])' = sent[t]
      /\ \A d \in Ids, side \in Sides :
           d # t[1] \/ side # t[2] => LastOf(d, side)' = LastOf(d, side)
  BY <1>1, <1>2, <1>3, AfterPost DEF Typed
<1>5. pc'[t] = "idle" /\ \A u \in Threads \ {t} : pc'[u] = pc[u]
  BY <1>1 DEF Typed, ControlTyped
<1>6. ASSUME NEW u \in Threads
      PROVE  /\ LastOf(u[1], u[2])' <= sent'[u]
             /\ pc'[u] \in Handing => LastOf(u[1], u[2])' < sent'[u]
  <2>1. CASE u = t
    BY <1>1, <1>4, <1>5, <2>1, NumbersTyped DEF Handing
  <2>2. CASE u # t
    <3>1. u[1] \in Ids /\ u[2] \in Sides /\ (u[1] # t[1] \/ u[2] # t[2])
      BY <2>2 DEF Threads
    <3>2. LastOf(u[1], u[2])' = LastOf(u[1], u[2])
      BY <1>4, <3>1
    <3> QED BY <1>1, <1>5, <2>2, <3>2 DEF NumbersInOrder
  <2> QED BY <2>1, <2>2
<1>7. ASSUME NEW d \in Ids, NEW i \in DOMAIN queue'[d]
      PROVE  /\ LastOf(d, "switch")' < queue'[d][i]
             /\ queue'[d][i] <= sent'[Server(d)]
             /\ pc'[Server(d)] \in Handing => queue'[d][i] < sent'[Server(d)]
             /\ \A j \in 1 .. i - 1 : queue'[d][j] < queue'[d][i]
  <2>1. queue'[d] = queue[d] /\ queue[d] # <<>>
    BY <1>1, <1>7
  <2>2. Server(d) # t
    <3>1. pc[Server(d)] = "post" => queue[d] = <<>>
      BY NumbersTyped DEF AcceptInOrder
    <3> QED BY <1>1, <2>1, <3>1
  <2>3. Server(d) \in Threads /\ (d # t[1] \/ "switch" # t[2])
    BY <2>2 DEF Threads, Server, Sides
  <2>4. LastOf(d, "switch")' = LastOf(d, "switch")
    BY <1>4, <2>3 DEF Sides
  <2>5. pc'[Server(d)] = pc[Server(d)]
    BY <1>5, <2>2, <2>3
  <2> QED BY <1>1, <1>7, <2>1, <2>4, <2>5 DEF NumbersInOrder
<1> QED BY <1>6, <1>7 DEF NumbersInOrder

LEMMA NumbersStep ==
  ASSUME Typed, AcceptInOrder, NumbersInOrder, Next, Intact'
  PROVE  NumbersInOrder'
<1>0. Intact /\ ControlTyped
  BY IntactBefore DEF Typed
<1>q. queue = [c \in Ids |-> queue[c]]
  BY DEF Typed, MapsTyped
<1>1. \A t \in Threads : t[1] \in Ids /\ t[2] \in Sides
  BY NumbersTyped
<1>2. ASSUME posted' = posted
      PROVE  \A c \in Ids, side \in Sides : LastOf(c, side)' = LastOf(c, side)
  BY <1>2, NothingPosted
<1>3. ASSUME posted' = posted, sent' = sent,
             \A c \in Ids : queue'[c] = queue[c] \/ queue'[c] = <<>>,
             \A t \in Threads : pc'[t] \in Handing => pc[t] \in Handing
      PROVE  NumbersInOrder'
  BY <1>0, <1>1, <1>2, <1>3, NumbersStay
<1>4. ASSUME NEW c \in Ids, NEW kind \in {"new", "closed"}, Post(c, kind, 0),
             sent' = sent, queue' = queue,
             \A t \in Threads : pc'[t] \in Handing => pc[t] \in Handing
      PROVE  NumbersInOrder'
  <2> DEFINE e == [id |-> c, kind |-> kind, n |-> 0]
  <2>1. e \in Event /\ e.kind \notin Sides /\ posted' = Append(posted, e)
    BY <1>4, EventTyped DEF Post, Sides
  <2> HIDE DEF e
  <2>2. \A d \in Ids, side \in Sides : LastOf(d, side)' = LastOf(d, side)
    BY <2>1, AfterPost DEF Typed
  <2> QED BY <1>0, <1>1, <1>4, <2>2, NumbersStay
<1> USE <1>0, ThreadsOf DEF ControlTyped, Handing, Intact, At, Go, maps
<1>5. ASSUME NEW c \in Ids, SwitchStarted(c) PROVE NumbersInOrder'
  BY <1>5, <1>3 DEF SwitchStarted, Begin
<1>6. ASSUME NEW c \in Ids, ControllerStarted(c) PROVE NumbersInOrder'
  BY <1>6, <1>3 DEF ControllerStarted, Begin, Find, Miss
<1>7. ASSUME NEW c \in Ids, SwitchMessage(c) PROVE NumbersInOrder'
  BY <1>7, ReceiveOrder DEF SwitchMessage, LookUp
<1>8. ASSUME NEW c \in Ids, ControllerMessage(c) PROVE NumbersInOrder'
  BY <1>8, ReceiveOrder DEF ControllerMessage, LookUp
<1>9. ASSUME NEW c \in Ids, StartControllerConnection(c) PROVE NumbersInOrder'
  BY <1>9, <1>3 DEF StartControllerConnection, Proceed
<1>10. ASSUME NEW c \in Ids, EnqueueMessage(c) PROVE NumbersInOrder'
  BY <1>10, EnqueueOrder
<1>11. ASSUME NEW c \in Ids, RouteMessage(c) PROVE NumbersInOrder'
  BY <1>11, <1>3 DEF RouteMessage, LookUp, Find, Miss
<1>12. ASSUME NEW c \in Ids, AddProxyConnection(c) PROVE NumbersInOrder'
  BY <1>12, <1>3 DEF AddProxyConnection, Dangle, Proceed
<1>13. ASSUME NEW c \in Ids, Announce(c) PROVE NumbersInOrder'
  BY <1>13, <1>1, <1>4 DEF Announce, Proceed
<1>14. ASSUME NEW c \in Ids, SendDelayedMessage(c) PROVE NumbersInOrder'
  BY <1>14, DelayedOrder
<1>15. ASSUME NEW c \in Ids, EraseWaiting(c) PROVE NumbersInOrder'
  BY <1>15, <1>3, <1>q DEF EraseWaiting, Dangle
<1>16. ASSUME NEW t \in Threads, LinkClosed(t) PROVE NumbersInOrder'
  BY <1>16, <1>3 DEF LinkClosed, Begin, LookUp, Find, Miss
<1>17. ASSUME NEW t \in Threads, PostMessage(t) PROVE NumbersInOrder'
  BY <1>17, PostOrder
<1>18. ASSUME NEW t \in Threads, CloseWaiting(t) PROVE NumbersInOrder'
  BY <1>18, <1>3, <1>q DEF CloseWaiting, Close, Dangle, Proceed
<1>19. ASSUME NEW t \in Threads, LeaveConnection(t) PROVE NumbersInOrder'
  BY <1>19, <1>3 DEF LeaveConnection, LookUp, Find, Miss
<1>20. ASSUME NEW t \in Threads, CloseBoth(t) PROVE NumbersInOrder'
  BY <1>20, <1>3 DEF CloseBoth, Close, Dangle, Proceed
<1>21. ASSUME NEW t \in Threads, Farewell(t) PROVE NumbersInOrder'
  BY <1>21, <1>1, <1>4 DEF Farewell, Proceed
<1> QED
  BY StepsOf, <1>5, <1>6, <1>7, <1>8, <1>9, <1>10, <1>11, <1>12, <1>13,
     <1>14, <1>15, <1>16, <1>17, <1>18, <1>19, <1>20, <1>21

----
(* Every step keeps the invariant.                                         *)
LEMMA InvStep == IInv /\ [Next]_vars => IInv'
<1> SUFFICES ASSUME IInv, [Next]_vars PROVE IInv'
  OBVIOUS
<1>1. CASE Next
  BY <1>1, TypedStep, LinksStep, AloneStep, EntriesStep DEF IInv, Typed
<1>2. CASE UNCHANGED vars
  BY <1>2 DEF vars, maps, IInv, Typed, ControlTyped, SentTyped, Pending, MapsTyped,
     PostedTyped, FaultTyped, LinksInOrder, OneAtATime, EntriesStay, Client, Server
<1> QED BY <1>1, <1>2

(* The inductive invariant holds.                                          *)
THEOREM InvCorrect == Spec => []IInv
BY InitInv, InvStep, PTL DEF Spec

(* Every variable keeps to its type, whatever the threads do to each other *)
(* (ConnectionManager.cpp).                                                *)
THEOREM TypeCorrect == Spec => []TypeOK
<1>1. IInv => TypeOK
  <2> SUFFICES ASSUME IInv PROVE TypeOK
    OBVIOUS
  <2>1. \A t \in Threads : sent[t] \in 0 .. MaxSent[t[2]]
    BY MaxSentAssumption DEF IInv, Typed, SentTyped, Threads
  <2>2. \A i \in DOMAIN posted : posted[i] \in Event
    BY DEF IInv, Typed, PostedTyped
  <2> QED
    BY <2>1, <2>2 DEF IInv, TypeOK, Typed, ControlTyped, MapsTyped, FaultTyped,
       LinksInOrder, Steps, Links, Event, Numbers
<1> QED BY InvCorrect, <1>1, PTL

(* A step of one callback that finds an entry gone, or erases a message,   *)
(* takes another callback of the same connection at the same time, or a    *)
(* lookup that a change of the map by another thread has torn.             *)
THEOREM HarmlessAloneHolds == Spec => []HarmlessAlone
<1>1. IInv => HarmlessAlone
  BY DEF IInv, EntriesStay, HarmlessAlone
<1> QED BY InvCorrect, <1>1, PTL

----
(* The invariant behind the refinement of ConnectionEvents.                *)
EventsInv == Shut /\ AcceptInOrder /\ StagesInOrder /\ NumbersInOrder

LEMMA NoEvents ==
  ASSUME posted = <<>>, NEW c
  PROVE  /\ Kinds(c) = {} /\ StageOf(c) = "unknown"
         /\ \A side : LastOf(c, side) = 0
<1>1. EventsIn(posted, c) = {}
  BY DEF EventsIn
<1>2. \A side : NumbersIn(posted, c, side) = {}
  BY <1>1 DEF NumbersIn
<1> QED BY <1>1, <1>2, EventsPosted DEF KindsIn, MaxOf

LEMMA InitEventsInv == Init => EventsInv
<1> SUFFICES ASSUME Init PROVE EventsInv
  OBVIOUS
<1>1. Shut
  BY DEF Init, Shut, Parting
<1>2. AcceptInOrder
  BY ThreadsOf DEF Init, AcceptInOrder, Accepted, Adopting
<1>3. StagesInOrder
  BY NoEvents, ThreadsOf DEF Init, StagesInOrder, Announced
<1>4. NumbersInOrder
  <2>1. posted = <<>> /\ \A t \in Threads : sent[t] = 0 /\ pc[t] = "idle"
    BY DEF Init
  <2>2. \A c \in Ids : DOMAIN queue[c] = {}
    <3>1. \A c \in Ids : queue[c] = <<>>
      BY DEF Init
    <3>2. DOMAIN <<>> = {}
      OBVIOUS
    <3> QED BY <3>1, <3>2
  <2>3. \A c, side : LastOf(c, side) = 0
    BY <2>1, NoEvents
  <2> QED BY <2>1, <2>2, <2>3 DEF NumbersInOrder, Handing
<1> QED BY <1>1, <1>2, <1>3, <1>4 DEF EventsInv

LEMMA EventsInvStep == IInv /\ EventsInv /\ [Next]_vars => EventsInv'
<1> SUFFICES ASSUME IInv, EventsInv, [Next]_vars PROVE EventsInv'
  OBVIOUS
<1>1. CASE Next
  <2>1. Shut'
    BY <1>1, ShutStep DEF IInv, Typed, EventsInv
  <2>2. Intact' => AcceptInOrder'
    BY <1>1, AcceptStep DEF IInv, Typed, EventsInv
  <2>3. Intact' => StagesInOrder'
    BY <1>1, StagesStep DEF IInv, EventsInv
  <2>4. Intact' => NumbersInOrder'
    BY <1>1, NumbersStep DEF IInv, EventsInv
  <2>5. ~Intact' => AcceptInOrder' /\ StagesInOrder' /\ NumbersInOrder'
    BY DEF AcceptInOrder, StagesInOrder, NumbersInOrder
  <2> QED BY <2>1, <2>2, <2>3, <2>4, <2>5 DEF EventsInv
<1>2. CASE UNCHANGED vars
  <2>1. \A c : /\ Kinds(c)' = Kinds(c) /\ StageOf(c)' = StageOf(c)
               /\ \A side : LastOf(c, side)' = LastOf(c, side)
    BY <1>2, NothingPosted DEF vars
  <2>2. UNCHANGED <<pc, link, sent, waiting, queue, connections, fault, torn>>
    BY <1>2 DEF vars, maps
  <2>3. Shut'
    BY <2>2 DEF EventsInv, Shut
  <2>4. AcceptInOrder'
    BY <2>2 DEF EventsInv, AcceptInOrder, Intact, Server, Client
  <2>5. StagesInOrder'
    BY <2>1, <2>2 DEF EventsInv, StagesInOrder, Intact, Announced, Ended, Client, Peer
  <2>6. NumbersInOrder'
    BY <2>1, <2>2 DEF EventsInv, NumbersInOrder, Intact, Server
  <2> QED BY <2>3, <2>4, <2>5, <2>6 DEF EventsInv
<1> QED BY <1>1, <1>2

LEMMA EventsInvCorrect == Spec => [](IInv /\ EventsInv)
<1>1. IInv /\ EventsInv /\ [Next]_vars => (IInv /\ EventsInv)'
  BY InvStep, EventsInvStep
<1> QED BY InitInv, InitEventsInv, <1>1, PTL DEF Spec

----
(* A message is posted while its connection is open or, the first one, as  *)
(* soon as it is closed, and it is the youngest of its side.               *)
LEMMA MessagePosted ==
  ASSUME Typed, NEW c \in Ids, NEW side \in Sides, NEW n \in 1 .. MaxSent[side],
         posted' = Append(posted, [id |-> c, kind |-> side, n |-> n]),
         Announced(c), Ended(c) => StageOf(c) = "closed", LastOf(c, side) < n
  PROVE  /\ \/ StageOf(c) = "open" /\ StageOf(c)' = "open"
            \/ StageOf(c) = "closed" /\ StageOf(c)' = "late"
         /\ n \in LastOf(c, side) + 1 .. MaxSent[side]
         /\ \A d \in Ids : d # c => StageOf(d)' = StageOf(d)
         /\ \A d \in Ids, other \in Sides :
              LastOf(d, other)' = IF d = c /\ other = side THEN n ELSE LastOf(d, other)
<1> DEFINE e == [id |-> c, kind |-> side, n |-> n]
<1>1. e \in Event /\ e.id = c /\ e.kind = side /\ e.n = n /\ posted' = Append(posted, e)
  BY EventTyped
<1> HIDE DEF e
<1>2. PostedTyped
  BY DEF Typed
<1>3. Kinds(c)' = Kinds(c) \cup {side} /\ side # "closed" /\ side # "new"
  BY <1>1, <1>2, AfterPost DEF Sides
<1>4. StageOf(c)' = IF "closed" \notin Kinds(c) THEN "open" ELSE "late"
  BY <1>1, <1>2, <1>3, AfterPost DEF Announced
<1>5. "closed" \notin Kinds(c) => StageOf(c) = "open"
  BY DEF StageOf, Announced
<1>6. n \in LastOf(c, side) + 1 .. MaxSent[side]
  BY LastTyped, <1>2
<1>7. \A d \in Ids : d # c => StageOf(d)' = StageOf(d)
  BY <1>1, <1>2, AfterPost
<1>8. \A d \in Ids, other \in Sides :
        LastOf(d, other)' = IF d = c /\ other = side THEN n ELSE LastOf(d, other)
  BY <1>1, <1>2, AfterPost
<1> QED BY <1>4, <1>5, <1>6, <1>7, <1>8 DEF Ended

(* Every step is one of ConnectionEvents or leaves its variables alone.    *)
LEMMA EventsStep ==
  ASSUME IInv, EventsInv, Next
  PROVE  [Events!Next]_Events!vars
<1>1. CASE ~Intact'
  <2>1. (fault = "none" /\ ~torn)' = FALSE
    BY <1>1 DEF Intact
  <2> QED BY <2>1 DEF Events!Next
<1>2. CASE Intact'
  <2>1. Intact
    BY <1>2, IntactBefore DEF IInv, Typed
  <2>2. (fault = "none" /\ ~torn)' = (fault = "none" /\ ~torn)
    BY <1>2, <2>1 DEF Intact
  <2>3. Typed /\ PostedTyped /\ AcceptInOrder /\ StagesInOrder /\ NumbersInOrder
    BY DEF IInv, Typed, EventsInv
  <2>4. CASE posted' = posted
    <3>1. \A c : StageOf(c)' = StageOf(c) /\ \A side : LastOf(c, side)' = LastOf(c, side)
      BY <2>4, NothingPosted
    <3> QED BY <2>2, <2>4, <3>1 DEF Events!vars
  <2>5. ASSUME NEW c \in Ids, Announce(c) PROVE Events!Arrive
    <3> DEFINE e == [id |-> c, kind |-> "new", n |-> 0]
    <3>1. pc[Client(c)] = "announce" /\ posted' = Append(posted, e)
      BY <2>5 DEF Announce, At, Post
    <3>2. e \in Event /\ e.id = c /\ e.kind = "new"
      BY EventTyped
    <3> HIDE DEF e
    <3>3. Kinds(c) = {} /\ StageOf(c) = "unknown"
      BY <2>1, <2>3, <3>1 DEF StagesInOrder, Announced, StageOf
    <3>4. StageOf(c)' = "open"
      BY <2>3, <3>1, <3>2, <3>3, AfterPost
    <3>5. \A d \in Ids : /\ d # c => StageOf(d)' = StageOf(d)
                         /\ \A side \in Sides : LastOf(d, side)' = LastOf(d, side)
      BY <2>3, <3>1, <3>2, AfterPost DEF Sides
    <3>6. Events!PostNew(c)
      BY <3>1, <3>3, <3>4, <3>5 DEF Events!PostNew, Events!Post, e
    <3> QED BY <3>6 DEF Events!Arrive
  <2>6. ASSUME NEW t \in Threads, Farewell(t) PROVE Events!Arrive
    <3> DEFINE c == t[1]
               e == [id |-> c, kind |-> "closed", n |-> 0]
    <3>1. pc[t] = "farewell" /\ posted' = Append(posted, e)
      BY <2>6 DEF Farewell, At, Post
    <3>2. c \in Ids /\ e \in Event /\ e.id = c /\ e.kind = "closed"
      <4>1. c \in Ids
        BY DEF Threads
      <4>2. e \in Event
        BY <4>1, EventTyped, Zenon
      <4> QED BY <4>1, <4>2
    <3>3. Announced(c) /\ ~Ended(c)
      BY <2>1, <2>3, <3>1 DEF StagesInOrder
    <3> HIDE DEF e, c
    <3>4. StageOf(c) = "open"
      BY <3>3 DEF StageOf, Announced, Ended
    <3>5. StageOf(c)' = "closed"
      BY <2>3, <3>1, <3>2, <3>3, AfterPost DEF Announced
    <3>6. \A d \in Ids : /\ d # c => StageOf(d)' = StageOf(d)
                         /\ \A side \in Sides : LastOf(d, side)' = LastOf(d, side)
      BY <2>3, <3>1, <3>2, AfterPost DEF Sides
    <3>7. Events!PostClosed(c)
      BY <3>1, <3>2, <3>4, <3>5, <3>6 DEF Events!PostClosed, Events!Post, e
    <3> QED BY <3>2, <3>7 DEF Events!Arrive
  <2>7. ASSUME NEW c \in Ids, NEW side \in Sides, NEW n \in 1 .. MaxSent[side],
               posted' = Append(posted, [id |-> c, kind |-> side, n |-> n]),
               Announced(c), Ended(c) => StageOf(c) = "closed", LastOf(c, side) < n
        PROVE  Events!Arrive
    <3>1. /\ \/ StageOf(c) = "open" /\ StageOf(c)' = "open"
             \/ StageOf(c) = "closed" /\ StageOf(c)' = "late"
          /\ n \in LastOf(c, side) + 1 .. MaxSent[side]
          /\ \A d \in Ids : d # c => StageOf(d)' = StageOf(d)
          /\ \A d \in Ids, other \in Sides :
               LastOf(d, other)' = IF d = c /\ other = side THEN n ELSE LastOf(d, other)
      BY <2>3, <2>7, MessagePosted
    <3> DEFINE stage == [d \in Ids |-> StageOf(d)]
               last == [d \in Ids |-> [other \in Sides |-> LastOf(d, other)]]
    <3>2. \/ stage[c] = "open" /\ stage' = stage
          \/ stage[c] = "closed" /\ stage' = [stage EXCEPT ![c] = "late"]
      <4>1. CASE StageOf(c) = "open" /\ StageOf(c)' = "open"
        BY <2>7, <3>1, <4>1
      <4>2. CASE StageOf(c) = "closed" /\ StageOf(c)' = "late"
        BY <2>7, <3>1, <4>2
      <4> QED BY <3>1, <4>1, <4>2
    <3>3. n \in last[c][side] + 1 .. MaxSent[side] /\ last' = [last EXCEPT ![c][side] = n]
      BY <2>7, <3>1
    <3>4. Events!Post(c, side, n)
      BY <2>7 DEF Events!Post
    <3>5. Events!PostMessage(c, side)
      BY <3>2, <3>3, <3>4, Zenon DEF Events!PostMessage
    <3> QED BY <2>7, <3>5 DEF Events!Arrive
  <2>8. ASSUME NEW c \in Ids, SendDelayedMessage(c), posted' # posted
        PROVE  Events!Arrive
    <3> DEFINE n == Head(queue[c])
    <3>1. /\ pc[Client(c)] = "drain" /\ queue[c] # <<>>
          /\ posted' = Append(posted, [id |-> c, kind |-> "switch", n |-> n])
      BY <2>8 DEF SendDelayedMessage, At, Dangle, Post
    <3>2. queue[c] \in Seq(Numbers)
      BY <2>3, NumbersTyped
    <3>3. n = queue[c][1] /\ 1 \in DOMAIN queue[c] /\ n \in Numbers
      BY <3>1, <3>2
    <3>4. LastOf(c, "switch") < n
      BY <2>1, <2>3, <3>3 DEF NumbersInOrder
    <3>5. c \in connections /\ Announced(c) /\ ~Ended(c)
      BY <2>1, <2>3, <3>1 DEF AcceptInOrder, StagesInOrder
    <3> HIDE DEF n
    <3> QED BY <2>7, <3>1, <3>3, <3>4, <3>5 DEF Numbers, Sides
  <2>9. ASSUME NEW t \in Threads, PostMessage(t) PROVE Events!Arrive
    <3>1. /\ pc[t] = "post"
          /\ posted' = Append(posted, [id |-> t[1], kind |-> t[2], n |-> sent[t]])
      BY <2>9 DEF PostMessage, At, Post
    <3>2. t[1] \in Ids /\ t[2] \in Sides /\ sent[t] \in 1 .. MaxSent[t[2]]
      BY <2>3, <3>1, SentMessage
    <3>3. LastOf(t[1], t[2]) < sent[t]
      BY <2>1, <2>3, <3>1 DEF NumbersInOrder, Handing
    <3>4. Announced(t[1]) /\ (Ended(t[1]) => StageOf(t[1]) = "closed")
      BY <2>1, <2>3, <3>1 DEF StagesInOrder
    <3> QED BY <2>7, <3>1, <3>2, <3>3, <3>4
  <2>10. posted' = posted \/ Events!Arrive
    BY Frames, <2>5, <2>6, <2>8, <2>9 DEF PostedChanges
  <2> QED BY <2>2, <2>4, <2>10 DEF Events!Next
<1> QED BY <1>1, <1>2

(* As long as no accesses have collided, the main thread is told of every  *)
(* connection what ConnectionEvents promises: that it is there before all  *)
(* else, its end at most once, and the messages of each side in the order  *)
(* they were received (ConnectionManager.cpp).                             *)
THEOREM EventsImplemented == Spec => ImplementsEvents
<1>1. Init => Events!Init
  <2> SUFFICES ASSUME Init PROVE Events!Init
    OBVIOUS
  <2>1. \A c : StageOf(c) = "unknown" /\ \A side : LastOf(c, side) = 0
    BY NoEvents DEF Init
  <2>2. (fault = "none" /\ ~torn) = TRUE
    BY DEF Init
  <2> QED BY <2>1, <2>2 DEF Init, Events!Init
<1>2. IInv /\ EventsInv /\ [Next]_vars => [Events!Next]_Events!vars
  <2> SUFFICES ASSUME IInv, EventsInv, UNCHANGED vars PROVE UNCHANGED Events!vars
    BY EventsStep
  <2>1. \A c : StageOf(c)' = StageOf(c) /\ \A side : LastOf(c, side)' = LastOf(c, side)
    BY NothingPosted DEF vars
  <2>2. posted' = posted /\ (fault = "none" /\ ~torn)' = (fault = "none" /\ ~torn)
    BY DEF vars
  <2> QED BY <2>1, <2>2 DEF Events!vars
<1> QED BY <1>1, <1>2, EventsInvCorrect, PTL DEF Spec, ImplementsEvents, Events!Spec
====
