------------------------- MODULE ConnectionManager -------------------------
(***************************************************************************)
(* The connection manager of the proxy.  Callbacks of a connection come    *)
(* on two threads of libfluid: a server thread for the link to the switch, *)
(* a client thread for the link to the controller.  Both look up and       *)
(* change the same two maps, waiting_connections_ and connections_, with   *)
(* no lock, and push events for the main thread.                           *)
(*                                                                         *)
(* Every access to a map is a step of its own.  A lookup that comes while  *)
(* another thread is about to change the map may miss an entry.  Using an  *)
(* entry that is gone is undefined, the model stops there.                 *)
(***************************************************************************)
EXTENDS Naturals, Sequences

CONSTANTS
  Ids,     (* connection ids, never used again                             *)
  MaxSent  (* bound on the messages of each side of a connection           *)

Sides == {"switch", "controller"}

ASSUME MaxSentAssumption == MaxSent \in [Sides -> Nat]

Threads == Ids \X Sides
Server(c) == <<c, "switch">>
Client(c) == <<c, "controller">>
Peer(t) == <<t[1], CHOOSE side \in Sides : side # t[2]>>

VARIABLES
  pc,           (* where the thread of each link is in its callback        *)
  link,         (* the link to the switch or to the controller             *)
  sent,         (* number of messages received on each link                *)
  waiting,      (* waiting_connections_                                    *)
  queue,        (* the message queue of a waiting connection               *)
  connections,  (* connections_                                            *)
  posted,       (* the event queue with all that was in it                 *)
  fault         (* "none", or the step that used an entry that is gone     *)

(* History that only the properties read.                                  *)
VARIABLES
  lost,     (* messages that were erased with their queue on acceptance    *)
  torn,     (* a lookup missed an entry that is there                      *)
  crossed   (* two callbacks of one connection overlapped                  *)

maps == <<waiting, queue, connections>>
vars == <<pc, link, sent, maps, posted, fault, lost, torn, crossed>>

Init ==
  /\ pc = [t \in Threads |-> "idle"]
  /\ link = [t \in Threads |-> "none"]
  /\ sent = [t \in Threads |-> 0]
  /\ waiting = {}
  /\ queue = [c \in Ids |-> <<>>]
  /\ connections = {}
  /\ posted = <<>>
  /\ fault = "none"
  /\ lost = {}
  /\ torn = FALSE
  /\ crossed = FALSE

Running == fault = "none"

At(t, step) == Running /\ pc[t] = step
Go(t, step) == pc' = [pc EXCEPT ![t] = step]

(* The first step of a callback. *)
Begin(t) ==
  /\ At(t, "idle")
  /\ crossed' = (crossed \/ pc[Peer(t)] # "idle")

Proceed == UNCHANGED <<fault, lost, torn, crossed>>

Post(c, kind, n) == posted' = Append(posted, [id |-> c, kind |-> kind, n |-> n])

Dangle(t) ==
  /\ fault' = pc[t]
  /\ UNCHANGED <<pc, link, sent, maps, posted, lost, torn, crossed>>
(***************************************************************************)
(* Lookups.                                                                *)
(***************************************************************************)
ChangeWaiting == {"enlist", "settle", "closeWaiting"}
ChangeConnections == {"adopt", "closeBoth"}

Overlapped(t, steps) == \E u \in Threads \ {t} : pc[u] \in steps

Find(t, map) == t[1] \in map /\ UNCHANGED torn

Miss(t, map, steps) ==
  /\ t[1] \in map => Overlapped(t, steps)
  /\ torn' = (torn \/ t[1] \in map)

(* Which way a callback goes on after it has looked an entry up.           *)
LookUp(t, map, steps, found, missed) ==
  \/ Find(t, map) /\ Go(t, found)
  \/ Miss(t, map, steps) /\ Go(t, missed)
(***************************************************************************)
(* A switch connects: the proxy connects to the controller.                *)
(***************************************************************************)
SwitchStarted(c) ==
  /\ link[Server(c)] = "none"
  /\ Begin(Server(c))
  /\ link' = [link EXCEPT ![Server(c)] = "open"]
  /\ Go(Server(c), "enlist")
  /\ UNCHANGED <<sent, maps, posted, fault, lost, torn>>

(* Variant: the connection is taken for accepted at once.                  *)
ConnectAtOnce(c) ==
  /\ At(Server(c), "enlist")
  /\ connections' = connections \cup {c}
  /\ link' = [link EXCEPT ![Client(c)] = "connecting"]
  /\ Go(Server(c), "idle")
  /\ UNCHANGED <<sent, waiting, queue, posted>>
  /\ Proceed

StartControllerConnection(c) ==
  /\ At(Server(c), "enlist")
  /\ waiting' = waiting \cup {c}
  /\ link' = [link EXCEPT ![Client(c)] = "connecting"]
  /\ Go(Server(c), "idle")
  /\ UNCHANGED <<sent, queue, connections, posted>>
  /\ Proceed
(***************************************************************************)
(* The controller accepts.                                                 *)
(***************************************************************************)
ControllerStarted(c) ==
  /\ link[Client(c)] = "connecting"
  /\ Begin(Client(c))
  /\ \/ /\ Find(Client(c), waiting)
        /\ link' = [link EXCEPT ![Client(c)] = "open"]
        /\ Go(Client(c), "adopt")
     \/ /\ Miss(Client(c), waiting, ChangeWaiting)
        /\ link' = [link EXCEPT ![Client(c)] = "closing"]
        /\ UNCHANGED pc
  /\ UNCHANGED <<sent, maps, posted, fault, lost>>

(* The id is new, so that no such connection exists.                       *)
AddProxyConnection(c) ==
  /\ At(Client(c), "adopt")
  /\ IF c \in waiting
     THEN /\ connections' = connections \cup {c}
          /\ Go(Client(c), "announce")
          /\ UNCHANGED <<link, sent, waiting, queue, posted>>
          /\ Proceed
     ELSE Dangle(Client(c))

(* Variant: the waiting entry is erased before its messages are sent.      *)
AnnounceAndErase(c) ==
  /\ At(Client(c), "announce")
  /\ Post(c, "new", 0)
  /\ waiting' = waiting \ {c}
  /\ queue' = [queue EXCEPT ![c] = <<>>]
  /\ Go(Client(c), "drain")
  /\ UNCHANGED <<link, sent, connections>>
  /\ Proceed

Announce(c) ==
  /\ At(Client(c), "announce")
  /\ Post(c, "new", 0)
  /\ Go(Client(c), "drain")
  /\ UNCHANGED <<link, sent, maps>>
  /\ Proceed

SendDelayedMessage(c) ==
  /\ At(Client(c), "drain")
  /\ IF c \notin waiting
     THEN Dangle(Client(c))
     ELSE IF queue[c] = <<>>
     THEN /\ Go(Client(c), "settle")
          /\ UNCHANGED <<link, sent, maps, posted>>
          /\ Proceed
     ELSE /\ Post(c, "switch", Head(queue[c]))
          /\ queue' = [queue EXCEPT ![c] = Tail(@)]
          /\ UNCHANGED <<pc, link, sent, waiting, connections>>
          /\ Proceed

(* What came after the queue was found empty goes with it.                 *)
EraseWaiting(c) ==
  /\ At(Client(c), "settle")
  /\ IF c \in waiting
     THEN /\ waiting' = waiting \ {c}
          /\ lost' = lost \cup {<<c, queue[c][i]>> : i \in DOMAIN queue[c]}
          /\ queue' = [queue EXCEPT ![c] = <<>>]
          /\ Go(Client(c), "idle")
          /\ UNCHANGED <<link, sent, connections, posted, fault, torn, crossed>>
     ELSE Dangle(Client(c))
(***************************************************************************)
(* Messages.  A thread handles the message it received last.               *)
(***************************************************************************)
Receive(t) ==
  /\ link[t] = "open"
  /\ sent[t] < MaxSent[t[2]]
  /\ Begin(t)
  /\ sent' = [sent EXCEPT ![t] = @ + 1]

(* Variant: without a look at the waiting connections.                     *)
RouteAtOnce(c) ==
  /\ Receive(Server(c))
  /\ Go(Server(c), "route")
  /\ UNCHANGED <<link, maps, posted, fault, lost, torn>>

SwitchMessage(c) ==
  /\ Receive(Server(c))
  /\ LookUp(Server(c), waiting, ChangeWaiting, "enqueue", "route")
  /\ UNCHANGED <<link, maps, posted, fault, lost>>

EnqueueMessage(c) ==
  /\ At(Server(c), "enqueue")
  /\ IF c \in waiting
     THEN /\ queue' = [queue EXCEPT ![c] = Append(@, sent[Server(c)])]
          /\ Go(Server(c), "idle")
          /\ UNCHANGED <<link, sent, waiting, connections, posted>>
          /\ Proceed
     ELSE Dangle(Server(c))

RouteMessage(c) ==
  /\ At(Server(c), "route")
  /\ LookUp(Server(c), connections, ChangeConnections, "post", "idle")
  /\ UNCHANGED <<link, sent, maps, posted, fault, lost, crossed>>

ControllerMessage(c) ==
  /\ Receive(Client(c))
  /\ LookUp(Client(c), connections, ChangeConnections, "post", "idle")
  /\ UNCHANGED <<link, maps, posted, fault, lost>>

PostMessage(t) ==
  /\ At(t, "post")
  /\ Post(t[1], t[2], sent[t])
  /\ Go(t, "idle")
  /\ UNCHANGED <<link, sent, maps>>
  /\ Proceed
(***************************************************************************)
(* A link is closed, by its other end or because the proxy asked for it.   *)
(***************************************************************************)
Close(links, ts) ==
  [t \in Threads |->
     IF t \in ts /\ links[t] = "open" THEN "closing" ELSE links[t]]

LinkClosed(t) ==
  /\ link[t] \in {"open", "closing"}
  /\ Begin(t)
  /\ link' = [link EXCEPT ![t] = "closed"]
  /\ LookUp(t, waiting, ChangeWaiting, "closeWaiting", "leave")
  /\ UNCHANGED <<sent, maps, posted, fault, lost>>

CloseWaiting(t) ==
  /\ At(t, "closeWaiting")
  /\ IF t[1] \in waiting
     THEN /\ link' = Close(link, {Server(t[1])})
          /\ waiting' = waiting \ {t[1]}
          /\ queue' = [queue EXCEPT ![t[1]] = <<>>]
          /\ Go(t, "idle")
          /\ UNCHANGED <<sent, connections, posted>>
          /\ Proceed
     ELSE Dangle(t)

LeaveConnection(t) ==
  /\ At(t, "leave")
  /\ LookUp(t, connections, ChangeConnections, "closeBoth", "idle")
  /\ UNCHANGED <<link, sent, maps, posted, fault, lost, crossed>>

(* Variant: only the link that was closed is closed.                       *)
CloseOwn(t) ==
  /\ At(t, "closeBoth")
  /\ IF t[1] \in connections
     THEN /\ link' = Close(link, {t})
          /\ connections' = connections \ {t[1]}
          /\ Go(t, "farewell")
          /\ UNCHANGED <<sent, waiting, queue, posted>>
          /\ Proceed
     ELSE Dangle(t)

CloseBoth(t) ==
  /\ At(t, "closeBoth")
  /\ IF t[1] \in connections
     THEN /\ link' = Close(link, {t, Peer(t)})
          /\ connections' = connections \ {t[1]}
          /\ Go(t, "farewell")
          /\ UNCHANGED <<sent, waiting, queue, posted>>
          /\ Proceed
     ELSE Dangle(t)

Farewell(t) ==
  /\ At(t, "farewell")
  /\ Post(t[1], "closed", 0)
  /\ Go(t, "idle")
  /\ UNCHANGED <<link, sent, maps>>
  /\ Proceed
----
Accept(c) ==
  \/ AddProxyConnection(c)
  \/ Announce(c)
  \/ SendDelayedMessage(c)
  \/ EraseWaiting(c)

(* The rest of a callback that has begun. *)
Continue(t) ==
  \/ t[2] = "switch" /\ StartControllerConnection(t[1])
  \/ t[2] = "switch" /\ EnqueueMessage(t[1])
  \/ t[2] = "switch" /\ RouteMessage(t[1])
  \/ t[2] = "controller" /\ Accept(t[1])
  \/ PostMessage(t)
  \/ CloseWaiting(t)
  \/ LeaveConnection(t)
  \/ CloseBoth(t)
  \/ Farewell(t)

Next ==
  \/ \E c \in Ids :
       \/ SwitchStarted(c)
       \/ ControllerStarted(c)
       \/ SwitchMessage(c)
       \/ ControllerMessage(c)
  \/ \E t \in Threads : LinkClosed(t) \/ Continue(t)

Spec == Init /\ [][Next]_vars

(* Callbacks come to an end, the controller accepts, and a link that the   *)
(* proxy closes is reported as closed.                                     *)
Fairness ==
  /\ \A t \in Threads :
       /\ WF_vars(Continue(t))
       /\ WF_vars(link[t] = "closing" /\ LinkClosed(t))
  /\ \A c \in Ids : WF_vars(ControllerStarted(c))

FairSpec == Spec /\ Fairness
----
Message(side) == [id : Ids, kind : {side}, n : 1 .. MaxSent[side]]

(* Every variable keeps to its type; only a waiting connection has a       *)
(* message queue, and only one that was accepted is a proxy connection.    *)
TypeOK ==
  /\ pc \in [Threads -> {"idle", "enlist", "adopt", "announce", "drain", "settle",
                         "enqueue", "route", "post", "closeWaiting", "leave",
                         "closeBoth", "farewell"}]
  /\ link \in [Threads -> {"none", "connecting", "open", "closing", "closed"}]
  /\ \A t \in Threads : sent[t] \in 0 .. MaxSent[t[2]]
  /\ waiting \subseteq Ids
  /\ \A c \in Ids : queue[c] # <<>> => c \in waiting
  /\ connections \subseteq {c \in Ids : link[Client(c)] \in {"open", "closing", "closed"}}
  /\ \A i \in DOMAIN posted :
       posted[i] \in [id : Ids, kind : {"new", "closed"}, n : {0}]
                     \cup Message("switch") \cup Message("controller")
  /\ fault \in {"none", "adopt", "drain", "settle", "enqueue", "closeWaiting", "closeBoth"}
  /\ lost \subseteq Ids \X (1 .. MaxSent["switch"])
  /\ torn \in BOOLEAN
  /\ crossed \in BOOLEAN

(* As long as the callbacks of a connection do not overlap and no lookup   *)
(* fails, no entry is used that is gone and no message is lost.            *)
HarmlessAlone == ~crossed /\ ~torn => fault = "none" /\ lost = {}

(* "Send delayed messages": what the switch sent while it waited for the   *)
(* controller is passed on when the controller has accepted.               *)
DelayedMessagesSent == lost = {}

(* The events as the abstract specification sees them.                     *)
Of(c) == {i \in DOMAIN posted : posted[i].id = c}
Kinds(c) == {posted[i].kind : i \in Of(c)}
StageOf(c) ==
  IF "new" \notin Kinds(c) THEN "unknown"
  ELSE IF "closed" \notin Kinds(c) THEN "open"
  ELSE IF posted[CHOOSE i \in Of(c) : \A j \in Of(c) : j <= i].kind = "closed"
       THEN "closed" ELSE "late"
LastOf(c, side) ==
  LET ns == {posted[i].n : i \in {j \in Of(c) : posted[j].kind = side}}
  IN IF ns = {} THEN 0 ELSE CHOOSE n \in ns : \A k \in ns : k <= n

Events == INSTANCE ConnectionEvents WITH
  stage <- [c \in Ids |-> StageOf(c)],
  last <- [c \in Ids |-> [side \in Sides |-> LastOf(c, side)]],
  events <- posted,
  intact <- fault = "none" /\ ~torn

(* The event queue keeps the promise of ConnectionEvents.                  *)
ImplementsEvents == Events!Spec

(* Neither side of a connection outlives the other.                        *)
ClosedTogether ==
  \A c \in Ids :
    /\ link[Server(c)] = "closed" ~> link[Client(c)] = "closed" \/ ~Running \/ torn
    /\ link[Client(c)] = "closed" ~> link[Server(c)] = "closed" \/ ~Running \/ torn
====
