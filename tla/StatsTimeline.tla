--------------------------- MODULE StatsTimeline ---------------------------
(***************************************************************************)
(* How the flow predictor answers the statistics queries of the            *)
(* controller: the buckets of StatsManager, the pending predictions of     *)
(* FlowPredictor, the pending requests of the detector, and the switches   *)
(* that answer them.                                                       *)
(*                                                                         *)
(* A query becomes a prediction and asks for the statistics of every       *)
(* domain path it covers.  Preparing an instruction closes the bucket of   *)
(* this epoch and sends its requests to the switches.  The answers may     *)
(* come back in any order, but the statistics are used bucket by bucket,   *)
(* oldest first, because the counter of a path is compared with the one    *)
(* that was read before.                                                   *)
(*                                                                         *)
(* Every action but Lose is a task of the executor, which runs them one at *)
(* a time.  A request is in network from the moment its instruction is     *)
(* queued until the executor runs the task for its answer.                 *)
(***************************************************************************)
EXTENDS Integers, Sequences, FiniteSets, SequencesExt

CONSTANTS
  Paths,      (* domain paths, each of which is created at most once       *)
  Switches,
  SwitchOf,   (* the switch that holds the interceptor of a path           *)
  Queries,    (* the statistics queries of the controller                  *)
  Lossy       (* TRUE if requests may stay unanswered                      *)

ASSUME ConstantsAssumption ==
  /\ SwitchOf \in [Paths -> Switches]
  /\ IsFiniteSet(Paths)
  /\ Lossy \in BOOLEAN

VARIABLES
  unborn,     (* paths that do not exist yet                               *)
  live,       (* paths that exist and are not deleted                      *)
  now,        (* the timestamp of the front bucket                         *)
  requested,  (* the statistics list of the front bucket                   *)
  timeline,   (* the buckets behind it, whose requests are sent            *)
  lastId,     (* the last request id given out                             *)
  pending,    (* requests the detector waits for                           *)
  network,    (* those of them that will still be answered                 *)
  awaiting,   (* predictions that wait for their bucket                    *)
  ready,      (* predictions made, their reply is not prepared yet         *)
  replied,    (* predictions whose reply went into an instruction          *)
  forgotten,  (* predictions of an epoch that requested nothing            *)
  lastRead    (* the request whose counter was last used for a path        *)

(* History: a younger bucket was completed before the oldest one.          *)
VARIABLE overtaken

pathVars == <<unborn, live>>
frontVars == <<now, requested>>
requestVars == <<timeline, lastId, pending, network>>
predictionVars == <<awaiting, ready, replied, forgotten>>
vars == <<pathVars, frontVars, requestVars, predictionVars, lastRead,
          overtaken>>

Prediction == [query : Queries, time : Nat]
Request == [id : Nat, time : Nat, path : Paths]
Bucket == [time : Nat, requests : Seq(Request), expected : SUBSET Request]

Init ==
  /\ unborn = Paths
  /\ live = {}
  /\ now = 0
  /\ requested = <<>>
  /\ timeline = <<>>
  /\ lastId = 0
  /\ pending = {}
  /\ network = {}
  /\ awaiting = {}
  /\ ready = {}
  /\ replied = {}
  /\ forgotten = {}
  /\ lastRead = [p \in Paths |-> 0]
  /\ overtaken = FALSE
----
Asked == {a.query : a \in awaiting \cup ready \cup replied \cup forgotten}

(* A query of the controller about a rule that the given paths cross.      *)
PredictFlow(q, paths) ==
  /\ q \notin Asked
  /\ paths \subseteq live
  /\ awaiting' = awaiting \cup {[query |-> q, time |-> now]}
  /\ requested' = requested \o SetToSeq(paths)
  /\ UNCHANGED <<pathVars, now, requestVars, ready, replied, forgotten,
                 lastRead, overtaken>>
(***************************************************************************)
(* Preparing an instruction.                                               *)
(***************************************************************************)

(* An empty front bucket is replaced by one with a later timestamp.  No    *)
(* request carries the old timestamp, so that all it leaves behind are the *)
(* predictions of this epoch, which wait for requests that do not exist.   *)
(* The model sets these apart and does not count the timestamp up.         *)
RenewEmptyBucket ==
  LET stranded == {a \in awaiting : a.time = now}
  IN /\ awaiting' = awaiting \ stranded
     /\ forgotten' = forgotten \cup stranded
     /\ UNCHANGED <<frontVars, requestVars>>

(* Variant: the detector does not note the requests as pending.            *)
SendUnregistered(stats) ==
  LET requests == [i \in DOMAIN stats |->
                     [id |-> lastId + i, time |-> now, path |-> stats[i]]]
  IN /\ timeline' = Append(timeline, [time |-> now, requests |-> requests,
                                      expected |-> ToSet(requests)])
     /\ lastId' = lastId + Len(stats)
     /\ network' = network \cup ToSet(requests)
     /\ now' = now + 1
     /\ requested' = <<>>
     /\ UNCHANGED <<pending, awaiting, forgotten>>

(* Request ids count up along the statistics list.                         *)
SendRequests(stats) ==
  LET requests == [i \in DOMAIN stats |->
                     [id |-> lastId + i, time |-> now, path |-> stats[i]]]
  IN /\ timeline' = Append(timeline, [time |-> now, requests |-> requests,
                                      expected |-> ToSet(requests)])
     /\ lastId' = lastId + Len(stats)
     /\ pending' = pending \cup ToSet(requests)
     /\ network' = network \cup ToSet(requests)
     /\ now' = now + 1
     /\ requested' = <<>>
     /\ UNCHANGED <<awaiting, forgotten>>

(* The edge diff deletes some paths, which asks for their statistics a     *)
(* last time, and creates others.  A path that one diff both creates and   *)
(* deletes leaves no trace here.                                           *)
PrepareInstructions(deleted, created) ==
  /\ deleted \subseteq live
  /\ created \subseteq unborn
  /\ live' = (live \ deleted) \cup created
  /\ unborn' = unborn \ created
  /\ LET stats == requested \o SetToSeq(deleted)
     IN IF stats = <<>> THEN RenewEmptyBucket ELSE SendRequests(stats)
  /\ replied' = replied \cup ready
  /\ ready' = {}
  /\ UNCHANGED <<lastRead, overtaken>>
(***************************************************************************)
(* Answers of the switches.                                                *)
(***************************************************************************)

(* The interceptor's switch is offline, or its answer lists no flow.       *)
Lose(r) ==
  /\ Lossy
  /\ r \in network
  /\ network' = network \ {r}
  /\ UNCHANGED <<pathVars, frontVars, timeline, lastId, pending,
                 predictionVars, lastRead, overtaken>>

(* One switch answers in the order it was asked.                           *)
FirstOfItsSwitch(r) ==
  \A s \in network : SwitchOf[s.path] = SwitchOf[r.path] => r.id <= s.id

(* Variant: full one answer too early.                                     *)
AlmostFull(bucket) == Cardinality(bucket.expected) <= 1

IsFull(bucket) == bucket.expected = {}

Received(r) ==
  [i \in DOMAIN timeline |->
     IF timeline[i].time = r.time
     THEN [timeline[i] EXCEPT !.expected = @ \ {r}]
     ELSE timeline[i]]

(* A path that a bucket holds several times is processed in list order.    *)
ProcessStats(bucket) ==
  lastRead' =
    [p \in Paths |->
       LET reads == {i \in DOMAIN bucket.requests : bucket.requests[i].path = p}
       IN IF reads = {} THEN lastRead[p]
          ELSE bucket.requests[CHOOSE i \in reads : \A j \in reads : j <= i].id]

(* Variants: by the current time, for all times, one epoch too late.       *)
UpdateCurrent(time) ==
  LET made == {a \in awaiting : a.time = now}
  IN /\ awaiting' = awaiting \ made
     /\ ready' = ready \cup made

UpdateAll(time) ==
  /\ awaiting' = {}
  /\ ready' = ready \cup awaiting

UpdateNext(time) ==
  LET made == {a \in awaiting : a.time = time + 1}
  IN /\ awaiting' = awaiting \ made
     /\ ready' = ready \cup made

UpdatePredictions(time) ==
  LET made == {a \in awaiting : a.time = time}
  IN /\ awaiting' = awaiting \ made
     /\ ready' = ready \cup made

(* Variant: the newest bucket is looked at.                                *)
PopNewest(buckets, r) ==
  IF IsFull(Last(buckets))
  THEN /\ timeline' = Front(buckets)
       /\ ProcessStats(Last(buckets))
       /\ UpdatePredictions(r.time)
  ELSE /\ timeline' = buckets
       /\ UNCHANGED <<lastRead, awaiting, ready>>

(* An answer takes at most one bucket off the timeline, the oldest, and    *)
(* updates the predictions made in the epoch of the answered request.      *)
PopStatsList(buckets, r) ==
  IF IsFull(Head(buckets))
  THEN /\ timeline' = Tail(buckets)
       /\ ProcessStats(Head(buckets))
       /\ UpdatePredictions(r.time)
  ELSE /\ timeline' = buckets
       /\ UNCHANGED <<lastRead, awaiting, ready>>

(* Only the first flow of an answer finds its request pending.             *)
AddRuleStats(r) ==
  /\ r \in network
  /\ FirstOfItsSwitch(r)
  /\ network' = network \ {r}
  /\ pending' = pending \ {r}
  /\ PopStatsList(Received(r), r)
  /\ overtaken' = \/ overtaken
                  \/ /\ ~IsFull(Head(Received(r)))
                     /\ \E b \in ToSet(Received(r)) : IsFull(b)
  /\ UNCHANGED <<pathVars, frontVars, lastId, replied, forgotten>>
----
Prepare ==
  \E deleted \in SUBSET live, created \in SUBSET unborn :
    PrepareInstructions(deleted, created)

Answer == \E r \in network : AddRuleStats(r)

Next ==
  \/ \E q \in Queries, paths \in SUBSET live : PredictFlow(q, paths)
  \/ Prepare
  \/ Answer
  \/ \E r \in network : Lose(r)

Spec == Init /\ [][Next]_vars

(* Timeouts recur and switches that are online answer.                     *)
FairSpec == Spec /\ WF_vars(Prepare) /\ WF_vars(Answer)
----
TypeOK ==
  /\ unborn \subseteq Paths
  /\ live \subseteq Paths
  /\ now \in Nat
  /\ requested \in Seq(Paths)
  /\ timeline \in Seq(Bucket)
  /\ lastId \in Nat
  /\ pending \subseteq Request
  /\ network \subseteq pending
  /\ awaiting \subseteq Prediction
  /\ ready \subseteq Prediction
  /\ replied \subseteq Prediction
  /\ forgotten \subseteq Prediction
  /\ lastRead \in [Paths -> Nat]
  /\ overtaken \in BOOLEAN

(* An answer always finds its bucket on the timeline and is expected       *)
(* there, as get_bucket and get_stats assert, whatever is lost and in      *)
(* whatever order the answers come; and a bucket waits for nothing the     *)
(* detector would not recognise.                                           *)
RequestsAwaited ==
  /\ \A r \in pending : \E i \in DOMAIN timeline :
       timeline[i].time = r.time /\ r \in timeline[i].expected
  /\ \A i \in DOMAIN timeline : timeline[i].expected \subseteq pending

(* The counters of a path are used in the order they were read, so that    *)
(* process_path_query never subtracts a newer counter from an older one.   *)
CountersForward == [][\A p \in Paths : lastRead'[p] >= lastRead[p]]_vars

(* A prediction is made with the statistics of its own epoch and of all    *)
(* epochs before it, as long as no bucket was completed ahead of an older  *)
(* one.  After that a prediction may be made one bucket too early.         *)
PredictionsComplete ==
  ~overtaken =>
    \A a \in ready \cup replied, i \in DOMAIN timeline : a.time < timeline[i].time

(* Neither is a prediction left behind by its bucket before that.          *)
NoneLeftBehind ==
  ~overtaken => \A a \in awaiting :
    a.time = now \/ \E i \in DOMAIN timeline : timeline[i].time = a.time

(* When every request is answered and no bucket is ever overtaken, every   *)
(* query is replied to, unless its epoch requested no statistics.          *)
QueriesReplied ==
  \A q \in Queries :
    (\E a \in awaiting : a.query = q) ~>
      \/ \E a \in replied \cup forgotten : a.query = q
      \/ overtaken
====
