# Verification of compromutator

Compromutator is a transparent OpenFlow 1.3 proxy between switches and a
controller.  It watches the FlowMods that pass through it, computes from them
which paths packets can take through the network (*domain paths*), places
*interceptor* rules of its own at the start of each path, and answers the flow
statistics queries of the controller with predictions made from the counters of
the interceptors.

This directory holds TLA+ models of the program, TLC configurations that check
them on small instances, and TLAPS proofs.  `PROJECT.json` lists the components,
the runs, the theorems, the hazards of the code and, under `map`, the source
lines that every definition stands for.  Paths below are relative to `src/src/`.

    tlc -workers 2 -config EpochPipeline.cfg MCEpochPipeline    # a run
    tlapm EpochPipelineProofs.tla                               # the proofs

## 1. The system

### Threads and how they interact

    switch <-> server threads --\                    /--> executor thread
                                 event queue -> main thread
    controller <-> client threads /     ^            \<-- instruction queue
                                        +--- Alarm (timeout, notifications)

* libfluid runs **server threads** (links to switches) and **client threads**
  (links to the controller).  Their callbacks go into `ConnectionManager`, which
  pairs the two links of a connection and pushes `NEW`, `MESSAGE` and `CLOSED`
  events into the event queue.
* The **main thread** runs `Compromutator::run`: it waits on the `Alarm`; on a
  notification it releases one batch of FlowMods, handles *all* instructions of
  the detector, then *all* events; on a timeout (10 ms by default) it ends an
  epoch: a barrier in the queue of FlowMods and a prepare task for the executor.
* The **executor thread** runs the tasks of the detector one at a time, oldest
  first: changes of rules, links and switches, fills of performance
  measurements, answers of switches, statistics queries, and the preparation of
  instructions (interceptor changes, requests, replies).

### Components

| Component | State it keeps | Operations | What makes it correct |
|---|---|---|---|
| Main loop and alarm (`Compromutator.cpp`, `ConcurrencyPrimitives.hpp`) | the condition variable and nothing else: a notification is not remembered | `run`, `wait`, `notify`, handling of events, instructions, timeouts | nothing stays in a queue for ever although notifications get lost |
| Executor and detector (`Detector.cpp`) | task queue, instruction queue, pending requests | the tasks above | an instruction reflects everything queued before its epoch ended; every answer meets its request |
| Queue with barriers, performance monitor (`Types.hpp`, `PerformanceMonitor.cpp`) | batches of FlowMods; open measurements by connection and xid | `addBarrier`, `push`, `pop`; `start`, `fill`, `finish`, `flush` | FlowMods keep their order; none is released before the detector has planned for it |
| Message pipeline (`pipeline/`) | handlers and handshake pipelines per connection | dispatch of each message, table shift, LLDP and barrier handling | no message is handled without its handler and switch |
| Handshake (`HandshakeHandler.cpp`) | what the handshake knows; delayed messages | visitors, `try_establish` | delayed messages are handled once and in order |
| Controller (`Controller.cpp`) | switch map, connection map, xids, request map | install and delete rules, request statistics, replies | its two maps and the detector agree |
| Statistics timeline (`flow_predictor/Stats.cpp`) | buckets of requests by timestamp | add, get, pop | counters are used oldest first; every query gets an answer |
| Flow predictor, path scan (`FlowPredictor.cpp`, `PathScan.cpp`) | trees of nodes, versions, rule mappings, predictions | edge diffs, processing of statistics, predictions | no node is erased while a request needs it |
| Interceptor manager (`InterceptorManager.cpp`) | interceptor diff, priorities | create and delete an interceptor of a path | the installed interceptors are those of the active paths; a packet is counted by the path it takes |
| Dependency graph, edge diff (`network/`) | out-domains of rules per table, edges, the diff | add and delete rule, `+=` of diffs | edges say which packets go from rule to rule |
| Network (`Network.cpp`, `Switch.cpp`, `Rule.cpp`, `Graph.hpp`) | switches, ports, tables, links, vertices | their addition and deletion | links join existing ports; a table keeps its priority order |
| Header space (`header_space/`, `NetworkSpace.cpp`) | unions of ternary vectors minus unions | intersect, union, subtract, rewrite, inverse | the operations are those of sets of headers |
| Connection manager (`proxy/`) | `waiting_connections_`, `connections_`, event queue | callbacks of both threads, sending | events of a connection in order; the two links live and die together |
| OpenFlow mapping (`openflow/`), LLDP (`Proto.hpp`) | none | conversions | round trips |

### What is hard here

* The maps of `ConnectionManager` are shared by two kinds of threads without a lock.
* Batches of FlowMods and instructions are paired only by counting: one batch
  per wake-up that finds instructions, all instructions per wake-up, one of each
  per timeout.
* The alarm has no memory, a timeout looks at no queue, and `wait` starts
  without a look at the queues.
* Answers of different switches come in any order, some never; the counters of a
  path only mean something relative to the previous ones.
* Nodes, paths and rules refer to each other by plain iterators, and what keeps a
  deleted node alive is only that its last request has not been processed.
* A switch may reconnect before the end of its old connection was handled, and a
  message may be queued behind the `CLOSED` of its connection.

`PROJECT.json` lists the hazards one by one, at their lines, with the properties
that would catch them going wrong.

## 2. The modules

| Module | Models | Relation to the others |
|---|---|---|
| `WakeLoop` | the alarm and the turns of the main loop; of the queues only the lengths | refined by `EpochPipeline` |
| `FlowModChannel` | abstract: a FIFO channel for FlowMods that may be cut off | refined by `EpochPipeline` |
| `EpochPipeline` | main loop, barrier queue, measurements, executor, prepare tasks | |
| `EpochPipelineProofs` | proofs about `EpochPipeline`: types, the lag and what it guarantees, measurements, and that it refines `WakeLoop` and `FlowModChannel` | |
| `StatsTimeline` | `StatsManager`, predictions, pending requests, answering switches | extended by `FlowPredictor` |
| `FlowPredictor` | `PathScan`: versions of nodes, rule mappings, in the steps of `StatsTimeline` | |
| `FlowPredictorProofs` | proofs about `StatsTimeline`, about `FlowPredictor`, and that it is a `StatsTimeline` | |
| `ConnectionEvents` | abstract: what the main thread may rely on about the events of a connection | refined by `ConnectionManager`, environment of `Conversation` |
| `ConnectionManager` | callbacks of both threads, with every access to a map a step | |
| `ConnectionManagerProofs` | proofs about `ConnectionManager` | |
| `Conversation` | event loop, handshake, message handlers and `SwitchManager` for connections | |
| `ConversationProofs` | proofs about `Conversation` | |
| `NetworkSpaces` | network spaces and transfers over sets of headers | |
| `EdgeDiffs` | `EdgeDiff` and the sum of two diffs | |
| `DependencyGraph` | `DependencyGraph`, the tables and links of `Network`, the rule and link tasks of the detector | extends `NetworkSpaces`, `EdgeDiffs` |
| `PathTrees` | the trees of `FlowPredictor` as edge diffs change them | extends `DependencyGraph` |
| `PathTreesProofs` | proofs about `DependencyGraph` and `PathTrees` | uses `FoldFacts` |
| `TernaryVectors` | wildcard vectors (`array.c`) and header changers | |
| `HeaderSpaces` | header spaces (`hs.c`, `HeaderSpace.cpp`) as the code has them, lists of vectors minus lists of vectors | extends `TernaryVectors` |
| `HeaderSpaceCalls` | any sequence of calls on a header space, against sets of headers | extends `HeaderSpaces` |
| `HeaderSpaceProofs` | proofs about `TernaryVectors`, `HeaderSpaces` and `HeaderSpaceCalls` | uses `FoldFacts` |
| `OpenFlowMatches` | the conversion of matches to wildcard vectors and back | extends `HeaderSpaces` |
| `Interceptors` | one switch: its rules, the edges from its ports, the paths, their interceptors and what the switch gets of them | extends `OpenFlowMatches`, `EdgeDiffs` |
| `SequenceFacts` | lemmas about sequences, and induction over numbers and sequences | used by the proofs |
| `FoldFacts` | lemmas about folds of one step over a sequence | instantiated by the proofs, once for every fold |
| `MC*` | the instances for TLC | |

Definitions that begin with the word *Variant* in their comment are not part of
a specification: they are plausible mistakes in the code, kept to show that the
properties notice them.

### How state and actions correspond to the code

**WakeLoop.**  `pc = "loop"` is the head of `Compromutator::run`, `"waiting"` is
inside `Alarm::wait`, `"instructions"` and `"events"` are the two halves of
`on_notification`.  `notified` is a notification that reached the waiting
thread; `Notify` sets it only while the main thread waits, which is all that
`notify_one` on a condition variable without a predicate does.  The deadline may
win against a notification that came with it, so `Timeout` does not ask for
`~notified`.

**EpochPipeline.**  `batches` is `QueueWithBarriers` (`addBarrier` appends an
empty batch, `push` adds to the last one or opens one, `pop` takes the first),
`tasks` the executor's FIFO, `instructions` the detector's queue.  An
instruction is reduced to the epoch it was prepared in and to the rules known at
that moment.  `measured` and `filled` are the measurements: `FinishThrows` is the
`at()` in `finishMeasurement` that finds nothing, `fault = "unfilled"` the
failed assertion in `PerformanceMeasurement::str`; both end the process, since
nothing catches either.  `Release` is one step for `flushPipeline` and the first
turn of the instruction loop, because between them other threads only push at
the far end of queues.  `epoch`, `handled` and `born` are history, and so is
`past`: for each FlowMod, those that had been sent when it left the event queue.
`RunRule` leaves out the exceptions of a task that fails in the network
(`Detector.cpp:150`, a change of a rule that is not there, and `Network.cpp:144`, a
switch that is not known), which would end the process: which rules there are is the
subject of `DependencyGraph`.

**StatsTimeline.**  Every action but `Lose` is a task of the executor.
`timeline` holds the closed buckets, `now` and `requested` are the front one.
`PrepareInstructions` closes it; when it is empty the code merely renews its
timestamp, and then no request carries the old one: the predictions that wait
for it are set apart as `forgotten` (the model does not count the timestamp up,
which keeps it finite).  `AddRuleStats` is the answer to one request: it takes at
most one bucket, the oldest, and updates the predictions of *the answered
request's* timestamp.  `Lose` is an offline switch or an empty answer.

**FlowPredictor.**  Adds the trees of `PathScan`: `current`, `old` (deleted, in
the terms of the code: with a final time), `marked` and `erased` nodes, and the
rules with a `RuleMapping`.  An edge diff is any set of nodes created and deleted
that keeps trees trees (`LegalDiff`); which nodes an edge produces is the subject
of `PathTrees`.  Using an erased iterator is undefined, and
the model stops there with a fault, as it does where a rule without a mapping is
looked up.  `fault` says where: when the nodes of a queried rule are looked up (`query`), in
the clearing of marked nodes (`clearing`), or in the answer that completes a bucket
(`unmapped`, `dangling`).

**ConnectionManager.**  `pc[t]` is where the thread of link `t` is inside its
callback.  Each lookup, insertion, erasure and push is a step.  A data race on
an `unordered_map` is undefined; of its outcomes the model has the mildest, a
lookup that misses an entry while another thread is changing the map (`torn`).
Corruption of the map itself is not modelled.  Using an entry that is gone
(`Dangle`) ends the behaviour.

**Conversation.**  Messages are told apart by what their handlers do with them,
five sorts.  `Establish` and `DeleteSwitch` are `SwitchManager::addSwitch` and
`deleteSwitch` with the order of their early returns.  The events come from the
actions of `ConnectionEvents`, which `ConnectionManager` implements as long as no
accesses collide.

**DependencyGraph.**  A vertex is a rule of a front table, the source or sink of a
port, or the drop or controller sink.  A task of the detector is a chain of calls
that changes the graph in many steps, none of which another thread sees; it is
one action, and the calls are operators on a record `g` of the variables
(`GraphAddRule` is `DependencyGraph::addRule`, and so on).  `edges` is the edge
list of `Graph`; several edges may join the same two vertices, as in the code:
a rule put above two others takes an edge from each.  `step` in `g` is the diff
of the edge installer, `latestDiff` the one of the epoch, and `lossy` is history:
whether a sum of two diffs has lost something so far (`LosesRemoval`,
`LosesChange`).  So is `doubled`: whether `deleteEdge` has been called for two
vertices with more than one edge between them, of which it deletes one.
Left out: further tables and groups; header rewriting (the parser drops it for
outputs to ports, so that only gotos and groups have it); the order in which the
lower rules of a deleted rule get their headers back (`GraphDeleteRule` goes by
priority, `DependencyGraph.cpp:260-283` in the order the influences were found; the
edges come out the same, and only the entries of the diff change places;
`Interceptors` has the order of the code), and that of the entries that
`std::partition` moves.  Headers are a set, and a
domain is empty exactly when it has none.

**PathTrees.**  A node is the chain of rules from the root and its domain, so
that the node of a parent for a rule is unique, as `is_existing_child` ensures.
`UpdateEdges` is the method of that name with the order of its three loops; when a
subtree is built the graph is read as it is then.  `Ways` is not a part of the
program: it says what switches with these tables do.

**TernaryVectors, HeaderSpaces.**  A vector is a function from bits to sets of
values: `{0}`, `{1}`, `{0, 1}` for x, and `{}` for the z that an intersection
leaves, which is how `array.c` encodes two bits per position; so `Isect`, which
is a bitwise *and* there, is an intersection here.  A space is a sequence of
elements, a mask and the sequence of its differences.  The order of both is
kept because compaction depends on it: `Drop` is `vec_elem_free`, which moves
the last element into the gap.  A loop of `hs.c` that takes elements out of the list
it runs over is a number of rounds (`Rounds`) of a step that keeps the list and the
indices of the loop, and that does nothing at the end of the list: `SweepRound` for the
two loops of `vec_compact`, `TakeOffAllRound` and `TakeOffRound` for those of
`hs_compact_m`, `KeepRound` for that of `hs_rewrite`.  Every round goes further or
makes the list shorter, so that as many rounds as the list is long (its square, for the
two loops) bring each to its end.

**HeaderSpaceCalls.**  One action per operator of `HeaderSpace` and
`HeaderChanger`; `FollowBack` is what `add_child_node` does to the domain of a
path.  `HeadersIn` says which headers a space has; the code never computes it.
Of the inputs `CallsAreTyped` asks no more than that the operands are spaces without a
z, that a changer has the form in which `HeaderChanger` and its `operator*=` make one,
and that the domain a hop leads to has one element.

**OpenFlowMatches.**  Frame type, IP protocol and source address stand for the
three ways a field is converted: `setField` squeezes the type into a number that
unknown types share, the protocol into one bit, and keeps the bits of an address.
`GetOFMatch` is the way back, which an interceptor takes.  `Packets` and
`Matches` are the switch's own view, with all the types and protocols.

**Interceptors.**  The graph part is that of `DependencyGraph` for one front
table, with ports and with header spaces in place of sets; the tree of a path is
reduced to the nodes below the sinks (`nodes`) and the paths themselves.
`paths` carries the priority of the interceptor as `interceptor_map_` does.  The table
miss of a table drops (`MissOutputs`, `Switch.cpp:9-11`).
`PrepareInstructions` is the task of that name, `HandleInstruction` the main
loop's handling of an instruction with the switch's reaction: deletion by cookie,
then insertion, where a rule of the same match and priority is replaced.  `seen`
is history: the rules that have ever been in the table.

## 3. The runs

| Run | Instance | Shows | Distinct states |
|---|---|---|---|
| `wake_loop` | at most 4 events, 3 prepare tasks | `EventsServed`, `InstructionsServed` | few hundred |
| `epoch_pipeline` | 4 FlowMods, one of them untracked, the others with the same xid; 3 epochs | `PlannedBeforeRelease`, `LagNeverShrinks`, `FaultsExplained`; refines `FlowModChannel` and `WakeLoop` | 1.6 million |
| `measured_release_assert` | 3 FlowMods, 3 epochs | *violation* of `DataFilled` | |
| `stats_timeline` | 2 paths on 2 switches, 2 queries, answers may be lost | `RequestsAwaited`, `PredictionsComplete`, `NoneLeftBehind`, `CountersForward` | 63,024 |
| `stats_timeline_fair` | 2 paths on 1 switch, 2 queries, no losses | `QueriesReplied` | 7,039 |
| `flow_predictor` | 5 nodes, 3 of them paths, one rule with two nodes, 2 queries | `NodesKept`, `MappingsKept`, `FaultsExplained` | 238,654 |
| `connection_manager` | 1 connection, 3 messages of the switch, 2 of the controller | `HarmlessAlone`, `ClosedTogether`; refines `ConnectionEvents` | 11,082 |
| `delayed_messages` | the same | *violation* of `DelayedMessagesSent` | |
| `conversation` | 1 switch that connects twice, same message bounds | `RegistryAgrees`, `FaultsExplained`, `DelayedInOrder` | 2.07 million |
| `path_trees` | 2 switches with 2 ports each, a cable between them, 5 rules in 2 tables (in each a rule within another, one that may take the place of another), 3 headers, 2 tasks an epoch | `EdgesFollowTables`, `PathsFollowTables`, `TreesOfGraph` | 104,064 |
| `header_space` | 3 bits; spaces of at most 2 elements with at most 2 differences; 5 operands, 2 changers, 3 hops | `ComparisonsExact`, `AlgebraExact`, `RewritingKeeps`, `PathDomainExact` | 8,806 |
| `interceptors` | 1 switch with 2 ports, 5 bits, 4 rules (three nested, one for one port with two outputs), 2 tasks an epoch, 12 paths | `SwitchFollows`, `EdgesTakeRight`, `CountedByOwnPath` | 24,443 |

### What they show

*Waking up.*  Without an assumption on timing, every notification may be lost.
With it (`PreparesFindMainWaiting`: from some point on no prepare task finishes
while the main thread is away from `wait`) neither queue is starved.  The
assumption is about relative speed and the code does not enforce it: this is the
exact dependence of the design on its timing.

*Holding FlowMods back.*  `Lag` is the number of batches the queue is ahead of
the instructions.  It starts at 0 and never shrinks.  While it is 0, a FlowMod
that arrives between a timeout and its instruction joins the batch that this
very instruction releases, before the detector has planned for it.  It grows
when a wake-up handles several instructions, and when a FlowMod arrives while the
queue has no batch; from then on `PlannedBeforeRelease` holds for good, at the
price that every further growth holds FlowMods back for one more epoch.  Whatever
the lag, FlowMods arrive in order, once, and none is left out
(`ImplementsChannel`).  The lead does not protect a measurement, though: FlowMods
in flight with one xid share one, and when the second of three is sent it
finishes that of the third, which may be neither released nor filled
(`FaultsExplained`).  In flight together is meant as it says: one of the two was sent
after the other had left the event queue, and before that one was sent (`XidInFlight`).

*Statistics.*  With two switches a younger bucket can be completed before an
older one (`overtaken`).  Until that happens predictions are complete and none
is left behind; after it, a bucket is popped by the answer to another one and
predictions may be made with one bucket missing, or wait for one that is gone.
What holds in all cases: every answer finds its bucket, as `get_bucket` asserts,
and the counters of a path are used in the order they were read.

*Nodes.*  As long as the answers of an epoch come before the next requests
(`~piled`) no erased node is used.  With two buckets on their way an old node may
be marked by the first and erased before the second is processed; TLC reaches
that state, and `FaultsExplained` says that nothing less leads there.  It also says
what it takes to miss a mapping, place by place: a query for a rule that has none,
several nodes of one rule, or a prediction that outlives the mapping of its rule.

*Connections.*  If the callbacks of one connection do not overlap and no lookup
is torn, nothing goes wrong; overlapping callbacks can lose messages or use an
erased entry, at the steps that `fault` names.  Neither link outlives the other.
In the main thread, the maps of `SwitchManager` and the detector agree even when
the switch reconnects early; the process ends only for a message behind its
`CLOSED`, or for a message of a connection whose switch already had one: every
connection that is past its handshake and has no switch (`Stranded`) was turned down
for that reason.

*Paths.*  Whatever order rules and links come and go in, the edges of the graph
carry exactly the packets that the tables hand on, as long as no link is deleted
in front of a rule that was added above two others: `add_in_edges` takes the edge
from one source once for each lower rule that hands something over
(`DependencyGraph.cpp:245`), `deleteLink` calls `deleteEdge` once (line 160), and
that deletes one edge (`Graph.hpp`), so that the other still carries packets over
the link that is gone.  After an instruction was
prepared the trees are those of the graph, and the paths those of the network,
unless a sum of two diffs of one epoch has lost something, and there are two ways
only: an entry of `changed_edges` uses up the removal of its edge
(`EdgeDiff.cpp:14`), and a change of the edge that is the first of `new_edges`
is dropped while the entry keeps its old domain (`move_intersection`).  Without
either of the two conditions TLC finds wrong trees.  The first way
takes a new rule and a new link in one epoch: a path from a port that now has a
link stays for good.  What no order of tasks shows here needs rules that match a
port, or a DELETE of everything, see section 7.

*Header spaces.*  With one element, or without differences, the operators are
those of sets of headers, whatever was called before.  With several elements
that have differences they are not: compaction compares masks only and lets a
mask swallow another although differences take the smaller one's headers from the
larger (`hs.c:275`); the complement of a space that compaction empties is empty
(`hs.c:312`), so is that of a full element with differences (`hs.c:321`), and a
list that covers everything before its last element starts anew (`hs.c:338`).
The conditions in `AlgebraExact` (`Plain`, `Complementable`, `Separable`) name
exactly these.  `hs_rewrite` keeps a difference if it has as many x's as its
element in the rewritten bits, which errs on the side of more headers
(`RewritingKeeps`), as long as the difference lies in the element.  The program
follows paths back one element at a time, and there none of this happens:
`PathDomainExact` holds without a condition but that one.

*Interceptors.*  The switch gets the interceptors of the active paths
(`SwitchFollows`), but two paths that begin with one rule of two outputs have the
same match and the same priority, and the younger interceptor takes the place of
the older.  A rule for one port takes its headers from the rules below it at
every port (`NetworkSpace.cpp:139`), and when it goes only edges of its port are
brought up to date: `EdgesTakeRight` holds for the packets no rule for another
port has ever matched.  A packet is counted by its own path under the conditions
of `CountedByOwnPath`, each of which TLC needs:

  * the protocol is TCP or UDP: all but TCP share a number that becomes UDP on
    the way back, so that the interceptor of *IPv4 without TCP* misses the rest;
  * the rule has one output (see above);
  * the rule lies within or around every rule it has met: the mask of a path
    ignores differences, and where two rules overlap in part `get_priority`
    orders them only if one mask lies in a difference of the other, which a
    subtraction of one bit leaves no trace of;
  * the paths were created from the lowest rule to the highest: `get_priority`
    looks at the interceptors that exist when a path is created, so that one
    recreated below others, after a rule between them went, is on a level with
    theirs.

*What the conditions mean.*  Where the code goes wrong in a known case, the property
names that case in front of its claim: lookups that are torn and callbacks that overlap
(`torn`, `crossed`), requests that pile up or are never answered (`piled`, `overtaken`,
`forgotten`, `Lossy`), diffs that lose an entry and edges met twice (`lossy`, `doubled`),
the conditions of `CountedByOwnPath`.  Such a property shows that nothing else breaks the
claim.  It does not catch the named case itself, which stays as the hazard that
`PROJECT.json` lists with a note.

### Bounds, and why they are enough

* Four FlowMods and three epochs: one FlowMod before, at and after the timeout
  whose batch is released, with two instructions in one wake-up and still one
  epoch to come.  The lag reaches 3.  One FlowMod is of the kind that changes no
  rule (no rule task); the other three have one xid, as those of a controller that
  restarts its xids may.  With two, one lost its measurement to the other and
  nothing more; a third has one that the second may finish in its place.
* Two paths, two switches: answers overtake each other only between switches,
  and two suffice; each path is created and deleted at most once, so that at
  most four requests of path deletion and query mix in up to three buckets.
* Five nodes: a path directly below a sink, two sharing a flow node; a rule with
  one node and a rule with two.  The faults come from the relation of two
  buckets through one node, or two nodes of one rule.
* One connection in `ConnectionManager`: the entries of different connections
  meet only in the torn lookups, which the two threads of one connection show as
  well.  (Two connections with one switch message each were explored once, with
  769,456 states and without a difference.)  Three messages let one be queued,
  one be lost and one be routed.
* `MaxEvents = 1` in `Conversation`: an event is posted without knowledge of the
  main thread's state, so a longer queue only delays its handling; the order of
  events, which is what counts, is the same.
* `path_trees`: of the rules one covers another in part and the table miss in
  part, one has two outputs, and two are behind the link, one above the other, so
  that edges of the link may be there twice.  Two tasks an
  epoch let an entry of one task meet a later one; a `DELETE` of two rules and a
  change of a rule give sums within a task.  With four rules, three tasks an epoch
  were checked (95,627 states), and four tasks and
  a `DELETE` at the second switch simulated (over a million states), without a
  difference.  The third header is one that no rule but the table miss takes.
* `header_space`: three bits tell a difference of one bit from one of two, and
  leave one bit for a mask; two elements with two differences show every fault of
  compaction and complement.  Operands with three elements are among the inputs.
  Larger spaces are cut off by `Small`, before the call, so that no call is
  explored in part.
* `interceptors`: the rules are nested three deep, which it takes to delete a
  middle one, and a fourth overlaps two of them in part.  Two tasks an epoch let
  a rule come and go before an instruction; one instruction may wait while the
  next epoch runs.  14 paths instead of 12 were checked once (74,177 states)
  without a difference.
* `MaxQueued` and `MaxPrepares` cap counters that the code does not cap.

### Fairness

* `WakeLoop`: the main thread and the executor are threads that run (weak
  fairness of `MainThread` and `RunPrepare`), a timed wait ends (weak fairness of
  `Timeout`), and a notified thread is not beaten by the deadline every time
  (strong fairness of `Wake`).  Events come or do not come, no fairness.
* `StatsTimeline`: timeouts recur, so prepare tasks do; switches that are online
  answer.  Only used with `Lossy = FALSE`: the code has no retry, and an answer
  that never comes blocks its bucket for good.
* `ConnectionManager`: callbacks end, the controller accepts the connection the
  proxy opens, and libfluid reports the end of a link the proxy closes.

## 4. What is proved

`EpochPipelineProofs` proves, for every set of FlowMods, every assignment of
xids and any bound on the epochs, from `ConstantsAssumption` alone:

* `TypeCorrect`: `Spec => []TypeOK`
* `InvCorrect`: `Spec => []IInv`
* `PlannedBeforeReleaseHolds`: `Spec => []PlannedBeforeRelease`
* `LagNeverShrinksHolds`: `Spec => LagNeverShrinks`

`PlannedBeforeRelease` compares the first batch with the first instruction, two
queues that are only related through the number of times things were appended
and removed.  The induction needs that relation spelt out.  `IInv` adds

* `EpochsInOrder`: handled < epochs of instructions < epochs of prepare tasks <=
  epoch, each strictly increasing;
* `TasksInOrder`: a prepare task in front of a FlowMod's tasks is no younger
  than the FlowMod;
* `NoTaskLost`: a queued FlowMod is processed or its task is still queued;
* `InstructionsComplete`: an instruction younger than a queued FlowMod was
  prepared with it, the conclusion sought, for all instructions and batches;
* `BatchesInOrder`: a FlowMod in batch `i` of `n` was born at least `n - i`
  epochs ago;
* `EventsUnseen`: what is in the event queue is not in a batch.

A FlowMod in the first batch was born no later than `epoch + 1 - n`; with
`Lag >= 1` that is at most `handled`, which is less than the epoch of the first
instruction, so `InstructionsComplete` applies.  The steps that need care are
`HandleEvent` (new tasks behind all prepare tasks) and `RunPrepare` (an
instruction made from what is known: nothing older is still queued, by
`TasksInOrder`).  `LagNeverShrinks` needs `EpochsInOrder`: handling an instruction
moves `handled` by at least one, which makes up for the batch released.

It also proves what the pipeline promises its neighbours, with the same assumption and
on top of the same invariant:

* `WakeLoopImplemented`: `Spec => ImplementsWakeLoop`.  A turn of either loop maps
  to a turn of the protocol.  The two bounds of `WakeLoop` are met because every
  prepare task has an epoch of its own (`EpochsInOrder` gives an injection into
  `1 .. epoch`) and every queued event is another FlowMod (`EventsUnseen`); the set
  of FlowMods is finite, or the lengths would have no bound.
* `ChannelImplemented`: `Spec => ImplementsChannel`.  What the channel holds is
  `Pending`, the batches one after the other and then the event queue.  An event
  that joins the last batch leaves it as it is, and so does a barrier; a release
  takes the oldest batch off its front, or a prefix of it when the process
  terminates on the way.  This is associativity of concatenation under `FlattenSeq`,
  whose recursion `SequenceFacts` resolves by induction over the number of batches.
* `FaultsExplainedHolds`: `Spec => []FaultsExplained`.  While the process runs, a
  FlowMod has one place in the batches (`OnceQueued`) and none once it is sent
  (`QueuedUnsent`), what is measured is queued (`MeasuredQueued`), what was sent
  before a FlowMod was queued is still sent (`PastSent`), and a queued
  FlowMod without a measurement has lost it to one of its xid that is measured or
  has been sent since it was queued (`Matched`).  Trying to prove an earlier form of `FaultsExplained`, which held
  of two FlowMods with one xid, is what showed the fault of three.

`FlowPredictorProofs` proves about `StatsTimeline`, for any finite set of paths and any
switches and queries (`ConstantsAssumption`), whatever answers are lost:

* `TypeCorrect`, `RequestsAwaitedHolds`, `PredictionsCompleteHolds`,
  `NoneLeftBehindHolds`: the invariants of the run; `CountersForwardHolds`:
  `Spec => CountersForward`.
* `InvCorrect`: the invariant that carries them.  The times of buckets grow along
  the timeline (`TimesInOrder`) and a bucket waits for requests of its own time
  (`ExpectedInTime`), so that an answer has one bucket it can belong to.  No bucket
  is full unless one was overtaken (`NoneFull`): then the bucket that an answer
  completes is the oldest, which gives `PredictionsComplete` and `NoneLeftBehind`.
  `CountersForward` has no such condition: ids grow from bucket to bucket and are
  beyond those that were read (`IdsInOrder`), since buckets are taken oldest first
  whoever completes them.

and about `FlowPredictor`, for any forest of nodes (`NodesAssumption`), any
rules and any edge diffs that keep trees trees:

* `FlowImplementsTimeline`: `FlowSpec => Spec`, so the theorems above hold of the
  predictor with its nodes as well.
* `FlowTypeCorrect`, `NodesKeptHolds`, `MappingsKeptHolds`,
  `FaultsExplainedHolds`: the invariants of the run, the last with a cause for each
  place where something missing is used.
* `FlowInvCorrect`: current nodes form trees (`CurrentRooted`), the nodes have the
  mappings they need (`RulesMapped`), and as long as requests do not pile up there
  is at most one bucket, nothing is marked while it waits, and what it will touch
  is current or old (`BucketKept`).  The last part is the point: marking is done
  when the bucket goes, and erasing with the next instruction.

The way from a node to its sink is defined without recursion, as what every
parent-closed set with the node has in it (`Chain`), which is what makes these
proofs possible; TLC finds the same states with either definition.

`ConnectionManagerProofs` proves, for any number of connections and any bound on
their messages (`MaxSentAssumption`):

* `TypeCorrect`, and `HarmlessAloneHolds`: `Spec => []HarmlessAlone`.
* `InvCorrect`: while `crossed` is false one of the two threads of a connection is
  idle (`OneAtATime`), and while also nothing is torn, the entry that a thread has
  looked up is still in its map at every later step of the callback
  (`EntriesStay`).
* `EventsImplemented`: `Spec => ImplementsEvents`, the refinement of
  `ConnectionEvents`; it does not ask for callbacks that do not overlap, only that
  no lookup was torn and no entry used that is gone.  `EventsInv` carries it:
  - `Shut`: a thread in the callback for a closed link has recorded it as closed;
  - `AcceptInOrder`: an entry waits only until the controller has accepted, and the
    server thread goes on to `connections_` only without it;
  - `StagesInOrder`: nothing is posted of a connection before its `NEW`; one thread
    at a time is about to post its `CLOSED`, the one that took the connection out of
    `connections_`; and behind `CLOSED` one message at most can come, that of the
    other thread, which had looked the connection up before;
  - `NumbersInOrder`: what a side has posted is older than what waits in the queue,
    in order, and that is older than what the thread holds in its hands.

`ConversationProofs` proves, for any connections and switches and an event queue
of any length (`SwitchOfAssumption`, `SidesAssumption`):

* `TypeCorrect`, `RegistryAgreesHolds` and `FaultsExplainedHolds`.
* `InvCorrect`: where the events of a connection stand in the queue with respect
  to each other (`EventsInOrder`: a message of a connection that is not late has a
  handler, or its `NEW` in front and no `CLOSED`), and that a connection past its
  handshake owns its switch or was rejected (`PastHandshake`, which is what
  `FaultsExplained` needs to know of the connections that are `Stranded`).  The run has a queue
  of one event; the proof shows that a longer one makes no difference.
* `DelayedInOrderHolds`: with `OrderInv`, the numbers of one side grow from the last
  one handled through the handshake's queue and the event queue to the last one
  posted (`NumbersGrow`), so that emptying the handshake's queue before the next event
  is what keeps the order.

`SequenceFacts` has what these proofs need of sequences: last elements, appending and
joining, `FlattenSeq`, and induction over numbers and over sequences, stated for a set
(of the numbers or sequences for which something holds) so that the provers can use it.

The proofs also corrected the model: four definitions were `CASE` expressions with
overlapping guards, of which TLC takes the first and the semantics of TLA+ any
(`StageOf`, `TransferTo`, `HeaderOf`, `Compose`); they are conditionals now.

`HeaderSpaceProofs` proves that the header space library does what the rest of the
program takes it to do, for headers of any width, spaces with any number of elements
and differences, and any operands, changers and hops (`WidthAssumption`,
`CallsAreTyped`); the run has three bits and at most two elements with two differences.
It begins with the vectors of `array.c` and the header changers:

* `IsectExact`, `DisjointExact`, `IsSubExact`: intersection and comparison of
  vectors are those of the sets of headers; `NULL` is the empty set only.
* `ComplementExact`: the vectors of `array_cmpl` cover exactly the rest.
* `CoveredExact`, `OneBitSubtractExact`: what `array_one_bit_subtract` concludes
  from a count of 0 and of 1.  The second needs the excess to be counted in flags
  rather than in bits: a count of 1 says that the bit is x in one vector and
  fixed in the other.
* `ComposeExact`: `HeaderChanger::operator*=` is composition, also when a bit is
  set twice.
* `RewriteExact`, `InverseExact`: `apply` gives exactly the images, and `inverse`
  exactly the preimages of a vector that lies in the range of the changer, which
  the intersection with the domain of an edge ensures.
* `KeptDifferenceExact`: the count of x's by which `hs_rewrite` keeps a difference
  is right for a difference within its element, since as many x's are then the
  same x's (a fact about cardinalities).

then come the spaces of `hs.c`, each operation against the set of its headers:

* `AndExact`: the common part of two spaces, whose elements take over the differences
  of both sides cut down to what they share.
* `CompactExact`: compaction adds no header, and a space of one element or without
  differences keeps all (`Plain`).  The three loops change the lists they run over, so
  the proof is about their rounds: of `vec_compact`, that every vector lies in one that
  is still there (`Sweeps`); of the loop over the differences, that what is left of the
  element less what is left of its differences stays the same (`TakesOff`), which is
  `CoveredExact` and `OneBitSubtractExact` round by round; of the loop over the elements,
  that those behind the index and those already done have the headers of the space
  (`TakesOffAll`).
* `CmplExact`, `MinusExact`: complement and difference, for any space that the faults of
  `hs_cmpl` named in section 3 do not meet (`Complementable`, `SubtractExact`).  The loop of
  `hs_cmpl` starts anew when its list is empty; that its list is never empty before the
  end follows from `~CoversEarly`, because a list without differences is empty only if it
  has no headers.

and what the run checks of `HeaderSpaceCalls`, in every state that calls can reach:

* `SpaceTyped`: `Spec => []TypeOK`.  No vector of a space has a z, since every
  intersection that has one is left out.  All else follows from this and the operations.
* `AlgebraHolds`: `Spec => []AlgebraExact`, and `ComparisonsHold`: `Spec =>
  []ComparisonsExact`.  The faults that TLC found are therefore all there are: where none of
  the named conditions fails, no space of any size shows another.
* `RewritingHolds`: `Spec => []RewritingKeeps`, from `KeptDifferenceExact` for every
  difference that the loop of `hs_rewrite` keeps.
* `PathDomainHolds`: `Spec => []PathDomainExact`.  What is taken back over a hop was
  intersected with the domain of its edge, so its masks and differences lie in the range of
  the changer, where `inverse` is exact; the result has one element, of which compaction
  loses nothing.

`PathTreesProofs` proves, for any rules, headers, ports, links and priorities
(`NetworkShape` and `BoundOnTasks` are the only assumptions):

* `DomainsFollowTablesHolds`: `Spec => []DomainsFollowTables`.  After every task the
  domain of a rule is its match without what the rules above it take, although the
  code keeps it by adding and taking away, one rule, one lower rule, one influence
  at a time.
* `TreesInvHolds`, the invariant that carries it.  `Settled` says of the graph between
  two tasks that it is `Tidy` (of the right types, with an edge in the set of ways of
  its two ends only) and that the influences are exactly `Pairs(rules)`: upper and lower
  rules of one table that match a header in common.  Of a rule about to be added or
  taken out the induction needs the same for the others, and how far the loop over the
  upper or the lower rules has got (`TakenFrom`, `GivenOff`).
* `TypesHold`: `Spec => []TypeOK`, which rests on it: an edge diff has edges of the
  graph's types because every task leaves the graph `Tidy`, and the diffs of the tasks
  of one epoch are added up in any order.

* `EdgesFollowTablesHolds`: `PlainNetwork /\ Spec => []EdgesFollowTables`.  Whatever
  rules and links came and went, in whatever order, the edges carry exactly what the
  tables hand on, as long as `deleteEdge` has met no edge twice.

The last one is the longest argument of the project.  `Faithful` is its invariant: `Settled`,
the table misses are in the tables, links join different switches and each other's ends
(`Wired`), and, unless an edge was met twice, `Follows`.  The ways of packets are
first said without headers, as `Arcs` between a vertex, its output and the rules behind it;
`Follows` is `Sound`, every edge is an arc that carries what its source sends and its
destination's domain has, and `Complete`, every arc with a packet in it has its edge.  For
each operation there is a lemma of what it makes of the two:

* a rule comes: its way out adds the arcs from it; each lower rule gives a part of
  each of its edges to the new one.  The loop goes from one lower rule to the next, so the
  invariant of the loop says that the new rule has exactly what the lower rules up to
  here have handed over (`Descending` makes this right: what a lower rule has is what no
  rule above it takes);
* a rule goes: the same backwards, with what has been returned so far; a lower rule may
  have an edge already, which is then brought up to date, or gets one;
* a link comes or goes: in one direction the edges into the sink of a port and out of the
  source of the other are exchanged with those over the link, and then the other way
  round, with a state in between where one direction is done.

`PlainNetwork` is what a network must be for this to hold.  TLC refutes `EdgesFollowTables`
on small networks that violate one of its five conditions and keep the others:

* no rule matches an input port: such a rule takes headers from the rules below it at every
  port of the switch, not only at its own;
* no `DELETE` covers all headers: it removes the table miss, the edges from the
  sources end there, and rules added later find none to share;
* no cable joins two ports of one switch: when such a link comes the rules behind
  it are those of the switch whose sinks are being changed;
* a port has one cable: `Network::deleteLink` erases both ends, and edges over a link
  that was replaced in between would stay;
* a rule does not send to one switch over two cables: the edges over the two have the
  same ends, and deleting one link deletes the edges of the other.

Every loop of the code is a fold of the model, `FoldLeft` over a sequence, which is a
`MapThenFoldSet` over its indices.  `FoldFacts` has the step as a constant operator and
proves by induction over the length what holds of the part folded so far (`FoldSteps`: if
a set of pairs of a sequence and a result is closed under the step, the fold is in it);
each fold of the model has an `INSTANCE` of it.  The library's recursive operators
that choose from a set or cancel edges are out of the prover's reach, which is why
`EdgeDiffs` and `DependencyGraph` have their own by `CHOOSE` (`Select`, `Cancel`,
`Descending`); TLC finds the same states with them.

## 5. What is only model-checked

* Liveness (`EventsServed`, `InstructionsServed`, `QueriesReplied`,
  `ClosedTogether`): out of reach of the prover.
* `TypeOK` of `WakeLoop`.
* `PathsFollowTables` and `TreesOfGraph` of `PathTrees`: recursion over trees, and an
  account of the diff of an epoch as a difference of two graphs.
* All properties of `Interceptors`.  The operations they rest on are proved
  (`HeaderSpaceProofs`); what is left are the graph with input ports, where an edge depends
  on the rules that have ever been in the table (`seen`), and the order in which paths were
  created.

## 6. Findings

* `PerformanceMonitor.cpp:36` asserts `data_filled_`, but a FlowMod that arrives
  between a timeout and its instruction is released, and its measurement
  written, while its fill task may still be queued (run
  `measured_release_assert`).  It takes a measurement file and a lag of 0.
* `ConnectionManager.cpp:262` promises to `Send delayed messages`.  A message
  queued by the server thread after the client thread has found the queue empty
  (line 264) and before it erases the entry (line 276) is erased unsent (run
  `delayed_messages`).

## 7. What is not modelled, and why

* Further tables, groups, and switches that come and go in the network
  (`Detector::addSwitch`, `deleteSwitch`).
* Fields of a match other than type, protocol and source address: they are like
  one of these.  The handling of actions other than outputs, and the dispatcher
  of messages by type.
* The functions of the header space library that nothing in the program calls:
  masks in compaction, shifts, printing and parsing, postponed differences.
* Rules that match an input port in `PathTrees`: such a rule takes its headers
  from the rules below it at every port, and `EdgesFollowTables` could not hold.
  `Interceptors` has one.
* A `DELETE` that covers all headers.  It removes the table miss from the graph,
  and rules added later get no edges from the sources: `EdgesFollowTables` does
  not hold after it.
* Forwarding loops: the code has no bound on the depth of a tree and would not
  return.  The instance has none.
* Time: a timeout may come whenever the main thread waits.
* The exceptions that a rule task throws when its rule or switch is missing
  (`Detector.cpp:150`, `Network.cpp:144`).
* The arithmetic of counters and multipliers in predictions; only their order.
* Rule and link statistics requests: nothing in the program issues them.
* `ConnectionManager`'s sending functions, whose pointer into the map is another
  race of the same kind; corruption of a map by a race.
* Bytes of OpenFlow and LLDP messages, option parsing, logging.
* A query that covers several rules: a query in `FlowPredictor` is about one.

## 8. Plan

Modelled in the order of what depends on what: the pairing of batches and
instructions, the statistics, connections, the graph and the trees for front
tables, header spaces, interceptors.  Left:

1. Switches that come and go in the network (`deleteSwitch`), and a second table
   behind a goto, in `DependencyGraph`; interceptors as the users of the paths
   of `PathTrees`.
2. Sending on a connection (`ConnectionManager.cpp:90`) as a third thread.
3. Barriers and other messages that overtake FlowMods, in `EpochPipeline`.

Proofs: `TreesOfGraph`, from what the diff says of the edges; `SwitchFollows`, on top of what
is proved of header spaces.
