------------------------ MODULE FlowPredictorProofs -------------------------
(***************************************************************************)
(* Proofs about StatsTimeline and about FlowPredictor, which extends it with *)
(* the nodes and the mappings of the rules.                                *)
(*                                                                         *)
(* The timeline, for any number of paths, switches and queries: every answer *)
(* finds its bucket, and the statistics are used epoch by epoch as long as *)
(* no bucket has been overtaken.                                           *)
(***************************************************************************)
EXTENDS FlowPredictor, SequenceFacts, FiniteSetTheorems

(* The buckets of the timeline are those of past epochs, oldest first.     *)
TimesInOrder ==
  /\ \A i \in DOMAIN timeline : timeline[i].time < now
  /\ \A i, j \in DOMAIN timeline : i < j => timeline[i].time < timeline[j].time

(* A bucket waits for requests of its own epoch.                           *)
ExpectedInTime ==
  \A i \in DOMAIN timeline : \A r \in timeline[i].expected : r.time = timeline[i].time

(* While no bucket has been overtaken every bucket waits for something.    *)
NoneFull == ~overtaken => \A i \in DOMAIN timeline : timeline[i].expected # {}

(* Predictions are those of past epochs; one that waits may be of this.    *)
PredictionsInTime ==
  /\ \A a \in ready \cup replied : a.time < now
  /\ \A a \in awaiting : a.time <= now

(* Request ids grow from bucket to bucket, beyond those that were read.    *)
Ids(i) == {timeline[i].requests[k].id : k \in DOMAIN timeline[i].requests}
IdsInOrder ==
  /\ \A p \in Paths : lastRead[p] <= lastId
  /\ \A i \in DOMAIN timeline : \A n \in Ids(i) :
       /\ n <= lastId
       /\ \A p \in Paths : lastRead[p] < n
  /\ \A i, j \in DOMAIN timeline : i < j => \A n \in Ids(i), m \in Ids(j) : n < m

IInv ==
  /\ TypeOK /\ TimesInOrder /\ ExpectedInTime /\ RequestsAwaited
  /\ NoneFull /\ PredictionsInTime /\ NoneLeftBehind /\ PredictionsComplete
  /\ IdsInOrder

----
(* A set of paths as a list.                                               *)
LEMMA PathList ==
  ASSUME NEW S \in SUBSET Paths
  PROVE  SetToSeq(S) \in Seq(S) /\ SetToSeq(S) \in Seq(Paths)
<1> DEFINE n == Cardinality(S)
<1>1. IsFiniteSet(S)
  BY ConstantsAssumption, FS_Subset
<1>2. n \in Nat /\ ExistsBijection(1..n, S)
  BY <1>1, FS_CardinalityType
<1>3. \E f \in [1..n -> S] : IsInjective(f)
  BY <1>2 DEF ExistsBijection, Bijection, Injection
<1>4. SetToSeq(S) \in [1..n -> S]
  BY <1>3 DEF SetToSeq
<1> QED BY <1>2, <1>4

(* What the requests of an instruction look like.                          *)
LEMMA NewRequests ==
  ASSUME TypeOK, NEW stats \in Seq(Paths),
         NEW requests, requests = [i \in DOMAIN stats |->
                        [id |-> lastId + i, time |-> now, path |-> stats[i]]]
  PROVE  /\ requests \in Seq(Request)
         /\ Len(requests) = Len(stats)
         /\ \A i \in DOMAIN stats : requests[i].id = lastId + i /\ requests[i].time = now
         /\ ToSet(requests) \subseteq Request
         /\ \A r \in ToSet(requests) : r.time = now
         /\ stats # <<>> => ToSet(requests) # {}
<1>1. \A i \in DOMAIN stats : requests[i] \in Request
  BY DEF TypeOK, Request
<1>2. requests \in Seq(Request) /\ Len(requests) = Len(stats)
  BY <1>1
<1>3. DOMAIN requests = DOMAIN stats
  OBVIOUS
<1>4. stats # <<>> => 1 \in DOMAIN stats
  OBVIOUS
<1> QED BY <1>1, <1>2, <1>3, <1>4 DEF ToSet

(* An answer is taken off its bucket, and nothing else changes.            *)
LEMMA ReceivedType ==
  ASSUME IInv, NEW r \in network
  PROVE  /\ Received(r) \in Seq(Bucket)
         /\ Received(r) # <<>>
         /\ Len(Received(r)) = Len(timeline)
         /\ \A i \in DOMAIN timeline :
              /\ Received(r)[i].time = timeline[i].time
              /\ Received(r)[i].requests = timeline[i].requests
              /\ Received(r)[i].expected = timeline[i].expected \ {r}
<1>1. timeline \in Seq(Bucket) /\ timeline # <<>>
  BY DEF IInv, TypeOK, RequestsAwaited
<1>2. ASSUME NEW i \in DOMAIN timeline
      PROVE  /\ Received(r)[i] \in Bucket
             /\ Received(r)[i].time = timeline[i].time
             /\ Received(r)[i].requests = timeline[i].requests
             /\ Received(r)[i].expected = timeline[i].expected \ {r}
  <2>1. timeline[i] \in Bucket
    BY <1>1
  <2>2. CASE timeline[i].time = r.time
    BY <2>1, <2>2 DEF Received, Bucket
  <2>3. CASE timeline[i].time # r.time
    <3>1. r \notin timeline[i].expected
      BY <2>3 DEF IInv, ExpectedInTime
    <3> QED BY <2>1, <2>3, <3>1 DEF Received
  <2> QED BY <2>2, <2>3
<1>3. Received(r) \in Seq(Bucket) /\ Len(Received(r)) = Len(timeline)
  BY <1>1, <1>2 DEF Received
<1> QED BY <1>1, <1>2, <1>3

(* With an answer the oldest bucket goes if it is full, and the statistics *)
(* of its requests are used.                                               *)
Shifted(r, k) ==
  /\ timeline' \in Seq(Bucket)
  /\ Len(timeline') = Len(timeline) - k
  /\ \A i \in DOMAIN timeline' :
       /\ i + k \in DOMAIN timeline
       /\ timeline'[i].time = timeline[i + k].time
       /\ timeline'[i].requests = timeline[i + k].requests
       /\ timeline'[i].expected = timeline[i + k].expected \ {r}

LEMMA AnswerKeeps ==
  ASSUME IInv, NEW r \in network, AddRuleStats(r),
         Received(r)[1].expected # {}
  PROVE  Shifted(r, 0) /\ UNCHANGED <<lastRead, awaiting, ready>>
<1>1. timeline' = Received(r) /\ UNCHANGED <<lastRead, awaiting, ready>>
  BY ReceivedType DEF AddRuleStats, PopStatsList, IsFull
<1> QED BY <1>1, ReceivedType DEF Shifted

LEMMA AnswerTakes ==
  ASSUME IInv, NEW r \in network, AddRuleStats(r),
         Received(r)[1].expected = {}
  PROVE  /\ Shifted(r, 1) /\ 1 \in DOMAIN timeline
         /\ ProcessStats(Received(r)[1])
         /\ UpdatePredictions(r.time)
<1>1. /\ timeline' = Tail(Received(r))
      /\ ProcessStats(Received(r)[1])
      /\ UpdatePredictions(r.time)
  BY ReceivedType DEF AddRuleStats, PopStatsList, IsFull
<1> QED BY <1>1, ReceivedType DEF Shifted, IInv, TypeOK

(* The last counter read for a path is one of its bucket.                  *)
LEMMA ProcessStatsReads ==
  ASSUME TypeOK, 1 \in DOMAIN timeline, NEW b \in Bucket, ProcessStats(b)
  PROVE  /\ lastRead' \in [Paths -> Nat]
         /\ \A p \in Paths :
              \/ lastRead'[p] = lastRead[p]
              \/ lastRead'[p] \in {b.requests[k].id : k \in DOMAIN b.requests}
<1> DEFINE Reads(p) == {k \in DOMAIN b.requests : b.requests[k].path = p}
           Value(p) == IF Reads(p) = {} THEN lastRead[p]
                       ELSE b.requests[CHOOSE i \in Reads(p) :
                                         \A j \in Reads(p) : j <= i].id
<1>1. b.requests \in Seq(Request)
  BY DEF Bucket
<1>2. ASSUME NEW p \in Paths
      PROVE  /\ Value(p) \in Nat
             /\ \/ Value(p) = lastRead[p]
                \/ Value(p) \in {b.requests[k].id : k \in DOMAIN b.requests}
  <2>1. CASE Reads(p) = {}
    BY <2>1 DEF TypeOK
  <2>2. CASE Reads(p) # {}
    <3>1. Reads(p) \in SUBSET (1..Len(b.requests)) /\ Len(b.requests) \in Nat
      BY <1>1
    <3>2. \E i \in Reads(p) : \A j \in Reads(p) : j <= i
      BY <2>2, <3>1, LastIndex
    <3>3. PICK k \in DOMAIN b.requests : Value(p) = b.requests[k].id
      BY <2>2, <3>2
    <3>4. b.requests[k] \in Request
      BY <1>1
    <3> QED BY <3>3, <3>4 DEF Request
  <2> QED BY <2>1, <2>2
<1>3. lastRead' = [p \in Paths |-> Value(p)]
  BY DEF ProcessStats
<1> HIDE DEF Value
<1> QED BY <1>2, <1>3

----
LEMMA InitInv == Init => IInv
<1> SUFFICES ASSUME Init PROVE IInv
  OBVIOUS
<1>1. TypeOK
  <2>1. <<>> \in Seq(Paths) /\ <<>> \in Seq(Bucket)
    OBVIOUS
  <2> QED BY <2>1 DEF Init, TypeOK
<1>2. IdsInOrder /\ TimesInOrder /\ ExpectedInTime /\ RequestsAwaited /\ NoneFull
  BY DEF Init, IdsInOrder, TimesInOrder, ExpectedInTime, RequestsAwaited, NoneFull
<1>3. PredictionsInTime /\ NoneLeftBehind /\ PredictionsComplete
  BY DEF Init, PredictionsInTime, NoneLeftBehind, PredictionsComplete
<1> QED BY <1>1, <1>2, <1>3 DEF IInv

(* A query waits for the bucket of its epoch.                              *)
LEMMA PredictFlowStep ==
  ASSUME IInv, NEW q \in Queries, NEW paths \in SUBSET live, PredictFlow(q, paths)
  PROVE  IInv'
<1> USE DEF IInv, PredictFlow, pathVars, requestVars
<1>1. SetToSeq(paths) \in Seq(Paths)
  BY PathList DEF TypeOK
<1>2. TypeOK'
  BY <1>1 DEF TypeOK, Prediction
<1>3. TimesInOrder' /\ ExpectedInTime' /\ RequestsAwaited' /\ NoneFull' /\ IdsInOrder'
  BY DEF TimesInOrder, ExpectedInTime, RequestsAwaited, NoneFull, IdsInOrder, Ids
<1>4. PredictionsInTime' /\ NoneLeftBehind' /\ PredictionsComplete'
  BY DEF TypeOK, PredictionsInTime, NoneLeftBehind, PredictionsComplete
<1> QED BY <1>2, <1>3, <1>4

(* An epoch that requested nothing strands its predictions.                *)
LEMMA RenewStep ==
  ASSUME IInv, RenewEmptyBucket, live' \subseteq Paths, unborn' \subseteq Paths,
         replied' = replied \cup ready, ready' = {}, UNCHANGED <<lastRead, overtaken>>
  PROVE  IInv'
<1> USE DEF IInv, RenewEmptyBucket, frontVars, requestVars
<1>1. TypeOK'
  BY DEF TypeOK
<1>2. TimesInOrder' /\ ExpectedInTime' /\ RequestsAwaited' /\ NoneFull' /\ IdsInOrder'
  BY DEF TimesInOrder, ExpectedInTime, RequestsAwaited, NoneFull, IdsInOrder, Ids
<1>3. PredictionsInTime' /\ NoneLeftBehind' /\ PredictionsComplete'
  BY DEF PredictionsInTime, NoneLeftBehind, PredictionsComplete
<1> QED BY <1>1, <1>2, <1>3

(* The bucket that is sent is the youngest, and asks for something.        *)
LEMMA SendStep ==
  ASSUME IInv, NEW stats \in Seq(Paths), stats # <<>>, SendRequests(stats),
         live' \subseteq Paths, unborn' \subseteq Paths,
         replied' = replied \cup ready, ready' = {}, UNCHANGED <<lastRead, overtaken>>
  PROVE  IInv'
<1> DEFINE requests == [i \in DOMAIN stats |->
                         [id |-> lastId + i, time |-> now, path |-> stats[i]]]
           bucket == [time |-> now, requests |-> requests, expected |-> ToSet(requests)]
<1>1. /\ timeline' = Append(timeline, bucket)
      /\ lastId' = lastId + Len(stats)
      /\ pending' = pending \cup bucket.expected
      /\ network' = network \cup bucket.expected
      /\ now' = now + 1
      /\ requested' = <<>>
      /\ UNCHANGED <<awaiting, forgotten>>
  BY DEF SendRequests
<1>2. /\ requests \in Seq(Request)
      /\ Len(requests) = Len(stats)
      /\ \A i \in DOMAIN stats : requests[i].id = lastId + i
      /\ bucket.expected \subseteq Request
      /\ \A r \in bucket.expected : r.time = now
      /\ bucket.expected # {}
  BY NewRequests DEF IInv
<1>3. bucket \in Bucket
  BY <1>2 DEF Bucket, IInv, TypeOK
<1>4. bucket.time = now /\ bucket.requests = requests
  OBVIOUS
<1> HIDE DEF bucket, requests
<1>a. PICK last \in Nat : last = Len(timeline) + 1
  BY DEF IInv, TypeOK
<1>5. /\ timeline \in Seq(Bucket) /\ now \in Nat /\ lastId \in Nat
      /\ DOMAIN timeline' = DOMAIN timeline \cup {last}
      /\ timeline'[last] = bucket
      /\ \A i \in DOMAIN timeline : timeline'[i] = timeline[i] /\ i < last
  BY <1>1, <1>3, <1>a DEF IInv, TypeOK
<1>6. TypeOK'
  BY <1>1, <1>2, <1>3 DEF IInv, TypeOK
<1>7. TimesInOrder'
  <2>1. \A i \in DOMAIN timeline : timeline[i] \in Bucket
    BY <1>5
  <2>2. \A i \in DOMAIN timeline : timeline[i].time \in Nat
    BY <2>1 DEF Bucket
  <2> QED BY <1>1, <1>4, <1>5, <2>2 DEF IInv, TimesInOrder
<1>8. ExpectedInTime'
  BY <1>2, <1>4, <1>5 DEF IInv, ExpectedInTime
<1>9. RequestsAwaited'
  BY <1>1, <1>2, <1>4, <1>5 DEF IInv, RequestsAwaited
<1>10. NoneFull'
  BY <1>2, <1>5 DEF IInv, NoneFull
<1>11. PredictionsInTime'
  BY <1>1, <1>5 DEF IInv, TypeOK, Prediction, PredictionsInTime
<1>12. NoneLeftBehind'
  <2>1. last \in DOMAIN timeline' /\ timeline'[last].time = now
    BY <1>4, <1>5
  <2>2. ASSUME NEW a \in awaiting, ~overtaken
        PROVE  \E i \in DOMAIN timeline' : timeline'[i].time = a.time
    <3>1. CASE a.time = now
      BY <2>1, <3>1
    <3>2. ASSUME NEW i \in DOMAIN timeline, timeline[i].time = a.time
          PROVE  \E j \in DOMAIN timeline' : timeline'[j].time = a.time
      BY <1>5, <3>2
    <3> QED BY <2>2, <3>1, <3>2 DEF IInv, NoneLeftBehind
  <2> QED BY <1>1, <2>2 DEF NoneLeftBehind
<1>13. PredictionsComplete'
  BY <1>1, <1>4, <1>5 DEF IInv, PredictionsComplete, PredictionsInTime
<1>14. IdsInOrder'
  <2>1. \A n \in Ids(last)' : n > lastId /\ n <= lastId' /\ n \in Nat
    <3>1. Ids(last)' = {requests[k].id : k \in DOMAIN requests}
      <4>1. timeline'[last].requests = requests
        BY <1>4, <1>5
      <4> QED BY <4>1 DEF Ids
    <3>2. \A k \in DOMAIN requests : /\ requests[k].id = lastId + k
                                      /\ k \in 1..Len(stats)
      BY <1>2
    <3>3. Len(stats) \in Nat /\ lastId' = lastId + Len(stats)
      BY <1>1
    <3>4. ASSUME NEW k \in DOMAIN requests
          PROVE  /\ requests[k].id > lastId /\ requests[k].id <= lastId'
                 /\ requests[k].id \in Nat
      BY <1>5, <3>2, <3>3
    <3> QED BY <3>1, <3>4
  <2>2. \A i \in DOMAIN timeline : Ids(i)' = Ids(i)
    BY <1>5 DEF Ids
  <2>3. \A i \in DOMAIN timeline : Ids(i) \subseteq Nat
    <3>1. ASSUME NEW i \in DOMAIN timeline, NEW k \in DOMAIN timeline[i].requests
          PROVE  timeline[i].requests[k].id \in Nat
      <4>0. timeline[i] \in Bucket
        BY <1>5
      <4>1. timeline[i].requests \in Seq(Request)
        BY <4>0 DEF Bucket
      <4>2. timeline[i].requests[k] \in Request
        BY <4>1
      <4> QED BY <4>2 DEF Request
    <3> QED BY <3>1 DEF Ids
  <2>4. lastId' >= lastId
    BY <1>1, <1>5
  <2>5. \A p \in Paths : lastRead'[p] <= lastId' /\ lastRead'[p] = lastRead[p]
                         /\ lastRead[p] \in Nat /\ lastRead[p] <= lastId
    BY <1>1, <1>5, <2>4 DEF IInv, TypeOK, IdsInOrder
  <2>6. \A i \in DOMAIN timeline' : \A n \in Ids(i)' :
          n <= lastId' /\ \A p \in Paths : lastRead'[p] < n
    <3>1. ASSUME NEW i \in DOMAIN timeline, NEW n \in Ids(i)
          PROVE  n <= lastId' /\ \A p \in Paths : lastRead'[p] < n
      BY <1>5, <2>3, <2>4, <2>5, <1>1 DEF IInv, IdsInOrder
    <3>2. ASSUME NEW n \in Ids(last)'
          PROVE  n <= lastId' /\ \A p \in Paths : lastRead'[p] < n
      BY <1>5, <2>1, <2>5
    <3>3. ASSUME NEW i \in DOMAIN timeline'
          PROVE  \/ i = last
                 \/ i \in DOMAIN timeline /\ Ids(i)' = Ids(i)
      BY <1>5, <2>2
    <3> QED BY <3>1, <3>2, <3>3
  <2>7. ASSUME NEW i \in DOMAIN timeline', NEW j \in DOMAIN timeline', i < j,
               NEW n \in Ids(i)', NEW m \in Ids(j)'
        PROVE  n < m
    <3>1. i \in DOMAIN timeline /\ n \in Ids(i)
      BY <1>5, <2>2, <2>7
    <3>2. CASE j = last
      <4>1. m > lastId /\ m \in Nat
        BY <2>1, <3>2
      <4>2. n <= lastId /\ n \in Nat
        BY <2>3, <3>1 DEF IInv, IdsInOrder
      <4> QED BY <1>5, <4>1, <4>2
    <3>3. CASE j # last
      BY <1>5, <2>2, <2>7, <3>1, <3>3 DEF IInv, IdsInOrder
    <3> QED BY <3>2, <3>3
  <2> QED BY <2>5, <2>6, <2>7 DEF IdsInOrder
<1> QED
  BY <1>6, <1>7, <1>8, <1>9, <1>10, <1>11, <1>12, <1>13, <1>14 DEF IInv

LEMMA PrepareStep ==
  ASSUME IInv, NEW deleted \in SUBSET live, NEW created \in SUBSET unborn,
         PrepareInstructions(deleted, created)
  PROVE  IInv'
<1> DEFINE stats == requested \o SetToSeq(deleted)
<1>1. stats \in Seq(Paths)
  BY PathList DEF IInv, TypeOK
<1>2. /\ live' \subseteq Paths /\ unborn' \subseteq Paths
      /\ replied' = replied \cup ready /\ ready' = {}
      /\ UNCHANGED <<lastRead, overtaken>>
  BY DEF PrepareInstructions, IInv, TypeOK
<1>3. CASE stats = <<>>
  BY <1>2, <1>3, RenewStep DEF PrepareInstructions
<1>4. CASE stats # <<>>
  <2>1. SendRequests(stats)
    BY <1>4 DEF PrepareInstructions
  <2> HIDE DEF stats
  <2> QED BY <1>1, <1>2, <1>4, <2>1, SendStep
<1> QED BY <1>3, <1>4

LEMMA LoseStep ==
  ASSUME IInv, NEW r \in network, Lose(r)
  PROVE  IInv'
<1> USE DEF IInv, Lose, pathVars, frontVars, predictionVars
<1>1. TypeOK'
  BY DEF TypeOK
<1>2. TimesInOrder' /\ ExpectedInTime' /\ RequestsAwaited' /\ NoneFull' /\ IdsInOrder'
  BY DEF TimesInOrder, ExpectedInTime, RequestsAwaited, NoneFull, IdsInOrder, Ids
<1>3. PredictionsInTime' /\ NoneLeftBehind' /\ PredictionsComplete'
  BY DEF PredictionsInTime, NoneLeftBehind, PredictionsComplete
<1> QED BY <1>1, <1>2, <1>3

----
(* With an answer the list of the buckets stays in order, and what waits   *)
(* for an answer still has its bucket: the one that goes is empty.         *)
LEMMA ShiftedKeeps ==
  ASSUME IInv, NEW r \in network, AddRuleStats(r), NEW k \in {0, 1}, Shifted(r, k),
         k = 1 => 1 \in DOMAIN timeline /\ timeline[1].expected \ {r} = {}
  PROVE  TimesInOrder' /\ ExpectedInTime' /\ RequestsAwaited'
<1>1. timeline \in Seq(Bucket) /\ timeline' \in Seq(Bucket)
  BY DEF IInv, TypeOK, Shifted
<1>2. now' = now /\ pending' = pending \ {r}
  BY DEF AddRuleStats, frontVars
<1>3. TimesInOrder'
  <2>1. \A i \in DOMAIN timeline' : i + k \in DOMAIN timeline
                                    /\ timeline'[i].time = timeline[i + k].time
    BY DEF Shifted
  <2>2. \A i, j \in DOMAIN timeline' : i < j => i + k < j + k
    BY <1>1
  <2> QED BY <1>2, <2>1, <2>2 DEF IInv, TimesInOrder
<1>4. ExpectedInTime'
  BY DEF IInv, ExpectedInTime, Shifted
<1>5. \A i \in DOMAIN timeline' : timeline'[i].expected \subseteq pending'
  BY <1>2 DEF IInv, RequestsAwaited, Shifted
<1>6. ASSUME NEW s \in pending'
      PROVE  \E i \in DOMAIN timeline' :
               timeline'[i].time = s.time /\ s \in timeline'[i].expected
  <2>1. PICK i \in DOMAIN timeline :
          timeline[i].time = s.time /\ s \in timeline[i].expected /\ s # r
    BY <1>2 DEF IInv, RequestsAwaited
  <2>2. i - k \in DOMAIN timeline' /\ (i - k) + k = i
    BY <1>1, <2>1 DEF Shifted
  <2> QED BY <2>1, <2>2 DEF Shifted
<1> QED BY <1>3, <1>4, <1>5, <1>6 DEF RequestsAwaited

(* Nothing is read out of order when the oldest bucket goes.               *)
LEMMA ShiftedIds ==
  ASSUME IInv, NEW r, NEW k \in {0, 1}, Shifted(r, k), lastId' = lastId,
         lastRead' \in [Paths -> Nat],
         \A p \in Paths : \/ lastRead'[p] = lastRead[p]
                          \/ k = 1 /\ 1 \in DOMAIN timeline /\ lastRead'[p] \in Ids(1)
  PROVE  IdsInOrder' /\ \A p \in Paths : lastRead'[p] >= lastRead[p]
<1>1. timeline \in Seq(Bucket) /\ timeline' \in Seq(Bucket)
      /\ lastRead \in [Paths -> Nat] /\ lastId \in Nat
  BY DEF IInv, TypeOK, Shifted
<1>2. ASSUME NEW i \in DOMAIN timeline'
      PROVE  /\ i + k \in DOMAIN timeline /\ Ids(i)' = Ids(i + k)
             /\ k = 1 => 1 < i + k
  BY <1>1 DEF Shifted, Ids
<1>3. ASSUME NEW p \in Paths
      PROVE  lastRead'[p] <= lastId' /\ lastRead'[p] >= lastRead[p]
  <2>1. CASE lastRead'[p] = lastRead[p]
    BY <1>1, <2>1 DEF IInv, IdsInOrder
  <2>2. CASE 1 \in DOMAIN timeline /\ lastRead'[p] \in Ids(1)
    <3>1. lastRead'[p] <= lastId /\ lastRead[p] < lastRead'[p]
      BY <2>2 DEF IInv, IdsInOrder
    <3> QED BY <1>1, <3>1
  <2> QED BY <2>1, <2>2
<1>4. ASSUME NEW i \in DOMAIN timeline', NEW n \in Ids(i)'
      PROVE  n <= lastId' /\ \A p \in Paths : lastRead'[p] < n
  <2>1. i + k \in DOMAIN timeline /\ n \in Ids(i + k)
    BY <1>2
  <2>2. n <= lastId /\ \A p \in Paths : lastRead[p] < n
    BY <2>1 DEF IInv, IdsInOrder
  <2>3. ASSUME NEW p \in Paths, k = 1, 1 \in DOMAIN timeline, lastRead'[p] \in Ids(1)
        PROVE  lastRead'[p] < n
    BY <1>2, <2>1, <2>3 DEF IInv, IdsInOrder
  <2> QED BY <2>2, <2>3
<1>5. ASSUME NEW i \in DOMAIN timeline', NEW j \in DOMAIN timeline', i < j,
             NEW n \in Ids(i)', NEW m \in Ids(j)'
      PROVE  n < m
  <2>1. /\ i + k \in DOMAIN timeline /\ n \in Ids(i + k)
        /\ j + k \in DOMAIN timeline /\ m \in Ids(j + k)
    BY <1>2
  <2>2. i + k < j + k
    BY <1>1, <1>5
  <2> QED BY <2>1, <2>2 DEF IInv, IdsInOrder
<1> QED BY <1>3, <1>4, <1>5 DEF IdsInOrder

(* An answer that leaves the oldest bucket waiting.                        *)
LEMMA KeptStep ==
  ASSUME IInv, NEW r \in network, AddRuleStats(r), Received(r)[1].expected # {}
  PROVE  IInv' /\ \A p \in Paths : lastRead'[p] >= lastRead[p]
<1>1. Shifted(r, 0) /\ UNCHANGED <<lastRead, awaiting, ready>>
  BY AnswerKeeps
<1>2. /\ network' = network \ {r} /\ pending' = pending \ {r}
      /\ UNCHANGED <<unborn, live, now, requested, lastId, replied, forgotten>>
  BY DEF AddRuleStats, pathVars, frontVars
<1>3. timeline' \in Seq(Bucket) /\ DOMAIN timeline' = DOMAIN timeline
      /\ \A i \in DOMAIN timeline : timeline'[i].time = timeline[i].time
  BY <1>1 DEF Shifted, IInv, TypeOK
<1>4. overtaken' \in BOOLEAN
  BY DEF AddRuleStats, IInv, TypeOK
<1>5. TypeOK'
  BY <1>1, <1>2, <1>3, <1>4 DEF IInv, TypeOK
<1>6. TimesInOrder' /\ ExpectedInTime' /\ RequestsAwaited'
  BY <1>1, ShiftedKeeps
<1>7. IdsInOrder' /\ \A p \in Paths : lastRead'[p] >= lastRead[p]
  BY <1>1, <1>2, <1>5, ShiftedIds DEF TypeOK
<1>8. ~overtaken' => ~overtaken /\ \A i \in DOMAIN timeline : Received(r)[i].expected # {}
  <2>1. \A i \in DOMAIN timeline : Received(r)[i] \in ToSet(Received(r))
    BY ReceivedType DEF ToSet, IInv, TypeOK
  <2>2. Head(Received(r)) = Received(r)[1]
    BY ReceivedType
  <2> QED BY <2>1, <2>2 DEF AddRuleStats, IsFull
<1>9. NoneFull'
  <2>1. \A i \in DOMAIN timeline : timeline'[i].expected = Received(r)[i].expected
    <3>1. \A i \in DOMAIN timeline : i + 0 = i
      BY DEF IInv, TypeOK
    <3>2. \A i \in DOMAIN timeline : timeline'[i].expected = timeline[i].expected \ {r}
      BY <1>1, <1>3, <3>1 DEF Shifted
    <3> QED BY <3>2, ReceivedType
  <2> QED BY <1>3, <1>8, <2>1 DEF NoneFull
<1>10. PredictionsInTime' /\ NoneLeftBehind' /\ PredictionsComplete'
  BY <1>1, <1>2, <1>3, <1>8 DEF IInv, PredictionsInTime, NoneLeftBehind, PredictionsComplete
<1> QED BY <1>5, <1>6, <1>7, <1>9, <1>10 DEF IInv

(* An answer that takes the oldest bucket.                                 *)
LEMMA TakenStep ==
  ASSUME IInv, NEW r \in network, AddRuleStats(r), Received(r)[1].expected = {}
  PROVE  IInv' /\ \A p \in Paths : lastRead'[p] >= lastRead[p]
<1>1. /\ Shifted(r, 1) /\ 1 \in DOMAIN timeline
      /\ ProcessStats(Received(r)[1])
      /\ awaiting' = awaiting \ {a \in awaiting : a.time = r.time}
      /\ ready' = ready \cup {a \in awaiting : a.time = r.time}
  BY AnswerTakes DEF UpdatePredictions
<1>2. /\ network' = network \ {r} /\ pending' = pending \ {r}
      /\ UNCHANGED <<unborn, live, now, requested, lastId, replied, forgotten>>
  BY DEF AddRuleStats, pathVars, frontVars
<1>3. Received(r)[1] \in Bucket /\ Received(r)[1].requests = timeline[1].requests
      /\ timeline[1].expected \ {r} = {}
  BY <1>1, ReceivedType
<1>4. /\ lastRead' \in [Paths -> Nat]
      /\ \A p \in Paths : lastRead'[p] = lastRead[p] \/ lastRead'[p] \in Ids(1)
  BY <1>1, <1>3, ProcessStatsReads DEF IInv, Ids
<1>5. overtaken' = overtaken
  <2>1. IsFull(Head(Received(r)))
    BY ReceivedType DEF IsFull
  <2>2. overtaken \in BOOLEAN
    BY DEF IInv, TypeOK
  <2> QED BY <2>1, <2>2 DEF AddRuleStats
<1>6. TypeOK'
  BY <1>1, <1>2, <1>4, <1>5 DEF IInv, TypeOK, Shifted
<1>7. TimesInOrder' /\ ExpectedInTime' /\ RequestsAwaited'
  BY <1>1, <1>3, ShiftedKeeps
<1>8. IdsInOrder' /\ \A p \in Paths : lastRead'[p] >= lastRead[p]
  BY <1>1, <1>2, <1>4, ShiftedIds
<1>9. ~overtaken => r \in timeline[1].expected /\ r.time = timeline[1].time
  BY <1>1, <1>3 DEF IInv, NoneFull, ExpectedInTime
<1>10. ASSUME ~overtaken, NEW i \in DOMAIN timeline'
       PROVE  /\ timeline'[i].time > r.time
              /\ r \notin timeline[i + 1].expected
              /\ i + 1 \in DOMAIN timeline
  <2>1. i + 1 \in DOMAIN timeline /\ 1 < i + 1 /\ timeline'[i].time = timeline[i + 1].time
    BY <1>1 DEF Shifted
  <2>2. timeline[1].time < timeline[i + 1].time
    BY <1>1, <2>1 DEF IInv, TimesInOrder
  <2>3. timeline[1] \in Bucket /\ timeline[i + 1] \in Bucket
    BY <1>1, <2>1 DEF IInv, TypeOK
  <2>4. timeline[1].time \in Nat /\ timeline[i + 1].time \in Nat
    BY <2>3 DEF Bucket
  <2> QED BY <1>9, <1>10, <2>1, <2>2, <2>4 DEF IInv, ExpectedInTime
<1>11. NoneFull'
  <2>1. ASSUME ~overtaken, NEW i \in DOMAIN timeline' PROVE timeline'[i].expected # {}
    BY <1>1, <1>10, <2>1 DEF Shifted, IInv, NoneFull
  <2> QED BY <1>5, <2>1 DEF NoneFull
<1>12. r.time < now
  BY DEF IInv, TypeOK, RequestsAwaited, TimesInOrder
<1>13. PredictionsInTime'
  BY <1>1, <1>2, <1>12 DEF IInv, PredictionsInTime
<1>14. NoneLeftBehind'
  <2>1. ASSUME ~overtaken, NEW a \in awaiting, a.time # r.time, a.time # now
        PROVE  \E i \in DOMAIN timeline' : timeline'[i].time = a.time
    <3>1. PICK i \in DOMAIN timeline : timeline[i].time = a.time
      BY <2>1 DEF IInv, NoneLeftBehind
    <3>2. i # 1
      BY <1>9, <2>1, <3>1
    <3>3. i - 1 \in DOMAIN timeline' /\ (i - 1) + 1 = i
      BY <1>1, <3>1, <3>2 DEF Shifted, IInv, TypeOK
    <3> QED BY <1>1, <3>1, <3>3 DEF Shifted
  <2> QED BY <1>1, <1>2, <1>5, <2>1 DEF NoneLeftBehind
<1>15. PredictionsComplete'
  <2>1. ASSUME ~overtaken, NEW a \in ready' \cup replied', NEW i \in DOMAIN timeline'
        PROVE  a.time < timeline'[i].time
    <3>1. CASE a.time = r.time
      BY <1>10, <2>1, <3>1 DEF IInv, TypeOK, Request
    <3>2. CASE a \in ready \cup replied
      <4>1. a.time < timeline[i + 1].time
        BY <1>10, <2>1, <3>2 DEF IInv, PredictionsComplete
      <4> QED BY <1>1, <4>1 DEF Shifted
    <3> QED BY <1>1, <1>2, <3>1, <3>2
  <2> QED BY <1>5, <2>1 DEF PredictionsComplete
<1> QED BY <1>6, <1>7, <1>8, <1>11, <1>13, <1>14, <1>15 DEF IInv

(* Every step keeps the invariant, and no counter is read backwards.       *)
LEMMA InvStep ==
  IInv /\ [Next]_vars => IInv' /\ \A p \in Paths : lastRead'[p] >= lastRead[p]
<1> SUFFICES ASSUME IInv, [Next]_vars
             PROVE  IInv' /\ \A p \in Paths : lastRead'[p] >= lastRead[p]
  OBVIOUS
<1> DEFINE Goal == IInv' /\ \A p \in Paths : lastRead'[p] >= lastRead[p]
<1>1. ASSUME lastRead' = lastRead PROVE \A p \in Paths : lastRead'[p] >= lastRead[p]
  BY <1>1 DEF IInv, TypeOK
<1>2. ASSUME NEW q \in Queries, NEW paths \in SUBSET live, PredictFlow(q, paths)
      PROVE  Goal
  BY <1>1, <1>2, PredictFlowStep DEF PredictFlow
<1>3. ASSUME NEW deleted \in SUBSET live, NEW created \in SUBSET unborn,
             PrepareInstructions(deleted, created)
      PROVE  Goal
  BY <1>1, <1>3, PrepareStep DEF PrepareInstructions
<1>4. ASSUME NEW r \in network, AddRuleStats(r) PROVE Goal
  BY <1>4, KeptStep, TakenStep
<1>5. ASSUME NEW r \in network, Lose(r) PROVE Goal
  BY <1>1, <1>5, LoseStep DEF Lose
<1>6. CASE UNCHANGED vars
  <2> USE <1>6 DEF vars, pathVars, frontVars, requestVars, predictionVars, IInv
  <2>1. TypeOK' /\ \A p \in Paths : lastRead'[p] >= lastRead[p]
    BY <1>1 DEF TypeOK
  <2>2. TimesInOrder' /\ ExpectedInTime' /\ RequestsAwaited' /\ NoneFull' /\ IdsInOrder'
    BY DEF TimesInOrder, ExpectedInTime, RequestsAwaited, NoneFull, IdsInOrder, Ids
  <2>3. PredictionsInTime' /\ NoneLeftBehind' /\ PredictionsComplete'
    BY DEF PredictionsInTime, NoneLeftBehind, PredictionsComplete
  <2> QED BY <2>1, <2>2, <2>3
<1> QED BY <1>2, <1>3, <1>4, <1>5, <1>6 DEF Next, Prepare, Answer

(* The inductive invariant holds.                                          *)
THEOREM InvCorrect == Spec => []IInv
BY InitInv, InvStep, PTL DEF Spec

(* Every variable keeps to its type.                                       *)
THEOREM TypeCorrect == Spec => []TypeOK
BY InvCorrect, PTL DEF IInv

(* get_bucket and get_stats never fail their assertions (Stats.cpp),       *)
(* whatever answers are lost and in whatever order they come.              *)
THEOREM RequestsAwaitedHolds == Spec => []RequestsAwaited
BY InvCorrect, PTL DEF IInv

(* No prediction misses a bucket, and none waits for one that is gone, as  *)
(* long as no bucket was completed ahead of an older one.                  *)
THEOREM PredictionsCompleteHolds == Spec => []PredictionsComplete
BY InvCorrect, PTL DEF IInv

(* The same for the predictions that wait (update_predictions).            *)
THEOREM NoneLeftBehindHolds == Spec => []NoneLeftBehind
BY InvCorrect, PTL DEF IInv

(* The counters of a path are used in the order they were read, also when  *)
(* buckets are overtaken (process_path_query).                             *)
THEOREM CountersForwardHolds == Spec => CountersForward
<1>1. IInv /\ [Next]_vars => [\A p \in Paths : lastRead'[p] >= lastRead[p]]_vars
  BY InvStep
<1> QED BY InvCorrect, <1>1, PTL DEF Spec, CountersForward

(***************************************************************************)
(* The flow predictor, for any forest of nodes, any rules, queries and     *)
(* switches: it is a StatsTimeline, so that what is proved above holds of it, *)
(* and no node or mapping that a request needs is gone as long as the      *)
(* answers of an epoch come before the next requests are sent.             *)
(***************************************************************************)

(* The parent of a current node is current.                                *)
CurrentRooted == current \in Rooted

(* The statistics list of this epoch is about live paths.                  *)
RequestedLive == ToSet(requested) \subseteq live

(* A current node has the mapping of its rule, and an old one too, unless  *)
(* another node of the rule has taken it away.                             *)
RulesMapped ==
  /\ \A n \in current : RuleOf[n] \in mapped
  /\ \A n \in old : OnlyNode(n) => RuleOf[n] \in mapped

(* As long as requests do not pile up there is one bucket at most, and     *)
(* while it waits for its answers nothing is marked, and the nodes it will *)
(* touch exist.                                                            *)
BucketKept ==
  ~piled =>
    /\ Len(timeline) <= 1
    /\ timeline # <<>> =>
         marked = {} /\ Touched(timeline[1]) \subseteq current \cup old

FlowInv ==
  /\ FlowTypeOK /\ CurrentRooted /\ RequestedLive /\ RulesMapped
  /\ BucketKept /\ FaultsExplained
----
(* A rooted set holds the chains of its nodes, and the chain of a node has *)
(* the node and its parent.                                                *)
LEMMA ChainIn ==
  ASSUME NEW S \in Rooted, NEW n \in S
  PROVE  n \in Nodes /\ Chain[n] \subseteq S
BY DEF Rooted, Chain

LEMMA ChainHas ==
  ASSUME NEW n \in Nodes
  PROVE  n \in Chain[n] /\ (n \notin Sinks => Parent[n] \in Chain[n])
<1>1. n \in Chain[n]
  BY DEF Chain
<1>2. ASSUME n \notin Sinks PROVE Parent[n] \in Chain[n]
  BY <1>2, NodesAssumption DEF Chain, Rooted
<1> QED BY <1>1, <1>2

(* Every step is one of the timeline, or it is a fault and changes nothing *)
(* of the timeline.                                                        *)
LEMMA FlowStep == [FlowNext]_allVars => [Next]_vars
<1> SUFFICES ASSUME [FlowNext]_allVars PROVE [Next]_vars
  OBVIOUS
<1>1. ASSUME NEW q \in Queries, Query(q) PROVE [Next]_vars
  <2>1. Crossing(RuleOfQuery[q]) \in SUBSET live
    BY DEF Crossing
  <2> QED BY <1>1, <2>1 DEF Query, Fail, Next
<1>2. ASSUME NEW created \in SUBSET Nodes, NEW deleted \in SUBSET Nodes,
             PrepareWith(created, deleted)
      PROVE  [Next]_vars
  BY <1>2 DEF PrepareWith, Fail, Next, Prepare, PrepareInstructions
<1>3. ASSUME NEW r \in network, AnswerWith(r) PROVE [Next]_vars
  BY <1>3 DEF AnswerWith, Fail, Next, Answer
<1> QED BY <1>1, <1>2, <1>3 DEF FlowNext, allVars

LEMMA InitFlow == FlowInit => FlowInv
<1> SUFFICES ASSUME FlowInit PROVE FlowInv
  OBVIOUS
<1>1. FlowTypeOK /\ CurrentRooted
  BY DEF FlowInit, Init, FlowTypeOK, CurrentRooted, Rooted
<1>2. RequestedLive
  BY DEF FlowInit, Init, RequestedLive, ToSet
<1>3. RulesMapped /\ BucketKept /\ FaultsExplained
  BY DEF FlowInit, Init, RulesMapped, BucketKept, FaultsExplained
<1> QED BY <1>1, <1>2, <1>3 DEF FlowInv

(* What a fault leaves behind is what it found.                            *)
LEMMA FailStep ==
  ASSUME FlowInv, NEW reason \in {"query", "clearing", "unmapped", "dangling"}, Fail(reason),
         FaultsExplained'
  PROVE  FlowInv'
<1> USE DEF FlowInv, Fail, vars, pathVars, frontVars, requestVars,
            predictionVars, nodeVars
<1>1. FlowTypeOK' /\ CurrentRooted' /\ RequestedLive'
  BY DEF FlowTypeOK, CurrentRooted, RequestedLive
<1>2. RulesMapped' /\ BucketKept'
  BY DEF RulesMapped, BucketKept
<1> QED BY <1>1, <1>2
----
LEMMA QueryStep ==
  ASSUME IInv, FlowInv, NEW q \in Queries, Query(q)
  PROVE  FlowInv'
<1>1. CASE RuleOfQuery[q] \in mapped
  <2> DEFINE paths == Crossing(RuleOfQuery[q])
  <2>1. /\ fault = "none" /\ paths \subseteq live
        /\ requested' = requested \o SetToSeq(paths)
        /\ UNCHANGED <<live, timeline, nodeVars, fault, piled>>
    BY <1>1 DEF Query, PredictFlow, Running, pathVars, requestVars
  <2>2. RequestedLive'
    <3>1. paths \subseteq Paths /\ requested \in Seq(Paths)
      BY <2>1 DEF IInv, TypeOK
    <3>2. SetToSeq(paths) \in Seq(paths)
      BY <3>1, PathList
    <3>3. \A i \in DOMAIN requested' :
            requested'[i] \in ToSet(requested) \cup paths
      BY <2>1, <3>1, <3>2 DEF ToSet
    <3> QED BY <2>1, <3>3 DEF FlowInv, RequestedLive, ToSet
  <2> HIDE DEF paths
  <2>3. FlowTypeOK' /\ CurrentRooted' /\ RulesMapped' /\ BucketKept'
    BY <2>1 DEF FlowInv, nodeVars, FlowTypeOK, CurrentRooted, RulesMapped, BucketKept
  <2>4. FaultsExplained'
    BY <2>1 DEF FaultsExplained
  <2> QED BY <2>2, <2>3, <2>4 DEF FlowInv
<1>2. CASE RuleOfQuery[q] \notin mapped
  <2>1. q \notin Asked /\ Fail("query")
    BY <1>2 DEF Query
  <2>2. fault' = "query" /\ Asked' = Asked /\ mapped' = mapped
    BY <2>1 DEF Fail, Asked, vars, predictionVars, nodeVars
  <2>3. FaultsExplained'
    BY <1>2, <2>1, <2>2 DEF FaultsExplained
  <2> QED BY <2>1, <2>3, FailStep
<1> QED BY <1>1, <1>2
----
(* An edge diff that is legal and finds its mappings.                      *)
LEMMA PrepareNodes ==
  ASSUME IInv, FlowInv, NEW created \in SUBSET Nodes, NEW deleted \in SUBSET Nodes,
         NEW kept, kept = (current \cup created) \ deleted,
         NEW rules, rules = mapped \cup {RuleOf[n] : n \in created},
         LegalDiff(created, deleted), UpdateEdges(deleted, kept),
         ClearDeletedNodes(kept, rules), UNCHANGED fault, fault = "none",
         PrepareInstructions(deleted \cap live, (created \ deleted) \cap Paths),
         piled' \in BOOLEAN
  PROVE  FlowTypeOK' /\ CurrentRooted' /\ RequestedLive' /\ RulesMapped' /\ FaultsExplained'
<1>1. /\ current' = kept
      /\ old' = (old \cup deleted) \ marked
      /\ marked' = {}
      /\ erased' = erased \cup marked
      /\ mapped' = rules \ ({RuleOf[n] : n \in marked} \ {RuleOf[n] : n \in kept})
  BY DEF UpdateEdges, ClearDeletedNodes, Emptied
<1>2. /\ live = current \cap Paths /\ marked \subseteq old
      /\ current \cap old = {} /\ (current \cup old) \cap erased = {}
      /\ (current \cup old \cup erased) \subseteq Nodes /\ mapped \subseteq Rules
  BY DEF FlowInv, FlowTypeOK
<1>3. /\ created \cap (current \cup old \cup erased) = {}
      /\ deleted \subseteq (current \cup created) \ Sinks
      /\ \A n \in created \ Sinks : Parent[n] \in current \cup created
      /\ \A n \in current \cup created : Chain[n] \cap deleted # {} => n \in deleted
  BY DEF LegalDiff
<1>4. FlowTypeOK'
  <2>1. live' = kept \cap Paths
    BY <1>2 DEF PrepareInstructions
  <2>2. rules \subseteq Rules
    BY <1>2, NodesAssumption
  <2>3. (kept \cup ((old \cup deleted) \ marked)) \cap (erased \cup marked) = {}
    BY <1>2, <1>3
  <2>4. kept \cap ((old \cup deleted) \ marked) = {}
    BY <1>2, <1>3
  <2> QED BY <1>1, <1>2, <2>1, <2>2, <2>3, <2>4 DEF FlowTypeOK
<1>5. CurrentRooted'
  <2>1. current \subseteq Nodes /\ \A n \in current \ Sinks : Parent[n] \in current
    BY DEF FlowInv, CurrentRooted, Rooted
  <2>2. ASSUME NEW n \in kept, n \notin Sinks PROVE Parent[n] \in kept
    <3>1. Parent[n] \in current \cup created
      BY <1>3, <2>1, <2>2
    <3>2. Parent[n] \in Chain[n]
      BY <2>1, <2>2, ChainHas
    <3>3. Parent[n] \notin deleted
      BY <1>3, <2>2, <3>2
    <3> QED BY <3>1, <3>3
  <2> QED BY <1>1, <2>1, <2>2 DEF CurrentRooted, Rooted
<1>6. RequestedLive'
  <2>1. CASE requested \o SetToSeq(deleted \cap live) = <<>>
    <3>1. requested \in Seq(Paths) /\ SetToSeq(deleted \cap live) \in Seq(Paths)
      BY <1>2, PathList DEF IInv, TypeOK
    <3>2. requested = <<>> /\ requested' = requested
      BY <2>1, <3>1 DEF PrepareInstructions, RenewEmptyBucket, frontVars
    <3> QED BY <3>2 DEF RequestedLive, ToSet
  <2>2. CASE requested \o SetToSeq(deleted \cap live) # <<>>
    <3>1. requested' = <<>>
      BY <2>2 DEF PrepareInstructions, SendRequests
    <3> QED BY <3>1 DEF RequestedLive, ToSet
  <2> QED BY <2>1, <2>2
<1>7. RulesMapped'
  <2>1. /\ \A n \in current : RuleOf[n] \in mapped
        /\ \A n \in old : OnlyNode(n) => RuleOf[n] \in mapped
    BY DEF FlowInv, RulesMapped
  <2>2. \A n \in kept : RuleOf[n] \in mapped'
    BY <1>1, <2>1
  <2>3. ASSUME NEW n \in (old \cup deleted) \ marked, OnlyNode(n)
        PROVE  RuleOf[n] \in mapped'
    <3>1. RuleOf[n] \in rules
      BY <1>3, <2>1, <2>3
    <3>2. \A m \in marked : RuleOf[m] # RuleOf[n]
      BY <1>2, <2>3 DEF OnlyNode
    <3> QED BY <1>1, <3>1, <3>2
  <2> QED BY <1>1, <2>2, <2>3 DEF RulesMapped, OnlyNode
<1>8. FaultsExplained'
  BY DEF FaultsExplained
<1> QED BY <1>4, <1>5, <1>6, <1>7, <1>8

(* The bucket that is closed touches nodes that are current until now.     *)
LEMMA PrepareBucket ==
  ASSUME IInv, FlowInv, NEW created \in SUBSET Nodes, NEW deleted \in SUBSET Nodes,
         NEW kept, kept = (current \cup created) \ deleted,
         UpdateEdges(deleted, kept), marked' = {},
         PrepareInstructions(deleted \cap live, (created \ deleted) \cap Paths),
         piled' = (piled \/ Len(timeline') > 1)
  PROVE  BucketKept'
<1> DEFINE stats == requested \o SetToSeq(deleted \cap live)
<1>1. live = current \cap Paths /\ live \subseteq Paths
  BY DEF FlowInv, FlowTypeOK
<1>2. timeline \in Seq(Bucket) /\ requested \in Seq(Paths)
      /\ SetToSeq(deleted \cap live) \in Seq(deleted \cap live)
      /\ SetToSeq(deleted \cap live) \in Seq(Paths)
  BY <1>1, PathList DEF IInv, TypeOK
<1>3. \A i \in DOMAIN stats : stats[i] \in live
  <2>1. \A i \in DOMAIN stats : stats[i] \in ToSet(requested) \cup (deleted \cap live)
    BY <1>2 DEF ToSet
  <2> QED BY <2>1 DEF FlowInv, RequestedLive
<1>4. stats \in Seq(Paths)
  BY <1>2
<1>5. current \cup (old \ marked) \subseteq current' \cup old'
  BY DEF UpdateEdges, FlowInv, FlowTypeOK
<1>6. (IF stats = <<>> THEN RenewEmptyBucket ELSE SendRequests(stats))
  BY DEF PrepareInstructions
<1>7. ~piled' => ~piled /\ ~(Len(timeline') > 1)
  BY Zenon
<1> HIDE DEF stats
<1>8. CASE stats = <<>>
  <2>1. timeline' = timeline
    BY <1>6, <1>8 DEF RenewEmptyBucket, requestVars
  <2>2. ASSUME ~piled', timeline' # <<>>
        PROVE  Touched(timeline'[1]) \subseteq current' \cup old'
    <3>1. Touched(timeline[1]) \subseteq current \cup old /\ marked = {}
      BY <1>7, <2>1, <2>2 DEF FlowInv, BucketKept
    <3> QED BY <1>5, <2>1, <3>1 DEF Touched
  <2>3. ~piled' => Len(timeline') <= 1
    BY <1>2, <1>7, <2>1
  <2> QED BY <2>2, <2>3 DEF BucketKept, Touched
<1>9. CASE stats # <<>>
  <2> DEFINE requests == [i \in DOMAIN stats |->
                            [id |-> lastId + i, time |-> now, path |-> stats[i]]]
             bucket == [time |-> now, requests |-> requests,
                        expected |-> ToSet(requests)]
  <2>1. timeline' = Append(timeline, bucket)
    BY <1>6, <1>9 DEF SendRequests
  <2>2. Touched(bucket) \subseteq current
    <3>1. ASSUME NEW r \in ToSet(requests) PROVE Chain[r.path] \subseteq current
      <4>1. r.path \in current
        BY <1>1, <1>3, <3>1 DEF ToSet
      <4> QED BY <4>1, ChainIn DEF FlowInv, CurrentRooted
    <3> QED BY <3>1 DEF Touched
  <2> HIDE DEF bucket
  <2>3. ASSUME ~piled'
        PROVE  Len(timeline') <= 1 /\ timeline'[1] = bucket
    BY <1>2, <1>7, <2>1, <2>3
  <2>4. ASSUME ~piled' PROVE Touched(timeline'[1]) \subseteq current' \cup old'
    BY <1>5, <2>2, <2>3, <2>4
  <2> QED BY <2>3, <2>4 DEF BucketKept, Touched
<1> QED BY <1>8, <1>9

LEMMA PrepareWithStep ==
  ASSUME IInv, FlowInv, NEW created \in SUBSET Nodes, NEW deleted \in SUBSET Nodes,
         PrepareWith(created, deleted)
  PROVE  FlowInv'
<1> DEFINE kept == (current \cup created) \ deleted
           rules == mapped \cup {RuleOf[n] : n \in created}
<1>1. CASE MissesMapping(kept, rules)
  <2>1. Fail("clearing")
    BY <1>1 DEF PrepareWith
  <2>2. PICK n \in marked : ~OnlyNode(n) \/ RuleOf[n] \notin mapped
    <3>1. marked \subseteq Nodes
      BY DEF FlowInv, FlowTypeOK
    <3> QED BY <1>1, <3>1 DEF MissesMapping, OnlyNode
  <2>3. n \in marked /\ ~OnlyNode(n)
    BY <2>2 DEF FlowInv, FlowTypeOK, RulesMapped
  <2>4. FaultsExplained'
    BY <2>1, <2>3 DEF Fail, FaultsExplained, nodeVars, OnlyNode
  <2> QED BY <2>1, <2>4, FailStep
<1>2. CASE ~MissesMapping(kept, rules)
  <2>1. /\ LegalDiff(created, deleted) /\ fault = "none"
        /\ PrepareInstructions(deleted \cap live, (created \ deleted) \cap Paths)
        /\ UpdateEdges(deleted, kept)
        /\ ClearDeletedNodes(kept, rules)
        /\ piled' = (piled \/ Len(timeline') > 1)
        /\ UNCHANGED fault
    BY <1>2 DEF PrepareWith, Running
  <2>2. piled' \in BOOLEAN
    BY <2>1
  <2>3. marked' = {}
    BY <2>1 DEF ClearDeletedNodes
  <2> HIDE DEF kept, rules
  <2>4. BucketKept'
    BY <2>1, <2>3, PrepareBucket DEF kept
  <2>5. FlowTypeOK' /\ CurrentRooted' /\ RequestedLive' /\ RulesMapped' /\ FaultsExplained'
    BY <2>1, <2>2, PrepareNodes DEF kept, rules
  <2> QED BY <2>4, <2>5 DEF FlowInv
<1> QED BY <1>1, <1>2
----
(* An answer that leaves its bucket waiting, or completes it and marks old *)
(* nodes.                                                                  *)
LEMMA AnswerNodes ==
  ASSUME IInv, FlowInv, NEW r \in network, AddRuleStats(r),
         NEW nodes, MarkOld(nodes), Received(r)[1].expected # {} => nodes = {},
         UNCHANGED <<current, old, erased, mapped, fault, piled>>, fault = "none"
  PROVE  FlowInv'
<1>1. live' = live /\ requested' = requested
  BY DEF AddRuleStats, pathVars, frontVars
<1>2. FlowTypeOK' /\ CurrentRooted' /\ RequestedLive' /\ RulesMapped' /\ FaultsExplained'
  BY <1>1 DEF FlowInv, MarkOld, FlowTypeOK, CurrentRooted, RequestedLive,
              RulesMapped, FaultsExplained
<1>3. timeline \in Seq(Bucket) /\ timeline # <<>>
  BY DEF IInv, TypeOK, RequestsAwaited
<1>4. BucketKept'
  <2>1. CASE Received(r)[1].expected # {}
    <3>1. /\ timeline' \in Seq(Bucket) /\ Len(timeline') = Len(timeline)
          /\ 1 \in DOMAIN timeline' =>
               timeline'[1].requests = timeline[1].requests
      BY <1>3, <2>1, AnswerKeeps DEF Shifted
    <3>2. marked' = marked
      BY <2>1 DEF MarkOld
    <3>3. ASSUME ~piled PROVE Touched(timeline'[1]) = Touched(timeline[1])
      BY <1>3, <3>1 DEF Touched
    <3> QED BY <1>3, <3>1, <3>2, <3>3 DEF FlowInv, BucketKept, Touched
  <2>2. CASE Received(r)[1].expected = {}
    <3>1. timeline' \in Seq(Bucket) /\ Len(timeline') = Len(timeline) - 1
      BY <2>2, AnswerTakes DEF Shifted
    <3>2. ~piled => Len(timeline) <= 1
      BY DEF FlowInv, BucketKept
    <3>3. ~piled => timeline' = <<>>
      BY <1>3, <3>1, <3>2
    <3> QED BY <3>3 DEF BucketKept
  <2> QED BY <2>1, <2>2
<1> QED BY <1>2, <1>4 DEF FlowInv

LEMMA AnswerWithStep ==
  ASSUME IInv, FlowInv, NEW r \in network, AnswerWith(r)
  PROVE  FlowInv'
<1> DEFINE nodes == Touched(Head(timeline))
           predicted == {RuleOfQuery[a.query] : a \in {a \in awaiting : a.time = r.time}}
           needed == {RuleOf[n] : n \in nodes} \cup predicted
<1>1. fault = "none"
  BY DEF AnswerWith, Running
<1>2. timeline \in Seq(Bucket) /\ timeline # <<>>
  BY DEF IInv, TypeOK, RequestsAwaited
<1>3. ~piled => nodes \subseteq current \cup old
  BY <1>2 DEF FlowInv, BucketKept
<1>4. Completes(r) <=> Received(r)[1].expected = {}
  BY ReceivedType DEF Completes, IsFull
<1>5. CASE Completes(r) /\ nodes \cap erased # {}
  <2>1. Fail("dangling")
    BY <1>5 DEF AnswerWith
  <2>2. piled
    BY <1>3, <1>5 DEF FlowInv, FlowTypeOK
  <2>3. FaultsExplained'
    BY <2>1, <2>2 DEF Fail, FaultsExplained
  <2> QED BY <2>1, <2>3, FailStep
<1>6. CASE ~(Completes(r) /\ nodes \cap erased # {})
           /\ Completes(r) /\ ~(needed \subseteq mapped)
  <2>1. Fail("unmapped")
    BY <1>6 DEF AnswerWith
  <2>2. ASSUME ~piled
        PROVE  \/ \E a \in awaiting : RuleOfQuery[a.query] \notin mapped
               \/ \E n \in old : ~OnlyNode(n)
    <3>1. CASE predicted \subseteq mapped
      <4>1. PICK n \in nodes : RuleOf[n] \notin mapped
        BY <1>6, <3>1
      <4> QED BY <1>3, <2>2, <4>1 DEF FlowInv, RulesMapped
    <3>2. CASE ~(predicted \subseteq mapped)
      BY <3>2
    <3> QED BY <3>1, <3>2
  <2> HIDE DEF nodes, predicted, needed
  <2>3. /\ fault' = "unmapped" /\ mapped' = mapped /\ awaiting' = awaiting
        /\ old' = old /\ piled' = piled
    BY <2>1 DEF Fail, vars, predictionVars, nodeVars
  <2>4. FaultsExplained'
    BY <2>2, <2>3 DEF FaultsExplained, OnlyNode
  <2> QED BY <2>1, <2>4, FailStep
<1>7. CASE ~(Completes(r) /\ ~(nodes \cap erased = {} /\ needed \subseteq mapped))
  <2>1. /\ AddRuleStats(r)
        /\ MarkOld(IF Completes(r) THEN nodes ELSE {})
        /\ UNCHANGED <<current, old, erased, mapped, fault, piled>>
    BY <1>7 DEF AnswerWith
  <2> HIDE DEF nodes
  <2> QED BY <1>1, <1>4, <2>1, AnswerNodes
<1> QED BY <1>5, <1>6, <1>7

LEMMA FlowInvStep == IInv /\ FlowInv /\ [FlowNext]_allVars => FlowInv'
<1> SUFFICES ASSUME IInv, FlowInv, [FlowNext]_allVars PROVE FlowInv'
  OBVIOUS
<1>1. ASSUME UNCHANGED allVars PROVE FlowInv'
  <2> USE <1>1 DEF allVars, vars, pathVars, frontVars, requestVars,
                   predictionVars, nodeVars, FlowInv
  <2>1. FlowTypeOK' /\ CurrentRooted' /\ RequestedLive'
    BY DEF FlowTypeOK, CurrentRooted, RequestedLive
  <2>2. RulesMapped' /\ BucketKept'
    BY DEF RulesMapped, BucketKept
  <2>3. FaultsExplained'
    BY DEF FaultsExplained, Asked
  <2> QED BY <2>1, <2>2, <2>3
<1> QED BY <1>1, QueryStep, PrepareWithStep, AnswerWithStep DEF FlowNext
----
(* The flow predictor is a timeline of statistics, with the trees as the   *)
(* source of what it deletes, creates and asks for.                        *)
THEOREM FlowImplementsTimeline == FlowSpec => Spec
<1>1. FlowInit => Init
  BY DEF FlowInit
<1> QED BY <1>1, FlowStep, PTL DEF FlowSpec, Spec

(* The inductive invariant holds.                                          *)
THEOREM FlowInvCorrect == FlowSpec => []FlowInv
<1>1. FlowSpec => []IInv
  BY FlowImplementsTimeline, InvCorrect, PTL
<1> QED BY <1>1, InitFlow, FlowInvStep, PTL DEF FlowSpec

(* The nodes and the timeline agree on the paths there are.                *)
THEOREM FlowTypeCorrect == FlowSpec => []FlowTypeOK
BY FlowInvCorrect, PTL DEF FlowInv

(* clearDeletedNodes erases no node that a bucket will still touch, unless *)
(* requests of two epochs were on their way at once.                       *)
THEOREM NodesKeptHolds == FlowSpec => []NodesKept
<1>1. IInv /\ FlowInv => NodesKept
  <2> SUFFICES ASSUME IInv, FlowInv, ~piled, NEW i \in DOMAIN timeline
               PROVE  Touched(timeline[i]) \cap erased = {}
    BY DEF NodesKept
  <2>1. timeline \in Seq(Bucket) /\ Len(timeline) <= 1
    BY DEF IInv, TypeOK, FlowInv, BucketKept
  <2>2. i = 1 /\ timeline # <<>>
    BY <2>1
  <2> QED BY <2>2 DEF FlowInv, BucketKept, FlowTypeOK
<1> QED BY <1>1, FlowImplementsTimeline, InvCorrect, FlowInvCorrect, PTL

(* Neither does it drop the mapping of a rule that a bucket will touch, if *)
(* the rule has one node in all.                                           *)
THEOREM MappingsKeptHolds == FlowSpec => []MappingsKept
<1>1. IInv /\ FlowInv => MappingsKept
  <2> SUFFICES ASSUME IInv, FlowInv, ~piled, NEW i \in DOMAIN timeline,
                      NEW n \in Touched(timeline[i]), OnlyNode(n)
               PROVE  RuleOf[n] \in mapped
    BY DEF MappingsKept
  <2>1. timeline \in Seq(Bucket) /\ Len(timeline) <= 1
    BY DEF IInv, TypeOK, FlowInv, BucketKept
  <2>2. i = 1 /\ timeline # <<>>
    BY <2>1
  <2> QED BY <2>2 DEF FlowInv, BucketKept, RulesMapped
<1> QED BY <1>1, FlowImplementsTimeline, InvCorrect, FlowInvCorrect, PTL

(* Undefined behaviour and exceptions of the path scan have the causes     *)
(* named for each place: requests that pile up, queries and predictions of *)
(* rules without a mapping, and rules with several nodes.                  *)
THEOREM FaultsExplainedHolds == FlowSpec => []FaultsExplained
BY FlowInvCorrect, PTL DEF FlowInv
====
