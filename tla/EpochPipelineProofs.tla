------------------------ MODULE EpochPipelineProofs -------------------------
(***************************************************************************)
(* Proofs about EpochPipeline, for any FlowMods, any xids and any number of *)
(* epochs: its types, the lag between the queue with barriers and the      *)
(* instructions, and what it promises its neighbours: what it takes for the *)
(* process to terminate while it releases a batch, that the main thread    *)
(* takes part in the wake-up protocol of WakeLoop, and that the switches see *)
(* the FIFO channel of FlowModChannel.                                     *)
(***************************************************************************)
EXTENDS EpochPipeline, SequenceFacts, FiniteSetTheorems

(* A batch that is sent leaves well-typed variables, however it ends.      *)
LEMMA SendBatchType ==
  ASSUME TypeOK, NEW batch \in Seq(Mods), SendBatch(batch)
  PROVE  /\ sent' \in Seq(Mods)
         /\ measured' \subseteq Mods
         /\ fault' \in {"none", "unmatched", "unfilled"}
<1> DEFINE throwing == {i \in DOMAIN batch : FinishThrows(batch, i)}
<1>1. CASE throwing # {}
  <2>1. PICK i \in throwing :
          /\ sent' = sent \o SubSeq(batch, 1, i - 1)
          /\ measured' = measured \ Finished(SubSeq(batch, 1, i - 1))
          /\ fault' = "unmatched"
    BY <1>1 DEF SendBatch
  <2>2. SubSeq(batch, 1, i - 1) \in Seq(Mods)
    OBVIOUS
  <2>3. sent' \in Seq(Mods)
    BY <2>1, <2>2 DEF TypeOK
  <2>4. measured' \subseteq Mods
    BY <2>1 DEF TypeOK
  <2> QED
    BY <2>1, <2>3, <2>4
<1>2. CASE throwing = {}
  <2>1. /\ sent' = sent \o batch
        /\ measured' = measured \ Finished(batch)
        /\ fault' = IF Saving /\ ~(Finished(batch) \subseteq filled)
                    THEN "unfilled"
                    ELSE "none"
    BY <1>2, Zenon DEF SendBatch
  <2>4. fault' \in {"none", "unfilled"}
    BY <2>1
  <2>2. sent' \in Seq(Mods)
    BY <2>1 DEF TypeOK
  <2>3. measured' \subseteq Mods
    BY <2>1 DEF TypeOK
  <2> QED
    BY <2>2, <2>3, <2>4
<1> QED
  BY <1>1, <1>2

(* Each action keeps the types. *)
LEMMA TypeStep == TypeOK /\ [Next]_vars => TypeOK'
<1> SUFFICES ASSUME TypeOK, [Next]_vars PROVE TypeOK'
  OBVIOUS
<1> USE DEF TypeOK, queueVars, detectorVars, historyVars, mainVars
<1>1. CASE EnterWait
  BY <1>1 DEF EnterWait
<1>2. CASE Wake
  BY <1>2 DEF Wake
<1>3. CASE Timeout
  <2>1. batches' \in Seq(Seq(Mods))
    BY <1>3 DEF Timeout, AddBarrier
  <2>2. tasks' \in Seq(Task)
    BY <1>3 DEF Timeout, PrepareTask, Task
  <2> QED
    BY <1>3, <2>1, <2>2 DEF Timeout
<1>4. CASE Release
  <2>1. /\ batches' \in Seq(Seq(Mods))
        /\ sent' \in Seq(Mods)
        /\ measured' \subseteq Mods
        /\ fault' \in {"none", "unmatched", "unfilled"}
    <3>1. CASE batches = <<>>
      BY <1>4, <3>1 DEF Release, FlushPipeline
    <3>2. CASE batches # <<>>
      <4>1. Head(batches) \in Seq(Mods) /\ Tail(batches) \in Seq(Seq(Mods))
        BY <3>2
      <4>2. batches' = Tail(batches) /\ SendBatch(Head(batches))
        BY <1>4, <3>2 DEF Release, FlushPipeline
      <4> QED
        BY <4>1, <4>2, SendBatchType
    <3> QED
      BY <3>1, <3>2
  <2>2. instructions' \in Seq(Instruction) /\ handled' \in Nat
    <3>1. Head(instructions) \in Instruction /\ Tail(instructions) \in Seq(Instruction)
      BY <1>4 DEF Release
    <3> QED
      BY <1>4, <3>1 DEF Release, TakeInstruction, Instruction
  <2> QED
    BY <1>4, <2>1, <2>2 DEF Release
<1>5. CASE HandleInstruction
  <2>1. Head(instructions) \in Instruction /\ Tail(instructions) \in Seq(Instruction)
    BY <1>5 DEF HandleInstruction
  <2> QED
    BY <1>5, <2>1 DEF HandleInstruction, TakeInstruction, Instruction
<1>6. CASE InstructionsDone
  BY <1>6 DEF InstructionsDone
<1>7. CASE HandleEvent
  <2> DEFINE m == Head(events)
  <2>1. m \in Mods /\ Tail(events) \in Seq(Mods)
    BY <1>7 DEF HandleEvent
  <2>2. tasks' \in Seq(Task)
    <3>1. FillTask(m) \in Task /\ RuleTask(m) \in Task
      BY <2>1 DEF FillTask, RuleTask, Task
    <3>2. ModTasks(m) \in Seq(Task)
      BY <3>1 DEF ModTasks
    <3> QED
      BY <1>7, <3>2 DEF HandleEvent
  <2>3. batches' \in Seq(Seq(Mods))
    <3>1. CASE batches = <<>>
      BY <1>7, <2>1, <3>1 DEF HandleEvent, Enqueue
    <3>2. CASE batches # <<>>
      <4>1. batches[Len(batches)] \in Seq(Mods)
        BY <3>2
      <4>2. Append(batches[Len(batches)], m) \in Seq(Mods)
        BY <2>1, <4>1
      <4> QED
        BY <1>7, <3>2, <4>2 DEF HandleEvent, Enqueue
    <3> QED
      BY <3>1, <3>2
  <2>4. measured' \subseteq Mods
    BY <1>7, <2>1 DEF HandleEvent, StartMeasurement
  <2>5. past' \in [Mods -> SUBSET Mods]
    <3>1. ToSet(sent) \in SUBSET Mods
      BY DEF ToSet
    <3> QED
      BY <1>7, <2>1, <3>1 DEF HandleEvent
  <2> QED
    BY <1>7, <2>1, <2>2, <2>3, <2>4, <2>5 DEF HandleEvent
<1>8. CASE EventsDone
  BY <1>8 DEF EventsDone
<1>9. ASSUME NEW m \in Mods, PushEvent(m) PROVE TypeOK'
  BY <1>9 DEF PushEvent, Notify
<1>10. CASE RunFill
  <2>1. Head(tasks) \in Task /\ Tail(tasks) \in Seq(Task)
    BY <1>10 DEF RunFill
  <2> QED
    BY <1>10, <2>1 DEF RunFill, Task
<1>11. CASE RunRule
  <2>1. Head(tasks) \in Task /\ Tail(tasks) \in Seq(Task)
    BY <1>11 DEF RunRule
  <2> QED
    BY <1>11, <2>1 DEF RunRule, Task
<1>12. CASE RunPrepare
  <2>1. Head(tasks) \in Task /\ Tail(tasks) \in Seq(Task)
    BY <1>12 DEF RunPrepare
  <2>2. Head(tasks).epoch \in Nat
    BY <1>12, <2>1 DEF RunPrepare, Task
  <2>3. instructions' \in Seq(Instruction)
    BY <1>12, <2>2 DEF RunPrepare, Instruction
  <2> QED
    BY <1>12, <2>1, <2>3 DEF RunPrepare, Notify
<1>13. CASE UNCHANGED vars
  BY <1>13 DEF vars
<1> QED
  BY <1>1, <1>2, <1>3, <1>4, <1>5, <1>6, <1>7, <1>8, <1>9, <1>10, <1>11,
     <1>12, <1>13 DEF Next

(* Every queue of the pipeline keeps to its type: THEOREM of the invariant *)
(* TypeOK, for every set of messages and every bound on the epochs.        *)
THEOREM TypeCorrect == Spec => []TypeOK
<1>1. Init => TypeOK
  <2> SUFFICES ASSUME Init PROVE TypeOK
    OBVIOUS
  <2>1. /\ events \in Seq(Mods) /\ batches \in Seq(Seq(Mods))
        /\ tasks \in Seq(Task) /\ instructions \in Seq(Instruction)
        /\ sent \in Seq(Mods)
    BY DEF Init
  <2>2. born \in [Mods -> Nat]
    BY DEF Init
  <2> QED
    BY <2>1, <2>2 DEF Init, TypeOK
<1>2. TypeOK /\ [Next]_vars => TypeOK'
  BY TypeStep
<1> QED
  BY <1>1, <1>2, PTL DEF Spec
----
(* The inductive invariant, one lemma per action that can disturb it.      *)

(* The main thread moving on, and stuttering, disturb no part of it.       *)
LEMMA IdleStep ==
  ASSUME IInv, TypeOK', UNCHANGED <<queueVars, detectorVars, historyVars>>
  PROVE  IInv'
BY DEF IInv, EpochsInOrder, TasksInOrder, NoTaskLost, InstructionsComplete,
       BatchesInOrder, EventsUnseen, IsPrepare, InBatches, queueVars,
       detectorVars, historyVars

(* What the types say about the elements of the two queues of the detector *)
(* and about the batches.                                                  *)
LEMMA ElementTypes ==
  ASSUME TypeOK
  PROVE  /\ \A k \in DOMAIN instructions : instructions[k].epoch \in Nat
         /\ \A i \in DOMAIN tasks :
              IF IsPrepare(i) THEN tasks[i].epoch \in Nat
                              ELSE tasks[i].mod \in Mods
         /\ \A i \in DOMAIN tasks : \A j \in 1 .. i - 1 : j \in DOMAIN tasks
         /\ \A k \in DOMAIN instructions :
              \A l \in 1 .. k - 1 : l \in DOMAIN instructions
         /\ Len(batches) \in Nat /\ DOMAIN batches = 1 .. Len(batches)
         /\ \A i \in DOMAIN batches : ToSet(batches[i]) \subseteq Mods
         /\ \A m : InBatches(m) => m \in Mods
<1>1. ASSUME NEW k \in DOMAIN instructions PROVE instructions[k].epoch \in Nat
  <2>1. instructions[k] \in Instruction
    BY DEF TypeOK
  <2> QED
    BY <2>1 DEF Instruction
<1>2. ASSUME NEW i \in DOMAIN tasks
      PROVE  IF IsPrepare(i) THEN tasks[i].epoch \in Nat
                             ELSE tasks[i].mod \in Mods
  <2>1. tasks[i] \in Task
    BY DEF TypeOK
  <2>2. CASE tasks[i] \in [op : {"fill", "rule"}, mod : Mods]
    BY <2>2 DEF IsPrepare
  <2>3. CASE tasks[i] \in [op : {"prepare"}, epoch : Nat]
    BY <2>3 DEF IsPrepare
  <2> QED
    BY <2>1, <2>2, <2>3 DEF Task
<1>3. \A i \in DOMAIN tasks : \A j \in 1 .. i - 1 : j \in DOMAIN tasks
  BY DEF TypeOK
<1>4. \A k \in DOMAIN instructions :
        \A l \in 1 .. k - 1 : l \in DOMAIN instructions
  BY DEF TypeOK
<1>5. ASSUME NEW i \in DOMAIN batches PROVE ToSet(batches[i]) \subseteq Mods
  <2>1. batches[i] \in Seq(Mods)
    BY DEF TypeOK
  <2> QED
    BY <2>1 DEF ToSet
<1>6. Len(batches) \in Nat /\ DOMAIN batches = 1 .. Len(batches)
  BY DEF TypeOK
<1> QED
  BY <1>1, <1>2, <1>3, <1>4, <1>5, <1>6 DEF InBatches

(* A timeout opens a batch for the new epoch and puts its prepare task     *)
(* behind all the others.                                                  *)
LEMMA TimeoutStep == ASSUME IInv, TypeOK', Timeout PROVE IInv'
<1> USE DEF IInv
<1>1. /\ batches' = Append(batches, <<>>)
      /\ tasks' = Append(tasks, PrepareTask(epoch + 1))
      /\ epoch' = epoch + 1
      /\ epoch \in Nat
      /\ UNCHANGED <<events, instructions, filled, known, handled, born>>
  BY DEF Timeout, AddBarrier, detectorVars, TypeOK
<1>2. /\ Len(batches') = Len(batches) + 1
      /\ Len(batches) \in Nat
      /\ \A i \in DOMAIN batches : i \in DOMAIN batches' /\ batches'[i] = batches[i]
      /\ \A i \in DOMAIN batches' : i \in DOMAIN batches \/ ToSet(batches'[i]) = {}
  <2>1. batches \in Seq(Seq(Mods)) /\ <<>> \in Seq(Mods)
    BY DEF TypeOK
  <2>2. ToSet(<<>>) = {}
    BY DEF ToSet
  <2> HIDE DEF IInv
  <2> QED
    BY <1>1, <2>1, <2>2, AppendFacts
<1>3. /\ Len(tasks) \in Nat /\ DOMAIN tasks = 1 .. Len(tasks)
      /\ \A i \in DOMAIN tasks : tasks'[i] = tasks[i] /\ i \in DOMAIN tasks'
      /\ \A i \in DOMAIN tasks' : i \in DOMAIN tasks \/ i = Len(tasks) + 1
      /\ tasks'[Len(tasks) + 1] = PrepareTask(epoch + 1)
  <2>1. tasks \in Seq(Task) /\ PrepareTask(epoch + 1) \in Task
    BY <1>1 DEF TypeOK, PrepareTask, Task
  <2> QED
    BY <1>1, <2>1, AppendFacts
<1>4. \A m : InBatches(m)' <=> InBatches(m)
  BY <1>2 DEF InBatches
<1>5. \A k \in DOMAIN instructions :
        instructions[k].epoch \in Nat /\ instructions[k].epoch <= epoch
  BY ElementTypes DEF EpochsInOrder
<1>6. EpochsInOrder'
  <2>1. ASSUME NEW i \in DOMAIN tasks', IsPrepare(i)'
        PROVE  /\ handled' < tasks'[i].epoch
               /\ tasks'[i].epoch <= epoch'
               /\ \A k \in DOMAIN instructions : instructions[k].epoch < tasks'[i].epoch
               /\ \A j \in 1 .. i - 1 :
                    IsPrepare(j)' => tasks'[j].epoch < tasks'[i].epoch
    <3>1. CASE i \in DOMAIN tasks
      <4>1. \A j \in 1 .. i - 1 : j \in DOMAIN tasks
        BY <3>1, ElementTypes
      <4>2. IsPrepare(i) /\ tasks[i].epoch \in Nat
        BY <1>3, <2>1, <3>1, ElementTypes DEF IsPrepare
      <4>3. tasks'[i] = tasks[i]
        BY <1>3, <3>1
      <4>4. /\ handled < tasks[i].epoch /\ tasks[i].epoch <= epoch
            /\ \A k \in DOMAIN instructions : instructions[k].epoch < tasks[i].epoch
            /\ \A j \in 1 .. i - 1 : IsPrepare(j) => tasks[j].epoch < tasks[i].epoch
        BY <3>1, <4>2 DEF EpochsInOrder
      <4>5. \A j \in 1 .. i - 1 :
              IsPrepare(j)' => tasks'[j].epoch < tasks'[i].epoch
        BY <1>3, <4>1, <4>3, <4>4 DEF IsPrepare
      <4> QED
        BY <1>1, <4>2, <4>3, <4>4, <4>5
    <3>2. CASE i = Len(tasks) + 1
      <4>1. \A j \in 1 .. i - 1 : j \in DOMAIN tasks
        BY <1>3, <3>2
      <4>2. tasks'[i].epoch = epoch + 1
        BY <1>3, <3>2 DEF PrepareTask
      <4>3. \A j \in DOMAIN tasks : IsPrepare(j) =>
              tasks[j].epoch \in Nat /\ tasks[j].epoch <= epoch
        BY ElementTypes DEF EpochsInOrder
      <4>4. handled \in Nat /\ handled <= epoch
        BY DEF EpochsInOrder, TypeOK
      <4>5. \A j \in 1 .. i - 1 :
              IsPrepare(j)' => tasks'[j].epoch < tasks'[i].epoch
        BY <1>1, <1>3, <4>1, <4>2, <4>3 DEF IsPrepare
      <4>6. \A k \in DOMAIN instructions : instructions[k].epoch < tasks'[i].epoch
        BY <1>1, <1>5, <4>2
      <4> QED
        BY <1>1, <4>2, <4>4, <4>5, <4>6
    <3> QED
      BY <1>3, <3>1, <3>2
  <2> QED
    BY <1>1, <1>5, <2>1 DEF EpochsInOrder, TypeOK
<1>7. TasksInOrder'
  <2> SUFFICES ASSUME NEW i \in DOMAIN tasks', NEW j \in 1 .. i - 1,
                      ~IsPrepare(i)', IsPrepare(j)'
               PROVE  tasks'[j].epoch <= born'[tasks'[i].mod]
    BY DEF TasksInOrder
  <2>1. i \in DOMAIN tasks
    BY <1>3 DEF IsPrepare, PrepareTask
  <2>2. j \in DOMAIN tasks
    BY <2>1, ElementTypes
  <2> QED
    BY <1>1, <1>3, <2>1, <2>2 DEF TasksInOrder, IsPrepare
<1>8. NoTaskLost'
  BY <1>1, <1>3, <1>4 DEF NoTaskLost
<1>9. InstructionsComplete'
  BY <1>1, <1>4 DEF InstructionsComplete
<1>10. BatchesInOrder'
  <2> SUFFICES ASSUME NEW i \in DOMAIN batches', NEW m \in ToSet(batches'[i])
               PROVE  born'[m] + Len(batches') <= epoch' + i
    BY DEF BatchesInOrder
  <2>1. i \in DOMAIN batches /\ batches'[i] = batches[i]
    BY <1>2
  <2>2. m \in Mods /\ i \in Nat
    BY <2>1, ElementTypes
  <2>3. born[m] \in Nat
    BY <2>2 DEF TypeOK
  <2>4. born[m] + Len(batches) <= epoch + i
    BY <2>1 DEF BatchesInOrder
  <2> QED
    BY <1>1, <1>2, <2>1, <2>2, <2>3, <2>4
<1>11. EventsUnseen'
  BY <1>1, <1>4 DEF EventsUnseen
<1> QED
  BY <1>6, <1>7, <1>8, <1>9, <1>10, <1>11

(* Taking the head of the queue with barriers, when there is one, keeps    *)
(* the batches in order and puts no FlowMod into a batch.                  *)
LEMMA DropBatch ==
  ASSUME TypeOK, BatchesInOrder, UNCHANGED <<epoch, born>>,
         batches' = batches \/ (batches # <<>> /\ batches' = Tail(batches))
  PROVE  /\ BatchesInOrder'
         /\ \A m : InBatches(m)' => InBatches(m)
<1>1. CASE batches' = batches
  BY <1>1 DEF BatchesInOrder, InBatches
<1>2. CASE batches # <<>> /\ batches' = Tail(batches)
  <2>1. /\ Len(batches') = Len(batches) - 1
        /\ \A i \in DOMAIN batches' :
             i + 1 \in DOMAIN batches /\ batches'[i] = batches[i + 1]
    BY <1>2 DEF TypeOK
  <2>2. ASSUME NEW i \in DOMAIN batches', NEW m \in ToSet(batches'[i])
        PROVE  born'[m] + Len(batches') <= epoch' + i
    <3>1. m \in Mods /\ i \in Nat
      BY <2>1, <2>2, <1>2 DEF ToSet, TypeOK
    <3>2. born[m] + Len(batches) <= epoch + (i + 1)
      BY <2>1, <2>2 DEF BatchesInOrder
    <3>3. Len(batches) \in Nat /\ born[m] \in Nat /\ epoch \in Nat
      BY <3>1 DEF TypeOK
    <3> QED
      BY <2>1, <3>1, <3>2, <3>3
  <2> QED
    BY <2>1, <2>2 DEF BatchesInOrder, InBatches
<1> QED
  BY <1>1, <1>2

(* Taking the head of the instruction queue, with or without a batch.      *)
LEMMA TakeStep ==
  ASSUME IInv, TypeOK',
         \/ instructions # <<>> /\ TakeInstruction
         \/ UNCHANGED <<instructions, handled>>,
         batches' = batches \/ (batches # <<>> /\ batches' = Tail(batches)),
         UNCHANGED <<events, tasks, detectorVars, epoch, born>>
  PROVE  IInv'
<1> USE DEF IInv, detectorVars
<1>1. BatchesInOrder' /\ \A m : InBatches(m)' => InBatches(m)
  BY DropBatch
<1>2. /\ handled <= handled'
      /\ \A k \in DOMAIN instructions' : \E d \in {0, 1} :
           /\ k + d \in DOMAIN instructions
           /\ instructions'[k] = instructions[k + d]
           /\ handled' < instructions[k + d].epoch
           /\ \A l \in 1 .. k - 1 : instructions'[l] = instructions[l + d]
      /\ handled' <= epoch
      /\ \A i \in DOMAIN tasks : IsPrepare(i) => handled' < tasks[i].epoch
  <2>1. CASE instructions # <<>> /\ TakeInstruction
    <3>1. 1 \in DOMAIN instructions /\ handled' = instructions[1].epoch
      BY <2>1 DEF TakeInstruction, TypeOK
    <3>2. \A k \in DOMAIN instructions' :
             k + 1 \in DOMAIN instructions /\ instructions'[k] = instructions[k + 1]
      BY <2>1 DEF TakeInstruction, TypeOK
    <3>3. \A k \in DOMAIN instructions' : 1 \in 1 .. (k + 1) - 1
      BY <2>1 DEF TakeInstruction, TypeOK
    <3>4. \A k \in DOMAIN instructions' : handled' < instructions[k + 1].epoch
      BY <3>1, <3>2, <3>3 DEF EpochsInOrder
    <3>5. \A k \in DOMAIN instructions' : \A l \in 1 .. k - 1 : l \in DOMAIN instructions'
      BY DEF TypeOK
    <3>6. /\ handled <= handled' /\ handled' <= epoch
          /\ \A i \in DOMAIN tasks : IsPrepare(i) => handled' < tasks[i].epoch
      BY <3>1 DEF EpochsInOrder, TypeOK, Instruction
    <3> QED
      BY <3>2, <3>4, <3>5, <3>6
  <2>2. CASE UNCHANGED <<instructions, handled>>
    BY <2>2 DEF EpochsInOrder, TypeOK
  <2> QED
    BY <2>1, <2>2
<1>3. EpochsInOrder'
  <2>1. ASSUME NEW k \in DOMAIN instructions'
        PROVE  /\ handled' < instructions'[k].epoch
               /\ instructions'[k].epoch <= epoch'
               /\ \A l \in 1 .. k - 1 :
                    instructions'[l].epoch < instructions'[k].epoch
               /\ \A i \in DOMAIN tasks : IsPrepare(i) =>
                    instructions'[k].epoch < tasks[i].epoch
    <3>1. PICK d \in {0, 1} :
             /\ k + d \in DOMAIN instructions
             /\ instructions'[k] = instructions[k + d]
             /\ handled' < instructions[k + d].epoch
             /\ \A l \in 1 .. k - 1 : instructions'[l] = instructions[l + d]
      BY <1>2
    <3>2. \A l \in 1 .. k - 1 : l + d \in 1 .. (k + d) - 1
      BY DEF TypeOK
    <3> QED
      BY <3>1, <3>2 DEF EpochsInOrder
  <2> QED
    BY <1>2, <2>1 DEF EpochsInOrder, IsPrepare
<1>4. TasksInOrder'
  BY DEF TasksInOrder, IsPrepare
<1>5. NoTaskLost'
  BY <1>1 DEF NoTaskLost
<1>6. InstructionsComplete'
  <2> SUFFICES ASSUME NEW k \in DOMAIN instructions', NEW m \in Mods,
                      InBatches(m)', born[m] < instructions'[k].epoch
               PROVE  /\ m \in filled
                      /\ m \in Tracked => m \in instructions'[k].planned
    BY DEF InstructionsComplete
  <2>1. PICK d \in {0, 1} :
           k + d \in DOMAIN instructions /\ instructions'[k] = instructions[k + d]
    BY <1>2
  <2> QED
    BY <1>1, <2>1 DEF InstructionsComplete
<1>7. EventsUnseen'
  BY <1>1 DEF EventsUnseen
<1> QED
  BY <1>1, <1>3, <1>4, <1>5, <1>6, <1>7

(* A task leaves the queue of the executor.                                *)
LEMMA TailOfTasks ==
  ASSUME TypeOK, tasks # <<>>, tasks' = Tail(tasks)
  PROVE  /\ 1 \in DOMAIN tasks /\ Head(tasks) = tasks[1]
         /\ \A i \in DOMAIN tasks' :
              /\ i \in Nat \ {0}
              /\ i + 1 \in DOMAIN tasks /\ tasks'[i] = tasks[i + 1]
              /\ IsPrepare(i)' <=> IsPrepare(i + 1)
              /\ \A j \in 1 .. i - 1 : j \in DOMAIN tasks' /\ j + 1 \in 1 .. (i + 1) - 1
         /\ \A i \in DOMAIN tasks :
              i = 1 \/ \E j \in DOMAIN tasks' : tasks'[j] = tasks[i]
<1>1. tasks \in Seq(Task)
  BY DEF TypeOK
<1>2. /\ 1 \in DOMAIN tasks /\ Head(tasks) = tasks[1]
      /\ Len(tasks) \in Nat /\ DOMAIN tasks = 1 .. Len(tasks)
      /\ DOMAIN tasks' = 1 .. Len(tasks) - 1
      /\ \A i \in 1 .. Len(tasks) - 1 : tasks'[i] = tasks[i + 1]
  BY <1>1
<1>3. ASSUME NEW i \in DOMAIN tasks, i # 1
      PROVE  \E j \in DOMAIN tasks' : tasks'[j] = tasks[i]
  <2>1. i - 1 \in DOMAIN tasks' /\ tasks'[i - 1] = tasks[i]
    BY <1>2, <1>3
  <2> QED
    BY <2>1
<1> QED
  BY <1>2, <1>3 DEF IsPrepare

(* Its effects, which only grow, leave nothing of an older FlowMod undone. *)
LEMMA RunTaskStep ==
  ASSUME IInv, TypeOK', tasks # <<>>, tasks' = Tail(tasks),
         UNCHANGED <<events, batches, historyVars>>,
         filled \subseteq filled', known \subseteq known',
         Head(tasks).op = "fill" => Head(tasks).mod \in filled',
         Head(tasks).op = "rule" => Head(tasks).mod \in known'
  PROVE  /\ TasksInOrder' /\ NoTaskLost' /\ BatchesInOrder' /\ EventsUnseen'
         /\ UNCHANGED instructions => EpochsInOrder' /\ InstructionsComplete'
<1> USE DEF IInv, historyVars
<1>1. /\ 1 \in DOMAIN tasks /\ Head(tasks) = tasks[1]
      /\ \A i \in DOMAIN tasks' :
           /\ i \in Nat \ {0}
           /\ i + 1 \in DOMAIN tasks /\ tasks'[i] = tasks[i + 1]
           /\ IsPrepare(i)' <=> IsPrepare(i + 1)
           /\ \A j \in 1 .. i - 1 : j \in DOMAIN tasks' /\ j + 1 \in 1 .. (i + 1) - 1
      /\ \A i \in DOMAIN tasks :
           i = 1 \/ \E j \in DOMAIN tasks' : tasks'[j] = tasks[i]
  BY TailOfTasks
<1>2. \A m : InBatches(m)' <=> InBatches(m)
  BY DEF InBatches
<1>3. TasksInOrder'
  BY <1>1 DEF TasksInOrder
<1>4. NoTaskLost'
  <2> SUFFICES ASSUME NEW m \in Mods, InBatches(m)
               PROVE  /\ \/ m \in filled'
                         \/ \E i \in DOMAIN tasks' : tasks'[i] = FillTask(m)
                      /\ m \in Tracked =>
                           \/ m \in known'
                           \/ \E i \in DOMAIN tasks' : tasks'[i] = RuleTask(m)
    BY <1>2 DEF NoTaskLost
  <2>1. \/ m \in filled'
        \/ \E i \in DOMAIN tasks' : tasks'[i] = FillTask(m)
    <3>1. CASE m \in filled
      BY <3>1
    <3>2. CASE \E i \in DOMAIN tasks : tasks[i] = FillTask(m)
      <4>1. tasks[1] = FillTask(m) => Head(tasks).op = "fill" /\ Head(tasks).mod = m
        BY <1>1 DEF FillTask
      <4> QED
        BY <1>1, <3>2, <4>1
    <3> QED
      BY <3>1, <3>2 DEF NoTaskLost
  <2>2. m \in Tracked =>
           \/ m \in known'
           \/ \E i \in DOMAIN tasks' : tasks'[i] = RuleTask(m)
    <3>1. CASE m \in known
      BY <3>1
    <3>2. CASE \E i \in DOMAIN tasks : tasks[i] = RuleTask(m)
      <4>1. tasks[1] = RuleTask(m) => Head(tasks).op = "rule" /\ Head(tasks).mod = m
        BY <1>1 DEF RuleTask
      <4> QED
        BY <1>1, <3>2, <4>1
    <3> QED
      BY <3>1, <3>2 DEF NoTaskLost
  <2> QED
    BY <2>1, <2>2
<1>5. BatchesInOrder'
  BY DEF BatchesInOrder
<1>6. EventsUnseen'
  BY <1>2 DEF EventsUnseen
<1>7. ASSUME UNCHANGED instructions PROVE EpochsInOrder'
  <2>1. ASSUME NEW i \in DOMAIN tasks', IsPrepare(i)'
        PROVE  /\ handled' < tasks'[i].epoch
               /\ tasks'[i].epoch <= epoch'
               /\ \A k \in DOMAIN instructions : instructions[k].epoch < tasks'[i].epoch
               /\ \A j \in 1 .. i - 1 :
                    IsPrepare(j)' => tasks'[j].epoch < tasks'[i].epoch
    <3>1. i + 1 \in DOMAIN tasks /\ IsPrepare(i + 1) /\ tasks'[i] = tasks[i + 1]
      BY <1>1, <2>1
    <3>2. \A j \in 1 .. i - 1 :
            /\ j + 1 \in 1 .. (i + 1) - 1 /\ tasks'[j] = tasks[j + 1]
            /\ IsPrepare(j)' <=> IsPrepare(j + 1)
      BY <1>1, <2>1
    <3> QED
      BY <3>1, <3>2 DEF EpochsInOrder
  <2> QED
    BY <1>7, <2>1 DEF EpochsInOrder
<1>8. ASSUME UNCHANGED instructions PROVE InstructionsComplete'
  BY <1>2, <1>8 DEF InstructionsComplete
<1> QED
  BY <1>3, <1>4, <1>5, <1>6, <1>7, <1>8

LEMMA RunFillStep == ASSUME IInv, TypeOK', RunFill PROVE IInv'
BY RunTaskStep DEF RunFill, IInv

LEMMA RunRuleStep == ASSUME IInv, TypeOK', RunRule PROVE IInv'
BY RunTaskStep DEF RunRule, IInv

(* The new instruction covers every FlowMod that is older than its epoch:  *)
(* no task of such a FlowMod is left behind the prepare task.              *)
LEMMA RunPrepareStep == ASSUME IInv, TypeOK', RunPrepare PROVE IInv'
<1> USE DEF IInv
<1> DEFINE e == Head(tasks).epoch
<1>1. /\ tasks # <<>> /\ tasks' = Tail(tasks) /\ Head(tasks).op = "prepare"
      /\ instructions' = Append(instructions, [epoch |-> e, planned |-> known])
      /\ UNCHANGED <<events, batches, filled, known, epoch, handled, born, past>>
  BY DEF RunPrepare, detectorVars, historyVars
<1>2. TasksInOrder' /\ NoTaskLost' /\ BatchesInOrder' /\ EventsUnseen'
  BY <1>1, RunTaskStep DEF historyVars
<1>3. /\ 1 \in DOMAIN tasks /\ Head(tasks) = tasks[1]
      /\ \A i \in DOMAIN tasks' :
           /\ i \in Nat \ {0}
           /\ i + 1 \in DOMAIN tasks /\ tasks'[i] = tasks[i + 1]
           /\ IsPrepare(i)' <=> IsPrepare(i + 1)
           /\ \A j \in 1 .. i - 1 : j \in DOMAIN tasks' /\ j + 1 \in 1 .. (i + 1) - 1
      /\ \A i \in DOMAIN tasks :
           i = 1 \/ \E j \in DOMAIN tasks' : tasks'[j] = tasks[i]
  BY <1>1, TailOfTasks
<1>4. IsPrepare(1) /\ e = tasks[1].epoch /\ e \in Nat
  BY <1>1, <1>3, ElementTypes DEF IsPrepare
<1>5. /\ Len(instructions) \in Nat
      /\ DOMAIN instructions = 1 .. Len(instructions)
      /\ DOMAIN instructions' = 1 .. Len(instructions) + 1
      /\ \A k \in DOMAIN instructions : instructions'[k] = instructions[k]
      /\ instructions'[Len(instructions) + 1] = [epoch |-> e, planned |-> known]
  <2>1. /\ instructions \in Seq(Instruction)
        /\ [epoch |-> e, planned |-> known] \in Instruction
    BY <1>4 DEF TypeOK, Instruction
  <2> QED
    BY <1>1, <2>1, AppendFacts
<1>6. \A k \in DOMAIN instructions : instructions[k].epoch < e
  BY <1>3, <1>4 DEF EpochsInOrder
<1>7. \A i \in DOMAIN tasks' : IsPrepare(i)' =>
        /\ handled < tasks'[i].epoch /\ tasks'[i].epoch <= epoch
        /\ e < tasks'[i].epoch
        /\ \A k \in DOMAIN instructions : instructions[k].epoch < tasks'[i].epoch
        /\ \A j \in 1 .. i - 1 : IsPrepare(j)' => tasks'[j].epoch < tasks'[i].epoch
  <2> SUFFICES ASSUME NEW i \in DOMAIN tasks', IsPrepare(i)'
               PROVE  /\ handled < tasks'[i].epoch /\ tasks'[i].epoch <= epoch
                      /\ e < tasks'[i].epoch
                      /\ \A k \in DOMAIN instructions :
                           instructions[k].epoch < tasks'[i].epoch
                      /\ \A j \in 1 .. i - 1 :
                           IsPrepare(j)' => tasks'[j].epoch < tasks'[i].epoch
    OBVIOUS
  <2>1. i + 1 \in DOMAIN tasks /\ IsPrepare(i + 1) /\ tasks'[i] = tasks[i + 1]
    BY <1>3
  <2>2. 1 \in 1 .. (i + 1) - 1
    BY <1>3
  <2>3. \A j \in 1 .. i - 1 :
          /\ j + 1 \in 1 .. (i + 1) - 1 /\ tasks'[j] = tasks[j + 1]
          /\ IsPrepare(j)' <=> IsPrepare(j + 1)
    BY <1>3
  <2> QED
    BY <1>4, <2>1, <2>2, <2>3 DEF EpochsInOrder
<1>8. EpochsInOrder'
  <2>1. ASSUME NEW k \in DOMAIN instructions'
        PROVE  /\ handled < instructions'[k].epoch
               /\ instructions'[k].epoch <= epoch
               /\ \A l \in 1 .. k - 1 : instructions'[l].epoch < instructions'[k].epoch
               /\ \A i \in DOMAIN tasks' : IsPrepare(i)' =>
                    instructions'[k].epoch < tasks'[i].epoch
    <3>1. CASE k \in DOMAIN instructions
      <4>1. \A l \in 1 .. k - 1 : l \in DOMAIN instructions
        BY <3>1, ElementTypes
      <4> QED
        BY <1>5, <1>7, <3>1, <4>1 DEF EpochsInOrder
    <3>2. CASE k = Len(instructions) + 1
      <4>1. instructions'[k].epoch = e
        BY <1>5, <3>2
      <4>2. \A l \in 1 .. k - 1 : l \in DOMAIN instructions
        BY <1>5, <3>2
      <4>3. handled < e /\ e <= epoch
        BY <1>3, <1>4 DEF EpochsInOrder
      <4> QED
        BY <1>5, <1>6, <1>7, <4>1, <4>2, <4>3
    <3> QED
      BY <1>5, <3>1, <3>2
  <2> QED
    BY <1>1, <1>7, <2>1 DEF EpochsInOrder
<1>9. InstructionsComplete'
  <2> SUFFICES ASSUME NEW k \in DOMAIN instructions', NEW m \in Mods,
                      InBatches(m), born[m] < instructions'[k].epoch
               PROVE  /\ m \in filled
                      /\ m \in Tracked => m \in instructions'[k].planned
    BY <1>1 DEF InstructionsComplete, InBatches
  <2>1. CASE k \in DOMAIN instructions
    BY <1>5, <2>1 DEF InstructionsComplete
  <2>2. CASE k = Len(instructions) + 1
    <3>1. born[m] < e /\ born[m] \in Nat /\ instructions'[k].planned = known
      BY <1>5, <2>2 DEF TypeOK
    <3>2. ASSUME NEW i \in DOMAIN tasks, ~IsPrepare(i) PROVE tasks[i].mod # m
      <4>1. 1 \in 1 .. i - 1
        BY <1>4, <3>2 DEF TypeOK
      <4>2. e <= born[tasks[i].mod]
        BY <1>4, <3>2, <4>1 DEF TasksInOrder
      <4> QED
        BY <1>4, <3>1, <4>2
    <3>3. \A i \in DOMAIN tasks : tasks[i] # FillTask(m) /\ tasks[i] # RuleTask(m)
      BY <3>2 DEF FillTask, RuleTask, IsPrepare
    <3> QED
      BY <3>1, <3>3 DEF NoTaskLost
  <2> QED
    BY <1>5, <2>1, <2>2
<1> QED
  BY <1>2, <1>8, <1>9

(* A new event is in no batch and no other event.                          *)
LEMMA PushEventStep ==
  ASSUME IInv, TypeOK', NEW e \in Mods, PushEvent(e) PROVE IInv'
<1> USE DEF IInv
<1>1. /\ events' = Append(events, e) /\ Unseen(e)
      /\ UNCHANGED <<batches, tasks, instructions, filled, known, epoch,
                     handled, born>>
  BY DEF PushEvent, detectorVars, historyVars
<1>2. /\ Len(events) \in Nat /\ DOMAIN events = 1 .. Len(events)
      /\ DOMAIN events' = 1 .. Len(events) + 1
      /\ \A i \in DOMAIN events : events'[i] = events[i]
      /\ events'[Len(events) + 1] = e
  <2>1. events \in Seq(Mods)
    BY DEF TypeOK
  <2> QED
    BY <1>1, <2>1, AppendFacts
<1>3. EventsUnseen'
  <2>1. ~InBatches(e) /\ \A i \in DOMAIN events : events[i] # e
    BY <1>1 DEF Unseen, InBatches, ToSet
  <2>2. \A m : InBatches(m)' <=> InBatches(m)
    BY <1>1 DEF InBatches
  <2>3. ASSUME NEW i \in DOMAIN events'
        PROVE  ~InBatches(events'[i]) /\ \A j \in 1 .. i - 1 : events'[j] # events'[i]
    <3>1. \A j \in 1 .. i - 1 : j \in DOMAIN events
      BY <1>2, <2>3
    <3>2. CASE i \in DOMAIN events
      BY <1>2, <3>1, <3>2 DEF EventsUnseen
    <3>3. CASE i = Len(events) + 1
      BY <1>2, <2>1, <3>1, <3>3
    <3> QED
      BY <1>2, <3>2, <3>3
  <2> QED
    BY <2>2, <2>3 DEF EventsUnseen
<1> QED
  BY <1>1, <1>3 DEF EpochsInOrder, TasksInOrder, NoTaskLost,
     InstructionsComplete, BatchesInOrder, IsPrepare, InBatches

(* What pushing a FlowMod into the queue with barriers does to the batches.*)
LEMMA EnqueueFacts ==
  ASSUME TypeOK, NEW m \in Mods, Enqueue(m)
  PROVE  /\ Len(batches') = IF batches = <<>> THEN 1 ELSE Len(batches)
         /\ \A i \in DOMAIN batches' : \A n \in ToSet(batches'[i]) :
              \/ i = Len(batches') /\ n = m
              \/ i \in DOMAIN batches /\ n \in ToSet(batches[i])
         /\ \A n : InBatches(n)' => n = m \/ InBatches(n)
<1>1. CASE batches = <<>>
  <2>1. batches' = <<<<m>>>>
    BY <1>1 DEF Enqueue
  <2>2. ToSet(<<m>>) = {m}
    BY DEF ToSet
  <2>3. Len(batches') = 1 /\ DOMAIN batches' = {1} /\ batches'[1] = <<m>>
    BY <2>1
  <2>4. \A i \in DOMAIN batches' : \A n \in ToSet(batches'[i]) :
          i = Len(batches') /\ n = m
    BY <2>2, <2>3
  <2>5. \A n : InBatches(n)' => n = m
    BY <2>4 DEF InBatches
  <2>6. Len(batches') = IF batches = <<>> THEN 1 ELSE Len(batches)
    BY <1>1, <2>3
  <2> QED
    BY <2>4, <2>5, <2>6
<1>2. CASE batches # <<>>
  <2> DEFINE l == Len(batches)
             b == batches[l]
  <2>1. /\ batches \in Seq(Seq(Mods)) /\ l \in DOMAIN batches /\ b \in Seq(Mods)
        /\ DOMAIN batches = 1 .. l
    BY <1>2 DEF TypeOK
  <2>2. batches' = [batches EXCEPT ![l] = Append(b, m)]
    BY <1>2 DEF Enqueue
  <2>3. /\ DOMAIN batches' = DOMAIN batches /\ Len(batches') = l
        /\ batches'[l] = Append(b, m)
        /\ \A i \in DOMAIN batches : i # l => batches'[i] = batches[i]
    <3>1. Append(b, m) \in Seq(Mods)
      BY <2>1
    <3>2. batches' \in Seq(Seq(Mods)) /\ Len(batches') = l
      BY <2>1, <2>2, <3>1
    <3> QED
      BY <2>1, <2>2, <3>2
  <2>4. \A n \in ToSet(Append(b, m)) : n = m \/ n \in ToSet(b)
    <3>1. /\ DOMAIN b = 1 .. Len(b) /\ Len(b) \in Nat
          /\ DOMAIN Append(b, m) = 1 .. Len(b) + 1
          /\ \A i \in DOMAIN b : Append(b, m)[i] = b[i]
          /\ Append(b, m)[Len(b) + 1] = m
      BY <2>1, AppendFacts
    <3>2. \A i \in DOMAIN Append(b, m) : i \in DOMAIN b \/ i = Len(b) + 1
      BY <3>1
    <3> QED
      BY <3>1, <3>2 DEF ToSet
  <2> HIDE DEF l, b
  <2>5. ASSUME NEW i \in DOMAIN batches', NEW n \in ToSet(batches'[i])
        PROVE  \/ i = Len(batches') /\ n = m
               \/ i \in DOMAIN batches /\ n \in ToSet(batches[i])
    <3>1. CASE i = l
      <4>1. n = m \/ n \in ToSet(b)
        BY <2>3, <2>4, <2>5, <3>1
      <4>2. b = batches[i]
        BY <3>1 DEF b
      <4> QED
        BY <2>3, <2>5, <3>1, <4>1, <4>2
    <3>2. CASE i # l
      BY <2>3, <2>5, <3>2
    <3> QED
      BY <3>1, <3>2
  <2>6. ASSUME NEW n, InBatches(n)' PROVE n = m \/ InBatches(n)
    BY <2>5, <2>6 DEF InBatches
  <2>7. Len(batches') = IF batches = <<>> THEN 1 ELSE Len(batches)
    BY <1>2, <2>3 DEF l
  <2> QED
    BY <2>5, <2>6, <2>7
<1> QED
  BY <1>1, <1>2

(* A FlowMod leaves the event queue: its tasks go behind every prepare     *)
(* task of an earlier epoch, and it joins the newest batch.                *)
LEMMA HandleEventStep == ASSUME IInv, TypeOK', HandleEvent PROVE IInv'
<1> USE DEF IInv
<1> DEFINE m == Head(events)
<1>1. /\ m \in Mods /\ m = events[1] /\ 1 \in DOMAIN events
      /\ DOMAIN events' = 1 .. Len(events) - 1
      /\ DOMAIN events = 1 .. Len(events) /\ Len(events) \in Nat
      /\ \A i \in DOMAIN events' : events'[i] = events[i + 1]
  BY DEF HandleEvent, TypeOK
<1>2. /\ tasks' = tasks \o ModTasks(m) /\ Enqueue(m)
      /\ born' = [born EXCEPT ![m] = epoch]
      /\ UNCHANGED <<instructions, filled, known, epoch, handled>>
  BY DEF HandleEvent, detectorVars
<1>3. /\ born'[m] = epoch /\ epoch \in Nat
      /\ \A n \in Mods : born[n] \in Nat /\ born'[n] \in Nat
      /\ \A n \in Mods : n # m => born'[n] = born[n]
  BY <1>1, <1>2 DEF TypeOK
<1>4. /\ Len(tasks) \in Nat /\ DOMAIN tasks = 1 .. Len(tasks)
      /\ \A i \in DOMAIN tasks : i \in DOMAIN tasks' /\ tasks'[i] = tasks[i]
      /\ \A i \in DOMAIN tasks' : i \notin DOMAIN tasks =>
           tasks'[i] \in {FillTask(m), RuleTask(m)}
      /\ \E i \in DOMAIN tasks' : tasks'[i] = FillTask(m)
      /\ m \in Tracked => \E i \in DOMAIN tasks' : tasks'[i] = RuleTask(m)
  <2>1. /\ tasks \in Seq(Task) /\ FillTask(m) \in Task /\ RuleTask(m) \in Task
    BY <1>1 DEF TypeOK, FillTask, RuleTask, Task
  <2>2. CASE m \in Tracked
    <3>1. tasks' = tasks \o <<FillTask(m), RuleTask(m)>>
      BY <1>2, <2>2 DEF ModTasks
    <3>2. /\ Len(tasks) \in Nat /\ DOMAIN tasks = 1 .. Len(tasks)
          /\ DOMAIN tasks' = 1 .. Len(tasks) + 2
          /\ \A i \in DOMAIN tasks : tasks'[i] = tasks[i]
          /\ tasks'[Len(tasks) + 1] = FillTask(m)
          /\ tasks'[Len(tasks) + 2] = RuleTask(m)
      BY <2>1, <3>1
    <3> HIDE DEF m
    <3> QED
      BY <3>2
  <2>3. CASE m \notin Tracked
    <3>1. tasks' = tasks \o <<FillTask(m)>>
      BY <1>2, <2>3 DEF ModTasks
    <3>2. /\ Len(tasks) \in Nat /\ DOMAIN tasks = 1 .. Len(tasks)
          /\ DOMAIN tasks' = 1 .. Len(tasks) + 1
          /\ \A i \in DOMAIN tasks : tasks'[i] = tasks[i]
          /\ tasks'[Len(tasks) + 1] = FillTask(m)
      BY <2>1, <3>1
    <3> HIDE DEF m
    <3> QED
      BY <2>3, <3>2
  <2> QED
    BY <2>2, <2>3
<1>5. \A i \in DOMAIN tasks' : i \notin DOMAIN tasks =>
        tasks'[i].op # "prepare" /\ tasks'[i].mod = m
  BY <1>4 DEF FillTask, RuleTask
<1>6. /\ Len(batches') = IF batches = <<>> THEN 1 ELSE Len(batches)
      /\ \A i \in DOMAIN batches' : \A n \in ToSet(batches'[i]) :
           \/ i = Len(batches') /\ n = m
           \/ i \in DOMAIN batches /\ n \in ToSet(batches[i])
      /\ \A n : InBatches(n)' => n = m \/ InBatches(n)
  BY <1>1, <1>2, EnqueueFacts
<1>7. ~InBatches(m)
  BY <1>1 DEF EventsUnseen
<1>8. \A i \in DOMAIN tasks' : \A j \in 1 .. i - 1 :
        IsPrepare(j)' => j \in DOMAIN tasks /\ IsPrepare(j) /\ tasks'[j] = tasks[j]
  <2>1. tasks' \in Seq(Task)
    BY DEF TypeOK
  <2>2. \A i \in DOMAIN tasks' : \A j \in 1 .. i - 1 : j \in DOMAIN tasks'
    BY <2>1
  <2> QED
    BY <1>4, <1>5, <2>2 DEF IsPrepare
<1>9. EpochsInOrder'
  BY <1>2, <1>4, <1>5, <1>8 DEF EpochsInOrder, IsPrepare
<1>10. TasksInOrder'
  <2> SUFFICES ASSUME NEW i \in DOMAIN tasks', NEW j \in 1 .. i - 1,
                      ~IsPrepare(i)', IsPrepare(j)'
               PROVE  tasks'[j].epoch <= born'[tasks'[i].mod]
    BY DEF TasksInOrder
  <2>1. j \in DOMAIN tasks /\ IsPrepare(j) /\ tasks'[j] = tasks[j]
    BY <1>8
  <2>2. tasks[j].epoch \in Nat /\ tasks[j].epoch <= epoch
    BY <2>1, ElementTypes DEF EpochsInOrder
  <2>3. CASE i \in DOMAIN tasks
    <3>1. ~IsPrepare(i) /\ tasks'[i] = tasks[i] /\ tasks[i].mod \in Mods
      BY <1>4, <2>3, ElementTypes DEF IsPrepare
    <3>2. tasks[j].epoch <= born[tasks[i].mod]
      BY <2>1, <2>3, <3>1 DEF TasksInOrder
    <3> QED
      BY <1>3, <2>1, <2>2, <3>1, <3>2
  <2>4. CASE i \notin DOMAIN tasks
    BY <1>3, <1>5, <2>1, <2>2, <2>4
  <2> QED
    BY <2>3, <2>4
<1>11. NoTaskLost'
  <2> SUFFICES ASSUME NEW n \in Mods, InBatches(n)'
               PROVE  /\ n \in filled \/ \E i \in DOMAIN tasks' : tasks'[i] = FillTask(n)
                      /\ n \in Tracked =>
                           n \in known \/ \E i \in DOMAIN tasks' : tasks'[i] = RuleTask(n)
    BY <1>2 DEF NoTaskLost
  <2>1. CASE n = m
    BY <1>4, <2>1
  <2>2. CASE InBatches(n)
    BY <1>4, <2>2 DEF NoTaskLost
  <2> QED
    BY <1>6, <2>1, <2>2
<1>12. InstructionsComplete'
  <2> SUFFICES ASSUME NEW k \in DOMAIN instructions, NEW n \in Mods,
                      InBatches(n)', born'[n] < instructions[k].epoch
               PROVE  /\ n \in filled
                      /\ n \in Tracked => n \in instructions[k].planned
    BY <1>2 DEF InstructionsComplete
  <2>1. instructions[k].epoch \in Nat /\ instructions[k].epoch <= epoch
    BY ElementTypes DEF EpochsInOrder
  <2>2. n # m
    BY <1>3, <2>1
  <2> QED
    BY <1>3, <1>6, <2>2 DEF InstructionsComplete
<1>13. BatchesInOrder'
  <2> SUFFICES ASSUME NEW i \in DOMAIN batches', NEW n \in ToSet(batches'[i])
               PROVE  born'[n] + Len(batches') <= epoch + i
    BY <1>2 DEF BatchesInOrder
  <2>1. CASE i = Len(batches') /\ n = m
    <3>1. batches' \in Seq(Seq(Mods))
      BY DEF TypeOK
    <3> QED
      BY <1>3, <2>1, <3>1
  <2>2. CASE i \in DOMAIN batches /\ n \in ToSet(batches[i])
    <3>1. n \in Mods /\ InBatches(n) /\ n # m /\ i \in Nat /\ Len(batches) \in Nat
      BY <1>7, <2>2, ElementTypes DEF InBatches
    <3>2. born[n] + Len(batches) <= epoch + i
      BY <2>2 DEF BatchesInOrder
    <3>3. Len(batches') = Len(batches)
      <4>1. batches # <<>>
        BY <2>2
      <4> QED
        BY <1>6, <4>1
    <3> QED
      BY <1>3, <3>1, <3>2, <3>3
  <2> QED
    BY <1>6, <2>1, <2>2
<1>14. EventsUnseen'
  <2> SUFFICES ASSUME NEW i \in DOMAIN events'
               PROVE  /\ ~InBatches(events[i])'
                      /\ \A j \in 1 .. i - 1 : events'[j] # events'[i]
    BY DEF EventsUnseen
  <2>1. /\ i + 1 \in DOMAIN events /\ events'[i] = events[i + 1]
        /\ 1 \in 1 .. (i + 1) - 1
        /\ \A j \in 1 .. i - 1 : /\ j + 1 \in 1 .. (i + 1) - 1
                                 /\ events'[j] = events[j + 1]
    BY <1>1
  <2>2. events[i + 1] # m /\ ~InBatches(events[i + 1])
    BY <1>1, <2>1 DEF EventsUnseen
  <2>4. ~InBatches(events[i])'
    BY <1>6, <2>1, <2>2
  <2>3. \A j \in 1 .. i - 1 : events[j + 1] # events[i + 1]
    BY <2>1 DEF EventsUnseen
  <2> QED
    BY <2>1, <2>3, <2>4
<1> QED
  BY <1>9, <1>10, <1>11, <1>12, <1>13, <1>14

(* A release takes one batch and, when it goes well, one instruction.      *)
LEMMA ReleaseStep == ASSUME IInv, TypeOK', Release PROVE IInv'
<1>1. batches' = batches \/ (batches # <<>> /\ batches' = Tail(batches))
  BY DEF Release, FlushPipeline
<1>2. \/ instructions # <<>> /\ TakeInstruction
      \/ UNCHANGED <<instructions, handled>>
  BY DEF Release
<1>3. UNCHANGED <<events, tasks, detectorVars, epoch, born>>
  BY DEF Release
<1> QED
  BY <1>1, <1>2, <1>3, TakeStep

(* All queues are empty at first. *)
LEMMA InitInv == Init => IInv
<1> SUFFICES ASSUME Init PROVE IInv
  OBVIOUS
<1>1. TypeOK
  <2>1. /\ events \in Seq(Mods) /\ batches \in Seq(Seq(Mods))
        /\ tasks \in Seq(Task) /\ instructions \in Seq(Instruction)
        /\ sent \in Seq(Mods)
    BY DEF Init
  <2>2. born \in [Mods -> Nat]
    BY DEF Init
  <2> QED
    BY <2>1, <2>2 DEF Init, TypeOK
<1>2. /\ DOMAIN events = {} /\ DOMAIN batches = {} /\ DOMAIN tasks = {}
      /\ DOMAIN instructions = {} /\ handled <= epoch
  BY DEF Init
<1>3. \A m : ~InBatches(m)
  BY <1>2 DEF InBatches
<1> QED
  BY <1>1, <1>2, <1>3 DEF IInv, EpochsInOrder, TasksInOrder, NoTaskLost,
     InstructionsComplete, BatchesInOrder, EventsUnseen

LEMMA InvStep == IInv /\ [Next]_vars => IInv'
<1> SUFFICES ASSUME IInv, [Next]_vars PROVE IInv'
  OBVIOUS
<1>0. TypeOK'
  BY TypeStep DEF IInv
<1> USE DEF queueVars, detectorVars, historyVars
<1>1. CASE EnterWait
  BY <1>0, <1>1, IdleStep DEF EnterWait
<1>2. CASE Wake
  BY <1>0, <1>2, IdleStep DEF Wake
<1>3. CASE Timeout
  BY <1>0, <1>3, TimeoutStep
<1>4. CASE Release
  BY <1>0, <1>4, ReleaseStep
<1>5. CASE HandleInstruction
  BY <1>0, <1>5, TakeStep DEF HandleInstruction
<1>6. CASE InstructionsDone
  BY <1>0, <1>6, IdleStep DEF InstructionsDone
<1>7. CASE HandleEvent
  BY <1>0, <1>7, HandleEventStep
<1>8. CASE EventsDone
  BY <1>0, <1>8, IdleStep DEF EventsDone
<1>9. ASSUME NEW m \in Mods, PushEvent(m) PROVE IInv'
  BY <1>0, <1>9, PushEventStep
<1>10. CASE RunFill
  BY <1>0, <1>10, RunFillStep
<1>11. CASE RunRule
  BY <1>0, <1>11, RunRuleStep
<1>12. CASE RunPrepare
  BY <1>0, <1>12, RunPrepareStep
<1>13. CASE UNCHANGED vars
  BY <1>0, <1>13, IdleStep DEF vars
<1> QED
  BY <1>1, <1>2, <1>3, <1>4, <1>5, <1>6, <1>7, <1>8, <1>9, <1>10, <1>11,
     <1>12, <1>13 DEF Next

(* The inductive invariant holds throughout. *)
THEOREM InvCorrect == Spec => []IInv
BY InitInv, InvStep, PTL DEF Spec
----
(* With the queue ahead, the batch at its head is older than the           *)
(* instruction at the head of theirs: the head batch holds FlowMods of     *)
(* epochs up to epoch + 1 - Len(batches), which Lag >= 1 bounds by handled.*)
LEMMA InvPlanned == IInv => PlannedBeforeRelease
<1> SUFFICES ASSUME IInv, instructions # <<>>, Lag >= 1,
                    NEW m \in ToSet(Head(batches))
             PROVE  /\ m \in filled
                    /\ m \in Tracked => m \in Head(instructions).planned
  BY DEF PlannedBeforeRelease
<1> USE DEF IInv
<1>1. /\ 1 \in DOMAIN instructions /\ Head(instructions) = instructions[1]
      /\ instructions[1].epoch \in Nat
      /\ handled < instructions[1].epoch /\ instructions[1].epoch <= epoch
      /\ handled \in Nat /\ epoch \in Nat
  <2>1. 1 \in DOMAIN instructions /\ Head(instructions) = instructions[1]
    BY DEF TypeOK
  <2> QED
    BY <2>1, ElementTypes DEF EpochsInOrder, TypeOK
<1>2. /\ Len(batches) \in Nat /\ Len(batches) >= epoch - handled + 1
  BY <1>1, ElementTypes DEF Lag
<1>3. 1 \in DOMAIN batches /\ Head(batches) = batches[1]
  BY <1>1, <1>2 DEF TypeOK
<1>4. born[m] + Len(batches) <= epoch + 1 /\ InBatches(m)
  BY <1>3 DEF BatchesInOrder, InBatches
<1>5. m \in Mods /\ born[m] \in Nat
  BY <1>4, ElementTypes DEF TypeOK
<1>6. born[m] < instructions[1].epoch
  BY <1>1, <1>2, <1>4, <1>5
<1> QED
  BY <1>1, <1>4, <1>5, <1>6 DEF InstructionsComplete

(* A batch that is released with a lag of at least one is planned for, in  *)
(* every run of the main thread against the executor.                      *)
THEOREM PlannedBeforeReleaseHolds == Spec => []PlannedBeforeRelease
BY InvCorrect, InvPlanned, PTL

(* Only a fault, which terminates the process, lets the lag fall: a flush  *)
(* takes one batch and the instruction after it moves handled on by one or *)
(* more.                                                                   *)
LEMMA LagStep ==
  ASSUME IInv, [Next]_vars, fault' = "none" PROVE Lag' >= Lag
<1> USE DEF IInv
<1>1. /\ Len(batches) \in Nat /\ epoch \in Nat /\ handled \in Nat
  BY ElementTypes DEF TypeOK
<1>2. ASSUME UNCHANGED <<batches, handled, epoch>> PROVE Lag' >= Lag
  BY <1>1, <1>2 DEF Lag
<1>3. ASSUME TakeInstruction, instructions # <<>>
      PROVE  handled' \in Nat /\ handled' >= handled + 1
  <2>1. 1 \in DOMAIN instructions /\ handled' = instructions[1].epoch
    BY <1>3 DEF TakeInstruction, TypeOK
  <2>2. instructions[1].epoch \in Nat /\ handled < instructions[1].epoch
    BY <2>1, ElementTypes DEF EpochsInOrder
  <2> QED
    BY <1>1, <2>1, <2>2
<1>4. CASE Timeout
  <2>1. Len(batches') = Len(batches) + 1 /\ epoch' = epoch + 1 /\ handled' = handled
    BY <1>4 DEF Timeout, AddBarrier, TypeOK
  <2> QED
    BY <1>1, <2>1 DEF Lag
<1>5. CASE Release
  <2>1. TakeInstruction /\ instructions # <<>> /\ epoch' = epoch
    BY <1>5 DEF Release
  <2>2. Len(batches') >= Len(batches) - 1 /\ Len(batches') \in Nat
    BY <1>1, <1>5 DEF Release, FlushPipeline, TypeOK
  <2> QED
    BY <1>1, <1>3, <2>1, <2>2 DEF Lag
<1>6. CASE HandleInstruction
  <2>1. TakeInstruction /\ instructions # <<>> /\ UNCHANGED <<epoch, batches>>
    BY <1>6 DEF HandleInstruction
  <2> QED
    BY <1>1, <1>3, <2>1 DEF Lag
<1>7. CASE HandleEvent
  <2>1. Head(events) \in Mods /\ Enqueue(Head(events))
        /\ UNCHANGED <<epoch, handled>>
    BY <1>7 DEF HandleEvent, TypeOK
  <2>2. Len(batches') = IF batches = <<>> THEN 1 ELSE Len(batches)
    BY <2>1, EnqueueFacts
  <2>3. Len(batches') \in Nat /\ Len(batches') >= Len(batches)
    BY <1>1, <2>2
  <2> QED
    BY <1>1, <2>1, <2>3 DEF Lag
<1>8. CASE EnterWait \/ Wake \/ InstructionsDone \/ EventsDone
  BY <1>2, <1>8 DEF EnterWait, Wake, InstructionsDone, EventsDone, queueVars,
     historyVars
<1>9. ASSUME NEW m \in Mods, PushEvent(m) PROVE Lag' >= Lag
  BY <1>2, <1>9 DEF PushEvent, historyVars
<1>10. CASE RunFill \/ RunRule \/ RunPrepare
  BY <1>2, <1>10 DEF RunFill, RunRule, RunPrepare, historyVars
<1>11. CASE UNCHANGED vars
  BY <1>2, <1>11 DEF vars, queueVars, historyVars
<1> QED
  BY <1>4, <1>5, <1>6, <1>7, <1>8, <1>9, <1>10, <1>11 DEF Next

(* The queue with barriers never loses its lead over the instructions.     *)
THEOREM LagNeverShrinksHolds == Spec => LagNeverShrinks
<1>1. IInv /\ [Next]_vars => [fault' = "none" => Lag' >= Lag]_vars
  BY LagStep
<1> QED
  BY <1>1, InvCorrect, PTL DEF Spec, LagNeverShrinks

(***************************************************************************)
(* The measurements.                                                       *)
(***************************************************************************)
(* A FlowMod has one place in the batches, and none there or in the event  *)
(* queue once it is sent.                                                  *)
OnceQueued ==
  \A i, k \in DOMAIN batches : \A j \in DOMAIN batches[i], l \in DOMAIN batches[k] :
    batches[i][j] = batches[k][l] => i = k /\ j = l

QueuedUnsent ==
  \A m : InBatches(m) \/ m \in ToSet(events) => m \notin ToSet(sent)

(* A FlowMod with a measurement of its own is queued, and one without has  *)
(* lost it to another one of its xid, that is measured or has been sent    *)
(* since it was queued.                                                    *)
MeasuredQueued == \A m \in measured : InBatches(m)

PastSent == \A m : InBatches(m) => past[m] \subseteq ToSet(sent)

Matched ==
  \A m : InBatches(m) =>
    \E n \in measured \cup (ToSet(sent) \ past[m]) : XidOf[n] = XidOf[m]

Orderly ==
  /\ OnceQueued /\ QueuedUnsent /\ MeasuredQueued /\ PastSent /\ Matched
  /\ Lag >= 0

MeasurementInv == (Running => Orderly) /\ FaultsExplained
----
(* A step that takes no part in measuring.                                 *)
LEMMA OtherStep ==
  ASSUME IInv, MeasurementInv, [Next]_vars,
         UNCHANGED <<events, batches, measured, sent, fault, handled, epoch, past>>
  PROVE  MeasurementInv'
<1>1. Running => Orderly'
  BY DEF MeasurementInv, Orderly, OnceQueued, QueuedUnsent, MeasuredQueued, PastSent, Matched,
         InBatches, Lag
<1>2. FaultsExplained'
  BY DEF MeasurementInv, FaultsExplained, XidInFlight, Lag
<1> QED BY <1>1, <1>2 DEF MeasurementInv, Running

(* A queue that is not behind never falls behind.                          *)
LEMMA LagKept ==
  ASSUME IInv, Lag >= 0, [Next]_vars, fault' = "none"
  PROVE  Lag' >= 0
<1>1. IInv'
  BY InvStep
<1>2. Lag \in Int /\ Lag' \in Int
  <2>1. Lag \in Int
    BY DEF IInv, TypeOK, Lag
  <2>2. Lag' \in Int
    BY <1>1 DEF IInv, TypeOK, Lag
  <2> QED BY <2>1, <2>2
<1> QED BY <1>2, LagStep

LEMMA TimeoutMeasured ==
  ASSUME IInv, MeasurementInv, Timeout, [Next]_vars
  PROVE  MeasurementInv'
<1>1. /\ Running /\ Running' /\ fault' = "none"
      /\ UNCHANGED <<events, measured, sent, past>> /\ batches' = Append(batches, <<>>)
  BY DEF Timeout, Running, AddBarrier
<1>2. Lag' >= 0
  BY <1>1, LagKept DEF MeasurementInv, Orderly
<1>3. /\ \A i \in DOMAIN batches' :
           IF i \in DOMAIN batches THEN batches'[i] = batches[i] ELSE batches'[i] = <<>>
      /\ \A i \in DOMAIN batches : i \in DOMAIN batches' /\ batches'[i] = batches[i]
  <2>1. batches \in Seq(Seq(Mods)) /\ <<>> \in Seq(Mods)
    BY DEF IInv, TypeOK
  <2>2. /\ Len(batches) \in Nat /\ DOMAIN batches = 1 .. Len(batches)
        /\ DOMAIN batches' = 1 .. Len(batches) + 1
        /\ \A i \in DOMAIN batches : batches'[i] = batches[i]
        /\ batches'[Len(batches) + 1] = <<>>
    BY <1>1, <2>1, AppendFacts
  <2> QED BY <2>2
<1>4. DOMAIN <<>> = {} /\ ToSet(<<>>) = {}
  BY DEF ToSet
<1>5. OnceQueued'
  BY <1>1, <1>3, <1>4 DEF MeasurementInv, Orderly, OnceQueued
<1>6. \A m : InBatches(m)' <=> InBatches(m)
  BY <1>3, <1>4 DEF InBatches
<1>7. QueuedUnsent' /\ MeasuredQueued' /\ PastSent' /\ Matched'
  BY <1>1, <1>6 DEF MeasurementInv, Orderly, QueuedUnsent, MeasuredQueued, PastSent, Matched
<1>8. FaultsExplained'
  BY <1>1 DEF FaultsExplained
<1> QED BY <1>2, <1>5, <1>7, <1>8 DEF MeasurementInv, Orderly

LEMMA PushMeasured ==
  ASSUME IInv, MeasurementInv, NEW e \in Mods, PushEvent(e), [Next]_vars
  PROVE  MeasurementInv'
<1>1. /\ Running /\ fault' = "none" /\ events' = Append(events, e)
      /\ e \notin ToSet(sent) /\ UNCHANGED <<batches, measured, sent, epoch, handled, past>>
  BY DEF PushEvent, Unseen, Running, historyVars
<1>2. ToSet(events') \subseteq ToSet(events) \cup {e}
  BY <1>1 DEF IInv, TypeOK, ToSet
<1>3. Orderly'
  BY <1>1, <1>2 DEF MeasurementInv, Orderly, OnceQueued, QueuedUnsent, MeasuredQueued,
                    PastSent, Matched, InBatches, Lag
<1>4. FaultsExplained'
  BY <1>1 DEF FaultsExplained
<1> QED BY <1>3, <1>4 DEF MeasurementInv

(* A FlowMod joins the last batch, and what was queued stays where it is.  *)
LEMMA EnqueuePlaces ==
  ASSUME TypeOK, NEW m \in Mods, Enqueue(m)
  PROVE  /\ \A i \in DOMAIN batches : i \in DOMAIN batches'
              /\ \A j \in DOMAIN batches[i] :
                   j \in DOMAIN batches'[i] /\ batches'[i][j] = batches[i][j]
         /\ \E e, f : \A i \in DOMAIN batches' : \A j \in DOMAIN batches'[i] :
              \/ i = e /\ j = f /\ batches'[i][j] = m
              \/ /\ i \in DOMAIN batches /\ j \in DOMAIN batches[i]
                 /\ batches'[i][j] = batches[i][j]
<1>1. CASE batches = <<>>
  <2>1. batches' = <<<<m>>>>
    BY <1>1 DEF Enqueue
  <2>2. /\ DOMAIN batches' = {1} /\ DOMAIN batches'[1] = {1} /\ batches'[1][1] = m
        /\ DOMAIN batches = {}
    BY <1>1, <2>1
  <2> QED BY <2>2
<1>2. CASE batches # <<>>
  <2> DEFINE e == Len(batches)
             f == Len(batches[e]) + 1
  <2>1. batches' = [batches EXCEPT ![e] = Append(@, m)]
    BY <1>2 DEF Enqueue
  <2>2. /\ DOMAIN batches' = DOMAIN batches /\ e \in DOMAIN batches
        /\ batches[e] \in Seq(Mods) /\ batches'[e] = Append(batches[e], m)
        /\ \A i \in DOMAIN batches \ {e} : batches'[i] = batches[i]
    BY <1>2, <2>1 DEF TypeOK
  <2>3. /\ DOMAIN batches[e] = 1 .. Len(batches[e]) /\ Len(batches[e]) \in Nat
        /\ DOMAIN batches'[e] = 1 .. f
        /\ \A j \in DOMAIN batches[e] : batches'[e][j] = batches[e][j]
        /\ batches'[e][f] = m
    BY <2>2, AppendFacts
  <2> HIDE DEF e, f
  <2>4. f \in Nat /\ \A j \in DOMAIN batches'[e] : j \in DOMAIN batches[e] \/ j = f
    BY <2>3 DEF f
  <2>5. \A j \in DOMAIN batches[e] : j \in DOMAIN batches'[e]
    BY <2>3 DEF f
  <2>6. ASSUME NEW i \in DOMAIN batches', NEW j \in DOMAIN batches'[i]
        PROVE  \/ i = e /\ j = f /\ batches'[i][j] = m
               \/ /\ i \in DOMAIN batches /\ j \in DOMAIN batches[i]
                  /\ batches'[i][j] = batches[i][j]
    BY <2>2, <2>3, <2>4
  <2>7. ASSUME NEW i \in DOMAIN batches
        PROVE  /\ i \in DOMAIN batches'
               /\ \A j \in DOMAIN batches[i] :
                    j \in DOMAIN batches'[i] /\ batches'[i][j] = batches[i][j]
    BY <2>2, <2>3, <2>5
  <2> QED BY <2>6, <2>7
<1> QED BY <1>1, <1>2

LEMMA EnqueuedIn ==
  ASSUME TypeOK, NEW m \in Mods, Enqueue(m)
  PROVE  InBatches(m)'
<1>1. CASE batches = <<>>
  <2>1. 1 \in DOMAIN batches' /\ 1 \in DOMAIN batches'[1] /\ batches'[1][1] = m
    BY <1>1 DEF Enqueue
  <2> QED BY <2>1 DEF InBatches, ToSet
<1>2. CASE batches # <<>>
  <2> DEFINE e == Len(batches)
  <2>1. /\ e \in DOMAIN batches' /\ batches[e] \in Seq(Mods)
        /\ batches'[e] = Append(batches[e], m)
    BY <1>2 DEF Enqueue, TypeOK
  <2>2. Len(batches[e]) + 1 \in DOMAIN batches'[e] /\ batches'[e][Len(batches[e]) + 1] = m
    BY <2>1
  <2> QED BY <2>1, <2>2 DEF InBatches, ToSet
<1> QED BY <1>1, <1>2

LEMMA HandleMeasured ==
  ASSUME IInv, MeasurementInv, HandleEvent, [Next]_vars,
         NEW m, m = Head(events)
  PROVE  MeasurementInv'
<1>1. /\ Running /\ fault' = "none" /\ fault = "none" /\ StartMeasurement(m) /\ Enqueue(m)
      /\ events # <<>> /\ events' = Tail(events) /\ sent' = sent
      /\ past' = [past EXCEPT ![m] = ToSet(sent)]
  BY DEF HandleEvent, Running
<1>2. /\ m \in Mods /\ m = events[1] /\ 1 \in DOMAIN events
      /\ ToSet(events') \subseteq ToSet(events) /\ m \in ToSet(events)
  BY <1>1 DEF IInv, TypeOK, ToSet
<1>3. ~InBatches(m) /\ m \notin ToSet(sent)
  BY <1>1, <1>2 DEF IInv, EventsUnseen, MeasurementInv, Orderly, QueuedUnsent
<1>4. /\ \A i \in DOMAIN batches : i \in DOMAIN batches'
           /\ \A j \in DOMAIN batches[i] :
                j \in DOMAIN batches'[i] /\ batches'[i][j] = batches[i][j]
      /\ \E e, f : \A i \in DOMAIN batches' : \A j \in DOMAIN batches'[i] :
           \/ i = e /\ j = f /\ batches'[i][j] = m
           \/ /\ i \in DOMAIN batches /\ j \in DOMAIN batches[i]
              /\ batches'[i][j] = batches[i][j]
  BY <1>1, <1>2, EnqueuePlaces DEF IInv
<1>5. Orderly
  BY <1>1 DEF MeasurementInv
<1>6. OnceQueued'
  <2>1. \A i \in DOMAIN batches : \A j \in DOMAIN batches[i] : batches[i][j] # m
    BY <1>3 DEF InBatches, ToSet
  <2> QED BY <1>4, <1>5, <2>1 DEF Orderly, OnceQueued
<1>7. \A x : InBatches(x)' => x = m \/ InBatches(x)
  BY <1>1, <1>2, EnqueueFacts DEF IInv
<1>8. \A x : InBatches(x) => InBatches(x)'
  BY <1>4 DEF InBatches, ToSet
<1>9. InBatches(m)'
  BY <1>1, <1>2, EnqueuedIn DEF IInv
<1>10. QueuedUnsent'
  BY <1>1, <1>2, <1>3, <1>5, <1>7 DEF Orderly, QueuedUnsent
<1>11. MeasuredQueued' /\ PastSent' /\ Matched'
  <2>1. \A x \in Mods : past'[x] = IF x = m THEN ToSet(sent) ELSE past[x]
    BY <1>1 DEF IInv, TypeOK
  <2>2. \A x : InBatches(x) => x \in Mods
    BY DEF IInv, TypeOK, InBatches, ToSet
  <2>3. MeasuredQueued'
    BY <1>1, <1>5, <1>8, <1>9 DEF StartMeasurement, Orderly, MeasuredQueued
  <2>4. ToSet(sent') = ToSet(sent)
    BY <1>1
  <2> HIDE DEF ToSet
  <2>5. PastSent'
    BY <1>2, <1>5, <1>7, <2>1, <2>2, <2>4 DEF Orderly, PastSent
  <2>6. measured \subseteq measured' /\ \E n \in measured' : XidOf[n] = XidOf[m]
    BY <1>1 DEF StartMeasurement
  <2>7. Matched'
    BY <1>2, <1>3, <1>5, <1>7, <2>1, <2>2, <2>4, <2>6 DEF Orderly, Matched
  <2> QED BY <2>3, <2>5, <2>7
<1>12. FaultsExplained' /\ Lag' >= 0
  BY <1>1, <1>5, LagKept DEF FaultsExplained, Orderly
<1> QED BY <1>6, <1>10, <1>11, <1>12 DEF MeasurementInv, Orderly
----
(* The batch at the head leaves the queue.                                 *)
LEMMA HeadBatch ==
  ASSUME TypeOK, batches # <<>>, batches' = Tail(batches)
  PROVE  /\ 1 \in DOMAIN batches /\ Head(batches) = batches[1]
         /\ Head(batches) \in Seq(Mods) /\ Len(batches') = Len(batches) - 1
         /\ \A m : InBatches(m) => m \in ToSet(Head(batches)) \/ InBatches(m)'
         /\ \A i \in DOMAIN batches' :
              i \in Nat \ {0} /\ i + 1 \in DOMAIN batches /\ batches'[i] = batches[i + 1]
<1>1. /\ 1 \in DOMAIN batches /\ Head(batches) = batches[1]
      /\ Head(batches) \in Seq(Mods) /\ Len(batches') = Len(batches) - 1
      /\ \A i \in DOMAIN batches' :
           i \in Nat \ {0} /\ i + 1 \in DOMAIN batches /\ batches'[i] = batches[i + 1]
      /\ \A i \in DOMAIN batches : i # 1 => i - 1 \in DOMAIN batches' /\ (i - 1) + 1 = i
  BY DEF TypeOK
<1>2. ASSUME NEW m, InBatches(m), m \notin ToSet(Head(batches)) PROVE InBatches(m)'
  <2>1. PICK i \in DOMAIN batches : m \in ToSet(batches[i])
    BY <1>2 DEF InBatches
  <2>2. i - 1 \in DOMAIN batches' /\ batches'[i - 1] = batches[i]
    BY <1>1, <1>2, <2>1
  <2> QED BY <2>1, <2>2 DEF InBatches
<1> QED BY <1>1, <1>2

(* A batch that is sent leaves the rest in order.                          *)
LEMMA ReleasedOrderly ==
  ASSUME IInv, Orderly, batches # <<>>, batches' = Tail(batches), UNCHANGED <<events, past>>,
         NEW batch, batch = Head(batches),
         sent' = sent \o batch, measured' = measured \ Finished(batch)
  PROVE  OnceQueued' /\ QueuedUnsent' /\ MeasuredQueued' /\ PastSent' /\ Matched'
<1> USE DEF Orderly
<1>1. /\ 1 \in DOMAIN batches /\ batch = batches[1] /\ batch \in Seq(Mods)
      /\ \A m : InBatches(m) => m \in ToSet(batch) \/ InBatches(m)'
      /\ \A i \in DOMAIN batches' :
           i \in Nat \ {0} /\ i + 1 \in DOMAIN batches /\ batches'[i] = batches[i + 1]
  BY HeadBatch DEF IInv
<1>2. ToSet(sent') = ToSet(sent) \cup ToSet(batch)
  BY <1>1, JoinedElements DEF IInv, TypeOK
<1>3. OnceQueued'
  <2> SUFFICES ASSUME NEW i \in DOMAIN batches', NEW k \in DOMAIN batches',
                      NEW j \in DOMAIN batches'[i], NEW l \in DOMAIN batches'[k],
                      batches'[i][j] = batches'[k][l]
               PROVE  i = k /\ j = l
    BY DEF OnceQueued
  <2>1. i + 1 = k + 1 /\ j = l
    BY <1>1 DEF OnceQueued
  <2> QED BY <1>1, <2>1
<1>4. \A m : InBatches(m)' => InBatches(m) /\ m \notin ToSet(batch)
  <2> SUFFICES ASSUME NEW m, InBatches(m)' PROVE InBatches(m) /\ m \notin ToSet(batch)
    OBVIOUS
  <2>1. PICK i \in DOMAIN batches' : m \in ToSet(batches'[i])
    BY DEF InBatches
  <2>2. PICK j \in DOMAIN batches[i + 1] : m = batches[i + 1][j]
    BY <1>1, <2>1 DEF ToSet
  <2>3. i + 1 # 1 /\ i + 1 \in DOMAIN batches
    BY <1>1
  <2>4. \A l \in DOMAIN batch : batch[l] # m
    BY <1>1, <2>2, <2>3 DEF OnceQueued
  <2> QED BY <2>2, <2>3, <2>4 DEF InBatches, ToSet
<1>5. \A m \in ToSet(events) : m \notin ToSet(batch)
  <2> SUFFICES ASSUME NEW i \in DOMAIN events, events[i] \in ToSet(batch) PROVE FALSE
    BY DEF ToSet
  <2>1. InBatches(events[i])
    BY <1>1 DEF InBatches
  <2> QED BY <2>1 DEF IInv, EventsUnseen
<1>6. QueuedUnsent'
  <2>1. ToSet(events') = ToSet(events)
    OBVIOUS
  <2> HIDE DEF ToSet
  <2> QED BY <1>2, <1>4, <1>5, <2>1 DEF QueuedUnsent
<1>7. \A n \in measured : n \in ToSet(batch) => n \in Finished(batch)
  BY DEF Finished, ToSet
<1>8. \A n \in Finished(batch) : \E x \in ToSet(batch) : XidOf[n] = XidOf[x]
  BY DEF Finished, ToSet
<1>9. MeasuredQueued'
  BY <1>1, <1>7 DEF MeasuredQueued
<1>10. ToSet(batch) \cap ToSet(sent) = {}
  <2>1. \A m \in ToSet(batch) : InBatches(m)
    BY <1>1 DEF InBatches
  <2> QED BY <2>1 DEF QueuedUnsent
<1>11. PastSent'
  <2> HIDE DEF ToSet
  <2> QED BY <1>2, <1>4 DEF PastSent
<1>12. Matched'
  <2> SUFFICES ASSUME NEW m, InBatches(m)'
               PROVE  \E n \in measured' \cup (ToSet(sent') \ past'[m]) : XidOf[n] = XidOf[m]
    BY DEF Matched
  <2>1. PICK n \in measured \cup (ToSet(sent) \ past[m]) : XidOf[n] = XidOf[m]
    BY <1>4 DEF Matched
  <2>2. past' = past /\ past[m] \subseteq ToSet(sent)
    BY <1>4 DEF PastSent
  <2>3. CASE n \in measured' \cup (ToSet(sent') \ past'[m])
    BY <2>1, <2>3
  <2>4. CASE n \notin measured' \cup (ToSet(sent') \ past'[m])
    <3>1. n \in Finished(batch)
      BY <1>2, <2>1, <2>2, <2>4
    <3>2. PICK x \in ToSet(batch) : XidOf[n] = XidOf[x]
      BY <1>8, <3>1
    <3>3. x \in ToSet(sent') \ past'[m]
      BY <1>2, <1>10, <2>2, <3>2
    <3> QED BY <2>1, <3>2, <3>3
  <2> QED BY <2>3, <2>4
<1> QED BY <1>3, <1>6, <1>9, <1>11, <1>12

(* The first message that finds no measurement has lost it.                *)
LEMMA UnmatchedExplained ==
  ASSUME IInv, Orderly, batches # <<>>, batches' = Tail(batches),
         NEW batch, batch = Head(batches),
         NEW i \in DOMAIN batch, FinishThrows(batch, i),
         sent' = sent \o SubSeq(batch, 1, i - 1), UNCHANGED past
  PROVE  XidInFlight'
<1> USE DEF Orderly
<1>1. /\ 1 \in DOMAIN batches /\ batch = batches[1] /\ batch \in Seq(Mods)
  BY HeadBatch DEF IInv
<1>2. /\ i \in Nat /\ i >= 1 /\ i <= Len(batch) /\ batch[i] \in Mods
      /\ SubSeq(batch, 1, i - 1) \in Seq(Mods)
      /\ DOMAIN SubSeq(batch, 1, i - 1) = 1 .. i - 1
      /\ \A j \in 1 .. i - 1 : j \in DOMAIN batch /\ SubSeq(batch, 1, i - 1)[j] = batch[j]
  BY <1>1
<1>3. ToSet(sent') = ToSet(sent) \cup {batch[j] : j \in 1 .. i - 1}
  <2>1. ToSet(sent') = ToSet(sent) \cup ToSet(SubSeq(batch, 1, i - 1))
    <3>1. PICK front \in Seq(Mods) : front = SubSeq(batch, 1, i - 1)
      BY <1>2
    <3>2. sent \in Seq(Mods) /\ sent' = sent \o front
      BY <3>1 DEF IInv, TypeOK
    <3>3. ToSet(sent \o front) = ToSet(sent) \cup ToSet(front)
      BY <3>2, JoinedElements
    <3> QED BY <3>1, <3>2, <3>3
  <2>2. ToSet(SubSeq(batch, 1, i - 1)) = {batch[j] : j \in 1 .. i - 1}
    BY <1>2 DEF ToSet
  <2> QED BY <2>1, <2>2
<1>4. InBatches(batch[i])
  BY <1>1 DEF InBatches, ToSet
<1>5. batch[i] \notin ToSet(sent')
  <2>1. batch[i] \notin ToSet(sent)
    BY <1>4 DEF QueuedUnsent
  <2>2. \A j \in 1 .. i - 1 : batch[j] # batch[i]
    BY <1>1, <1>2 DEF OnceQueued
  <2> QED BY <1>3, <2>1, <2>2
<1>6. \E n \in ToSet(sent') \ past'[batch[i]] : XidOf[n] = XidOf[batch[i]]
  <2>1. CASE \A m \in measured : XidOf[m] # XidOf[batch[i]]
    BY <1>3, <1>4, <2>1 DEF Matched
  <2>2. CASE \E j \in 1 .. i - 1 : XidOf[batch[j]] = XidOf[batch[i]]
    <3>1. PICK j \in 1 .. i - 1 : XidOf[batch[j]] = XidOf[batch[i]]
      BY <2>2
    <3>2. InBatches(batch[j])
      BY <1>1, <1>2 DEF InBatches, ToSet
    <3>3. batch[j] \notin past[batch[i]]
      BY <1>4, <3>2 DEF QueuedUnsent, PastSent
    <3> QED BY <1>3, <3>1, <3>3
  <2> QED BY <2>1, <2>2 DEF FinishThrows
<1> QED BY <1>2, <1>5, <1>6 DEF XidInFlight

(* A measurement that was written too early is that of a FlowMod behind,   *)
(* or the queue was not ahead.                                             *)
LEMMA UnfilledExplained ==
  ASSUME IInv, Orderly, batches # <<>>, batches' = Tail(batches), instructions # <<>>,
         NEW batch, batch = Head(batches), sent' = sent \o batch,
         ~(Finished(batch) \subseteq filled), UNCHANGED <<handled, epoch, past>>
  PROVE  Lag' = -1 \/ XidInFlight'
<1> USE DEF Orderly
<1>1. /\ 1 \in DOMAIN batches /\ batch = batches[1] /\ batch \in Seq(Mods)
      /\ Len(batches') = Len(batches) - 1
  BY HeadBatch DEF IInv
<1>2. PICK m \in measured : m \notin filled /\ \E i \in DOMAIN batch : XidOf[m] = XidOf[batch[i]]
  BY DEF Finished
<1>3. m \in Mods /\ InBatches(m) /\ m \notin ToSet(sent)
  BY <1>2 DEF IInv, TypeOK, MeasuredQueued, QueuedUnsent
<1>4. ToSet(sent') = ToSet(sent) \cup ToSet(batch)
  BY <1>1, JoinedElements DEF IInv, TypeOK
<1>5. CASE m \in ToSet(batch)
  <2>1. ~(Lag >= 1)
    BY <1>2, <1>5, InvPlanned DEF PlannedBeforeRelease
  <2>2. /\ Len(batches) \in Nat /\ handled \in Nat /\ epoch \in Nat
    BY DEF IInv, TypeOK
  <2>3. Lag' = Lag - 1 /\ Lag \in Int
    BY <1>1, <2>2 DEF Lag
  <2> QED BY <2>1, <2>3
<1>6. CASE m \notin ToSet(batch)
  <2>1. m \in Mods \ ToSet(sent')
    BY <1>3, <1>4, <1>6
  <2>2. PICK n \in ToSet(batch) : XidOf[m] = XidOf[n]
    BY <1>2 DEF ToSet
  <2>3. InBatches(n)
    BY <1>1, <2>2 DEF InBatches
  <2>4. n \in ToSet(sent') \ past'[m]
    BY <1>3, <1>4, <2>2, <2>3 DEF QueuedUnsent, PastSent
  <2> QED BY <2>1, <2>2, <2>4 DEF XidInFlight
<1> QED BY <1>5, <1>6

LEMMA ReleaseMeasured ==
  ASSUME IInv, MeasurementInv, Release, [Next]_vars
  PROVE  MeasurementInv'
<1> DEFINE throwing(batch) == {i \in DOMAIN batch : FinishThrows(batch, i)}
<1>1. /\ fault = "none" /\ Orderly /\ instructions # <<>> /\ FlushPipeline
      /\ UNCHANGED <<events, filled, epoch, past>>
      /\ fault' # "none" => UNCHANGED handled
  BY DEF Release, Running, MeasurementInv, detectorVars
<1>2. CASE batches = <<>>
  <2>1. UNCHANGED <<batches, sent, measured, fault>>
    BY <1>1, <1>2 DEF FlushPipeline
  <2>2. Lag' >= 0
    BY <1>1, <2>1, LagKept DEF Orderly
  <2>3. OnceQueued' /\ QueuedUnsent' /\ MeasuredQueued' /\ PastSent' /\ Matched'
    BY <1>1, <2>1 DEF Orderly, OnceQueued, QueuedUnsent, MeasuredQueued, PastSent, Matched,
         InBatches
  <2> QED BY <1>1, <2>1, <2>2, <2>3 DEF MeasurementInv, Orderly, FaultsExplained
<1>3. CASE batches # <<>>
  <2>1. PICK batch : batch = Head(batches)
    OBVIOUS
  <2>2. batches' = Tail(batches) /\ SendBatch(batch)
    BY <1>1, <1>3, <2>1 DEF FlushPipeline
  <2>3. CASE throwing(batch) # {}
    <3>1. PICK i \in throwing(batch) :
            sent' = sent \o SubSeq(batch, 1, i - 1) /\ fault' = "unmatched"
      BY <2>2, <2>3 DEF SendBatch
    <3>2. XidInFlight'
      BY <1>1, <1>3, <2>1, <2>2, <3>1, UnmatchedExplained
    <3> QED BY <3>1, <3>2 DEF MeasurementInv, FaultsExplained, Running
  <2>4. CASE throwing(batch) = {}
    <3>1. /\ sent' = sent \o batch /\ measured' = measured \ Finished(batch)
          /\ fault' = IF Saving /\ ~(Finished(batch) \subseteq filled)
                      THEN "unfilled" ELSE "none"
      BY <2>2, <2>4 DEF SendBatch
    <3>2. CASE Saving /\ ~(Finished(batch) \subseteq filled)
      <4>1. fault' = "unfilled" /\ UNCHANGED <<handled, epoch, past>>
        BY <1>1, <3>1, <3>2
      <4>2. Lag' = -1 \/ XidInFlight'
        BY <1>1, <1>3, <2>1, <2>2, <3>1, <3>2, <4>1, UnfilledExplained
      <4> QED BY <3>2, <4>1, <4>2 DEF MeasurementInv, FaultsExplained, Running
    <3>3. CASE ~(Saving /\ ~(Finished(batch) \subseteq filled))
      <4>1. fault' = "none"
        BY <3>1, <3>3
      <4>2. OnceQueued' /\ QueuedUnsent' /\ MeasuredQueued' /\ PastSent' /\ Matched'
        BY <1>1, <1>3, <2>1, <2>2, <3>1, ReleasedOrderly
      <4>3. Lag' >= 0
        BY <1>1, <4>1, LagKept DEF Orderly
      <4> QED BY <4>1, <4>2, <4>3 DEF MeasurementInv, Orderly, FaultsExplained
    <3> QED BY <3>2, <3>3
  <2> QED BY <2>3, <2>4
<1> QED BY <1>2, <1>3

LEMMA MeasurementStep == IInv /\ MeasurementInv /\ [Next]_vars => MeasurementInv'
<1> SUFFICES ASSUME IInv, MeasurementInv, [Next]_vars PROVE MeasurementInv'
  OBVIOUS
<1>1. CASE Timeout
  BY <1>1, TimeoutMeasured
<1>2. CASE Release
  BY <1>2, ReleaseMeasured
<1>3. CASE HandleInstruction
  <2>1. /\ fault = "none" /\ fault' = "none" /\ Orderly
        /\ UNCHANGED <<events, batches, measured, sent, past>>
    BY <1>3 DEF HandleInstruction, Running, MeasurementInv
  <2>2. Lag' >= 0
    BY <2>1, LagKept DEF Orderly
  <2>3. OnceQueued' /\ QueuedUnsent' /\ MeasuredQueued' /\ PastSent' /\ Matched'
    BY <2>1 DEF Orderly, OnceQueued, QueuedUnsent, MeasuredQueued, PastSent, Matched,
         InBatches
  <2> QED BY <2>1, <2>2, <2>3 DEF MeasurementInv, Orderly, FaultsExplained
<1>4. CASE HandleEvent
  <2>1. PICK m : m = Head(events)
    OBVIOUS
  <2> QED BY <1>4, <2>1, HandleMeasured
<1>5. ASSUME NEW m \in Mods, PushEvent(m) PROVE MeasurementInv'
  BY <1>5, PushMeasured
<1>6. CASE \/ EnterWait \/ Wake \/ InstructionsDone \/ EventsDone
           \/ RunFill \/ RunRule \/ RunPrepare \/ UNCHANGED vars
  <2>1. UNCHANGED <<events, batches, measured, sent, fault, handled, epoch, past>>
    BY <1>6 DEF EnterWait, Wake, InstructionsDone, EventsDone, RunFill, RunRule,
                RunPrepare, vars, queueVars, historyVars
  <2> QED BY <2>1, OtherStep
<1> QED BY <1>1, <1>2, <1>3, <1>4, <1>5, <1>6 DEF Next

(* The process terminates while it releases a batch only when FlowMods     *)
(* that shared an xid were in flight together, or when measurements are    *)
(* saved and the queue was not ahead (PerformanceMonitor.cpp).             *)
THEOREM FaultsExplainedHolds == Spec => []FaultsExplained
<1>1. Init => MeasurementInv
  <2> SUFFICES ASSUME Init PROVE MeasurementInv
    OBVIOUS
  <2>1. DOMAIN batches = {} /\ measured = {} /\ ToSet(sent) = {} /\ Lag = 0
    BY DEF Init, ToSet, Lag
  <2>2. Orderly
    BY <2>1 DEF Orderly, OnceQueued, QueuedUnsent, MeasuredQueued, PastSent, Matched,
         InBatches
  <2> QED BY <2>2 DEF Init, MeasurementInv, FaultsExplained
<1> QED BY <1>1, MeasurementStep, InvCorrect, PTL DEF Spec, MeasurementInv
(***************************************************************************)
(* The wake-up protocol.                                                   *)
(***************************************************************************)
Prepares(s) == {i \in DOMAIN s : s[i].op = "prepare"}

(* How the number of prepare tasks follows the queue of the executor.      *)
LEMMA PreparesFinite ==
  ASSUME NEW s \in Seq(Task)
  PROVE  IsFiniteSet(Prepares(s)) /\ Cardinality(Prepares(s)) \in Nat
<1>1. IsFiniteSet(1 .. Len(s))
  BY FS_Interval
<1>2. Prepares(s) \in SUBSET (1 .. Len(s))
  BY DEF Prepares
<1>3. IsFiniteSet(Prepares(s))
  BY <1>1, <1>2, FS_Subset
<1> QED BY <1>3, FS_CardinalityType

LEMMA PrepareAdded ==
  ASSUME NEW s \in Seq(Task), NEW t \in Task, t.op = "prepare"
  PROVE  Cardinality(Prepares(Append(s, t))) = Cardinality(Prepares(s)) + 1
<1>1. Prepares(Append(s, t)) = Prepares(s) \cup {Len(s) + 1}
  BY DEF Prepares
<1>2. Len(s) + 1 \notin Prepares(s)
  BY DEF Prepares
<1> QED BY <1>1, <1>2, PreparesFinite, FS_AddElement

LEMMA OthersAdded ==
  ASSUME NEW s \in Seq(Task), NEW m \in Mods
  PROVE  Prepares(s \o ModTasks(m)) = Prepares(s)
<1> DEFINE t == ModTasks(m)
<1>1. t \in Seq(Task) /\ \A i \in DOMAIN t : t[i].op # "prepare"
  <2>1. FillTask(m) \in Task /\ RuleTask(m) \in Task
    BY DEF FillTask, RuleTask, Task
  <2>2. FillTask(m).op # "prepare" /\ RuleTask(m).op # "prepare"
    BY DEF FillTask, RuleTask
  <2> QED BY <2>1, <2>2 DEF ModTasks
<1> HIDE DEF t
<1>2. /\ DOMAIN (s \o t) = 1 .. Len(s) + Len(t)
      /\ \A i \in DOMAIN s : i \in DOMAIN (s \o t) /\ (s \o t)[i] = s[i]
      /\ \A i \in DOMAIN (s \o t) : i \notin DOMAIN s =>
           i - Len(s) \in DOMAIN t /\ (s \o t)[i] = t[i - Len(s)]
  BY <1>1
<1>3. Prepares(s \o t) = Prepares(s)
  BY <1>1, <1>2 DEF Prepares
<1> QED BY <1>3 DEF t

LEMMA TaskTaken ==
  ASSUME NEW s \in Seq(Task), s # <<>>
  PROVE  Cardinality(Prepares(Tail(s)))
           = IF Head(s).op = "prepare" THEN Cardinality(Prepares(s)) - 1
                                       ELSE Cardinality(Prepares(s))
<1> DEFINE rest == Prepares(s) \ {1}
           f == [i \in Prepares(Tail(s)) |-> i + 1]
<1>1. /\ Tail(s) \in Seq(Task)
      /\ DOMAIN Tail(s) = 1 .. Len(s) - 1
      /\ \A i \in DOMAIN Tail(s) : Tail(s)[i] = s[i + 1]
      /\ DOMAIN s = 1 .. Len(s)
      /\ Head(s) = s[1] /\ Len(s) \in Nat /\ 1 \in DOMAIN s
  OBVIOUS
<1>2. \A i \in Prepares(Tail(s)) : i \in Nat /\ i >= 1 /\ i + 1 \in rest
  BY <1>1 DEF Prepares
<1>3. \A j \in rest : j \in Nat /\ j - 1 \in Prepares(Tail(s)) /\ (j - 1) + 1 = j
  <2> SUFFICES ASSUME NEW j \in rest
               PROVE  j \in Nat /\ j - 1 \in Prepares(Tail(s)) /\ (j - 1) + 1 = j
    OBVIOUS
  <2>1. j \in 2 .. Len(s) /\ s[j].op = "prepare"
    BY <1>1 DEF Prepares
  <2>2. j - 1 \in DOMAIN Tail(s) /\ (j - 1) + 1 = j
    BY <1>1, <2>1
  <2>3. Tail(s)[j - 1] = s[j]
    BY <1>1, <2>2
  <2> QED BY <2>1, <2>2, <2>3 DEF Prepares
<1> HIDE DEF rest
<1>4. f \in Bijection(Prepares(Tail(s)), rest)
  <2>1. f \in [Prepares(Tail(s)) -> rest]
    BY <1>2
  <2>2. \A a, b \in Prepares(Tail(s)) : f[a] = f[b] => a = b
    BY <1>2
  <2>3. \A j \in rest : \E a \in Prepares(Tail(s)) : f[a] = j
    BY <1>3
  <2> QED BY <2>1, <2>2, <2>3 DEF Bijection, Injection, Surjection, IsInjective
<1>5. IsFiniteSet(Prepares(Tail(s))) /\ IsFiniteSet(Prepares(s))
  BY <1>1, PreparesFinite
<1>6. Cardinality(rest) = Cardinality(Prepares(Tail(s)))
  <2>1. ExistsBijection(Prepares(Tail(s)), rest)
    BY <1>4 DEF ExistsBijection
  <2> QED BY <1>5, <2>1, FS_Bijection
<1>7. Cardinality(rest) = IF 1 \in Prepares(s) THEN Cardinality(Prepares(s)) - 1
                                               ELSE Cardinality(Prepares(s))
  BY <1>5, FS_RemoveElement DEF rest
<1>8. 1 \in Prepares(s) <=> Head(s).op = "prepare"
  BY <1>1 DEF Prepares
<1> QED BY <1>6, <1>7, <1>8

(* There are no more prepare tasks than epochs, since each has its own.    *)
LEMMA PreparesPerEpoch ==
  ASSUME IInv
  PROVE  Cardinality(Prepares(tasks)) <= epoch
<1> DEFINE f == [i \in Prepares(tasks) |-> tasks[i].epoch]
<1>1. tasks \in Seq(Task) /\ epoch \in Nat /\ handled \in Nat
  BY DEF IInv, TypeOK
<1>2. \A i \in Prepares(tasks) : i \in DOMAIN tasks /\ i \in Nat /\ IsPrepare(i)
  BY <1>1 DEF Prepares, IsPrepare
<1>3. \A i \in Prepares(tasks) : tasks[i].epoch \in Nat
  <2> SUFFICES ASSUME NEW i \in Prepares(tasks) PROVE tasks[i].epoch \in Nat
    OBVIOUS
  <2>1. tasks[i] \in Task /\ tasks[i].op = "prepare"
    BY <1>1, <1>2 DEF IsPrepare
  <2> QED BY <2>1 DEF Task
<1>4. \A i \in Prepares(tasks) : tasks[i].epoch \in 1 .. epoch
  BY <1>1, <1>2, <1>3 DEF IInv, EpochsInOrder
<1>5. \A i, j \in Prepares(tasks) : j < i => tasks[j].epoch < tasks[i].epoch
  BY <1>1, <1>2 DEF IInv, EpochsInOrder
<1>6. f \in Injection(Prepares(tasks), 1 .. epoch)
  <2>1. f \in [Prepares(tasks) -> 1 .. epoch]
    BY <1>4
  <2>2. \A i, j \in Prepares(tasks) : f[i] = f[j] => i = j
    BY <1>2, <1>3, <1>5
  <2> QED BY <2>1, <2>2 DEF Injection, IsInjective
<1>7. IsFiniteSet(1 .. epoch) /\ Cardinality(1 .. epoch) = epoch
  BY <1>1, FS_Interval
<1> QED BY <1>6, <1>7, FS_Injection

(* There are no more events than FlowMods, since each is another one.      *)
LEMMA EventsPerMod ==
  ASSUME NEW s \in Seq(Mods), \A i \in DOMAIN s : \A j \in 1 .. i - 1 : s[j] # s[i]
  PROVE  Len(s) <= Cardinality(Mods)
<1>1. s \in Injection(1 .. Len(s), Mods)
  <2>1. \A i, j \in 1 .. Len(s) : s[i] = s[j] => i = j
    OBVIOUS
  <2> QED BY <2>1 DEF Injection, IsInjective
<1>2. Cardinality(1 .. Len(s)) = Len(s)
  <2>1. Len(s) \in Nat /\ (1 > Len(s) => Len(s) = 0) /\ Len(s) - 1 + 1 = Len(s)
    OBVIOUS
  <2>2. Cardinality(1 .. Len(s)) = IF 1 > Len(s) THEN 0 ELSE Len(s) - 1 + 1
    BY <2>1, FS_Interval
  <2> QED BY <2>1, <2>2
<1> QED BY <1>1, <1>2, FS_Injection, ConstantsAssumption
----
LEMMA WakesInit == Init => Wakes!Init
<1> SUFFICES ASSUME Init PROVE Wakes!Init
  OBVIOUS
<1>1. Preparing = 0
  <2>1. {i \in DOMAIN tasks : tasks[i].op = "prepare"} = {}
    BY DEF Init
  <2> QED BY <2>1, FS_EmptySet DEF Preparing
<1> QED BY <1>1 DEF Init, Wakes!Init

LEMMA PreparingCounts == Preparing = Cardinality(Prepares(tasks))
BY DEF Preparing, Prepares

(* Every step of the pipeline is a step of the protocol or leaves its      *)
(* variables as they are.                                                  *)
LEMMA WakesStep ==
  ASSUME IInv, TypeOK', IInv', [Next]_vars
  PROVE  [Wakes!Next]_Wakes!vars
<1> USE DEF IInv, TypeOK, queueVars, detectorVars, historyVars, mainVars,
            Wakes!vars, Wakes!Next, Wakes!MainThread
<1>0. tasks' = tasks => Preparing' = Preparing
  BY DEF Preparing
<1>1. CASE EnterWait
  BY <1>0, <1>1 DEF EnterWait, Wakes!EnterWait
<1>2. CASE Wake
  BY <1>0, <1>2 DEF Wake, Wakes!Wake, Wakes!SpuriousWake, Wakes!WakeUp
<1>3. CASE Timeout
  <2>1. epoch + 1 \in Nat /\ PrepareTask(epoch + 1) \in Task
        /\ PrepareTask(epoch + 1).op = "prepare"
    BY DEF PrepareTask, Task
  <2>2. tasks' = Append(tasks, PrepareTask(epoch + 1))
    BY <1>3 DEF Timeout
  <2>3. Preparing' = Preparing + 1
    <3>1. Cardinality(Prepares(tasks')) = Cardinality(Prepares(tasks)) + 1
      BY <2>1, <2>2, PrepareAdded
    <3> QED BY <3>1 DEF Preparing, Prepares
  <2>4. Preparing < MaxEpochs
    <3>1. Cardinality(Prepares(tasks)) <= epoch /\ Cardinality(Prepares(tasks)) \in Nat
      BY PreparesPerEpoch, PreparesFinite
    <3>2. epoch < MaxEpochs /\ epoch \in Nat
      BY <1>3 DEF Timeout
    <3> QED BY <3>1, <3>2, PreparingCounts, ConstantsAssumption
  <2> QED BY <1>3, <2>3, <2>4 DEF Timeout, Wakes!Timeout
<1>4. CASE Release \/ HandleInstruction
  <2>1. /\ pc \in {"instructions", "handling"} /\ pc' \in {"instructions", "handling"}
        /\ instructions # <<>>
        /\ UNCHANGED <<notified, events, tasks>>
    BY <1>4 DEF Release, HandleInstruction
  <2> QED BY <1>0, <2>1 DEF Wakes!HandleInstructions
<1>5. CASE InstructionsDone
  BY <1>0, <1>5 DEF InstructionsDone, Wakes!InstructionsDone
<1>6. CASE HandleEvent
  <2>1. Head(events) \in Mods /\ Len(Tail(events)) = Len(events) - 1 /\ Len(events) > 0
    BY <1>6 DEF HandleEvent
  <2>2. Preparing' = Preparing
    <3>1. tasks' = tasks \o ModTasks(Head(events))
      BY <1>6 DEF HandleEvent
    <3>2. Prepares(tasks') = Prepares(tasks)
      BY <2>1, <3>1, OthersAdded
    <3> QED BY <3>2 DEF Preparing, Prepares
  <2> QED BY <1>6, <2>1, <2>2 DEF HandleEvent, Wakes!HandleEvent
<1>7. CASE EventsDone
  BY <1>0, <1>7 DEF EventsDone, Wakes!EventsDone
<1>8. ASSUME NEW m \in Mods, PushEvent(m) PROVE [Wakes!Next]_Wakes!vars
  <2>1. Len(events') = Len(events) + 1 /\ Len(events) \in Nat
    BY <1>8 DEF PushEvent
  <2>2. Len(events') <= Cardinality(Mods)
    <3>1. \A i \in DOMAIN events' : \A j \in 1 .. i - 1 : events'[j] # events'[i]
      BY DEF EventsUnseen
    <3> QED BY <3>1, EventsPerMod
  <2>3. Cardinality(Mods) \in Nat
    BY ConstantsAssumption, FS_CardinalityType
  <2> QED BY <1>0, <1>8, <2>1, <2>2, <2>3 DEF PushEvent, Notify, Wakes!PushEvent, Wakes!Notify
<1>9. CASE RunFill \/ RunRule
  <2>1. Preparing' = Preparing
    <3>1. tasks # <<>> /\ Head(tasks).op # "prepare" /\ tasks' = Tail(tasks)
      BY <1>9 DEF RunFill, RunRule
    <3>2. Cardinality(Prepares(tasks')) = Cardinality(Prepares(tasks))
      BY <3>1, TaskTaken
    <3> QED BY <3>2 DEF Preparing, Prepares
  <2> QED BY <1>9, <2>1 DEF RunFill, RunRule
<1>10. CASE RunPrepare
  <2>1. tasks # <<>> /\ Head(tasks).op = "prepare" /\ tasks' = Tail(tasks)
    BY <1>10 DEF RunPrepare
  <2>2. Preparing' = Preparing - 1
    <3>1. Cardinality(Prepares(tasks')) = Cardinality(Prepares(tasks)) - 1
      BY <2>1, TaskTaken
    <3> QED BY <3>1 DEF Preparing, Prepares
  <2>3. Preparing > 0
    <3>1. Preparing \in Nat
      BY PreparingCounts, PreparesFinite
    <3>2. Preparing' \in Nat
      <4>1. Cardinality(Prepares(tasks')) \in Nat
        BY PreparesFinite
      <4> QED BY <4>1 DEF Preparing, Prepares
    <3> QED BY <2>2, <3>1, <3>2
  <2>4. instructions' # <<>>
    <3>1. Head(tasks) \in Task
      BY <2>1
    <3>2. Head(tasks).epoch \in Nat
      BY <2>1, <3>1 DEF Task
    <3>3. [epoch |-> Head(tasks).epoch, planned |-> known] \in Instruction
      BY <3>2 DEF Instruction
    <3>4. Len(instructions') = Len(instructions) + 1 /\ Len(instructions) \in Nat
      BY <1>10, <3>3 DEF RunPrepare
    <3>5. Len(instructions') # 0
      BY <3>4
    <3> QED BY <3>5
  <2> QED BY <1>10, <2>2, <2>3, <2>4 DEF RunPrepare, Notify, Wakes!RunPrepare, Wakes!Notify
<1>11. CASE UNCHANGED vars
  BY <1>0, <1>11 DEF vars
<1> QED
  BY <1>1, <1>2, <1>3, <1>4, <1>5, <1>6, <1>7, <1>8, <1>9, <1>10, <1>11 DEF Next

(* The main thread, the queues and the executor of the pipeline take part  *)
(* in the wake-up protocol as WakeLoop describes it, so what holds of the  *)
(* protocol holds of the pipeline: the refinement ImplementsWakeLoop.      *)
THEOREM WakeLoopImplemented == Spec => ImplementsWakeLoop
<1>1. IInv /\ [Next]_vars => TypeOK' /\ IInv'
  BY TypeStep, InvStep DEF IInv
<1>2. IInv /\ [Next]_vars => [Wakes!Next]_Wakes!vars
  BY <1>1, WakesStep
<1> QED
  BY WakesInit, <1>2, InvCorrect, PTL DEF Spec, ImplementsWakeLoop, Wakes!Spec
(***************************************************************************)
(* The FIFO channel.                                                       *)
(***************************************************************************)
Pending == FlattenSeq(batches) \o events

LEMMA PendingType ==
  ASSUME TypeOK
  PROVE  /\ FlattenSeq(batches) \in Seq(Mods) /\ events \in Seq(Mods)
         /\ Pending \in Seq(Mods)
<1>1. FlattenSeq(batches) \in Seq(Mods) /\ events \in Seq(Mods)
  BY FlattenType DEF TypeOK
<1> QED BY <1>1 DEF Pending

LEMMA ChannelInit == Init => Channel!Init
<1> SUFFICES ASSUME Init PROVE Channel!Init
  OBVIOUS
<1>1. Running /\ FlattenSeq(batches) \o events = <<>> /\ sent = <<>>
  BY FlattenEmpty DEF Init, Running
<1> QED BY <1>1 DEF Channel!Init

(* A FlowMod of the controller is accepted.                                *)
LEMMA PushAccepts ==
  ASSUME TypeOK, NEW m \in Mods, PushEvent(m)
  PROVE  Channel!Accept(m)
<1>1. /\ Running /\ Running' /\ Unseen(m) /\ events' = Append(events, m)
      /\ UNCHANGED <<batches, sent>>
  BY DEF PushEvent, Running
<1>2. /\ FlattenSeq(batches) \in Seq(Mods) /\ events \in Seq(Mods)
      /\ batches \in Seq(Seq(Mods))
  BY PendingType DEF TypeOK
<1>3. Pending' = Append(Pending, m)
  <2>1. Pending' = FlattenSeq(batches) \o Append(events, m)
    BY <1>1 DEF Pending
  <2> QED BY <1>2, <2>1, JoinAppend DEF Pending
<1>4. m \notin ToSet(Pending)
  <2>1. ToSet(Pending) = ToSet(FlattenSeq(batches)) \cup ToSet(events)
    BY <1>2, JoinedElements DEF Pending
  <2>2. m \notin ToSet(FlattenSeq(batches))
    <3> SUFFICES ASSUME m \in ToSet(FlattenSeq(batches)) PROVE FALSE
      OBVIOUS
    <3>1. \E i \in DOMAIN batches : m \in ToSet(batches[i])
      BY <1>2, FlattenElements
    <3> QED BY <1>1, <3>1 DEF Unseen
  <2> QED BY <1>1, <2>1, <2>2 DEF Unseen
<1>5. m \notin ToSet(sent)
  BY <1>1 DEF Unseen
<1>6. Channel!ToSet(Pending) = ToSet(Pending) /\ Channel!ToSet(sent) = ToSet(sent)
  BY DEF Channel!ToSet, ToSet
<1> HIDE DEF ToSet
<1>7. m \notin Channel!ToSet(Pending) \cup Channel!ToSet(sent)
  BY <1>4, <1>5, <1>6, Zenon
<1>8. UNCHANGED <<sent, Running>>
  BY <1>1 DEF Running
<1> QED BY <1>1, <1>3, <1>7, <1>8, Zenon DEF Channel!Accept, Pending

(* Taking a FlowMod from the event queue moves it to the last batch, and   *)
(* a barrier adds nothing: what is pending stays as it was.                *)
LEMMA HandleKeeps ==
  ASSUME TypeOK, HandleEvent
  PROVE  Pending' = Pending
<1> DEFINE m == Head(events)
<1>1. /\ Enqueue(m) /\ events' = Tail(events) /\ events # <<>>
      /\ events \in Seq(Mods) /\ batches \in Seq(Seq(Mods)) /\ m \in Mods
      /\ FlattenSeq(batches) \in Seq(Mods)
  BY PendingType DEF HandleEvent, TypeOK
<1> HIDE DEF m
<1>2. FlattenSeq(batches') = Append(FlattenSeq(batches), m)
  <2>1. CASE batches = <<>>
    <3>1. batches' = <<<<m>>>> /\ <<m>> \in Seq(Mods)
      BY <1>1, <2>1 DEF Enqueue
    <3>2. FlattenSeq(batches') = <<m>>
      BY <3>1, FlattenOne
    <3>3. FlattenSeq(batches) = <<>>
      BY <2>1, FlattenEmpty
    <3>4. Append(FlattenSeq(batches), m) = <<m>>
      BY <3>3
    <3> QED BY <3>2, <3>4
  <2>2. CASE batches # <<>>
    <3>1. batches' = [batches EXCEPT ![Len(batches)] = Append(@, m)]
      BY <1>1, <2>2 DEF Enqueue
    <3> QED BY <1>1, <2>2, <3>1, FlattenLast
  <2> QED BY <2>1, <2>2
<1>3. Append(FlattenSeq(batches), m) \o Tail(events) = FlattenSeq(batches) \o events
  BY <1>1, JoinHead DEF m
<1> QED BY <1>1, <1>2, <1>3 DEF Pending

LEMMA TimeoutKeeps ==
  ASSUME TypeOK, Timeout
  PROVE  Pending' = Pending
<1>1. /\ batches' = Append(batches, <<>>) /\ events' = events
      /\ batches \in Seq(Seq(Mods)) /\ <<>> \in Seq(Mods)
      /\ FlattenSeq(batches) \in Seq(Mods)
  BY PendingType DEF Timeout, AddBarrier, TypeOK
<1>2. FlattenSeq(batches') = FlattenSeq(batches) \o <<>>
  BY <1>1, FlattenAppend
<1>3. FlattenSeq(batches) \o <<>> = FlattenSeq(batches)
  BY <1>1
<1> QED BY <1>1, <1>2, <1>3 DEF Pending

(* What is pending starts with the oldest batch.                           *)
LEMMA OldestFirst ==
  ASSUME TypeOK, batches # <<>>
  PROVE  LET batch == Head(batches)
             rest == FlattenSeq(Tail(batches)) \o events
         IN /\ batch \in Seq(Mods) /\ rest \in Seq(Mods) /\ Pending = batch \o rest
            /\ \A n \in 0 .. Len(batch) : SubSeq(Pending, 1, n) = SubSeq(batch, 1, n)
            /\ SubSeq(Pending, Len(batch) + 1, Len(Pending)) = rest
            /\ SubSeq(batch, 1, Len(batch)) = batch
            /\ Len(batch) \in Nat /\ Len(Pending) \in Nat /\ Len(batch) <= Len(Pending)
<1> DEFINE batch == Head(batches)
           back == FlattenSeq(Tail(batches))
<1>1. /\ batches \in Seq(Seq(Mods)) /\ batch \in Seq(Mods) /\ events \in Seq(Mods)
      /\ Tail(batches) \in Seq(Seq(Mods))
  BY DEF TypeOK
<1>2. back \in Seq(Mods)
  BY <1>1, FlattenType
<1>3. FlattenSeq(batches) = batch \o back
  BY <1>1, FlattenTail
<1> HIDE DEF batch, back
<1>4. Pending = batch \o (back \o events)
  <2>1. Pending = (batch \o back) \o events
    BY <1>3 DEF Pending
  <2>2. batch \in Seq(Mods) /\ back \in Seq(Mods) /\ events \in Seq(Mods)
    BY <1>1, <1>2
  <2>3. (batch \o back) \o events = batch \o (back \o events)
    BY ONLY <2>2, JoinAssociative
  <2> QED BY <2>1, <2>3
<1>5. back \o events \in Seq(Mods)
  BY <1>1, <1>2
<1> DEFINE rest == back \o events
<1> HIDE DEF rest
<1>6. \A n \in 0 .. Len(batch) : SubSeq(batch \o rest, 1, n) = SubSeq(batch, 1, n)
  BY <1>1, <1>5, JoinParts DEF rest
<1>7. /\ SubSeq(batch \o rest, Len(batch) + 1, Len(batch \o rest)) = rest
      /\ SubSeq(batch, 1, Len(batch)) = batch
  <2>1. Len(batch) \in 0 .. Len(batch)
    BY <1>1
  <2> QED BY <1>1, <1>5, <2>1, JoinParts DEF rest
<1>8. Len(batch) \in Nat /\ Len(batch \o rest) \in Nat /\ Len(batch) <= Len(batch \o rest)
  BY <1>1, <1>5 DEF rest
<1> QED BY <1>1, <1>4, <1>5, <1>6, <1>7, <1>8 DEF batch, back, rest

(* Releasing a batch delivers it, or a part of it if the process           *)
(* terminates on the way.                                                  *)
LEMMA ReleaseDelivers ==
  ASSUME TypeOK, Release
  PROVE  [Channel!Next]_Channel!vars
<1>1. Running /\ FlushPipeline /\ events' = events
  BY DEF Release
<1>2. CASE batches = <<>>
  BY <1>1, <1>2 DEF FlushPipeline, Channel!vars, Running
<1>3. CASE batches # <<>>
  <2> DEFINE batch == Head(batches)
             rest == FlattenSeq(Tail(batches)) \o events
             throwing == {i \in DOMAIN batch : FinishThrows(batch, i)}
  <2>1. /\ batch \in Seq(Mods) /\ rest \in Seq(Mods) /\ Pending = batch \o rest
        /\ \A n \in 0 .. Len(batch) : SubSeq(Pending, 1, n) = SubSeq(batch, 1, n)
        /\ SubSeq(Pending, Len(batch) + 1, Len(Pending)) = rest
        /\ SubSeq(batch, 1, Len(batch)) = batch
        /\ Len(batch) \in Nat /\ Len(Pending) \in Nat /\ Len(batch) <= Len(Pending)
        /\ DOMAIN batch = 1 .. Len(batch)
    <3>1. batch \in Seq(Mods)
      BY <1>3, OldestFirst, Zenon
    <3>2. DOMAIN batch = 1 .. Len(batch)
      BY <3>1
    <3> QED BY <1>3, <3>2, OldestFirst, Zenon
  <2>2. Pending' = rest /\ SendBatch(batch)
    BY <1>1, <1>3 DEF FlushPipeline, Pending
  <2>3. \/ fault' = "none" /\ sent' = sent \o batch
        \/ fault' # "none" /\ \E n \in 0 .. Len(batch) : sent' = sent \o SubSeq(batch, 1, n)
    <3>1. CASE throwing # {}
      <4>1. PICK i \in throwing : /\ sent' = sent \o SubSeq(batch, 1, i - 1)
                                  /\ fault' = "unmatched"
        BY <2>2, <3>1 DEF SendBatch
      <4>2. i - 1 \in 0 .. Len(batch)
        BY <2>1
      <4> QED BY <4>1, <4>2
    <3>2. CASE throwing = {}
      <4>1. sent' = sent \o batch
        BY <2>2, <3>2 DEF SendBatch
      <4>2. Len(batch) \in 0 .. Len(batch) /\ sent' = sent \o SubSeq(batch, 1, Len(batch))
        BY <2>1, <4>1
      <4> QED BY <4>1, <4>2
    <3> QED BY <3>1, <3>2
  <2> HIDE DEF batch, rest
  <2>4. CASE fault' = "none" /\ sent' = sent \o batch
    <3>1. Running' /\ sent \in Seq(Mods)
      BY <2>4 DEF Running, TypeOK
    <3>2. CASE batch = <<>>
      <4>1. sent' = sent
        BY <2>4, <3>1, <3>2
      <4>2. Pending' = Pending
        <5>1. <<>> \o rest = rest
          BY <2>1
        <5> QED BY <2>1, <2>2, <3>2, <5>1
      <4> QED BY <1>1, <3>1, <4>1, <4>2 DEF Channel!vars, Pending
    <3>3. CASE batch # <<>>
      <4>1. Len(batch) \in 1 .. Len(Pending) /\ Len(batch) \in 0 .. Len(batch)
        BY <2>1, <3>3
      <4>2. sent' = sent \o SubSeq(Pending, 1, Len(batch))
        BY <2>1, <2>4, <4>1
      <4>3. Pending' = SubSeq(Pending, Len(batch) + 1, Len(Pending))
        BY <2>1, <2>2
      <4>4. Channel!Deliver
        BY <1>1, <3>1, <4>1, <4>2, <4>3 DEF Channel!Deliver, Channel!DeliverPrefix, Pending
      <4> QED BY <4>4 DEF Channel!Next
    <3> QED BY <3>2, <3>3
  <2>5. CASE fault' # "none" /\ \E n \in 0 .. Len(batch) : sent' = sent \o SubSeq(batch, 1, n)
    <3>1. PICK n \in 0 .. Len(batch) : sent' = sent \o SubSeq(batch, 1, n)
      BY <2>5
    <3>2. n \in 0 .. Len(Pending) /\ sent' = sent \o SubSeq(Pending, 1, n)
      BY <2>1, <3>1
    <3>3. Running' = FALSE
      BY <2>5 DEF Running
    <3>4. \E k \in 0 .. Len(IF Running THEN Pending ELSE <<>>) :
            sent' = sent \o SubSeq(IF Running THEN Pending ELSE <<>>, 1, k)
      BY <1>1, <3>2
    <3>5. (IF Running THEN Pending ELSE <<>>)' = <<>>
      BY <3>3
    <3>6. Channel!Terminate
      BY <1>1, <3>3, <3>4, <3>5, Zenon DEF Channel!Terminate, Channel!DeliverPrefix, Pending
    <3> QED BY <3>6 DEF Channel!Next
  <2> QED BY <2>3, <2>4, <2>5
<1> QED BY <1>2, <1>3

LEMMA ChannelStep ==
  ASSUME TypeOK, [Next]_vars
  PROVE  [Channel!Next]_Channel!vars
<1>1. ASSUME Pending' = Pending, UNCHANGED <<sent, fault>>
      PROVE  [Channel!Next]_Channel!vars
  BY <1>1 DEF Channel!vars, Pending, Running
<1>2. ASSUME UNCHANGED <<events, batches, sent, fault>>
      PROVE  [Channel!Next]_Channel!vars
  BY <1>2 DEF Channel!vars, Running
<1> USE DEF queueVars, detectorVars, historyVars, mainVars
<1>3. CASE EnterWait \/ Wake \/ HandleInstruction \/ InstructionsDone \/ EventsDone
  BY <1>2, <1>3 DEF EnterWait, Wake, HandleInstruction, InstructionsDone, EventsDone
<1>4. CASE RunFill \/ RunRule \/ RunPrepare
  BY <1>2, <1>4 DEF RunFill, RunRule, RunPrepare
<1>5. CASE Timeout
  BY <1>1, <1>5, TimeoutKeeps DEF Timeout
<1>6. CASE HandleEvent
  BY <1>1, <1>6, HandleKeeps DEF HandleEvent
<1>7. ASSUME NEW m \in Mods, PushEvent(m) PROVE [Channel!Next]_Channel!vars
  <2>1. Channel!Accept(m)
    BY <1>7, PushAccepts
  <2> QED BY <2>1 DEF Channel!Next
<1>8. CASE Release
  BY <1>8, ReleaseDelivers
<1>9. CASE UNCHANGED vars
  BY <1>2, <1>9 DEF vars
<1> QED
  BY <1>3, <1>4, <1>5, <1>6, <1>7, <1>8, <1>9 DEF Next

(* The switches see the FlowMods of the controller in the order it sent    *)
(* them, none of them twice and none left out before one that is sent,     *)
(* whatever batches and epochs they fall into and wherever in a batch the  *)
(* process terminates: the pipeline implements the channel of              *)
(* FlowModChannel.                                                         *)
THEOREM ChannelImplemented == Spec => ImplementsChannel
<1>1. TypeOK /\ [Next]_vars => [Channel!Next]_Channel!vars
  BY ChannelStep
<1> QED
  BY ChannelInit, <1>1, TypeCorrect, PTL DEF Spec, ImplementsChannel, Channel!Spec
====
