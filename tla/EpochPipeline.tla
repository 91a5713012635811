--------------------------- MODULE EpochPipeline ---------------------------
(***************************************************************************)
(* The life of a FlowMod inside the proxy: the main thread of              *)
(* Compromutator::run, the executor thread of the detector, and the queue  *)
(* with barriers that holds a FlowMod back until the detector has planned  *)
(* its interceptors for it.                                                *)
(*                                                                         *)
(* An epoch ends when the alarm times out.  The main thread then closes    *)
(* the current batch of FlowMods with a barrier and queues a prepare task  *)
(* for the executor; the task leaves an instruction in a queue that wakes  *)
(* the main thread.  A wake-up that finds instructions releases ONE batch  *)
(* and then handles ALL the instructions.  Batches and instructions are    *)
(* paired by nothing but this counting, and what matters is how the counts *)
(* relate: see Lag.                                                        *)
(*                                                                         *)
(* Other events and messages take no part in the counting and are left to  *)
(* other modules; here they show only as spurious wake-ups.                *)
(***************************************************************************)
EXTENDS Integers, Sequences, FiniteSets, SequencesExt

CONSTANTS
  Mods,       (* the FlowMod messages the controller may send             *)
  Tracked,    (* those of them that change the detector's rules           *)
  Xids,       (* pairs of a connection and a transaction id               *)
  XidOf,      (* the pair that identifies the measurement of a FlowMod    *)
  Saving,     (* TRUE when a file for the measurements was given          *)
  MaxEpochs   (* bound on the number of timeouts                          *)

ASSUME ConstantsAssumption ==
  /\ IsFiniteSet(Mods)
  /\ Tracked \subseteq Mods
  /\ XidOf \in [Mods -> Xids]
  /\ Saving \in BOOLEAN
  /\ MaxEpochs \in Nat

VARIABLES
  pc,            (* where the main thread is in Compromutator::run        *)
  notified,      (* a notification reached the waiting main thread        *)
  events,        (* FlowMods in the event queue of the proxy              *)
  batches,       (* the queue with barriers of the pipeline               *)
  tasks,         (* the task queue of the executor                        *)
  instructions,  (* the instruction queue of the detector                 *)
  filled,        (* FlowMods whose measurement the executor has filled    *)
  known,         (* FlowMods whose rules the detector has processed       *)
  measured,      (* FlowMods that own an open measurement                 *)
  sent,          (* FlowMods sent to the switches, oldest first           *)
  fault          (* why the process has terminated, "none" if it has not  *)

(* History, which no guard reads, apart from the bound on epoch.           *)
VARIABLES
  epoch,         (* number of timeouts so far                             *)
  handled,       (* epoch of the last instruction handled                 *)
  born,          (* epoch in which a FlowMod left the event queue         *)
  past           (* FlowMods that had been sent before it did             *)

mainVars == <<pc, notified>>
queueVars == <<events, batches, tasks, instructions>>
detectorVars == <<filled, known>>
historyVars == <<epoch, handled, born, past>>
vars == <<mainVars, queueVars, detectorVars, measured, sent, fault,
          historyVars>>

FillTask(m) == [op |-> "fill", mod |-> m]
RuleTask(m) == [op |-> "rule", mod |-> m]
PrepareTask(e) == [op |-> "prepare", epoch |-> e]

Task == [op : {"fill", "rule"}, mod : Mods] \cup [op : {"prepare"}, epoch : Nat]
Instruction == [epoch : Nat, planned : SUBSET Mods]

Running == fault = "none"

Init ==
  /\ pc = "loop"
  /\ notified = FALSE
  /\ events = <<>>
  /\ batches = <<>>
  /\ tasks = <<>>
  /\ instructions = <<>>
  /\ filled = {}
  /\ known = {}
  /\ measured = {}
  /\ sent = <<>>
  /\ fault = "none"
  /\ epoch = 0
  /\ handled = 0
  /\ born = [m \in Mods |-> 0]
  /\ past = [m \in Mods |-> Mods]
(***************************************************************************)
(* The alarm.  A notification that finds nobody waiting is lost.           *)
(***************************************************************************)
(* Variant: the alarm remembers a notification that finds nobody.        *)
NotifyRemembered == notified' = TRUE

Notify == notified' = (notified \/ pc = "waiting")

EnterWait ==
  /\ Running
  /\ pc = "loop"
  /\ pc' = "waiting"
  /\ notified' = FALSE
  /\ UNCHANGED <<queueVars, detectorVars, measured, sent, fault, historyVars>>

(* A wake-up takes no notification by the queues of this module: other     *)
(* events notify too, and a condition variable may wake up on its own.  A  *)
(* notification that comes with the deadline is reported as a timeout, so  *)
(* Timeout below does not ask for ~notified.                               *)
Wake ==
  /\ Running
  /\ pc = "waiting"
  /\ pc' = "instructions"
  /\ UNCHANGED <<notified, queueVars, detectorVars, measured, sent, fault,
                 historyVars>>

(* A timeout looks at no queue: it adds a barrier, queues a prepare task   *)
(* and goes back to wait.                                                  *)
(* Variant: an epoch ends without a barrier.                             *)
NoBarrier == UNCHANGED batches

AddBarrier == batches' = Append(batches, <<>>)

Timeout ==
  /\ Running
  /\ pc = "waiting"
  /\ epoch < MaxEpochs
  /\ AddBarrier
  /\ tasks' = Append(tasks, PrepareTask(epoch + 1))
  /\ epoch' = epoch + 1
  /\ pc' = "loop"
  /\ UNCHANGED <<notified, events, instructions, detectorVars, measured, sent,
                 fault, handled, born, past>>
(***************************************************************************)
(* Releasing a batch.                                                      *)
(***************************************************************************)

(* Sending the i-th message of a batch finishes its measurement, which     *)
(* throws when no measurement is open under its xid.  A start under an xid *)
(* that is already open is ignored, so two FlowMods that are in flight     *)
(* with the same xid share one measurement.                                *)
FinishThrows(batch, i) ==
  \/ \A m \in measured : XidOf[m] # XidOf[batch[i]]
  \/ \E j \in 1 .. i - 1 : XidOf[batch[j]] = XidOf[batch[i]]

Finished(batch) ==
  {m \in measured : \E i \in DOMAIN batch : XidOf[m] = XidOf[batch[i]]}

(* Variant: the newest message of a batch is sent first.                 *)
SendBatchBackwards(batch) ==
  /\ sent' = sent \o Reverse(batch)
  /\ measured' = measured \ Finished(batch)
  /\ fault' = "none"

(* The batch is sent message by message and then the measurements are      *)
(* written.  An exception or a failed assertion on the way terminates the  *)
(* process, nothing catches it.                                            *)
SendBatch(batch) ==
  LET throwing == {i \in DOMAIN batch : FinishThrows(batch, i)}
  IN IF throwing # {}
     THEN \E i \in throwing :
            /\ \A j \in throwing : i <= j
            /\ sent' = sent \o SubSeq(batch, 1, i - 1)
            /\ measured' = measured \ Finished(SubSeq(batch, 1, i - 1))
            /\ fault' = "unmatched"
     ELSE /\ sent' = sent \o batch
          /\ measured' = measured \ Finished(batch)
          /\ fault' = IF Saving /\ ~(Finished(batch) \subseteq filled)
                      THEN "unfilled"
                      ELSE "none"

FlushPipeline ==
  IF batches = <<>>
  THEN UNCHANGED <<batches, sent, measured, fault>>
  ELSE /\ batches' = Tail(batches)
       /\ SendBatch(Head(batches))

TakeInstruction ==
  /\ instructions' = Tail(instructions)
  /\ handled' = Head(instructions).epoch

(* The flush and the first turn of handle_detector_instruction: only       *)
(* pushes at the far end of the queues can come between the two.           *)
Release ==
  /\ Running
  /\ pc = "instructions"
  /\ instructions # <<>>
  /\ FlushPipeline
  /\ IF fault' = "none"
     THEN TakeInstruction
     ELSE UNCHANGED <<instructions, handled>>
  /\ pc' = "handling"
  /\ UNCHANGED <<notified, events, tasks, detectorVars, epoch, born, past>>

(* The loop goes on while there are instructions, and flushes nothing.     *)
HandleInstruction ==
  /\ Running
  /\ pc = "handling"
  /\ instructions # <<>>
  /\ TakeInstruction
  /\ UNCHANGED <<mainVars, events, batches, tasks, detectorVars, measured,
                 sent, fault, epoch, born, past>>

InstructionsDone ==
  /\ Running
  /\ pc \in {"instructions", "handling"}
  /\ instructions = <<>>
  /\ pc' = "events"
  /\ UNCHANGED <<notified, queueVars, detectorVars, measured, sent, fault,
                 historyVars>>
(***************************************************************************)
(* Events.  The detector's tasks for a FlowMod are queued before the       *)
(* FlowMod itself.                                                         *)
(***************************************************************************)
ModTasks(m) ==
  IF m \in Tracked THEN <<FillTask(m), RuleTask(m)>> ELSE <<FillTask(m)>>

(* Variant: FlowMods that change no rule are not measured.               *)
StartForTrackedOnly(m) ==
  measured' = IF m \in Tracked THEN measured \cup {m} ELSE measured

StartMeasurement(m) ==
  measured' = IF \E n \in measured : XidOf[n] = XidOf[m]
              THEN measured
              ELSE measured \cup {m}

(* Variant: a message is pushed as if it were a batch.                   *)
EnqueueUnwrapped(m) == batches' = Append(batches, m)

(* Variant: a message joins the oldest batch.                            *)
EnqueueInFront(m) ==
  batches' = IF batches = <<>>
             THEN <<<<m>>>>
             ELSE [batches EXCEPT ![1] = Append(@, m)]

Enqueue(m) ==
  batches' = IF batches = <<>>
             THEN <<<<m>>>>
             ELSE [batches EXCEPT ![Len(batches)] = Append(@, m)]

HandleEvent ==
  /\ Running
  /\ pc = "events"
  /\ events # <<>>
  /\ LET m == Head(events)
     IN /\ StartMeasurement(m)
        /\ tasks' = tasks \o ModTasks(m)
        /\ Enqueue(m)
        /\ born' = [born EXCEPT ![m] = epoch]
        /\ past' = [past EXCEPT ![m] = ToSet(sent)]
  /\ events' = Tail(events)
  /\ UNCHANGED <<mainVars, instructions, detectorVars, sent, fault, epoch,
                 handled>>

EventsDone ==
  /\ Running
  /\ pc = "events"
  /\ events = <<>>
  /\ pc' = "loop"
  /\ UNCHANGED <<notified, queueVars, detectorVars, measured, sent, fault,
                 historyVars>>

(* A connection thread of the proxy queues a FlowMod of the controller.    *)
Unseen(m) ==
  /\ m \notin ToSet(events) \cup ToSet(sent)
  /\ \A i \in DOMAIN batches : m \notin ToSet(batches[i])

PushEvent(m) ==
  /\ Running
  /\ Unseen(m)
  /\ events' = Append(events, m)
  /\ Notify
  /\ UNCHANGED <<pc, batches, tasks, instructions, detectorVars, measured,
                 sent, fault, historyVars>>
(***************************************************************************)
(* The executor runs its tasks one at a time, oldest first.                *)
(***************************************************************************)
RunFill ==
  /\ Running
  /\ tasks # <<>>
  /\ Head(tasks).op = "fill"
  /\ filled' = filled \cup {Head(tasks).mod}
  /\ tasks' = Tail(tasks)
  /\ UNCHANGED <<mainVars, events, batches, instructions, known, measured,
                 sent, fault, historyVars>>

(* Left out: a change or a removal of a rule that is not there throws in   *)
(* this task (Detector.cpp:150, Network.cpp:144) and ends the process.     *)
RunRule ==
  /\ Running
  /\ tasks # <<>>
  /\ Head(tasks).op = "rule"
  /\ known' = known \cup {Head(tasks).mod}
  /\ tasks' = Tail(tasks)
  /\ UNCHANGED <<mainVars, events, batches, instructions, filled, measured,
                 sent, fault, historyVars>>

(* An instruction is queued even when it is empty: it is what releases a   *)
(* batch.                                                                  *)
RunPrepare ==
  /\ Running
  /\ tasks # <<>>
  /\ Head(tasks).op = "prepare"
  /\ instructions' = Append(instructions, [epoch |-> Head(tasks).epoch,
                                           planned |-> known])
  /\ tasks' = Tail(tasks)
  /\ Notify
  /\ UNCHANGED <<pc, events, batches, detectorVars, measured, sent, fault,
                 historyVars>>
----
Next ==
  \/ EnterWait
  \/ Wake
  \/ Timeout
  \/ Release
  \/ HandleInstruction
  \/ InstructionsDone
  \/ HandleEvent
  \/ EventsDone
  \/ \E m \in Mods : PushEvent(m)
  \/ RunFill
  \/ RunRule
  \/ RunPrepare

Spec == Init /\ [][Next]_vars
(***************************************************************************)
(* By how many batches the queue is ahead of the epochs whose instruction  *)
(* is still to be handled.                                                 *)
(***************************************************************************)
Lag == Len(batches) + handled - epoch

TypeOK ==
  /\ pc \in {"loop", "waiting", "instructions", "handling", "events"}
  /\ notified \in BOOLEAN
  /\ events \in Seq(Mods)
  /\ batches \in Seq(Seq(Mods))
  /\ tasks \in Seq(Task)
  /\ instructions \in Seq(Instruction)
  /\ filled \subseteq Mods
  /\ known \subseteq Mods
  /\ measured \subseteq Mods
  /\ sent \in Seq(Mods)
  /\ fault \in {"none", "unmatched", "unfilled"}
  /\ epoch \in Nat
  /\ handled \in Nat
  /\ born \in [Mods -> Nat]
  /\ past \in [Mods -> SUBSET Mods]

(* What the barriers are for: a FlowMod goes to its switch only with an    *)
(* instruction that was prepared after the detector had processed it, so   *)
(* that the interceptors and the final statistics requests it calls for    *)
(* are sent with it.  The counting gives this once the queue is ahead, and *)
(* only then: while Lag is 0 a FlowMod that arrives between a timeout and  *)
(* its instruction joins the batch that this instruction releases.         *)
PlannedBeforeRelease ==
  instructions # <<>> /\ Lag >= 1 =>
    \A m \in ToSet(Head(batches)) :
      /\ m \in filled
      /\ m \in Tracked => m \in Head(instructions).planned

(* The queue never falls behind again: a batch is opened for every epoch   *)
(* and at most one is released per instruction, so the number of epochs a  *)
(* FlowMod is held back grows with every wake-up that handles several      *)
(* instructions and never shrinks.                                         *)
LagNeverShrinks == [][fault' = "none" => Lag' >= Lag]_vars

(* Why the process may terminate while it releases a batch: a FlowMod that *)
(* was in flight together with one of the same xid had no measurement of   *)
(* its own to finish, or finished that of the other one before it was      *)
(* filled; or the measurements of the batch itself were not filled, which  *)
(* takes a queue that is not ahead (the batch is gone, its instruction is  *)
(* not, hence the -1).  In flight together: n was sent when m had left the *)
(* event queue, and m has not been sent; with a FlowMod that has not left  *)
(* the event queue none is, since everything is past for it.               *)
XidInFlight ==
  \E m \in Mods \ ToSet(sent) : \E n \in ToSet(sent) \ past[m] :
    XidOf[m] = XidOf[n]

FaultsExplained ==
  /\ fault = "unmatched" => XidInFlight
  /\ fault = "unfilled" => Saving /\ (Lag = -1 \/ XidInFlight)

(* The pipeline implements a FIFO channel: FlowMods reach the switches in  *)
(* the order the controller sent them, each of them once, whatever batches *)
(* and epochs they fall into.                                              *)
Channel == INSTANCE FlowModChannel
             WITH inflight <- IF Running THEN FlattenSeq(batches) \o events
                                         ELSE <<>>,
                  delivered <- sent,
                  open <- Running

ImplementsChannel == Channel!Spec

(* The main thread takes part in the wake-up protocol of WakeLoop.         *)
Preparing == Cardinality({i \in DOMAIN tasks : tasks[i].op = "prepare"})

Wakes == INSTANCE WakeLoop
           WITH pc <- IF pc = "handling" THEN "instructions" ELSE pc,
                queued <- Len(events),
                preparing <- Preparing,
                ready <- instructions # <<>>,
                MaxQueued <- Cardinality(Mods),
                MaxPrepares <- MaxEpochs

ImplementsWakeLoop == Wakes!Spec

(* PerformanceMeasurement::str asserts that the measurement was filled.    *)
DataFilled == fault # "unfilled"
(***************************************************************************)
(* The inductive invariant behind PlannedBeforeRelease and                 *)
(* LagNeverShrinks.  Epochs order everything: the instructions, the        *)
(* prepare tasks behind them, the tasks of a FlowMod between the prepare   *)
(* tasks, and the batches.                                                 *)
(***************************************************************************)
IsPrepare(i) == tasks[i].op = "prepare"

InBatches(m) == \E i \in DOMAIN batches : m \in ToSet(batches[i])

EpochsInOrder ==
  /\ handled <= epoch
  /\ \A k \in DOMAIN instructions :
       /\ handled < instructions[k].epoch
       /\ instructions[k].epoch <= epoch
       /\ \A l \in 1 .. k - 1 : instructions[l].epoch < instructions[k].epoch
  /\ \A i \in DOMAIN tasks : IsPrepare(i) =>
       /\ handled < tasks[i].epoch
       /\ tasks[i].epoch <= epoch
       /\ \A k \in DOMAIN instructions : instructions[k].epoch < tasks[i].epoch
       /\ \A j \in 1 .. i - 1 : IsPrepare(j) => tasks[j].epoch < tasks[i].epoch

(* A prepare task never overtakes the tasks of an older FlowMod.           *)
TasksInOrder ==
  \A i \in DOMAIN tasks : \A j \in 1 .. i - 1 :
    ~IsPrepare(i) /\ IsPrepare(j) => tasks[j].epoch <= born[tasks[i].mod]

NoTaskLost ==
  \A m \in Mods : InBatches(m) =>
    /\ m \in filled \/ \E i \in DOMAIN tasks : tasks[i] = FillTask(m)
    /\ m \in Tracked =>
         m \in known \/ \E i \in DOMAIN tasks : tasks[i] = RuleTask(m)

InstructionsComplete ==
  \A k \in DOMAIN instructions, m \in Mods :
    InBatches(m) /\ born[m] < instructions[k].epoch =>
      /\ m \in filled
      /\ m \in Tracked => m \in instructions[k].planned

BatchesInOrder ==
  \A i \in DOMAIN batches : \A m \in ToSet(batches[i]) :
    born[m] + Len(batches) <= epoch + i

EventsUnseen ==
  \A i \in DOMAIN events :
    /\ ~InBatches(events[i])
    /\ \A j \in 1 .. i - 1 : events[j] # events[i]

IInv ==
  /\ TypeOK
  /\ EpochsInOrder
  /\ TasksInOrder
  /\ NoTaskLost
  /\ InstructionsComplete
  /\ BatchesInOrder
  /\ EventsUnseen
====
