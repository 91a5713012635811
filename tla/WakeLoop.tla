------------------------------ MODULE WakeLoop ------------------------------
(***************************************************************************)
(* How the main thread of Compromutator::run is woken up: the alarm, the   *)
(* two queues that notify it and the order in which a turn of the loop     *)
(* looks at them.  Only the lengths of the queues matter here.             *)
(*                                                                         *)
(* The alarm has no memory: a notification that finds nobody waiting is    *)
(* lost, and wait() starts without a look at the queues.  What is left in  *)
(* a queue is found again by the next turn that was woken by a             *)
(* notification; a timeout looks at no queue, it has the executor prepare  *)
(* an instruction, which notifies.                                         *)
(* EpochPipeline refines this specification.                               *)
(***************************************************************************)
EXTENDS Integers

CONSTANTS
  MaxQueued,    (* bound on the events in the queue of the proxy           *)
  MaxPrepares   (* bound on the prepare tasks in the queue of the executor *)

VARIABLES
  pc,         (* where the main thread is                                  *)
  notified,   (* a notification reached the waiting main thread            *)
  queued,     (* number of events in the queue of the proxy                *)
  preparing,  (* number of prepare tasks in the queue of the executor      *)
  ready       (* the instruction queue of the detector is not empty        *)

vars == <<pc, notified, queued, preparing, ready>>

Init ==
  /\ pc = "loop"
  /\ notified = FALSE
  /\ queued = 0
  /\ preparing = 0
  /\ ready = FALSE

Notify == notified' = (notified \/ pc = "waiting")

EnterWait ==
  /\ pc = "loop"
  /\ pc' = "waiting"
  /\ notified' = FALSE
  /\ UNCHANGED <<queued, preparing, ready>>

WakeUp ==
  /\ pc = "waiting"
  /\ pc' = "instructions"
  /\ UNCHANGED <<notified, queued, preparing, ready>>

Wake == notified /\ WakeUp

(* A condition variable may wake up without a notification.                *)
SpuriousWake == ~notified /\ WakeUp

(* Variant: a timeout only goes back to wait.                            *)
TimeoutWithoutPrepare ==
  /\ pc = "waiting"
  /\ pc' = "loop"
  /\ UNCHANGED <<notified, queued, preparing, ready>>

(* A notification that comes with the deadline is reported as a timeout,   *)
(* so this does not ask for ~notified.                                     *)
Timeout ==
  /\ pc = "waiting"
  /\ preparing < MaxPrepares
  /\ preparing' = preparing + 1
  /\ pc' = "loop"
  /\ UNCHANGED <<notified, queued, ready>>

HandleInstructions ==
  /\ pc = "instructions"
  /\ ready
  /\ ready' = FALSE
  /\ UNCHANGED <<pc, notified, queued, preparing>>

InstructionsDone ==
  /\ pc = "instructions"
  /\ ~ready
  /\ pc' = "events"
  /\ UNCHANGED <<notified, queued, preparing, ready>>

(* Variant: the queue is popped without a look at its length.            *)
PopUnchecked ==
  /\ pc = "events"
  /\ queued' = queued - 1
  /\ UNCHANGED <<pc, notified, preparing, ready>>

HandleEvent ==
  /\ pc = "events"
  /\ queued > 0
  /\ queued' = queued - 1
  /\ UNCHANGED <<pc, notified, preparing, ready>>

EventsDone ==
  /\ pc = "events"
  /\ queued = 0
  /\ pc' = "loop"
  /\ UNCHANGED <<notified, queued, preparing, ready>>

PushEvent ==
  /\ queued < MaxQueued
  /\ queued' = queued + 1
  /\ Notify
  /\ UNCHANGED <<pc, preparing, ready>>

(* Variant: the instruction queue does not notify.                       *)
PrepareSilently ==
  /\ preparing > 0
  /\ preparing' = preparing - 1
  /\ ready' = TRUE
  /\ UNCHANGED <<pc, notified, queued>>

RunPrepare ==
  /\ preparing > 0
  /\ preparing' = preparing - 1
  /\ ready' = TRUE
  /\ Notify
  /\ UNCHANGED <<pc, queued>>

MainThread ==
  EnterWait \/ HandleInstructions \/ InstructionsDone \/ HandleEvent
    \/ EventsDone

Next ==
  \/ MainThread
  \/ Wake
  \/ SpuriousWake
  \/ Timeout
  \/ PushEvent
  \/ RunPrepare

Spec == Init /\ [][Next]_vars

(* The threads of the process run, a wait ends when its time is up, and    *)
(* notifications are not beaten by the deadline every time.  Nothing makes *)
(* the proxy send events.                                                  *)
Fairness ==
  /\ WF_vars(MainThread)
  /\ WF_vars(Timeout)
  /\ SF_vars(Wake)
  /\ WF_vars(RunPrepare)

FairSpec == Spec /\ Fairness
----
TypeOK ==
  /\ pc \in {"loop", "waiting", "instructions", "events"}
  /\ notified \in BOOLEAN
  /\ queued \in 0 .. MaxQueued
  /\ preparing \in 0 .. MaxPrepares
  /\ ready \in BOOLEAN

(* The residual assumption: from some point on the executor needs more     *)
(* time for a prepare task than the main thread needs to get back into     *)
(* wait().  Nothing in the code ensures it, and without it every           *)
(* notification may be lost.                                               *)
PreparesFindMainWaiting == <>[][RunPrepare => pc = "waiting"]_vars

(* No event stays in the queue for ever, although the notification of any  *)
(* event may be lost: the instruction of a later epoch makes up for it.    *)
EventsServed ==
  PreparesFindMainWaiting => []<>(queued = 0) \/ []<><<HandleEvent>>_vars

(* No instruction stays in the queue for ever, unless events never cease:  *)
(* the main thread does not leave the event queue before it is empty.      *)
InstructionsServed ==
  PreparesFindMainWaiting => []<>(~ready) \/ []<><<PushEvent>>_vars
====
