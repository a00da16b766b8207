------------------------------- MODULE Timers -------------------------------
(***************************************************************************)
(* The timers of runtime-sys (linux, darwin and pico/timer.c) and the two  *)
(* programs of src/examples/runtime that live by them: "clock", whose main *)
(* waits until the timer's callback has run often enough, and "runloop",   *)
(* which has a task on each core, each with a timer on its stack, and one  *)
(* event queue on the stack of the first.                                  *)
(*                                                                         *)
(* A callback runs in a thread of its own (linux), in a worker of the      *)
(* dispatch queue, one at a time for a timer (darwin), or in the interrupt *)
(* of core 0, which stops the task there (pico).  The queue and the        *)
(* waitgroup are what EventQueue and Waitgroup show them to be.            *)
(***************************************************************************)
EXTENDS Integers

CONSTANTS
  Systems,    \* "linux", "darwin", "pico"
  Processors, \* that run callbacks on linux: indices of event_count, 0 and 1
  MaxTold,    \* calls after which a program stops: MAX_ITERATIONS, and 100
  QueueSize   \* of the event queue, 20 in the code
ASSUME TimersAssumption == MaxTold \in Nat \ {0} /\ QueueSize \in Nat \ {0} /\ Processors \subseteq {0, 1}

VARIABLES
  system, example,
  ticker,   \* sys_timer_t: whether it runs
  alarm,    \* the timers the system keeps for each
  due,      \* expiries whose callback is to come
  called,   \* the callbacks under way: of which timer, where, on which core
  count,    \* event_count, iteration_count
  task,     \* where the two tasks are: main (or core 0), and core 1
  ring,     \* the event queue: its events and whether it is shut down
  made,     \* events that were allocated and not freed
  awaited,  \* the waitgroup's counter
  stray     \* history: a callback used the stack of a task that was gone

tickVars == <<system, example, ticker, alarm, due, called, count, task, ring, made, awaited, stray>>

Tasks == {0, 1}       \* and their timers
Slots == {1, 2}       \* a bound on callbacks under way
Free == [of |-> -1, at |-> "free", core |-> 0, read |-> 0]

TimersInit ==
  /\ system \in Systems /\ example \in {"clock", "runloop"}
  /\ ticker = [t \in Tasks |-> FALSE] /\ alarm = [t \in Tasks |-> 0] /\ due = [t \in Tasks |-> 0]
  /\ called = [c \in Slots |-> Free] /\ count = [t \in Tasks |-> 0]
  /\ task = [t \in Tasks |-> IF t = 0 THEN "begin" ELSE "none"]
  /\ ring = [events |-> 0, shut |-> FALSE] /\ made = 0 /\ awaited = 0 /\ stray = FALSE

(* POSIX ends every thread when main has returned, the Pico none.  What    *)
(* happens after a stack that is gone was used is undefined and left out.  *)
Exited == stray \/ (system # "pico" /\ task[0] \in {"returned", "failed"})
HasLeft(t) == task[t] \in {"returned", "failed"}
Interrupted(t) == system = "pico" /\ t = 0 /\ \E c \in Slots : called[c] # Free
Runs(t, at) == ~Exited /\ ~Interrupted(t) /\ task[t] = at
TaskAt(t, at) == task' = [task EXCEPT ![t] = at]
LeaveTimers == UNCHANGED <<ticker, alarm, due>>
LeaveQueue == UNCHANGED <<ring, made>>

-----------------------------------------------------------------------------
(* sys_timer_start of a timer just initialized: what the system may answer.*)
LinuxStarts == {"no timer", "not set", "runs"}
DarwinStarts == {"no source", "runs"}
PicoStarts == {"no pool", "pool full", "runs"}
Starts ==
  CASE system = "linux" -> LinuxStarts [] system = "darwin" -> DarwinStarts [] OTHER -> PicoStarts

(* One that was made and cannot be set is deleted.                         *)
Start(t, outcome) ==
  /\ ticker' = [ticker EXCEPT ![t] = outcome = "runs"]
  /\ alarm' = [alarm EXCEPT ![t] = IF outcome = "runs" THEN @ + 1 ELSE @]
  /\ UNCHANGED due

(* sys_timer_finalize of a timer that runs.  On linux the thread that was  *)
(* started for an expiry stays, a source that was cancelled calls no more. *)
Deleted(t) ==
  /\ ticker' = [ticker EXCEPT ![t] = FALSE] /\ alarm' = [alarm EXCEPT ![t] = @ - 1]
LinuxStop(t) == Deleted(t) /\ UNCHANGED due
DarwinStop(t) == Deleted(t) /\ due' = [due EXCEPT ![t] = 0]
PicoStop(t) == Deleted(t) /\ due' = [due EXCEPT ![t] = 0]

Stop(t) ==
  IF ~ticker[t] THEN LeaveTimers
  ELSE CASE system = "linux" -> LinuxStop(t)
         [] system = "darwin" -> DarwinStop(t)
         [] OTHER -> PicoStop(t)

(* The system (external).                                                  *)
Expires(t) ==
  /\ ~Exited /\ alarm[t] > 0 /\ due[t] = 0
  /\ due' = [due EXCEPT ![t] = 1]
  /\ UNCHANGED <<system, example, ticker, alarm, called, count, task, ring, made, awaited, stray>>

Mine(t) == {c \in Slots : called[c].of = t}
MayCall(t) ==
  CASE system = "linux" -> TRUE
    [] system = "darwin" -> Mine(t) = {}
    [] OTHER -> \A c \in Slots : called[c] = Free

(* linux_timer_callback looks whether the timer runs; the others call.     *)
CallsBack(t) == system = "linux" => ticker[t]

(* sys_thread_core: linux knows the processor.                             *)
Cores == IF system = "linux" THEN Processors ELSE {0}

Enter(t, c) ==
  /\ ~Exited /\ due[t] > 0 /\ called[c] = Free /\ MayCall(t)
  /\ \A d \in Slots : called[d] = Free => c <= d
  /\ due' = [due EXCEPT ![t] = @ - 1]
  /\ \E core \in Cores :
       called' = IF CallsBack(t)
                 THEN [called EXCEPT ![c] = [of |-> t, at |-> "look", core |-> core, read |-> 0]]
                 ELSE called
  /\ stray' = (stray \/ HasLeft(t))
  /\ UNCHANGED <<system, example, ticker, alarm, count, task, ring, made, awaited>>

InCall(c, at) == ~Exited /\ called[c].at = at
CallAt(c, at) == called' = [called EXCEPT ![c].at = at]
CallEnds(c) == called' = [called EXCEPT ![c] = Free]
LeaveCall == UNCHANGED <<system, example, task>>

-----------------------------------------------------------------------------
(* timer_callback of the clock, whose ++ other threads may interleave.     *)
ClockLook(c) ==
  /\ example = "clock" /\ InCall(c, "look")
  /\ called' = [called EXCEPT ![c].at = "count", ![c].read = count[0]]
  /\ LeaveCall /\ LeaveTimers /\ LeaveQueue /\ UNCHANGED <<count, awaited, stray>>

ClockCount(c) ==
  /\ example = "clock" /\ InCall(c, "count")
  /\ count' = [count EXCEPT ![0] = IF called[c].read < MaxTold THEN called[c].read + 1 ELSE @]
  /\ IF called[c].read + 1 >= MaxTold THEN CallAt(c, "stop") ELSE CallEnds(c)
  /\ LeaveCall /\ LeaveTimers /\ LeaveQueue /\ UNCHANGED <<awaited, stray>>

ClockStop(c) ==
  /\ example = "clock"
  /\ \/ InCall(c, "stop") /\ Stop(called[c].of) /\ CallAt(c, "done") /\ UNCHANGED awaited
     \/ /\ InCall(c, "done") /\ CallEnds(c) /\ LeaveTimers
        /\ awaited' = IF awaited > 0 THEN awaited - 1 ELSE 0
  /\ LeaveCall /\ LeaveQueue /\ UNCHANGED <<count, stray>>

(* main of the clock: a waitgroup of one, the timer, and a wait.           *)
ClockMain ==
  /\ example = "clock"
  /\ \/ /\ Runs(0, "begin")
        /\ \E o \in Starts : Start(0, o) /\ TaskAt(0, IF o = "runs" THEN "wait" ELSE "failed")
        /\ awaited' = 1
     \/ Runs(0, "wait") /\ awaited = 0 /\ TaskAt(0, "returned") /\ LeaveTimers /\ UNCHANGED awaited
  /\ LeaveQueue /\ UNCHANGED <<system, example, called, count, stray>>

-----------------------------------------------------------------------------
(* timer_callback of the runloop.  Events enough: the queue is shut down.  *)
RunloopLook(c) ==
  /\ example = "runloop" /\ InCall(c, "look")
  /\ called' = [called EXCEPT ![c].read = count[called[c].core],
                              ![c].at = IF count[called[c].core] >= MaxTold THEN "shut" ELSE "make"]
  /\ stray' = (stray \/ HasLeft(0))
  /\ LeaveCall /\ LeaveTimers /\ LeaveQueue /\ UNCHANGED <<count, awaited>>

(* The event is allocated and counted, or there is no memory.              *)
RunloopMake(c) ==
  /\ example = "runloop" /\ InCall(c, "make")
  /\ \/ /\ made' = made + 1 /\ count' = [count EXCEPT ![called[c].core] = called[c].read + 1]
        /\ CallAt(c, "push")
     \/ CallEnds(c) /\ UNCHANGED <<made, count>>
  /\ LeaveCall /\ LeaveTimers /\ UNCHANGED <<ring, awaited, stray>>

(* sys_event_queue_try_push; an event that is not accepted is freed.       *)
RunloopPush(c) ==
  /\ example = "runloop" /\ InCall(c, "push") /\ CallEnds(c)
  /\ IF ring.shut \/ ring.events = QueueSize
     THEN made' = made - 1 /\ UNCHANGED ring
     ELSE ring' = [ring EXCEPT !.events = @ + 1] /\ UNCHANGED made
  /\ stray' = (stray \/ HasLeft(0))
  /\ LeaveCall /\ LeaveTimers /\ UNCHANGED <<count, awaited>>

(* Mutation: the timer stops, and nobody tells the tasks.                  *)
RunloopShutsNot(c) ==
  /\ example = "runloop" /\ InCall(c, "shut")
  /\ Stop(called[c].of) /\ CallEnds(c) /\ UNCHANGED <<ring, stray>>
  /\ LeaveCall /\ UNCHANGED <<made, count, awaited>>

RunloopShut(c) ==
  /\ example = "runloop"
  /\ \/ /\ InCall(c, "shut") /\ CallAt(c, "stop") /\ LeaveTimers
        /\ ring' = [ring EXCEPT !.shut = TRUE] /\ stray' = (stray \/ HasLeft(0))
     \/ InCall(c, "stop") /\ Stop(called[c].of) /\ CallEnds(c) /\ UNCHANGED <<ring, stray>>
  /\ LeaveCall /\ UNCHANGED <<made, count, awaited>>

(* core0_task starts the other task first, and returns when it cannot.     *)
CreateTask ==
  /\ example = "runloop" /\ Runs(0, "begin")
  /\ \E ok \in BOOLEAN : task' = [task EXCEPT ![0] = IF ok THEN "start" ELSE "failed",
                                              ![1] = IF ok THEN "start" ELSE "none"]
  /\ LeaveTimers /\ LeaveQueue /\ UNCHANGED <<system, example, called, count, awaited, stray>>

(* core0_task and core1_task start a timer and enter the loop.             *)
StartTask(t) ==
  /\ example = "runloop" /\ Runs(t, "start")
  /\ \E o \in Starts : Start(t, o) /\ TaskAt(t, IF o = "runs" THEN "loop" ELSE "failed")
  /\ LeaveQueue /\ UNCHANGED <<system, example, called, count, awaited, stray>>

(* runloop: an event, or NULL when the queue is shut down and empty.       *)
PopEvent(t) ==
  /\ example = "runloop" /\ Runs(t, "loop")
  /\ \/ /\ ring.events > 0 /\ ring' = [ring EXCEPT !.events = @ - 1]
        /\ TaskAt(t, "process")
     \/ ring.events = 0 /\ ring.shut /\ TaskAt(t, "returned") /\ UNCHANGED ring
  /\ LeaveTimers /\ UNCHANGED <<system, example, made, called, count, awaited, stray>>

FreeEvent(t) ==
  /\ Runs(t, "process") /\ TaskAt(t, "loop") /\ made' = made - 1
  /\ LeaveTimers /\ UNCHANGED <<system, example, ring, called, count, awaited, stray>>

CallbackStep(c) ==
  \/ ClockLook(c) \/ ClockCount(c) \/ ClockStop(c)
  \/ RunloopLook(c) \/ RunloopMake(c) \/ RunloopPush(c) \/ RunloopShut(c)
TaskStep(t) == StartTask(t) \/ PopEvent(t) \/ FreeEvent(t)

TimersStep ==
  \/ \E t \in Tasks : Expires(t) \/ TaskStep(t) \/ \E c \in Slots : Enter(t, c)
  \/ \E c \in Slots : CallbackStep(c)
  \/ ClockMain \/ CreateTask

-----------------------------------------------------------------------------
(* The system keeps one timer for each that runs, and none for one that    *)
(* could not be started or was stopped, by whichever thread.               *)
AlarmsMatch == \A t \in Tasks : alarm[t] = IF ticker[t] THEN 1 ELSE 0

(* When both loops have ended every event that was made was freed, and by  *)
(* one task only, unless a callback came after the queue was gone.         *)
AllFreed ==
  task = [t \in Tasks |-> "returned"] /\ (\A c \in Slots : called[c] = Free) /\ ~stray => made = 0

(* The clock's main goes on when its timer is stopped, not before: the     *)
(* timer is on its stack.                                                  *)
StoppedFirst == example = "clock" /\ task[0] = "returned" => ~ticker[0]

OneAtATime == system = "pico" \/ (system = "darwin" /\ example = "clock")

(* A program whose timers run ends: its callback runs often enough and     *)
(* what it does last wakes every task.  (Callbacks that overlap, as on     *)
(* linux, may lose counts for ever.)                                       *)
ProgramEnds ==
  \A t \in Tasks : OneAtATime /\ task[t] \in {"wait", "loop"} ~> HasLeft(t) \/ stray
=============================================================================
