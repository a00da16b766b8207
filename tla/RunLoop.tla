------------------------------ MODULE RunLoop ------------------------------
(***************************************************************************)
(* The run loop of Application/Application.m with the timers of            *)
(* Application/NXTimer.m and runtime-sys/linux/timer.c, the callbacks that *)
(* feed its queue, signals, and its release by Application/                *)
(* ApplicationMain.m.                                                      *)
(*                                                                         *)
(* Timers expire in threads of their own (SIGEV_THREAD) and pins interrupt *)
(* anywhere: each runs its callback in one of Contexts, a step at a time.  *)
(* Main runs the loop, the code of the application that the loop calls,    *)
(* and the callback of a timer that the application fires by hand.         *)
(* @synchronized takes no lock (runtime-gcc/mutex.c), so it makes nothing  *)
(* atomic. The queue is the one of BoundedEvents.                          *)
(***************************************************************************)
EXTENDS Naturals, Sequences

CONSTANTS
  Timers,          (* the NXTimer objects of the application                *)
  OneShots,        (* those created with repeats:NO                         *)
  HwPoll, NetPoll, (* the two timers of the loop                            *)
  Gpio,            (* the pins                                              *)
  Main, Contexts,  (* the main thread and what runs callbacks beside it     *)
  Blocks,          (* the heap blocks there are for events                  *)
  Capacity,        (* the capacity of the event queue                       *)
  Cancels,         (* the timers the application invalidates                *)
  Drops,           (* the timers it gives their last release                *)
  NULL

Polls == {HwPoll, NetPoll}
Sources == Timers \cup Polls \cup {Gpio}
Threads == Contexts \cup {Main}

ASSUME SourceAssumption ==
  /\ HwPoll # NetPoll /\ Gpio \notin Polls /\ Polls \cap Timers = {} /\ Gpio \notin Timers
  /\ NULL \notin Sources /\ NULL \notin Blocks
ASSUME TimerAssumption == OneShots \subseteq Timers /\ Cancels \subseteq Timers /\ Drops \subseteq Timers
ASSUME MainAssumption == Main \notin Contexts
ASSUME CapacityAssumption == Capacity \in Nat \ {0}

VARIABLES
  main,      (* where the main thread is                                    *)
  result,    (* how run returned: failed (-1) or done (_exitstatus)        *)
  running,   (* _run                                                        *)
  delegate,  (* _delegate # nil                                             *)
  queue,     (* the events in _app_queue, oldest first                      *)
  closed,    (* its shutdown flag                                           *)
  heap,      (* the sender in the event of each block, NULL when it is free *)
  hand,      (* the event the loop handles, or NULL                         *)
  armed,     (* the sys_timer_t runs: its timer_id is not 0                 *)
  delegated, (* _delegate # nil of each NXTimer                             *)
  alive,     (* the NXTimers that were not deallocated                      *)
  thread     (* what each thread does in a callback, from which source, and *)
             (* the event it has allocated                                  *)

loop == <<main, result, running, delegate>>
events == <<queue, closed, heap, hand>>
timers == <<armed, delegated, alive>>
vars == <<loop, events, timers, thread>>

Idle == [at |-> "idle", from |-> NULL, block |-> NULL]

Init ==
  /\ main = "starting" /\ result = "none" /\ running = FALSE /\ delegate \in BOOLEAN
  /\ queue = <<>> /\ closed = FALSE /\ heap = [b \in Blocks |-> NULL] /\ hand = NULL
  /\ armed = [s \in Timers \cup Polls |-> FALSE]
  /\ delegated = [t \in Timers |-> FALSE]
  /\ alive = [t \in Timers |-> TRUE]
  /\ thread = [c \in Threads |-> Idle]

-----------------------------------------------------------------------------
(* Callbacks.                                                              *)

At(c, place) == thread' = [thread EXCEPT ![c].at = place]

(* What a callback reads of a timer: anything when it was deallocated.  A  *)
(* poll timer lies in the frame of run: one that outlives the run because  *)
(* the other did not start (Application.m:292-301) is read as if that      *)
(* frame were still there.                                                 *)
Reads(s) == IF s \in Timers /\ ~alive[s] THEN BOOLEAN ELSE {armed[s]}

Expire(c, s) ==
  /\ thread[c] = Idle
  /\ armed[s]
  /\ thread' = [thread EXCEPT ![c] = [Idle EXCEPT !.at = "expired", !.from = s]]
  /\ UNCHANGED <<loop, events, timers>>

(* linux_timer_callback looks at the timer's id before it goes on to       *)
(* _timer_callback or to the callback of a poll timer.                     *)
EnterCallback(c) ==
  LET s == thread[c].from IN
  /\ thread[c].at = "expired"
  /\ \E valid \in Reads(s) :
       IF valid THEN At(c, IF s \in Timers THEN "entered" ELSE "send")
       ELSE thread' = [thread EXCEPT ![c] = Idle]
  /\ UNCHANGED <<loop, events, timers>>

(* _timer_callback sends only for a timer that runs, but goes on after it. *)
TimerCallback(c) ==
  /\ thread[c].at = "entered"
  /\ \E valid \in Reads(thread[c].from) : At(c, IF valid THEN "send" ELSE "sent")
  /\ UNCHANGED <<loop, events, timers>>

GpioCallback(c) ==
  /\ thread[c] = Idle
  /\ main # "gone"
  /\ thread' = [thread EXCEPT ![c] = [Idle EXCEPT !.at = "send", !.from = Gpio]]
  /\ UNCHANGED <<loop, events, timers>>

(* Where a callback goes on when it has sent, or could not send.           *)
Sent(c) == IF thread[c].from \in Timers
           THEN [Idle EXCEPT !.at = "sent", !.from = thread[c].from]
           ELSE Idle

Free == {b \in Blocks : heap[b] = NULL}

(* The common first half of the callbacks: the test of the queue and the   *)
(* allocation of the event. Which free block malloc takes does not matter. *)
Allocate(c) ==
  LET b == CHOOSE x \in Free : TRUE IN
  /\ thread[c].at = "send"
  /\ \/ /\ main # "gone" /\ Free # {}
        /\ heap' = [heap EXCEPT ![b] = thread[c].from]
        /\ thread' = [thread EXCEPT ![c].at = "holding", ![c].block = b]
     \/ /\ main = "gone" \/ Free = {}
        /\ thread' = [thread EXCEPT ![c] = Sent(c)]
        /\ UNCHANGED heap
  /\ UNCHANGED <<loop, queue, closed, hand, timers>>

Accepts == main # "gone" /\ ~closed /\ Len(queue) < Capacity

(* Mutation: an event that was not accepted is not freed.                  *)
TryPushKeeps(c) ==
  /\ thread[c].at = "holding"
  /\ queue' = IF Accepts THEN Append(queue, thread[c].block) ELSE queue
  /\ thread' = [thread EXCEPT ![c] = Sent(c)]
  /\ UNCHANGED <<loop, heap, closed, hand, timers>>

(* Mutation: a full queue makes room for the event.                        *)
TryPushOverwrites(c) ==
  /\ thread[c].at = "holding"
  /\ queue' = Append(IF Accepts THEN queue ELSE <<>>, thread[c].block)
  /\ thread' = [thread EXCEPT ![c] = Sent(c)]
  /\ UNCHANGED <<loop, heap, closed, hand, timers>>

(* The second half: push the event, or free it when it is not accepted.    *)
TryPush(c) ==
  /\ thread[c].at = "holding"
  /\ \/ Accepts /\ queue' = Append(queue, thread[c].block) /\ UNCHANGED heap
     \/ ~Accepts /\ heap' = [heap EXCEPT ![thread[c].block] = NULL] /\ UNCHANGED queue
  /\ thread' = [thread EXCEPT ![c] = Sent(c)]
  /\ UNCHANGED <<loop, closed, hand, timers>>

Stopped(t) ==
  /\ armed' = [armed EXCEPT ![t] = FALSE]
  /\ delegated' = [delegated EXCEPT ![t] = FALSE]

(* _timer_callback ends with the invalidation of a timer that does not     *)
(* repeat.                                                                 *)
CallbackEnds(c) ==
  /\ thread[c].at = "sent"
  /\ IF thread[c].from \in OneShots THEN Stopped(thread[c].from) ELSE UNCHANGED <<armed, delegated>>
  /\ thread' = [thread EXCEPT ![c] = Idle]
  /\ UNCHANGED <<loop, events, alive>>

-----------------------------------------------------------------------------
(* Signals. The handler closes the queue, or fails to when it interrupts   *)
(* the holder of the queue's mutex; a delegate that handles the signal may *)
(* release timers as well, as examples/Application/timer/main.m does.      *)

Signal ==
  /\ main \notin {"returned", "gone"}
  /\ closed' \in {closed, TRUE}
  /\ \E dropped \in SUBSET {t \in Drops : alive[t]} :
       /\ alive' = [t \in Timers |-> alive[t] /\ t \notin dropped]
       /\ armed' = [s \in DOMAIN armed |-> armed[s] /\ s \notin dropped]
       /\ delegated' = [t \in Timers |-> delegated[t] /\ t \notin dropped]
  /\ UNCHANGED <<loop, queue, heap, hand, thread>>

-----------------------------------------------------------------------------
(* What the application may do while the loop runs its code.               *)

InApp == main \in {"launching", "handler"} /\ thread[Main] = Idle

(* setDelegate: starts a timer that had no delegate, unless it runs, and   *)
(* stores the delegate in a step of its own.                               *)
SetDelegate(t) ==
  /\ InApp /\ alive[t] /\ ~delegated[t]
  /\ armed' = [armed EXCEPT ![t] = TRUE]
  /\ thread' = [thread EXCEPT ![Main] = [Idle EXCEPT !.at = "delegating", !.from = t]]
  /\ UNCHANGED <<loop, events, delegated, alive>>

StoreDelegate ==
  /\ thread[Main].at = "delegating"
  /\ delegated' = [delegated EXCEPT ![thread[Main].from] = alive[thread[Main].from]]
  /\ thread' = [thread EXCEPT ![Main] = Idle]
  /\ UNCHANGED <<loop, events, armed, alive>>

ClearDelegate(t) ==
  /\ InApp /\ alive[t]
  /\ delegated' = [delegated EXCEPT ![t] = FALSE]
  /\ UNCHANGED <<loop, events, armed, alive, thread>>

Invalidate(t) ==
  /\ InApp /\ alive[t]
  /\ Stopped(t)
  /\ UNCHANGED <<loop, events, alive, thread>>

(* The last release deallocates the timer, which invalidates it first.     *)
Drop(t) ==
  /\ InApp /\ alive[t]
  /\ Stopped(t)
  /\ alive' = [alive EXCEPT ![t] = FALSE]
  /\ UNCHANGED <<loop, events, thread>>

(* fire runs the timer's callback on the spot.                             *)
Fire(t) ==
  /\ InApp /\ alive[t]
  /\ thread' = [thread EXCEPT ![Main] = [Idle EXCEPT !.at = "entered", !.from = t]]
  /\ UNCHANGED <<loop, events, timers>>

Terminate ==
  /\ InApp
  /\ closed' = TRUE
  /\ UNCHANGED <<loop, queue, heap, hand, timers, thread>>

-----------------------------------------------------------------------------
(* The loop.                                                               *)

(* run starts the poll timers. It returns at once when one does not start, *)
(* and then leaves the first one running if it was the second.             *)
StartPolls ==
  /\ main = "starting"
  /\ \/ main' = "returned" /\ result' = "failed" /\ UNCHANGED armed
     \/ main' = "returned" /\ result' = "failed" /\ armed' = [armed EXCEPT ![HwPoll] = TRUE]
     \/ main' = "loop" /\ armed' = [s \in DOMAIN armed |-> armed[s] \/ s \in Polls] /\ UNCHANGED result
  /\ UNCHANGED <<running, delegate, events, delegated, alive, thread>>

Launch ==
  /\ main = "loop" /\ ~running /\ delegate
  /\ main' = "launching"
  /\ UNCHANGED <<result, running, delegate, events, timers, thread>>

Launched ==
  /\ main = "launching" /\ thread[Main] = Idle
  /\ running' = TRUE
  /\ main' = "popping"
  /\ UNCHANGED <<result, delegate, events, timers, thread>>

Popping == main = "popping" \/ (main = "loop" /\ (running \/ ~delegate))

Pop ==
  /\ Popping /\ queue # <<>>
  /\ hand' = Head(queue)
  /\ queue' = Tail(queue)
  /\ main' = "handle"
  /\ UNCHANGED <<result, running, delegate, closed, heap, timers, thread>>

(* Mutation: the loop ends at the shutdown, whatever is in the queue.      *)
StopAtOnce ==
  /\ Popping /\ closed
  /\ armed' = [s \in DOMAIN armed |-> armed[s] /\ s \notin Polls]
  /\ running' = FALSE
  /\ main' = "returned"
  /\ result' = "done"
  /\ UNCHANGED <<delegate, events, delegated, alive, thread>>

(* A NULL from the queue ends the loop and its timers.                     *)
Stop ==
  /\ Popping /\ queue = <<>> /\ closed
  /\ armed' = [s \in DOMAIN armed |-> armed[s] /\ s \notin Polls]
  /\ running' = FALSE
  /\ main' = "returned"
  /\ result' = "done"
  /\ UNCHANGED <<delegate, events, delegated, alive, thread>>

(* The switch on the event: a timer's event reaches its delegate, if it    *)
(* still has one; the polls and the pins call their handlers.              *)
Handle ==
  LET s == heap[hand] IN
  /\ main = "handle"
  /\ \E told \in IF s \notin Timers THEN {TRUE} ELSE IF alive[s] THEN {delegated[s]} ELSE BOOLEAN :
       main' = IF told THEN "handler" ELSE "handled"
  /\ UNCHANGED <<result, running, delegate, events, timers, thread>>

FreeEvent ==
  /\ main \in {"handler", "handled"} /\ thread[Main] = Idle
  /\ heap' = [heap EXCEPT ![hand] = NULL]
  /\ hand' = NULL
  /\ main' = "loop"
  /\ UNCHANGED <<result, running, delegate, queue, closed, timers, thread>>

(* After run, NXApplicationMain releases the application, which takes the  *)
(* GPIO callback away and finalizes the queue, whatever is in it.          *)
Release ==
  /\ main = "returned"
  /\ main' = "gone"
  /\ queue' = <<>>
  /\ closed' = TRUE
  /\ delegate' = FALSE
  /\ UNCHANGED <<result, running, heap, hand, timers, thread>>

-----------------------------------------------------------------------------
Callback(c) == EnterCallback(c) \/ TimerCallback(c) \/ Allocate(c) \/ TryPush(c) \/ CallbackEnds(c)

App ==
  \/ \E t \in Timers : SetDelegate(t) \/ Fire(t)
  \/ \E t \in Cancels : ClearDelegate(t) \/ Invalidate(t)
  \/ \E t \in Drops : Drop(t)
  \/ Terminate

Loop == StartPolls \/ Launch \/ Launched \/ Pop \/ Stop \/ Handle \/ FreeEvent \/ Release

Next ==
  \/ \E c \in Contexts : GpioCallback(c)
  \/ \E c \in Contexts, s \in DOMAIN armed : Expire(c, s)
  \/ \E c \in Threads : Callback(c)
  \/ Signal
  \/ App \/ StoreDelegate
  \/ Loop

Spec == Init /\ [][Next]_vars

(* Threads are scheduled, and the code of the application returns to the   *)
(* loop however often it calls the timers before it does.                  *)
Fairness ==
  /\ WF_vars(Loop)
  /\ SF_vars(Launched) /\ SF_vars(FreeEvent)
  /\ WF_vars(StoreDelegate)
  /\ \A c \in Threads : WF_vars(Callback(c))

FairSpec == Spec /\ Fairness

-----------------------------------------------------------------------------
(* Properties.                                                             *)

Queued == {queue[i] : i \in DOMAIN queue}
Held == {thread[c].block : c \in Threads} \ {NULL}

TypeOK ==
  /\ main \in {"starting", "loop", "launching", "popping", "handle", "handler", "handled",
               "returned", "gone"}
  /\ result \in {"none", "failed", "done"}
  /\ running \in BOOLEAN /\ delegate \in BOOLEAN /\ closed \in BOOLEAN
  /\ queue \in Seq(Blocks) /\ Len(queue) <= Capacity
  /\ heap \in [Blocks -> Sources \cup {NULL}]
  /\ hand \in Blocks \cup {NULL}
  /\ armed \in [Timers \cup Polls -> BOOLEAN]
  /\ delegated \in [Timers -> BOOLEAN] /\ alive \in [Timers -> BOOLEAN]
  /\ thread \in [Threads -> [at : {"idle", "expired", "entered", "send", "holding", "sent", "delegating"},
                             from : Sources \cup {NULL}, block : Blocks \cup {NULL}]]

(* Every event that was allocated has one owner: the callback that is      *)
(* about to push it, a place in the queue, or the loop; and the owner's    *)
(* block is allocated. So none is freed twice, used after it is freed or   *)
(* lost, whoever pushes, drops or handles it. Only the release of an       *)
(* application that failed to run loses what is in its queue.              *)
EventsOwned ==
  /\ \A i, j \in DOMAIN queue : queue[i] = queue[j] => i = j
  /\ \A c, d \in Threads : thread[c].block = thread[d].block => c = d \/ thread[c].block = NULL
  /\ Queued \cap Held = {} /\ hand \notin Queued \cup Held
  /\ \A b \in Queued \cup Held \cup ({hand} \ {NULL}) : heap[b] # NULL
  /\ \/ main = "gone" /\ result = "failed"
     \/ \A b \in Blocks : heap[b] # NULL => b \in Queued \cup Held \cup {hand}

(* "The remaining events in the run loop will be processed" (NXApplication *)
(* .h:67): once run returned its status, no event that was accepted is     *)
(* left, none is accepted any more, and the loop's timers are stopped.     *)
RemainingProcessed ==
  result = "done" =>
    /\ queue = <<>> /\ hand = NULL /\ ~Accepts
    /\ ~armed[HwPoll] /\ ~armed[NetPoll]

(* A terminated application returns from run, whatever callbacks do.       *)
TerminateReturns == closed ~> main \in {"returned", "gone"}

(* An event that was accepted is handled in the end: no later event        *)
(* replaces it and no shutdown discards it.                                *)
AcceptedHandled ==
  \A b \in Blocks :
    (result # "failed" /\ b \in Queued) ~> (hand = b \/ result = "failed")

(* "We retain the sender to ensure it stays alive during the callback"     *)
(* (Application.m:355): the timer of the event that is handled exists.     *)
SenderAlive ==
  main = "handle" /\ heap[hand] \in Timers => alive[heap[hand]]

(* The loop of run ends when it is told to, and handles in the end every   *)
(* event its queue accepted.                                               *)
EventsEnd ==
  /\ TerminateReturns
  /\ AcceptedHandled
=============================================================================
