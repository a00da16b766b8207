--------------------------- MODULE EventQueuePico ---------------------------
(***************************************************************************)
(* The event queue over the primitives of runtime-sys/pico: a mutex that   *)
(* spins, and a condition variable made of a semaphore, a count of waiters *)
(* and a second mutex that protects the count.  The ring itself, the same  *)
(* code as in EventQueue, is the sequence of its contents.                 *)
(*                                                                         *)
(* Taking a mutex is a step of its own, because an interrupt handler may   *)
(* run between it and the end of the critical section, and while it runs   *)
(* the thread it interrupted stands still.                                 *)
(***************************************************************************)
EXTENDS Integers, Sequences, FiniteSets

CONSTANTS
  Producers,   (* callers of push and try_push, handlers included           *)
  Consumers,   (* callers of pop, try_pop and timed_pop                     *)
  Closers,     (* callers of shutdown                                       *)
  Handlers,    (* the producers that are interrupt handlers                 *)
  Victim,      (* for each handler, the threads of the core it interrupts   *)
  Events,      (* what is pushed                                            *)
  Capacity,    (* the size of the ring                                      *)
  MaxPermits,  (* the bound of the semaphore, 1024                          *)
  NULL, NoThread

Threads == Producers \cup Consumers \cup Closers

ASSUME CapacityAssumption == Capacity \in Nat \ {0}
ASSUME ConsumersAssumption == IsFiniteSet(Consumers)
ASSUME PermitsAssumption == MaxPermits \in Nat /\ MaxPermits >= Cardinality(Consumers)
ASSUME ThreadsAssumption == NoThread \notin Threads /\ NULL \notin Events
ASSUME HandlersAssumption ==
  Handlers \subseteq Producers /\ Victim \in [Handlers -> SUBSET (Threads \ Handlers)]

VARIABLES
  queue,     (* the events in the ring, oldest first                        *)
  shutdown,  (* the shutdown flag                                           *)
  owner,     (* the thread that holds queue->mutex                          *)
  permits,   (* the permits of the semaphore of not_empty                   *)
  waiters,   (* waiters_count of not_empty                                  *)
  counter,   (* the thread that holds waiters_lock, or NoThread             *)
  pc,        (* where each thread is                                        *)
  arg, out   (* the argument and the outcome of each thread's call          *)

vars == <<queue, shutdown, owner, permits, waiters, counter, pc, arg, out>>
ring == <<queue, shutdown>>
cond == <<permits, waiters, counter>>

Init ==
  /\ queue = <<>>
  /\ shutdown = FALSE
  /\ owner = NoThread
  /\ permits = 0
  /\ waiters = 0
  /\ counter = NoThread
  /\ pc = [t \in Threads |-> "idle"]
  /\ arg = [t \in Threads |-> NULL]
  /\ out = [t \in Threads |-> NULL]

-----------------------------------------------------------------------------
(* A thread runs unless a handler interrupts its core.                     *)
Runs(t) == \A h \in Handlers : t \in Victim[h] => pc[h] = "idle"

Goto(t, p) == pc' = [pc EXCEPT ![t] = p]

Enter(t, c) ==
  /\ Runs(t)
  /\ pc[t] = "idle"
  /\ Goto(t, c)
  /\ UNCHANGED <<ring, owner, cond, out>>

CallPush(t) ==
  /\ t \in Producers
  /\ \E e \in Events : arg' = [arg EXCEPT ![t] = e]
  /\ \E c \in {"push", "tryPush"} : Enter(t, c)

CallPop(t) ==
  /\ t \in Consumers
  /\ \E c \in {"pop", "tryPop", "timedPop"} : Enter(t, c)
  /\ UNCHANGED arg

CallShutdown(t) == t \in Closers /\ Enter(t, "shutdown") /\ UNCHANGED arg

Return(t, v) ==
  /\ Goto(t, "idle")
  /\ out' = [out EXCEPT ![t] = v]
  /\ arg' = [arg EXCEPT ![t] = NULL]

(* Where a thread waits for queue->mutex: at the start of a call, and at   *)
(* the end of a wait on not_empty.                                         *)
Wanting == {"push", "tryPush", "pop", "tryPop", "timedPop", "shutdown",
            "popWoken", "timedWoken", "expired"}

(* mutex_enter_blocking on queue->mutex, which is not recursive.           *)
Lock(t) ==
  /\ Runs(t)
  /\ pc[t] \in Wanting
  /\ owner = NoThread
  /\ owner' = t
  /\ UNCHANGED <<ring, cond, pc, arg, out>>

(* A critical section, entered with queue->mutex and ended by releasing it.*)
Section(t, c) == owner = t /\ pc[t] = c /\ Runs(t) /\ owner' = NoThread

-----------------------------------------------------------------------------
(* sys_cond_broadcast.                                                     *)

(* Mutation: the permits released are those that no waiter counts for yet. *)
BroadcastOnce ==
  /\ counter = NoThread
  /\ permits' = IF waiters > 0 /\ permits = 0 THEN 1 ELSE permits
  /\ UNCHANGED <<waiters, counter>>

(* It reads waiters_count under waiters_lock and releases that many        *)
(* permits, each unless the semaphore is at its bound.                     *)
Broadcast ==
  /\ counter = NoThread
  /\ permits' = IF permits + waiters > MaxPermits THEN MaxPermits ELSE permits + waiters
  /\ UNCHANGED <<waiters, counter>>

-----------------------------------------------------------------------------
(* Producers and closers.                                                  *)

Push(t) ==
  /\ Section(t, "push")
  /\ \/ shutdown /\ Return(t, "failed") /\ UNCHANGED <<queue, cond>>
     \/ /\ ~shutdown
        /\ queue' = Append(IF Len(queue) = Capacity THEN Tail(queue) ELSE queue, arg[t])
        /\ Broadcast
        /\ Return(t, "ok")
  /\ UNCHANGED shutdown

(* Mutation: try_push on a full queue drops the oldest event as push does. *)
TryPushOverwrites(t) ==
  /\ Section(t, "tryPush")
  /\ ~shutdown
  /\ queue' = Append(IF Len(queue) = Capacity THEN Tail(queue) ELSE queue, arg[t])
  /\ Broadcast
  /\ Return(t, "ok")
  /\ UNCHANGED shutdown

TryPush(t) ==
  /\ Section(t, "tryPush")
  /\ \/ /\ shutdown \/ Len(queue) = Capacity
        /\ Return(t, "failed")
        /\ UNCHANGED <<queue, cond>>
     \/ /\ ~shutdown /\ Len(queue) < Capacity
        /\ queue' = Append(queue, arg[t])
        /\ Broadcast
        /\ Return(t, "ok")
  /\ UNCHANGED shutdown

(* Mutation: shutdown sets its flag and wakes nobody.                      *)
ShutdownSilently(t) ==
  /\ Section(t, "shutdown")
  /\ shutdown' = TRUE
  /\ Return(t, "ok")
  /\ UNCHANGED <<queue, cond>>

Shutdown(t) ==
  /\ Section(t, "shutdown")
  /\ shutdown' = TRUE
  /\ Broadcast
  /\ Return(t, "ok")
  /\ UNCHANGED queue

-----------------------------------------------------------------------------
(* Consumers.                                                              *)

Take(t) ==
  /\ queue # <<>>
  /\ queue' = Tail(queue)
  /\ Return(t, Head(queue))
  /\ UNCHANGED <<shutdown, cond>>

TakeNothing(t) == Return(t, NULL) /\ UNCHANGED <<ring, cond>>

(* sys_cond_wait up to sem_acquire_blocking: the waiter counts itself and  *)
(* releases queue->mutex.                                                  *)
Block(t, where) ==
  /\ queue = <<>> /\ ~shutdown
  /\ counter = NoThread
  /\ waiters' = waiters + 1
  /\ Goto(t, where)
  /\ UNCHANGED <<ring, permits, counter, arg, out>>

Pop(t) ==
  /\ Section(t, "pop") \/ Section(t, "popWoken")
  /\ \/ Block(t, "popWait")
     \/ Take(t)
     \/ queue = <<>> /\ shutdown /\ TakeNothing(t)

TryPop(t) ==
  /\ Section(t, "tryPop")
  /\ Take(t) \/ (queue = <<>> /\ TakeNothing(t))

TimedPop(t) ==
  \/ /\ Section(t, "timedPop")
     /\ \/ Block(t, "timedWait")
        \/ Take(t)
        \/ queue = <<>> /\ shutdown /\ TakeNothing(t)
  \/ /\ Section(t, "timedWoken")
     /\ Take(t) \/ (queue = <<>> /\ TakeNothing(t))
  \/ Section(t, "expired") /\ TakeNothing(t)

(* sem_acquire_blocking and a successful sem_acquire_timeout_us.           *)
AcquirePermit(t) ==
  /\ Runs(t)
  /\ permits > 0
  /\ permits' = permits - 1
  /\ \/ pc[t] = "popWait" /\ Goto(t, "popSignaled")
     \/ pc[t] = "timedWait" /\ Goto(t, "timedSignaled")
  /\ UNCHANGED <<ring, owner, waiters, counter, arg, out>>

(* sem_acquire_timeout_us gives up.                                        *)
Expire(t) ==
  /\ Runs(t)
  /\ pc[t] = "timedWait"
  /\ permits = 0
  /\ Goto(t, "timedOut")
  /\ UNCHANGED <<ring, owner, cond, arg, out>>

(* After the semaphore the thread takes waiters_lock, without queue->mutex,*)
(* and uncounts itself.                                                    *)
LockCount(t) ==
  /\ Runs(t)
  /\ pc[t] \in {"popSignaled", "timedSignaled", "timedOut"}
  /\ counter = NoThread
  /\ counter' = t
  /\ UNCHANGED <<ring, owner, permits, waiters, pc, arg, out>>

Uncount(t) ==
  /\ Runs(t)
  /\ counter = t
  /\ counter' = NoThread
  /\ waiters' = waiters - 1
  /\ \/ pc[t] = "popSignaled" /\ Goto(t, "popWoken")
     \/ pc[t] = "timedSignaled" /\ Goto(t, "timedWoken")
     \/ pc[t] = "timedOut" /\ Goto(t, "expired")
  /\ UNCHANGED <<ring, owner, permits, arg, out>>

-----------------------------------------------------------------------------
Calling(t) == CallPush(t) \/ CallPop(t) \/ CallShutdown(t)

Progress(t) ==
  \/ Push(t) \/ TryPush(t) \/ Shutdown(t) \/ Pop(t) \/ TryPop(t) \/ TimedPop(t)
  \/ LockCount(t) \/ Uncount(t)

Advance(t) == Lock(t) \/ Progress(t) \/ AcquirePermit(t) \/ Expire(t)

Next == \E t \in Threads : Calling(t) \/ Advance(t)

-----------------------------------------------------------------------------
(* Properties.                                                             *)

Sleepers == {t \in Threads : pc[t] \in {"popWait", "timedWait"}}
Signaled == {t \in Threads : pc[t] \in {"popSignaled", "timedSignaled", "timedOut"}}

TypeOK ==
  /\ queue \in Seq(Events) /\ Len(queue) <= Capacity
  /\ shutdown \in BOOLEAN
  /\ owner \in Threads \cup {NoThread}
  /\ counter \in Threads \cup {NoThread}
  /\ permits \in 0 .. MaxPermits
  /\ waiters \in 0 .. Cardinality(Consumers)
  /\ pc \in [Threads -> Wanting \cup {"idle", "popWait", "timedWait",
                         "popSignaled", "timedSignaled", "timedOut"}]
  /\ arg \in [Threads -> Events \cup {NULL}]
  /\ out \in [Threads -> Events \cup {NULL, "ok", "failed"}]

(* waiters_count, updated under two different locks, counts the threads    *)
(* between the start of a wait and its uncounting.                         *)
WaitersCount == waiters = Cardinality(Sleepers \cup Signaled)

(* While an event is there to take or the queue is shut down, every        *)
(* sleeper has a permit: a thread that starts to wait later cannot take it *)
(* away, although permits outlive the broadcast that released them.        *)
NoLostWakeup == queue # <<>> \/ shutdown => permits >= Cardinality(Sleepers)

(* A consumer does not keep waiting once the queue is shut down.           *)
ShutdownReleases == \A t \in Consumers : shutdown /\ pc[t] # "idle" ~> pc[t] = "idle"

(* A timed_pop returns, stale permits and time-outs notwithstanding.       *)
TimedPopReturns == \A t \in Consumers : pc[t] = "timedPop" ~> pc[t] = "idle"

(* The queue implements BoundedEvents, the queue every platform promises.  *)
CallName(p) ==
  CASE p = "idle" -> "none"
    [] p \in {"popWait", "popSignaled", "popWoken"} -> "pop"
    [] p \in {"timedWait", "timedSignaled", "timedWoken", "timedOut", "expired"} -> "timedPop"
    [] OTHER -> p

Abstract == INSTANCE BoundedEvents WITH
  closed <- shutdown, exists <- TRUE, holder <- NoThread,
  call <- [t \in Threads |-> CallName(pc[t])]

Implements == Abstract!Spec

=============================================================================
