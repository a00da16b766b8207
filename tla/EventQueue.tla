----------------------------- MODULE EventQueue -----------------------------
(***************************************************************************)
(* The event queue of runtime-sys/all/event.c over the POSIX mutex and     *)
(* condition variable of runtime-sys/pthreads: a ring buffer shared by     *)
(* threads that push, pop, inspect, shut down and finalize.                *)
(*                                                                         *)
(* A critical section (lock ... unlock) is one action, because nothing     *)
(* else reads or writes the fields it protects; what interleaves is the    *)
(* order in which threads get the mutex, the wait inside                   *)
(* pthread_cond_wait, the wake-ups, the time-outs and the two halves of    *)
(* finalize, the second of which runs without the mutex.                   *)
(***************************************************************************)
EXTENDS Integers, Sequences

CONSTANTS
  Producers,   (* threads that call push and try_push                      *)
  Consumers,   (* threads that call pop, try_pop and timed_pop             *)
  Inspectors,  (* threads that call lock, peek and unlock                  *)
  Closers,     (* threads that call shutdown                               *)
  Owners,      (* threads that call finalize                               *)
  Events,      (* what is pushed: non-NULL pointers                        *)
  Capacity,    (* the argument of sys_event_queue_init                     *)
  Spurious,    (* whether a wait may end although nobody signalled         *)
  Joined,      (* whether an owner joins the other threads before finalize *)
  NULL, NoThread

Threads == Producers \cup Consumers \cup Inspectors \cup Closers \cup Owners

ASSUME CapacityAssumption == Capacity \in Nat \ {0}
ASSUME EventsAssumption == NULL \notin Events
ASSUME ThreadsAssumption == NoThread \notin Threads
ASSUME FlagsAssumption == Spurious \in BOOLEAN /\ Joined \in BOOLEAN

VARIABLES
  items, head, tail, count, shutdown,   (* the fields of sys_event_queue_t *)
  alive,    (* the queue was not finalized: items # NULL and mutex.init     *)
  owner,    (* the thread that holds the mutex between calls, or NoThread   *)
  waiting,  (* the threads blocked on not_empty                             *)
  pc,       (* where each thread is: "idle", in a call, or past its wait    *)
  arg,      (* the event argument of each thread's push                     *)
  out       (* what each thread's last call returned                        *)

ring == <<items, head, tail, count, shutdown>>
vars == <<items, head, tail, count, shutdown, alive, owner, waiting, pc, arg, out>>

-----------------------------------------------------------------------------
Slots == 0 .. Capacity - 1

(* The events in the ring, oldest first.                                   *)
Contents == [i \in 1 .. count |-> items[(tail + i - 1) % Capacity]]

Init ==
  /\ items = [i \in Slots |-> NULL]
  /\ head = 0
  /\ tail = 0
  /\ count = 0
  /\ shutdown = FALSE
  /\ alive = TRUE
  /\ owner = NoThread
  /\ waiting = {}
  /\ pc = [t \in Threads |-> "idle"]
  /\ arg = [t \in Threads |-> NULL]
  /\ out = [t \in Threads |-> NULL]

-----------------------------------------------------------------------------
(* Calling and returning.                                                  *)

(* An owner that joins the other threads calls finalize when none of them  *)
(* is in a call or holds the mutex, and none starts a call meanwhile.      *)
NotFinalizing ==
  Joined => \A u \in Threads : pc[u] \notin {"finalize", "destroy"}

AllJoined(t) ==
  Joined => owner = NoThread /\ \A u \in Threads \ {t} : pc[u] = "idle"

Enter(t, c) ==
  /\ pc[t] = "idle"
  /\ NotFinalizing
  /\ pc' = [pc EXCEPT ![t] = c]
  /\ UNCHANGED <<items, head, tail, count, shutdown, alive, owner, waiting, out>>

CallPush(t) ==
  /\ t \in Producers
  /\ \E e \in Events : arg' = [arg EXCEPT ![t] = e]
  /\ \E c \in {"push", "tryPush"} : Enter(t, c)

CallPop(t) ==
  /\ t \in Consumers
  /\ \E c \in {"pop", "tryPop", "timedPop"} : Enter(t, c)
  /\ UNCHANGED arg

CallShutdown(t) == t \in Closers /\ Enter(t, "shutdown") /\ UNCHANGED arg
CallFinalize(t) ==
  /\ t \in Owners
  /\ AllJoined(t)
  /\ Enter(t, "finalize")
  /\ UNCHANGED arg

Return(t, v) ==
  /\ pc' = [pc EXCEPT ![t] = "idle"]
  /\ out' = [out EXCEPT ![t] = v]
  /\ arg' = [arg EXCEPT ![t] = NULL]
  /\ UNCHANGED <<alive, owner>>

(* Mutation: sys_mutex_lock without its test of mutex.init.                *)
LockedUnchecked(t, c) == pc[t] = c /\ t \notin waiting /\ owner = NoThread

(* sys_mutex_lock succeeds and this thread runs its critical section.      *)
Locked(t, c) ==
  /\ pc[t] = c
  /\ t \notin waiting
  /\ alive
  /\ owner = NoThread

(* The calls that start by locking the mutex: sys_mutex_lock fails when    *)
(* the queue was finalized, and, the mutex being error-checking, when the  *)
(* caller already holds it.  The call then returns false or NULL.          *)
LockFails(t) ==
  /\ ~alive \/ owner = t
  /\ \/ pc[t] \in {"push", "tryPush", "shutdown"} /\ Return(t, "failed")
     \/ pc[t] \in {"pop", "tryPop", "timedPop"} /\ Return(t, NULL)
     \/ pc[t] = "finalize" /\ ~alive /\ Return(t, "failed")
  /\ UNCHANGED <<items, head, tail, count, shutdown, waiting>>

-----------------------------------------------------------------------------
(* Producers.                                                              *)

StoreAtHead(e) ==
  /\ items' = [items EXCEPT ![head] = e]
  /\ head' = (head + 1) % Capacity

(* Mutation: sys_cond_signal in its place, which wakes one thread.         *)
SignalOne ==
  IF waiting = {} THEN UNCHANGED waiting ELSE \E t \in waiting : waiting' = waiting \ {t}

(* sys_cond_broadcast: every blocked thread leaves the wait set and will   *)
(* compete for the mutex.                                                  *)
Broadcast == waiting' = {}

(* Mutation: overwriting the oldest event leaves the read position.        *)
PushKeepsTail(t) ==
  /\ Locked(t, "push")
  /\ ~shutdown
  /\ StoreAtHead(arg[t])
  /\ count' = IF count = Capacity THEN count ELSE count + 1
  /\ Broadcast
  /\ Return(t, "ok")
  /\ UNCHANGED <<tail, shutdown>>

Push(t) ==
  /\ Locked(t, "push")
  /\ \/ /\ shutdown
        /\ Return(t, "failed")
        /\ UNCHANGED <<items, head, tail, count, waiting>>
     \/ /\ ~shutdown
        /\ StoreAtHead(arg[t])
        /\ \/ count = Capacity /\ tail' = (tail + 1) % Capacity /\ UNCHANGED count
           \/ count # Capacity /\ count' = count + 1 /\ UNCHANGED tail
        /\ Broadcast
        /\ Return(t, "ok")
  /\ UNCHANGED shutdown

(* Mutation: try_push writes over the oldest event as push does.           *)
TryPushOverwrites(t) ==
  /\ Locked(t, "tryPush")
  /\ ~shutdown
  /\ StoreAtHead(arg[t])
  /\ \/ count = Capacity /\ tail' = (tail + 1) % Capacity /\ UNCHANGED count
     \/ count # Capacity /\ count' = count + 1 /\ UNCHANGED tail
  /\ Broadcast
  /\ Return(t, "ok")
  /\ UNCHANGED shutdown

TryPush(t) ==
  /\ Locked(t, "tryPush")
  /\ \/ /\ shutdown \/ count = Capacity
        /\ Return(t, "failed")
        /\ UNCHANGED <<items, head, count, waiting>>
     \/ /\ ~shutdown /\ count # Capacity
        /\ StoreAtHead(arg[t])
        /\ count' = count + 1
        /\ Broadcast
        /\ Return(t, "ok")
  /\ UNCHANGED <<tail, shutdown>>

-----------------------------------------------------------------------------
(* Consumers.                                                              *)

Take(t) ==
  /\ count > 0
  /\ tail' = (tail + 1) % Capacity
  /\ count' = count - 1
  /\ Return(t, items[tail])
  /\ UNCHANGED <<items, head, shutdown, waiting>>

TakeNothing(t) ==
  /\ Return(t, NULL)
  /\ UNCHANGED <<items, head, tail, count, shutdown, waiting>>

(* sys_cond_wait and sys_cond_timedwait: atomically release the mutex and  *)
(* block.                                                                  *)
Block(t, where) ==
  /\ waiting' = waiting \cup {t}
  /\ pc' = [pc EXCEPT ![t] = where]
  /\ UNCHANGED <<items, head, tail, count, shutdown, alive, owner, arg, out>>

(* Mutation: the wait loop looks at the count alone.                       *)
PopIgnoresShutdown(t) ==
  /\ Locked(t, "pop") \/ Locked(t, "popWait")
  /\ Take(t) \/ (count = 0 /\ Block(t, "popWait"))

(* sys_event_queue_pop, and timed_pop with a time-out of 0: the wait is in *)
(* a loop, entered and re-entered while the queue is empty and open.       *)
Pop(t) ==
  /\ Locked(t, "pop") \/ Locked(t, "popWait")
  /\ \/ count = 0 /\ ~shutdown /\ Block(t, "popWait")
     \/ count = 0 /\ shutdown /\ TakeNothing(t)
     \/ Take(t)

TryPop(t) ==
  /\ Locked(t, "tryPop")
  /\ Take(t) \/ (count = 0 /\ TakeNothing(t))

(* sys_event_queue_timed_pop with a time-out: at most one wait, whose end  *)
(* is not followed by another look at the condition it waited for.         *)
TimedPop(t) ==
  \/ /\ Locked(t, "timedPop")
     /\ \/ count = 0 /\ ~shutdown /\ Block(t, "timedWait")
        \/ count = 0 /\ shutdown /\ TakeNothing(t)
        \/ Take(t)
  \/ /\ Locked(t, "timedWait")
     /\ Take(t) \/ (count = 0 /\ TakeNothing(t))
  \/ /\ Locked(t, "expired")
     /\ TakeNothing(t)

(* The time-out of a blocked timed_pop passes.                             *)
Expire(t) ==
  /\ pc[t] = "timedWait"
  /\ t \in waiting
  /\ waiting' = waiting \ {t}
  /\ pc' = [pc EXCEPT ![t] = "expired"]
  /\ UNCHANGED <<items, head, tail, count, shutdown, alive, owner, arg, out>>

WakeSpuriously(t) ==
  /\ Spurious
  /\ t \in waiting
  /\ waiting' = waiting \ {t}
  /\ UNCHANGED <<items, head, tail, count, shutdown, alive, owner, pc, arg, out>>

-----------------------------------------------------------------------------
(* Inspection under the caller's own lock.                                 *)

Lock(t) ==
  /\ t \in Inspectors
  /\ pc[t] = "idle"
  /\ NotFinalizing
  /\ alive
  /\ owner = NoThread
  /\ owner' = t
  /\ UNCHANGED <<items, head, tail, count, shutdown, alive, waiting, pc, arg, out>>

Unlock(t) ==
  /\ owner = t
  /\ pc[t] = "idle"
  /\ owner' = NoThread
  /\ UNCHANGED <<items, head, tail, count, shutdown, alive, waiting, pc, arg, out>>

Peek(t) ==
  /\ owner = t
  /\ pc[t] = "idle"
  /\ out' = [out EXCEPT ![t] = IF count = 0 THEN NULL ELSE items[tail]]
  /\ UNCHANGED <<items, head, tail, count, shutdown, alive, owner, waiting, pc, arg>>

-----------------------------------------------------------------------------
(* The end of the queue.                                                   *)

Shutdown(t) ==
  /\ Locked(t, "shutdown")
  /\ shutdown' = TRUE
  /\ Broadcast
  /\ Return(t, "ok")
  /\ UNCHANGED <<items, head, tail, count>>

(* sys_event_queue_finalize first shuts the queue down; when its caller    *)
(* holds the mutex that call returns at once and nobody is told.           *)
FinalizeShutdown(t) ==
  /\ pc[t] = "finalize"
  /\ alive
  /\ \/ /\ owner = NoThread
        /\ shutdown' = TRUE
        /\ Broadcast
     \/ /\ owner = t
        /\ UNCHANGED <<shutdown, waiting>>
  /\ pc' = [pc EXCEPT ![t] = "destroy"]
  /\ UNCHANGED <<items, head, tail, count, alive, owner, arg, out>>

(* Then, without the mutex, it destroys the mutex and the condition, frees *)
(* the items and zeroes the structure.                                     *)
FinalizeDestroy(t) ==
  /\ pc[t] = "destroy"
  /\ items' = [i \in Slots |-> NULL]
  /\ head' = 0
  /\ tail' = 0
  /\ count' = 0
  /\ shutdown' = FALSE
  /\ alive' = FALSE
  /\ owner' = NoThread
  /\ pc' = [pc EXCEPT ![t] = "idle"]
  /\ out' = [out EXCEPT ![t] = "ok"]
  /\ arg' = [arg EXCEPT ![t] = NULL]
  /\ UNCHANGED waiting

(* A woken thread that goes on in a queue that was destroyed meanwhile     *)
(* relocks a destroyed mutex and may read freed items: it returns NULL or  *)
(* whatever the memory holds.                                              *)
RunInDestroyed(t) ==
  /\ pc[t] \in {"popWait", "timedWait", "expired"}
  /\ t \notin waiting
  /\ ~alive
  /\ \E v \in Events \cup {NULL} : Return(t, v)
  /\ UNCHANGED <<items, head, tail, count, shutdown, waiting>>

-----------------------------------------------------------------------------
Calling(t) == CallPush(t) \/ CallPop(t) \/ CallShutdown(t) \/ CallFinalize(t)

(* The steps a thread that is inside a call takes on its own account.      *)
Progress(t) ==
  \/ Push(t) \/ TryPush(t) \/ Pop(t) \/ TryPop(t) \/ TimedPop(t)
  \/ Shutdown(t) \/ FinalizeShutdown(t) \/ FinalizeDestroy(t)
  \/ LockFails(t) \/ RunInDestroyed(t)

Next ==
  \E t \in Threads :
    \/ Calling(t) \/ Progress(t) \/ Expire(t) \/ WakeSpuriously(t)
    \/ Lock(t) \/ Unlock(t) \/ Peek(t)

Spec == Init /\ [][Next]_vars

(* Every thread inside a call is scheduled and gets a free mutex in the    *)
(* end; a time-out passes.  No thread is obliged to call, nor a wait to    *)
(* end by itself.                                                          *)
Fairness ==
  \A t \in Threads : WF_vars(Progress(t)) /\ WF_vars(Expire(t))

FairSpec == Spec /\ Fairness

-----------------------------------------------------------------------------
(* Properties.                                                             *)

Positions == {"idle", "push", "tryPush", "pop", "tryPop", "timedPop", "shutdown",
              "finalize", "popWait", "timedWait", "expired", "destroy"}

(* The fields of the queue and the threads' positions have their types.    *)
TypeOK ==
  /\ items \in [Slots -> Events \cup {NULL}]
  /\ head \in Slots
  /\ tail \in Slots
  /\ count \in 0 .. Capacity
  /\ shutdown \in BOOLEAN
  /\ alive \in BOOLEAN
  /\ owner \in Threads \cup {NoThread}
  /\ waiting \subseteq Threads
  /\ pc \in [Threads -> Positions]
  /\ arg \in [Threads -> Events \cup {NULL}]
  /\ out \in [Threads -> Events \cup {NULL, "ok", "failed"}]

(* The three counters of the ring agree, and the count slots from tail on  *)
(* hold the events that were pushed there, never freed or unwritten ones:  *)
(* the overwriting branch of push and every pop keep them in step.         *)
RingConsistent ==
  /\ head = (tail + count) % Capacity
  /\ \A i \in 1 .. count : Contents[i] \in Events

(* No thread sleeps in pthread_cond_wait while there is an event to take   *)
(* or the queue is shut down: push, try_push and shutdown broadcast inside *)
(* the critical section that makes the condition true.                     *)
NoLostWakeup == (count > 0 \/ shutdown) => waiting = {}

(* Once an owner that joined its threads has finalized the queue, no       *)
(* thread is left inside it: neither asleep nor about to relock its mutex. *)
NobodyInDestroyed ==
  ~alive => \A t \in Threads : pc[t] \notin {"popWait", "timedWait", "expired"}

(* Shutting down releases every consumer: each pop in progress delivers    *)
(* what is left or returns NULL, and nobody stays blocked.                 *)
ShutdownReleases ==
  \A t \in Consumers : shutdown /\ pc[t] # "idle" ~> pc[t] = "idle"

(* A timed_pop returns, whatever the other threads do and however often    *)
(* its wait ends early.                                                    *)
TimedPopReturns == \A t \in Consumers : pc[t] = "timedPop" ~> pc[t] = "idle"

(* The queue implements BoundedEvents: the ring is a FIFO that drops only  *)
(* the oldest event of a full queue, and only in push; a blocked, woken or *)
(* expired thread is still in its call; the shutdown half of finalize      *)
(* leaves the caller in finalize.                                          *)
CallName(p) ==
  CASE p = "idle" -> "none"
    [] p = "popWait" -> "pop"
    [] p \in {"timedWait", "expired"} -> "timedPop"
    [] p = "destroy" -> "finalize"
    [] OTHER -> p

Abstract == INSTANCE BoundedEvents WITH
  queue <- Contents, closed <- shutdown, exists <- alive, holder <- owner,
  call <- [t \in Threads |-> CallName(pc[t])]

Implements == Abstract!Spec

(* No call hangs: those blocked in sys_event_queue_pop return after        *)
(* sys_event_queue_shutdown, and a timed pop after its time.               *)
CallsReturn ==
  /\ ShutdownReleases
  /\ TimedPopReturns
=============================================================================
