----------------------------- MODULE Waitgroup -----------------------------
(***************************************************************************)
(* The waitgroup of runtime-sys/pthreads/waitgroup.c: a counter under a    *)
(* mutex and a condition that finalize waits on.                           *)
(*                                                                         *)
(* Each call is split where another thread may run: after the test of      *)
(* wg->init and before the mutex, after the critical section of an add or  *)
(* a done that made the counter negative and before the second one that    *)
(* restores it, in the wait of finalize, and between its last unlock and   *)
(* the destruction of the mutex.                                           *)
(***************************************************************************)
EXTENDS Integers, FiniteSets

CONSTANTS
  Owner,       (* the thread that creates and finalizes the group           *)
  Workers,     (* the threads started for the work it announces             *)
  MaxDelta,    (* the largest delta an add passes                           *)
  INT_MAX,      (* the largest value of an int                               *)
  Announced,   (* bound: how much work the adds announce in all             *)
  MaxCareless, (* bound: how much work a use without the discipline         *)
               (* announces; it calls done once more than that at most      *)
  Careless     (* the workers that take part in a use without the           *)
               (* discipline; with none, every use has it                   *)

Threads == Workers \cup {Owner}

ASSUME DeltaAssumption == MaxDelta \in Nat /\ INT_MAX \in Nat /\ MaxDelta <= INT_MAX
ASSUME OwnerAssumption == Owner \notin Workers
ASSUME CarelessAssumption == Careless \subseteq Workers
ASSUME BoundAssumption == Announced \in 0 .. INT_MAX /\ MaxCareless \in 0 .. INT_MAX

VARIABLES
  disciplined, (* done is called once for each announced item, and add      *)
               (* before finalize or by the holder of an item               *)
  counter,   (* the counter of waitgroup_data_t                             *)
  alive,     (* wg->init: the group was not finalized                       *)
  waiting,   (* the owner is blocked in the wait of finalize                *)
  pc,        (* where each thread is                                        *)
  operand,   (* the delta of a thread's add                                 *)
  old,       (* the old_value a thread keeps between its two sections       *)
  unclaimed, (* announced items nobody was started for yet                  *)
  busy,      (* the workers that hold an item                               *)
  acked,     (* what successful adds announced less what dones acknowledged *)
  total,     (* what all adds asked for, for the bound Announced            *)
  dones      (* the calls of done, for the bound MaxDones                   *)

vars == <<disciplined, counter, alive, waiting, pc, operand, old, unclaimed, busy, acked, total, dones>>
work == <<unclaimed, busy, acked, total, dones>>
group == <<disciplined, counter, alive, waiting>>

-----------------------------------------------------------------------------
Init ==
  /\ disciplined \in {TRUE, Careless = {}}
  /\ counter = 0
  /\ alive = TRUE
  /\ waiting = FALSE
  /\ pc = [t \in Threads |-> "idle"]
  /\ operand = [t \in Threads |-> 0]
  /\ old = [t \in Threads |-> 0]
  /\ unclaimed = 0
  /\ busy = {}
  /\ acked = 0
  /\ total = 0
  /\ dones = 0

At(t, p) == pc' = [pc EXCEPT ![t] = p]

(* An int wraps around at both ends.                                       *)
Wrap(n) ==
  CASE n > INT_MAX        -> n - 2 * (INT_MAX + 1)
    [] n < -(INT_MAX + 1) -> n + 2 * (INT_MAX + 1)
    [] OTHER             -> n

(* What a use announces at most, and how often it calls done.             *)
MaxTotal == IF disciplined THEN Announced ELSE MaxCareless
MaxDones == IF disciplined THEN Announced ELSE MaxCareless + 1

(* Outside every call, and free to make one.                               *)
Idle(t) == pc[t] = "idle" /\ (disciplined \/ t \in Careless \cup {Owner})

(* A worker is started for an announced item, and holds it until it calls  *)
(* done.                                                                   *)
Start(w) ==
  /\ w \in Workers
  /\ unclaimed > 0
  /\ w \notin busy
  /\ Idle(w)
  /\ unclaimed' = unclaimed - 1
  /\ busy' = busy \cup {w}
  /\ UNCHANGED <<group, pc, operand, old, acked, total, dones>>

-----------------------------------------------------------------------------
(* sys_waitgroup_add.                                                      *)

CallAdd(t) ==
  /\ Idle(t)
  /\ alive
  /\ disciplined => t = Owner \/ t \in busy
  /\ \E d \in 0 .. MaxDelta :
       /\ total + d <= MaxTotal
       /\ operand' = [operand EXCEPT ![t] = d]
       /\ total' = total + d
  /\ At(t, "add")
  /\ UNCHANGED <<group, old, unclaimed, busy, acked, dones>>

(* Mutation: add counts one item whatever its delta.                       *)
AddOne(t) ==
  /\ pc[t] = "add"
  /\ alive
  /\ counter' = Wrap(counter + 1)
  /\ unclaimed' = unclaimed + operand[t]
  /\ acked' = acked + operand[t]
  /\ At(t, "idle")
  /\ operand' = [operand EXCEPT ![t] = 0]
  /\ UNCHANGED <<disciplined, alive, waiting, old, busy, total, dones>>

Add(t) ==
  /\ pc[t] = "add"
  /\ alive
  /\ counter' = Wrap(counter + operand[t])
  /\ \/ /\ counter' < 0
        /\ old' = [old EXCEPT ![t] = counter]
        /\ At(t, "restore")
        /\ UNCHANGED work
     \/ /\ counter' >= 0
        /\ unclaimed' = unclaimed + operand[t]
        /\ acked' = acked + operand[t]
        /\ At(t, "idle")
        /\ UNCHANGED <<old, busy, total, dones>>
  /\ operand' = [operand EXCEPT ![t] = 0]
  /\ UNCHANGED <<disciplined, alive, waiting>>

(* Mutation: the second section also gives back what the first one took.   *)
RestoreTwice(t) ==
  /\ pc[t] = "restore"
  /\ alive
  /\ counter' = old[t] + 1
  /\ old' = [old EXCEPT ![t] = 0]
  /\ At(t, "idle")
  /\ UNCHANGED <<disciplined, alive, waiting, operand, work>>

(* The second critical section of an add or a done that went negative:     *)
(* the counter becomes what it was before the first one.                   *)
Restore(t) ==
  /\ pc[t] = "restore"
  /\ alive
  /\ counter' = old[t]
  /\ old' = [old EXCEPT ![t] = 0]
  /\ At(t, "idle")
  /\ UNCHANGED <<disciplined, alive, waiting, operand, work>>

-----------------------------------------------------------------------------
(* sys_waitgroup_done.                                                     *)

CallDone(t) ==
  /\ t \in Workers
  /\ Idle(t)
  /\ alive
  /\ disciplined => t \in busy
  /\ dones < MaxDones
  /\ dones' = dones + 1
  /\ busy' = busy \ {t}
  /\ At(t, "done")
  /\ UNCHANGED <<group, operand, old, unclaimed, acked, total>>

(* Mutation: done broadcasts only when the counter passes below zero.      *)
DoneBroadcastsBelowZero(t) ==
  /\ pc[t] = "done"
  /\ alive
  /\ counter' = Wrap(counter - 1)
  /\ waiting' = (waiting /\ counter' >= 0)
  /\ acked' = acked - 1
  /\ At(t, "idle")
  /\ UNCHANGED <<disciplined, alive, operand, old, unclaimed, busy, total, dones>>

Done(t) ==
  /\ pc[t] = "done"
  /\ alive
  /\ counter' = Wrap(counter - 1)
  /\ waiting' = (waiting /\ counter' # 0)
  /\ \/ /\ counter' < 0
        /\ old' = [old EXCEPT ![t] = counter]
        /\ At(t, "restore")
        /\ UNCHANGED work
     \/ /\ counter' >= 0
        /\ acked' = acked - 1
        /\ At(t, "idle")
        /\ UNCHANGED <<old, unclaimed, busy, total, dones>>
  /\ UNCHANGED <<disciplined, alive, operand>>

-----------------------------------------------------------------------------
(* sys_waitgroup_finalize.                                                 *)

CallFinalize ==
  /\ pc[Owner] = "idle"
  /\ alive
  /\ At(Owner, "finalize")
  /\ UNCHANGED <<group, operand, old, work>>

(* Mutation: the wait is an if that a wake-up of any kind ends.            *)
FinalizeWaitsOnce ==
  /\ pc[Owner] \in {"finalize", "woken"}
  /\ ~waiting
  /\ \/ counter > 0 /\ pc[Owner] = "finalize" /\ waiting' = TRUE /\ At(Owner, "woken")
     \/ (counter <= 0 \/ pc[Owner] = "woken") /\ UNCHANGED waiting /\ At(Owner, "destroy")
  /\ UNCHANGED <<disciplined, counter, alive, operand, old, work>>

(* The wait is in a loop: while the counter is positive, the owner blocks. *)
Finalize ==
  /\ pc[Owner] \in {"finalize", "woken"}
  /\ ~waiting
  /\ \/ counter > 0 /\ waiting' = TRUE /\ At(Owner, "woken")
     \/ counter <= 0 /\ UNCHANGED waiting /\ At(Owner, "destroy")
  /\ UNCHANGED <<disciplined, counter, alive, operand, old, work>>

WakeSpuriously ==
  /\ waiting
  /\ waiting' = FALSE
  /\ UNCHANGED <<disciplined, counter, alive, pc, operand, old, work>>

(* After its last unlock the owner destroys the condition and the mutex    *)
(* and zeroes the buffer, counter included.                                *)
Destroy ==
  /\ pc[Owner] = "destroy"
  /\ alive' = FALSE
  /\ counter' = 0
  /\ At(Owner, "idle")
  /\ UNCHANGED <<disciplined, waiting, operand, old, work>>

(* A thread past the test of wg->init finds a destroyed mutex, which fails *)
(* to lock or, zeroed, locks: the call returns anything and the counter of *)
(* a group nobody uses any more is changed or not.                         *)
RunInDestroyed(t) ==
  /\ ~alive
  /\ pc[t] \in {"add", "done", "restore"}
  /\ At(t, "idle")
  /\ operand' = [operand EXCEPT ![t] = 0]
  /\ old' = [old EXCEPT ![t] = 0]
  /\ UNCHANGED <<group, work>>

-----------------------------------------------------------------------------
Progress(t) == Add(t) \/ Done(t) \/ Restore(t) \/ RunInDestroyed(t)

Next ==
  \/ \E t \in Threads : Start(t) \/ CallAdd(t) \/ CallDone(t) \/ Progress(t)
  \/ CallFinalize \/ Finalize \/ WakeSpuriously \/ Destroy

Spec == Init /\ [][Next]_vars

(* Threads inside a call are scheduled; announced work is started; a       *)
(* worker calls done in the end, however often it calls add before.        *)
Fairness ==
  /\ \A t \in Threads : WF_vars(Progress(t)) /\ WF_vars(Start(t)) /\ SF_vars(CallDone(t))
  /\ WF_vars(Finalize) /\ WF_vars(Destroy)

FairSpec == Spec /\ Fairness

-----------------------------------------------------------------------------
(* Properties.                                                             *)

TypeOK ==
  /\ disciplined \in BOOLEAN
  /\ counter \in -(INT_MAX + 1) .. INT_MAX
  /\ alive \in BOOLEAN
  /\ waiting \in BOOLEAN
  /\ pc \in [Threads -> {"idle", "add", "done", "restore", "finalize", "woken", "destroy"}]
  /\ operand \in [Threads -> 0 .. MaxDelta]
  /\ old \in [Threads -> -(INT_MAX + 1) .. INT_MAX]
  /\ unclaimed \in Nat
  /\ busy \subseteq Workers
  /\ acked \in Int
  /\ total \in 0 .. MaxTotal
  /\ dones \in 0 .. MaxDones

(* The work that is announced and whose done has not run: not started,     *)
(* held by a worker, or in a done that has not taken the mutex.            *)
Outstanding == unclaimed + Cardinality(busy) + Cardinality({t \in Threads : pc[t] = "done"})

(* Under the discipline the counter is exactly the outstanding work: no    *)
(* add and no done is lost, doubled or undone by another thread's restore. *)
CounterCounts == disciplined /\ alive => counter = Outstanding /\ counter = acked

(* Under the discipline the owner never sleeps with nothing to wait for:   *)
(* the done that brings the counter to 0 broadcasts in its critical        *)
(* section, and no other step makes a positive counter 0.                  *)
NoLostWakeup == disciplined /\ waiting => alive /\ counter > 0

(* With or without the discipline, as long as the sum of all adds fits an int:     *)
(* calls that report an error may make the group forget work, but never    *)
(* wait for work that does not exist; and no done is acknowledged that was *)
(* not announced.                                                          *)
NoPhantomWork == alive => counter <= acked /\ acked >= 0

(* Under the discipline finalize outlasts the work: once it has destroyed  *)
(* the mutex nothing is outstanding, and no worker is between its test of  *)
(* wg->init and that mutex.                                                *)
NothingLeftBehind ==
  disciplined /\ ~alive => Outstanding = 0 /\ \A t \in Threads : pc[t] = "idle"

(* Finalize returns once the announced work is done and no more comes.     *)
FinalizeReturns == disciplined /\ pc[Owner] = "finalize" ~> ~alive

(* Used with the discipline the waitgroup implements the abstract count of *)
(* pending work; a careless use is promised nothing.                       *)
Promise == INSTANCE PendingWork WITH
  pending <- IF disciplined THEN acked ELSE 0,
  exists <- disciplined => alive

Implements == Promise!Spec

(* What callers with one done for each announced item rely on: the counter *)
(* of add and done is the outstanding work, no wake-up of finalize is      *)
(* lost, and finalize destroys nothing that is in use.                     *)
WaitSafe ==
  /\ CounterCounts
  /\ NoLostWakeup
  /\ NothingLeftBehind

(* Whoever calls: the restore of an excess done never leaves               *)
(* sys_waitgroup_finalize waiting for work that nobody announced.          *)
RestoreKept ==
  /\ TypeOK
  /\ NoPhantomWork
=============================================================================
