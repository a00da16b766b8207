-------------------------------- MODULE Pico --------------------------------
(***************************************************************************)
(* What threads and handlers of the Pico wait on (runtime-sys/pico): the   *)
(* event queue and the waitgroup.  They share no state: each behaviour is  *)
(* about one of them.                                                      *)
(***************************************************************************)
EXTENDS EventQueuePico, WaitgroupPico

CONSTANT Primitives  \* which of the two are used

(* No handler that interrupts: one without a victim is like a third thread.*)
NoVictim == [h \in {} |-> {}]

VARIABLE primitive

picoVars == <<primitive, vars, groupVars>>

PicoInit == primitive \in Primitives /\ Init /\ GroupInit

OnQueue(A) == primitive = "queue" /\ A /\ UNCHANGED <<primitive, groupVars>>
OnGroup(A) == primitive = "waitgroup" /\ A /\ UNCHANGED <<primitive, vars>>

PicoNext == OnQueue(Next) \/ OnGroup(GroupStep)

(* A thread that can go on again and again does so in the end: a core that *)
(* is not interrupted runs, a spinning thread gets a mutex that others let *)
(* go, a semaphore serves its waiters, a time-out that passes is noticed.  *)
(* Announced work is started and done.                                     *)
Fairness ==
  /\ \A t \in Threads : SF_picoVars(OnQueue(Advance(t)))
  /\ \A t \in Crew : /\ WF_picoVars(OnGroup(DoneGoesOn(t)))
                     /\ WF_picoVars(OnGroup(Start(t))) /\ WF_picoVars(OnGroup(CallDone(t)))
  /\ WF_picoVars(OnGroup(Acquire)) /\ WF_picoVars(OnGroup(Finish))

PicoSpec == PicoInit /\ [][PicoNext]_picoVars /\ Fairness

(* The count of waiters of the semaphore condition (cond.c), which a       *)
(* broadcast turns into permits, follows the threads that sleep, so that   *)
(* no wake-up is lost.                                                     *)
QueueSound ==
  /\ TypeOK
  /\ WaitersCount
  /\ NoLostWakeup

(* The waitgroup loses no permit, though its count of dones is incremented *)
(* without a lock, and finalize leaves nobody in it.                       *)
GroupSound ==
  /\ GroupTypeOK
  /\ PermitsCount
  /\ NothingLeftBehind

(* No call of the queue or of the waitgroup waits for ever.                *)
Released ==
  /\ ShutdownReleases
  /\ TimedPopReturns
  /\ FinalizeReturns
=============================================================================
