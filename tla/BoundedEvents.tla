--------------------------- MODULE BoundedEvents ---------------------------
(***************************************************************************)
(* What an event queue promises to its callers, with no ring buffer, no    *)
(* mutex and no wait set: a FIFO sequence of at most Capacity events, a    *)
(* closed flag, the thread that holds the queue for manual inspection, and *)
(* for every thread the call it is in and the outcome of its last call.    *)
(* Only sys_event_queue_push on a full queue and sys_event_queue_finalize  *)
(* ever lose an accepted event.                                            *)
(***************************************************************************)
EXTENDS Naturals, Sequences

CONSTANTS
  Threads,   (* the threads that may call the queue                         *)
  Events,    (* the events they push                                        *)
  Capacity,  (* the number of events the queue holds                        *)
  NULL,      (* the outcome of a pop that delivers nothing                  *)
  NoThread   (* the holder of a queue nobody inspects                       *)

VARIABLES
  queue,     (* the events accepted and not yet delivered, oldest first     *)
  closed,    (* the queue was shut down                                     *)
  exists,    (* the queue was not finalized                                 *)
  holder,    (* the thread inspecting the queue, or NoThread                *)
  call,      (* the call each thread is in, "none" outside the queue        *)
  arg,       (* the event each pushing thread brings                        *)
  out        (* the outcome of each thread's last call                      *)

vars == <<queue, closed, exists, holder, call, arg, out>>

PushCalls == {"push", "tryPush"}
PopCalls  == {"pop", "tryPop", "timedPop"}
Calls     == PushCalls \cup PopCalls \cup {"shutdown", "finalize"}

Init ==
  /\ queue = <<>>
  /\ closed = FALSE
  /\ exists = TRUE
  /\ holder = NoThread
  /\ call = [t \in Threads |-> "none"]
  /\ arg = [t \in Threads |-> NULL]
  /\ out = [t \in Threads |-> NULL]

Begin(t) ==
  /\ call[t] = "none"
  /\ \E c \in Calls : call' = [call EXCEPT ![t] = c]
  /\ \/ UNCHANGED arg
     \/ \E e \in Events : arg' = [arg EXCEPT ![t] = e]
  /\ UNCHANGED <<queue, closed, exists, holder, out>>

Return(t, v) ==
  /\ call' = [call EXCEPT ![t] = "none"]
  /\ out' = [out EXCEPT ![t] = v]
  /\ arg' = [arg EXCEPT ![t] = NULL]
  /\ UNCHANGED holder

(* No call takes effect while another thread inspects the queue.           *)
Usable == exists /\ holder = NoThread

(* An accepted push.  Only push may find the queue full, and then the      *)
(* oldest event makes room.                                                *)
Accept(t) ==
  /\ Usable /\ ~closed
  /\ \/ /\ call[t] \in PushCalls
        /\ Len(queue) < Capacity
        /\ queue' = Append(queue, arg[t])
     \/ /\ call[t] = "push"
        /\ Len(queue) = Capacity
        /\ queue' = Append(Tail(queue), arg[t])
  /\ Return(t, "ok")
  /\ UNCHANGED <<closed, exists>>

(* A push is refused after shutdown, a tryPush also when the queue is full.*)
Refuse(t) ==
  /\ Usable
  /\ call[t] \in PushCalls
  /\ closed \/ (call[t] = "tryPush" /\ Len(queue) = Capacity)
  /\ Return(t, "failed")
  /\ UNCHANGED <<queue, closed, exists>>

(* A pop of any kind delivers the oldest event, also after shutdown.       *)
Deliver(t) ==
  /\ Usable
  /\ call[t] \in PopCalls
  /\ queue # <<>>
  /\ queue' = Tail(queue)
  /\ Return(t, Head(queue))
  /\ UNCHANGED <<closed, exists>>

(* A pop returns NULL only from an empty queue that is shut down, a tryPop *)
(* from an empty one, a timedPop whenever its time is up.                  *)
DeliverNothing(t) ==
  /\ Usable
  /\ \/ call[t] = "pop" /\ queue = <<>> /\ closed
     \/ call[t] = "tryPop" /\ queue = <<>>
     \/ call[t] = "timedPop"
  /\ Return(t, NULL)
  /\ UNCHANGED <<queue, closed, exists>>

(* Shutting down is the whole of one call and the first half of another.   *)
Close(t) ==
  /\ Usable
  /\ call[t] \in {"shutdown", "finalize"}
  /\ closed' = TRUE
  /\ \/ call[t] = "shutdown" /\ Return(t, "ok")
     \/ call[t] = "finalize" /\ UNCHANGED <<holder, call, arg, out>>
  /\ UNCHANGED <<queue, exists>>

(* The owner gives the queue back: what is still in it is lost.            *)
Discard(t) ==
  /\ call[t] = "finalize"
  /\ queue' = <<>>
  /\ closed' = FALSE
  /\ exists' = FALSE
  /\ holder' = NoThread
  /\ call' = [call EXCEPT ![t] = "none"]
  /\ out' = [out EXCEPT ![t] = "ok"]
  /\ arg' = [arg EXCEPT ![t] = NULL]

(* A call on a queue that no longer exists, or by the thread inspecting    *)
(* it, does nothing.                                                       *)
Fail(t) ==
  /\ ~exists \/ holder = t
  /\ call[t] # "none"
  /\ Return(t, IF call[t] \in PopCalls THEN NULL ELSE "failed")
  /\ UNCHANGED <<queue, closed, exists>>

(* A pop that outlives the queue is promised nothing.                      *)
Outlive(t) ==
  /\ ~exists
  /\ call[t] \in PopCalls
  /\ \E v \in Events \cup {NULL} : Return(t, v)
  /\ UNCHANGED <<queue, closed, exists>>

Hold(t) ==
  /\ Usable
  /\ call[t] = "none"
  /\ holder' = t
  /\ UNCHANGED <<queue, closed, exists, call, arg, out>>

Release(t) ==
  /\ holder = t
  /\ call[t] = "none"
  /\ holder' = NoThread
  /\ UNCHANGED <<queue, closed, exists, call, arg, out>>

(* The inspecting thread sees the event the next pop will deliver.         *)
Inspect(t) ==
  /\ holder = t
  /\ call[t] = "none"
  /\ out' = [out EXCEPT ![t] = IF queue = <<>> THEN NULL ELSE Head(queue)]
  /\ UNCHANGED <<queue, closed, exists, holder, call, arg>>

Next ==
  \E t \in Threads :
    \/ Begin(t) \/ Accept(t) \/ Refuse(t) \/ Deliver(t) \/ DeliverNothing(t)
    \/ Close(t) \/ Discard(t) \/ Fail(t) \/ Outlive(t)
    \/ Hold(t) \/ Release(t) \/ Inspect(t)

Spec == Init /\ [][Next]_vars
=============================================================================
