--------------------------- MODULE RunLoopProofs ---------------------------
(***************************************************************************)
(* TLAPS proofs about RunLoop, for every number of timers, callback        *)
(* contexts and heap blocks and every capacity of the queue.               *)
(***************************************************************************)
EXTENDS RunLoop, SequenceTheorems, TLAPS

-----------------------------------------------------------------------------
(* The queue as a sequence without repetition.                             *)

Elements(q) == {q[i] : i \in DOMAIN q}
Distinct(q) == \A i, j \in DOMAIN q : q[i] = q[j] => i = j

(* An event that is not in the queue is appended without repetition.       *)
LEMMA AppendDistinct ==
  ASSUME NEW q \in Seq(Blocks), NEW b \in Blocks, Distinct(q), b \notin Elements(q)
  PROVE  Distinct(Append(q, b)) /\ Elements(Append(q, b)) = Elements(q) \cup {b}
<1>1. /\ DOMAIN q = 1 .. Len(q) /\ Len(q) \in Nat
      /\ DOMAIN Append(q, b) = 1 .. Len(q) + 1
      /\ \A i \in 1 .. Len(q) : Append(q, b)[i] = q[i]
      /\ Append(q, b)[Len(q) + 1] = b
  OBVIOUS
<1>2. Distinct(Append(q, b))
  BY <1>1 DEF Distinct, Elements
<1>3. Elements(Append(q, b)) = Elements(q) \cup {b}
  BY <1>1 DEF Elements
<1>. QED BY <1>2, <1>3

(* Removing the oldest event removes just that one.                        *)
LEMMA TailDistinct ==
  ASSUME NEW q \in Seq(Blocks), q # <<>>, Distinct(q)
  PROVE  /\ Head(q) \in Elements(q) /\ Head(q) \in Blocks
         /\ Tail(q) \in Seq(Blocks) /\ Len(Tail(q)) <= Len(q)
         /\ Distinct(Tail(q)) /\ Elements(Tail(q)) = Elements(q) \ {Head(q)}
<1>1. /\ DOMAIN q = 1 .. Len(q) /\ Len(q) \in Nat \ {0}
      /\ Head(q) = q[1] /\ Tail(q) \in Seq(Blocks)
      /\ DOMAIN Tail(q) = 1 .. Len(q) - 1 /\ Len(Tail(q)) = Len(q) - 1
      /\ \A i \in 1 .. Len(q) - 1 : Tail(q)[i] = q[i + 1]
      /\ \A i \in DOMAIN q : q[i] \in Blocks
  OBVIOUS
<1>2. Distinct(Tail(q))
  BY <1>1 DEF Distinct
<1>3. Elements(Tail(q)) = Elements(q) \ {Head(q)}
  <2>1. ASSUME NEW b \in Elements(Tail(q)) PROVE b \in Elements(q) \ {Head(q)}
    <3>1. PICK i \in 1 .. Len(q) - 1 : b = q[i + 1]
      BY <1>1, <2>1 DEF Elements
    <3>2. i + 1 \in DOMAIN q /\ i + 1 # 1 /\ 1 \in DOMAIN q
      BY <1>1
    <3>. QED BY <1>1, <3>1, <3>2 DEF Elements, Distinct
  <2>2. ASSUME NEW b \in Elements(q) \ {Head(q)} PROVE b \in Elements(Tail(q))
    <3>1. PICK i \in DOMAIN q : b = q[i] /\ i # 1
      BY <1>1, <2>2 DEF Elements
    <3>2. i - 1 \in DOMAIN Tail(q) /\ Tail(q)[i - 1] = b
      BY <1>1, <3>1
    <3>. QED BY <3>2 DEF Elements
  <2>. QED BY <2>1, <2>2
<1>4. Head(q) \in Elements(q) /\ Head(q) \in Blocks
  BY <1>1 DEF Elements
<1>. QED BY <1>1, <1>2, <1>3, <1>4

-----------------------------------------------------------------------------
(* The inductive invariant.                                                *)

(* What the place of a thread says of the source and the event it has.     *)
PlacesAgree ==
  \A c \in Threads :
    /\ thread[c].block # NULL <=> thread[c].at = "holding"
    /\ thread[c].at = "expired" => thread[c].from \in Timers \cup Polls
    /\ thread[c].at \in {"entered", "sent", "delegating"} => thread[c].from \in Timers
    /\ thread[c].at \in {"send", "holding"} => thread[c].from \in Sources

(* What the place of the main thread says of its event and the queue.      *)
LoopAgrees ==
  /\ hand # NULL <=> main \in {"handle", "handler", "handled"}
  /\ result = "none" <=> main \notin {"returned", "gone"}
  /\ result = "done" => queue = <<>> /\ closed
  /\ result = "done" => ~armed[HwPoll] /\ ~armed[NetPoll]

IndInv == LoopAgrees /\ EventsOwned

-----------------------------------------------------------------------------
(* The variables keep their types, and a thread's place in a callback says *)
(* what it holds: only the step before the push holds an event.            *)
THEOREM TypeCorrect == Spec => [](TypeOK /\ PlacesAgree)
<1>1. Init => TypeOK /\ PlacesAgree
  <2>. SUFFICES ASSUME Init PROVE TypeOK /\ PlacesAgree
    OBVIOUS
  <2>1. queue \in Seq(Blocks) /\ Len(queue) = 0 /\ 0 <= Capacity
    BY CapacityAssumption DEF Init
  <2>. QED BY <2>1 DEF Init, TypeOK, PlacesAgree, Idle
<1>2. TypeOK /\ PlacesAgree /\ [Next]_vars => (TypeOK /\ PlacesAgree)'
  <2>. SUFFICES ASSUME TypeOK, PlacesAgree, [Next]_vars PROVE TypeOK' /\ PlacesAgree'
    OBVIOUS
  <2>. USE DEF TypeOK, PlacesAgree, Idle, loop, events, timers
  <2>1. CASE UNCHANGED vars
    BY <2>1 DEF vars
  <2>2. ASSUME NEW c \in Contexts, GpioCallback(c) PROVE TypeOK' /\ PlacesAgree'
    BY <2>2, SourceAssumption DEF GpioCallback, Sources, Threads
  <2>3. ASSUME NEW c \in Contexts, NEW s \in DOMAIN armed, Expire(c, s) PROVE TypeOK' /\ PlacesAgree'
    BY <2>3, SourceAssumption DEF Expire, Sources, Threads
  <2>4. ASSUME NEW c \in Threads, EnterCallback(c) PROVE TypeOK' /\ PlacesAgree'
    <3>. DEFINE s == thread[c].from
    <3>1. \/ thread' = [thread EXCEPT ![c].at = IF s \in Timers THEN "entered" ELSE "send"]
          \/ thread' = [thread EXCEPT ![c] = Idle]
      BY <2>4 DEF EnterCallback, At
    <3>2. CASE thread' = [thread EXCEPT ![c] = Idle]
      BY <2>4, <3>2, SourceAssumption DEF EnterCallback
    <3>3. s \in Timers \cup Polls /\ s \in Sources /\ thread[c].block = NULL
      BY <2>4 DEF EnterCallback, Sources
    <3>4. CASE s \in Timers /\ thread' = [thread EXCEPT ![c].at = "entered"]
      BY <2>4, <3>3, <3>4 DEF EnterCallback
    <3>5. CASE s \notin Timers /\ thread' = [thread EXCEPT ![c].at = "send"]
      BY <2>4, <3>3, <3>5 DEF EnterCallback
    <3>. QED BY <3>1, <3>2, <3>4, <3>5
  <2>5. ASSUME NEW c \in Threads, TimerCallback(c) PROVE TypeOK' /\ PlacesAgree'
    BY <2>5, SourceAssumption DEF TimerCallback, At, Sources
  <2>6. ASSUME NEW c \in Threads, Allocate(c) PROVE TypeOK' /\ PlacesAgree'
    <3>1. CASE thread' = [thread EXCEPT ![c] = Sent(c)] /\ UNCHANGED heap
      BY <2>6, <3>1, SourceAssumption DEF Allocate, Sent
    <3>2. CASE Free # {} /\ thread[c].at = "send"
      <4>. DEFINE b == CHOOSE x \in Free : TRUE
      <4>1. b \in Blocks /\ b # NULL /\ thread[c].from \in Sources
        BY <2>6, <3>2, SourceAssumption DEF Free
      <4>. HIDE DEF b
      <4>2. CASE /\ heap' = [heap EXCEPT ![b] = thread[c].from]
                 /\ thread' = [thread EXCEPT ![c].at = "holding", ![c].block = b]
        BY <2>6, <4>1, <4>2 DEF Allocate
      <4>. QED BY <2>6, <3>1, <4>2 DEF Allocate, b
    <3>. QED BY <2>6, <3>1, <3>2 DEF Allocate
  <2>7. ASSUME NEW c \in Threads, TryPush(c) PROVE TypeOK' /\ PlacesAgree'
    <3>1. thread[c].block \in Blocks /\ thread[c].from \in Sources
      BY <2>7 DEF TryPush
    <3>2. heap' \in [Blocks -> Sources \cup {NULL}]
      BY <2>7, <3>1 DEF TryPush
    <3>. DEFINE longer == Append(queue, thread[c].block)
    <3>3. longer \in Seq(Blocks) /\ Len(longer) = Len(queue) + 1 /\ Len(queue) \in Nat
      BY <3>1
    <3>. HIDE DEF longer
    <3>4. queue' = queue \/ (queue' = longer /\ Len(queue) < Capacity)
      BY <2>7 DEF TryPush, Accepts, longer
    <3>5. queue' \in Seq(Blocks) /\ Len(queue') <= Capacity
      BY <3>3, <3>4, CapacityAssumption
    <3>6. TypeOK'
      BY <2>7, <3>1, <3>2, <3>5, SourceAssumption DEF TryPush, Sent, Sources
    <3>. QED BY <2>7, <3>1, <3>6, SourceAssumption DEF TryPush, Sent, Sources
  <2>8. ASSUME NEW c \in Threads, CallbackEnds(c) PROVE TypeOK' /\ PlacesAgree'
    BY <2>8, SourceAssumption, TimerAssumption DEF CallbackEnds, Stopped, Sources
  <2>9. CASE Signal
    BY <2>9, SourceAssumption DEF Signal
  <2>10. CASE App
    <3>1. ASSUME NEW t \in Timers, SetDelegate(t) PROVE TypeOK' /\ PlacesAgree'
      BY <3>1, SourceAssumption DEF SetDelegate, Sources, Threads, InApp
    <3>2. ASSUME NEW t \in Timers, Fire(t) PROVE TypeOK' /\ PlacesAgree'
      BY <3>2, SourceAssumption DEF Fire, Sources, Threads, InApp
    <3>3. ASSUME NEW t \in Timers, ClearDelegate(t) \/ Invalidate(t) \/ Drop(t) \/ Terminate
          PROVE  TypeOK' /\ PlacesAgree'
      BY <3>3, ZenonT(60) DEF ClearDelegate, Invalidate, Drop, Terminate, Stopped
    <3>4. CASE Terminate
      BY <3>4 DEF Terminate
    <3>. QED BY <2>10, <3>1, <3>2, <3>3, <3>4, TimerAssumption DEF App
  <2>11. CASE StoreDelegate
    BY <2>11, SourceAssumption DEF StoreDelegate, Sources, Threads
  <2>12. CASE StartPolls \/ Launch \/ Launched
    BY <2>12, ZenonT(60) DEF StartPolls, Launch, Launched, Polls
  <2>13. CASE Pop
    <3>1. Head(queue) \in Blocks /\ Tail(queue) \in Seq(Blocks) /\ Len(Tail(queue)) <= Len(queue)
      BY <2>13 DEF Pop
    <3>. QED BY <2>13, <3>1, CapacityAssumption DEF Pop
  <2>14. CASE Stop \/ Handle
    BY <2>14 DEF Stop, Handle
  <2>15. CASE FreeEvent
    BY <2>15 DEF FreeEvent
  <2>16. CASE Release
    <3>1. queue' \in Seq(Blocks) /\ Len(queue') <= Capacity
      BY <2>16, CapacityAssumption DEF Release
    <3>. QED BY <2>16, <3>1 DEF Release
  <2>. QED
    BY <2>1, <2>2, <2>3, <2>4, <2>5, <2>6, <2>7, <2>8, <2>9, <2>10, <2>11, <2>12, <2>13,
       <2>14, <2>15, <2>16
    DEF Next, Callback, Loop
<1>. QED BY <1>1, <1>2, PTL DEF Spec

-----------------------------------------------------------------------------
(* Events have one owner, and run returns when all of them are handled.    *)

(* A step that moves no event keeps their owners.                          *)
LEMMA StillOwned ==
  ASSUME EventsOwned, UNCHANGED <<queue, heap, hand>>,
         \A c \in Threads : thread'[c].block = thread[c].block,
         main = "gone" /\ result = "failed" => main' = "gone" /\ result' = "failed"
  PROVE  EventsOwned'
<1>1. Queued' = Queued /\ Held' = Held
  BY DEF Queued, Held
<1>. QED BY <1>1 DEF EventsOwned

(* What the main thread's place says stays true.                           *)
LEMMA LoopStep ==
  ASSUME TypeOK, PlacesAgree, LoopAgrees, [Next]_vars
  PROVE  LoopAgrees'
<1>. USE DEF LoopAgrees, loop, events, timers
<1>1. HwPoll \notin Timers /\ NetPoll \notin Timers /\ NULL \notin Blocks /\ OneShots \subseteq Timers
  BY SourceAssumption, TimerAssumption DEF Polls
<1>2. CASE UNCHANGED vars
  BY <1>2 DEF vars
<1>3. ASSUME NEW c \in Contexts, GpioCallback(c) \/ \E s \in DOMAIN armed : Expire(c, s)
      PROVE  LoopAgrees'
  BY <1>3 DEF GpioCallback, Expire
<1>4. ASSUME NEW c \in Threads, EnterCallback(c) \/ TimerCallback(c) \/ Allocate(c) PROVE LoopAgrees'
  BY <1>4 DEF EnterCallback, TimerCallback, Allocate
<1>5. ASSUME NEW c \in Threads, TryPush(c) PROVE LoopAgrees'
  BY <1>5 DEF TryPush, Accepts
<1>6. ASSUME NEW c \in Threads, CallbackEnds(c) PROVE LoopAgrees'
  BY <1>1, <1>6 DEF CallbackEnds, Stopped, TypeOK, Polls
<1>7. CASE Signal
  BY <1>7 DEF Signal, TypeOK, Polls
<1>8. CASE App
  <2>1. ASSUME NEW t \in Timers,
               SetDelegate(t) \/ Fire(t) \/ ClearDelegate(t) \/ Invalidate(t) \/ Drop(t)
        PROVE  LoopAgrees'
    BY <1>1, <2>1 DEF SetDelegate, Fire, ClearDelegate, Invalidate, Drop, Stopped, TypeOK, Polls
  <2>2. CASE Terminate
    BY <2>2 DEF Terminate
  <2>. QED BY <1>8, <2>1, <2>2, TimerAssumption DEF App
<1>9. CASE StoreDelegate
  BY <1>9 DEF StoreDelegate
<1>10. CASE StartPolls \/ Launch \/ Launched
  BY <1>10 DEF StartPolls, Launch, Launched
<1>11. CASE Pop
  <2>1. Head(queue) \in Blocks
    BY <1>11 DEF Pop, TypeOK
  <2>. QED BY <1>1, <1>11, <2>1 DEF Pop, Popping
<1>12. CASE Stop
  BY <1>12 DEF Stop, Popping, TypeOK, Polls
<1>13. CASE Handle \/ FreeEvent \/ Release
  BY <1>13 DEF Handle, FreeEvent, Release
<1>. QED
  BY <1>2, <1>3, <1>4, <1>5, <1>6, <1>7, <1>8, <1>9, <1>10, <1>11, <1>12, <1>13
  DEF Next, Callback, Loop

(* An event that is allocated has its callback for its owner.              *)
LEMMA AllocateStep ==
  ASSUME TypeOK, PlacesAgree, EventsOwned, NEW c \in Threads, Allocate(c)
  PROVE  EventsOwned'
<1>. USE DEF loop, events, timers
<1>0. thread[c].block = NULL /\ thread[c].from \in Sources \ {NULL}
  BY SourceAssumption DEF Allocate, PlacesAgree
<1>1. CASE thread' = [thread EXCEPT ![c] = Sent(c)] /\ UNCHANGED heap
  BY <1>0, <1>1, StillOwned DEF Allocate, Sent, Idle, TypeOK
<1>2. CASE Free # {} /\ main # "gone"
  <2>. DEFINE b == CHOOSE x \in Free : TRUE
  <2>1. b \in Blocks /\ b # NULL /\ heap[b] = NULL
    BY <1>2, SourceAssumption DEF Free
  <2>. HIDE DEF b
  <2>2. CASE /\ heap' = [heap EXCEPT ![b] = thread[c].from]
             /\ thread' = [thread EXCEPT ![c].at = "holding", ![c].block = b]
    <3>1. /\ Queued' = Queued /\ hand' = hand /\ queue' = queue /\ main' = main /\ result' = result
          /\ \A d \in Threads : thread'[d].block = IF d = c THEN b ELSE thread[d].block
      BY <2>2 DEF Allocate, Queued, TypeOK
    <3>2. Held' = Held \cup {b}
      BY <1>0, <2>1, <3>1 DEF Held
    <3>3. b \notin Queued /\ b \notin Held /\ b # hand
      BY <2>1 DEF EventsOwned
    <3>4. \A d \in Threads : thread[d].block # b
      BY <2>1, <3>3 DEF Held
    <3>5. \A x \in Blocks : heap'[x] = IF x = b THEN thread[c].from ELSE heap[x]
      BY <2>2 DEF TypeOK
    <3>6. Queued \cup Held \cup ({hand} \ {NULL}) \subseteq Blocks
      BY DEF TypeOK, Queued, Held
    <3>. QED
      BY <1>0, <2>1, <3>1, <3>2, <3>3, <3>4, <3>5, <3>6 DEF EventsOwned
  <2>. QED BY <1>1, <2>2 DEF Allocate, b
<1>. QED BY <1>1, <1>2 DEF Allocate

(* An event that is pushed goes to the queue, one that is not is freed.    *)
LEMMA TryPushStep ==
  ASSUME TypeOK, PlacesAgree, EventsOwned, NEW c \in Threads, TryPush(c)
  PROVE  EventsOwned'
<1>. DEFINE b == thread[c].block
<1>1. /\ b \in Blocks /\ b # NULL /\ b \in Held
      /\ thread' = [thread EXCEPT ![c] = Sent(c)]
      /\ UNCHANGED <<main, result, hand>>
  BY SourceAssumption DEF TryPush, PlacesAgree, Held, TypeOK, loop
<1>2. \A d \in Threads : thread'[d].block = IF d = c THEN NULL ELSE thread[d].block
  BY <1>1 DEF TypeOK, Sent, Idle
<1>3. \A d \in Threads \ {c} : thread[d].block # b
  BY <1>1 DEF EventsOwned
<1>4. Held' = Held \ {b}
  BY <1>1, <1>2, <1>3 DEF Held
<1>5. b \notin Queued /\ b # hand /\ heap[b] # NULL
  BY <1>1 DEF EventsOwned
<1>6. Queued \cup Held \cup ({hand} \ {NULL}) \subseteq Blocks
  BY DEF TypeOK, Queued, Held
<1>7. CASE queue' = Append(queue, b) /\ UNCHANGED heap
  <2>1. Queued = Elements(queue) /\ Queued' = Elements(queue')
    BY DEF Queued, Elements
  <2>2. Distinct(queue)
    BY DEF EventsOwned, Distinct
  <2>. HIDE DEF b
  <2>3. Distinct(queue') /\ Queued' = Queued \cup {b}
    BY <1>1, <1>5, <1>7, <2>1, <2>2, AppendDistinct DEF TypeOK
  <2>. QED BY <1>1, <1>2, <1>4, <1>5, <1>7, <2>3 DEF EventsOwned, Distinct
<1>8. CASE heap' = [heap EXCEPT ![b] = NULL] /\ UNCHANGED queue
  <2>1. Queued' = Queued
    BY <1>8 DEF Queued
  <2>2. \A x \in Blocks : heap'[x] = IF x = b THEN NULL ELSE heap[x]
    BY <1>8 DEF TypeOK
  <2>. HIDE DEF b
  <2>. QED BY <1>1, <1>2, <1>4, <1>5, <1>6, <1>8, <2>1, <2>2 DEF EventsOwned
<1>. QED BY <1>7, <1>8 DEF TryPush

(* The loop takes the oldest event out of the queue.                       *)
LEMMA PopStep ==
  ASSUME TypeOK, LoopAgrees, EventsOwned, Pop
  PROVE  EventsOwned'
<1>1. /\ Queued = Elements(queue) /\ Queued' = Elements(queue')
      /\ Distinct(queue) /\ queue # <<>> /\ queue' = Tail(queue) /\ hand' = Head(queue)
      /\ UNCHANGED <<heap, thread>> /\ Held' = Held
  BY DEF Queued, Elements, EventsOwned, Distinct, Pop, Held
<1>2. hand = NULL
  BY DEF LoopAgrees, Pop, Popping
<1>3. /\ hand' \in Queued /\ hand' \in Blocks
      /\ Distinct(queue') /\ Queued' = Queued \ {hand'}
  BY <1>1, TailDistinct DEF TypeOK
<1>. QED BY <1>1, <1>2, <1>3, SourceAssumption DEF EventsOwned, Distinct, Pop, Popping

(* The loop frees the event it has handled.                                *)
LEMMA FreeStep ==
  ASSUME TypeOK, LoopAgrees, EventsOwned, FreeEvent
  PROVE  EventsOwned'
<1>1. /\ hand \in Blocks /\ hand # NULL /\ hand' = NULL
      /\ UNCHANGED <<queue, thread, result>> /\ main' # "gone" /\ main # "gone"
      /\ Queued' = Queued /\ Held' = Held
  BY DEF LoopAgrees, FreeEvent, TypeOK, Queued, Held
<1>2. \A x \in Blocks : heap'[x] = IF x = hand THEN NULL ELSE heap[x]
  BY DEF FreeEvent, TypeOK
<1>3. Queued \cup Held \subseteq Blocks /\ NULL \notin Held /\ NULL \notin Queued
  BY SourceAssumption DEF TypeOK, Queued, Held
<1>. QED BY <1>1, <1>2, <1>3 DEF EventsOwned

(* The release of an application that ran to its end finds no event.       *)
LEMMA ReleaseStep ==
  ASSUME TypeOK, LoopAgrees, EventsOwned, Release
  PROVE  EventsOwned'
<1>1. UNCHANGED <<heap, hand, thread, result>> /\ main' = "gone" /\ queue' = <<>> /\ Held' = Held
  BY DEF Release, Held
<1>2. Queued' = {}
  BY <1>1 DEF Queued
<1>3. result = "failed" \/ queue = <<>>
  BY DEF Release, LoopAgrees, TypeOK
<1>4. result # "failed" => Queued = {}
  BY <1>3 DEF Queued
<1>. QED BY <1>1, <1>2, <1>4 DEF EventsOwned

(* A thread that begins a callback holds no event.                         *)
LEMMA Begun ==
  ASSUME TypeOK, NEW c \in Threads, thread[c] = Idle, NEW place, NEW s,
         thread' = [thread EXCEPT ![c] = [Idle EXCEPT !.at = place, !.from = s]]
  PROVE  \A d \in Threads : thread'[d].block = thread[d].block
<1>. DEFINE begun == [Idle EXCEPT !.at = place, !.from = s]
<1>1. begun.block = NULL /\ Idle.block = NULL
  BY DEF Idle
<1>. HIDE DEF begun
<1>2. \A d \in Threads : thread'[d] = IF d = c THEN begun ELSE thread[d]
  BY DEF TypeOK, begun
<1>. QED BY <1>1, <1>2

(* Every step keeps the inductive invariant.                               *)
LEMMA IndInvStep ==
  ASSUME TypeOK, PlacesAgree, IndInv, [Next]_vars
  PROVE  IndInv'
<1>. USE DEF IndInv
<1>. SUFFICES EventsOwned'
  BY LoopStep
<1>1. ASSUME UNCHANGED <<queue, heap, hand>>, UNCHANGED main \/ main \notin {"returned", "gone"},
             UNCHANGED result \/ result = "none",
             \A c \in Threads : thread'[c].block = thread[c].block
      PROVE  EventsOwned'
  BY <1>1, StillOwned DEF LoopAgrees
<1>. USE DEF loop, events, timers
<1>2. CASE UNCHANGED vars
  BY <1>1, <1>2 DEF vars
<1>3. ASSUME NEW c \in Contexts, GpioCallback(c) \/ \E s \in DOMAIN armed : Expire(c, s)
      PROVE  EventsOwned'
  <2>1. \A d \in Threads : thread'[d].block = thread[d].block
    <3>1. c \in Threads
      BY DEF Threads
    <3>2. CASE GpioCallback(c)
      <4>1. thread[c] = Idle /\ thread' = [thread EXCEPT ![c] = [Idle EXCEPT !.at = "send", !.from = Gpio]]
        BY <3>2 DEF GpioCallback
      <4>. QED BY <3>1, <4>1, Begun, Zenon
    <3>3. ASSUME NEW s \in DOMAIN armed, Expire(c, s)
          PROVE  \A d \in Threads : thread'[d].block = thread[d].block
      <4>1. thread[c] = Idle /\ thread' = [thread EXCEPT ![c] = [Idle EXCEPT !.at = "expired", !.from = s]]
        BY <3>3 DEF Expire
      <4>. QED BY <3>1, <4>1, Begun, Zenon
    <3>. QED BY <1>3, <3>2, <3>3
  <2>. QED BY <1>1, <1>3, <2>1 DEF GpioCallback, Expire
<1>4. ASSUME NEW c \in Threads, EnterCallback(c) \/ TimerCallback(c) \/ CallbackEnds(c)
      PROVE  EventsOwned'
  <2>1. thread[c].block = NULL
    BY <1>4 DEF EnterCallback, TimerCallback, CallbackEnds, PlacesAgree
  <2>2. \A d \in Threads : thread'[d].block = thread[d].block
    BY <1>4, <2>1 DEF EnterCallback, TimerCallback, CallbackEnds, At, TypeOK, Idle
  <2>. QED BY <1>1, <1>4, <2>2 DEF EnterCallback, TimerCallback, CallbackEnds
<1>5. ASSUME NEW c \in Threads, Allocate(c) \/ TryPush(c) PROVE EventsOwned'
  BY <1>5, AllocateStep, TryPushStep
<1>6. CASE Signal
  BY <1>1, <1>6 DEF Signal
<1>7. CASE App
  <2>1. ASSUME NEW t \in Timers, SetDelegate(t) \/ Fire(t) PROVE EventsOwned'
    <3>1. \A d \in Threads : thread'[d].block = thread[d].block
      <4>1. Main \in Threads
        BY DEF Threads
      <4>2. CASE SetDelegate(t)
        <5>1. /\ thread[Main] = Idle
              /\ thread' = [thread EXCEPT ![Main] = [Idle EXCEPT !.at = "delegating", !.from = t]]
          BY <4>2 DEF SetDelegate, InApp
        <5>. QED BY <4>1, <5>1, Begun, Zenon
      <4>3. CASE Fire(t)
        <5>1. /\ thread[Main] = Idle
              /\ thread' = [thread EXCEPT ![Main] = [Idle EXCEPT !.at = "entered", !.from = t]]
          BY <4>3 DEF Fire, InApp
        <5>. QED BY <4>1, <5>1, Begun, Zenon
      <4>. QED BY <2>1, <4>2, <4>3
    <3>. QED BY <1>1, <2>1, <3>1 DEF SetDelegate, Fire
  <2>2. ASSUME NEW t \in Timers, ClearDelegate(t) \/ Invalidate(t) \/ Drop(t) PROVE EventsOwned'
    BY <1>1, <2>2 DEF ClearDelegate, Invalidate, Drop
  <2>3. CASE Terminate
    BY <1>1, <2>3 DEF Terminate
  <2>. QED BY <1>7, <2>1, <2>2, <2>3, TimerAssumption DEF App
<1>8. CASE StoreDelegate
  <2>1. \A d \in Threads : thread'[d].block = thread[d].block
    BY <1>8, MainAssumption DEF StoreDelegate, TypeOK, Idle, PlacesAgree, Threads
  <2>. QED BY <1>1, <1>8, <2>1 DEF StoreDelegate
<1>9. CASE StartPolls \/ Launch \/ Launched \/ Stop \/ Handle
  BY <1>1, <1>9 DEF StartPolls, Launch, Launched, Stop, Popping, Handle, LoopAgrees
<1>10. CASE Pop \/ FreeEvent \/ Release
  BY <1>10, PopStep, FreeStep, ReleaseStep
<1>. QED
  BY <1>2, <1>3, <1>4, <1>5, <1>6, <1>7, <1>8, <1>9, <1>10 DEF Next, Callback, Loop

(* So it holds in every state.                                             *)
LEMMA IndInvInvariant == Spec => []IndInv
<1>1. Init => IndInv
  BY SourceAssumption DEF Init, IndInv, LoopAgrees, EventsOwned, Queued, Held, Idle, Polls
<1>2. TypeOK /\ PlacesAgree /\ IndInv /\ [Next]_vars => IndInv'
  BY IndInvStep
<1>. QED BY <1>1, <1>2, TypeCorrect, PTL DEF Spec

(* Each event that was allocated has one owner, whatever the number of     *)
(* timers, contexts and blocks: no callback, no handler and no shutdown    *)
(* frees an event twice or loses it.                                       *)
THEOREM OwnershipSafe == Spec => []EventsOwned
<1>1. IndInv => EventsOwned
  BY DEF IndInv
<1>. QED BY <1>1, IndInvInvariant, PTL

(* When run returns its status every accepted event was handled, no other  *)
(* is accepted, and the timers of the loop are stopped.                    *)
THEOREM ReturnSafe == Spec => []RemainingProcessed
<1>1. TypeOK /\ IndInv => RemainingProcessed
  BY DEF IndInv, LoopAgrees, RemainingProcessed, Accepts
<1>. QED BY <1>1, IndInvInvariant, TypeCorrect, PTL
=============================================================================
