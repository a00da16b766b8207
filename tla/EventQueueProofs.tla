-------------------------- MODULE EventQueueProofs --------------------------
(***************************************************************************)
(* TLAPS proofs about EventQueue, for every number of threads, every set   *)
(* of events and every capacity.                                           *)
(***************************************************************************)
EXTENDS EventQueue, SequenceTheorems, TLAPS

-----------------------------------------------------------------------------
(* Arithmetic of ring positions.                                           *)

(* A position inside the ring is its own residue.                          *)
LEMMA ModSmall ==
  ASSUME NEW c \in Nat \ {0}, NEW i \in 0 .. c - 1
  PROVE  i % c = i
BY SMT

(* A position at most one turn ahead wraps once.                           *)
LEMMA ModOnce ==
  ASSUME NEW c \in Nat \ {0}, NEW i \in c .. 2 * c - 1
  PROVE  i % c = i - c
BY SMT

(* The next position is a slot: the successor, or 0 after the last one.    *)
LEMMA NextSlot ==
  ASSUME NEW i \in Slots
  PROVE  /\ (i + 1) % Capacity = IF i + 1 = Capacity THEN 0 ELSE i + 1
         /\ (i + 1) % Capacity \in Slots
<1>1. Capacity \in Nat \ {0} BY CapacityAssumption
<1>2. CASE i + 1 = Capacity
  BY <1>1, <1>2, ModOnce DEF Slots
<1>3. CASE i + 1 # Capacity
  BY <1>1, <1>3, ModSmall DEF Slots
<1>. QED BY <1>2, <1>3

(* The position n places after slot i, for n up to the capacity.           *)
LEMMA Ahead ==
  ASSUME NEW i \in Slots, NEW n \in 0 .. Capacity
  PROVE  /\ (i + n) % Capacity = IF i + n < Capacity THEN i + n ELSE (i + n) - Capacity
         /\ (i + n) % Capacity \in Slots
<1>. DEFINE j == i + n
<1>1. Capacity \in Nat \ {0} BY CapacityAssumption
<1>2. j \in 0 .. 2 * Capacity - 1
  BY <1>1 DEF Slots
<1>. HIDE DEF j
<1>3. ASSUME j < Capacity
      PROVE  j % Capacity = j /\ j % Capacity \in Slots
  <2>1. j % Capacity = j
    BY <1>1, <1>2, <1>3, ModSmall
  <2>. QED BY <1>1, <1>2, <1>3, <2>1 DEF Slots
<1>4. ASSUME ~(j < Capacity)
      PROVE  j % Capacity = j - Capacity /\ j % Capacity \in Slots
  <2>1. j % Capacity = j - Capacity
    BY <1>1, <1>2, <1>4, ModOnce
  <2>2. j - Capacity \in Slots
    BY <1>1, <1>2, <1>4 DEF Slots
  <2>. QED BY <1>4, <2>1, <2>2
<1>5. /\ j % Capacity = IF j < Capacity THEN j ELSE j - Capacity
      /\ j % Capacity \in Slots
  BY <1>3, <1>4
<1>. QED BY <1>5 DEF j

(* Two places less than a turn apart are different slots.                  *)
LEMMA Apart ==
  ASSUME NEW i \in Slots, NEW m \in 0 .. Capacity - 1, NEW n \in 0 .. Capacity - 1, m # n
  PROVE  (i + m) % Capacity # (i + n) % Capacity
<1>1. Capacity \in Nat \ {0} BY CapacityAssumption
<1>2. /\ (i + m) % Capacity = IF i + m < Capacity THEN i + m ELSE (i + m) - Capacity
      /\ (i + n) % Capacity = IF i + n < Capacity THEN i + n ELSE (i + n) - Capacity
  BY <1>1, Ahead
<1>. DEFINE a == (i + m) % Capacity
            b == (i + n) % Capacity
<1>3. /\ a = IF i + m < Capacity THEN i + m ELSE (i + m) - Capacity
      /\ b = IF i + n < Capacity THEN i + n ELSE (i + n) - Capacity
  BY <1>2
<1>. HIDE DEF a, b
<1>4. a # b
  BY <1>1, <1>3 DEF Slots
<1>. QED BY <1>4 DEF a, b

(* n places after the successor of a slot is n + 1 places after the slot.  *)
LEMMA Shift ==
  ASSUME NEW i \in Slots, NEW n \in 0 .. Capacity - 1
  PROVE  (((i + 1) % Capacity) + n) % Capacity = (i + (n + 1)) % Capacity
<1>1. Capacity \in Nat \ {0} BY CapacityAssumption
<1>. DEFINE s == (i + 1) % Capacity
            a == (s + n) % Capacity
            b == (i + (n + 1)) % Capacity
<1>2. s \in Slots /\ s = IF i + 1 = Capacity THEN 0 ELSE i + 1
  BY NextSlot
<1>. HIDE DEF s
<1>4. n \in 0 .. Capacity /\ n + 1 \in 0 .. Capacity
  BY <1>1
<1>3. a = IF s + n < Capacity THEN s + n ELSE (s + n) - Capacity
  BY <1>2, <1>4, Ahead, Zenon
<1>5. b = IF i + (n + 1) < Capacity THEN i + (n + 1) ELSE (i + (n + 1)) - Capacity
  BY <1>4, Ahead, Zenon
<1>. HIDE DEF a, b
<1>6. a = b
  BY <1>1, <1>2, <1>3, <1>5 DEF Slots
<1>. QED BY <1>6 DEF a, b, s

(* One place after n places after a slot is n + 1 places after it.         *)
LEMMA ShiftBack ==
  ASSUME NEW i \in Slots, NEW n \in 0 .. Capacity - 1
  PROVE  (((i + n) % Capacity) + 1) % Capacity = (i + (n + 1)) % Capacity
<1>1. Capacity \in Nat \ {0} BY CapacityAssumption
<1>. DEFINE s == (i + n) % Capacity
            a == (s + 1) % Capacity
            b == (i + (n + 1)) % Capacity
<1>2. n \in 0 .. Capacity /\ n + 1 \in 0 .. Capacity
  BY <1>1
<1>3. s \in Slots /\ s = IF i + n < Capacity THEN i + n ELSE (i + n) - Capacity
  BY <1>2, Ahead, Zenon
<1>. HIDE DEF s
<1>4. a = IF s + 1 = Capacity THEN 0 ELSE s + 1
  BY <1>3, NextSlot, Zenon
<1>5. b = IF i + (n + 1) < Capacity THEN i + (n + 1) ELSE (i + (n + 1)) - Capacity
  BY <1>2, Ahead, Zenon
<1>. HIDE DEF a, b
<1>6. a = b
  BY <1>1, <1>3, <1>4, <1>5 DEF Slots
<1>. QED BY <1>6 DEF a, b, s

(* Zero places after a slot, or a full turn after it, is the slot itself.  *)
LEMMA FullTurn ==
  ASSUME NEW i \in Slots
  PROVE  (i + 0) % Capacity = i /\ (i + Capacity) % Capacity = i
<1>1. Capacity \in Nat \ {0} BY CapacityAssumption
<1>. DEFINE a == (i + 0) % Capacity
            b == (i + Capacity) % Capacity
<1>2. 0 \in 0 .. Capacity /\ Capacity \in 0 .. Capacity
  BY <1>1
<1>3. /\ a = IF i + 0 < Capacity THEN i + 0 ELSE (i + 0) - Capacity
      /\ b = IF i + Capacity < Capacity THEN i + Capacity ELSE (i + Capacity) - Capacity
  BY <1>2, Ahead, Zenon
<1>. HIDE DEF a, b
<1>4. a = i /\ b = i
  BY <1>1, <1>3 DEF Slots
<1>. QED BY <1>4 DEF a, b

-----------------------------------------------------------------------------
(* What storing and taking do to the contents of the ring.                 *)

(* A function that agrees with a sequence at every place is the sequence.  *)
LEMMA SameSequence ==
  ASSUME NEW S, NEW n \in Nat, NEW f, f = [i \in 1 .. n |-> f[i]],
         NEW s \in Seq(S), Len(s) = n, \A i \in 1 .. n : f[i] = s[i]
  PROVE  f = s
<1>1. s \in [1 .. n -> S]
  BY LenProperties
<1>. QED BY <1>1

(* The contents are a sequence of events of length count.                  *)
LEMMA ContentsType ==
  ASSUME TypeOK, RingConsistent
  PROVE  Contents \in Seq(Events) /\ Len(Contents) = count
<1>1. count \in Nat
  BY CapacityAssumption DEF TypeOK
<1>2. Contents \in [1 .. count -> Events]
  BY DEF RingConsistent, Contents
<1>. QED BY <1>1, <1>2

(* A store into a ring with room appends its event.                        *)
LEMMA StoreWithRoom ==
  ASSUME TypeOK, RingConsistent, NEW e \in Events, StoreAtHead(e),
         count # Capacity, count' = count + 1, tail' = tail
  PROVE  RingConsistent' /\ Contents' = Append(Contents, e)
<1>1. Capacity \in Nat \ {0} BY CapacityAssumption
<1>2. /\ tail \in Slots /\ head \in Slots /\ count \in 0 .. Capacity - 1
      /\ items \in [Slots -> Events \cup {NULL}]
      /\ head = (tail + count) % Capacity
  BY <1>1 DEF TypeOK, RingConsistent
<1>3. items' = [items EXCEPT ![head] = e] /\ head' = (head + 1) % Capacity
  BY DEF StoreAtHead
<1>4. head' = (tail' + count') % Capacity
  BY <1>2, <1>3, ShiftBack, Zenon
<1>5. Contents \in Seq(Events) /\ Len(Contents) = count
  BY ContentsType
<1>6. ASSUME NEW i \in 1 .. count
      PROVE  items'[(tail + (i - 1)) % Capacity] = Contents[i]
  <2>1. i - 1 \in 0 .. Capacity - 1 /\ i - 1 # count /\ i - 1 \in 0 .. Capacity
    BY <1>1, <1>2
  <2>2. (tail + (i - 1)) % Capacity # head /\ (tail + (i - 1)) % Capacity \in Slots
    BY <1>2, <2>1, Apart, Ahead, Zenon
  <2>. QED BY <1>2, <1>3, <2>2 DEF Contents
<1>7. items'[(tail + ((count + 1) - 1)) % Capacity] = e
  BY <1>2, <1>3
<1>8. Contents' = [i \in 1 .. count + 1 |-> items'[(tail + (i - 1)) % Capacity]]
  BY DEF Contents
<1>9. \A i \in 1 .. count + 1 :
        Contents'[i] = IF i = count + 1 THEN e ELSE Contents[i]
  BY <1>2, <1>6, <1>7, <1>8
<1>10. Contents' = Append(Contents, e)
  <2>1. Contents' = [i \in 1 .. count + 1 |-> Contents'[i]]
    BY <1>8
  <2>2. /\ Append(Contents, e) \in Seq(Events)
        /\ Len(Append(Contents, e)) = count + 1
        /\ \A i \in 1 .. count + 1 :
             Append(Contents, e)[i] = IF i = count + 1 THEN e ELSE Contents[i]
    BY <1>2, <1>5, AppendProperties
  <2>. QED BY <1>2, <1>9, <2>1, <2>2, SameSequence
<1>11. \A i \in 1 .. count' : Contents'[i] \in Events
  BY <1>2, <1>9 DEF RingConsistent
<1>. QED BY <1>4, <1>10, <1>11 DEF RingConsistent

(* A store into a full ring drops the oldest event and appends its own.    *)
LEMMA StoreOverOldest ==
  ASSUME TypeOK, RingConsistent, NEW e \in Events, StoreAtHead(e),
         count = Capacity, count' = count, tail' = (tail + 1) % Capacity
  PROVE  RingConsistent' /\ Contents' = Append(Tail(Contents), e)
<1>1. Capacity \in Nat \ {0} BY CapacityAssumption
<1>2. /\ tail \in Slots /\ items \in [Slots -> Events \cup {NULL}]
      /\ head = tail
  BY FullTurn DEF TypeOK, RingConsistent
<1>3. items' = [items EXCEPT ![tail] = e] /\ head' = (tail + 1) % Capacity
  BY <1>2 DEF StoreAtHead
<1>4. head' = (tail' + count') % Capacity
  BY <1>2, <1>3, NextSlot, FullTurn, Zenon
<1>5. Contents \in Seq(Events) /\ Len(Contents) = Capacity
  BY ContentsType
<1>6. ASSUME NEW i \in 1 .. Capacity
      PROVE  items'[(tail' + (i - 1)) % Capacity]
               = IF i = Capacity THEN e ELSE Contents[i + 1]
  <2>1. i - 1 \in 0 .. Capacity - 1 /\ (i - 1) + 1 = i /\ (i + 1) - 1 = i
    BY <1>1
  <2>2. (tail' + (i - 1)) % Capacity = (tail + i) % Capacity
    BY <1>2, <2>1, Shift
  <2>3. CASE i = Capacity
    BY <1>2, <1>3, <2>2, <2>3, FullTurn
  <2>4. CASE i # Capacity
    <3>1. i \in 0 .. Capacity - 1 /\ 0 \in 0 .. Capacity - 1 /\ i # 0 /\ i \in 0 .. Capacity
      BY <1>1, <2>4
    <3>2. (tail + i) % Capacity # tail /\ (tail + i) % Capacity \in Slots
      <4>1. (tail + i) % Capacity # (tail + 0) % Capacity
        BY <1>2, <3>1, Apart, Zenon
      <4>. QED BY <1>2, <3>1, <4>1, FullTurn, Ahead, Zenon
    <3>3. i + 1 \in 1 .. count
      BY <1>1, <2>4
    <3>4. Contents[i + 1] = items[(tail + i) % Capacity]
      BY <2>1, <3>3 DEF Contents
    <3>. QED BY <1>2, <1>3, <2>2, <2>4, <3>2, <3>4
  <2>. QED BY <2>3, <2>4
<1>7. Contents' = [i \in 1 .. Capacity |-> items'[(tail' + (i - 1)) % Capacity]]
  BY DEF Contents
<1>8. \A i \in 1 .. Capacity :
        Contents'[i] = IF i = Capacity THEN e ELSE Contents[i + 1]
  BY <1>6, <1>7
<1>9. Contents' = Append(Tail(Contents), e)
  <2>1. Contents' = [i \in 1 .. Capacity |-> Contents'[i]]
    BY <1>7
  <2>2. /\ Tail(Contents) \in Seq(Events) /\ Len(Tail(Contents)) = Capacity - 1
        /\ \A i \in 1 .. Capacity - 1 : Tail(Contents)[i] = Contents[i + 1]
    BY <1>1, <1>5, HeadTailProperties
  <2>3. /\ Append(Tail(Contents), e) \in Seq(Events)
        /\ Len(Append(Tail(Contents), e)) = Capacity
        /\ \A i \in 1 .. Capacity : Append(Tail(Contents), e)[i]
             = IF i = Capacity THEN e ELSE Tail(Contents)[i]
    BY <1>1, <2>2, AppendProperties
  <2>. QED BY <1>1, <1>8, <2>1, <2>2, <2>3, SameSequence
<1>10. \A i \in 1 .. count' : Contents'[i] \in Events
  BY <1>1, <1>8 DEF RingConsistent
<1>. QED BY <1>4, <1>9, <1>10 DEF RingConsistent

(* Taking an event delivers the oldest one and leaves the others.          *)
LEMMA TakeStep ==
  ASSUME TypeOK, RingConsistent, NEW t \in Threads, Take(t)
  PROVE  /\ RingConsistent'
         /\ Contents # <<>> /\ items[tail] = Head(Contents)
         /\ Contents' = Tail(Contents)
<1>1. Capacity \in Nat \ {0} BY CapacityAssumption
<1>2. /\ tail \in Slots /\ count \in 1 .. Capacity
      /\ items \in [Slots -> Events \cup {NULL}]
      /\ head = (tail + count) % Capacity
  BY <1>1 DEF TypeOK, RingConsistent, Take
<1>3. /\ tail' = (tail + 1) % Capacity /\ count' = count - 1
      /\ items' = items /\ head' = head
  BY DEF Take
<1>4. head' = (tail' + count') % Capacity
  <2>1. count - 1 \in 0 .. Capacity - 1 /\ (count - 1) + 1 = count
    BY <1>1, <1>2
  <2>. QED BY <1>2, <1>3, <2>1, Shift
<1>5. Contents \in Seq(Events) /\ Len(Contents) = count
  BY ContentsType
<1>6. items[tail] = Contents[1]
  BY <1>2, FullTurn DEF Contents
<1>7. ASSUME NEW i \in 1 .. count - 1
      PROVE  items[(tail' + (i - 1)) % Capacity] = Contents[i + 1]
  <2>1. /\ i - 1 \in 0 .. Capacity - 1 /\ (i - 1) + 1 = i /\ (i + 1) - 1 = i
        /\ i + 1 \in 1 .. count
    BY <1>1, <1>2
  <2>2. (tail' + (i - 1)) % Capacity = (tail + i) % Capacity
    BY <1>2, <1>3, <2>1, Shift
  <2>. QED BY <2>1, <2>2 DEF Contents
<1>8. Contents' = [i \in 1 .. count - 1 |-> items[(tail' + (i - 1)) % Capacity]]
  BY <1>3 DEF Contents
<1>9. \A i \in 1 .. count - 1 : Contents'[i] = Contents[i + 1]
  BY <1>7, <1>8
<1>10. Contents' = Tail(Contents)
  <2>1. Contents' = [i \in 1 .. count - 1 |-> Contents'[i]]
    BY <1>8
  <2>2. /\ Tail(Contents) \in Seq(Events) /\ Len(Tail(Contents)) = count - 1
        /\ \A i \in 1 .. count - 1 : Tail(Contents)[i] = Contents[i + 1]
    BY <1>2, <1>5, HeadTailProperties
  <2>. QED BY <1>2, <1>9, <2>1, <2>2, SameSequence
<1>11. \A i \in 1 .. count' : Contents'[i] \in Events
  BY <1>2, <1>3, <1>5, <1>9 DEF RingConsistent
<1>12. Contents # <<>> /\ Contents[1] = Head(Contents)
  BY <1>2, <1>5
<1>. QED BY <1>4, <1>6, <1>10, <1>11, <1>12 DEF RingConsistent

-----------------------------------------------------------------------------
(* The fields keep their types.                                            *)
THEOREM TypeCorrect == Spec => []TypeOK
<1>1. Init => TypeOK
  <2>. SUFFICES ASSUME Init PROVE TypeOK
    OBVIOUS
  <2>1. 0 \in Slots /\ 0 \in 0 .. Capacity
    BY CapacityAssumption DEF Slots
  <2>. QED BY <2>1 DEF Init, TypeOK, Positions
<1>2. TypeOK /\ [Next]_vars => TypeOK'
  <2>. SUFFICES ASSUME TypeOK, [Next]_vars PROVE TypeOK'
    OBVIOUS
  <2>. USE DEF TypeOK, Positions
  <2>1. CASE UNCHANGED vars
    BY <2>1 DEF vars
  <2>2. ASSUME NEW t \in Threads, Calling(t) PROVE TypeOK'
    BY <2>2 DEF Calling, CallPush, CallPop, CallShutdown, CallFinalize, Enter
  <2>3. ASSUME NEW t \in Threads, Push(t) PROVE TypeOK'
    <3>1. (head + 1) % Capacity \in Slots /\ (tail + 1) % Capacity \in Slots
      BY NextSlot
    <3>2. CASE shutdown
      BY <2>3, <3>2 DEF Push, Locked, Return
    <3>3. CASE ~shutdown
      <4>1. arg[t] \in Events \cup {NULL}
        OBVIOUS
      <4>2. items' \in [Slots -> Events \cup {NULL}] /\ head' \in Slots
        BY <2>3, <3>1, <3>3, <4>1 DEF Push, StoreAtHead
      <4>3. tail' \in Slots /\ count' \in 0 .. Capacity
        BY <2>3, <3>1, <3>3, CapacityAssumption DEF Push
      <4>. QED BY <2>3, <3>3, <4>2, <4>3 DEF Push, Broadcast, Return
    <3>. QED BY <3>2, <3>3
  <2>4. ASSUME NEW t \in Threads, TryPush(t) PROVE TypeOK'
    <3>1. (head + 1) % Capacity \in Slots
      BY NextSlot
    <3>2. CASE shutdown \/ count = Capacity
      BY <2>4, <3>2 DEF TryPush, Locked, Return
    <3>3. CASE ~shutdown /\ count # Capacity
      <4>1. arg[t] \in Events \cup {NULL}
        OBVIOUS
      <4>2. items' \in [Slots -> Events \cup {NULL}] /\ head' \in Slots
        BY <2>4, <3>1, <3>3, <4>1 DEF TryPush, StoreAtHead
      <4>3. tail' \in Slots /\ count' \in 0 .. Capacity
        BY <2>4, <3>3, CapacityAssumption DEF TryPush
      <4>. QED BY <2>4, <3>3, <4>2, <4>3 DEF TryPush, Broadcast, Return
    <3>. QED BY <3>2, <3>3
  <2>5. ASSUME NEW t \in Threads, Take(t) PROVE TypeOK'
    <3>1. (tail + 1) % Capacity \in Slots
      BY NextSlot
    <3>. QED BY <2>5, <3>1, CapacityAssumption DEF Take, Return
  <2>6. ASSUME NEW t \in Threads, TakeNothing(t) PROVE TypeOK'
    BY <2>6 DEF TakeNothing, Return
  <2>7. ASSUME NEW t \in Threads, NEW w \in {"popWait", "timedWait"}, Block(t, w)
        PROVE  TypeOK'
    BY <2>7 DEF Block
  <2>8. ASSUME NEW t \in Threads, Pop(t) \/ TryPop(t) \/ TimedPop(t) PROVE TypeOK'
    BY <2>5, <2>6, <2>7, <2>8 DEF Pop, TryPop, TimedPop
  <2>9. ASSUME NEW t \in Threads, Expire(t) \/ WakeSpuriously(t) PROVE TypeOK'
    BY <2>9 DEF Expire, WakeSpuriously
  <2>10. ASSUME NEW t \in Threads, Lock(t) \/ Unlock(t) \/ Peek(t) PROVE TypeOK'
    BY <2>10 DEF Lock, Unlock, Peek
  <2>11. ASSUME NEW t \in Threads, Shutdown(t) \/ FinalizeShutdown(t) PROVE TypeOK'
    BY <2>11 DEF Shutdown, FinalizeShutdown, Locked, Broadcast, Return
  <2>12. ASSUME NEW t \in Threads, FinalizeDestroy(t) PROVE TypeOK'
    <3>1. 0 \in Slots /\ 0 \in 0 .. Capacity
      BY CapacityAssumption DEF Slots
    <3>. QED BY <2>12, <3>1 DEF FinalizeDestroy
  <2>13. ASSUME NEW t \in Threads, LockFails(t) \/ RunInDestroyed(t) PROVE TypeOK'
    BY <2>13 DEF LockFails, RunInDestroyed, Return
  <2>. QED
    BY <2>1, <2>2, <2>3, <2>4, <2>8, <2>9, <2>10, <2>11, <2>12, <2>13
    DEF Next, Progress
<1>. QED BY <1>1, <1>2, PTL DEF Spec

-----------------------------------------------------------------------------
(* The inductive invariant behind the safety properties of the ring and of *)
(* the wait set: what a thread is about to push is an event.               *)

ArgPending == \A t \in Threads : pc[t] \in {"push", "tryPush"} => arg[t] \in Events

IndInv == TypeOK /\ ArgPending /\ RingConsistent /\ NoLostWakeup

(* A step that leaves the ring alone, adds no sleeper and keeps the        *)
(* arguments of the pending pushes preserves the invariant.                *)
LEMMA Frame ==
  ASSUME IndInv, TypeOK', ArgPending',
         UNCHANGED <<items, head, tail, count, shutdown>>, waiting' \subseteq waiting
  PROVE  IndInv'
<1>1. Contents' = Contents
  BY DEF Contents
<1>2. RingConsistent'
  BY <1>1 DEF IndInv, RingConsistent
<1>. QED BY <1>2 DEF IndInv, NoLostWakeup

(* Leaving a call, and going from one place of a call to another that is   *)
(* not the start of a push, keep the pending arguments.                    *)
LEMMA ArgAfter ==
  ASSUME TypeOK, ArgPending, NEW t \in Threads,
         NEW p \in Positions \ {"push", "tryPush"},
         pc' = [pc EXCEPT ![t] = p],
         arg' = arg \/ arg' = [arg EXCEPT ![t] = NULL]
  PROVE  ArgPending'
BY DEF TypeOK, ArgPending

(* Taking an event keeps the strengthening.                                *)
LEMMA TakeInv ==
  ASSUME IndInv, TypeOK', NEW t \in Threads, Take(t)
  PROVE  IndInv'
<1>1. RingConsistent'
  BY TakeStep DEF IndInv
<1>2. ArgPending'
  BY ArgAfter DEF IndInv, Take, Return, Positions
<1>3. NoLostWakeup'
  BY CapacityAssumption DEF IndInv, TypeOK, NoLostWakeup, Take
<1>. QED BY <1>1, <1>2, <1>3 DEF IndInv

(* Returning without an event keeps it.                                    *)
LEMMA TakeNothingInv ==
  ASSUME IndInv, TypeOK', NEW t \in Threads, TakeNothing(t)
  PROVE  IndInv'
<1>1. ArgPending'
  BY ArgAfter DEF IndInv, TakeNothing, Return, Positions
<1>. QED BY <1>1, Frame DEF TakeNothing

(* A thread only goes to sleep when the queue is empty and open.           *)
LEMMA BlockInv ==
  ASSUME IndInv, TypeOK', NEW t \in Threads, NEW w \in {"popWait", "timedWait"},
         count = 0, ~shutdown, Block(t, w)
  PROVE  IndInv'
<1>1. ArgPending'
  BY ArgAfter DEF IndInv, Block, Positions
<1>2. Contents' = Contents
  BY DEF Block, Contents
<1>3. RingConsistent'
  BY <1>2 DEF IndInv, RingConsistent, Block
<1>. QED BY <1>1, <1>3 DEF IndInv, NoLostWakeup, Block

(* Every step keeps it.                                                    *)
LEMMA IndInvStep == IndInv /\ TypeOK' /\ [Next]_vars => IndInv'
<1>. SUFFICES ASSUME IndInv, TypeOK', [Next]_vars PROVE IndInv'
  OBVIOUS
<1>1. CASE UNCHANGED vars
  <2>1. ArgPending'
    BY <1>1 DEF IndInv, ArgPending, vars
  <2>. QED BY <1>1, <2>1, Frame DEF vars
<1>2. ASSUME NEW t \in Threads, Calling(t) PROVE IndInv'
  <2>1. ArgPending'
    BY <1>2 DEF IndInv, TypeOK, ArgPending, Calling, CallPush, CallPop, CallShutdown,
                CallFinalize, Enter
  <2>. QED BY <1>2, <2>1, Frame
       DEF Calling, CallPush, CallPop, CallShutdown, CallFinalize, Enter
<1>3. ASSUME NEW t \in Threads, Push(t) PROVE IndInv'
  <2>1. ArgPending'
    BY <1>3, ArgAfter DEF IndInv, Push, Return, Positions
  <2>2. CASE shutdown
    BY <1>3, <2>1, <2>2, Frame DEF Push
  <2>3. CASE ~shutdown
    <3>1. arg[t] \in Events
      BY <1>3 DEF IndInv, ArgPending, Push, Locked
    <3>2. RingConsistent'
      BY <1>3, <2>3, <3>1, StoreWithRoom, StoreOverOldest DEF IndInv, Push
    <3>3. NoLostWakeup'
      BY <1>3, <2>3 DEF Push, Broadcast, NoLostWakeup
    <3>. QED BY <2>1, <3>2, <3>3 DEF IndInv
  <2>. QED BY <2>2, <2>3
<1>4. ASSUME NEW t \in Threads, TryPush(t) PROVE IndInv'
  <2>1. ArgPending'
    BY <1>4, ArgAfter DEF IndInv, TryPush, Return, Positions
  <2>2. CASE shutdown \/ count = Capacity
    BY <1>4, <2>1, <2>2, Frame DEF TryPush
  <2>3. CASE ~shutdown /\ count # Capacity
    <3>1. arg[t] \in Events
      BY <1>4 DEF IndInv, ArgPending, TryPush, Locked
    <3>2. RingConsistent'
      BY <1>4, <2>3, <3>1, StoreWithRoom DEF IndInv, TryPush
    <3>3. NoLostWakeup'
      BY <1>4, <2>3 DEF TryPush, Broadcast, NoLostWakeup
    <3>. QED BY <2>1, <3>2, <3>3 DEF IndInv
  <2>. QED BY <2>2, <2>3
<1>5. ASSUME NEW t \in Threads, Pop(t) \/ TryPop(t) \/ TimedPop(t) PROVE IndInv'
  BY <1>5, TakeInv, TakeNothingInv, BlockInv DEF Pop, TryPop, TimedPop
<1>6. ASSUME NEW t \in Threads, Expire(t) PROVE IndInv'
  <2>1. ArgPending'
    BY <1>6, ArgAfter DEF IndInv, Expire, Positions
  <2>. QED BY <1>6, <2>1, Frame DEF Expire
<1>7. ASSUME NEW t \in Threads,
             WakeSpuriously(t) \/ Lock(t) \/ Unlock(t) \/ Peek(t)
      PROVE  IndInv'
  <2>1. ArgPending'
    BY <1>7 DEF IndInv, ArgPending, WakeSpuriously, Lock, Unlock, Peek
  <2>. QED BY <1>7, <2>1, Frame DEF WakeSpuriously, Lock, Unlock, Peek
<1>8. ASSUME NEW t \in Threads, Shutdown(t) \/ FinalizeShutdown(t) PROVE IndInv'
  <2>1. ArgPending'
    BY <1>8, ArgAfter DEF IndInv, Shutdown, FinalizeShutdown, Return, Positions
  <2>2. Contents' = Contents
    BY <1>8 DEF Contents, Shutdown, FinalizeShutdown
  <2>3. RingConsistent'
    BY <1>8, <2>2 DEF IndInv, RingConsistent, Shutdown, FinalizeShutdown
  <2>. QED BY <1>8, <2>1, <2>3
       DEF IndInv, NoLostWakeup, Shutdown, FinalizeShutdown, Broadcast
<1>9. ASSUME NEW t \in Threads, FinalizeDestroy(t) PROVE IndInv'
  <2>1. ArgPending'
    BY <1>9, ArgAfter DEF IndInv, FinalizeDestroy, Positions
  <2>2. 0 \in Slots
    BY CapacityAssumption DEF Slots
  <2>3. RingConsistent'
    <3>1. head' = 0 /\ tail' = 0 /\ count' = 0
      BY <1>9 DEF FinalizeDestroy
    <3>2. (0 + 0) % Capacity = 0
      BY <2>2, FullTurn
    <3>. QED BY <3>1, <3>2 DEF RingConsistent
  <2>. QED BY <1>9, <2>1, <2>3 DEF IndInv, NoLostWakeup, FinalizeDestroy
<1>10. ASSUME NEW t \in Threads, LockFails(t) \/ RunInDestroyed(t) PROVE IndInv'
  <2>1. ArgPending'
    BY <1>10, ArgAfter DEF IndInv, LockFails, RunInDestroyed, Return, Positions
  <2>. QED BY <1>10, <2>1, Frame DEF LockFails, RunInDestroyed
<1>. QED
  BY <1>1, <1>2, <1>3, <1>4, <1>5, <1>6, <1>7, <1>8, <1>9, <1>10 DEF Next, Progress

(* It always holds.                                                        *)
LEMMA IndInvInvariant == Spec => []IndInv
<1>1. Init => IndInv
  <2>. SUFFICES ASSUME Init PROVE IndInv
    OBVIOUS
  <2>1. 0 \in Slots /\ 0 \in 0 .. Capacity
    BY CapacityAssumption DEF Slots
  <2>2. (0 + 0) % Capacity = 0
    BY <2>1, FullTurn
  <2>3. RingConsistent
    BY <2>2 DEF Init, RingConsistent
  <2>4. TypeOK
    BY <2>1 DEF Init, TypeOK, Positions
  <2>. QED BY <2>3, <2>4 DEF Init, IndInv, ArgPending, NoLostWakeup
<1>. QED BY <1>1, IndInvStep, TypeCorrect, PTL DEF Spec

(* The ring stays consistent: the counters agree and every slot in use     *)
(* holds a pushed event, whatever threads push, pop and overwrite.         *)
THEOREM RingSafe == Spec => []RingConsistent
BY IndInvInvariant, PTL DEF IndInv

(* No wake-up is lost: nobody sleeps on a queue that has events or is shut *)
(* down.                                                                   *)
THEOREM WakeupSafe == Spec => []NoLostWakeup
BY IndInvInvariant, PTL DEF IndInv

-----------------------------------------------------------------------------
(* An owner that joined its threads finalizes a queue nobody is in.        *)

JoinInv ==
  /\ \A t \in Threads : pc[t] \in {"finalize", "destroy"} =>
       owner = NoThread /\ \A u \in Threads \ {t} : pc[u] = "idle"
  /\ NobodyInDestroyed

(* A thread that leaves its call, or blocks, leaves the others where they  *)
(* are and the mutex as it was between calls.                              *)
LEMMA LeaveJoin ==
  ASSUME TypeOK, JoinInv, NEW t \in Threads, NEW v, Return(t, v), alive
  PROVE  JoinInv'
<1>1. pc' = [pc EXCEPT ![t] = "idle"] /\ owner' = owner /\ alive' = alive
  BY DEF Return
<1>. QED BY <1>1 DEF TypeOK, JoinInv, NobodyInDestroyed

(* A thread that blocks keeps the join discipline's strengthening.         *)
LEMMA BlockJoin ==
  ASSUME TypeOK, JoinInv, NEW t \in Threads, NEW where \in {"popWait", "timedWait"},
         Block(t, where), alive, pc[t] # "idle"
  PROVE  JoinInv'
<1>1. pc' = [pc EXCEPT ![t] = where] /\ owner' = owner /\ alive' = alive
  BY DEF Block
<1>. QED BY <1>1 DEF TypeOK, JoinInv, NobodyInDestroyed

(* So does every step.                                                     *)
LEMMA JoinInvStep ==
  ASSUME Joined, TypeOK, JoinInv, [Next]_vars
  PROVE  JoinInv'
<1>. USE DEF TypeOK, JoinInv, NobodyInDestroyed
<1>1. CASE UNCHANGED vars
  BY <1>1 DEF vars
<1>2. ASSUME NEW t \in Threads, CallPush(t) \/ CallPop(t) \/ CallShutdown(t)
      PROVE  JoinInv'
  BY <1>2 DEF CallPush, CallPop, CallShutdown, Enter, NotFinalizing
<1>3. ASSUME NEW t \in Threads, CallFinalize(t) PROVE JoinInv'
  BY <1>3 DEF CallFinalize, Enter, AllJoined, NotFinalizing
<1>4. ASSUME NEW t \in Threads, Push(t) \/ TryPush(t) \/ Shutdown(t)
      PROVE  JoinInv'
  BY <1>4 DEF Push, TryPush, Shutdown, Locked, Return
<1>5. ASSUME NEW t \in Threads, Pop(t) PROVE JoinInv'
  <2>1. alive /\ pc[t] # "idle"
    BY <1>5 DEF Pop, Locked
  <2>. QED BY <1>5, <2>1, LeaveJoin, BlockJoin DEF Pop, Take, TakeNothing
<1>6. ASSUME NEW t \in Threads, TryPop(t) PROVE JoinInv'
  <2>1. alive
    BY <1>6 DEF TryPop, Locked
  <2>. QED BY <1>6, <2>1, LeaveJoin DEF TryPop, Take, TakeNothing
<1>7. ASSUME NEW t \in Threads, TimedPop(t) PROVE JoinInv'
  <2>1. alive /\ pc[t] # "idle"
    BY <1>7 DEF TimedPop, Locked
  <2>. QED BY <1>7, <2>1, LeaveJoin, BlockJoin DEF TimedPop, Take, TakeNothing
<1>8. ASSUME NEW t \in Threads, Expire(t) PROVE JoinInv'
  BY <1>8 DEF Expire
<1>9. ASSUME NEW t \in Threads,
             WakeSpuriously(t) \/ Unlock(t) \/ Peek(t)
      PROVE  JoinInv'
  BY <1>9 DEF WakeSpuriously, Unlock, Peek
<1>10. ASSUME NEW t \in Threads, Lock(t) PROVE JoinInv'
  BY <1>10 DEF Lock, NotFinalizing
<1>11. ASSUME NEW t \in Threads, FinalizeShutdown(t) PROVE JoinInv'
  BY <1>11 DEF FinalizeShutdown, Broadcast
<1>12. ASSUME NEW t \in Threads, FinalizeDestroy(t) PROVE JoinInv'
  BY <1>12 DEF FinalizeDestroy
<1>13. ASSUME NEW t \in Threads, LockFails(t) \/ RunInDestroyed(t) PROVE JoinInv'
  BY <1>13 DEF LockFails, RunInDestroyed, Return
<1>. QED
  BY <1>1, <1>2, <1>3, <1>4, <1>5, <1>6, <1>7, <1>8, <1>9, <1>10, <1>11, <1>12, <1>13
  DEF Next, Calling, Progress

(* It always holds, for a program that joins its threads.                  *)
LEMMA JoinInvInvariant == ASSUME Joined PROVE Spec => []JoinInv
<1>1. Init => JoinInv
  BY DEF Init, JoinInv, NobodyInDestroyed
<1>2. TypeOK /\ JoinInv /\ [Next]_vars => JoinInv'
  BY JoinInvStep
<1>. QED BY <1>1, <1>2, TypeCorrect, PTL DEF Spec

(* When the owner joins the other threads before finalize, no thread is    *)
(* ever left inside a destroyed queue.                                     *)
THEOREM DestroySafe == ASSUME Joined PROVE Spec => []NobodyInDestroyed
BY JoinInvInvariant, PTL DEF JoinInv

-----------------------------------------------------------------------------
(* The queue implements BoundedEvents.                                     *)

(* Moving one thread to another place moves it in the abstract queue.      *)
LEMMA CallMoves ==
  ASSUME TypeOK, NEW t \in Threads, NEW p \in Positions, pc' = [pc EXCEPT ![t] = p]
  PROVE  [u \in Threads |-> CallName(pc'[u])]
           = [[u \in Threads |-> CallName(pc[u])] EXCEPT ![t] = CallName(p)]
BY DEF TypeOK

(* A move between two places of one call is invisible there.               *)
LEMMA CallStays ==
  ASSUME TypeOK, NEW t \in Threads, NEW p \in Positions, pc' = [pc EXCEPT ![t] = p],
         CallName(p) = CallName(pc[t])
  PROVE  [u \in Threads |-> CallName(pc'[u])] = [u \in Threads |-> CallName(pc[u])]
BY DEF TypeOK

(* A return is a return of the bounded queue.                              *)
LEMMA ReturnMoves ==
  ASSUME TypeOK, NEW t \in Threads, NEW v, Return(t, v)
  PROVE  Abstract!Return(t, v)
<1>1. CallName("idle") = "none" /\ "idle" \in Positions
  BY DEF CallName, Positions
<1>. QED BY <1>1, CallMoves DEF Return, Abstract!Return

(* The contents depend on the ring alone.                                  *)
LEMMA SameContents ==
  ASSUME UNCHANGED <<items, head, tail, count>>
  PROVE  Contents' = Contents
BY DEF Contents

(* Taking an event delivers it there.                                      *)
LEMMA TakeDelivers ==
  ASSUME IndInv, NEW t \in Threads, Take(t), alive, owner = NoThread,
         CallName(pc[t]) \in {"pop", "tryPop", "timedPop"}
  PROVE  Abstract!Deliver(t)
<1>1. Contents # <<>> /\ items[tail] = Head(Contents) /\ Contents' = Tail(Contents)
  BY TakeStep DEF IndInv
<1>2. Abstract!Return(t, items[tail])
  BY ReturnMoves DEF IndInv, Take
<1>. QED BY <1>1, <1>2 DEF Abstract!Deliver, Abstract!Usable, Abstract!PopCalls, Take, Return

(* Returning without an event delivers nothing there.                      *)
LEMMA TakesNothing ==
  ASSUME IndInv, NEW t \in Threads, TakeNothing(t), alive, owner = NoThread,
         \/ CallName(pc[t]) = "pop" /\ count = 0 /\ shutdown
         \/ CallName(pc[t]) = "tryPop" /\ count = 0
         \/ CallName(pc[t]) = "timedPop"
  PROVE  Abstract!DeliverNothing(t)
<1>1. Abstract!Return(t, NULL)
  BY ReturnMoves DEF IndInv, TakeNothing
<1>2. Contents' = Contents
  BY SameContents DEF TakeNothing
<1>3. count = 0 => Contents = <<>>
  BY ContentsType, EmptySeq DEF IndInv
<1>. QED BY <1>1, <1>2, <1>3 DEF Abstract!DeliverNothing, Abstract!Usable, TakeNothing, Return

(* Blocking is a stutter there.                                            *)
LEMMA BlockStutters ==
  ASSUME IndInv, NEW t \in Threads, NEW w \in {"popWait", "timedWait"}, Block(t, w),
         CallName(w) = CallName(pc[t])
  PROVE  UNCHANGED Abstract!vars
<1>1. [u \in Threads |-> CallName(pc'[u])] = [u \in Threads |-> CallName(pc[u])]
  BY CallStays DEF IndInv, Block, Positions
<1>2. Contents' = Contents
  BY SameContents DEF Block
<1>. QED BY <1>1, <1>2 DEF Block, Abstract!vars

(* The initial states map to its initial state.                            *)
LEMMA RefineInit == Init => Abstract!Init
<1>. SUFFICES ASSUME Init PROVE Abstract!Init
  OBVIOUS
<1>1. Contents = <<>>
  BY DEF Init, Contents
<1>2. [t \in Threads |-> CallName(pc[t])] = [t \in Threads |-> "none"]
  BY DEF Init, CallName
<1>. QED BY <1>1, <1>2 DEF Init, Abstract!Init

(* Every step of the queue is a step of the abstract one, or invisible.    *)
LEMMA RefineStep ==
  ASSUME IndInv, [Next]_vars
  PROVE  Abstract!Next \/ UNCHANGED Abstract!vars
<1>0. TypeOK
  BY DEF IndInv
<1>. USE DEF CallName
<1>1. CASE UNCHANGED vars
  <2>1. Contents' = Contents
    BY <1>1, SameContents DEF vars
  <2>. QED BY <1>1, <2>1 DEF vars, Abstract!vars
<1>2. ASSUME NEW t \in Threads, Calling(t) PROVE Abstract!Begin(t)
  <2>1. PICK c \in {"push", "tryPush", "pop", "tryPop", "timedPop", "shutdown", "finalize"} :
          Enter(t, c)
    BY <1>2 DEF Calling, CallPush, CallPop, CallShutdown, CallFinalize
  <2>2. arg' = arg \/ \E e \in Events : arg' = [arg EXCEPT ![t] = e]
    BY <1>2 DEF Calling, CallPush, CallPop, CallShutdown, CallFinalize
  <2>3. [u \in Threads |-> CallName(pc'[u])]
          = [[u \in Threads |-> CallName(pc[u])] EXCEPT ![t] = c]
    <3>1. c \in Positions /\ CallName(c) = c
      BY DEF Positions
    <3>2. pc' = [pc EXCEPT ![t] = c]
      BY <2>1 DEF Enter
    <3>. HIDE DEF CallName
    <3>. QED BY <1>0, <3>1, <3>2, CallMoves
  <2>4. Contents' = Contents
    BY <2>1, SameContents DEF Enter
  <2>5. [u \in Threads |-> CallName(pc[u])][t] = "none"
    BY <2>1 DEF Enter
  <2>6. UNCHANGED <<shutdown, alive, owner, out>>
    BY <2>1 DEF Enter
  <2>7. c \in Abstract!Calls
    BY DEF Abstract!Calls, Abstract!PushCalls, Abstract!PopCalls
  <2>. QED BY <2>2, <2>3, <2>4, <2>5, <2>6, <2>7, Zenon DEF Abstract!Begin
<1>3. ASSUME NEW t \in Threads, Push(t) PROVE Abstract!Accept(t) \/ Abstract!Refuse(t)
  <2>1. Contents \in Seq(Events) /\ Len(Contents) = count
    BY ContentsType DEF IndInv
  <2>2. CASE shutdown
    <3>1. Abstract!Return(t, "failed")
      BY <1>0, <1>3, <2>2, ReturnMoves DEF Push
    <3>2. Contents' = Contents
      BY <1>3, <2>2, SameContents DEF Push
    <3>. QED BY <1>3, <2>2, <3>1, <3>2
         DEF Push, Locked, Return, Abstract!Refuse, Abstract!Usable, Abstract!PushCalls
  <2>3. CASE ~shutdown
    <3>1. Abstract!Return(t, "ok")
      BY <1>0, <1>3, <2>3, ReturnMoves DEF Push
    <3>2. arg[t] \in Events
      BY <1>3 DEF IndInv, ArgPending, Push, Locked
    <3>3. CASE count = Capacity
      <4>1. Contents' = Append(Tail(Contents), arg[t])
        BY <1>0, <1>3, <2>3, <3>2, <3>3, StoreOverOldest DEF IndInv, Push
      <4>. QED BY <1>3, <2>1, <2>3, <3>1, <3>3, <4>1
           DEF Push, Locked, Return, Abstract!Accept, Abstract!Usable
    <3>4. CASE count # Capacity
      <4>1. Contents' = Append(Contents, arg[t])
        BY <1>0, <1>3, <2>3, <3>2, <3>4, StoreWithRoom DEF IndInv, Push
      <4>2. count < Capacity
        BY <1>0, <3>4, CapacityAssumption DEF TypeOK
      <4>. QED BY <1>3, <2>1, <2>3, <3>1, <4>1, <4>2
           DEF Push, Locked, Return, Abstract!Accept, Abstract!Usable, Abstract!PushCalls
    <3>. QED BY <3>3, <3>4
  <2>. QED BY <2>2, <2>3
<1>4. ASSUME NEW t \in Threads, TryPush(t) PROVE Abstract!Accept(t) \/ Abstract!Refuse(t)
  <2>1. Contents \in Seq(Events) /\ Len(Contents) = count
    BY ContentsType DEF IndInv
  <2>2. CASE shutdown \/ count = Capacity
    <3>1. Abstract!Return(t, "failed")
      BY <1>0, <1>4, <2>2, ReturnMoves DEF TryPush
    <3>2. Contents' = Contents
      BY <1>4, <2>2, SameContents DEF TryPush
    <3>. QED BY <1>4, <2>1, <2>2, <3>1, <3>2
         DEF TryPush, Locked, Return, Abstract!Refuse, Abstract!Usable, Abstract!PushCalls
  <2>3. CASE ~shutdown /\ count # Capacity
    <3>1. Abstract!Return(t, "ok")
      BY <1>0, <1>4, <2>3, ReturnMoves DEF TryPush
    <3>2. arg[t] \in Events
      BY <1>4 DEF IndInv, ArgPending, TryPush, Locked
    <3>3. Contents' = Append(Contents, arg[t])
      BY <1>0, <1>4, <2>3, <3>2, StoreWithRoom DEF IndInv, TryPush
    <3>4. count < Capacity
      BY <1>0, <2>3, CapacityAssumption DEF TypeOK
    <3>. QED BY <1>4, <2>1, <2>3, <3>1, <3>3, <3>4
         DEF TryPush, Locked, Return, Abstract!Accept, Abstract!Usable, Abstract!PushCalls
  <2>. QED BY <2>2, <2>3
<1>5. ASSUME NEW t \in Threads, Pop(t)
      PROVE  Abstract!Next \/ UNCHANGED Abstract!vars
  <2>1. alive /\ owner = NoThread /\ CallName(pc[t]) = "pop"
    BY <1>5 DEF Pop, Locked
  <2>2. CASE count = 0 /\ ~shutdown /\ Block(t, "popWait")
    BY <2>1, <2>2, BlockStutters
  <2>3. CASE count = 0 /\ shutdown /\ TakeNothing(t)
    BY <2>1, <2>3, TakesNothing DEF Abstract!Next
  <2>4. CASE Take(t)
    BY <2>1, <2>4, TakeDelivers DEF Abstract!Next
  <2>. QED BY <1>5, <2>2, <2>3, <2>4 DEF Pop
<1>6. ASSUME NEW t \in Threads, TryPop(t) PROVE Abstract!Next
  <2>1. alive /\ owner = NoThread /\ CallName(pc[t]) = "tryPop"
    BY <1>6 DEF TryPop, Locked
  <2>. QED BY <1>6, <2>1, TakeDelivers, TakesNothing DEF TryPop, Abstract!Next
<1>7. ASSUME NEW t \in Threads, TimedPop(t)
      PROVE  Abstract!Next \/ UNCHANGED Abstract!vars
  <2>1. alive /\ owner = NoThread /\ CallName(pc[t]) = "timedPop"
    BY <1>7 DEF TimedPop, Locked
  <2>2. CASE Block(t, "timedWait")
    BY <2>1, <2>2, BlockStutters
  <2>3. CASE TakeNothing(t)
    BY <2>1, <2>3, TakesNothing DEF Abstract!Next
  <2>4. CASE Take(t)
    BY <2>1, <2>4, TakeDelivers DEF Abstract!Next
  <2>. QED BY <1>7, <2>2, <2>3, <2>4 DEF TimedPop
<1>8. ASSUME NEW t \in Threads, Expire(t) \/ WakeSpuriously(t)
      PROVE  UNCHANGED Abstract!vars
  <2>1. Contents' = Contents
    BY <1>8, SameContents DEF Expire, WakeSpuriously
  <2>2. [u \in Threads |-> CallName(pc'[u])] = [u \in Threads |-> CallName(pc[u])]
    <3>1. CASE Expire(t)
      BY <1>0, <3>1, CallStays DEF Expire, Positions
    <3>. QED BY <1>8, <3>1 DEF WakeSpuriously
  <2>. QED BY <1>8, <2>1, <2>2 DEF Expire, WakeSpuriously, Abstract!vars
<1>9. ASSUME NEW t \in Threads, Lock(t) \/ Unlock(t)
      PROVE  Abstract!Hold(t) \/ Abstract!Release(t)
  <2>1. Contents' = Contents
    BY <1>9, SameContents DEF Lock, Unlock
  <2>. QED BY <1>9, <2>1 DEF Lock, Unlock, Abstract!Hold, Abstract!Release, Abstract!Usable
<1>10. ASSUME NEW t \in Threads, Peek(t) PROVE Abstract!Inspect(t)
  <2>1. Contents' = Contents
    BY <1>10, SameContents DEF Peek
  <2>2. Contents \in Seq(Events) /\ Len(Contents) = count
    BY ContentsType DEF IndInv
  <2>3. (IF count = 0 THEN NULL ELSE items[tail])
          = (IF Contents = <<>> THEN NULL ELSE Head(Contents))
    <3>1. CASE count = 0
      BY <2>2, <3>1, EmptySeq
    <3>2. CASE count # 0
      <4>1. 1 \in 1 .. count /\ tail \in Slots
        BY <1>0, <3>2, CapacityAssumption DEF TypeOK
      <4>2. Contents[1] = items[tail]
        BY <4>1, FullTurn DEF Contents
      <4>3. Contents # <<>> /\ Head(Contents) = Contents[1]
        BY <2>2, <4>1
      <4>. QED BY <3>2, <4>2, <4>3
    <3>. QED BY <3>1, <3>2
  <2>. QED BY <1>10, <2>1, <2>3 DEF Peek, Abstract!Inspect
<1>11. ASSUME NEW t \in Threads, Shutdown(t) PROVE Abstract!Close(t)
  <2>1. Abstract!Return(t, "ok")
    BY <1>0, <1>11, ReturnMoves DEF Shutdown
  <2>2. Contents' = Contents
    BY <1>11, SameContents DEF Shutdown
  <2>. QED BY <1>11, <2>1, <2>2
       DEF Shutdown, Locked, Return, Abstract!Close, Abstract!Usable
<1>12. ASSUME NEW t \in Threads, FinalizeShutdown(t)
       PROVE  Abstract!Close(t) \/ UNCHANGED Abstract!vars
  <2>1. [u \in Threads |-> CallName(pc'[u])] = [u \in Threads |-> CallName(pc[u])]
    BY <1>0, <1>12, CallStays DEF FinalizeShutdown, Positions
  <2>2. Contents' = Contents
    BY <1>12, SameContents DEF FinalizeShutdown
  <2>. QED BY <1>12, <2>1, <2>2
       DEF FinalizeShutdown, Abstract!Close, Abstract!Usable, Abstract!vars
<1>13. ASSUME NEW t \in Threads, FinalizeDestroy(t) PROVE Abstract!Discard(t)
  <2>1. [u \in Threads |-> CallName(pc'[u])]
          = [[u \in Threads |-> CallName(pc[u])] EXCEPT ![t] = "none"]
    BY <1>0, <1>13, CallMoves DEF FinalizeDestroy, Positions
  <2>2. Contents' = <<>>
    BY <1>13 DEF FinalizeDestroy, Contents
  <2>3. CallName(pc[t]) = "finalize" /\ [u \in Threads |-> CallName(pc[u])][t] = "finalize"
    BY <1>13 DEF FinalizeDestroy
  <2>. QED BY <1>13, <2>1, <2>2, <2>3 DEF FinalizeDestroy, Abstract!Discard
<1>14. ASSUME NEW t \in Threads, LockFails(t) PROVE Abstract!Fail(t)
  <2>1. Contents' = Contents
    BY <1>14, SameContents DEF LockFails
  <2>2. CASE pc[t] \in {"push", "tryPush", "shutdown", "finalize"} /\ Return(t, "failed")
    <3>1. Abstract!Return(t, "failed")
      BY <1>0, <2>2, ReturnMoves
    <3>2. CallName(pc[t]) \notin {"none", "pop", "tryPop", "timedPop"}
      BY <2>2
    <3>3. (~alive \/ owner = t) /\ UNCHANGED <<shutdown, alive>>
      BY <1>14 DEF LockFails, Return
    <3>4. [u \in Threads |-> CallName(pc[u])][t] = CallName(pc[t])
      OBVIOUS
    <3>. HIDE DEF CallName
    <3>. QED BY <2>1, <3>1, <3>2, <3>3, <3>4 DEF Abstract!Fail, Abstract!PopCalls
  <2>3. CASE pc[t] \in {"pop", "tryPop", "timedPop"} /\ Return(t, NULL)
    <3>1. Abstract!Return(t, NULL)
      BY <1>0, <2>3, ReturnMoves
    <3>2. CallName(pc[t]) \in {"pop", "tryPop", "timedPop"}
      BY <2>3
    <3>3. (~alive \/ owner = t) /\ UNCHANGED <<shutdown, alive>>
      BY <1>14 DEF LockFails, Return
    <3>4. [u \in Threads |-> CallName(pc[u])][t] = CallName(pc[t])
      OBVIOUS
    <3>. HIDE DEF CallName
    <3>. QED BY <2>1, <3>1, <3>2, <3>3, <3>4 DEF Abstract!Fail, Abstract!PopCalls
  <2>. QED BY <1>14, <2>2, <2>3 DEF LockFails
<1>15. ASSUME NEW t \in Threads, RunInDestroyed(t) PROVE Abstract!Outlive(t)
  <2>1. PICK v \in Events \cup {NULL} : Return(t, v)
    BY <1>15 DEF RunInDestroyed
  <2>2. Abstract!Return(t, v)
    BY <1>0, <2>1, ReturnMoves
  <2>3. Contents' = Contents /\ ~alive /\ UNCHANGED <<shutdown, alive>>
    BY <1>15, <2>1, SameContents DEF RunInDestroyed, Return
  <2>4. [u \in Threads |-> CallName(pc[u])][t] \in {"pop", "tryPop", "timedPop"}
    BY <1>15 DEF RunInDestroyed
  <2>. HIDE DEF CallName
  <2>. QED BY <2>2, <2>3, <2>4 DEF Abstract!Outlive, Abstract!PopCalls
<1>. QED
  BY <1>1, <1>2, <1>3, <1>4, <1>5, <1>6, <1>7, <1>8, <1>9, <1>10, <1>11, <1>12, <1>13,
     <1>14, <1>15
  DEF Next, Progress, Abstract!Next

(* The ring buffer, the mutex and the wait set implement the bounded FIFO  *)
(* of BoundedEvents: no event is lost, duplicated or reordered except the  *)
(* oldest one of a full queue that push overwrites, and those still there  *)
(* when the queue is finalized.                                            *)
THEOREM Refinement == Spec => Implements
<1>1. IndInv /\ [Next]_vars => [Abstract!Next]_(Abstract!vars)
  BY RefineStep
<1>. QED BY <1>1, RefineInit, IndInvInvariant, PTL DEF Spec, Implements, Abstract!Spec
=============================================================================
