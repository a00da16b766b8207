--------------------------- MODULE SystemProofs ---------------------------
(***************************************************************************)
(* TLAPS proofs about two parts of runtime-sys: Waitgroup, for any workers,*)
(* any deltas and as much work as an int counts, used with the discipline  *)
(* and by any callers; and HashTable, for any keys, values, hashes and     *)
(* sizes, and chains as long as one likes.  And about Values, the dates,   *)
(* the clock and the numbers, for any scale of time, calendar and widths.  *)
(***************************************************************************)
EXTENDS Waitgroup, HashTable, Values, FiniteSetTheorems, SequenceTheorems, WellFoundedInduction, TLAPS

-----------------------------------------------------------------------------
(* The inductive invariant.                                                *)

InDone == {t \in Threads : pc[t] = "done"}

(* What the adds that have not reached the mutex will announce, one item   *)
(* for each unit of each operand.                                          *)
Own(t, d) == {t} \X (1 .. d)
Units == {u \in Threads \X Nat : u[2] \in 1 .. operand[u[1]]}

(* Where a thread is tells what it holds.                                  *)
Positions ==
  /\ pc \in [Threads -> {"idle", "add", "done", "finalize", "woken", "destroy"}]
  /\ operand \in [Threads -> Nat] /\ busy \subseteq Workers
  /\ \A t \in Threads : pc[t] # "add" => operand[t] = 0
  /\ \A w \in Workers : /\ pc[w] \in {"idle", "add", "done"}
                        /\ pc[w] = "add" => w \in busy
                        /\ pc[w] = "done" => w \notin busy
  /\ pc[Owner] # "done"

(* The counter is the outstanding work, and never passes what was asked.   *)
Counted ==
  /\ unclaimed \in Nat /\ total \in Nat /\ total <= Announced
  /\ IsFiniteSet(busy) /\ IsFiniteSet(InDone) /\ IsFiniteSet(Units)
  /\ acked = unclaimed + Cardinality(busy) + Cardinality(InDone)
  /\ counter = acked
  /\ acked + Cardinality(Units) <= total

(* The owner waits for work there is, and is the last to leave.            *)
LastOut ==
  /\ waiting => alive /\ counter > 0
  /\ pc[Owner] = "destroy" => counter = 0
  /\ ~alive => counter = 0 /\ \A t \in Threads : pc[t] = "idle"

Disciplined == disciplined => Positions /\ Counted /\ LastOut

-----------------------------------------------------------------------------
(* An add of d has d units of its own.                                     *)
LEMMA OwnUnits ==
  ASSUME NEW t, NEW d \in Nat
  PROVE  IsFiniteSet(Own(t, d)) /\ Cardinality(Own(t, d)) = d
<1>1. IsFiniteSet({t}) /\ Cardinality({t}) = 1
  BY FS_Singleton
<1>2. IsFiniteSet(1 .. d) /\ Cardinality(1 .. d) = d
  BY FS_Interval
<1>3. /\ IsFiniteSet({t} \X (1 .. d))
      /\ Cardinality({t} \X (1 .. d)) = Cardinality({t}) * Cardinality(1 .. d)
  BY <1>1, <1>2, FS_Product, Zenon
<1>. QED BY <1>1, <1>2, <1>3 DEF Own

(* Setting a thread's operand from 0 adds its units and no others.         *)
LEMMA UnitsGrow ==
  ASSUME operand \in [Threads -> Nat], IsFiniteSet(Units),
         NEW t \in Threads, operand[t] = 0, NEW d \in Nat,
         operand' = [operand EXCEPT ![t] = d]
  PROVE  IsFiniteSet(Units') /\ Cardinality(Units') = Cardinality(Units) + d
<1>1. Units' = Units \cup Own(t, d) /\ Units \cap Own(t, d) = {}
  BY DEF Units, Own
<1>2. IsFiniteSet(Own(t, d)) /\ Cardinality(Own(t, d)) = d
  BY OwnUnits
<1>3. IsFiniteSet(Units) /\ Cardinality(Units) \in Nat
  BY FS_CardinalityType
<1>4. /\ IsFiniteSet(Units \cup Own(t, d))
      /\ Cardinality(Units \cup Own(t, d)) = Cardinality(Units) + d - Cardinality({})
  BY <1>1, <1>2, <1>3, FS_Union
<1>. QED BY <1>1, <1>3, <1>4, FS_EmptySet

(* Resetting it takes them away: it was one of those still to come.        *)
LEMMA UnitsShrink ==
  ASSUME operand \in [Threads -> Nat], IsFiniteSet(Units),
         NEW t \in Threads, operand' = [operand EXCEPT ![t] = 0]
  PROVE  IsFiniteSet(Units') /\ Cardinality(Units') = Cardinality(Units) - operand[t]
<1>1. Units' = Units \ Own(t, operand[t]) /\ Units \cap Own(t, operand[t]) = Own(t, operand[t])
  BY DEF Units, Own
<1>2. Cardinality(Own(t, operand[t])) = operand[t]
  BY OwnUnits
<1>4. /\ IsFiniteSet(Units \ Own(t, operand[t]))
      /\ Cardinality(Units \ Own(t, operand[t]))
           = Cardinality(Units) - Cardinality(Units \cap Own(t, operand[t]))
  BY FS_Difference, Zenon
<1>. QED BY <1>1, <1>2, <1>4

(* Nothing outstanding: nothing is announced, held or in a done.           *)
LEMMA NothingOutstanding ==
  ASSUME Counted, acked = 0
  PROVE  unclaimed = 0 /\ busy = {} /\ InDone = {}
<1>1. Cardinality(busy) \in Nat /\ Cardinality(InDone) \in Nat
  BY FS_CardinalityType DEF Counted
<1>2. unclaimed = 0 /\ Cardinality(busy) = 0 /\ Cardinality(InDone) = 0
  BY <1>1 DEF Counted
<1>. QED BY <1>2, FS_EmptySet DEF Counted

(* The counts are natural numbers and the acknowledged ones fit an int.    *)
LEMMA CountsNatural ==
  ASSUME Counted
  PROVE  /\ Cardinality(busy) \in Nat /\ Cardinality(InDone) \in Nat /\ Cardinality(Units) \in Nat
         /\ acked \in Nat /\ counter \in Nat /\ acked <= INT_MAX /\ INT_MAX \in Nat
<1>1. Cardinality(busy) \in Nat /\ Cardinality(InDone) \in Nat /\ Cardinality(Units) \in Nat
  BY FS_CardinalityType DEF Counted
<1>. QED BY <1>1, BoundAssumption, DeltaAssumption DEF Counted

-----------------------------------------------------------------------------
(* Each step keeps the invariant.                                          *)

(* The group starts in the strengthening.                                  *)
LEMMA InitOK == Init => Disciplined
<1>. SUFFICES ASSUME Init PROVE Disciplined
  OBVIOUS
<1>1. InDone = {} /\ Units = {}
  BY DEF Init, InDone, Units
<1>2. Positions
  BY OwnerAssumption DEF Init, Positions, Threads
<1>3. Counted
  BY <1>1, FS_EmptySet, BoundAssumption DEF Init, Counted
<1>. QED BY <1>2, <1>3 DEF Init, LastOut, Disciplined

(* A thread that starts keeps it.                                          *)
LEMMA StartOK ==
  ASSUME Positions, Counted, LastOut, NEW w \in Threads, disciplined, Start(w)
  PROVE  (Positions /\ Counted /\ LastOut)'
<1>1. /\ w \in Workers /\ w \notin busy /\ pc[w] = "idle" /\ unclaimed > 0
      /\ unclaimed' = unclaimed - 1 /\ busy' = busy \cup {w}
      /\ counter' = counter /\ alive' = alive /\ waiting' = waiting /\ pc' = pc
      /\ operand' = operand /\ acked' = acked /\ total' = total
  BY DEF Start, Idle, group
<1>2. Positions'
  BY <1>1 DEF Positions
<1>3. InDone' = InDone /\ Units' = Units
  BY <1>1 DEF InDone, Units
<1>4. IsFiniteSet(busy') /\ Cardinality(busy') = Cardinality(busy) + 1
  BY <1>1, FS_AddElement DEF Counted
<1>5. Counted'
  BY <1>1, <1>3, <1>4, CountsNatural DEF Counted
<1>6. LastOut'
  BY <1>1 DEF LastOut
<1>. QED BY <1>2, <1>5, <1>6

(* add keeps it.                                                           *)
LEMMA CallAddOK ==
  ASSUME Positions, Counted, LastOut, NEW t \in Threads, disciplined, CallAdd(t)
  PROVE  (Positions /\ Counted /\ LastOut)'
<1>1. PICK d \in 0 .. MaxDelta :
        total + d <= MaxTotal /\ operand' = [operand EXCEPT ![t] = d] /\ total' = total + d
  BY DEF CallAdd
<1>2. /\ pc[t] = "idle" /\ alive /\ (t = Owner \/ t \in busy)
      /\ pc' = [pc EXCEPT ![t] = "add"]
      /\ counter' = counter /\ alive' = alive /\ waiting' = waiting
      /\ unclaimed' = unclaimed /\ busy' = busy /\ acked' = acked
  BY DEF CallAdd, Idle, At, group
<1>3. d \in Nat /\ total + d <= Announced /\ operand[t] = 0
  BY <1>1, <1>2, DeltaAssumption DEF MaxTotal, Positions
<1>4. Positions'
  BY <1>1, <1>2, <1>3, OwnerAssumption DEF Positions, Threads
<1>5. InDone' = InDone
  BY <1>2 DEF InDone, Positions
<1>6. IsFiniteSet(Units') /\ Cardinality(Units') = Cardinality(Units) + d
  BY <1>1, <1>3, UnitsGrow DEF Positions, Counted
<1>7. Counted'
  BY <1>1, <1>2, <1>3, <1>5, <1>6, CountsNatural DEF Counted
<1>8. LastOut'
  BY <1>2 DEF LastOut, Positions
<1>. QED BY <1>4, <1>7, <1>8

(* The sum fits an int, so that the counter does not wrap.                 *)
LEMMA AddOK ==
  ASSUME Positions, Counted, LastOut, NEW t \in Threads, disciplined, Add(t)
  PROVE  /\ (Positions /\ Counted /\ LastOut)'
         /\ acked' = acked + operand[t] /\ alive /\ alive'
<1>. DEFINE d == operand[t]
<1>1. /\ pc[t] = "add" /\ alive /\ alive' = alive /\ waiting' = waiting
      /\ counter' = Wrap(counter + d) /\ operand' = [operand EXCEPT ![t] = 0]
  BY DEF Add
<1>2. d \in Nat
  BY DEF Positions
<1>3. IsFiniteSet(Units') /\ Cardinality(Units') = Cardinality(Units) - d
  BY <1>1, UnitsShrink DEF Positions, Counted
<1>4. Cardinality(Units') \in Nat
  BY <1>3, FS_CardinalityType
<1>. HIDE DEF d
<1>5. counter + d \in 0 .. INT_MAX
  BY <1>2, <1>3, <1>4, CountsNatural, BoundAssumption, DeltaAssumption DEF Counted
<1>6. counter' = counter + d /\ counter' >= 0
  BY <1>1, <1>5, CountsNatural DEF Wrap
<1>7. /\ unclaimed' = unclaimed + d /\ acked' = acked + d
      /\ pc' = [pc EXCEPT ![t] = "idle"] /\ busy' = busy /\ total' = total
  BY <1>6, CountsNatural DEF Add, At, d
<1>8. InDone' = InDone
  BY <1>1, <1>7 DEF InDone, Positions
<1>9. Positions'
  BY <1>1, <1>7, OwnerAssumption DEF Positions, Threads
<1>10. Counted'
  BY <1>2, <1>3, <1>6, <1>7, <1>8, CountsNatural DEF Counted
<1>11. LastOut'
  <2>1. pc[Owner] # "destroy"
    <3>. SUFFICES ASSUME pc[Owner] = "destroy" PROVE FALSE
      OBVIOUS
    <3>1. t \in busy
      BY <1>1 DEF Positions, Threads
    <3>2. acked = 0
      BY DEF LastOut, Counted
    <3>. QED BY <3>1, <3>2, NothingOutstanding
  <2>2. pc'[Owner] # "destroy"
    BY <1>7, <2>1 DEF Positions, Threads
  <2>3. waiting' => counter' > 0
    BY <1>1, <1>2, <1>6, CountsNatural DEF LastOut
  <2>. QED BY <1>1, <2>2, <2>3 DEF LastOut
<1>. QED BY <1>1, <1>7, <1>9, <1>10, <1>11 DEF d

(* done keeps it.                                                          *)
LEMMA CallDoneOK ==
  ASSUME Positions, Counted, LastOut, NEW t \in Threads, disciplined, CallDone(t)
  PROVE  (Positions /\ Counted /\ LastOut)'
<1>1. /\ t \in Workers /\ pc[t] = "idle" /\ alive /\ t \in busy
      /\ busy' = busy \ {t} /\ pc' = [pc EXCEPT ![t] = "done"]
      /\ counter' = counter /\ alive' = alive /\ waiting' = waiting
      /\ operand' = operand /\ unclaimed' = unclaimed /\ acked' = acked /\ total' = total
  BY DEF CallDone, Idle, At, group
<1>2. Positions'
  BY <1>1, OwnerAssumption DEF Positions, Threads
<1>3. InDone' = InDone \cup {t} /\ t \notin InDone /\ Units' = Units
  BY <1>1 DEF InDone, Units, Positions
<1>4. IsFiniteSet(busy') /\ Cardinality(busy') = Cardinality(busy) - 1
  BY <1>1, FS_RemoveElement DEF Counted
<1>5. IsFiniteSet(InDone') /\ Cardinality(InDone') = Cardinality(InDone) + 1
  BY <1>3, FS_AddElement DEF Counted
<1>6. Counted'
  BY <1>1, <1>3, <1>4, <1>5, CountsNatural DEF Counted
<1>7. LastOut'
  BY <1>1, OwnerAssumption DEF LastOut, Positions
<1>. QED BY <1>2, <1>6, <1>7

(* A done is one of the outstanding items, so that the counter stays at    *)
(* least 0; the one that brings it to 0 wakes the owner.                   *)
LEMMA DoneOK ==
  ASSUME Positions, Counted, LastOut, NEW t \in Threads, disciplined, Done(t)
  PROVE  /\ (Positions /\ Counted /\ LastOut)'
         /\ acked > 0 /\ acked' = acked - 1 /\ alive /\ alive'
<1>1. /\ pc[t] = "done" /\ alive /\ alive' = alive
      /\ counter' = Wrap(counter - 1) /\ waiting' = (waiting /\ counter' # 0)
  BY DEF Done
<1>2. InDone \cup {t} = InDone /\ t \in InDone /\ IsFiniteSet(InDone)
  BY <1>1 DEF InDone, Counted
<1>3. IsFiniteSet(InDone \ {t}) /\ Cardinality(InDone \ {t}) = Cardinality(InDone) - 1
  BY <1>2, FS_RemoveElement
<1>4. Cardinality(InDone \ {t}) \in Nat
  BY <1>3, FS_CardinalityType
<1>5. counter - 1 \in 0 .. INT_MAX /\ acked > 0
  BY <1>3, <1>4, CountsNatural DEF Counted
<1>6. counter' = counter - 1 /\ counter' >= 0
  BY <1>1, <1>5, CountsNatural DEF Wrap
<1>7. /\ acked' = acked - 1 /\ pc' = [pc EXCEPT ![t] = "idle"] /\ operand' = operand
      /\ unclaimed' = unclaimed /\ busy' = busy /\ total' = total
  BY <1>6, CountsNatural DEF Done, At
<1>8. InDone' = InDone \ {t} /\ Units' = Units
  BY <1>1, <1>7 DEF InDone, Units, Positions
<1>9. Positions'
  BY <1>1, <1>7, OwnerAssumption DEF Positions, Threads
<1>10. Counted'
  BY <1>3, <1>6, <1>7, <1>8, CountsNatural DEF Counted
<1>11. LastOut'
  <2>1. pc[Owner] # "destroy"
    BY <1>5 DEF LastOut, Counted
  <2>2. pc'[Owner] # "destroy"
    BY <1>7, <2>1 DEF Positions, Threads
  <2>3. waiting' => counter' > 0
    <3>1. waiting' => counter' # 0
      BY <1>1, Zenon
    <3>. QED BY <1>5, <1>6, <3>1, CountsNatural
  <2>. QED BY <1>1, <2>2, <2>3 DEF LastOut
<1>. QED BY <1>1, <1>5, <1>7, <1>9, <1>10, <1>11

(* The owner leaves its wait only when nothing is outstanding, and then    *)
(* every worker is idle: only the owner and busy workers call add.         *)
LEMMA FinalizeOK ==
  ASSUME Positions, Counted, LastOut,
         CallFinalize \/ Finalize \/ WakeSpuriously
  PROVE  (Positions /\ Counted /\ LastOut)'
<1>1. /\ counter' = counter /\ alive' = alive /\ operand' = operand /\ busy' = busy
      /\ unclaimed' = unclaimed /\ acked' = acked /\ total' = total
  BY DEF CallFinalize, Finalize, WakeSpuriously, group, work
<1>2. \/ pc' = [pc EXCEPT ![Owner] = "finalize"] /\ pc[Owner] = "idle" /\ alive /\ waiting' = waiting
      \/ pc' = [pc EXCEPT ![Owner] = "woken"] /\ pc[Owner] \in {"finalize", "woken"} /\ counter > 0
      \/ /\ pc' = [pc EXCEPT ![Owner] = "destroy"] /\ pc[Owner] \in {"finalize", "woken"}
         /\ counter <= 0 /\ waiting' = waiting
      \/ pc' = pc /\ waiting' = FALSE
  BY DEF CallFinalize, Finalize, WakeSpuriously, At, group, work
<1>3. Owner \in Threads /\ Owner \notin Workers
  BY OwnerAssumption DEF Threads
<1>4. Positions'
  <2>1. pc' \in [Threads -> {"idle", "add", "done", "finalize", "woken", "destroy"}]
    BY <1>2, <1>3 DEF Positions
  <2>2. \A w \in Workers : w \in Threads /\ w # Owner
    BY <1>3 DEF Threads
  <2>3. /\ \A w \in Threads \ {Owner} : pc'[w] = pc[w]
        /\ pc'[Owner] # "done" /\ (pc'[Owner] # "add" => operand[Owner] = 0)
    BY <1>2, <1>3 DEF Positions
  <2>. QED BY <1>1, <2>1, <2>2, <2>3 DEF Positions
<1>5. InDone' = InDone /\ Units' = Units
  BY <1>1, <1>2, <1>3 DEF InDone, Units, Positions
<1>6. Counted'
  BY <1>1, <1>5 DEF Counted
<1>7. LastOut'
  <2>1. alive \/ \A t \in Threads : pc'[t] = "idle"
    BY <1>2, <1>3 DEF LastOut, Positions
  <2>2. pc'[Owner] = "destroy" => counter = 0
    BY <1>2, <1>3, CountsNatural DEF LastOut, Positions
  <2>3. waiting' => alive /\ counter > 0
    BY <1>2, <1>3, CountsNatural DEF LastOut, Positions
  <2>. QED BY <1>1, <2>1, <2>2, <2>3 DEF LastOut
<1>. QED BY <1>4, <1>6, <1>7

(* The destruction keeps it, and finds nothing left to wait for.           *)
LEMMA DestroyOK ==
  ASSUME Positions, Counted, LastOut, disciplined, Destroy
  PROVE  (Positions /\ Counted /\ LastOut)' /\ acked = 0 /\ acked' = acked /\ alive'= FALSE
<1>1. /\ pc[Owner] = "destroy" /\ alive' = FALSE /\ counter' = 0 /\ waiting' = waiting
      /\ pc' = [pc EXCEPT ![Owner] = "idle"]
      /\ operand' = operand /\ busy' = busy /\ unclaimed' = unclaimed
      /\ acked' = acked /\ total' = total
  BY DEF Destroy, At, work
<1>2. Owner \in Threads /\ Owner \notin Workers
  BY OwnerAssumption DEF Threads
<1>3. counter = 0 /\ acked = 0
  BY <1>1 DEF LastOut, Counted
<1>4. busy = {} /\ InDone = {}
  BY <1>3, NothingOutstanding
<1>5. Positions'
  BY <1>1, <1>2 DEF Positions
<1>6. InDone' = InDone /\ Units' = Units
  BY <1>1, <1>2 DEF InDone, Units, Positions
<1>7. Counted'
  BY <1>1, <1>3, <1>6 DEF Counted
<1>8. \A t \in Threads : pc'[t] = "idle"
  BY <1>1, <1>2, <1>4 DEF InDone, Positions, Threads
<1>9. ~waiting
  BY <1>3, CountsNatural DEF LastOut
<1>. QED BY <1>1, <1>2, <1>3, <1>5, <1>7, <1>8, <1>9 DEF LastOut

(* No add and no done of a disciplined use makes the counter negative, and *)
(* nobody is left in a call when the mutex is destroyed.                   *)
LEMMA NeverTaken ==
  ASSUME Positions, LastOut, NEW t \in Threads
  PROVE  ~Restore(t) /\ ~RunInDestroyed(t)
BY DEF Positions, LastOut, Restore, RunInDestroyed

(* The steps of a disciplined use.                                         *)
LEMMA StepOK ==
  ASSUME Disciplined, disciplined, [Next]_vars
  PROVE  (Positions /\ Counted /\ LastOut)'
<1>. USE DEF Disciplined
<1>1. CASE UNCHANGED vars
  BY <1>1 DEF vars, Positions, Counted, LastOut, InDone, Units
<1>2. ASSUME NEW t \in Threads, Start(t) \/ CallAdd(t) \/ CallDone(t) \/ Progress(t)
      PROVE  (Positions /\ Counted /\ LastOut)'
  BY <1>2, StartOK, CallAddOK, CallDoneOK, AddOK, DoneOK, NeverTaken DEF Progress
<1>3. CASE CallFinalize \/ Finalize \/ WakeSpuriously
  BY <1>3, FinalizeOK
<1>4. CASE Destroy
  BY <1>4, DestroyOK
<1>. QED BY <1>1, <1>2, <1>3, <1>4 DEF Next

(* How the program uses the group is settled at the start.                 *)
LEMMA UseKept == [Next]_vars => disciplined' = disciplined
BY DEF Next, vars, Start, CallAdd, CallDone, Progress, Add, Done, Restore, RunInDestroyed,
       CallFinalize, Finalize, WakeSpuriously, Destroy, group

(* The strengthening always holds.                                         *)
LEMMA Inductive == Spec => []Disciplined
<1>1. Disciplined /\ [Next]_vars => Disciplined'
  BY StepOK, UseKept DEF Disciplined
<1>. QED BY <1>1, InitOK, PTL DEF Spec

-----------------------------------------------------------------------------
(* The counter is exactly the outstanding work while the group exists: no  *)
(* sys_waitgroup_add and no sys_waitgroup_done is lost, doubled or undone, *)
(* whatever the interleaving of the workers.                               *)
THEOREM CounterSafe == Spec => []CounterCounts
<1>1. Disciplined => CounterCounts
  <2>. SUFFICES ASSUME Disciplined, disciplined PROVE counter = Outstanding /\ counter = acked
    BY DEF CounterCounts
  <2>. QED BY DEF Disciplined, Counted, Outstanding, InDone
<1>. QED BY <1>1, Inductive, PTL

(* The owner never sleeps in sys_waitgroup_finalize with nothing to wait   *)
(* for: the done that ends the work broadcasts.                            *)
THEOREM WakeupSafe == Spec => []NoLostWakeup
<1>1. Disciplined => NoLostWakeup
  BY DEF Disciplined, LastOut, NoLostWakeup
<1>. QED BY <1>1, Inductive, PTL

(* Once sys_waitgroup_finalize has destroyed the mutex no work is          *)
(* outstanding and no worker is in a call.                                 *)
THEOREM DestroySafe == Spec => []NothingLeftBehind
<1>1. Disciplined => NothingLeftBehind
  <2>. SUFFICES ASSUME Disciplined, disciplined, ~alive
                PROVE  Outstanding = 0 /\ \A t \in Threads : pc[t] = "idle"
    BY DEF NothingLeftBehind
  <2>. QED BY DEF Disciplined, Counted, LastOut, Outstanding, InDone
<1>. QED BY <1>1, Inductive, PTL

(* The counter, its mutex and the wait of finalize implement the count of  *)
(* pending work of PendingWork, for any workers and deltas.                *)
THEOREM Refinement == Spec => Implements
<1>1. Init => Promise!Init
  BY DEF Init, Promise!Init
<1>2. Disciplined /\ [Next]_vars => [Promise!Next]_(Promise!vars)
  <2>. SUFFICES ASSUME Disciplined, [Next]_vars
                PROVE  [Promise!Next]_(Promise!vars)
    OBVIOUS
  <2>1. CASE ~disciplined
    BY <2>1, UseKept DEF Promise!vars
  <2>2. CASE disciplined
    <3>. USE <2>2 DEF Disciplined
    <3>1. disciplined'
      BY UseKept
    <3>2. CASE acked' = acked /\ alive' = alive
      BY <3>1, <3>2 DEF Promise!vars
    <3>3. ASSUME NEW t \in Threads, Add(t)
          PROVE  [Promise!Next]_(Promise!vars)
      <4>1. acked' = acked + operand[t] /\ alive /\ alive' /\ operand[t] \in Nat
            /\ acked \in Nat /\ acked' \in Nat
        BY <3>3, AddOK, CountsNatural DEF Positions
      <4>2. CASE operand[t] = 0
        <5>1. acked' = acked
          BY <4>1, <4>2
        <5>. QED BY <3>1, <4>1, <5>1 DEF Promise!vars
      <4>3. CASE operand[t] # 0
        <5>1. acked' > acked
          BY <4>1, <4>3
        <5>. QED BY <3>1, <4>1, <5>1 DEF Promise!Next, Promise!Announce
      <4>. QED BY <4>2, <4>3
    <3>4. ASSUME NEW t \in Threads, Done(t)
          PROVE  [Promise!Next]_(Promise!vars)
      <4>1. acked > 0 /\ acked' = acked - 1 /\ alive /\ alive'
        BY <3>4, DoneOK
      <4>. QED BY <3>1, <4>1 DEF Promise!Next, Promise!Report
    <3>5. CASE Destroy
      <4>1. acked = 0 /\ acked' = acked /\ alive' = FALSE
        BY <3>5, DestroyOK
      <4>2. alive
        BY <3>5 DEF Destroy, LastOut, Threads
      <4>. QED BY <3>1, <4>1, <4>2 DEF Promise!Next, Promise!Finish
    <3>6. ASSUME NEW t \in Threads, Start(t) \/ CallAdd(t) \/ CallDone(t)
          PROVE  acked' = acked /\ alive' = alive
      BY <3>6 DEF Start, CallAdd, CallDone, group
    <3>7. CASE UNCHANGED vars \/ CallFinalize \/ Finalize \/ WakeSpuriously
      BY <3>2, <3>7 DEF vars, CallFinalize, Finalize, WakeSpuriously, group, work
    <3>. QED BY <3>2, <3>3, <3>4, <3>5, <3>6, <3>7, NeverTaken DEF Next, Progress
  <2>. QED BY <2>1, <2>2
<1>. QED BY <1>1, <1>2, Inductive, PTL DEF Spec, Implements, Promise!Spec

(* Used with one done for each announced item, for any workers and deltas, *)
(* sys_waitgroup_finalize counts right, wakes up and outlasts the work.    *)
THEOREM GroupCorrect == Spec => []WaitSafe
BY CounterSafe, WakeupSafe, DestroySafe, PTL DEF WaitSafe

-----------------------------------------------------------------------------
(* Any use, with the discipline or without.                                *)

(* The inductive invariant. What a thread restores is never positive, for  *)
(* only a counter below zero is restored; the adds announce no more than   *)
(* an int counts, and the dones that ran take no more than it holds.       *)
Anyhow ==
  /\ disciplined \in BOOLEAN /\ alive \in BOOLEAN /\ waiting \in BOOLEAN
  /\ pc \in [Threads -> {"idle", "add", "done", "restore", "finalize", "woken", "destroy"}]
  /\ operand \in [Threads -> 0 .. MaxDelta] /\ busy \subseteq Workers
  /\ \A t \in Threads : pc[t] # "add" => operand[t] = 0
  /\ unclaimed \in Nat /\ total \in 0 .. MaxTotal /\ dones \in 0 .. MaxDones
  /\ counter \in Int /\ old \in [Threads -> Int] /\ acked \in Nat
  /\ IsFiniteSet(InDone) /\ IsFiniteSet(Units)
  /\ counter <= acked /\ acked + Cardinality(Units) <= total
  /\ Cardinality(InDone) - dones <= counter
  /\ \A t \in Threads : Cardinality(InDone) - dones <= old[t] /\ old[t] <= 0

(* The numbers of an undisciplined program, as the proofs use them.        *)
LEMMA AnyhowNumbers ==
  ASSUME Anyhow
  PROVE  /\ Cardinality(InDone) \in Nat /\ Cardinality(Units) \in Nat
         /\ INT_MAX \in Nat /\ MaxDelta \in Nat /\ operand \in [Threads -> Nat]
         /\ MaxTotal \in Nat /\ MaxTotal <= INT_MAX /\ MaxDones \in Nat /\ MaxDones <= INT_MAX + 1
<1>1. Cardinality(InDone) \in Nat /\ Cardinality(Units) \in Nat
  BY FS_CardinalityType DEF Anyhow
<1>2. /\ INT_MAX \in Nat /\ MaxDelta \in Nat
      /\ MaxTotal \in Nat /\ MaxTotal <= INT_MAX /\ MaxDones \in Nat /\ MaxDones <= INT_MAX + 1
  BY BoundAssumption, DeltaAssumption DEF MaxTotal, MaxDones
<1>. QED BY <1>1, <1>2 DEF Anyhow

(* The group starts in the strengthening for any program.                  *)
LEMMA AnyhowInit == Init => Anyhow
<1>. SUFFICES ASSUME Init PROVE Anyhow
  OBVIOUS
<1>1. InDone = {} /\ Units = {}
  BY DEF Init, InDone, Units
<1>2. MaxTotal \in Nat /\ MaxDones \in Nat
  BY BoundAssumption, DeltaAssumption DEF MaxTotal, MaxDones
<1>3. IsFiniteSet({}) /\ Cardinality({}) = 0
  BY FS_EmptySet
<1>4. disciplined \in BOOLEAN
  BY DEF Init
<1>5. \A t \in Threads : pc[t] = "idle" /\ operand[t] = 0 /\ old[t] = 0
  BY DEF Init
<1>6. /\ pc \in [Threads -> {"idle", "add", "done", "restore", "finalize", "woken", "destroy"}]
      /\ operand \in [Threads -> 0 .. MaxDelta] /\ old \in [Threads -> Int]
  BY DeltaAssumption DEF Init
<1>7. /\ alive \in BOOLEAN /\ waiting \in BOOLEAN /\ busy \subseteq Workers /\ unclaimed \in Nat
      /\ counter = 0 /\ acked = 0 /\ total = 0 /\ dones = 0
  BY DEF Init
<1>. QED BY <1>1, <1>2, <1>3, <1>4, <1>5, <1>6, <1>7 DEF Anyhow

(* An add that makes the counter positive is acknowledged, and the sum     *)
(* fits: no add wraps around.                                              *)
LEMMA AnyAdd ==
  ASSUME Anyhow, NEW t \in Threads, Add(t), disciplined' = disciplined
  PROVE  Anyhow'
<1>. DEFINE d == operand[t]
<1>1. /\ pc[t] = "add" /\ alive' = alive /\ waiting' = waiting
      /\ counter' = Wrap(counter + d) /\ operand' = [operand EXCEPT ![t] = 0]
      /\ busy' = busy /\ total' = total /\ dones' = dones
      /\ \/ /\ counter' < 0 /\ old' = [old EXCEPT ![t] = counter]
            /\ pc' = [pc EXCEPT ![t] = "restore"]
            /\ unclaimed' = unclaimed /\ acked' = acked
         \/ /\ counter' >= 0 /\ old' = old /\ pc' = [pc EXCEPT ![t] = "idle"]
            /\ unclaimed' = unclaimed + d /\ acked' = acked + d
  BY DEF Add, At, work
<1>2. d \in Nat /\ operand' \in [Threads -> 0 .. MaxDelta]
  BY <1>1, AnyhowNumbers DEF Anyhow
<1>3. IsFiniteSet(Units') /\ Cardinality(Units') = Cardinality(Units) - d
  BY <1>1, UnitsShrink, AnyhowNumbers DEF Anyhow
<1>4. Cardinality(Units') \in Nat
  BY <1>3, FS_CardinalityType
<1>5. InDone' = InDone
  BY <1>1 DEF InDone, Anyhow
<1>6. MaxTotal' = MaxTotal /\ MaxDones' = MaxDones
  BY DEF MaxTotal, MaxDones
<1>. HIDE DEF d
<1>7. counter' = counter + d
  <2>1. counter + d <= INT_MAX /\ counter + d >= -(INT_MAX + 1)
    BY <1>2, <1>3, <1>4, AnyhowNumbers DEF Anyhow
  <2>. QED BY <1>1, <1>2, <2>1, AnyhowNumbers DEF Wrap, Anyhow
<1>8. \A u \in Threads : pc'[u] # "add" => operand'[u] = 0
  BY <1>1 DEF Anyhow
<1>9. /\ old' \in [Threads -> Int]
      /\ \A u \in Threads : Cardinality(InDone) - dones <= old'[u] /\ old'[u] <= 0
  <2>1. CASE old' = old
    BY <2>1 DEF Anyhow
  <2>2. CASE old' = [old EXCEPT ![t] = counter] /\ counter' < 0
    <3>1. counter <= 0
      BY <1>2, <1>7, <2>2 DEF Anyhow
    <3>. QED BY <2>2, <3>1 DEF Anyhow
  <2>. QED BY <1>1, <2>1, <2>2
<1>10. pc' \in [Threads -> {"idle", "add", "done", "restore", "finalize", "woken", "destroy"}]
  BY <1>1 DEF Anyhow
<1>11. /\ unclaimed' \in Nat /\ acked' \in Nat /\ counter' \in Int
       /\ counter' <= acked' /\ acked' + Cardinality(Units') <= total
       /\ Cardinality(InDone) - dones <= counter'
  BY <1>1, <1>2, <1>3, <1>4, <1>7, AnyhowNumbers DEF Anyhow
<1>. QED BY <1>1, <1>2, <1>3, <1>5, <1>6, <1>8, <1>9, <1>10, <1>11 DEF Anyhow

(* A done that is acknowledged found a positive counter, and so something  *)
(* announced; the dones that ran are too few for the counter to wrap.      *)
LEMMA AnyDone ==
  ASSUME Anyhow, NEW t \in Threads, Done(t), disciplined' = disciplined
  PROVE  Anyhow'
<1>1. /\ pc[t] = "done" /\ alive' = alive /\ operand' = operand
      /\ counter' = Wrap(counter - 1) /\ waiting' \in BOOLEAN
      /\ busy' = busy /\ total' = total /\ dones' = dones /\ unclaimed' = unclaimed
      /\ \/ /\ counter' < 0 /\ old' = [old EXCEPT ![t] = counter] /\ acked' = acked
            /\ pc' = [pc EXCEPT ![t] = "restore"]
         \/ counter' >= 0 /\ old' = old /\ acked' = acked - 1 /\ pc' = [pc EXCEPT ![t] = "idle"]
  <2>1. waiting' \in BOOLEAN
    BY DEF Done
  <2>. QED BY <2>1 DEF Done, At, work
<1>2. InDone' = InDone \ {t} /\ t \in InDone
  BY <1>1 DEF InDone, Anyhow
<1>3. IsFiniteSet(InDone') /\ Cardinality(InDone') = Cardinality(InDone) - 1
  BY <1>2, FS_RemoveElement DEF Anyhow
<1>4. Cardinality(InDone') \in Nat
  BY <1>3, FS_CardinalityType
<1>5. Units' = Units
  BY <1>1 DEF Units
<1>6. MaxTotal' = MaxTotal /\ MaxDones' = MaxDones
  BY DEF MaxTotal, MaxDones
<1>7. counter' = counter - 1
  <2>1. counter - 1 <= INT_MAX /\ counter - 1 >= -(INT_MAX + 1)
    BY <1>3, <1>4, AnyhowNumbers DEF Anyhow
  <2>. QED BY <1>1, <2>1, AnyhowNumbers DEF Wrap, Anyhow
<1>8. /\ old' \in [Threads -> Int]
      /\ \A u \in Threads : Cardinality(InDone') - dones <= old'[u] /\ old'[u] <= 0
  <2>1. CASE old' = old
    BY <1>3, <2>1, AnyhowNumbers DEF Anyhow
  <2>2. CASE old' = [old EXCEPT ![t] = counter] /\ counter' < 0
    <3>1. counter <= 0
      BY <1>7, <2>2 DEF Anyhow
    <3>. QED BY <1>3, <2>2, <3>1, AnyhowNumbers DEF Anyhow
  <2>. QED BY <1>1, <2>1, <2>2
<1>9. /\ pc' \in [Threads -> {"idle", "add", "done", "restore", "finalize", "woken", "destroy"}]
      /\ \A u \in Threads : pc'[u] # "add" => operand'[u] = 0
  BY <1>1 DEF Anyhow
<1>10. /\ acked' \in Nat /\ counter' \in Int /\ counter' <= acked'
       /\ acked' + Cardinality(Units) <= total
       /\ Cardinality(InDone') - dones <= counter'
  BY <1>1, <1>3, <1>7, AnyhowNumbers DEF Anyhow
<1>. QED BY <1>1, <1>3, <1>5, <1>6, <1>8, <1>9, <1>10 DEF Anyhow

(* The calls that change no counter.                                       *)
LEMMA AnyCall ==
  ASSUME Anyhow, NEW t \in Threads, disciplined' = disciplined,
         Start(t) \/ CallAdd(t) \/ CallDone(t)
  PROVE  Anyhow'
<1>1. MaxTotal' = MaxTotal /\ MaxDones' = MaxDones
  BY DEF MaxTotal, MaxDones
<1>2. CASE Start(t)
  <2>1. /\ t \in Workers /\ unclaimed > 0 /\ unclaimed' = unclaimed - 1 /\ busy' = busy \cup {t}
        /\ UNCHANGED <<counter, alive, waiting, pc, operand, old, acked, total, dones>>
    BY <1>2 DEF Start, group
  <2>2. InDone' = InDone /\ Units' = Units
    BY <2>1 DEF InDone, Units
  <2>. QED BY <1>1, <2>1, <2>2 DEF Anyhow
<1>3. CASE CallAdd(t)
  <2>1. PICK d \in 0 .. MaxDelta :
          /\ total + d <= MaxTotal /\ operand' = [operand EXCEPT ![t] = d] /\ total' = total + d
    BY <1>3 DEF CallAdd
  <2>2. /\ pc[t] = "idle" /\ pc' = [pc EXCEPT ![t] = "add"]
        /\ UNCHANGED <<counter, alive, waiting, old, unclaimed, busy, acked, dones>>
    BY <1>3 DEF CallAdd, Idle, At, group
  <2>3. d \in Nat /\ operand[t] = 0
    BY <2>2, AnyhowNumbers DEF Anyhow
  <2>4. IsFiniteSet(Units') /\ Cardinality(Units') = Cardinality(Units) + d
    BY <2>1, <2>3, UnitsGrow, AnyhowNumbers DEF Anyhow
  <2>5. InDone' = InDone
    BY <2>2 DEF InDone, Anyhow
  <2>6. /\ pc' \in [Threads -> {"idle", "add", "done", "restore", "finalize", "woken", "destroy"}]
        /\ operand' \in [Threads -> 0 .. MaxDelta]
        /\ \A u \in Threads : pc'[u] # "add" => operand'[u] = 0
    BY <2>1, <2>2 DEF Anyhow
  <2>7. total' \in 0 .. MaxTotal /\ acked + Cardinality(Units') <= total'
    BY <2>1, <2>3, <2>4, AnyhowNumbers DEF Anyhow
  <2>. QED BY <1>1, <2>2, <2>4, <2>5, <2>6, <2>7 DEF Anyhow
<1>4. CASE CallDone(t)
  <2>1. /\ pc[t] = "idle" /\ dones < MaxDones /\ dones' = dones + 1
        /\ busy' = busy \ {t} /\ pc' = [pc EXCEPT ![t] = "done"]
        /\ UNCHANGED <<counter, alive, waiting, operand, old, unclaimed, acked, total>>
    BY <1>4 DEF CallDone, Idle, At, group
  <2>2. InDone' = InDone \cup {t} /\ t \notin InDone /\ Units' = Units
    BY <2>1 DEF InDone, Units, Anyhow
  <2>3. IsFiniteSet(InDone') /\ Cardinality(InDone') = Cardinality(InDone) + 1
    BY <2>2, FS_AddElement DEF Anyhow
  <2>4. /\ pc' \in [Threads -> {"idle", "add", "done", "restore", "finalize", "woken", "destroy"}]
        /\ \A u \in Threads : pc'[u] # "add" => operand'[u] = 0
    BY <2>1 DEF Anyhow
  <2>5. /\ dones' \in 0 .. MaxDones
        /\ Cardinality(InDone') - dones' = Cardinality(InDone) - dones
    BY <2>1, <2>3, AnyhowNumbers DEF Anyhow
  <2>. QED BY <1>1, <2>1, <2>2, <2>3, <2>4, <2>5 DEF Anyhow
<1>. QED BY <1>2, <1>3, <1>4

(* The second section writes back a counter that was not positive; a call  *)
(* of a destroyed group is forgotten.                                      *)
LEMMA AnyReturn ==
  ASSUME Anyhow, NEW t \in Threads, disciplined' = disciplined, Restore(t) \/ RunInDestroyed(t)
  PROVE  Anyhow'
<1>1. MaxTotal' = MaxTotal /\ MaxDones' = MaxDones
  BY DEF MaxTotal, MaxDones
<1>2. /\ pc' = [pc EXCEPT ![t] = "idle"] /\ old' = [old EXCEPT ![t] = 0]
      /\ UNCHANGED <<alive, waiting, unclaimed, busy, acked, total, dones>>
      /\ \/ pc[t] = "restore" /\ counter' = old[t] /\ operand' = operand
         \/ counter' = counter /\ operand' = [operand EXCEPT ![t] = 0]
  BY DEF Restore, RunInDestroyed, At, work, group
<1>3. InDone' = InDone \ {t}
  BY <1>2 DEF InDone, Anyhow
<1>4. /\ IsFiniteSet(InDone') /\ Cardinality(InDone') \in Nat
      /\ Cardinality(InDone') <= Cardinality(InDone)
  <2>1. CASE t \in InDone
    <3>1. IsFiniteSet(InDone') /\ Cardinality(InDone') = Cardinality(InDone) - 1
      BY <1>3, <2>1, FS_RemoveElement DEF Anyhow
    <3>2. Cardinality(InDone') \in Nat
      BY <3>1, FS_CardinalityType
    <3>. QED BY <3>1, <3>2, AnyhowNumbers
  <2>2. CASE t \notin InDone
    <3>1. InDone' = InDone
      BY <1>3, <2>2
    <3>. QED BY <3>1, AnyhowNumbers DEF Anyhow
  <2>. QED BY <2>1, <2>2
<1>5. /\ IsFiniteSet(Units') /\ Cardinality(Units') \in Nat
      /\ Cardinality(Units') <= Cardinality(Units)
  <2>1. CASE operand' = operand
    <3>1. Units' = Units
      BY <2>1 DEF Units
    <3>. QED BY <3>1, AnyhowNumbers DEF Anyhow
  <2>2. CASE operand' = [operand EXCEPT ![t] = 0]
    <3>1. IsFiniteSet(Units') /\ Cardinality(Units') = Cardinality(Units) - operand[t]
      BY <2>2, UnitsShrink, AnyhowNumbers DEF Anyhow
    <3>2. Cardinality(Units') \in Nat /\ operand[t] \in Nat
      BY <3>1, FS_CardinalityType, AnyhowNumbers
    <3>. QED BY <3>1, <3>2, AnyhowNumbers
  <2>. QED BY <1>2, <2>1, <2>2
<1>6. /\ pc' \in [Threads -> {"idle", "add", "done", "restore", "finalize", "woken", "destroy"}]
      /\ operand' \in [Threads -> 0 .. MaxDelta]
      /\ \A u \in Threads : pc'[u] # "add" => operand'[u] = 0
  BY <1>2, DeltaAssumption DEF Anyhow
<1>7. /\ counter' \in Int /\ counter' <= acked /\ acked + Cardinality(Units') <= total
      /\ Cardinality(InDone') - dones <= counter'
  <2>1. counter' \in Int /\ counter' <= acked /\ Cardinality(InDone) - dones <= counter'
    BY <1>2, AnyhowNumbers DEF Anyhow
  <2>. QED BY <1>4, <1>5, <2>1, AnyhowNumbers DEF Anyhow
<1>8. Cardinality(InDone') - dones <= 0
  BY <1>4, AnyhowNumbers DEF Anyhow
<1>9. /\ old' \in [Threads -> Int]
      /\ \A u \in Threads : Cardinality(InDone') - dones <= old'[u] /\ old'[u] <= 0
  BY <1>2, <1>4, <1>8, AnyhowNumbers DEF Anyhow
<1>. QED BY <1>1, <1>2, <1>4, <1>5, <1>6, <1>7, <1>9 DEF Anyhow

(* The four steps of finalize keep the strengthening for any program.      *)
LEMMA AnyFinalize ==
  ASSUME Anyhow, disciplined' = disciplined,
         CallFinalize \/ Finalize \/ WakeSpuriously \/ Destroy
  PROVE  Anyhow'
<1>1. MaxTotal' = MaxTotal /\ MaxDones' = MaxDones
  BY DEF MaxTotal, MaxDones
<1>2. Owner \in Threads
  BY DEF Threads
<1>3. /\ alive' \in BOOLEAN /\ waiting' \in BOOLEAN
      /\ UNCHANGED <<operand, old, unclaimed, busy, acked, total, dones>>
      /\ counter' \in {counter, 0}
      /\ \/ pc' = pc
         \/ /\ pc[Owner] \in {"idle", "finalize", "woken", "destroy"}
            /\ pc' \in {[pc EXCEPT ![Owner] = "finalize"], [pc EXCEPT ![Owner] = "woken"],
                       [pc EXCEPT ![Owner] = "destroy"], [pc EXCEPT ![Owner] = "idle"]}
  BY DEF CallFinalize, Finalize, WakeSpuriously, Destroy, At, work, group, Anyhow
<1>4. InDone' = InDone /\ Units' = Units
  BY <1>2, <1>3 DEF InDone, Units, Anyhow
<1>5. /\ pc' \in [Threads -> {"idle", "add", "done", "restore", "finalize", "woken", "destroy"}]
      /\ \A u \in Threads : pc'[u] # "add" => operand'[u] = 0
  BY <1>2, <1>3 DEF Anyhow
<1>6. Cardinality(InDone) - dones <= 0
  BY <1>2, AnyhowNumbers DEF Anyhow
<1>. QED BY <1>1, <1>3, <1>4, <1>5, <1>6, AnyhowNumbers DEF Anyhow

(* The strengthening for any program always holds.                         *)
LEMMA AnyhowKept == Spec => []Anyhow
<1>1. ASSUME Anyhow, [Next]_vars PROVE Anyhow'
  <2>. USE <1>1
  <2>1. disciplined' = disciplined
    BY UseKept
  <2>2. CASE UNCHANGED vars
    BY <2>2 DEF vars, Anyhow, InDone, Units, MaxTotal, MaxDones
  <2>3. ASSUME NEW t \in Threads, Start(t) \/ CallAdd(t) \/ CallDone(t) \/ Progress(t)
        PROVE  Anyhow'
    BY <2>1, <2>3, AnyCall, AnyAdd, AnyDone, AnyReturn DEF Progress
  <2>4. CASE CallFinalize \/ Finalize \/ WakeSpuriously \/ Destroy
    BY <2>1, <2>4, AnyFinalize
  <2>. QED BY <2>2, <2>3, <2>4 DEF Next
<1>. QED BY <1>1, AnyhowInit, PTL DEF Spec

(* Whoever calls, and however often: the counter never shows more work     *)
(* than add acknowledged, no done is acknowledged that was not announced,  *)
(* and an int holds the counter and what a restore of sys_waitgroup_done   *)
(* or sys_waitgroup_add writes back.                                       *)
THEOREM RestoreSafe == Spec => []RestoreKept
<1>1. ASSUME Anyhow PROVE RestoreKept
  <2>. USE <1>1
  <2>1. counter \in -(INT_MAX + 1) .. INT_MAX
    BY AnyhowNumbers DEF Anyhow
  <2>2. \A t \in Threads : old[t] \in -(INT_MAX + 1) .. INT_MAX
    BY AnyhowNumbers DEF Anyhow
  <2>. QED BY <2>1, <2>2 DEF Anyhow, RestoreKept, TypeOK, NoPhantomWork
<1>. QED BY <1>1, AnyhowKept, PTL

-----------------------------------------------------------------------------
(* The hash table.                                                         *)
-----------------------------------------------------------------------------
(* How many slots there are up to one.                                     *)
LEMMA IntervalLength ==
  ASSUME NEW n \in Nat \ {0}
  PROVE  Cardinality(0 .. n - 1) = n
<1>1. 0 \in Int /\ n - 1 \in Int /\ ~(0 > n - 1) /\ (n - 1) - 0 + 1 = n
  OBVIOUS
<1>. QED BY <1>1, FS_Interval

(* The least number of a set.                                              *)
LEMMA MinFacts ==
  ASSUME NEW S, S \subseteq Nat, S # {}
  PROVE  Min(S) \in S /\ \A m \in S : Min(S) <= m
<1>. DEFINE R == OpToRel(<, Nat)
<1>1. IsWellFoundedOn(R, Nat)
  BY NatLessThanWellFounded
<1>2. \A k, l \in Nat : <<k, l>> \in R <=> k < l
  BY DEF OpToRel
<1>. HIDE DEF R
<1>3. PICK n \in S : \A k \in S : <<k, n>> \notin R
  BY <1>1, WFMin, Zenon
<1>4. \A k \in S : n <= k
  <2>. SUFFICES ASSUME NEW k \in S PROVE n <= k
    OBVIOUS
  <2>1. k \in Nat /\ n \in Nat /\ ~(k < n)
    BY <1>2, <1>3
  <2>. QED BY <2>1
<1>. QED BY <1>4 DEF Min

(* The quotient and the remainder.                                         *)
LEMMA Divides ==
  ASSUME NEW c \in Nat \ {0}, NEW n \in Nat
  PROVE  /\ n \div c \in Nat /\ n % c \in 0 .. c - 1
         /\ n = (n \div c) * c + (n % c)
  BY SMT

(* A multiple of c is not strictly between 0 and c.                        *)
LEMMA NoMultipleBelow ==
  ASSUME NEW c \in Nat \ {0}, NEW q \in Int, q * c < c, 0 < q * c
  PROVE  FALSE
<1>1. CASE q <= 0
  BY <1>1, SMT
<1>2. CASE q >= 1
  BY <1>2, SMT
<1>. QED BY <1>1, <1>2

(* Multiples of c subtract as their factors do.                            *)
LEMMA Multiples ==
  ASSUME NEW c \in Nat \ {0}, NEW p \in Int, NEW q \in Int
  PROVE  (p - q) * c = p * c - q * c
  BY SMT

(* The i-th slot a search of a string looks at in a table of n slots.      *)
Way(n, x, i) == (Hash[x] + i) % n

(* A search goes through every slot once.                                  *)
LEMMA WaysDiffer ==
  ASSUME NEW n \in Nat \ {0}, NEW x \in Strings, NEW i \in 0 .. n - 1, NEW j \in 0 .. n - 1,
         Way(n, x, i) = Way(n, x, j)
  PROVE  i = j
<1>. DEFINE h == Hash[x]
<1>1. h \in Nat /\ h + i \in Nat /\ h + j \in Nat
  BY KeysAssumption
<1>2. PICK p \in Nat, q \in Nat, r \in Nat : h + i = p * n + r /\ h + j = q * n + r
  <2>1. (h + i) % n = (h + j) % n
    BY DEF Way
  <2>2. /\ (h + i) \div n \in Nat /\ (h + i) % n \in 0 .. n - 1
        /\ h + i = ((h + i) \div n) * n + ((h + i) % n)
    BY ONLY n \in Nat \ {0}, <1>1, Divides
  <2>3. /\ (h + j) \div n \in Nat
        /\ h + j = ((h + j) \div n) * n + ((h + j) % n)
    BY ONLY n \in Nat \ {0}, <1>1, Divides
  <2>4. (h + i) % n \in Nat
    BY <1>1, <2>2
  <2>. QED BY <2>1, <2>2, <2>3, <2>4, Zenon
<1>. HIDE DEF h
<1>3. (p - q) * n = i - j /\ (q - p) * n = j - i
  <2>1. p * n \in Int /\ q * n \in Int /\ (p - q) * n = p * n - q * n /\ (q - p) * n = q * n - p * n
    BY <1>1, Multiples
  <2>. QED BY <1>1, <1>2, <2>1
<1>4. CASE i > j
  <2>1. p - q \in Int /\ (p - q) * n < n /\ 0 < (p - q) * n
    BY <1>1, <1>3, <1>4
  <2>. QED BY <1>1, <2>1, NoMultipleBelow
<1>5. CASE j > i
  <2>1. q - p \in Int /\ (q - p) * n < n /\ 0 < (q - p) * n
    BY <1>1, <1>3, <1>5
  <2>. QED BY <1>1, <2>1, NoMultipleBelow
<1>. QED BY <1>1, <1>4, <1>5

(* A search stays in the table.                                            *)
LEMMA WayInTable ==
  ASSUME NEW n \in Nat \ {0}, NEW x \in Strings, NEW i \in Nat
  PROVE  Way(n, x, i) \in 0 .. n - 1
<1>1. Hash[x] + i \in Nat
  BY KeysAssumption
<1>. QED BY <1>1, Divides DEF Way

(* A multiple and a rest.                                                  *)
LEMMA Remainder ==
  ASSUME NEW c \in Nat \ {0}, NEW q \in Nat, NEW r \in 0 .. c - 1
  PROVE  (q * c + r) % c = r /\ (q * c + r) \div c = q
<1>. DEFINE n == q * c + r
<1>1. n \in Nat
  BY SMT
<1>2. PICK p \in Nat, s \in 0 .. c - 1 : n = p * c + s /\ p = n \div c /\ s = n % c
  BY <1>1, Divides
<1>3. (p - q) * c = r - s /\ (q - p) * c = s - r /\ p - q \in Int /\ q - p \in Int
  BY <1>2, Multiples
<1>4. r = s
  BY <1>2, <1>3, NoMultipleBelow
<1>5. p = q
  BY <1>3, <1>4
<1>. QED BY <1>2, <1>4, <1>5

(* A search reaches every slot.                                            *)
LEMMA WaysReach ==
  ASSUME NEW n \in Nat \ {0}, NEW x \in Strings, NEW s \in 0 .. n - 1
  PROVE  \E i \in 0 .. n - 1 : Way(n, x, i) = s
<1>. DEFINE h == Hash[x]
            q == h \div n
            r == h % n
<1>1. h \in Nat
  BY KeysAssumption
<1>2. r \in 0 .. n - 1 /\ q \in Nat /\ h = q * n + r
  BY <1>1, Divides
<1>3. \A i : Way(n, x, i) = (h + i) % n
  BY DEF Way
<1>. HIDE DEF h, q, r
<1>4. CASE r <= s
  <2>1. s - r \in 0 .. n - 1 /\ h + (s - r) = q * n + s
    BY <1>2, <1>4
  <2>2. (q * n + s) % n = s
    BY ONLY n \in Nat \ {0}, s \in 0 .. n - 1, <1>2, Remainder
  <2>3. Way(n, x, s - r) = s
    BY ONLY <1>3, <2>1, <2>2
  <2>. QED BY <2>1, <2>3
<1>5. CASE r > s
  <2>1. (s - r) + n \in 0 .. n - 1 /\ h + ((s - r) + n) = q * n + n + s
    BY <1>2, <1>5
  <2>2. (q + 1) * n = q * n + n /\ q + 1 \in Nat
    BY <1>2
  <2>3. ((q + 1) * n + s) % n = s
    BY ONLY n \in Nat \ {0}, s \in 0 .. n - 1, <2>2, Remainder
  <2>4. h + ((s - r) + n) = (q + 1) * n + s
    BY ONLY <2>1, <2>2
  <2>5. Way(n, x, (s - r) + n) = s
    BY ONLY <1>3, <2>3, <2>4
  <2>. QED BY <2>1, <2>5
<1>6. r \in Int /\ s \in Int
  BY <1>2
<1>. QED BY <1>4, <1>5, <1>6

-----------------------------------------------------------------------------
(* An entry was never used, is in use, or was deleted; and a search for its*)
(* string meets no empty slot before it finds it, and no second entry.     *)
Table(n) == [0 .. n - 1 -> Entry]
Live(e) == e.value # NULL /\ ~e.deleted
Has(t, x, s) == Live(t[s]) /\ Str[t[s].key] = x
GoodEntry(e) == IF Live(e) THEN e.key \in Keys /\ e.hash = KeyHash(e.key) ELSE e.deleted \/ e = Unused

Met(t, n, x, i) == \A j \in 0 .. i - 1 : ~IsEmpty(t[Way(n, x, j)]) /\ ~Has(t, x, Way(n, x, j))

GoodTable(t, n) ==
  /\ t \in Table(n)
  /\ \A s \in 0 .. n - 1 : GoodEntry(t[s])
  /\ \A x \in Strings, i \in 0 .. n - 1 : Has(t, x, Way(n, x, i)) => Met(t, n, x, i)

(* A new table is good and has nothing in use.                             *)
LEMMA NewTableGood ==
  ASSUME NEW n \in Nat \ {0}
  PROVE  GoodTable(NewTable(n), n) /\ \A s \in 0 .. n - 1 : ~Live(NewTable(n)[s])
<1>1. Unused \in Entry
  BY DEF Unused, Entry
<1>2. NewTable(n) \in Table(n) /\ \A s \in 0 .. n - 1 : NewTable(n)[s] = Unused
  BY <1>1 DEF NewTable, Table
<1>3. ~Live(Unused) /\ GoodEntry(Unused)
  BY DEF Live, GoodEntry, Unused
<1>4. ASSUME NEW x \in Strings, NEW i \in 0 .. n - 1, Has(NewTable(n), x, Way(n, x, i)) PROVE FALSE
  <2>1. Way(n, x, i) \in 0 .. n - 1
    BY WayInTable
  <2>. QED BY <1>2, <1>3, <1>4, <2>1 DEF Has
<1>. QED BY <1>2, <1>3, <1>4 DEF GoodTable

(* What the code compares, in a table that is good.                        *)
LEMMA Reading ==
  ASSUME UsesKeyEquals, NEW n \in Nat \ {0}, NEW t, GoodTable(t, n), NEW k \in Keys
  PROVE  /\ DOMAIN t = 0 .. n - 1 /\ Length(t) = n /\ Str[k] \in Strings
         /\ \A s \in 0 .. n - 1 : Matches(t[s], k) <=> Has(t, Str[k], s)
         /\ \A s \in 0 .. n - 1 : ~Live(t[s]) <=> t[s].deleted \/ IsEmpty(t[s])
         /\ \A i \in 0 .. n - 1 : Way(n, Str[k], i) \in 0 .. n - 1
         /\ \A i : Probe(t, k, i) = Way(n, Str[k], i)
<1>1. DOMAIN t = 0 .. n - 1 /\ Str[k] \in Strings
  BY KeysAssumption DEF GoodTable, Table
<1>2. Length(t) = n
  BY <1>1, IntervalLength DEF Length
<1>3. ASSUME NEW s \in 0 .. n - 1
      PROVE  /\ Matches(t[s], k) <=> Has(t, Str[k], s)
             /\ ~Live(t[s]) <=> t[s].deleted \/ IsEmpty(t[s])
  <2>1. t[s] \in Entry /\ GoodEntry(t[s])
    BY DEF GoodTable, Table
  <2>2. t[s].deleted \in BOOLEAN /\ t[s].key \in Keys \cup {NULL}
    BY <2>1 DEF Entry
  <2>3. CASE Live(t[s])
    <3>1. t[s].key \in Keys /\ t[s].hash = Hash[Str[t[s].key]] /\ ~t[s].deleted /\ t[s].key # NULL
          /\ t[s].value # NULL
      BY <2>1, <2>3, NullAssumption DEF GoodEntry, Live, KeyHash
    <3>. QED BY <2>3, <3>1 DEF Matches, KeyEquals, KeyHash, Has, IsEmpty
  <2>4. CASE ~Live(t[s]) /\ t[s].deleted
    BY <2>4 DEF Matches, Has
  <2>5. CASE ~Live(t[s]) /\ ~t[s].deleted
    <3>1. t[s] = Unused
      BY <2>1, <2>5 DEF GoodEntry
    <3>2. t[s].key = NULL /\ IsEmpty(t[s])
      BY <3>1 DEF Unused, IsEmpty
    <3>. QED BY <2>5, <3>2 DEF Matches, KeyEquals, Has
  <2>. QED BY <2>3, <2>4, <2>5
<1>4. \A i \in 0 .. n - 1 : Way(n, Str[k], i) \in 0 .. n - 1
  BY <1>1, WayInTable
<1>5. \A i : Probe(t, k, i) = Way(n, Str[k], i)
  BY <1>2 DEF Probe, Way, KeyHash
<1>. QED BY <1>1, <1>2, <1>3, <1>4, <1>5

(* An entry of a string is at one place of the search.                     *)
LEMMA OnePlace ==
  ASSUME NEW n \in Nat \ {0}, NEW t, GoodTable(t, n), NEW x \in Strings
  PROVE  /\ \A i, j \in 0 .. n - 1 : Has(t, x, Way(n, x, i)) /\ Has(t, x, Way(n, x, j)) => i = j
         /\ \A s \in 0 .. n - 1 : Has(t, x, s) => \E i \in 0 .. n - 1 : Way(n, x, i) = s /\ Met(t, n, x, i)
         /\ \A s, u \in 0 .. n - 1 : Has(t, x, s) /\ Has(t, x, u) => s = u
<1>1. ASSUME NEW i \in 0 .. n - 1, NEW j \in 0 .. n - 1, Has(t, x, Way(n, x, i)), Has(t, x, Way(n, x, j))
      PROVE  i = j
  <2>1. Met(t, n, x, i) /\ Met(t, n, x, j)
    BY <1>1 DEF GoodTable
  <2>2. ~(i < j) /\ ~(j < i)
    BY <1>1, <2>1 DEF Met
  <2>. QED BY <2>2
<1>2. ASSUME NEW s \in 0 .. n - 1, Has(t, x, s)
      PROVE  \E i \in 0 .. n - 1 : Way(n, x, i) = s /\ Met(t, n, x, i)
  <2>1. PICK i \in 0 .. n - 1 : Way(n, x, i) = s
    BY WaysReach
  <2>. QED BY <1>2, <2>1 DEF GoodTable
<1>3. ASSUME NEW s \in 0 .. n - 1, NEW u \in 0 .. n - 1, Has(t, x, s), Has(t, x, u) PROVE s = u
  <2>1. PICK i \in 0 .. n - 1 : Way(n, x, i) = s
    BY <1>2, <1>3
  <2>2. PICK j \in 0 .. n - 1 : Way(n, x, j) = u
    BY <1>2, <1>3
  <2>. QED BY <1>1, <1>3, <2>1, <2>2
<1>. QED BY <1>1, <1>2, <1>3

(* _sys_hashtable_get_bykey_inner finds the entry of the key's string.     *)
LEMMA FoundHas ==
  ASSUME UsesKeyEquals, NEW n \in Nat \ {0}, NEW t, GoodTable(t, n), NEW k \in Keys
  PROVE  /\ GetInner(t, k) # NULL => GetInner(t, k) \in 0 .. n - 1 /\ Has(t, Str[k], GetInner(t, k))
         /\ \A s \in 0 .. n - 1 : Has(t, Str[k], s) => GetInner(t, k) = s /\ GetInner(t, k) # NULL
<1>. DEFINE x == Str[k]
            stops == Stops(t, k)
<1>1. /\ DOMAIN t = 0 .. n - 1 /\ x \in Strings
      /\ \A s \in 0 .. n - 1 : Matches(t[s], k) <=> Has(t, x, s)
      /\ \A i \in 0 .. n - 1 : Way(n, x, i) \in 0 .. n - 1
      /\ \A i : Probe(t, k, i) = Way(n, x, i)
  BY Reading
<1>2. /\ stops \subseteq Nat
      /\ \A i : i \in stops <=> i \in 0 .. n - 1 /\ (Has(t, x, Way(n, x, i)) \/ IsEmpty(t[Way(n, x, i)]))
  BY <1>1 DEF Stops
<1>3. GetInner(t, k) = IF stops # {} /\ Matches(t[Probe(t, k, Min(stops))], k)
                       THEN Probe(t, k, Min(stops)) ELSE NULL
  BY DEF GetInner
<1>. HIDE DEF x, stops
<1>4. stops # {} => Min(stops) \in stops /\ \A m \in stops : Min(stops) <= m
  BY <1>2, MinFacts
<1>5. stops # {} => /\ Way(n, x, Min(stops)) \in 0 .. n - 1
                    /\ Matches(t[Way(n, x, Min(stops))], k) <=> Has(t, x, Way(n, x, Min(stops)))
  BY <1>1, <1>2, <1>4
<1>6. GetInner(t, k) # NULL => GetInner(t, k) \in 0 .. n - 1 /\ Has(t, x, GetInner(t, k))
  BY <1>1, <1>3, <1>5
<1>7. ASSUME NEW s \in 0 .. n - 1, Has(t, x, s) PROVE GetInner(t, k) = s /\ s # NULL
  <2>1. PICK i \in 0 .. n - 1 : Way(n, x, i) = s /\ Met(t, n, x, i)
    BY <1>1, <1>7, OnePlace
  <2>2. i \in stops
    BY <1>2, <1>7, <2>1
  <2>3. Min(stops) \in 0 .. n - 1 /\ Min(stops) <= i
    BY <1>2, <1>4, <2>2
  <2>4. ~(Min(stops) < i)
    <3>1. SUFFICES ASSUME Min(stops) < i PROVE FALSE
      OBVIOUS
    <3>2. Min(stops) \in 0 .. i - 1
      BY <2>3, <3>1
    <3>3. ~IsEmpty(t[Way(n, x, Min(stops))]) /\ ~Has(t, x, Way(n, x, Min(stops)))
      BY <2>1, <3>2 DEF Met
    <3>. QED BY <1>2, <1>4, <2>2, <3>3
  <2>5. Min(stops) = i
    BY <2>3, <2>4
  <2>6. s # NULL
    BY NullAssumption
  <2>. QED BY <1>1, <1>3, <1>5, <1>7, <2>1, <2>2, <2>5, <2>6
<1>. QED BY <1>6, <1>7 DEF x

(* The slot _sys_hashtable_find_slot takes: the entry of the string, or one*)
(* that is not in use and that a search meets before it ends.              *)
IsSlot(t, n, x, i) ==
  /\ i \in 0 .. n - 1 /\ Met(t, n, x, i)
  /\ \A j \in 0 .. n - 1 : Has(t, x, Way(n, x, j)) => j = i
  /\ Has(t, x, Way(n, x, i)) \/ ~Live(t[Way(n, x, i)])

(* What _sys_hashtable_find_slot returns, and when it finds none.          *)
LEMMA SlotFacts ==
  ASSUME UsesKeyEquals, NEW n \in Nat \ {0}, NEW t, GoodTable(t, n), NEW k \in Keys
  PROVE  /\ FindSlot(t, k) # NULL => \E i \in 0 .. n - 1 : FindSlot(t, k) = Way(n, Str[k], i) /\ IsSlot(t, n, Str[k], i)
         /\ FindSlot(t, k) = NULL => \A s \in 0 .. n - 1 : Live(t[s]) /\ ~Has(t, Str[k], s)
<1>. DEFINE x == Str[k]
            stops == Stops(t, k)
            last == IF stops = {} THEN n ELSE Min(stops)
            tombs == {i \in DOMAIN t : i < last /\ t[Probe(t, k, i)].deleted}
<1>1. /\ DOMAIN t = 0 .. n - 1 /\ x \in Strings /\ Length(t) = n
      /\ \A s \in 0 .. n - 1 : Matches(t[s], k) <=> Has(t, x, s)
      /\ \A s \in 0 .. n - 1 : ~Live(t[s]) <=> t[s].deleted \/ IsEmpty(t[s])
      /\ \A i \in 0 .. n - 1 : Way(n, x, i) \in 0 .. n - 1
      /\ \A i : Probe(t, k, i) = Way(n, x, i)
  BY Reading
<1>2. /\ stops \subseteq Nat
      /\ \A i : i \in stops <=> i \in 0 .. n - 1 /\ (Has(t, x, Way(n, x, i)) \/ IsEmpty(t[Way(n, x, i)]))
  BY <1>1 DEF Stops
<1>3. FindSlot(t, k) =
        IF stops # {} /\ Matches(t[Probe(t, k, last)], k) THEN Probe(t, k, last)
        ELSE IF tombs # {} THEN Probe(t, k, Min(tombs))
        ELSE IF stops # {} THEN Probe(t, k, last) ELSE NULL
  BY <1>1 DEF FindSlot
<1>4. tombs \subseteq Nat /\ \A i : i \in tombs <=> i \in 0 .. n - 1 /\ i < last /\ t[Way(n, x, i)].deleted
  BY <1>1
<1>5. last = IF stops = {} THEN n ELSE Min(stops)
  OBVIOUS
<1>. HIDE DEF x, stops, last, tombs
<1>6. stops # {} => Min(stops) \in stops /\ \A m \in stops : Min(stops) <= m
  BY <1>2, MinFacts
<1>7. last \in Nat /\ (stops # {} => last \in stops) /\ last <= n
  BY <1>2, <1>5, <1>6
<1>8. \A j \in 0 .. n - 1 : j < last => ~Has(t, x, Way(n, x, j)) /\ ~IsEmpty(t[Way(n, x, j)])
  <2>. SUFFICES ASSUME NEW j \in 0 .. n - 1, j < last, j \in stops PROVE FALSE
    BY <1>2
  <2>1. Min(stops) <= j /\ last = Min(stops)
    BY <1>5, <1>6
  <2>. QED BY <1>7, <2>1
<1>9. \A i \in 0 .. n - 1 : i <= last => Met(t, n, x, i)
  <2>. SUFFICES ASSUME NEW i \in 0 .. n - 1, i <= last, NEW j \in 0 .. i - 1
                PROVE  ~IsEmpty(t[Way(n, x, j)]) /\ ~Has(t, x, Way(n, x, j))
    BY DEF Met
  <2>1. j \in 0 .. n - 1 /\ j < last
    BY <1>7
  <2>. QED BY <1>8, <2>1
<1>10. \A i, j \in 0 .. n - 1 : Has(t, x, Way(n, x, i)) /\ Has(t, x, Way(n, x, j)) => i = j
  BY <1>1, OnePlace
<1>11. \A j \in 0 .. n - 1 : Has(t, x, Way(n, x, j)) => stops # {} /\ j = last
  <2>. SUFFICES ASSUME NEW j \in 0 .. n - 1, Has(t, x, Way(n, x, j)) PROVE stops # {} /\ j = last
    OBVIOUS
  <2>1. j \in stops
    BY <1>2
  <2>2. stops # {} /\ last = Min(stops)
    BY <1>5, <2>1
  <2>3. last <= j
    BY <1>6, <2>1, <2>2
  <2>4. j \in Nat /\ last \in Nat
    BY <1>7
  <2>5. Met(t, n, x, j)
    BY <1>1 DEF GoodTable
  <2>6. ~(last < j)
    <3>. SUFFICES ASSUME last < j PROVE FALSE
      OBVIOUS
    <3>1. last \in 0 .. j - 1
      BY <2>4
    <3>2. ~IsEmpty(t[Way(n, x, last)]) /\ ~Has(t, x, Way(n, x, last))
      BY <2>5, <3>1 DEF Met
    <3>. QED BY <1>2, <1>7, <2>2, <3>2
  <2>7. j = last
    BY ONLY <2>3, <2>4, <2>6
  <2>. QED BY ONLY <2>2, <2>7
<1>12. CASE stops # {} /\ Matches(t[Probe(t, k, last)], k)
  <2>1. last \in 0 .. n - 1 /\ FindSlot(t, k) = Way(n, x, last) /\ Has(t, x, Way(n, x, last))
    BY <1>1, <1>2, <1>3, <1>7, <1>12
  <2>2. IsSlot(t, n, x, last)
    BY <1>7, <1>9, <1>10, <2>1 DEF IsSlot
  <2>3. FindSlot(t, k) # NULL
    BY <1>1, <2>1, NullAssumption
  <2>. QED BY <2>1, <2>2, <2>3 DEF x
<1>13. ~(stops # {} /\ Matches(t[Probe(t, k, last)], k)) => \A j \in 0 .. n - 1 : ~Has(t, x, Way(n, x, j))
  BY <1>1, <1>11
<1>14. CASE ~(stops # {} /\ Matches(t[Probe(t, k, last)], k)) /\ tombs # {}
  <2>1. Min(tombs) \in tombs
    BY <1>4, <1>14, MinFacts
  <2>2. Min(tombs) \in 0 .. n - 1 /\ t[Way(n, x, Min(tombs))].deleted /\ Min(tombs) <= last
    <3>1. Min(tombs) \in 0 .. n - 1 /\ t[Way(n, x, Min(tombs))].deleted /\ Min(tombs) < last
      BY ONLY <1>4, <2>1
    <3>. QED BY ONLY <1>7, <3>1
  <2>3. FindSlot(t, k) = Way(n, x, Min(tombs)) /\ Way(n, x, Min(tombs)) \in 0 .. n - 1
    BY <1>1, <1>3, <1>14, <2>2
  <2>4. IsSlot(t, n, x, Min(tombs))
    BY <1>1, <1>9, <1>13, <1>14, <2>2, <2>3 DEF IsSlot
  <2>5. FindSlot(t, k) # NULL
    BY <2>3, NullAssumption
  <2>. QED BY <2>2, <2>3, <2>4, <2>5 DEF x
<1>15. CASE ~(stops # {} /\ Matches(t[Probe(t, k, last)], k)) /\ tombs = {} /\ stops # {}
  <2>1. last \in 0 .. n - 1 /\ FindSlot(t, k) = Way(n, x, last) /\ Way(n, x, last) \in 0 .. n - 1
    BY <1>1, <1>2, <1>3, <1>7, <1>15
  <2>2. IsEmpty(t[Way(n, x, last)])
    BY <1>2, <1>7, <1>13, <1>15, <2>1
  <2>3. IsSlot(t, n, x, last)
    BY <1>1, <1>7, <1>9, <1>13, <1>15, <2>1, <2>2 DEF IsSlot
  <2>4. FindSlot(t, k) # NULL
    BY <2>1, NullAssumption
  <2>. QED BY <2>1, <2>3, <2>4 DEF x
<1>16. CASE ~(stops # {} /\ Matches(t[Probe(t, k, last)], k)) /\ tombs = {} /\ stops = {}
  <2>1. FindSlot(t, k) = NULL
    BY <1>3, <1>16
  <2>2. ASSUME NEW s \in 0 .. n - 1 PROVE Live(t[s]) /\ ~Has(t, x, s)
    <3>1. PICK i \in 0 .. n - 1 : Way(n, x, i) = s
      BY <1>1, WaysReach
    <3>2. ~Has(t, x, s) /\ ~IsEmpty(t[s]) /\ i < last
      BY <1>2, <1>5, <1>16, <3>1
    <3>3. ~t[s].deleted
      BY <1>4, <1>16, <3>1, <3>2
    <3>. QED BY <1>1, <3>2, <3>3
  <2>. QED BY <2>1, <2>2 DEF x
<1>. QED BY <1>12, <1>14, <1>15, <1>16

(* What a change of one entry leaves alone.                                *)
Others(t, u, n, x) ==
  \A y \in Strings \ {x}, s \in 0 .. n - 1 :
    /\ Has(u, y, s) <=> Has(t, y, s)
    /\ Has(t, y, s) => u[s] = t[s]

(* A put makes a good table of a good one.                                 *)
LEMMA PlacedGood ==
  ASSUME NEW n \in Nat \ {0}, NEW t, GoodTable(t, n), NEW x \in Strings, NEW i, IsSlot(t, n, x, i),
         NEW e \in Entry, Live(e), GoodEntry(e), Str[e.key] = x
  PROVE  LET s == Way(n, x, i)
             u == [t EXCEPT ![s] = e]
         IN /\ s \in 0 .. n - 1 /\ GoodTable(u, n) /\ Has(u, x, s) /\ u[s] = e
            /\ \A r \in (0 .. n - 1) \ {s} : u[r] = t[r]
            /\ Others(t, u, n, x)
<1>. DEFINE s == Way(n, x, i)
            u == [t EXCEPT ![s] = e]
<1>1. i \in 0 .. n - 1 /\ s \in 0 .. n - 1
  BY WayInTable DEF IsSlot
<1>2. t \in Table(n) /\ \A r \in 0 .. n - 1 : GoodEntry(t[r])
  BY DEF GoodTable
<1>3. u \in Table(n) /\ u[s] = e /\ \A r \in (0 .. n - 1) \ {s} : u[r] = t[r]
  BY <1>1, <1>2 DEF Table
<1>4. Has(t, x, s) \/ ~Live(t[s])
  BY DEF IsSlot
<1>. HIDE DEF s, u
<1>5. Has(u, x, s)
  BY <1>3 DEF Has
<1>6. Others(t, u, n, x)
  <2>. SUFFICES ASSUME NEW y \in Strings \ {x}, NEW r \in 0 .. n - 1
                PROVE  /\ Has(u, y, r) <=> Has(t, y, r)
                       /\ Has(t, y, r) => u[r] = t[r]
    BY DEF Others
  <2>1. CASE r = s
    BY <1>3, <1>4, <2>1 DEF Has
  <2>2. CASE r # s
    BY <1>3, <2>2 DEF Has
  <2>. QED BY <2>1, <2>2
<1>7. \A r \in 0 .. n - 1 : GoodEntry(u[r])
  BY <1>2, <1>3
<1>8. ASSUME NEW y \in Strings, NEW j \in 0 .. n - 1, Has(u, y, Way(n, y, j)) PROVE Met(u, n, y, j)
  <2>1. Way(n, y, j) \in 0 .. n - 1 /\ \A h \in 0 .. j - 1 : h \in 0 .. n - 1 /\ Way(n, y, h) \in 0 .. n - 1
    BY WayInTable
  <2>2. CASE y = x
    <3>1. j = i
      <4>1. CASE Way(n, x, j) = s
        BY <1>1, <4>1, WaysDiffer DEF s
      <4>2. CASE Way(n, x, j) # s
        <5>1. Has(t, x, Way(n, x, j))
          BY <1>3, <1>8, <2>1, <2>2, <4>2 DEF Has
        <5>. QED BY <5>1 DEF IsSlot
      <4>. QED BY <4>1, <4>2
    <3>2. ASSUME NEW h \in 0 .. i - 1 PROVE ~IsEmpty(u[Way(n, x, h)]) /\ ~Has(u, x, Way(n, x, h))
      <4>1. h \in 0 .. n - 1 /\ Way(n, x, h) \in 0 .. n - 1 /\ h # i
        BY <1>1, <2>1, <2>2, <3>1
      <4>2. Way(n, x, h) # s
        BY <1>1, <4>1, WaysDiffer DEF s
      <4>3. ~IsEmpty(t[Way(n, x, h)]) /\ ~Has(t, x, Way(n, x, h))
        BY DEF IsSlot, Met
      <4>. QED BY <1>3, <4>1, <4>2, <4>3 DEF Has
    <3>. QED BY <2>2, <3>1, <3>2 DEF Met
  <2>3. CASE y # x
    <3>1. Has(t, y, Way(n, y, j))
      BY <1>6, <1>8, <2>1, <2>3 DEF Others
    <3>2. Met(t, n, y, j)
      BY <3>1 DEF GoodTable
    <3>3. ASSUME NEW h \in 0 .. j - 1 PROVE ~IsEmpty(u[Way(n, y, h)]) /\ ~Has(u, y, Way(n, y, h))
      <4>1. ~IsEmpty(t[Way(n, y, h)]) /\ ~Has(t, y, Way(n, y, h)) /\ Way(n, y, h) \in 0 .. n - 1
        BY <2>1, <3>2 DEF Met
      <4>2. CASE Way(n, y, h) = s
        BY <1>3, <2>3, <4>2 DEF Has, IsEmpty, Live
      <4>3. CASE Way(n, y, h) # s
        BY <1>3, <4>1, <4>3 DEF Has
      <4>. QED BY <4>2, <4>3
    <3>. QED BY <3>3 DEF Met
  <2>. QED BY <2>2, <2>3
<1>9. GoodTable(u, n)
  BY <1>3, <1>7, <1>8 DEF GoodTable
<1>. QED BY <1>1, <1>3, <1>5, <1>6, <1>9 DEF s, u

(* So does a deletion, after which the table does not have the string.     *)
LEMMA BuriedGood ==
  ASSUME NEW n \in Nat \ {0}, NEW t, GoodTable(t, n), NEW x \in Strings, NEW s \in 0 .. n - 1, Has(t, x, s)
  PROVE  LET u == [t EXCEPT ![s].deleted = TRUE]
         IN /\ GoodTable(u, n) /\ ~Live(u[s]) /\ \A r \in 0 .. n - 1 : ~Has(u, x, r)
            /\ \A r \in (0 .. n - 1) \ {s} : u[r] = t[r]
            /\ Others(t, u, n, x)
<1>. DEFINE dead == [t[s] EXCEPT !.deleted = TRUE]
            u == [t EXCEPT ![s].deleted = TRUE]
<1>1. t \in Table(n) /\ \A r \in 0 .. n - 1 : GoodEntry(t[r])
  BY DEF GoodTable
<1>2. dead \in Entry /\ dead.deleted = TRUE
  BY <1>1 DEF Table, Entry
<1>3. u \in Table(n) /\ u[s] = dead /\ \A r \in (0 .. n - 1) \ {s} : u[r] = t[r]
  BY <1>1, <1>2 DEF Table
<1>4. ~Live(dead) /\ GoodEntry(dead) /\ ~IsEmpty(dead)
  BY <1>2 DEF Live, GoodEntry, IsEmpty
<1>. HIDE DEF u, dead
<1>5. \A r \in 0 .. n - 1 : ~Has(u, x, r)
  <2>. SUFFICES ASSUME NEW r \in 0 .. n - 1, Has(u, x, r) PROVE FALSE
    OBVIOUS
  <2>1. r # s
    BY <1>3, <1>4 DEF Has
  <2>2. Has(t, x, r)
    BY <1>3, <2>1 DEF Has
  <2>. QED BY <2>1, <2>2, OnePlace
<1>6. Others(t, u, n, x)
  <2>. SUFFICES ASSUME NEW y \in Strings \ {x}, NEW r \in 0 .. n - 1
                PROVE  /\ Has(u, y, r) <=> Has(t, y, r)
                       /\ Has(t, y, r) => u[r] = t[r]
    BY DEF Others
  <2>1. CASE r = s
    BY <1>3, <1>4, <2>1 DEF Has
  <2>2. CASE r # s
    BY <1>3, <2>2 DEF Has
  <2>. QED BY <2>1, <2>2
<1>7. ASSUME NEW y \in Strings, NEW j \in 0 .. n - 1, Has(u, y, Way(n, y, j)) PROVE Met(u, n, y, j)
  <2>1. Way(n, y, j) \in 0 .. n - 1 /\ \A h \in 0 .. j - 1 : h \in 0 .. n - 1 /\ Way(n, y, h) \in 0 .. n - 1
    BY WayInTable
  <2>2. y # x
    BY <1>5, <1>7, <2>1
  <2>3. Met(t, n, y, j)
    BY <1>6, <1>7, <2>1, <2>2 DEF Others, GoodTable
  <2>4. ASSUME NEW h \in 0 .. j - 1 PROVE ~IsEmpty(u[Way(n, y, h)]) /\ ~Has(u, y, Way(n, y, h))
    <3>1. ~IsEmpty(t[Way(n, y, h)]) /\ ~Has(t, y, Way(n, y, h)) /\ Way(n, y, h) \in 0 .. n - 1
      BY <2>1, <2>3 DEF Met
    <3>2. CASE Way(n, y, h) = s
      BY <1>3, <1>4, <3>2 DEF Has
    <3>3. CASE Way(n, y, h) # s
      BY <1>3, <3>1, <3>3 DEF Has
    <3>. QED BY <3>2, <3>3
  <2>. QED BY <2>4 DEF Met
<1>8. GoodTable(u, n)
  BY <1>1, <1>3, <1>4, <1>7 DEF GoodTable
<1>. QED BY <1>3, <1>4, <1>5, <1>6, <1>8 DEF u

-----------------------------------------------------------------------------
(* The chain: good tables of known sizes, no string in two of them, and no *)
(* room in any but the last.                                               *)
Sized(i) == IF i = 1 THEN Size ELSE Size + Size \div 2
Slots(i) == 0 .. Sized(i) - 1
Tables == UNION {Table(n) : n \in Nat \ {0}}
In(c, x, i) == \E s \in Slots(i) : Has(c[i], x, s)

GoodChain(c) ==
  /\ c \in Seq(Tables) /\ Len(c) \in 1 .. MaxTables
  /\ \A i \in 1 .. Len(c) : GoodTable(c[i], Sized(i))
  /\ \A x \in Strings, i, j \in 1 .. Len(c) : In(c, x, i) /\ In(c, x, j) => i = j
  /\ \A i \in 1 .. Len(c) - 1 : \A s \in Slots(i) : Live(c[i][s])

(* Every table of a chain has a slot.                                      *)
LEMMA Sizes == Size \in Nat \ {0} /\ \A i : Sized(i) \in Nat \ {0} /\ 0 \in Slots(i)
<1>1. Size \in Nat \ {0} /\ Size \div 2 \in Nat
  BY SizeAssumption, Divides
<1>. QED BY <1>1 DEF Sized, Slots

(* The least of some pairs, by the first number and then by the second.    *)
First(S) == CHOOSE a \in S : \A b \in S : a[1] < b[1] \/ (a[1] = b[1] /\ a[2] <= b[2])

(* There is such a pair, among those of a set that is not empty.           *)
LEMMA FirstFacts ==
  ASSUME NEW S, S \subseteq Nat \X Nat, S # {}
  PROVE  First(S) \in S /\ \A b \in S : First(S)[1] < b[1] \/ (First(S)[1] = b[1] /\ First(S)[2] <= b[2])
<1>. DEFINE R == {a[1] : a \in S}
            C == {a[2] : a \in {b \in S : b[1] = Min(R)}}
<1>1. \A a \in S : a[1] \in Nat /\ a[2] \in Nat /\ a[1] \in R
  OBVIOUS
<1>2. R \subseteq Nat /\ R # {}
  BY <1>1
<1>. HIDE DEF R
<1>3. Min(R) \in R /\ \A m \in R : Min(R) <= m
  BY <1>2, MinFacts
<1>4. PICK r \in S : r[1] = Min(R)
  BY <1>3 DEF R
<1>5. C \subseteq Nat /\ C # {} /\ \A b \in S : b[1] = Min(R) => b[2] \in C
  BY <1>1, <1>4
<1>6. \A m \in C : \E b \in S : b[1] = Min(R) /\ b[2] = m
  OBVIOUS
<1>. HIDE DEF C
<1>7. Min(C) \in C /\ \A m \in C : Min(C) <= m
  BY <1>5, MinFacts
<1>8. PICK a \in S : a[1] = Min(R) /\ a[2] = Min(C)
  BY <1>6, <1>7
<1>9. ASSUME NEW b \in S PROVE a[1] < b[1] \/ (a[1] = b[1] /\ a[2] <= b[2])
  <2>1. Min(R) <= b[1] /\ b[1] \in Nat /\ Min(R) \in Nat
    BY <1>1, <1>2, <1>3
  <2>2. b[1] = Min(R) => Min(C) <= b[2]
    BY <1>5, <1>7
  <2>. QED BY <1>8, <2>1, <2>2
<1>. QED BY <1>9 DEF First

(* The addresses of a chain and which of them are in use.                  *)
LEMMA UseFacts ==
  ASSUME NEW c, GoodChain(c)
  PROVE  /\ \A a : a \in InUse(c) <=> \E i \in 1 .. Len(c) : \E s \in Slots(i) : a = <<i, s>> /\ Live(c[i][s])
         /\ \A a : a \in Addresses(c) <=> \E i \in 1 .. Len(c) : \E s \in Slots(i) : a = <<i, s>>
         /\ \A a \in InUse(c) : /\ a = <<a[1], a[2]>> /\ a[1] \in 1 .. Len(c) /\ a[2] \in Slots(a[1])
                                /\ EntryAt(c, a) = c[a[1]][a[2]] /\ Live(EntryAt(c, a))
                                /\ EntryAt(c, a).key \in Keys /\ Str[EntryAt(c, a).key] \in Strings
                                /\ EntryAt(c, a).value \in Values
                                /\ Has(c[a[1]], Str[EntryAt(c, a).key], a[2])
<1>1. /\ DOMAIN c = 1 .. Len(c)
      /\ \A i \in 1 .. Len(c) : DOMAIN c[i] = Slots(i) /\ GoodTable(c[i], Sized(i))
  BY LenProperties DEF GoodChain, GoodTable, Table, Slots
<1>2. \A a : a \in Addresses(c) <=> \E i \in 1 .. Len(c) : \E s \in Slots(i) : a = <<i, s>>
  BY <1>1 DEF Addresses
<1>3. \A a : a \in InUse(c) <=> \E i \in 1 .. Len(c) : \E s \in Slots(i) : a = <<i, s>> /\ Live(c[i][s])
  BY <1>2 DEF InUse, EntryAt, Live
<1>4. ASSUME NEW a \in InUse(c)
      PROVE  /\ a = <<a[1], a[2]>> /\ a[1] \in 1 .. Len(c) /\ a[2] \in Slots(a[1])
             /\ EntryAt(c, a) = c[a[1]][a[2]] /\ Live(EntryAt(c, a))
             /\ EntryAt(c, a).key \in Keys /\ Str[EntryAt(c, a).key] \in Strings
             /\ EntryAt(c, a).value \in Values
             /\ Has(c[a[1]], Str[EntryAt(c, a).key], a[2])
  <2>1. PICK i \in 1 .. Len(c), s \in Nat : s \in Slots(i) /\ a = <<i, s>> /\ Live(c[i][s])
    BY <1>3 DEF Slots
  <2>2. GoodEntry(c[i][s]) /\ c[i][s] \in Entry
    BY <1>1, <2>1 DEF GoodTable, Table, Slots
  <2>3. c[i][s].key \in Keys /\ c[i][s].value \in Values
    BY <2>1, <2>2 DEF GoodEntry, Live, Entry
  <2>4. Str[c[i][s].key] \in Strings
    BY <2>3, KeysAssumption
  <2>. QED BY <2>1, <2>3, <2>4 DEF EntryAt, Has
<1>. QED BY <1>2, <1>3, <1>4

(* No string has two entries in use.                                       *)
LEMMA OneEntry ==
  ASSUME NEW c, GoodChain(c), NEW a \in InUse(c), NEW b \in InUse(c),
         Str[EntryAt(c, a).key] = Str[EntryAt(c, b).key]
  PROVE  a = b
<1>. DEFINE x == Str[EntryAt(c, a).key]
<1>1. /\ a = <<a[1], a[2]>> /\ b = <<b[1], b[2]>> /\ a[1] \in 1 .. Len(c) /\ b[1] \in 1 .. Len(c)
      /\ a[2] \in Slots(a[1]) /\ b[2] \in Slots(b[1]) /\ x \in Strings
      /\ Has(c[a[1]], x, a[2]) /\ Has(c[b[1]], x, b[2])
  BY UseFacts
<1>. HIDE DEF x
<1>2. a[1] = b[1]
  BY <1>1 DEF GoodChain, In
<1>3. GoodTable(c[a[1]], Sized(a[1])) /\ Sized(a[1]) \in Nat \ {0}
  BY <1>1, Sizes DEF GoodChain
<1>4. a[2] = b[2]
  BY <1>1, <1>2, <1>3, OnePlace DEF Slots
<1>. QED BY <1>1, <1>2, <1>4

(* sys_hashtable_get_key finds the entry of the key's string.              *)
LEMMA KeyFacts ==
  ASSUME UsesKeyEquals, NEW c, GoodChain(c), NEW k \in Keys
  PROVE  /\ GetKey(c, k) # NULL => GetKey(c, k) \in InUse(c) /\ Str[EntryAt(c, GetKey(c, k)).key] = Str[k]
         /\ \A a \in InUse(c) : Str[EntryAt(c, a).key] = Str[k] => GetKey(c, k) = a /\ a # NULL
<1>. DEFINE hits == {i \in DOMAIN c : GetInner(c[i], k) # NULL}
<1>1. DOMAIN c = 1 .. Len(c) /\ Len(c) \in Nat
  BY LenProperties DEF GoodChain
<1>2. \A i \in 1 .. Len(c) : /\ GetInner(c[i], k) # NULL => GetInner(c[i], k) \in Slots(i) /\ Has(c[i], Str[k], GetInner(c[i], k))
                             /\ \A s \in Slots(i) : Has(c[i], Str[k], s) => GetInner(c[i], k) = s /\ GetInner(c[i], k) # NULL
  BY FoundHas, Sizes DEF GoodChain, Slots
<1>3. GetKey(c, k) = IF hits = {} THEN NULL ELSE <<Min(hits), GetInner(c[Min(hits)], k)>>
  BY DEF GetKey
<1>4. hits \subseteq Nat /\ \A i : i \in hits <=> i \in 1 .. Len(c) /\ GetInner(c[i], k) # NULL
  BY <1>1
<1>. HIDE DEF hits
<1>5. hits # {} => Min(hits) \in hits
  BY <1>4, MinFacts
<1>6. ASSUME hits # {} PROVE GetKey(c, k) \in InUse(c) /\ Str[EntryAt(c, GetKey(c, k)).key] = Str[k]
  <2>. DEFINE i == Min(hits)
              s == GetInner(c[i], k)
  <2>1. i \in 1 .. Len(c) /\ s \in Slots(i) /\ Has(c[i], Str[k], s) /\ GetKey(c, k) = <<i, s>>
    BY <1>2, <1>3, <1>4, <1>5, <1>6
  <2>. HIDE DEF i, s
  <2>. QED BY <2>1, UseFacts DEF Has, EntryAt
<1>7. ASSUME NEW a \in InUse(c), Str[EntryAt(c, a).key] = Str[k] PROVE GetKey(c, k) = a /\ a # NULL
  <2>1. a = <<a[1], a[2]>> /\ a[1] \in 1 .. Len(c) /\ a[2] \in Slots(a[1]) /\ Has(c[a[1]], Str[k], a[2])
    BY <1>7, UseFacts
  <2>2. hits # {}
    BY <1>2, <1>4, <2>1
  <2>3. a[1] \in Nat /\ a[2] \in Nat
    BY <2>1 DEF Slots
  <2>. QED BY <1>6, <1>7, <2>1, <2>2, <2>3, OneEntry, NullAssumption
<1>. QED BY <1>3, <1>6, <1>7

(* sys_hashtable_get_value finds an entry in use with the value.           *)
LEMMA ValueFacts ==
  ASSUME NEW c, GoodChain(c), NEW v \in Values, GetValue(c, v) # NULL
  PROVE  GetValue(c, v) \in InUse(c)
<1>. DEFINE hits == {a \in Addresses(c) : EntryAt(c, a).value = v /\ ~EntryAt(c, a).deleted}
<1>1. hits # {} /\ GetValue(c, v) = First(hits)
  BY DEF GetValue, First
<1>2. hits \subseteq InUse(c)
  BY NullAssumption DEF InUse
<1>3. hits \subseteq Nat \X Nat
  <2>1. Addresses(c) \subseteq Nat \X Nat
    BY UseFacts DEF Slots
  <2>. QED BY <2>1
<1>. HIDE DEF hits
<1>. QED BY <1>1, <1>2, <1>3, FirstFacts

-----------------------------------------------------------------------------
(* A change of one entry, as the tables of a chain see it.                 *)
Changed(c, d, i, s, e) ==
  /\ Len(d) = Len(c) /\ DOMAIN d = 1 .. Len(c)
  /\ \A h \in 1 .. Len(c) : h # i => d[h] = c[h]
  /\ d[i] = [c[i] EXCEPT ![s] = e]

(* A changed entry changes one table and leaves a chain.                   *)
LEMMA ChangedChain ==
  ASSUME NEW c, GoodChain(c), NEW i \in 1 .. Len(c), NEW s \in Slots(i), NEW e \in Entry
  PROVE  /\ [c EXCEPT ![i][s] = e] \in Seq(Tables)
         /\ Changed(c, [c EXCEPT ![i][s] = e], i, s, e)
<1>. DEFINE u == [c[i] EXCEPT ![s] = e]
            d == [c EXCEPT ![i] = u]
<1>1. c \in Seq(Tables) /\ c[i] \in Table(Sized(i)) /\ Sized(i) \in Nat \ {0}
  BY Sizes DEF GoodChain, GoodTable
<1>2. u \in Table(Sized(i))
  BY <1>1 DEF Table, Slots
<1>3. u \in Tables
  BY <1>1, <1>2 DEF Tables
<1>. HIDE DEF u
<1>4. d \in Seq(Tables) /\ Len(d) = Len(c) /\ DOMAIN d = 1 .. Len(c) /\ d[i] = u
      /\ \A h \in 1 .. Len(c) : h # i => d[h] = c[h]
  BY <1>1, <1>3, ExceptSeq, LenProperties
<1>5. d = [c EXCEPT ![i][s] = e]
  BY DEF u
<1>. QED BY <1>4, <1>5 DEF Changed, u

OtherSlots(c, d, i, s) == \A r \in Slots(i) : r # s => d[i][r] = c[i][r]
Elsewhere(c, d, a) == \A b \in Addresses(c) : b # a => EntryAt(d, b) = EntryAt(c, b)

(* What a chain has after one entry of it changed.                         *)
LEMMA AfterChange ==
  ASSUME NEW c, GoodChain(c), NEW d \in Seq(Tables), NEW i \in 1 .. Len(c), NEW s \in Slots(i), NEW e \in Entry,
         Changed(c, d, i, s, e)
  PROVE  d[i][s] = e /\ OtherSlots(c, d, i, s) /\ Elsewhere(c, d, <<i, s>>) /\ EntryAt(d, <<i, s>>) = e
<1>1. c[i] \in Table(Sized(i))
  BY DEF GoodChain, GoodTable
<1>2. d[i][s] = e /\ (\A r \in Slots(i) : r # s => d[i][r] = c[i][r])
  BY <1>1 DEF Changed, Table, Slots
<1>3. ASSUME NEW a \in Addresses(c), a # <<i, s>> PROVE EntryAt(d, a) = EntryAt(c, a)
  <2>1. PICK h \in 1 .. Len(c) : \E r \in Slots(h) : a = <<h, r>>
    BY UseFacts
  <2>2. PICK r \in Slots(h) : a = <<h, r>>
    BY <2>1
  <2>3. d[h][r] = c[h][r]
    <3>1. CASE h # i
      BY <3>1 DEF Changed
    <3>2. CASE h = i
      BY <1>2, <1>3, <2>2, <3>2
    <3>. QED BY <3>1, <3>2
  <2>. QED BY <2>2, <2>3 DEF EntryAt
<1>4. EntryAt(d, <<i, s>>) = e
  BY <1>2 DEF EntryAt
<1>. QED BY <1>2, <1>3, <1>4 DEF OtherSlots, Elsewhere

(* A put makes a good chain of a good one.                                 *)
LEMMA PlaceInChain ==
  ASSUME NEW c, GoodChain(c), NEW x \in Strings, NEW i \in 1 .. Len(c), NEW j, IsSlot(c[i], Sized(i), x, j),
         \A h \in 1 .. Len(c) : In(c, x, h) => h = i,
         NEW e \in Entry, Live(e), GoodEntry(e), Str[e.key] = x,
         NEW d \in Seq(Tables), Changed(c, d, i, Way(Sized(i), x, j), e)
  PROVE  GoodChain(d) /\ Way(Sized(i), x, j) \in Slots(i) /\ Has(d[i], x, Way(Sized(i), x, j))
<1>. DEFINE s == Way(Sized(i), x, j)
            n == Sized(i)
<1>1. n \in Nat \ {0} /\ GoodTable(c[i], n)
  BY Sizes DEF GoodChain
<1>2. /\ s \in 0 .. n - 1 /\ GoodTable(d[i], n) /\ Has(d[i], x, s) /\ d[i][s] = e
      /\ \A r \in (0 .. n - 1) \ {s} : d[i][r] = c[i][r]
      /\ Others(c[i], d[i], n, x)
  BY <1>1, PlacedGood DEF Changed
<1>3. Len(d) = Len(c) /\ \A h \in 1 .. Len(c) : h # i => d[h] = c[h]
  BY DEF Changed
<1>. HIDE DEF s, n
<1>4. \A h \in 1 .. Len(c) : GoodTable(d[h], Sized(h))
  BY <1>2, <1>3 DEF GoodChain, n
<1>5. ASSUME NEW y \in Strings, y # x, NEW h \in 1 .. Len(c) PROVE In(d, y, h) => In(c, y, h)
  <2>1. CASE h = i
    BY <1>2, <1>5, <2>1 DEF In, Others, Slots, n
  <2>2. CASE h # i
    BY <1>3, <2>2 DEF In
  <2>. QED BY <2>1, <2>2
<1>6. ASSUME NEW h \in 1 .. Len(c), In(d, x, h) PROVE h = i
  <2>. SUFFICES ASSUME h # i PROVE FALSE
    OBVIOUS
  <2>1. In(c, x, h)
    BY <1>3, <1>6 DEF In
  <2>. QED BY <2>1
<1>7. \A y \in Strings, g, h \in 1 .. Len(c) : In(d, y, g) /\ In(d, y, h) => g = h
  <2>. SUFFICES ASSUME NEW y \in Strings, NEW g \in 1 .. Len(c), NEW h \in 1 .. Len(c), In(d, y, g), In(d, y, h)
                PROVE  g = h
    OBVIOUS
  <2>1. CASE y = x
    BY <1>6, <2>1
  <2>2. CASE y # x
    BY <1>5, <2>2 DEF GoodChain
  <2>. QED BY <2>1, <2>2
<1>8. ASSUME NEW h \in 1 .. Len(c) - 1, NEW r \in Slots(h) PROVE Live(d[h][r])
  <2>1. h \in 1 .. Len(c) /\ Live(c[h][r])
    BY DEF GoodChain
  <2>2. CASE h # i
    BY <1>3, <2>1, <2>2
  <2>3. CASE h = i /\ r # s
    BY <1>2, <2>1, <2>3 DEF Slots, n
  <2>4. CASE h = i /\ r = s
    BY <1>2, <2>4
  <2>. QED BY <2>2, <2>3, <2>4
<1>. QED BY <1>2, <1>3, <1>4, <1>7, <1>8 DEF GoodChain, Slots, s, n

(* So does a deletion from a chain of one table.                           *)
LEMMA BuryInChain ==
  ASSUME NEW c, GoodChain(c), Len(c) = 1, NEW a \in InUse(c)
  PROVE  /\ GoodChain(SetDeleted(c, a)) /\ Len(SetDeleted(c, a)) = Len(c)
         /\ InUse(SetDeleted(c, a)) = InUse(c) \ {a}
         /\ \A b \in InUse(c) \ {a} : EntryAt(SetDeleted(c, a), b) = EntryAt(c, b)
<1>. DEFINE x == Str[EntryAt(c, a).key]
            s == a[2]
            n == Sized(1)
            d == SetDeleted(c, a)
            e == [c[1][s] EXCEPT !.deleted = TRUE]
<1>1. a = <<1, s>> /\ s \in Slots(1) /\ x \in Strings /\ Has(c[1], x, s)
  BY UseFacts
<1>2. n \in Nat \ {0} /\ GoodTable(c[1], n) /\ s \in 0 .. n - 1 /\ 1 \in 1 .. Len(c)
  BY <1>1, Sizes DEF GoodChain, Slots
<1>3. c[1][s] \in Entry
  BY <1>2 DEF GoodTable, Table
<1>4. e \in Entry
  BY <1>3 DEF Entry
<1>5. [c[1] EXCEPT ![s].deleted = TRUE] = [c[1] EXCEPT ![s] = e]
  OBVIOUS
<1>6. d = [c EXCEPT ![1][s] = e]
  <2>1. d = [c EXCEPT ![1] = [c[1] EXCEPT ![s].deleted = TRUE]]
    <3>1. a[1] = 1
      BY <1>1
    <3>2. d = [c EXCEPT ![a[1]] = [c[a[1]] EXCEPT ![a[2]].deleted = TRUE]]
      BY DEF SetDeleted
    <3>. QED BY ONLY <3>1, <3>2
  <2>2. [c EXCEPT ![1][s] = e] = [c EXCEPT ![1] = [c[1] EXCEPT ![s] = e]]
    OBVIOUS
  <2>. QED BY ONLY <1>5, <2>1, <2>2
<1>7. LET u == [c[1] EXCEPT ![s].deleted = TRUE]
      IN /\ GoodTable(u, n) /\ ~Live(u[s]) /\ \A r \in 0 .. n - 1 : ~Has(u, x, r)
         /\ \A r \in (0 .. n - 1) \ {s} : u[r] = c[1][r]
         /\ Others(c[1], u, n, x)
  BY <1>1, <1>2, BuriedGood
<1>. HIDE DEF d, e, x, n, s
<1>8. d \in Seq(Tables) /\ Changed(c, d, 1, s, e)
  BY <1>1, <1>2, <1>4, <1>6, ChangedChain
<1>9. Len(d) = 1 /\ d[1] = [c[1] EXCEPT ![s].deleted = TRUE]
  BY <1>5, <1>8 DEF Changed
<1>10. GoodTable(d[1], n) /\ ~Live(d[1][s]) /\ Others(c[1], d[1], n, x)
  BY <1>7, <1>9
<1>11. GoodChain(d)
  <2>1. 1 .. Len(d) = {1} /\ 1 .. Len(d) - 1 = {}
    BY <1>9
  <2>. QED BY <1>8, <1>9, <1>10, <2>1 DEF GoodChain, n
<1>12. /\ \A r \in Slots(1) : r # s => d[1][r] = c[1][r]
       /\ \A b \in Addresses(c) : b # <<1, s>> => EntryAt(d, b) = EntryAt(c, b)
  <2>. HIDE DEF Changed
  <2>1. 1 \in 1 .. Len(c) /\ s \in Slots(1)
    BY <1>1, <1>2
  <2>2. OtherSlots(c, d, 1, s) /\ Elsewhere(c, d, <<1, s>>)
    BY <2>1, <1>4, <1>8, AfterChange
  <2>. QED BY <2>2 DEF OtherSlots, Elsewhere
<1>13. \A b : b \in InUse(d) <=> b \in InUse(c) /\ b # a
  <2>1. \A b : b \in InUse(c) <=> \E r \in Slots(1) : b = <<1, r>> /\ Live(c[1][r])
    <3>1. 1 .. Len(c) = {1}
      BY <1>2
    <3>. QED BY <3>1, UseFacts
  <2>2. \A b : b \in InUse(d) <=> \E r \in Slots(1) : b = <<1, r>> /\ Live(d[1][r])
    <3>1. 1 .. Len(d) = {1}
      BY <1>9
    <3>. QED BY <1>11, <3>1, UseFacts
  <2>. QED BY <1>1, <1>10, <1>12, <2>1, <2>2
<1>14. \A b \in InUse(c) : b \in Addresses(c)
  BY DEF InUse
<1>. QED BY <1>1, <1>9, <1>11, <1>12, <1>13, <1>14 DEF d

(* A new table, when every slot of the others is in use.                   *)
LEMMA GrownGood ==
  ASSUME NEW c, GoodChain(c), Len(c) < MaxTables, \A i \in 1 .. Len(c) : \A s \in Slots(i) : Live(c[i][s])
  PROVE  LET g == Append(c, NewTable(NextSize(c)))
         IN /\ GoodChain(g) /\ Len(g) = Len(c) + 1 /\ InUse(g) = InUse(c)
            /\ \A i \in 1 .. Len(c) : g[i] = c[i]
            /\ g[Len(g)] = NewTable(Sized(Len(g)))
<1>. DEFINE m == Len(c) + 1
            t == NewTable(NextSize(c))
            g == Append(c, t)
<1>1. c \in Seq(Tables) /\ Len(c) \in Nat /\ Len(c) >= 1 /\ MaxTables \in Nat /\ 1 \in 1 .. Len(c)
  BY ClientAssumption DEF GoodChain
<1>2. t = NewTable(Sized(m))
  <2>1. GoodTable(c[1], Size) /\ Size \in Nat \ {0}
    BY <1>1, Sizes DEF GoodChain, Sized
  <2>2. DOMAIN c[1] = 0 .. Size - 1
    BY <2>1 DEF GoodTable, Table
  <2>3. Length(c[1]) = Size
    BY <2>1, <2>2, IntervalLength DEF Length
  <2>4. m # 1
    BY <1>1
  <2>. QED BY <2>3, <2>4 DEF NextSize, Sized
<1>3. Sized(m) \in Nat \ {0} /\ GoodTable(t, Sized(m)) /\ \A s \in Slots(m) : ~Live(t[s])
  BY <1>2, NewTableGood, Sizes DEF Slots
<1>4. t \in Tables
  BY <1>3 DEF GoodTable, Tables
<1>. HIDE DEF t, m
<1>5. g \in Seq(Tables) /\ Len(g) = m /\ g[m] = t /\ \A i \in 1 .. Len(c) : g[i] = c[i]
  BY <1>1, <1>4, AppendProperties DEF m
<1>. HIDE DEF g
<1>6. m \in 1 .. MaxTables /\ m - 1 = Len(c) /\ \A i \in 1 .. m : i = m \/ i \in 1 .. Len(c)
  BY <1>1 DEF m
<1>7. \A i \in 1 .. m : GoodTable(g[i], Sized(i))
  BY <1>3, <1>5, <1>6 DEF GoodChain
<1>8. /\ \A x : ~In(g, x, m)
      /\ \A x : \A i \in 1 .. Len(c) : In(g, x, i) <=> In(c, x, i)
  BY <1>3, <1>5 DEF In, Has
<1>9. GoodChain(g)
  <2>1. \A x \in Strings, i, j \in 1 .. m : In(g, x, i) /\ In(g, x, j) => i = j
    <3>. SUFFICES ASSUME NEW x \in Strings, NEW i \in 1 .. m, NEW j \in 1 .. m, In(g, x, i), In(g, x, j)
                  PROVE  i = j
      OBVIOUS
    <3>1. i \in 1 .. Len(c) /\ j \in 1 .. Len(c)
      BY <1>6, <1>8
    <3>2. In(c, x, i) /\ In(c, x, j)
      BY <1>8, <3>1
    <3>. QED BY <3>1, <3>2 DEF GoodChain
  <2>2. \A i \in 1 .. m - 1 : \A s \in Slots(i) : Live(g[i][s])
    BY <1>5, <1>6
  <2>. QED BY <1>5, <1>6, <1>7, <2>1, <2>2 DEF GoodChain
<1>10. InUse(g) = InUse(c)
  <2>1. \A a : a \in InUse(g) <=> \E i \in 1 .. m : \E s \in Slots(i) : a = <<i, s>> /\ Live(g[i][s])
    BY <1>5, <1>9, UseFacts
  <2>2. \A a : a \in InUse(c) <=> \E i \in 1 .. Len(c) : \E s \in Slots(i) : a = <<i, s>> /\ Live(c[i][s])
    BY UseFacts
  <2>3. \A i \in 1 .. Len(c) : i \in 1 .. m
    BY <1>1 DEF m
  <2>4. ASSUME NEW a PROVE a \in InUse(g) <=> a \in InUse(c)
    <3>1. ASSUME a \in InUse(g) PROVE a \in InUse(c)
      <4>1. PICK i \in 1 .. m : \E s \in Slots(i) : a = <<i, s>> /\ Live(g[i][s])
        BY <2>1, <3>1
      <4>2. i \in 1 .. Len(c) /\ g[i] = c[i]
        BY <1>3, <1>5, <1>6, <4>1
      <4>. QED BY <2>2, <4>1, <4>2
    <3>2. ASSUME a \in InUse(c) PROVE a \in InUse(g)
      <4>1. PICK i \in 1 .. Len(c) : \E s \in Slots(i) : a = <<i, s>> /\ Live(c[i][s])
        BY <2>2, <3>2
      <4>2. i \in 1 .. m /\ g[i] = c[i]
        BY <1>5, <2>3
      <4>. QED BY <2>1, <4>1, <4>2
    <3>. QED BY <3>1, <3>2
  <2>. QED BY <2>4
<1>. QED BY <1>2, <1>5, <1>9, <1>10 DEF g, m, t

-----------------------------------------------------------------------------
(* What a put stores: one entry of the string, every other left alone.     *)
Stored(c, d, a, x, v) ==
  /\ a \in InUse(d) /\ EntryAt(d, a).value = v /\ Str[EntryAt(d, a).key] = x
  /\ a \in InUse(c) => Str[EntryAt(c, a).key] = x
  /\ \A b : b # a => (b \in InUse(d) <=> b \in InUse(c))
  /\ \A b \in InUse(c) : b # a => EntryAt(d, b) = EntryAt(c, b)

(* Writing the entry a put takes stores the value and nothing else.        *)
LEMMA StoreEntry ==
  ASSUME NEW c, GoodChain(c), NEW x \in Strings, NEW i \in 1 .. Len(c), NEW j, IsSlot(c[i], Sized(i), x, j),
         \A h \in 1 .. Len(c) : In(c, x, h) => h = i,
         NEW e \in Entry, Live(e), GoodEntry(e), Str[e.key] = x,
         NEW s, s = Way(Sized(i), x, j)
  PROVE  GoodChain([c EXCEPT ![i][s] = e]) /\ Stored(c, [c EXCEPT ![i][s] = e], <<i, s>>, x, e.value)
<1>. DEFINE d == [c EXCEPT ![i][s] = e]
<1>1. s \in Slots(i)
  BY WayInTable, Sizes DEF IsSlot, Slots
<1>2. d \in Seq(Tables) /\ Changed(c, d, i, s, e)
  BY <1>1, ChangedChain
<1>. HIDE DEF d
<1>3. GoodChain(d) /\ Has(d[i], x, s)
  BY <1>2, PlaceInChain
<1>4. d[i][s] = e /\ OtherSlots(c, d, i, s) /\ Elsewhere(c, d, <<i, s>>) /\ EntryAt(d, <<i, s>>) = e
  BY <1>1, <1>2, AfterChange
<1>5. Len(d) = Len(c) /\ i \in 1 .. Len(d) /\ \A h \in 1 .. Len(c) : h # i => d[h] = c[h]
  BY <1>2 DEF Changed
<1>6. \A a : a \in InUse(c) <=> \E h \in 1 .. Len(c) : \E r \in Slots(h) : a = <<h, r>> /\ Live(c[h][r])
  BY UseFacts
<1>7. \A a : a \in InUse(d) <=> \E h \in 1 .. Len(c) : \E r \in Slots(h) : a = <<h, r>> /\ Live(d[h][r])
  BY <1>3, <1>5, UseFacts
<1>8. <<i, s>> \in InUse(d)
  BY <1>1, <1>4, <1>7
<1>9. <<i, s>> \in InUse(c) => Str[EntryAt(c, <<i, s>>).key] = x
  <2>. SUFFICES ASSUME <<i, s>> \in InUse(c) PROVE Str[EntryAt(c, <<i, s>>).key] = x
    OBVIOUS
  <2>1. Live(c[i][s])
    BY <1>6
  <2>2. Has(c[i], x, s)
    BY <2>1 DEF IsSlot
  <2>. QED BY <2>2 DEF Has, EntryAt
<1>10. ASSUME NEW h \in 1 .. Len(c), NEW r \in Slots(h), <<h, r>> # <<i, s>> PROVE d[h][r] = c[h][r]
  <2>1. CASE h = i
    BY <1>4, <1>10, <2>1 DEF OtherSlots
  <2>2. CASE h # i
    BY <1>5, <2>2
  <2>. QED BY <2>1, <2>2
<1>11. ASSUME NEW b, b # <<i, s>> PROVE b \in InUse(d) <=> b \in InUse(c)
  BY <1>6, <1>7, <1>10, <1>11
<1>12. \A b \in InUse(c) : b # <<i, s>> => EntryAt(d, b) = EntryAt(c, b)
  BY <1>4 DEF Elsewhere, InUse
<1>. QED BY <1>3, <1>4, <1>8, <1>9, <1>11, <1>12 DEF Stored, d

(* What sys_hashtable_put and the caller that writes the value do.         *)
LEMMA PutFacts ==
  ASSUME UsesKeyEquals, NEW c, GoodChain(c), NEW k \in Keys, NEW v \in Values, Len(Put(c, k).chain) <= MaxTables
  PROVE  LET d == SetValue(Put(c, k).chain, Put(c, k).at, v)
         IN GoodChain(d) /\ \E a : Stored(c, d, a, Str[k], v)
<1>. DEFINE x == Str[k]
            open == {i \in DOMAIN c : FindSlot(c[i], k) # NULL}
            grown == IF open = {} THEN Append(c, NewTable(NextSize(c))) ELSE c
            i == IF open = {} THEN Len(grown) ELSE Min(open)
            s == FindSlot(grown[i], k)
            same == open # {} /\ Matches(grown[i][s], k)
            d == SetValue(Put(c, k).chain, Put(c, k).at, v)
            new == [grown[i][s] EXCEPT !.key = k, !.hash = KeyHash(k), !.deleted = FALSE]
            e == IF same THEN [grown[i][s] EXCEPT !.value = v]
                 ELSE [grown[i][s] EXCEPT !.key = k, !.hash = KeyHash(k), !.deleted = FALSE, !.value = v]
<1>1. Put(c, k) = [chain |-> IF same THEN grown ELSE [grown EXCEPT ![i][s] = new], at |-> <<i, s>>, samekey |-> same]
  BY DEF Put
<1>2. x \in Strings /\ DOMAIN c = 1 .. Len(c) /\ Len(c) \in Nat /\ Len(c) >= 1 /\ c \in Seq(Tables)
  BY KeysAssumption, LenProperties DEF GoodChain
<1>3. open \subseteq Nat /\ \A h : h \in open <=> h \in 1 .. Len(c) /\ FindSlot(c[h], k) # NULL
  BY <1>2
<1>4. \A h \in 1 .. Len(c) :
        /\ FindSlot(c[h], k) # NULL => \E j \in 0 .. Sized(h) - 1 : FindSlot(c[h], k) = Way(Sized(h), x, j) /\ IsSlot(c[h], Sized(h), x, j)
        /\ FindSlot(c[h], k) = NULL => \A r \in Slots(h) : Live(c[h][r]) /\ ~Has(c[h], x, r)
  BY SlotFacts, Sizes DEF GoodChain, Slots
<1>5. grown = IF open = {} THEN Append(c, NewTable(NextSize(c))) ELSE c
  OBVIOUS
<1>6. i = IF open = {} THEN Len(grown) ELSE Min(open)
  OBVIOUS
<1>7. same <=> open # {} /\ Matches(grown[i][s], k)
  OBVIOUS
<1>8. s = FindSlot(grown[i], k)
  OBVIOUS
<1>. HIDE DEF x, open, grown, i, s, same
(* The table the put takes, and the slot.                                  *)
<1>9. /\ GoodChain(grown) /\ i \in 1 .. Len(grown) /\ InUse(grown) = InUse(c)
      /\ \A a \in InUse(c) : EntryAt(grown, a) = EntryAt(c, a)
      /\ \E j : s = Way(Sized(i), x, j) /\ IsSlot(grown[i], Sized(i), x, j)
      /\ \A h \in 1 .. Len(grown) : In(grown, x, h) => h = i
  <2>1. CASE open = {}
    <3>1. \A h \in 1 .. Len(c) : \A r \in Slots(h) : Live(c[h][r]) /\ ~Has(c[h], x, r)
      BY <1>3, <1>4, <2>1
    <3>2. grown = Append(c, NewTable(NextSize(c))) /\ i = Len(grown) /\ ~same
      BY <1>5, <1>6, <1>7, <2>1
    <3>3. Len(grown) = Len(c) + 1 /\ DOMAIN grown = 1 .. Len(c) + 1
      BY <1>2, <3>2
    <3>4. Len(Put(c, k).chain) = Len(grown)
      <4>1. Put(c, k).chain = [grown EXCEPT ![i][s] = new]
        BY <1>1, <3>2
      <4>. HIDE DEF new
      <4>2. DOMAIN Put(c, k).chain = 1 .. Len(c) + 1
        BY <3>3, <4>1
      <4>. QED BY <1>2, <3>3, <4>2
    <3>5. Len(c) < MaxTables
      <4>1. MaxTables \in Nat
        BY ClientAssumption
      <4>. QED BY <1>2, <3>3, <3>4, <4>1
    <3>6. /\ GoodChain(grown) /\ InUse(grown) = InUse(c)
          /\ \A h \in 1 .. Len(c) : grown[h] = c[h]
          /\ grown[i] = NewTable(Sized(i))
      BY <3>1, <3>2, <3>5, GrownGood
    <3>7. GoodTable(grown[i], Sized(i)) /\ \A r \in Slots(i) : ~Live(grown[i][r])
      BY <3>6, NewTableGood, Sizes DEF Slots
    <3>8. FindSlot(grown[i], k) # NULL
      BY <3>7, SlotFacts, Sizes DEF Slots
    <3>9. \E j : s = Way(Sized(i), x, j) /\ IsSlot(grown[i], Sized(i), x, j)
      BY <1>8, <3>7, <3>8, SlotFacts, Sizes DEF x
    <3>10. \A h \in 1 .. Len(grown) : In(grown, x, h) => h = i
      <4>. SUFFICES ASSUME NEW h \in 1 .. Len(grown), In(grown, x, h), h # i PROVE FALSE
        OBVIOUS
      <4>1. h \in 1 .. Len(c) /\ grown[h] = c[h]
        BY <1>2, <3>2, <3>3, <3>6
      <4>. QED BY <3>1, <4>1 DEF In
    <3>11. \A a \in InUse(c) : EntryAt(grown, a) = EntryAt(c, a)
      <4>. SUFFICES ASSUME NEW a \in InUse(c) PROVE EntryAt(grown, a) = EntryAt(c, a)
        OBVIOUS
      <4>1. a[1] \in 1 .. Len(c)
        BY UseFacts
      <4>. QED BY <3>6, <4>1 DEF EntryAt
    <3>12. i \in 1 .. Len(grown)
      BY <1>2, <3>2, <3>3
    <3>. QED BY <3>6, <3>9, <3>10, <3>11, <3>12
  <2>2. CASE open # {}
    <3>1. grown = c /\ i = Min(open)
      BY <1>5, <1>6, <2>2
    <3>2. i \in open /\ \A h \in open : i <= h
      BY <1>3, <2>2, <3>1, MinFacts
    <3>3. i \in 1 .. Len(c) /\ FindSlot(c[i], k) # NULL
      BY <1>3, <3>2
    <3>4. PICK j \in 0 .. Sized(i) - 1 : s = Way(Sized(i), x, j) /\ IsSlot(c[i], Sized(i), x, j)
      BY <1>4, <1>8, <3>1, <3>3
    <3>5. ASSUME NEW h \in 1 .. Len(c), In(c, x, h) PROVE h = i
      <4>1. ~(h < i)
        <5>. SUFFICES ASSUME h < i PROVE FALSE
          OBVIOUS
        <5>1. h \notin open
          BY <3>2, <3>3
        <5>. QED BY <1>3, <1>4, <3>5, <5>1 DEF In
      <4>2. ~(h > i)
        <5>. SUFFICES ASSUME h > i PROVE FALSE
          OBVIOUS
        <5>1. s \in Slots(i)
          <6>1. j \in Nat /\ Sized(i) \in Nat \ {0}
            BY Sizes
          <6>. QED BY <1>2, <3>4, <6>1, WayInTable DEF Slots
        <5>2. i \in 1 .. Len(c) - 1
          BY <1>2, <3>3
        <5>3. Live(c[i][s])
          BY <5>1, <5>2 DEF GoodChain
        <5>4. In(c, x, i)
          BY <3>4, <5>1, <5>3 DEF IsSlot, In
        <5>5. h = i
          BY <1>2, <3>3, <3>5, <5>4 DEF GoodChain
        <5>. QED BY <3>3, <5>5
      <4>. QED BY <3>3, <4>1, <4>2
    <3>. QED BY <3>1, <3>3, <3>4, <3>5
  <2>. QED BY <2>1, <2>2
<1>10. PICK j : s = Way(Sized(i), x, j) /\ IsSlot(grown[i], Sized(i), x, j)
  BY <1>9
<1>11. s \in Slots(i)
  <2>1. j \in Nat /\ Sized(i) \in Nat \ {0}
    BY <1>10, Sizes DEF IsSlot
  <2>. QED BY <1>2, <1>10, <2>1, WayInTable DEF Slots
<1>12. GoodTable(grown[i], Sized(i)) /\ grown[i][s] \in Entry /\ GoodEntry(grown[i][s])
  BY <1>9, <1>11 DEF GoodChain, GoodTable, Table, Slots
<1>13. same => Has(grown[i], x, s)
  BY <1>7, <1>11, <1>12, Reading, Sizes DEF Slots, x
<1>14. e \in Entry /\ e.value = v /\ Live(e) /\ GoodEntry(e) /\ Str[e.key] = x
  <2>1. v # NULL /\ KeyHash(k) \in Nat
    BY NullAssumption, KeysAssumption DEF KeyHash
  <2>2. CASE same
    <3>1. e = [grown[i][s] EXCEPT !.value = v] /\ Live(grown[i][s]) /\ Str[grown[i][s].key] = x
      BY <1>13, <2>2 DEF Has
    <3>2. e \in Entry /\ e.value = v /\ e.key = grown[i][s].key /\ e.hash = grown[i][s].hash /\ e.deleted = grown[i][s].deleted
      BY <1>12, <3>1 DEF Entry
    <3>. HIDE DEF e
    <3>3. Live(e)
      BY <2>1, <3>1, <3>2 DEF Live
    <3>4. GoodEntry(e)
      BY <1>12, <3>1, <3>2, <3>3 DEF GoodEntry
    <3>. QED BY <3>1, <3>2, <3>3, <3>4
  <2>3. CASE ~same
    <3>1. e = [grown[i][s] EXCEPT !.key = k, !.hash = KeyHash(k), !.deleted = FALSE, !.value = v]
      BY <2>3
    <3>2. e \in Entry /\ e.value = v /\ e.key = k /\ e.hash = KeyHash(k) /\ e.deleted = FALSE
      BY <1>12, <2>1, <3>1 DEF Entry
    <3>. HIDE DEF e
    <3>3. Live(e)
      BY <2>1, <3>2 DEF Live
    <3>. QED BY <3>2, <3>3 DEF GoodEntry, x
  <2>. QED BY <2>2, <2>3
<1>15. d = [grown EXCEPT ![i][s] = e]
  <2>1. CASE same
    <3>1. d = [grown EXCEPT ![i][s].value = v] /\ e = [grown[i][s] EXCEPT !.value = v]
      BY <1>1, <2>1 DEF SetValue
    <3>. HIDE DEF d, e
    <3>. QED BY <3>1
  <2>2. CASE ~same
    <3>1. d = [[grown EXCEPT ![i][s] = new] EXCEPT ![i][s].value = v]
      BY <1>1, <2>2 DEF SetValue
    <3>2. e = [new EXCEPT !.value = v]
      <4>1. e = [grown[i][s] EXCEPT !.key = k, !.hash = KeyHash(k), !.deleted = FALSE, !.value = v]
        BY <2>2
      <4>. QED BY <4>1
    <3>3. i \in DOMAIN grown /\ s \in DOMAIN grown[i]
      <4>1. DOMAIN grown = 1 .. Len(grown)
        BY <1>9, LenProperties DEF GoodChain
      <4>. QED BY <1>9, <1>11, <1>12, <4>1 DEF GoodTable, Table, Slots
    <3>. HIDE DEF d, e, new
    <3>. QED BY <3>1, <3>2, <3>3
  <2>. QED BY <2>1, <2>2
<1>. HIDE DEF d, e
<1>16. GoodChain(d) /\ Stored(grown, d, <<i, s>>, x, v)
  BY <1>2, <1>9, <1>10, <1>14, <1>15, StoreEntry
<1>17. Stored(c, d, <<i, s>>, x, v)
  BY <1>9, <1>16 DEF Stored
<1>. QED BY <1>16, <1>17 DEF d, x

-----------------------------------------------------------------------------
(* The iterator: what it has passed it has returned, once.                 *)
Precedes(a, p) == a[1] < p[1] \/ (a[1] = p[1] /\ a[2] < p[2])

Passed(c, p, sn, st) ==
  /\ sn \in Seq(Nat \X Nat) /\ st \subseteq InUse(c)
  /\ \A h \in 1 .. Len(sn) : Precedes(sn[h], p)
  /\ \A g, h \in 1 .. Len(sn) : sn[g] = sn[h] => g = h
  /\ \A a \in st : Precedes(a, p) => \E h \in 1 .. Len(sn) : sn[h] = a

Steps(c, p) == {a \in InUse(c) : a[1] > p[1] \/ (a[1] = p[1] /\ a[2] >= p[2])}

(* The iterator can hold the place of every entry in use.                  *)
LEMMA InUsePairs ==
  ASSUME NEW c, GoodChain(c)
  PROVE  InUse(c) \subseteq (1 .. MaxTables) \X Nat
<1>1. \A a \in InUse(c) : a = <<a[1], a[2]>> /\ a[1] \in 1 .. Len(c) /\ a[2] \in Slots(a[1])
  BY UseFacts
<1>2. Len(c) \in 1 .. MaxTables /\ MaxTables \in Nat
  BY ClientAssumption DEF GoodChain
<1>3. \A a \in InUse(c) : a[1] \in 1 .. MaxTables /\ a[2] \in Nat
  BY <1>1, <1>2 DEF Slots
<1>. QED BY <1>1, <1>3

(* The iterator returns the next entry in use and passes no other.         *)
LEMMA WalkStep ==
  ASSUME NEW c, GoodChain(c), NEW p \in Nat \X Nat, NEW sn, NEW st, Passed(c, p, sn, st), Steps(c, p) # {}
  PROVE  LET a == First(Steps(c, p))
         IN a \in InUse(c) /\ Passed(c, <<a[1], a[2] + 1>>, Append(sn, a), st)
<1>. DEFINE a == First(Steps(c, p))
            q == <<a[1], a[2] + 1>>
            tn == Append(sn, a)
<1>1. InUse(c) \subseteq Nat \X Nat
  BY InUsePairs
<1>2. /\ a \in Steps(c, p)
      /\ \A b \in Steps(c, p) : a[1] < b[1] \/ (a[1] = b[1] /\ a[2] <= b[2])
  <2>1. Steps(c, p) \subseteq Nat \X Nat
    BY <1>1 DEF Steps
  <2>. QED BY <2>1, FirstFacts
<1>. HIDE DEF a
<1>3. a \in InUse(c) /\ a \in Nat \X Nat /\ (a[1] > p[1] \/ (a[1] = p[1] /\ a[2] >= p[2]))
  BY <1>1, <1>2 DEF Steps
<1>4. a[1] \in Nat /\ a[2] \in Nat /\ p[1] \in Nat /\ p[2] \in Nat /\ q[1] = a[1] /\ q[2] = a[2] + 1
  BY <1>3
<1>. HIDE DEF q
<1>5. /\ sn \in Seq(Nat \X Nat) /\ st \subseteq InUse(c) /\ Len(sn) \in Nat
      /\ \A h \in 1 .. Len(sn) : sn[h] \in Nat \X Nat /\ Precedes(sn[h], p)
  BY LenProperties, ElementOfSeq DEF Passed
<1>6. /\ tn \in Seq(Nat \X Nat) /\ Len(tn) = Len(sn) + 1 /\ tn[Len(sn) + 1] = a
      /\ \A h \in 1 .. Len(sn) : tn[h] = sn[h]
  BY <1>3, <1>5, AppendProperties
<1>. HIDE DEF tn
<1>7. /\ \A h \in 1 .. Len(tn) : h \in 1 .. Len(sn) \/ h = Len(sn) + 1
      /\ \A h \in 1 .. Len(sn) : h \in 1 .. Len(tn)
      /\ Len(sn) + 1 \in 1 .. Len(tn)
  BY <1>5, <1>6
<1>8. ASSUME NEW b \in Nat \X Nat PROVE Precedes(b, p) => Precedes(b, q) /\ b # a
  BY <1>3, <1>4 DEF Precedes
<1>9. Precedes(a, q)
  BY <1>4 DEF Precedes
<1>10. \A h \in 1 .. Len(tn) : Precedes(tn[h], q)
  BY <1>5, <1>6, <1>7, <1>8, <1>9
<1>11. \A g, h \in 1 .. Len(tn) : tn[g] = tn[h] => g = h
  <2>. SUFFICES ASSUME NEW g \in 1 .. Len(tn), NEW h \in 1 .. Len(tn), tn[g] = tn[h] PROVE g = h
    OBVIOUS
  <2>1. CASE g \in 1 .. Len(sn) /\ h \in 1 .. Len(sn)
    BY <1>6, <2>1 DEF Passed
  <2>2. CASE g \in 1 .. Len(sn) /\ h = Len(sn) + 1
    BY <1>5, <1>6, <1>8, <2>2
  <2>3. CASE h \in 1 .. Len(sn) /\ g = Len(sn) + 1
    BY <1>5, <1>6, <1>8, <2>3
  <2>4. CASE g = Len(sn) + 1 /\ h = Len(sn) + 1
    BY <2>4
  <2>. QED BY <1>7, <2>1, <2>2, <2>3, <2>4
<1>12. ASSUME NEW b \in st, Precedes(b, q) PROVE \E h \in 1 .. Len(tn) : tn[h] = b
  <2>1. b \in InUse(c) /\ b \in Nat \X Nat /\ b[1] \in Nat /\ b[2] \in Nat
    BY <1>1, <1>5
  <2>2. CASE Precedes(b, p)
    <3>1. PICK h \in 1 .. Len(sn) : sn[h] = b
      BY <2>2 DEF Passed
    <3>2. h \in 1 .. Len(tn) /\ tn[h] = b
      BY <1>6, <1>7, <3>1
    <3>. QED BY <3>2
  <2>3. CASE ~Precedes(b, p)
    <3>1. b \in Steps(c, p)
      BY <1>4, <2>1, <2>3 DEF Precedes, Steps
    <3>2. a[1] < b[1] \/ (a[1] = b[1] /\ a[2] <= b[2])
      BY <1>2, <3>1
    <3>3. a[1] = b[1] /\ a[2] = b[2]
      BY <1>4, <1>12, <2>1, <3>2 DEF Precedes
    <3>4. b = a
      BY <1>3, <2>1, <3>3
    <3>. QED BY <1>6, <1>7, <3>4
  <2>. QED BY <2>2, <2>3
<1>13. Passed(c, q, tn, st)
  BY <1>5, <1>6, <1>10, <1>11, <1>12 DEF Passed
<1>. QED BY <1>3, <1>13 DEF a, q, tn

-----------------------------------------------------------------------------
(* The invariant.                                                          *)
Cursor(c, p, sn, st) ==
  /\ p \in (0 .. MaxTables) \X Nat
  /\ p[1] # 0 => Passed(c, p, sn, st)

TableInv == GoodChain(chain) /\ Cursor(chain, iter, seen, steady)

(* The chain begins with one good table and nothing in use.                *)
LEMMA NewChainGood == GoodChain(NewChain) /\ InUse(NewChain) = {}
<1>1. NewChain = <<NewTable(Sized(1))>> /\ Sized(1) \in Nat \ {0} /\ MaxTables \in Nat \ {0}
  BY ClientAssumption, Sizes DEF NewChain, Sized
<1>2. GoodTable(NewTable(Sized(1)), Sized(1)) /\ \A s \in Slots(1) : ~Live(NewTable(Sized(1))[s])
  BY <1>1, NewTableGood DEF Slots
<1>3. NewTable(Sized(1)) \in Tables
  BY <1>1, <1>2 DEF GoodTable, Tables
<1>4. NewChain \in Seq(Tables) /\ Len(NewChain) = 1 /\ NewChain[1] = NewTable(Sized(1))
  BY <1>1, <1>3
<1>5. 1 .. Len(NewChain) = {1} /\ 1 .. Len(NewChain) - 1 = {} /\ Len(NewChain) \in 1 .. MaxTables
  BY <1>1, <1>4
<1>6. GoodChain(NewChain)
  BY <1>2, <1>4, <1>5 DEF GoodChain
<1>7. \A a : a \notin InUse(NewChain)
  BY <1>2, <1>4, <1>5, <1>6, UseFacts
<1>. QED BY <1>6, <1>7

(* A deletion, with one table, of an entry in use.                         *)
Deleted(c, d) ==
  \/ d = c
  \/ \E a \in InUse(c) : d = SetDeleted(c, a) /\ GoodChain(d) /\ InUse(d) = InUse(c) \ {a}
                         /\ \A b \in InUse(c) \ {a} : EntryAt(d, b) = EntryAt(c, b)

(* What a step of a client does to the chain.                              *)
LEMMA ChainSteps ==
  ASSUME UsesKeyEquals, ~Deletes, GoodChain(chain), [TableNext]_tableVars
  PROVE  /\ GoodChain(chain')
         /\ \/ \E k \in Keys, v \in Values : \E a : Stored(chain, chain', a, Str[k], v)
            \/ Deleted(chain, chain')
<1>1. ASSUME NEW k \in Keys, NEW v \in Values, PutKey(k, v)
      PROVE  GoodChain(chain') /\ \E a : Stored(chain, chain', a, Str[k], v)
  <2>1. Len(Put(chain, k).chain) <= MaxTables /\ chain' = SetValue(Put(chain, k).chain, Put(chain, k).at, v)
    BY <1>1 DEF PutKey
  <2>. QED BY <2>1, PutFacts
<1>2. ASSUME NEW a \in InUse(chain), MayDelete, chain' = SetDeleted(chain, a)
      PROVE  GoodChain(chain') /\ Deleted(chain, chain')
  <2>1. Len(chain) = 1
    BY <1>2 DEF MayDelete
  <2>2. /\ GoodChain(SetDeleted(chain, a)) /\ InUse(SetDeleted(chain, a)) = InUse(chain) \ {a}
        /\ \A b \in InUse(chain) \ {a} : EntryAt(SetDeleted(chain, a), b) = EntryAt(chain, b)
    BY <2>1, BuryInChain
  <2>. QED BY <1>2, <2>2 DEF Deleted
<1>3. ASSUME NEW k \in Keys, DeleteKey(k) PROVE GoodChain(chain') /\ Deleted(chain, chain')
  <2>1. MayDelete /\ chain' = IF GetKey(chain, k) = NULL THEN chain ELSE SetDeleted(chain, GetKey(chain, k))
    BY <1>3 DEF DeleteKey
  <2>2. CASE GetKey(chain, k) = NULL
    BY <2>1, <2>2 DEF Deleted
  <2>3. CASE GetKey(chain, k) # NULL
    BY <1>2, <2>1, <2>3, KeyFacts
  <2>. QED BY <2>2, <2>3
<1>4. ASSUME NEW v \in Values, DeleteValue(v) PROVE GoodChain(chain') /\ Deleted(chain, chain')
  <2>1. MayDelete /\ chain' = IF GetValue(chain, v) = NULL THEN chain ELSE SetDeleted(chain, GetValue(chain, v))
    BY <1>4 DEF DeleteValue
  <2>2. CASE GetValue(chain, v) = NULL
    BY <2>1, <2>2 DEF Deleted
  <2>3. CASE GetValue(chain, v) # NULL
    BY <1>2, <2>1, <2>3, ValueFacts
  <2>. QED BY <2>2, <2>3
<1>5. CASE IteratorNext
  BY <1>5 DEF IteratorNext, Deleted
<1>6. CASE UNCHANGED tableVars
  BY <1>6 DEF tableVars, Deleted
<1>. QED BY <1>1, <1>3, <1>4, <1>5, <1>6 DEF TableNext

(* The iterator from a position on.                                        *)
Position == IF iter[1] = 0 THEN <<1, 0>> ELSE iter
Begun == IF iter[1] = 0 THEN InUse(chain) ELSE steady
Past == IF iter[1] = 0 THEN <<>> ELSE seen

(* What sys_hashtable_iterator_next does to what was passed.               *)
LEMMA IteratorFacts ==
  ASSUME TableInv, IteratorNext
  PROVE  /\ Position \in Nat \X Nat /\ Passed(chain, Position, Past, Begun)
         /\ chain' = chain /\ steady' = Begun
         /\ \/ /\ Steps(chain, Position) # {} /\ First(Steps(chain, Position)) \in InUse(chain)
               /\ iter' = <<First(Steps(chain, Position))[1], First(Steps(chain, Position))[2] + 1>>
               /\ Passed(chain, iter', seen', Begun)
            \/ Steps(chain, Position) = {} /\ iter' = Reset /\ seen' = Past
<1>1. GoodChain(chain) /\ iter \in (0 .. MaxTables) \X Nat
  BY DEF TableInv, Cursor
<1>2. Position \in Nat \X Nat
  <2>1. MaxTables \in Nat
    BY ClientAssumption
  <2>. QED BY <1>1, <2>1 DEF Position
<1>3. Passed(chain, Position, Past, Begun)
  <2>1. CASE iter[1] = 0
    <3>1. \A a \in InUse(chain) : ~Precedes(a, <<1, 0>>)
      <4>1. \A a \in InUse(chain) : a[1] \in Nat /\ a[2] \in Nat /\ a[1] >= 1
        <5>1. \A a \in InUse(chain) : a \in (1 .. MaxTables) \X Nat
          BY <1>1, InUsePairs
        <5>. QED BY <5>1, ClientAssumption
      <4>. QED BY <4>1 DEF Precedes
    <3>. QED BY <2>1, <3>1 DEF Passed, Position, Past, Begun
  <2>2. CASE iter[1] # 0
    BY <2>2 DEF TableInv, Cursor, Position, Past, Begun
  <2>. QED BY <2>1, <2>2
<1>4. /\ \/ /\ Steps(chain, Position) # {}
            /\ iter' = <<First(Steps(chain, Position))[1], First(Steps(chain, Position))[2] + 1>>
            /\ seen' = Append(Past, First(Steps(chain, Position)))
         \/ Steps(chain, Position) = {} /\ iter' = Reset /\ seen' = Past
      /\ steady' = Begun /\ chain' = chain
  BY DEF IteratorNext, Ahead, Steps, First, Position, Past, Begun
<1>5. Steps(chain, Position) # {} =>
        /\ First(Steps(chain, Position)) \in InUse(chain)
        /\ Passed(chain, <<First(Steps(chain, Position))[1], First(Steps(chain, Position))[2] + 1>>,
                  Append(Past, First(Steps(chain, Position))), Begun)
  BY <1>1, <1>2, <1>3, WalkStep
<1>. QED BY <1>2, <1>3, <1>4, <1>5

(* A change of the chain keeps what the iterator has passed.               *)
LEMMA KeepPassed ==
  ASSUME Cursor(chain, iter, seen, steady), Keep(chain'), UNCHANGED walk
  PROVE  Cursor(chain', iter', seen', steady')
<1>1. steady' \subseteq steady /\ steady' \subseteq InUse(chain') /\ iter' = iter /\ seen' = seen
  BY DEF Keep, walk
<1>2. iter[1] # 0 => Passed(chain', iter, seen, steady')
  BY <1>1 DEF Cursor, Passed
<1>. QED BY <1>1, <1>2 DEF Cursor

(* The first states have the invariant.                                    *)
LEMMA TableInvInit == TableInit => TableInv
<1>. SUFFICES ASSUME TableInit PROVE TableInv
  OBVIOUS
<1>1. iter \in (0 .. MaxTables) \X Nat /\ iter[1] = 0
  <2>1. MaxTables \in Nat \ {0}
    BY ClientAssumption
  <2>. QED BY <2>1 DEF TableInit, Reset
<1>. QED BY <1>1, NewChainGood DEF TableInit, TableInv, Cursor

(* Every step keeps the invariant.                                         *)
LEMMA TableInvStep ==
  ASSUME UsesKeyEquals, ~Deletes, TableInv, [TableNext]_tableVars
  PROVE  TableInv'
<1>1. GoodChain(chain')
  BY ChainSteps DEF TableInv
<1>2. CASE IteratorNext
  <2>1. Position \in Nat \X Nat
    BY <1>2, IteratorFacts
  <2>2. CASE /\ Steps(chain, Position) # {} /\ First(Steps(chain, Position)) \in InUse(chain)
             /\ iter' = <<First(Steps(chain, Position))[1], First(Steps(chain, Position))[2] + 1>>
             /\ Passed(chain, iter', seen', Begun)
    <3>1. First(Steps(chain, Position)) \in (1 .. MaxTables) \X Nat
      BY <2>2, InUsePairs DEF TableInv
    <3>2. iter' \in (0 .. MaxTables) \X Nat
      BY <2>2, <3>1
    <3>3. chain' = chain /\ steady' = Begun
      BY <1>2, IteratorFacts
    <3>. QED BY <1>1, <2>2, <3>2, <3>3 DEF TableInv, Cursor
  <2>3. CASE iter' = Reset
    <3>1. iter' \in (0 .. MaxTables) \X Nat /\ iter'[1] = 0
      <4>1. MaxTables \in Nat
        BY ClientAssumption
      <4>. QED BY <2>3, <4>1 DEF Reset
    <3>. QED BY <1>1, <3>1 DEF TableInv, Cursor
  <2>. QED BY <1>2, <2>2, <2>3, IteratorFacts
<1>3. CASE Keep(chain') /\ UNCHANGED walk
  BY <1>1, <1>3, KeepPassed DEF TableInv
<1>4. CASE UNCHANGED tableVars
  BY <1>4 DEF tableVars, TableInv
<1>. QED BY <1>2, <1>3, <1>4 DEF TableNext, PutKey, DeleteKey, DeleteValue

(* What the invariant says of the table.                                   *)
LEMMA TableInvMeans ==
  ASSUME UsesKeyEquals, TableInv
  PROVE  EntriesTyped /\ OneEntryPerKey /\ Reachable
<1>1. GoodChain(chain) /\ iter \in (0 .. MaxTables) \X Nat
  BY DEF TableInv, Cursor
<1>2. EntriesTyped
  <2>1. DOMAIN chain = 1 .. Len(chain) /\ Len(chain) \in 1 .. MaxTables
    BY <1>1, LenProperties DEF GoodChain
  <2>2. ASSUME NEW i \in 1 .. Len(chain) PROVE DOMAIN chain[i] = Slots(i) /\ Length(chain[i]) = Sized(i)
    <3>1. DOMAIN chain[i] = 0 .. Sized(i) - 1 /\ Sized(i) \in Nat \ {0}
      BY <1>1, Sizes DEF GoodChain, GoodTable, Table
    <3>. QED BY <3>1, IntervalLength DEF Length, Slots
  <2>3. ASSUME NEW a \in Addresses(chain) PROVE EntryAt(chain, a) \in Entry
    <3>1. PICK i \in 1 .. Len(chain) : \E s \in Slots(i) : a = <<i, s>>
      BY <1>1, UseFacts
    <3>2. PICK s \in Slots(i) : a = <<i, s>>
      BY <3>1
    <3>3. chain[i] \in [Slots(i) -> Entry]
      BY <1>1 DEF GoodChain, GoodTable, Table, Slots
    <3>. QED BY <3>2, <3>3 DEF EntryAt
  <2>. QED BY <1>1, <2>1, <2>2, <2>3 DEF EntriesTyped, Sized
<1>3. OneEntryPerKey
  BY <1>1, OneEntry DEF OneEntryPerKey
<1>4. Reachable
  BY <1>1, KeyFacts DEF Reachable
<1>. QED BY <1>2, <1>3, <1>4

(* What a step does when an iteration ends.                                *)
LEMMA IterationEnds ==
  ASSUME TableInv, [TableNext]_tableVars, iter[1] # 0, iter'[1] = 0
  PROVE  /\ \A a \in steady : \E i \in DOMAIN seen : seen[i] = a
         /\ \A i, j \in DOMAIN seen : seen[i] = seen[j] => i = j
<1>1. IteratorNext
  BY DEF TableNext, PutKey, DeleteKey, DeleteValue, tableVars, walk
<1>2. Position = iter /\ Past = seen /\ Begun = steady
  BY DEF Position, Past, Begun
<1>3. Passed(chain, iter, seen, steady)
  BY DEF TableInv, Cursor
<1>4. Steps(chain, iter) = {}
  <2>. SUFFICES ASSUME Steps(chain, iter) # {} PROVE FALSE
    OBVIOUS
  <2>1. First(Steps(chain, iter)) \in InUse(chain) /\ iter'[1] = First(Steps(chain, iter))[1]
    BY <1>1, <1>2, IteratorFacts
  <2>2. First(Steps(chain, iter)) \in (1 .. MaxTables) \X Nat
    BY <2>1, InUsePairs DEF TableInv
  <2>3. First(Steps(chain, iter))[1] \in 1 .. MaxTables
    BY <2>2
  <2>. QED BY <2>1, <2>3, ClientAssumption
<1>5. \A a \in steady : Precedes(a, iter)
  <2>. SUFFICES ASSUME NEW a \in steady, ~Precedes(a, iter) PROVE FALSE
    OBVIOUS
  <2>1. a \in InUse(chain)
    BY <1>3 DEF Passed
  <2>2. a \in (1 .. MaxTables) \X Nat /\ iter \in (0 .. MaxTables) \X Nat
    BY <2>1, InUsePairs DEF TableInv, Cursor
  <2>3. a[1] \in Nat /\ a[2] \in Nat /\ iter[1] \in Nat /\ iter[2] \in Nat
    BY <2>2, ClientAssumption
  <2>4. a \in Steps(chain, iter)
    BY <2>1, <2>3 DEF Precedes, Steps
  <2>. QED BY <1>4, <2>4
<1>6. DOMAIN seen = 1 .. Len(seen)
  BY <1>3, LenProperties DEF Passed
<1>. QED BY <1>3, <1>5, <1>6 DEF Passed

(* The table holds one entry for each key, a look-up finds it, and an      *)
(* iteration returns what stays and nothing twice, with keys compared by   *)
(* content and no deletion once there are two tables.                      *)
THEOREM TableHoldsAlways ==
  ASSUME UsesKeyEquals, ~Deletes
  PROVE  TableSpec => TableHolds
<1>1. TableInit => TableInv
  BY TableInvInit
<1>2. TableInv /\ [TableNext]_tableVars => TableInv'
  BY TableInvStep
<1>3. TableInv => EntriesTyped /\ OneEntryPerKey /\ Reachable
  BY TableInvMeans
<1>4. TableInv /\ [TableNext]_tableVars =>
        [iter[1] # 0 /\ iter'[1] = 0 =>
           /\ \A a \in steady : \E i \in DOMAIN seen : seen[i] = a
           /\ \A i, j \in DOMAIN seen : seen[i] = seen[j] => i = j]_tableVars
  BY IterationEnds
<1>. QED BY <1>1, <1>2, <1>3, <1>4, PTL DEF TableSpec, TableHolds, IterationComplete

-----------------------------------------------------------------------------
(* The map the chain stands for.                                           *)
Mine(c, x) == {a \in InUse(c) : Str[EntryAt(c, a).key] = x}
StoreOf(c) == [x \in Strings |-> IF Held(c, x) = {} THEN NULL ELSE CHOOSE v \in Held(c, x) : TRUE]

(* The map has the value of the entry of a string, or none.                *)
LEMMA StoreFacts ==
  ASSUME NEW c, GoodChain(c), NEW x \in Strings
  PROVE  /\ \A a \in InUse(c) : Str[EntryAt(c, a).key] = x => StoreOf(c)[x] = EntryAt(c, a).value
         /\ (\A a \in InUse(c) : Str[EntryAt(c, a).key] # x) => StoreOf(c)[x] = NULL
<1>1. StoreOf(c)[x] = IF Held(c, x) = {} THEN NULL ELSE CHOOSE v \in Held(c, x) : TRUE
  BY DEF StoreOf
<1>2. Held(c, x) = {EntryAt(c, a).value : a \in Mine(c, x)}
  BY DEF Held, Mine
<1>3. ASSUME NEW a \in InUse(c), Str[EntryAt(c, a).key] = x PROVE StoreOf(c)[x] = EntryAt(c, a).value
  <2>1. Mine(c, x) = {a}
    BY <1>3, OneEntry DEF Mine
  <2>2. Held(c, x) = {EntryAt(c, a).value}
    BY <1>2, <2>1
  <2>. QED BY <1>1, <2>2
<1>4. ASSUME \A a \in InUse(c) : Str[EntryAt(c, a).key] # x PROVE StoreOf(c)[x] = NULL
  <2>1. Mine(c, x) = {}
    BY <1>4 DEF Mine
  <2>2. Held(c, x) = {}
    BY <1>2, <2>1
  <2>. QED BY <1>1, <2>2
<1>. QED BY <1>3, <1>4

(* The entries in use are as many as the strings that have a value.        *)
LEMMA CountFacts ==
  ASSUME NEW c, GoodChain(c)
  PROVE  Count(c) = Cardinality({x \in Strings : StoreOf(c)[x] # NULL})
<1>. DEFINE P == {x \in Strings : StoreOf(c)[x] # NULL}
            f == [a \in InUse(c) |-> Str[EntryAt(c, a).key]]
<1>1. IsFiniteSet(InUse(c))
  <2>. DEFINE m == IF Size >= Size + Size \div 2 THEN Size ELSE Size + Size \div 2
              B == (1 .. Len(c)) \X (0 .. m)
  <2>1. m \in Nat /\ Len(c) \in Nat /\ \A i : Sized(i) <= m /\ Sized(i) \in Nat
    <3>1. Size \in Nat /\ Size \div 2 \in Nat
      BY SizeAssumption, Divides
    <3>2. Len(c) \in Nat
      BY ClientAssumption DEF GoodChain
    <3>. QED BY <3>1, <3>2 DEF Sized
  <2>. HIDE DEF m
  <2>2. IsFiniteSet(1 .. Len(c)) /\ IsFiniteSet(0 .. m)
    BY <2>1, FS_Interval
  <2>3. IsFiniteSet(B)
    BY <2>2, FS_Product
  <2>4. \A a \in InUse(c) : a = <<a[1], a[2]>> /\ a[1] \in 1 .. Len(c) /\ a[2] \in Slots(a[1])
    BY UseFacts
  <2>5. \A i : \A s \in Slots(i) : s \in 0 .. m
    BY <2>1 DEF Slots
  <2>6. InUse(c) \in SUBSET B
    BY <2>4, <2>5
  <2>. QED BY <2>3, <2>6, FS_Subset
<1>2. \A a \in InUse(c) : Str[EntryAt(c, a).key] \in P
  <2>. SUFFICES ASSUME NEW a \in InUse(c) PROVE Str[EntryAt(c, a).key] \in P
    OBVIOUS
  <2>1. Str[EntryAt(c, a).key] \in Strings /\ EntryAt(c, a).value \in Values
    BY UseFacts
  <2>2. StoreOf(c)[Str[EntryAt(c, a).key]] = EntryAt(c, a).value
    BY <2>1, StoreFacts
  <2>. QED BY <2>1, <2>2, NullAssumption
<1>3. \A x \in P : \E a \in InUse(c) : Str[EntryAt(c, a).key] = x
  BY StoreFacts
<1>4. \A a, b \in InUse(c) : Str[EntryAt(c, a).key] = Str[EntryAt(c, b).key] => a = b
  BY OneEntry
<1>. HIDE DEF P
<1>5. f \in Bijection(InUse(c), P)
  <2>1. f \in [InUse(c) -> P] /\ \A a, b \in InUse(c) : f[a] = f[b] => a = b
    BY <1>2, <1>4
  <2>2. \A x \in P : \E a \in InUse(c) : f[a] = x
    BY <1>3
  <2>. QED BY <2>1, <2>2 DEF Bijection, Injection, Surjection, IsInjective
<1>6. ExistsBijection(InUse(c), P)
  BY <1>5 DEF ExistsBijection
<1>. QED BY <1>1, <1>6, FS_Bijection DEF Count, P

(* A put sets one string of the map.                                       *)
LEMMA StoredStore ==
  ASSUME NEW c, GoodChain(c), NEW d, GoodChain(d), NEW a, NEW x \in Strings, NEW v, Stored(c, d, a, x, v)
  PROVE  StoreOf(d) = [StoreOf(c) EXCEPT ![x] = v]
<1>1. ASSUME NEW y \in Strings PROVE StoreOf(d)[y] = IF y = x THEN v ELSE StoreOf(c)[y]
  <2>1. CASE y = x
    BY <2>1, StoreFacts DEF Stored
  <2>2. CASE y # x /\ \E b \in InUse(c) : Str[EntryAt(c, b).key] = y
    <3>1. PICK b \in InUse(c) : Str[EntryAt(c, b).key] = y
      BY <2>2
    <3>2. b # a
      BY <2>2, <3>1 DEF Stored
    <3>3. b \in InUse(d) /\ EntryAt(d, b) = EntryAt(c, b)
      BY <3>2 DEF Stored
    <3>4. StoreOf(d)[y] = EntryAt(d, b).value /\ StoreOf(c)[y] = EntryAt(c, b).value
      BY <3>1, <3>3, StoreFacts
    <3>. QED BY <2>2, <3>3, <3>4
  <2>3. CASE y # x /\ ~\E b \in InUse(c) : Str[EntryAt(c, b).key] = y
    <3>1. \A b \in InUse(d) : Str[EntryAt(d, b).key] # y
      <4>. SUFFICES ASSUME NEW b \in InUse(d), Str[EntryAt(d, b).key] = y PROVE FALSE
        OBVIOUS
      <4>1. b # a
        BY <2>3 DEF Stored
      <4>2. b \in InUse(c) /\ EntryAt(d, b) = EntryAt(c, b)
        BY <4>1 DEF Stored
      <4>. QED BY <2>3, <4>2
    <3>2. StoreOf(d)[y] = NULL /\ StoreOf(c)[y] = NULL
      BY <2>3, <3>1, StoreFacts
    <3>. QED BY <2>3, <3>2
  <2>. QED BY <2>1, <2>2, <2>3
<1>. QED BY <1>1 DEF StoreOf

(* A deletion removes one string of the map.                               *)
LEMMA DeletedStore ==
  ASSUME NEW c, GoodChain(c), NEW d, GoodChain(d), Deleted(c, d)
  PROVE  d = c \/ \E x \in Strings : StoreOf(d) = [StoreOf(c) EXCEPT ![x] = NULL]
<1>. SUFFICES ASSUME d # c PROVE \E x \in Strings : StoreOf(d) = [StoreOf(c) EXCEPT ![x] = NULL]
  OBVIOUS
<1>1. PICK a \in InUse(c) : InUse(d) = InUse(c) \ {a} /\ \A b \in InUse(c) \ {a} : EntryAt(d, b) = EntryAt(c, b)
  BY DEF Deleted
<1>. DEFINE x == Str[EntryAt(c, a).key]
<1>2. x \in Strings
  BY UseFacts
<1>3. \A b \in InUse(c) : Str[EntryAt(c, b).key] = x => b = a
  BY OneEntry
<1>4. x = Str[EntryAt(c, a).key]
  OBVIOUS
<1>. HIDE DEF x
<1>5. ASSUME NEW y \in Strings PROVE StoreOf(d)[y] = IF y = x THEN NULL ELSE StoreOf(c)[y]
  <2>1. CASE y = x
    BY <1>1, <1>3, <2>1, StoreFacts
  <2>2. CASE y # x /\ \E b \in InUse(c) : Str[EntryAt(c, b).key] = y
    <3>1. PICK b \in InUse(c) : Str[EntryAt(c, b).key] = y
      BY <2>2
    <3>2. b \in InUse(d) /\ EntryAt(d, b) = EntryAt(c, b)
      BY <1>1, <1>4, <2>2, <3>1
    <3>3. StoreOf(d)[y] = EntryAt(d, b).value /\ StoreOf(c)[y] = EntryAt(c, b).value
      BY <3>1, <3>2, StoreFacts
    <3>. QED BY <2>2, <3>2, <3>3
  <2>3. CASE y # x /\ ~\E b \in InUse(c) : Str[EntryAt(c, b).key] = y
    <3>1. StoreOf(d)[y] = NULL /\ StoreOf(c)[y] = NULL
      BY <1>1, <2>3, StoreFacts
    <3>. QED BY <2>3, <3>1
  <2>. QED BY <2>1, <2>2, <2>3
<1>6. StoreOf(d) = [StoreOf(c) EXCEPT ![x] = NULL]
  BY <1>5 DEF StoreOf
<1>. QED BY <1>2, <1>6

(* The table implements a map: a put sets one string's value, a deletion   *)
(* removes one, every other step changes none, and the count agrees.       *)
THEOREM StoreImplemented ==
  ASSUME UsesKeyEquals, ~Deletes
  PROVE  TableSpec => ImplementsStore
<1>1. TableInit => Map!Init
  <2>. SUFFICES ASSUME TableInit PROVE Map!Init
    OBVIOUS
  <2>1. GoodChain(chain) /\ InUse(chain) = {}
    BY NewChainGood DEF TableInit
  <2>2. \A x \in Strings : StoreOf(chain)[x] = NULL
    BY <2>1, StoreFacts
  <2>3. StoreOf(chain) = [x \in Strings |-> NULL]
    BY <2>2 DEF StoreOf
  <2>4. Count(chain) = 0
    BY <2>1, FS_EmptySet DEF Count
  <2>. QED BY <2>3, <2>4 DEF Map!Init, StoreOf
<1>2. TableInv /\ TableInv' /\ [TableNext]_tableVars => [Map!Next]_(Map!vars)
  <2>. SUFFICES ASSUME TableInv, TableInv', [TableNext]_tableVars PROVE [Map!Next]_(Map!vars)
    OBVIOUS
  <2>1. GoodChain(chain) /\ GoodChain(chain')
    BY DEF TableInv
  <2>2. Count(chain') = Map!Cardinality(Map!Present(StoreOf(chain')))
    <3>1. \A S : Map!Cardinality(S) = Cardinality(S)
      BY DEF Map!Cardinality, Cardinality
    <3>. QED BY <2>1, <3>1, CountFacts DEF Map!Present
  <2>3. CASE \E k \in Keys, v \in Values : \E a : Stored(chain, chain', a, Str[k], v)
    <3>0. PICK k \in Keys, v \in Values : \E a : Stored(chain, chain', a, Str[k], v)
      BY <2>3
    <3>1. PICK a : Stored(chain, chain', a, Str[k], v)
      BY <3>0
    <3>2. Str[k] \in Strings
      BY KeysAssumption
    <3>3. StoreOf(chain') = [StoreOf(chain) EXCEPT ![Str[k]] = v]
      BY <2>1, <3>1, <3>2, StoredStore
    <3>4. Map!Set(Str[k], v)
      BY <3>3 DEF Map!Set, StoreOf
    <3>5. \E x \in Strings, w \in Values : Map!Set(x, w)
      BY <3>2, <3>4
    <3>6. Map!Next
      <4>. HIDE DEF Map!Set
      <4>1. (Count(chain))' = Map!Cardinality(Map!Present(StoreOf(chain)'))
        BY <2>2
      <4>. QED BY <3>5, <4>1 DEF Map!Next, StoreOf
    <3>. QED BY <3>6
  <2>4. CASE Deleted(chain, chain')
    <3>1. CASE chain' = chain
      BY <3>1 DEF Map!vars
    <3>2. CASE \E x \in Strings : StoreOf(chain') = [StoreOf(chain) EXCEPT ![x] = NULL]
      <4>1. PICK x \in Strings : StoreOf(chain') = [StoreOf(chain) EXCEPT ![x] = NULL]
        BY <3>2
      <4>2. Map!Remove(x)
        BY <4>1 DEF Map!Remove, StoreOf
      <4>3. \E y \in Strings : Map!Remove(y)
        BY <4>2
      <4>4. Map!Next
        <5>1. (Count(chain))' = Map!Cardinality(Map!Present(StoreOf(chain)'))
          BY <2>2
        <5>. QED BY <4>3, <5>1 DEF Map!Next, StoreOf
      <4>. QED BY <4>4
    <3>. QED BY <2>1, <2>4, <3>1, <3>2, DeletedStore
  <2>. QED BY <2>1, <2>3, <2>4, ChainSteps
<1>3. TableInit => TableInv
  BY TableInvInit
<1>4. TableInv /\ [TableNext]_tableVars => TableInv'
  BY TableInvStep
<1>. QED BY <1>1, <1>2, <1>3, <1>4, PTL DEF TableSpec, ImplementsStore, Map!Spec

-----------------------------------------------------------------------------
(* Dates and the clock.                                                    *)

(* Multiples of c add as their factors do.                                 *)
LEMMA AddMultiples ==
  ASSUME NEW c \in Nat \ {0}, NEW p \in Int, NEW q \in Int
  PROVE  (p + q) * c = p * c + q * c /\ p * c \in Int
  BY SMT

(* The quotient and the remainder of any integer.                          *)
LEMMA DividesInt ==
  ASSUME NEW c \in Nat \ {0}, NEW n \in Int
  PROVE  /\ n \div c \in Int /\ n % c \in 0 .. c - 1
         /\ n = (n \div c) * c + (n % c)
  BY SMT

(* There is one quotient and one remainder.                                *)
LEMMA OneRemainder ==
  ASSUME NEW c \in Nat \ {0}, NEW q \in Int, NEW r \in 0 .. c - 1
  PROVE  (q * c + r) % c = r /\ (q * c + r) \div c = q
<1>. DEFINE n == q * c + r
<1>1. n \in Int
  BY SMT
<1>2. PICK p \in Int, s \in 0 .. c - 1 : n = p * c + s /\ p = n \div c /\ s = n % c
  BY <1>1, DividesInt
<1>3. (p - q) * c = r - s /\ (q - p) * c = s - r /\ p - q \in Int /\ q - p \in Int
  BY <1>2, Multiples
<1>4. r = s
  BY <1>2, <1>3, NoMultipleBelow
<1>5. p = q
  <2>1. (p - q) * c = 0
    BY <1>2, <1>3, <1>4
  <2>. QED BY <1>3, <2>1, SMT
<1>. QED BY <1>2, <1>4, <1>5

(* Division as C does it: the remainder is less than the divisor and has   *)
(* the sign of the number.                                                 *)
LEMMA QuotRem ==
  ASSUME NEW b \in Nat \ {0}, NEW a \in Int
  PROVE  /\ Quot(a, b) \in Int /\ Rem(a, b) \in 1 - b .. b - 1
         /\ a = Quot(a, b) * b + Rem(a, b)
         /\ a >= 0 => Quot(a, b) >= 0 /\ Rem(a, b) >= 0
<1>1. CASE a >= 0
  <2>1. Quot(a, b) = a \div b
    BY <1>1 DEF Quot
  <2>2. a \div b \in Int /\ a % b \in 0 .. b - 1 /\ a = (a \div b) * b + (a % b)
    BY DividesInt
  <2>5. a \div b >= 0
    BY <1>1, SMT
  <2>. DEFINE q == a \div b
              r == a % b
  <2>. HIDE DEF q, r
  <2>3. b * q = q * b /\ q * b \in Int
    BY <2>2, SMT DEF q
  <2>4. Rem(a, b) = r
    BY <2>1, <2>2, <2>3 DEF Rem, q, r
  <2>. QED BY <1>1, <2>1, <2>2, <2>4, <2>5 DEF q, r
<1>2. CASE ~(a >= 0)
  <2>. DEFINE q == (-a) \div b
              r == (-a) % b
  <2>1. -a \in Nat
    BY <1>2
  <2>2. q \in Nat /\ r \in 0 .. b - 1 /\ -a = q * b + r
    BY <2>1, Divides
  <2>3. Quot(a, b) = -q
    BY <1>2 DEF Quot
  <2>. HIDE DEF q, r
  <2>4. b * (-q) = -(q * b) /\ (-q) * b = -(q * b) /\ q * b \in Int
    BY <2>2, SMT
  <2>5. Rem(a, b) = -r
    BY <2>2, <2>3, <2>4 DEF Rem
  <2>. QED BY <1>2, <2>2, <2>3, <2>4, <2>5
<1>. QED BY <1>1, <1>2

(* A second has so many milliseconds of so many units.                     *)
LEMMA SecondFacts ==
  /\ Second \in Nat \ {0} /\ Milli \in Nat \ {0} /\ MillisPerSecond \in Nat \ {0}
  /\ Second = MillisPerSecond * Milli
<1>1. Second \in Nat \ {0} /\ Milli \in Nat \ {0} /\ Second % Milli = 0
  BY DatesAssumption
<1>2. MillisPerSecond \in Nat /\ Second = MillisPerSecond * Milli + 0
  BY <1>1, Divides DEF MillisPerSecond
<1>3. MillisPerSecond * Milli \in Int
  BY <1>1, <1>2
<1>4. MillisPerSecond # 0
  BY <1>1, <1>2
<1>. QED BY <1>1, <1>2, <1>3, <1>4

(* Factors in a row.                                                       *)
LEMMA ThreeFactors ==
  ASSUME NEW a \in Int, NEW b \in Int, NEW c \in Int
  PROVE  (a * b) * c = a * (b * c)
  BY SMT

(* Now is the time since boot and the offset.                              *)
LEMMA NowFacts ==
  ASSUME clock \in [offset : Int, boot : Nat]
  PROVE  /\ Now.seconds \in Int /\ Now.nanoseconds \in 1 - Second .. Second - 1 /\ NowMillis \in Int
         /\ InstantOf(Now) = NowMillis * Milli
<1>. DEFINE m == MillisPerSecond
            q == Quot(NowMillis, m)
            r == Rem(NowMillis, m)
<1>1. clock.offset \in Int /\ clock.boot \in Int
  OBVIOUS
<1>2. NowMillis \in Int
  BY <1>1, SecondFacts DEF NowMillis
<1>3. m \in Nat \ {0} /\ Milli \in Nat \ {0} /\ Second = m * Milli
  BY SecondFacts
<1>4. q \in Int /\ r \in 1 - m .. m - 1 /\ NowMillis = q * m + r
  BY <1>2, <1>3, QuotRem
<1>5. Now.seconds = q /\ Now.nanoseconds = r * Milli
  BY DEF Now
<1>. HIDE DEF q, r, m
<1>6. NowMillis * Milli = (q * m) * Milli + r * Milli /\ q * m \in Int
  <2>1. q * m \in Int
    BY <1>3, <1>4
  <2>. QED BY <1>3, <1>4, <2>1, AddMultiples
<1>7. (q * m) * Milli = q * Second
  BY <1>3, <1>4, ThreeFactors
<1>8. r * Milli \in 1 - Second .. Second - 1
  <2>1. (m - r) * Milli = m * Milli - r * Milli /\ (r + m) * Milli = r * Milli + m * Milli /\ r * Milli \in Int
    BY <1>3, <1>4, Multiples, AddMultiples
  <2>2. m - r \in Nat \ {0} /\ r + m \in Nat \ {0}
    BY <1>3, <1>4
  <2>3. (m - r) * Milli > 0 /\ (r + m) * Milli > 0
    BY <1>3, <2>2, SMT
  <2>4. Second \in Int /\ m * Milli = Second
    BY <1>3
  <2>. QED BY <2>1, <2>3, <2>4
<1>. QED BY <1>2, <1>4, <1>5, <1>6, <1>7, <1>8 DEF InstantOf

(* What is carried into the seconds is not lost.                           *)
LEMMA CarriedFacts ==
  ASSUME NEW s \in Int, NEW n \in Int
  PROVE  /\ Carried(s, n) \in [seconds : Int, nanoseconds : Int]
         /\ InstantOf(Carried(s, n)) = s * Second + n
         /\ Carried(s, n).nanoseconds = IF n >= Second THEN Rem(n, Second) ELSE n
<1>. DEFINE o == Quot(n, Second)
            r == Rem(n, Second)
<1>1. Second \in Nat \ {0}
  BY SecondFacts
<1>2. o \in Int /\ r \in Int /\ n = o * Second + r
  BY <1>1, QuotRem
<1>3. Carried(s, n) = IF n >= Second THEN [seconds |-> s + o, nanoseconds |-> n - o * Second]
                      ELSE [seconds |-> s, nanoseconds |-> n]
  BY DEF Carried
<1>. HIDE DEF o, r
<1>4. (s + o) * Second = s * Second + o * Second /\ o * Second \in Int /\ s * Second \in Int
  BY <1>1, <1>2, AddMultiples
<1>5. n - o * Second = r
  BY <1>2, <1>4
<1>. QED BY <1>2, <1>3, <1>4, <1>5 DEF InstantOf, r

(* A sum that fits into 32 bits is not changed.                            *)
LEMMA Int32Facts ==
  ASSUME NEW n \in Int
  PROVE  /\ Int32(n) \in -NanoTop .. NanoTop - 1
         /\ n \in -NanoTop .. NanoTop - 1 => Int32(n) = n
<1>1. NanoTop \in Nat /\ NanoTop # 0
  BY DatesAssumption
<1>. DEFINE c == 2 * NanoTop
            k == n + NanoTop
<1>2. c \in Nat \ {0} /\ k \in Int
  BY <1>1
<1>3. Int32(n) = (k % c) - NanoTop
  BY DEF Int32
<1>. HIDE DEF k
<1>4. k % c \in 0 .. c - 1
  <2>. HIDE DEF c
  <2>. QED BY <1>2, DividesInt
<1>5. Int32(n) \in -NanoTop .. NanoTop - 1
  BY <1>1, <1>3, <1>4
<1>6. ASSUME n \in -NanoTop .. NanoTop - 1 PROVE Int32(n) = n
  <2>1. k \in 0 .. c - 1
    BY <1>1, <1>6 DEF k
  <2>2. k = 0 * c + k
    BY <1>2
  <2>3. k % c = k
    <3>. HIDE DEF c
    <3>1. 0 \in Int
      OBVIOUS
    <3>2. (0 * c + k) % c = k
      BY ONLY <1>2, <2>1, <3>1, OneRemainder
    <3>. QED BY ONLY <2>2, <3>2
  <2>. QED BY <1>1, <1>3, <2>3 DEF k
<1>. QED BY <1>5, <1>6

(* A date made from an interval from now.                                  *)
LEMMA SinceNowFacts ==
  ASSUME clock \in [offset : Int, boot : Nat], NEW i \in Int
  PROVE  /\ SinceNow(i).seconds \in Int /\ SinceNow(i).nanoseconds \in 1 - 2 * Second .. Second - 1
         /\ SinceNow(i) \in [seconds : Int, nanoseconds : Int]
         /\ InstantOf(SinceNow(i)) = NowMillis * Milli + i
<1>. DEFINE q == Quot(i, Second)
            r == Rem(i, Second)
            s == Now.seconds
            n == Now.nanoseconds
<1>1. Second \in Nat \ {0} /\ NanoTop \in Nat /\ 2 * Second <= NanoTop
  BY SecondFacts, DatesAssumption
<1>2. q \in Int /\ r \in 1 - Second .. Second - 1 /\ i = q * Second + r
  BY <1>1, QuotRem
<1>3. s \in Int /\ n \in 1 - Second .. Second - 1 /\ NowMillis \in Int /\ s * Second + n = NowMillis * Milli
  BY NowFacts DEF InstantOf
<1>4. SinceNow(i) = Carried(s + q, Int32(n + r))
  BY DEF SinceNow
<1>. HIDE DEF q, r, s, n
<1>5. n + r \in -NanoTop .. NanoTop - 1 /\ n + r \in 2 - 2 * Second .. 2 * Second - 2 /\ n + r \in Int
  BY <1>1, <1>2, <1>3
<1>6. Int32(n + r) = n + r
  BY <1>5, Int32Facts
<1>7. SinceNow(i) = Carried(s + q, n + r) /\ s + q \in Int
  BY <1>2, <1>3, <1>4, <1>6
<1>8. /\ SinceNow(i) \in [seconds : Int, nanoseconds : Int]
      /\ InstantOf(SinceNow(i)) = (s + q) * Second + (n + r)
      /\ SinceNow(i).nanoseconds = IF n + r >= Second THEN Rem(n + r, Second) ELSE n + r
  <2>. DEFINE a == s + q
              b == n + r
  <2>1. a \in Int /\ b \in Int
    BY <1>5, <1>7
  <2>. HIDE DEF a, b
  <2>2. /\ Carried(a, b) \in [seconds : Int, nanoseconds : Int]
        /\ InstantOf(Carried(a, b)) = a * Second + b
        /\ Carried(a, b).nanoseconds = IF b >= Second THEN Rem(b, Second) ELSE b
    BY ONLY <2>1, CarriedFacts
  <2>. QED BY ONLY <1>7, <2>2 DEF a, b
<1>9. (s + q) * Second = s * Second + q * Second /\ s * Second \in Int /\ q * Second \in Int
  BY <1>1, <1>2, <1>3, AddMultiples
<1>10. Rem(n + r, Second) \in 1 - Second .. Second - 1
  BY <1>1, <1>5, QuotRem
<1>11. NowMillis * Milli \in Int
  BY <1>3, SecondFacts
<1>. QED BY <1>1, <1>2, <1>3, <1>5, <1>8, <1>9, <1>10, <1>11

(* A date to which an interval was added.                                  *)
LEMMA AddedFacts ==
  ASSUME NEW d \in [seconds : Int, nanoseconds : Int], NEW i \in Int
  PROVE  /\ Added(d, i) \in [seconds : Int, nanoseconds : Int]
         /\ Added(d, i).nanoseconds \in 1 - Second .. 2 * Second - 1
         /\ Fits(d, i) => InstantOf(Added(d, i)) = InstantOf(d) + i
<1>. DEFINE q == Quot(i, Second)
            r == Rem(i, Second)
            n == Int32(d.nanoseconds + r)
            s == d.seconds + q
            u == Quot(r - n + (Second - 1), Second)
<1>1. Second \in Nat \ {0}
  BY SecondFacts
<1>2. q \in Int /\ r \in 1 - Second .. Second - 1 /\ i = q * Second + r
  BY <1>1, QuotRem
<1>3. d.seconds \in Int /\ d.nanoseconds \in Int
  OBVIOUS
<1>4. NanoTop \in Nat
  BY DatesAssumption
<1>5. n \in -NanoTop .. NanoTop - 1 /\ n \in Int
  <2>1. d.nanoseconds + r \in Int
    BY <1>1, <1>2, <1>3
  <2>. HIDE DEF r
  <2>2. n \in -NanoTop .. NanoTop - 1
    BY <2>1, Int32Facts
  <2>. QED BY <1>4, <2>2
<1>6. s \in Int
  BY <1>2, <1>3
<1>7. Added(d, i) = IF n < Second /\ n < r THEN [seconds |-> s - u, nanoseconds |-> n + u * Second]
                    ELSE Carried(s, n)
  BY DEF Added
<1>8. Fits(d, i) => n = d.nanoseconds + r
  <2>1. d.nanoseconds + r \in Int
    BY <1>1, <1>2, <1>3
  <2>. HIDE DEF r
  <2>. QED BY <2>1, Int32Facts DEF Fits, r
<1>9. s * Second = d.seconds * Second + q * Second /\ d.seconds * Second \in Int /\ q * Second \in Int
  <2>. HIDE DEF q
  <2>. QED BY <1>1, <1>2, <1>3, AddMultiples
<1>10. InstantOf(d) = d.seconds * Second + d.nanoseconds
  BY DEF InstantOf
<1>11. SUFFICES /\ Added(d, i) \in [seconds : Int, nanoseconds : Int]
                /\ Added(d, i).nanoseconds \in 1 - Second .. 2 * Second - 1
                /\ InstantOf(Added(d, i)) = s * Second + n
  <2>. HIDE DEF q, r, n
  <2>1. r \in Int
    BY <1>1, <1>2
  <2>. QED BY <1>2, <1>3, <1>8, <1>9, <1>10, <2>1
<1>12. CASE n < Second /\ n < r
  <2>. DEFINE k == r - n + (Second - 1)
  <2>. HIDE DEF q, r, n, s
  <2>1. k \in Int /\ k >= 0
    BY <1>1, <1>2, <1>5, <1>12
  <2>2. u \in Int /\ Rem(k, Second) \in 0 .. Second - 1 /\ k = u * Second + Rem(k, Second)
    <3>. HIDE DEF k
    <3>1. /\ Quot(k, Second) \in Int /\ Rem(k, Second) \in 1 - Second .. Second - 1
          /\ k = Quot(k, Second) * Second + Rem(k, Second) /\ (k >= 0 => Rem(k, Second) >= 0)
      BY <1>1, <2>1, QuotRem
    <3>2. u = Quot(k, Second)
      BY DEF k
    <3>. HIDE DEF u
    <3>. QED BY <1>1, <2>1, <3>1, <3>2
  <2>3. (s - u) * Second = s * Second - u * Second /\ u * Second \in Int /\ s * Second \in Int
    <3>. HIDE DEF u
    <3>. QED BY <1>1, <1>6, <2>2, Multiples, AddMultiples
  <2>. DEFINE w == Rem(k, Second)
              v == u * Second
  <2>4. v \in Int /\ w \in 0 .. Second - 1 /\ r - n + (Second - 1) = v + w
    BY <2>2, <2>3
  <2>5. Added(d, i) = [seconds |-> s - u, nanoseconds |-> n + v]
    BY <1>7, <1>12
  <2>. HIDE DEF w, u
  <2>6. (s - u) * Second + (n + v) = s * Second + n
    BY <1>1, <1>5, <1>6, <2>2, <2>3
  <2>. HIDE DEF v, k
  <2>7. n + v \in 1 - Second .. 2 * Second - 1
    BY <1>1, <1>2, <1>5, <2>4
  <2>. QED BY <1>6, <2>2, <2>5, <2>6, <2>7 DEF InstantOf
<1>13. CASE ~(n < Second /\ n < r)
  <2>. HIDE DEF q, r, n, s
  <2>1. Added(d, i) = Carried(s, n)
    BY <1>7, <1>13
  <2>2. /\ Carried(s, n) \in [seconds : Int, nanoseconds : Int]
        /\ InstantOf(Carried(s, n)) = s * Second + n
        /\ Carried(s, n).nanoseconds = IF n >= Second THEN Rem(n, Second) ELSE n
    BY ONLY <1>5, <1>6, CarriedFacts
  <2>3. Rem(n, Second) \in 1 - Second .. Second - 1
    BY <1>1, <1>5, QuotRem
  <2>. QED BY <1>1, <1>2, <1>5, <1>13, <2>1, <2>2, <2>3
<1>. QED BY <1>12, <1>13

-----------------------------------------------------------------------------
(* The calendar.                                                           *)
Beyond == Len(MonthDays) + 1
CountsDays(n, f) == f \in [1 .. n -> Nat] /\ f[1] = 0 /\ \A k \in 1 .. n - 1 : f[k + 1] = f[k] + MonthDays[k]

(* There are months, and each has days.                                    *)
LEMMA MonthsFacts ==
  /\ Len(MonthDays) \in Nat \ {0} /\ Months = 1 .. Len(MonthDays)
  /\ \A m \in Months : MonthDays[m] \in Nat \ {0}
<1>1. MonthDays \in Seq(Nat \ {0}) /\ MonthDays # <<>>
  BY DatesAssumption
<1>. QED BY <1>1, EmptySeq, LenProperties, ElementOfSeq DEF Months

(* The days before each month can be counted.                              *)
LEMMA DaysCounted == \E f : CountsDays(Beyond, f)
<1>. DEFINE S == {m \in 1 .. Beyond : \E f : CountsDays(m, f)}
            T == (1 .. Beyond) \ S
<1>1. Beyond \in Nat /\ Beyond > 1
  BY MonthsFacts DEF Beyond
<1>2. 1 \in S
  <2>1. CountsDays(1, [k \in 1 .. 1 |-> 0])
    BY DEF CountsDays
  <2>. QED BY <1>1, <2>1
<1>3. ASSUME NEW m \in 1 .. Beyond - 1, m \in S PROVE m + 1 \in S
  <2>1. PICK f : CountsDays(m, f)
    BY <1>3
  <2>2. f \in [1 .. m -> Nat] /\ f[1] = 0 /\ \A k \in 1 .. m - 1 : f[k + 1] = f[k] + MonthDays[k]
    BY <2>1 DEF CountsDays
  <2>3. m \in Nat /\ m >= 1 /\ m + 1 \in 1 .. Beyond /\ MonthDays[m] \in Nat /\ f[m] \in Nat
    BY <1>1, <2>2, MonthsFacts DEF Beyond
  <2>. DEFINE e == f[m] + MonthDays[m]
              h == [k \in 1 .. m + 1 |-> IF k = m + 1 THEN e ELSE f[k]]
  <2>4. e \in Nat
    BY <2>3
  <2>5. h[m + 1] = e /\ h \in [1 .. m + 1 -> Nat] /\ \A k \in 1 .. m : h[k] = f[k]
    <3>. HIDE DEF e
    <3>. QED BY <2>2, <2>3, <2>4
  <2>. HIDE DEF h
  <2>6. h[1] = 0
    BY <2>2, <2>3, <2>5
  <2>7. ASSUME NEW k \in 1 .. (m + 1) - 1 PROVE h[k + 1] = h[k] + MonthDays[k]
    <3>1. k \in 1 .. m /\ h[k] = f[k]
      BY <2>3, <2>5
    <3>2. CASE k = m
      BY <2>5, <3>1, <3>2
    <3>3. CASE k # m
      <4>1. k \in 1 .. m - 1 /\ k + 1 \in 1 .. m
        BY <2>3, <3>1, <3>3
      <4>. QED BY <2>2, <2>5, <3>1, <4>1
    <3>. QED BY <3>2, <3>3
  <2>8. CountsDays(m + 1, h)
    BY <2>5, <2>6, <2>7 DEF CountsDays
  <2>. QED BY <2>3, <2>8
<1>. HIDE DEF S
<1>4. T = {}
  <2>. SUFFICES ASSUME T # {} PROVE FALSE
    OBVIOUS
  <2>1. T \subseteq Nat
    OBVIOUS
  <2>. DEFINE m == Min(T)
  <2>2. m \in T /\ \A k \in T : m <= k
    BY <2>1, MinFacts
  <2>. HIDE DEF m
  <2>3. m \in 1 .. Beyond /\ m \notin S /\ m # 1
    BY <1>2, <2>2
  <2>4. m - 1 \in 1 .. Beyond - 1 /\ m - 1 \in S /\ (m - 1) + 1 = m
    BY <1>1, <2>2, <2>3
  <2>5. (m - 1) + 1 \in S
    BY <1>3, <2>4
  <2>. QED BY <2>3, <2>4, <2>5
<1>5. Beyond \in S
  BY <1>1, <1>4
<1>. QED BY <1>5 DEF S

(* DaysBefore counts them.                                                 *)
LEMMA DaysBeforeFacts == CountsDays(Beyond, DaysBefore)
<1>. DEFINE N == Len(MonthDays)
            Solves(h) == h = [m \in 1 .. N + 1 |-> IF m = 1 THEN 0 ELSE h[m - 1] + MonthDays[m - 1]]
<1>1. N \in Nat \ {0}
  BY MonthsFacts
<1>2. DaysBefore = CHOOSE h : Solves(h)
  BY DEF DaysBefore
<1>3. PICK f : CountsDays(N + 1, f)
  BY DaysCounted DEF Beyond
<1>. HIDE DEF N
<1>4. f \in [1 .. N + 1 -> Nat] /\ f[1] = 0 /\ \A k \in 1 .. N : f[k + 1] = f[k] + MonthDays[k]
  BY <1>1, <1>3 DEF CountsDays
<1>5. Solves(f)
  <2>1. \A m \in 1 .. N + 1 : f[m] = IF m = 1 THEN 0 ELSE f[m - 1] + MonthDays[m - 1]
    <3>1. \A m \in 1 .. N + 1 : m # 1 => m - 1 \in 1 .. N /\ (m - 1) + 1 = m
      BY <1>1
    <3>. QED BY <1>4, <3>1
  <2>. QED BY <1>4, <2>1
<1>. HIDE DEF Solves
<1>6. Solves(DaysBefore)
  BY <1>2, <1>5
<1>. DEFINE D == DaysBefore
<1>7. D = [m \in 1 .. N + 1 |-> IF m = 1 THEN 0 ELSE D[m - 1] + MonthDays[m - 1]]
  BY <1>6 DEF Solves
<1>. HIDE DEF D
<1>8. DOMAIN D = 1 .. N + 1 /\ D = [m \in 1 .. N + 1 |-> D[m]] /\ D[1] = 0
  BY <1>1, <1>7
<1>9. \A k \in 1 .. N : D[k + 1] = D[k] + MonthDays[k]
  <2>1. \A k \in 1 .. N : k + 1 \in 1 .. N + 1 /\ k + 1 # 1 /\ (k + 1) - 1 = k
    BY <1>1
  <2>. QED BY <1>7, <2>1
<1>10. \A m \in 1 .. N + 1 : D[m] = f[m]
  <2>. DEFINE T == {m \in 1 .. N + 1 : D[m] # f[m]}
  <2>. SUFFICES ASSUME T # {} PROVE FALSE
    OBVIOUS
  <2>1. T \subseteq Nat
    OBVIOUS
  <2>. DEFINE m == Min(T)
  <2>2. m \in T /\ \A k \in T : m <= k
    BY <2>1, MinFacts
  <2>. HIDE DEF m
  <2>3. m \in 1 .. N + 1 /\ D[m] # f[m] /\ m # 1
    BY <1>4, <1>8, <2>2
  <2>4. m - 1 \in 1 .. N /\ (m - 1) + 1 = m /\ m - 1 \in 1 .. N + 1 /\ m - 1 \notin T
    BY <1>1, <2>2, <2>3
  <2>5. D[m - 1] = f[m - 1]
    BY <2>4
  <2>. QED BY <1>4, <1>9, <2>3, <2>4, <2>5
<1>11. D \in [1 .. N + 1 -> Nat]
  BY <1>4, <1>8, <1>10
<1>12. CountsDays(N + 1, D)
  <2>1. \A k \in 1 .. (N + 1) - 1 : D[k + 1] = D[k] + MonthDays[k]
    BY <1>1, <1>9
  <2>. QED BY <1>8, <1>11, <2>1 DEF CountsDays
<1>. QED BY <1>12 DEF N, Beyond, D

(* Each day of the year is in a month.                                     *)
LEMMA MonthOfDay ==
  /\ YearDays \in Nat \ {0}
  /\ \A x \in 0 .. YearDays - 1 : \E m \in Months : DaysBefore[m] <= x /\ x < DaysBefore[m] + MonthDays[m]
<1>. DEFINE N == Len(MonthDays)
            D == DaysBefore
<1>1. N \in Nat \ {0} /\ Months = 1 .. N /\ \A m \in 1 .. N : MonthDays[m] \in Nat \ {0}
  BY MonthsFacts
<1>2. YearDays = D[N + 1]
  BY DEF YearDays
<1>3. D \in [1 .. N + 1 -> Nat] /\ D[1] = 0 /\ \A k \in 1 .. (N + 1) - 1 : D[k + 1] = D[k] + MonthDays[k]
  BY DaysBeforeFacts DEF CountsDays, Beyond
<1>. HIDE DEF N, D
<1>4. \A k \in 1 .. N : D[k + 1] = D[k] + MonthDays[k]
  BY <1>1, <1>3
<1>5. YearDays \in Nat \ {0}
  <2>1. N \in 1 .. N + 1 /\ N \in 1 .. N
    BY <1>1
  <2>2. D[N] \in Nat /\ MonthDays[N] \in Nat \ {0} /\ D[N + 1] = D[N] + MonthDays[N]
    BY <1>1, <1>3, <1>4, <2>1
  <2>. QED BY <1>2, <2>2
<1>6. ASSUME NEW x \in 0 .. YearDays - 1
      PROVE  \E m \in 1 .. N : D[m] <= x /\ x < D[m] + MonthDays[m]
  <2>. DEFINE T == {m \in 1 .. N + 1 : x < D[m]}
              m == Min(T)
  <2>1. x \in Nat /\ x < YearDays
    BY <1>5
  <2>2. N + 1 \in T
    BY <1>1, <1>2, <2>1
  <2>3. T \subseteq Nat
    OBVIOUS
  <2>4. m \in T /\ \A k \in T : m <= k
    BY <2>2, <2>3, MinFacts
  <2>. HIDE DEF m
  <2>5. m \in 1 .. N + 1 /\ x < D[m] /\ m # 1
    BY <1>3, <2>1, <2>4
  <2>6. m - 1 \in 1 .. N /\ (m - 1) + 1 = m /\ m - 1 \in 1 .. N + 1 /\ m - 1 \notin T
    BY <1>1, <2>4, <2>5
  <2>7. ~(x < D[m - 1]) /\ D[m - 1] \in Nat
    BY <1>3, <2>6
  <2>8. x < D[m - 1] + MonthDays[m - 1]
    BY <1>4, <2>5, <2>6
  <2>. QED BY <2>1, <2>6, <2>7, <2>8
<1>. QED BY <1>1, <1>5, <1>6 DEF D

(* timegm and gmtime_r agree: the components of a time are that time.      *)
LEMMA ComponentsFacts ==
  ASSUME NEW s \in Int
  PROVE  LET c == Components(s) IN
           /\ c.time = s % DaySeconds
           /\ TimeGm(c.year, c.month, c.day, c.time) = s
           /\ c.year \in Int /\ c.month \in Months /\ c.day \in Int
<1>. DEFINE c == Components(s)
            days == s \div DaySeconds
            t == s % DaySeconds
            x == days % YearDays
            y == days \div YearDays
            month == CHOOSE m \in Months : DaysBefore[m] <= x /\ x < DaysBefore[m] + MonthDays[m]
<1>1. DaySeconds \in Nat \ {0}
  BY DatesAssumption
<1>2. days \in Int /\ t \in 0 .. DaySeconds - 1 /\ s = days * DaySeconds + t
  BY <1>1, DividesInt
<1>3. c = [year |-> y, month |-> month, day |-> x - DaysBefore[month] + 1, time |-> t]
  BY DEF Components
<1>. HIDE DEF days, t
<1>4. y \in Int /\ x \in 0 .. YearDays - 1 /\ days = y * YearDays + x
  BY <1>2, MonthOfDay, DividesInt
<1>. HIDE DEF x, y
<1>5. month \in Months
  BY <1>4, MonthOfDay
<1>. HIDE DEF month
<1>6. DaysBefore[month] \in Nat
  BY <1>5, MonthsFacts, DaysBeforeFacts DEF CountsDays, Beyond
<1>7. YearDays \in Nat \ {0}
  BY MonthOfDay
<1>8. TimeGm(y, month, x - DaysBefore[month] + 1, t) = s
  <2>. DEFINE b == DaysBefore[month]
              a == y * YearDays
  <2>1. a \in Int
    BY <1>4, <1>7
  <2>2. TimeGm(y, month, x - b + 1, t) = (a + b + ((x - b + 1) - 1)) * DaySeconds + t
    BY DEF TimeGm
  <2>3. b \in Int /\ x \in Int
    BY <1>4, <1>6, <1>7
  <2>. HIDE DEF a, b
  <2>4. a + b + ((x - b + 1) - 1) = a + x
    BY <2>1, <2>3
  <2>. QED BY <1>2, <1>4, <2>2, <2>4 DEF a, b
<1>9. c.year = y /\ c.month = month /\ c.day = x - DaysBefore[month] + 1 /\ c.time = t
  BY <1>3
<1>10. x - DaysBefore[month] + 1 \in Int
  BY <1>4, <1>6, <1>7
<1>. HIDE DEF c
<1>11. TimeGm(c.year, c.month, c.day, c.time) = s /\ c.year \in Int /\ c.month \in Months /\ c.day \in Int
  BY <1>4, <1>5, <1>8, <1>9, <1>10
<1>12. c.time = s % DaySeconds
  BY <1>9 DEF t
<1>. QED BY <1>11, <1>12 DEF c

(* A time of any day is that of the day.                                   *)
LEMMA TimeGmFacts ==
  ASSUME NEW y \in Int, NEW m \in Months, NEW d \in Int, NEW t \in 0 .. DaySeconds - 1
  PROVE  TimeGm(y, m, d, t) \in Int /\ TimeGm(y, m, d, t) % DaySeconds = t
<1>. DEFINE k == y * YearDays + DaysBefore[m] + (d - 1)
<1>1. DaySeconds \in Nat \ {0} /\ YearDays \in Nat
  BY DatesAssumption, MonthOfDay
<1>2. DaysBefore[m] \in Nat
  BY MonthsFacts, DaysBeforeFacts DEF CountsDays, Beyond
<1>3. y * YearDays \in Int
  BY <1>1
<1>4. k \in Int
  BY <1>2, <1>3
<1>5. TimeGm(y, m, d, t) = k * DaySeconds + t
  BY DEF TimeGm
<1>. HIDE DEF k
<1>6. k * DaySeconds \in Int /\ t \in Int
  BY <1>1, <1>4
<1>7. (k * DaySeconds + t) % DaySeconds = t
  BY ONLY <1>1, <1>4, t \in 0 .. DaySeconds - 1, OneRemainder
<1>. QED BY <1>5, <1>6, <1>7

-----------------------------------------------------------------------------
(* The invariant of the dates: a date stands for its instant, what is      *)
(* cached is of it, and the offset is the one that was asked for.          *)
DatesInv ==
  /\ date \in [seconds : -MaxSeconds .. MaxSeconds, nanoseconds : 1 - 2 * Second .. 2 * Second - 1]
  /\ InstantOf(date) = instant
  /\ cached \in {Uncached, Components(date.seconds)}
  /\ clock \in [offset : Int, boot : 0 .. MaxUptime]
  /\ wanted \in Int /\ clock.offset = Quot(wanted, MillisPerSecond)

DatesTypes ==
  /\ date \in [seconds : -MaxSeconds .. MaxSeconds, nanoseconds : 1 - 2 * Second .. 2 * Second - 1]
  /\ clock \in [offset : Int, boot : 0 .. MaxUptime] /\ wanted \in Int /\ instant \in Int

(* The invariant holds of the first date.                                  *)
LEMMA DatesStart == DatesInit => DatesInv
<1>. SUFFICES ASSUME DatesInit PROVE DatesInv
  OBVIOUS
<1>1. /\ clock = [offset |-> 0, boot |-> 0] /\ wanted = 0
      /\ date = Now /\ instant = 0 /\ cached = Uncached
  BY DEF DatesInit
<1>2. Second \in Nat \ {0} /\ Milli \in Nat \ {0} /\ MillisPerSecond \in Nat \ {0}
      /\ MaxSeconds \in Nat /\ MaxUptime \in Nat
  BY SecondFacts, DatesAssumption
<1>3. 0 * MillisPerSecond = 0 /\ 0 * Milli = 0
  BY <1>2
<1>4. NowMillis = 0
  BY <1>1, <1>3 DEF NowMillis
<1>5. Quot(0, MillisPerSecond) = 0
  <2>. DEFINE q == Quot(0, MillisPerSecond)
              r == Rem(0, MillisPerSecond)
  <2>1. q \in Int /\ r \in 0 .. MillisPerSecond - 1 /\ 0 = q * MillisPerSecond + r
    <3>1. 0 \in Int /\ 0 >= 0
      OBVIOUS
    <3>2. /\ q \in Int /\ r \in 1 - MillisPerSecond .. MillisPerSecond - 1
          /\ 0 = q * MillisPerSecond + r /\ q >= 0 /\ r >= 0
      BY <1>2, <3>1, QuotRem
    <3>. QED BY <1>2, <3>2
  <2>. HIDE DEF q, r
  <2>2. q * MillisPerSecond \in Int /\ (-q) * MillisPerSecond = -(q * MillisPerSecond)
    BY <1>2, <2>1, SMT
  <2>3. q = 0
    <3>1. CASE q >= 1
      BY <1>2, <2>1, <3>1, SMT
    <3>2. CASE q <= -1
      BY <1>2, <2>1, <3>2, SMT
    <3>. QED BY <2>1, <3>1, <3>2
  <2>. QED BY <2>3 DEF q
<1>6. Rem(0, MillisPerSecond) = 0
  <2>1. MillisPerSecond * 0 = 0
    BY <1>2
  <2>. QED BY <1>5, <2>1 DEF Rem
<1>7. date = [seconds |-> 0, nanoseconds |-> 0]
  BY <1>1, <1>3, <1>4, <1>5, <1>6 DEF Now
<1>8. InstantOf(date) = 0
  BY <1>2, <1>7 DEF InstantOf
<1>. QED BY <1>1, <1>2, <1>5, <1>7, <1>8 DEF DatesInv

(* What a date stands for is a number.                                     *)
LEMMA InstantFacts ==
  ASSUME NEW d \in [seconds : Int, nanoseconds : Int]
  PROVE  InstantOf(d) \in Int
<1>1. d.seconds * Second \in Int
  BY SecondFacts
<1>. QED BY <1>1 DEF InstantOf

(* Every step of a date keeps the invariant.                               *)
LEMMA DatesKept == DatesInv /\ [DatesStep]_dateVars => DatesInv'
<1>. SUFFICES ASSUME DatesInv, [DatesStep]_dateVars PROVE DatesInv'
  OBVIOUS
<1>1. /\ date \in [seconds : -MaxSeconds .. MaxSeconds, nanoseconds : 1 - 2 * Second .. 2 * Second - 1]
      /\ InstantOf(date) = instant
      /\ cached \in {Uncached, Components(date.seconds)}
      /\ clock \in [offset : Int, boot : 0 .. MaxUptime]
      /\ wanted \in Int /\ clock.offset = Quot(wanted, MillisPerSecond)
  BY DEF DatesInv
<1>2. Second \in Nat \ {0} /\ Milli \in Nat \ {0} /\ MillisPerSecond \in Nat \ {0}
      /\ MaxSeconds \in Nat /\ MaxUptime \in Nat /\ DaySeconds \in Nat \ {0}
  BY SecondFacts, DatesAssumption
<1>3. date \in [seconds : Int, nanoseconds : Int] /\ date.seconds \in Int /\ date.nanoseconds \in Int
      /\ date.nanoseconds \in 1 - 2 * Second .. 2 * Second - 1
  BY <1>1, <1>2
<1>4. clock \in [offset : Int, boot : Nat]
  BY <1>1, <1>2
<1>5. Intervals \subseteq Int
  BY DatesAssumption
<1>6. CASE SetNow
  <2>. DEFINE desired == date.seconds * MillisPerSecond + Quot(date.nanoseconds, Milli)
              w == desired - clock.boot
  <2>1. Quot(date.nanoseconds, Milli) \in Int
    BY <1>2, <1>3, QuotRem
  <2>2. desired \in Int
    BY <1>2, <1>3, <2>1
  <2>. HIDE DEF desired
  <2>3. w \in Int
    BY <1>4, <2>2
  <2>. HIDE DEF w
  <2>4. Quot(w, MillisPerSecond) \in Int
    BY <1>2, <2>3, QuotRem
  <2>5. /\ clock' = [clock EXCEPT !.offset = Quot(w, MillisPerSecond)] /\ wanted' = w
        /\ UNCHANGED <<date, cached, instant>>
    BY <1>6 DEF SetNow, desired, w
  <2>6. clock' \in [offset : Int, boot : 0 .. MaxUptime] /\ clock'.offset = Quot(w, MillisPerSecond)
    BY <1>1, <2>4, <2>5
  <2>. QED BY <1>1, <2>3, <2>5, <2>6 DEF DatesInv, InstantOf
<1>7. CASE ClockTick
  <2>1. /\ clock.boot < MaxUptime /\ clock' = [clock EXCEPT !.boot = @ + 1]
        /\ UNCHANGED <<date, cached, instant, wanted>>
    BY <1>7 DEF ClockTick
  <2>2. clock' \in [offset : Int, boot : 0 .. MaxUptime] /\ clock'.offset = clock.offset
    BY <1>1, <1>2, <2>1
  <2>. QED BY <1>1, <2>1, <2>2 DEF DatesInv, InstantOf
<1>8. CASE CacheComponents
  BY <1>1, <1>8 DEF CacheComponents, DatesInv, InstantOf
<1>9. CASE WithSystemDate
  BY <1>1, <1>9 DEF WithSystemDate, DatesInv, InstantOf
<1>10. ASSUME NEW i \in Intervals, DateSinceNow(i) PROVE DatesInv'
  <2>1. i \in Int
    BY <1>5
  <2>. DEFINE new == SinceNow(i)
  <2>2. /\ InRange(new.seconds) /\ date' = new /\ cached' = Uncached /\ instant' = NowMillis * Milli + i
        /\ UNCHANGED <<clock, wanted>>
    BY <1>10 DEF DateSinceNow
  <2>3. /\ new.nanoseconds \in 1 - 2 * Second .. Second - 1
        /\ new \in [seconds : Int, nanoseconds : Int]
        /\ InstantOf(new) = NowMillis * Milli + i
    BY <1>4, <2>1, SinceNowFacts
  <2>. HIDE DEF new
  <2>4. new \in [seconds : -MaxSeconds .. MaxSeconds, nanoseconds : 1 - 2 * Second .. 2 * Second - 1]
    BY <1>2, <2>2, <2>3 DEF InRange
  <2>5. (InstantOf(date) = instant)'
    BY <2>2, <2>3 DEF InstantOf
  <2>. QED BY <1>1, <2>2, <2>4, <2>5 DEF DatesInv
<1>11. ASSUME NEW i \in Intervals, AddTimeInterval(i) PROVE DatesInv'
  <2>1. i \in Int
    BY <1>5
  <2>. DEFINE new == Added(date, i)
  <2>2. /\ InRange(new.seconds) /\ date' = new /\ cached' = Uncached /\ instant' = InstantAfter(i)
        /\ UNCHANGED <<clock, wanted>>
    BY <1>11 DEF AddTimeInterval
  <2>3. /\ new \in [seconds : Int, nanoseconds : Int]
        /\ new.nanoseconds \in 1 - Second .. 2 * Second - 1
        /\ Fits(date, i) => InstantOf(new) = InstantOf(date) + i
    BY <1>3, <2>1, AddedFacts
  <2>4. InstantAfter(i) = InstantOf(new)
    BY <1>1, <2>3 DEF InstantAfter
  <2>. HIDE DEF new
  <2>5. new \in [seconds : -MaxSeconds .. MaxSeconds, nanoseconds : 1 - 2 * Second .. 2 * Second - 1]
    BY <1>2, <2>2, <2>3 DEF InRange
  <2>6. (InstantOf(date) = instant)'
    BY <2>2, <2>4 DEF InstantOf
  <2>. QED BY <1>1, <2>2, <2>5, <2>6 DEF DatesInv
<1>12. ASSUME NEW y \in -1 .. 1, NEW m \in Months, NEW d \in Days, SetDate(y, m, d) PROVE DatesInv'
  <2>. DEFINE new == SetDateUtc(y, m, d)
  <2>1. /\ InRange(new) /\ date' = [date EXCEPT !.seconds = new]
        /\ cached' = Uncached /\ instant' = new * Second + date.nanoseconds
        /\ UNCHANGED <<clock, wanted>>
    BY <1>12 DEF SetDate
  <2>. HIDE DEF new
  <2>2. date' \in [seconds : -MaxSeconds .. MaxSeconds, nanoseconds : 1 - 2 * Second .. 2 * Second - 1]
        /\ date'.seconds = new /\ date'.nanoseconds = date.nanoseconds
    BY <1>1, <2>1 DEF InRange
  <2>3. (InstantOf(date) = instant)'
    BY <2>1, <2>2 DEF InstantOf
  <2>. QED BY <1>1, <2>1, <2>2, <2>3 DEF DatesInv
<1>13. ASSUME NEW t \in 0 .. DaySeconds - 1, NEW n \in {0, Second - 1}, SetTime(t, n) PROVE DatesInv'
  <2>. DEFINE new == SetTimeUtc(t)
  <2>1. /\ InRange(new) /\ date' = [seconds |-> new, nanoseconds |-> n]
        /\ cached' = Uncached /\ instant' = new * Second + n
        /\ UNCHANGED <<clock, wanted>>
    BY <1>13 DEF SetTime
  <2>. HIDE DEF new
  <2>2. n \in 1 - 2 * Second .. 2 * Second - 1
    BY <1>2
  <2>3. date' \in [seconds : -MaxSeconds .. MaxSeconds, nanoseconds : 1 - 2 * Second .. 2 * Second - 1]
        /\ date'.seconds = new /\ date'.nanoseconds = n
    BY <2>1, <2>2 DEF InRange
  <2>4. (InstantOf(date) = instant)'
    BY <2>1, <2>3 DEF InstantOf
  <2>. QED BY <1>1, <2>1, <2>3, <2>4 DEF DatesInv
<1>14. CASE UNCHANGED dateVars
  BY <1>1, <1>14 DEF dateVars, DatesInv, InstantOf
<1>. QED BY <1>6, <1>7, <1>8, <1>9, <1>10, <1>11, <1>12, <1>13, <1>14 DEF DatesStep

(* Of a date of the invariant the components are read.                     *)
LEMMA ReadsComponents == DatesInv => CachedOrRead = Components(date.seconds)
  BY DEF DatesInv, CachedOrRead

(* The remainder of what is within one width, or one width below it.       *)
LEMMA WithinWidth ==
  ASSUME NEW c \in Nat \ {0}, NEW r \in 0 .. c - 1
  PROVE  r % c = r /\ (r - c) % c = r
<1>1. r \in Int /\ 0 \in Int /\ -1 \in Int
  OBVIOUS
<1>2. (0 * c + r) % c = r /\ ((-1) * c + r) % c = r
  BY ONLY c \in Nat \ {0}, r \in 0 .. c - 1, <1>1, OneRemainder
<1>3. 0 * c + r = r /\ (-1) * c + r = r - c
  BY <1>1
<1>. QED BY <1>2, <1>3

(* What fits is stored as it is; below 0, unsigned, as 2^32 more.          *)
LEMMA StoredUnsigned ==
  ASSUME NEW n \in -NanoTop .. NanoTop - 1
  PROVE  UInt32(n) = n + (IF n < 0 THEN 2 * NanoTop ELSE 0)
<1>. DEFINE w == 2 * NanoTop
            v == IF n < 0 THEN n + w ELSE n
<1>1. NanoTop \in Nat /\ NanoTop # 0 /\ n \in Int
  BY DatesAssumption
<1>2. w \in Nat \ {0} /\ v \in 0 .. w - 1 /\ (n = v \/ n = v - w)
  BY <1>1
<1>. HIDE DEF v
<1>3. v % w = v /\ (v - w) % w = v
  <2>. HIDE DEF w
  <2>. QED BY <1>2, WithinWidth
<1>4. UInt32(n) = v
  BY <1>2, <1>3 DEF UInt32
<1>. QED BY <1>1, <1>4 DEF v

LEMMA StoredWide ==
  ASSUME NEW n \in -LapseTop .. LapseTop - 1
  PROVE  Int64(n) = n
<1>. DEFINE w == 2 * LapseTop
            v == n + LapseTop
<1>1. LapseTop \in Nat \ {0} /\ n \in Int
  BY DatesAssumption
<1>2. w \in Nat \ {0} /\ v \in 0 .. w - 1
  BY <1>1
<1>3. v % w = v
  <2>. HIDE DEF v, w
  <2>. QED BY <1>2, WithinWidth
<1>. QED BY <1>1, <1>3 DEF Int64

(* The invariant says that dates keep their value.                         *)
LEMMA DatesExact ==
  DatesInv => DatesTypes /\ InstantKept /\ ShowsInstant /\ ComparesRight /\ ClockWithin
<1>. SUFFICES ASSUME DatesInv PROVE DatesTypes /\ InstantKept /\ ShowsInstant /\ ComparesRight /\ ClockWithin
  OBVIOUS
<1>1. /\ date \in [seconds : -MaxSeconds .. MaxSeconds, nanoseconds : 1 - 2 * Second .. 2 * Second - 1]
      /\ InstantOf(date) = instant
      /\ clock \in [offset : Int, boot : 0 .. MaxUptime]
      /\ wanted \in Int /\ clock.offset = Quot(wanted, MillisPerSecond)
  BY DEF DatesInv
<1>2. Second \in Nat \ {0} /\ Milli \in Nat \ {0} /\ MillisPerSecond \in Nat \ {0}
      /\ MaxSeconds \in Nat /\ MaxUptime \in Nat
  BY SecondFacts, DatesAssumption
<1>3. date \in [seconds : Int, nanoseconds : Int] /\ date.seconds \in Int /\ date.nanoseconds \in Int
      /\ clock \in [offset : Int, boot : Nat]
  BY <1>1, <1>2
<1>4. instant \in Int /\ instant = date.seconds * Second + date.nanoseconds /\ date.seconds * Second \in Int
  BY <1>1, <1>2, <1>3, InstantFacts DEF InstantOf
<1>5. DatesTypes
  BY <1>1, <1>4 DEF DatesTypes
<1>6. ShowsInstant
  <2>. DEFINE c == Components(date.seconds)
  <2>1. TimeGm(c.year, c.month, c.day, c.time) = date.seconds
    BY <1>3, ComponentsFacts
  <2>2. CachedOrRead = c
    BY ReadsComponents
  <2>. HIDE DEF c
  <2>3. GetDate.year = c.year /\ GetDate.month = c.month /\ GetDate.day = c.day /\ GetTime.time = c.time
        /\ GetTime.nanoseconds = UInt32(date.nanoseconds)
    BY <2>2 DEF GetDate, GetTime
  <2>4. UInt32(date.nanoseconds) = date.nanoseconds + (IF date.nanoseconds < 0 THEN 2 * NanoTop ELSE 0)
    <3>1. NanoTop \in Nat /\ 2 * Second <= NanoTop
      BY DatesAssumption
    <3>2. date.nanoseconds \in -NanoTop .. NanoTop - 1 /\ NanoTop > 0
      BY <1>1, <1>2, <3>1
    <3>. QED BY <3>2, StoredUnsigned
  <2>. QED BY <1>3, <1>4, <2>1, <2>3, <2>4, DatesAssumption DEF ShowsInstant
<1>7. ComparesRight
  <2>1. ASSUME NEW i \in Intervals \cup {0}
        PROVE  /\ Comparable(SinceNow(i), date) =>
                    CompareNs(SinceNow(i), date) = instant - (NowMillis * Milli + i)
               /\ NowMillis * Milli + i \in Int
    <3>. DEFINE e == SinceNow(i)
                k == NowMillis * Milli + i
    <3>1. i \in Int
      BY DatesAssumption
    <3>2. e.seconds \in Int /\ e.nanoseconds \in Int /\ InstantOf(e) = k
      BY <1>3, <3>1, SinceNowFacts
    <3>. HIDE DEF e, k
    <3>3. k = e.seconds * Second + e.nanoseconds
      BY <3>2 DEF InstantOf
    <3>4. /\ LapseOf(e, date) = date.seconds * Second - e.seconds * Second
          /\ e.seconds * Second \in Int
      BY <1>2, <1>3, <3>2, Multiples, AddMultiples DEF LapseOf
    <3>5. /\ LapseOf(e, date) + (date.nanoseconds - e.nanoseconds) = instant - k
          /\ k \in Int /\ LapseOf(e, date) \in Int
      BY <1>3, <1>4, <3>2, <3>3, <3>4
    <3>6. Comparable(e, date) => CompareNs(e, date) = instant - k
      <4>1. ASSUME NEW n \in -LapseTop .. LapseTop - 1 PROVE Int64(n) = n
        BY StoredWide
      <4>. QED BY <3>5, <4>1 DEF CompareNs, Comparable
    <3>. QED BY <3>5, <3>6 DEF e, k
  <2>2. ASSUME NEW i \in Intervals \cup {0}
        PROVE  LET other == SinceNow(i)  difference == instant - (NowMillis * Milli + i) IN
                 Comparable(other, date) =>
                   /\ IsEarlierThan(date, other) <=> difference < 0
                   /\ IsLaterThan(date, other) <=> difference > 0
                   /\ SameDate(date, other) <=> difference = 0
    <3>. DEFINE k == NowMillis * Milli + i
                e == SinceNow(i)
    <3>1. (Comparable(e, date) => CompareNs(e, date) = instant - k) /\ k \in Int
      BY <2>1
    <3>. HIDE DEF k, e
    <3>2. Comparable(e, date) =>
            /\ IsEarlierThan(date, e) <=> instant - k < 0
            /\ IsLaterThan(date, e) <=> instant - k > 0
            /\ SameDate(date, e) <=> instant - k = 0
      BY <1>4, <3>1 DEF IsEarlierThan, IsLaterThan, SameDate
    <3>. QED BY <3>2 DEF k, e
  <2>. QED BY <2>2 DEF ComparesRight
<1>8. ClockWithin
  <2>. DEFINE q == Quot(wanted, MillisPerSecond)
              r == Rem(wanted, MillisPerSecond)
  <2>1. q \in Int /\ r \in 1 - MillisPerSecond .. MillisPerSecond - 1 /\ wanted = q * MillisPerSecond + r
    BY <1>1, <1>2, QuotRem
  <2>2. NowMillis = clock.boot + q * MillisPerSecond
    BY <1>1 DEF NowMillis
  <2>. HIDE DEF q, r
  <2>3. q * MillisPerSecond \in Int
    BY <1>2, <2>1
  <2>. QED BY <1>2, <1>3, <2>1, <2>2, <2>3 DEF ClockWithin
<1>. QED BY <1>1, <1>5, <1>6, <1>7, <1>8 DEF InstantKept

(* A new day keeps the time of the day.                                    *)
LEMMA SetDateKeepsTime ==
  ASSUME DatesInv, NEW y \in -1 .. 1, NEW m \in Months, NEW d \in Days, SetDate(y, m, d)
  PROVE  Components(date'.seconds).time = Components(date.seconds).time
<1>. DEFINE t == Components(date.seconds).time
            new == SetDateUtc(y, m, d)
<1>1. date \in [seconds : -MaxSeconds .. MaxSeconds, nanoseconds : 1 - 2 * Second .. 2 * Second - 1]
  BY DEF DatesInv
<1>2. date.seconds \in Int /\ MaxSeconds \in Nat /\ DaySeconds \in Nat \ {0}
  BY <1>1, DatesAssumption
<1>3. t = date.seconds % DaySeconds
  BY <1>2, ComponentsFacts
<1>. HIDE DEF t
<1>4. t \in 0 .. DaySeconds - 1
  BY <1>2, <1>3, DividesInt
<1>5. y \in Int /\ d \in Int
  BY MonthsFacts DEF Days
<1>6. new = TimeGm(y, m, d, t)
  BY DEF SetDateUtc, t
<1>7. TimeGm(y, m, d, t) \in Int /\ TimeGm(y, m, d, t) % DaySeconds = t
  BY <1>4, <1>5, TimeGmFacts
<1>8. date'.seconds = new
  BY <1>1 DEF SetDate
<1>. HIDE DEF new
<1>9. new \in Int /\ new % DaySeconds = t
  BY <1>6, <1>7
<1>10. Components(new).time = t
  BY <1>9, ComponentsFacts
<1>. QED BY <1>8, <1>10 DEF t

(* NXDate.m, date.c: for any intervals, any calendar and as many seconds   *)
(* as one likes, dates are what their components, comparisons and the clock*)
(* say, whatever is added and set.                                         *)
THEOREM DatesInvariant == DatesSpec => []DatesInv
<1>1. DatesInit => DatesInv
  BY DatesStart
<1>2. DatesInv /\ [DatesStep]_dateVars => DatesInv'
  BY DatesKept
<1>. QED BY <1>1, <1>2, PTL DEF DatesSpec

(* NXDate.m:setYear: a step that changes the time of the day sets no day.  *)
THEOREM SettersKeepTheRestAlways == DatesSpec => SettersKeepTheRest
<1>1. DatesInv /\ [DatesStep]_dateVars =>
        [Components(date'.seconds).time # Components(date.seconds).time =>
           ~\E y \in -1 .. 1, m \in Months, d \in Days : SetDate(y, m, d)]_dateVars
  BY SetDateKeepsTime
<1>. QED BY <1>1, DatesInvariant, PTL DEF DatesSpec, SettersKeepTheRest

-----------------------------------------------------------------------------
(* Numbers.                                                                *)

(* What a number of each class may be.                                     *)
Valued(n) ==
  \/ n.class \in Integral /\ n.value \in RangeOf(n.class) \ {0}
  \/ n.class = "Zero" /\ n.value = 0
  \/ n.class = "Bool" /\ n.value \in {0, 1}

NumbersInv ==
  /\ shared \in [Singles -> {"nil", "live", "freed"}]
  /\ number \in [class : Integral \cup {"Zero", "Bool", "none"}, value : Int, kept : BOOLEAN]
  /\ number = NoNumber \/ Valued(number)

(* Each class has its range, and the widths double.                        *)
LEMMA HalfFacts ==
  /\ \A c \in Integral : Half[c] \in Nat /\ Half[c] > 1
  /\ Half["UnsignedInt16"] = Half["Int16"] /\ Half["UnsignedInt32"] = Half["Int32"]
  /\ Half["UnsignedInt64"] = Half["Int64"]
  /\ 2 * Half["Int16"] <= Half["Int32"] /\ 2 * Half["Int32"] <= Half["Int64"]
<1>1. /\ Half["Int16"] \in Nat /\ Half["Int32"] \in Nat /\ Half["Int64"] \in Nat
      /\ Half["UnsignedInt16"] \in Nat /\ Half["UnsignedInt32"] \in Nat /\ Half["UnsignedInt64"] \in Nat
  BY NumbersAssumption DEF Integral, Signed
<1>2. /\ Half["Int16"] > 1
      /\ 2 * Half["Int16"] <= Half["Int32"] /\ 2 * Half["Int32"] <= Half["Int64"]
      /\ Half["UnsignedInt16"] = Half["Int16"] /\ Half["UnsignedInt32"] = Half["Int32"]
      /\ Half["UnsignedInt64"] = Half["Int64"]
  BY NumbersAssumption
<1>3. Half["Int32"] > 1 /\ Half["Int64"] > 1
  BY <1>1, <1>2
<1>4. ASSUME NEW c \in Integral PROVE Half[c] \in Nat /\ Half[c] > 1
  <2>1. c \in {"Int16", "Int32", "Int64", "UnsignedInt16", "UnsignedInt32", "UnsignedInt64"}
    BY DEF Integral, Signed
  <2>. QED BY <1>1, <1>2, <1>3, <2>1
<1>. QED BY <1>2, <1>4

(* The ranges, by class.                                                   *)
LEMMA RangeFacts ==
  LET a == Half["Int16"]  b == Half["Int32"]  c == Half["Int64"] IN
    /\ RangeOf("Int16") = -a .. a - 1 /\ RangeOf("UnsignedInt16") = 0 .. 2 * a - 1
    /\ RangeOf("Int32") = -b .. b - 1 /\ RangeOf("UnsignedInt32") = 0 .. 2 * b - 1
    /\ RangeOf("Int64") = -c .. c - 1 /\ RangeOf("UnsignedInt64") = 0 .. 2 * c - 1
    /\ a \in Nat /\ b \in Nat /\ c \in Nat /\ 1 < a /\ 2 * a <= b /\ 2 * b <= c
<1>1. /\ Half["UnsignedInt16"] = Half["Int16"] /\ Half["UnsignedInt32"] = Half["Int32"]
      /\ Half["UnsignedInt64"] = Half["Int64"]
      /\ 2 * Half["Int16"] <= Half["Int32"] /\ 2 * Half["Int32"] <= Half["Int64"]
  BY HalfFacts
<1>2. "Int16" \in Signed /\ "Int32" \in Signed /\ "Int64" \in Signed /\ "UnsignedInt16" \notin Signed
      /\ "UnsignedInt32" \notin Signed /\ "UnsignedInt64" \notin Signed
  BY DEF Signed
<1>3. /\ Half["Int16"] \in Nat /\ Half["Int32"] \in Nat /\ Half["Int64"] \in Nat /\ Half["Int16"] > 1
  BY <1>2, HalfFacts DEF Integral
<1>. QED BY <1>1, <1>2, <1>3 DEF RangeOf

(* A cast answers with the one value of the range that is left over.       *)
LEMMA CastFacts ==
  ASSUME NEW to \in Integral, NEW value \in Int
  PROVE  /\ Cast(value, to) \in RangeOf(to)
         /\ (Cast(value, to) - value) % (2 * Half[to]) = 0
         /\ \A v \in RangeOf(to) : (v - value) % (2 * Half[to]) = 0 => v = Cast(value, to)
<1>. DEFINE h == Half[to]
            w == 2 * h
            low == IF to \in Signed THEN -h ELSE 0
            k == value - low
            v0 == low + (k % w)
<1>1. h \in Nat /\ h > 1
  BY HalfFacts
<1>2. w \in Nat \ {0} /\ low \in Int
  BY <1>1
<1>3. RangeOf(to) = low .. low + w - 1
  BY <1>1 DEF RangeOf
<1>4. k \in Int
  BY <1>2
<1>. HIDE DEF w, low
<1>5. k \div w \in Int /\ k % w \in 0 .. w - 1 /\ k = (k \div w) * w + (k % w)
  <2>. HIDE DEF k
  <2>. QED BY <1>2, <1>4, DividesInt
<1>6. v0 \in RangeOf(to)
  <2>. DEFINE r == k % w
  <2>1. r \in 0 .. w - 1 /\ v0 = low + r
    BY <1>5
  <2>. HIDE DEF k, r, v0
  <2>2. v0 \in low .. low + w - 1
    BY <1>2, <2>1
  <2>. QED BY <1>3, <2>2
<1>7. (v0 - value) % w = 0
  <2>. DEFINE q == k \div w
              r == k % w
  <2>1. q \in Int /\ r \in 0 .. w - 1 /\ k = q * w + r /\ v0 = low + r
    BY <1>5
  <2>2. k = value - low
    OBVIOUS
  <2>. HIDE DEF q, r, k, v0
  <2>3. (-q) * w = -(q * w) /\ q * w \in Int /\ -q \in Int
    BY <1>2, <2>1, SMT
  <2>4. v0 - value = (-q) * w + 0
    BY <1>2, <2>1, <2>2, <2>3
  <2>5. 0 \in 0 .. w - 1
    BY <1>2
  <2>6. ((-q) * w + 0) % w = 0
    BY ONLY <1>2, <2>3, <2>5, OneRemainder
  <2>. QED BY ONLY <2>4, <2>6
<1>8. /\ Cast(value, to) \in RangeOf(to) /\ (Cast(value, to) - value) % w = 0
  <2>1. Cast(value, to) = CHOOSE v \in RangeOf(to) : (v - value) % w = 0
    BY DEF Cast, w
  <2>. HIDE DEF v0
  <2>. QED BY <1>6, <1>7, <2>1
<1>9. ASSUME NEW u \in RangeOf(to), NEW v \in RangeOf(to), (u - value) % w = 0, (v - value) % w = 0
      PROVE  u = v
  <2>1. u \in Int /\ v \in Int /\ u - value \in Int /\ v - value \in Int
    BY <1>2, <1>3
  <2>. DEFINE p == (u - value) \div w
              q == (v - value) \div w
  <2>2. p \in Int /\ u - value = p * w + ((u - value) % w)
    <3>. DEFINE x == u - value
    <3>. HIDE DEF x
    <3>1. x \in Int
      BY <2>1 DEF x
    <3>2. x \div w \in Int /\ x = (x \div w) * w + (x % w)
      BY ONLY <1>2, <3>1, DividesInt
    <3>. QED BY <3>2 DEF x
  <2>3. q \in Int /\ v - value = q * w + ((v - value) % w)
    <3>. DEFINE x == v - value
    <3>. HIDE DEF x
    <3>1. x \in Int
      BY <2>1 DEF x
    <3>2. x \div w \in Int /\ x = (x \div w) * w + (x % w)
      BY ONLY <1>2, <3>1, DividesInt
    <3>. QED BY <3>2 DEF x
  <2>. HIDE DEF p, q
  <2>4. /\ (p - q) * w = p * w - q * w /\ (q - p) * w = q * w - p * w
        /\ p * w \in Int /\ q * w \in Int /\ p - q \in Int /\ q - p \in Int
    BY <1>2, <2>2, <2>3, Multiples, AddMultiples
  <2>5. u - v = (p - q) * w /\ v - u = (q - p) * w
    BY <1>9, <2>1, <2>2, <2>3, <2>4
  <2>6. u - v < w /\ v - u < w
    BY <1>2, <1>3
  <2>7. ~(u - v > 0)
    BY <1>2, <2>4, <2>5, <2>6, NoMultipleBelow
  <2>8. ~(v - u > 0)
    BY <1>2, <2>4, <2>5, <2>6, NoMultipleBelow
  <2>. QED BY <2>1, <2>7, <2>8
<1>. QED BY <1>8, <1>9 DEF w

(* A value within the range of the class it is cast to is not changed.     *)
LEMMA CastKeeps ==
  ASSUME NEW to \in Integral, NEW value \in RangeOf(to)
  PROVE  Cast(value, to) = value
<1>1. value \in Int /\ value - value = 0
  BY HalfFacts DEF RangeOf
<1>2. Half[to] \in Nat /\ Half[to] > 1
  BY HalfFacts
<1>3. 0 % (2 * Half[to]) = 0
  <2>. DEFINE w == 2 * Half[to]
  <2>1. w \in Nat \ {0} /\ 0 \in Int /\ 0 \in 0 .. w - 1 /\ 0 * w + 0 = 0
    BY <1>2
  <2>. HIDE DEF w
  <2>2. (0 * w + 0) % w = 0
    BY ONLY <2>1, OneRemainder
  <2>. QED BY ONLY <2>1, <2>2 DEF w
<1>4. (value - value) % (2 * Half[to]) = 0
  BY <1>1, <1>3
<1>. QED BY <1>1, <1>4, CastFacts

(* What a class has no assertion for fits, but for one conversion.         *)
LEMMA UnassertedFits ==
  ASSUME NEW n, Valued(n), NEW to \in Integral, to \notin Asserted(n.class)
  PROVE  n.value \in RangeOf(to) \/ (to = "Int64" /\ n.class = "UnsignedInt64")
<1>. DEFINE a == Half["Int16"]
            b == Half["Int32"]
            c == Half["Int64"]
<1>1. /\ RangeOf("Int16") = -a .. a - 1 /\ RangeOf("UnsignedInt16") = 0 .. 2 * a - 1
      /\ RangeOf("Int32") = -b .. b - 1 /\ RangeOf("UnsignedInt32") = 0 .. 2 * b - 1
      /\ RangeOf("Int64") = -c .. c - 1 /\ RangeOf("UnsignedInt64") = 0 .. 2 * c - 1
      /\ a \in Nat /\ b \in Nat /\ c \in Nat /\ 1 < a /\ 2 * a <= b /\ 2 * b <= c
  BY RangeFacts
<1>2. to \in {"Int16", "Int32", "Int64", "UnsignedInt16", "UnsignedInt32", "UnsignedInt64"}
  BY DEF Integral, Signed
<1>. HIDE DEF a, b, c
<1>3. CASE n.class \in {"Zero", "Bool"}
  <2>1. n.class \notin Integral
    BY <1>3 DEF Integral, Signed
  <2>2. n.value \in {0, 1}
    BY <1>3, <2>1 DEF Valued
  <2>. QED BY <1>1, <1>2, <2>2
<1>4. CASE n.class = "Int16"
  <2>1. n.value \in RangeOf("Int16")
    BY <1>4 DEF Valued
  <2>2. to \in {"Int16", "Int32", "Int64"}
    BY <1>2, <1>4 DEF Asserted, AssertedInt16
  <2>. QED BY <1>1, <2>1, <2>2
<1>5. CASE n.class = "UnsignedInt16"
  <2>1. n.value \in RangeOf("UnsignedInt16")
    BY <1>5 DEF Valued
  <2>2. to # "Int16"
    BY <1>5 DEF Asserted, AssertedUnsignedInt16
  <2>. QED BY <1>1, <1>2, <2>1, <2>2
<1>6. CASE n.class = "Int32"
  <2>1. n.value \in RangeOf("Int32")
    BY <1>6 DEF Valued
  <2>2. to \in {"Int32", "Int64"}
    BY <1>2, <1>6 DEF Asserted, AssertedInt32
  <2>. QED BY <1>1, <2>1, <2>2
<1>7. CASE n.class = "UnsignedInt32"
  <2>1. n.value \in RangeOf("UnsignedInt32")
    BY <1>7 DEF Valued
  <2>2. to \in {"UnsignedInt32", "Int64", "UnsignedInt64"}
    BY <1>2, <1>7 DEF Asserted, AssertedUnsignedInt32
  <2>. QED BY <1>1, <2>1, <2>2
<1>8. CASE n.class = "Int64"
  <2>1. n.value \in RangeOf("Int64")
    BY <1>8 DEF Valued
  <2>2. to = "Int64"
    BY <1>2, <1>8 DEF Asserted, AssertedInt64
  <2>. QED BY <2>1, <2>2
<1>9. CASE n.class = "UnsignedInt64"
  <2>1. n.value \in RangeOf("UnsignedInt64")
    BY <1>9 DEF Valued
  <2>2. to \in {"Int64", "UnsignedInt64"}
    BY <1>2, <1>9 DEF Asserted, AssertedUnsignedInt64
  <2>. QED BY <1>9, <2>1, <2>2
<1>10. n.class \in {"Zero", "Bool", "Int16", "UnsignedInt16", "Int32", "UnsignedInt32", "Int64", "UnsignedInt64"}
  BY DEF Valued, Integral, Signed
<1>. QED BY <1>3, <1>4, <1>5, <1>6, <1>7, <1>8, <1>9, <1>10

(* A conversion answers with the value, or with nothing when it does not   *)
(* fit; the one that is neither answers below zero.                        *)
LEMMA ConvertFacts ==
  ASSUME NEW n, Valued(n), NEW to \in Integral
  PROVE  \/ Convert(n, to) = {n.value} \cap RangeOf(to)
         \/ /\ to = "Int64" /\ n.class = "UnsignedInt64" /\ n.value \notin RangeOf("Int64")
            /\ \E v \in RangeOf("Int64") : v < 0 /\ Convert(n, to) = {v}
<1>1. CASE to \in Asserted(n.class)
  BY <1>1 DEF Convert
<1>2. CASE to \notin Asserted(n.class) /\ n.value \in RangeOf(to)
  <2>1. Convert(n, to) = {n.value}
    BY <1>2, CastKeeps DEF Convert
  <2>. QED BY <1>2, <2>1
<1>3. CASE to \notin Asserted(n.class) /\ n.value \notin RangeOf(to)
  <2>. DEFINE c == Half["Int64"]
              v == Cast(n.value, to)
  <2>1. to = "Int64" /\ n.class = "UnsignedInt64"
    BY <1>3, UnassertedFits
  <2>2. n.value \in RangeOf("UnsignedInt64")
    BY <2>1 DEF Valued
  <2>3. /\ RangeOf("Int64") = -c .. c - 1 /\ RangeOf("UnsignedInt64") = 0 .. 2 * c - 1
        /\ c \in Nat /\ 1 < c
    BY RangeFacts
  <2>4. n.value \in Int
    BY <2>2, <2>3
  <2>5. v \in RangeOf("Int64") /\ \A u \in RangeOf(to) : (u - n.value) % (2 * Half[to]) = 0 => u = v
    BY <2>1, <2>4, CastFacts
  <2>6. Convert(n, to) = {v}
    BY <1>3 DEF Convert
  <2>. HIDE DEF c, v
  <2>7. n.value - 2 * c \in RangeOf("Int64") /\ n.value - 2 * c < 0
    BY <1>3, <2>1, <2>2, <2>3
  <2>8. ((n.value - 2 * c) - n.value) % (2 * c) = 0
    <3>. DEFINE w == 2 * c
    <3>1. w \in Nat \ {0} /\ -1 \in Int /\ 0 \in 0 .. w - 1
      BY <2>3
    <3>2. (n.value - 2 * c) - n.value = (-1) * w + 0
      BY <2>3, <2>4
    <3>. HIDE DEF w
    <3>3. ((-1) * w + 0) % w = 0
      BY ONLY <3>1, OneRemainder
    <3>. QED BY ONLY <3>2, <3>3 DEF w
  <2>9. n.value - 2 * c = v
    BY <2>1, <2>5, <2>7, <2>8 DEF c
  <2>. QED BY <1>3, <2>1, <2>5, <2>6, <2>7, <2>9
<1>. QED BY <1>1, <1>2, <1>3

(* Of one value one answer.                                                *)
LEMMA Answers ==
  ASSUME NEW x, NEW y
  PROVE  {x = v : v \in {y}} = {x = y} /\ {v >= 0 /\ x = v : v \in {y}} = {y >= 0 /\ x = y}
  OBVIOUS

(* The literals are numbers of each class.                                 *)
LEMMA LiteralFacts ==
  /\ \A c \in Integral : \A v \in RangeOf(c) : Valued(NumberWith(c, v))
  /\ \A b \in BOOLEAN : Valued(NumberWithBool(b))
  /\ \A m \in Literals : Valued(m)
<1>1. ASSUME NEW c \in Integral, NEW v \in RangeOf(c) PROVE Valued(NumberWith(c, v))
  BY DEF Valued, NumberWith
<1>2. ASSUME NEW b \in BOOLEAN PROVE Valued(NumberWithBool(b))
  BY DEF Valued, NumberWithBool
<1>3. ASSUME NEW m \in Literals PROVE Valued(m)
  <2>1. (\E c \in Integral : \E v \in RangeOf(c) : m = NumberWith(c, v)) \/ (\E b \in BOOLEAN : m = NumberWithBool(b))
    <3>1. (\E c \in Integral : m \in LiteralsOf(c)) \/ m \in BoolLiterals
      BY <1>3 DEF Literals
    <3>2. \A c \in Integral : \A e \in LiteralsOf(c) : \E v \in RangeOf(c) : e = NumberWith(c, v)
      BY DEF LiteralsOf
    <3>3. \A e \in BoolLiterals : \E b \in BOOLEAN : e = NumberWithBool(b)
      BY DEF BoolLiterals
    <3>. QED BY <3>1, <3>2, <3>3
  <2>. QED BY <1>1, <1>2, <2>1
<1>. QED BY <1>1, <1>2, <1>3

(* A number that has a class is within the widest ranges.                  *)
LEMMA ValuedFacts ==
  ASSUME NEW n, Valued(n)
  PROVE  /\ n.value \in Int
         /\ n.value \in RangeOf("Int64") \/ n.class = "UnsignedInt64"
         /\ n.value >= 0 => n.value \in RangeOf("UnsignedInt64")
         /\ n.class \notin Signed => n.value >= 0
         /\ n.class \in {"Zero", "Bool", "UnsignedInt16", "UnsignedInt32"} => n.value < Half["Int64"]
         /\ n.value \notin RangeOf("Int64") => n.value >= Half["Int64"]
<1>. DEFINE a == Half["Int16"]
            b == Half["Int32"]
            c == Half["Int64"]
<1>1. /\ RangeOf("Int16") = -a .. a - 1 /\ RangeOf("UnsignedInt16") = 0 .. 2 * a - 1
      /\ RangeOf("Int32") = -b .. b - 1 /\ RangeOf("UnsignedInt32") = 0 .. 2 * b - 1
      /\ RangeOf("Int64") = -c .. c - 1 /\ RangeOf("UnsignedInt64") = 0 .. 2 * c - 1
      /\ a \in Nat /\ b \in Nat /\ c \in Nat /\ 1 < a /\ 2 * a <= b /\ 2 * b <= c
  BY RangeFacts
<1>. HIDE DEF a, b, c
<1>2. \/ n.class \in {"Zero", "Bool"} /\ n.value \in {0, 1}
      \/ n.class = "Int16" /\ n.value \in RangeOf("Int16")
      \/ n.class = "UnsignedInt16" /\ n.value \in RangeOf("UnsignedInt16")
      \/ n.class = "Int32" /\ n.value \in RangeOf("Int32")
      \/ n.class = "UnsignedInt32" /\ n.value \in RangeOf("UnsignedInt32")
      \/ n.class = "Int64" /\ n.value \in RangeOf("Int64")
      \/ n.class = "UnsignedInt64" /\ n.value \in RangeOf("UnsignedInt64")
  BY DEF Valued, Integral, Signed
<1>3. /\ n.value \in Int
      /\ n.value \in RangeOf("Int64") \/ n.class = "UnsignedInt64"
      /\ n.value >= 0 => n.value \in RangeOf("UnsignedInt64")
  BY <1>1, <1>2
<1>4. n.class \notin Signed => n.value >= 0
  BY <1>1, <1>2 DEF Signed
<1>5. n.class \in {"Zero", "Bool", "UnsignedInt16", "UnsignedInt32"} => n.value < c
  BY <1>1, <1>2
<1>6. n.value \notin RangeOf("Int64") => n.value >= c
  BY <1>1, <1>2
<1>. QED BY <1>3, <1>4, <1>5, <1>6 DEF c

(* The signed and the unsigned value of a number, by the sign and the      *)
(* width of what it is.                                                    *)
LEMMA WidestValues ==
  ASSUME NEW m, Valued(m)
  PROVE  /\ m.value >= 0 => Convert(m, "UnsignedInt64") = {m.value}
         /\ m.value < 0 => Convert(m, "UnsignedInt64") = {}
         /\ m.value \in RangeOf("Int64") => Convert(m, "Int64") = {m.value}
         /\ m.value \notin RangeOf("Int64") =>
              m.class = "UnsignedInt64" /\ \E v \in Int : v < 0 /\ Convert(m, "Int64") = {v}
<1>. DEFINE c == Half["Int64"]
<1>1. "UnsignedInt64" \in Integral /\ "Int64" \in Integral /\ "UnsignedInt64" # "Int64"
  BY DEF Integral, Signed
<1>2. /\ RangeOf("Int64") = -c .. c - 1 /\ RangeOf("UnsignedInt64") = 0 .. 2 * c - 1 /\ c \in Nat
  BY RangeFacts
<1>. HIDE DEF c
<1>3. Convert(m, "UnsignedInt64") = {m.value} \cap RangeOf("UnsignedInt64")
  BY <1>1, ConvertFacts
<1>4. \/ Convert(m, "Int64") = {m.value} \cap RangeOf("Int64")
      \/ m.value \notin RangeOf("Int64") /\ \E v \in RangeOf("Int64") : v < 0 /\ Convert(m, "Int64") = {v}
  BY <1>1, ConvertFacts
<1>5. m.value \notin RangeOf("Int64") => m.class = "UnsignedInt64"
  BY ValuedFacts
<1>6. m.value >= 0 => Convert(m, "UnsignedInt64") = {m.value}
  BY <1>3, ValuedFacts
<1>7. m.value < 0 => Convert(m, "UnsignedInt64") = {}
  <2>1. m.value < 0 => m.value \notin RangeOf("UnsignedInt64")
    BY <1>2
  <2>. QED BY <1>3, <2>1
<1>8. m.value \in RangeOf("Int64") => Convert(m, "Int64") = {m.value}
  BY <1>4
<1>9. ASSUME m.value \notin RangeOf("Int64") PROVE \E v \in Int : v < 0 /\ Convert(m, "Int64") = {v}
  <2>1. "Int64" \notin Asserted(m.class)
    BY <1>5, <1>9 DEF Asserted, AssertedUnsignedInt64
  <2>2. Convert(m, "Int64") = {Cast(m.value, "Int64")}
    BY <2>1 DEF Convert
  <2>3. Convert(m, "Int64") # {m.value} \cap RangeOf("Int64")
    BY <1>9, <2>2
  <2>. QED BY <1>2, <1>4, <2>3
<1>. QED BY <1>5, <1>6, <1>7, <1>8, <1>9

(* One number asked whether it equals another.                             *)
LEMMA EqualFacts ==
  ASSUME NEW n, Valued(n), NEW m, Valued(m)
  PROVE  IF IsEqual(n, m) = {} THEN n.class \in Signed /\ n.value >= 0 /\ m.value < 0
         ELSE \/ IsEqual(n, m) = {n.value = m.value}
              \/ n.value < 0 /\ m.value \notin RangeOf("Int64")
<1>. DEFINE x == n.value
            y == m.value
            wide == y \notin RangeOf("Int64")
            S == Convert(m, "Int64")
            U == Convert(m, "UnsignedInt64")
<1>1. x \in Int /\ y \in Int /\ (n.class \notin Signed => x >= 0)
  BY ValuedFacts
<1>2. (y >= 0 => U = {y}) /\ (y < 0 => U = {}) /\ (~wide => S = {y})
      /\ (wide => m.class = "UnsignedInt64" /\ \E v \in Int : v < 0 /\ S = {v})
  BY WidestValues
<1>3. wide => y >= Half["Int64"] /\ y >= 0
  <2>1. Half["Int64"] \in Nat
    BY RangeFacts
  <2>. QED BY <1>1, <2>1, ValuedFacts
<1>4. n.class \in {"Zero", "Bool", "UnsignedInt16", "UnsignedInt32"} => (wide => x # y)
  <2>1. n.class \in {"Zero", "Bool", "UnsignedInt16", "UnsignedInt32"} => x < Half["Int64"]
    BY ValuedFacts
  <2>2. Half["Int64"] \in Nat
    BY RangeFacts
  <2>. HIDE DEF wide, x, y
  <2>. QED BY <1>1, <1>3, <2>1, <2>2
<1>5. n.class \in Integral \cup {"Zero", "Bool"}
  BY DEF Valued
<1>6. CASE n.class = m.class
  <2>1. IsEqual(n, m) = {x = y}
    BY <1>6 DEF IsEqual
  <2>. QED BY <2>1
<1>7. CASE n.class # m.class /\ n.class \in Signed
  <2>1. IsEqual(n, m) = EqualSigned(n, m)
    <3>1. n.class \notin {"UnsignedInt16", "UnsignedInt32", "UnsignedInt64", "Zero", "Bool"}
      BY <1>7 DEF Signed
    <3>. QED BY <1>7, <3>1 DEF IsEqual
  <2>2. CASE x >= 0
    <3>1. IsEqual(n, m) = {x = v : v \in U}
      BY <2>1, <2>2 DEF EqualSigned
    <3>2. CASE y >= 0
      <4>1. IsEqual(n, m) = {x = y}
        BY <1>2, <3>1, <3>2, Answers
      <4>. QED BY <4>1
    <3>3. CASE y < 0
      <4>1. IsEqual(n, m) = {}
        BY <1>2, <3>1, <3>3
      <4>. QED BY <1>7, <2>2, <3>3, <4>1
    <3>. QED BY <1>1, <3>2, <3>3
  <2>3. CASE x < 0
    <3>1. IsEqual(n, m) = {x = v : v \in S}
      BY <1>1, <2>1, <2>3 DEF EqualSigned
    <3>2. CASE ~wide
      <4>1. IsEqual(n, m) = {x = y}
        BY <1>2, <3>1, <3>2, Answers
      <4>. QED BY <4>1
    <3>3. CASE wide
      <4>1. PICK v : S = {v}
        BY <1>2, <3>3
      <4>2. IsEqual(n, m) = {x = v}
        BY <3>1, <4>1, Answers
      <4>. QED BY <2>3, <3>3, <4>2
    <3>. QED BY <3>2, <3>3
  <2>. QED BY <1>1, <2>2, <2>3
<1>8. CASE n.class # m.class /\ n.class = "UnsignedInt16"
  <2>1. IsEqual(n, m) = EqualUnsigned16(n, m) /\ x >= 0 /\ "UnsignedInt16" \notin Signed
    BY <1>1, <1>8 DEF IsEqual, Signed
  <2>2. CASE wide
    <3>1. IsEqual(n, m) = {FALSE}
      BY <1>2, <2>1, <2>2 DEF EqualUnsigned16
    <3>2. (x = y) = FALSE
      BY <1>4, <1>8, <2>2
    <3>. QED BY <3>1, <3>2
  <2>3. CASE ~wide /\ y < 0
    <3>1. IsEqual(n, m) = {FALSE}
      BY <1>2, <2>1, <2>3 DEF EqualUnsigned16
    <3>2. (x = y) = FALSE
      BY <1>1, <2>1, <2>3
    <3>. QED BY <3>1, <3>2
  <2>4. CASE ~wide /\ y >= 0
    <3>1. S = {y} /\ ~\E v \in S : v < 0
      BY <1>1, <1>2, <2>4
    <3>2. IsEqual(n, m) = {x = v : v \in U}
      BY <2>1, <3>1 DEF EqualUnsigned16
    <3>3. IsEqual(n, m) = {x = y}
      BY <1>2, <2>4, <3>2, Answers
    <3>. QED BY <3>3
  <2>. QED BY <1>1, <2>2, <2>3, <2>4
<1>9. CASE n.class # m.class /\ n.class \in {"UnsignedInt32", "UnsignedInt64"}
  <2>1. IsEqual(n, m) = {v >= 0 /\ x = v : v \in S} /\ x >= 0
    <3>1. n.class \notin Signed /\ n.class # "UnsignedInt16"
      BY <1>9 DEF Signed
    <3>2. IsEqual(n, m) = EqualUnsigned(n, m)
      BY <1>9, <3>1 DEF IsEqual
    <3>. QED BY <1>1, <3>1, <3>2 DEF EqualUnsigned
  <2>2. CASE wide
    <3>1. PICK v \in Int : v < 0 /\ S = {v}
      BY <1>2, <2>2
    <3>2. IsEqual(n, m) = {v >= 0 /\ x = v}
      BY <2>1, <3>1, Answers
    <3>3. (v >= 0 /\ x = v) = FALSE
      BY <3>1
    <3>4. (x = y) = FALSE
      BY <1>2, <1>4, <1>9, <2>2
    <3>. QED BY <3>2, <3>3, <3>4
  <2>3. CASE ~wide
    <3>1. IsEqual(n, m) = {y >= 0 /\ x = y}
      BY <1>2, <2>1, <2>3, Answers
    <3>2. (y >= 0 /\ x = y) = (x = y)
      BY <1>1, <2>1
    <3>. QED BY <3>1, <3>2
  <2>. QED BY <2>2, <2>3
<1>10. CASE n.class # m.class /\ n.class \in {"Zero", "Bool"}
  <2>1. IsEqual(n, m) = {x = v : v \in S} /\ x >= 0
    <3>1. n.class \notin Signed /\ n.class \notin {"UnsignedInt16", "UnsignedInt32", "UnsignedInt64"}
      BY <1>10 DEF Signed
    <3>2. IsEqual(n, m) = EqualBool(n, m)
      BY <1>10, <3>1 DEF IsEqual
    <3>. QED BY <1>1, <3>1, <3>2 DEF EqualBool
  <2>2. CASE wide
    <3>1. PICK v \in Int : v < 0 /\ S = {v}
      BY <1>2, <2>2
    <3>2. IsEqual(n, m) = {x = v}
      BY <2>1, <3>1, Answers
    <3>3. (x = v) = FALSE
      BY <1>1, <2>1, <3>1
    <3>4. (x = y) = FALSE
      BY <1>4, <1>10, <2>2
    <3>. QED BY <3>2, <3>3, <3>4
  <2>3. CASE ~wide
    <3>1. IsEqual(n, m) = {x = y}
      BY <1>2, <2>1, <2>3, Answers
    <3>. QED BY <3>1
  <2>. QED BY <2>2, <2>3
<1>. QED BY <1>5, <1>6, <1>7, <1>8, <1>9, <1>10 DEF Integral

(* The invariant holds before there is a number.                           *)
LEMMA NumbersStart == NumbersInit => NumbersInv
  BY DEF NumbersInit, NumbersInv, NoNumber

(* Taking a number keeps the invariant.                                    *)
LEMMA TakeKeeps ==
  ASSUME NumbersInv, NEW n, Valued(n), Take(n),
         n \in [class : Integral \cup {"Zero", "Bool"}, value : Int, kept : BOOLEAN]
  PROVE  NumbersInv'
<1>1. shared' \in [Singles -> {"nil", "live", "freed"}]
  BY DEF NumbersInv, Take, Made
<1>2. number' = n /\ n \in [class : Integral \cup {"Zero", "Bool", "none"}, value : Int, kept : BOOLEAN]
  BY DEF Take
<1>. QED BY <1>1, <1>2 DEF NumbersInv, Valued

(* Every step of the numbers keeps the invariant.                          *)
LEMMA NumbersKept == NumbersInv /\ [NumbersStep]_numVars => NumbersInv'
<1>. SUFFICES ASSUME NumbersInv, [NumbersStep]_numVars PROVE NumbersInv'
  OBVIOUS
<1>1. /\ shared \in [Singles -> {"nil", "live", "freed"}]
      /\ number \in [class : Integral \cup {"Zero", "Bool", "none"}, value : Int, kept : BOOLEAN]
      /\ number = NoNumber \/ Valued(number)
  BY DEF NumbersInv
<1>2. ASSUME NEW c \in Integral, NEW v \in RangeOf(c), Take(NumberWith(c, v)) PROVE NumbersInv'
  <2>1. v \in Int
    BY HalfFacts DEF RangeOf
  <2>2. NumberWith(c, v) \in [class : Integral \cup {"Zero", "Bool"}, value : Int, kept : BOOLEAN]
    BY <2>1 DEF NumberWith
  <2>. QED BY <1>2, <2>2, LiteralFacts, TakeKeeps
<1>3. ASSUME NEW b \in BOOLEAN, Take(NumberWithBool(b)) PROVE NumbersInv'
  <2>1. NumberWithBool(b) \in [class : Integral \cup {"Zero", "Bool"}, value : Int, kept : BOOLEAN]
    BY DEF NumberWithBool
  <2>. QED BY <1>3, <2>1, LiteralFacts, TakeKeeps
<1>4. CASE RetainNumber
  <2>1. number # NoNumber /\ number' = [number EXCEPT !.kept = TRUE] /\ shared' = shared
    BY <1>4 DEF RetainNumber
  <2>2. number' \in [class : Integral \cup {"Zero", "Bool", "none"}, value : Int, kept : BOOLEAN]
        /\ number'.class = number.class /\ number'.value = number.value
    BY <1>1, <2>1
  <2>3. Valued(number)'
    BY <1>1, <2>1, <2>2 DEF Valued
  <2>. QED BY <1>1, <2>1, <2>2, <2>3 DEF NumbersInv
<1>5. CASE DrainPool
  <2>1. number' = IF number.kept THEN number ELSE NoNumber
    BY <1>5 DEF DrainPool
  <2>2. shared' \in [Singles -> {"nil", "live", "freed"}]
    BY <1>1, <1>5 DEF DrainPool
  <2>3. NoNumber \in [class : Integral \cup {"Zero", "Bool", "none"}, value : Int, kept : BOOLEAN]
    BY DEF NoNumber
  <2>4. CASE number.kept
    BY <1>1, <2>1, <2>2, <2>4 DEF NumbersInv, Valued
  <2>5. CASE ~number.kept
    BY <2>1, <2>2, <2>3, <2>5 DEF NumbersInv
  <2>. QED BY <2>4, <2>5
<1>6. CASE UNCHANGED numVars
  BY <1>1, <1>6 DEF numVars, NumbersInv, Valued
<1>. QED BY <1>2, <1>3, <1>4, <1>5, <1>6 DEF NumbersStep

(* Numbers of the invariant compare and convert exactly.                   *)
LEMMA NumbersExact == NumbersInv => EqualMeansSame /\ ConvertExact
<1>. SUFFICES ASSUME NumbersInv PROVE EqualMeansSame /\ ConvertExact
  OBVIOUS
<1>1. number # NoNumber => Valued(number)
  BY DEF NumbersInv
<1>2. ASSUME number # NoNumber, NEW m \in Literals
      PROVE  IF IsEqual(number, m) = {} THEN number.class \in Signed /\ number.value >= 0 /\ m.value < 0
             ELSE \/ IsEqual(number, m) = {number.value = m.value}
                  \/ number.value < 0 /\ m.value \notin RangeOf("Int64")
  BY <1>1, <1>2, LiteralFacts, EqualFacts
<1>3. EqualMeansSame
  BY <1>2 DEF EqualMeansSame
<1>4. ASSUME number # NoNumber, NEW to \in Integral
      PROVE  \/ Convert(number, to) = {number.value} \cap RangeOf(to)
             \/ to = "Int64" /\ number.class = "UnsignedInt64" /\ number.value \notin RangeOf("Int64")
  BY <1>1, <1>4, ConvertFacts
<1>5. ConvertExact
  BY <1>4 DEF ConvertExact
<1>. QED BY <1>3, <1>5

(* NXNumber and its subclasses: the number that the application has is one *)
(* of a class and within its range, for any widths that double.            *)
THEOREM NumbersInvariant == NumbersSpec => []NumbersInv
<1>1. NumbersInit => NumbersInv
  BY NumbersStart
<1>2. NumbersInv /\ [NumbersStep]_numVars => NumbersInv'
  BY NumbersKept
<1>. QED BY <1>1, <1>2, PTL DEF NumbersSpec

(* Both invariants are the types.                                          *)
LEMMA TypesOfValues == DatesInv /\ NumbersInv => ValuesTypeOK
<1>. SUFFICES ASSUME DatesInv, NumbersInv PROVE ValuesTypeOK
  OBVIOUS
<1>1. DatesTypes
  BY DatesExact
<1>2. shared \in [Singles -> {"nil", "live", "freed"}] /\ number.kept \in BOOLEAN
  BY DEF NumbersInv
<1>3. \/ number.class \in Integral /\ number.value \in RangeOf(number.class) \ {0}
      \/ number.class \in {"Zero", "none"} /\ number.value = 0
      \/ number.class = "Bool" /\ number.value \in {0, 1}
  <2>1. CASE number = NoNumber
    BY <2>1 DEF NoNumber
  <2>2. CASE Valued(number)
    BY <2>2 DEF Valued
  <2>. QED BY <2>1, <2>2 DEF NumbersInv
<1>. QED BY <1>1, <1>2, <1>3 DEF ValuesTypeOK, DatesTypes

(* NXDate.m, NXNumber.m: dates and numbers keep their value through any    *)
(* sequence of operations and conversions, for any scale of time, calendar,*)
(* intervals and widths.                                                   *)
THEOREM ValuesAreExact == DatesSpec /\ NumbersSpec => ValuesExact
<1>1. DatesInv /\ NumbersInv =>
        ValuesTypeOK /\ InstantKept /\ ShowsInstant /\ ComparesRight /\ ClockWithin
  BY DatesExact, TypesOfValues
<1>2. NumbersInv => EqualMeansSame /\ ConvertExact
  BY NumbersExact
<1>3. DatesSpec => []DatesInv
  BY DatesInvariant
<1>4. NumbersSpec => []NumbersInv
  BY NumbersInvariant
<1>5. DatesSpec => SettersKeepTheRest
  BY SettersKeepTheRestAlways
<1>. QED BY <1>1, <1>2, <1>3, <1>4, <1>5, PTL DEF ValuesExact
=============================================================================
