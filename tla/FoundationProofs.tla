--------------------------- MODULE FoundationProofs --------------------------
(***************************************************************************)
(* TLAPS proofs about parts of Foundation: the chain of tables of a map,   *)
(* for any keys, values and size of a table; the main function with the    *)
(* signals that interrupt it; the Objective-C runtime, for any classes,    *)
(* categories, protocols and size of its tables; strings and data, for any *)
(* texts; and the formats of printf, for any width of integers.            *)
(***************************************************************************)
EXTENDS Chain, Launch, Messages, Strings, WellFoundedInduction, FiniteSetTheorems, SequenceTheorems, TLAPS

-----------------------------------------------------------------------------
(* The least number of a set.                                              *)
LEMMA LeastFacts ==
  ASSUME NEW S, S \subseteq Nat, S # {}
  PROVE  Least(S) \in S /\ \A m \in S : Least(S) <= m
<1>. DEFINE R == OpToRel(<, Nat)
<1>1. IsWellFoundedOn(R, Nat)
  BY NatLessThanWellFounded
<1>2. \A k, l \in Nat : <<k, l>> \in R <=> k < l
  BY DEF OpToRel
<1>. HIDE DEF R
<1>3. PICK n \in S : \A k \in S : <<k, n>> \notin R
  BY <1>1, WFMin, Zenon
<1>4. \A k \in S : n <= k
  <2>. SUFFICES ASSUME NEW k \in S PROVE n <= k
    OBVIOUS
  <2>1. k \in Nat /\ n \in Nat /\ ~(k < n)
    BY <1>2, <1>3
  <2>. QED BY <2>1
<1>. QED BY <1>4 DEF Least

(* The quotient and the remainder.                                         *)
LEMMA Divides ==
  ASSUME NEW c \in Nat \ {0}, NEW n \in Nat
  PROVE  /\ n \div c \in Nat /\ n % c \in 0 .. c - 1
         /\ n = (n \div c) * c + (n % c)
  BY SMT

(* A multiple of c is not strictly between 0 and c.                        *)
LEMMA NoMultipleBelow ==
  ASSUME NEW c \in Nat \ {0}, NEW q \in Int, q * c < c, 0 < q * c
  PROVE  FALSE
<1>1. CASE q <= 0
  BY <1>1, SMT
<1>2. CASE q >= 1
  BY <1>2, SMT
<1>. QED BY <1>1, <1>2

(* A difference of multiples.                                              *)
LEMMA Multiples ==
  ASSUME NEW c \in Nat \ {0}, NEW p \in Int, NEW q \in Int
  PROVE  (p - q) * c = p * c - q * c
  BY SMT

(* The probes of a key go through every slot once.                         *)
LEMMA ProbesDiffer ==
  ASSUME NEW key \in Nat, NEW i \in Probes, NEW j \in Probes, At(key, i) = At(key, j)
  PROVE  i = j
<1>1. Slots \in Nat \ {0} /\ key + i \in Nat /\ key + j \in Nat /\ i \in 0 .. Slots - 1 /\ j \in 0 .. Slots - 1
  BY ChainAssumption DEF Probes
<1>2. PICK p \in Nat, q \in Nat, r \in Nat : key + i = p * Slots + r /\ key + j = q * Slots + r
  <2>1. (key + i) % Slots = (key + j) % Slots
    BY DEF At
  <2>2. /\ (key + i) \div Slots \in Nat /\ (key + i) % Slots \in 0 .. Slots - 1
        /\ key + i = ((key + i) \div Slots) * Slots + ((key + i) % Slots)
    BY ONLY <1>1, Divides
  <2>3. /\ (key + j) \div Slots \in Nat
        /\ key + j = ((key + j) \div Slots) * Slots + ((key + j) % Slots)
    BY ONLY <1>1, Divides
  <2>4. (key + i) % Slots \in Nat
    BY <1>1, <2>2
  <2>. QED BY <2>1, <2>2, <2>3, <2>4, Zenon
<1>3. (p - q) * Slots = i - j /\ (q - p) * Slots = j - i
  <2>1. p * Slots \in Int /\ q * Slots \in Int /\ (p - q) * Slots = p * Slots - q * Slots
        /\ (q - p) * Slots = q * Slots - p * Slots
    BY <1>1, Multiples
  <2>. QED BY <1>1, <1>2, <2>1
<1>4. CASE i > j
  <2>1. p - q \in Int /\ (p - q) * Slots < Slots /\ 0 < (p - q) * Slots
    BY <1>1, <1>3, <1>4
  <2>. QED BY <1>1, <2>1, NoMultipleBelow
<1>5. CASE j > i
  <2>1. q - p \in Int /\ (q - p) * Slots < Slots /\ 0 < (q - p) * Slots
    BY <1>1, <1>3, <1>5
  <2>. QED BY <1>1, <2>1, NoMultipleBelow
<1>. QED BY <1>1, <1>4, <1>5

(* A probe is a slot of the table.                                         *)
LEMMA ProbesInTable ==
  ASSUME NEW key \in Nat, NEW i \in Probes
  PROVE  At(key, i) \in Probes
<1>1. Slots \in Nat \ {0} /\ key + i \in Nat
  BY ChainAssumption DEF Probes
<1>. QED BY <1>1, Divides DEF At, Probes

(* A multiple and a rest.                                                  *)
LEMMA Remainder ==
  ASSUME NEW c \in Nat \ {0}, NEW q \in Nat, NEW r \in 0 .. c - 1
  PROVE  (q * c + r) % c = r /\ (q * c + r) \div c = q
<1>. DEFINE n == q * c + r
<1>1. n \in Nat
  BY SMT
<1>2. PICK p \in Nat, s \in 0 .. c - 1 : n = p * c + s /\ p = n \div c /\ s = n % c
  BY <1>1, Divides
<1>3. (p - q) * c = r - s /\ (q - p) * c = s - r /\ p - q \in Int /\ q - p \in Int
  BY <1>2, Multiples
<1>4. r = s
  BY <1>2, <1>3, NoMultipleBelow
<1>5. p = q
  BY <1>3, <1>4
<1>. QED BY <1>2, <1>4, <1>5

(* Every slot is a probe of every key.                                     *)
LEMMA ProbesReach ==
  ASSUME NEW key \in Nat, NEW s \in Probes
  PROVE  \E i \in Probes : At(key, i) = s
<1>. DEFINE h == key % Slots
<1>1. Slots \in Nat \ {0} /\ h \in 0 .. Slots - 1 /\ key \div Slots \in Nat
      /\ key = (key \div Slots) * Slots + h
  BY ChainAssumption, Divides
<1>2. CASE h <= s
  <2>1. s - h \in Probes /\ key + (s - h) = (key \div Slots) * Slots + s /\ s \in 0 .. Slots - 1
    BY <1>1, <1>2 DEF Probes
  <2>2. At(key, s - h) = s
    BY <1>1, <2>1, Remainder DEF At
  <2>. QED BY <2>1, <2>2
<1>3. CASE h > s
  <2>1. /\ (s - h) + Slots \in Probes /\ s \in 0 .. Slots - 1
        /\ key + ((s - h) + Slots) = (key \div Slots) * Slots + Slots + s
    BY <1>1, <1>3 DEF Probes
  <2>2. (key \div Slots + 1) * Slots = (key \div Slots) * Slots + Slots /\ key \div Slots + 1 \in Nat
    BY <1>1
  <2>3. ((key \div Slots + 1) * Slots + s) % Slots = s
    BY ONLY <1>1, <2>1, <2>2, Remainder
  <2>4. key + ((s - h) + Slots) = (key \div Slots + 1) * Slots + s
    BY ONLY <2>1, <2>2
  <2>5. At(key, (s - h) + Slots) = s
    BY ONLY <2>3, <2>4 DEF At
  <2>. QED BY <2>1, <2>5
<1>4. h \in Int /\ s \in Int
  BY <1>1 DEF Probes
<1>. QED BY <1>2, <1>3, <1>4

-----------------------------------------------------------------------------
(* An entry was never used, is live, or was deleted; and from where its    *)
(* hash says a search meets no unused slot before it finds it, and no      *)
(* second entry of the key.                                                *)
TableCell == [hash : Hashes \cup {0}, value : Pointers \cup {Null}, deleted : BOOLEAN]

GoodCell(e) == IF e.deleted \/ e.hash = 0 THEN e.value = Null ELSE e.value # Null

Met(t, key, i) == \A j \in 0 .. i - 1 : ~Vacancy(t, key, j) /\ ~Exact(t, key, j)

GoodTable(t) ==
  /\ t \in [Probes -> TableCell]
  /\ \A s \in Probes : GoodCell(t[s])
  /\ \A key \in Hashes, i \in Probes : Exact(t, key, i) => Met(t, key, i)

(* Where a table has a key.                                                *)
HasAt(t, key, s) == t[s].hash = key /\ ~t[s].deleted

(* A new table is in order.                                                *)
LEMMA NewTableGood == GoodTable(NewTable)
<1>1. NewTable \in [Probes -> TableCell] /\ \A s \in Probes : NewTable[s] = Never
  BY DEF NewTable, Never, TableCell, Probes
<1>2. ASSUME NEW key \in Hashes, NEW i \in Probes, Exact(NewTable, key, i) PROVE FALSE
  <2>1. At(key, i) \in Probes /\ key # 0
    BY ProbesInTable, ChainAssumption
  <2>. QED BY <1>1, <1>2, <2>1 DEF Exact, Never
<1>. QED BY <1>1, <1>2 DEF GoodTable, GoodCell, Never

(* A key is met by the search of its table exactly if the table has it,    *)
(* and then at one slot.                                                   *)
LEMMA FoundHas ==
  ASSUME NEW t, GoodTable(t), NEW key \in Hashes
  PROVE  /\ FoundIn(t, key) <=> \E s \in Probes : HasAt(t, key, s)
         /\ \A s, u \in Probes : HasAt(t, key, s) /\ HasAt(t, key, u) => s = u
         /\ \A s \in Probes : HasAt(t, key, s) =>
              At(key, Least({i \in Probes : Exact(t, key, i)})) = s
<1>1. key \in Nat /\ Probes \subseteq Nat
  BY ChainAssumption DEF Probes
<1>2. ASSUME NEW s \in Probes, HasAt(t, key, s)
      PROVE  \E i \in Probes : At(key, i) = s /\ Exact(t, key, i) /\ Met(t, key, i)
  <2>1. PICK i \in Probes : At(key, i) = s
    BY <1>1, ProbesReach
  <2>. QED BY <1>2, <2>1 DEF HasAt, Exact, GoodTable
<1>3. ASSUME NEW i \in Probes, NEW j \in Probes, Exact(t, key, i), Exact(t, key, j) PROVE i = j
  <2>1. Met(t, key, i) /\ Met(t, key, j)
    BY <1>3 DEF GoodTable
  <2>2. ~(i < j) /\ ~(j < i)
    BY <1>1, <1>3, <2>1 DEF Met
  <2>. QED BY <1>1, <2>2
<1>4. ASSUME NEW s \in Probes, NEW u \in Probes, HasAt(t, key, s), HasAt(t, key, u) PROVE s = u
  <2>1. PICK i \in Probes : At(key, i) = s /\ Exact(t, key, i)
    BY <1>2, <1>4
  <2>2. PICK j \in Probes : At(key, j) = u /\ Exact(t, key, j)
    BY <1>2, <1>4
  <2>. QED BY <1>3, <2>1, <2>2
<1>5. ASSUME NEW s \in Probes, HasAt(t, key, s)
      PROVE  At(key, Least({i \in Probes : Exact(t, key, i)})) = s
  <2>. DEFINE E == {i \in Probes : Exact(t, key, i)}
  <2>1. PICK i \in Probes : At(key, i) = s /\ Exact(t, key, i)
    BY <1>2, <1>5
  <2>2. E \subseteq Nat /\ E # {} /\ \A j \in E : j \in Probes /\ Exact(t, key, j)
    BY <1>1, <2>1
  <2>. HIDE DEF E
  <2>3. Least(E) \in E
    BY <2>2, LeastFacts
  <2>4. Least(E) = i
    BY <1>3, <2>1, <2>2, <2>3
  <2>. QED BY <2>1, <2>4 DEF E
<1>6. FoundIn(t, key) <=> \E s \in Probes : HasAt(t, key, s)
  <2>. DEFINE ends == {i \in Probes : Exact(t, key, i) \/ Vacancy(t, key, i)}
  <2>1. FoundIn(t, key) <=> ends # {} /\ Exact(t, key, Least(ends))
    BY DEF FoundIn
  <2>2. ends \subseteq Nat /\ \A i : i \in ends <=> i \in Probes /\ (Exact(t, key, i) \/ Vacancy(t, key, i))
    BY <1>1
  <2>. HIDE DEF ends
  <2>3. ends # {} => Least(ends) \in ends /\ \A m \in ends : Least(ends) <= m
    BY <2>2, LeastFacts
  <2>4. ASSUME FoundIn(t, key) PROVE \E s \in Probes : HasAt(t, key, s)
    <3>1. Least(ends) \in Probes /\ Exact(t, key, Least(ends))
      BY <2>1, <2>2, <2>3, <2>4
    <3>2. At(key, Least(ends)) \in Probes
      BY <1>1, <3>1, ProbesInTable
    <3>. QED BY <3>1, <3>2 DEF Exact, HasAt
  <2>5. ASSUME NEW s \in Probes, HasAt(t, key, s) PROVE FoundIn(t, key)
    <3>1. PICK i \in Probes : At(key, i) = s /\ Exact(t, key, i) /\ Met(t, key, i)
      BY <1>2, <2>5
    <3>2. i \in ends
      BY <2>2, <3>1
    <3>3. Least(ends) \in Probes /\ Least(ends) <= i /\ Least(ends) \in Nat /\ i \in Nat
      BY <1>1, <2>2, <2>3, <3>2
    <3>4. ~(Least(ends) < i)
      <4>1. ASSUME Least(ends) < i PROVE FALSE
        <5>1. Least(ends) \in 0 .. i - 1
          BY <3>3, <4>1
        <5>2. ~Vacancy(t, key, Least(ends)) /\ ~Exact(t, key, Least(ends))
          BY <3>1, <5>1 DEF Met
        <5>. QED BY <2>2, <2>3, <3>2, <5>2
      <4>. QED BY <4>1
    <3>5. Least(ends) = i
      BY <3>3, <3>4
    <3>. QED BY <2>1, <3>1, <3>2, <3>5
  <2>. QED BY <2>4, <2>5
<1>. QED BY <1>4, <1>5, <1>6

(* The slot a put takes: the key's entry, or a deleted or an unused slot   *)
(* that a search of the key meets before it ends.                          *)
LEMMA SlotFacts ==
  ASSUME NEW t, GoodTable(t), NEW key \in Hashes, FindSlot(t, key) # -1
  PROVE  \E i \in Probes :
           /\ FindSlot(t, key) = At(key, i) /\ Met(t, key, i)
           /\ \A j \in Probes : Exact(t, key, j) => j = i
           /\ \/ Exact(t, key, i)
              \/ t[At(key, i)].deleted
              \/ Vacancy(t, key, i)
<1>. DEFINE ends == {i \in Probes : Exact(t, key, i) \/ Vacancy(t, key, i)}
            last == IF ends = {} THEN Slots ELSE Least(ends)
            tombs == {i \in Probes : t[At(key, i)].deleted /\ i < last}
<1>1. key \in Nat /\ Probes \subseteq Nat /\ Slots \in Nat /\ \A i \in Probes : i < Slots
  BY ChainAssumption DEF Probes
<1>2. FindSlot(t, key) =
        IF last < Slots /\ Exact(t, key, last) THEN At(key, last)
        ELSE IF tombs # {} THEN At(key, Least(tombs))
        ELSE IF last < Slots THEN At(key, last) ELSE -1
  BY DEF FindSlot
<1>3. ends \subseteq Nat /\ \A i : i \in ends <=> i \in Probes /\ (Exact(t, key, i) \/ Vacancy(t, key, i))
  BY <1>1
<1>4. tombs \subseteq Nat /\ \A i : i \in tombs <=> i \in Probes /\ t[At(key, i)].deleted /\ i < last
  BY <1>1
<1>5. last = IF ends = {} THEN Slots ELSE Least(ends)
  OBVIOUS
<1>. HIDE DEF ends, tombs, last
<1>6. ends # {} => Least(ends) \in ends /\ \A m \in ends : Least(ends) <= m
  BY <1>3, LeastFacts
<1>7. last \in Nat /\ (last < Slots => last \in ends)
  BY <1>1, <1>3, <1>5, <1>6
<1>8. \A j \in Probes : j < last => ~Exact(t, key, j) /\ ~Vacancy(t, key, j)
  <2>. SUFFICES ASSUME NEW j \in Probes, j < last, j \in ends PROVE FALSE
    BY <1>3
  <2>1. Least(ends) <= j /\ last = Least(ends)
    BY <1>5, <1>6
  <2>. QED BY <1>1, <1>7, <2>1
<1>9. \A i \in Probes : i <= last => Met(t, key, i)
  <2>. SUFFICES ASSUME NEW i \in Probes, i <= last, NEW j \in 0 .. i - 1
                PROVE  ~Vacancy(t, key, j) /\ ~Exact(t, key, j)
    BY DEF Met
  <2>1. j \in Probes /\ j < last
    BY <1>1, <1>7 DEF Probes
  <2>. QED BY <1>8, <2>1
<1>10. \A j \in Probes : Exact(t, key, j) => j <= last /\ \A k \in Probes : Exact(t, key, k) => k = j
  <2>. SUFFICES ASSUME NEW j \in Probes, Exact(t, key, j)
                PROVE  j <= last /\ \A k \in Probes : Exact(t, key, k) => k = j
    OBVIOUS
  <2>1. \A k \in Probes : Exact(t, key, k) => k = j
    <3>. SUFFICES ASSUME NEW k \in Probes, Exact(t, key, k) PROVE k = j
      OBVIOUS
    <3>1. Met(t, key, j) /\ Met(t, key, k) /\ j \in Nat /\ k \in Nat
      BY <1>1 DEF GoodTable
    <3>2. ~(j < k) /\ ~(k < j)
      BY <3>1 DEF Met
    <3>. QED BY <3>1, <3>2
  <2>2. j \in ends
    BY <1>3
  <2>3. last \in Probes /\ (Exact(t, key, last) \/ Vacancy(t, key, last)) /\ last <= j
    BY <1>3, <1>5, <1>6, <2>2
  <2>4. Met(t, key, j) /\ j \in Nat
    BY <1>1 DEF GoodTable
  <2>5. ~(last < j)
    BY <1>1, <2>3, <2>4 DEF Met
  <2>. QED BY <1>7, <2>1, <2>4, <2>5
<1>11. CASE last < Slots /\ Exact(t, key, last)
  <2>1. last \in Probes
    BY <1>3, <1>7, <1>11
  <2>. QED BY <1>2, <1>7, <1>9, <1>10, <1>11, <2>1
<1>12. ~(last < Slots /\ Exact(t, key, last)) => \A j \in Probes : ~Exact(t, key, j)
  <2>. SUFFICES ASSUME ~(last < Slots /\ Exact(t, key, last)), NEW j \in Probes, Exact(t, key, j) PROVE FALSE
    OBVIOUS
  <2>1. j <= last /\ ~(j < last)
    BY <1>8, <1>10
  <2>2. j = last /\ j < Slots
    BY <1>1, <1>7, <2>1
  <2>. QED BY <2>2
<1>13. CASE ~(last < Slots /\ Exact(t, key, last)) /\ tombs # {}
  <2>1. Least(tombs) \in tombs
    BY <1>4, <1>13, LeastFacts
  <2>2. Least(tombs) \in Probes /\ t[At(key, Least(tombs))].deleted /\ Least(tombs) <= last
    <3>1. Least(tombs) \in Probes /\ t[At(key, Least(tombs))].deleted /\ Least(tombs) < last
      BY ONLY <1>4, <2>1
    <3>2. Least(tombs) \in Nat
      BY <1>1, <3>1
    <3>. QED BY ONLY <1>7, <3>1, <3>2
  <2>. QED BY <1>2, <1>9, <1>12, <1>13, <2>2
<1>14. CASE ~(last < Slots /\ Exact(t, key, last)) /\ tombs = {} /\ last < Slots
  <2>1. last \in Probes /\ Vacancy(t, key, last)
    BY <1>3, <1>7, <1>14
  <2>. QED BY <1>2, <1>7, <1>9, <1>12, <1>14, <2>1
<1>. QED BY <1>2, <1>11, <1>13, <1>14

(* A put makes a good table of a good one.                                 *)
Placed(t, key, v, s) == [t EXCEPT ![s] = [hash |-> key, value |-> v, deleted |-> FALSE]]

OtherEntries(t, u, key) ==
  \A k \in Hashes \ {key}, x \in Probes :
    /\ HasAt(u, k, x) <=> HasAt(t, k, x)
    /\ HasAt(t, k, x) => u[x].value = t[x].value

(* An entry put where a probe ends keeps its table in order.               *)
LEMMA PlacedGood ==
  ASSUME NEW t, GoodTable(t), NEW key \in Hashes, NEW v \in Pointers, NEW i \in Probes, Met(t, key, i),
         \A j \in Probes : Exact(t, key, j) => j = i,
         Exact(t, key, i) \/ t[At(key, i)].deleted \/ Vacancy(t, key, i)
  PROVE  LET s == At(key, i)
             u == Placed(t, key, v, s)
         IN /\ s \in Probes /\ GoodTable(u) /\ HasAt(u, key, s) /\ u[s].value = v
            /\ OtherEntries(t, u, key)
<1>. DEFINE s == At(key, i)
            new == [hash |-> key, value |-> v, deleted |-> FALSE]
            u == Placed(t, key, v, s)
<1>1. key \in Nat /\ key # 0 /\ Probes \subseteq Nat /\ Null \notin Pointers /\ 0 \notin Hashes
  BY ChainAssumption DEF Probes
<1>2. s \in Probes
  BY <1>1, ProbesInTable
<1>3. t \in [Probes -> TableCell] /\ \A x \in Probes : GoodCell(t[x])
  BY DEF GoodTable
<1>4. new \in TableCell /\ new.hash = key /\ new.value = v /\ new.deleted = FALSE /\ v # Null
  BY <1>1 DEF TableCell
<1>5. u \in [Probes -> TableCell] /\ u[s] = new /\ \A x \in Probes \ {s} : u[x] = t[x]
  BY <1>2, <1>3, <1>4 DEF Placed
<1>. HIDE DEF s, u, new
<1>6. HasAt(u, key, s) /\ u[s].value = v
  BY <1>4, <1>5 DEF HasAt
<1>7. \A k \in Hashes \ {key} : ~HasAt(t, k, s)
  <2>. SUFFICES ASSUME NEW k \in Hashes \ {key}, HasAt(t, k, s) PROVE FALSE
    OBVIOUS
  <2>1. t[s].hash = k /\ ~t[s].deleted /\ k # 0
    BY <1>1 DEF HasAt
  <2>2. t[s].value # Null
    BY <1>2, <1>3, <2>1 DEF GoodCell
  <2>3. Exact(t, key, i) => k = key
    BY <2>1 DEF Exact, s
  <2>. QED BY <2>1, <2>2, <2>3 DEF Vacancy, s
<1>8. OtherEntries(t, u, key)
  <2>. SUFFICES ASSUME NEW k \in Hashes \ {key}, NEW x \in Probes
                PROVE  /\ HasAt(u, k, x) <=> HasAt(t, k, x)
                       /\ HasAt(t, k, x) => u[x].value = t[x].value
    BY DEF OtherEntries
  <2>1. CASE x = s
    BY <1>4, <1>5, <1>7, <2>1 DEF HasAt
  <2>2. CASE x # s
    BY <1>5, <2>2 DEF HasAt
  <2>. QED BY <2>1, <2>2
<1>9. \A x \in Probes : GoodCell(u[x])
  BY <1>1, <1>3, <1>4, <1>5 DEF GoodCell
<1>10. ASSUME NEW k \in Hashes, NEW j \in Probes, Exact(u, k, j) PROVE Met(u, k, j)
  <2>1. k \in Nat /\ At(k, j) \in Probes /\ \A h \in 0 .. j - 1 : h \in Probes /\ At(k, h) \in Probes
    <3>1. k \in Nat
      BY ChainAssumption
    <3>2. \A h \in 0 .. j - 1 : h \in Probes
      BY ChainAssumption DEF Probes
    <3>. QED BY <3>1, <3>2, ProbesInTable
  <2>2. CASE k = key
    <3>1. j = i
      <4>1. CASE At(key, j) = s
        BY <1>1, <4>1, ProbesDiffer DEF s
      <4>2. CASE At(key, j) # s
        <5>1. Exact(t, key, j)
          BY <1>5, <1>10, <2>1, <2>2, <4>2 DEF Exact
        <5>. QED BY <5>1
      <4>. QED BY <4>1, <4>2
    <3>2. ASSUME NEW h \in 0 .. i - 1 PROVE ~Vacancy(u, key, h) /\ ~Exact(u, key, h)
      <4>1. h \in Probes /\ At(key, h) \in Probes /\ h # i
        BY <1>1, <2>1, <2>2, <3>1
      <4>2. At(key, h) # s
        BY <1>1, <4>1, ProbesDiffer DEF s
      <4>3. ~Vacancy(t, key, h) /\ ~Exact(t, key, h)
        BY DEF Met
      <4>. QED BY <1>5, <4>1, <4>2, <4>3 DEF Vacancy, Exact
    <3>. QED BY <2>2, <3>1, <3>2 DEF Met
  <2>3. CASE k # key
    <3>1. At(k, j) # s
      BY <1>4, <1>5, <1>10, <2>3 DEF Exact
    <3>2. Exact(t, k, j)
      BY <1>5, <1>10, <2>1, <3>1 DEF Exact
    <3>3. Met(t, k, j)
      BY <3>2 DEF GoodTable
    <3>4. ASSUME NEW h \in 0 .. j - 1 PROVE ~Vacancy(u, k, h) /\ ~Exact(u, k, h)
      <4>1. ~Vacancy(t, k, h) /\ ~Exact(t, k, h) /\ At(k, h) \in Probes
        BY <2>1, <3>3 DEF Met
      <4>2. CASE At(k, h) = s
        BY <1>4, <1>5, <2>3, <4>2 DEF Vacancy, Exact
      <4>3. CASE At(k, h) # s
        BY <1>5, <4>1, <4>3 DEF Vacancy, Exact
      <4>. QED BY <4>2, <4>3
    <3>. QED BY <3>4 DEF Met
  <2>. QED BY <2>2, <2>3
<1>11. GoodTable(u)
  BY <1>5, <1>9, <1>10 DEF GoodTable
<1>. QED BY <1>2, <1>6, <1>8, <1>11 DEF s, u

(* So does a deletion, after which the table does not have the key.        *)
Buried(t, s) == [t EXCEPT ![s] = [hash |-> t[s].hash, value |-> Null, deleted |-> TRUE]]

(* So does an entry that is deleted.                                       *)
LEMMA BuriedGood ==
  ASSUME NEW t, GoodTable(t), NEW key \in Hashes, NEW s \in Probes, HasAt(t, key, s)
  PROVE  LET u == Buried(t, s)
         IN /\ GoodTable(u) /\ \A x \in Probes : ~HasAt(u, key, x)
            /\ OtherEntries(t, u, key)
<1>. DEFINE old == [hash |-> t[s].hash, value |-> Null, deleted |-> TRUE]
            u == Buried(t, s)
<1>1. t \in [Probes -> TableCell] /\ \A x \in Probes : GoodCell(t[x])
  BY DEF GoodTable
<1>2. old \in TableCell /\ old.value = Null /\ old.deleted = TRUE
  <2>1. t[s].hash \in Hashes \cup {0}
    BY <1>1 DEF TableCell
  <2>. QED BY <2>1 DEF TableCell
<1>3. u \in [Probes -> TableCell] /\ u[s] = old /\ \A x \in Probes \ {s} : u[x] = t[x]
  BY <1>1, <1>2 DEF Buried
<1>. HIDE DEF u, old
<1>4. \A x \in Probes : ~HasAt(u, key, x)
  <2>. SUFFICES ASSUME NEW x \in Probes, HasAt(u, key, x) PROVE FALSE
    OBVIOUS
  <2>1. x # s
    BY <1>2, <1>3 DEF HasAt
  <2>2. HasAt(t, key, x)
    BY <1>3, <2>1 DEF HasAt
  <2>. QED BY <2>1, <2>2, FoundHas
<1>5. OtherEntries(t, u, key)
  <2>. SUFFICES ASSUME NEW k \in Hashes \ {key}, NEW x \in Probes
                PROVE  /\ HasAt(u, k, x) <=> HasAt(t, k, x)
                       /\ HasAt(t, k, x) => u[x].value = t[x].value
    BY DEF OtherEntries
  <2>1. CASE x = s
    BY <1>2, <1>3, <2>1 DEF HasAt
  <2>2. CASE x # s
    BY <1>3, <2>2 DEF HasAt
  <2>. QED BY <2>1, <2>2
<1>6. \A x \in Probes : GoodCell(u[x])
  BY <1>1, <1>2, <1>3 DEF GoodCell
<1>7. ASSUME NEW k \in Hashes, NEW j \in Probes, Exact(u, k, j) PROVE Met(u, k, j)
  <2>1. k \in Nat /\ At(k, j) \in Probes /\ \A h \in 0 .. j - 1 : h \in Probes /\ At(k, h) \in Probes
    <3>1. k \in Nat
      BY ChainAssumption
    <3>2. \A h \in 0 .. j - 1 : h \in Probes
      BY ChainAssumption DEF Probes
    <3>. QED BY <3>1, <3>2, ProbesInTable
  <2>2. At(k, j) # s
    BY <1>2, <1>3, <1>7 DEF Exact
  <2>3. Exact(t, k, j)
    BY <1>3, <1>7, <2>1, <2>2 DEF Exact
  <2>4. Met(t, k, j)
    BY <2>3 DEF GoodTable
  <2>5. ASSUME NEW h \in 0 .. j - 1 PROVE ~Vacancy(u, k, h) /\ ~Exact(u, k, h)
    <3>1. ~Vacancy(t, k, h) /\ ~Exact(t, k, h) /\ At(k, h) \in Probes
      BY <2>1, <2>4 DEF Met
    <3>2. CASE At(k, h) = s
      BY <1>2, <1>3, <3>2 DEF Vacancy, Exact
    <3>3. CASE At(k, h) # s
      BY <1>3, <3>1, <3>3 DEF Vacancy, Exact
    <3>. QED BY <3>2, <3>3
  <2>. QED BY <2>5 DEF Met
<1>8. GoodTable(u)
  BY <1>3, <1>6, <1>7 DEF GoodTable
<1>. QED BY <1>4, <1>5, <1>8 DEF u

-----------------------------------------------------------------------------
(* The chain: its tables are good, no key is in two, and what was set last *)
(* is what a key has.                                                      *)
ChainGood ==
  /\ chain \in Seq([Probes -> TableCell])
  /\ \A n \in 1 .. Len(chain) : GoodTable(chain[n])

InOne ==
  \A n, m \in 1 .. Len(chain), s, u \in Probes, k \in Hashes :
    HasAt(chain[n], k, s) /\ HasAt(chain[m], k, u) => n = m

HoldsLast ==
  \A k \in Hashes :
    /\ \A n \in 1 .. Len(chain), s \in Probes : HasAt(chain[n], k, s) => chain[n][s].value = holds[k]
    /\ holds[k] # Null => \E n \in 1 .. Len(chain), s \in Probes : HasAt(chain[n], k, s)

(* An iteration has returned the keys of the entries before its place.     *)
Passed(n, s) == n < From.table \/ (n = From.table /\ s < From.index)

Iterating ==
  /\ iter.table \in Nat /\ iter.index \in Nat
  /\ visited \in Seq(Hashes)
  /\ \A i, j \in 1 .. Len(visited) : i # j => visited[i] # visited[j]
  /\ \A i \in 1 .. Len(visited) :
       \E n \in 1 .. Len(chain), s \in Probes : HasAt(chain[n], visited[i], s) /\ Passed(n, s)
  /\ \A n \in 1 .. Len(chain), s \in Probes, k \in Hashes :
       HasAt(chain[n], k, s) /\ Passed(n, s) => \E i \in 1 .. Len(visited) : visited[i] = k

ChainInv ==
  /\ twice \in BOOLEAN /\ holds \in [Hashes -> Pointers \cup {Null}]
  /\ ~twice => ChainGood /\ InOne /\ HoldsLast /\ Iterating

(* What is live is what a table has for some key.                          *)
LEMMA LiveHas ==
  ASSUME ChainGood, NEW n \in 1 .. Len(chain), NEW s \in Probes
  PROVE  /\ Live(n, s) => chain[n][s].hash \in Hashes /\ HasAt(chain[n], chain[n][s].hash, s)
         /\ \A k \in Hashes : HasAt(chain[n], k, s) => Live(n, s) /\ chain[n][s].hash = k
<1>1. chain[n] \in [Probes -> TableCell] /\ GoodCell(chain[n][s])
  BY DEF ChainGood, GoodTable
<1>2. chain[n][s].hash \in Hashes \cup {0} /\ 0 \notin Hashes
  BY <1>1, ChainAssumption DEF TableCell
<1>. QED BY <1>1, <1>2 DEF GoodCell, Live, HasAt

(* No key is in two slots.                                                 *)
LEMMA NotDoubled ==
  ASSUME ChainGood
  PROVE  ~Doubled <=> InOne
<1>1. DOMAIN chain = 1 .. Len(chain)
  BY LenProperties DEF ChainGood
<1>2. ASSUME InOne, Doubled PROVE FALSE
  <2>1. PICK d \in (1 .. Len(chain)) \X Probes, e \in (1 .. Len(chain)) \X Probes :
          /\ d[1] # e[1] /\ Live(d[1], d[2]) /\ Live(e[1], e[2])
          /\ chain[d[1]][d[2]].hash = chain[e[1]][e[2]].hash
    BY <1>1, <1>2 DEF Doubled
  <2>2. /\ d[1] \in 1 .. Len(chain) /\ d[2] \in Probes
        /\ e[1] \in 1 .. Len(chain) /\ e[2] \in Probes
    OBVIOUS
  <2>3. /\ chain[d[1]][d[2]].hash \in Hashes /\ HasAt(chain[d[1]], chain[d[1]][d[2]].hash, d[2])
        /\ HasAt(chain[e[1]], chain[e[1]][e[2]].hash, e[2])
    BY <2>1, <2>2, LiveHas
  <2>. QED BY <1>2, <2>1, <2>2, <2>3 DEF InOne
<1>3. ASSUME ~Doubled, NEW n \in 1 .. Len(chain), NEW m \in 1 .. Len(chain),
             NEW s \in Probes, NEW u \in Probes, NEW k \in Hashes,
             HasAt(chain[n], k, s), HasAt(chain[m], k, u)
      PROVE  n = m
  <2>. SUFFICES ASSUME n # m PROVE FALSE
    OBVIOUS
  <2>. DEFINE d == <<n, s>>
              e == <<m, u>>
  <2>1. Live(n, s) /\ Live(m, u) /\ chain[n][s].hash = k /\ chain[m][u].hash = k
    BY <1>3, LiveHas
  <2>2. /\ d \in (DOMAIN chain) \X Probes /\ e \in (DOMAIN chain) \X Probes
        /\ d[1] = n /\ d[2] = s /\ e[1] = m /\ e[2] = u
    BY <1>1
  <2>. HIDE DEF d, e
  <2>. QED BY <1>3, <2>1, <2>2 DEF Doubled
<1>. QED BY <1>2, <1>3 DEF InOne

(* The search of the chain finds the key where it is.                      *)
LEMMA EntryFacts ==
  ASSUME ChainGood, NEW k \in Hashes
  PROVE  /\ (\A n \in 1 .. Len(chain), s \in Probes : ~HasAt(chain[n], k, s)) => Entry(k) = <<>>
         /\ (\E n \in 1 .. Len(chain), s \in Probes : HasAt(chain[n], k, s)) =>
              \E n \in 1 .. Len(chain), s \in Probes :
                Entry(k) = <<n, s>> /\ HasAt(chain[n], k, s)
<1>. DEFINE in == {n \in DOMAIN chain : FoundIn(chain[n], k)}
            t == chain[Least(in)]
<1>1. DOMAIN chain = 1 .. Len(chain) /\ Len(chain) \in Nat
  BY LenProperties DEF ChainGood
<1>2. in \subseteq Nat /\ \A n : n \in in <=> n \in 1 .. Len(chain) /\ \E s \in Probes : HasAt(chain[n], k, s)
  BY <1>1, FoundHas DEF ChainGood
<1>3. Entry(k) = IF in = {} THEN <<>>
                 ELSE <<Least(in), At(k, Least({i \in Probes : Exact(t, k, i)}))>>
  BY DEF Entry
<1>. HIDE DEF in
<1>4. ASSUME in # {} PROVE \E n \in 1 .. Len(chain), s \in Probes : Entry(k) = <<n, s>> /\ HasAt(chain[n], k, s)
  <2>1. Least(in) \in in
    BY <1>2, <1>4, LeastFacts
  <2>2. Least(in) \in 1 .. Len(chain) /\ GoodTable(t)
    BY <1>2, <2>1 DEF ChainGood
  <2>3. PICK s \in Probes : HasAt(t, k, s)
    BY <1>2, <2>1
  <2>. HIDE DEF t
  <2>4. At(k, Least({i \in Probes : Exact(t, k, i)})) = s
    BY <2>2, <2>3, FoundHas
  <2>. QED BY <1>3, <1>4, <2>2, <2>3, <2>4 DEF t
<1>. QED BY <1>2, <1>3, <1>4

(* A lookup gives what was stored last.                                    *)
LEMMA LookupHolds ==
  ASSUME ChainGood, HoldsLast, NEW k \in Hashes
  PROVE  Lookup(k) = holds[k]
<1>1. CASE \E n \in 1 .. Len(chain), s \in Probes : HasAt(chain[n], k, s)
  <2>1. PICK n \in 1 .. Len(chain), s \in Probes : Entry(k) = <<n, s>> /\ HasAt(chain[n], k, s)
    BY <1>1, EntryFacts
  <2>2. Entry(k) # <<>> /\ Entry(k)[1] = n /\ Entry(k)[2] = s
    BY <2>1
  <2>. QED BY <2>1, <2>2 DEF Lookup, HoldsLast
<1>2. CASE \A n \in 1 .. Len(chain), s \in Probes : ~HasAt(chain[n], k, s)
  <2>1. Entry(k) = <<>> /\ holds[k] = Null
    BY <1>2, EntryFacts DEF HoldsLast
  <2>. QED BY <2>1 DEF Lookup
<1>. QED BY <1>1, <1>2

-----------------------------------------------------------------------------
(* What a put leaves of the chain.                                         *)
PutIn(c, key, v) ==
  /\ c \in Seq([Probes -> TableCell]) /\ Len(c) >= Len(chain)
  /\ \A n \in 1 .. Len(c) : GoodTable(c[n])
  /\ \E n \in 1 .. Len(c), s \in Probes : HasAt(c[n], key, s) /\ c[n][s].value = v
  /\ \A n \in 1 .. Len(chain) : OtherEntries(chain[n], c[n], key)
  /\ \A n \in 1 .. Len(c) : n \notin 1 .. Len(chain) => OtherEntries(NewTable, c[n], key)

(* A new table has no key.                                                 *)
LEMMA NewTableEmpty == \A k \in Hashes, s \in Probes : ~HasAt(NewTable, k, s)
  BY ChainAssumption DEF HasAt, NewTable, Never, Probes

(* PutEntry stores its value and touches no other key.                     *)
LEMMA PutFacts ==
  ASSUME ChainGood, NEW key \in Hashes, NEW v \in Pointers
  PROVE  PutIn(PutEntry(key, v), key, v)
<1>. DEFINE fit == {n \in DOMAIN chain : FindSlot(chain[n], key) # -1}
            new == [hash |-> key, value |-> v, deleted |-> FALSE]
            first == Least(fit)
            c == PutEntry(key, v)
<1>1. /\ chain \in Seq([Probes -> TableCell]) /\ DOMAIN chain = 1 .. Len(chain) /\ Len(chain) \in Nat
      /\ \A n \in 1 .. Len(chain) : GoodTable(chain[n])
  BY LenProperties DEF ChainGood
<1>2. c = IF fit # {} THEN [chain EXCEPT ![first][FindSlot(chain[first], key)] = new]
          ELSE Append(chain, [NewTable EXCEPT ![At(key, 0)] = new])
  BY DEF PutEntry
<1>3. fit \subseteq Nat /\ \A n : n \in fit <=> n \in 1 .. Len(chain) /\ FindSlot(chain[n], key) # -1
  BY <1>1
<1>. HIDE DEF fit, c
<1>4. CASE fit # {}
  <2>1. first \in 1 .. Len(chain) /\ FindSlot(chain[first], key) # -1
    BY <1>3, <1>4, LeastFacts
  <2>. HIDE DEF first
  <2>2. PICK i \in Probes :
           /\ FindSlot(chain[first], key) = At(key, i) /\ Met(chain[first], key, i)
           /\ \A j \in Probes : Exact(chain[first], key, j) => j = i
           /\ Exact(chain[first], key, i) \/ chain[first][At(key, i)].deleted \/ Vacancy(chain[first], key, i)
    BY <1>1, <2>1, SlotFacts
  <2>. DEFINE u == Placed(chain[first], key, v, At(key, i))
  <2>3. /\ At(key, i) \in Probes /\ GoodTable(u) /\ HasAt(u, key, At(key, i)) /\ u[At(key, i)].value = v
        /\ OtherEntries(chain[first], u, key)
    BY <1>1, <2>1, <2>2, PlacedGood
  <2>4. c = [chain EXCEPT ![first] = u]
    BY <1>2, <1>4, <2>2 DEF Placed
  <2>. HIDE DEF u
  <2>5. u \in [Probes -> TableCell]
    BY <2>3 DEF GoodTable
  <2>6. /\ c \in Seq([Probes -> TableCell]) /\ Len(c) = Len(chain) /\ c[first] = u
        /\ \A n \in 1 .. Len(chain) : n # first => c[n] = chain[n]
    BY <1>1, <2>1, <2>4, <2>5, ExceptSeq
  <2>7. \A n \in 1 .. Len(c) : GoodTable(c[n])
    BY <1>1, <2>3, <2>6
  <2>8. \A n \in 1 .. Len(chain) : OtherEntries(chain[n], c[n], key)
    <3>1. \A n \in 1 .. Len(chain) : OtherEntries(chain[n], chain[n], key)
      BY DEF OtherEntries
    <3>. QED BY <2>3, <2>6, <3>1
  <2>9. \E n \in 1 .. Len(c), s \in Probes : HasAt(c[n], key, s) /\ c[n][s].value = v
    BY <2>1, <2>3, <2>6
  <2>. QED BY <1>1, <2>6, <2>7, <2>8, <2>9 DEF PutIn, c
<1>5. CASE fit = {}
  <2>1. 0 \in Probes /\ Met(NewTable, key, 0)
    BY ChainAssumption DEF Probes, Met
  <2>2. At(key, 0) \in Probes /\ key # 0
    BY <2>1, ProbesInTable, ChainAssumption
  <2>3. Vacancy(NewTable, key, 0) /\ \A j \in Probes : ~Exact(NewTable, key, j)
    <3>1. \A s \in Probes : NewTable[s] = Never
      BY DEF NewTable, Probes
    <3>2. \A j \in Probes : At(key, j) \in Probes
      BY ProbesInTable, ChainAssumption
    <3>. QED BY <2>2, <3>1, <3>2 DEF Vacancy, Exact, Never
  <2>. DEFINE u == Placed(NewTable, key, v, At(key, 0))
  <2>4. /\ GoodTable(u) /\ HasAt(u, key, At(key, 0)) /\ u[At(key, 0)].value = v
        /\ OtherEntries(NewTable, u, key)
    BY <2>1, <2>3, NewTableGood, PlacedGood
  <2>5. c = Append(chain, u)
    BY <1>2, <1>5 DEF Placed
  <2>. HIDE DEF u
  <2>6. u \in [Probes -> TableCell]
    BY <2>4 DEF GoodTable
  <2>7. /\ c \in Seq([Probes -> TableCell]) /\ Len(c) = Len(chain) + 1 /\ c[Len(chain) + 1] = u
        /\ \A n \in 1 .. Len(chain) : c[n] = chain[n]
    BY <1>1, <2>5, <2>6, AppendProperties
  <2>8. \A n \in 1 .. Len(c) : GoodTable(c[n])
    BY <1>1, <2>4, <2>7
  <2>9. \A n \in 1 .. Len(chain) : OtherEntries(chain[n], c[n], key)
    BY <2>7 DEF OtherEntries
  <2>10. \A n \in 1 .. Len(c) : n \notin 1 .. Len(chain) => OtherEntries(NewTable, c[n], key)
    BY <1>1, <2>4, <2>7
  <2>11. \E n \in 1 .. Len(c), s \in Probes : HasAt(c[n], key, s) /\ c[n][s].value = v
    BY <1>1, <2>2, <2>4, <2>7
  <2>. QED BY <1>1, <2>7, <2>8, <2>9, <2>10, <2>11 DEF PutIn, c
<1>. QED BY <1>4, <1>5

(* A put keeps the chain, as long as no key gets a second entry.           *)
LEMMA SetKeeps ==
  ASSUME ChainInv, NEW key \in Hashes, NEW v \in Pointers, HashSet(key, v)
  PROVE  ChainInv'
<1>1. ~twice /\ ChainGood /\ InOne /\ HoldsLast /\ holds \in [Hashes -> Pointers \cup {Null}]
  BY DEF ChainInv, HashSet
<1>2. /\ chain' = PutEntry(key, v) /\ holds' = [holds EXCEPT ![key] = v]
      /\ iter' = [table |-> 0, index |-> 0] /\ visited' = <<>>
      /\ twice' = (twice \/ Doubled')
  BY DEF HashSet
<1>3. PutIn(chain', key, v)
  BY <1>1, <1>2, PutFacts
<1>4. twice' \in BOOLEAN /\ holds' \in [Hashes -> Pointers \cup {Null}]
  BY <1>1, <1>2 DEF Doubled
<1>5. ChainGood'
  BY <1>3 DEF PutIn, ChainGood
<1>6. Len(chain) \in Nat /\ Len(chain') \in Nat /\ Len(chain') >= Len(chain)
  BY <1>1, <1>3, <1>5, LenProperties DEF PutIn, ChainGood
<1>. SUFFICES ASSUME ~twice' PROVE (InOne /\ HoldsLast /\ Iterating)'
  BY <1>4, <1>5 DEF ChainInv
<1>7. InOne'
  <2>1. ~Doubled'
    BY <1>2
  <2>. QED BY <1>5, <2>1, NotDoubled, PTL
<1>8. HoldsLast'
  <2>. SUFFICES ASSUME NEW k \in Hashes
                PROVE  /\ \A n \in 1 .. Len(chain'), s \in Probes :
                            HasAt(chain'[n], k, s) => chain'[n][s].value = holds'[k]
                       /\ holds'[k] # Null => \E n \in 1 .. Len(chain'), s \in Probes : HasAt(chain'[n], k, s)
    BY DEF HoldsLast
  <2>1. CASE k = key
    <3>1. PICK n \in 1 .. Len(chain'), s \in Probes : HasAt(chain'[n], key, s) /\ chain'[n][s].value = v
      BY <1>3 DEF PutIn
    <3>2. ASSUME NEW m \in 1 .. Len(chain'), NEW x \in Probes, HasAt(chain'[m], key, x)
          PROVE  m = n /\ x = s
      <4>1. m = n
        BY <1>7, <3>1, <3>2 DEF InOne
      <4>2. GoodTable(chain'[n])
        BY <1>3 DEF PutIn
      <4>. QED BY <3>1, <3>2, <4>1, <4>2, FoundHas
    <3>3. holds'[key] = v
      BY <1>1, <1>2
    <3>. QED BY <2>1, <3>1, <3>2, <3>3
  <2>2. CASE k # key
    <3>1. holds'[k] = holds[k] /\ k \in Hashes \ {key}
      BY <1>1, <1>2, <2>2
    <3>2. ASSUME NEW m \in 1 .. Len(chain'), NEW x \in Probes, HasAt(chain'[m], k, x)
          PROVE  chain'[m][x].value = holds[k]
      <4>1. CASE m \in 1 .. Len(chain)
        <5>1. OtherEntries(chain[m], chain'[m], key)
          BY <1>3, <4>1 DEF PutIn
        <5>2. HasAt(chain[m], k, x) /\ chain'[m][x].value = chain[m][x].value
          BY <3>1, <3>2, <5>1 DEF OtherEntries
        <5>. QED BY <1>1, <4>1, <5>2 DEF HoldsLast
      <4>2. CASE m \notin 1 .. Len(chain)
        <5>1. OtherEntries(NewTable, chain'[m], key)
          BY <1>3, <4>2 DEF PutIn
        <5>2. HasAt(NewTable, k, x)
          BY <3>1, <3>2, <5>1 DEF OtherEntries
        <5>. QED BY <5>2, NewTableEmpty
      <4>. QED BY <4>1, <4>2
    <3>3. ASSUME holds[k] # Null PROVE \E n \in 1 .. Len(chain'), s \in Probes : HasAt(chain'[n], k, s)
      <4>1. PICK n \in 1 .. Len(chain), s \in Probes : HasAt(chain[n], k, s)
        BY <1>1, <3>3 DEF HoldsLast
      <4>2. OtherEntries(chain[n], chain'[n], key)
        BY <1>3 DEF PutIn
      <4>3. HasAt(chain'[n], k, s) /\ n \in 1 .. Len(chain')
        BY <1>6, <3>1, <4>1, <4>2 DEF OtherEntries
      <4>. QED BY <4>3
    <3>. QED BY <3>1, <3>2, <3>3
  <2>. QED BY <2>1, <2>2
<1>9. Iterating'
  <2>1. \A n \in 1 .. Len(chain'), s \in Probes : ~Passed(n, s)'
    BY <1>2 DEF Passed, From, Probes
  <2>2. visited' \in Seq(Hashes) /\ Len(visited') = 0
    BY <1>2
  <2>. QED BY <1>2, <2>1, <2>2 DEF Iterating
<1>. QED BY <1>7, <1>8, <1>9

(* A deletion keeps it.                                                    *)
LEMMA DeleteKeeps ==
  ASSUME ChainInv, NEW key \in Hashes, HashDelete(key)
  PROVE  ChainInv'
<1>. DEFINE e == Entry(key)
<1>1. twice \in BOOLEAN /\ ~twice /\ ChainGood /\ InOne /\ HoldsLast /\ holds \in [Hashes -> Pointers \cup {Null}]
  BY DEF ChainInv, HashDelete
<1>2. /\ chain' = IF e = <<>> THEN chain
                  ELSE [chain EXCEPT ![e[1]][e[2]].deleted = TRUE, ![e[1]][e[2]].value = Null]
      /\ holds' = [holds EXCEPT ![key] = Null]
      /\ iter' = [table |-> 0, index |-> 0] /\ visited' = <<>> /\ twice' = twice
  BY DEF HashDelete
<1>3. /\ chain \in Seq([Probes -> TableCell]) /\ Len(chain) \in Nat
      /\ \A n \in 1 .. Len(chain) : GoodTable(chain[n])
  BY <1>1, LenProperties DEF ChainGood
<1>. HIDE DEF e
(* Every table is as before, but for the key, which none has.              *)
<1>4. /\ chain' \in Seq([Probes -> TableCell]) /\ Len(chain') = Len(chain)
      /\ \A n \in 1 .. Len(chain) :
           /\ GoodTable(chain'[n]) /\ OtherEntries(chain[n], chain'[n], key)
           /\ \A s \in Probes : ~HasAt(chain'[n], key, s)
  <2>1. CASE \A n \in 1 .. Len(chain), s \in Probes : ~HasAt(chain[n], key, s)
    <3>1. chain' = chain
      BY <1>1, <1>2, <2>1, EntryFacts DEF e
    <3>. QED BY <1>3, <2>1, <3>1 DEF OtherEntries
  <2>2. CASE \E n \in 1 .. Len(chain), s \in Probes : HasAt(chain[n], key, s)
    <3>1. PICK n \in 1 .. Len(chain), s \in Probes : e = <<n, s>> /\ HasAt(chain[n], key, s)
      BY <1>1, <2>2, EntryFacts DEF e
    <3>2. e # <<>> /\ e[1] = n /\ e[2] = s
      BY <3>1
    <3>3. chain' = [chain EXCEPT ![n][s].deleted = TRUE, ![n][s].value = Null]
      BY <1>2, <3>2
    <3>. DEFINE u == Buried(chain[n], s)
    <3>4. GoodTable(u) /\ (\A x \in Probes : ~HasAt(u, key, x)) /\ OtherEntries(chain[n], u, key)
      BY <1>3, <3>1, BuriedGood
    <3>5. chain[n] \in [Probes -> TableCell] /\ chain[n][s] \in TableCell
      BY <1>3 DEF GoodTable
    <3>6. [chain[n][s] EXCEPT !.deleted = TRUE, !.value = Null] = [hash |-> chain[n][s].hash, value |-> Null, deleted |-> TRUE]
      <4>1. ASSUME NEW r \in TableCell
            PROVE  [r EXCEPT !.deleted = TRUE, !.value = Null] = [hash |-> r.hash, value |-> Null, deleted |-> TRUE]
        <5>. DEFINE a == [r EXCEPT !.deleted = TRUE, !.value = Null]
                    b == [hash |-> r.hash, value |-> Null, deleted |-> TRUE]
        <5>1. a \in TableCell /\ a.hash = r.hash /\ a.value = Null /\ a.deleted = TRUE
          BY DEF TableCell
        <5>2. b \in TableCell /\ b.hash = r.hash /\ b.value = Null /\ b.deleted = TRUE
          BY DEF TableCell
        <5>. HIDE DEF a, b
        <5>3. a = b
          BY <5>1, <5>2 DEF TableCell
        <5>. QED BY <5>3 DEF a, b
      <4>. QED BY <3>5, <4>1
    <3>7. u = [chain[n] EXCEPT ![s] = [chain[n][s] EXCEPT !.deleted = TRUE, !.value = Null]]
      BY <3>6 DEF Buried
    <3>. HIDE DEF u
    <3>8. u \in [Probes -> TableCell]
      BY <3>4 DEF GoodTable
    <3>9. chain' = [chain EXCEPT ![n] = u]
      <4>1. chain' = [[chain EXCEPT ![n][s].deleted = TRUE] EXCEPT ![n][s].value = Null]
        BY <3>3
      <4>2. [chain EXCEPT ![n][s].deleted = TRUE] = [chain EXCEPT ![n] = [chain[n] EXCEPT ![s] = [chain[n][s] EXCEPT !.deleted = TRUE]]]
        OBVIOUS
      <4>. DEFINE w == [chain[n] EXCEPT ![s] = [chain[n][s] EXCEPT !.deleted = TRUE]]
                  c == [chain EXCEPT ![n] = w]
      <4>3. w \in [Probes -> TableCell] /\ w[s] = [chain[n][s] EXCEPT !.deleted = TRUE]
        BY <3>5 DEF TableCell
      <4>4. [w EXCEPT ![s].value = Null] = u
        BY <3>5, <3>7
      <4>. HIDE DEF w
      <4>5. c \in Seq([Probes -> TableCell]) /\ c[n] = w /\ Len(c) = Len(chain)
        BY <1>3, <4>3, ExceptSeq
      <4>6. chain' = [c EXCEPT ![n] = [w EXCEPT ![s].value = Null]]
        BY <4>1, <4>2, <4>5 DEF w
      <4>. HIDE DEF c
      <4>7. chain' = [c EXCEPT ![n] = u]
        BY <4>4, <4>6
      <4>. QED BY <4>7 DEF c
    <3>10. /\ chain' \in Seq([Probes -> TableCell]) /\ Len(chain') = Len(chain) /\ chain'[n] = u
           /\ \A m \in 1 .. Len(chain) : m # n => chain'[m] = chain[m]
      BY <1>3, <3>8, <3>9, ExceptSeq
    <3>11. ASSUME NEW m \in 1 .. Len(chain)
           PROVE  /\ GoodTable(chain'[m]) /\ OtherEntries(chain[m], chain'[m], key)
                  /\ \A x \in Probes : ~HasAt(chain'[m], key, x)
      <4>1. CASE m = n
        BY <3>4, <3>10, <4>1
      <4>2. CASE m # n
        <5>1. chain'[m] = chain[m] /\ GoodTable(chain[m])
          BY <1>3, <3>10, <4>2
        <5>2. \A x \in Probes : ~HasAt(chain[m], key, x)
          BY <1>1, <3>1, <4>2 DEF InOne
        <5>. QED BY <5>1, <5>2 DEF OtherEntries
      <4>. QED BY <4>1, <4>2
    <3>. QED BY <3>10, <3>11
  <2>. QED BY <2>1, <2>2
<1>5. ChainGood'
  BY <1>4 DEF ChainGood
<1>6. InOne'
  <2>. SUFFICES ASSUME NEW n \in 1 .. Len(chain), NEW m \in 1 .. Len(chain), NEW s \in Probes, NEW u \in Probes,
                       NEW k \in Hashes, HasAt(chain'[n], k, s), HasAt(chain'[m], k, u)
                PROVE  n = m
    BY <1>4 DEF InOne
  <2>1. k \in Hashes \ {key}
    BY <1>4
  <2>2. HasAt(chain[n], k, s) /\ HasAt(chain[m], k, u)
    BY <1>4, <2>1 DEF OtherEntries
  <2>. QED BY <1>1, <2>2 DEF InOne
<1>7. HoldsLast'
  <2>. SUFFICES ASSUME NEW k \in Hashes
                PROVE  /\ \A n \in 1 .. Len(chain), s \in Probes :
                            HasAt(chain'[n], k, s) => chain'[n][s].value = holds'[k]
                       /\ holds'[k] # Null => \E n \in 1 .. Len(chain), s \in Probes : HasAt(chain'[n], k, s)
    BY <1>4 DEF HoldsLast
  <2>1. CASE k = key
    <3>1. holds'[key] = Null
      BY <1>1, <1>2
    <3>. QED BY <1>4, <2>1, <3>1
  <2>2. CASE k # key
    <3>1. holds'[k] = holds[k] /\ k \in Hashes \ {key}
      BY <1>1, <1>2, <2>2
    <3>. QED BY <1>1, <1>4, <3>1 DEF OtherEntries, HoldsLast
  <2>. QED BY <2>1, <2>2
<1>8. Iterating'
  <2>1. \A n \in 1 .. Len(chain'), s \in Probes : ~Passed(n, s)'
    BY <1>2 DEF Passed, From, Probes
  <2>2. visited' \in Seq(Hashes) /\ Len(visited') = 0
    BY <1>2
  <2>. QED BY <1>2, <2>1, <2>2 DEF Iterating
<1>9. twice' \in BOOLEAN /\ holds' \in [Hashes -> Pointers \cup {Null}]
  BY <1>1, <1>2
<1>. QED BY <1>5, <1>6, <1>7, <1>8, <1>9 DEF ChainInv

(* Places of a chain are ordered by table and then by slot.                *)
LEMMA PlacesOrdered ==
  ASSUME NEW c \in Nat \ {0}, NEW p \in Nat, NEW q \in Nat, NEW r \in 0 .. c - 1, NEW s \in 0 .. c - 1,
         p * c + r <= q * c + s
  PROVE  p < q \/ (p = q /\ r <= s)
<1>1. (p - q) * c = p * c - q * c /\ (p - q) * c <= s - r /\ p - q \in Int
  <2>1. (p - q) * c = p * c - q * c /\ p * c \in Int /\ q * c \in Int
    BY Multiples
  <2>. QED BY <2>1
<1>2. CASE p > q
  <2>1. (p - q) * c < c
    BY <1>1
  <2>2. 0 < (p - q) * c
    BY <1>2
  <2>. QED BY <1>1, <2>1, <2>2, NoMultipleBelow
<1>3. CASE p = q
  BY <1>3
<1>. QED BY <1>2, <1>3

(* A step of an iteration returns the first live entry it has not passed.  *)
LEMMA LaterFirst ==
  ASSUME ChainGood, LaterEntries # {}
  PROVE  \E n \in 1 .. Len(chain), s \in Probes :
           /\ Live(n, s) /\ (n > From.table \/ (n = From.table /\ s >= From.index))
           /\ LET first == Least({e[1] * Slots + e[2] : e \in LaterEntries})
              IN first \div Slots = n /\ first % Slots = s
           /\ \A m \in 1 .. Len(chain), u \in Probes :
                Live(m, u) /\ (m > From.table \/ (m = From.table /\ u >= From.index)) =>
                  n < m \/ (n = m /\ s <= u)
<1>. DEFINE places == {e[1] * Slots + e[2] : e \in LaterEntries}
<1>1. DOMAIN chain = 1 .. Len(chain) /\ Len(chain) \in Nat
  BY LenProperties DEF ChainGood
<1>2. Slots \in Nat \ {0} /\ Probes = 0 .. Slots - 1
  BY ChainAssumption DEF Probes
<1>3. \A e \in LaterEntries :
        /\ e[1] \in 1 .. Len(chain) /\ e[2] \in Probes /\ Live(e[1], e[2])
        /\ e[1] > From.table \/ (e[1] = From.table /\ e[2] >= From.index)
        /\ e[1] * Slots + e[2] \in Nat
  <2>. SUFFICES ASSUME NEW e \in LaterEntries
                PROVE  /\ e[1] \in 1 .. Len(chain) /\ e[2] \in Probes /\ Live(e[1], e[2])
                       /\ e[1] > From.table \/ (e[1] = From.table /\ e[2] >= From.index)
                       /\ e[1] * Slots + e[2] \in Nat
    OBVIOUS
  <2>1. /\ e[1] \in 1 .. Len(chain) /\ e[2] \in Probes /\ Live(e[1], e[2])
        /\ e[1] > From.table \/ (e[1] = From.table /\ e[2] >= From.index)
    BY <1>1 DEF LaterEntries
  <2>2. \A a \in Nat, b \in Nat : a * Slots + b \in Nat
    BY <1>2, SMT
  <2>3. e[1] \in Nat /\ e[2] \in Nat
    BY <1>1, <1>2, <2>1
  <2>. QED BY <2>1, <2>2, <2>3
<1>4. places \subseteq Nat /\ places # {}
  BY <1>3
<1>5. Least(places) \in places /\ \A m \in places : Least(places) <= m
  BY <1>4, LeastFacts
<1>6. PICK e \in LaterEntries : Least(places) = e[1] * Slots + e[2]
  BY <1>5
<1>7. e[1] \in Nat /\ e[2] \in 0 .. Slots - 1
  BY <1>1, <1>2, <1>3
<1>8. Least(places) \div Slots = e[1] /\ Least(places) % Slots = e[2]
  BY <1>2, <1>6, <1>7, Remainder
<1>9. ASSUME NEW m \in 1 .. Len(chain), NEW u \in Probes, Live(m, u),
             m > From.table \/ (m = From.table /\ u >= From.index)
      PROVE  e[1] < m \/ (e[1] = m /\ e[2] <= u)
  <2>1. <<m, u>> \in LaterEntries
    BY <1>1, <1>9 DEF LaterEntries
  <2>2. <<m, u>>[1] * Slots + <<m, u>>[2] \in places
    BY <2>1
  <2>3. e[1] * Slots + e[2] <= m * Slots + u /\ m \in Nat /\ u \in 0 .. Slots - 1
    BY <1>1, <1>2, <1>5, <1>6, <2>2
  <2>4. \A p, q \in Nat, r, x \in 0 .. Slots - 1 : p * Slots + r <= q * Slots + x => p < q \/ (p = q /\ r <= x)
    BY ONLY <1>2, PlacesOrdered
  <2>. QED BY ONLY <1>7, <2>3, <2>4
<1>. QED BY <1>3, <1>8, <1>9

(* An iteration keeps the chain, and has returned what it passed.          *)
LEMMA IterateKeeps ==
  ASSUME ChainInv, IterateNext
  PROVE  ChainInv'
<1>1. chain' = chain /\ holds' = holds /\ twice' = twice
  BY DEF IterateNext
<1>2. twice' \in BOOLEAN /\ holds' \in [Hashes -> Pointers \cup {Null}]
  BY <1>1 DEF ChainInv
<1>. SUFFICES ASSUME ~twice PROVE (ChainGood /\ InOne /\ HoldsLast /\ Iterating)'
  BY <1>1, <1>2 DEF ChainInv
<1>3. ChainGood /\ InOne /\ HoldsLast /\ Iterating
  BY DEF ChainInv
<1>4. (ChainGood /\ InOne /\ HoldsLast)'
  BY <1>1, <1>3 DEF ChainGood, InOne, HoldsLast
<1>5. DOMAIN chain = 1 .. Len(chain) /\ Len(chain) \in Nat /\ Probes \subseteq Nat
  BY <1>3, LenProperties DEF ChainGood, Probes
<1>6. CASE LaterEntries = {}
  <2>1. iter' = [table |-> 0, index |-> 0] /\ visited' = <<>>
    BY <1>6 DEF IterateNext
  <2>2. \A n \in 1 .. Len(chain'), s \in Probes : ~Passed(n, s)'
    BY <2>1 DEF Passed, From, Probes
  <2>3. visited' \in Seq(Hashes) /\ Len(visited') = 0
    BY <2>1
  <2>. QED BY <1>4, <2>1, <2>2, <2>3 DEF Iterating
<1>7. CASE LaterEntries # {}
  <2>1. PICK n \in 1 .. Len(chain), s \in Probes :
           /\ Live(n, s) /\ (n > From.table \/ (n = From.table /\ s >= From.index))
           /\ LET first == Least({e[1] * Slots + e[2] : e \in LaterEntries})
              IN first \div Slots = n /\ first % Slots = s
           /\ \A m \in 1 .. Len(chain), u \in Probes :
                Live(m, u) /\ (m > From.table \/ (m = From.table /\ u >= From.index)) =>
                  n < m \/ (n = m /\ s <= u)
    BY <1>3, <1>7, LaterFirst
  <2>. DEFINE k == chain[n][s].hash
  <2>2. iter' = [table |-> n, index |-> s + 1] /\ visited' = Append(visited, k)
    BY <1>7, <2>1 DEF IterateNext
  <2>3. k \in Hashes /\ HasAt(chain[n], k, s)
    BY <1>3, <2>1, LiveHas
  <2>. HIDE DEF k
  <2>4. From.table \in Nat /\ From.index \in Nat /\ From'.table = n /\ From'.index = s + 1
    BY <1>3, <1>5, <2>2 DEF From, Iterating
  <2>5. ~Passed(n, s)
    BY <1>5, <2>1, <2>4 DEF Passed
  <2>6. \A m \in 1 .. Len(chain), u \in Probes :
          Passed(m, u)' <=> m < n \/ (m = n /\ u <= s)
    <3>. SUFFICES ASSUME NEW m \in 1 .. Len(chain), NEW u \in Probes
                  PROVE  Passed(m, u)' <=> m < n \/ (m = n /\ u <= s)
      OBVIOUS
    <3>1. Passed(m, u)' <=> m < n \/ (m = n /\ u < s + 1)
      BY <2>4 DEF Passed
    <3>2. u < s + 1 <=> u <= s
      BY <1>5
    <3>. QED BY <3>1, <3>2
  <2>7. \A m \in 1 .. Len(chain), u \in Probes : Passed(m, u) => Passed(m, u)'
    <3>. SUFFICES ASSUME NEW m \in 1 .. Len(chain), NEW u \in Probes, Passed(m, u)
                  PROVE  m < n \/ (m = n /\ u <= s)
      BY <2>6
    <3>. DEFINE a == From.table
                b == From.index
    <3>1. (m < a \/ (m = a /\ u < b)) /\ (n > a \/ (n = a /\ s >= b)) /\ a \in Nat /\ b \in Nat
      BY <2>1, <2>4 DEF Passed
    <3>2. m \in Nat /\ n \in Nat /\ u \in Nat /\ s \in Nat
      BY <1>5
    <3>. HIDE DEF a, b
    <3>. QED BY ONLY <3>1, <3>2
  <2>8. \A m \in 1 .. Len(chain), u \in Probes :
          Live(m, u) /\ Passed(m, u)' => Passed(m, u) \/ (m = n /\ u = s)
    <3>. SUFFICES ASSUME NEW m \in 1 .. Len(chain), NEW u \in Probes, Live(m, u), Passed(m, u)', ~Passed(m, u)
                  PROVE  m = n /\ u = s
      OBVIOUS
    <3>1. m > From.table \/ (m = From.table /\ u >= From.index)
      BY <1>5, <2>4 DEF Passed
    <3>2. n < m \/ (n = m /\ s <= u)
      BY <2>1, <3>1
    <3>3. m < n \/ (m = n /\ u <= s)
      BY <2>6
    <3>. QED BY <1>5, <3>2, <3>3
  <2>9. /\ visited \in Seq(Hashes) /\ Len(visited) \in Nat
        /\ visited' \in Seq(Hashes) /\ Len(visited') = Len(visited) + 1
        /\ visited'[Len(visited) + 1] = k
        /\ \A i \in 1 .. Len(visited) : visited'[i] = visited[i]
    <3>1. visited \in Seq(Hashes) /\ Len(visited) \in Nat
      BY <1>3, LenProperties DEF Iterating
    <3>. QED BY <2>2, <2>3, <3>1, AppendProperties
  <2>10. \A i \in 1 .. Len(visited) : visited[i] # k
    <3>. SUFFICES ASSUME NEW i \in 1 .. Len(visited), visited[i] = k PROVE FALSE
      OBVIOUS
    <3>1. PICK m \in 1 .. Len(chain), u \in Probes : HasAt(chain[m], k, u) /\ Passed(m, u)
      BY <1>3 DEF Iterating
    <3>2. m = n
      BY <1>3, <2>3, <3>1 DEF InOne
    <3>3. u = s
      BY <1>3, <2>3, <3>1, <3>2, FoundHas DEF ChainGood
    <3>. QED BY <2>5, <3>1, <3>2, <3>3
  <2>11. iter'.table \in Nat /\ iter'.index \in Nat
    BY <1>5, <2>2
  <2>12. \A i, j \in 1 .. Len(visited') : i # j => visited'[i] # visited'[j]
    <3>. SUFFICES ASSUME NEW i \in 1 .. Len(visited'), NEW j \in 1 .. Len(visited'), i < j
                  PROVE  visited'[i] # visited'[j]
      BY <2>9
    <3>1. i \in 1 .. Len(visited)
      BY <2>9
    <3>2. CASE j = Len(visited) + 1
      BY <2>9, <2>10, <3>1, <3>2
    <3>3. CASE j \in 1 .. Len(visited)
      <4>1. i # j
        BY <2>9
      <4>. QED BY <1>3, <2>9, <3>1, <3>3, <4>1 DEF Iterating
    <3>. QED BY <2>9, <3>2, <3>3
  <2>13. \A i \in 1 .. Len(visited') :
           \E m \in 1 .. Len(chain), u \in Probes : HasAt(chain[m], visited'[i], u) /\ Passed(m, u)'
    <3>. SUFFICES ASSUME NEW i \in 1 .. Len(visited')
                  PROVE  \E m \in 1 .. Len(chain), u \in Probes : HasAt(chain[m], visited'[i], u) /\ Passed(m, u)'
      OBVIOUS
    <3>1. CASE i \in 1 .. Len(visited)
      <4>1. PICK m \in 1 .. Len(chain), u \in Probes : HasAt(chain[m], visited[i], u) /\ Passed(m, u)
        BY <1>3, <3>1 DEF Iterating
      <4>. QED BY <2>7, <2>9, <3>1, <4>1
    <3>2. CASE i = Len(visited) + 1
      <4>1. Passed(n, s)'
        BY <1>5, <2>6
      <4>. QED BY <2>3, <2>9, <3>2, <4>1
    <3>. QED BY <2>9, <3>1, <3>2
  <2>14. \A m \in 1 .. Len(chain), u \in Probes, x \in Hashes :
           HasAt(chain[m], x, u) /\ Passed(m, u)' => \E i \in 1 .. Len(visited') : visited'[i] = x
    <3>. SUFFICES ASSUME NEW m \in 1 .. Len(chain), NEW u \in Probes, NEW x \in Hashes,
                         HasAt(chain[m], x, u), Passed(m, u)'
                  PROVE  \E i \in 1 .. Len(visited') : visited'[i] = x
      OBVIOUS
    <3>1. Live(m, u) /\ chain[m][u].hash = x
      BY <1>3, LiveHas
    <3>2. CASE Passed(m, u)
      <4>1. PICK i \in 1 .. Len(visited) : visited[i] = x
        BY <1>3, <3>2 DEF Iterating
      <4>2. i \in 1 .. Len(visited')
        BY <2>9
      <4>. QED BY <2>9, <4>1, <4>2
    <3>3. CASE m = n /\ u = s
      <4>1. Len(visited) + 1 \in 1 .. Len(visited')
        BY <2>9
      <4>. QED BY <2>9, <3>1, <3>3, <4>1 DEF k
    <3>. QED BY <2>8, <3>1, <3>2, <3>3
  <2>15. Iterating'
    BY <1>1, <2>9, <2>11, <2>12, <2>13, <2>14 DEF Iterating
  <2>. QED BY <1>4, <2>15
<1>. QED BY <1>6, <1>7

(* A new map satisfies the invariant.                                      *)
LEMMA ChainStarts == ChainInit => ChainInv
<1>. SUFFICES ASSUME ChainInit PROVE ChainInv
  OBVIOUS
<1>1. /\ chain = <<NewTable>> /\ holds = [k \in Hashes |-> Null]
      /\ iter = [table |-> 0, index |-> 0] /\ visited = <<>> /\ twice = FALSE
  BY DEF ChainInit
<1>2. NewTable \in [Probes -> TableCell]
  BY NewTableGood DEF GoodTable
<1>3. chain \in Seq([Probes -> TableCell]) /\ Len(chain) = 1 /\ chain[1] = NewTable
  BY <1>1, <1>2
<1>4. ChainGood
  BY <1>3, NewTableGood DEF ChainGood
<1>5. InOne /\ HoldsLast
  BY <1>1, <1>3, NewTableEmpty DEF InOne, HoldsLast
<1>6. \A n \in 1 .. Len(chain), s \in Probes : ~Passed(n, s)
  BY <1>1 DEF Passed, From, Probes
<1>7. visited \in Seq(Hashes) /\ Len(visited) = 0
  BY <1>1
<1>8. Iterating
  BY <1>1, <1>6, <1>7 DEF Iterating
<1>. QED BY <1>1, <1>4, <1>5, <1>8 DEF ChainInv

(* NXMap+hash.c: the invariant of the chain of a map.                      *)
THEOREM ChainInvariant == ChainSpec => []ChainInv
<1>1. ChainInit => ChainInv
  BY ChainStarts
<1>2. ChainInv /\ [ChainStep]_chainVars => ChainInv'
  <2>. SUFFICES ASSUME ChainInv, [ChainStep]_chainVars PROVE ChainInv'
    OBVIOUS
  <2>1. CASE \E k \in Hashes : HashDelete(k)
    BY <2>1, DeleteKeeps
  <2>2. CASE \E k \in Hashes, v \in Pointers : HashSet(k, v)
    BY <2>2, SetKeeps
  <2>3. CASE IterateNext
    BY <2>3, IterateKeeps
  <2>4. CASE UNCHANGED chainVars
    BY <2>4 DEF chainVars, ChainInv, ChainGood, InOne, HoldsLast, Iterating, Passed, From
  <2>. QED BY <2>1, <2>2, <2>3, <2>4 DEF ChainStep
<1>. QED BY <1>1, <1>2, PTL DEF ChainSpec

(* A search finds what was set, and an iteration that has nothing left to  *)
(* return has returned every key.                                          *)
LEMMA InvHolds == ChainInv => MapHolds
<1>. SUFFICES ASSUME ChainInv, ~twice PROVE MapHolds
  BY DEF MapHolds, ChainHolds, IteratesOnce
<1>1. ChainGood /\ InOne /\ HoldsLast /\ Iterating
  BY DEF ChainInv
<1>2. ChainHolds
  BY <1>1, LookupHolds DEF ChainHolds
<1>3. DOMAIN visited = 1 .. Len(visited) /\ DOMAIN chain = 1 .. Len(chain) /\ Len(chain) \in Nat
  BY <1>1, LenProperties DEF Iterating, ChainGood
<1>4. \A i, j \in DOMAIN visited : i # j => visited[i] # visited[j]
  BY <1>1, <1>3 DEF Iterating
<1>5. ASSUME LaterEntries = {}
      PROVE  {visited[i] : i \in DOMAIN visited} = {k \in Hashes : holds[k] # Null}
  <2>1. \A n \in 1 .. Len(chain), s \in Probes, k \in Hashes : HasAt(chain[n], k, s) => Passed(n, s)
    <3>. SUFFICES ASSUME NEW n \in 1 .. Len(chain), NEW s \in Probes, NEW k \in Hashes, HasAt(chain[n], k, s),
                         ~Passed(n, s)
                  PROVE  FALSE
      OBVIOUS
    <3>1. Live(n, s)
      BY <1>1, LiveHas
    <3>2. From.table \in Nat /\ From.index \in Nat /\ n \in Nat /\ s \in Nat
      BY <1>1, <1>3 DEF From, Iterating, Probes
    <3>3. n > From.table \/ (n = From.table /\ s >= From.index)
      BY <3>2 DEF Passed
    <3>4. <<n, s>> \in LaterEntries
      BY <1>3, <3>1, <3>3 DEF LaterEntries
    <3>. QED BY <1>5, <3>4
  <2>2. ASSUME NEW i \in DOMAIN visited PROVE visited[i] \in Hashes /\ holds[visited[i]] # Null
    <3>1. visited[i] \in Hashes
      BY <1>1, <1>3 DEF Iterating
    <3>2. PICK n \in 1 .. Len(chain), s \in Probes : HasAt(chain[n], visited[i], s)
      BY <1>1, <1>3 DEF Iterating
    <3>3. chain[n][s].value = holds[visited[i]] /\ Live(n, s)
      BY <1>1, <3>1, <3>2, LiveHas DEF HoldsLast
    <3>. QED BY <3>1, <3>3 DEF Live
  <2>3. ASSUME NEW k \in Hashes, holds[k] # Null PROVE \E i \in DOMAIN visited : visited[i] = k
    <3>1. PICK n \in 1 .. Len(chain), s \in Probes : HasAt(chain[n], k, s)
      BY <1>1, <2>3 DEF HoldsLast
    <3>. QED BY <1>1, <1>3, <2>1, <3>1 DEF Iterating
  <2>. QED BY <2>2, <2>3
<1>. QED BY <1>2, <1>4, <1>5 DEF MapHolds, IteratesOnce

(* NXMap+hash.c: a map grown over several tables holds what was stored and *)
(* iterates over it once, for any keys, values and size of a table.        *)
THEOREM MapHoldsAlways == ChainSpec => []MapHolds
  BY ChainInvariant, InvHolds, PTL

-----------------------------------------------------------------------------
(* What main does, in the order it does it.                                *)
Whats == {"make", "default", "forget", "handle", "call", "enable", "run", "release", "exit"}
Parts == {"zone", "pool", "app", "delegate", "args", "watchdog", "power"}
Things == Signals \cup Parts \cup {"callback", 0}
Tasks == [do : Whats, on : Things]

MadeParts == <<"zone", "pool", "app", "delegate", "args">>
EnabledParts == <<"watchdog", "power">>
ReleasedParts == <<"watchdog", "power", "app", "delegate", "pool", "zone">>

NSig == Cardinality(Signals)
NClear == IF posix THEN NSig + 1 ELSE 0  \* the steps that clear the handlers

(* The signals in the order of the loop of signal.c.                       *)
LEMMA Signalling ==
  /\ NSig \in Nat /\ InTurn \in [1 .. NSig -> Signals]
  /\ \A s \in Signals : \E i \in 1 .. NSig : InTurn[i] = s
<1>1. NSig \in Nat /\ ExistsBijection(1 .. NSig, Signals)
  BY LaunchAssumption, FS_CardinalityType DEF NSig
<1>2. \E f \in [1 .. NSig -> Signals] : IsInjective(f)
  BY <1>1 DEF ExistsBijection, Bijection, Injection
<1>3. InTurn \in [1 .. NSig -> Signals] /\ IsInjective(InTurn)
  BY <1>2 DEF InTurn, SetToSeq, NSig
<1>4. InTurn \in Injection(1 .. NSig, Signals)
  BY <1>3 DEF Injection
<1>5. IsFiniteSet(1 .. NSig) /\ Cardinality(1 .. NSig) = NSig
  BY <1>1, FS_Interval
<1>6. InTurn \in Surjection(1 .. NSig, Signals)
  BY <1>1, <1>4, <1>5, LaunchAssumption, FS_Injection DEF NSig
<1>. QED BY <1>1, <1>3, <1>6 DEF Surjection

(* The tasks for a list, one for each of its items.                        *)
LEMMA DoTasks ==
  ASSUME NEW what \in Whats, NEW list \in Seq(Things)
  PROVE  /\ Do(what, list) \in Seq(Tasks) /\ Len(Do(what, list)) = Len(list)
         /\ \A i \in 1 .. Len(list) : Do(what, list)[i] = [do |-> what, on |-> list[i]]
<1>1. DOMAIN list = 1 .. Len(list) /\ Len(list) \in Nat /\ \A i \in 1 .. Len(list) : list[i] \in Things
  BY LenProperties, ElementOfSeq
<1>2. Do(what, list) \in [1 .. Len(list) -> Tasks]
  BY <1>1 DEF Do, Tasks
<1>3. Do(what, list) \in Seq(Tasks) /\ Len(Do(what, list)) = Len(list)
  BY <1>1, <1>2, IsASeq, LenProperties
<1>. QED BY <1>1, <1>3 DEF Do

(* The task for a single item.                                             *)
LEMMA DoOne ==
  ASSUME NEW what \in Whats, NEW x \in Things
  PROVE  /\ Do(what, <<x>>) \in Seq(Tasks) /\ Len(Do(what, <<x>>)) = 1
         /\ Do(what, <<x>>)[1] = [do |-> what, on |-> x]
<1>. DEFINE list == <<x>>
<1>1. list \in Seq(Things) /\ Len(list) = 1 /\ list[1] = x
  OBVIOUS
<1>. HIDE DEF list
<1>2. /\ Do(what, list) \in Seq(Tasks) /\ Len(Do(what, list)) = 1
      /\ Do(what, list)[1] = [do |-> what, on |-> x]
  BY <1>1, DoTasks
<1>. QED BY <1>2 DEF list

(* One list of tasks after another.                                        *)
IsJoin(c, a, n, b, m) ==
  c = a \o b /\ a \in Seq(Tasks) /\ b \in Seq(Tasks) /\ Len(a) = n /\ Len(b) = m

(* What a concatenation of two lists of tasks holds.                       *)
LEMMA Joined ==
  ASSUME NEW c, NEW a, NEW n, NEW b, NEW m, IsJoin(c, a, n, b, m)
  PROVE  /\ c \in Seq(Tasks) /\ Len(c) = n + m
         /\ \A i \in 1 .. n : c[i] = a[i]
         /\ \A i \in 1 .. m : c[n + i] = b[i]
<1>1. a \in Seq(Tasks) /\ b \in Seq(Tasks) /\ Len(a) = n /\ Len(b) = m /\ c = a \o b
  BY DEF IsJoin
<1>2. n \in Nat /\ m \in Nat
  BY <1>1, LenProperties
<1>3. /\ a \o b \in Seq(Tasks) /\ Len(a \o b) = Len(a) + Len(b)
      /\ \A i \in 1 .. Len(a) + Len(b) : (a \o b)[i] = IF i <= Len(a) THEN a[i] ELSE b[i - Len(a)]
  BY <1>1, ConcatProperties
<1>. QED BY <1>1, <1>2, <1>3

(* The parts that are made, enabled and released.                          *)
LEMMA PartLists ==
  /\ MadeParts \in Seq(Things) /\ Len(MadeParts) = 5
  /\ EnabledParts \in Seq(Things) /\ Len(EnabledParts) = 2
  /\ ReleasedParts \in Seq(Things) /\ Len(ReleasedParts) = 6
  /\ <<0>> \in Seq(Things) /\ <<"callback">> \in Seq(Things)
  BY DEF MadeParts, EnabledParts, ReleasedParts, Things, Parts

(* The tasks that clear the signals.                                       *)
LEMMA ClearingTasks ==
  ASSUME posix \in BOOLEAN
  PROVE  /\ NClear \in Nat /\ Clearing \in Seq(Tasks) /\ Len(Clearing) = NClear
         /\ posix => /\ NClear = NSig + 1 /\ Clearing[NClear] = [do |-> "forget", on |-> "callback"]
                     /\ \A i \in 1 .. NSig : Clearing[i] = [do |-> "default", on |-> InTurn[i]]
<1>1. NSig \in Nat /\ InTurn \in [1 .. NSig -> Signals] /\ InTurn \in Seq(Things) /\ Len(InTurn) = NSig
  <2>1. NSig \in Nat /\ InTurn \in [1 .. NSig -> Signals]
    BY Signalling
  <2>2. InTurn \in [1 .. NSig -> Things]
    BY <2>1 DEF Things
  <2>. QED BY <2>1, <2>2, LenProperties
<1>2. CASE posix
  <2>. DEFINE a == Do("default", InTurn)
              b == Do("forget", <<"callback">>)
  <2>1. a \in Seq(Tasks) /\ Len(a) = NSig /\ \A i \in 1 .. NSig : a[i] = [do |-> "default", on |-> InTurn[i]]
    BY <1>1, DoTasks DEF Whats
  <2>2. b \in Seq(Tasks) /\ Len(b) = 1 /\ b[1] = [do |-> "forget", on |-> "callback"]
    BY DoOne DEF Whats, Things
  <2>3. Clearing = a \o b /\ NClear = NSig + 1
    BY <1>2 DEF Clearing, NClear
  <2>. HIDE DEF a, b
  <2>4. /\ Clearing \in Seq(Tasks) /\ Len(Clearing) = NSig + 1
        /\ \A i \in 1 .. NSig : Clearing[i] = a[i]
        /\ Clearing[NSig + 1] = b[1]
    <3>1. /\ Clearing \in Seq(Tasks) /\ Len(Clearing) = NSig + 1
          /\ \A i \in 1 .. NSig : Clearing[i] = a[i]
          /\ \A i \in 1 .. 1 : Clearing[NSig + i] = b[i]
      <4>1. IsJoin(Clearing, a, NSig, b, 1)
        BY ONLY <2>1, <2>2, <2>3 DEF IsJoin
      <4>. QED BY ONLY <4>1, Joined
    <3>. QED BY <3>1
  <2>. QED BY <1>1, <1>2, <2>1, <2>2, <2>3, <2>4
<1>3. CASE ~posix
  BY <1>3 DEF Clearing, NClear
<1>. QED BY <1>2, <1>3

(* The tasks that install the handlers.                                    *)
LEMMA InstallingTasks ==
  ASSUME posix \in BOOLEAN
  PROVE  /\ Installing \in Seq(Tasks) /\ Len(Installing) = 2 * NClear
         /\ posix => /\ Installing[NClear] = [do |-> "forget", on |-> "callback"]
                     /\ Installing[2 * NClear] = [do |-> "call", on |-> "callback"]
                     /\ \A i \in 1 .. NSig : Installing[i] = [do |-> "default", on |-> InTurn[i]]
                     /\ \A i \in 1 .. NSig : Installing[NClear + i] = [do |-> "handle", on |-> InTurn[i]]
<1>1. NSig \in Nat /\ InTurn \in [1 .. NSig -> Signals] /\ InTurn \in Seq(Things) /\ Len(InTurn) = NSig
  <2>1. NSig \in Nat /\ InTurn \in [1 .. NSig -> Signals]
    BY Signalling
  <2>2. InTurn \in [1 .. NSig -> Things]
    BY <2>1 DEF Things
  <2>. QED BY <2>1, <2>2, LenProperties
<1>2. CASE posix
  <2>. DEFINE a == Do("handle", InTurn)
              b == Do("call", <<"callback">>)
              ca == Clearing \o a
  <2>1. a \in Seq(Tasks) /\ Len(a) = NSig /\ \A i \in 1 .. NSig : a[i] = [do |-> "handle", on |-> InTurn[i]]
    BY <1>1, DoTasks DEF Whats
  <2>2. b \in Seq(Tasks) /\ Len(b) = 1 /\ b[1] = [do |-> "call", on |-> "callback"]
    BY DoOne DEF Whats, Things
  <2>3. Installing = ca \o b /\ ca = Clearing \o a
    BY <1>2 DEF Installing
  <2>. HIDE DEF a, b, ca
  <2>4. /\ NClear \in Nat /\ NClear = NSig + 1 /\ Clearing \in Seq(Tasks) /\ Len(Clearing) = NClear
        /\ Clearing[NClear] = [do |-> "forget", on |-> "callback"]
        /\ \A i \in 1 .. NSig : Clearing[i] = [do |-> "default", on |-> InTurn[i]]
    BY <1>2, ClearingTasks
  <2>5. /\ ca \in Seq(Tasks) /\ Len(ca) = NClear + NSig
        /\ \A i \in 1 .. NClear : ca[i] = Clearing[i]
        /\ \A i \in 1 .. NSig : ca[NClear + i] = a[i]
    <3>1. IsJoin(ca, Clearing, NClear, a, NSig)
      BY ONLY <2>1, <2>3, <2>4 DEF IsJoin
    <3>. QED BY ONLY <3>1, Joined
  <2>6. /\ Installing \in Seq(Tasks) /\ Len(Installing) = NClear + NSig + 1
        /\ \A i \in 1 .. NClear + NSig : Installing[i] = ca[i]
        /\ Installing[NClear + NSig + 1] = b[1]
    <3>1. /\ Installing \in Seq(Tasks) /\ Len(Installing) = NClear + NSig + 1
          /\ \A i \in 1 .. NClear + NSig : Installing[i] = ca[i]
          /\ \A i \in 1 .. 1 : Installing[NClear + NSig + i] = b[i]
      <4>1. IsJoin(Installing, ca, NClear + NSig, b, 1)
        BY ONLY <2>2, <2>3, <2>5 DEF IsJoin
      <4>. QED BY ONLY <4>1, Joined
    <3>. QED BY <3>1
  <2>7. NClear + NSig + 1 = 2 * NClear /\ NClear \in 1 .. NClear /\ NClear \in 1 .. NClear + NSig
        /\ \A i \in 1 .. NSig : i \in 1 .. NClear /\ i \in 1 .. NClear + NSig /\ NClear + i \in 1 .. NClear + NSig
    BY <1>1, <2>4
  <2>. QED BY <1>2, <2>1, <2>2, <2>4, <2>5, <2>6, <2>7
<1>3. CASE ~posix
  BY <1>3 DEF Installing, NClear
<1>. QED BY <1>2, <1>3

(* The whole of it.                                                        *)
LEMMA Layout ==
  ASSUME posix \in BOOLEAN
  PROVE  /\ NXApplicationMain \in Seq(Tasks) /\ Len(NXApplicationMain) = 15 + 3 * NClear
         /\ \A i \in 1 .. 5 : NXApplicationMain[i] = [do |-> "make", on |-> MadeParts[i]]
         /\ \A i \in 1 .. 2 * NClear : NXApplicationMain[5 + i] = Installing[i]
         /\ \A i \in 1 .. 2 : NXApplicationMain[5 + 2 * NClear + i] = [do |-> "enable", on |-> EnabledParts[i]]
         /\ NXApplicationMain[8 + 2 * NClear] = [do |-> "run", on |-> 0]
         /\ \A i \in 1 .. NClear : NXApplicationMain[8 + 2 * NClear + i] = Clearing[i]
         /\ \A i \in 1 .. 6 : NXApplicationMain[8 + 3 * NClear + i] = [do |-> "release", on |-> ReleasedParts[i]]
         /\ NXApplicationMain[15 + 3 * NClear] = [do |-> "exit", on |-> 0]
<1>. DEFINE make == Do("make", <<"zone", "pool", "app", "delegate", "args">>)
            enable == Do("enable", <<"watchdog", "power">>)
            run == Do("run", <<0>>)
            release == Do("release", <<"watchdog", "power", "app", "delegate", "pool", "zone">>)
            exit == Do("exit", <<0>>)
            first == make \o Installing
            second == first \o enable
            third == second \o run
            fourth == Clearing \o release
<1>1. make \in Seq(Tasks) /\ Len(make) = 5 /\ \A i \in 1 .. 5 : make[i] = [do |-> "make", on |-> MadeParts[i]]
  BY PartLists, DoTasks DEF Whats, MadeParts
<1>2. enable \in Seq(Tasks) /\ Len(enable) = 2
      /\ \A i \in 1 .. 2 : enable[i] = [do |-> "enable", on |-> EnabledParts[i]]
  BY PartLists, DoTasks DEF Whats, EnabledParts
<1>3. release \in Seq(Tasks) /\ Len(release) = 6
      /\ \A i \in 1 .. 6 : release[i] = [do |-> "release", on |-> ReleasedParts[i]]
  BY PartLists, DoTasks DEF Whats, ReleasedParts
<1>5. run \in Seq(Tasks) /\ Len(run) = 1 /\ run[1] = [do |-> "run", on |-> 0]
  BY DoOne DEF Whats, Things
<1>6. exit \in Seq(Tasks) /\ Len(exit) = 1 /\ exit[1] = [do |-> "exit", on |-> 0]
  BY DoOne DEF Whats, Things
<1>. DEFINE fifth == fourth \o exit
<1>4. /\ NXApplicationMain = third \o fifth /\ fifth = fourth \o exit /\ fourth = Clearing \o release
      /\ third = second \o run /\ second = first \o enable /\ first = make \o Installing
  BY DEF NXApplicationMain, Ending
<1>8. NClear \in Nat /\ Clearing \in Seq(Tasks) /\ Len(Clearing) = NClear
      /\ Installing \in Seq(Tasks) /\ Len(Installing) = 2 * NClear /\ 2 * NClear \in Nat
  BY ClearingTasks, InstallingTasks
<1>. HIDE DEF make, enable, run, release, exit, first, second, third, fourth, fifth
<1>9. /\ first \in Seq(Tasks) /\ Len(first) = 5 + 2 * NClear
      /\ \A i \in 1 .. 5 : first[i] = make[i]
      /\ \A i \in 1 .. 2 * NClear : first[5 + i] = Installing[i]
  <2>1. IsJoin(first, make, 5, Installing, 2 * NClear)
    BY ONLY <1>1, <1>4, <1>8 DEF IsJoin
  <2>. QED BY ONLY <2>1, Joined
<1>10. /\ fourth \in Seq(Tasks) /\ Len(fourth) = NClear + 6
       /\ \A i \in 1 .. NClear : fourth[i] = Clearing[i]
       /\ \A i \in 1 .. 6 : fourth[NClear + i] = release[i]
  <2>1. IsJoin(fourth, Clearing, NClear, release, 6)
    BY ONLY <1>3, <1>4, <1>8 DEF IsJoin
  <2>. QED BY ONLY <2>1, Joined
<1>11. /\ second \in Seq(Tasks) /\ Len(second) = 7 + 2 * NClear
       /\ \A i \in 1 .. 5 + 2 * NClear : second[i] = first[i]
       /\ \A i \in 1 .. 2 : second[5 + 2 * NClear + i] = enable[i]
  <2>1. /\ second \in Seq(Tasks) /\ Len(second) = 5 + 2 * NClear + 2
        /\ \A i \in 1 .. 5 + 2 * NClear : second[i] = first[i]
        /\ \A i \in 1 .. 2 : second[5 + 2 * NClear + i] = enable[i]
    <3>1. IsJoin(second, first, 5 + 2 * NClear, enable, 2)
      BY ONLY <1>2, <1>4, <1>9 DEF IsJoin
    <3>. QED BY ONLY <3>1, Joined
  <2>2. 5 + 2 * NClear + 2 = 7 + 2 * NClear
    BY <1>8
  <2>. QED BY ONLY <2>1, <2>2
<1>12. /\ third \in Seq(Tasks) /\ Len(third) = 8 + 2 * NClear
       /\ \A i \in 1 .. 7 + 2 * NClear : third[i] = second[i]
       /\ third[8 + 2 * NClear] = run[1]
  <2>1. /\ third \in Seq(Tasks) /\ Len(third) = 7 + 2 * NClear + 1
        /\ \A i \in 1 .. 7 + 2 * NClear : third[i] = second[i]
        /\ \A i \in 1 .. 1 : third[7 + 2 * NClear + i] = run[i]
    <3>1. IsJoin(third, second, 7 + 2 * NClear, run, 1)
      BY ONLY <1>4, <1>5, <1>11 DEF IsJoin
    <3>. QED BY ONLY <3>1, Joined
  <2>2. 7 + 2 * NClear + 1 = 8 + 2 * NClear /\ 1 \in 1 .. 1
    BY <1>8
  <2>3. third[7 + 2 * NClear + 1] = run[1]
    BY ONLY <2>1, <2>2
  <2>. QED BY ONLY <2>1, <2>2, <2>3
<1>13. /\ fifth \in Seq(Tasks) /\ Len(fifth) = NClear + 7
       /\ \A i \in 1 .. NClear + 6 : fifth[i] = fourth[i]
       /\ fifth[NClear + 7] = exit[1]
  <2>1. /\ fifth \in Seq(Tasks) /\ Len(fifth) = NClear + 6 + 1
        /\ \A i \in 1 .. NClear + 6 : fifth[i] = fourth[i]
        /\ \A i \in 1 .. 1 : fifth[NClear + 6 + i] = exit[i]
    <3>1. IsJoin(fifth, fourth, NClear + 6, exit, 1)
      BY ONLY <1>4, <1>6, <1>10 DEF IsJoin
    <3>. QED BY ONLY <3>1, Joined
  <2>2. NClear + 6 + 1 = NClear + 7 /\ 1 \in 1 .. 1
    BY <1>8
  <2>3. fifth[NClear + 6 + 1] = exit[1]
    BY ONLY <2>1, <2>2
  <2>. QED BY ONLY <2>1, <2>2, <2>3
<1>14. /\ NXApplicationMain \in Seq(Tasks) /\ Len(NXApplicationMain) = 15 + 3 * NClear
       /\ \A i \in 1 .. 8 + 2 * NClear : NXApplicationMain[i] = third[i]
       /\ \A i \in 1 .. NClear + 7 : NXApplicationMain[8 + 2 * NClear + i] = fifth[i]
  <2>1. /\ NXApplicationMain \in Seq(Tasks) /\ Len(NXApplicationMain) = 8 + 2 * NClear + (NClear + 7)
        /\ \A i \in 1 .. 8 + 2 * NClear : NXApplicationMain[i] = third[i]
        /\ \A i \in 1 .. NClear + 7 : NXApplicationMain[8 + 2 * NClear + i] = fifth[i]
    <3>1. IsJoin(NXApplicationMain, third, 8 + 2 * NClear, fifth, NClear + 7)
      BY ONLY <1>4, <1>12, <1>13 DEF IsJoin
    <3>. QED BY ONLY <3>1, Joined
  <2>2. 8 + 2 * NClear + (NClear + 7) = 15 + 3 * NClear
    BY <1>8
  <2>. QED BY ONLY <2>1, <2>2
<1>15. ASSUME NEW i \in 1 .. 5 PROVE NXApplicationMain[i] = [do |-> "make", on |-> MadeParts[i]]
  <2>1. i \in 1 .. 8 + 2 * NClear /\ i \in 1 .. 7 + 2 * NClear /\ i \in 1 .. 5 + 2 * NClear
    BY <1>8
  <2>2. NXApplicationMain[i] = third[i] /\ third[i] = second[i]
    BY ONLY <1>12, <1>14, <2>1
  <2>3. second[i] = first[i] /\ first[i] = make[i]
    BY ONLY <1>9, <1>11, <2>1
  <2>. QED BY ONLY <1>1, <2>2, <2>3
<1>16. ASSUME NEW i \in 1 .. 2 * NClear PROVE NXApplicationMain[5 + i] = Installing[i]
  <2>1. 5 + i \in 1 .. 8 + 2 * NClear /\ 5 + i \in 1 .. 7 + 2 * NClear /\ 5 + i \in 1 .. 5 + 2 * NClear
    BY <1>8
  <2>2. NXApplicationMain[5 + i] = third[5 + i] /\ third[5 + i] = second[5 + i]
    BY ONLY <1>12, <1>14, <2>1
  <2>3. second[5 + i] = first[5 + i] /\ first[5 + i] = Installing[i]
    BY ONLY <1>9, <1>11, <2>1
  <2>. QED BY ONLY <2>2, <2>3
<1>17. ASSUME NEW i \in 1 .. 2
       PROVE  NXApplicationMain[5 + 2 * NClear + i] = [do |-> "enable", on |-> EnabledParts[i]]
  <2>1. 5 + 2 * NClear + i \in 1 .. 8 + 2 * NClear /\ 5 + 2 * NClear + i \in 1 .. 7 + 2 * NClear
    BY <1>8
  <2>2. /\ NXApplicationMain[5 + 2 * NClear + i] = third[5 + 2 * NClear + i]
        /\ third[5 + 2 * NClear + i] = second[5 + 2 * NClear + i]
    BY ONLY <1>12, <1>14, <2>1
  <2>3. second[5 + 2 * NClear + i] = enable[i] /\ enable[i] = [do |-> "enable", on |-> EnabledParts[i]]
    BY ONLY <1>2, <1>11
  <2>. QED BY ONLY <2>2, <2>3
<1>18. NXApplicationMain[8 + 2 * NClear] = [do |-> "run", on |-> 0]
  <2>1. 8 + 2 * NClear \in 1 .. 8 + 2 * NClear
    BY <1>8
  <2>. QED BY <1>5, <1>12, <1>14, <2>1
<1>19. ASSUME NEW i \in 1 .. NClear PROVE NXApplicationMain[8 + 2 * NClear + i] = Clearing[i]
  <2>1. i \in 1 .. NClear + 7 /\ i \in 1 .. NClear + 6
    BY <1>8
  <2>2. NXApplicationMain[8 + 2 * NClear + i] = fifth[i]
    BY ONLY <1>14, <2>1
  <2>3. fifth[i] = fourth[i] /\ fourth[i] = Clearing[i]
    BY ONLY <1>10, <1>13, <2>1
  <2>. QED BY ONLY <2>2, <2>3
<1>20. ASSUME NEW i \in 1 .. 6
       PROVE  NXApplicationMain[8 + 3 * NClear + i] = [do |-> "release", on |-> ReleasedParts[i]]
  <2>1. NClear + i \in 1 .. NClear + 7 /\ NClear + i \in 1 .. NClear + 6 /\ 8 + 2 * NClear + (NClear + i) = 8 + 3 * NClear + i
    BY <1>8
  <2>2. NXApplicationMain[8 + 2 * NClear + (NClear + i)] = fifth[NClear + i] /\ fifth[NClear + i] = fourth[NClear + i]
    BY ONLY <1>13, <1>14, <2>1
  <2>3. fourth[NClear + i] = release[i] /\ release[i] = [do |-> "release", on |-> ReleasedParts[i]]
    BY ONLY <1>3, <1>10
  <2>. QED BY ONLY <2>1, <2>2, <2>3
<1>21. NXApplicationMain[15 + 3 * NClear] = [do |-> "exit", on |-> 0]
  <2>1. NClear + 7 \in 1 .. NClear + 7 /\ 8 + 2 * NClear + (NClear + 7) = 15 + 3 * NClear
    BY <1>8
  <2>. QED BY <1>6, <1>13, <1>14, <2>1
<1>. QED BY <1>14, <1>15, <1>16, <1>17, <1>18, <1>19, <1>20, <1>21

(* Which steps are of each kind.                                           *)
NextTask(n) == NXApplicationMain[n + 1]

(* Which task comes at which place.                                        *)
LEMMA TaskKinds ==
  ASSUME posix \in BOOLEAN, NEW n \in 0 .. 14 + 3 * NClear
  PROVE  /\ NextTask(n).do = "make" => n \in 0 .. 4 /\ NextTask(n).on = MadeParts[n + 1]
         /\ NextTask(n).do = "default" =>
              /\ posix
              /\ \/ n \in 5 .. 3 + NClear
                 \/ n \in 8 + 2 * NClear .. 6 + 3 * NClear /\ NextTask(n).on = InTurn[n - (7 + 2 * NClear)]
         /\ NextTask(n).do = "forget" => posix /\ n \in {4 + NClear, 7 + 3 * NClear}
         /\ NextTask(n).do = "handle" => posix /\ n \in 5 + NClear .. 3 + 2 * NClear
         /\ NextTask(n).do = "call" => posix /\ n = 4 + 2 * NClear
         /\ posix /\ n \in 5 + NClear .. 4 + 2 * NClear => NextTask(n).do \in {"handle", "call"}
         /\ NextTask(n).do = "enable" => n \in 5 + 2 * NClear .. 6 + 2 * NClear /\ NextTask(n).on = EnabledParts[n - (4 + 2 * NClear)]
         /\ NextTask(n).do = "run" <=> n = 7 + 2 * NClear
         /\ NextTask(n).do = "release" => n \in 8 + 3 * NClear .. 13 + 3 * NClear /\ NextTask(n).on = ReleasedParts[n - (7 + 3 * NClear)]
         /\ NextTask(n).do = "exit" <=> n = 14 + 3 * NClear
<1>1. NClear \in Nat /\ NSig \in Nat /\ (posix => NClear = NSig + 1) /\ (~posix => NClear = 0) /\ n \in Nat /\ n <= 14 + 3 * NClear
  BY ClearingTasks, Signalling DEF NClear
<1>2. CASE n \in 0 .. 4
  <2>1. n + 1 \in 1 .. 5
    BY <1>2
  <2>2. NextTask(n) = [do |-> "make", on |-> MadeParts[n + 1]]
    BY <2>1, Layout DEF NextTask
  <2>. QED BY <1>1, <1>2, <2>2
<1>3. CASE n \in 5 .. 4 + 2 * NClear
  <2>. DEFINE i == n - 4
  <2>1. i \in 1 .. 2 * NClear /\ n + 1 = 5 + i /\ posix
    BY <1>1, <1>3
  <2>2. NextTask(n) = Installing[i]
    BY <2>1, Layout DEF NextTask
  <2>3. CASE n \in 5 .. 3 + NClear
    <3>1. i \in 1 .. NSig
      BY <1>1, <2>1, <2>3
    <3>2. Installing[i] = [do |-> "default", on |-> InTurn[i]]
      BY <2>1, <3>1, InstallingTasks
    <3>3. NextTask(n).do = "default"
      BY <2>2, <3>2
    <3>. QED BY <1>1, <2>1, <2>3, <3>3
  <2>4. CASE n = 4 + NClear
    <3>1. i = NClear
      BY <1>1, <2>4
    <3>2. NextTask(n).do = "forget"
      BY <2>1, <2>2, <3>1, InstallingTasks
    <3>. QED BY <1>1, <2>1, <2>4, <3>2
  <2>5. CASE n \in 5 + NClear .. 3 + 2 * NClear
    <3>1. i - NClear \in 1 .. NSig /\ NClear + (i - NClear) = i
      BY <1>1, <2>1, <2>5
    <3>2. \A j \in 1 .. NSig : Installing[NClear + j] = [do |-> "handle", on |-> InTurn[j]]
      BY <2>1, InstallingTasks
    <3>3. Installing[i] = [do |-> "handle", on |-> InTurn[i - NClear]]
      BY <3>1, <3>2
    <3>4. NextTask(n).do = "handle"
      BY <2>2, <3>3
    <3>. QED BY <1>1, <2>1, <2>5, <3>4
  <2>6. CASE n = 4 + 2 * NClear
    <3>1. i = 2 * NClear
      BY <1>1, <2>6
    <3>2. NextTask(n).do = "call"
      BY <2>1, <2>2, <3>1, InstallingTasks
    <3>. QED BY <1>1, <2>1, <2>6, <3>2
  <2>. QED BY <1>1, <1>3, <2>3, <2>4, <2>5, <2>6
<1>4. CASE n \in 5 + 2 * NClear .. 6 + 2 * NClear
  <2>. DEFINE i == n - (4 + 2 * NClear)
  <2>1. i \in 1 .. 2 /\ n + 1 = 5 + 2 * NClear + i
    BY <1>1, <1>4
  <2>2. NextTask(n) = [do |-> "enable", on |-> EnabledParts[i]]
    BY <2>1, Layout DEF NextTask
  <2>. QED BY <1>1, <1>4, <2>2
<1>5. CASE n = 7 + 2 * NClear
  <2>1. NextTask(n) = [do |-> "run", on |-> 0]
    <3>1. n + 1 = 8 + 2 * NClear
      BY <1>1, <1>5
    <3>. QED BY <3>1, Layout DEF NextTask
  <2>. QED BY <1>1, <1>5, <2>1
<1>6. CASE n \in 8 + 2 * NClear .. 7 + 3 * NClear
  <2>. DEFINE i == n - (7 + 2 * NClear)
  <2>1. i \in 1 .. NClear /\ n + 1 = 8 + 2 * NClear + i /\ posix
    BY <1>1, <1>6
  <2>2. NextTask(n) = Clearing[i]
    BY <2>1, Layout DEF NextTask
  <2>3. CASE n \in 8 + 2 * NClear .. 6 + 3 * NClear
    <3>1. i \in 1 .. NSig
      BY <1>1, <2>1, <2>3
    <3>2. NextTask(n) = [do |-> "default", on |-> InTurn[i]]
      BY <2>1, <2>2, <3>1, ClearingTasks
    <3>. QED BY <1>1, <2>1, <2>3, <3>2
  <2>4. CASE n = 7 + 3 * NClear
    <3>1. i = NClear
      BY <1>1, <2>4
    <3>2. NextTask(n).do = "forget"
      BY <2>1, <2>2, <3>1, ClearingTasks
    <3>. QED BY <1>1, <2>1, <2>4, <3>2
  <2>. QED BY <1>1, <1>6, <2>3, <2>4
<1>7. CASE n \in 8 + 3 * NClear .. 13 + 3 * NClear
  <2>. DEFINE i == n - (7 + 3 * NClear)
  <2>1. i \in 1 .. 6 /\ n + 1 = 8 + 3 * NClear + i
    BY <1>1, <1>7
  <2>2. NextTask(n) = [do |-> "release", on |-> ReleasedParts[i]]
    BY <2>1, Layout DEF NextTask
  <2>. QED BY <1>1, <1>7, <2>2
<1>8. CASE n = 14 + 3 * NClear
  <2>1. n + 1 = 15 + 3 * NClear
    BY <1>1, <1>8
  <2>2. NextTask(n) = [do |-> "exit", on |-> 0]
    BY <2>1, Layout DEF NextTask
  <2>. QED BY <1>1, <1>8, <2>2
<1>9. \/ n \in 0 .. 4 \/ n \in 5 .. 4 + 2 * NClear \/ n \in 5 + 2 * NClear .. 6 + 2 * NClear \/ n = 7 + 2 * NClear
      \/ n \in 8 + 2 * NClear .. 7 + 3 * NClear \/ n \in 8 + 3 * NClear .. 13 + 3 * NClear \/ n = 14 + 3 * NClear
  BY <1>1
<1>. QED BY <1>2, <1>3, <1>4, <1>5, <1>6, <1>7, <1>8, <1>9

-----------------------------------------------------------------------------
(* The steps that main has done.                                           *)
DoneSteps == 15 + 3 * NClear - Len(plan)

Following ==
  /\ posix \in BOOLEAN /\ plan \in Seq(Tasks) /\ Len(plan) \in 1 .. 15 + 3 * NClear
  /\ \A i \in 1 .. Len(plan) : plan[i] = NXApplicationMain[DoneSteps + i]

(* What there is after n steps.                                            *)
MadeAfter(n, made0) ==
  /\ made0 \subseteq Parts \cup {"defaultZone"}
  /\ ("pool" \in made0) <=> (2 <= n /\ n < 13 + 3 * NClear)
  /\ ("app" \in made0) <=> (3 <= n /\ n < 11 + 3 * NClear)
  /\ "delegate" \in made0 => (4 <= n /\ n < 12 + 3 * NClear)
  /\ "args" \in made0 => (5 <= n /\ n < 13 + 3 * NClear)
  /\ "watchdog" \in made0 => n < 9 + 3 * NClear
  /\ "power" \in made0 => n < 10 + 3 * NClear
  /\ "zone" \in made0 => n < 14 + 3 * NClear
  /\ (1 <= n /\ n < 14 + 3 * NClear) => ("zone" \in made0 \/ "defaultZone" \in made0)

(* The handlers after n steps: those that are still installed while the    *)
(* callback is not set were not cleared because a call failed, or are      *)
(* being installed.                                                        *)
HandledAfter(n, handler0, success0, actions0) ==
  /\ handler0 \in BOOLEAN /\ success0 \in BOOLEAN /\ actions0 \in [Signals -> {"default", "handle"}]
  /\ handler0 => (posix /\ 5 + 2 * NClear <= n /\ n < 8 + 3 * NClear)
  /\ (success0 /\ \E s \in Signals : actions0[s] = "handle") =>
       (posix /\ 5 + NClear <= n /\ (n < 5 + 2 * NClear \/ handler0))
  /\ (success0 /\ posix) => (\A i \in 1 .. NSig : (8 + 2 * NClear + i <= n) => (actions0[InTurn[i]] = "default"))

Heard ==
  /\ closed \in BOOLEAN /\ told \in BOOLEAN /\ missed \in BOOLEAN /\ strayed = FALSE
  /\ told => (closed \/ missed)

LaunchInv ==
  /\ Following
  /\ inRun \in {"no", "delegate", "pop", "locked", "waiting"}
  /\ inRun # "no" => DoneSteps = 7 + 2 * NClear
  /\ outcome \in {"no", "panic", "returned", "killed"}
  /\ outcome = "returned" => DoneSteps = 14 + 3 * NClear
  /\ MadeAfter(DoneSteps, made)
  /\ HandledAfter(DoneSteps, handler, success, actions)
  /\ Heard

(* The next task is the one after those done.                              *)
LEMMA HeadOfPlan ==
  ASSUME Following
  PROVE  /\ NClear \in Nat /\ DoneSteps \in 0 .. 14 + 3 * NClear /\ Head(plan) = NextTask(DoneSteps)
<1>1. NClear \in Nat /\ Len(plan) \in 1 .. 15 + 3 * NClear
  BY ClearingTasks DEF Following
<1>2. plan # <<>> /\ Head(plan) = plan[1] /\ 1 \in 1 .. Len(plan)
  BY <1>1, HeadTailProperties DEF Following
<1>. QED BY <1>1, <1>2 DEF Following, DoneSteps, NextTask

(* A task that is done leaves the following one.                           *)
LEMMA Advances ==
  ASSUME Following, Advance, posix' = posix, DoneSteps # 14 + 3 * NClear
  PROVE  Following' /\ DoneSteps' = DoneSteps + 1 /\ NClear' = NClear /\ NXApplicationMain' = NXApplicationMain
<1>1. NClear' = NClear /\ NXApplicationMain' = NXApplicationMain
  BY DEF NClear, NXApplicationMain, Installing, Ending, Clearing
<1>2. NClear \in Nat /\ Len(plan) \in 2 .. 15 + 3 * NClear /\ plan # <<>>
  <2>1. NClear \in Nat /\ Len(plan) \in 1 .. 15 + 3 * NClear
    BY ClearingTasks DEF Following
  <2>. QED BY <2>1 DEF DoneSteps
<1>3. /\ plan' \in Seq(Tasks) /\ Len(plan') = Len(plan) - 1
      /\ \A i \in 1 .. Len(plan') : plan'[i] = plan[i + 1]
  BY <1>2, HeadTailProperties DEF Following, Advance
<1>4. DoneSteps' = DoneSteps + 1 /\ DoneSteps \in Int
  BY <1>1, <1>2, <1>3 DEF DoneSteps
<1>5. ASSUME NEW i \in 1 .. Len(plan') PROVE plan'[i] = NXApplicationMain[DoneSteps + 1 + i]
  <2>1. i + 1 \in 1 .. Len(plan) /\ DoneSteps + (i + 1) = DoneSteps + 1 + i
    BY <1>2, <1>3, <1>4
  <2>2. plan[i + 1] = NXApplicationMain[DoneSteps + (i + 1)]
    BY <2>1 DEF Following
  <2>. QED BY <1>3, <2>1, <2>2
<1>6. posix' \in BOOLEAN /\ plan' \in Seq(Tasks) /\ Len(plan') \in 1 .. 15 + 3 * NClear'
  BY <1>1, <1>2, <1>3 DEF Following
<1>7. \A i \in 1 .. Len(plan') : plan'[i] = NXApplicationMain'[DoneSteps' + i]
  BY <1>1, <1>4, <1>5
<1>. QED BY <1>1, <1>4, <1>6, <1>7 DEF Following

(* A step that leaves the plan leaves what depends on it.                  *)
LEMMA Stays ==
  ASSUME Following, plan' = plan, posix' = posix
  PROVE  Following' /\ DoneSteps' = DoneSteps /\ NClear' = NClear
<1>1. NClear' = NClear /\ NXApplicationMain' = NXApplicationMain
  BY DEF NClear, NXApplicationMain, Installing, Ending, Clearing
<1>. QED BY <1>1 DEF Following, DoneSteps

(* The start of the process satisfies the invariant.                       *)
LEMMA LaunchStarts == LaunchInit => LaunchInv
<1>. SUFFICES ASSUME LaunchInit PROVE LaunchInv
  OBVIOUS
<1>1. posix \in BOOLEAN /\ plan = NXApplicationMain
  BY DEF LaunchInit
<1>2. NClear \in Nat /\ plan \in Seq(Tasks) /\ Len(plan) = 15 + 3 * NClear
  BY <1>1, Layout, ClearingTasks
<1>3. DoneSteps = 0 /\ Following
  BY <1>1, <1>2 DEF Following, DoneSteps
<1>4. MadeAfter(0, made)
  <2>1. made = {} \/ made = {"defaultZone"}
    BY DEF LaunchInit
  <2>. QED BY <1>2, <2>1 DEF MadeAfter, Parts
<1>5. HandledAfter(0, handler, success, actions)
  BY <1>2, Signalling DEF LaunchInit, HandledAfter
<1>. QED BY <1>3, <1>4, <1>5 DEF LaunchInit, LaunchInv, Heard

-----------------------------------------------------------------------------
(* What there is and the handlers depend on the number of steps and posix. *)
LEMMA TasksKept ==
  ASSUME posix' = posix, NEW n, NEW m, NEW h, NEW u, NEW a
  PROVE  /\ NClear' = NClear /\ NSig' = NSig /\ InTurn' = InTurn
         /\ MadeAfter(n, m)' <=> MadeAfter(n, m)
         /\ HandledAfter(n, h, u, a)' <=> HandledAfter(n, h, u, a)
<1>1. NClear' = NClear /\ NSig' = NSig /\ InTurn' = InTurn
  BY DEF NClear, NSig, InTurn
<1>. QED BY <1>1 DEF MadeAfter, HandledAfter

(* Making an object keeps the invariant.                                   *)
LEMMA MakeKeeps ==
  ASSUME LaunchInv, MakeOne
  PROVE  LaunchInv'
<1>. DEFINE n == DoneSteps
<1>1. Following /\ MadeAfter(n, made) /\ HandledAfter(n, handler, success, actions) /\ Heard /\ posix \in BOOLEAN
  BY DEF LaunchInv, Following
<1>2. NClear \in Nat /\ n \in 0 .. 4 /\ Target = MadeParts[n + 1] /\ inRun = "no"
  BY <1>1, HeadOfPlan, TaskKinds DEF MakeOne, Doing, Target
<1>3. /\ posix' = posix /\ inRun' = "no" /\ actions' = actions /\ handler' = handler /\ success' = success
      /\ Heard' /\ outcome' \in {"no", "panic"}
  BY <1>1, <1>2 DEF MakeOne, met, Heard, Doing
<1>4. Advance => plan' # plan
  <2>1. Len(Tail(plan)) = Len(plan) - 1 /\ Len(plan) \in Int
    BY <1>1, <1>2, HeadTailProperties DEF Following
  <2>. QED BY <2>1 DEF Advance
<1>5. CASE plan' = plan
  <2>1. made' = made
    BY <1>4, <1>5 DEF MakeOne
  <2>2. Following' /\ DoneSteps' = n
    BY <1>1, <1>3, <1>5, Stays
  <2>3. MadeAfter(DoneSteps, made)' /\ HandledAfter(DoneSteps, handler, success, actions)'
    BY <1>1, <1>3, <2>1, <2>2, TasksKept
  <2>. QED BY <1>2, <1>3, <2>2, <2>3 DEF LaunchInv
<1>6. CASE Advance
  <2>1. Following' /\ DoneSteps' = n + 1
    BY <1>1, <1>2, <1>3, <1>6, Advances
  <2>2. \/ Target = "zone" /\ Zones # {} /\ made' = made
        \/ Target = "delegate" /\ made' = made
        \/ made' = made \cup {Target}
    BY <1>4, <1>6 DEF MakeOne
  <2>. HIDE DEF n
  <2>3. MadeAfter(n + 1, made')
    <3>1. CASE n = 0
      <4>1. Target = "zone"
        BY <1>2, <3>1 DEF MadeParts
      <4>2. (made' = made /\ ("zone" \in made \/ "defaultZone" \in made)) \/ made' = made \cup {"zone"}
        BY <2>2, <4>1 DEF Zones
      <4>3. CASE made' = made \cup {"zone"}
        BY <1>1, <1>2, <3>1, <4>3 DEF MadeAfter, Parts
      <4>4. CASE made' = made /\ ("zone" \in made \/ "defaultZone" \in made)
        BY <1>1, <1>2, <3>1, <4>4 DEF MadeAfter, Parts
      <4>. QED BY <4>2, <4>3, <4>4
    <3>2. CASE n = 1
      <4>1. made' = made \cup {"pool"}
        BY <1>2, <2>2, <3>2 DEF MadeParts
      <4>. QED BY <1>1, <1>2, <3>2, <4>1 DEF MadeAfter, Parts
    <3>3. CASE n = 2
      <4>1. made' = made \cup {"app"}
        BY <1>2, <2>2, <3>3 DEF MadeParts
      <4>. QED BY <1>1, <1>2, <3>3, <4>1 DEF MadeAfter, Parts
    <3>4. CASE n = 3
      <4>1. made' = made \/ made' = made \cup {"delegate"}
        BY <1>2, <2>2, <3>4 DEF MadeParts
      <4>2. CASE made' = made
        BY <1>1, <1>2, <3>4, <4>2 DEF MadeAfter, Parts
      <4>3. CASE made' = made \cup {"delegate"}
        BY <1>1, <1>2, <3>4, <4>3 DEF MadeAfter, Parts
      <4>. QED BY <4>1, <4>2, <4>3
    <3>5. CASE n = 4
      <4>1. made' = made \cup {"args"}
        BY <1>2, <2>2, <3>5 DEF MadeParts
      <4>. QED BY <1>1, <1>2, <3>5, <4>1 DEF MadeAfter, Parts
    <3>. QED BY <1>2, <3>1, <3>2, <3>3, <3>4, <3>5
  <2>4. HandledAfter(n + 1, handler, success, actions)
    BY <1>1, <1>2 DEF HandledAfter
  <2>5. MadeAfter(DoneSteps, made)' /\ HandledAfter(DoneSteps, handler, success, actions)'
    BY <1>3, <2>1, <2>3, <2>4, TasksKept DEF n
  <2>. QED BY <1>2, <1>3, <2>1, <2>5 DEF LaunchInv
<1>. QED BY <1>5, <1>6 DEF MakeOne

(* What a step of main leaves of the rest of the invariant.                *)
Rest ==
  /\ posix' = posix /\ inRun' = "no" /\ closed' = closed /\ told' = told /\ missed' = missed /\ strayed' = strayed

(* What a task has to do to keep the invariant.                            *)
LEMMA StepKeeps ==
  ASSUME LaunchInv, Rest, Advance, DoneSteps # 14 + 3 * NClear, outcome' = "no",
         MadeAfter(DoneSteps + 1, made'), HandledAfter(DoneSteps + 1, handler', success', actions')
  PROVE  LaunchInv'
<1>1. Following /\ Heard
  BY DEF LaunchInv
<1>2. Following' /\ DoneSteps' = DoneSteps + 1
  BY <1>1, Advances DEF Rest
<1>3. MadeAfter(DoneSteps, made)' /\ HandledAfter(DoneSteps, handler, success, actions)'
  BY <1>2, TasksKept DEF Rest
<1>4. Heard'
  BY <1>1 DEF Heard, Rest
<1>. QED BY <1>2, <1>3, <1>4 DEF LaunchInv, Rest

(* Setting the action of a signal keeps it.                                *)
LEMMA ActionKeeps ==
  ASSUME LaunchInv, SetAction
  PROVE  LaunchInv'
<1>. DEFINE n == DoneSteps
<1>1. Following /\ MadeAfter(n, made) /\ HandledAfter(n, handler, success, actions) /\ posix \in BOOLEAN
  BY DEF LaunchInv, Following
<1>2. NClear \in Nat /\ n \in 0 .. 14 + 3 * NClear /\ NSig \in Nat /\ posix /\ NClear = NSig + 1
  BY <1>1, HeadOfPlan, TaskKinds, ClearingTasks, Signalling DEF SetAction, Doing
<1>3. \/ Doing("default") /\ n \in 5 .. 3 + NClear
      \/ Doing("default") /\ n \in 8 + 2 * NClear .. 6 + 3 * NClear /\ Target = InTurn[n - (7 + 2 * NClear)]
      \/ Doing("handle") /\ n \in 5 + NClear .. 3 + 2 * NClear
  BY <1>1, HeadOfPlan, TaskKinds DEF SetAction, Doing, Target
<1>4. Rest /\ Advance /\ outcome' = "no" /\ made' = made /\ handler' = handler
  BY DEF SetAction, Rest, met, Doing
<1>5. PICK ok \in BOOLEAN :
         /\ actions' = IF ok THEN [actions EXCEPT ![Target] = Head(plan).do] ELSE actions
         /\ success' = (success /\ ok)
  BY DEF SetAction
<1>6. InTurn \in [1 .. NSig -> Signals]
  BY Signalling
<1>. HIDE DEF n
<1>7. MadeAfter(n + 1, made')
  BY <1>1, <1>2, <1>3, <1>4 DEF MadeAfter
<1>8. success' \in BOOLEAN /\ actions' \in [Signals -> {"default", "handle"}]
  BY <1>1, <1>3, <1>5 DEF HandledAfter, Doing
<1>9. CASE ~success'
  BY <1>1, <1>2, <1>3, <1>4, <1>8, <1>9, StepKeeps, <1>7 DEF HandledAfter, n
<1>10. CASE success'
  <2>1. success /\ actions' = [actions EXCEPT ![Target] = Head(plan).do]
    BY <1>1, <1>5, <1>10 DEF HandledAfter
  <2>2. CASE Doing("default") /\ n \in 5 .. 3 + NClear
    <3>1. \A s \in Signals : actions[s] # "handle"
      BY <1>1, <1>2, <2>1, <2>2 DEF HandledAfter
    <3>2. \A s \in Signals : actions'[s] # "handle"
      BY <1>1, <2>1, <2>2, <3>1 DEF HandledAfter, Doing
    <3>3. HandledAfter(n + 1, handler', success', actions')
      BY <1>1, <1>2, <1>4, <1>8, <2>2, <3>2 DEF HandledAfter
    <3>. QED BY <1>2, <1>4, <1>7, <2>2, <3>3, StepKeeps DEF n
  <2>3. CASE Doing("default") /\ n \in 8 + 2 * NClear .. 6 + 3 * NClear /\ Target = InTurn[n - (7 + 2 * NClear)]
    <3>. DEFINE j == n - (7 + 2 * NClear)
    <3>1. j \in 1 .. NSig /\ 8 + 2 * NClear + j = n + 1
      BY <1>2, <2>3
    <3>2. actions' = [actions EXCEPT ![InTurn[j]] = "default"] /\ actions \in [Signals -> {"default", "handle"}]
      BY <1>1, <2>1, <2>3 DEF HandledAfter, Doing
    <3>. HIDE DEF j
    <3>3. ASSUME NEW i \in 1 .. NSig, 8 + 2 * NClear + i <= n + 1 PROVE actions'[InTurn[i]] = "default"
      <4>1. CASE i = j
        BY <1>6, <3>1, <3>2, <4>1
      <4>2. CASE i # j
        <5>1. 8 + 2 * NClear + i <= n
          BY <1>2, <3>1, <3>3, <4>2
        <5>2. actions[InTurn[i]] = "default"
          BY <1>1, <1>2, <2>1, <5>1 DEF HandledAfter
        <5>. QED BY <1>6, <3>2, <5>2
      <4>. QED BY <4>1, <4>2
    <3>4. (\E s \in Signals : actions'[s] = "handle") => \E s \in Signals : actions[s] = "handle"
      BY <1>6, <3>1, <3>2
    <3>5. handler' => (5 + 2 * NClear <= n + 1 /\ n + 1 < 8 + 3 * NClear)
      BY <1>1, <1>2, <1>4, <2>3 DEF HandledAfter
    <3>6. (\E s \in Signals : actions'[s] = "handle") => (5 + NClear <= n + 1 /\ handler')
      BY <1>1, <1>2, <1>4, <2>1, <2>3, <3>4 DEF HandledAfter
    <3>7. handler' \in BOOLEAN
      BY <1>1, <1>4 DEF HandledAfter
    <3>8. HandledAfter(n + 1, handler', success', actions')
      BY <1>2, <1>8, <3>3, <3>5, <3>6, <3>7 DEF HandledAfter
    <3>. QED BY <1>2, <1>4, <1>7, <2>3, <3>8, StepKeeps DEF n
  <2>4. CASE Doing("handle") /\ n \in 5 + NClear .. 3 + 2 * NClear
    <3>1. ~handler
      BY <1>1, <1>2, <2>4 DEF HandledAfter
    <3>2. handler' \in BOOLEAN /\ ~handler'
      BY <1>1, <1>4, <3>1 DEF HandledAfter
    <3>3. /\ 5 + NClear <= n + 1 /\ n + 1 < 5 + 2 * NClear
          /\ \A i \in 1 .. NSig : ~(8 + 2 * NClear + i <= n + 1)
      BY <1>2, <2>4
    <3>4. HandledAfter(n + 1, handler', success', actions')
      BY <1>2, <1>8, <3>2, <3>3 DEF HandledAfter
    <3>. QED BY <1>2, <1>4, <1>7, <2>4, <3>4, StepKeeps DEF n
  <2>. QED BY <1>3, <2>2, <2>3, <2>4
<1>. QED BY <1>8, <1>9, <1>10

(* Setting the handler keeps it.                                           *)
LEMMA HandlerKeeps ==
  ASSUME LaunchInv, SetHandler
  PROVE  LaunchInv'
<1>. DEFINE n == DoneSteps
<1>1. Following /\ MadeAfter(n, made) /\ HandledAfter(n, handler, success, actions) /\ posix \in BOOLEAN
  BY DEF LaunchInv, Following
<1>2. NClear \in Nat /\ n \in 0 .. 14 + 3 * NClear /\ NSig \in Nat /\ posix /\ NClear = NSig + 1
  BY <1>1, HeadOfPlan, TaskKinds, ClearingTasks, Signalling DEF SetHandler, Doing
<1>3. \/ Doing("forget") /\ n \in {4 + NClear, 7 + 3 * NClear}
      \/ Doing("call") /\ n = 4 + 2 * NClear
  BY <1>1, HeadOfPlan, TaskKinds DEF SetHandler, Doing, Target
<1>4. /\ Rest /\ Advance /\ outcome' = "no" /\ made' = made /\ success' = success /\ actions' = actions
      /\ handler' = (Doing("call") /\ success)
  BY DEF SetHandler, Rest, met, Doing
<1>5. ~(Doing("forget") /\ Doing("call"))
  BY DEF Doing
<1>6. /\ InTurn \in [1 .. NSig -> Signals]
      /\ \A s \in Signals : \E i \in 1 .. NSig : InTurn[i] = s
  BY Signalling
<1>. HIDE DEF n
<1>7. MadeAfter(n + 1, made')
  BY <1>1, <1>2, <1>3, <1>4 DEF MadeAfter
<1>8. CASE Doing("forget") /\ n = 4 + NClear
  <2>1. handler' = FALSE
    BY <1>4, <1>5, <1>8
  <2>2. HandledAfter(n + 1, handler', success', actions')
    BY <1>1, <1>2, <1>4, <1>8, <2>1 DEF HandledAfter
  <2>. QED BY <1>2, <1>4, <1>7, <1>8, <2>2, StepKeeps DEF n
<1>9. CASE Doing("forget") /\ n = 7 + 3 * NClear
  <2>1. handler' = FALSE
    BY <1>4, <1>5, <1>9
  <2>2. \A i \in 1 .. NSig : 8 + 2 * NClear + i <= n
    BY <1>2, <1>9
  <2>3. success => \A s \in Signals : actions[s] = "default"
    <3>. SUFFICES ASSUME success, NEW s \in Signals PROVE actions[s] = "default"
      OBVIOUS
    <3>1. PICK i \in 1 .. NSig : InTurn[i] = s
      BY <1>6
    <3>. QED BY <1>1, <1>2, <2>2, <3>1 DEF HandledAfter
  <2>4. \A i \in 1 .. NSig : success => actions[InTurn[i]] = "default"
    BY <1>6, <2>3
  <2>5. HandledAfter(n + 1, handler', success', actions')
    BY <1>1, <1>2, <1>4, <1>9, <2>1, <2>3, <2>4 DEF HandledAfter
  <2>. QED BY <1>2, <1>4, <1>7, <1>9, <2>5, StepKeeps DEF n
<1>10. CASE Doing("call") /\ n = 4 + 2 * NClear
  <2>1. handler' = success /\ success \in BOOLEAN
    BY <1>1, <1>4, <1>10 DEF HandledAfter
  <2>2. HandledAfter(n + 1, handler', success', actions')
    BY <1>1, <1>2, <1>4, <1>10, <2>1 DEF HandledAfter
  <2>. QED BY <1>2, <1>4, <1>7, <1>10, <2>2, StepKeeps DEF n
<1>. QED BY <1>3, <1>8, <1>9, <1>10

(* Enabling a part keeps it.                                               *)
LEMMA EnableKeeps ==
  ASSUME LaunchInv, Enable
  PROVE  LaunchInv'
<1>. DEFINE n == DoneSteps
<1>1. Following /\ MadeAfter(n, made) /\ HandledAfter(n, handler, success, actions) /\ posix \in BOOLEAN
  BY DEF LaunchInv, Following
<1>2. /\ NClear \in Nat /\ n \in 5 + 2 * NClear .. 6 + 2 * NClear /\ NSig \in Nat /\ (posix => NClear = NSig + 1)
      /\ Target = EnabledParts[n - (4 + 2 * NClear)]
  BY <1>1, HeadOfPlan, TaskKinds, ClearingTasks, Signalling DEF Enable, Doing, Target
<1>3. /\ Rest /\ Advance /\ outcome' = "no" /\ success' = success /\ actions' = actions
      /\ handler' = handler /\ (made' = made \/ made' = made \cup {Target})
  BY DEF Enable, Rest, met, Doing
<1>. HIDE DEF n
<1>4. Target \in {"watchdog", "power"}
  <2>1. n - (4 + 2 * NClear) \in {1, 2}
    BY <1>2
  <2>. QED BY <1>2, <2>1 DEF EnabledParts
<1>5. MadeAfter(n + 1, made')
  <2>1. CASE made' = made
    BY <1>1, <1>2, <2>1 DEF MadeAfter
  <2>2. CASE made' = made \cup {"watchdog"}
    BY <1>1, <1>2, <2>2 DEF MadeAfter, Parts
  <2>3. CASE made' = made \cup {"power"}
    BY <1>1, <1>2, <2>3 DEF MadeAfter, Parts
  <2>. QED BY <1>3, <1>4, <2>1, <2>2, <2>3
<1>6. HandledAfter(n + 1, handler', success', actions')
  BY <1>1, <1>2, <1>3 DEF HandledAfter
<1>7. n # 14 + 3 * NClear
  BY <1>2
<1>. QED BY <1>3, <1>5, <1>6, <1>7, StepKeeps DEF n

(* Releasing a part keeps it.                                              *)
LEMMA ReleaseKeeps ==
  ASSUME LaunchInv, ReleaseMade
  PROVE  LaunchInv'
<1>. DEFINE n == DoneSteps
<1>1. Following /\ MadeAfter(n, made) /\ HandledAfter(n, handler, success, actions) /\ posix \in BOOLEAN
  BY DEF LaunchInv, Following
<1>2. /\ NClear \in Nat /\ n \in 8 + 3 * NClear .. 13 + 3 * NClear /\ NSig \in Nat /\ (posix => NClear = NSig + 1)
      /\ Target = ReleasedParts[n - (7 + 3 * NClear)]
  BY <1>1, HeadOfPlan, TaskKinds, ClearingTasks, Signalling DEF ReleaseMade, Doing, Target
<1>3. /\ Rest /\ Advance /\ outcome' = "no" /\ success' = success /\ actions' = actions /\ handler' = handler
  BY DEF ReleaseMade, Rest, met, Doing
<1>4. made' = (IF (made \ {Target}) \cap {"pool", "app"} = {} THEN (made \ {Target}) \ {"args"} ELSE made \ {Target})
  BY DEF ReleaseMade
<1>. HIDE DEF n
<1>5. MadeAfter(n + 1, made')
  <2>1. CASE n = 8 + 3 * NClear
    <3>1. Target = "watchdog"
      BY <1>2, <2>1 DEF ReleasedParts
    <3>2. made' \subseteq made /\ "watchdog" \notin made' /\ made \ {"watchdog", "args"} \subseteq made'
      BY <1>4, <3>1
    <3>. QED BY <1>1, <1>2, <2>1, <3>2 DEF MadeAfter
  <2>2. CASE n = 9 + 3 * NClear
    <3>1. Target = "power"
      BY <1>2, <2>2 DEF ReleasedParts
    <3>2. made' \subseteq made /\ "power" \notin made' /\ made \ {"power", "args"} \subseteq made'
      BY <1>4, <3>1
    <3>. QED BY <1>1, <1>2, <2>2, <3>2 DEF MadeAfter
  <2>3. CASE n = 10 + 3 * NClear
    <3>1. Target = "app"
      BY <1>2, <2>3 DEF ReleasedParts
    <3>2. made' \subseteq made /\ "app" \notin made' /\ made \ {"app", "args"} \subseteq made'
      BY <1>4, <3>1
    <3>. QED BY <1>1, <1>2, <2>3, <3>2 DEF MadeAfter
  <2>4. CASE n = 11 + 3 * NClear
    <3>1. Target = "delegate"
      BY <1>2, <2>4 DEF ReleasedParts
    <3>2. made' \subseteq made /\ "delegate" \notin made' /\ made \ {"delegate", "args"} \subseteq made'
      BY <1>4, <3>1
    <3>. QED BY <1>1, <1>2, <2>4, <3>2 DEF MadeAfter
  <2>5. CASE n = 12 + 3 * NClear
    <3>1. Target = "pool"
      BY <1>2, <2>5 DEF ReleasedParts
    <3>2. "app" \notin made
      BY <1>1, <1>2, <2>5 DEF MadeAfter
    <3>3. made' = (made \ {"pool"}) \ {"args"}
      BY <1>4, <3>1, <3>2
    <3>. QED BY <1>1, <1>2, <2>5, <3>3 DEF MadeAfter
  <2>6. CASE n = 13 + 3 * NClear
    <3>1. Target = "zone"
      BY <1>2, <2>6 DEF ReleasedParts
    <3>2. made' \subseteq made /\ "zone" \notin made' /\ made \ {"zone", "args"} \subseteq made'
      BY <1>4, <3>1
    <3>. QED BY <1>1, <1>2, <2>6, <3>2 DEF MadeAfter
  <2>. QED BY <1>2, <2>1, <2>2, <2>3, <2>4, <2>5, <2>6
<1>6. HandledAfter(n + 1, handler', success', actions')
  BY <1>1, <1>2, <1>3 DEF HandledAfter
<1>7. n # 14 + 3 * NClear
  BY <1>2
<1>. QED BY <1>3, <1>5, <1>6, <1>7, StepKeeps DEF n

(* A step that only moves main inside run, or ends it.                     *)
LEMMA WaitKeeps ==
  ASSUME LaunchInv, plan' = plan, posix' = posix, made' = made, actions' = actions, handler' = handler,
         success' = success, Heard', inRun' \in {"no", "delegate", "pop", "locked", "waiting"},
         inRun' # "no" => DoneSteps = 7 + 2 * NClear,
         outcome' \in {"no", "panic", "returned", "killed"}, outcome' = "returned" => DoneSteps = 14 + 3 * NClear
  PROVE  LaunchInv'
<1>1. Following' /\ DoneSteps' = DoneSteps /\ NClear' = NClear
  BY Stays DEF LaunchInv
<1>2. MadeAfter(DoneSteps, made)' /\ HandledAfter(DoneSteps, handler, success, actions)'
  BY <1>1, TasksKept DEF LaunchInv
<1>. QED BY <1>1, <1>2 DEF LaunchInv

(* The return of the main function keeps it.                               *)
LEMMA ExitKeeps ==
  ASSUME LaunchInv, ExitMain
  PROVE  LaunchInv'
<1>1. DoneSteps = 14 + 3 * NClear
  BY HeadOfPlan, TaskKinds DEF ExitMain, Doing, LaunchInv, Following
<1>2. Heard' /\ inRun' = "no" /\ outcome' = "returned"
  BY DEF ExitMain, Doing, met, Heard, LaunchInv
<1>. QED BY <1>1, <1>2, WaitKeeps DEF ExitMain

(* run ends, and main goes on.                                             *)
LEMMA RunEnds ==
  ASSUME LaunchInv, DoneSteps = 7 + 2 * NClear, Rest, Advance, outcome' = "no", made' = made, actions' = actions,
         handler' = handler, success' = success
  PROVE  LaunchInv'
<1>. DEFINE n == DoneSteps
<1>1. Following /\ MadeAfter(n, made) /\ HandledAfter(n, handler, success, actions) /\ posix \in BOOLEAN
  BY DEF LaunchInv, Following
<1>2. NClear \in Nat /\ n = 7 + 2 * NClear /\ NSig \in Nat /\ (posix => NClear = NSig + 1)
  BY <1>1, ClearingTasks, Signalling
<1>. HIDE DEF n
<1>3. MadeAfter(n + 1, made')
  BY <1>1, <1>2 DEF MadeAfter
<1>4. /\ handler' => (posix /\ 5 + 2 * NClear <= n + 1 /\ n + 1 < 8 + 3 * NClear)
      /\ \A i \in 1 .. NSig : ~(8 + 2 * NClear + i <= n + 1)
      /\ n + 1 # 14 + 3 * NClear /\ n # 14 + 3 * NClear
  BY <1>1, <1>2 DEF HandledAfter
<1>5. HandledAfter(n + 1, handler', success', actions')
  BY <1>1, <1>2, <1>4 DEF HandledAfter
<1>. QED BY <1>2, <1>3, <1>4, <1>5, StepKeeps DEF n

(* Entering the run loop keeps it.                                         *)
LEMMA EnterKeeps ==
  ASSUME LaunchInv, EnterRun
  PROVE  LaunchInv'
<1>1. DoneSteps = 7 + 2 * NClear
  BY HeadOfPlan, TaskKinds DEF EnterRun, Doing, LaunchInv, Following
<1>2. /\ posix' = posix /\ made' = made /\ actions' = actions /\ handler' = handler /\ success' = success
      /\ closed' = closed /\ told' = told /\ missed' = missed /\ strayed' = strayed /\ outcome' = "no" /\ inRun = "no"
  BY DEF EnterRun, Doing, met
<1>3. Heard'
  BY <1>2 DEF Heard, LaunchInv
<1>4. CASE inRun' = "delegate" /\ plan' = plan
  BY <1>1, <1>2, <1>3, <1>4, WaitKeeps
<1>5. CASE Advance /\ inRun' = inRun
  <2>1. Rest
    BY <1>2, <1>5 DEF Rest
  <2>. QED BY <1>1, <1>2, <1>5, <2>1, RunEnds
<1>. QED BY <1>4, <1>5 DEF EnterRun

(* A step of the run loop keeps it.                                        *)
LEMMA LoopKeeps ==
  ASSUME LaunchInv, LoopStep
  PROVE  LaunchInv'
<1>1. /\ posix' = posix /\ made' = made /\ actions' = actions /\ handler' = handler /\ success' = success
      /\ told' = told /\ missed' = missed /\ strayed' = strayed /\ outcome' = "no"
  BY DEF LoopStep, met
<1>2. inRun # "no" /\ closed \in BOOLEAN /\ Heard
  BY DEF LoopStep, Move, LaunchInv, Heard
<1>3. DoneSteps = 7 + 2 * NClear
  BY <1>2 DEF LaunchInv
<1>4. CASE /\ plan' = plan /\ inRun' \in {"no", "delegate", "pop", "locked", "waiting"}
           /\ closed' \in {closed, TRUE}
  <2>1. /\ told \in BOOLEAN /\ missed \in BOOLEAN /\ strayed = FALSE
        /\ told => (closed \/ missed)
    BY <1>2 DEF Heard
  <2>4. Heard'
    <3>1. CASE closed' = closed
      BY <1>1, <1>2, <2>1, <3>1 DEF Heard
    <3>2. CASE closed' = TRUE
      BY <1>1, <1>2, <2>1, <3>2 DEF Heard
    <3>. QED BY <1>4, <3>1, <3>2
  <2>. QED BY <1>1, <1>3, <1>4, <2>4, WaitKeeps
<1>5. CASE closed /\ Move("locked", "no") /\ Advance /\ UNCHANGED closed
  <2>1. Rest
    BY <1>1, <1>5 DEF Rest, Move
  <2>. QED BY <1>1, <1>3, <1>5, <2>1, RunEnds
<1>6. \/ plan' = plan /\ inRun' \in {"no", "delegate", "pop", "locked", "waiting"} /\ closed' \in {closed, TRUE}
      \/ closed /\ Move("locked", "no") /\ Advance /\ UNCHANGED closed
  BY DEF LoopStep, Move
<1>. QED BY <1>4, <1>5, <1>6

(* A signal that is handled meets the application.                         *)
LEMMA SignalKeeps ==
  ASSUME LaunchInv, NEW s \in Signals, SignalComes(s)
  PROVE  LaunchInv'
<1>1. /\ posix' = posix /\ plan' = plan /\ inRun' = inRun /\ made' = made /\ actions' = actions
      /\ handler' = handler /\ success' = success /\ outcome = "no"
  BY DEF SignalComes
<1>2. CASE outcome' = "killed" /\ UNCHANGED <<closed, met>>
  <2>1. Heard'
    BY <1>2 DEF LaunchInv, Heard, met
  <2>. QED BY <1>1, <1>2, <2>1, WaitKeeps DEF LaunchInv
<1>3. CASE handler /\ HandleSignal /\ UNCHANGED outcome
  <2>1. "app" \in made
    <3>1. NClear \in Nat
      BY ClearingTasks DEF LaunchInv, Following
    <3>2. 3 <= DoneSteps /\ DoneSteps < 11 + 3 * NClear
      <4>1. DoneSteps \in 0 .. 14 + 3 * NClear /\ 5 + 2 * NClear <= DoneSteps /\ DoneSteps < 8 + 3 * NClear
        BY <1>3, HeadOfPlan DEF LaunchInv, HandledAfter
      <4>. QED BY <3>1, <4>1
    <3>. QED BY <3>2 DEF LaunchInv, MadeAfter
  <2>2. strayed' = FALSE
    BY <1>3, <2>1 DEF HandleSignal, HasSharedApplication, LaunchInv, Heard
  <2>3. /\ closed \in BOOLEAN /\ told \in BOOLEAN /\ missed \in BOOLEAN /\ (told => (closed \/ missed))
    BY DEF LaunchInv, Heard
  <2>4. AppSignal
    BY <1>3 DEF HandleSignal
  <2>5. closed' \in BOOLEAN /\ told' \in BOOLEAN /\ missed' \in BOOLEAN /\ (told' => (closed' \/ missed'))
    BY <2>3, <2>4 DEF AppSignal, Shuts
  <2>6. Heard'
    BY <2>2, <2>5 DEF Heard
  <2>. QED BY <1>1, <1>3, <2>6, WaitKeeps DEF LaunchInv
<1>. QED BY <1>2, <1>3 DEF SignalComes

(* ApplicationMain.m, signal.c: the invariant of main and its signals.     *)
THEOREM LaunchInvariant == LaunchSpec => []LaunchInv
<1>1. LaunchInit => LaunchInv
  BY LaunchStarts
<1>2. LaunchInv /\ [LaunchStep]_launchVars => LaunchInv'
  <2>. SUFFICES ASSUME LaunchInv, [LaunchStep]_launchVars PROVE LaunchInv'
    OBVIOUS
  <2>1. CASE MakeOne
    BY <2>1, MakeKeeps
  <2>2. CASE SetAction
    BY <2>2, ActionKeeps
  <2>3. CASE SetHandler
    BY <2>3, HandlerKeeps
  <2>4. CASE Enable
    BY <2>4, EnableKeeps
  <2>5. CASE ReleaseMade
    BY <2>5, ReleaseKeeps
  <2>6. CASE ExitMain
    BY <2>6, ExitKeeps
  <2>7. CASE EnterRun
    BY <2>7, EnterKeeps
  <2>8. CASE LoopStep
    BY <2>8, LoopKeeps
  <2>9. CASE \E s \in Signals : SignalComes(s)
    BY <2>9, SignalKeeps
  <2>10. CASE UNCHANGED launchVars
    BY <2>10, WaitKeeps DEF launchVars, LaunchInv, Heard
  <2>. QED BY <2>1, <2>2, <2>3, <2>4, <2>5, <2>6, <2>7, <2>8, <2>9, <2>10 DEF LaunchStep
<1>. QED BY <1>1, <1>2, PTL DEF LaunchSpec

(* The invariant gives the property.                                       *)
LEMMA InvOrderly == LaunchInv => LaunchOrderly
<1>. SUFFICES ASSUME LaunchInv PROVE LaunchOrderly
  OBVIOUS
<1>. DEFINE n == DoneSteps
<1>1. Following /\ MadeAfter(n, made) /\ HandledAfter(n, handler, success, actions) /\ Heard /\ posix \in BOOLEAN
  BY DEF LaunchInv, Following
<1>2. NClear \in Nat /\ n \in 0 .. 14 + 3 * NClear /\ NSig \in Nat /\ (posix => NClear = NSig + 1)
  BY <1>1, HeadOfPlan, ClearingTasks, Signalling
<1>3. HandlerFindsApp /\ SignalTerminates
  BY <1>1 DEF Heard, HandlerFindsApp, SignalTerminates
<1>4. ASSUME made \cap {"pool", "app", "delegate", "args"} # {} PROVE Zones # {}
  <2>1. 1 <= n /\ n < 14 + 3 * NClear
    BY <1>1, <1>2, <1>4 DEF MadeAfter
  <2>. QED BY <1>1, <2>1 DEF MadeAfter, Zones
<1>5. ASSUME outcome = "returned" PROVE made \subseteq {"defaultZone"} /\ ~handler
  <2>1. n = 14 + 3 * NClear
    BY <1>5 DEF LaunchInv
  <2>2. ~handler
    BY <1>1, <1>2, <2>1 DEF HandledAfter
  <2>3. made \subseteq {"defaultZone"}
    BY <1>1, <1>2, <2>1 DEF MadeAfter, Parts
  <2>. QED BY <2>2, <2>3
<1>6. ASSUME outcome = "no", ~handler, success, NEW s \in Signals, actions[s] = "handle"
      PROVE  Doing("handle") \/ Doing("call")
  <2>1. posix /\ n \in 5 + NClear .. 4 + 2 * NClear
    BY <1>1, <1>2, <1>6 DEF HandledAfter
  <2>2. Head(plan).do \in {"handle", "call"}
    BY <1>1, <2>1, HeadOfPlan, TaskKinds
  <2>3. inRun = "no"
    BY <1>2, <2>1 DEF LaunchInv
  <2>. QED BY <1>6, <2>2, <2>3 DEF Doing
<1>. QED BY <1>3, <1>4, <1>5, <1>6 DEF LaunchOrderly, TornDownInOrder, NoneIgnored

(* ApplicationMain.m, signal.c: main and the signals that interrupt it     *)
(* agree on when there is an application, for any set of signals.          *)
THEOREM LaunchOrderlyAlways == LaunchSpec => []LaunchOrderly
  BY LaunchInvariant, InvOrderly, PTL

(* The least number of a set.                                              *)
LEMMA NearestFacts ==
  ASSUME NEW S, S \subseteq Nat, S # {}
  PROVE  Nearest(S) \in S /\ \A m \in S : Nearest(S) <= m
<1>. DEFINE R == OpToRel(<, Nat)
<1>1. IsWellFoundedOn(R, Nat)
  BY NatLessThanWellFounded
<1>2. \A k, l \in Nat : <<k, l>> \in R <=> k < l
  BY DEF OpToRel
<1>. HIDE DEF R
<1>3. PICK n \in S : \A k \in S : <<k, n>> \notin R
  BY <1>1, WFMin, Zenon
<1>4. \A k \in S : n <= k
  <2>. SUFFICES ASSUME NEW k \in S PROVE n <= k
    OBVIOUS
  <2>1. k \in Nat /\ n \in Nat /\ ~(k < n)
    BY <1>2, <1>3
  <2>. QED BY <2>1
<1>. QED BY <1>4 DEF Nearest

(* What holds at 0, and one further on wherever it holds, holds up to n.   *)
LEMMA Climb ==
  ASSUME NEW n \in Nat, NEW S, 0 \in S, \A k \in 0 .. n - 1 : k \in S => k + 1 \in S
  PROVE  0 .. n \subseteq S
<1>. DEFINE T == (0 .. n) \ S
<1>1. SUFFICES ASSUME T # {} PROVE FALSE
  OBVIOUS
<1>2. T \subseteq Nat
  OBVIOUS
<1>. DEFINE m == Nearest(T)
<1>3. m \in T /\ \A k \in T : m <= k
  BY <1>1, <1>2, NearestFacts
<1>. HIDE DEF m
<1>4. m \in 0 .. n /\ m \notin S /\ m # 0
  BY <1>3
<1>5. m - 1 \in 0 .. n - 1 /\ m - 1 \in S
  BY <1>3, <1>4
<1>6. (m - 1) + 1 \in S /\ (m - 1) + 1 = m
  BY <1>4, <1>5
<1>. QED BY <1>4, <1>6

(* A recursive definition by a step function has a solution.               *)
Follows(n, T, a, g, f) ==
  f \in [0 .. n -> T] /\ f[0] = a /\ \A k \in 0 .. n - 1 : f[k + 1] = g[k + 1][f[k]]

(* There is a function that follows such a definition.                     *)
LEMMA Recursion ==
  ASSUME NEW n \in Nat, NEW T, NEW a \in T, NEW g \in [1 .. n -> [T -> T]]
  PROVE  \E f : Follows(n, T, a, g, f)
<1>. DEFINE S == {m \in 0 .. n : \E f : Follows(m, T, a, g, f)}
<1>1. 0 \in S
  <2>1. Follows(0, T, a, g, [k \in 0 .. 0 |-> a])
    BY DEF Follows
  <2>2. 0 \in 0 .. n
    OBVIOUS
  <2>. QED BY <2>1, <2>2
<1>2. ASSUME NEW m \in 0 .. n - 1, m \in S PROVE m + 1 \in S
  <2>1. PICK f : Follows(m, T, a, g, f)
    BY <1>2
  <2>. DEFINE e == g[m + 1][f[m]]
              h == [k \in 0 .. m + 1 |-> IF k = m + 1 THEN e ELSE f[k]]
  <2>2. m \in Nat /\ m + 1 \in 1 .. n /\ m + 1 \in 0 .. n
    OBVIOUS
  <2>3. f \in [0 .. m -> T] /\ f[0] = a /\ \A k \in 0 .. m - 1 : f[k + 1] = g[k + 1][f[k]]
    BY <2>1 DEF Follows
  <2>4. f[m] \in T
    BY <2>2, <2>3
  <2>5. g[m + 1] \in [T -> T]
    BY <2>2
  <2>6. e \in T
    BY <2>4, <2>5
  <2>. HIDE DEF e
  <2>7. h[m + 1] = e /\ \A k \in 0 .. m : h[k] = f[k]
    BY <2>2
  <2>8. h \in [0 .. m + 1 -> T]
    BY <2>2, <2>3, <2>6
  <2>. HIDE DEF h
  <2>9. h[0] = a
    BY <2>2, <2>3, <2>7
  <2>10. ASSUME NEW k \in 0 .. (m + 1) - 1 PROVE h[k + 1] = g[k + 1][h[k]]
    <3>1. k \in 0 .. m /\ h[k] = f[k]
      BY <2>2, <2>7
    <3>2. CASE k = m
      BY <2>7, <3>1, <3>2 DEF e
    <3>3. CASE k # m
      <4>1. k \in 0 .. m - 1 /\ k + 1 \in 0 .. m
        BY <2>2, <3>1, <3>3
      <4>. QED BY <2>3, <2>7, <3>1, <4>1
    <3>. QED BY <3>2, <3>3
  <2>11. Follows(m + 1, T, a, g, h)
    BY <2>8, <2>9, <2>10 DEF Follows
  <2>. QED BY <2>2, <2>11
<1>3. n \in 0 .. n
  OBVIOUS
<1>4. 0 .. n \subseteq S
  <2>. HIDE DEF S
  <2>. QED BY <1>1, <1>2, Climb
<1>5. n \in S
  BY <1>3, <1>4
<1>. QED BY <1>5

-----------------------------------------------------------------------------
(* The line of a class up to the root.                                     *)
Size == Cardinality(Classes)
Linked(line) == \A i \in 1 .. Len(line) - 1 : Super[line[i]] = line[i + 1]
Lines(c) == {line \in Seq(Classes) : Len(line) >= 1 /\ line[1] = c /\ Linked(line)}
Longer(line) == LET s == Super[line[Len(line)]] IN IF s = NoClass THEN line ELSE Append(line, s)
UpClosed(S) == \A d \in S : Super[d] \in S \cup {NoClass}

(* A line goes on with the superclass.                                     *)
LEMMA LongerLine ==
  ASSUME NEW c \in Classes, NEW line \in Lines(c)
  PROVE  Longer(line) \in Lines(c)
<1>1. line \in Seq(Classes) /\ Len(line) \in Nat /\ Len(line) >= 1 /\ line[Len(line)] \in Classes
  BY ElementOfSeq, LenProperties DEF Lines
<1>. DEFINE s == Super[line[Len(line)]]
<1>2. s \in Classes \cup {NoClass}
  BY <1>1, MessagesAssumption
<1>3. CASE s = NoClass
  BY <1>3 DEF Longer
<1>4. CASE s # NoClass
  <2>1. s \in Classes
    BY <1>2, <1>4
  <2>. DEFINE w == Append(line, s)
  <2>2. w \in Seq(Classes) /\ Len(w) = Len(line) + 1 /\ w[Len(line) + 1] = s
        /\ \A i \in 1 .. Len(line) : w[i] = line[i]
    BY <1>1, <2>1, AppendProperties
  <2>3. Longer(line) = w
    BY <1>4 DEF Longer
  <2>. HIDE DEF w
  <2>4. ASSUME NEW i \in 1 .. Len(w) - 1 PROVE Super[w[i]] = w[i + 1]
    <3>1. i \in 1 .. Len(line) /\ w[i] = line[i]
      BY <1>1, <2>2
    <3>2. CASE i = Len(line)
      BY <2>2, <3>1, <3>2
    <3>3. CASE i # Len(line)
      <4>1. i \in 1 .. Len(line) - 1 /\ i + 1 \in 1 .. Len(line)
        BY <1>1, <3>1, <3>3
      <4>. QED BY <2>2, <3>1, <4>1 DEF Lines, Linked
    <3>. QED BY <3>2, <3>3
  <2>5. w[1] = c /\ Len(w) >= 1
    BY <1>1, <2>2 DEF Lines
  <2>. QED BY <2>2, <2>3, <2>4, <2>5 DEF Lines, Linked
<1>. QED BY <1>3, <1>4

(* The recursion of ChainOf builds a line.                                 *)
LEMMA ChainIsLine ==
  ASSUME NEW c \in Classes
  PROVE  ChainOf(c) \in Lines(c)
<1>. DEFINE N == Cardinality(Classes)
            L == Lines(c)
            g == [k \in 1 .. N |-> [line \in L |-> Longer(line)]]
<1>1. N \in Nat
  BY FS_CardinalityType, MessagesAssumption
<1>2. <<c>> \in L
  BY DEF Lines, Linked
<1>3. [line \in L |-> Longer(line)] \in [L -> L]
  BY LongerLine
<1>. HIDE DEF N, L
<1>4. PICK f : Follows(N, L, <<c>>, g, f)
  <2>1. g \in [1 .. N -> [L -> L]]
    BY <1>3
  <2>. HIDE DEF g
  <2>. QED BY <1>1, <1>2, <2>1, Recursion
<1>. DEFINE Up == CHOOSE h : h = [n \in 0 .. N |->
                    IF n = 0 THEN <<c>>
                    ELSE LET s == Super[Last(h[n - 1])] IN
                           IF s = NoClass THEN h[n - 1] ELSE Append(h[n - 1], s)]
<1>5. f \in [0 .. N -> L] /\ f[0] = <<c>> /\ \A k \in 0 .. N - 1 : f[k + 1] = Longer(f[k])
  <2>1. f \in [0 .. N -> L] /\ f[0] = <<c>> /\ \A k \in 0 .. N - 1 : f[k + 1] = g[k + 1][f[k]]
    BY <1>4 DEF Follows
  <2>2. \A k \in 0 .. N - 1 : k \in 0 .. N /\ k + 1 \in 1 .. N
    BY <1>1
  <2>3. \A k \in 1 .. N : \A line \in L : g[k][line] = Longer(line)
    OBVIOUS
  <2>. HIDE DEF g
  <2>. QED BY <2>1, <2>2, <2>3
<1>6. f = [n \in 0 .. N |->
                    IF n = 0 THEN <<c>>
                    ELSE LET s == Super[Last(f[n - 1])] IN
                           IF s = NoClass THEN f[n - 1] ELSE Append(f[n - 1], s)]
  <2>1. \A n \in 0 .. N : n # 0 => n - 1 \in 0 .. N - 1 /\ f[n] = Longer(f[n - 1])
    <3>1. \A n \in 0 .. N : n # 0 => n - 1 \in 0 .. N - 1 /\ (n - 1) + 1 = n
      BY <1>1
    <3>. QED BY <1>5, <3>1
  <2>2. \A line : Longer(line) = LET s == Super[Last(line)] IN IF s = NoClass THEN line ELSE Append(line, s)
    BY DEF Longer, Last
  <2>. QED BY <1>5, <2>1, <2>2
<1>7. Up = [n \in 0 .. N |->
                    IF n = 0 THEN <<c>>
                    ELSE LET s == Super[Last(Up[n - 1])] IN
                           IF s = NoClass THEN Up[n - 1] ELSE Append(Up[n - 1], s)]
  BY <1>6
<1>8. ChainOf(c) = Up[N]
  BY DEF ChainOf, N
<1>. HIDE DEF Up
<1>9. Up[0] = <<c>> /\ \A k \in 0 .. N - 1 : Up[k + 1] = Longer(Up[k])
  <2>1. \A line : Longer(line) = LET s == Super[Last(line)] IN IF s = NoClass THEN line ELSE Append(line, s)
    BY DEF Longer, Last
  <2>2. \A k \in 0 .. N - 1 : k + 1 \in 0 .. N /\ k + 1 # 0 /\ (k + 1) - 1 = k
    BY <1>1
  <2>3. 0 \in 0 .. N
    BY <1>1
  <2>. QED BY <1>7, <2>1, <2>2, <2>3
<1>10. 0 .. N \subseteq {k \in 0 .. N : Up[k] \in L}
  <2>1. \A k \in 0 .. N - 1 : Up[k] \in L => Up[k + 1] \in L /\ k + 1 \in 0 .. N
    BY <1>1, <1>9, LongerLine DEF L
  <2>2. Up[0] \in L /\ 0 \in 0 .. N
    BY <1>1, <1>2, <1>9
  <2>. QED BY <1>1, <2>1, <2>2, Climb
<1>. QED BY <1>1, <1>8, <1>10 DEF L

(* The classes of a line, which end at the root.                           *)
LEMMA ChainFacts ==
  ASSUME NEW c \in Classes
  PROVE  /\ ChainOf(c) \in Seq(Classes) /\ Len(ChainOf(c)) \in Nat /\ Len(ChainOf(c)) >= 1
         /\ DOMAIN ChainOf(c) = 1 .. Len(ChainOf(c)) /\ ChainOf(c)[1] = c /\ Linked(ChainOf(c))
         /\ c \in ToSet(ChainOf(c)) /\ ToSet(ChainOf(c)) \subseteq Classes
         /\ Root \in ToSet(ChainOf(c)) /\ UpClosed(ToSet(ChainOf(c)))
<1>. DEFINE line == ChainOf(c)
<1>1. line \in Seq(Classes) /\ Len(line) >= 1 /\ line[1] = c /\ Linked(line)
  BY ChainIsLine DEF Lines
<1>2. Root \in ToSet(line) /\ Super[Root] = NoClass
  BY HierarchyAssumption
<1>. HIDE DEF line
<1>3. Len(line) \in Nat /\ DOMAIN line = 1 .. Len(line) /\ \A i \in 1 .. Len(line) : line[i] \in Classes
  BY <1>1, LenProperties, ElementOfSeq
<1>9. \A k \in 1 .. Len(line) : k # Len(line) => k \in 1 .. Len(line) - 1 /\ k + 1 \in 1 .. Len(line)
  <2>1. Len(line) \in Nat
    BY <1>3
  <2>. DEFINE n == Len(line)
  <2>. HIDE DEF n
  <2>2. n \in Nat
    BY <2>1 DEF n
  <2>3. \A k \in 1 .. n : k # n => k \in 1 .. n - 1 /\ k + 1 \in 1 .. n
    BY <2>2
  <2>. QED BY <2>3 DEF n
<1>4. \A d : d \in ToSet(line) <=> \E i \in 1 .. Len(line) : line[i] = d
  BY <1>3 DEF ToSet
<1>5. c \in ToSet(line) /\ ToSet(line) \subseteq Classes
  BY <1>1, <1>3, <1>4
<1>6. PICK r \in 1 .. Len(line) : line[r] = Root
  BY <1>2, <1>4
<1>7. r = Len(line)
  <2>. SUFFICES ASSUME r # Len(line) PROVE FALSE
    OBVIOUS
  <2>1. r \in 1 .. Len(line) - 1 /\ r + 1 \in 1 .. Len(line)
    BY <1>9, <1>6
  <2>2. Super[line[r]] = line[r + 1] /\ line[r + 1] \in Classes
    BY <1>1, <1>3, <2>1 DEF Linked
  <2>. QED BY <1>2, <1>6, <2>2, MessagesAssumption
<1>8. ASSUME NEW d \in ToSet(line) PROVE Super[d] \in ToSet(line) \cup {NoClass}
  <2>1. PICK i \in 1 .. Len(line) : line[i] = d
    BY <1>4
  <2>2. CASE i = Len(line)
    BY <1>2, <1>6, <1>7, <2>1, <2>2
  <2>3. CASE i # Len(line)
    <3>1. i \in 1 .. Len(line) - 1 /\ i + 1 \in 1 .. Len(line)
      BY <1>9, <2>1, <2>3
    <3>. QED BY <1>1, <1>4, <2>1, <3>1 DEF Linked
  <2>. QED BY <2>2, <2>3
<1>. QED BY <1>1, <1>2, <1>3, <1>5, <1>8 DEF UpClosed, line

(* What has the superclasses of its classes has their lines.               *)
LEMMA ChainIn ==
  ASSUME NEW S, S \subseteq Classes, UpClosed(S), NEW c \in S
  PROVE  ToSet(ChainOf(c)) \subseteq S
<1>. DEFINE line == ChainOf(c)
            n == Len(line) - 1
            T == {k \in 0 .. n : line[k + 1] \in S}
<1>1. /\ line \in Seq(Classes) /\ Len(line) \in Nat /\ Len(line) >= 1 /\ DOMAIN line = 1 .. Len(line)
      /\ line[1] = c /\ Linked(line)
  BY ChainFacts
<1>2. \A i \in 1 .. Len(line) : line[i] \in Classes
  BY <1>1, ElementOfSeq
<1>. HIDE DEF line
<1>3. n \in Nat /\ 0 \in T
  BY <1>1
<1>4. ASSUME NEW k \in 0 .. n - 1, k \in T PROVE k + 1 \in T
  <2>1. k + 1 \in 1 .. Len(line) - 1 /\ (k + 1) + 1 \in 1 .. Len(line) /\ k + 1 \in 0 .. n
    BY <1>1
  <2>2. Super[line[k + 1]] = line[(k + 1) + 1] /\ line[k + 1] \in S
    BY <1>1, <1>4, <2>1 DEF Linked
  <2>3. line[(k + 1) + 1] \in S
    BY <1>2, <2>1, <2>2, MessagesAssumption DEF UpClosed
  <2>. QED BY <2>1, <2>3
<1>5. 0 .. n \subseteq T
  <2>. HIDE DEF T, n
  <2>. QED BY <1>3, <1>4, Climb
<1>6. ASSUME NEW d \in ToSet(line) PROVE d \in S
  <2>1. PICK i \in 1 .. Len(line) : line[i] = d
    BY <1>1 DEF ToSet
  <2>2. i - 1 \in 0 .. n /\ (i - 1) + 1 = i
    BY <1>1
  <2>. QED BY <1>5, <2>1, <2>2
<1>. QED BY <1>6 DEF line

-----------------------------------------------------------------------------
(* The implementations after the first n categories, the classes of r      *)
(* being resolved.                                                         *)
Of(n, d, m) == {i \in 1 .. n : categories[i].on = d /\ categories[i].has = m}
Rightly(r, n, d, m) ==
  IF Of(n, d, m) # {} THEN <<categories[Latest(Of(n, d, m))].name, d>>
  ELSE IF d \in r /\ d \in implements[m] THEN <<"own", d>> ELSE NoImp
Table(r, n) == [e \in Classes \X Methods |-> Rightly(r, n, e[1], e[2])]
Covered(r, n) == \A i \in 1 .. n : categories[i].on \in Classes => categories[i].on \in r

Declared ==
  /\ implements \in [Methods -> SUBSET Classes] /\ \A m \in Methods : Root \in implements[m]
  /\ categories \in CategoryLists

(* The categories are a list.                                              *)
LEMMA DeclaredFacts ==
  ASSUME Declared
  PROVE  /\ Len(categories) \in Nat /\ DOMAIN categories = 1 .. Len(categories)
         /\ \A i \in 1 .. Len(categories) : categories[i].has \in Methods
         /\ \A d, m : Brings(d, m) = Of(Len(categories), d, m)
  BY MessagesAssumption DEF Declared, Brings, Of

(* The classes that are resolved later get their own methods.              *)
LEMMA OwnFacts ==
  ASSUME NEW r, NEW n, NEW new, Covered(r, n), new \cap r = {}, new \subseteq Classes
  PROVE  WithOwn(Table(r, n), new) = Table(r \cup new, n)
<1>1. ASSUME NEW e \in Classes \X Methods
      PROVE  (IF e[1] \in new /\ e[1] \in implements[e[2]] THEN <<"own", e[1]>> ELSE Table(r, n)[e])
               = Rightly(r \cup new, n, e[1], e[2])
  <2>1. Table(r, n)[e] = Rightly(r, n, e[1], e[2])
    BY DEF Table
  <2>2. e[1] \in new => Of(n, e[1], e[2]) = {}
    BY DEF Of, Covered
  <2>. QED BY <2>1, <2>2 DEF Rightly
<1>. QED BY <1>1 DEF WithOwn, Table

(* A category replaces what is there.                                      *)
LEMMA CategoryFacts ==
  ASSUME Declared, NEW r, NEW n \in Nat, n + 1 \in 1 .. Len(categories), categories[n + 1].on \in Classes
  PROVE  [Table(r, n) EXCEPT ![<<categories[n + 1].on, categories[n + 1].has>>] =
             <<categories[n + 1].name, categories[n + 1].on>>] = Table(r, n + 1)
<1>. DEFINE cat == categories[n + 1]
            k == <<cat.on, cat.has>>
<1>1. cat.has \in Methods /\ k \in Classes \X Methods
  BY DeclaredFacts
<1>2. ASSUME NEW e \in Classes \X Methods
      PROVE  (IF e = k THEN <<cat.name, cat.on>> ELSE Rightly(r, n, e[1], e[2])) = Rightly(r, n + 1, e[1], e[2])
  <2>1. CASE e = k
    <3>1. n + 1 \in Of(n + 1, e[1], e[2]) /\ \A i \in Of(n + 1, e[1], e[2]) : i <= n + 1
      BY <2>1 DEF Of
    <3>2. Latest(Of(n + 1, e[1], e[2])) = n + 1
      <4>1. \A i \in Of(n + 1, e[1], e[2]) : i \in Nat
        BY DEF Of
      <4>. QED BY <3>1, <4>1 DEF Latest
    <3>. QED BY <2>1, <3>1, <3>2 DEF Rightly
  <2>2. CASE e # k
    <3>1. Of(n + 1, e[1], e[2]) = Of(n, e[1], e[2])
      <4>1. ~(cat.on = e[1] /\ cat.has = e[2])
        BY <2>2
      <4>2. \A i \in 1 .. n + 1 : i \in 1 .. n \/ i = n + 1
        OBVIOUS
      <4>3. \A i \in 1 .. n : i \in 1 .. n + 1
        OBVIOUS
      <4>. QED BY <4>1, <4>2, <4>3 DEF Of
    <3>. QED BY <2>2, <3>1 DEF Rightly
  <2>. QED BY <2>1, <2>2
<1>3. Table(r, n) = [e \in Classes \X Methods |-> Rightly(r, n, e[1], e[2])]
  BY DEF Table
<1>4. [Table(r, n) EXCEPT ![k] = <<cat.name, cat.on>>]
        = [e \in Classes \X Methods |-> IF e = k THEN <<cat.name, cat.on>> ELSE Rightly(r, n, e[1], e[2])]
  <2>. HIDE DEF k, cat
  <2>. QED BY <1>1, <1>3
<1>5. [e \in Classes \X Methods |-> IF e = k THEN <<cat.name, cat.on>> ELSE Rightly(r, n, e[1], e[2])]
        = [e \in Classes \X Methods |-> Rightly(r, n + 1, e[1], e[2])]
  <2>. HIDE DEF k, cat
  <2>. QED BY <1>2
<1>. QED BY <1>4, <1>5 DEF Table

(* A lookup finds what it should when the line is resolved.                *)
LEMMA FindFacts ==
  ASSUME Declared, NEW r, NEW c \in Classes, ToSet(ChainOf(c)) \subseteq r, NEW m \in Methods
  PROVE  Find(Table(r, Len(categories)), c, m) = Expected(c, m) /\ Expected(c, m) # NoImp
<1>. DEFINE line == ChainOf(c)
            n == Len(categories)
            has == {i \in DOMAIN line : Table(r, n)[<<line[i], m>>] # NoImp}
            H == {i \in DOMAIN line : line[i] \in implements[m] \/ Brings(line[i], m) # {}}
<1>1. line \in Seq(Classes) /\ Len(line) \in Nat /\ DOMAIN line = 1 .. Len(line) /\ Root \in ToSet(line)
  BY ChainFacts
<1>2. \A i \in DOMAIN line : line[i] \in Classes /\ line[i] \in r
  <2>1. \A i \in DOMAIN line : line[i] \in ToSet(line)
    BY DEF ToSet
  <2>. QED BY <2>1, ChainFacts
<1>3. \A d \in Classes : Table(r, n)[<<d, m>>] = Rightly(r, n, d, m)
  BY DEF Table
<1>4. \A d \in Classes : Brings(d, m) = Of(n, d, m)
  BY DeclaredFacts
<1>5. \A d \in Classes : d \in r => (Rightly(r, n, d, m) # NoImp <=> d \in implements[m] \/ Brings(d, m) # {})
  <2>. SUFFICES ASSUME NEW d \in Classes, d \in r
                PROVE  Rightly(r, n, d, m) # NoImp <=> d \in implements[m] \/ Brings(d, m) # {}
    OBVIOUS
  <2>1. \A name : <<name, d>> # NoImp
    BY MessagesAssumption DEF NoImp
  <2>. QED BY <1>4, <2>1 DEF Rightly
<1>. HIDE DEF line, n
<1>6. has = H
  BY <1>2, <1>3, <1>5
<1>7. H # {} /\ H \subseteq Nat
  <2>1. Root \in implements[m]
    BY DEF Declared
  <2>. QED BY <1>1, <2>1 DEF ToSet
<1>. DEFINE k == Nearest(H)
<1>8. k \in H
  BY <1>7, NearestFacts
<1>. HIDE DEF H, has
<1>9. k \in DOMAIN line /\ (line[k] \in implements[m] \/ Brings(line[k], m) # {})
  BY <1>8 DEF H
<1>. HIDE DEF k
<1>10. Find(Table(r, n), c, m) = Table(r, n)[<<line[k], m>>]
  BY <1>6, <1>7 DEF Find, has, k, line
<1>11. Expected(c, m) = IF Brings(line[k], m) = {} THEN <<"own", line[k]>>
                        ELSE <<categories[Latest(Brings(line[k], m))].name, line[k]>>
  BY DEF Expected, k, H, line
<1>12. Rightly(r, n, line[k], m) = IF Brings(line[k], m) = {} THEN <<"own", line[k]>>
                        ELSE <<categories[Latest(Brings(line[k], m))].name, line[k]>>
  BY <1>2, <1>4, <1>9 DEF Rightly
<1>13. Table(r, n)[<<line[k], m>>] = Rightly(r, n, line[k], m)
  BY <1>2, <1>3, <1>9
<1>14. <<"own", line[k]>> # NoImp /\ \A name : <<name, line[k]>> # NoImp
  BY <1>2, <1>9, MessagesAssumption DEF NoImp
<1>. QED BY <1>10, <1>11, <1>12, <1>13, <1>14 DEF n

(* What a load has resolved after the first n categories.                  *)
ExtendedBy(n) == {categories[j].on : j \in {i \in 1 .. n : categories[i].on \in Classes}}
LinesOf(S) == UNION {ToSet(ChainOf(c)) : c \in S}
Reached(r, n) == r \cup LinesOf(ExtendedBy(n))
State(r, n) == [resolved |-> r, imps |-> Table(r, n)]

(* The lines of some classes hold their superclasses.                      *)
LEMMA LinesFacts ==
  ASSUME NEW S, S \subseteq Classes
  PROVE  LinesOf(S) \subseteq Classes /\ S \subseteq LinesOf(S) /\ UpClosed(LinesOf(S))
<1>1. \A c \in S : c \in ToSet(ChainOf(c)) /\ ToSet(ChainOf(c)) \subseteq Classes /\ UpClosed(ToSet(ChainOf(c)))
  BY ChainFacts
<1>. QED BY <1>1 DEF LinesOf, UpClosed

(* __objc_statics_load, as one step.                                       *)
LEMMA StaticsFacts ==
  ASSUME NEW r, NEW table
  PROVE  \A from : from.resolved = r /\ from.imps = table =>
           LoadStatics(from) = [resolved |-> r \cup (LinesOf(Statics) \ r),
                                imps |-> WithOwn(table, LinesOf(Statics) \ r)]
<1>1. UNION {ToSet(ChainOf(c)) : c \in Statics} = LinesOf(Statics)
  BY DEF LinesOf
<1>. QED BY <1>1 DEF LoadStatics

(* Superclasses stay inside a union.                                       *)
LEMMA ClosedUnion ==
  ASSUME NEW S, NEW T, UpClosed(S), UpClosed(T)
  PROVE  UpClosed(S \cup T)
BY DEF UpClosed

(* A load resolves whole lines.                                            *)
LEMMA ReachedFacts ==
  ASSUME NEW r, r \subseteq Classes, UpClosed(r), NEW n
  PROVE  /\ r \subseteq Reached(r, n) /\ Reached(r, n) \subseteq Classes /\ UpClosed(Reached(r, n))
         /\ Covered(Reached(r, n), n)
<1>1. ExtendedBy(n) \subseteq Classes
  BY DEF ExtendedBy
<1>2. LinesOf(ExtendedBy(n)) \subseteq Classes /\ ExtendedBy(n) \subseteq LinesOf(ExtendedBy(n)) /\ UpClosed(LinesOf(ExtendedBy(n)))
  BY <1>1, LinesFacts
<1>3. UpClosed(Reached(r, n))
  BY <1>2, ClosedUnion DEF Reached
<1>4. Covered(Reached(r, n), n)
  BY <1>2 DEF Covered, Reached, ExtendedBy
<1>. QED BY <1>2, <1>3, <1>4 DEF Reached

(* One category.                                                           *)
AddedTo(from, cat) ==
  LET new == ToSet(ChainOf(cat.on)) \ from.resolved IN
    [resolved |-> from.resolved \cup new,
     imps |-> [WithOwn(from.imps, new) EXCEPT ![<<cat.on, cat.has>>] = <<cat.name, cat.on>>]]

(* One category more is one step of the load.                              *)
LEMMA AddedFacts ==
  ASSUME Declared, NEW r, r \subseteq Classes, UpClosed(r), NEW n \in Nat, n + 1 \in 1 .. Len(categories)
  PROVE  State(Reached(r, n + 1), n + 1) = IF categories[n + 1].on \notin Classes THEN State(Reached(r, n), n)
                                           ELSE AddedTo(State(Reached(r, n), n), categories[n + 1])
<1>. DEFINE on == categories[n + 1].on
<1>1. \A i : i \in 1 .. n + 1 <=> i \in 1 .. n \/ i = n + 1
  OBVIOUS
<1>2. CASE on \notin Classes
  <2>1. ExtendedBy(n + 1) = ExtendedBy(n)
    BY <1>1, <1>2 DEF ExtendedBy
  <2>2. ASSUME NEW d \in Classes, NEW m PROVE Of(n + 1, d, m) = Of(n, d, m)
    BY <1>1, <1>2 DEF Of
  <2>3. Table(Reached(r, n), n + 1) = Table(Reached(r, n), n)
    <3>1. \A e \in Classes \X Methods : Rightly(Reached(r, n), n + 1, e[1], e[2]) = Rightly(Reached(r, n), n, e[1], e[2])
      BY <2>2 DEF Rightly
    <3>. QED BY <3>1 DEF Table
  <2>4. Reached(r, n + 1) = Reached(r, n)
    BY <2>1 DEF Reached
  <2>. QED BY <1>2, <2>3, <2>4 DEF State
<1>3. CASE on \in Classes
  <2>1. ExtendedBy(n + 1) = ExtendedBy(n) \cup {on}
    BY <1>1, <1>3 DEF ExtendedBy
  <2>. DEFINE R == Reached(r, n)
              new == ToSet(ChainOf(on)) \ R
  <2>2. Reached(r, n + 1) = R \cup new
    <3>1. LinesOf(ExtendedBy(n) \cup {on}) = LinesOf(ExtendedBy(n)) \cup ToSet(ChainOf(on))
      BY DEF LinesOf
    <3>. QED BY <2>1, <3>1 DEF Reached
  <2>3. Covered(R, n) /\ new \cap R = {} /\ new \subseteq Classes
    BY <1>3, ReachedFacts, ChainFacts
  <2>. HIDE DEF R, new
  <2>4. WithOwn(Table(R, n), new) = Table(R \cup new, n)
    BY <2>3, OwnFacts
  <2>5. [Table(R \cup new, n) EXCEPT ![<<on, categories[n + 1].has>>] = <<categories[n + 1].name, on>>]
          = Table(R \cup new, n + 1)
    BY <1>3, CategoryFacts
  <2>6. State(R, n).resolved = R /\ State(R, n).imps = Table(R, n)
    BY DEF State
  <2>7. AddedTo(State(R, n), categories[n + 1]) = State(R \cup new, n + 1)
    BY <2>4, <2>5, <2>6 DEF AddedTo, State, new
  <2>. QED BY <1>3, <2>2, <2>7 DEF R
<1>. QED BY <1>2, <1>3

(* All categories, one after the other.                                    *)
LEMMA LoadFacts ==
  ASSUME Declared, NEW r, r \subseteq Classes, UpClosed(r)
  PROVE  LoadCategories(State(r, 0)) = State(Reached(r, Len(categories)), Len(categories))
<1>. DEFINE N == Len(categories)
            f == [n \in 0 .. N |-> State(Reached(r, n), n)]
            Next1(n, s) == IF categories[n].on \notin Classes THEN s ELSE AddedTo(s, categories[n])
            after == CHOOSE h : h = [n \in 0 .. N |->
                        IF n = 0 THEN State(r, 0)
                        ELSE IF categories[n].on \notin Classes THEN h[n - 1]
                        ELSE LET cat == categories[n]
                                 s == h[n - 1]
                                 new == ToSet(ChainOf(cat.on)) \ s.resolved
                             IN [resolved |-> s.resolved \cup new,
                                 imps |-> [WithOwn(s.imps, new) EXCEPT ![<<cat.on, cat.has>>] = <<cat.name, cat.on>>]]]
<1>1. LoadCategories(State(r, 0)) = after[N]
  BY DEF LoadCategories
<1>2. N \in Nat
  BY DeclaredFacts
<1>3. Reached(r, 0) = r
  BY DEF Reached, LinesOf, ExtendedBy
<1>4. \A n \in 1 .. N : State(Reached(r, n), n) = Next1(n, State(Reached(r, n - 1), n - 1))
  <2>. SUFFICES ASSUME NEW n \in 1 .. N PROVE State(Reached(r, n), n) = Next1(n, State(Reached(r, n - 1), n - 1))
    OBVIOUS
  <2>1. n - 1 \in Nat /\ (n - 1) + 1 = n
    BY <1>2
  <2>. QED BY <2>1, AddedFacts
<1>. DEFINE Solves(h) == h = [n \in 0 .. N |-> IF n = 0 THEN State(r, 0) ELSE Next1(n, h[n - 1])]
<1>5. after = CHOOSE h : Solves(h)
  BY DEF AddedTo
<1>. HIDE DEF after, Next1, N
<1>6. Solves(f)
  <2>1. \A n \in 0 .. N : f[n] = IF n = 0 THEN State(r, 0) ELSE Next1(n, f[n - 1])
    <3>. SUFFICES ASSUME NEW n \in 0 .. N PROVE f[n] = IF n = 0 THEN State(r, 0) ELSE Next1(n, f[n - 1])
      OBVIOUS
    <3>1. CASE n = 0
      BY <1>3, <3>1
    <3>2. CASE n # 0
      <4>1. n \in 1 .. N /\ n - 1 \in 0 .. N
        BY <1>2, <3>2
      <4>2. f[n] = State(Reached(r, n), n) /\ f[n - 1] = State(Reached(r, n - 1), n - 1)
        BY <4>1
      <4>. HIDE DEF f
      <4>. QED BY <1>4, <3>2, <4>1, <4>2
    <3>. QED BY <3>1, <3>2
  <2>2. DOMAIN f = 0 .. N /\ f = [n \in 0 .. N |-> f[n]]
    OBVIOUS
  <2>. HIDE DEF f
  <2>. QED BY <2>1, <2>2
<1>7. Solves(after)
  <2>. HIDE DEF f, Solves
  <2>. QED BY <1>5, <1>6
<1>8. after[0] = State(r, 0) /\ \A n \in 1 .. N : after[n] = Next1(n, after[n - 1])
  <2>1. \A n \in 0 .. N : after[n] = IF n = 0 THEN State(r, 0) ELSE Next1(n, after[n - 1])
    BY <1>7
  <2>2. 0 \in 0 .. N /\ \A n \in 1 .. N : n \in 0 .. N /\ n # 0
    BY <1>2
  <2>. QED BY <2>1, <2>2
<1>. DEFINE S == {n \in 0 .. N : after[n] = State(Reached(r, n), n)}
<1>9. 0 \in S
  BY <1>2, <1>3, <1>8
<1>10. ASSUME NEW n \in 0 .. N - 1, n \in S PROVE n + 1 \in S
  <2>1. n + 1 \in 1 .. N /\ (n + 1) - 1 = n /\ n + 1 \in 0 .. N
    BY <1>2
  <2>2. after[n + 1] = Next1(n + 1, after[n])
    BY <1>8, <2>1
  <2>3. State(Reached(r, n + 1), n + 1) = Next1(n + 1, State(Reached(r, n), n))
    BY <1>4, <2>1
  <2>. QED BY <1>10, <2>1, <2>2, <2>3
<1>11. 0 .. N \subseteq S
  <2>. HIDE DEF S
  <2>. QED BY <1>2, <1>9, <1>10, Climb
<1>12. N \in 0 .. N
  BY <1>2
<1>. QED BY <1>1, <1>11, <1>12 DEF N

-----------------------------------------------------------------------------
(* The end of a stack is taken off.                                        *)
LEMMA FrontFacts ==
  ASSUME NEW S, NEW s \in Seq(S), s # <<>>
  PROVE  /\ Front(s) \in Seq(S) /\ Len(Front(s)) = Len(s) - 1 /\ Len(s) \in Nat \ {0}
         /\ \A i \in 1 .. Len(s) - 1 : Front(s)[i] = s[i]
<1>1. Len(s) \in Nat /\ Len(s) # 0
  BY EmptySeq
<1>2. 1 \in 1 .. Len(s) + 1 /\ Len(s) - 1 \in 1 - 1 .. Len(s)
  BY <1>1
<1>3. /\ SubSeq(s, 1, Len(s) - 1) \in Seq(S)
      /\ Len(SubSeq(s, 1, Len(s) - 1)) = IF 1 <= Len(s) - 1 THEN (Len(s) - 1) - 1 + 1 ELSE 0
      /\ \A i \in 1 .. (Len(s) - 1) - 1 + 1 : SubSeq(s, 1, Len(s) - 1)[i] = s[1 + i - 1]
  BY <1>2, SubSeqProperties
<1>4. Len(Front(s)) = Len(s) - 1
  <2>1. \A n \in Nat \ {0} : (IF 1 <= n - 1 THEN (n - 1) - 1 + 1 ELSE 0) = n - 1
    OBVIOUS
  <2>. QED BY <1>1, <1>3, <2>1 DEF Front
<1>5. \A i \in 1 .. Len(s) - 1 : i \in 1 .. (Len(s) - 1) - 1 + 1 /\ 1 + i - 1 = i
  BY <1>1
<1>6. \A i \in 1 .. Len(s) - 1 : Front(s)[i] = s[i]
  <2>. SUFFICES ASSUME NEW i \in 1 .. Len(s) - 1 PROVE Front(s)[i] = s[i]
    OBVIOUS
  <2>1. SubSeq(s, 1, Len(s) - 1)[i] = s[1 + i - 1] /\ 1 + i - 1 = i
    BY ONLY <1>3, <1>5, i \in 1 .. Len(s) - 1
  <2>. QED BY <2>1 DEF Front
<1>. QED BY <1>1, <1>3, <1>4, <1>6 DEF Front

(* A frame is pushed.                                                      *)
LEMMA PushFacts ==
  ASSUME NEW S, NEW s \in Seq(S), NEW e \in S
  PROVE  /\ Append(s, e) \in Seq(S) /\ Len(Append(s, e)) = Len(s) + 1 /\ Len(s) \in Nat
         /\ \A i \in 1 .. Len(s) : Append(s, e)[i] = s[i]
         /\ Append(s, e)[Len(s) + 1] = e
  BY AppendProperties

(* What is on the stack.                                                   *)
SendFrame(c, a) == [what |-> "send", class |-> c, at |-> a, imp |-> Expected(c, "work")]
BeginFrame(c, a) == [what |-> "initialize", class |-> c, at |-> a]
Frames == {SendFrame(x[1], x[2]) : x \in Classes \X {"class", "instance", "static"}}
            \cup {BeginFrame(x[1], x[2]) : x \in Classes \X {"super", "body"}}

(* What a frame says.                                                      *)
LEMMA FrameFacts ==
  /\ \A c \in Classes, a \in {"class", "instance", "static"} : SendFrame(c, a) \in Frames
  /\ \A c \in Classes, a \in {"super", "body"} : BeginFrame(c, a) \in Frames
  /\ \A f \in Frames :
       /\ f.class \in Classes /\ f.what \in {"send", "initialize"}
       /\ f.what = "send" => f.at \notin {"super", "body"} /\ f.imp = Expected(f.class, "work")
       /\ f.what = "initialize" => f.at \in {"super", "body"} /\ f = BeginFrame(f.class, f.at)
<1>1. ASSUME NEW c \in Classes, NEW a \in {"class", "instance", "static"} PROVE SendFrame(c, a) \in Frames
  <2>1. <<c, a>> \in Classes \X {"class", "instance", "static"} /\ <<c, a>>[1] = c /\ <<c, a>>[2] = a
    OBVIOUS
  <2>. QED BY <2>1 DEF Frames
<1>2. ASSUME NEW c \in Classes, NEW a \in {"super", "body"} PROVE BeginFrame(c, a) \in Frames
  <2>1. <<c, a>> \in Classes \X {"super", "body"} /\ <<c, a>>[1] = c /\ <<c, a>>[2] = a
    OBVIOUS
  <2>. QED BY <2>1 DEF Frames
<1>3. ASSUME NEW f \in Frames
      PROVE  /\ f.class \in Classes /\ f.what \in {"send", "initialize"}
             /\ f.what = "send" => f.at \notin {"super", "body"} /\ f.imp = Expected(f.class, "work")
             /\ f.what = "initialize" => f.at \in {"super", "body"} /\ f = BeginFrame(f.class, f.at)
  <2>1. CASE \E x \in Classes \X {"class", "instance", "static"} : f = SendFrame(x[1], x[2])
    BY <2>1 DEF SendFrame
  <2>2. CASE \E x \in Classes \X {"super", "body"} : f = BeginFrame(x[1], x[2])
    BY <2>2 DEF BeginFrame
  <2>. QED BY <1>3, <2>1, <2>2 DEF Frames
<1>. QED BY <1>1, <1>2, <1>3

(* A stack s, the flagged classes f, those called, those done: a flagged   *)
(* class waits for its superclass or was called, runs or is done, and only *)
(* the innermost may have a superclass that is not flagged yet.            *)
WaitingIn(s) == {s[i].class : i \in {j \in 1 .. Len(s) : s[j].at = "super"}}
Once(s) == \A i, j \in 1 .. Len(s) : s[i].at = "super" /\ s[j].at = "super" /\ s[i].class = s[j].class => i = j
RunningIn(s, d) == \E i \in 1 .. Len(s) : s[i].what = "initialize" /\ s[i].class = d
StartsIn(s, d) == s # <<>> /\ s[Len(s)].what = "initialize" /\ s[Len(s)].at = "super" /\ s[Len(s)].class = d
Resting(s) == \A d \in Classes : ~StartsIn(s, d)

StackOK(s, f, called, over) ==
  /\ s \in Seq(Frames) /\ Once(s)
  /\ f = WaitingIn(s) \cup called /\ WaitingIn(s) \cap called = {} /\ f \subseteq Classes
  /\ \A d \in f : d \in over \/ RunningIn(s, d)
  /\ \A d \in f : Super[d] \in f \cup {NoClass} \/ StartsIn(s, d)

(* A send leaves what runs as it is.                                       *)
LEMMA PushSend ==
  ASSUME NEW s, NEW f, NEW called, NEW over, StackOK(s, f, called, over), Resting(s),
         NEW e \in Frames, e.what = "send"
  PROVE  StackOK(Append(s, e), f, called, over) /\ Resting(Append(s, e))
<1>. DEFINE t == Append(s, e)
<1>1. s \in Seq(Frames)
  BY DEF StackOK
<1>2. /\ t \in Seq(Frames) /\ Len(t) = Len(s) + 1 /\ Len(s) \in Nat
      /\ \A i \in 1 .. Len(s) : t[i] = s[i]
      /\ t[Len(s) + 1] = e
  BY <1>1, PushFacts
<1>3. e.at # "super"
  BY FrameFacts
<1>. HIDE DEF t
<1>4. \A i : i \in 1 .. Len(t) <=> i \in 1 .. Len(s) \/ i = Len(s) + 1
  BY <1>2
<1>5. WaitingIn(t) = WaitingIn(s)
  BY <1>2, <1>3, <1>4 DEF WaitingIn
<1>6. Once(t)
  BY <1>2, <1>3, <1>4 DEF Once, StackOK
<1>7. \A d : RunningIn(s, d) => RunningIn(t, d)
  BY <1>2, <1>4 DEF RunningIn
<1>8. \A d : ~StartsIn(t, d)
  BY <1>2 DEF StartsIn
<1>9. \A d \in f : ~StartsIn(s, d)
  BY DEF Resting, StackOK
<1>. QED BY <1>2, <1>5, <1>6, <1>7, <1>8, <1>9 DEF StackOK, Resting, t

(* A +initialize begins, of the superclass that is missing or of a class.  *)
LEMMA PushBegin ==
  ASSUME NEW s, NEW f, NEW called, NEW over, StackOK(s, f, called, over),
         NEW c \in Classes, c \notin f, \A d \in f : StartsIn(s, d) => Super[d] = c
  PROVE  StackOK(Append(s, BeginFrame(c, "super")), f \cup {c}, called, over)
<1>. DEFINE e == BeginFrame(c, "super")
            t == Append(s, e)
<1>1. s \in Seq(Frames) /\ e \in Frames /\ e.what = "initialize" /\ e.at = "super" /\ e.class = c
  BY FrameFacts DEF StackOK, BeginFrame
<1>. HIDE DEF e
<1>2. /\ t \in Seq(Frames) /\ Len(t) = Len(s) + 1 /\ Len(s) \in Nat
      /\ \A i \in 1 .. Len(s) : t[i] = s[i]
      /\ t[Len(s) + 1] = e
  BY <1>1, PushFacts
<1>. HIDE DEF t
<1>4. \A i : i \in 1 .. Len(t) <=> i \in 1 .. Len(s) \/ i = Len(s) + 1
  BY <1>2
<1>5. WaitingIn(t) = WaitingIn(s) \cup {c}
  BY <1>1, <1>2, <1>4 DEF WaitingIn
<1>6. Once(t)
  <2>1. \A i \in 1 .. Len(s) : s[i].at = "super" => s[i].class # c
    BY DEF WaitingIn, StackOK
  <2>. QED BY <1>1, <1>2, <1>4, <2>1 DEF Once, StackOK
<1>7. \A d : RunningIn(s, d) => RunningIn(t, d)
  BY <1>2, <1>4 DEF RunningIn
<1>8. RunningIn(t, c)
  BY <1>1, <1>2, <1>4 DEF RunningIn
<1>9. StartsIn(t, c)
  <2>1. t # <<>>
    BY <1>2, EmptySeq
  <2>. QED BY <1>1, <1>2, <2>1 DEF StartsIn
<1>10. \A d \in f : Super[d] \in (f \cup {c}) \cup {NoClass}
  BY DEF StackOK
<1>. QED BY <1>2, <1>5, <1>6, <1>7, <1>8, <1>9, <1>10 DEF StackOK, t, e

(* The innermost returns.                                                  *)
LEMMA PopKeeps ==
  ASSUME NEW s, NEW f, NEW called, NEW over, StackOK(s, f, called, over),
         s # <<>>, s[Len(s)].at # "super",
         NEW after, over \subseteq after, s[Len(s)].what = "initialize" => s[Len(s)].class \in after
  PROVE  StackOK(Front(s), f, called, after)
<1>. DEFINE t == Front(s)
<1>1. s \in Seq(Frames)
  BY DEF StackOK
<1>2. /\ t \in Seq(Frames) /\ Len(t) = Len(s) - 1 /\ Len(s) \in Nat \ {0}
      /\ \A i \in 1 .. Len(s) - 1 : t[i] = s[i]
  BY <1>1, FrontFacts
<1>. HIDE DEF t
<1>3. \A i : i \in 1 .. Len(s) <=> i \in 1 .. Len(t) \/ i = Len(s)
  BY <1>2
<1>4. WaitingIn(t) = WaitingIn(s)
  BY <1>2, <1>3 DEF WaitingIn
<1>5. Once(t)
  BY <1>2, <1>3 DEF Once, StackOK
<1>6. \A d \in f : d \in after \/ RunningIn(t, d)
  BY <1>2, <1>3 DEF RunningIn, StackOK
<1>7. \A d \in f : Super[d] \in f \cup {NoClass}
  BY DEF StartsIn, StackOK
<1>. QED BY <1>2, <1>4, <1>5, <1>6, <1>7 DEF StackOK, t

(* The innermost goes on to its method.                                    *)
LEMMA BodyKeeps ==
  ASSUME NEW s, NEW f, NEW called, NEW over, StackOK(s, f, called, over),
         NEW c \in Classes, StartsIn(s, c), Super[c] \in f \cup {NoClass}
  PROVE  StackOK([s EXCEPT ![Len(s)].at = "body"], f, called \cup {c}, over) /\ c \in f /\ c \notin called
<1>. DEFINE n == Len(s)
            e == BeginFrame(c, "body")
            t == [s EXCEPT ![n].at = "body"]
<1>1. s \in Seq(Frames) /\ n \in Nat /\ n # 0
  BY EmptySeq DEF StackOK, StartsIn
<1>2. n \in 1 .. n /\ s[n] \in Frames
  BY <1>1, ElementOfSeq
<1>3. s[n] = BeginFrame(c, "super") /\ s[n].at = "super" /\ s[n].what = "initialize" /\ s[n].class = c
  BY <1>2, FrameFacts DEF StartsIn
<1>4. [s[n] EXCEPT !.at = "body"] = e
  BY <1>3 DEF BeginFrame
<1>5. e \in Frames /\ e.what = "initialize" /\ e.at = "body" /\ e.class = c
  BY FrameFacts DEF BeginFrame
<1>6. t = [s EXCEPT ![n] = e]
  BY <1>4
<1>. HIDE DEF e
<1>7. t \in Seq(Frames) /\ Len(t) = n /\ \A i \in 1 .. n : t[i] = IF i = n THEN e ELSE s[i]
  BY <1>1, <1>2, <1>5, <1>6, ExceptSeq
<1>. HIDE DEF t, n
<1>8. /\ c \in WaitingIn(s)
      /\ \A i \in 1 .. n : s[i].at = "super" /\ s[i].class = c => i = n
  BY <1>2, <1>3 DEF WaitingIn, StackOK, Once, n
<1>9. WaitingIn(t) = WaitingIn(s) \ {c}
  BY <1>2, <1>3, <1>5, <1>7, <1>8 DEF WaitingIn, n
<1>10. Once(t)
  BY <1>5, <1>7 DEF Once, StackOK, n
<1>11. \A d : RunningIn(s, d) => RunningIn(t, d)
  BY <1>2, <1>3, <1>5, <1>7 DEF RunningIn, n
<1>12. \A d \in f : Super[d] \in f \cup {NoClass}
  BY <1>3 DEF StartsIn, StackOK, n
<1>. QED BY <1>7, <1>8, <1>9, <1>10, <1>11, <1>12 DEF StackOK, t, n

-----------------------------------------------------------------------------
(* The invariant: the table is right for what is resolved and loaded.      *)
Calls == {[class |-> x[1], waiting |-> x[2], imp |-> Expected(x[1], "initialize")] : x \in Classes \X SUBSET Classes}
Called == {calls[i].class : i \in 1 .. Len(calls)}

(* The classes that went past their superclass, and those that are done    *)
(* with: where no +initialize is found, every flagged class that waits no  *)
(* longer.                                                                 *)
Asked == IF wide THEN Called ELSE flagged \ WaitingIn(stack)
Past == IF wide THEN done ELSE flagged \ WaitingIn(stack)
NoneFound == ~wide => calls = <<>> /\ \A i \in 1 .. Len(stack) : stack[i].at # "body"

Present == IF loaded THEN Len(categories) ELSE 0
SendsIn(s, f) == \A i \in 1 .. Len(s) : s[i].what = "send" => s[i].class \in f

MsgInv ==
  /\ Declared
  /\ resolved \subseteq Classes /\ UpClosed(resolved) /\ loaded \in BOOLEAN
  /\ imps = Table(resolved, Present)
  /\ loaded => Covered(resolved, Len(categories)) /\ Statics \subseteq resolved
  /\ flagged \subseteq resolved /\ (flagged # {} => loaded)
  /\ wide \in BOOLEAN
  /\ StackOK(stack, flagged, Asked, Past) /\ SendsIn(stack, flagged)
  /\ calls \in Seq(Calls) /\ SuperFirst /\ NoneFound

(* What depends on the declarations only stays.                            *)
Fixed == wide' = wide /\ implements' = implements /\ categories' = categories

(* What classes and categories determine stays.                            *)
LEMMA FixedFacts ==
  ASSUME Fixed
  PROVE  /\ Frames' = Frames /\ Calls' = Calls /\ (Declared' <=> Declared)
         /\ \A r, n : Table(r, n)' = Table(r, n) /\ (Covered(r, n)' <=> Covered(r, n))
<1>1. ASSUME NEW c, NEW m PROVE Expected(c, m)' = Expected(c, m)
  BY DEF Expected, Brings, Fixed
<1>2. \A c, a : SendFrame(c, a)' = SendFrame(c, a) /\ BeginFrame(c, a)' = BeginFrame(c, a)
  BY <1>1 DEF SendFrame, BeginFrame
<1>3. Frames' = Frames
  BY <1>2 DEF Frames
<1>4. Calls' = Calls
  BY <1>1 DEF Calls
<1>5. Declared' <=> Declared
  BY DEF Declared, Fixed
<1>6. ASSUME NEW r, NEW n PROVE Table(r, n)' = Table(r, n)
  <2>1. \A d, m : Of(n, d, m)' = Of(n, d, m)
    BY DEF Of, Fixed
  <2>2. \A d, m : Rightly(r, n, d, m)' = Rightly(r, n, d, m)
    BY <2>1 DEF Rightly, Fixed
  <2>. QED BY <2>2 DEF Table
<1>7. ASSUME NEW r, NEW n PROVE Covered(r, n)' <=> Covered(r, n)
  BY DEF Covered, Fixed
<1>. QED BY <1>3, <1>4, <1>5, <1>6, <1>7

(* A program that sent nothing satisfies the invariant.                    *)
LEMMA MessagesStart == MessagesInit => MsgInv
<1>. SUFFICES ASSUME MessagesInit PROVE MsgInv
  OBVIOUS
<1>1. Declared
  BY DEF Declared, MessagesInit
<1>2. UpClosed({}) /\ resolved = {} /\ loaded = FALSE /\ flagged = {} /\ stack = <<>> /\ calls = <<>> /\ done = {}
  BY DEF UpClosed, MessagesInit
<1>3. imps = Table(resolved, Present)
  <2>1. Present = 0
    BY <1>2 DEF Present
  <2>2. \A d, m : Of(0, d, m) = {}
    BY DEF Of
  <2>3. \A d, m : Rightly({}, 0, d, m) = NoImp
    BY <2>2 DEF Rightly
  <2>. QED BY <1>2, <2>1, <2>3 DEF Table, MessagesInit
<1>4. <<>> \in Seq(Frames) /\ <<>> \in Seq(Calls) /\ Len(<<>>) = 0
  BY EmptySeq
<1>5. Called = {} /\ WaitingIn(<<>>) = {} /\ wide \in BOOLEAN
  BY <1>2, <1>4 DEF Called, WaitingIn, MessagesInit
<1>6. StackOK(stack, flagged, Asked, Past) /\ SendsIn(stack, flagged)
  <2>1. Asked = {} /\ Past = {}
    BY <1>2, <1>5 DEF Asked, Past
  <2>. QED BY <1>2, <1>4, <1>5, <2>1 DEF StackOK, Once, SendsIn
<1>7. SuperFirst /\ NoneFound
  BY <1>2, <1>4 DEF SuperFirst, NoneFound
<1>. QED BY <1>1, <1>5, <1>2, <1>3, <1>4, <1>6, <1>7 DEF MsgInv

(* What a send resolves and loads.                                         *)
RightlyLoaded(r, table) ==
  /\ r \subseteq Classes /\ UpClosed(r) /\ resolved \subseteq r /\ Statics \subseteq r
  /\ Covered(r, Len(categories)) /\ table = Table(r, Len(categories))

(* After a send the table is right for what is resolved.                   *)
LEMMA SendLoads ==
  ASSUME MsgInv, NEW c \in Classes, NEW receiver \in {"class", "instance", "static"}, Send(c, receiver)
  PROVE  /\ RightlyLoaded(resolved', imps') /\ c \in resolved' /\ loaded' = TRUE
         /\ stack' = Append(stack, SendFrame(c, receiver)) \o (IF c \in flagged THEN <<>> ELSE InitFrames(c))
<1>. DEFINE named == IF receiver = "class" THEN Unresolved(c) ELSE {}
            before == [resolved |-> resolved \cup named, imps |-> WithOwn(imps, named)]
            after == IF loaded THEN before ELSE LoadCategories(LoadStatics(before))
            N == Len(categories)
            r1 == resolved \cup named
            r2 == r1 \cup LinesOf(Statics)
            r == IF loaded THEN r1 ELSE Reached(r2, N)
<1>1. /\ receiver = "instance" => c \in flagged
      /\ receiver = "static" => c \in Statics
      /\ resolved' = after.resolved /\ imps' = after.imps /\ loaded' = TRUE
      /\ stack' = Append(stack, [what |-> "send", class |-> c, at |-> receiver, imp |-> Find(after.imps, c, "work")])
                    \o (IF c \in flagged THEN <<>> ELSE InitFrames(c))
  BY DEF Send
<1>2. /\ Declared /\ resolved \subseteq Classes /\ UpClosed(resolved) /\ loaded \in BOOLEAN
      /\ imps = Table(resolved, Present) /\ (loaded => Covered(resolved, N) /\ Statics \subseteq resolved)
      /\ flagged \subseteq resolved /\ (flagged # {} => loaded)
  BY DEF MsgInv
<1>3. ToSet(ChainOf(c)) \subseteq Classes /\ UpClosed(ToSet(ChainOf(c))) /\ c \in ToSet(ChainOf(c))
  BY ChainFacts
<1>4. named \subseteq Classes /\ named \cap resolved = {} /\ r1 \subseteq Classes /\ UpClosed(r1)
  <2>1. CASE receiver = "class"
    <3>1. r1 = resolved \cup ToSet(ChainOf(c))
      BY <2>1 DEF Unresolved
    <3>2. UpClosed(resolved \cup ToSet(ChainOf(c)))
      BY <1>2, <1>3, ClosedUnion
    <3>. QED BY <1>2, <1>3, <2>1, <3>1, <3>2 DEF Unresolved
  <2>2. CASE receiver # "class"
    BY <1>2, <2>2
  <2>. QED BY <2>1, <2>2
<1>5. receiver = "class" => c \in r1
  BY <1>3 DEF Unresolved
<1>. HIDE DEF named
<1>6. WithOwn(imps, named) = Table(r1, Present)
  <2>1. Covered(resolved, Present)
    BY <1>2 DEF Covered, Present
  <2>. QED BY <1>2, <1>4, <2>1, OwnFacts
<1>7. before = State(r1, Present)
  BY <1>6 DEF State
<1>. HIDE DEF before, r1
<1>8. after = State(r, N) /\ r \subseteq Classes /\ UpClosed(r) /\ resolved \subseteq r /\ Statics \subseteq r /\ Covered(r, N)
      /\ r1 \subseteq r
  <2>1. CASE loaded
    <3>1. after = State(r1, N) /\ r = r1
      BY <1>7, <2>1 DEF Present
    <3>2. Covered(r1, N)
      BY <1>2, <2>1 DEF Covered, r1
    <3>. QED BY <1>2, <1>4, <2>1, <3>1, <3>2 DEF r1
  <2>2. CASE ~loaded
    <3>1. before = State(r1, 0) /\ r = Reached(r2, N) /\ after = LoadCategories(LoadStatics(before))
      BY <1>7, <2>2 DEF Present
    <3>2. LinesOf(Statics) \subseteq Classes /\ Statics \subseteq LinesOf(Statics) /\ UpClosed(LinesOf(Statics))
      BY LinesFacts, MessagesAssumption
    <3>3. r2 \subseteq Classes /\ UpClosed(r2) /\ Statics \subseteq r2 /\ r1 \subseteq r2
      BY <1>4, <3>2, ClosedUnion
    <3>4. LoadStatics(State(r1, 0)) = State(r2, 0)
      <4>. DEFINE new == LinesOf(Statics) \ r1
      <4>1. Covered(r1, 0) /\ new \cap r1 = {} /\ new \subseteq Classes /\ r1 \cup new = r2
        BY <3>2 DEF Covered
      <4>2. State(r1, 0).resolved = r1 /\ State(r1, 0).imps = Table(r1, 0)
        BY DEF State
      <4>3. LoadStatics(State(r1, 0)) = [resolved |-> r1 \cup new, imps |-> WithOwn(Table(r1, 0), new)]
        BY <4>2, StaticsFacts
      <4>. HIDE DEF new, r2
      <4>4. WithOwn(Table(r1, 0), new) = Table(r1 \cup new, 0)
        BY <4>1, OwnFacts
      <4>. QED BY <4>1, <4>3, <4>4 DEF State
    <3>. HIDE DEF r2
    <3>5. LoadCategories(State(r2, 0)) = State(Reached(r2, N), N)
      BY <1>2, <3>3, LoadFacts
    <3>6. r2 \subseteq Reached(r2, N) /\ Reached(r2, N) \subseteq Classes /\ UpClosed(Reached(r2, N)) /\ Covered(Reached(r2, N), N)
      BY <3>3, ReachedFacts
    <3>7. resolved \subseteq r1
      BY DEF r1
    <3>. QED BY <3>1, <3>3, <3>4, <3>5, <3>6, <3>7
  <2>. QED BY <2>1, <2>2
<1>. HIDE DEF r, after
<1>9. after.resolved = r /\ after.imps = Table(r, N)
  BY <1>8 DEF State
<1>10. c \in r
  BY <1>1, <1>2, <1>5, <1>8
<1>11. Find(after.imps, c, "work") = Expected(c, "work")
  <2>1. ToSet(ChainOf(c)) \subseteq r
    BY <1>8, <1>10, ChainIn
  <2>. QED BY <1>2, <1>9, <2>1, FindFacts DEF Methods
<1>12. RightlyLoaded(resolved', imps')
  BY <1>1, <1>8, <1>9 DEF RightlyLoaded
<1>. QED BY <1>1, <1>9, <1>10, <1>11, <1>12 DEF SendFrame

(* The program and a running +initialize leave none that begins.           *)
LEMMA SendsRest ==
  ASSUME MsgInv, MaySend
  PROVE  Resting(stack)
BY DEF MaySend, Turn, Frame, Last, Resting, StartsIn

(* The receivers of sends stay flagged.                                    *)
LEMMA PushSends ==
  ASSUME NEW s \in Seq(Frames), NEW e \in Frames, NEW f, NEW g, SendsIn(s, f), f \subseteq g,
         e.what = "send" => e.class \in g
  PROVE  SendsIn(Append(s, e), g)
<1>. DEFINE t == Append(s, e)
<1>1. /\ Len(t) = Len(s) + 1 /\ Len(s) \in Nat /\ t[Len(s) + 1] = e
      /\ \A i \in 1 .. Len(s) : t[i] = s[i]
  BY PushFacts
<1>. HIDE DEF t
<1>2. \A i \in 1 .. Len(t) : i \in 1 .. Len(s) \/ i = Len(s) + 1
  BY <1>1
<1>3. SendsIn(t, g)
  BY <1>1, <1>2 DEF SendsIn
<1>. QED BY <1>3 DEF t

(* +initialize is entered.                                                 *)
LEMMA PushOne ==
  ASSUME NEW s \in Seq(Frames), NEW c \in Classes
  PROVE  s \o InitFrames(c) = Append(s, BeginFrame(c, "super"))
<1>1. BeginFrame(c, "super") \in Frames
  BY FrameFacts
<1>2. InitFrames(c) = <<BeginFrame(c, "super")>>
  BY DEF InitFrames, BeginFrame
<1>. QED BY <1>1, <1>2, AppendIsConcat

(* What a +initialize that is not called leaves as it was.                 *)
LEMMA AskedStays ==
  ASSUME MsgInv, StackOK(stack', flagged', Asked, Past), wide' = wide, calls' = calls, done' = done,
         ~wide => \A i \in 1 .. Len(stack') : stack'[i].at # "body"
  PROVE  Asked' = Asked /\ Past' = Past /\ SuperFirst' /\ NoneFound'
<1>1. SuperFirst' /\ NoneFound'
  <2>1. SuperFirst /\ (~wide => calls = <<>>)
    BY DEF MsgInv, NoneFound
  <2>2. SuperFirst' <=> SuperFirst
    BY DEF SuperFirst
  <2>3. NoneFound'
    BY <2>1 DEF NoneFound
  <2>. QED BY <2>1, <2>2, <2>3
<1>2. CASE wide
  BY <1>1, <1>2 DEF Asked, Past, Called
<1>3. CASE ~wide
  <2>1. WaitingIn(stack)' = WaitingIn(stack')
    BY DEF WaitingIn
  <2>2. flagged' = WaitingIn(stack') \cup Asked /\ WaitingIn(stack') \cap Asked = {}
    BY DEF StackOK
  <2>3. flagged' \ WaitingIn(stack') = Asked
    BY <2>2
  <2>4. Asked' = flagged' \ WaitingIn(stack)' /\ Past' = flagged' \ WaitingIn(stack)' /\ Past = Asked
    BY <1>3 DEF Asked, Past
  <2>. QED BY <1>1, <2>1, <2>3, <2>4
<1>. QED BY <1>1, <1>2, <1>3

(* objc_msg_lookup keeps the invariant.                                    *)
LEMMA SendKeeps ==
  ASSUME MsgInv, NEW c \in Classes, NEW receiver \in {"class", "instance", "static"}, Send(c, receiver)
  PROVE  MsgInv'
<1>. DEFINE e == SendFrame(c, receiver)
            t == Append(stack, e)
<1>1. /\ RightlyLoaded(resolved', imps') /\ c \in resolved' /\ loaded' = TRUE
      /\ stack' = t \o (IF c \in flagged THEN <<>> ELSE InitFrames(c))
  BY SendLoads
<1>2. /\ MaySend /\ flagged' = flagged \cup {c} /\ Fixed /\ calls' = calls /\ done' = done
  BY DEF Send, Fixed
<1>3. /\ Frames' = Frames /\ Calls' = Calls /\ Declared'
      /\ \A r, n : Table(r, n)' = Table(r, n) /\ (Covered(r, n)' <=> Covered(r, n))
  BY <1>2, FixedFacts DEF MsgInv
<1>4. stack \in Seq(Frames) /\ StackOK(stack, flagged, Asked, Past) /\ SendsIn(stack, flagged) /\ flagged \subseteq Classes
  BY DEF MsgInv, StackOK
<1>5. e \in Frames /\ e.what = "send" /\ e.class = c
  BY FrameFacts DEF SendFrame
<1>. HIDE DEF e
<1>6. StackOK(t, flagged, Asked, Past) /\ Resting(t) /\ t \in Seq(Frames) /\ SendsIn(t, flagged \cup {c})
  <2>1. StackOK(t, flagged, Asked, Past) /\ Resting(t)
    BY <1>2, <1>4, <1>5, SendsRest, PushSend
  <2>. QED BY <1>4, <1>5, <2>1, PushSends DEF StackOK
<1>. HIDE DEF t
<1>7. StackOK(stack', flagged', Asked, Past) /\ SendsIn(stack', flagged')
  <2>1. CASE c \in flagged
    <3>1. stack' = t /\ flagged' = flagged
      BY <1>1, <1>2, <1>6, <2>1, ConcatEmptySeq
    <3>2. flagged \cup {c} = flagged
      BY <2>1
    <3>. QED BY <1>6, <3>1, <3>2
  <2>2. CASE c \notin flagged
    <3>1. stack' = Append(t, BeginFrame(c, "super"))
      BY <1>1, <1>6, <2>2, PushOne
    <3>2. StackOK(Append(t, BeginFrame(c, "super")), flagged \cup {c}, Asked, Past)
      BY <1>4, <1>6, <2>2, PushBegin DEF Resting
    <3>3. BeginFrame(c, "super") \in Frames /\ BeginFrame(c, "super").what # "send"
      BY FrameFacts DEF BeginFrame
    <3>4. SendsIn(Append(t, BeginFrame(c, "super")), flagged \cup {c})
      BY <1>6, <3>3, PushSends
    <3>. QED BY <1>2, <3>1, <3>2, <3>4
  <2>. QED BY <2>1, <2>2
<1>8. Asked' = Asked /\ Past' = Past /\ SuperFirst' /\ NoneFound'
  <2>1. \A f \in Frames : f.what = "send" => f.at # "body"
    BY FrameFacts
  <2>2. \A i \in 1 .. Len(t) : t[i].at = "body" => i <= Len(stack) /\ stack[i] = t[i]
    <3>. QED BY <1>4, <1>5, <2>1, PushFacts DEF t
  <2>3. ASSUME ~wide PROVE \A i \in 1 .. Len(stack') : stack'[i].at # "body"
    <3>1. \A i \in 1 .. Len(t) : t[i].at # "body"
      BY <1>4, <2>2, <2>3, LenProperties DEF MsgInv, NoneFound
    <3>2. CASE c \in flagged
      BY <1>1, <1>6, <3>1, <3>2, ConcatEmptySeq
    <3>3. CASE c \notin flagged
      <4>1. stack' = Append(t, BeginFrame(c, "super"))
        BY <1>1, <1>6, <3>3, PushOne
      <4>2. BeginFrame(c, "super") \in Frames /\ BeginFrame(c, "super").at # "body"
        BY FrameFacts DEF BeginFrame
      <4>. QED BY <1>6, <3>1, <4>1, <4>2, PushFacts
    <3>. QED BY <3>2, <3>3
  <2>. QED BY <1>2, <1>7, <2>3, AskedStays DEF MsgInv, Fixed
<1>9. StackOK(stack, flagged, Asked, Past)' /\ SendsIn(stack, flagged)'
  BY <1>2, <1>3, <1>7, <1>8 DEF StackOK, SendsIn, Once, WaitingIn, RunningIn, StartsIn
<1>10. imps' = Table(resolved, Present)'
  <2>1. Present' = Len(categories)
    BY <1>1, <1>2 DEF Present, Fixed
  <2>2. imps' = Table(resolved', Len(categories))
    BY <1>1 DEF RightlyLoaded
  <2>3. Table(resolved, Present)' = Table(resolved', Present')
    BY <1>2 DEF Table, Rightly, Of, Fixed
  <2>. QED BY <2>1, <2>2, <2>3
<1>11. Covered(resolved', Len(categories)) /\ Covered(resolved, Len(categories))'
  BY <1>1, <1>2 DEF RightlyLoaded, Covered, Fixed
<1>12. resolved' \subseteq Classes /\ UpClosed(resolved') /\ Statics \subseteq resolved' /\ resolved \subseteq resolved'
  BY <1>1 DEF RightlyLoaded
<1>13. UpClosed(resolved)'
  BY <1>12 DEF UpClosed
<1>. QED BY <1>1, <1>2, <1>3, <1>8, <1>9, <1>10, <1>11, <1>12, <1>13 DEF MsgInv, Fixed

(* The steps that resolve and load nothing.                                *)
SameTable == Fixed /\ UNCHANGED <<resolved, imps, loaded>>

(* A step that leaves the table keeps the invariant if the stack does.     *)
LEMMA TableKept ==
  ASSUME MsgInv, SameTable, flagged' \subseteq resolved, flagged' # {} => loaded,
         StackOK(stack', flagged', Asked', Past'), SendsIn(stack', flagged'), calls' \in Seq(Calls),
         SuperFirst', NoneFound'
  PROVE  MsgInv'
<1>1. /\ Frames' = Frames /\ Calls' = Calls /\ Declared'
      /\ \A r, n : Table(r, n)' = Table(r, n) /\ (Covered(r, n)' <=> Covered(r, n))
  BY FixedFacts DEF MsgInv, SameTable
<1>2. StackOK(stack, flagged, Asked, Past)' /\ SendsIn(stack, flagged)'
  BY <1>1 DEF StackOK, SendsIn, Once, WaitingIn, RunningIn, StartsIn
<1>3. imps' = Table(resolved, Present)'
  <2>1. Present' = Present
    BY DEF Present, SameTable, Fixed
  <2>2. Table(resolved, Present)' = Table(resolved', Present')
    BY DEF Table, Rightly, Of, SameTable, Fixed
  <2>. QED BY <2>1, <2>2 DEF MsgInv, SameTable
<1>4. loaded => Covered(resolved, Len(categories))'
  BY DEF Covered, MsgInv, SameTable, Fixed
<1>5. UpClosed(resolved)'
  BY DEF UpClosed, MsgInv, SameTable
<1>. QED BY <1>1, <1>2, <1>3, <1>4, <1>5 DEF MsgInv, SameTable, Fixed

(* The innermost, when it is a +initialize.                                *)
LEMMA TopFacts ==
  ASSUME MsgInv, stack # <<>>
  PROVE  /\ stack \in Seq(Frames) /\ Len(stack) \in Nat \ {0} /\ Frame = stack[Len(stack)] /\ Frame \in Frames
         /\ Frame.class \in Classes
         /\ Turn("super") => StartsIn(stack, Frame.class) /\ Frame.class \in flagged
<1>1. stack \in Seq(Frames) /\ Len(stack) \in Nat \ {0}
  BY EmptySeq DEF MsgInv, StackOK
<1>2. Frame = stack[Len(stack)] /\ Len(stack) \in 1 .. Len(stack)
  BY <1>1 DEF Frame, Last
<1>3. Frame \in Frames /\ Frame.class \in Classes
  BY <1>1, <1>2, ElementOfSeq, FrameFacts
<1>4. Turn("super") => StartsIn(stack, Frame.class)
  BY <1>2 DEF Turn, StartsIn
<1>5. Turn("super") => Frame.class \in flagged
  <2>1. Turn("super") => Frame.class \in WaitingIn(stack)
    BY <1>2 DEF Turn, WaitingIn
  <2>. QED BY <2>1 DEF MsgInv, StackOK
<1>. QED BY <1>1, <1>2, <1>3, <1>4, <1>5

(* __objc_send_initialize of a superclass keeps it.                        *)
LEMMA SuperKeeps ==
  ASSUME MsgInv, InitializeSuper
  PROVE  MsgInv'
<1>. DEFINE s == Super[Frame.class]
<1>1. /\ Turn("super") /\ s # NoClass /\ s \notin flagged /\ flagged' = flagged \cup {s}
      /\ stack' = stack \o InitFrames(s)
      /\ Fixed /\ resolved' = resolved /\ imps' = imps /\ loaded' = loaded /\ calls' = calls /\ done' = done
  BY DEF InitializeSuper, Fixed
<1>2. /\ stack \in Seq(Frames) /\ Frame.class \in Classes /\ Frame.class \in flagged
      /\ stack # <<>> /\ Frame = stack[Len(stack)]
  BY <1>1, TopFacts DEF Turn
<1>3. s \in Classes /\ s \in resolved /\ loaded
  BY <1>1, <1>2, MessagesAssumption DEF MsgInv, UpClosed
<1>4. \A d \in flagged : StartsIn(stack, d) => Super[d] = s
  BY <1>2 DEF StartsIn
<1>. HIDE DEF s
<1>5. stack' = Append(stack, BeginFrame(s, "super"))
  BY <1>1, <1>2, <1>3, PushOne
<1>6. StackOK(stack', flagged', Asked, Past)
  BY <1>1, <1>3, <1>4, <1>5, PushBegin DEF MsgInv
<1>7. SendsIn(stack', flagged')
  <2>1. BeginFrame(s, "super") \in Frames /\ BeginFrame(s, "super").what # "send"
    BY <1>3, FrameFacts DEF BeginFrame
  <2>. QED BY <1>1, <1>2, <1>5, <2>1, PushSends DEF MsgInv
<1>8. Asked' = Asked /\ Past' = Past /\ SuperFirst' /\ NoneFound'
  <2>1. BeginFrame(s, "super") \in Frames /\ BeginFrame(s, "super").at # "body"
    BY <1>3, FrameFacts DEF BeginFrame
  <2>2. ~wide => \A k \in 1 .. Len(stack') : stack'[k].at # "body"
    BY <1>2, <1>5, <2>1, PushFacts DEF MsgInv, NoneFound
  <2>. QED BY <1>1, <1>6, <2>2, AskedStays DEF Fixed
<1>. QED BY <1>1, <1>3, <1>6, <1>7, <1>8, TableKept DEF MsgInv, SameTable

(* The class was called before or still waits for its superclass.          *)
LEMMA BodyStep ==
  ASSUME MsgInv, InitializeBody
  PROVE  MsgInv'
<1>. DEFINE c == Frame.class
            e == [class |-> c, waiting |-> Waiting, imp |-> InitializeOf(c)]
            n == Len(calls)
<1>1. /\ Turn("super") /\ Super[c] \in flagged \cup {NoClass} /\ wide
      /\ stack' = [stack EXCEPT ![Len(stack)].at = "body"] /\ calls' = Append(calls, e)
      /\ SameTable /\ flagged' = flagged /\ done' = done
  BY DEF InitializeBody, SuperFlagged, InitializeOf, Fixed, SameTable
<1>2. stack \in Seq(Frames) /\ c \in Classes /\ c \in flagged /\ StartsIn(stack, c) /\ stack # <<>> /\ Len(stack) \in Nat
  BY <1>1, TopFacts DEF Turn
<1>3. /\ calls \in Seq(Calls) /\ n \in Nat /\ SuperFirst /\ StackOK(stack, flagged, Asked, Past) /\ SendsIn(stack, flagged)
      /\ flagged \subseteq resolved /\ loaded /\ Asked = Called /\ Past = done
  BY <1>1, <1>2, LenProperties DEF MsgInv, Asked, Past
<1>4. Waiting = WaitingIn(stack)
  <2>1. DOMAIN stack = 1 .. Len(stack)
    BY <1>2, LenProperties
  <2>. QED BY <2>1 DEF Waiting, WaitingIn
<1>. HIDE DEF c
<1>5. InitializeOf(c) = Expected(c, "initialize")
  <2>1. c \in resolved /\ resolved \subseteq Classes /\ UpClosed(resolved) /\ Declared /\ imps = Table(resolved, Len(categories))
    BY <1>2, <1>3 DEF MsgInv, Present
  <2>2. ToSet(ChainOf(c)) \subseteq resolved
    BY <2>1, ChainIn
  <2>. QED BY <1>1, <1>2, <2>1, <2>2, FindFacts DEF Methods, InitializeOf
<1>6. e \in Calls /\ e.class = c /\ e.waiting = WaitingIn(stack)
  <2>1. <<c, Waiting>> \in Classes \X SUBSET Classes
    BY <1>2, <1>3, <1>4 DEF StackOK
  <2>2. <<c, Waiting>>[1] = c /\ <<c, Waiting>>[2] = Waiting
    OBVIOUS
  <2>. QED BY <1>4, <1>5, <2>1, <2>2 DEF Calls
<1>. HIDE DEF e
<1>7. /\ calls' \in Seq(Calls) /\ Len(calls') = n + 1 /\ calls'[n + 1] = e
      /\ \A i \in 1 .. n : calls'[i] = calls[i]
  BY <1>1, <1>3, <1>6, PushFacts
<1>8. \A i : i \in 1 .. n + 1 <=> i \in 1 .. n \/ i = n + 1
  BY <1>3
<1>9. Called' = Called \cup {c}
  BY <1>6, <1>7, <1>8 DEF Called
<1>10. StackOK(stack', flagged', Asked', Past') /\ c \notin Called
  <2>1. wide' /\ Asked' = Called' /\ Past' = done'
    BY <1>1 DEF Asked, Past, SameTable, Fixed
  <2>. QED BY <1>1, <1>2, <1>3, <1>9, <2>1, BodyKeeps
<1>11. SendsIn(stack', flagged')
  <2>. DEFINE k == Len(stack)
              g == [stack[k] EXCEPT !.at = "body"]
  <2>1. stack[k] = BeginFrame(c, "super")
    <3>1. k \in 1 .. k
      BY <1>2, EmptySeq
    <3>2. stack[k] \in Frames
      BY <1>2, <3>1, ElementOfSeq
    <3>. QED BY <1>2, <3>2, FrameFacts DEF StartsIn
  <2>2. g = BeginFrame(c, "body") /\ g \in Frames /\ g.what = "initialize" /\ k \in 1 .. k
    BY <1>2, <2>1, EmptySeq, FrameFacts DEF BeginFrame
  <2>3. stack' = [stack EXCEPT ![k] = g]
    BY <1>1
  <2>. HIDE DEF g
  <2>4. Len(stack') = k /\ \A i \in 1 .. k : stack'[i] = IF i = k THEN g ELSE stack[i]
    BY <1>2, <2>2, <2>3, ExceptSeq
  <2>. QED BY <1>1, <1>3, <2>2, <2>4 DEF SendsIn
<1>12. SuperFirst'
  <2>1. DOMAIN calls = 1 .. n /\ DOMAIN calls' = 1 .. n + 1
    BY <1>3, <1>7, LenProperties
  <2>. DEFINE Right(i) == /\ \A j \in 1 .. i - 1 : calls'[j].class # calls'[i].class
                          /\ Super[calls'[i].class] \notin calls'[i].waiting \cup {NoClass} =>
                                \E j \in 1 .. i - 1 : calls'[j].class = Super[calls'[i].class]
  <2>2. ASSUME NEW i \in 1 .. n PROVE Right(i)
    <3>1. \A j \in 1 .. i - 1 : j \in 1 .. n
      BY <1>3
    <3>2. calls'[i] = calls[i] /\ \A j \in 1 .. i - 1 : calls'[j] = calls[j]
      BY <1>7, <3>1
    <3>3. /\ \A j \in 1 .. i - 1 : calls[j].class # calls[i].class
          /\ Super[calls[i].class] \notin calls[i].waiting \cup {NoClass} =>
                \E j \in 1 .. i - 1 : calls[j].class = Super[calls[i].class]
      BY <1>3, <2>1 DEF SuperFirst
    <3>. QED BY <3>2, <3>3
  <2>3. Right(n + 1)
    <3>1. (n + 1) - 1 = n /\ calls'[n + 1].class = c /\ calls'[n + 1].waiting = WaitingIn(stack)
      BY <1>3, <1>6, <1>7
    <3>2. \A j \in 1 .. n : calls'[j].class \in Called
      BY <1>7 DEF Called
    <3>3. ASSUME Super[c] \notin WaitingIn(stack) \cup {NoClass} PROVE \E j \in 1 .. n : calls'[j].class = Super[c]
      <4>1. Super[c] \in Called
        BY <1>1, <1>3, <3>3 DEF StackOK, c
      <4>. QED BY <1>7, <4>1 DEF Called
    <3>. QED BY <1>10, <3>1, <3>2, <3>3
  <2>. HIDE DEF Right
  <2>4. \A i \in 1 .. n + 1 : Right(i)
    BY <1>8, <2>2, <2>3
  <2>. QED BY <2>1, <2>4 DEF SuperFirst, Right
<1>13. Calls' = Calls
  BY <1>1, FixedFacts DEF SameTable
<1>14. NoneFound'
  BY <1>1 DEF NoneFound, SameTable, Fixed
<1>. QED BY <1>1, <1>3, <1>7, <1>10, <1>11, <1>12, <1>14, TableKept

(* The lookup finds nothing only where pointers are narrow, and there it is *)
(* left at once: the class waits no longer.                                *)
LEMMA MissingStep ==
  ASSUME MsgInv, InitializeMissing
  PROVE  MsgInv'
<1>. DEFINE c == Frame.class
            t == [stack EXCEPT ![Len(stack)].at = "body"]
<1>1. /\ Turn("super") /\ Super[c] \in flagged \cup {NoClass} /\ InitializeOf(c) = NoImp
      /\ stack' = Front(stack) /\ SameTable /\ flagged' = flagged /\ calls' = calls /\ done' = done
  BY DEF InitializeMissing, SuperFlagged, Fixed, SameTable
<1>2. /\ stack \in Seq(Frames) /\ c \in Classes /\ c \in flagged /\ StartsIn(stack, c) /\ stack # <<>>
      /\ Len(stack) \in Nat \ {0}
  BY <1>1, TopFacts DEF Turn
<1>3. StackOK(stack, flagged, Asked, Past) /\ SendsIn(stack, flagged) /\ SuperFirst /\ NoneFound
      /\ flagged \subseteq resolved /\ loaded /\ calls \in Seq(Calls)
  BY <1>2 DEF MsgInv
<1>. HIDE DEF c
<1>4. ~wide
  <2>1. c \in resolved /\ resolved \subseteq Classes /\ UpClosed(resolved) /\ Declared /\ imps = Table(resolved, Len(categories))
    BY <1>2, <1>3 DEF MsgInv, Present
  <2>2. ToSet(ChainOf(c)) \subseteq resolved
    BY <2>1, ChainIn
  <2>. QED BY <1>1, <1>2, <2>1, <2>2, FindFacts DEF Methods, InitializeOf
<1>5. StackOK(t, flagged, Asked \cup {c}, Past)
  BY <1>1, <1>2, <1>3, BodyKeeps
<1>6. /\ t \in Seq(Frames) /\ Len(t) = Len(stack) /\ \A i \in 1 .. Len(stack) - 1 : t[i] = stack[i]
      /\ t[Len(t)].at = "body" /\ t[Len(t)].class = c
  <2>. DEFINE k == Len(stack)
              g == [stack[k] EXCEPT !.at = "body"]
  <2>1. stack[k] = BeginFrame(c, "super")
    <3>1. stack[k] \in Frames
      BY <1>2, ElementOfSeq
    <3>. QED BY <1>2, <3>1, FrameFacts DEF StartsIn
  <2>2. g = BeginFrame(c, "body") /\ g \in Frames /\ g.at = "body" /\ g.class = c /\ k \in 1 .. k
    BY <1>2, <2>1, FrameFacts DEF BeginFrame
  <2>3. t = [stack EXCEPT ![k] = g]
    OBVIOUS
  <2>. HIDE DEF g, t
  <2>. QED BY <1>2, <2>2, <2>3, ExceptSeq
<1>. HIDE DEF t
<1>7. Front(t) = Front(stack) /\ t # <<>>
  <2>1. t # <<>>
    BY <1>2, <1>6, EmptySeq
  <2>2. /\ Front(t) \in Seq(Frames) /\ Front(stack) \in Seq(Frames)
        /\ Len(Front(t)) = Len(Front(stack)) /\ \A i \in 1 .. Len(Front(t)) : Front(t)[i] = Front(stack)[i]
    BY <1>2, <1>6, <2>1, FrontFacts
  <2>. QED BY <2>1, <2>2, SeqEqual
<1>8. StackOK(stack', flagged', Asked \cup {c}, Past \cup {c})
  BY <1>1, <1>5, <1>6, <1>7, PopKeeps
<1>9. Asked' = Asked \cup {c} /\ Past' = Past \cup {c}
  <2>1. WaitingIn(stack)' = WaitingIn(stack')
    BY DEF WaitingIn
  <2>2. flagged' = WaitingIn(stack') \cup (Asked \cup {c}) /\ WaitingIn(stack') \cap (Asked \cup {c}) = {}
    BY <1>8 DEF StackOK
  <2>3. flagged' \ WaitingIn(stack') = Asked \cup {c}
    BY <2>2
  <2>4. Asked' = flagged' \ WaitingIn(stack)' /\ Past' = flagged' \ WaitingIn(stack)' /\ Past = Asked
    BY <1>1, <1>4 DEF Asked, Past, SameTable, Fixed
  <2>. QED BY <2>1, <2>3, <2>4
<1>10. /\ Len(stack') = Len(stack) - 1 /\ \A i \in 1 .. Len(stack) - 1 : stack'[i] = stack[i]
  BY <1>1, <1>2, FrontFacts
<1>11. SendsIn(stack', flagged') /\ NoneFound' /\ SuperFirst'
  BY <1>1, <1>2, <1>3, <1>10 DEF SendsIn, NoneFound, SuperFirst, SameTable, Fixed
<1>12. Calls' = Calls
  BY <1>1, FixedFacts DEF SameTable
<1>. QED BY <1>1, <1>3, <1>8, <1>9, <1>11, <1>12, TableKept

(* The return of a method or a +initialize keeps it.                       *)
LEMMA PopStep ==
  ASSUME MsgInv, InitializeReturn \/ Run
  PROVE  MsgInv'
<1>1. /\ stack # <<>> /\ (Frame.what = "send" \/ (Frame.what = "initialize" /\ Frame.at = "body"))
      /\ stack' = Front(stack) /\ done \subseteq done' /\ (Frame.what = "initialize" => Frame.class \in done')
      /\ SameTable /\ flagged' = flagged /\ calls' = calls
  BY DEF InitializeReturn, Run, Turn, Fixed, SameTable
<1>2. stack \in Seq(Frames) /\ stack # <<>> /\ Frame = stack[Len(stack)] /\ Frame \in Frames
  BY <1>1, TopFacts DEF InitializeReturn, Run, Turn
<1>3. Frame.at # "super"
  BY <1>1, <1>2, FrameFacts
<1>4. wide => Past = done /\ Past' = done' /\ Asked' = Asked
  BY <1>1 DEF Past, Asked, Called, SameTable, Fixed
<1>7. /\ Len(stack') = Len(stack) - 1 /\ Len(stack) \in Nat \ {0}
      /\ \A i \in 1 .. Len(stack) - 1 : stack'[i] = stack[i]
  BY <1>1, <1>2, FrontFacts
<1>8. SuperFirst' /\ NoneFound'
  BY <1>1, <1>7 DEF SuperFirst, NoneFound, MsgInv, SameTable, Fixed
<1>9. StackOK(stack', flagged', Asked', Past')
  <2>1. CASE wide
    <3>. QED BY <1>1, <1>2, <1>3, <1>4, <2>1, PopKeeps DEF MsgInv
  <2>2. CASE ~wide
    <3>1. Frame.what # "initialize"
      <4>1. Len(stack) \in 1 .. Len(stack)
        BY <1>7
      <4>. QED BY <1>1, <1>2, <2>2, <4>1 DEF MsgInv, NoneFound
    <3>2. StackOK(stack', flagged', Asked, Past)
      BY <1>1, <1>2, <1>3, <3>1, PopKeeps DEF MsgInv
    <3>3. done' = done
      BY <3>1 DEF InitializeReturn, Run, Turn
    <3>4. ~wide => \A i \in 1 .. Len(stack') : stack'[i].at # "body"
      BY <1>7 DEF MsgInv, NoneFound
    <3>. QED BY <1>1, <3>2, <3>3, <3>4, AskedStays DEF SameTable, Fixed
  <2>. QED BY <2>1, <2>2 DEF MsgInv
<1>5. SendsIn(stack', flagged')
  <2>1. /\ Len(stack') = Len(stack) - 1 /\ Len(stack) \in Nat \ {0}
        /\ \A i \in 1 .. Len(stack) - 1 : stack'[i] = stack[i]
    BY <1>1, <1>2, FrontFacts
  <2>2. \A i \in 1 .. Len(stack') : i \in 1 .. Len(stack) - 1 /\ i \in 1 .. Len(stack)
    BY <2>1
  <2>. QED BY <1>1, <2>1, <2>2 DEF SendsIn, MsgInv
<1>. QED BY <1>1, <1>5, <1>8, <1>9, TableKept DEF MsgInv

(* message.c, category.c, statics.c, class.c: the invariant of the         *)
(* dispatch of messages.                                                   *)
THEOREM MessagesInvariant == MessagesSpec => []MsgInv
<1>1. ASSUME MsgInv, [MessagesStep]_msgVars PROVE MsgInv'
  <2>1. CASE \E c \in Classes : \E receiver \in {"class", "instance", "static"} : Send(c, receiver)
    BY <1>1, <2>1, SendKeeps
  <2>2. CASE InitializeSuper
    BY <1>1, <2>2, SuperKeeps
  <2>3. CASE InitializeBody
    BY <1>1, <2>3, BodyStep
  <2>6. CASE InitializeMissing
    BY <1>1, <2>6, MissingStep
  <2>4. CASE InitializeReturn \/ Run
    BY <1>1, <2>4, PopStep
  <2>5. CASE UNCHANGED msgVars
    <3>1. SameTable /\ stack' = stack /\ flagged' = flagged /\ calls' = calls /\ done' = done
      BY <2>5 DEF msgVars, SameTable, Fixed
    <3>2. Asked' = Asked /\ Past' = Past /\ SuperFirst' /\ NoneFound'
      BY <1>1, <3>1, AskedStays DEF MsgInv, NoneFound, SameTable, Fixed
    <3>. QED BY <1>1, <3>1, <3>2, TableKept DEF MsgInv
  <2>. QED BY <1>1, <2>1, <2>2, <2>3, <2>4, <2>5, <2>6 DEF MessagesStep
<1>. QED BY <1>1, MessagesStart, PTL DEF MessagesSpec

(* The invariant gives the three properties.                               *)
LEMMA MsgInvGives == MsgInv => FindsMostDerived /\ SuperFirst /\ RunsInitialized
<1>. SUFFICES ASSUME MsgInv PROVE FindsMostDerived /\ SuperFirst /\ RunsInitialized
  OBVIOUS
<1>1. /\ stack \in Seq(Frames) /\ DOMAIN stack = 1 .. Len(stack)
      /\ calls \in Seq(Calls) /\ DOMAIN calls = 1 .. Len(calls)
  BY LenProperties DEF MsgInv, StackOK
<1>2. FindsMostDerived
  <2>1. ASSUME NEW i \in DOMAIN stack, stack[i].what = "send" PROVE stack[i].imp = Expected(stack[i].class, "work")
    <3>1. stack[i] \in Frames
      BY <1>1, ElementOfSeq
    <3>. QED BY <2>1, <3>1, FrameFacts
  <2>2. ASSUME NEW i \in DOMAIN calls PROVE calls[i].imp = Expected(calls[i].class, "initialize")
    <3>1. calls[i] \in Calls
      BY <1>1, ElementOfSeq
    <3>. QED BY <3>1 DEF Calls
  <2>. QED BY <2>1, <2>2 DEF FindsMostDerived
<1>3. RunsInitialized
  <2>. SUFFICES ASSUME stack # <<>>, Frame.what = "send", NEW d \in ToSet(ChainOf(Frame.class))
                PROVE  IF wide THEN d \in done \/ \E i \in DOMAIN stack : stack[i].what = "initialize" /\ stack[i].class = d
                       ELSE d \in flagged /\ calls = <<>>
    BY DEF RunsInitialized
  <2>1. Frame = stack[Len(stack)] /\ Len(stack) \in 1 .. Len(stack)
    BY TopFacts
  <2>2. Frame.class \in flagged
    BY <2>1 DEF MsgInv, SendsIn
  <2>3. UpClosed(flagged) /\ flagged \subseteq Classes
    <3>1. \A c : ~StartsIn(stack, c)
      BY <2>1 DEF StartsIn
    <3>. QED BY <3>1 DEF MsgInv, StackOK, UpClosed
  <2>4. d \in flagged
    BY <2>2, <2>3, ChainIn
  <2>5. wide => d \in done \/ RunningIn(stack, d)
    BY <2>4 DEF MsgInv, StackOK, Past
  <2>6. ~wide => calls = <<>>
    BY DEF MsgInv, NoneFound
  <2>. QED BY <1>1, <2>4, <2>5, <2>6 DEF RunningIn
<1>. QED BY <1>2, <1>3 DEF MsgInv

(* message.c, category.c: a message finds the most derived method, and, on *)
(* targets where it is found at all, +initialize comes once, after the     *)
(* superclass and before the methods, for any classes, categories and      *)
(* static instances.                                                       *)
THEOREM MessagesSafe == MessagesSpec => [](FindsMostDerived /\ SuperFirst /\ RunsInitialized)
BY MessagesInvariant, MsgInvGives, PTL

-----------------------------------------------------------------------------
(* The table of methods. Where a probe of a key comes first to a match.    *)
Held(item, key) == item # Vacant /\ Match(item, key)
Skipped(item, key) == item # Vacant /\ ~Match(item, key)
Leads(d, key, i) == Held(d[Cell(key, i)], key) /\ \A j \in 0 .. i - 1 : Skipped(d[Cell(key, j)], key)
Answers(d, key, imp) == \E i \in 0 .. Cells - 1 : Leads(d, key, i) /\ d[Cell(key, i)].imp = imp
Absent(d, s) == \A i \in 0 .. Cells - 1 : d[i].key[1] # s
Hashed == hashOf \in [MethodKeys -> 0 .. Cells - 1]
Places == [0 .. Cells - 1 -> [key : {Vacant.key} \cup MethodKeys, imp : Imps \cup {0}]]

(* A probe is a place of the table.                                        *)
LEMMA CellFacts ==
  ASSUME Hashed, NEW key \in MethodKeys, NEW i \in Nat
  PROVE  Cell(key, i) \in 0 .. Cells - 1
<1>1. hashOf[key] + i \in Nat /\ Cells \in Nat /\ Cells # 0
  BY RegistryAssumption DEF Hashed
<1>. DEFINE a == hashOf[key] + i
<1>2. a % Cells \in 0 .. Cells - 1
  <2>. HIDE DEF a
  <2>1. a \in Nat
    BY <1>1 DEF a
  <2>. QED BY <1>1, <2>1
<1>. QED BY <1>2 DEF Cell

(* A vacant place matches no key.                                          *)
LEMMA VacantFacts ==
  ASSUME NEW key \in MethodKeys
  PROVE  ~Match(Vacant, key)
<1>1. PICK s \in Selectors, t \in {"typed", Untyped} : key = <<s, t>>
  BY DEF MethodKeys
<1>2. s # Untyped
  BY RegistryAssumption
<1>. QED BY <1>1, <1>2 DEF Vacant, Match

(* The end of a probe.                                                     *)
LEMMA EndFacts ==
  ASSUME NEW d, NEW key, Ends(d, key) # {}
  PROVE  /\ Nearest(Ends(d, key)) \in 0 .. Cells - 1
         /\ LET e == Nearest(Ends(d, key)) IN
              /\ d[Cell(key, e)] = Vacant \/ Match(d[Cell(key, e)], key)
              /\ \A j \in 0 .. e - 1 : Skipped(d[Cell(key, j)], key)
<1>. DEFINE S == Ends(d, key)
            e == Nearest(S)
<1>1. \A i : i \in S <=> i \in 0 .. Cells - 1 /\ (d[Cell(key, i)] = Vacant \/ Match(d[Cell(key, i)], key))
  BY DEF Ends
<1>2. Cells \in Nat
  BY RegistryAssumption
<1>3. S \subseteq Nat /\ S # {}
  BY <1>1
<1>. HIDE DEF S
<1>4. e \in S /\ \A i \in S : e <= i
  BY <1>3, NearestFacts
<1>. HIDE DEF e
<1>5. e \in 0 .. Cells - 1 /\ (d[Cell(key, e)] = Vacant \/ Match(d[Cell(key, e)], key))
  BY <1>1, <1>4
<1>6. ASSUME NEW j \in 0 .. e - 1 PROVE Skipped(d[Cell(key, j)], key)
  <2>1. j \in 0 .. Cells - 1 /\ ~(e <= j)
    BY <1>2, <1>5
  <2>2. j \notin S
    BY <1>4, <2>1
  <2>. QED BY <1>1, <2>1, <2>2 DEF Skipped
<1>. QED BY <1>5, <1>6 DEF e, S

(* A probe that comes to a match first finds it.                           *)
LEMMA LookupFacts ==
  ASSUME NEW d, NEW key, NEW imp, Answers(d, key, imp)
  PROVE  HashLookup(d, key) = imp
<1>1. PICK i \in 0 .. Cells - 1 : Leads(d, key, i) /\ d[Cell(key, i)].imp = imp
  BY DEF Answers
<1>2. i \in Ends(d, key)
  BY <1>1 DEF Ends, Leads, Held
<1>. DEFINE e == Nearest(Ends(d, key))
<1>3. Ends(d, key) \subseteq Nat
  BY DEF Ends
<1>4. e \in Ends(d, key) /\ e <= i
  BY <1>2, <1>3, NearestFacts
<1>. HIDE DEF e
<1>5. e \in 0 .. Cells - 1 /\ (d[Cell(key, e)] = Vacant \/ Match(d[Cell(key, e)], key))
  BY <1>4 DEF Ends
<1>6. e = i
  <2>1. CASE e < i
    <3>1. e \in 0 .. i - 1
      BY <1>5, <2>1
    <3>. QED BY <1>1, <1>5, <3>1 DEF Leads, Skipped
  <2>. QED BY <1>4, <1>5, <2>1
<1>. QED BY <1>1, <1>2, <1>6 DEF HashLookup, e

(* A method without an entry is not found.                                 *)
LEMMA AbsentLookup ==
  ASSUME Hashed, NEW d \in Places, NEW s \in Selectors, NEW t \in {"typed", Untyped}, Absent(d, s)
  PROVE  HashLookup(d, <<s, t>>) = 0
<1>. DEFINE key == <<s, t>>
<1>0. key \in MethodKeys
  BY DEF MethodKeys
<1>1. CASE Ends(d, key) = {}
  BY <1>1 DEF HashLookup
<1>2. CASE Ends(d, key) # {}
  <2>. DEFINE e == Nearest(Ends(d, key))
  <2>1. e \in 0 .. Cells - 1 /\ (d[Cell(key, e)] = Vacant \/ Match(d[Cell(key, e)], key))
    BY <1>2, EndFacts
  <2>. HIDE DEF e
  <2>2. Cell(key, e) \in 0 .. Cells - 1
    BY <1>0, <2>1, CellFacts
  <2>3. ~Match(d[Cell(key, e)], key)
    BY <2>2 DEF Absent, Match
  <2>. QED BY <1>2, <2>1, <2>3 DEF HashLookup, e, Vacant
<1>. QED BY <1>1, <1>2

(* What a registration does to the place where its probe ends.             *)
LEMMA RegisteredFacts ==
  ASSUME Hashed, NEW d \in Places, NEW key \in MethodKeys, NEW imp \in Imps, Ends(d, key) # {}
  PROVE  \E e \in 0 .. Cells - 1 :
           LET p == Cell(key, e)
               r == Registered(d, key, imp)
           IN /\ p \in 0 .. Cells - 1 /\ r \in Places
              /\ \A j \in 0 .. e - 1 : Skipped(d[Cell(key, j)], key)
              /\ r[p].imp = imp /\ Held(r[p], key) /\ r[p].key[1] = key[1]
              /\ d[p] # Vacant => r[p].key = d[p].key /\ d[p].key[1] = key[1]
              /\ \A q \in 0 .. Cells - 1 : q # p => r[q] = d[q]
<1>. DEFINE e == Nearest(Ends(d, key))
            p == Cell(key, e)
            new == [key |-> IF d[p] = Vacant THEN key ELSE d[p].key, imp |-> imp]
            r == Registered(d, key, imp)
<1>1. /\ e \in 0 .. Cells - 1 /\ (d[p] = Vacant \/ Match(d[p], key))
      /\ \A j \in 0 .. e - 1 : Skipped(d[Cell(key, j)], key)
  BY EndFacts
<1>2. r = [d EXCEPT ![p] = new]
  BY DEF Registered
<1>3. p \in 0 .. Cells - 1
  <2>. HIDE DEF e
  <2>. QED BY <1>1, CellFacts
<1>. HIDE DEF e, p
<1>4. d[p].key \in {Vacant.key} \cup MethodKeys
  BY <1>3 DEF Places
<1>5. new \in [key : {Vacant.key} \cup MethodKeys, imp : Imps \cup {0}]
  BY <1>4
<1>6. new.imp = imp /\ new.key = IF d[p] = Vacant THEN key ELSE d[p].key
  OBVIOUS
<1>7. PICK s \in Selectors, t \in {"typed", Untyped} : key = <<s, t>>
  BY DEF MethodKeys
<1>8. d[p] # Vacant => Match(d[p], key) /\ d[p].key[1] = key[1]
  <2>1. Match(d[p], key) => d[p].key[1] = key[1]
    BY DEF Match
  <2>. QED BY <1>1, <2>1
<1>9. Match(new, key) /\ new.key[1] = key[1]
  <2>1. CASE d[p] = Vacant
    BY <1>6, <2>1 DEF Match
  <2>2. CASE d[p] # Vacant
    <3>1. new.key = d[p].key
      BY <1>6, <2>2
    <3>. HIDE DEF new
    <3>. QED BY <1>8, <2>2, <3>1 DEF Match
  <2>. QED BY <2>1, <2>2
<1>10. new # Vacant
  <2>1. key[1] # Untyped
    BY <1>7, RegistryAssumption
  <2>. HIDE DEF new
  <2>. QED BY <1>9, <2>1 DEF Vacant
<1>. HIDE DEF new
<1>11. r \in Places /\ r[p] = new /\ \A q \in 0 .. Cells - 1 : q # p => r[q] = d[q]
  BY <1>2, <1>3, <1>5 DEF Places
<1>12. d[p] # Vacant => r[p].key = d[p].key
  BY <1>6, <1>11
<1>. HIDE DEF r
<1>. QED BY <1>1, <1>3, <1>6, <1>8, <1>9, <1>10, <1>11, <1>12 DEF Held, r, p, e

(* The method that is registered is found.                                 *)
LEMMA RegisteredAnswers ==
  ASSUME Hashed, NEW d \in Places, NEW key \in MethodKeys, NEW imp \in Imps, Ends(d, key) # {}
  PROVE  Registered(d, key, imp) \in Places /\ Answers(Registered(d, key, imp), key, imp)
<1>. DEFINE r == Registered(d, key, imp)
<1>1. PICK e \in 0 .. Cells - 1 :
              /\ Cell(key, e) \in 0 .. Cells - 1 /\ r \in Places
              /\ \A j \in 0 .. e - 1 : Skipped(d[Cell(key, j)], key)
              /\ r[Cell(key, e)].imp = imp /\ Held(r[Cell(key, e)], key)
              /\ \A q \in 0 .. Cells - 1 : q # Cell(key, e) => r[q] = d[q]
              /\ d[Cell(key, e)] # Vacant => r[Cell(key, e)].key = d[Cell(key, e)].key
  BY RegisteredFacts
<1>. HIDE DEF r
<1>2. ASSUME NEW j \in 0 .. e - 1 PROVE Skipped(r[Cell(key, j)], key)
  <2>1. Skipped(d[Cell(key, j)], key) /\ Cell(key, j) \in 0 .. Cells - 1
    BY <1>1, CellFacts
  <2>2. Cell(key, j) # Cell(key, e)
    <3>1. d[Cell(key, e)] # Vacant => Match(d[Cell(key, e)], key)
      BY <1>1 DEF Held, Match
    <3>. QED BY <2>1, <3>1 DEF Skipped
  <2>. QED BY <1>1, <2>1, <2>2
<1>3. Leads(r, key, e) /\ r[Cell(key, e)].imp = imp
  BY <1>1, <1>2 DEF Leads
<1>. QED BY <1>1, <1>3 DEF Answers, r

(* The others are found as before, and so is the same method when it had   *)
(* that implementation already.                                            *)
LEMMA OthersAnswer ==
  ASSUME Hashed, NEW d \in Places, NEW key \in MethodKeys, NEW imp \in Imps, Ends(d, key) # {},
         NEW other \in MethodKeys, NEW x, Answers(d, other, x), other[1] # key[1] \/ x = imp
  PROVE  Answers(Registered(d, key, imp), other, x)
<1>. DEFINE r == Registered(d, key, imp)
<1>1. PICK e \in 0 .. Cells - 1 :
              /\ Cell(key, e) \in 0 .. Cells - 1
              /\ r[Cell(key, e)].imp = imp /\ Held(r[Cell(key, e)], key)
              /\ d[Cell(key, e)] # Vacant => r[Cell(key, e)].key = d[Cell(key, e)].key /\ d[Cell(key, e)].key[1] = key[1]
              /\ \A q \in 0 .. Cells - 1 : q # Cell(key, e) => r[q] = d[q]
  BY RegisteredFacts
<1>. DEFINE p == Cell(key, e)
<1>. HIDE DEF r, p
<1>2. PICK i \in 0 .. Cells - 1 : Leads(d, other, i) /\ d[Cell(other, i)].imp = x
  BY DEF Answers
<1>3. ASSUME NEW j \in 0 .. Cells - 1, d[Cell(other, j)] # Vacant
      PROVE  /\ r[Cell(other, j)] # Vacant /\ r[Cell(other, j)].key = d[Cell(other, j)].key
             /\ Match(r[Cell(other, j)], other) <=> Match(d[Cell(other, j)], other)
  <2>1. Cell(other, j) \in 0 .. Cells - 1
    BY CellFacts
  <2>2. r[Cell(other, j)] # Vacant /\ r[Cell(other, j)].key = d[Cell(other, j)].key
    <3>1. CASE Cell(other, j) = p
      BY <1>1, <1>3, <3>1 DEF p, Held
    <3>2. CASE Cell(other, j) # p
      BY <1>1, <1>3, <2>1, <3>2 DEF p
    <3>. QED BY <3>1, <3>2
  <2>. QED BY <2>2 DEF Match
<1>4. Held(r[Cell(other, i)], other)
  BY <1>2, <1>3 DEF Leads, Held
<1>5. ASSUME NEW j \in 0 .. i - 1 PROVE Skipped(r[Cell(other, j)], other)
  <2>1. j \in 0 .. Cells - 1 /\ Skipped(d[Cell(other, j)], other)
    BY <1>2, RegistryAssumption DEF Leads
  <2>. QED BY <1>3, <2>1 DEF Skipped
<1>6. r[Cell(other, i)].imp = x
  <2>1. CASE Cell(other, i) = p
    <3>1. Match(d[p], other) /\ d[p] # Vacant
      BY <1>2, <2>1 DEF Leads, Held
    <3>2. d[p].key[1] = other[1] /\ d[p].key[1] = key[1]
      BY <1>1, <3>1 DEF Match, p
    <3>. QED BY <1>1, <2>1, <3>2 DEF p
  <2>2. CASE Cell(other, i) # p
    BY <1>1, <1>2, <2>2, CellFacts DEF p
  <2>. QED BY <2>1, <2>2
<1>7. Leads(r, other, i)
  BY <1>4, <1>5 DEF Leads
<1>. QED BY <1>6, <1>7 DEF Answers, r

(* A registration files nothing under another method.                      *)
LEMMA OthersAbsent ==
  ASSUME Hashed, NEW d \in Places, NEW key \in MethodKeys, NEW imp \in Imps, Ends(d, key) # {},
         NEW s, s # key[1], Absent(d, s)
  PROVE  Absent(Registered(d, key, imp), s)
<1>. DEFINE r == Registered(d, key, imp)
<1>1. PICK e \in 0 .. Cells - 1 :
              /\ r[Cell(key, e)].key[1] = key[1]
              /\ \A q \in 0 .. Cells - 1 : q # Cell(key, e) => r[q] = d[q]
  BY RegisteredFacts
<1>. HIDE DEF r
<1>2. \A q \in 0 .. Cells - 1 : r[q].key[1] # s
  BY <1>1 DEF Absent
<1>. QED BY <1>2 DEF Absent, r

(* A registration of a method, with its types and without.                 *)
Found(d, s, imp) == Answers(d, <<s, "typed">>, imp) /\ Answers(d, <<s, Untyped>>, imp)
Filed(d, s, imp) == (Absent(d, s) /\ imp = 0) \/ Found(d, s, imp)

(* Both registrations of a method file it, and keep the others.            *)
LEMMA BothRegistered ==
  ASSUME Hashed, NEW d \in Places, NEW s \in Selectors, NEW imp \in Imps,
         Ends(d, <<s, "typed">>) # {},
         Ends(Registered(d, <<s, "typed">>, imp), <<s, Untyped>>) # {}
  PROVE  LET both == Registered(Registered(d, <<s, "typed">>, imp), <<s, Untyped>>, imp) IN
           /\ both \in Places /\ Found(both, s, imp)
           /\ \A o \in Selectors : \A x : o # s /\ Filed(d, o, x) => Filed(both, o, x)
<1>. DEFINE kt == <<s, "typed">>
            ku == <<s, Untyped>>
            typed == Registered(d, kt, imp)
            both == Registered(typed, ku, imp)
<1>1. \A o \in Selectors : <<o, "typed">> \in MethodKeys /\ <<o, Untyped>> \in MethodKeys
  BY DEF MethodKeys
<1>2. kt[1] = s /\ ku[1] = s
  OBVIOUS
<1>3. typed \in Places /\ Answers(typed, kt, imp)
  BY <1>1, RegisteredAnswers
<1>4. Ends(d, kt) # {} /\ Ends(typed, ku) # {} /\ kt \in MethodKeys /\ ku \in MethodKeys
  BY <1>1
<1>5. \A o \in Selectors : <<o, "typed">>[1] = o /\ <<o, Untyped>>[1] = o
  OBVIOUS
<1>. HIDE DEF kt, ku, typed
<1>6. both \in Places /\ Answers(both, ku, imp)
  BY <1>3, <1>4, RegisteredAnswers
<1>7. Answers(both, kt, imp)
  BY <1>3, <1>4, OthersAnswer
<1>8. ASSUME NEW o \in Selectors, NEW x, o # s, Filed(d, o, x) PROVE Filed(both, o, x)
  <2>1. CASE Absent(d, o) /\ x = 0
    <3>1. Absent(typed, o)
      BY <1>2, <1>4, <1>8, <2>1, OthersAbsent DEF typed
    <3>2. Absent(both, o)
      BY <1>2, <1>3, <1>4, <1>8, <3>1, OthersAbsent
    <3>. QED BY <2>1, <3>2 DEF Filed
  <2>2. CASE Found(d, o, x)
    <3>1. Answers(d, <<o, "typed">>, x) /\ Answers(d, <<o, Untyped>>, x)
      BY <2>2 DEF Found
    <3>2. Answers(typed, <<o, "typed">>, x) /\ Answers(typed, <<o, Untyped>>, x)
      BY <1>1, <1>2, <1>4, <1>5, <1>8, <3>1, OthersAnswer DEF typed
    <3>3. Answers(both, <<o, "typed">>, x) /\ Answers(both, <<o, Untyped>>, x)
      BY <1>1, <1>2, <1>3, <1>4, <1>5, <1>8, <3>2, OthersAnswer
    <3>. QED BY <3>3 DEF Filed, Found
  <2>. QED BY <1>8, <2>1, <2>2 DEF Filed
<1>. QED BY <1>6, <1>7, <1>8 DEF Found, kt, ku, typed

-----------------------------------------------------------------------------
(* The protocols that are registered: a list by name.                      *)
Names(list) == {NameOf[list[i]] : i \in 1 .. Len(list)}
Distinct(list) == \A i, j \in 1 .. Len(list) : NameOf[list[i]] = NameOf[list[j]] => i = j
Tables == {table \in Seq(Protocols) : Distinct(table)}
AlsoNamed(table, p) == IF \E i \in DOMAIN table : SameProtocol(table[i], p) THEN table ELSE Append(table, p)
NamesTo(list, n) == {NameOf[list[i]] : i \in 1 .. n}

(* A protocol is added when its name is new.                               *)
LEMMA AlsoNamedFacts ==
  ASSUME NEW table \in Tables, NEW p \in Protocols
  PROVE  AlsoNamed(table, p) \in Tables /\ Names(AlsoNamed(table, p)) = Names(table) \cup {NameOf[p]}
<1>1. table \in Seq(Protocols) /\ Distinct(table) /\ Len(table) \in Nat /\ DOMAIN table = 1 .. Len(table)
  BY LenProperties DEF Tables
<1>2. CASE \E i \in DOMAIN table : SameProtocol(table[i], p)
  <2>1. NameOf[p] \in Names(table)
    BY <1>1, <1>2 DEF Names, SameProtocol
  <2>2. AlsoNamed(table, p) = table
    BY <1>2 DEF AlsoNamed
  <2>. QED BY <2>1, <2>2
<1>3. CASE ~\E i \in DOMAIN table : SameProtocol(table[i], p)
  <2>. DEFINE w == Append(table, p)
              n == Len(table)
  <2>1. w \in Seq(Protocols) /\ Len(w) = n + 1 /\ w[n + 1] = p /\ \A i \in 1 .. n : w[i] = table[i]
    BY <1>1, AppendProperties
  <2>2. AlsoNamed(table, p) = w
    BY <1>3 DEF AlsoNamed
  <2>3. \A i \in 1 .. n : NameOf[table[i]] # NameOf[p]
    BY <1>1, <1>3 DEF SameProtocol
  <2>4. n \in Nat
    BY <1>1
  <2>5. \A i, j \in 1 .. n : NameOf[table[i]] = NameOf[table[j]] => i = j
    BY <1>1 DEF Distinct
  <2>. HIDE DEF w
  <2>6. Names(w) = {NameOf[w[i]] : i \in 1 .. n + 1} /\ Names(table) = {NameOf[table[i]] : i \in 1 .. n}
    BY <2>1 DEF Names
  <2>. HIDE DEF n
  <2>7. \A i : i \in 1 .. n + 1 <=> i \in 1 .. n \/ i = n + 1
    BY <2>4
  <2>8. Names(w) = Names(table) \cup {NameOf[p]}
    BY <2>1, <2>6, <2>7
  <2>9. \A i, j \in 1 .. n + 1 : NameOf[w[i]] = NameOf[w[j]] => i = j
    BY <2>1, <2>3, <2>5, <2>7
  <2>. QED BY <2>1, <2>2, <2>8, <2>9 DEF Tables, Distinct
<1>. QED BY <1>2, <1>3

(* A list of protocols adds the names that are new.                        *)
LEMMA WithProtocolsFacts ==
  ASSUME NEW table \in Tables, NEW list, IsList(list)
  PROVE  /\ WithProtocols(table, list) \in Tables
         /\ Names(WithProtocols(table, list)) = Names(table) \cup NamesTo(list, Len(list))
<1>. DEFINE N == Len(list)
            g == [k \in 1 .. N |-> [t \in Tables |-> AlsoNamed(t, list[k])]]
<1>1. N \in Nat /\ \A k \in 1 .. N : list[k] \in Protocols
  BY DEF IsList
<1>. HIDE DEF N
<1>2. g \in [1 .. N -> [Tables -> Tables]]
  BY <1>1, AlsoNamedFacts
<1>3. \A k \in 1 .. N : \A t \in Tables : g[k][t] = AlsoNamed(t, list[k])
  OBVIOUS
<1>. HIDE DEF g
<1>4. PICK f : Follows(N, Tables, table, g, f)
  BY <1>1, <1>2, Recursion
<1>5. f \in [0 .. N -> Tables] /\ f[0] = table /\ \A k \in 0 .. N - 1 : f[k + 1] = AlsoNamed(f[k], list[k + 1])
  <2>1. f \in [0 .. N -> Tables] /\ f[0] = table /\ \A k \in 0 .. N - 1 : f[k + 1] = g[k + 1][f[k]]
    BY <1>4 DEF Follows
  <2>2. \A k \in 0 .. N - 1 : k \in 0 .. N /\ k + 1 \in 1 .. N
    BY <1>1
  <2>. QED BY <1>3, <2>1, <2>2
<1>. DEFINE after == CHOOSE h : h = [n \in 0 .. N |->
        IF n = 0 THEN table
        ELSE IF \E i \in DOMAIN h[n - 1] : SameProtocol(h[n - 1][i], list[n])
             THEN h[n - 1] ELSE Append(h[n - 1], list[n])]
<1>6. f = [n \in 0 .. N |->
        IF n = 0 THEN table
        ELSE IF \E i \in DOMAIN f[n - 1] : SameProtocol(f[n - 1][i], list[n])
             THEN f[n - 1] ELSE Append(f[n - 1], list[n])]
  <2>1. \A n \in 0 .. N : n # 0 => n - 1 \in 0 .. N - 1 /\ (n - 1) + 1 = n
    BY <1>1
  <2>2. \A n \in 0 .. N : n # 0 => f[n] = AlsoNamed(f[n - 1], list[n])
    BY <1>5, <2>1
  <2>. QED BY <1>5, <2>2 DEF AlsoNamed
<1>7. after = [n \in 0 .. N |->
        IF n = 0 THEN table
        ELSE IF \E i \in DOMAIN after[n - 1] : SameProtocol(after[n - 1][i], list[n])
             THEN after[n - 1] ELSE Append(after[n - 1], list[n])]
  BY <1>6
<1>8. WithProtocols(table, list) = after[N]
  BY DEF WithProtocols, N
<1>. HIDE DEF after
<1>9. after[0] = table /\ \A k \in 0 .. N - 1 : after[k + 1] = AlsoNamed(after[k], list[k + 1])
  <2>1. \A k \in 0 .. N - 1 : k + 1 \in 0 .. N /\ k + 1 # 0 /\ (k + 1) - 1 = k
    BY <1>1
  <2>2. 0 \in 0 .. N
    BY <1>1
  <2>. QED BY <1>7, <2>1, <2>2 DEF AlsoNamed
<1>10. 0 .. N \subseteq {k \in 0 .. N : after[k] \in Tables /\ Names(after[k]) = Names(table) \cup NamesTo(list, k)}
  <2>. DEFINE T == {k \in 0 .. N : after[k] \in Tables /\ Names(after[k]) = Names(table) \cup NamesTo(list, k)}
  <2>1. NamesTo(list, 0) = {}
    BY DEF NamesTo
  <2>2. 0 \in T
    BY <1>1, <1>9, <2>1
  <2>3. ASSUME NEW k \in 0 .. N - 1, k \in T PROVE k + 1 \in T
    <3>1. k + 1 \in 1 .. N /\ k + 1 \in 0 .. N
      BY <1>1
    <3>2. after[k + 1] \in Tables /\ Names(after[k + 1]) = Names(after[k]) \cup {NameOf[list[k + 1]]}
      BY <1>1, <1>9, <2>3, <3>1, AlsoNamedFacts
    <3>3. NamesTo(list, k + 1) = NamesTo(list, k) \cup {NameOf[list[k + 1]]}
      <4>1. \A i : i \in 1 .. k + 1 <=> i \in 1 .. k \/ i = k + 1
        BY <1>1
      <4>. QED BY <4>1 DEF NamesTo
    <3>. QED BY <2>3, <3>1, <3>2, <3>3
  <2>. HIDE DEF T
  <2>4. 0 .. N \subseteq T
    BY <1>1, <2>2, <2>3, Climb
  <2>. QED BY <2>4 DEF T
<1>11. N \in 0 .. N
  BY <1>1
<1>. QED BY <1>8, <1>10, <1>11 DEF N

(* There is one protocol of a name in a table that has the name.           *)
LEMMA OneNamed ==
  ASSUME NEW table \in Tables, NEW p, NameOf[p] \in Names(table)
  PROVE  Cardinality({i \in DOMAIN table : SameProtocol(table[i], p)}) = 1
<1>1. DOMAIN table = 1 .. Len(table) /\ Distinct(table)
  BY LenProperties DEF Tables
<1>2. PICK i \in 1 .. Len(table) : NameOf[table[i]] = NameOf[p]
  BY DEF Names
<1>3. {j \in DOMAIN table : SameProtocol(table[j], p)} = {i}
  BY <1>1, <1>2 DEF Distinct, SameProtocol
<1>. QED BY <1>3, FS_Singleton

-----------------------------------------------------------------------------
Grows(U, g) == g \in [SUBSET U -> SUBSET U] /\ \A S \in SUBSET U : S \subseteq g[S]
Walks(U, g, n, f) == (\A k \in 0 .. n : f[k] \in SUBSET U) /\ \A k \in 0 .. n - 1 : f[k + 1] = g[f[k]]

(* A growing set stops growing when it has taken as many steps as it could.*)
LEMMA Stationary ==
  ASSUME NEW U, IsFiniteSet(U), NEW g, Grows(U, g), NEW n \in Nat, NEW f, Walks(U, g, n, f),
         Cardinality(U) <= n + Cardinality(f[0])
  PROVE  g[f[n]] = f[n]
<1>0. /\ \A k \in 0 .. n : f[k] \in SUBSET U
      /\ \A k \in 0 .. n - 1 : f[k + 1] = g[f[k]]
      /\ g \in [SUBSET U -> SUBSET U] /\ \A S \in SUBSET U : S \subseteq g[S]
  BY DEF Grows, Walks
<1>. DEFINE a == Cardinality(f[0])
            T == {k \in 0 .. n : g[f[k]] = f[k] \/ Cardinality(f[k]) >= k + a}
<1>1. \A k \in 0 .. n : f[k] \in SUBSET U /\ IsFiniteSet(f[k]) /\ Cardinality(f[k]) \in Nat
  BY <1>0, FS_Subset, FS_CardinalityType
<1>2. a \in Nat /\ 0 \in T
  BY <1>1
<1>3. ASSUME NEW k \in 0 .. n - 1, k \in T PROVE k + 1 \in T
  <2>1. k \in 0 .. n /\ k + 1 \in 0 .. n /\ f[k + 1] = g[f[k]]
    BY <1>0
  <2>2. CASE g[f[k]] = f[k]
    <3>1. f[k + 1] = f[k] /\ g[f[k + 1]] = f[k + 1]
      BY <2>1, <2>2
    <3>. QED BY <2>1, <3>1
  <2>3. CASE g[f[k]] # f[k] /\ Cardinality(f[k]) >= k + a
    <3>1. f[k] \subseteq f[k + 1] /\ f[k + 1] # f[k]
      BY <1>0, <1>1, <2>1, <2>3
    <3>2. Cardinality(f[k]) <= Cardinality(f[k + 1]) /\ Cardinality(f[k]) # Cardinality(f[k + 1])
      <4>1. IsFiniteSet(f[k + 1]) /\ f[k] \in SUBSET f[k + 1]
        BY <1>1, <2>1, <3>1
      <4>. QED BY <3>1, <4>1, FS_Subset
    <3>3. Cardinality(f[k]) \in Nat /\ Cardinality(f[k + 1]) \in Nat
      BY <1>1, <2>1
    <3>4. Cardinality(f[k + 1]) >= k + 1 + a
      <4>. DEFINE x == Cardinality(f[k])
                  y == Cardinality(f[k + 1])
      <4>1. x \in Nat /\ y \in Nat /\ x <= y /\ x # y /\ x >= k + a
        BY <2>3, <3>2, <3>3
      <4>. HIDE DEF x, y, a
      <4>2. y >= k + 1 + a
        BY <1>2, <4>1
      <4>. QED BY <4>2 DEF y
    <3>. QED BY <2>1, <3>4
  <2>. QED BY <1>3, <2>2, <2>3
<1>4. n \in T
  <2>. HIDE DEF T
  <2>1. 0 .. n \subseteq T
    BY <1>2, <1>3, Climb
  <2>. QED BY <2>1
<1>5. n \in 0 .. n
  OBVIOUS
<1>6. CASE Cardinality(f[n]) >= n + a
  <2>1. Cardinality(f[n]) <= Cardinality(U) /\ (Cardinality(U) = Cardinality(f[n]) => U = f[n])
    BY <1>1, <1>5, FS_Subset
  <2>2. Cardinality(U) \in Nat /\ Cardinality(f[n]) \in Nat
    BY <1>1, <1>5, FS_CardinalityType
  <2>3. U = f[n]
    BY <1>2, <1>6, <2>1, <2>2
  <2>. QED BY <1>0, <1>5, <2>3
<1>. QED BY <1>4, <1>6

(* Where such a set ends: it holds the start, is closed under the step, and*)
(* lies in every set that is.                                              *)
Outcome(U, a, g, e) ==
  /\ e \in SUBSET U /\ a \subseteq e /\ g[e] = e
  /\ \A S \in SUBSET U : a \subseteq S /\ (\A X \in SUBSET S : g[X] \subseteq S) => e \subseteq S

(* Growth in enough steps comes to that outcome.                           *)
LEMMA OutcomeFacts ==
  ASSUME NEW U, IsFiniteSet(U), NEW g, Grows(U, g), NEW a \in SUBSET U, NEW n \in Nat,
         NEW f, f[0] = a, \A k \in 0 .. n - 1 : f[k + 1] = g[f[k]], Cardinality(U) <= n + Cardinality(a)
  PROVE  Outcome(U, a, g, f[n])
<1>0. g \in [SUBSET U -> SUBSET U] /\ \A S \in SUBSET U : S \subseteq g[S]
  BY DEF Grows
<1>1. \A k \in 0 .. n : f[k] \in SUBSET U /\ a \subseteq f[k]
  <2>. DEFINE T == {k \in 0 .. n : f[k] \in SUBSET U /\ a \subseteq f[k]}
  <2>1. 0 \in T
    OBVIOUS
  <2>2. ASSUME NEW k \in 0 .. n - 1, k \in T PROVE k + 1 \in T
    <3>1. f[k] \in SUBSET U /\ f[k] \subseteq g[f[k]] /\ g[f[k]] \in SUBSET U /\ f[k + 1] = g[f[k]]
      BY <1>0, <2>2
    <3>. QED BY <2>2, <3>1
  <2>. HIDE DEF T
  <2>3. 0 .. n \subseteq T
    BY <2>1, <2>2, Climb
  <2>. QED BY <2>3 DEF T
<1>2. Cardinality(U) <= n + Cardinality(f[0])
  OBVIOUS
<1>3. g[f[n]] = f[n]
  BY <1>1, <1>2, Stationary DEF Walks
<1>4. ASSUME NEW S \in SUBSET U, a \subseteq S, \A X \in SUBSET S : g[X] \subseteq S PROVE f[n] \subseteq S
  <2>. DEFINE T == {k \in 0 .. n : f[k] \subseteq S}
  <2>1. 0 \in T
    BY <1>4
  <2>2. ASSUME NEW k \in 0 .. n - 1, k \in T PROVE k + 1 \in T
    BY <1>4, <2>2
  <2>. HIDE DEF T
  <2>3. 0 .. n \subseteq T
    BY <2>1, <2>2, Climb
  <2>. QED BY <2>3 DEF T
<1>. QED BY <1>1, <1>3, <1>4 DEF Outcome

-----------------------------------------------------------------------------
(* What conforms, and what is reached, as the ends of such growth.         *)
Listed == declared \in Hierarchies
SameAs(other) == {q \in Protocols : SameProtocol(q, other)}
Inheriting(S) == {q \in Protocols : Elements(declared.inherits[q]) \cap S # {}}
Naming(other) == {k \in Kinds : ConformsItself(k, other)}
Deriving(S) == {k \in Kinds : declared.super[k] \in S}
Nodes == Kinds \cup Protocols \cup {NoKind}
Named(S) ==
  {declared.super[k] : k \in S \cap Kinds}
    \cup (UNION {Elements(declared.adopts[k]) : k \in S \cap Kinds})
    \cup (UNION {Elements(declared.inherits[p]) : p \in S \cap Protocols})

ByInherits == [S \in SUBSET Protocols |-> S \cup Inheriting(S)]
BySuper == [S \in SUBSET Kinds |-> S \cup Deriving(S)]
ByNames == [S \in SUBSET Nodes |-> S \cup Named(S)]

(* The hierarchy a program declares.                                       *)
LEMMA ListedFacts ==
  ASSUME Listed
  PROVE  /\ \A k \in Kinds : declared.super[k] \in Kinds \cup {NoKind}
         /\ \A k \in Kinds : Elements(declared.adopts[k]) \subseteq Protocols /\ IsList(declared.adopts[k])
         /\ \A p \in Protocols : Elements(declared.inherits[p]) \subseteq Protocols
<1>1. \A list : IsList(list) => Elements(list) \subseteq Protocols
  BY DEF IsList, Elements
<1>2. /\ declared.super \in [Kinds -> Kinds \cup {NoKind}]
      /\ \A k \in Kinds : IsList(declared.adopts[k])
      /\ \A p \in Protocols : IsList(declared.inherits[p])
  BY RegistryAssumption DEF Listed
<1>. QED BY <1>1, <1>2

(* Each of the three steps grows its set.                                  *)
LEMMA AllGrow ==
  ASSUME Listed
  PROVE  Grows(Protocols, ByInherits) /\ Grows(Kinds, BySuper) /\ Grows(Nodes, ByNames)
<1>1. Grows(Protocols, ByInherits)
  BY DEF Grows, ByInherits, Inheriting
<1>2. Grows(Kinds, BySuper)
  BY DEF Grows, BySuper, Deriving
<1>3. \A S \in SUBSET Nodes : Named(S) \subseteq Nodes
  BY ListedFacts DEF Named, Nodes
<1>4. Grows(Nodes, ByNames)
  BY <1>3 DEF Grows, ByNames
<1>. QED BY <1>1, <1>2, <1>4

(* Growth has a recursive definition.                                      *)
Grown(U, g, a, n, f) ==
  f \in [0 .. n -> SUBSET U] /\ f[0] = a /\ \A k \in 0 .. n - 1 : f[k + 1] = g[f[k]]

(* There is a function that follows such growth.                           *)
LEMMA Growth ==
  ASSUME NEW U, NEW g, Grows(U, g), NEW a \in SUBSET U, NEW n \in Nat
  PROVE  \E f : Grown(U, g, a, n, f)
<1>. DEFINE T == SUBSET U
            h == [k \in 1 .. n |-> g]
<1>1. h \in [1 .. n -> [T -> T]] /\ \A k \in 1 .. n : h[k] = g
  BY DEF Grows
<1>. HIDE DEF h
<1>2. a \in T
  OBVIOUS
<1>. HIDE DEF T
<1>3. PICK f : Follows(n, T, a, h, f)
  BY <1>1, <1>2, Recursion
<1>4. \A k \in 0 .. n - 1 : k + 1 \in 1 .. n
  OBVIOUS
<1>5. f \in [0 .. n -> T] /\ f[0] = a /\ \A k \in 0 .. n - 1 : f[k + 1] = g[f[k]]
  BY <1>1, <1>3, <1>4 DEF Follows
<1>. QED BY <1>5 DEF T, Grown

(* The recursion of proto_conformsTo comes to its outcome.                 *)
LEMMA WithinFacts ==
  ASSUME Listed, NEW other
  PROVE  \E e : Outcome(Protocols, SameAs(other), ByInherits, e) /\ \A p : ProtoConforms(p, other) <=> p \in e
<1>. DEFINE N == Cardinality(Protocols)
            with(S) == S \cup {q \in Protocols : Elements(declared.inherits[q]) \cap S # {}}
            a == {q \in Protocols : SameProtocol(q, other)}
            f == CHOOSE h : h = [n \in 0 .. N |-> IF n = 0 THEN a ELSE with(h[n - 1])]
<1>1. N \in Nat /\ IsFiniteSet(Protocols)
  BY FS_CardinalityType, RegistryAssumption
<1>2. a \in SUBSET Protocols /\ a = SameAs(other) /\ Cardinality(Protocols) <= N + Cardinality(a)
  <2>1. a \in SUBSET Protocols /\ a = SameAs(other)
    BY DEF SameAs
  <2>. HIDE DEF a
  <2>2. Cardinality(a) \in Nat
    BY <1>1, <2>1, FS_Subset, FS_CardinalityType
  <2>. HIDE DEF N
  <2>3. Cardinality(Protocols) = N
    BY DEF N
  <2>. QED BY <1>1, <2>1, <2>2, <2>3
<1>3. \A S \in SUBSET Protocols : ByInherits[S] = with(S)
  BY DEF ByInherits, Inheriting
<1>4. \A p : ProtoConforms(p, other) <=> p \in f[N]
  BY DEF ProtoConforms
<1>5. Grows(Protocols, ByInherits)
  BY AllGrow
<1>. HIDE DEF N, a, with
<1>6. PICK w : w \in [0 .. N -> SUBSET Protocols] /\ w[0] = a /\ \A k \in 0 .. N - 1 : w[k + 1] = ByInherits[w[k]]
  <2>1. \E w : Grown(Protocols, ByInherits, a, N, w)
    BY <1>1, <1>2, <1>5, Growth
  <2>. QED BY <2>1 DEF Grown
<1>7. w = [n \in 0 .. N |-> IF n = 0 THEN a ELSE with(w[n - 1])]
  <2>1. \A n \in 0 .. N : n # 0 => n - 1 \in 0 .. N - 1 /\ n - 1 \in 0 .. N /\ (n - 1) + 1 = n
    BY <1>1
  <2>2. \A n \in 0 .. N : n # 0 => w[n] = with(w[n - 1])
    BY <1>3, <1>6, <2>1
  <2>. QED BY <1>6, <2>2
<1>8. f = [n \in 0 .. N |-> IF n = 0 THEN a ELSE with(f[n - 1])]
  BY <1>7
<1>. HIDE DEF f
<1>9. f[0] = a /\ \A k \in 0 .. N - 1 : f[k + 1] = with(f[k])
  <2>1. \A k \in 0 .. N - 1 : k + 1 \in 0 .. N /\ k + 1 # 0 /\ (k + 1) - 1 = k
    BY <1>1
  <2>2. 0 \in 0 .. N
    BY <1>1
  <2>. QED BY <1>8, <2>1, <2>2
<1>10. \A k \in 0 .. N : f[k] \in SUBSET Protocols
  <2>. DEFINE T == {k \in 0 .. N : f[k] \in SUBSET Protocols}
  <2>1. 0 \in T
    BY <1>1, <1>2, <1>9
  <2>2. ASSUME NEW k \in 0 .. N - 1, k \in T PROVE k + 1 \in T
    <3>1. f[k + 1] = ByInherits[f[k]] /\ f[k] \in SUBSET Protocols /\ k + 1 \in 0 .. N
      BY <1>1, <1>3, <1>9, <2>2
    <3>. QED BY <1>5, <3>1 DEF Grows
  <2>. HIDE DEF T
  <2>3. 0 .. N \subseteq T
    BY <1>1, <2>1, <2>2, Climb
  <2>. QED BY <2>3 DEF T
<1>11. \A k \in 0 .. N - 1 : f[k + 1] = ByInherits[f[k]]
  <2>1. \A k \in 0 .. N - 1 : k \in 0 .. N
    BY <1>1
  <2>. QED BY <1>3, <1>9, <1>10, <2>1
<1>12. Outcome(Protocols, a, ByInherits, f[N])
  BY <1>1, <1>2, <1>5, <1>9, <1>11, OutcomeFacts
<1>. QED BY <1>2, <1>4, <1>12

(* So does the recursion of class_conformsTo.                              *)
LEMMA UpToFacts ==
  ASSUME Listed, NEW other
  PROVE  \E e : Outcome(Kinds, Naming(other), BySuper, e) /\ \A c : ConformsTo(c, other) <=> c \in e
<1>. DEFINE N == Cardinality(Kinds)
            with(S) == S \cup {k \in Kinds : declared.super[k] \in S}
            a == {k \in Kinds : ConformsItself(k, other)}
            f == CHOOSE h : h = [n \in 0 .. N |-> IF n = 0 THEN a ELSE with(h[n - 1])]
<1>1. N \in Nat /\ IsFiniteSet(Kinds)
  BY FS_CardinalityType, RegistryAssumption
<1>2. a \in SUBSET Kinds /\ a = Naming(other) /\ Cardinality(Kinds) <= N + Cardinality(a)
  <2>1. a \in SUBSET Kinds /\ a = Naming(other)
    BY DEF Naming
  <2>. HIDE DEF a
  <2>2. Cardinality(a) \in Nat
    BY <1>1, <2>1, FS_Subset, FS_CardinalityType
  <2>. HIDE DEF N
  <2>3. Cardinality(Kinds) = N
    BY DEF N
  <2>. QED BY <1>1, <2>1, <2>2, <2>3
<1>3. \A S \in SUBSET Kinds : BySuper[S] = with(S)
  BY DEF BySuper, Deriving
<1>4. \A c : ConformsTo(c, other) <=> c \in f[N]
  BY DEF ConformsTo
<1>5. Grows(Kinds, BySuper)
  BY AllGrow
<1>. HIDE DEF N, a, with
<1>6. PICK w : w \in [0 .. N -> SUBSET Kinds] /\ w[0] = a /\ \A k \in 0 .. N - 1 : w[k + 1] = BySuper[w[k]]
  <2>1. \E w : Grown(Kinds, BySuper, a, N, w)
    BY <1>1, <1>2, <1>5, Growth
  <2>. QED BY <2>1 DEF Grown
<1>7. w = [n \in 0 .. N |-> IF n = 0 THEN a ELSE with(w[n - 1])]
  <2>1. \A n \in 0 .. N : n # 0 => n - 1 \in 0 .. N - 1 /\ n - 1 \in 0 .. N /\ (n - 1) + 1 = n
    BY <1>1
  <2>2. \A n \in 0 .. N : n # 0 => w[n] = with(w[n - 1])
    BY <1>3, <1>6, <2>1
  <2>. QED BY <1>6, <2>2
<1>8. f = [n \in 0 .. N |-> IF n = 0 THEN a ELSE with(f[n - 1])]
  BY <1>7
<1>. HIDE DEF f
<1>9. f[0] = a /\ \A k \in 0 .. N - 1 : f[k + 1] = with(f[k])
  <2>1. \A k \in 0 .. N - 1 : k + 1 \in 0 .. N /\ k + 1 # 0 /\ (k + 1) - 1 = k
    BY <1>1
  <2>2. 0 \in 0 .. N
    BY <1>1
  <2>. QED BY <1>8, <2>1, <2>2
<1>10. \A k \in 0 .. N : f[k] \in SUBSET Kinds
  <2>. DEFINE T == {k \in 0 .. N : f[k] \in SUBSET Kinds}
  <2>1. 0 \in T
    BY <1>1, <1>2, <1>9
  <2>2. ASSUME NEW k \in 0 .. N - 1, k \in T PROVE k + 1 \in T
    <3>1. f[k + 1] = BySuper[f[k]] /\ f[k] \in SUBSET Kinds /\ k + 1 \in 0 .. N
      BY <1>1, <1>3, <1>9, <2>2
    <3>. QED BY <1>5, <3>1 DEF Grows
  <2>. HIDE DEF T
  <2>3. 0 .. N \subseteq T
    BY <1>1, <2>1, <2>2, Climb
  <2>. QED BY <2>3 DEF T
<1>11. \A k \in 0 .. N - 1 : f[k + 1] = BySuper[f[k]]
  <2>1. \A k \in 0 .. N - 1 : k \in 0 .. N
    BY <1>1
  <2>. QED BY <1>3, <1>9, <1>10, <2>1
<1>12. Outcome(Kinds, a, BySuper, f[N])
  BY <1>1, <1>2, <1>5, <1>9, <1>11, OutcomeFacts
<1>. QED BY <1>2, <1>4, <1>12

(* And what is reached from a class.                                       *)
LEMMA ReachFacts ==
  ASSUME Listed, NEW c \in Kinds
  PROVE  Outcome(Nodes, {c}, ByNames, Reach(c))
<1>. DEFINE N == Cardinality(Kinds \cup Protocols)
            with(S) == S \cup {declared.super[k] : k \in S \cap Kinds}
                         \cup (UNION {Elements(declared.adopts[k]) : k \in S \cap Kinds})
                         \cup (UNION {Elements(declared.inherits[p]) : p \in S \cap Protocols})
            a == {c}
            f == CHOOSE h : h = [n \in 0 .. N |-> IF n = 0 THEN a ELSE with(h[n - 1])]
<1>1. N \in Nat /\ IsFiniteSet(Nodes) /\ Cardinality(Nodes) <= N + 1
  <2>1. IsFiniteSet(Kinds \cup Protocols)
    BY FS_Union, RegistryAssumption
  <2>2. N \in Nat
    BY <2>1, FS_CardinalityType
  <2>3. IsFiniteSet(Nodes) /\ Cardinality(Nodes) = IF NoKind \in Kinds \cup Protocols THEN N ELSE N + 1
    BY <2>1, FS_AddElement DEF Nodes
  <2>. HIDE DEF N
  <2>. QED BY <2>2, <2>3
<1>2. a \in SUBSET Nodes /\ a = {c} /\ Cardinality(Nodes) <= N + Cardinality(a)
  <2>1. a \in SUBSET Nodes /\ a = {c}
    BY DEF Nodes
  <2>2. Cardinality(a) = 1
    BY <2>1, FS_Singleton
  <2>. HIDE DEF N, a
  <2>. QED BY <1>1, <2>1, <2>2
<1>3. \A S \in SUBSET Nodes : ByNames[S] = with(S)
  BY DEF ByNames, Named
<1>4. Reach(c) = f[N]
  BY DEF Reach
<1>5. Grows(Nodes, ByNames)
  BY AllGrow
<1>. HIDE DEF N, a, with
<1>6. PICK w : w \in [0 .. N -> SUBSET Nodes] /\ w[0] = a /\ \A k \in 0 .. N - 1 : w[k + 1] = ByNames[w[k]]
  <2>1. \E w : Grown(Nodes, ByNames, a, N, w)
    BY <1>1, <1>2, <1>5, Growth
  <2>. QED BY <2>1 DEF Grown
<1>7. w = [n \in 0 .. N |-> IF n = 0 THEN a ELSE with(w[n - 1])]
  <2>1. \A n \in 0 .. N : n # 0 => n - 1 \in 0 .. N - 1 /\ n - 1 \in 0 .. N /\ (n - 1) + 1 = n
    BY <1>1
  <2>2. \A n \in 0 .. N : n # 0 => w[n] = with(w[n - 1])
    BY <1>3, <1>6, <2>1
  <2>. QED BY <1>6, <2>2
<1>8. f = [n \in 0 .. N |-> IF n = 0 THEN a ELSE with(f[n - 1])]
  BY <1>7
<1>. HIDE DEF f
<1>9. f[0] = a /\ \A k \in 0 .. N - 1 : f[k + 1] = with(f[k])
  <2>1. \A k \in 0 .. N - 1 : k + 1 \in 0 .. N /\ k + 1 # 0 /\ (k + 1) - 1 = k
    BY <1>1
  <2>2. 0 \in 0 .. N
    BY <1>1
  <2>. QED BY <1>8, <2>1, <2>2
<1>10. \A k \in 0 .. N : f[k] \in SUBSET Nodes
  <2>. DEFINE T == {k \in 0 .. N : f[k] \in SUBSET Nodes}
  <2>1. 0 \in T
    BY <1>1, <1>2, <1>9
  <2>2. ASSUME NEW k \in 0 .. N - 1, k \in T PROVE k + 1 \in T
    <3>1. f[k + 1] = ByNames[f[k]] /\ f[k] \in SUBSET Nodes /\ k + 1 \in 0 .. N
      BY <1>1, <1>3, <1>9, <2>2
    <3>. QED BY <1>5, <3>1 DEF Grows
  <2>. HIDE DEF T
  <2>3. 0 .. N \subseteq T
    BY <1>1, <2>1, <2>2, Climb
  <2>. QED BY <2>3 DEF T
<1>11. \A k \in 0 .. N - 1 : f[k + 1] = ByNames[f[k]]
  <2>1. \A k \in 0 .. N - 1 : k \in 0 .. N
    BY <1>1
  <2>. QED BY <1>3, <1>9, <1>10, <2>1
<1>12. Outcome(Nodes, a, ByNames, f[N])
  BY <1>1, <1>2, <1>5, <1>9, <1>11, OutcomeFacts
<1>. QED BY <1>2, <1>4, <1>12

(* Conformance by the code is reachability.                                *)
LEMMA PathFacts ==
  ASSUME Listed, NEW c \in Kinds, NEW other \in Protocols
  PROVE  ConformsTo(c, other) <=> \E p \in Reach(c) \cap Protocols : SameProtocol(p, other)
<1>1. PICK W : Outcome(Protocols, SameAs(other), ByInherits, W) /\ \A p : ProtoConforms(p, other) <=> p \in W
  BY WithinFacts
<1>2. PICK K : Outcome(Kinds, Naming(other), BySuper, K) /\ \A k : ConformsTo(k, other) <=> k \in K
  BY UpToFacts
<1>. DEFINE R == Reach(c)
<1>3. Outcome(Nodes, {c}, ByNames, R)
  BY ReachFacts
<1>. HIDE DEF R
<1>4. /\ R \subseteq Nodes /\ c \in R
      /\ \A k \in R \cap Kinds : declared.super[k] \in R /\ Elements(declared.adopts[k]) \subseteq R
      /\ \A p \in R \cap Protocols : Elements(declared.inherits[p]) \subseteq R
  <2>1. R \in SUBSET Nodes /\ {c} \subseteq R /\ ByNames[R] = R
    BY <1>3 DEF Outcome
  <2>2. Named(R) \subseteq R
    BY <2>1 DEF ByNames
  <2>3. \A k \in R \cap Kinds : declared.super[k] \in Named(R) /\ Elements(declared.adopts[k]) \subseteq Named(R)
    BY DEF Named
  <2>4. \A p \in R \cap Protocols : Elements(declared.inherits[p]) \subseteq Named(R)
    BY DEF Named
  <2>. QED BY <2>1, <2>2, <2>3, <2>4
<1>5. /\ W \subseteq Protocols /\ \A q \in Protocols : SameProtocol(q, other) => q \in W
      /\ \A q \in Protocols : Elements(declared.inherits[q]) \cap W # {} => q \in W
  <2>1. W \in SUBSET Protocols /\ SameAs(other) \subseteq W /\ ByInherits[W] = W
    BY <1>1 DEF Outcome
  <2>2. Inheriting(W) \subseteq W
    BY <2>1 DEF ByInherits
  <2>. QED BY <2>1, <2>2 DEF Inheriting, SameAs
<1>6. /\ K \subseteq Kinds
      /\ \A k \in Kinds : Elements(declared.adopts[k]) \cap W # {} => k \in K
      /\ \A k \in Kinds : declared.super[k] \in K => k \in K
  <2>1. K \in SUBSET Kinds /\ Naming(other) \subseteq K /\ BySuper[K] = K
    BY <1>2 DEF Outcome
  <2>2. Deriving(K) \subseteq K
    BY <2>1 DEF BySuper
  <2>3. \A k \in Kinds : Elements(declared.adopts[k]) \cap W # {} => k \in Naming(other)
    BY <1>1 DEF Naming, ConformsItself
  <2>. QED BY <2>1, <2>2, <2>3 DEF Deriving
<1>7. Kinds \cap Protocols = {} /\ NoKind \notin Kinds \cup Protocols
  BY RegistryAssumption
<1>8. ASSUME c \notin K, NEW p \in R \cap Protocols, SameProtocol(p, other) PROVE FALSE
  <2>. DEFINE S == (Kinds \ K) \cup (Protocols \ W) \cup {NoKind}
  <2>1. S \in SUBSET Nodes /\ {c} \subseteq S
    BY <1>8 DEF Nodes
  <2>2. ASSUME NEW X \in SUBSET S PROVE ByNames[X] \subseteq S
    <3>1. \A k \in X \cap Kinds : k \notin K
      BY <1>7, <2>2
    <3>2. \A q \in X \cap Protocols : q \notin W
      BY <1>7, <2>2
    <3>3. \A k \in X \cap Kinds : declared.super[k] \in S
      BY <1>6, <3>1, ListedFacts
    <3>4. \A k \in X \cap Kinds : Elements(declared.adopts[k]) \subseteq S
      BY <1>6, <3>1, ListedFacts
    <3>5. \A q \in X \cap Protocols : Elements(declared.inherits[q]) \subseteq S
      BY <1>5, <3>2, ListedFacts
    <3>6. Named(X) \subseteq S
      <4>. HIDE DEF S
      <4>. QED BY <3>3, <3>4, <3>5 DEF Named
    <3>7. X \in SUBSET Nodes
      BY <2>1, <2>2
    <3>. QED BY <2>2, <3>6, <3>7 DEF ByNames
  <2>. HIDE DEF S
  <2>3. R \subseteq S
    BY <1>3, <2>1, <2>2 DEF Outcome
  <2>4. p \in S /\ p \in Protocols /\ p \in W
    BY <1>5, <1>8, <2>3
  <2>. QED BY <1>7, <2>4 DEF S
<1>9. ASSUME c \in K, \A p \in R \cap Protocols : ~SameProtocol(p, other) PROVE FALSE
  <2>. DEFINE P == Protocols \ R
              Q == Kinds \ R
  <2>1. W \subseteq P
    <3>1. SameAs(other) \subseteq P /\ P \in SUBSET Protocols
      BY <1>9 DEF SameAs
    <3>2. ASSUME NEW X \in SUBSET P PROVE ByInherits[X] \subseteq P
      <4>1. Inheriting(X) \subseteq P
        BY <1>4, <3>2 DEF Inheriting
      <4>2. X \in SUBSET Protocols
        BY <3>1, <3>2
      <4>. QED BY <3>2, <4>1, <4>2 DEF ByInherits
    <3>. HIDE DEF P
    <3>. QED BY <1>1, <3>1, <3>2 DEF Outcome
  <2>2. K \subseteq Q
    <3>1. Naming(other) \subseteq Q /\ Q \in SUBSET Kinds
      BY <1>1, <1>4, <2>1 DEF Naming, ConformsItself
    <3>2. ASSUME NEW X \in SUBSET Q PROVE BySuper[X] \subseteq Q
      <4>1. Deriving(X) \subseteq Q
        BY <1>4, <3>2 DEF Deriving
      <4>2. X \in SUBSET Kinds
        BY <3>1, <3>2
      <4>. QED BY <3>2, <4>1, <4>2 DEF BySuper
    <3>. HIDE DEF Q
    <3>. QED BY <1>2, <3>1, <3>2 DEF Outcome
  <2>. QED BY <1>4, <1>9, <2>2
<1>. QED BY <1>2, <1>8, <1>9 DEF R

-----------------------------------------------------------------------------
(* The tables: what is filed and named for what was registered.            *)
AllFiled == \A s \in Selectors : Filed(dispatch, s, installed[s])
AllNamed ==
  \A c \in Elements(classes) : \A p \in Elements(declared.adopts[c]) : NameOf[p] \in Names(protocols)

RegInv ==
  /\ Hashed /\ Listed /\ dispatch \in Places
  /\ AllFiled /\ installed \in [Selectors -> Imps \cup {0}]
  /\ classes \in Seq(Kinds)
  /\ ~stopped => protocols \in Tables /\ AllNamed

(* Empty tables satisfy the invariant.                                     *)
LEMMA RegistryStarts == RegistryInit => RegInv
<1>. SUFFICES ASSUME RegistryInit PROVE RegInv
  OBVIOUS
<1>1. Hashed /\ Listed /\ classes \in Seq(Kinds) /\ installed \in [Selectors -> Imps \cup {0}]
  BY DEF RegistryInit, Hashed, Listed
<1>2. dispatch \in Places
  BY DEF RegistryInit, Places, Vacant
<1>3. \A s \in Selectors : Absent(dispatch, s) /\ installed[s] = 0
  <2>1. \A s \in Selectors : s # Untyped
    BY RegistryAssumption
  <2>. QED BY <2>1 DEF RegistryInit, Absent, Vacant
<1>4. protocols \in Tables /\ AllNamed
  BY DEF RegistryInit, Tables, Distinct, AllNamed, Elements
<1>. QED BY <1>1, <1>2, <1>3, <1>4 DEF RegInv, AllFiled, Filed

(* Where a key goes never changes.                                         *)
LEMMA AnswersKept ==
  ASSUME hashOf' = hashOf, NEW key, NEW x
  PROVE  Answers(dispatch, key, x)' <=> Answers(dispatch', key, x)
<1>1. \A i : Cell(key, i)' = Cell(key, i)
  BY DEF Cell
<1>2. \A i : Leads(dispatch, key, i)' <=> Leads(dispatch', key, i)
  BY <1>1 DEF Leads, Held, Skipped, Match, Vacant
<1>. QED BY <1>1, <1>2 DEF Answers

(* The methods stay filed when the table does.                             *)
LEMMA FiledKept ==
  ASSUME hashOf' = hashOf, \A s \in Selectors : Filed(dispatch', s, installed'[s])
  PROVE  AllFiled'
<1>1. ASSUME NEW s \in Selectors PROVE Filed(dispatch, s, installed[s])'
  <2>1. Filed(dispatch', s, installed'[s])
    OBVIOUS
  <2>2. \A x : Answers(dispatch, <<s, "typed">>, x)' <=> Answers(dispatch', <<s, "typed">>, x)
    BY AnswersKept
  <2>3. \A x : Answers(dispatch, <<s, Untyped>>, x)' <=> Answers(dispatch', <<s, Untyped>>, x)
    BY AnswersKept
  <2>4. Absent(dispatch, s)' <=> Absent(dispatch', s)
    BY DEF Absent
  <2>. QED BY <2>1, <2>2, <2>3, <2>4 DEF Filed, Found
<1>. QED BY <1>1 DEF AllFiled

(* Registering a method keeps the invariant.                               *)
LEMMA MethodRegistered ==
  ASSUME RegInv, NEW s \in Selectors, NEW imp \in Imps, RegisterMethod(s, imp)
  PROVE  RegInv'
<1>. DEFINE kt == <<s, "typed">>
            typed == Registered(dispatch, kt, imp)
            both == Registered(typed, <<s, Untyped>>, imp)
<1>1. UNCHANGED <<hashOf, classes, protocols, declared>> /\ ~stopped
  BY DEF RegisterMethod
<1>2. Hashed' /\ Listed' /\ (classes \in Seq(Kinds))' /\ (AllNamed' <=> AllNamed) /\ Places' = Places
  BY <1>1 DEF RegInv, Hashed, Listed, AllNamed, Names, Elements, Places
<1>3. CASE Ends(dispatch, kt) = {} \/ Ends(typed, <<s, Untyped>>) = {}
  <2>1. stopped' = TRUE /\ UNCHANGED <<dispatch, installed>>
    BY <1>3 DEF RegisterMethod
  <2>2. \A o \in Selectors : Filed(dispatch', o, installed'[o])
    BY <2>1 DEF RegInv, AllFiled
  <2>3. AllFiled'
    BY <1>1, <2>2, FiledKept
  <2>. QED BY <1>1, <1>2, <2>1, <2>3 DEF RegInv
<1>4. CASE ~(Ends(dispatch, kt) = {} \/ Ends(typed, <<s, Untyped>>) = {})
  <2>1. dispatch' = both /\ installed' = [installed EXCEPT ![s] = imp] /\ UNCHANGED stopped
    BY <1>4 DEF RegisterMethod
  <2>2. /\ both \in Places /\ Found(both, s, imp)
        /\ \A o \in Selectors : \A x : o # s /\ Filed(dispatch, o, x) => Filed(both, o, x)
    BY <1>4, BothRegistered DEF RegInv
  <2>. HIDE DEF both, typed, kt
  <2>3. \A o \in Selectors : installed'[o] = IF o = s THEN imp ELSE installed[o]
    BY <2>1 DEF RegInv
  <2>4. \A o \in Selectors : Filed(both, o, installed'[o])
    BY <2>2, <2>3 DEF RegInv, AllFiled, Filed
  <2>5. AllFiled'
    <3>1. \A o \in Selectors : Filed(dispatch', o, installed'[o])
      BY <2>1, <2>4
    <3>. QED BY <1>1, <3>1, FiledKept
  <2>6. installed' \in [Selectors -> Imps \cup {0}]
    BY <2>1 DEF RegInv
  <2>. QED BY <1>1, <1>2, <2>1, <2>2, <2>5, <2>6 DEF RegInv, Tables, Distinct
<1>. QED BY <1>3, <1>4

(* Registering a class keeps the invariant.                                *)
LEMMA ClassRegistered ==
  ASSUME RegInv, NEW c \in Kinds, RegisterClass(c)
  PROVE  RegInv'
<1>. DEFINE list == declared.adopts[c]
            all == WithProtocols(protocols, list)
<1>1. /\ ~stopped /\ classes' = Append(classes, c)
      /\ UNCHANGED <<dispatch, hashOf, installed, declared>>
  BY DEF RegisterClass
<1>2. Hashed' /\ Listed' /\ (dispatch \in Places)' /\ (installed \in [Selectors -> Imps \cup {0}])'
  BY <1>1 DEF RegInv, Hashed, Listed, Places
<1>3. AllFiled'
  <2>1. \A o \in Selectors : Filed(dispatch', o, installed'[o])
    BY <1>1 DEF RegInv, AllFiled
  <2>. QED BY <1>1, <2>1, FiledKept
<1>4. /\ classes \in Seq(Kinds) /\ classes' \in Seq(Kinds)
      /\ Elements(classes') = Elements(classes) \cup {c}
  <2>. DEFINE n == Len(classes)
  <2>1. classes \in Seq(Kinds) /\ n \in Nat /\ DOMAIN classes = 1 .. n
    BY LenProperties DEF RegInv
  <2>2. /\ classes' \in Seq(Kinds) /\ Len(classes') = n + 1 /\ classes'[n + 1] = c
        /\ \A i \in 1 .. n : classes'[i] = classes[i]
    BY <1>1, <2>1, AppendProperties
  <2>3. DOMAIN classes' = 1 .. n + 1
    BY <2>2, LenProperties
  <2>. HIDE DEF n
  <2>4. \A i : i \in 1 .. n + 1 <=> i \in 1 .. n \/ i = n + 1
    BY <2>1
  <2>. QED BY <2>1, <2>2, <2>3, <2>4 DEF Elements
<1>5. ASSUME ~stopped' PROVE protocols' \in Tables /\ AllNamed'
  <2>1. protocols' = all
    BY <1>5 DEF RegisterClass
  <2>2. IsList(list)
    BY ListedFacts DEF RegInv
  <2>3. all \in Tables /\ Names(all) = Names(protocols) \cup NamesTo(list, Len(list))
    BY <1>1, <2>2, WithProtocolsFacts DEF RegInv
  <2>4. \A p \in Elements(list) : NameOf[p] \in NamesTo(list, Len(list))
    BY <2>2 DEF IsList, Elements, NamesTo
  <2>. HIDE DEF all, list
  <2>5. \A p \in Elements(declared.adopts[c]) : NameOf[p] \in Names(all)
    BY <2>3, <2>4 DEF list
  <2>6. \A k \in Elements(classes) : \A p \in Elements(declared.adopts[k]) : NameOf[p] \in Names(all)
    BY <1>1, <2>3 DEF RegInv, AllNamed
  <2>7. \A k \in Elements(classes') : \A p \in Elements(declared'.adopts[k]) : NameOf[p] \in Names(protocols')
    BY <1>1, <1>4, <2>1, <2>5, <2>6
  <2>8. AllNamed'
    BY <2>7 DEF AllNamed, Elements, Names
  <2>. QED BY <2>1, <2>3, <2>8
<1>6. (~stopped => protocols \in Tables /\ AllNamed)'
  BY <1>5 DEF Tables, Distinct
<1>. QED BY <1>2, <1>3, <1>4, <1>6 DEF RegInv

(* hash.c, class.c, protocol.c: the invariant of the tables.               *)
THEOREM RegistryInvariant == RegistrySpec => []RegInv
<1>1. ASSUME RegInv, [RegistryStep]_regVars PROVE RegInv'
  <2>1. CASE \E s \in Selectors, imp \in Imps : RegisterMethod(s, imp)
    BY <1>1, <2>1, MethodRegistered
  <2>2. CASE \E c \in Kinds : RegisterClass(c)
    BY <1>1, <2>2, ClassRegistered
  <2>3. CASE UNCHANGED regVars
    <3>1. UNCHANGED <<dispatch, hashOf, installed, classes, protocols, declared, stopped>>
      BY <2>3 DEF regVars
    <3>2. AllFiled'
      <4>1. \A o \in Selectors : Filed(dispatch', o, installed'[o])
        BY <1>1, <3>1 DEF RegInv, AllFiled
      <4>. QED BY <3>1, <4>1, FiledKept
    <3>3. AllNamed' <=> AllNamed
      BY <3>1 DEF AllNamed, Elements, Names
    <3>. QED BY <1>1, <3>1, <3>2, <3>3 DEF RegInv, Hashed, Listed, Places, Tables, Distinct
  <2>. QED BY <1>1, <2>1, <2>2, <2>3 DEF RegistryStep
<1>. QED BY <1>1, RegistryStarts, PTL DEF RegistrySpec

(* The invariant gives the three properties.                               *)
LEMMA RegInvGives == RegInv => Dispatches /\ OneOfEachName /\ ConformsByPath
<1>. SUFFICES ASSUME RegInv PROVE Dispatches /\ OneOfEachName /\ ConformsByPath
  OBVIOUS
<1>1. Dispatches
  <2>1. ASSUME NEW s \in Selectors, NEW t \in {"typed", Untyped}
        PROVE  HashLookup(dispatch, <<s, t>>) = installed[s]
    <3>1. Filed(dispatch, s, installed[s]) /\ Hashed /\ dispatch \in Places
      BY DEF RegInv, AllFiled
    <3>2. CASE Absent(dispatch, s) /\ installed[s] = 0
      BY <3>1, <3>2, AbsentLookup
    <3>3. CASE Found(dispatch, s, installed[s])
      <4>1. Answers(dispatch, <<s, t>>, installed[s])
        BY <3>3 DEF Found
      <4>. QED BY <4>1, LookupFacts
    <3>. QED BY <3>1, <3>2, <3>3 DEF Filed
  <2>. QED BY <2>1 DEF Dispatches
<1>2. OneOfEachName
  <2>1. ASSUME ~stopped, NEW c \in Elements(classes), NEW p \in Protocols, p \in Elements(declared.adopts[c])
        PROVE  Cardinality({i \in DOMAIN protocols : SameProtocol(protocols[i], p)}) = 1
    BY <2>1, OneNamed DEF RegInv, AllNamed
  <2>. QED BY <2>1 DEF OneOfEachName
<1>3. ConformsByPath
  <2>1. \A c \in Elements(classes) : c \in Kinds
    <3>1. classes \in Seq(Kinds) /\ DOMAIN classes = 1 .. Len(classes)
      BY LenProperties DEF RegInv
    <3>. QED BY <3>1, ElementOfSeq DEF Elements
  <2>. QED BY <2>1, PathFacts DEF RegInv, ConformsByPath
<1>. QED BY <1>1, <1>2, <1>3

(* message.c, hash.c, protocol.c: messages run the most derived method, of *)
(* a class that is initialized where pointers are wide, and the tables     *)
(* answer by name whatever collides, for any program and any size of them. *)
THEOREM MethodsAreFound == MessagesSpec /\ RegistrySpec => []MethodsFound
<1>1. MsgInv /\ RegInv => MethodsFound
  BY MsgInvGives, RegInvGives DEF MethodsFound
<1>. QED BY <1>1, MessagesInvariant, RegistryInvariant, PTL

-----------------------------------------------------------------------------
(* Memory that holds a text: its letters and a terminator.                 *)
Bytes == Alphabet \cup {NUL, Garbage}
Holds(m, t) ==
  /\ m \in Seq(Bytes) /\ t \in Seq(Alphabet) /\ Len(m) > Len(t)
  /\ \A i \in 1 .. Len(t) : m[i] = t[i]
  /\ m[Len(t) + 1] = NUL

(* A function on 1 .. n is a sequence of length n.                         *)
LEMMA MadeSeq ==
  ASSUME NEW S, NEW n \in Nat, NEW f, DOMAIN f = 1 .. n, \A i \in 1 .. n : f[i] \in S, f = [i \in 1 .. n |-> f[i]]
  PROVE  f \in Seq(S) /\ Len(f) = n
  BY IsASeq, LenProperties

(* A sequence is a function on its places.                                 *)
LEMMA SeqFacts ==
  ASSUME NEW S, NEW s \in Seq(S)
  PROVE  /\ Len(s) \in Nat /\ DOMAIN s = 1 .. Len(s) /\ s = [i \in 1 .. Len(s) |-> s[i]]
         /\ \A i \in 1 .. Len(s) : s[i] \in S
  BY LenProperties, ElementOfSeq

(* A part of a sequence, from one place to another.                        *)
LEMMA PartFacts ==
  ASSUME NEW S, NEW s \in Seq(S), NEW from \in Nat \ {0}, NEW to \in Nat, to <= Len(s), from <= to + 1
  PROVE  /\ SubSeq(s, from, to) \in Seq(S) /\ Len(SubSeq(s, from, to)) = to - from + 1
         /\ \A i \in 1 .. to - from + 1 : SubSeq(s, from, to)[i] = s[from + i - 1]
<1>. DEFINE n == Len(s)
            p == SubSeq(s, from, to)
<1>1. n \in Nat /\ \A i \in 1 .. n : s[i] \in S
  BY SeqFacts
<1>2. p = [i \in 1 .. to - from + 1 |-> s[from + i - 1]]
  BY DEF SubSeq
<1>. HIDE DEF n
<1>3. \A i \in 1 .. to - from + 1 : from + i - 1 \in 1 .. n
  BY <1>1 DEF n
<1>4. DOMAIN p = 1 .. to - from + 1 /\ to - from + 1 \in Nat /\ \A i \in 1 .. to - from + 1 : p[i] = s[from + i - 1]
  BY <1>2
<1>5. \A i \in 1 .. to - from + 1 : p[i] \in S
  BY <1>1, <1>3, <1>4
<1>6. p = [i \in 1 .. to - from + 1 |-> p[i]]
  BY <1>2
<1>. HIDE DEF p
<1>7. p \in Seq(S) /\ Len(p) = to - from + 1
  BY <1>4, <1>5, <1>6, MadeSeq
<1>. QED BY <1>4, <1>7 DEF p

(* So many of one character.                                               *)
LEMMA FillFacts ==
  ASSUME NEW S, NEW n \in Nat, NEW c \in S
  PROVE  Fill(n, c) \in Seq(S) /\ Len(Fill(n, c)) = n /\ \A i \in 1 .. n : Fill(n, c)[i] = c
  BY MadeSeq DEF Fill

(* One sequence after another.                                             *)
LEMMA JoinFacts ==
  ASSUME NEW S, NEW a \in Seq(S), NEW b \in Seq(S)
  PROVE  /\ a \o b \in Seq(S) /\ Len(a \o b) = Len(a) + Len(b) /\ Len(a) \in Nat /\ Len(b) \in Nat
         /\ \A i \in 1 .. Len(a) : (a \o b)[i] = a[i]
         /\ \A i \in Len(a) + 1 .. Len(a) + Len(b) : (a \o b)[i] = b[i - Len(a)]
<1>1. /\ a \o b \in Seq(S) /\ Len(a \o b) = Len(a) + Len(b)
      /\ \A i \in 1 .. Len(a) + Len(b) : (a \o b)[i] = IF i <= Len(a) THEN a[i] ELSE b[i - Len(a)]
  BY ConcatProperties
<1>2. Len(a) \in Nat /\ Len(b) \in Nat
  BY LenProperties
<1>. DEFINE m == Len(a)
            n == Len(b)
<1>3. m \in Nat /\ n \in Nat
  BY <1>2
<1>. HIDE DEF m, n
<1>4. \A i \in 1 .. m : i \in 1 .. m + n /\ i <= m
  BY <1>3
<1>5. \A i \in m + 1 .. m + n : i \in 1 .. m + n /\ ~(i <= m)
  BY <1>3
<1>. QED BY <1>1, <1>2, <1>4, <1>5 DEF m, n

(* A text with its terminator is memory that holds the text.               *)
LEMMA TerminatedFacts ==
  ASSUME NEW t \in Seq(Alphabet)
  PROVE  Holds(Terminated(t), t) /\ Len(Terminated(t)) = Len(t) + 1
<1>1. t \in Seq(Bytes) /\ <<NUL>> \in Seq(Bytes) /\ Len(<<NUL>>) = 1 /\ <<NUL>>[1] = NUL
  <2>1. Alphabet \subseteq Bytes /\ NUL \in Bytes
    BY DEF Bytes
  <2>. QED BY <2>1, SeqMonotonic
<1>2. /\ Terminated(t) \in Seq(Bytes) /\ Len(Terminated(t)) = Len(t) + 1 /\ Len(t) \in Nat
      /\ \A i \in 1 .. Len(t) : Terminated(t)[i] = t[i]
      /\ \A i \in Len(t) + 1 .. Len(t) + 1 : Terminated(t)[i] = <<NUL>>[i - Len(t)]
  BY <1>1, JoinFacts DEF Terminated
<1>3. Terminated(t)[Len(t) + 1] = NUL
  BY <1>1, <1>2
<1>. QED BY <1>2, <1>3 DEF Holds

(* A reader sees the text that the memory holds.                           *)
LEMMA ReadFacts ==
  ASSUME NEW m, NEW t, Holds(m, t)
  PROVE  CString(m) = t
<1>. DEFINE n == Len(t)
            ends == {i \in DOMAIN m : m[i] = NUL}
            first == CHOOSE i \in ends : \A j \in ends : i <= j
<1>1. /\ n \in Nat /\ Len(m) \in Nat /\ DOMAIN m = 1 .. Len(m) /\ n < Len(m) /\ DOMAIN t = 1 .. n
      /\ \A i \in 1 .. n : m[i] = t[i] /\ t[i] # NUL
      /\ m[n + 1] = NUL /\ m \in Seq(Bytes) /\ t \in Seq(Alphabet) /\ t = [i \in 1 .. n |-> t[i]]
  <2>1. \A c \in Alphabet : c # NUL
    BY DEF Alphabet, NUL, White
  <2>. QED BY <2>1, SeqFacts DEF Holds
<1>. HIDE DEF n
<1>2. n + 1 \in ends /\ \A j \in ends : n + 1 <= j
  <2>1. n + 1 \in 1 .. Len(m)
    BY <1>1
  <2>2. ASSUME NEW j \in ends, ~(n + 1 <= j) PROVE FALSE
    <3>1. j \in 1 .. Len(m) /\ m[j] = NUL
      BY <1>1, <2>2
    <3>2. j \in 1 .. n
      BY <1>1, <2>2, <3>1
    <3>. QED BY <1>1, <3>1, <3>2
  <2>. QED BY <1>1, <2>1, <2>2
<1>3. ends \subseteq Nat
  BY <1>1
<1>. HIDE DEF ends
<1>4. first = n + 1
  <2>1. first \in ends /\ \A j \in ends : first <= j
    BY <1>2
  <2>2. first <= n + 1 /\ n + 1 <= first /\ first \in Nat
    BY <1>2, <1>3, <2>1
  <2>. QED BY <1>1, <2>2
<1>5. CString(m) = SubSeq(m, 1, n)
  <2>1. CString(m) = SubSeq(m, 1, first - 1)
    BY <1>2 DEF CString, ends
  <2>. HIDE DEF first
  <2>2. first - 1 = n
    BY <1>1, <1>4
  <2>. QED BY <2>1, <2>2
<1>6. SubSeq(m, 1, n) = t
  <2>1. SubSeq(m, 1, n) = [i \in 1 .. n |-> m[i]]
    BY <1>1 DEF SubSeq
  <2>. QED BY <1>1, <2>1
<1>. QED BY <1>5, <1>6

(* What is written to memory, when there is room for it.                   *)
LEMMA WrittenFacts ==
  ASSUME NEW m \in Seq(Bytes), NEW new \in Seq(Bytes), NEW at \in Nat, at + Len(new) <= Len(m)
  PROVE  /\ Written(m, at, new) \in Seq(Bytes) /\ Len(Written(m, at, new)) = Len(m)
         /\ \A i \in 1 .. Len(m) :
              Written(m, at, new)[i] = IF i > at /\ i <= at + Len(new) THEN new[i - at] ELSE m[i]
<1>. DEFINE n == Len(m)
            k == Len(new)
            w == Written(m, at, new)
<1>1. /\ n \in Nat /\ DOMAIN m = 1 .. n /\ \A i \in 1 .. n : m[i] \in Bytes
      /\ k \in Nat /\ \A i \in 1 .. k : new[i] \in Bytes
  BY SeqFacts
<1>2. w = [i \in 1 .. n |-> IF i > at /\ i <= at + k THEN new[i - at] ELSE m[i]]
  BY <1>1 DEF Written
<1>. HIDE DEF n, k, w
<1>3. \A i \in 1 .. n : i > at /\ i <= at + k => i - at \in 1 .. k
  BY <1>1
<1>4. DOMAIN w = 1 .. n /\ \A i \in 1 .. n : w[i] \in Bytes /\ w[i] = IF i > at /\ i <= at + k THEN new[i - at] ELSE m[i]
  BY <1>1, <1>2, <1>3
<1>5. w = [i \in 1 .. n |-> w[i]]
  BY <1>2
<1>6. w \in Seq(Bytes) /\ Len(w) = n
  BY <1>1, <1>4, <1>5, MadeSeq
<1>. QED BY <1>4, <1>6 DEF n, k, w

(* What is written behind the text: another one, terminator and all.       *)
LEMMA WrittenBehind ==
  ASSUME NEW m, NEW t, NEW b, NEW u, Holds(m, t), Holds(b, u), Len(t) + Len(u) + 1 <= Len(m)
  PROVE  /\ Holds(Written(m, Len(t), SubSeq(b, 1, Len(u) + 1)), t \o u)
         /\ Len(SubSeq(b, 1, Len(u) + 1)) = Len(u) + 1
         /\ Len(Written(m, Len(t), SubSeq(b, 1, Len(u) + 1))) = Len(m)
         /\ Len(t \o u) = Len(t) + Len(u)
<1>. DEFINE k == Len(u)
            n == Len(t)
            new == SubSeq(b, 1, k + 1)
            w == Written(m, n, new)
<1>1. /\ m \in Seq(Bytes) /\ t \in Seq(Alphabet) /\ b \in Seq(Bytes) /\ u \in Seq(Alphabet)
      /\ n \in Nat /\ k \in Nat /\ Len(m) \in Nat /\ Len(b) \in Nat /\ k + 1 <= Len(b) /\ n + k + 1 <= Len(m)
      /\ \A i \in 1 .. n : m[i] = t[i]
      /\ \A i \in 1 .. k : b[i] = u[i]
      /\ b[k + 1] = NUL
  <2>1. /\ m \in Seq(Bytes) /\ t \in Seq(Alphabet) /\ b \in Seq(Bytes) /\ u \in Seq(Alphabet)
    BY DEF Holds
  <2>2. n \in Nat /\ k \in Nat /\ Len(m) \in Nat /\ Len(b) \in Nat
    BY <2>1, LenProperties
  <2>. QED BY <2>1, <2>2 DEF Holds
<1>. HIDE DEF n, k
<1>2. new \in Seq(Bytes) /\ Len(new) = k + 1 /\ \A i \in 1 .. k + 1 : new[i] = b[i]
  <2>1. /\ new \in Seq(Bytes) /\ Len(new) = (k + 1) - 1 + 1
        /\ \A i \in 1 .. (k + 1) - 1 + 1 : new[i] = b[1 + i - 1]
    BY <1>1, PartFacts
  <2>2. (k + 1) - 1 + 1 = k + 1 /\ \A i \in 1 .. k + 1 : 1 + i - 1 = i
    BY <1>1
  <2>. QED BY <2>1, <2>2
<1>3. /\ t \o u \in Seq(Alphabet) /\ Len(t \o u) = n + k
      /\ \A i \in 1 .. n : (t \o u)[i] = t[i]
      /\ \A i \in n + 1 .. n + k : (t \o u)[i] = u[i - n]
  BY <1>1, JoinFacts DEF n, k
<1>. HIDE DEF new, w
<1>4. /\ w \in Seq(Bytes) /\ Len(w) = Len(m)
      /\ \A i \in 1 .. Len(m) : w[i] = IF i > n /\ i <= n + (k + 1) THEN new[i - n] ELSE m[i]
  <2>1. n + Len(new) <= Len(m)
    BY <1>1, <1>2
  <2>. QED BY <1>1, <1>2, <2>1, WrittenFacts DEF w
<1>5. \A i \in 1 .. n : w[i] = (t \o u)[i]
  <2>1. \A i \in 1 .. n : i \in 1 .. Len(m) /\ ~(i > n)
    BY <1>1
  <2>. QED BY <1>1, <1>3, <1>4, <2>1
<1>6. \A i \in n + 1 .. n + k : w[i] = (t \o u)[i]
  <2>1. \A i \in n + 1 .. n + k : i \in 1 .. Len(m) /\ i > n /\ i <= n + (k + 1) /\ i - n \in 1 .. k /\ i - n \in 1 .. k + 1
    BY <1>1
  <2>2. \A j \in 1 .. k : j \in 1 .. k + 1 /\ new[j] = u[j]
    BY <1>1, <1>2
  <2>. QED BY <1>3, <1>4, <2>1, <2>2
<1>7. w[n + k + 1] = NUL
  <2>1. n + k + 1 \in 1 .. Len(m) /\ n + k + 1 > n /\ n + k + 1 <= n + (k + 1) /\ (n + k + 1) - n = k + 1
    BY <1>1
  <2>2. new[k + 1] = NUL
    BY <1>1, <1>2
  <2>. QED BY <1>4, <2>1, <2>2
<1>8. \A i \in 1 .. n + k : w[i] = (t \o u)[i]
  <2>1. \A i \in 1 .. n + k : i \in 1 .. n \/ i \in n + 1 .. n + k
    BY <1>1
  <2>. QED BY <1>5, <1>6, <2>1
<1>9. n + k < Len(m)
  BY <1>1
<1>10. Holds(w, t \o u)
  BY <1>3, <1>4, <1>7, <1>8, <1>9 DEF Holds
<1>. QED BY <1>2, <1>3, <1>4, <1>10 DEF w, new, n, k

(* What is written from the start, with its terminator.                    *)
LEMMA WrittenFirst ==
  ASSUME NEW m \in Seq(Bytes), NEW u \in Seq(Alphabet), Len(u) + 1 <= Len(m)
  PROVE  /\ Holds(Written(m, 0, Terminated(u)), u) /\ Len(Terminated(u)) = Len(u) + 1
         /\ Len(Written(m, 0, Terminated(u))) = Len(m)
<1>. DEFINE k == Len(u)
            new == Terminated(u)
            w == Written(m, 0, new)
<1>1. /\ new \in Seq(Bytes) /\ Len(new) = k + 1 /\ k \in Nat /\ Len(m) \in Nat /\ k + 1 <= Len(m)
      /\ new[k + 1] = NUL /\ \A i \in 1 .. k : new[i] = u[i]
  <2>1. k \in Nat /\ Len(m) \in Nat
    BY LenProperties
  <2>. QED BY <2>1, TerminatedFacts DEF Holds
<1>. HIDE DEF k, new, w
<1>2. /\ w \in Seq(Bytes) /\ Len(w) = Len(m)
      /\ \A i \in 1 .. Len(m) : w[i] = IF i > 0 /\ i <= 0 + (k + 1) THEN new[i - 0] ELSE m[i]
  <2>1. 0 + Len(new) <= Len(m)
    BY <1>1
  <2>. QED BY <1>1, <2>1, WrittenFacts DEF w
<1>3. \A i \in 1 .. k + 1 : i \in 1 .. Len(m) /\ i > 0 /\ i <= 0 + (k + 1) /\ i - 0 = i
  BY <1>1
<1>4. \A i \in 1 .. k + 1 : w[i] = new[i]
  BY <1>2, <1>3
<1>5. \A i \in 1 .. k : w[i] = u[i]
  <2>1. \A i \in 1 .. k : i \in 1 .. k + 1
    BY <1>1
  <2>. QED BY <1>1, <1>4, <2>1
<1>6. w[k + 1] = NUL /\ k < Len(m)
  <2>1. k + 1 \in 1 .. k + 1 /\ k < Len(m)
    BY <1>1
  <2>. QED BY <1>1, <1>4, <2>1
<1>7. Holds(w, u)
  BY <1>2, <1>5, <1>6 DEF Holds, k
<1>. QED BY <1>1, <1>2, <1>7 DEF w, new, k

(* What is written over the text, which is as long.                        *)
LEMMA WrittenOver ==
  ASSUME NEW m, NEW t, Holds(m, t), NEW u \in Seq(Alphabet), Len(u) = Len(t)
  PROVE  Holds(Written(m, 0, u), u) /\ Len(Written(m, 0, u)) = Len(m) /\ Len(u) <= Len(m)
<1>. DEFINE k == Len(u)
            w == Written(m, 0, u)
<1>1. /\ m \in Seq(Bytes) /\ k \in Nat /\ Len(m) \in Nat /\ k < Len(m) /\ m[k + 1] = NUL
  <2>1. m \in Seq(Bytes)
    BY DEF Holds
  <2>. QED BY <2>1, LenProperties DEF Holds
<1>2. u \in Seq(Bytes)
  BY SeqMonotonic DEF Bytes
<1>3. Len(u) = k
  OBVIOUS
<1>. HIDE DEF k, w
<1>4. /\ w \in Seq(Bytes) /\ Len(w) = Len(m)
      /\ \A i \in 1 .. Len(m) : w[i] = IF i > 0 /\ i <= 0 + k THEN u[i - 0] ELSE m[i]
  <2>1. 0 + Len(u) <= Len(m)
    BY <1>1, <1>3
  <2>. QED BY <1>1, <1>2, <1>3, <2>1, WrittenFacts DEF w
<1>5. \A i \in 1 .. k : i \in 1 .. Len(m) /\ i > 0 /\ i <= 0 + k /\ i - 0 = i
  BY <1>1
<1>6. k + 1 \in 1 .. Len(m) /\ ~(k + 1 <= 0 + k)
  BY <1>1
<1>7. w[k + 1] = NUL /\ \A i \in 1 .. k : w[i] = u[i]
  BY <1>1, <1>4, <1>5, <1>6
<1>8. Holds(w, u) /\ k <= Len(m)
  BY <1>1, <1>3, <1>4, <1>7 DEF Holds
<1>. QED BY <1>3, <1>4, <1>8 DEF w

-----------------------------------------------------------------------------
Points == Strs \cup Texts \cup {<<>>, Nothing, Freed}
StrRecords == [live : BOOLEAN, value : Points, length : Nat, cap : Nat, cells : Seq(Bytes), encoded : BOOLEAN]

(* What a string points at is its text.  Another string it points at owns  *)
(* its memory and has the same text.                                       *)
Stands(x, t, s) ==
  /\ x[s].cap = Len(x[s].cells) /\ (x[s].encoded \/ x[s].length = Len(t[s]))
  /\ x[s].value # Freed
  /\ x[s].value = s => Holds(x[s].cells, t[s])
  /\ x[s].value # s => ~x[s].encoded
  /\ x[s].value = Nothing => t[s] = <<>>
  /\ x[s].value \in Texts \cup {<<>>} => x[s].value = t[s]
  /\ \A q \in Strs \ {s} : x[s].value = q => x[q].live /\ x[q].value = q /\ ~x[q].encoded /\ t[q] = t[s]

StrInv(x, t) ==
  /\ x \in [Strs -> StrRecords] /\ t \in [Strs -> Seq(Alphabet)]
  /\ \A s \in Strs : x[s].live => Stands(x, t, s)

DataInv ==
  /\ data \in [cells : Seq(Bytes), size : Nat, cap : Nat] /\ bytes \in Seq(Bytes)
  /\ Len(data.cells) = data.cap /\ data.size <= data.cap
  /\ SubSeq(data.cells, 1, data.size) = bytes

StringsInv == StrInv(str, text) /\ DataInv /\ ~overrun

(* Nobody points at it.                                                    *)
Alone(s) == \A r \in Strs \ {s} : str[r].live => str[r].value # s

(* A string that nobody refers to may become another record and text.      *)
LEMMA ReplaceKeeps ==
  ASSUME StrInv(str, text), NEW s \in Strs, Alone(s), NEW new \in StrRecords, NEW t \in Seq(Alphabet),
         new.live => Stands([str EXCEPT ![s] = new], [text EXCEPT ![s] = t], s)
  PROVE  StrInv([str EXCEPT ![s] = new], [text EXCEPT ![s] = t])
<1>. DEFINE x == [str EXCEPT ![s] = new]
            u == [text EXCEPT ![s] = t]
<1>1. /\ x \in [Strs -> StrRecords] /\ u \in [Strs -> Seq(Alphabet)]
      /\ x[s] = new /\ \A r \in Strs \ {s} : x[r] = str[r] /\ u[r] = text[r]
  BY DEF StrInv
<1>. HIDE DEF x, u
<1>2. ASSUME NEW r \in Strs \ {s}, x[r].live PROVE Stands(x, u, r)
  <2>1. Stands(str, text, r) /\ str[r].value # s
    BY <1>1, <1>2 DEF StrInv, Alone
  <2>2. \A q \in Strs \ {r} : x[r].value = q => x[q].live /\ x[q].value = q /\ ~x[q].encoded /\ u[q] = u[r]
    BY <1>1, <2>1 DEF Stands
  <2>. QED BY <1>1, <2>1, <2>2 DEF Stands
<1>3. x[s].live => Stands(x, u, s)
  BY <1>1 DEF x, u
<1>. QED BY <1>1, <1>2, <1>3 DEF StrInv, x, u

(* Nobody points at a string that does not live, nor at one that others    *)
(* may read but not refer to.                                              *)
LEMMA AloneFacts ==
  ASSUME StrInv(str, text), NEW s \in Strs,
         ~str[s].live \/ str[s].encoded \/ (Careful /\ MayChange(s))
  PROVE  Alone(s)
<1>. SUFFICES ASSUME NEW r \in Strs \ {s}, str[r].live, str[r].value = s PROVE FALSE
  BY DEF Alone
<1>1. Stands(str, text, r)
  BY DEF StrInv
<1>2. str[s].live /\ ~str[s].encoded
  BY <1>1 DEF Stands
<1>3. r \in Referrers(s)
  BY DEF Referrers
<1>. QED BY <1>2, <1>3 DEF MayChange

(* Memory that no string points at moves alone.                            *)
LEMMA MovedFacts ==
  ASSUME StrInv(str, text), NEW s \in Strs, Alone(s), NEW new
  PROVE  Moved(s, new) = [str EXCEPT ![s] = new]
<1>1. Referrers(s) = {}
  BY DEF Alone, Referrers
<1>. QED BY <1>1 DEF Moved, StrInv

(* The memory that a living string points at holds its text.               *)
LEMMA MemoryFacts ==
  ASSUME StringsInv, NEW s \in Strs, str[s].live
  PROVE  Holds(Memory(str[s].value), text[s])
<1>. DEFINE p == str[s].value
<1>1. Stands(str, text, s) /\ text[s] \in Seq(Alphabet) /\ p \in Points
  BY DEF StringsInv, StrInv, StrRecords
<1>2. CASE p = Nothing
  <2>1. <<>> \in Seq(Alphabet) /\ Len(<<>>) = 0
    BY EmptySeq
  <2>2. <<>> \o <<NUL>> = <<NUL>>
    OBVIOUS
  <2>3. text[s] = <<>> /\ Memory(p) = Terminated(<<>>)
    BY <1>1, <1>2, <2>2 DEF Memory, Terminated, Stands
  <2>. QED BY <2>1, <2>3, TerminatedFacts
<1>3. CASE p = s
  BY <1>1, <1>3, StringsAssumption DEF Memory, Stands
<1>4. CASE p \in Strs \ {s}
  <2>1. Stands(str, text, p) /\ str[p].live /\ str[p].value = p /\ text[p] = text[s]
    BY <1>1, <1>4 DEF Stands, StringsInv, StrInv
  <2>. QED BY <1>4, <2>1, StringsAssumption DEF Memory, Stands
<1>5. CASE p \in Texts \cup {<<>>}
  <2>1. p = text[s] /\ Memory(p) = Terminated(p)
    BY <1>1, <1>5, StringsAssumption DEF Stands, Memory
  <2>. QED BY <1>1, <2>1, TerminatedFacts
<1>. QED BY <1>1, <1>2, <1>3, <1>4, <1>5 DEF Points, Stands

(* The memory a string owns once it may be changed holds the text, and as  *)
(* much as was asked for.                                                  *)
LEMMA MutableFacts ==
  ASSUME StringsInv, NEW s \in Strs, str[s].live, ~str[s].encoded, NEW ask \in Nat
  PROVE  Holds(Mutable(s, ask), text[s]) /\ ask <= Len(Mutable(s, ask)) /\ Mutable(s, ask) \in Seq(Bytes)
<1>. DEFINE t == text[s]
            n == Len(t)
            cap == AtLeast(AtLeast(ask, n + 1), str[s].cap)
            from == Memory(str[s].value)
<1>1. /\ Stands(str, text, s) /\ t \in Seq(Alphabet) /\ n \in Nat /\ str[s].length = n
      /\ str[s].cap \in Nat /\ str[s].cap = Len(str[s].cells)
  <2>1. Stands(str, text, s) /\ t \in Seq(Alphabet) /\ str[s].cap \in Nat
    BY DEF StringsInv, StrInv, StrRecords
  <2>. QED BY <2>1, LenProperties DEF Stands
<1>2. Holds(from, t)
  BY MemoryFacts
<1>. HIDE DEF n, t, from
<1>3. cap \in Nat /\ ask <= cap /\ n + 1 <= cap
  BY <1>1 DEF AtLeast
<1>. HIDE DEF cap
<1>4. Mutable(s, ask) = IF str[s].value = s /\ str[s].cap >= cap THEN str[s].cells
                        ELSE IF n = 0 THEN Fill(cap, NUL)
                        ELSE SubSeq(from, 1, n + 1) \o Fill(cap - (n + 1), Garbage)
  BY <1>1 DEF Mutable, cap, from
<1>5. CASE str[s].value = s /\ str[s].cap >= cap
  <2>1. Mutable(s, ask) = str[s].cells /\ Holds(str[s].cells, t)
    BY <1>1, <1>4, <1>5 DEF Stands, t
  <2>2. ask <= Len(str[s].cells)
    BY <1>1, <1>3, <1>5
  <2>. QED BY <2>1, <2>2 DEF t, Holds
<1>6. CASE ~(str[s].value = s /\ str[s].cap >= cap) /\ n = 0
  <2>1. /\ Mutable(s, ask) = Fill(cap, NUL) /\ Fill(cap, NUL) \in Seq(Bytes) /\ Len(Fill(cap, NUL)) = cap
        /\ \A i \in 1 .. cap : Fill(cap, NUL)[i] = NUL
    BY <1>3, <1>4, <1>6, FillFacts DEF Bytes
  <2>2. 1 \in 1 .. cap /\ 0 < cap /\ 0 + 1 = 1
    BY <1>3, <1>6
  <2>3. Holds(Fill(cap, NUL), t)
    BY <1>1, <1>6, <2>1, <2>2 DEF Holds, n
  <2>. QED BY <1>3, <2>1, <2>3 DEF t
<1>7. CASE ~(str[s].value = s /\ str[s].cap >= cap) /\ n # 0
  <2>. DEFINE a == SubSeq(from, 1, n + 1)
              b == Fill(cap - (n + 1), Garbage)
  <2>1. /\ from \in Seq(Bytes) /\ Len(from) \in Nat /\ n + 1 <= Len(from)
        /\ from[n + 1] = NUL /\ \A i \in 1 .. n : from[i] = t[i]
    <3>1. from \in Seq(Bytes)
      BY <1>2 DEF Holds
    <3>2. Len(from) \in Nat
      BY <3>1, LenProperties
    <3>. QED BY <1>1, <1>2, <3>1, <3>2 DEF Holds, n
  <2>2. /\ a \in Seq(Bytes) /\ Len(a) = (n + 1) - 1 + 1 /\ \A i \in 1 .. (n + 1) - 1 + 1 : a[i] = from[1 + i - 1]
    BY <1>1, <2>1, PartFacts
  <2>3. Len(a) = n + 1 /\ \A i \in 1 .. n + 1 : a[i] = from[i]
    <3>1. (n + 1) - 1 + 1 = n + 1 /\ \A i \in 1 .. n + 1 : 1 + i - 1 = i
      BY <1>1
    <3>. QED BY <2>2, <3>1
  <2>4. b \in Seq(Bytes) /\ Len(b) = cap - (n + 1)
    <3>1. cap - (n + 1) \in Nat /\ Garbage \in Bytes
      BY <1>1, <1>3 DEF Bytes
    <3>. QED BY <3>1, FillFacts
  <2>5. /\ Mutable(s, ask) = a \o b
    BY <1>4, <1>7
  <2>. HIDE DEF a, b
  <2>6. a \o b \in Seq(Bytes) /\ Len(a \o b) = Len(a) + Len(b) /\ \A i \in 1 .. Len(a) : (a \o b)[i] = a[i]
    BY <2>2, <2>4, JoinFacts
  <2>7. Len(a \o b) = cap /\ n < cap
    BY <1>1, <1>3, <2>3, <2>4, <2>6
  <2>8. \A i \in 1 .. n + 1 : (a \o b)[i] = from[i]
    BY <2>3, <2>6
  <2>9. n + 1 \in 1 .. n + 1 /\ \A i \in 1 .. n : i \in 1 .. n + 1
    BY <1>1
  <2>10. Holds(a \o b, t)
    BY <1>1, <2>1, <2>6, <2>7, <2>8, <2>9 DEF Holds, n
  <2>. QED BY <1>3, <2>5, <2>6, <2>7, <2>10 DEF t
<1>. QED BY <1>5, <1>6, <1>7

-----------------------------------------------------------------------------
(* The invariant of strings and data holds at the start.                   *)
LEMMA StringsStart == StringsInit => StringsInv
<1>. SUFFICES ASSUME StringsInit PROVE StringsInv
  OBVIOUS
<1>1. /\ <<>> \in Seq(Bytes) /\ <<>> \in Seq(Alphabet) /\ Len(<<>>) = 0
      /\ SubSeq(<<>>, 1, 0) = <<>>
  BY EmptySeq, SubSeqEmpty
<1>2. NoStr \in StrRecords /\ ~NoStr.live
  BY <1>1 DEF NoStr, StrRecords, Points
<1>3. StrInv(str, text)
  BY <1>1, <1>2 DEF StringsInit, StrInv
<1>4. DataInv
  BY <1>1 DEF StringsInit, DataInv
<1>. QED BY <1>3, <1>4 DEF StringsInv, StringsInit

(* It holds of data that are left alone.                                   *)
LEMMA DataStays ==
  ASSUME StringsInv, UNCHANGED <<data, bytes>>
  PROVE  DataInv'
  BY DEF StringsInv, DataInv

(* A new string.                                                           *)
LEMMA NewKeeps ==
  ASSUME StringsInv, NEW s \in Strs, NEW value \in Points, NEW cells \in Seq(Bytes), NEW t \in Seq(Alphabet),
         StringNew(s, value, Len(t), cells, t),
         value # Freed, value = s => Holds(cells, t), value = Nothing => t = <<>>,
         value \in Texts \cup {<<>>} => value = t,
         \A q \in Strs \ {s} : value = q => str[q].live /\ str[q].value = q /\ ~str[q].encoded /\ text[q] = t
  PROVE  StringsInv'
<1>. DEFINE new == [NoStr EXCEPT !.live = TRUE, !.value = value, !.length = Len(t),
                                 !.cells = cells, !.cap = Len(cells)]
            x == [str EXCEPT ![s] = new]
            u == [text EXCEPT ![s] = t]
<1>1. str' = x /\ text' = u /\ UNCHANGED <<data, bytes, overrun>> /\ ~str[s].live
  BY DEF StringNew
<1>2. /\ new.live /\ new.value = value /\ new.length = Len(t) /\ new.cells = cells
      /\ new.cap = Len(cells) /\ new.encoded = FALSE /\ new \in StrRecords
  <2>1. Len(t) \in Nat /\ Len(cells) \in Nat
    BY LenProperties
  <2>. QED BY <2>1 DEF NoStr, StrRecords
<1>. HIDE DEF new
<1>3. StrInv(str, text) /\ str \in [Strs -> StrRecords] /\ text \in [Strs -> Seq(Alphabet)]
  BY DEF StringsInv, StrInv
<1>4. x[s] = new /\ u[s] = t /\ \A q \in Strs \ {s} : x[q] = str[q] /\ u[q] = text[q]
  BY <1>3
<1>. HIDE DEF x, u
<1>5. Stands(x, u, s)
  BY <1>2, <1>4 DEF Stands
<1>6. Alone(s)
  BY <1>1, <1>3, AloneFacts
<1>7. StrInv(x, u)
  BY <1>2, <1>3, <1>5, <1>6, ReplaceKeeps DEF x, u
<1>. QED BY <1>1, <1>7, DataStays DEF StringsInv

(* A change of a string that leaves it memory that holds the new text.     *)
LEMMA ChangeKeeps ==
  ASSUME StringsInv, Careful, NEW s \in Strs, MayChange(s),
         NEW mem \in Seq(Bytes), NEW at \in Nat, NEW new, NEW length, NEW t,
         Holds(Written(mem, at, new), t), Len(Written(mem, at, new)) = Len(mem),
         at + Len(new) <= Len(mem), length = Len(t),
         StringChange(s, mem, at, new, length, t)
  PROVE  StringsInv'
<1>. DEFINE w == Written(mem, at, new)
            own == [str[s] EXCEPT !.value = s, !.cap = Len(mem), !.length = length, !.cells = w]
            x == [str EXCEPT ![s] = own]
            u == [text EXCEPT ![s] = t]
<1>1. StrInv(str, text) /\ str \in [Strs -> StrRecords] /\ text \in [Strs -> Seq(Alphabet)] /\ str[s].live /\ ~str[s].encoded
  BY DEF StringsInv, StrInv, MayChange
<1>2. Len(mem) \in Nat /\ Len(t) \in Nat /\ w \in Seq(Bytes) /\ t \in Seq(Alphabet) /\ Len(w) = Len(mem)
  BY LenProperties DEF Holds
<1>3. Holds(w, t)
  OBVIOUS
<1>. HIDE DEF w
<1>4. /\ own \in StrRecords /\ own.live /\ own.value = s /\ own.cap = Len(w) /\ own.length = Len(t)
      /\ own.cells = w /\ ~own.encoded
  BY <1>1, <1>2 DEF StrRecords, Points
<1>5. Alone(s)
  BY <1>1, AloneFacts
<1>6. str' = x /\ text' = u /\ UNCHANGED <<data, bytes>> /\ ~overrun'
  <2>1. str' = Moved(s, own)
    BY DEF StringChange, w
  <2>2. ~(at + Len(new) > Len(mem))
    <3>1. \A i, j : i <= j /\ j \in Nat /\ i \in Int => ~(i > j)
      OBVIOUS
    <3>2. ASSUME at + Len(new) > Len(mem) PROVE FALSE
      BY <3>2, <1>2
    <3>. QED BY <3>2
  <2>. HIDE DEF own
  <2>3. str' = x
    BY <1>1, <1>5, <2>1, MovedFacts
  <2>. QED BY <2>2, <2>3 DEF StringChange, StringsInv
<1>7. x[s] = own /\ u[s] = t
  BY <1>1
<1>. HIDE DEF own, x, u
<1>8. Stands(x, u, s)
  BY <1>3, <1>4, <1>7, StringsAssumption DEF Stands
<1>9. StrInv(x, u)
  BY <1>1, <1>2, <1>4, <1>5, <1>8, ReplaceKeeps DEF x, u
<1>. QED BY <1>6, <1>9, DataStays DEF StringsInv

(* Releasing a string that nobody refers to frees its own memory.          *)
LEMMA StringReleaseKeeps ==
  ASSUME StringsInv, Careful, NEW s \in Strs, StringRelease(s)
  PROVE  StringsInv'
<1>1. StrInv(str, text) /\ <<>> \in Seq(Alphabet) /\ <<>> \in Seq(Bytes)
  BY EmptySeq DEF StringsInv
<1>2. Alone(s)
  BY <1>1, AloneFacts DEF StringRelease
<1>3. NoStr \in StrRecords /\ ~NoStr.live
  BY <1>1 DEF NoStr, StrRecords, Points
<1>4. str' = [str EXCEPT ![s] = NoStr] /\ text' = [text EXCEPT ![s] = <<>>] /\ UNCHANGED <<data, bytes, overrun>>
  BY <1>1, <1>2, MovedFacts DEF StringRelease
<1>5. StrInv([str EXCEPT ![s] = NoStr], [text EXCEPT ![s] = <<>>])
  BY <1>1, <1>2, <1>3, ReplaceKeeps
<1>. QED BY <1>4, <1>5, DataStays DEF StringsInv

(* A new string with memory and no text.                                   *)
LEMMA NewWithCapacityKeeps ==
  ASSUME StringsInv, NEW s \in Strs, NEW n \in Nat \ {0}, NewWithCapacity(s, n)
  PROVE  StringsInv'
<1>1. <<>> \in Seq(Alphabet) /\ Len(<<>>) = 0
  BY EmptySeq
<1>2. Fill(n, NUL) \in Seq(Bytes) /\ Len(Fill(n, NUL)) = n /\ \A i \in 1 .. n : Fill(n, NUL)[i] = NUL
  BY FillFacts DEF Bytes
<1>3. Holds(Fill(n, NUL), <<>>)
  <2>1. 1 \in 1 .. n /\ n > 0
    OBVIOUS
  <2>. QED BY <1>1, <1>2, <2>1 DEF Holds
<1>4. StringNew(s, s, Len(<<>>), Fill(n, NUL), <<>>)
  BY <1>1 DEF NewWithCapacity
<1>5. s \in Points /\ s # Freed /\ s # Nothing /\ s \notin Texts \cup {<<>>}
  BY StringsAssumption DEF Points
<1>. QED BY <1>1, <1>2, <1>3, <1>4, <1>5, NewKeeps

(* A new string points at a constant or has the text in its memory.        *)
LEMMA NewWithTextKeeps ==
  ASSUME StringsInv, NEW s \in Strs, NEW t \in Texts \cup {<<>>}, NewWithCString(s, t) \/ NewWithFormat(s, t)
  PROVE  StringsInv'
<1>1. <<>> \in Seq(Alphabet) /\ Len(<<>>) = 0 /\ <<>> \in Seq(Bytes) /\ t \in Seq(Alphabet)
  BY EmptySeq, StringsAssumption
<1>2. CASE NewWithCString(s, t)
  <2>1. StringNew(s, t, Len(t), <<>>, t)
    BY <1>2 DEF NewWithCString
  <2>2. t \in Points /\ t # Freed /\ t # Nothing /\ t \notin Strs
    BY StringsAssumption DEF Points
  <2>3. t # s /\ \A q \in Strs \ {s} : t = q => str[q].live /\ str[q].value = q /\ ~str[q].encoded /\ text[q] = t
    BY <2>2
  <2>. QED BY <1>1, <2>1, <2>2, <2>3, NewKeeps
<1>3. CASE NewWithFormat(s, t) /\ t = <<>>
  <2>1. StringNew(s, Nothing, Len(<<>>), <<>>, <<>>)
    BY <1>1, <1>3 DEF NewWithFormat
  <2>2. Nothing \in Points /\ Nothing # Freed /\ Nothing \notin Strs \cup Texts \cup {<<>>}
    BY StringsAssumption DEF Points
  <2>3. Nothing # s /\ \A q \in Strs \ {s} : Nothing = q => str[q].live /\ str[q].value = q /\ ~str[q].encoded /\ text[q] = <<>>
    BY <2>2
  <2>. QED BY <1>1, <2>1, <2>2, <2>3, NewKeeps
<1>4. CASE NewWithFormat(s, t) /\ t # <<>>
  <2>1. StringNew(s, s, Len(t), Terminated(t), t)
    BY <1>4 DEF NewWithFormat
  <2>2. s \in Points /\ s # Freed /\ s # Nothing /\ s \notin Texts \cup {<<>>}
    BY StringsAssumption DEF Points
  <2>3. Holds(Terminated(t), t) /\ Terminated(t) \in Seq(Bytes)
    BY <1>1, TerminatedFacts DEF Holds
  <2>. QED BY <1>1, <2>1, <2>2, <2>3, NewKeeps
<1>. QED BY <1>2, <1>3, <1>4

(* A new string made of another one points at what that one points at.     *)
LEMMA NewWithStringKeeps ==
  ASSUME StringsInv, NEW s \in Strs, NEW r \in Strs, NewWithString(s, r)
  PROVE  StringsInv'
<1>. DEFINE v == IF str[r].value = Nothing THEN <<>> ELSE str[r].value
            t == text[r]
<1>1. /\ str[r].live /\ ~str[r].encoded /\ ~str[s].live /\ r # s
      /\ Stands(str, text, r) /\ t \in Seq(Alphabet) /\ str[r].value \in Points /\ <<>> \in Seq(Bytes)
  BY EmptySeq DEF NewWithString, Readable, StringNew, StringsInv, StrInv, StrRecords
<1>2. StringNew(s, v, Len(t), <<>>, t)
  BY <1>1 DEF NewWithString, Stands
<1>3. v \in Points /\ v # Freed /\ v # Nothing /\ v # s /\ (v \in Texts \cup {<<>>} => v = t)
  BY <1>1, StringsAssumption DEF Points, Stands
<1>4. ASSUME NEW q \in Strs \ {s}, v = q PROVE str[q].live /\ str[q].value = q /\ ~str[q].encoded /\ text[q] = t
  <2>1. str[r].value = q
    BY <1>4, StringsAssumption
  <2>. QED BY <1>1, <2>1 DEF Stands
<1>. HIDE DEF v, t
<1>. QED BY <1>1, <1>2, <1>3, <1>4, NewKeeps

-----------------------------------------------------------------------------
(* Appending what memory holds.                                            *)
LEMMA AppendKeeps ==
  ASSUME StringsInv, Careful, NEW s \in Strs, NEW mem, NEW t, Holds(mem, t), NEW n, n = Len(t), AppendMemory(s, t, mem, n)
  PROVE  StringsInv'
<1>. DEFINE old == text[s]
            k == Len(old)
            m == Mutable(s, k + n + 1)
<1>1. /\ MayChange(s) /\ str[s].live /\ ~str[s].encoded /\ k \in Nat /\ n \in Nat /\ str[s].length = k
      /\ StringChange(s, m, k, SubSeq(mem, 1, n + 1), k + n, old \o t)
  <2>1. Stands(str, text, s) /\ old \in Seq(Alphabet) /\ MayChange(s) /\ str[s].live /\ ~str[s].encoded
    BY DEF AppendMemory, MayChange, StringsInv, StrInv
  <2>2. k \in Nat /\ n \in Nat /\ str[s].length = k
    BY <2>1, LenProperties DEF Stands, Holds
  <2>. QED BY <2>1, <2>2 DEF AppendMemory
<1>2. Holds(m, old) /\ k + n + 1 <= Len(m) /\ m \in Seq(Bytes)
  BY <1>1, MutableFacts
<1>. HIDE DEF m
<1>3. /\ Holds(Written(m, k, SubSeq(mem, 1, n + 1)), old \o t)
      /\ Len(SubSeq(mem, 1, n + 1)) = n + 1
      /\ Len(Written(m, k, SubSeq(mem, 1, n + 1))) = Len(m)
      /\ Len(old \o t) = k + n
  BY <1>1, <1>2, WrittenBehind
<1>4. k + Len(SubSeq(mem, 1, n + 1)) <= Len(m)
  <2>1. k + (n + 1) <= Len(m)
    <3>1. Len(m) \in Nat
      BY <1>2, LenProperties
    <3>. HIDE DEF k
    <3>. QED BY <1>1, <1>2, <3>1
  <2>. QED BY <1>3, <2>1
<1>. HIDE DEF k, old
<1>. QED BY <1>1, <1>2, <1>3, <1>4, ChangeKeeps

(* Appending a string, by the append of its text.                          *)
LEMMA AppendStringKeeps ==
  ASSUME StringsInv, Careful, NEW s \in Strs, NEW r \in Strs, AppendString(s, r)
  PROVE  StringsInv'
<1>1. /\ str[r].live /\ ~str[r].encoded
      /\ AppendMemory(s, text[r], Memory(str[r].value), str[r].length)
  BY DEF AppendString, Readable
<1>2. Holds(Memory(str[r].value), text[r]) /\ str[r].length = Len(text[r])
  BY <1>1, MemoryFacts DEF StringsInv, StrInv, Stands
<1>. QED BY <1>1, <1>2, AppendKeeps

(* Appending a C string.                                                   *)
LEMMA AppendTextKeeps ==
  ASSUME StringsInv, Careful, NEW s \in Strs, NEW t \in Texts \cup {<<>>}, AppendText(s, t)
  PROVE  StringsInv'
<1>1. t \in Seq(Alphabet)
  BY EmptySeq, StringsAssumption
<1>. QED BY <1>1, TerminatedFacts, AppendKeeps DEF AppendText

(* The text of a part of the memory is that part of the text.              *)
LEMMA CutKeeps ==
  ASSUME StringsInv, Careful, NEW s \in Strs, MayChange(s), NEW start \in Nat, NEW end \in Nat,
         start <= end, end <= Len(text[s]), Cut(s, start, end)
  PROVE  StringsInv'
<1>. DEFINE t == text[s]
            m == Mutable(s, end - start + 1)
            a == SubSeq(m, start + 1, end)
            u == SubSeq(t, start + 1, end)
<1>1. str[s].live /\ ~str[s].encoded /\ t \in Seq(Alphabet) /\ end - start + 1 \in Nat
  BY DEF MayChange, StringsInv, StrInv
<1>2. Holds(m, t) /\ end - start + 1 <= Len(m) /\ m \in Seq(Bytes)
  BY <1>1, MutableFacts
<1>3. StringChange(s, m, 0, Terminated(a), end - start, u)
  BY DEF Cut
<1>. HIDE DEF m, t
<1>4. Len(m) \in Nat /\ Len(t) \in Nat /\ Len(t) < Len(m) /\ end <= Len(t) /\ \A i \in 1 .. Len(t) : m[i] = t[i]
  BY <1>1, <1>2, LenProperties DEF Holds, t
<1>5. start + 1 \in Nat \ {0} /\ end <= Len(m) /\ start + 1 <= end + 1
  BY <1>4
<1>6. /\ a \in Seq(Bytes) /\ Len(a) = end - (start + 1) + 1
      /\ \A i \in 1 .. end - (start + 1) + 1 : a[i] = m[start + 1 + i - 1]
  BY <1>2, <1>5, PartFacts
<1>7. /\ u \in Seq(Alphabet) /\ Len(u) = end - (start + 1) + 1
      /\ \A i \in 1 .. end - (start + 1) + 1 : u[i] = t[start + 1 + i - 1]
  BY <1>1, <1>4, <1>5, PartFacts
<1>. HIDE DEF a, u
<1>8. \A i \in 1 .. end - (start + 1) + 1 : start + 1 + i - 1 \in 1 .. Len(t)
  BY <1>4
<1>9. a = u
  <2>1. u \in Seq(Bytes)
    BY <1>7, SeqMonotonic DEF Bytes
  <2>2. \A i \in 1 .. end - (start + 1) + 1 : a[i] = u[i]
    BY <1>4, <1>6, <1>7, <1>8
  <2>. QED BY <1>6, <1>7, <2>1, <2>2, SeqEqual
<1>10. Len(u) = end - start /\ Len(u) + 1 <= Len(m)
  BY <1>2, <1>7, <1>4
<1>11. /\ Holds(Written(m, 0, Terminated(u)), u) /\ Len(Terminated(u)) = Len(u) + 1
       /\ Len(Written(m, 0, Terminated(u))) = Len(m)
  BY <1>2, <1>7, <1>10, WrittenFirst
<1>12. 0 + Len(Terminated(u)) <= Len(m)
  BY <1>4, <1>10, <1>11
<1>13. StringChange(s, m, 0, Terminated(u), Len(u), u)
  BY <1>3, <1>9, <1>10
<1>. QED BY <1>2, <1>11, <1>12, <1>13, ChangeKeeps

(* The least and the greatest of some of the first numbers.                *)
LEMMA EndsOf ==
  ASSUME NEW n \in Nat, NEW P \in SUBSET (1 .. n), P # {}
  PROVE  /\ \E i \in P : \A j \in P : i <= j
         /\ \E i \in P : \A j \in P : j <= i
<1>. DEFINE R == OpToRel(<, Nat)
            T == {n - p : p \in P}
<1>1. P \subseteq Nat /\ T \subseteq Nat /\ T # {}
  <2>1. \A p \in P : p \in 1 .. n /\ n - p \in Nat /\ p \in Nat
    OBVIOUS
  <2>. QED BY <2>1
<1>2. IsWellFoundedOn(R, Nat)
  BY NatLessThanWellFounded
<1>3. \A k, l \in Nat : <<k, l>> \in R <=> k < l
  BY DEF OpToRel
<1>. HIDE DEF R
<1>4. \E i \in P : \A j \in P : i <= j
  <2>1. PICK i \in P : \A j \in P : <<j, i>> \notin R
    BY <1>1, <1>2, WFMin, Zenon
  <2>2. \A j \in P : i <= j
    <3>. SUFFICES ASSUME NEW j \in P PROVE i <= j
      OBVIOUS
    <3>1. i \in Nat /\ j \in Nat /\ ~(j < i)
      BY <1>1, <1>3, <2>1
    <3>. QED BY <3>1
  <2>. QED BY <2>2
<1>5. \E i \in P : \A j \in P : j <= i
  <2>. HIDE DEF T
  <2>1. PICK x \in T : \A y \in T : <<y, x>> \notin R
    BY <1>1, <1>2, WFMin, Zenon
  <2>2. PICK i \in P : x = n - i
    BY DEF T
  <2>3. \A j \in P : j <= i
    <3>. SUFFICES ASSUME NEW j \in P PROVE j <= i
      OBVIOUS
    <3>1. n - j \in T
      BY DEF T
    <3>2. i \in Nat /\ j \in Nat /\ ~(n - j < n - i)
      BY <1>1, <1>3, <2>1, <2>2, <3>1
    <3>. QED BY <3>2
  <2>. QED BY <2>3
<1>. QED BY <1>4, <1>5

(* Trimming blanks at both ends, in memory of its own.                     *)
LEMMA TrimKeeps ==
  ASSUME StringsInv, Careful, NEW s \in Strs, Trim(s)
  PROVE  StringsInv'
<1>. DEFINE m == Memory(str[s].value)
            n == str[s].length
            ink == {i \in 1 .. n : m[i] # White}
            start == IF ink = {} THEN n ELSE (CHOOSE i \in ink : \A j \in ink : i <= j) - 1
            end == IF ink = {} THEN n ELSE CHOOSE i \in ink : \A j \in ink : j <= i
<1>1. MayChange(s) /\ Cut(s, start, end)
  BY DEF Trim
<1>2. n = Len(text[s]) /\ n \in Nat
  BY <1>1 DEF MayChange, StringsInv, StrInv, Stands, StrRecords
<1>. HIDE DEF m, n
<1>3. start \in Nat /\ end \in Nat /\ start <= end /\ end <= n
  <2>1. CASE ink = {}
    BY <1>2, <2>1
  <2>2. CASE ink # {}
    <3>. DEFINE low == CHOOSE i \in ink : \A j \in ink : i <= j
                high == CHOOSE i \in ink : \A j \in ink : j <= i
    <3>1. ink \in SUBSET (1 .. n)
      OBVIOUS
    <3>. HIDE DEF ink
    <3>2. (\E i \in ink : \A j \in ink : i <= j) /\ (\E i \in ink : \A j \in ink : j <= i)
      BY <1>2, <2>2, <3>1, EndsOf
    <3>3. low \in ink /\ high \in ink /\ \A j \in ink : low <= j
      BY <3>2
    <3>4. start = low - 1 /\ end = high
      BY <2>2
    <3>. HIDE DEF low, high, start, end
    <3>5. low \in 1 .. n /\ high \in 1 .. n /\ low <= high
      BY <3>1, <3>3
    <3>. QED BY <1>2, <3>4, <3>5
  <2>. QED BY <2>1, <2>2
<1>. HIDE DEF start, end
<1>. QED BY <1>1, <1>2, <1>3, CutKeeps

(* Trimming a prefix and a suffix.                                         *)
LEMMA TrimAffixesKeeps ==
  ASSUME StringsInv, Careful, NEW s \in Strs, NEW p \in Texts \cup {<<>>}, NEW q \in Texts \cup {<<>>}, TrimAffixes(s, p, q)
  PROVE  StringsInv'
<1>. DEFINE m == Memory(str[s].value)
            n == str[s].length
            hasPrefix == Len(p) \in 1 .. n /\ SubSeq(m, 1, Len(p)) = p
            hasSuffix == Len(q) \in 1 .. n /\ SubSeq(m, n - Len(q) + 1, n) = q
            start == IF hasPrefix THEN Len(p) ELSE 0
            end == IF hasSuffix THEN AtLeast(n - Len(q), start) ELSE n
<1>1. MayChange(s) /\ Cut(s, start, end)
  BY DEF TrimAffixes
<1>2. n = Len(text[s]) /\ n \in Nat
  BY <1>1 DEF MayChange, StringsInv, StrInv, Stands, StrRecords
<1>. HIDE DEF m, n, hasSuffix
<1>3. start \in Nat /\ start <= n
  BY <1>2
<1>4. end \in Nat /\ start <= end /\ end <= n
  <2>1. CASE ~hasSuffix
    <3>1. end = n
      BY <2>1
    <3>. HIDE DEF start, end
    <3>. QED BY <1>2, <1>3, <3>1
  <2>2. CASE hasSuffix
    <3>1. Len(q) \in 1 .. n /\ end = AtLeast(n - Len(q), start)
      BY <2>2 DEF hasSuffix
    <3>. HIDE DEF start, end
    <3>. QED BY <1>2, <1>3, <3>1 DEF AtLeast
  <2>. QED BY <2>1, <2>2
<1>. HIDE DEF start, end
<1>. QED BY <1>1, <1>2, <1>3, <1>4, CutKeeps

(* Each letter changes on its own, and none into the end of the text.      *)
Cased(upper, c) == IF upper THEN Upper(c) ELSE Lower(c)

(* Changing the case of every letter.                                      *)
LEMMA ToCaseKeeps ==
  ASSUME StringsInv, Careful, NEW s \in Strs, NEW upper \in BOOLEAN, ToCase(s, upper)
  PROVE  StringsInv'
<1>. DEFINE t == text[s]
            n == str[s].length
            m == Mutable(s, 0)
            new == [i \in 1 .. n |-> Cased(upper, m[i])]
            u == [i \in DOMAIN t |-> Cased(upper, t[i])]
<1>1. MayChange(s) /\ StringChange(s, m, 0, new, n, u)
  BY DEF ToCase, Cased
<1>2. /\ str[s].live /\ ~str[s].encoded /\ t \in Seq(Alphabet) /\ n = Len(t) /\ n \in Nat /\ DOMAIN t = 1 .. n
      /\ \A i \in 1 .. n : t[i] \in Alphabet
  <2>1. str[s].live /\ ~str[s].encoded /\ t \in Seq(Alphabet) /\ n = Len(t)
    BY <1>1 DEF MayChange, StringsInv, StrInv, Stands
  <2>. QED BY <2>1, SeqFacts
<1>3. Holds(m, t) /\ m \in Seq(Bytes)
  BY <1>2, MutableFacts
<1>. HIDE DEF m, n, t
<1>4. \A c \in Alphabet : Cased(upper, c) \in Alphabet
  BY DEF Cased, Upper, Lower, Alphabet
<1>5. u = new
  BY <1>2, <1>3 DEF Holds
<1>6. DOMAIN u = 1 .. n /\ u = [i \in 1 .. n |-> u[i]] /\ \A i \in 1 .. n : u[i] \in Alphabet
  BY <1>2, <1>4
<1>7. StringChange(s, m, 0, u, n, u)
  BY <1>1, <1>5
<1>. HIDE DEF u, new
<1>8. u \in Seq(Alphabet) /\ Len(u) = n
  BY <1>2, <1>6, MadeSeq
<1>9. Holds(Written(m, 0, u), u) /\ Len(Written(m, 0, u)) = Len(m) /\ Len(u) <= Len(m)
  BY <1>2, <1>3, <1>8, WrittenOver
<1>10. 0 + Len(u) <= Len(m)
  BY <1>2, <1>8, <1>9
<1>. QED BY <1>1, <1>3, <1>7, <1>8, <1>9, <1>10, ChangeKeeps

-----------------------------------------------------------------------------
(* The letters of the encodings, with the terminator, fit what is asked.   *)
LEMMA EncodingFits ==
  ASSUME NEW n \in Nat
  PROVE  /\ Base64Letters(n) \in Nat /\ Base64Capacity(n) \in Nat
         /\ Base64Letters(n) + 1 <= Base64Capacity(n)
<1>1. n = 3 * (n \div 3) + (n % 3) /\ n % 3 \in 0 .. 2 /\ n \div 3 \in Nat
  OBVIOUS
<1>2. (n + 2) \div 3 >= IF n % 3 = 0 THEN n \div 3 ELSE n \div 3 + 1
  BY <1>1
<1>. QED BY <1>1, <1>2 DEF Base64Letters, Base64Capacity

(* The text that data are written as fits into the new string.             *)
LEMMA EncodeKeeps ==
  ASSUME StringsInv, NEW s \in Strs, NEW letters \in Nat, NEW room \in Nat, letters + 1 <= room,
         Encode(s, letters, room)
  PROVE  StringsInv'
<1>. DEFINE t == Fill(letters, "x")
            m == Fill(room, NUL)
            w == Written(m, 0, Terminated(t))
            new == [live |-> TRUE, value |-> s, length |-> 0, cap |-> room, encoded |-> TRUE, cells |-> w]
            x == [str EXCEPT ![s] = new]
            u == [text EXCEPT ![s] = t]
<1>1. /\ ~str[s].live /\ str' = x /\ text' = u /\ UNCHANGED <<data, bytes>>
      /\ overrun' = (overrun \/ letters + 1 > room)
  BY DEF Encode
<1>2. t \in Seq(Alphabet) /\ Len(t) = letters /\ m \in Seq(Bytes) /\ Len(m) = room
  BY FillFacts DEF Alphabet, Bytes
<1>. HIDE DEF t, m
<1>3. Holds(w, t) /\ Len(w) = room /\ w \in Seq(Bytes)
  BY <1>2, WrittenFirst DEF Holds
<1>. HIDE DEF w
<1>4. new \in StrRecords
  BY <1>3 DEF StrRecords, Points
<1>5. StrInv(str, text) /\ str \in [Strs -> StrRecords] /\ text \in [Strs -> Seq(Alphabet)]
  BY DEF StringsInv, StrInv
<1>6. x[s] = new /\ u[s] = t
  BY <1>5
<1>. HIDE DEF x, u
<1>7. Stands(x, u, s)
  BY <1>3, <1>6, StringsAssumption DEF Stands
<1>8. Alone(s)
  BY <1>1, <1>5, AloneFacts
<1>9. StrInv(x, u)
  BY <1>2, <1>4, <1>5, <1>7, <1>8, ReplaceKeeps DEF x, u
<1>10. ~overrun'
  <2>1. ~(letters + 1 > room)
    OBVIOUS
  <2>. QED BY <1>1, <2>1 DEF StringsInv
<1>. QED BY <1>1, <1>9, <1>10, DataStays DEF StringsInv

(* The room taken is enough for hexadecimal digits, and for base 64.       *)
LEMMA EncodingsKeep ==
  ASSUME StringsInv, NEW s \in Strs, HexString(s) \/ Base64String(s)
  PROVE  StringsInv'
<1>1. data.size \in Nat
  BY DEF StringsInv, DataInv
<1>2. 2 * data.size \in Nat /\ 2 * data.size + 1 \in Nat /\ 2 * data.size + 1 <= 2 * data.size + 1
  BY <1>1
<1>. QED BY <1>1, <1>2, EncodingFits, EncodeKeeps DEF HexString, Base64String

-----------------------------------------------------------------------------
(* Strings that are left alone keep their invariant.                       *)
LEMMA StringsStay ==
  ASSUME StringsInv, UNCHANGED <<str, text>>
  PROVE  StrInv(str, text)'
  BY DEF StringsInv, StrInv, Stands, Holds

(* Appending bytes, into a larger buffer if they do not fit.               *)
LEMMA AppendDataKeeps ==
  ASSUME StringsInv, NEW new \in Seq(Bytes), AppendData(new)
  PROVE  StringsInv'
<1>. DEFINE k == Len(new)
            n == data.size
            room == DataRoom(k)
            front == SubSeq(data.cells, 1, n)
            fill == Fill(room - n, Garbage)
            grown == front \o fill
            w == Written(grown, n, new)
<1>1. /\ data' = [cells |-> w, size |-> n + k, cap |-> room]
      /\ overrun' = (overrun \/ n + k > room) /\ bytes' = bytes \o new /\ UNCHANGED <<str, text>>
  BY DEF AppendData
<1>2. /\ n \in Nat /\ k \in Nat /\ data.cap \in Nat /\ data.cells \in Seq(Bytes) /\ Len(data.cells) = data.cap
      /\ n <= data.cap /\ bytes \in Seq(Bytes) /\ front = bytes
  BY LenProperties DEF StringsInv, DataInv
<1>. HIDE DEF n, k
<1>3. room \in Nat /\ n + k <= room
  BY <1>2 DEF DataRoom, n
<1>. HIDE DEF room
<1>4. Len(front) = n /\ front \in Seq(Bytes)
  <2>1. 1 \in Nat \ {0} /\ n <= Len(data.cells) /\ 1 <= n + 1 /\ n - 1 + 1 = n
    BY <1>2
  <2>. QED BY <1>2, <2>1, PartFacts
<1>. HIDE DEF front
<1>5. fill \in Seq(Bytes) /\ Len(fill) = room - n
  <2>1. room - n \in Nat /\ Garbage \in Bytes
    BY <1>2, <1>3 DEF Bytes
  <2>. QED BY <2>1, FillFacts
<1>. HIDE DEF fill
<1>6. /\ grown \in Seq(Bytes) /\ Len(grown) = room
      /\ \A i \in 1 .. n : grown[i] = front[i]
  <2>1. grown \in Seq(Bytes) /\ Len(grown) = Len(front) + Len(fill) /\ \A i \in 1 .. Len(front) : grown[i] = front[i]
    BY <1>4, <1>5, JoinFacts
  <2>2. n + (room - n) = room
    BY <1>2, <1>3
  <2>. QED BY <1>4, <1>5, <2>1, <2>2
<1>. HIDE DEF grown
<1>7. /\ w \in Seq(Bytes) /\ Len(w) = room
      /\ \A i \in 1 .. room : w[i] = IF i > n /\ i <= n + k THEN new[i - n] ELSE grown[i]
  BY <1>2, <1>3, <1>6, WrittenFacts DEF k
<1>. HIDE DEF w
<1>8. /\ bytes \o new \in Seq(Bytes) /\ Len(bytes \o new) = n + k
      /\ \A i \in 1 .. n : (bytes \o new)[i] = front[i]
      /\ \A i \in n + 1 .. n + k : (bytes \o new)[i] = new[i - n]
  <2>1. n = Len(bytes) /\ front = bytes /\ k = Len(new)
    BY <1>2, <1>4 DEF k
  <2>2. /\ bytes \o new \in Seq(Bytes) /\ Len(bytes \o new) = Len(bytes) + Len(new)
        /\ \A i \in 1 .. Len(bytes) : (bytes \o new)[i] = bytes[i]
        /\ \A i \in Len(bytes) + 1 .. Len(bytes) + Len(new) : (bytes \o new)[i] = new[i - Len(bytes)]
    BY <1>2, JoinFacts
  <2>. QED BY ONLY <2>1, <2>2
<1>9. /\ SubSeq(w, 1, n + k) \in Seq(Bytes) /\ Len(SubSeq(w, 1, n + k)) = n + k
      /\ \A i \in 1 .. n + k : SubSeq(w, 1, n + k)[i] = w[i]
  <2>1. 1 \in Nat \ {0} /\ n + k \in Nat /\ n + k <= Len(w) /\ 1 <= (n + k) + 1
    BY <1>2, <1>3, <1>7
  <2>2. /\ SubSeq(w, 1, n + k) \in Seq(Bytes) /\ Len(SubSeq(w, 1, n + k)) = (n + k) - 1 + 1
        /\ \A i \in 1 .. (n + k) - 1 + 1 : SubSeq(w, 1, n + k)[i] = w[1 + i - 1]
    BY <1>7, <2>1, PartFacts
  <2>3. (n + k) - 1 + 1 = n + k /\ \A i \in 1 .. n + k : 1 + i - 1 = i
    BY <1>2
  <2>. QED BY <2>2, <2>3
<1>10. \A i \in 1 .. n + k : w[i] = (bytes \o new)[i]
  <2>1. ASSUME NEW i \in 1 .. n PROVE w[i] = (bytes \o new)[i]
    <3>1. i \in 1 .. room /\ ~(i > n)
      BY <1>2, <1>3
    <3>. QED BY <1>6, <1>7, <1>8, <3>1
  <2>2. ASSUME NEW i \in n + 1 .. n + k PROVE w[i] = (bytes \o new)[i]
    <3>1. i \in 1 .. room /\ i > n /\ i <= n + k
      BY <1>2, <1>3
    <3>. QED BY <1>7, <1>8, <3>1
  <2>3. \A i \in 1 .. n + k : i \in 1 .. n \/ i \in n + 1 .. n + k
    BY <1>2
  <2>. QED BY <2>1, <2>2, <2>3
<1>11. SubSeq(w, 1, n + k) = bytes \o new
  BY <1>8, <1>9, <1>10, SeqEqual
<1>12. DataInv'
  BY <1>1, <1>2, <1>3, <1>7, <1>8, <1>11 DEF DataInv
<1>13. ~overrun'
  <2>1. ~(n + k > room)
    BY <1>2, <1>3
  <2>. QED BY <1>1, <2>1 DEF StringsInv
<1>. QED BY <1>1, <1>12, <1>13, StringsStay DEF StringsInv

(* New data, and data that are gone.                                       *)
LEMMA DataNewKeeps ==
  ASSUME StringsInv,
         \/ \E n \in Nat : DataWithCapacity(n)
         \/ \E t \in Texts : DataWith(t)
         \/ DataDealloc
  PROVE  StringsInv'
<1>1. <<>> \in Seq(Bytes) /\ Len(<<>>) = 0
  BY EmptySeq
<1>2. ASSUME NEW n \in Nat, DataWithCapacity(n) PROVE StringsInv'
  <2>1. Fill(n, Garbage) \in Seq(Bytes) /\ Len(Fill(n, Garbage)) = n
    BY FillFacts DEF Bytes
  <2>2. bytes = <<>>
    <3>1. data.size = 0
      BY <1>2 DEF DataWithCapacity, StringsInv, DataInv
    <3>. QED BY <3>1, SubSeqEmpty DEF StringsInv, DataInv
  <2>3. SubSeq(Fill(n, Garbage), 1, 0) = <<>>
    BY SubSeqEmpty
  <2>4. DataInv'
    BY <1>1, <1>2, <2>1, <2>2, <2>3 DEF DataWithCapacity, DataInv
  <2>. QED BY <1>2, <2>4, StringsStay DEF StringsInv, DataWithCapacity
<1>3. ASSUME NEW t \in Texts, DataWith(t) PROVE StringsInv'
  <2>1. t \in Seq(Bytes)
    BY StringsAssumption, SeqMonotonic DEF Bytes
  <2>2. SubSeq(t, 1, Len(t)) = t /\ Len(t) \in Nat
    BY <2>1, SubSeqFull, LenProperties
  <2>3. DataInv'
    BY <1>3, <2>1, <2>2 DEF DataWith, DataInv
  <2>. QED BY <1>3, <2>3, StringsStay DEF StringsInv, DataWith
<1>4. ASSUME DataDealloc PROVE StringsInv'
  <2>1. SubSeq(<<>>, 1, 0) = <<>>
    BY SubSeqEmpty
  <2>2. DataInv'
    BY <1>1, <1>4, <2>1 DEF DataDealloc, DataInv
  <2>. QED BY <1>4, <2>2, StringsStay DEF StringsInv, DataDealloc
<1>. QED BY <1>2, <1>3, <1>4

-----------------------------------------------------------------------------
(* Every step of strings and data keeps the invariant.                     *)
LEMMA StringsStepKeeps ==
  ASSUME StringsInv, Careful, [StringsStep]_strVars
  PROVE  StringsInv'
<1>1. CASE UNCHANGED strVars
  BY <1>1, StringsStay, DataStays DEF strVars, StringsInv
<1>2. ASSUME NEW s \in Strs, NEW n \in 1 .. MaxText + 1, NewWithCapacity(s, n) PROVE StringsInv'
  <2>1. n \in Nat \ {0}
    BY StringsAssumption
  <2>. QED BY <1>2, <2>1, NewWithCapacityKeeps
<1>3. ASSUME NEW s \in Strs, NEW t \in Texts \cup {<<>>},
             NewWithCString(s, t) \/ NewWithFormat(s, t) \/ AppendText(s, t)
      PROVE  StringsInv'
  BY <1>3, NewWithTextKeeps, AppendTextKeeps
<1>4. ASSUME NEW s \in Strs, NEW r \in Strs, NewWithString(s, r) \/ AppendString(s, r) PROVE StringsInv'
  BY <1>4, NewWithStringKeeps, AppendStringKeeps
<1>5. ASSUME NEW s \in Strs,
             \/ StringRelease(s) \/ Trim(s) \/ ToUppercase(s) \/ ToLowercase(s)
             \/ HexString(s) \/ Base64String(s)
      PROVE  StringsInv'
  BY <1>5, StringReleaseKeeps, TrimKeeps, ToCaseKeeps, EncodingsKeep DEF ToUppercase, ToLowercase
<1>6. ASSUME NEW s \in Strs, NEW p \in Texts \cup {<<>>}, NEW q \in Texts \cup {<<>>}, TrimAffixes(s, p, q)
      PROVE  StringsInv'
  BY <1>6, TrimAffixesKeeps
<1>7. ASSUME \/ \E n \in 1 .. MaxData : DataWithCapacity(n)
             \/ \E t \in Texts : DataWith(t)
             \/ DataDealloc
      PROVE  StringsInv'
  <2>1. 1 .. MaxData \subseteq Nat
    BY StringsAssumption
  <2>. QED BY <1>7, <2>1, DataNewKeeps
<1>8. ASSUME NEW t \in Texts, AppendData(t) PROVE StringsInv'
  <2>1. t \in Seq(Bytes)
    BY StringsAssumption, SeqMonotonic DEF Bytes
  <2>. QED BY <1>8, <2>1, AppendDataKeeps
<1>9. ASSUME AppendItself PROVE StringsInv'
  <2>1. SubSeq(data.cells, 1, data.size) \in Seq(Bytes)
    BY DEF StringsInv, DataInv
  <2>. QED BY <1>9, <2>1, AppendDataKeeps DEF AppendItself
<1>. QED BY <1>1, <1>2, <1>3, <1>4, <1>5, <1>6, <1>7, <1>8, <1>9 DEF StringsStep

(* The invariant: nothing is written past its memory and text is kept.     *)
LEMMA StringsInvGives ==
  ASSUME StringsInv
  PROVE  TextKept /\ BytesKept /\ NoOverrun
<1>1. ASSUME NEW s \in Strs, Readable(s)
      PROVE  CString(Memory(str[s].value)) = text[s] /\ (str[s].encoded \/ str[s].length = Len(text[s]))
  BY <1>1, MemoryFacts, ReadFacts DEF Readable, StringsInv, StrInv, Stands
<1>. QED BY <1>1 DEF TextKept, BytesKept, NoOverrun, StringsInv, DataInv

(* Two bounds that meet at zero.                                           *)
LEMMA BothZero ==
  ASSUME NEW j \in Int, NEW k \in Int, j <= 0, 0 <= j, k <= 0, 0 <= k
  PROVE  j = -k
<1>1. -k = 0 - k
  OBVIOUS
<1>. QED BY <1>1

(* strcmp: no difference means the same text, and the sign turns around    *)
(* with the strings.                                                       *)
LEMMA CompareFacts ==
  ASSUME NEW a, NEW t, NEW b, NEW o, Holds(a, t), Holds(b, o)
  PROVE  /\ StrCmp(a, b) = 0 <=> t = o
         /\ StrCmp(a, b) = -StrCmp(b, a)
<1>. DEFINE m == Terminated(t)
            n == Terminated(o)
            differ == {i \in DOMAIN m \cap DOMAIN n : m[i] # n[i]}
            first == CHOOSE i \in differ : \A j \in differ : i <= j
<1>1. CString(a) = t /\ CString(b) = o /\ t \in Seq(Alphabet) /\ o \in Seq(Alphabet)
  BY ReadFacts DEF Holds
<1>2. /\ m \in Seq(Bytes) /\ Len(m) = Len(t) + 1 /\ DOMAIN m = 1 .. Len(t) + 1 /\ Len(t) \in Nat
      /\ m[Len(t) + 1] = NUL /\ \A i \in 1 .. Len(t) : m[i] = t[i] /\ t[i] \in Alphabet
  <2>1. Holds(m, t) /\ Len(m) = Len(t) + 1
    BY <1>1, TerminatedFacts
  <2>. QED BY <1>1, <2>1, SeqFacts DEF Holds
<1>3. /\ n \in Seq(Bytes) /\ Len(n) = Len(o) + 1 /\ DOMAIN n = 1 .. Len(o) + 1 /\ Len(o) \in Nat
      /\ n[Len(o) + 1] = NUL /\ \A i \in 1 .. Len(o) : n[i] = o[i] /\ o[i] \in Alphabet
  <2>1. Holds(n, o) /\ Len(n) = Len(o) + 1
    BY <1>1, TerminatedFacts
  <2>. QED BY <1>1, <2>1, SeqFacts DEF Holds
<1>4. StrCmp(a, b) = IF differ = {} THEN 0 ELSE IF Rank(m[first]) < Rank(n[first]) THEN -1 ELSE 1
  BY <1>1 DEF StrCmp
<1>5. StrCmp(b, a) = IF differ = {} THEN 0 ELSE IF Rank(n[first]) < Rank(m[first]) THEN -1 ELSE 1
  <2>1. {i \in DOMAIN n \cap DOMAIN m : n[i] # m[i]} = differ
    OBVIOUS
  <2>. QED BY <1>1, <2>1 DEF StrCmp
<1>. HIDE DEF m, n
<1>6. ASSUME differ = {} PROVE t = o
  <2>1. \A i \in DOMAIN m : i \in DOMAIN n => m[i] = n[i]
    BY <1>6
  <2>2. ~(Len(t) < Len(o))
    <3>1. SUFFICES ASSUME Len(t) < Len(o) PROVE FALSE
      OBVIOUS
    <3>2. Len(t) + 1 \in 1 .. Len(t) + 1 /\ Len(t) + 1 \in 1 .. Len(o) + 1 /\ Len(t) + 1 \in 1 .. Len(o)
      BY <1>2, <1>3, <3>1
    <3>3. n[Len(t) + 1] \in Alphabet /\ n[Len(t) + 1] = NUL
      BY <1>2, <1>3, <2>1, <3>2
    <3>. QED BY <3>3 DEF Alphabet, NUL, White
  <2>3. ~(Len(o) < Len(t))
    <3>1. SUFFICES ASSUME Len(o) < Len(t) PROVE FALSE
      OBVIOUS
    <3>2. Len(o) + 1 \in 1 .. Len(t) + 1 /\ Len(o) + 1 \in 1 .. Len(o) + 1 /\ Len(o) + 1 \in 1 .. Len(t)
      BY <1>2, <1>3, <3>1
    <3>3. m[Len(o) + 1] \in Alphabet /\ m[Len(o) + 1] = NUL
      BY <1>2, <1>3, <2>1, <3>2
    <3>. QED BY <3>3 DEF Alphabet, NUL, White
  <2>4. Len(t) = Len(o)
    BY <1>2, <1>3, <2>2, <2>3
  <2>5. \A i \in 1 .. Len(t) : i \in 1 .. Len(t) + 1 /\ i \in 1 .. Len(o) + 1 /\ i \in 1 .. Len(o)
    BY <1>2, <2>4
  <2>6. \A i \in 1 .. Len(t) : t[i] = o[i]
    BY <1>2, <1>3, <2>1, <2>5
  <2>. QED BY <1>1, <2>4, <2>6, SeqEqual
<1>7. t = o => differ = {}
  BY DEF m, n
<1>8. ASSUME differ # {}
      PROVE  /\ Rank(m[first]) \in 0 .. 3 /\ Rank(n[first]) \in 0 .. 3 /\ Rank(m[first]) # Rank(n[first])
  <2>1. differ \in SUBSET (1 .. Len(t) + 1)
    BY <1>2
  <2>2. first \in differ
    <3>. HIDE DEF differ
    <3>1. \E i \in differ : \A j \in differ : i <= j
      <4>1. Len(t) + 1 \in Nat
        BY <1>2
      <4>. QED BY <1>8, <2>1, <4>1, EndsOf
    <3>. QED BY <3>1
  <2>. HIDE DEF first
  <2>3. first \in 1 .. Len(t) + 1 /\ first \in 1 .. Len(o) + 1 /\ m[first] # n[first]
    BY <1>2, <1>3, <2>2
  <2>4. m[first] \in Alphabet \cup {NUL} /\ n[first] \in Alphabet \cup {NUL}
    <3>1. first \in 1 .. Len(t) \/ first = Len(t) + 1
      BY <1>2, <2>3
    <3>2. first \in 1 .. Len(o) \/ first = Len(o) + 1
      BY <1>3, <2>3
    <3>. QED BY <1>2, <1>3, <3>1, <3>2
  <2>5. \A c, d \in Alphabet \cup {NUL} : Rank(c) \in 0 .. 3 /\ (c # d => Rank(c) # Rank(d))
    <3>1. Rank("X") = 1 /\ Rank(White) = 2 /\ Rank("x") = 3 /\ Rank(NUL) = 0
      BY DEF NUL, White, Rank
    <3>. QED BY <3>1 DEF Alphabet
  <2>. QED BY <2>3, <2>4, <2>5
<1>. HIDE DEF differ, first
<1>9. CASE differ = {}
  <2>1. StrCmp(a, b) = 0 /\ StrCmp(b, a) = 0 /\ t = o
    BY <1>4, <1>5, <1>6, <1>9
  <2>2. StrCmp(a, b) = -StrCmp(b, a)
    <3>1. /\ StrCmp(a, b) \in Int /\ StrCmp(a, b) <= 0 /\ 0 <= StrCmp(a, b)
          /\ StrCmp(b, a) \in Int /\ StrCmp(b, a) <= 0 /\ 0 <= StrCmp(b, a)
      BY <2>1
    <3>. QED BY <3>1, BothZero
  <2>. QED BY <2>1, <2>2
<1>10. CASE differ # {}
  <2>. DEFINE x == Rank(m[first])
              y == Rank(n[first])
  <2>1. x \in 0 .. 3 /\ y \in 0 .. 3 /\ x # y
    BY <1>8, <1>10
  <2>2. StrCmp(a, b) = (IF x < y THEN -1 ELSE 1) /\ StrCmp(b, a) = IF y < x THEN -1 ELSE 1
    BY <1>4, <1>5, <1>10
  <2>. HIDE DEF x, y
  <2>. QED BY <1>7, <1>10, <2>1, <2>2
<1>. QED BY <1>9, <1>10

(* strncmp over the length of a text: the other starts with it.            *)
LEMMA LeadingFacts ==
  ASSUME NEW x \in Seq(Alphabet), NEW o \in Seq(Alphabet)
  PROVE  /\ Leading(Terminated(x), Len(o)) = Leading(Terminated(o), Len(o)) <=> Leading(x, Len(o)) = o
         /\ Leading(x, Len(o)) = o => Len(o) <= Len(x)
<1>. DEFINE n == Len(o)
            k == Len(x)
            m == Terminated(x)
            p == Terminated(o)
<1>1. /\ n \in Nat /\ k \in Nat /\ m \in Seq(Bytes) /\ p \in Seq(Bytes) /\ Len(m) = k + 1 /\ Len(p) = n + 1
      /\ \A i \in 1 .. k : m[i] = x[i]
      /\ \A i \in 1 .. n : p[i] = o[i] /\ o[i] \in Alphabet
      /\ m[k + 1] = NUL
  BY TerminatedFacts, SeqFacts DEF Holds
<1>2. x \in Seq(Bytes) /\ o \in Seq(Bytes) /\ Len(x) = k /\ Len(o) = n
  BY SeqMonotonic DEF Bytes
<1>. HIDE DEF n, k, m, p
<1>3. \A c \in Alphabet : c # NUL
  BY DEF Alphabet, NUL, White
<1>4. n - 1 + 1 = n /\ \A i \in 1 .. n : 1 + i - 1 = i
  BY <1>1
<1>5. Leading(p, n) = o
  <2>1. Leading(p, n) = SubSeq(p, 1, n) /\ 1 \in Nat \ {0} /\ n <= Len(p) /\ 1 <= n + 1
    BY <1>1 DEF Leading
  <2>2. SubSeq(p, 1, n) \in Seq(Bytes) /\ Len(SubSeq(p, 1, n)) = n /\ \A i \in 1 .. n : SubSeq(p, 1, n)[i] = p[i]
    BY <1>1, <1>4, <2>1, PartFacts
  <2>3. \A i \in 1 .. n : SubSeq(p, 1, n)[i] = o[i]
    BY <1>1, <2>2
  <2>. QED BY <1>2, <2>1, <2>2, <2>3, SeqEqual
<1>6. CASE n <= k
  <2>1. Leading(m, n) = SubSeq(m, 1, n) /\ Leading(x, n) = SubSeq(x, 1, n) /\ 1 \in Nat \ {0} /\ n <= Len(m) /\ 1 <= n + 1 /\ n <= Len(x)
    BY <1>1, <1>2, <1>6 DEF Leading
  <2>2. SubSeq(m, 1, n) \in Seq(Bytes) /\ Len(SubSeq(m, 1, n)) = n /\ \A i \in 1 .. n : SubSeq(m, 1, n)[i] = m[i]
    BY <1>1, <1>4, <2>1, PartFacts
  <2>3. SubSeq(x, 1, n) \in Seq(Bytes) /\ Len(SubSeq(x, 1, n)) = n /\ \A i \in 1 .. n : SubSeq(x, 1, n)[i] = x[i]
    BY <1>1, <1>2, <1>4, <2>1, PartFacts
  <2>4. \A i \in 1 .. n : i \in 1 .. k
    BY <1>1, <1>6
  <2>5. \A i \in 1 .. n : SubSeq(m, 1, n)[i] = SubSeq(x, 1, n)[i]
    BY <1>1, <2>2, <2>3, <2>4
  <2>6. SubSeq(m, 1, n) = SubSeq(x, 1, n)
    BY <2>2, <2>3, <2>5, SeqEqual
  <2>. QED BY <1>2, <1>5, <1>6, <2>1, <2>6 DEF m, p
<1>7. CASE n > k
  <2>1. Leading(x, n) = x
    BY <1>2, <1>7 DEF Leading
  <2>2. x # o
    BY <1>1, <1>2, <1>7
  <2>3. Leading(m, n) # o
    <3>1. CASE n > k + 1
      <4>1. Leading(m, n) = m /\ Len(m) # n
        BY <1>1, <3>1 DEF Leading
      <4>. QED BY <1>2, <4>1
    <3>2. CASE n = k + 1
      <4>1. Leading(m, n) = SubSeq(m, 1, n) /\ 1 \in Nat \ {0} /\ n <= Len(m) /\ 1 <= n + 1 /\ n \in 1 .. n
        BY <1>1, <3>2 DEF Leading
      <4>2. \A i \in 1 .. n : SubSeq(m, 1, n)[i] = m[i]
        BY <1>1, <1>4, <4>1, PartFacts
      <4>3. SubSeq(m, 1, n)[n] = NUL /\ o[n] # NUL
        BY <1>1, <1>3, <3>2, <4>1, <4>2
      <4>. QED BY <4>1, <4>3
    <3>. QED BY <1>1, <1>7, <3>1, <3>2
  <2>. QED BY <1>2, <1>5, <2>1, <2>2, <2>3 DEF m, p
<1>. QED BY <1>1, <1>6, <1>7

(* Comparing the first letters of two texts in memory.                     *)
LEMMA SameFirstFacts ==
  ASSUME NEW a, NEW x, NEW b, NEW o, Holds(a, x), Holds(b, o)
  PROVE  /\ SameFirst(a, b, Len(o)) <=> Leading(x, Len(o)) = o
         /\ Leading(x, Len(o)) = o => Len(o) <= Len(x)
<1>1. x \in Seq(Alphabet) /\ o \in Seq(Alphabet) /\ CString(a) = x /\ CString(b) = o
  BY ReadFacts DEF Holds
<1>. QED BY <1>1, LeadingFacts DEF SameFirst

(* What is behind some letters of the memory holds the rest of the text.   *)
LEMMA BehindFacts ==
  ASSUME NEW m, NEW t, Holds(m, t), NEW at \in 0 .. Len(t)
  PROVE  /\ Holds(Behind(m, at), SubSeq(t, at + 1, Len(t)))
         /\ Len(SubSeq(t, at + 1, Len(t))) = Len(t) - at
<1>. DEFINE n == Len(t)
            l == Len(m)
            b == Behind(m, at)
            u == SubSeq(t, at + 1, n)
<1>1. /\ m \in Seq(Bytes) /\ t \in Seq(Alphabet) /\ n \in Nat /\ l \in Nat /\ n < l
      /\ m[n + 1] = NUL /\ \A i \in 1 .. n : m[i] = t[i]
  <2>1. m \in Seq(Bytes) /\ t \in Seq(Alphabet)
    BY DEF Holds
  <2>. QED BY <2>1, LenProperties DEF Holds
<1>2. at \in 0 .. n /\ Len(t) = n /\ Len(m) = l
  OBVIOUS
<1>. HIDE DEF n, l
<1>3. at + 1 \in Nat \ {0} /\ n <= Len(t) /\ at + 1 <= n + 1 /\ l <= Len(m) /\ at + 1 <= l + 1
  BY <1>1, <1>2
<1>4. /\ u \in Seq(Alphabet) /\ Len(u) = n - (at + 1) + 1
      /\ \A i \in 1 .. n - (at + 1) + 1 : u[i] = t[at + 1 + i - 1]
  BY <1>1, <1>3, PartFacts
<1>5. /\ b \in Seq(Bytes) /\ Len(b) = l - (at + 1) + 1
      /\ \A i \in 1 .. l - (at + 1) + 1 : b[i] = m[at + 1 + i - 1]
  BY <1>1, <1>2, <1>3, PartFacts DEF Behind
<1>. HIDE DEF b, u
<1>6. /\ n - (at + 1) + 1 = n - at /\ l - (at + 1) + 1 = l - at /\ n - at \in Nat /\ n - at < l - at
      /\ \A i \in 1 .. n - at : i \in 1 .. l - at /\ at + 1 + i - 1 \in 1 .. n
      /\ n - at + 1 \in 1 .. l - at /\ at + 1 + (n - at + 1) - 1 = n + 1
  BY <1>1, <1>2
<1>7. \A i \in 1 .. n - at : b[i] = u[i]
  BY <1>1, <1>4, <1>5, <1>6
<1>8. b[n - at + 1] = NUL
  BY <1>1, <1>5, <1>6
<1>9. Holds(b, u)
  BY <1>4, <1>5, <1>6, <1>7, <1>8 DEF Holds
<1>. QED BY <1>4, <1>6, <1>9 DEF b, u, n

(* What a string answers is what its text would answer.                    *)
LEMMA StringsAnswer ==
  ASSUME StringsInv
  PROVE  AnswersByText
<1>. SUFFICES ASSUME NEW s \in Strs, NEW r \in Strs, Legible(s), Legible(r)
              PROVE  LET t == text[s]  o == text[r]  from(at) == SubSeq(t, at + 1, Len(t)) IN
                       /\ EqualTo(s, r) <=> t = o
                       /\ CompareStrings(s, r) = 0 <=> t = o
                       /\ CompareStrings(s, r) = -CompareStrings(r, s)
                       /\ \A c \in {"x", White} : CountOccurrences(s, c) = Cardinality({i \in DOMAIN t : t[i] = c})
                       /\ HasPrefix(s, r) <=> Leading(t, Len(o)) = o
                       /\ HasSuffix(s, r) <=> Len(o) <= Len(t) /\ from(Len(t) - Len(o)) = o
                       /\ ContainsString(s, r) <=> \E at \in 0 .. Len(t) : Leading(from(at), Len(o)) = o
  BY DEF AnswersByText
<1>. DEFINE t == text[s]
            o == text[r]
            a == Memory(str[s].value)
            b == Memory(str[r].value)
            from(at) == SubSeq(t, at + 1, Len(t))
<1>1. /\ Holds(a, t) /\ Holds(b, o) /\ t \in Seq(Alphabet) /\ o \in Seq(Alphabet)
      /\ str[s].length = Len(t) /\ str[r].length = Len(o) /\ Len(t) \in Nat /\ Len(o) \in Nat
      /\ CString(a) = t /\ CString(b) = o
      /\ str[s].value = Nothing => t = <<>>
  <2>1. Holds(a, t) /\ Holds(b, o) /\ Stands(str, text, s) /\ Stands(str, text, r) /\ ~str[s].encoded /\ ~str[r].encoded
    BY MemoryFacts DEF Legible, Readable, StringsInv, StrInv
  <2>2. t \in Seq(Alphabet) /\ o \in Seq(Alphabet)
    BY <2>1 DEF Holds
  <2>. QED BY <2>1, <2>2, ReadFacts, LenProperties DEF Stands
<1>2. str[s].value = str[r].value => t = o
  BY <1>1
<1>3. (s = r => t = o) /\ (t = o => Len(t) = Len(o))
  OBVIOUS
<1>4. (StrCmp(a, b) = 0 <=> t = o) /\ StrCmp(a, b) = -StrCmp(b, a)
  <2>. HIDE DEF a, b, t, o
  <2>2. Holds(a, t) /\ Holds(b, o)
    BY <1>1
  <2>. QED BY <2>2, CompareFacts
<1>5. EqualTo(s, r) <=> t = o
  BY <1>1, <1>2, <1>3, <1>4 DEF EqualTo
<1>6. (CompareStrings(s, r) = 0 <=> t = o) /\ CompareStrings(s, r) = -CompareStrings(r, s)
  <2>1. CASE str[s].value = str[r].value
    <3>1. CompareStrings(s, r) = 0 /\ CompareStrings(r, s) = 0
      BY <2>1 DEF CompareStrings
    <3>2. CompareStrings(s, r) = -CompareStrings(r, s)
      <4>1. /\ CompareStrings(s, r) \in Int /\ CompareStrings(s, r) <= 0 /\ 0 <= CompareStrings(s, r)
            /\ CompareStrings(r, s) \in Int /\ CompareStrings(r, s) <= 0 /\ 0 <= CompareStrings(r, s)
        BY <3>1
      <4>. QED BY <4>1, BothZero
    <3>. QED BY <1>2, <2>1, <3>1, <3>2
  <2>2. CASE str[s].value # str[r].value
    BY <1>4, <2>2 DEF CompareStrings
  <2>. QED BY <2>1, <2>2
<1>7. ASSUME NEW c \in {"x", White} PROVE CountOccurrences(s, c) = Cardinality({i \in DOMAIN t : t[i] = c})
  <2>1. DOMAIN t = 1 .. Len(t)
    BY <1>1, LenProperties
  <2>2. CASE str[s].value = Nothing
    <3>1. {i \in DOMAIN t : t[i] = c} = {}
      BY <1>1, <2>2
    <3>. QED BY <2>2, <3>1, FS_EmptySet DEF CountOccurrences
  <2>3. CASE str[s].value # Nothing
    <3>1. {i \in 1 .. str[s].length : a[i] = c} = {i \in DOMAIN t : t[i] = c}
      BY <1>1, <2>1 DEF Holds
    <3>. QED BY <2>3, <3>1 DEF CountOccurrences
  <2>. QED BY <2>2, <2>3
<1>8. HasPrefix(s, r) <=> Leading(t, Len(o)) = o
  <2>1. Len(o) = 0 => Leading(t, Len(o)) = o
    <3>1. ASSUME Len(o) = 0 PROVE Leading(t, 0) = <<>> /\ o = <<>>
      <4>1. ~(0 > Len(t)) /\ SubSeq(t, 1, 0) = <<>>
        BY <1>1, SubSeqEmpty
      <4>. QED BY <1>1, <3>1, <4>1, EmptySeq DEF Leading
    <3>. QED BY <3>1
  <2>2. /\ SameFirst(a, b, Len(o)) <=> Leading(t, Len(o)) = o
        /\ Leading(t, Len(o)) = o => Len(o) <= Len(t)
    BY <1>1, SameFirstFacts
  <2>. QED BY <1>1, <2>1, <2>2 DEF HasPrefix
<1>9. ASSUME NEW at \in 0 .. Len(t)
      PROVE  /\ Len(from(at)) = Len(t) - at /\ from(at) \in Seq(Alphabet)
             /\ SameFirst(Behind(a, at), b, Len(o)) <=> Leading(from(at), Len(o)) = o
             /\ Leading(from(at), Len(o)) = o => Len(o) <= Len(from(at))
  <2>1. Holds(Behind(a, at), from(at)) /\ Len(from(at)) = Len(t) - at
    BY <1>1, BehindFacts
  <2>. DEFINE m == Behind(a, at)
              f == from(at)
  <2>. HIDE DEF m, f, b, o
  <2>2. Holds(m, f) /\ Holds(b, o) /\ Len(f) = Len(t) - at
    BY <1>1, <2>1 DEF m, f
  <2>3. /\ SameFirst(m, b, Len(o)) <=> Leading(f, Len(o)) = o
        /\ Leading(f, Len(o)) = o => Len(o) <= Len(f)
    BY <2>2, SameFirstFacts
  <2>. QED BY <2>2, <2>3 DEF Holds, m, f
<1>10. HasSuffix(s, r) <=> Len(o) <= Len(t) /\ from(Len(t) - Len(o)) = o
  <2>. HIDE DEF t, o, a, b
  <2>1. CASE ~(Len(o) <= Len(t))
    BY <1>1, <2>1 DEF HasSuffix
  <2>2. CASE Len(o) <= Len(t)
    <3>. DEFINE f == from(Len(t) - Len(o))
    <3>1. Len(t) - Len(o) \in 0 .. Len(t) /\ Len(t) - (Len(t) - Len(o)) = Len(o)
      BY <1>1, <2>2
    <3>2. /\ Len(f) = Len(o) /\ f \in Seq(Alphabet)
          /\ SameFirst(Behind(a, Len(t) - Len(o)), b, Len(o)) <=> Leading(f, Len(o)) = o
      BY <1>9, <3>1
    <3>3. Leading(f, Len(o)) = f
      <4>. HIDE DEF f
      <4>1. ~(Len(o) > Len(f)) /\ SubSeq(f, 1, Len(f)) = f
        BY <1>1, <3>2, SubSeqFull
      <4>. QED BY <3>2, <4>1 DEF Leading
    <3>4. Len(o) = 0 => f = o
      BY <1>1, <3>2, EmptySeq
    <3>5. HasSuffix(s, r) <=> \/ Len(o) = 0
                              \/ Len(o) <= Len(t) /\ SameFirst(Behind(a, Len(t) - Len(o)), b, Len(o))
      BY <1>1 DEF HasSuffix, a, b
    <3>. HIDE DEF f
    <3>. QED BY <2>2, <3>2, <3>3, <3>4, <3>5 DEF f
  <2>. QED BY <2>1, <2>2
<1>11. ContainsString(s, r) <=> \E at \in 0 .. Len(t) : Leading(from(at), Len(o)) = o
  <2>1. ContainsString(s, r) <=>
          \/ Len(o) = 0
          \/ /\ Len(o) <= Len(t)
             /\ \E at \in 0 .. Len(t) : SameFirst(Behind(a, at), b, Len(o))
    BY <1>1 DEF ContainsString
  <2>2. ASSUME Len(o) = 0 PROVE \E at \in 0 .. Len(t) : Leading(from(at), Len(o)) = o
    <3>1. 0 \in 0 .. Len(t) /\ o = <<>>
      BY <1>1, <2>2, EmptySeq
    <3>2. Len(from(0)) \in Nat
      BY <1>9, <3>1, LenProperties
    <3>3. ~(0 > Len(from(0))) /\ SubSeq(from(0), 1, 0) = <<>>
      BY <3>2, SubSeqEmpty
    <3>4. Leading(from(0), Len(o)) = o
      BY <2>2, <3>1, <3>3 DEF Leading
    <3>. QED BY <3>1, <3>4
  <2>3. ASSUME NEW at \in 0 .. Len(t), Leading(from(at), Len(o)) = o PROVE Len(o) <= Len(t)
    <3>. HIDE DEF t, o
    <3>1. Len(o) <= Len(t) - at
      BY <1>9, <2>3
    <3>. QED BY <1>1, <3>1
  <2>. HIDE DEF t, o, a, b, from
  <2>. QED BY <1>9, <2>1, <2>2, <2>3
<1>. QED BY <1>5, <1>6, <1>7, <1>8, <1>10, <1>11

(* Whoever owns the memory, every string reads as the text that the calls  *)
(* built, as long as nobody changes or releases a string that others refer *)
(* to.                                                                     *)
THEOREM StringsInvariant ==
  ASSUME Careful
  PROVE  StringsSpec => []StringsInv
<1>1. StringsInit => StringsInv
  BY StringsStart
<1>2. StringsInv /\ [StringsStep]_strVars => StringsInv'
  BY StringsStepKeeps
<1>. QED BY <1>1, <1>2, PTL DEF StringsSpec

(* Texts and bytes are kept, and nothing is written past the end; what two *)
(* strings answer about each other is what their texts say.                *)
THEOREM TextsSafe ==
  ASSUME Careful
  PROVE  StringsSpec => [](TextKept /\ BytesKept /\ NoOverrun /\ AnswersByText)
<1>1. StringsSpec => []StringsInv
  BY StringsInvariant
<1>2. StringsInv => TextKept /\ BytesKept /\ NoOverrun /\ AnswersByText
  BY StringsInvGives, StringsAnswer
<1>. QED BY <1>1, <1>2, PTL

-----------------------------------------------------------------------------
(* The memory a text is put into.                                          *)
SprintCells == Chars \cup {End, Unset}
Sprints == [size : Nat, pos : Nat, cells : [0 .. Room -> SprintCells]]

(* A character is put where there is room for it, and counted.             *)
LEMMA PutchFacts ==
  ASSUME NEW st \in Sprints, NEW ch \in SprintCells
  PROVE  /\ Putch(st, ch) \in Sprints /\ Putch(st, ch).size = st.size /\ Putch(st, ch).pos = st.pos + 1
         /\ \A i \in 0 .. Room : Putch(st, ch).cells[i] = IF i = st.pos /\ i < st.size - 1 THEN ch ELSE st.cells[i]
<1>. DEFINE in == st.size > 0 /\ st.pos < st.size - 1
            c == [st.cells EXCEPT ![st.pos] = IF in THEN ch ELSE @]
<1>1. /\ Putch(st, ch) = [size |-> Putch(st, ch).size, pos |-> Putch(st, ch).pos, cells |-> Putch(st, ch).cells]
      /\ Putch(st, ch).size = st.size /\ Putch(st, ch).pos = st.pos + 1 /\ Putch(st, ch).cells = c
  <2>1. st = [size |-> st.size, pos |-> st.pos, cells |-> st.cells]
    BY DEF Sprints
  <2>2. Putch(st, ch).size = st.size /\ Putch(st, ch).pos = st.pos + 1 /\ DOMAIN Putch(st, ch) = {"size", "pos", "cells"}
    BY <2>1 DEF Putch
  <2>3. Putch(st, ch).cells = c
    BY <2>1 DEF Putch
  <2>4. Putch(st, ch) = [x \in {"size", "pos", "cells"} |-> Putch(st, ch)[x]]
    BY <2>1 DEF Putch
  <2>. QED BY <2>2, <2>3, <2>4
<1>2. /\ c \in [0 .. Room -> SprintCells]
      /\ \A i \in 0 .. Room : c[i] = IF i = st.pos /\ in THEN ch ELSE st.cells[i]
  BY DEF Sprints
<1>3. in <=> st.pos < st.size - 1
  BY DEF Sprints
<1>. HIDE DEF c, in
<1>. QED BY <1>1, <1>2, <1>3 DEF Sprints

(* After k letters of the text were put.                                   *)
PutUpTo(st, word, k, to) ==
  /\ to \in Sprints /\ to.size = st.size /\ to.pos = st.pos + k
  /\ \A i \in 0 .. Room :
       to.cells[i] = IF st.pos <= i /\ i < st.pos + k /\ i < st.size - 1 THEN word[i - st.pos + 1] ELSE st.cells[i]

(* All characters of a text are put one after the other.                   *)
LEMMA PutAllFacts ==
  ASSUME NEW st \in Sprints, NEW word \in Seq(Chars)
  PROVE  PutUpTo(st, word, Len(word), PutAll(st, word))
<1>. DEFINE n == Len(word)
            Is(h) == h = [m \in 0 .. n |-> IF m = 0 THEN st ELSE Putch(h[m - 1], word[m])]
            after == CHOOSE h : Is(h)
<1>1. n \in Nat /\ \A i \in 1 .. n : word[i] \in SprintCells
  BY LenProperties, ElementOfSeq DEF SprintCells
<1>2. PutAll(st, word) = after[n]
  BY DEF PutAll
<1>. HIDE DEF n
<1>3. Is(after)
  <2>. DEFINE g == [k \in 1 .. n |-> [s \in Sprints |-> Putch(s, word[k])]]
  <2>1. g \in [1 .. n -> [Sprints -> Sprints]] /\ \A k \in 1 .. n : \A s \in Sprints : g[k][s] = Putch(s, word[k])
    BY <1>1, PutchFacts
  <2>. HIDE DEF g
  <2>2. PICK h : Follows(n, Sprints, st, g, h)
    BY <1>1, <2>1, Recursion
  <2>3. h \in [0 .. n -> Sprints] /\ h[0] = st /\ \A k \in 0 .. n - 1 : h[k + 1] = g[k + 1][h[k]]
    BY <2>2 DEF Follows
  <2>4. ASSUME NEW m \in 0 .. n, m # 0 PROVE h[m] = Putch(h[m - 1], word[m])
    <3>1. m - 1 \in 0 .. n - 1 /\ (m - 1) + 1 = m /\ m \in 1 .. n /\ m - 1 \in 0 .. n
      BY <1>1, <2>4
    <3>. QED BY <2>1, <2>3, <3>1
  <2>5. Is(h)
    BY <2>3, <2>4
  <2>. HIDE DEF Is
  <2>. QED BY <2>5
<1>4. DOMAIN after = 0 .. n /\ after[0] = st /\ \A m \in 0 .. n : m # 0 => after[m] = Putch(after[m - 1], word[m])
  <2>1. 0 \in 0 .. n
    BY <1>1
  <2>. HIDE DEF after
  <2>. QED BY <1>3, <2>1
<1>. HIDE DEF after, Is
<1>. DEFINE S == {k \in 0 .. n : PutUpTo(st, word, k, after[k])}
<1>5. 0 \in S
  BY <1>1, <1>4 DEF PutUpTo, Sprints
<1>6. ASSUME NEW k \in 0 .. n - 1, k \in S PROVE k + 1 \in S
  <2>1. PutUpTo(st, word, k, after[k])
    BY <1>6
  <2>2. k \in Nat /\ k + 1 \in 0 .. n /\ k + 1 # 0 /\ (k + 1) - 1 = k /\ k + 1 \in 1 .. n
    BY <1>1
  <2>3. after[k + 1] = Putch(after[k], word[k + 1]) /\ word[k + 1] \in SprintCells
    BY <1>1, <1>4, <2>2
  <2>. DEFINE a == after[k]
              b == after[k + 1]
  <2>4. a \in Sprints /\ a.size = st.size /\ a.pos = st.pos + k
    BY <2>1 DEF PutUpTo
  <2>11. b = Putch(a, word[k + 1]) /\ word[k + 1] \in SprintCells
    BY <2>3
  <2>12. \A i \in 0 .. Room : a.cells[i] = IF st.pos <= i /\ i < st.pos + k /\ i < st.size - 1
                                         THEN word[i - st.pos + 1] ELSE st.cells[i]
    BY <2>1 DEF PutUpTo
  <2>. HIDE DEF a, b
  <2>5. /\ b \in Sprints /\ b.size = a.size /\ b.pos = a.pos + 1
        /\ \A i \in 0 .. Room : b.cells[i] = IF i = a.pos /\ i < a.size - 1 THEN word[k + 1] ELSE a.cells[i]
    BY <2>4, <2>11, PutchFacts
  <2>7. st.pos \in Nat /\ st.size \in Nat
    BY DEF Sprints
  <2>8. b.pos = st.pos + (k + 1) /\ b.size = st.size
    BY <2>2, <2>4, <2>5, <2>7
  <2>9. ASSUME NEW i \in 0 .. Room
        PROVE  b.cells[i] = IF st.pos <= i /\ i < st.pos + (k + 1) /\ i < st.size - 1
                            THEN word[i - st.pos + 1] ELSE st.cells[i]
    <3>1. CASE i = st.pos + k
      <4>1. i - st.pos + 1 = k + 1 /\ st.pos <= i /\ i < st.pos + (k + 1) /\ ~(i < st.pos + k)
        BY <2>2, <2>7, <3>1
      <4>. QED BY <2>4, <2>5, <2>12, <3>1, <4>1
    <3>2. CASE i # st.pos + k
      <4>1. i < st.pos + (k + 1) <=> i < st.pos + k
        BY <2>2, <2>7, <3>2
      <4>. QED BY <2>4, <2>5, <2>12, <3>2, <4>1
    <3>. QED BY <3>1, <3>2
  <2>10. PutUpTo(st, word, k + 1, b)
    BY <2>5, <2>8, <2>9 DEF PutUpTo
  <2>. QED BY <2>2, <2>10 DEF b
<1>7. n \in S
  <2>. HIDE DEF S
  <2>1. 0 .. n \subseteq S
    BY <1>1, <1>5, <1>6, Climb
  <2>. QED BY <1>1, <2>1
<1>. QED BY <1>2, <1>7 DEF n

Alphabets == {Letters, Capitals}

(* The digits by their places.                                             *)
LEMMA LetterNames ==
  /\ DOMAIN Letters = 1 .. 16 /\ DOMAIN Capitals = 1 .. 16
  /\ Letters[1] = "0" /\ Letters[2] = "1" /\ Letters[3] = "2" /\ Letters[4] = "3"
  /\ Letters[5] = "4" /\ Letters[6] = "5" /\ Letters[7] = "6" /\ Letters[8] = "7"
  /\ Letters[9] = "8" /\ Letters[10] = "9" /\ Letters[11] = "a" /\ Letters[12] = "b"
  /\ Letters[13] = "c" /\ Letters[14] = "d" /\ Letters[15] = "e" /\ Letters[16] = "f"
  /\ Capitals[1] = "0" /\ Capitals[2] = "1" /\ Capitals[3] = "2" /\ Capitals[4] = "3"
  /\ Capitals[5] = "4" /\ Capitals[6] = "5" /\ Capitals[7] = "6" /\ Capitals[8] = "7"
  /\ Capitals[9] = "8" /\ Capitals[10] = "9" /\ Capitals[11] = "A" /\ Capitals[12] = "B"
  /\ Capitals[13] = "C" /\ Capitals[14] = "D" /\ Capitals[15] = "E" /\ Capitals[16] = "F"
  BY DEF Letters, Capitals

(* No digit is a blank or a sign.                                          *)
LEMMA LetterFacts ==
  ASSUME NEW a \in Alphabets, NEW d \in 0 .. 15
  PROVE  a[d + 1] \in Chars /\ a[d + 1] \notin {" ", "-", "+"}
<1>1. d + 1 \in 1 .. 16
  OBVIOUS
<1>. DEFINE k == d + 1
<1>2. a[k] \in Chars \ {" ", "-", "+"}
  <2>. HIDE DEF k
  <2>1. k = 1 \/ k = 2 \/ k = 3 \/ k = 4 \/ k = 5 \/ k = 6 \/ k = 7 \/ k = 8 \/ k = 9 \/ k = 10 \/ k = 11 \/ k = 12
         \/ k = 13 \/ k = 14 \/ k = 15 \/ k = 16
    BY <1>1 DEF k
  <2>2. a[k] \in Digit
    BY <2>1, LetterNames DEF Alphabets, Digit
  <2>3. Digit \subseteq Chars \ {" ", "-", "+"}
    BY DEF Digit, Chars
  <2>. QED BY <2>2, <2>3
<1>. QED BY <1>2

(* Digits of different value differ, whatever their case.                  *)
LEMMA LettersDiffer ==
  ASSUME NEW a \in Alphabets, NEW k \in 1 .. 16, NEW l \in 1 .. 16, a[k] \in {Letters[l], Capitals[l]}
  PROVE  k = l
<1>1. k = 1 \/ k = 2 \/ k = 3 \/ k = 4 \/ k = 5 \/ k = 6 \/ k = 7 \/ k = 8 \/ k = 9 \/ k = 10 \/ k = 11 \/ k = 12
         \/ k = 13 \/ k = 14 \/ k = 15 \/ k = 16
  OBVIOUS
<1>2. l = 1 \/ l = 2 \/ l = 3 \/ l = 4 \/ l = 5 \/ l = 6 \/ l = 7 \/ l = 8 \/ l = 9 \/ l = 10 \/ l = 11 \/ l = 12
         \/ l = 13 \/ l = 14 \/ l = 15 \/ l = 16
  OBVIOUS
<1>. QED BY <1>1, <1>2, LetterNames DEF Alphabets

Bases == {2, 8, 10, 16}

(* The digits of a number, and the numbers the first of them stand for.    *)
Reading(s, base, a, m) ==
  /\ s \in Seq(Chars) /\ Len(s) >= 1
  /\ \E e \in [1 .. Len(s) -> 0 .. base - 1], v \in [0 .. Len(s) -> Nat] :
       /\ v[0] = 0 /\ v[Len(s)] = m
       /\ \A i \in 1 .. Len(s) : s[i] = a[e[i] + 1] /\ v[i] = v[i - 1] * base + e[i]

(* One digit reads as its value.                                           *)
LEMMA OneDigit ==
  ASSUME NEW base \in Bases, NEW a \in Alphabets, NEW m \in 0 .. base - 1
  PROVE  Reading(<<a[m + 1]>>, base, a, m)
<1>. DEFINE s == <<a[m + 1]>>
            e == [i \in 1 .. 1 |-> m]
            v == [i \in 0 .. 1 |-> IF i = 0 THEN 0 ELSE m]
<1>1. a[m + 1] \in Chars /\ m \in Nat
  <2>1. m \in 0 .. 15 /\ m \in Nat
    BY DEF Bases
  <2>2. a[m + 1] \in Chars
    BY ONLY <2>1, a \in Alphabets, LetterFacts
  <2>. QED BY <2>1, <2>2
<1>2. s \in Seq(Chars) /\ Len(s) = 1 /\ s[1] = a[m + 1]
  BY <1>1
<1>3. e \in [1 .. 1 -> 0 .. base - 1] /\ e[1] = m
  OBVIOUS
<1>4. v \in [0 .. 1 -> Nat] /\ v[0] = 0 /\ v[1] = m
  BY <1>1
<1>. HIDE DEF s, e, v
<1>5. \A i \in 1 .. 1 : s[i] = a[e[i] + 1] /\ v[i] = v[i - 1] * base + e[i]
  <2>1. v[0] * base + e[1] = m
    BY <1>1, <1>3, <1>4 DEF Bases
  <2>2. \A i \in 1 .. 1 : i = 1 /\ i - 1 = 0
    OBVIOUS
  <2>. QED BY <1>2, <1>3, <1>4, <2>1, <2>2
<1>6. Reading(s, base, a, m)
  BY <1>2, <1>3, <1>4, <1>5 DEF Reading
<1>. QED BY <1>6 DEF s

(* A digit after a number: the base times the number and the digit.        *)
LEMMA MoreDigits ==
  ASSUME NEW base \in Bases, NEW a \in Alphabets, NEW s, NEW q, Reading(s, base, a, q), NEW r \in 0 .. base - 1
  PROVE  Reading(Append(s, a[r + 1]), base, a, q * base + r)
<1>. DEFINE n == Len(s)
            t == Append(s, a[r + 1])
            m == q * base + r
<1>1. PICK e \in [1 .. n -> 0 .. base - 1], v \in [0 .. n -> Nat] :
        /\ v[0] = 0 /\ v[n] = q
        /\ \A i \in 1 .. n : s[i] = a[e[i] + 1] /\ v[i] = v[i - 1] * base + e[i]
  BY DEF Reading
<1>2. s \in Seq(Chars) /\ n \in Nat /\ n >= 1
  BY LenProperties DEF Reading
<1>3. a[r + 1] \in Chars /\ r \in Nat
  <2>1. r \in 0 .. 15 /\ r \in Nat
    BY DEF Bases
  <2>2. a[r + 1] \in Chars
    BY ONLY <2>1, a \in Alphabets, LetterFacts
  <2>. QED BY <2>1, <2>2
<1>4. t \in Seq(Chars) /\ Len(t) = n + 1 /\ (\A i \in 1 .. n : t[i] = s[i]) /\ t[n + 1] = a[r + 1]
  BY <1>2, <1>3, AppendProperties
<1>. HIDE DEF n, t
<1>5. q \in Nat /\ m \in Nat
  <2>1. q \in Nat
    BY <1>1, <1>2
  <2>2. q * 2 + r \in Nat /\ q * 8 + r \in Nat /\ q * 10 + r \in Nat /\ q * 16 + r \in Nat
    BY <1>3, <2>1
  <2>3. m = q * 2 + r \/ m = q * 8 + r \/ m = q * 10 + r \/ m = q * 16 + r
    BY DEF Bases
  <2>. HIDE DEF m
  <2>. QED BY <2>1, <2>2, <2>3
<1>. DEFINE f == [i \in 1 .. n + 1 |-> IF i = n + 1 THEN r ELSE e[i]]
            w == [i \in 0 .. n + 1 |-> IF i = n + 1 THEN m ELSE v[i]]
<1>6. m = q * base + r
  OBVIOUS
<1>. HIDE DEF m
<1>7. /\ f \in [1 .. n + 1 -> 0 .. base - 1] /\ f[n + 1] = r
      /\ \A i \in 1 .. n : i \in 1 .. n + 1 /\ f[i] = e[i]
  <2>1. n + 1 \in 1 .. n + 1 /\ \A i \in 1 .. n + 1 : i # n + 1 => i \in 1 .. n
    BY <1>2
  <2>2. \A i \in 1 .. n : i \in 1 .. n + 1 /\ i # n + 1
    BY <1>2
  <2>. QED BY <2>1, <2>2
<1>8. /\ w \in [0 .. n + 1 -> Nat] /\ w[n + 1] = m
      /\ \A i \in 0 .. n : i \in 0 .. n + 1 /\ w[i] = v[i]
  <2>1. n + 1 \in 0 .. n + 1 /\ \A i \in 0 .. n + 1 : i # n + 1 => i \in 0 .. n
    BY <1>2
  <2>2. \A i \in 0 .. n : i \in 0 .. n + 1 /\ i # n + 1
    BY <1>2
  <2>. QED BY <1>5, <2>1, <2>2
<1>. HIDE DEF f, w
<1>9. ASSUME NEW i \in 1 .. n + 1 PROVE t[i] = a[f[i] + 1] /\ w[i] = w[i - 1] * base + f[i]
  <2>1. CASE i = n + 1
    <3>1. i - 1 = n /\ n \in 0 .. n
      BY <1>2, <2>1
    <3>. QED BY <1>1, <1>4, <1>6, <1>7, <1>8, <2>1, <3>1
  <2>2. CASE i # n + 1
    <3>1. i \in 1 .. n /\ i \in 0 .. n /\ i - 1 \in 0 .. n
      BY <1>2, <2>2
    <3>. QED BY <1>1, <1>4, <1>7, <1>8, <3>1
  <2>. QED BY <2>1, <2>2
<1>10. w[0] = 0
  BY <1>1, <1>2, <1>8
<1>11. Len(t) >= 1
  BY <1>2, <1>4
<1>12. Reading(t, base, a, m)
  <2>1. f \in [1 .. Len(t) -> 0 .. base - 1] /\ w \in [0 .. Len(t) -> Nat] /\ w[Len(t)] = m
    BY <1>4, <1>7, <1>8
  <2>2. \A i \in 1 .. Len(t) : t[i] = a[f[i] + 1] /\ w[i] = w[i - 1] * base + f[i]
    BY <1>4, <1>9
  <2>. QED BY <1>4, <1>10, <1>11, <2>1, <2>2, Zenon DEF Reading
<1>. QED BY <1>12 DEF t, m

(* What is left of a number without its last digit is smaller.             *)
LEMMA Smaller ==
  ASSUME NEW base \in Bases, NEW m \in Nat, m >= base
  PROVE  m \div base \in 0 .. m - 1 /\ m % base \in 0 .. base - 1 /\ m = (m \div base) * base + (m % base)
<1>1. CASE base = 2
  BY <1>1
<1>2. CASE base = 8
  BY <1>2
<1>3. CASE base = 10
  BY <1>3
<1>4. CASE base = 16
  BY <1>4
<1>. QED BY <1>1, <1>2, <1>3, <1>4 DEF Bases

IsDigits(f, n, base, a) ==
  f = [m \in 0 .. n |-> IF m < base THEN <<a[m + 1]>> ELSE Append(f[m \div base], a[(m % base) + 1])]

(* The recursive definition of the digits of a number has a solution.      *)
LEMMA DigitsExist ==
  ASSUME NEW base \in Bases, NEW a \in Alphabets, NEW n \in Nat
  PROVE  \E f : IsDigits(f, n, base, a)
<1>. DEFINE S == {k \in 0 .. n : \E f : IsDigits(f, k, base, a)}
<1>1. 0 \in S
  <2>1. IsDigits([m \in 0 .. 0 |-> <<a[m + 1]>>], 0, base, a)
    BY DEF IsDigits, Bases
  <2>. QED BY <2>1
<1>2. ASSUME NEW k \in 0 .. n - 1, k \in S PROVE k + 1 \in S
  <2>1. PICK f : IsDigits(f, k, base, a)
    BY <1>2
  <2>. DEFINE last == IF k + 1 < base THEN <<a[(k + 1) + 1]>>
                      ELSE Append(f[(k + 1) \div base], a[((k + 1) % base) + 1])
              h == [m \in 0 .. k + 1 |-> IF m = k + 1 THEN last ELSE f[m]]
              body(m) == IF m < base THEN <<a[m + 1]>> ELSE Append(h[m \div base], a[(m % base) + 1])
  <2>2. k \in Nat /\ k + 1 \in 0 .. n /\ k + 1 \in Nat
    OBVIOUS
  <2>3. \A m \in 0 .. k : f[m] = IF m < base THEN <<a[m + 1]>> ELSE Append(f[m \div base], a[(m % base) + 1])
    BY <2>1 DEF IsDigits
  <2>4. h[k + 1] = last /\ \A m \in 0 .. k : h[m] = f[m]
    <3>. HIDE DEF last
    <3>. QED BY <2>2
  <2>5. ASSUME NEW m \in 0 .. k + 1, m >= base PROVE m \div base \in 0 .. k
    <3>1. m \in Nat
      BY <2>2
    <3>2. m \div base \in 0 .. m - 1
      BY <2>5, <3>1, Smaller
    <3>. QED BY <2>2, <3>1, <3>2
  <2>. HIDE DEF h
  <2>6. ASSUME NEW m \in 0 .. k + 1 PROVE h[m] = body(m)
    <3>1. CASE m < base
      <4>1. CASE m = k + 1
        BY <2>4, <3>1, <4>1
      <4>2. CASE m # k + 1
        <5>1. m \in 0 .. k
          BY <2>2, <4>2
        <5>. QED BY <2>3, <2>4, <3>1, <5>1
      <4>. QED BY <4>1, <4>2
    <3>2. CASE ~(m < base)
      <4>1. m \div base \in 0 .. k
        <5>1. m >= base
          BY <3>2 DEF Bases
        <5>. QED BY <2>5, <5>1
      <4>2. h[m \div base] = f[m \div base]
        BY <2>4, <4>1
      <4>3. CASE m = k + 1
        BY <2>4, <3>2, <4>2, <4>3
      <4>4. CASE m # k + 1
        <5>1. m \in 0 .. k
          BY <2>2, <4>4
        <5>. QED BY <2>3, <2>4, <3>2, <4>2, <5>1
      <4>. QED BY <4>3, <4>4
    <3>. QED BY <3>1, <3>2
  <2>7. h = [m \in 0 .. k + 1 |-> h[m]]
    BY DEF h
  <2>8. h = [m \in 0 .. k + 1 |-> body(m)]
    <3>. HIDE DEF body
    <3>. QED BY <2>6, <2>7
  <2>9. IsDigits(h, k + 1, base, a)
    BY <2>8 DEF IsDigits
  <2>. QED BY <2>2, <2>9
<1>3. 0 .. n \subseteq S
  <2>. HIDE DEF S
  <2>. QED BY <1>1, <1>2, Climb
<1>. QED BY <1>3

(* The digits of a number read as the number, in every base.               *)
LEMMA DigitsRead ==
  ASSUME NEW base \in Bases, NEW a \in Alphabets, NEW n \in Nat
  PROVE  Reading(Digits(n, base, a), base, a, n)
<1>. DEFINE of == CHOOSE f : IsDigits(f, n, base, a)
<1>1. Digits(n, base, a) = of[n]
  BY DEF Digits, IsDigits
<1>2. IsDigits(of, n, base, a)
  BY DigitsExist
<1>. HIDE DEF of
<1>3. \A m \in 0 .. n : of[m] = IF m < base THEN <<a[m + 1]>> ELSE Append(of[m \div base], a[(m % base) + 1])
  BY <1>2 DEF IsDigits
<1>. DEFINE S == {k \in 0 .. n : \A m \in 0 .. k : Reading(of[m], base, a, m)}
<1>4. ASSUME NEW m \in 0 .. n, \A k \in 0 .. m - 1 : Reading(of[k], base, a, k) PROVE Reading(of[m], base, a, m)
  <2>1. CASE m < base
    <3>1. m \in 0 .. base - 1
      BY <2>1 DEF Bases
    <3>. QED BY <1>3, <2>1, <3>1, OneDigit
  <2>2. CASE ~(m < base)
    <3>1. m \in Nat /\ m >= base
      BY <2>2 DEF Bases
    <3>2. m \div base \in 0 .. m - 1 /\ m % base \in 0 .. base - 1 /\ m = (m \div base) * base + (m % base)
      BY <3>1, Smaller
    <3>. DEFINE q == m \div base
                r == m % base
    <3>3. of[m] = Append(of[q], a[r + 1])
      BY <1>3, <2>2
    <3>. HIDE DEF q, r
    <3>4. q \in 0 .. m - 1 /\ r \in 0 .. base - 1 /\ m = q * base + r
      BY <3>2 DEF q, r
    <3>5. Reading(of[q], base, a, q)
      BY <1>4, <3>4
    <3>. QED BY <3>3, <3>4, <3>5, MoreDigits
  <2>. QED BY <2>1, <2>2
<1>. HIDE DEF IsDigits
<1>5. 0 \in S
  <2>1. 0 \in 0 .. n /\ (\A k \in 0 .. 0 - 1 : Reading(of[k], base, a, k)) /\ \A m \in 0 .. 0 : m = 0
    OBVIOUS
  <2>2. Reading(of[0], base, a, 0)
    BY <1>4, <2>1
  <2>. QED BY <2>1, <2>2
<1>6. ASSUME NEW k \in 0 .. n - 1, k \in S PROVE k + 1 \in S
  <2>1. k + 1 \in 0 .. n /\ (k + 1) - 1 = k /\ \A m \in 0 .. k + 1 : m = k + 1 \/ m \in 0 .. k
    OBVIOUS
  <2>2. \A m \in 0 .. k : Reading(of[m], base, a, m)
    BY <1>6
  <2>3. Reading(of[k + 1], base, a, k + 1)
    BY <1>4, <2>1, <2>2
  <2>. QED BY <2>1, <2>2, <2>3
<1>7. 0 .. n \subseteq S
  <2>. HIDE DEF S
  <2>. QED BY <1>5, <1>6, Climb
<1>8. n \in 0 .. n
  OBVIOUS
<1>. QED BY <1>1, <1>7, <1>8

DigitOf(c) == CHOOSE d \in 0 .. 15 : c \in {Letters[d + 1], Capitals[d + 1]}
FirstInk(word) == LET notBlank == {i \in DOMAIN word : word[i] # " "} IN CHOOSE i \in notBlank : \A j \in notBlank : i <= j
LastInk(word) == LET notBlank == {i \in DOMAIN word : word[i] # " "} IN CHOOSE i \in notBlank : \A j \in notBlank : j <= i
IsReadUp(u, word, base, from, last) ==
  u = [i \in from - 1 .. last |-> IF i = from - 1 THEN 0 ELSE u[i - 1] * base + DigitOf(word[i])]
ReadUp(word, base, from, last) == CHOOSE u : IsReadUp(u, word, base, from, last)
FirstDigit(word, item) ==
  FirstInk(word) + (IF word[FirstInk(word)] \in {"-", "+"} THEN 1 ELSE 0)
                + (IF "prefix" \notin item.flags /\ item.conv # "p" THEN 0
                   ELSE IF Base(item) \in {2, 16} THEN 2 ELSE IF Base(item) = 8 THEN 1 ELSE 0)

(* Reading a number back, with the parts of the definition named.          *)
LEMMA ReadsIs ==
  ASSUME NEW word, NEW item
  PROVE  Reads(word, item) <=>
     /\ FirstInk(word) <= LastInk(word) /\ FirstDigit(word, item) <= LastInk(word)
     /\ \A i \in FirstDigit(word, item) .. LastInk(word) :
          \E d \in 0 .. Base(item) - 1 : word[i] \in {Letters[d + 1], Capitals[d + 1]}
     /\ (IF word[FirstInk(word)] \in {"-", "+"} /\ word[FirstInk(word)] = "-"
         THEN -ReadUp(word, Base(item), FirstDigit(word, item), LastInk(word))[LastInk(word)]
         ELSE ReadUp(word, Base(item), FirstDigit(word, item), LastInk(word))[LastInk(word)]) = item.arg
     /\ Len(word) >= item.width
  BY Zenon DEF Reads, FirstInk, LastInk, FirstDigit, ReadUp, IsReadUp, DigitOf

(* The value of a digit.                                                   *)
LEMMA DigitOfLetter ==
  ASSUME NEW a \in Alphabets, NEW d \in 0 .. 15
  PROVE  DigitOf(a[d + 1]) = d /\ a[d + 1] \in {Letters[d + 1], Capitals[d + 1]}
<1>1. a[d + 1] \in {Letters[d + 1], Capitals[d + 1]}
  BY DEF Alphabets
<1>2. ASSUME NEW e \in 0 .. 15, a[d + 1] \in {Letters[e + 1], Capitals[e + 1]} PROVE e = d
  <2>1. d + 1 \in 1 .. 16 /\ e + 1 \in 1 .. 16
    OBVIOUS
  <2>2. d + 1 = e + 1
    BY ONLY <1>2, <2>1, a \in Alphabets, LettersDiffer
  <2>. QED BY <2>2
<1>. DEFINE x == DigitOf(a[d + 1])
<1>3. x \in 0 .. 15 /\ a[d + 1] \in {Letters[x + 1], Capitals[x + 1]}
  BY <1>1, Zenon DEF DigitOf
<1>. HIDE DEF x
<1>4. x = d
  BY <1>2, <1>3
<1>. QED BY <1>1, <1>4 DEF x

(* So many of one character, none if the number is negative.               *)
LEMMA CopiesFacts ==
  ASSUME NEW n \in Int, NEW c \in Chars
  PROVE  /\ Copies(n, c) \in Seq(Chars) /\ Len(Copies(n, c)) = IF n > 0 THEN n ELSE 0
         /\ \A i \in 1 .. Len(Copies(n, c)) : Copies(n, c)[i] = c
<1>. DEFINE k == IF n > 0 THEN n ELSE 0
            f == Copies(n, c)
<1>1. k \in Nat
  OBVIOUS
<1>2. f = [i \in 1 .. k |-> c]
  BY DEF Copies
<1>. HIDE DEF k
<1>3. DOMAIN f = 1 .. k /\ (\A i \in 1 .. k : f[i] = c) /\ f = [i \in 1 .. k |-> f[i]]
  BY <1>2
<1>. HIDE DEF f
<1>4. f \in Seq(Chars) /\ Len(f) = k
  BY <1>1, <1>3, MadeSeq
<1>. QED BY <1>3, <1>4 DEF f, k

(* Zeros before the digits do not change the number.                       *)
LEMMA PaddedReading ==
  ASSUME NEW base \in Bases, NEW a \in Alphabets, NEW s, NEW m, Reading(s, base, a, m),
         NEW zeros \in Seq(Chars), \A i \in 1 .. Len(zeros) : zeros[i] = "0"
  PROVE  Reading(zeros \o s, base, a, m)
<1>. DEFINE n == Len(s)
            z == Len(zeros)
            t == zeros \o s
<1>1. PICK e \in [1 .. n -> 0 .. base - 1], v \in [0 .. n -> Nat] :
        /\ v[0] = 0 /\ v[n] = m
        /\ \A i \in 1 .. n : s[i] = a[e[i] + 1] /\ v[i] = v[i - 1] * base + e[i]
  BY DEF Reading
<1>2. s \in Seq(Chars) /\ n \in Nat /\ n >= 1 /\ z \in Nat
  BY LenProperties DEF Reading
<1>3. /\ t \in Seq(Chars) /\ Len(t) = z + n
      /\ \A i \in 1 .. z : t[i] = "0"
      /\ \A i \in z + 1 .. z + n : t[i] = s[i - z]
  BY <1>2, JoinFacts
<1>4. a[1] = "0"
  BY LetterNames DEF Alphabets
<1>. HIDE DEF n, z, t
<1>. DEFINE f == [i \in 1 .. z + n |-> IF i <= z THEN 0 ELSE e[i - z]]
            w == [i \in 0 .. z + n |-> IF i <= z THEN 0 ELSE v[i - z]]
<1>5. /\ f \in [1 .. z + n -> 0 .. base - 1]
      /\ \A i \in 1 .. z + n : f[i] = IF i <= z THEN 0 ELSE e[i - z]
  <2>1. \A i \in 1 .. z + n : ~(i <= z) => i - z \in 1 .. n
    BY <1>2
  <2>2. 0 \in 0 .. base - 1
    BY DEF Bases
  <2>. QED BY <2>1, <2>2
<1>6. /\ w \in [0 .. z + n -> Nat]
      /\ \A i \in 0 .. z + n : w[i] = IF i <= z THEN 0 ELSE v[i - z]
  <2>1. \A i \in 0 .. z + n : ~(i <= z) => i - z \in 0 .. n
    BY <1>2
  <2>. QED BY <2>1
<1>. HIDE DEF f, w
<1>7. ASSUME NEW i \in 1 .. z + n PROVE t[i] = a[f[i] + 1] /\ w[i] = w[i - 1] * base + f[i]
  <2>1. i \in 0 .. z + n /\ i - 1 \in 0 .. z + n
    BY <1>2
  <2>2. CASE i <= z
    <3>1. i \in 1 .. z /\ i - 1 <= z
      BY <1>2, <2>2
    <3>2. w[i] = 0 /\ w[i - 1] = 0 /\ f[i] = 0
      BY <1>5, <1>6, <2>1, <2>2, <3>1
    <3>3. 0 = 0 * base + 0
      BY DEF Bases
    <3>. QED BY <1>3, <1>4, <3>1, <3>2, <3>3
  <2>3. CASE ~(i <= z)
    <3>1. i \in z + 1 .. z + n /\ i - z \in 1 .. n
      BY <1>2, <2>3
    <3>2. t[i] = a[e[i - z] + 1] /\ v[i - z] = v[(i - z) - 1] * base + e[i - z]
      BY <1>1, <1>3, <3>1
    <3>3. f[i] = e[i - z] /\ w[i] = v[i - z]
      BY <1>5, <1>6, <2>1, <2>3
    <3>4. w[i - 1] = v[(i - z) - 1]
      <4>1. CASE i - 1 <= z
        <5>1. (i - z) - 1 = 0
          BY <1>2, <2>3, <4>1
        <5>. QED BY <1>1, <1>6, <2>1, <4>1, <5>1
      <4>2. CASE ~(i - 1 <= z)
        <5>1. (i - 1) - z = (i - z) - 1
          BY <1>2
        <5>. QED BY <1>6, <2>1, <4>2, <5>1
      <4>. QED BY <4>1, <4>2
    <3>. QED BY <3>2, <3>3, <3>4
  <2>. QED BY <2>2, <2>3
<1>8. w[0] = 0 /\ w[z + n] = m
  <2>1. 0 \in 0 .. z + n /\ 0 <= z /\ z + n \in 0 .. z + n /\ ~(z + n <= z) /\ (z + n) - z = n
    BY <1>2
  <2>. QED BY <1>1, <1>6, <2>1
<1>9. Reading(t, base, a, m)
  <2>1. f \in [1 .. Len(t) -> 0 .. base - 1] /\ w \in [0 .. Len(t) -> Nat] /\ w[Len(t)] = m
    BY <1>3, <1>5, <1>6, <1>8
  <2>2. \A i \in 1 .. Len(t) : t[i] = a[f[i] + 1] /\ w[i] = w[i - 1] * base + f[i]
    BY <1>3, <1>7
  <2>3. Len(t) >= 1
    BY <1>2, <1>3
  <2>. QED BY <1>3, <1>8, <2>1, <2>2, <2>3, Zenon DEF Reading
<1>. QED BY <1>9 DEF t

(* A text of blanks, a sign, a prefix, digits and blanks.                  *)
Composed(word, l, sign, prefix, num, r) ==
  /\ word \in Seq(Chars) /\ Len(word) = l + Len(sign) + Len(prefix) + Len(num) + r
  /\ \A i \in 1 .. l : word[i] = " "
  /\ \A i \in 1 .. Len(sign) : word[l + i] = sign[i]
  /\ \A i \in 1 .. Len(prefix) : word[l + Len(sign) + i] = prefix[i]
  /\ \A i \in 1 .. Len(num) : word[l + Len(sign) + Len(prefix) + i] = num[i]
  /\ \A i \in 1 .. r : word[l + Len(sign) + Len(prefix) + Len(num) + i] = " "

Signs == {<<>>, <<"-">>, <<"+">>}
PrefixLength(item) ==
  IF "prefix" \notin item.flags /\ item.conv # "p" THEN 0
  ELSE IF Base(item) \in {2, 16} THEN 2 ELSE IF Base(item) = 8 THEN 1 ELSE 0

(* No digit of a number is a blank or a sign.                              *)
LEMMA ReadLetters ==
  ASSUME NEW base \in Bases, NEW a \in Alphabets, NEW s, NEW m, Reading(s, base, a, m)
  PROVE  \A i \in 1 .. Len(s) : s[i] \notin {" ", "-", "+"}
<1>. SUFFICES ASSUME NEW i \in 1 .. Len(s) PROVE s[i] \notin {" ", "-", "+"}
  OBVIOUS
<1>1. PICK e \in [1 .. Len(s) -> 0 .. base - 1] : s[i] = a[e[i] + 1]
  BY DEF Reading
<1>. DEFINE d == e[i]
<1>2. d \in 0 .. 15
  <2>1. d \in 0 .. base - 1
    OBVIOUS
  <2>. HIDE DEF d
  <2>. QED BY <2>1 DEF Bases
<1>. HIDE DEF d
<1>3. a[d + 1] \notin {" ", "-", "+"}
  BY ONLY <1>2, a \in Alphabets, LetterFacts
<1>. QED BY <1>1, <1>3 DEF d

(* Where what is no blank begins and ends.                                 *)
LEMMA InkFacts ==
  ASSUME NEW word, NEW n \in Nat, DOMAIN word = 1 .. n, NEW i \in 1 .. n, NEW j \in 1 .. n,
         word[i] # " ", word[j] # " ", \A k \in 1 .. n : word[k] # " " => i <= k /\ k <= j
  PROVE  FirstInk(word) = i /\ LastInk(word) = j
<1>. DEFINE P == {k \in DOMAIN word : word[k] # " "}
            x == FirstInk(word)
            y == LastInk(word)
<1>1. i \in P /\ j \in P /\ (\A k \in P : i <= k /\ k <= j)
  BY Zenon
<1>2. P \subseteq 1 .. n
  BY Zenon
<1>. HIDE DEF P
<1>3. x \in P /\ \A k \in P : x <= k
  BY <1>1 DEF FirstInk, P
<1>4. y \in P /\ \A k \in P : k <= y
  BY <1>1 DEF LastInk, P
<1>. HIDE DEF x, y
<1>5. x <= i /\ i <= x /\ x \in 1 .. n /\ j <= y /\ y <= j /\ y \in 1 .. n
  BY <1>1, <1>2, <1>3, <1>4, Zenon
<1>6. x = i /\ y = j
  BY ONLY <1>5, n \in Nat, i \in 1 .. n, j \in 1 .. n
<1>. QED BY <1>6 DEF x, y

(* Reading digit by digit gets the number.                                 *)
LEMMA ReadUpFacts ==
  ASSUME NEW base \in Bases, NEW a \in Alphabets, NEW s, NEW m, Reading(s, base, a, m), NEW word, NEW o \in Nat,
         \A i \in 1 .. Len(s) : word[o + i] = s[i]
  PROVE  /\ ReadUp(word, base, o + 1, o + Len(s))[o + Len(s)] = m
         /\ \A i \in o + 1 .. o + Len(s) : \E d \in 0 .. base - 1 : word[i] \in {Letters[d + 1], Capitals[d + 1]}
<1>. DEFINE n == Len(s)
            u == ReadUp(word, base, o + 1, o + n)
<1>1. PICK e \in [1 .. n -> 0 .. base - 1], v \in [0 .. n -> Nat] :
        /\ v[0] = 0 /\ v[n] = m
        /\ \A i \in 1 .. n : s[i] = a[e[i] + 1] /\ v[i] = v[i - 1] * base + e[i]
  BY DEF Reading
<1>2. n \in Nat /\ n >= 1
  BY LenProperties DEF Reading
<1>. HIDE DEF n
<1>3. \A i \in 1 .. n : DigitOf(word[o + i]) = e[i] /\ word[o + i] \in {Letters[e[i] + 1], Capitals[e[i] + 1]}
  <2>. SUFFICES ASSUME NEW i \in 1 .. n
                PROVE  DigitOf(word[o + i]) = e[i] /\ word[o + i] \in {Letters[e[i] + 1], Capitals[e[i] + 1]}
    OBVIOUS
  <2>1. word[o + i] = a[e[i] + 1]
    BY <1>1 DEF n
  <2>. DEFINE d == e[i]
  <2>2. d \in 0 .. 15
    <3>1. d \in 0 .. base - 1
      OBVIOUS
    <3>. HIDE DEF d
    <3>. QED BY <3>1 DEF Bases
  <2>. HIDE DEF d
  <2>3. DigitOf(a[d + 1]) = d /\ a[d + 1] \in {Letters[d + 1], Capitals[d + 1]}
    BY ONLY <2>2, a \in Alphabets, DigitOfLetter
  <2>. QED BY <2>1, <2>3 DEF d
<1>4. \A i \in o + 1 .. o + n : i - o \in 1 .. n /\ o + (i - o) = i /\ (i - 1) - o = (i - o) - 1
  BY <1>2
<1>5. IsReadUp(u, word, base, o + 1, o + n)
  <2>. DEFINE w == [i \in o .. o + n |-> v[i - o]]
              body(i) == IF i = (o + 1) - 1 THEN 0 ELSE w[i - 1] * base + DigitOf(word[i])
  <2>1. DOMAIN w = o .. o + n /\ \A i \in o .. o + n : w[i] = v[i - o]
    OBVIOUS
  <2>. HIDE DEF w
  <2>2. ASSUME NEW i \in o .. o + n PROVE w[i] = body(i)
    <3>1. CASE i = o
      <4>1. i - o = 0 /\ i = (o + 1) - 1
        BY <3>1
      <4>. QED BY <1>1, <2>1, <4>1
    <3>2. CASE i # o
      <4>1. i \in o + 1 .. o + n /\ i - 1 \in o .. o + n /\ i # (o + 1) - 1
        BY <1>2, <3>2
      <4>2. w[i] = v[i - o] /\ w[i - 1] = v[(i - o) - 1] /\ i - o \in 1 .. n
        BY <1>4, <2>1, <4>1
      <4>3. DigitOf(word[i]) = e[i - o]
        BY <1>3, <1>4, <4>1
      <4>4. v[i - o] = v[(i - o) - 1] * base + e[i - o]
        BY <1>1, <4>2
      <4>. QED BY <4>1, <4>2, <4>3, <4>4
    <3>. QED BY <3>1, <3>2
  <2>3. o = (o + 1) - 1
    OBVIOUS
  <2>4. w = [i \in o .. o + n |-> w[i]]
    BY DEF w
  <2>5. w = [i \in o .. o + n |-> body(i)]
    <3>. HIDE DEF body
    <3>. QED BY <2>2, <2>4
  <2>6. IsReadUp(w, word, base, o + 1, o + n)
    BY <2>3, <2>5 DEF IsReadUp
  <2>. QED BY <2>6 DEF ReadUp
<1>. HIDE DEF u
<1>6. u[o] = 0 /\ \A i \in o + 1 .. o + n : u[i] = u[i - 1] * base + DigitOf(word[i])
  <2>1. \A i \in (o + 1) - 1 .. o + n : u[i] = IF i = (o + 1) - 1 THEN 0 ELSE u[i - 1] * base + DigitOf(word[i])
    BY <1>5 DEF IsReadUp
  <2>2. o \in (o + 1) - 1 .. o + n /\ o = (o + 1) - 1
    BY <1>2
  <2>3. \A i \in o + 1 .. o + n : i \in (o + 1) - 1 .. o + n /\ i # (o + 1) - 1
    OBVIOUS
  <2>. QED BY <2>1, <2>2, <2>3
<1>. DEFINE S == {k \in 0 .. n : u[o + k] = v[k]}
<1>7. 0 \in S
  BY <1>1, <1>2, <1>6
<1>8. ASSUME NEW k \in 0 .. n - 1, k \in S PROVE k + 1 \in S
  <2>1. k + 1 \in 1 .. n /\ o + (k + 1) \in o + 1 .. o + n /\ (o + (k + 1)) - 1 = o + k /\ (k + 1) - 1 = k
    BY <1>2
  <2>2. u[o + k] = v[k]
    BY <1>8
  <2>3. u[o + (k + 1)] = u[o + k] * base + DigitOf(word[o + (k + 1)])
    BY <1>6, <2>1
  <2>4. DigitOf(word[o + (k + 1)]) = e[k + 1] /\ v[k + 1] = v[k] * base + e[k + 1]
    BY <1>1, <1>3, <2>1
  <2>5. u[o + (k + 1)] = v[k + 1]
    BY <2>2, <2>3, <2>4
  <2>. QED BY <2>1, <2>5
<1>9. 0 .. n \subseteq S
  <2>. HIDE DEF S
  <2>. QED BY <1>2, <1>7, <1>8, Climb
<1>10. u[o + n] = m
  <2>1. n \in 0 .. n
    BY <1>2
  <2>. QED BY <1>1, <1>9, <2>1
<1>11. \A i \in o + 1 .. o + n : \E d \in 0 .. base - 1 : word[i] \in {Letters[d + 1], Capitals[d + 1]}
  BY <1>1, <1>3, <1>4
<1>. QED BY <1>10, <1>11 DEF n, u

(* A sign is one character or none.                                        *)
LEMMA SignFacts ==
  ASSUME NEW sign \in Signs
  PROVE  /\ sign \in Seq(Chars) /\ Len(sign) \in {0, 1}
         /\ Len(sign) = 0 <=> sign = <<>>
         /\ Len(sign) = 1 => sign[1] \in {"-", "+"} /\ sign[1] # " " /\ (sign[1] = "-" <=> sign = <<"-">>)
<1>1. "-" \in Chars /\ "+" \in Chars
  BY DEF Chars
<1>2. CASE sign = <<>>
  BY <1>2
<1>3. CASE sign = <<"-">>
  BY <1>1, <1>3
<1>4. CASE sign = <<"+">>
  BY <1>1, <1>4
<1>. QED BY <1>2, <1>3, <1>4 DEF Signs

(* What is put for an item: its number, and the width it asks for.         *)
Shows(item, sign, prefix, m, t) ==
  /\ \A i \in 1 .. Len(prefix) : prefix[i] \notin {" ", "-", "+"}
  /\ Len(prefix) = PrefixLength(item)
  /\ item.arg = IF sign = <<"-">> THEN -m ELSE m
  /\ Len(t) >= item.width

(* A text of those parts reads as the number.                              *)
LEMMA LayoutReads ==
  ASSUME NEW item, NEW a \in Alphabets, NEW l \in Nat, NEW r \in Nat, NEW sign \in Signs, NEW prefix \in Seq(Chars),
         NEW num, NEW m, NEW t, Composed(t, l, sign, prefix, num, r), Reading(num, Base(item), a, m),
         Shows(item, sign, prefix, m, t)
  PROVE  Reads(t, item)
<1>. DEFINE g == Len(sign)
            p == Len(prefix)
            k == Len(num)
            n == Len(t)
            o == l + g + p
<1>1. Base(item) \in Bases
  BY DEF Base, Bases
<1>2. g \in {0, 1} /\ p \in Nat /\ k \in Nat /\ k >= 1 /\ n = l + g + p + k + r /\ n \in Nat /\ DOMAIN t = 1 .. n
  <2>1. num \in Seq(Chars) /\ k >= 1
    BY DEF Reading
  <2>2. t \in Seq(Chars) /\ n = l + g + p + k + r
    BY DEF Composed
  <2>3. g \in {0, 1}
    BY SignFacts
  <2>. HIDE DEF g
  <2>. QED BY <2>1, <2>2, <2>3, SeqFacts
<1>3. \A i \in 1 .. k : num[i] \notin {" ", "-", "+"}
  BY <1>1, ReadLetters
<1>4. /\ \A i \in 1 .. l : t[i] = " "
      /\ \A i \in 1 .. g : t[l + i] = sign[i]
      /\ \A i \in 1 .. p : t[l + g + i] = prefix[i]
      /\ \A i \in 1 .. k : t[o + i] = num[i]
      /\ \A i \in 1 .. r : t[o + k + i] = " "
  BY DEF Composed
<1>5. \A i \in 1 .. p : prefix[i] \notin {" ", "-", "+"}
  BY DEF Shows
<1>6. g = 1 => sign[1] \in {"-", "+"} /\ sign[1] # " " /\ (sign[1] = "-" <=> sign = <<"-">>)
  BY SignFacts
<1>7. g = 0 => sign # <<"-">>
  <2>1. sign = <<"-">> => g = 1
    OBVIOUS
  <2>. QED BY <2>1
<1>8. p = PrefixLength(item) /\ (item.arg = IF sign = <<"-">> THEN -m ELSE m) /\ n >= item.width
  BY DEF Shows
<1>. HIDE DEF g, p, k, n
<1>9. o \in Nat
  BY <1>2
<1>10. \A i \in l + 1 .. o + k : t[i] # " "
  <2>. SUFFICES ASSUME NEW i \in l + 1 .. o + k PROVE t[i] # " "
    OBVIOUS
  <2>1. CASE i <= l + g
    <3>1. g = 1 /\ i = l + 1 /\ 1 \in 1 .. g
      BY <1>2, <2>1
    <3>. QED BY <1>4, <1>6, <3>1
  <2>2. CASE l + g < i /\ i <= o
    <3>1. i - l - g \in 1 .. p /\ l + g + (i - l - g) = i
      BY <1>2, <2>2
    <3>2. t[l + g + (i - l - g)] = prefix[i - l - g] /\ prefix[i - l - g] \notin {" ", "-", "+"}
      BY <1>4, <1>5, <3>1
    <3>. QED BY <3>1, <3>2
  <2>3. CASE o < i
    <3>1. i - o \in 1 .. k /\ o + (i - o) = i
      BY <1>2, <1>9, <2>3
    <3>2. t[o + (i - o)] = num[i - o] /\ num[i - o] \notin {" ", "-", "+"}
      <4>. HIDE DEF o
      <4>. QED BY <1>3, <1>4, <3>1
    <3>. QED BY <3>1, <3>2
  <2>4. i <= l + g \/ (l + g < i /\ i <= o) \/ o < i
    BY <1>2, <1>9
  <2>. QED BY <2>1, <2>2, <2>3, <2>4, Zenon
<1>11. l + 1 \in 1 .. n /\ o + k \in 1 .. n /\ l + 1 \in l + 1 .. o + k /\ o + k \in l + 1 .. o + k
  BY <1>2
<1>12. ASSUME NEW i \in 1 .. n, t[i] # " " PROVE l + 1 <= i /\ i <= o + k
  <2>1. CASE i <= l
    <3>1. i \in 1 .. l
      BY <2>1
    <3>. QED BY <1>4, <1>12, <3>1
  <2>2. CASE i > o + k
    <3>1. i - (o + k) \in 1 .. r /\ o + k + (i - (o + k)) = i
      BY <1>2, <1>9, <2>2
    <3>2. t[o + k + (i - (o + k))] = " "
      <4>. HIDE DEF o
      <4>. QED BY <1>4, <3>1
    <3>. QED BY <1>12, <3>1, <3>2
  <2>. QED BY <1>2, <1>9, <2>1, <2>2
<1>13. FirstInk(t) = l + 1 /\ LastInk(t) = o + k
  <2>. HIDE DEF o
  <2>. QED BY <1>2, <1>10, <1>11, <1>12, InkFacts
<1>14. /\ t[l + 1] \in {"-", "+"} <=> g = 1
       /\ t[l + 1] = "-" <=> sign = <<"-">>
  <2>1. CASE g = 1
    <3>1. t[l + 1] = sign[1]
      <4>1. 1 \in 1 .. g
        BY <2>1
      <4>. QED BY <1>4, <4>1, Zenon
    <3>. QED BY <1>6, <2>1, <3>1
  <2>2. CASE g = 0 /\ p > 0
    <3>1. l + g + 1 = l + 1 /\ 1 \in 1 .. p
      BY <1>2, <2>2
    <3>2. t[l + 1] = prefix[1] /\ prefix[1] \notin {" ", "-", "+"}
      BY <1>4, <1>5, <3>1
    <3>3. t[l + 1] # "-" /\ t[l + 1] # "+"
      BY <3>2
    <3>4. sign # <<"-">>
      BY <1>7, <2>2, Zenon
    <3>5. g # 1
      BY <2>2
    <3>. QED BY ONLY <3>3, <3>4, <3>5
  <2>3. CASE g = 0 /\ p = 0
    <3>1. o + 1 = l + 1 /\ 1 \in 1 .. k
      BY <1>2, <2>3
    <3>2. t[l + 1] = num[1] /\ num[1] \notin {" ", "-", "+"}
      <4>. HIDE DEF o
      <4>. QED BY <1>3, <1>4, <3>1
    <3>3. t[l + 1] # "-" /\ t[l + 1] # "+"
      BY <3>2
    <3>4. sign # <<"-">>
      BY <1>7, <2>3, Zenon
    <3>5. g # 1
      BY <2>3
    <3>. QED BY ONLY <3>3, <3>4, <3>5
  <2>. QED BY <1>2, <2>1, <2>2, <2>3
<1>15. FirstDigit(t, item) = o + 1
  <2>1. FirstDigit(t, item) = (l + 1) + (IF t[l + 1] \in {"-", "+"} THEN 1 ELSE 0) + p
    BY <1>8, <1>13 DEF FirstDigit, PrefixLength
  <2>2. (IF t[l + 1] \in {"-", "+"} THEN 1 ELSE 0) = g
    BY <1>2, <1>14
  <2>3. FirstDigit(t, item) = (l + 1) + g + p
    BY <2>1, <2>2
  <2>. QED BY <1>2, <2>3
<1>16. /\ ReadUp(t, Base(item), o + 1, o + k)[o + k] = m
       /\ \A i \in o + 1 .. o + k : \E d \in 0 .. Base(item) - 1 : t[i] \in {Letters[d + 1], Capitals[d + 1]}
  <2>. HIDE DEF o
  <2>. QED BY <1>1, <1>4, <1>9, ReadUpFacts DEF k
<1>17. l + 1 <= o + k /\ o + 1 <= o + k
  BY <1>2
<1>. HIDE DEF o
<1>18. t[l + 1] \in {"-", "+"} /\ t[l + 1] = "-" <=> sign = <<"-">>
  BY <1>14
<1>19. (IF t[l + 1] \in {"-", "+"} /\ t[l + 1] = "-" THEN -m ELSE m) = item.arg
  BY <1>8, <1>18
<1>. QED BY <1>8, <1>13, <1>15, <1>16, <1>17, <1>19, ReadsIs DEF n

(* A text between blanks.                                                  *)
Spaced(t, l, w, r) ==
  /\ t \in Seq(Chars) /\ w \in Seq(Chars) /\ Len(t) = l + Len(w) + r
  /\ \A i \in 1 .. l : t[i] = " "
  /\ \A i \in 1 .. Len(w) : t[l + i] = w[i]
  /\ \A i \in 1 .. r : t[l + Len(w) + i] = " "

(* There is nothing in an empty interval.                                  *)
LEMMA NoneOfThem == \A i \in 1 .. 0 : FALSE
  OBVIOUS

(* A text gets blanks before or after it, up to the width.                 *)
LEMMA JustifiedFacts ==
  ASSUME NEW w \in Seq(Chars), NEW item, item.width \in Nat
  PROVE  /\ \E l, r \in Nat : Spaced(Justified(w, item), l, w, r)
         /\ Len(Justified(w, item)) >= item.width
<1>. DEFINE n == item.width - Len(w)
            b == Copies(n, " ")
            t == Justified(w, item)
            z == Len(b)
            k == Len(w)
            x == item.width
<1>1. k \in Nat /\ x \in Nat /\ n = x - k
  BY LenProperties
<1>2. b \in Seq(Chars) /\ z = (IF n > 0 THEN n ELSE 0) /\ \A i \in 1 .. z : b[i] = " "
  <2>1. " " \in Chars
    BY DEF Chars
  <2>. HIDE DEF k, x
  <2>2. n \in Int
    BY <1>1
  <2>. HIDE DEF n
  <2>. QED BY <2>1, <2>2, CopiesFacts
<1>3. t = w \o b \/ t = b \o w
  BY DEF Justified
<1>4. /\ w \o b \in Seq(Chars) /\ Len(w \o b) = k + z
      /\ \A i \in 1 .. k : (w \o b)[i] = w[i]
      /\ \A i \in k + 1 .. k + z : (w \o b)[i] = b[i - k]
  BY <1>2, JoinFacts
<1>5. /\ b \o w \in Seq(Chars) /\ Len(b \o w) = z + k
      /\ \A i \in 1 .. z : (b \o w)[i] = b[i]
      /\ \A i \in z + 1 .. z + k : (b \o w)[i] = w[i - z]
  BY <1>2, JoinFacts
<1>. DEFINE wb == w \o b
            bw == b \o w
<1>. HIDE DEF k, x, n, b, t, z, wb, bw
<1>6. z \in Nat /\ k + z >= x
  <2>1. z = IF n > 0 THEN n ELSE 0
    BY <1>2
  <2>. QED BY ONLY <1>1, <2>1
<1>7. CASE t = w \o b
  <2>1. t = wb
    BY <1>7 DEF wb
  <2>2. \A i \in 1 .. z : k + i \in k + 1 .. k + z /\ (k + i) - k = i
    BY <1>1, <1>6
  <2>3. \A i \in 1 .. z : wb[0 + k + i] = " "
    <3>. SUFFICES ASSUME NEW i \in 1 .. z PROVE wb[0 + k + i] = " "
      OBVIOUS
    <3>1. k + i \in k + 1 .. k + z /\ (k + i) - k = i /\ 0 + k + i = k + i
      BY <1>1, <2>2
    <3>2. wb[k + i] = b[(k + i) - k]
      BY <1>4, <3>1 DEF wb
    <3>. QED BY <1>2, <3>1, <3>2
  <2>4. \A i \in 1 .. k : wb[0 + i] = w[i]
    <3>1. \A i \in 1 .. k : 0 + i = i
      OBVIOUS
    <3>. QED BY <1>4, <3>1 DEF wb
  <2>5. Spaced(t, 0, w, z)
    <3>1. Len(t) = 0 + k + z /\ t \in Seq(Chars)
      BY <1>1, <1>4, <1>6, <2>1 DEF wb
    <3>2. \A i \in 1 .. 0 : t[i] = " "
      BY NoneOfThem
    <3>. QED BY <2>1, <2>3, <2>4, <3>1, <3>2 DEF Spaced, k
  <2>6. Len(t) >= x
    BY <1>4, <1>6, <1>7
  <2>. QED BY <1>6, <2>5, <2>6 DEF t, x
<1>8. CASE t = b \o w
  <2>1. t = bw
    BY <1>8 DEF bw
  <2>2. \A i \in 1 .. k : z + i \in z + 1 .. z + k /\ (z + i) - z = i
    BY <1>1, <1>6
  <2>3. \A i \in 1 .. k : bw[z + i] = w[i]
    <3>. SUFFICES ASSUME NEW i \in 1 .. k PROVE bw[z + i] = w[i]
      OBVIOUS
    <3>1. z + i \in z + 1 .. z + k /\ (z + i) - z = i
      BY <2>2
    <3>2. bw[z + i] = w[(z + i) - z]
      BY <1>5, <3>1 DEF bw
    <3>. QED BY <3>1, <3>2
  <2>4. \A i \in 1 .. z : bw[i] = " "
    BY <1>2, <1>5 DEF bw
  <2>5. Spaced(t, z, w, 0)
    <3>1. Len(t) = z + k + 0 /\ t \in Seq(Chars)
      BY <1>1, <1>5, <1>6, <2>1 DEF bw
    <3>2. \A i \in 1 .. 0 : t[z + k + i] = " "
      BY NoneOfThem
    <3>. QED BY <2>1, <2>3, <2>4, <3>1, <3>2 DEF Spaced, k
  <2>6. Len(t) >= x
    BY <1>1, <1>5, <1>6, <1>8
  <2>. QED BY <1>6, <2>5, <2>6 DEF t, x
<1>. QED BY <1>3, <1>7, <1>8

(* A number with blanks around it consists of those parts.                 *)
LEMMA BodyLayout ==
  ASSUME NEW sign \in Seq(Chars), NEW prefix \in Seq(Chars), NEW zeros \in Seq(Chars), NEW digits \in Seq(Chars),
         NEW l \in Nat, NEW r \in Nat, NEW t, Spaced(t, l, sign \o prefix \o zeros \o digits, r)
  PROVE  Composed(t, l, sign, prefix, zeros \o digits, r)
<1>. DEFINE A == sign \o prefix
            B == A \o zeros
            C == B \o digits
            N == zeros \o digits
            g == Len(sign)
            p == Len(prefix)
            z == Len(zeros)
            k == Len(digits)
<1>1. g \in Nat /\ p \in Nat /\ z \in Nat /\ k \in Nat
  BY LenProperties
<1>2. /\ A \in Seq(Chars) /\ Len(A) = g + p
      /\ \A i \in 1 .. g : A[i] = sign[i]
      /\ \A i \in g + 1 .. g + p : A[i] = prefix[i - g]
  BY JoinFacts
<1>3. /\ B \in Seq(Chars) /\ Len(B) = g + p + z
      /\ \A i \in 1 .. g + p : B[i] = A[i]
      /\ \A i \in g + p + 1 .. g + p + z : B[i] = zeros[i - (g + p)]
  <2>1. /\ B \in Seq(Chars) /\ Len(B) = Len(A) + z
        /\ \A i \in 1 .. Len(A) : B[i] = A[i]
        /\ \A i \in Len(A) + 1 .. Len(A) + z : B[i] = zeros[i - Len(A)]
    <3>1. A \in Seq(Chars)
      BY <1>2
    <3>. HIDE DEF A
    <3>. QED BY ONLY <3>1, zeros \in Seq(Chars), JoinFacts
  <2>. HIDE DEF A, B, g, p, z
  <2>. QED BY <1>2, <2>1, Zenon
<1>4. /\ C \in Seq(Chars) /\ Len(C) = g + p + z + k
      /\ \A i \in 1 .. g + p + z : C[i] = B[i]
      /\ \A i \in g + p + z + 1 .. g + p + z + k : C[i] = digits[i - (g + p + z)]
  <2>1. /\ C \in Seq(Chars) /\ Len(C) = Len(B) + k
        /\ \A i \in 1 .. Len(B) : C[i] = B[i]
        /\ \A i \in Len(B) + 1 .. Len(B) + k : C[i] = digits[i - Len(B)]
    <3>1. B \in Seq(Chars)
      BY <1>3
    <3>. HIDE DEF B
    <3>. QED BY ONLY <3>1, digits \in Seq(Chars), JoinFacts
  <2>. HIDE DEF B, C, g, p, z, k
  <2>. QED BY <1>3, <2>1, Zenon
<1>5. /\ N \in Seq(Chars) /\ Len(N) = z + k
      /\ \A i \in 1 .. z : N[i] = zeros[i]
      /\ \A i \in z + 1 .. z + k : N[i] = digits[i - z]
  BY JoinFacts
<1>6. /\ t \in Seq(Chars) /\ Len(t) = l + (g + p + z + k) + r
      /\ \A i \in 1 .. l : t[i] = " "
      /\ \A i \in 1 .. g + p + z + k : t[l + i] = C[i]
      /\ \A i \in 1 .. r : t[l + (g + p + z + k) + i] = " "
  BY <1>4 DEF Spaced
<1>. HIDE DEF A, B, C, N, g, p, z, k
<1>7. ASSUME NEW i \in 1 .. g PROVE t[l + i] = sign[i]
  <2>1. i \in 1 .. g + p + z + k /\ i \in 1 .. g + p + z /\ i \in 1 .. g + p
    BY <1>1
  <2>. QED BY <1>2, <1>3, <1>4, <1>6, <2>1
<1>8. ASSUME NEW i \in 1 .. p PROVE t[l + g + i] = prefix[i]
  <2>1. /\ g + i \in 1 .. g + p + z + k /\ g + i \in 1 .. g + p + z /\ g + i \in 1 .. g + p /\ g + i \in g + 1 .. g + p
        /\ (g + i) - g = i /\ l + g + i = l + (g + i)
    BY <1>1
  <2>. DEFINE j == g + i
  <2>2. j \in 1 .. g + p + z + k /\ j \in 1 .. g + p + z /\ j \in 1 .. g + p /\ j \in g + 1 .. g + p /\ j - g = i /\ l + g + i = l + j
    BY <2>1
  <2>. HIDE DEF j
  <2>3. t[l + j] = C[j]
    BY ONLY <1>6, <2>2
  <2>4. C[j] = B[j]
    BY ONLY <1>4, <2>2
  <2>5. B[j] = A[j]
    BY ONLY <1>3, <2>2
  <2>6. A[j] = prefix[j - g]
    BY ONLY <1>2, <2>2
  <2>. QED BY <2>2, <2>3, <2>4, <2>5, <2>6
<1>9. ASSUME NEW i \in 1 .. z + k PROVE t[l + g + p + i] = N[i]
  <2>. DEFINE j == g + p + i
  <2>1. j \in 1 .. g + p + z + k /\ l + g + p + i = l + j
    BY <1>1
  <2>2. CASE i <= z
    <3>1. j \in 1 .. g + p + z /\ j \in g + p + 1 .. g + p + z /\ j - (g + p) = i /\ i \in 1 .. z
      BY <1>1, <2>2
    <3>. HIDE DEF j
    <3>. QED BY <1>3, <1>4, <1>5, <1>6, <2>1, <3>1
  <2>3. CASE ~(i <= z)
    <3>1. j \in g + p + z + 1 .. g + p + z + k /\ j - (g + p + z) = i - z /\ i \in z + 1 .. z + k
      BY <1>1, <2>3
    <3>. HIDE DEF j
    <3>2. t[l + j] = C[j] /\ C[j] = digits[j - (g + p + z)]
      BY <1>4, <1>6, <2>1, <3>1, Zenon
    <3>3. N[i] = digits[i - z]
      BY <1>5, <3>1
    <3>. QED BY <2>1, <3>1, <3>2, <3>3
  <2>. QED BY <2>2, <2>3
<1>10. ASSUME NEW i \in 1 .. r PROVE t[l + g + p + (z + k) + i] = " "
  <2>1. l + g + p + (z + k) + i = l + (g + p + z + k) + i
    BY <1>1
  <2>. QED BY <1>6, <2>1
<1>11. Len(t) = l + g + p + (z + k) + r
  <2>1. l + (g + p + z + k) + r = l + g + p + (z + k) + r
    BY ONLY <1>1, l \in Nat, r \in Nat
  <2>. QED BY <1>6, <2>1
<1>. QED BY <1>5, <1>6, <1>7, <1>8, <1>9, <1>10, <1>11 DEF Composed, N, g, p

(* The parts of a number.                                                  *)
Mag(item) == IF Negative(item) THEN AbsNum(item) ELSE item.arg
AlphabetOf(item) == IF item.conv = "X" THEN Capitals ELSE Letters
SignOf(item) == IF Negative(item) THEN <<"-">> ELSE IF "sign" \in item.flags THEN <<"+">> ELSE <<>>
PrefixOf(item) ==
  IF "prefix" \notin item.flags THEN <<>>
  ELSE CASE Base(item) = 16 -> <<"0", IF item.conv = "X" THEN "X" ELSE "x">>
         [] Base(item) = 8 -> <<"0">>
         [] Base(item) = 2 -> <<"0", "b">>
         [] OTHER -> <<>>
DigitsOf(item) == Digits(Mag(item), Base(item), AlphabetOf(item))
ZerosOf(item) ==
  IF "pad" \in item.flags
  THEN Copies(item.width - Len(DigitsOf(item)) - Len(PrefixOf(item)) - Len(SignOf(item)), "0")
  ELSE <<>>

NumberItem(item) ==
  /\ item.width \in Nat /\ Mag(item) \in Nat
  /\ item.arg = IF Negative(item) THEN -Mag(item) ELSE Mag(item)
  /\ item.conv = "p" => "prefix" \in item.flags

(* A number is a sign, a prefix, zeros and digits, justified.              *)
LEMMA NumberIs ==
  ASSUME NEW item
  PROVE  Number(item) = Justified(SignOf(item) \o PrefixOf(item) \o ZerosOf(item) \o DigitsOf(item), item)
  BY Zenon DEF Number, Mag, AlphabetOf, SignOf, PrefixOf, DigitsOf, ZerosOf

(* A prefix has as many characters as the reader skips.                    *)
LEMMA PrefixFacts ==
  ASSUME NEW item, item.conv = "p" => "prefix" \in item.flags
  PROVE  /\ PrefixOf(item) \in Seq(Chars) /\ Len(PrefixOf(item)) = PrefixLength(item)
         /\ \A i \in 1 .. Len(PrefixOf(item)) : PrefixOf(item)[i] \notin {" ", "-", "+"}
<1>. DEFINE p == PrefixOf(item)
            x == IF item.conv = "X" THEN "X" ELSE "x"
<1>1. x \in Chars /\ x \notin {" ", "-", "+"}
  BY DEF Chars
<1>2. "0" \in Chars /\ "b" \in Chars
  BY DEF Chars, Digit
<1>3. CASE "prefix" \notin item.flags
  <2>1. p = <<>> /\ PrefixLength(item) = 0
    BY <1>3 DEF PrefixOf, PrefixLength
  <2>. HIDE DEF p
  <2>2. p \in Seq(Chars) /\ Len(p) = 0
    BY <2>1
  <2>. QED BY <2>1, <2>2, NoneOfThem DEF p
<1>4. CASE "prefix" \in item.flags /\ Base(item) = 16
  <2>1. p = <<"0", x>> /\ PrefixLength(item) = 2
    BY <1>4 DEF PrefixOf, PrefixLength
  <2>. HIDE DEF p, x
  <2>2. p \in Seq(Chars) /\ Len(p) = 2 /\ p[1] = "0" /\ p[2] = x
    <3>1. p = <<"0", x>>
      BY <2>1
    <3>2. x \in Chars
      BY <1>1
    <3>. QED BY ONLY <1>2, <3>1, <3>2
  <2>3. \A i \in 1 .. 2 : i = 1 \/ i = 2
    OBVIOUS
  <2>. QED BY <1>1, <2>1, <2>2, <2>3 DEF p
<1>5. CASE "prefix" \in item.flags /\ Base(item) = 8
  <2>1. p = <<"0">> /\ PrefixLength(item) = 1
    BY <1>5 DEF PrefixOf, PrefixLength
  <2>. HIDE DEF p, x
  <2>2. p \in Seq(Chars) /\ Len(p) = 1 /\ p[1] = "0"
    BY <1>2, <2>1
  <2>3. \A i \in 1 .. 1 : i = 1
    OBVIOUS
  <2>. QED BY <2>1, <2>2, <2>3 DEF p
<1>6. CASE "prefix" \in item.flags /\ Base(item) = 2
  <2>1. p = <<"0", "b">> /\ PrefixLength(item) = 2
    BY <1>6 DEF PrefixOf, PrefixLength
  <2>. HIDE DEF p, x
  <2>2. p \in Seq(Chars) /\ Len(p) = 2 /\ p[1] = "0" /\ p[2] = "b"
    BY <1>2, <2>1
  <2>3. \A i \in 1 .. 2 : i = 1 \/ i = 2
    OBVIOUS
  <2>. QED BY <2>1, <2>2, <2>3 DEF p
<1>7. CASE "prefix" \in item.flags /\ Base(item) = 10
  <2>1. p = <<>> /\ PrefixLength(item) = 0
    BY <1>7 DEF PrefixOf, PrefixLength
  <2>. HIDE DEF p
  <2>2. p \in Seq(Chars) /\ Len(p) = 0
    BY <2>1
  <2>. QED BY <2>1, <2>2, NoneOfThem DEF p
<1>8. Base(item) \in {2, 8, 10, 16}
  BY DEF Base
<1>. QED BY <1>3, <1>4, <1>5, <1>6, <1>7, <1>8

(* What stands for a number in a text reads as that number.                *)
LEMMA NumberFacts ==
  ASSUME NEW item, NumberItem(item)
  PROVE  Number(item) \in Seq(Chars) /\ Reads(Number(item), item)
<1>. DEFINE sign == SignOf(item)
            prefix == PrefixOf(item)
            zeros == ZerosOf(item)
            digits == DigitsOf(item)
            a == AlphabetOf(item)
            m == Mag(item)
            base == Base(item)
            w == sign \o prefix \o zeros \o digits
            t == Number(item)
<1>1. base \in Bases /\ a \in Alphabets /\ m \in Nat
  BY DEF Base, Bases, AlphabetOf, Alphabets, NumberItem
<1>2. Reading(digits, base, a, m)
  BY <1>1, DigitsRead DEF DigitsOf
<1>3. sign \in Signs /\ sign \in Seq(Chars) /\ (sign = <<"-">> <=> Negative(item))
  <2>1. sign \in Signs /\ (sign = <<"-">> <=> Negative(item))
    BY DEF SignOf, Signs
  <2>. HIDE DEF sign
  <2>. QED BY <2>1, SignFacts
<1>4. /\ prefix \in Seq(Chars) /\ Len(prefix) = PrefixLength(item)
      /\ \A i \in 1 .. Len(prefix) : prefix[i] \notin {" ", "-", "+"}
  BY PrefixFacts DEF NumberItem
<1>5. digits \in Seq(Chars)
  BY <1>2 DEF Reading
<1>6. zeros \in Seq(Chars) /\ \A i \in 1 .. Len(zeros) : zeros[i] = "0"
  <2>1. "0" \in Chars
    BY DEF Chars, Digit
  <2>. DEFINE n == item.width - Len(digits) - Len(prefix) - Len(sign)
  <2>2. n \in Int
    <3>1. item.width \in Nat
      BY DEF NumberItem
    <3>2. Len(digits) \in Nat /\ Len(prefix) \in Nat /\ Len(sign) \in Nat
      <4>. HIDE DEF digits, prefix, sign
      <4>. QED BY <1>3, <1>4, <1>5, LenProperties
    <3>. HIDE DEF digits, prefix, sign
    <3>. QED BY <3>1, <3>2
  <2>3. zeros = Copies(n, "0") \/ zeros = <<>>
    BY DEF ZerosOf
  <2>. HIDE DEF n, zeros
  <2>4. CASE zeros = <<>>
    BY <2>4, NoneOfThem
  <2>5. CASE zeros = Copies(n, "0")
    BY <2>1, <2>2, <2>5, CopiesFacts
  <2>. QED BY <2>3, <2>4, <2>5
<1>7. t = Justified(w, item) /\ item.width \in Nat
  BY NumberIs DEF NumberItem
<1>. HIDE DEF sign, prefix, zeros, digits, a, m, base, t
<1>8. w \in Seq(Chars)
  <2>1. sign \o prefix \in Seq(Chars)
    BY <1>3, <1>4, JoinFacts
  <2>2. sign \o prefix \o zeros \in Seq(Chars)
    BY <1>6, <2>1, JoinFacts
  <2>. QED BY <1>5, <2>2, JoinFacts
<1>9. (\E l, r \in Nat : Spaced(t, l, w, r)) /\ Len(t) >= item.width
  <2>. HIDE DEF w
  <2>. QED BY <1>7, <1>8, JustifiedFacts
<1>10. PICK l \in Nat, r \in Nat : Spaced(t, l, w, r)
  BY <1>9
<1>11. Composed(t, l, sign, prefix, zeros \o digits, r)
  BY <1>3, <1>4, <1>5, <1>6, <1>10, BodyLayout
<1>12. Reading(zeros \o digits, base, a, m)
  BY <1>1, <1>2, <1>6, PaddedReading
<1>13. Shows(item, sign, prefix, m, t)
  <2>1. item.arg = IF sign = <<"-">> THEN -m ELSE m
    BY <1>3 DEF NumberItem, m
  <2>. QED BY <1>4, <1>9, <2>1 DEF Shows
<1>14. Reads(t, item)
  BY <1>1, <1>3, <1>4, <1>11, <1>12, <1>13, LayoutReads DEF base
<1>15. t \in Seq(Chars)
  BY <1>10 DEF Spaced
<1>. QED BY <1>14, <1>15 DEF t

(* The fields of an item.                                                  *)
LEMMA ItemFacts ==
  ASSUME NEW c, NEW l, NEW f, NEW w, NEW x
  PROVE  /\ Item(c, l, f, w, x).conv = c /\ Item(c, l, f, w, x).length = l /\ Item(c, l, f, w, x).flags = f
         /\ Item(c, l, f, w, x).width = w /\ Item(c, l, f, w, x).arg = x
  BY DEF Item

(* The fields of a conversion of a number.                                 *)
LEMMA SpecFields ==
  ASSUME NEW item \in Specs
  PROVE  /\ item.conv \in Conversions /\ item.length \in {"", "l", "z"} /\ item.width \in Widths
         /\ item.arg \in Args(item.conv, item.length)
         /\ item.arg \in (-IntTop .. 2 * IntTop - 1) \cup LongArgs
<1>1. item.arg \in Args(item.conv, item.length) /\ item \in AnySpec
  BY DEF Specs
<1>2. PICK c \in Conversions, l \in Lengths, f \in FlagSets, w \in Widths, x \in Arguments : item = Item(c, l, f, w, x)
  BY <1>1 DEF AnySpec
<1>3. item.conv = c /\ item.length = l /\ item.width = w /\ item.arg = x
  BY <1>2, ItemFacts
<1>. QED BY <1>1, <1>2, <1>3 DEF Lengths, Arguments

(* A number below the modulus is its own remainder.                        *)
LEMMA SmallMod ==
  ASSUME NEW n \in Nat, NEW c \in Nat, n < c
  PROVE  n % c = n
  OBVIOUS

(* The argument of a conversion is a number that can be written: the least *)
(* long is the one without an opposite.                                    *)
LEMMA SpecFacts ==
  ASSUME NEW item \in Specs
  PROVE  NumberItem(item)
<1>. DEFINE c == item.conv
            l == item.length
            x == item.arg
            top == TopOf(item)
<1>1. c \in Conversions /\ l \in {"", "l", "z"} /\ item.width \in Nat /\ x \in Args(c, l)
  BY SpecFields, PrintfAssumption
<1>2. IntTop \in Nat \ {0} /\ LongTop \in Nat \ {0} /\ LongArgs \subseteq -LongTop .. 2 * LongTop - 1
  BY PrintfAssumption
<1>3. x \in Int
  <2>1. x \in (-IntTop .. 2 * IntTop - 1) \cup LongArgs
    BY SpecFields
  <2>. HIDE DEF x
  <2>. QED BY <1>2, <2>1
<1>4. CASE Negative(item)
  <2>1. c = "d" /\ l # "z" /\ x < 0
    BY <1>4 DEF Negative
  <2>2. top \in Nat \ {0} /\ -top <= x
    <3>1. CASE l = ""
      <4>1. top = IntTop /\ x \in -IntTop .. IntTop - 1
        BY <1>1, <2>1, <3>1 DEF TopOf, Args
      <4>. HIDE DEF top, x
      <4>. QED BY <1>2, <4>1
    <3>2. CASE l = "l"
      <4>1. top = LongTop /\ x \in LongArgs
        BY <1>1, <2>1, <3>2 DEF TopOf, Args
      <4>. HIDE DEF top, x
      <4>2. x \in -LongTop .. 2 * LongTop - 1
        BY <1>2, <4>1
      <4>. QED BY <1>2, <4>1, <4>2
    <3>. QED BY <1>1, <2>1, <3>1, <3>2
  <2>3. AbsNum(item) = (-(x + 1) + 1) % (2 * top)
    BY DEF AbsNum
  <2>. HIDE DEF x, top
  <2>. DEFINE n == -(x + 1) + 1
              k == 2 * top
  <2>4. n \in Nat /\ k \in Nat /\ n < k /\ n = -x /\ x = -n
    BY ONLY <1>3, <2>1, <2>2
  <2>5. AbsNum(item) = n
    <3>1. AbsNum(item) = n % k
      BY <2>3
    <3>. HIDE DEF n, k
    <3>. QED BY <2>4, <3>1, SmallMod
  <2>6. item.arg = -AbsNum(item) /\ AbsNum(item) \in Nat
    <3>. HIDE DEF n
    <3>. QED BY <2>4, <2>5 DEF x
  <2>7. Mag(item) = AbsNum(item)
    BY <1>4 DEF Mag
  <2>8. item.conv # "p"
    BY <2>1
  <2>. QED BY <1>1, <1>4, <2>6, <2>7, <2>8 DEF NumberItem
<1>5. CASE ~Negative(item)
  <2>1. x >= 0
    <3>1. CASE c = "d" /\ l # "z"
      <4>1. ~(x < 0)
        BY <1>5, <3>1 DEF Negative
      <4>. HIDE DEF x
      <4>. QED BY <1>3, <4>1
    <3>2. CASE l = ""  /\ c # "d"
      <4>1. x \in 0 .. 2 * IntTop - 1
        BY <1>1, <3>2 DEF Args
      <4>. HIDE DEF x
      <4>. QED BY <1>2, <4>1
    <3>3. CASE l # "" /\ ~(c = "d" /\ l = "l")
      BY <1>1, <3>3 DEF Args
    <3>. QED BY <1>1, <3>1, <3>2, <3>3
  <2>2. Mag(item) = x
    BY <1>5 DEF Mag
  <2>3. c # "p"
    BY <1>1 DEF Conversions
  <2>4. x \in Nat
    BY <1>3, <2>1
  <2>. QED BY <1>1, <1>5, <2>2, <2>3, <2>4 DEF NumberItem
<1>. QED BY <1>4, <1>5

Pointer(item) == [item EXCEPT !.flags = item.flags \cup {"prefix", "pad"}, !.width = PointerDigits + 2]

(* A pointer is read as the hexadecimal number it is written as.           *)
LEMMA ReadsAlike ==
  ASSUME NEW t, NEW item, NEW other, Reads(t, other), other.conv = item.conv, other.arg = item.arg,
         item.conv = "p", Len(t) >= item.width
  PROVE  Reads(t, item)
<1>1. Base(item) = Base(other)
  BY DEF Base
<1>2. FirstDigit(t, item) = FirstDigit(t, other)
  BY <1>1 DEF FirstDigit
<1>. QED BY <1>1, <1>2, ReadsIs

(* The other items.                                                        *)
OtherItem(item) ==
  /\ item = Item(item.conv, "", item.flags, item.width, item.arg)
  /\ item.conv \in {"lit", "@", "p", "c", "s"} /\ item.length = ""
  /\ item.conv \in {"lit", "c", "s"} => item.arg \in Seq(Chars)
  /\ item.conv = "p" => item.arg = LongTop /\ item.width = 0 /\ item.flags = {}
  /\ item.width \in Nat

(* The items that are not numbers.                                         *)
LEMMA OtherFacts ==
  ASSUME NEW item \in Others
  PROVE  OtherItem(item)
<1>1. <<"%">> \in Seq(Chars) /\ <<"q">> \in Seq(Chars)
  <2>1. "%" \in Chars /\ "q" \in Chars
    BY DEF Chars
  <2>. QED BY <2>1
<1>2. Widths \subseteq Nat
  BY PrintfAssumption
<1>3. CASE item = Item("lit", "", {}, 0, <<"%">>)
  BY <1>1, <1>3 DEF OtherItem, Item
<1>4. CASE item = Item("@", "", {}, 0, <<>>)
  BY <1>4 DEF OtherItem, Item
<1>5. CASE item = Item("p", "", {}, 0, LongTop)
  BY <1>5 DEF OtherItem, Item
<1>6. ASSUME NEW c \in {"c", "s"}, NEW w \in Widths, NEW f \in SUBSET {"left"}, item = Item(c, "", f, w, <<"q">>)
      PROVE  OtherItem(item)
  BY <1>1, <1>2, <1>6 DEF OtherItem, Item
<1>7. CASE item \in AlignedItems
  <2>. DEFINE none == ""
              arg == <<"q">>
  <2>1. AlignedItems = {Item(c, none, f, w, arg) : c \in Aligning, f \in Sides, w \in Widths}
    BY DEF AlignedItems
  <2>. HIDE DEF none, arg
  <2>2. PICK c \in Aligning, f \in Sides, w \in Widths : item = Item(c, none, f, w, arg)
    BY <1>7, <2>1
  <2>. QED BY <1>6, <2>2 DEF none, arg, Aligning, Sides
<1>8. CASE item \in FixedItems
  BY <1>3, <1>4, <1>5, <1>8 DEF FixedItems
<1>. QED BY <1>7, <1>8 DEF Others

NumberConvs == {"d", "u", "x", "X", "b", "o", "p"}

(* A pointer reads back.                                                   *)
LEMMA PointerFacts ==
  ASSUME NEW item, OtherItem(item), item.conv = "p"
  PROVE  PutPointer(item) \in Seq(Chars) /\ Reads(PutPointer(item), item)
<1>. DEFINE other == Pointer(item)
<1>1. /\ other.conv = "p" /\ other.length = "" /\ other.flags = item.flags \cup {"prefix", "pad"}
      /\ other.width = PointerDigits + 2 /\ other.arg = LongTop
  <2>. DEFINE f == item.flags
              w == item.width
  <2>1. item = [conv |-> "p", length |-> "", flags |-> f, width |-> w, arg |-> LongTop]
    BY DEF OtherItem, Item
  <2>. HIDE DEF f, w
  <2>2. item.flags = f
    BY <2>1
  <2>. QED BY ONLY <2>1, <2>2 DEF Pointer
<1>2. PutPointer(item) = Number(other)
  BY DEF PutPointer, Pointer
<1>3. other.arg = item.arg /\ item.width = 0
  BY <1>1 DEF OtherItem
<1>. HIDE DEF other
<1>4. PointerDigits + 2 \in Nat /\ LongTop \in Nat
  BY PrintfAssumption
<1>5. ~Negative(other)
  BY <1>1 DEF Negative
<1>6. Mag(other) = LongTop
  BY <1>1, <1>5 DEF Mag
<1>7. NumberItem(other)
  BY <1>1, <1>4, <1>5, <1>6 DEF NumberItem
<1>8. Number(other) \in Seq(Chars) /\ Reads(Number(other), other)
  BY <1>7, NumberFacts
<1>9. Len(Number(other)) >= item.width
  BY <1>3, <1>8, LenProperties
<1>. QED BY <1>1, <1>2, <1>3, <1>8, <1>9, ReadsAlike

(* What stands for an item depends on the description of an object alone,  *)
(* and a number reads back.                                                *)
LEMMA FieldFacts ==
  ASSUME NEW item \in Specs \cup Others, NEW d \in Descriptions
  PROVE  /\ Field(item, d) \in Seq(Chars)
         /\ item.conv \in NumberConvs => Reads(Field(item, d), item)
         /\ \A e \in Descriptions : item.conv # "@" => Field(item, d) = Field(item, e)
<1>1. CASE item \in Specs
  <2>1. item.conv \in Conversions
    BY <1>1, SpecFields
  <2>2. \A e : Field(item, e) = Number(item)
    BY <2>1 DEF Field, Conversions, Aligning
  <2>3. Number(item) \in Seq(Chars) /\ Reads(Number(item), item)
    BY <1>1, SpecFacts, NumberFacts
  <2>. QED BY <2>2, <2>3
<1>2. CASE item \in Others
  <2>1. OtherItem(item)
    BY <1>2, OtherFacts
  <2>2. CASE item.conv = "lit"
    <3>1. item.arg \in Seq(Chars)
      BY <2>1, <2>2 DEF OtherItem
    <3>2. \A e : Field(item, e) = item.arg
      BY <2>2 DEF Field, Conversions, Aligning
    <3>. QED BY <2>2, <3>1, <3>2 DEF NumberConvs
  <2>3. CASE item.conv = "@"
    <3>1. Field(item, d) = d
      BY <2>3 DEF Field, Aligning
    <3>2. d \in Seq(Chars)
      BY PrintfAssumption
    <3>. QED BY <2>3, <3>1, <3>2 DEF NumberConvs
  <2>4. CASE item.conv = "p"
    <3>1. \A e : Field(item, e) = PutPointer(item)
      BY <2>4 DEF Field, Aligning
    <3>2. PutPointer(item) \in Seq(Chars) /\ Reads(PutPointer(item), item)
      BY <2>1, <2>4, PointerFacts
    <3>. QED BY <3>1, <3>2
  <2>5. CASE item.conv \in {"c", "s"}
    <3>1. item.arg \in Seq(Chars) /\ item.width \in Nat
      BY <2>1, <2>5 DEF OtherItem
    <3>2. \A e : Field(item, e) = Justified(item.arg, item)
      BY <2>5 DEF Field, Conversions, Aligning
    <3>3. Justified(item.arg, item) \in Seq(Chars)
      BY <3>1, JustifiedFacts DEF Spaced
    <3>. QED BY <2>5, <3>2, <3>3 DEF NumberConvs
  <2>6. item.conv \in {"lit", "@", "p", "c", "s"}
    BY <2>1 DEF OtherItem
  <2>. QED BY <2>2, <2>3, <2>4, <2>5, <2>6
<1>. QED BY <1>1, <1>2

(* A letter stands for itself.                                             *)
LEMMA LitFacts ==
  ASSUME NEW c \in Chars, NEW d
  PROVE  /\ Field(Lit(c), d) = <<c>> /\ <<c>> \in Seq(Chars) /\ Len(<<c>>) = 1 /\ <<c>>[1] = c
         /\ Lit(c).conv = "lit" /\ Lit(c).arg = <<c>>
  BY DEF Field, Lit, Item, Conversions, Aligning

(* The text is in the memory, as much of it as fits.                       *)
Wrote(st, t) ==
  /\ st \in Sprints /\ st.size <= Room + 1 /\ t \in Seq(Chars) /\ st.pos = Len(t)
  /\ \A i \in 0 .. Room : st.cells[i] = IF i < Len(t) /\ i < st.size - 1 THEN t[i + 1] ELSE Unset

(* Nothing was written into fresh memory.                                  *)
LEMMA FreshWrote ==
  ASSUME NEW size \in 0 .. Room + 1
  PROVE  Wrote(Fresh(size), <<>>) /\ Fresh(size).size = size /\ Fresh(size).pos = 0
<1>. DEFINE st == Fresh(size)
<1>1. Room \in Nat
  BY PrintfAssumption
<1>2. size \in Nat /\ size <= Room + 1
  BY <1>1
<1>3. [i \in 0 .. Room |-> Unset] \in [0 .. Room -> SprintCells]
  BY DEF SprintCells
<1>4. st \in Sprints
  BY <1>2, <1>3 DEF Fresh, Sprints
<1>5. st.size = size /\ st.pos = 0 /\ \A i \in 0 .. Room : st.cells[i] = Unset
  BY DEF Fresh
<1>6. <<>> \in Seq(Chars) /\ Len(<<>>) = 0
  OBVIOUS
<1>. HIDE DEF st
<1>7. \A i \in 0 .. Room : ~(i < 0)
  OBVIOUS
<1>8. Wrote(st, <<>>)
  BY <1>2, <1>4, <1>5, <1>6, <1>7 DEF Wrote
<1>. QED BY <1>5, <1>8 DEF st

(* Putting a text after another one writes both.                           *)
LEMMA WroteMore ==
  ASSUME NEW st, NEW t, Wrote(st, t), NEW u \in Seq(Chars)
  PROVE  Wrote(PutAll(st, u), t \o u) /\ PutAll(st, u).size = st.size
<1>. DEFINE to == PutAll(st, u)
            n == Len(t)
            k == Len(u)
            w == t \o u
<1>1. /\ st \in Sprints /\ st.size <= Room + 1 /\ t \in Seq(Chars) /\ st.pos = n
      /\ \A i \in 0 .. Room : st.cells[i] = IF i < n /\ i < st.size - 1 THEN t[i + 1] ELSE Unset
  BY DEF Wrote
<1>2. PutUpTo(st, u, k, to)
  BY <1>1, PutAllFacts
<1>3. /\ to \in Sprints /\ to.size = st.size /\ to.pos = n + k
      /\ \A i \in 0 .. Room : to.cells[i] = IF n <= i /\ i < n + k /\ i < st.size - 1 THEN u[i - n + 1] ELSE st.cells[i]
  BY <1>1, <1>2 DEF PutUpTo
<1>4. /\ w \in Seq(Chars) /\ Len(w) = n + k /\ n \in Nat /\ k \in Nat
      /\ \A i \in 1 .. n : w[i] = t[i]
      /\ \A i \in n + 1 .. n + k : w[i] = u[i - n]
  BY <1>1, JoinFacts
<1>. HIDE DEF to, n, k, w
<1>. DEFINE size == st.size
<1>5. ASSUME NEW i \in 0 .. Room
      PROVE  to.cells[i] = IF i < n + k /\ i < to.size - 1 THEN w[i + 1] ELSE Unset
  <2>1. /\ to.cells[i] = IF n <= i /\ i < n + k /\ i < to.size - 1 THEN u[i - n + 1] ELSE st.cells[i]
        /\ st.cells[i] = IF i < n /\ i < to.size - 1 THEN t[i + 1] ELSE Unset
    BY <1>1, <1>3
  <2>2. CASE i < n
    <3>1. i + 1 \in 1 .. n /\ ~(n <= i) /\ i < n + k
      BY <1>4, <2>2
    <3>2. w[i + 1] = t[i + 1]
      BY <1>4, <3>1
    <3>. QED BY <2>1, <2>2, <3>1, <3>2, Zenon
  <2>3. CASE ~(i < n) /\ i < n + k
    <3>1. i + 1 \in n + 1 .. n + k /\ (i + 1) - n = i - n + 1 /\ n <= i
      BY <1>4, <2>3
    <3>2. w[i + 1] = u[i - n + 1]
      BY <1>4, <3>1
    <3>. QED BY <2>1, <2>3, <3>1, <3>2, Zenon
  <2>4. CASE ~(i < n) /\ ~(i < n + k)
    BY <2>1, <2>4, Zenon
  <2>. QED BY <2>2, <2>3, <2>4
<1>6. Wrote(to, w)
  BY <1>1, <1>3, <1>4, <1>5 DEF Wrote
<1>. QED BY <1>3, <1>6 DEF to, w

-----------------------------------------------------------------------------
(* The text after so many items, and the items that are left.              *)
Made(f, k) ==
  IF k = 0 THEN <<>> ELSE IF k = 1 THEN <<"<">> ELSE IF k = 2 THEN <<"<">> \o f ELSE <<"<">> \o f \o <<">">>
Remaining(item, k) ==
  IF k = 0 THEN FormatOf(item) ELSE IF k = 1 THEN <<item, Lit(">")>> ELSE IF k = 2 THEN <<Lit(">")>> ELSE <<>>

(* The text of a format: a letter, the field and a letter.                 *)
LEMMA MadeFacts ==
  ASSUME NEW f \in Seq(Chars)
  PROVE  /\ \A k \in 0 .. 3 : Made(f, k) \in Seq(Chars)
         /\ Len(Made(f, 3)) = 2 + Len(f)
         /\ Made(f, 3)[1] = "<" /\ Made(f, 3)[Len(f) + 2] = ">"
         /\ \A i \in 1 .. Len(f) : Made(f, 3)[i + 1] = f[i]
<1>. DEFINE a == <<"<">>
            b == <<">">>
            n == Len(f)
<1>1. "<" \in Chars /\ ">" \in Chars
  BY DEF Chars
<1>2. a \in Seq(Chars) /\ Len(a) = 1 /\ a[1] = "<" /\ b \in Seq(Chars) /\ Len(b) = 1 /\ b[1] = ">"
  BY <1>1
<1>3. Made(f, 0) = <<>> /\ Made(f, 1) = a /\ Made(f, 2) = a \o f /\ Made(f, 3) = a \o f \o b
  BY DEF Made
<1>. DEFINE c == a \o f
            t == c \o b
<1>. HIDE DEF a, b
<1>4. /\ c \in Seq(Chars) /\ Len(c) = 1 + n /\ n \in Nat
      /\ \A i \in 1 .. 1 : c[i] = a[i]
      /\ \A i \in 1 + 1 .. 1 + n : c[i] = f[i - 1]
  <2>1. /\ c \in Seq(Chars) /\ Len(c) = Len(a) + n /\ n \in Nat
        /\ \A i \in 1 .. Len(a) : c[i] = a[i]
        /\ \A i \in Len(a) + 1 .. Len(a) + n : c[i] = f[i - Len(a)]
    <3>1. a \in Seq(Chars)
      BY <1>2
    <3>. QED BY ONLY <3>1, f \in Seq(Chars), JoinFacts
  <2>. HIDE DEF c, n
  <2>. QED BY <1>2, <2>1, Zenon
<1>5. /\ t \in Seq(Chars) /\ Len(t) = 1 + n + 1
      /\ \A i \in 1 .. 1 + n : t[i] = c[i]
      /\ \A i \in 1 + n + 1 .. 1 + n + 1 : t[i] = b[i - (1 + n)]
  <2>1. /\ t \in Seq(Chars) /\ Len(t) = Len(c) + Len(b)
        /\ \A i \in 1 .. Len(c) : t[i] = c[i]
        /\ \A i \in Len(c) + 1 .. Len(c) + Len(b) : t[i] = b[i - Len(c)]
    <3>1. c \in Seq(Chars)
      BY <1>4
    <3>2. b \in Seq(Chars)
      BY <1>2
    <3>. HIDE DEF c
    <3>. QED BY ONLY <3>1, <3>2, JoinFacts
  <2>. HIDE DEF c, t, n
  <2>. QED BY <1>2, <1>4, <2>1, Zenon
<1>6. \A k \in 0 .. 3 : k = 0 \/ k = 1 \/ k = 2 \/ k = 3
  OBVIOUS
<1>7. Made(f, 3) = t /\ Made(f, 2) = c
  BY <1>3
<1>. HIDE DEF c, t, n
<1>8. \A k \in 0 .. 3 : Made(f, k) \in Seq(Chars)
  <2>1. <<>> \in Seq(Chars)
    OBVIOUS
  <2>. QED BY <1>2, <1>3, <1>4, <1>5, <1>6, <1>7, <2>1
<1>9. t[1] = "<" /\ t[n + 2] = ">"
  <2>1. 1 \in 1 .. 1 + n /\ 1 \in 1 .. 1 /\ n + 2 = 1 + n + 1 /\ 1 + n + 1 \in 1 + n + 1 .. 1 + n + 1 /\ (1 + n + 1) - (1 + n) = 1
    BY <1>4
  <2>. QED BY <1>2, <1>4, <1>5, <2>1
<1>10. ASSUME NEW i \in 1 .. n PROVE t[i + 1] = f[i]
  <2>1. i + 1 \in 1 .. 1 + n /\ i + 1 \in 1 + 1 .. 1 + n /\ (i + 1) - 1 = i
    BY <1>4
  <2>. QED BY <1>4, <1>5, <2>1
<1>11. Len(t) = 2 + n
  BY <1>4, <1>5
<1>. QED BY <1>7, <1>8, <1>9, <1>10, <1>11 DEF n

(* The items that are left, one less after each.                           *)
LEMMA RestFacts ==
  ASSUME NEW item, NEW k \in 0 .. 3
  PROVE  /\ (Remaining(item, k) = <<>>) <=> (k = 3)
         /\ k # 3 => Tail(Remaining(item, k)) = Remaining(item, k + 1)
         /\ k # 3 => Head(Remaining(item, k)) = IF k = 0 THEN Lit("<") ELSE IF k = 1 THEN item ELSE Lit(">")
<1>1. CASE k = 0
  BY <1>1 DEF Remaining, FormatOf
<1>2. CASE k = 1
  BY <1>2 DEF Remaining
<1>3. CASE k = 2
  BY <1>3 DEF Remaining
<1>4. CASE k = 3
  BY <1>4 DEF Remaining
<1>. QED BY <1>1, <1>2, <1>3, <1>4

-----------------------------------------------------------------------------
SprintItems == Specs \cup Others
JobRecord == job = [todo |-> job.todo, items |-> job.items, by |-> job.by, moved |-> job.moved]

(* k items of the format are done and the text is made of them.            *)
Amid(item, d, k) ==
  /\ job.items = FormatOf(item) /\ job.todo = Remaining(item, k)
  /\ Wrote(sprint, Made(Field(item, d), k))
  /\ ~job.moved /\ k \in {2, 3} => Field(item, d) = Field(item, Steady)

Measures(item) == ~job.moved => measured = 2 + Len(Field(item, Steady))

Finishes(item, d) ==
  /\ job.items = FormatOf(item) /\ job.todo = <<>> /\ Measures(item)
  /\ \E st : Wrote(st, Made(Field(item, d), 3)) /\ sprint = Terminate(st)

PrintfInv ==
  /\ JobRecord
  /\ \/ job.by = "none" /\ job.todo = <<>>
     \/ \E item \in SprintItems, d \in Descriptions, k \in 0 .. 3 :
          /\ job.by \in {"sprintf", "measure", "write"}
          /\ Amid(item, d, k) /\ (job.by = "write" => Measures(item))
     \/ \E item \in SprintItems, d \in Descriptions : job.by = "done" /\ Finishes(item, d)

(* There is a description.                                                 *)
LEMMA SteadyFacts == Steady \in Descriptions
  BY PrintfAssumption DEF Steady

(* The invariant of formatting holds at the start.                         *)
LEMMA PrintfStart == PrintfInit => PrintfInv
  BY DEF PrintfInit, PrintfInv, JobRecord

(* A format begins with an empty text.                                     *)
LEMMA BeginKeeps ==
  ASSUME NEW item \in SprintItems, NEW size \in 0 .. Room + 1, NEW by \in {"sprintf", "measure"},
         job' = [todo |-> FormatOf(item), items |-> FormatOf(item), by |-> by, moved |-> FALSE],
         sprint' = Fresh(size)
  PROVE  PrintfInv'
<1>1. Steady \in Descriptions
  BY SteadyFacts
<1>2. job'.todo = FormatOf(item) /\ job'.items = FormatOf(item) /\ job'.by = by /\ JobRecord'
  BY DEF JobRecord
<1>3. Wrote(sprint', Made(Field(item, Steady), 0))
  BY FreshWrote DEF Made
<1>4. Amid(item, Steady, 0)'
  BY <1>2, <1>3 DEF Amid, Remaining
<1>5. by # "write"
  OBVIOUS
<1>6. 0 \in 0 .. 3
  OBVIOUS
<1>. QED BY <1>1, <1>2, <1>4, <1>5, <1>6 DEF PrintfInv

(* An item adds what stands for it.                                        *)
LEMMA PutItemKeeps ==
  ASSUME PrintfInv, PutItem
  PROVE  PrintfInv'
<1>1. PICK e \in Descriptions :
        /\ sprint' = PutAll(sprint, Field(Head(job.todo), e))
        /\ job' = [job EXCEPT !.todo = Tail(@),
                              !.moved = job.moved \/ (Head(job.todo).conv = "@" /\ e # Steady)]
  BY DEF PutItem
<1>2. job.todo # <<>> /\ measured' = measured
  BY DEF PutItem
<1>3. /\ JobRecord'
      /\ job'.todo = Tail(job.todo) /\ job'.items = job.items /\ job'.by = job.by
      /\ job'.moved = (job.moved \/ (Head(job.todo).conv = "@" /\ e # Steady))
  <2>1. job = [todo |-> job.todo, items |-> job.items, by |-> job.by, moved |-> job.moved]
    BY DEF PrintfInv, JobRecord
  <2>2. job' = [todo |-> Tail(job.todo), items |-> job.items, by |-> job.by,
                moved |-> (job.moved \/ (Head(job.todo).conv = "@" /\ e # Steady))]
    BY <1>1, <2>1
  <2>. QED BY <2>2, Zenon DEF JobRecord
<1>4. ASSUME NEW item \in SprintItems, NEW d \in Descriptions, NEW k \in 0 .. 3,
             job.by \in {"sprintf", "measure", "write"}, Amid(item, d, k), job.by = "write" => Measures(item)
      PROVE  PrintfInv'
  <2>1. k # 3 /\ k + 1 \in 0 .. 3
    <3>1. k # 3
      BY <1>2, <1>4, RestFacts DEF Amid
    <3>. QED BY <3>1
  <2>2. job'.items = FormatOf(item) /\ job'.todo = Remaining(item, k + 1)
    BY <1>3, <1>4, <2>1, RestFacts DEF Amid
  <2>3. ~job'.moved => ~job.moved
    BY <1>3, Zenon
  <2>4. job'.by = "write" => Measures(item)'
    BY <1>2, <1>3, <1>4, <2>3, Zenon DEF Measures
  <2>. DEFINE g == IF k = 1 THEN e ELSE d
  <2>5. /\ Wrote(sprint', Made(Field(item, g), k + 1))
        /\ ~job'.moved /\ k + 1 \in {2, 3} => Field(item, g) = Field(item, Steady)
    <3>1. "<" \in Chars /\ ">" \in Chars
      BY DEF Chars
    <3>2. Wrote(sprint, Made(Field(item, d), k)) /\ Head(job.todo) = Head(Remaining(item, k))
      BY <1>4 DEF Amid
    <3>3. CASE k = 0
      <4>1. Head(job.todo) = Lit("<")
        BY <2>1, <3>2, <3>3, RestFacts
      <4>2. Field(Lit("<"), e) = <<"<">> /\ <<"<">> \in Seq(Chars)
        BY <3>1, LitFacts
      <4>3. Wrote(sprint', <<>> \o <<"<">>)
        BY <1>1, <3>2, <3>3, <4>1, <4>2, WroteMore DEF Made
      <4>4. <<>> \o <<"<">> = <<"<">>
        OBVIOUS
      <4>5. Made(Field(item, g), k + 1) = <<"<">> /\ k + 1 \notin {2, 3}
        BY <3>3 DEF Made
      <4>. QED BY <4>3, <4>4, <4>5
    <3>4. CASE k = 1
      <4>1. Head(job.todo) = item /\ g = e
        BY <2>1, <3>2, <3>4, RestFacts
      <4>2. Field(item, e) \in Seq(Chars)
        BY FieldFacts DEF SprintItems
      <4>3. Wrote(sprint', <<"<">> \o Field(item, e))
        BY <1>1, <3>2, <3>4, <4>1, <4>2, WroteMore DEF Made
      <4>4. Made(Field(item, e), k + 1) = <<"<">> \o Field(item, e)
        BY <3>4 DEF Made
      <4>5. ASSUME ~job'.moved PROVE Field(item, e) = Field(item, Steady)
        <5>1. item.conv # "@" \/ e = Steady
          BY <1>3, <4>1, <4>5, Zenon
        <5>. QED BY <5>1, FieldFacts, SteadyFacts DEF SprintItems
      <4>. QED BY <4>1, <4>3, <4>4, <4>5
    <3>5. CASE k = 2
      <4>1. Head(job.todo) = Lit(">") /\ g = d
        BY <2>1, <3>2, <3>5, RestFacts
      <4>2. Field(Lit(">"), e) = <<">">> /\ <<">">> \in Seq(Chars)
        BY <3>1, LitFacts
      <4>3. Wrote(sprint', <<"<">> \o Field(item, d) \o <<">">>)
        <5>. DEFINE t == <<"<">> \o Field(item, d)
                    u == <<">">>
        <5>1. Made(Field(item, d), k) = t
          BY <3>5 DEF Made
        <5>2. Wrote(sprint, t) /\ u \in Seq(Chars) /\ sprint' = PutAll(sprint, u)
          BY <1>1, <3>2, <4>1, <4>2, <5>1
        <5>. HIDE DEF t, u
        <5>3. Wrote(sprint', t \o u)
          BY <5>2, WroteMore
        <5>. QED BY <5>3 DEF t, u
      <4>4. Made(Field(item, d), k + 1) = <<"<">> \o Field(item, d) \o <<">">>
        BY <3>5 DEF Made
      <4>5. ~job.moved => Field(item, d) = Field(item, Steady)
        BY <1>4, <3>5 DEF Amid
      <4>. QED BY <2>3, <4>1, <4>3, <4>4, <4>5
    <3>. QED BY <2>1, <3>3, <3>4, <3>5
  <2>6. Amid(item, g, k + 1)'
    BY <2>2, <2>5 DEF Amid
  <2>7. g \in Descriptions
    OBVIOUS
  <2>8. job'.by \in {"sprintf", "measure", "write"}
    BY <1>3, <1>4
  <2>. HIDE DEF g
  <2>. QED BY <1>3, <2>1, <2>4, <2>6, <2>7, <2>8 DEF PrintfInv
<1>5. ~(job.by = "none" /\ job.todo = <<>>)
  BY <1>2
<1>6. ~(\E item \in SprintItems, d \in Descriptions : job.by = "done" /\ Finishes(item, d))
  BY <1>2 DEF Finishes
<1>. QED BY <1>4, <1>5, <1>6 DEF PrintfInv

(* After the first pass the format begins anew in memory of the length     *)
(* found.                                                                  *)
LEMMA MeasuredKeeps ==
  ASSUME PrintfInv, Measured
  PROVE  PrintfInv'
<1>1. /\ job.by = "measure" /\ job.todo = <<>> /\ measured' = sprint.pos /\ sprint' = Fresh(sprint.pos + 1)
      /\ job' = [job EXCEPT !.by = "write", !.todo = job.items]
  BY DEF Measured
<1>2. PICK item \in SprintItems, d \in Descriptions, k \in 0 .. 3 : Amid(item, d, k)
  BY <1>1 DEF PrintfInv
<1>3. JobRecord' /\ job'.todo = job.items /\ job'.items = job.items /\ job'.by = "write" /\ job'.moved = job.moved
  <2>1. job = [todo |-> job.todo, items |-> job.items, by |-> job.by, moved |-> job.moved]
    BY DEF PrintfInv, JobRecord
  <2>2. job' = [todo |-> job.items, items |-> job.items, by |-> "write", moved |-> job.moved]
    BY <1>1, <2>1
  <2>. QED BY <2>2, Zenon DEF JobRecord
<1>4. k = 3
  BY <1>1, <1>2, RestFacts DEF Amid
<1>. DEFINE f == Field(item, d)
            g == Field(item, Steady)
<1>5. f \in Seq(Chars) /\ Len(f) \in Nat /\ Len(Made(f, 3)) = 2 + Len(f)
  <2>1. f \in Seq(Chars)
    BY FieldFacts DEF SprintItems
  <2>. HIDE DEF f
  <2>. QED BY <2>1, MadeFacts, LenProperties
<1>6. sprint.pos = 2 + Len(f) /\ (~job.moved => f = g)
  BY <1>2, <1>4, <1>5 DEF Amid, Wrote
<1>7. Measures(item)'
  BY <1>1, <1>3, <1>6, Zenon DEF Measures
<1>8. sprint.pos + 1 \in 0 .. Room + 1
  <2>1. Len(f) + 2 <= Room /\ Room \in Nat
    BY PrintfAssumption DEF SprintItems
  <2>. HIDE DEF f
  <2>2. sprint.pos = 2 + Len(f)
    BY <1>6
  <2>. QED BY <1>5, <2>1, <2>2
<1>9. Wrote(sprint', <<>>)
  BY <1>1, <1>8, FreshWrote
<1>10. Amid(item, d, 0)'
  <2>1. job'.items = FormatOf(item) /\ job'.todo = Remaining(item, 0)
    BY <1>2, <1>3 DEF Amid, Remaining
  <2>2. Made(Field(item, d), 0) = <<>> /\ 0 \notin {2, 3}
    BY DEF Made
  <2>. QED BY <1>9, <2>1, <2>2 DEF Amid
<1>11. 0 \in 0 .. 3
  OBVIOUS
<1>. QED BY <1>3, <1>7, <1>10, <1>11 DEF PrintfInv

(* After the last pass the text is terminated.                             *)
LEMMA FormattedKeeps ==
  ASSUME PrintfInv, Formatted
  PROVE  PrintfInv'
<1>1. /\ job.by \in {"sprintf", "write"} /\ job.todo = <<>> /\ sprint' = Terminate(sprint)
      /\ job' = [job EXCEPT !.by = "done"]
      /\ measured' = IF job.by = "sprintf" THEN sprint.pos ELSE measured
  BY DEF Formatted
<1>2. PICK item \in SprintItems, d \in Descriptions, k \in 0 .. 3 : Amid(item, d, k) /\ (job.by = "write" => Measures(item))
  BY <1>1 DEF PrintfInv
<1>3. JobRecord' /\ job'.todo = <<>> /\ job'.items = job.items /\ job'.by = "done" /\ job'.moved = job.moved
  <2>1. job = [todo |-> job.todo, items |-> job.items, by |-> job.by, moved |-> job.moved]
    BY DEF PrintfInv, JobRecord
  <2>2. job' = [todo |-> job.todo, items |-> job.items, by |-> "done", moved |-> job.moved]
    BY <1>1, <2>1
  <2>. QED BY <1>1, <2>2, Zenon DEF JobRecord
<1>4. k = 3
  BY <1>1, <1>2, RestFacts DEF Amid
<1>. DEFINE f == Field(item, d)
            g == Field(item, Steady)
<1>5. f \in Seq(Chars) /\ Len(Made(f, 3)) = 2 + Len(f)
  <2>1. f \in Seq(Chars)
    BY FieldFacts DEF SprintItems
  <2>. HIDE DEF f
  <2>. QED BY <2>1, MadeFacts
<1>6. sprint.pos = 2 + Len(f) /\ (~job.moved => f = g) /\ Wrote(sprint, Made(f, 3))
  BY <1>2, <1>4, <1>5 DEF Amid, Wrote
<1>7. Measures(item)'
  <2>1. CASE job.by = "sprintf"
    <3>1. measured' = sprint.pos
      BY <1>1, <2>1
    <3>. QED BY <1>3, <1>6, <3>1, Zenon DEF Measures
  <2>2. CASE job.by = "write"
    <3>1. measured' = measured /\ Measures(item)
      BY <1>1, <1>2, <2>2
    <3>. QED BY <1>3, <3>1, Zenon DEF Measures
  <2>. QED BY <1>1, <2>1, <2>2
<1>8. Finishes(item, d)'
  BY <1>1, <1>2, <1>3, <1>6, <1>7 DEF Finishes, Amid
<1>. QED BY <1>3, <1>8 DEF PrintfInv

(* Every step of formatting keeps the invariant.                           *)
LEMMA PrintfKeeps ==
  ASSUME PrintfInv, [PrintfStep]_printfVars
  PROVE  PrintfInv'
<1>1. ASSUME NEW item \in SprintItems, FormatString(item) PROVE PrintfInv'
  <2>1. 0 \in 0 .. Room + 1
    BY PrintfAssumption
  <2>. QED BY <1>1, <2>1, BeginKeeps DEF FormatString
<1>2. ASSUME NEW item \in SprintItems, NEW size \in Rooms, Sprintf(item, size) PROVE PrintfInv'
  <2>1. size \in 0 .. Room + 1
    <3>1. Rooms \subseteq 0 .. Room /\ Room \in Nat
      BY PrintfAssumption
    <3>. QED BY <3>1
  <2>. QED BY <1>2, <2>1, BeginKeeps DEF Sprintf
<1>3. CASE UNCHANGED printfVars
  BY <1>3 DEF printfVars, PrintfInv, JobRecord, Amid, Measures, Finishes
<1>. QED BY <1>1, <1>2, <1>3, PutItemKeeps, MeasuredKeeps, FormattedKeeps DEF PrintfStep, SprintItems

(* Where the terminator goes.                                              *)
EndOf(st) == IF st.pos < st.size - 1 THEN st.pos ELSE st.size - 1

(* The terminator goes after what was written, and inside the buffer.      *)
LEMMA TerminateFacts ==
  ASSUME NEW st, NEW t, Wrote(st, t)
  PROVE  /\ Terminate(st).size = st.size /\ Terminate(st).pos = st.pos
         /\ st.size = 0 => \A i \in 0 .. Room : Terminate(st).cells[i] = Unset
         /\ st.size > 0 =>
              /\ EndOf(st) \in 0 .. Room /\ EndOf(st) <= st.size - 1 /\ EndOf(st) <= Len(t)
              /\ EndOf(st) = IF st.pos < st.size THEN st.pos ELSE st.size - 1
              /\ \A i \in 0 .. Room : Terminate(st).cells[i] =
                   IF i = EndOf(st) THEN End ELSE IF i < EndOf(st) THEN t[i + 1] ELSE Unset
<1>. DEFINE to == Terminate(st)
            n == st.pos
            x == st.size
            e == EndOf(st)
<1>1. /\ st \in Sprints /\ st = [size |-> st.size, pos |-> st.pos, cells |-> st.cells] /\ t \in Seq(Chars)
      /\ n \in Nat /\ x \in Nat /\ x <= Room + 1 /\ n = Len(t) /\ st.cells \in [0 .. Room -> SprintCells]
  BY DEF Wrote, Sprints
<1>2. Room \in Nat
  BY PrintfAssumption
<1>3. \A i \in 0 .. Room : st.cells[i] = IF i < n /\ i < x - 1 THEN t[i + 1] ELSE Unset
  BY <1>1 DEF Wrote
<1>4. CASE x = 0
  <2>1. to = st
    BY <1>4 DEF Terminate
  <2>2. ASSUME NEW i \in 0 .. Room PROVE ~(i < x - 1)
    BY <1>4
  <2>3. \A i \in 0 .. Room : to.cells[i] = Unset
    BY <1>3, <2>1, <2>2
  <2>. QED BY <1>4, <2>1, <2>3
<1>5. CASE x > 0
  <2>1. e = IF n < x - 1 THEN n ELSE x - 1
    BY DEF EndOf
  <2>2. to = [st EXCEPT !.cells[e] = End]
    BY <1>5 DEF Terminate, EndOf
  <2>3. to = [size |-> st.size, pos |-> st.pos, cells |-> [st.cells EXCEPT ![e] = End]]
    <3>. HIDE DEF e
    <3>. QED BY ONLY <1>1, <2>2
  <2>4. to.size = x /\ to.pos = n /\ to.cells = [st.cells EXCEPT ![e] = End]
    <3>. HIDE DEF e
    <3>. QED BY ONLY <2>3 DEF x, n
  <2>. HIDE DEF to, n, x, e
  <2>5. e \in 0 .. Room /\ e <= x - 1 /\ e <= n /\ (e = IF n < x THEN n ELSE x - 1)
    <3>1. CASE n < x - 1
      BY ONLY <1>1, <1>2, <1>5, <2>1, <3>1
    <3>2. CASE ~(n < x - 1)
      BY ONLY <1>1, <1>2, <1>5, <2>1, <3>2
    <3>. QED BY <3>1, <3>2
  <2>6. ASSUME NEW i \in 0 .. Room
        PROVE  to.cells[i] = IF i = e THEN End ELSE IF i < e THEN t[i + 1] ELSE Unset
    <3>1. CASE i = e
      BY <1>1, <2>4, <3>1
    <3>2. CASE i # e
      <4>1. to.cells[i] = st.cells[i]
        BY <1>1, <2>4, <3>2
      <4>2. i < e <=> i < n /\ i < x - 1
        BY ONLY <1>1, <1>5, <2>1, <3>2, i \in 0 .. Room
      <4>. QED BY <1>3, <3>2, <4>1, <4>2, Zenon
    <3>. QED BY <3>1, <3>2
  <2>7. ~(x = 0)
    BY <1>1, <1>5
  <2>. QED BY <1>1, <2>4, <2>5, <2>6, <2>7 DEF to, n, x, e
<1>6. x = 0 \/ x > 0
  BY <1>1
<1>. QED BY <1>4, <1>5, <1>6

(* The buffer holds the text as far as it fits and nothing is written past *)
(* it.                                                                     *)
LEMMA BufferKept ==
  ASSUME PrintfInv
  PROVE  BufferHolds
<1>. SUFFICES ASSUME job.by = "done"
              PROVE  /\ \A i \in 0 .. Room : i >= sprint.size => sprint.cells[i] = Unset
                     /\ sprint.size > 0 =>
                         \E end \in 0 .. sprint.size - 1 :
                           /\ sprint.cells[end] = End
                           /\ \A j \in 0 .. Room : (j < end) <=> (sprint.cells[j] \notin {End, Unset})
                           /\ end = IF sprint.pos < sprint.size THEN sprint.pos ELSE sprint.size - 1
  BY DEF BufferHolds, Finished
<1>1. PICK item \in SprintItems, d \in Descriptions : Finishes(item, d)
  BY DEF PrintfInv
<1>2. PICK st : Wrote(st, Made(Field(item, d), 3)) /\ sprint = Terminate(st)
  BY <1>1 DEF Finishes
<1>. DEFINE t == Made(Field(item, d), 3)
            n == st.pos
            x == st.size
            e == EndOf(st)
<1>. HIDE DEF t
<1>3. Wrote(st, t)
  BY <1>2 DEF t
<1>4. /\ sprint.size = x /\ sprint.pos = n /\ x \in Nat /\ n \in Nat /\ n = Len(t) /\ t \in Seq(Chars)
      /\ x = 0 => \A i \in 0 .. Room : sprint.cells[i] = Unset
      /\ x > 0 =>
           /\ e \in 0 .. Room /\ e <= x - 1 /\ e <= Len(t) /\ (e = IF n < x THEN n ELSE x - 1)
           /\ \A i \in 0 .. Room : sprint.cells[i] = IF i = e THEN End ELSE IF i < e THEN t[i + 1] ELSE Unset
  <2>1. x \in Nat /\ n \in Nat /\ n = Len(t) /\ t \in Seq(Chars)
    BY <1>3 DEF Wrote, Sprints
  <2>. QED BY <1>2, <1>3, <2>1, TerminateFacts
<1>. HIDE DEF n, x, e
<1>5. CASE x = 0
  <2>1. ~(x > 0)
    BY <1>5
  <2>. QED BY <1>4, <1>5, <2>1, Zenon
<1>6. CASE x > 0
  <2>1. \A i \in 0 .. Room : sprint.cells[i] = IF i = e THEN End ELSE IF i < e THEN t[i + 1] ELSE Unset
    BY <1>4, <1>6
  <2>2. e \in 0 .. Room /\ e <= x - 1 /\ e <= Len(t) /\ (e = IF n < x THEN n ELSE x - 1)
    BY <1>4, <1>6
  <2>3. ASSUME NEW i \in 0 .. Room, i >= x PROVE sprint.cells[i] = Unset
    <3>1. i # e /\ ~(i < e)
      BY <1>4, <2>2, <2>3
    <3>. QED BY <2>1, <3>1
  <2>4. ASSUME NEW j \in 0 .. Room PROVE (j < e) <=> (sprint.cells[j] \notin {End, Unset})
    <3>1. CASE j < e
      <4>1. j + 1 \in 1 .. Len(t) /\ j # e
        BY <1>4, <2>2, <3>1
      <4>2. t[j + 1] \in Chars
        BY <1>4, <4>1, ElementOfSeq
      <4>3. \A c \in Chars : c \notin {End, Unset}
        BY DEF Chars, Digit, End, Unset
      <4>4. sprint.cells[j] = t[j + 1]
        BY <2>1, <3>1, <4>1, Zenon
      <4>. QED BY <3>1, <4>2, <4>3, <4>4, Zenon
    <3>2. CASE ~(j < e)
      <4>1. sprint.cells[j] \in {End, Unset}
        BY <2>1, <3>2, Zenon
      <4>. QED BY <3>2, <4>1, Zenon
    <3>. QED BY <3>1, <3>2
  <2>5. e \in 0 .. x - 1 /\ sprint.cells[e] = End
    <3>1. e \in 0 .. x - 1
      BY ONLY <1>4, <2>2
    <3>. QED BY <2>1, <2>2, <3>1
  <2>. QED BY <1>4, <2>2, <2>3, <2>4, <2>5, Zenon
<1>7. x = 0 \/ x > 0
  BY <1>4
<1>. QED BY <1>5, <1>6, <1>7

(* The items of a format.                                                  *)
LEMMA FormatFacts ==
  ASSUME NEW item
  PROVE  /\ FormatOf(item)[2] = item
         /\ Len(FormatOf(item)[1].arg) = 1 /\ Len(FormatOf(item)[3].arg) = 1
  BY DEF FormatOf, Lit, Item

(* The length returned is the length of the text.                          *)
LEMMA LengthKept ==
  ASSUME PrintfInv
  PROVE  LengthAgrees
<1>. SUFFICES ASSUME job.by = "done", ~job.moved
              PROVE  measured = Len(job.items[1].arg) + Len(job.items[3].arg) + Len(Field(job.items[2], Steady))
  BY Zenon DEF LengthAgrees, Finished
<1>1. PICK item \in SprintItems, d \in Descriptions : Finishes(item, d)
  BY DEF PrintfInv
<1>2. job.items = FormatOf(item) /\ measured = 2 + Len(Field(item, Steady))
  BY <1>1 DEF Finishes, Measures
<1>. DEFINE n == Len(Field(item, Steady))
<1>3. Len(job.items[1].arg) = 1 /\ Len(job.items[3].arg) = 1 /\ job.items[2] = item
  BY <1>2, FormatFacts
<1>4. n \in Nat
  <2>1. Field(item, Steady) \in Seq(Chars)
    BY FieldFacts, SteadyFacts DEF SprintItems
  <2>. QED BY <2>1, LenProperties
<1>5. measured = 2 + n /\ Len(Field(job.items[2], Steady)) = n
  BY <1>2, <1>3
<1>. HIDE DEF n
<1>6. 2 + n = 1 + 1 + n
  BY <1>4
<1>. QED BY <1>3, <1>5, <1>6, Zenon

(* A number in a finished text reads back.                                 *)
LEMMA ReadsKept ==
  ASSUME PrintfInv
  PROVE  ReadsBack
<1>. SUFFICES ASSUME job.by = "done", sprint.size > sprint.pos, job.items[2].conv \in NumberConvs
              PROVE  Reads(SubSeq(TextOf(sprint.cells), 2, Len(TextOf(sprint.cells)) - 1), job.items[2])
  BY Zenon DEF ReadsBack, Finished, NumberConvs
<1>1. PICK item \in SprintItems, d \in Descriptions : Finishes(item, d)
  BY DEF PrintfInv
<1>2. PICK st : Wrote(st, Made(Field(item, d), 3)) /\ sprint = Terminate(st)
  BY <1>1 DEF Finishes
<1>. DEFINE f == Field(item, d)
            t == Made(f, 3)
            n == st.pos
            x == st.size
            m == Len(f)
<1>3. f \in Seq(Chars) /\ (item.conv \in NumberConvs => Reads(f, item)) /\ job.items[2] = item
  BY <1>1, FieldFacts, FormatFacts DEF Finishes, SprintItems
<1>. HIDE DEF f
<1>4. m \in Nat /\ Len(t) = 2 + m /\ t \in Seq(Chars) /\ \A i \in 1 .. m : t[i + 1] = f[i]
  BY <1>3, MadeFacts, LenProperties
<1>. HIDE DEF t, m
<1>5. Wrote(st, t)
  BY <1>2 DEF t, f
<1>6. /\ sprint.size = x /\ sprint.pos = n /\ x \in Nat /\ n = 2 + m /\ x <= Room + 1
      /\ x > 0 => \A i \in 0 .. Room : sprint.cells[i] = IF i = EndOf(st) THEN End ELSE IF i < EndOf(st) THEN t[i + 1] ELSE Unset
      /\ x > 0 => EndOf(st) = IF n < x THEN n ELSE x - 1
  <2>1. x \in Nat /\ n = Len(t) /\ x <= Room + 1
    BY <1>5 DEF Wrote, Sprints
  <2>. QED BY <1>2, <1>4, <1>5, <2>1, TerminateFacts
<1>. HIDE DEF n, x
<1>7. n < x /\ x > 0 /\ n \in 0 .. Room /\ Room \in Nat /\ n \in Nat
  <2>1. Room \in Nat
    BY PrintfAssumption
  <2>2. x > n
    BY <1>6
  <2>. QED BY <1>4, <1>6, <2>1, <2>2
<1>8. \A i \in 0 .. Room : sprint.cells[i] = IF i = n THEN End ELSE IF i < n THEN t[i + 1] ELSE Unset
  BY <1>6, <1>7
<1>. DEFINE P(i) == sprint.cells[i] = End /\ \A j \in 0 .. i - 1 : sprint.cells[j] # End
            end == CHOOSE i \in 0 .. Room : P(i)
<1>9. ASSUME NEW j \in 0 .. Room, j < n PROVE sprint.cells[j] = t[j + 1] /\ sprint.cells[j] # End
  <2>1. j + 1 \in 1 .. Len(t) /\ j # n
    BY <1>4, <1>6, <1>9
  <2>2. t[j + 1] \in Chars
    BY <1>4, <2>1, ElementOfSeq
  <2>3. \A c \in Chars : c # End
    BY DEF Chars, Digit, End
  <2>4. sprint.cells[j] = t[j + 1]
    BY <1>8, <1>9, <2>1, Zenon
  <2>. QED BY <2>2, <2>3, <2>4
<1>10. end = n
  <2>1. P(n)
    <3>1. sprint.cells[n] = End
      BY <1>7, <1>8
    <3>2. \A j \in 0 .. n - 1 : j \in 0 .. Room /\ j < n
      BY <1>7
    <3>. QED BY <1>9, <3>1, <3>2
  <2>2. ASSUME NEW i \in 0 .. Room, P(i) PROVE i = n
    <3>1. CASE i < n
      BY <1>9, <2>2, <3>1
    <3>2. CASE i > n
      <4>1. n \in 0 .. i - 1
        BY <1>7, <3>2
      <4>2. sprint.cells[n] = End
        BY <2>1
      <4>. QED BY <2>2, <4>1, <4>2
    <3>. QED BY <1>7, <3>1, <3>2
  <2>. HIDE DEF P
  <2>. QED BY <1>7, <2>1, <2>2
<1>. DEFINE w == TextOf(sprint.cells)
            s == SubSeq(w, 2, Len(w) - 1)
<1>11. w = [i \in 1 .. n |-> sprint.cells[i - 1]]
  <2>1. w = [i \in 1 .. end |-> sprint.cells[i - 1]]
    BY DEF TextOf
  <2>. HIDE DEF end
  <2>. QED BY <1>10, <2>1
<1>12. w \in Seq(Chars) /\ Len(w) = n /\ \A i \in 1 .. n : w[i] = t[i]
  <2>. HIDE DEF w
  <2>1. ASSUME NEW i \in 1 .. n PROVE w[i] = t[i] /\ t[i] \in Chars
    <3>1. i - 1 \in 0 .. Room /\ i - 1 < n /\ (i - 1) + 1 = i /\ i \in 1 .. Len(t)
      BY <1>4, <1>6, <1>7
    <3>2. w[i] = sprint.cells[i - 1]
      BY <1>11
    <3>3. sprint.cells[i - 1] = t[(i - 1) + 1]
      BY <1>9, <3>1
    <3>. QED BY <1>4, <3>1, <3>2, <3>3, ElementOfSeq
  <2>2. DOMAIN w = 1 .. n /\ w = [i \in 1 .. n |-> w[i]] /\ n \in Nat
    BY <1>7, <1>11
  <2>. QED BY <2>1, <2>2, MadeSeq
<1>. HIDE DEF w, end, P
<1>13. s \in Seq(Chars) /\ Len(s) = m /\ \A i \in 1 .. m : s[i] = w[2 + i - 1]
  <2>1. 2 \in Nat \ {0} /\ n - 1 \in Nat /\ n - 1 <= n /\ 2 <= (n - 1) + 1 /\ (n - 1) - 2 + 1 = m
    BY <1>4, <1>6
  <2>. QED BY <1>12, <2>1, PartFacts
<1>. HIDE DEF s
<1>14. \A i \in 1 .. m : s[i] = f[i]
  <2>. SUFFICES ASSUME NEW i \in 1 .. m PROVE s[i] = f[i]
    OBVIOUS
  <2>1. 2 + i - 1 = i + 1 /\ i + 1 \in 1 .. n
    BY <1>4, <1>6
  <2>. QED BY <1>4, <1>12, <1>13, <2>1
<1>15. s = f
  <2>1. DOMAIN s = 1 .. m /\ s = [i \in 1 .. m |-> s[i]]
    BY <1>13, SeqFacts
  <2>2. DOMAIN f = 1 .. m /\ f = [i \in 1 .. m |-> f[i]]
    BY <1>3, SeqFacts DEF m
  <2>. QED BY <1>14, <2>1, <2>2
<1>16. Reads(s, item)
  BY <1>3, <1>15
<1>. QED BY <1>3, <1>16 DEF s, w

(* sys_sprintf and its variants write no further than the buffer, return   *)
(* the length of the whole text and write numbers that read back: for any  *)
(* width of integers, any flags, widths and buffers.                       *)
THEOREM FormatsKept ==
  PrintfSpec => [](BufferHolds /\ LengthAgrees /\ ReadsBack)
<1>1. PrintfInv => BufferHolds /\ LengthAgrees /\ ReadsBack
  BY BufferKept, LengthKept, ReadsKept
<1>. QED BY <1>1, PrintfStart, PrintfKeeps, PTL DEF PrintfSpec

(* All that is promised of texts, where a program neither changes nor      *)
(* releases a string that others refer to: for any strings, texts and      *)
(* formats.                                                                *)
THEOREM TextIsSafe ==
  ASSUME Careful
  PROVE  StringsSpec /\ PrintfSpec => []TextSafe
<1>1. (TextKept /\ BytesKept /\ NoOverrun /\ AnswersByText) /\ (BufferHolds /\ LengthAgrees /\ ReadsBack) => TextSafe
  BY DEF TextSafe
<1>2. StringsSpec => [](TextKept /\ BytesKept /\ NoOverrun /\ AnswersByText)
  BY TextsSafe
<1>. QED BY <1>1, <1>2, FormatsKept, PTL
=============================================================================
