---------------------------- MODULE MemoryProofs ----------------------------
(***************************************************************************)
(* TLAPS proofs about Zone, for every size of headers, arenas and          *)
(* allocations, every alignment and any number of arenas, and about        *)
(* Objects, for any items, arrays, maps and keys and every bound.          *)
(***************************************************************************)
EXTENDS Zone, Objects, FiniteSetTheorems, WellFoundedInduction, SequenceTheorems, TLAPS

-----------------------------------------------------------------------------
(* The search ends at the last place there is.                             *)
LEMMA HighestPlace ==
  ASSUME NEW n \in Int, NEW P \in SUBSET (0 .. n), P # {}
  PROVE  Highest(P) \in P /\ \A q \in P : q <= Highest(P)
<1>. DEFINE T == {n - p : p \in P}
            R == OpToRel(<, Nat)
<1>1. T \subseteq Nat /\ T # {}
  <2>1. \A p \in P : p \in 0 .. n /\ n - p \in Nat
    OBVIOUS
  <2>. QED BY <2>1
<1>2. PICK x \in T : \A y \in T : <<y, x>> \notin R
  BY <1>1, NatLessThanWellFounded, WFMin
<1>3. \A y \in T : ~(y < x)
  BY <1>1, <1>2 DEF OpToRel
<1>4. PICK p \in P : x = n - p
  OBVIOUS
<1>5. \A q \in P : q <= p
  <2>. SUFFICES ASSUME NEW q \in P PROVE q <= p
    OBVIOUS
  <2>1. n - q \in T /\ q \in Int /\ p \in Int
    OBVIOUS
  <2>2. ~(n - q < n - p)
    BY <1>3, <1>4, <2>1
  <2>. QED BY <2>1, <2>2
<1>. QED BY <1>4, <1>5 DEF Highest

-----------------------------------------------------------------------------
(* The inductive invariant.                                                *)

BlockSet == [at : Nat, size : Nat]
Arena == [size : Nat, chain : Seq(BlockSet), tail : Int]
Apart(b, c) == ~Meets(b.at, Header + b.size, c)

(* The blocks of an arena lie in it and apart, and the tail is the last.   *)
ArenaOK(a) ==
  /\ a \in Arena
  /\ a.chain # <<>> => a.tail = a.chain[Len(a.chain)].at
  /\ \A k \in DOMAIN a.chain : a.chain[k].at + Header + a.chain[k].size <= a.size
  /\ \A j, k \in DOMAIN a.chain : j # k => Apart(a.chain[j], a.chain[k])

Linked(a, block) == \E k \in DOMAIN a.chain : a.chain[k] = block

(* Everything the program holds is linked, and counted.                    *)
HeldLinked ==
  /\ IsFiniteSet(held) /\ count = Cardinality(held)
  /\ \A b \in held :
       /\ b \in [arena : DOMAIN arenas, at : Nat, size : Nat]
       /\ Linked(arenas[b.arena], Block(b.at, b.size))

(* The zone's object is linked, and nobody else's.                         *)
OwnLinked ==
  \E k \in DOMAIN arenas[1].chain :
    /\ arenas[1].chain[k].size = ObjectSize
    /\ \A b \in held : b.arena = 1 => b.at # arenas[1].chain[k].at

IndInv ==
  /\ zone \in {"used", "freed"}
  /\ zone = "freed" => held = {}
  /\ zone = "used" =>
       /\ arenas # <<>> /\ arenas \in Seq(Arena)
       /\ \A n \in DOMAIN arenas : ArenaOK(arenas[n])
       /\ HeldLinked /\ OwnLinked

-----------------------------------------------------------------------------
(* What the operations do to one arena.                                    *)

(* A block in a free place keeps all blocks apart.                         *)
LEMMA PlaceApart ==
  ASSUME NEW a, ArenaOK(a), NEW size \in Nat, NEW p \in Places(a, size)
  PROVE  /\ ArenaOK(Place(a, p, size))
         /\ Place(a, p, size).chain = Append(a.chain, Block(p, size))
         /\ \A k \in DOMAIN a.chain : a.chain[k].at # p
<1>. DEFINE c == a.chain
            d == Append(c, Block(p, size))
            b == Place(a, p, size)
<1>. USE ZoneAssumption
<1>1. /\ c \in Seq(BlockSet) /\ a.size \in Nat /\ p \in Nat
      /\ p + Header + size <= a.size
      /\ \A k \in DOMAIN c : ~Meets(p, Header + size, c[k])
  BY DEF ArenaOK, Arena, Places
<1>2. /\ Block(p, size) \in BlockSet /\ Block(p, size).at = p /\ Block(p, size).size = size
  BY <1>1 DEF Block, BlockSet
<1>3. /\ d \in Seq(BlockSet) /\ Len(d) = Len(c) + 1 /\ Len(c) \in Nat
      /\ DOMAIN c = 1 .. Len(c) /\ DOMAIN d = 1 .. Len(c) + 1
      /\ \A k \in DOMAIN c : d[k] = c[k]
      /\ d[Len(c) + 1] = Block(p, size) /\ d # <<>>
  BY <1>1, <1>2
<1>4. b = [a EXCEPT !.chain = d, !.tail = p]
  BY DEF Place, ArenaOK
<1>5. /\ b \in Arena
      /\ b.chain = d /\ b.tail = p /\ b.size = a.size
  <2>. HIDE DEF d, b
  <2>1. a \in Arena /\ p \in Int /\ d \in Seq(BlockSet)
    BY <1>1, <1>3 DEF ArenaOK
  <2>. QED BY <1>4, <2>1 DEF Arena
<1>6. \A k \in DOMAIN d : d[k].at + Header + d[k].size <= a.size
  BY <1>1, <1>2, <1>3 DEF ArenaOK
<1>7. ASSUME NEW j \in DOMAIN d, NEW k \in DOMAIN d, j # k
      PROVE  Apart(d[j], d[k])
  <2>. DEFINE last == Len(c) + 1
  <2>1. CASE j # last /\ k # last
    BY <1>3, <1>7, <2>1 DEF ArenaOK
  <2>2. CASE j = last
    <3>1. k \in DOMAIN c /\ d[k] = c[k] /\ d[j] = Block(p, size)
      BY <1>3, <1>7, <2>2
    <3>2. ~Meets(p, Header + size, c[k])
      BY <1>1, <3>1
    <3>3. ~Meets(d[j].at, Header + d[j].size, d[k])
      <4>. HIDE DEF c, d
      <4>. QED BY <1>2, <3>1, <3>2
    <3>. QED BY <3>3 DEF Apart
  <2>3. CASE k = last
    <3>1. j \in DOMAIN c /\ d[j] = c[j] /\ d[k] = Block(p, size) /\ c[j] \in BlockSet
      BY <1>1, <1>3, <1>7, <2>3
    <3>2. ~Meets(p, Header + size, c[j])
      BY <1>1, <3>1
    <3>3. ~Meets(d[j].at, Header + d[j].size, d[k])
      <4>. HIDE DEF c, d
      <4>. QED BY <1>1, <1>2, <3>1, <3>2 DEF Meets, BlockSet
    <3>. QED BY <3>3 DEF Apart
  <2>. QED BY <2>1, <2>2, <2>3
<1>8. \A k \in DOMAIN c : c[k].at # p
  <2>. SUFFICES ASSUME NEW k \in DOMAIN c, c[k].at = p PROVE FALSE
    OBVIOUS
  <2>1. c[k] \in BlockSet /\ ~Meets(p, Header + size, c[k])
    BY <1>1
  <2>. QED BY <1>1, <2>1 DEF Meets, BlockSet
<1>9. ArenaOK(b)
  BY <1>2, <1>3, <1>5, <1>6, <1>7 DEF ArenaOK
<1>. QED BY <1>5, <1>8, <1>9

(* Two blocks of an arena start at different places.                       *)
LEMMA DistinctPlaces ==
  ASSUME NEW a, ArenaOK(a), NEW j \in DOMAIN a.chain, NEW k \in DOMAIN a.chain,
         a.chain[j].at = a.chain[k].at
  PROVE  j = k
<1>. SUFFICES ASSUME j # k PROVE FALSE
  OBVIOUS
<1>1. Apart(a.chain[j], a.chain[k]) /\ a.chain[j] \in BlockSet /\ a.chain[k] \in BlockSet
  BY DEF ArenaOK, Arena
<1>. QED BY <1>1, ZoneAssumption DEF Apart, Meets, BlockSet

(* Leaving one element out of a sequence.                                  *)
LEMMA WithoutSeq ==
  ASSUME NEW S, NEW s \in Seq(S), NEW k \in 1 .. Len(s)
  PROVE  /\ Without(s, k) \in Seq(S) /\ Len(Without(s, k)) = Len(s) - 1
         /\ \A i \in 1 .. Len(s) - 1 :
              Without(s, k)[i] = IF i < k THEN s[i] ELSE s[i + 1]
<1>. DEFINE f == [i \in 1 .. Len(s) - 1 |-> IF i < k THEN s[i] ELSE s[i + 1]]
<1>1. Len(s) \in Nat /\ Len(s) - 1 \in Nat
  OBVIOUS
<1>2. f \in [1 .. Len(s) - 1 -> S]
  OBVIOUS
<1>3. f \in Seq(S) /\ Len(f) = Len(s) - 1
  <2>. HIDE DEF f
  <2>. QED BY <1>1, <1>2, SeqDef, LenProperties
<1>. QED BY <1>1, <1>3 DEF Without

(* A freed block leaves the others as they were, and the tail is the last. *)
LEMMA UnlinkApart ==
  ASSUME NEW a, ArenaOK(a), NEW k \in DOMAIN a.chain
  PROVE  /\ ArenaOK(Unlink(a, k)) /\ Unlink(a, k).size = a.size
         /\ \A j \in DOMAIN a.chain \ {k} : Linked(Unlink(a, k), a.chain[j])
<1>. DEFINE c == a.chain
            d == Without(c, k)
            t == IF c[k].at # a.tail THEN a.tail ELSE IF k > 1 THEN c[k - 1].at ELSE NoTail
            b == Unlink(a, k)
            from(i) == IF i < k THEN i ELSE i + 1
<1>1. /\ a \in Arena /\ c \in Seq(BlockSet) /\ a.tail \in Int
      /\ Len(c) \in Nat /\ DOMAIN c = 1 .. Len(c) /\ k \in 1 .. Len(c)
  BY DEF ArenaOK, Arena
<1>2. /\ d \in Seq(BlockSet) /\ Len(d) = Len(c) - 1 /\ DOMAIN d = 1 .. Len(c) - 1
      /\ \A i \in DOMAIN d : from(i) \in DOMAIN c /\ d[i] = c[from(i)]
  <2>1. d \in Seq(BlockSet) /\ Len(d) = Len(c) - 1
    BY <1>1, WithoutSeq
  <2>2. \A i \in 1 .. Len(c) - 1 : d[i] = IF i < k THEN c[i] ELSE c[i + 1]
    BY <1>1, WithoutSeq, Zenon
  <2>. HIDE DEF c, d
  <2>. QED BY <1>1, <2>1, <2>2
<1>3. t \in Int
  <2>1. c[k].at \in Int /\ (k > 1 => c[k - 1].at \in Int)
    <3>. HIDE DEF c
    <3>1. c[k] \in BlockSet /\ (k > 1 => c[k - 1] \in BlockSet)
      BY <1>1
    <3>. QED BY <3>1 DEF BlockSet
  <2>. HIDE DEF c
  <2>. QED BY <1>1, <2>1 DEF NoTail
<1>4. b \in Arena /\ b.chain = d /\ b.tail = t /\ b.size = a.size
  <2>1. b = [a EXCEPT !.chain = d, !.tail = t]
    BY DEF Unlink
  <2>. HIDE DEF b, c, d, t
  <2>2. a \in Arena /\ d \in Seq(BlockSet) /\ t \in Int
    BY <1>1, <1>2, <1>3
  <2>. QED BY <2>1, <2>2 DEF Arena
<1>5. ASSUME d # <<>> PROVE t = d[Len(d)].at
  <2>1. Len(d) \in DOMAIN d /\ Len(d) = Len(c) - 1 /\ Len(c) > 1
    BY <1>1, <1>2, <1>5
  <2>2. a.tail = c[Len(c)].at
    BY <1>1, <2>1 DEF ArenaOK
  <2>3. CASE k = Len(c)
    <3>1. d[Len(d)] = c[k - 1]
      BY <1>1, <1>2, <2>1, <2>3
    <3>. QED BY <1>1, <2>1, <2>2, <2>3, <3>1
  <2>4. CASE k # Len(c)
    <3>1. d[Len(d)] = c[Len(c)]
      BY <1>1, <1>2, <2>1, <2>4
    <3>2. Len(c) \in DOMAIN c
      BY <1>1, <2>1
    <3>3. c[k].at # c[Len(c)].at
      BY <2>4, <3>2, DistinctPlaces
    <3>. QED BY <2>2, <3>1, <3>3
  <2>. QED BY <2>3, <2>4
<1>6. \A i \in DOMAIN d : d[i].at + Header + d[i].size <= a.size
  BY <1>2 DEF ArenaOK
<1>7. ASSUME NEW i \in DOMAIN d, NEW j \in DOMAIN d, i # j
      PROVE  Apart(d[i], d[j])
  <2>1. from(i) # from(j)
    BY <1>1, <1>2, <1>7
  <2>. HIDE DEF from, d
  <2>. QED BY <1>2, <1>7, <2>1 DEF ArenaOK
<1>8. ASSUME NEW j \in DOMAIN c \ {k} PROVE Linked(b, c[j])
  <2>. DEFINE i == IF j < k THEN j ELSE j - 1
  <2>1. i \in DOMAIN d /\ from(i) = j
    BY <1>1, <1>2, <1>8
  <2>2. d[i] = c[j]
    <3>. HIDE DEF from, i, d
    <3>. QED BY <1>2, <2>1
  <2>. QED BY <1>4, <2>1, <2>2 DEF Linked
<1>9. ArenaOK(b)
  <2>. HIDE DEF b, c, d, t, from
  <2>. QED BY <1>4, <1>5, <1>6, <1>7 DEF ArenaOK
<1>. QED BY <1>4, <1>8, <1>9

(* A placed block is linked, and the others stay where they were.          *)
LEMMA PlaceLinks ==
  ASSUME NEW a, ArenaOK(a), NEW size \in Nat, NEW p \in Places(a, size)
  PROVE  /\ Linked(Place(a, p, size), Block(p, size))
         /\ \A k \in DOMAIN a.chain : /\ k \in DOMAIN Place(a, p, size).chain
                                     /\ Place(a, p, size).chain[k] = a.chain[k]
         /\ \A x : Linked(a, x) => Linked(Place(a, p, size), x)
<1>. DEFINE c == a.chain
            d == Place(a, p, size).chain
<1>1. c \in Seq(BlockSet) /\ d = Append(c, Block(p, size)) /\ Block(p, size) \in BlockSet
  <2>1. p \in Nat
    BY DEF Places
  <2>2. d = Append(c, Block(p, size))
    BY PlaceApart
  <2>. QED BY <2>1, <2>2 DEF ArenaOK, Arena, Block, BlockSet
<1>2. /\ \A k \in DOMAIN c : k \in DOMAIN d /\ d[k] = c[k]
      /\ Len(c) + 1 \in DOMAIN d /\ d[Len(c) + 1] = Block(p, size)
  <2>. HIDE DEF c, d
  <2>. QED BY <1>1
<1>. QED BY <1>2 DEF Linked

(* An arena as it is made is sound.                                        *)
LEMMA EmptyOK ==
  ASSUME NEW size \in Nat
  PROVE  ArenaOK(EmptyArena(size)) /\ EmptyArena(size).size = size
BY DEF ArenaOK, Arena, EmptyArena, NoTail

(* A place that is found is free.                                          *)
LEMMA FoundPlace ==
  ASSUME NEW a, ArenaOK(a), NEW size \in Nat, Places(a, size) # {}
  PROVE  Highest(Places(a, size)) \in Places(a, size) /\ Highest(Places(a, size)) \in Nat
<1>1. a.size - (Header + size) \in Int
  BY ZoneAssumption DEF ArenaOK, Arena
<1>2. Places(a, size) \in SUBSET (0 .. a.size - (Header + size))
  BY DEF Places
<1>3. Highest(Places(a, size)) \in Places(a, size)
  BY <1>1, <1>2, HighestPlace, Zenon
<1>4. \A q \in Places(a, size) : q \in Nat
  BY DEF Places
<1>. QED BY <1>3, <1>4

-----------------------------------------------------------------------------
(* The zone's object finds a place in its arena.                           *)
LEMMA InitOK == ZoneInit => IndInv
<1>. SUFFICES ASSUME ZoneInit PROVE IndInv
  OBVIOUS
<1>. DEFINE root == EmptyArena(ObjectSize + Capacity)
            p == Highest(Places(root, ObjectSize))
            a == Place(root, p, ObjectSize)
<1>1. ObjectSize \in Nat /\ ArenaOK(root) /\ root.size = ObjectSize + Capacity
  BY ZoneAssumption, EmptyOK
<1>2. 0 \in Places(root, ObjectSize)
  <2>1. 0 % Align = 0
    BY ZoneAssumption
  <2>2. 0 \in 0 .. root.size - (Header + ObjectSize)
    BY <1>1, ZoneAssumption
  <2>3. DOMAIN root.chain = {}
    BY DEF EmptyArena
  <2>. HIDE DEF root
  <2>. QED BY <2>1, <2>2, <2>3 DEF Places
<1>. HIDE DEF root
<1>3. p \in Places(root, ObjectSize)
  BY <1>1, <1>2, FoundPlace
<1>. HIDE DEF p
<1>4. ArenaOK(a) /\ Linked(a, Block(p, ObjectSize))
  BY <1>1, <1>3, PlaceApart, PlaceLinks
<1>5. arenas = <<a>> /\ count = 0 /\ held = {} /\ zone = "used"
  BY DEF ZoneInit, root, p
<1>. HIDE DEF a
<1>6. arenas # <<>> /\ arenas \in Seq(Arena) /\ DOMAIN arenas = {1} /\ arenas[1] = a
  BY <1>4, <1>5 DEF ArenaOK
<1>7. HeldLinked
  BY <1>5, FS_EmptySet DEF HeldLinked
<1>8. OwnLinked
  BY <1>4, <1>5, <1>6 DEF OwnLinked, Linked, Block
<1>. QED BY <1>4, <1>5, <1>6, <1>7, <1>8 DEF IndInv

-----------------------------------------------------------------------------
(* The steps that allocate.                                                *)

(* The pointer to a block in a free place of the current arena is new.     *)
LEMMA PointerNew ==
  ASSUME IndInv, zone = "used", NEW n \in DOMAIN arenas, NEW size \in Nat,
         NEW p \in Places(arenas[n], size)
  PROVE  \A b \in held : b.arena = n => b.at # p
<1>. SUFFICES ASSUME NEW b \in held, b.arena = n, b.at = p PROVE FALSE
  OBVIOUS
<1>1. ArenaOK(arenas[n]) /\ Linked(arenas[n], Block(b.at, b.size))
  BY DEF IndInv, HeldLinked
<1>2. \A k \in DOMAIN arenas[n].chain : arenas[n].chain[k].at # p
  BY <1>1, PlaceApart
<1>. QED BY <1>1, <1>2 DEF Linked, Block

(* One more pointer is one more to count.                                  *)
LEMMA OneMore ==
  ASSUME IsFiniteSet(held), count = Cardinality(held), NEW x, x \notin held,
         held' = held \cup {x}, count' = count + 1
  PROVE  IsFiniteSet(held') /\ count' = Cardinality(held')
BY FS_AddElement

(* Allocating in the arena at hand keeps the strengthening.                *)
LEMMA HereOK ==
  ASSUME IndInv, NEW size \in Sizes, AllocHere(size)
  PROVE  IndInv'
<1>. DEFINE n == Current
            p == Highest(Places(arenas[n], size))
            x == Pointer(n, p, size)
            a == Place(arenas[n], p, size)
<1>1. /\ zone = "used" /\ zone' = "used" /\ Places(arenas[n], size) # {}
      /\ arenas' = [arenas EXCEPT ![n] = a]
      /\ held' = held \cup {x} /\ count' = count + 1
  BY DEF AllocHere
<1>2. /\ arenas \in Seq(Arena) /\ n \in DOMAIN arenas /\ 1 \in DOMAIN arenas
      /\ n \in Nat /\ size \in Nat
      /\ \A m \in DOMAIN arenas : ArenaOK(arenas[m])
  BY <1>1, ZoneAssumption DEF IndInv, Current
<1>. HIDE DEF n
<1>3. p \in Places(arenas[n], size) /\ p \in Nat
  BY <1>1, <1>2, FoundPlace
<1>. HIDE DEF p
<1>4. ArenaOK(a) /\ Linked(a, Block(p, size))
  BY <1>2, <1>3, PlaceApart, PlaceLinks
<1>5. /\ \A y : Linked(arenas[n], y) => Linked(a, y)
      /\ \A k \in DOMAIN arenas[n].chain :
           k \in DOMAIN a.chain /\ a.chain[k] = arenas[n].chain[k] /\ a.chain[k].at # p
  BY <1>2, <1>3, PlaceApart, PlaceLinks
<1>. HIDE DEF a
<1>6. /\ arenas' \in Seq(Arena) /\ DOMAIN arenas' = DOMAIN arenas /\ arenas' # <<>>
      /\ arenas'[n] = a /\ \A m \in DOMAIN arenas \ {n} : arenas'[m] = arenas[m]
  BY <1>1, <1>2, <1>4 DEF ArenaOK
<1>7. \A m \in DOMAIN arenas' : ArenaOK(arenas'[m])
  BY <1>2, <1>4, <1>6
<1>8. x \in [arena : DOMAIN arenas, at : Nat, size : Nat] /\ x.arena = n /\ x.at = p /\ x.size = size
  BY <1>2, <1>3 DEF Pointer
<1>. HIDE DEF x
<1>9. x \notin held
  BY <1>1, <1>2, <1>3, <1>8, PointerNew
<1>10. HeldLinked'
  <2>1. IsFiniteSet(held') /\ count' = Cardinality(held')
    BY <1>1, <1>9, OneMore DEF IndInv, HeldLinked
  <2>2. ASSUME NEW b \in held'
        PROVE  /\ b \in [arena : DOMAIN arenas', at : Nat, size : Nat]
               /\ Linked(arenas'[b.arena], Block(b.at, b.size))
    <3>1. CASE b = x
      BY <1>4, <1>6, <1>8, <3>1
    <3>2. CASE b \in held
      <4>1. b \in [arena : DOMAIN arenas, at : Nat, size : Nat]
            /\ Linked(arenas[b.arena], Block(b.at, b.size))
        BY <1>1, <3>2 DEF IndInv, HeldLinked
      <4>. QED BY <1>5, <1>6, <4>1
    <3>. QED BY <1>1, <3>1, <3>2
  <2>. QED BY <2>1, <2>2 DEF HeldLinked
<1>11. OwnLinked'
  <2>1. PICK k \in DOMAIN arenas[1].chain :
          /\ arenas[1].chain[k].size = ObjectSize
          /\ \A b \in held : b.arena = 1 => b.at # arenas[1].chain[k].at
    BY <1>1 DEF IndInv, OwnLinked
  <2>2. k \in DOMAIN arenas'[1].chain /\ arenas'[1].chain[k] = arenas[1].chain[k]
        /\ (n = 1 => arenas[1].chain[k].at # p)
    BY <1>2, <1>5, <1>6, <2>1
  <2>3. \A b \in held' : b.arena = 1 => b.at # arenas'[1].chain[k].at
    BY <1>1, <1>8, <2>1, <2>2
  <2>. QED BY <2>1, <2>2, <2>3 DEF OwnLinked
<1>. QED BY <1>1, <1>6, <1>7, <1>10, <1>11 DEF IndInv

(* A new arena takes the block, when there is room for its header as well; *)
(* the others are as they were.                                            *)
LEMMA GrowOK ==
  ASSUME IndInv, NEW size \in Sizes, AllocGrow(size)
  PROVE  IndInv'
<1>. DEFINE n == Len(arenas) + 1
            new == NewArena(size)
            p == Highest(Places(new, size))
            x == Pointer(n, p, size)
            a == IF Places(new, size) = {} THEN new ELSE Place(new, p, size)
<1>1. /\ zone = "used" /\ zone' = "used" /\ arenas' = Append(arenas, a)
      /\ \/ held' = held /\ count' = count
         \/ /\ Places(new, size) # {}
            /\ held' = held \cup {x} /\ count' = count + 1
  BY DEF AllocGrow, Current
<1>2. /\ arenas \in Seq(Arena) /\ 1 \in DOMAIN arenas /\ DOMAIN arenas = 1 .. Len(arenas)
      /\ Len(arenas) \in Nat /\ size \in Nat
      /\ \A m \in DOMAIN arenas : ArenaOK(arenas[m])
  BY <1>1, ZoneAssumption DEF IndInv
<1>3. ArenaOK(new)
  BY <1>2, EmptyOK, ZoneAssumption DEF NewArena
<1>. HIDE DEF new
<1>4. Places(new, size) # {} => p \in Places(new, size) /\ p \in Nat
  BY <1>2, <1>3, FoundPlace
<1>. HIDE DEF p
<1>5. ArenaOK(a) /\ (Places(new, size) # {} => Linked(a, Block(p, size)))
  BY <1>2, <1>3, <1>4, PlaceApart, PlaceLinks
<1>. HIDE DEF a
<1>6. /\ arenas' \in Seq(Arena) /\ arenas' # <<>> /\ DOMAIN arenas' = DOMAIN arenas \cup {n}
      /\ n \notin DOMAIN arenas /\ n # 1
      /\ arenas'[n] = a /\ \A m \in DOMAIN arenas : arenas'[m] = arenas[m]
  BY <1>1, <1>2, <1>5 DEF ArenaOK
<1>. HIDE DEF n
<1>7. \A m \in DOMAIN arenas' : ArenaOK(arenas'[m])
  BY <1>2, <1>5, <1>6
<1>8. /\ \A b \in held : /\ b \in [arena : DOMAIN arenas, at : Nat, size : Nat]
                        /\ Linked(arenas[b.arena], Block(b.at, b.size))
      /\ IsFiniteSet(held) /\ count = Cardinality(held)
  BY <1>1 DEF IndInv, HeldLinked
<1>9. \A b \in held : /\ b \in [arena : DOMAIN arenas', at : Nat, size : Nat]
                     /\ Linked(arenas'[b.arena], Block(b.at, b.size))
                     /\ b.arena # n
  BY <1>6, <1>8
<1>10. x.arena = n /\ x.at = p /\ x.size = size
  BY DEF Pointer
<1>11. HeldLinked'
  <2>1. CASE held' = held /\ count' = count
    BY <1>8, <1>9, <2>1 DEF HeldLinked
  <2>2. CASE Places(new, size) # {} /\ held' = held \cup {x} /\ count' = count + 1
    <3>1. /\ x \in [arena : DOMAIN arenas', at : Nat, size : Nat]
          /\ Linked(arenas'[x.arena], Block(x.at, x.size))
      BY <1>2, <1>4, <1>5, <1>6, <2>2 DEF Pointer
    <3>. HIDE DEF x
    <3>2. x \notin held
      BY <1>9, <1>10
    <3>3. IsFiniteSet(held') /\ count' = Cardinality(held')
      BY <1>8, <2>2, <3>2, OneMore
    <3>. QED BY <1>9, <2>2, <3>1, <3>3 DEF HeldLinked
  <2>. QED BY <1>1, <2>1, <2>2
<1>12. OwnLinked'
  <2>. HIDE DEF x
  <2>1. arenas'[1] = arenas[1] /\ \A b \in held' : b \in held \/ b.arena # 1
    BY <1>1, <1>2, <1>6, <1>10
  <2>. QED BY <1>1, <2>1 DEF IndInv, OwnLinked
<1>. QED BY <1>1, <1>6, <1>7, <1>11, <1>12 DEF IndInv

-----------------------------------------------------------------------------
(* The steps that free.                                                    *)

(* Freeing a block keeps it.                                               *)
LEMMA FreeOK ==
  ASSUME IndInv, NEW b \in held, Free(b)
  PROVE  IndInv'
<1>. DEFINE n == b.arena
            a == arenas[n]
            found == {k \in DOMAIN a.chain : a.chain[k].at = b.at}
<1>1. zone = "used"
  BY DEF Free
<1>2. /\ arenas \in Seq(Arena) /\ arenas # <<>> /\ 1 \in DOMAIN arenas
      /\ \A m \in DOMAIN arenas : ArenaOK(arenas[m])
      /\ IsFiniteSet(held) /\ count = Cardinality(held)
      /\ \A c \in held : /\ c \in [arena : DOMAIN arenas, at : Nat, size : Nat]
                        /\ Linked(arenas[c.arena], Block(c.at, c.size))
  BY <1>1 DEF IndInv, HeldLinked
<1>3. n \in DOMAIN arenas /\ ArenaOK(a)
  BY <1>2
<1>4. found # {}
  <2>1. PICK i \in DOMAIN a.chain : a.chain[i] = Block(b.at, b.size)
    BY <1>2 DEF Linked
  <2>. QED BY <2>1 DEF Block
<1>5. PICK k \in found : arenas' = [arenas EXCEPT ![n] = Unlink(a, k)]
  BY <1>4 DEF Free
<1>6. held' = held \ {b} /\ count' = count - 1 /\ zone' = "used"
  BY <1>1, <1>4 DEF Free
<1>7. k \in DOMAIN a.chain /\ a.chain[k].at = b.at
  OBVIOUS
<1>. DEFINE u == Unlink(a, k)
<1>8. ArenaOK(u) /\ \A j \in DOMAIN a.chain \ {k} : Linked(u, a.chain[j])
  BY <1>3, <1>7, UnlinkApart
<1>. HIDE DEF u
<1>9. /\ arenas' \in Seq(Arena) /\ DOMAIN arenas' = DOMAIN arenas /\ arenas' # <<>>
      /\ arenas'[n] = u /\ \A m \in DOMAIN arenas \ {n} : arenas'[m] = arenas[m]
  BY <1>2, <1>3, <1>5, <1>8 DEF ArenaOK, u
<1>10. \A m \in DOMAIN arenas' : ArenaOK(arenas'[m])
  BY <1>2, <1>8, <1>9
<1>11. ASSUME NEW c \in held'
       PROVE  /\ c \in [arena : DOMAIN arenas', at : Nat, size : Nat]
              /\ Linked(arenas'[c.arena], Block(c.at, c.size))
  <2>1. /\ c \in held /\ c # b /\ c \in [arena : DOMAIN arenas, at : Nat, size : Nat]
        /\ Linked(arenas[c.arena], Block(c.at, c.size))
    BY <1>2, <1>6, <1>11
  <2>2. CASE c.arena # n
    BY <1>9, <2>1, <2>2
  <2>3. CASE c.arena = n
    <3>1. PICK j \in DOMAIN a.chain : a.chain[j] = Block(c.at, c.size)
      BY <2>1, <2>3 DEF Linked
    <3>2. j # k
      <4>. SUFFICES ASSUME j = k PROVE FALSE
        OBVIOUS
      <4>1. PICK i \in DOMAIN a.chain : a.chain[i] = Block(b.at, b.size)
        BY <1>2 DEF Linked
      <4>2. a.chain[i].at = a.chain[k].at
        BY <1>7, <4>1 DEF Block
      <4>3. i = k
        BY <1>3, <1>7, <4>1, <4>2, DistinctPlaces
      <4>4. c.at = b.at /\ c.size = b.size
        BY <3>1, <4>1, <4>3 DEF Block
      <4>. QED BY <1>2, <2>1, <2>3, <4>4
    <3>3. Linked(u, Block(c.at, c.size))
      BY <1>8, <3>1, <3>2
    <3>. QED BY <1>9, <2>1, <2>3, <3>3
  <2>. QED BY <2>2, <2>3
<1>12. HeldLinked'
  <2>1. IsFiniteSet(held') /\ count' = Cardinality(held')
    BY <1>2, <1>6, FS_RemoveElement
  <2>. QED BY <1>11, <2>1 DEF HeldLinked
<1>13. OwnLinked'
  <2>1. PICK o \in DOMAIN arenas[1].chain :
          /\ arenas[1].chain[o].size = ObjectSize
          /\ \A c \in held : c.arena = 1 => c.at # arenas[1].chain[o].at
    BY <1>1 DEF IndInv, OwnLinked
  <2>2. Linked(arenas'[1], arenas[1].chain[o])
    <3>1. CASE n = 1
      <4>1. o \in DOMAIN a.chain \ {k}
        BY <1>7, <2>1, <3>1
      <4>. QED BY <1>8, <1>9, <3>1, <4>1
    <3>2. CASE n # 1
      BY <1>2, <1>9, <3>2 DEF Linked
    <3>. QED BY <3>1, <3>2
  <2>. QED BY <1>6, <2>1, <2>2 DEF OwnLinked, Linked
<1>. QED BY <1>6, <1>9, <1>10, <1>12, <1>13 DEF IndInv

(* Deallocating the zone keeps it.                                         *)
LEMMA DeallocOK ==
  ASSUME IndInv, ZoneDealloc
  PROVE  IndInv'
BY FS_EmptySet DEF IndInv, HeldLinked, ZoneDealloc

(* The invariant is inductive.                                             *)
LEMMA Inductive == ZoneSpec => []IndInv
<1>1. IndInv /\ [ZoneStep]_zoneVars => IndInv'
  <2>. SUFFICES ASSUME IndInv, [ZoneStep]_zoneVars PROVE IndInv'
    OBVIOUS
  <2>1. CASE UNCHANGED zoneVars
    BY <2>1 DEF zoneVars, IndInv, HeldLinked, OwnLinked
  <2>2. CASE \E size \in Sizes : AllocHere(size) \/ AllocGrow(size)
    BY <2>2, HereOK, GrowOK
  <2>3. CASE \E b \in held : Free(b)
    BY <2>3, FreeOK
  <2>4. CASE ZoneDealloc
    BY <2>4, DeallocOK
  <2>. QED BY <2>1, <2>2, <2>3, <2>4 DEF ZoneStep
<1>. QED BY <1>1, InitOK, PTL DEF ZoneSpec

-----------------------------------------------------------------------------
(* No two blocks the program holds share a byte, and each lies in its      *)
(* arena, whatever it allocates and frees (objc_arena_find_free_space and  *)
(* objc_arena_free_inner).                                                 *)
THEOREM BlocksApart == ZoneSpec => []HeldApart
<1>1. IndInv => HeldApart
  <2>. SUFFICES ASSUME IndInv, NEW b \in held
                PROVE  /\ b.at >= 0 /\ b.at + Header + b.size <= arenas[b.arena].size
                       /\ \A c \in held \ {b} :
                            c.arena = b.arena => ~Meets(c.at, Header + c.size, b)
    BY DEF HeldApart
  <2>. DEFINE a == arenas[b.arena]
  <2>1. \A c \in held : /\ c \in [arena : DOMAIN arenas, at : Nat, size : Nat]
                      /\ ArenaOK(arenas[c.arena])
                      /\ Linked(arenas[c.arena], Block(c.at, c.size))
    BY DEF IndInv, HeldLinked
  <2>2. PICK k \in DOMAIN a.chain : a.chain[k] = Block(b.at, b.size)
    BY <2>1 DEF Linked
  <2>3. b.at >= 0 /\ b.at + Header + b.size <= a.size
    <3>1. b.at \in Nat /\ a.chain[k].at + Header + a.chain[k].size <= a.size
      BY <2>1 DEF ArenaOK
    <3>. QED BY <2>2, <3>1 DEF Block
  <2>4. ASSUME NEW c \in held \ {b}, c.arena = b.arena
        PROVE  ~Meets(c.at, Header + c.size, b)
    <3>1. PICK j \in DOMAIN a.chain : a.chain[j] = Block(c.at, c.size)
      BY <2>1, <2>4 DEF Linked
    <3>2. j # k
      <4>. SUFFICES ASSUME j = k PROVE FALSE
        OBVIOUS
      <4>1. c.at = b.at /\ c.size = b.size
        BY <2>2, <3>1 DEF Block
      <4>. QED BY <2>1, <2>4, <4>1
    <3>3. Apart(a.chain[j], a.chain[k])
      BY <2>1, <3>2 DEF ArenaOK
    <3>. QED BY <2>2, <3>1, <3>3 DEF Apart, Meets, Block
  <2>. QED BY <2>3, <2>4
<1>. QED BY <1>1, Inductive, PTL

(* A free finds its block and the dealloc of a zone whose blocks were      *)
(* freed finds none counted: free: and dealloc of NXZone.m never panic.    *)
THEOREM NeverPanics == ZoneSpec => []NoZonePanic
<1>1. IndInv => NoZonePanic
  BY DEF IndInv, NoZonePanic
<1>. QED BY <1>1, Inductive, PTL

(* The search for free space sees every block in use, the zone's own       *)
(* object included: objc_arena_alloc_inner links all it places.            *)
THEOREM EverythingLinked == ZoneSpec => []AllLinked
<1>1. IndInv => AllLinked
  BY DEF IndInv, AllLinked, HeldLinked, OwnLinked, Linked
<1>. QED BY <1>1, Inductive, PTL

(* An arena zone is right for every header size, alignment and capacity:   *)
(* its blocks are disjoint, within their arena and known to it, and free:  *)
(* and dealloc do not panic.                                               *)
THEOREM ZoneCorrect == ZoneSpec => []ZoneSafe
BY BlocksApart, NeverPanics, EverythingLinked, PTL DEF ZoneSafe

-----------------------------------------------------------------------------
(***************************************************************************)
(* Objects: sums of references, lists, reachability, then the invariant.   *)
(***************************************************************************)
(* The pairs a sum counts.                                                 *)
Pairs(f, D) == UNION {{e} \X (1 .. f[e]) : e \in D}

(* The pairs of finitely many summands are finitely many.                  *)
LEMMA PairsFinite ==
  ASSUME NEW D, IsFiniteSet(D), NEW f, \A e \in D : f[e] \in Nat
  PROVE  IsFiniteSet(Pairs(f, D)) /\ Cardinality(Pairs(f, D)) \in Nat
<1>1. \A e \in D : IsFiniteSet({e} \X (1 .. f[e]))
  <2>. SUFFICES ASSUME NEW e \in D PROVE IsFiniteSet({e} \X (1 .. f[e]))
    OBVIOUS
  <2>1. IsFiniteSet({e})
    BY FS_Singleton
  <2>2. 1 \in Int /\ f[e] \in Int
    OBVIOUS
  <2>3. IsFiniteSet(1 .. f[e])
    BY <2>2, FS_Interval
  <2>. QED BY <2>1, <2>3, FS_Product
<1>. DEFINE S == {{e} \X (1 .. f[e]) : e \in D}
<1>2. IsFiniteSet(S)
  <2>. DEFINE g == [e \in D |-> {e} \X (1 .. f[e])]
  <2>1. g \in Surjection(D, S)
    BY DEF Surjection
  <2>. QED BY <2>1, FS_Surjection
<1>3. IsFiniteSet(UNION S)
  <2>. HIDE DEF S
  <2>1. \A T \in S : IsFiniteSet(T)
    BY <1>1 DEF S
  <2>. QED BY <1>2, <2>1, FS_UNION
<1>. QED BY <1>3, FS_CardinalityType DEF Pairs

(* A sum is one summand and the sum of the others.                         *)
LEMMA TotalSplit ==
  ASSUME NEW D, IsFiniteSet(D), NEW f \in [D -> Nat], NEW p \in D
  PROVE  /\ Total(f) \in Nat /\ Cardinality(Pairs(f, D \ {p})) \in Nat
         /\ Total(f) = Cardinality(Pairs(f, D \ {p})) + f[p]
<1>1. IsFiniteSet(D \ {p})
  BY FS_RemoveElement
<1>2. IsFiniteSet(Pairs(f, D \ {p})) /\ Cardinality(Pairs(f, D \ {p})) \in Nat
  BY <1>1, PairsFinite
<1>3. IsFiniteSet({p} \X (1 .. f[p])) /\ Cardinality({p} \X (1 .. f[p])) = f[p]
  <2>1. IsFiniteSet({p}) /\ Cardinality({p}) = 1
    BY FS_Singleton
  <2>2. IsFiniteSet(1 .. f[p]) /\ Cardinality(1 .. f[p]) = f[p]
    BY FS_Interval
  <2>3. /\ IsFiniteSet({p} \X (1 .. f[p]))
        /\ Cardinality({p} \X (1 .. f[p])) = Cardinality({p}) * Cardinality(1 .. f[p])
    BY <2>1, <2>2, FS_Product
  <2>. QED BY <2>1, <2>2, <2>3
<1>4. Pairs(f, D) = Pairs(f, D \ {p}) \cup ({p} \X (1 .. f[p]))
  BY DEF Pairs
<1>5. Pairs(f, D \ {p}) \cap ({p} \X (1 .. f[p])) = {}
  BY DEF Pairs
<1>6. Cardinality(Pairs(f, D)) = Cardinality(Pairs(f, D \ {p})) + f[p]
  <2>. DEFINE A == Pairs(f, D \ {p})
              B == {p} \X (1 .. f[p])
  <2>. HIDE DEF A, B
  <2>1. IsFiniteSet(A) /\ IsFiniteSet(B) /\ A \cap B = {} /\ Pairs(f, D) = A \cup B
    BY <1>2, <1>3, <1>4, <1>5 DEF A, B
  <2>2. Cardinality(A \cup B) = Cardinality(A) + Cardinality(B) - Cardinality({})
    BY <2>1, FS_Union
  <2>3. Cardinality({}) = 0
    BY FS_EmptySet
  <2>4. Cardinality(A) \in Nat /\ Cardinality(B) = f[p]
    BY <1>2, <1>3 DEF A, B
  <2>5. Cardinality(Pairs(f, D)) = Cardinality(A) + f[p]
    BY <2>1, <2>2, <2>3, <2>4
  <2>. QED BY <2>5 DEF A
<1>7. Total(f) = Cardinality(Pairs(f, D))
  BY DEF Total, Pairs
<1>. QED BY <1>2, <1>6, <1>7

(* One summand changes.                                                    *)
LEMMA TotalChange ==
  ASSUME NEW D, IsFiniteSet(D), NEW f \in [D -> Nat], NEW g \in [D -> Nat], NEW p \in D,
         \A e \in D \ {p} : f[e] = g[e]
  PROVE  /\ Total(f) \in Nat /\ Total(g) \in Nat /\ Total(g) = (Total(f) - f[p]) + g[p]
         /\ f[p] <= Total(f)
<1>1. Pairs(f, D \ {p}) = Pairs(g, D \ {p})
  BY DEF Pairs
<1>. QED BY <1>1, TotalSplit

(* A sum of numbers, which is zero when all are and bounds each of them.   *)
LEMMA TotalType ==
  ASSUME NEW D, IsFiniteSet(D), NEW f \in [D -> Nat]
  PROVE  /\ Total(f) \in Nat
         /\ Total(f) = 0 <=> \A e \in D : f[e] = 0
         /\ \A e \in D : f[e] <= Total(f)
<1>1. Total(f) = Cardinality(Pairs(f, D))
  BY DEF Total, Pairs
<1>0. Total(f) \in Nat
  <2>1. \A e \in D : f[e] \in Nat
    OBVIOUS
  <2>. QED BY <1>1, <2>1, PairsFinite
<1>2. ASSUME NEW e \in D PROVE f[e] <= Total(f)
  <2>1. /\ Cardinality(Pairs(f, D \ {e})) \in Nat
        /\ Total(f) = Cardinality(Pairs(f, D \ {e})) + f[e]
    BY TotalSplit
  <2>. QED BY <2>1
<1>3. ASSUME \A e \in D : f[e] = 0 PROVE Total(f) = 0
  <2>1. Pairs(f, D) = {}
    BY <1>3 DEF Pairs
  <2>. QED BY <1>1, <2>1, FS_EmptySet
<1>. QED BY <1>0, <1>2, <1>3

(* A summand of zero more.                                                 *)
LEMMA TotalExtend ==
  ASSUME NEW D, NEW p, NEW E, E = D \cup {p}, NEW f \in [D -> Nat], NEW g \in [E -> Nat], g[p] = 0,
         \A e \in D : f[e] = g[e]
  PROVE  Total(g) = Total(f)
<1>1. UNION {{e} \X (1 .. g[e]) : e \in E} = UNION {{e} \X (1 .. f[e]) : e \in D}
  OBVIOUS
<1>. QED BY <1>1 DEF Total

One(b) == IF b THEN 1 ELSE 0

(* How often an object is in a list: a number, zero when it is not there.  *)
LEMMA TimesType ==
  ASSUME NEW S, NEW s \in Seq(S), NEW o
  PROVE  /\ {i \in DOMAIN s : s[i] = o} \subseteq DOMAIN s /\ IsFiniteSet({i \in DOMAIN s : s[i] = o})
         /\ Times(s, o) \in Nat
         /\ Times(s, o) = 0 <=> \A i \in DOMAIN s : s[i] # o
<1>. DEFINE P == {i \in DOMAIN s : s[i] = o}
<1>1. DOMAIN s = 1 .. Len(s) /\ Len(s) \in Nat
  BY LenProperties
<1>2. IsFiniteSet(DOMAIN s)
  <2>1. 1 \in Int /\ Len(s) \in Int
    BY <1>1
  <2>. QED BY <1>1, <2>1, FS_Interval
<1>3. IsFiniteSet(P)
  <2>1. P \in SUBSET DOMAIN s
    OBVIOUS
  <2>. QED BY <1>2, <2>1, FS_Subset
<1>. HIDE DEF P
<1>4. Cardinality(P) \in Nat /\ (Cardinality(P) = 0 <=> P = {})
  BY <1>3, FS_CardinalityType, FS_EmptySet
<1>. QED BY <1>3, <1>4 DEF P, Times

(* Two lists, one behind the other, have what both have.                   *)
LEMMA TimesConcat ==
  ASSUME NEW S, NEW s \in Seq(S), NEW t \in Seq(S), NEW o
  PROVE  Times(s \o t, o) = Times(s, o) + Times(t, o)
<1>. DEFINE m == Len(s)
            P == {i \in DOMAIN s : s[i] = o}
            Q == {i \in DOMAIN t : t[i] = o}
            R == {i + m : i \in Q}
            W == {i \in DOMAIN (s \o t) : (s \o t)[i] = o}
<1>1. m \in Nat /\ Len(t) \in Nat /\ DOMAIN s = 1 .. m /\ DOMAIN t = 1 .. Len(t)
  BY LenProperties
<1>2. /\ DOMAIN (s \o t) = 1 .. m + Len(t)
      /\ \A i \in 1 .. m + Len(t) : (s \o t)[i] = IF i <= m THEN s[i] ELSE t[i - m]
  <2>1. /\ s \o t \in Seq(S) /\ Len(s \o t) = m + Len(t)
        /\ \A i \in 1 .. m + Len(t) : (s \o t)[i] = IF i <= m THEN s[i] ELSE t[i - m]
    BY ConcatProperties
  <2>. QED BY <2>1, LenProperties
<1>3. IsFiniteSet(P) /\ IsFiniteSet(Q) /\ Cardinality(P) \in Nat /\ Cardinality(Q) \in Nat
  BY TimesType DEF Times
<1>4. IsFiniteSet(R) /\ Cardinality(R) = Cardinality(Q)
  <2>. DEFINE f == [i \in Q |-> i + m]
  <2>1. f \in Bijection(Q, R)
    <3>1. f \in [Q -> R] /\ \A a, b \in Q : f[a] = f[b] => a = b
      BY <1>1
    <3>2. \A r \in R : \E i \in Q : f[i] = r
      OBVIOUS
    <3>. QED BY <3>1, <3>2 DEF Bijection, Injection, Surjection, IsInjective
  <2>2. ExistsBijection(Q, R)
    BY <2>1 DEF ExistsBijection
  <2>. QED BY <1>3, <2>2, FS_Bijection
<1>5. W = P \cup R
  <2>1. ASSUME NEW i \in W PROVE i \in P \cup R
    <3>1. CASE i <= m
      BY <1>1, <1>2, <3>1
    <3>2. CASE ~(i <= m)
      <4>1. i - m \in Q /\ i = (i - m) + m
        BY <1>1, <1>2, <3>2
      <4>. QED BY <4>1
    <3>. QED BY <3>1, <3>2
  <2>2. ASSUME NEW i \in P PROVE i \in W
    BY <1>1, <1>2
  <2>3. ASSUME NEW i \in Q PROVE i + m \in W
    <3>1. i + m \in 1 .. m + Len(t) /\ ~(i + m <= m) /\ (i + m) - m = i
      BY <1>1
    <3>. QED BY <1>2, <3>1
  <2>. QED BY <2>1, <2>2, <2>3
<1>6. P \cap R = {}
  BY <1>1
<1>. HIDE DEF P, Q, R, W
<1>7. Cardinality(W) = Cardinality(P) + Cardinality(R) - Cardinality({})
  BY <1>3, <1>4, <1>5, <1>6, FS_Union
<1>8. Cardinality(W) = Cardinality(P) + Cardinality(Q)
  BY <1>3, <1>4, <1>7, FS_EmptySet
<1>. QED BY <1>8 DEF Times, P, Q, W

(* The empty list has nothing, a list of one object has that.              *)
LEMMA TimesOne ==
  ASSUME NEW c, NEW o
  PROVE  Times(<<>>, o) = 0 /\ Times(<<c>>, o) = One(c = o)
<1>1. {i \in DOMAIN <<>> : <<>>[i] = o} = {}
  OBVIOUS
<1>2. {i \in DOMAIN <<c>> : <<c>>[i] = o} = IF c = o THEN {1} ELSE {}
  OBVIOUS
<1>3. Cardinality({}) = 0 /\ Cardinality({1}) = 1
  BY FS_EmptySet, FS_Singleton
<1>. QED BY <1>1, <1>2, <1>3 DEF Times, One

(* The first one, and the rest.                                            *)
LEMMA TimesHead ==
  ASSUME NEW S, NEW s \in Seq(S), s # <<>>, NEW o
  PROVE  Times(s, o) = One(Head(s) = o) + Times(Tail(s), o)
<1>1. Len(s) \in Nat \ {0}
  BY EmptySeq
<1>2. s = <<s[1]>> \o SubSeq(s, 2, Len(s))
  <2>1. 1 \in 1 .. Len(s) /\ Len(s) \in 1 .. Len(s)
    BY <1>1
  <2>2. SubSeq(s, 1, Len(s)) = <<s[1]>> \o SubSeq(s, 1 + 1, Len(s))
    BY <2>1, SubSeqRecursiveFirst
  <2>. QED BY <2>2, SubSeqFull
<1>3. Tail(s) = SubSeq(s, 2, Len(s)) /\ Tail(s) \in Seq(S) /\ Head(s) = s[1] /\ Head(s) \in S
  BY TailIsSubSeq, HeadTailProperties
<1>4. s = <<Head(s)>> \o Tail(s) /\ <<Head(s)>> \in Seq(S)
  BY <1>2, <1>3
<1>5. Times(<<Head(s)>> \o Tail(s), o) = Times(<<Head(s)>>, o) + Times(Tail(s), o)
  BY SMTT(30), ZenonT(30), <1>3, <1>4, TimesConcat
<1>6. Times(<<Head(s)>>, o) = One(Head(s) = o)
  BY TimesOne
<1>7. Times(<<Head(s)>> \o Tail(s), o) = Times(s, o)
  BY <1>4
<1>. QED BY <1>5, <1>6, <1>7

(* RemoveAt takes one occurrence of one object (removeObjectAtIndex:).     *)
LEMMA TimesRemoveAt ==
  ASSUME NEW S, NEW s \in Seq(S), NEW i \in DOMAIN s, NEW o
  PROVE  /\ RemoveAt(s, i) \in Seq(S) /\ Len(RemoveAt(s, i)) = Len(s) - 1
         /\ Times(s, o) = Times(RemoveAt(s, i), o) + One(s[i] = o)
         /\ ToSet(RemoveAt(s, i)) \subseteq ToSet(s)
<1>. DEFINE n == Len(s)
            a == SubSeq(s, 1, i - 1)
            b == SubSeq(s, i + 1, n)
<1>1. n \in Nat /\ i \in 1 .. n /\ DOMAIN s = 1 .. n
  BY LenProperties
<1>2. /\ a \in Seq(S) /\ Len(a) = i - 1 /\ b \in Seq(S) /\ Len(b) = n - i
      /\ \A j \in 1 .. i - 1 : a[j] = s[j]
      /\ \A j \in 1 .. n - i : b[j] = s[i + j]
  <2>1. \A j \in 1 .. n : s[j] \in S
    BY <1>1
  <2>2. /\ SubSeq(s, 1, i - 1) \in Seq(S)
        /\ Len(SubSeq(s, 1, i - 1)) = IF 1 <= i - 1 THEN (i - 1) - 1 + 1 ELSE 0
        /\ \A j \in 1 .. (i - 1) - 1 + 1 : SubSeq(s, 1, i - 1)[j] = s[1 + j - 1]
    <3>1. 1 \in Int /\ i - 1 \in Int /\ \A j \in 1 .. i - 1 : s[j] \in S
      BY <1>1, <2>1
    <3>. QED BY <3>1, SubSeqProperties
  <2>3. /\ SubSeq(s, i + 1, n) \in Seq(S)
        /\ Len(SubSeq(s, i + 1, n)) = IF i + 1 <= n THEN n - (i + 1) + 1 ELSE 0
        /\ \A j \in 1 .. n - (i + 1) + 1 : SubSeq(s, i + 1, n)[j] = s[(i + 1) + j - 1]
    <3>1. i + 1 \in Int /\ n \in Int /\ \A j \in i + 1 .. n : s[j] \in S
      BY <1>1, <2>1
    <3>. QED BY <3>1, SubSeqProperties
  <2>4. \A j \in 1 .. i - 1 : j \in 1 .. (i - 1) - 1 + 1 /\ 1 + j - 1 = j
    BY <1>1
  <2>5. \A j \in 1 .. n - i : j \in 1 .. n - (i + 1) + 1 /\ (i + 1) + j - 1 = i + j
    BY <1>1
  <2>6. \A j \in 1 .. n - i : b[j] = s[i + j]
    BY <2>3, <2>5
  <2>7. \A j \in 1 .. i - 1 : a[j] = s[j]
    BY <2>2, <2>4
  <2>8. Len(a) = i - 1 /\ Len(b) = n - i
    BY <1>1, <2>2, <2>3
  <2>. QED BY <2>2, <2>3, <2>6, <2>7, <2>8
<1>3. SubSeq(s, 1, i) = a \o <<s[i]>>
  <2>1. 1 \in 1 .. Len(s) /\ i \in 1 .. Len(s)
    BY <1>1
  <2>. QED BY <2>1, SubSeqRecursiveSecond
<1>4. s = (a \o <<s[i]>>) \o b
  <2>1. 1 \in 1 .. Len(s) + 1 /\ i \in 1 - 1 .. Len(s) /\ n \in i .. Len(s)
    BY <1>1
  <2>2. SubSeq(s, 1, i) \o SubSeq(s, i + 1, n) = SubSeq(s, 1, n)
    BY <2>1, ConcatAdjacentSubSeq
  <2>. QED BY <1>3, <2>2, SubSeqFull
<1>. HIDE DEF a, b
<1>5. <<s[i]>> \in Seq(S) /\ a \o <<s[i]>> \in Seq(S)
  BY <1>1, <1>2, ConcatProperties
<1>6. Times(s, o) = Times(a \o <<s[i]>>, o) + Times(b, o)
  <2>1. Times((a \o <<s[i]>>) \o b, o) = Times(a \o <<s[i]>>, o) + Times(b, o)
    <3>. DEFINE h == a \o <<s[i]>>
    <3>1. h \in Seq(S)
      BY <1>5
    <3>. HIDE DEF h
    <3>2. Times(h \o b, o) = Times(h, o) + Times(b, o)
      BY <1>2, <3>1, TimesConcat
    <3>. QED BY <3>2 DEF h
  <2>2. Times((a \o <<s[i]>>) \o b, o) = Times(s, o)
    BY <1>4
  <2>. QED BY <2>1, <2>2
<1>7. Times(a \o <<s[i]>>, o) = Times(a, o) + Times(<<s[i]>>, o)
  <2>. DEFINE h == <<s[i]>>
  <2>1. h \in Seq(S)
    BY <1>5
  <2>. HIDE DEF h
  <2>2. Times(a \o h, o) = Times(a, o) + Times(h, o)
    BY <1>2, <2>1, TimesConcat
  <2>. QED BY <2>2 DEF h
<1>8. Times(a \o b, o) = Times(a, o) + Times(b, o)
  BY <1>2, TimesConcat
<1>9. Times(a, o) \in Nat /\ Times(b, o) \in Nat /\ Times(<<s[i]>>, o) = One(s[i] = o)
  BY SMTT(30), ZenonT(30), <1>2, TimesType, TimesOne
<1>10. RemoveAt(s, i) = a \o b
  BY DEF RemoveAt, a, b
<1>11. /\ a \o b \in Seq(S) /\ Len(a \o b) = n - 1
       /\ \A j \in 1 .. n - 1 : (a \o b)[j] = IF j <= i - 1 THEN a[j] ELSE b[j - (i - 1)]
  <2>1. /\ a \o b \in Seq(S) /\ Len(a \o b) = Len(a) + Len(b)
        /\ \A j \in 1 .. Len(a) + Len(b) : (a \o b)[j] = IF j <= Len(a) THEN a[j] ELSE b[j - Len(a)]
    BY <1>2, ConcatProperties
  <2>. QED BY <1>1, <1>2, <2>1
<1>12. ASSUME NEW j \in 1 .. n - 1 PROVE (a \o b)[j] \in ToSet(s)
  <2>1. CASE j <= i - 1
    BY <1>1, <1>2, <1>11, <2>1 DEF ToSet
  <2>2. CASE ~(j <= i - 1)
    <3>1. j - (i - 1) \in 1 .. n - i /\ i + (j - (i - 1)) \in 1 .. n
      BY <1>1, <2>2
    <3>. QED BY SMTT(30), ZenonT(30), <1>1, <1>2, <1>11, <2>2, <3>1 DEF ToSet
  <2>. QED BY <2>1, <2>2
<1>13. ToSet(a \o b) \subseteq ToSet(s)
  <2>1. DOMAIN (a \o b) = 1 .. n - 1
    BY <1>11, LenProperties
  <2>. QED BY <1>12, <2>1 DEF ToSet
<1>14. Times(s, o) = Times(a \o b, o) + One(s[i] = o)
  BY <1>6, <1>7, <1>8, <1>9 DEF One
<1>. QED BY <1>10, <1>11, <1>13, <1>14

(* InsertedAt adds one occurrence of one object (insert:atIndex:).         *)
LEMMA TimesInsertedAt ==
  ASSUME NEW S, NEW s \in Seq(S), NEW i \in 1 .. Len(s) + 1, NEW c \in S, NEW o
  PROVE  /\ InsertedAt(s, i, c) \in Seq(S) /\ Len(InsertedAt(s, i, c)) = Len(s) + 1
         /\ Times(InsertedAt(s, i, c), o) = Times(s, o) + One(c = o)
<1>. DEFINE n == Len(s)
            a == SubSeq(s, 1, i - 1)
            b == SubSeq(s, i, n)
<1>1. n \in Nat /\ DOMAIN s = 1 .. n
  BY LenProperties
<1>2. /\ a \in Seq(S) /\ Len(a) = i - 1 /\ b \in Seq(S) /\ Len(b) = n - i + 1
  <2>1. \A j \in 1 .. n : s[j] \in S
    BY <1>1
  <2>2. /\ SubSeq(s, 1, i - 1) \in Seq(S)
        /\ Len(SubSeq(s, 1, i - 1)) = IF 1 <= i - 1 THEN (i - 1) - 1 + 1 ELSE 0
    <3>1. 1 \in Int /\ i - 1 \in Int /\ \A j \in 1 .. i - 1 : s[j] \in S
      BY <1>1, <2>1
    <3>. QED BY <3>1, SubSeqProperties
  <2>3. /\ SubSeq(s, i, n) \in Seq(S)
        /\ Len(SubSeq(s, i, n)) = IF i <= n THEN n - i + 1 ELSE 0
    <3>1. i \in Int /\ n \in Int /\ \A j \in i .. n : s[j] \in S
      BY <1>1, <2>1
    <3>. QED BY <3>1, SubSeqProperties
  <2>. QED BY <1>1, <2>2, <2>3
<1>3. s = a \o b
  <2>1. 1 \in 1 .. Len(s) + 1 /\ i - 1 \in 1 - 1 .. Len(s) /\ n \in i - 1 .. Len(s) /\ (i - 1) + 1 = i
    BY <1>1
  <2>2. SubSeq(s, 1, i - 1) \o SubSeq(s, (i - 1) + 1, n) = SubSeq(s, 1, n)
    BY <2>1, ConcatAdjacentSubSeq
  <2>. QED BY <2>1, <2>2, SubSeqFull
<1>. HIDE DEF a, b
<1>4. <<c>> \in Seq(S) /\ Len(<<c>>) = 1
  OBVIOUS
<1>5. a \o <<c>> \in Seq(S) /\ Len(a \o <<c>>) = i /\ Times(a \o <<c>>, o) = Times(a, o) + Times(<<c>>, o)
  <2>. DEFINE h == <<c>>
  <2>1. h \in Seq(S) /\ Len(h) = 1
    BY <1>4
  <2>. HIDE DEF h
  <2>2. a \o h \in Seq(S) /\ Len(a \o h) = Len(a) + Len(h)
    BY <1>2, <2>1, ConcatProperties
  <2>3. Times(a \o h, o) = Times(a, o) + Times(h, o)
    BY <1>2, <2>1, TimesConcat
  <2>4. Len(a \o h) = i
    BY <1>2, <2>1, <2>2
  <2>. QED BY <2>2, <2>3, <2>4 DEF h
<1>6. /\ (a \o <<c>>) \o b \in Seq(S) /\ Len((a \o <<c>>) \o b) = Len(a \o <<c>>) + Len(b)
      /\ Times((a \o <<c>>) \o b, o) = Times(a \o <<c>>, o) + Times(b, o)
  BY SMTT(30), ZenonT(30), <1>2, <1>5, ConcatProperties, TimesConcat
<1>7. Times(s, o) = Times(a, o) + Times(b, o) /\ Times(a, o) \in Nat /\ Times(b, o) \in Nat
  <2>1. Times(a \o b, o) = Times(a, o) + Times(b, o)
    BY <1>2, TimesConcat
  <2>2. Times(a, o) \in Nat /\ Times(b, o) \in Nat
    BY <1>2, TimesType
  <2>. QED BY <1>3, <2>1, <2>2
<1>8. Times(<<c>>, o) = One(c = o)
  BY TimesOne
<1>9. InsertedAt(s, i, c) = (a \o <<c>>) \o b
  BY DEF InsertedAt, a, b
<1>10. Len((a \o <<c>>) \o b) = n + 1
  BY SMTT(30), ZenonT(30), <1>1, <1>2, <1>5, <1>6
<1>11. Times((a \o <<c>>) \o b, o) = Times(s, o) + One(c = o)
  BY <1>5, <1>6, <1>7, <1>8 DEF One
<1>. QED BY <1>6, <1>9, <1>10, <1>11

(* SetToSeq lists every member of a finite set once.                       *)
LEMMA SetToSeqIsBijection ==
  ASSUME NEW K, IsFiniteSet(K)
  PROVE  /\ Cardinality(K) \in Nat /\ SetToSeq(K) \in Bijection(1 .. Cardinality(K), K)
         /\ DOMAIN SetToSeq(K) = 1 .. Cardinality(K)
<1>. DEFINE n == Cardinality(K)
<1>1. n \in Nat /\ ExistsBijection(1 .. n, K)
  BY FS_CardinalityType
<1>2. PICK f : f \in Bijection(1 .. n, K)
  BY <1>1 DEF ExistsBijection
<1>3. f \in [1 .. n -> K] /\ IsInjective(f)
  BY <1>2 DEF Bijection, Injection
<1>4. SetToSeq(K) \in [1 .. n -> K] /\ IsInjective(SetToSeq(K))
  BY <1>3 DEF SetToSeq
<1>5. SetToSeq(K) \in Injection(1 .. n, K)
  BY <1>4 DEF Injection
<1>6. IsFiniteSet(1 .. n) /\ Cardinality(1 .. n) = n
  <2>1. 1 \in Int /\ n \in Int
    BY <1>1
  <2>2. IsFiniteSet(1 .. n) /\ Cardinality(1 .. n) = IF 1 > n THEN 0 ELSE n - 1 + 1
    BY <2>1, FS_Interval
  <2>. QED BY <1>1, <2>2
<1>7. SetToSeq(K) \in Surjection(1 .. n, K)
  BY <1>5, <1>6, FS_Injection
<1>. QED BY <1>1, <1>4, <1>5, <1>7 DEF Bijection

(* The values listed by key are as often in the list as they have keys.    *)
LEMMA TimesListed ==
  ASSUME NEW K, IsFiniteSet(K), NEW S, NEW v, \A k \in K : v[k] \in S, NEW list,
         list = [i \in DOMAIN SetToSeq(K) |-> v[SetToSeq(K)[i]]]
  PROVE  /\ list \in Seq(S)
         /\ ToSet(list) = {v[k] : k \in K}
         /\ \A o : Times(list, o) = Cardinality({k \in K : v[k] = o})
<1>. DEFINE n == Cardinality(K)
            ks == SetToSeq(K)
<1>1. n \in Nat /\ ks \in Bijection(1 .. n, K) /\ DOMAIN ks = 1 .. n
  BY SetToSeqIsBijection
<1>2. /\ ks \in [1 .. n -> K] /\ \A i, j \in 1 .. n : ks[i] = ks[j] => i = j
      /\ \A k \in K : \E i \in 1 .. n : ks[i] = k
  BY <1>1 DEF Bijection, Injection, Surjection, IsInjective
<1>. HIDE DEF n, ks
<1>3. list = [i \in 1 .. n |-> v[ks[i]]]
  BY <1>1 DEF ks
<1>4. list \in Seq(S) /\ DOMAIN list = 1 .. n /\ \A i \in 1 .. n : list[i] = v[ks[i]]
  <2>1. \A i \in 1 .. n : v[ks[i]] \in S
    BY <1>2
  <2>. QED BY <1>1, <1>3, <2>1
<1>5. ToSet(list) = {v[k] : k \in K}
  BY <1>2, <1>4 DEF ToSet
<1>6. ASSUME NEW o PROVE Times(list, o) = Cardinality({k \in K : v[k] = o})
  <2>. DEFINE P == {i \in DOMAIN list : list[i] = o}
              Q == {k \in K : v[k] = o}
              f == [i \in P |-> ks[i]]
  <2>1. f \in [P -> Q] /\ \A a, b \in P : f[a] = f[b] => a = b
    BY <1>2, <1>4
  <2>2. \A k \in Q : \E i \in P : f[i] = k
    <3>. SUFFICES ASSUME NEW k \in Q PROVE \E i \in P : f[i] = k
      OBVIOUS
    <3>1. PICK i \in 1 .. n : ks[i] = k
      BY <1>2
    <3>2. i \in P
      BY <1>4, <3>1
    <3>. QED BY <3>1, <3>2
  <2>3. f \in Bijection(P, Q)
    BY <2>1, <2>2 DEF Bijection, Injection, Surjection, IsInjective
  <2>4. IsFiniteSet(P)
    <3>1. \A t \in Seq(S) : IsFiniteSet({i \in DOMAIN t : t[i] = o})
      BY TimesType
    <3>. QED BY <1>4, <3>1
  <2>. HIDE DEF P, Q, f
  <2>5. ExistsBijection(P, Q)
    BY <2>3 DEF ExistsBijection
  <2>6. Cardinality(Q) = Cardinality(P)
    BY <2>4, <2>5, FS_Bijection
  <2>. QED BY <2>6 DEF P, Q, Times
<1>. QED BY <1>4, <1>5, <1>6

(* What is reached from R when d leads to every member of H[d].            *)
Reach(H, R) ==
  {c \in Objs : \A S \in SUBSET Objs : R \subseteq S /\ (\A d \in S : H[d] \subseteq S) => c \in S}

(* Every set has a member that no member leads to.                         *)
Acyclic(H) == \A S \in SUBSET Objs : S # {} => \E o \in S : \A c \in S : o \notin H[c]

Edges == [Objs -> SUBSET Objs]

(* What is reached is the least set with R that is closed under H.         *)
LEMMA ReachClosed ==
  ASSUME NEW H \in Edges, NEW R \in SUBSET Objs
  PROVE  /\ Reach(H, R) \in SUBSET Objs /\ R \subseteq Reach(H, R)
         /\ \A d \in Reach(H, R) : H[d] \subseteq Reach(H, R)
         /\ \A S \in SUBSET Objs : R \subseteq S /\ (\A d \in S : H[d] \subseteq S) => Reach(H, R) \subseteq S
         /\ \A c \in Reach(H, R) : c \in R \/ \E d \in Reach(H, R) : c \in H[d]
<1>1. /\ Reach(H, R) \in SUBSET Objs /\ R \subseteq Reach(H, R)
      /\ \A S \in SUBSET Objs : R \subseteq S /\ (\A d \in S : H[d] \subseteq S) => Reach(H, R) \subseteq S
  BY DEF Reach
<1>2. ASSUME NEW d \in Reach(H, R), NEW c \in H[d] PROVE c \in Reach(H, R)
  <2>1. c \in Objs /\ d \in Objs
    BY <1>1 DEF Edges
  <2>2. ASSUME NEW S \in SUBSET Objs, R \subseteq S, \A e \in S : H[e] \subseteq S PROVE c \in S
    BY <2>2 DEF Reach
  <2>. QED BY <2>1, <2>2 DEF Reach
<1>3. ASSUME NEW c \in Reach(H, R), c \notin R, \A d \in Reach(H, R) : c \notin H[d] PROVE FALSE
  <2>. DEFINE S == Reach(H, R) \ {c}
  <2>1. S \in SUBSET Objs /\ R \subseteq S /\ \A d \in S : H[d] \subseteq S
    BY <1>1, <1>2, <1>3
  <2>2. c \in S
    BY <1>1, <2>1
  <2>. QED BY <2>2
<1>. QED BY <1>1, <1>2, <1>3

(* Without some edges there is no new cycle and nothing new is reached.    *)
LEMMA FewerEdges ==
  ASSUME NEW H \in Edges, NEW G \in Edges, \A c \in Objs : G[c] \subseteq H[c], NEW R \in SUBSET Objs
  PROVE  /\ Acyclic(H) => Acyclic(G)
         /\ \A Q \in SUBSET R : Reach(G, Q) \subseteq Reach(H, R)
<1>1. Acyclic(H) => Acyclic(G)
  BY DEF Acyclic
<1>2. ASSUME NEW Q \in SUBSET R PROVE Reach(G, Q) \subseteq Reach(H, R)
  <2>1. /\ Reach(H, R) \in SUBSET Objs /\ R \subseteq Reach(H, R)
        /\ \A d \in Reach(H, R) : H[d] \subseteq Reach(H, R)
    BY ReachClosed
  <2>2. Q \subseteq Reach(H, R) /\ \A d \in Reach(H, R) : G[d] \subseteq Reach(H, R)
    BY <2>1
  <2>. QED BY <2>1, <2>2, ReachClosed
<1>. QED BY <1>1, <1>2

(* One edge more, from c to o, makes no cycle when c is not reached from o.*)
LEMMA OneEdgeMore ==
  ASSUME NEW H \in Edges, NEW G \in Edges, Acyclic(H), NEW c \in Objs, NEW o \in Objs,
         o # c, c \notin Reach(H, H[o]),
         G[c] \subseteq H[c] \cup {o}, \A d \in Objs \ {c} : G[d] \subseteq H[d]
  PROVE  Acyclic(G)
<1>. DEFINE B == Reach(H, H[o]) \cup {o}
<1>. SUFFICES ASSUME NEW S \in SUBSET Objs, S # {} PROVE \E s \in S : \A d \in S : s \notin G[d]
  BY DEF Acyclic
<1>0. H[o] \in SUBSET Objs
  BY DEF Edges
<1>1. \A d \in B : H[d] \subseteq B
  BY <1>0, ReachClosed
<1>2. PICK s \in S : \A d \in S : s \notin H[d]
  BY DEF Acyclic
<1>3. CASE s # o \/ c \notin S
  <2>1. \A d \in S : s \notin G[d]
    BY <1>2, <1>3
  <2>. QED BY <2>1
<1>4. CASE s = o /\ c \in S
  <2>1. c \in S \ B
    BY <1>4
  <2>2. PICK t \in S \ B : \A d \in S \ B : t \notin H[d]
    BY <2>1 DEF Acyclic
  <2>3. \A d \in S : t \notin H[d] /\ t # o
    BY <1>1, <2>2
  <2>4. \A d \in S : t \notin G[d]
    BY <2>3
  <2>. QED BY <2>4
<1>. QED BY <1>3, <1>4

(* A node that none leads to makes no cycle, whatever it leads to.         *)
LEMMA NewSource ==
  ASSUME NEW H \in Edges, NEW G \in Edges, Acyclic(H), NEW n \in Objs,
         \A d \in Objs : n \notin G[d], \A d \in Objs \ {n} : G[d] \subseteq H[d]
  PROVE  Acyclic(G)
<1>. SUFFICES ASSUME NEW S \in SUBSET Objs, S # {} PROVE \E s \in S : \A d \in S : s \notin G[d]
  BY DEF Acyclic
<1>1. CASE n \in S
  BY <1>1
<1>2. CASE n \notin S
  <2>1. PICK s \in S : \A d \in S : s \notin H[d]
    BY DEF Acyclic
  <2>. QED BY <1>2, <2>1
<1>. QED BY <1>1, <1>2

(* What is reached stays so when a node that is not loses its edges.       *)
LEMMA UnreachedGone ==
  ASSUME NEW H \in Edges, NEW G \in Edges, NEW R \in SUBSET Objs, NEW n \in Objs, n \notin R,
         \A d \in Objs : n \notin H[d], \A d \in Objs \ {n} : H[d] \subseteq G[d]
  PROVE  Reach(H, R) \subseteq Reach(G, R)
<1>. SUFFICES ASSUME NEW S \in SUBSET Objs, R \subseteq S, \A d \in S : G[d] \subseteq S
              PROVE  Reach(H, R) \subseteq S
  BY DEF Reach
<1>1. S \ {n} \in SUBSET Objs /\ R \subseteq S \ {n} /\ \A d \in S \ {n} : H[d] \subseteq S \ {n}
  OBVIOUS
<1>2. Reach(H, R) \subseteq S \ {n}
  BY <1>1, ReachClosed
<1>. QED BY <1>2

(* A node is reached without the edges that leave it.                      *)
LEMMA OwnEdgesUnused ==
  ASSUME NEW H \in Edges, NEW G \in Edges, NEW R \in SUBSET Objs, NEW n \in Reach(H, R),
         \A d \in Objs \ {n} : H[d] \subseteq G[d]
  PROVE  n \in Reach(G, R)
<1>1. n \in Objs
  BY DEF Reach
<1>. SUFFICES ASSUME NEW S \in SUBSET Objs, R \subseteq S, \A d \in S : G[d] \subseteq S, n \notin S
              PROVE  FALSE
  BY <1>1 DEF Reach
<1>2. \A d \in S : H[d] \subseteq S
  OBVIOUS
<1>3. n \in S
  BY <1>2, ReachClosed
<1>. QED BY <1>3

ObjTypes ==
  /\ retain \in [Objs -> Nat] /\ own \in [Objs -> Nat] /\ next \in [Objs -> Objs \cup {Nil}]
  /\ elements \in [Arrays -> Seq(Objs)] /\ cap \in [Arrays -> Nat]
  /\ entries \in [Maps -> [Keys -> Objs \cup {Nil}]]
  /\ pools \in Seq(Objs \cup {Nil}) /\ due \in Seq([Objs -> Nat]) /\ Len(due) = Len(pools)
  /\ releasing \in Seq(Objs)
  /\ storing \in {NoStore} \cup [map : Maps, key : Keys, value : Objs]
  /\ drain = NoDrain \/ (Top > 0 /\ drain \in [on : {TRUE}, cur : Objs \cup {Nil}, pop : BOOLEAN])

(* What a collection holds, but for the value that is being replaced.      *)
Held ==
  [c \in Objs |-> IF c \in Arrays THEN ToSet(elements[c])
                  ELSE IF c \in Maps THEN {HeldBy(c, k) : k \in Keys} \ {Nil} ELSE {}]

KeysOf(m, o) == Cardinality({k \in Keys : HeldBy(m, k) = o})

(* The classes do not overlap, and nothing is an object and nil.           *)
LEMMA Shapes ==
  /\ Arrays \subseteq Objs /\ Maps \subseteq Objs /\ Items \subseteq Objs /\ Arrays \cap Maps = {}
  /\ IsFiniteSet(Arrays) /\ IsFiniteSet(Maps) /\ IsFiniteSet(Keys) /\ Nil \notin Objs
  /\ \A m \in Maps : \A k : storing = NoStore => HeldBy(m, k) = entries[m][k]
<1>1. /\ Arrays \in SUBSET Objs /\ Maps \in SUBSET Objs /\ Items \subseteq Objs
      /\ Arrays \cap Maps = {} /\ IsFiniteSet(Objs) /\ IsFiniteSet(Keys) /\ Nil \notin Objs
  BY ObjectsAssumption DEF Objs
<1>2. IsFiniteSet(Arrays) /\ IsFiniteSet(Maps)
  BY <1>1, FS_Subset
<1>3. \A m \in Maps : \A k : storing = NoStore => HeldBy(m, k) = entries[m][k]
  BY <1>1 DEF HeldBy, NoStore
<1>. QED BY <1>1, <1>2, <1>3

(* Held is a graph over the objects, and KeysOf counts its edges from a    *)
(* map.                                                                    *)
LEMMA HeldTypes ==
  ASSUME ObjTypes
  PROVE  /\ Held \in Edges /\ \A m \in Maps, k \in Keys : HeldBy(m, k) \in Objs \cup {Nil}
         /\ \A m \in Maps, o \in Objs : KeysOf(m, o) \in Nat
         /\ \A m \in Maps, o \in Objs : KeysOf(m, o) = 0 <=> o \notin Held[m]
<1>0. /\ Arrays \subseteq Objs /\ Maps \subseteq Objs /\ Arrays \cap Maps = {}
      /\ IsFiniteSet(Keys) /\ Nil \notin Objs
  BY Shapes
<1>1. \A m \in Maps, k \in Keys : HeldBy(m, k) \in Objs \cup {Nil}
  BY DEF ObjTypes, HeldBy
<1>2. \A c \in Objs : Held[c] \in SUBSET Objs
  <2>. SUFFICES ASSUME NEW c \in Objs PROVE Held[c] \in SUBSET Objs
    OBVIOUS
  <2>1. CASE c \in Arrays
    <3>1. elements[c] \in Seq(Objs)
      BY <2>1 DEF ObjTypes
    <3>. QED BY <2>1, <3>1 DEF Held, ToSet
  <2>2. CASE c \in Maps
    BY <1>0, <1>1, <2>2 DEF Held
  <2>. QED BY <2>1, <2>2 DEF Held
<1>3. Held \in Edges
  <2>. DEFINE H == Held
  <2>1. H = [c \in Objs |-> H[c]]
    BY DEF Held
  <2>2. \A c \in Objs : H[c] \in SUBSET Objs
    BY <1>2
  <2>. HIDE DEF H
  <2>3. H \in [Objs -> SUBSET Objs]
    BY <2>1, <2>2
  <2>. QED BY <2>3 DEF H, Edges
<1>4. ASSUME NEW m \in Maps, NEW o \in Objs PROVE KeysOf(m, o) \in Nat /\ (KeysOf(m, o) = 0 <=> o \notin Held[m])
  <2>. DEFINE P == {k \in Keys : HeldBy(m, k) = o}
  <2>1. P \in SUBSET Keys
    OBVIOUS
  <2>2. o \notin Held[m] <=> P = {}
    BY <1>0 DEF Held
  <2>. HIDE DEF P
  <2>3. IsFiniteSet(P)
    BY <1>0, <2>1, FS_Subset
  <2>4. Cardinality(P) \in Nat /\ (Cardinality(P) = 0 <=> P = {})
    BY <2>3, FS_CardinalityType, FS_EmptySet
  <2>. QED BY <2>2, <2>4 DEF P, KeysOf
<1>. QED BY <1>1, <1>3, <1>4

(* The references to an object, and when there are none of a kind.         *)
LEMMA ReferenceParts ==
  ASSUME ObjTypes, NEW o \in Objs
  PROVE  /\ own[o] \in Nat /\ InPools(o) \in Nat /\ InArrays(o) \in Nat /\ InMaps(o) \in Nat
         /\ Times(releasing, o) \in Nat
         /\ InPools(o) = 0 <=> \A p \in DOMAIN due : due[p][o] = 0
         /\ InArrays(o) = 0 <=> \A x \in Arrays : o \notin Held[x]
         /\ InMaps(o) = 0 <=> \A m \in Maps : o \notin Held[m]
         /\ Times(releasing, o) = 0 <=> \A i \in DOMAIN releasing : releasing[i] # o
         /\ \A p \in DOMAIN due : due[p][o] \in Nat
<1>0. /\ Arrays \subseteq Objs /\ Maps \subseteq Objs /\ Arrays \cap Maps = {}
      /\ IsFiniteSet(Arrays) /\ IsFiniteSet(Maps)
  BY Shapes
<1>1. own[o] \in Nat
  BY DEF ObjTypes
<1>2. /\ InPools(o) \in Nat /\ (InPools(o) = 0 <=> \A p \in DOMAIN due : due[p][o] = 0)
      /\ \A p \in DOMAIN due : due[p][o] \in Nat
  <2>. DEFINE f == [p \in DOMAIN due |-> due[p][o]]
  <2>1. Len(due) \in Nat /\ DOMAIN due = 1 .. Len(due) /\ \A p \in DOMAIN due : due[p] \in [Objs -> Nat]
    BY DEF ObjTypes
  <2>2. IsFiniteSet(DOMAIN due)
    <3>1. 1 \in Int /\ Len(due) \in Int
      BY <2>1
    <3>. QED BY <2>1, <3>1, FS_Interval
  <2>3. f \in [DOMAIN due -> Nat] /\ \A p \in DOMAIN due : f[p] = due[p][o] /\ due[p][o] \in Nat
    BY <2>1
  <2>. HIDE DEF f
  <2>4. Total(f) \in Nat /\ (Total(f) = 0 <=> \A p \in DOMAIN due : f[p] = 0)
    BY <2>2, <2>3, TotalType
  <2>5. Total(f) \in Nat /\ (Total(f) = 0 <=> \A p \in DOMAIN due : due[p][o] = 0)
    BY <2>3, <2>4
  <2>. QED BY <2>3, <2>5 DEF f, InPools
<1>3. InArrays(o) \in Nat /\ (InArrays(o) = 0 <=> \A x \in Arrays : o \notin Held[x])
  <2>. DEFINE f == [x \in Arrays |-> Times(elements[x], o)]
  <2>1. \A x \in Arrays : Times(elements[x], o) \in Nat /\ (Times(elements[x], o) = 0 <=> o \notin ToSet(elements[x]))
    <3>. SUFFICES ASSUME NEW x \in Arrays
                  PROVE  Times(elements[x], o) \in Nat /\ (Times(elements[x], o) = 0 <=> o \notin ToSet(elements[x]))
      OBVIOUS
    <3>1. elements[x] \in Seq(Objs)
      BY DEF ObjTypes
    <3>2. Times(elements[x], o) \in Nat /\ (Times(elements[x], o) = 0 <=> \A i \in DOMAIN elements[x] : elements[x][i] # o)
      BY <3>1, TimesType
    <3>. QED BY <3>2 DEF ToSet
  <2>2. f \in [Arrays -> Nat] /\ \A x \in Arrays : f[x] = 0 <=> o \notin Held[x]
    BY <1>0, <2>1 DEF Held
  <2>. HIDE DEF f
  <2>3. Total(f) \in Nat /\ (Total(f) = 0 <=> \A x \in Arrays : f[x] = 0)
    BY <1>0, <2>2, TotalType
  <2>4. Total(f) \in Nat /\ (Total(f) = 0 <=> \A x \in Arrays : o \notin Held[x])
    BY <2>2, <2>3
  <2>. QED BY <2>4 DEF f, InArrays
<1>4. InMaps(o) \in Nat /\ (InMaps(o) = 0 <=> \A m \in Maps : o \notin Held[m])
  <2>. DEFINE f == [m \in Maps |-> KeysOf(m, o)]
  <2>1. f \in [Maps -> Nat] /\ \A m \in Maps : f[m] = 0 <=> o \notin Held[m]
    BY HeldTypes
  <2>2. InMaps(o) = Total(f)
    BY DEF InMaps, KeysOf
  <2>. HIDE DEF f
  <2>3. Total(f) \in Nat /\ (Total(f) = 0 <=> \A m \in Maps : f[m] = 0)
    BY <1>0, <2>1, TotalType
  <2>. QED BY <2>1, <2>2, <2>3
<1>5. /\ Times(releasing, o) \in Nat
      /\ Times(releasing, o) = 0 <=> \A i \in DOMAIN releasing : releasing[i] # o
  <2>1. releasing \in Seq(Objs)
    BY DEF ObjTypes
  <2>. QED BY <2>1, TimesType
<1>. QED BY <1>1, <1>2, <1>3, <1>4, <1>5

(* An object has a reference, or is not referred to at all.                *)
LEMMA Referenced ==
  ASSUME ObjTypes, NEW o \in Objs
  PROVE  /\ References(o) \in Nat
         /\ References(o) = 0 <=> /\ o \notin Roots /\ own[o] = 0 /\ (\A c \in Objs : o \notin Held[c])
                                  /\ \A i \in DOMAIN releasing : releasing[i] # o
         /\ o \in Roots <=> own[o] # 0 \/ InPools(o) # 0
         /\ (\E c \in Objs : o \in Held[c]) <=> InArrays(o) # 0 \/ InMaps(o) # 0
<1>0. Arrays \subseteq Objs /\ Maps \subseteq Objs
  BY Shapes
<1>1. /\ own[o] \in Nat /\ InPools(o) \in Nat /\ InArrays(o) \in Nat /\ InMaps(o) \in Nat
      /\ Times(releasing, o) \in Nat
      /\ InPools(o) = 0 <=> \A p \in DOMAIN due : due[p][o] = 0
      /\ InArrays(o) = 0 <=> \A x \in Arrays : o \notin Held[x]
      /\ InMaps(o) = 0 <=> \A m \in Maps : o \notin Held[m]
      /\ Times(releasing, o) = 0 <=> \A i \in DOMAIN releasing : releasing[i] # o
      /\ \A p \in DOMAIN due : due[p][o] \in Nat
  BY ReferenceParts
<1>2. \A c \in Objs : o \in Held[c] => c \in Arrays \/ c \in Maps
  BY DEF Held
<1>3. o \in Roots <=> own[o] # 0 \/ InPools(o) # 0
  BY <1>1 DEF Roots
<1>4. (\E c \in Objs : o \in Held[c]) <=> InArrays(o) # 0 \/ InMaps(o) # 0
  BY <1>0, <1>1, <1>2
<1>5. References(o) \in Nat
  BY <1>1 DEF References
<1>6. References(o) = 0 <=> own[o] = 0 /\ InPools(o) = 0 /\ InArrays(o) = 0 /\ InMaps(o) = 0 /\ Times(releasing, o) = 0
  <2>. DEFINE a == own[o]
              b == InPools(o)
              c == InArrays(o)
              d == InMaps(o)
              e == Times(releasing, o)
  <2>1. a \in Nat /\ b \in Nat /\ c \in Nat /\ d \in Nat /\ e \in Nat /\ References(o) = a + b + c + d + e
    BY <1>1 DEF References
  <2>. HIDE DEF a, b, c, d, e
  <2>2. References(o) = 0 <=> a = 0 /\ b = 0 /\ c = 0 /\ d = 0 /\ e = 0
    BY <2>1
  <2>. QED BY <2>2 DEF a, b, c, d, e
<1>. QED BY <1>1, <1>3, <1>4, <1>5, <1>6

(* The references from collections and pools, before and after one of them *)
(* changes.                                                                *)
LEMMA ArraysChange ==
  ASSUME ObjTypes, NEW x \in Arrays, NEW s \in Seq(Objs), elements' = [elements EXCEPT ![x] = s],
         NEW o \in Objs
  PROVE  /\ InArrays(o)' = (InArrays(o) - Times(elements[x], o)) + Times(s, o)
         /\ InArrays(o) \in Nat /\ Times(elements[x], o) \in Nat /\ Times(s, o) \in Nat
<1>. DEFINE f == [y \in Arrays |-> Times(elements[y], o)]
            g == [y \in Arrays |-> Times(elements'[y], o)]
<1>1. \A t \in Seq(Objs) : Times(t, o) \in Nat
  BY TimesType
<1>2. \A y \in Arrays : elements[y] \in Seq(Objs) /\ elements'[y] = IF y = x THEN s ELSE elements[y]
  BY DEF ObjTypes
<1>3. /\ f \in [Arrays -> Nat] /\ g \in [Arrays -> Nat] /\ \A y \in Arrays \ {x} : f[y] = g[y]
      /\ f[x] = Times(elements[x], o) /\ g[x] = Times(s, o)
  BY <1>1, <1>2
<1>4. InArrays(o) = Total(f) /\ InArrays(o)' = Total(g)
  BY DEF InArrays
<1>5. IsFiniteSet(Arrays)
  BY Shapes
<1>. HIDE DEF f, g
<1>6. Total(g) = (Total(f) - f[x]) + g[x] /\ Total(f) \in Nat
  BY <1>3, <1>5, TotalChange
<1>. QED BY <1>1, <1>2, <1>3, <1>4, <1>6

(* The references from maps, before and after one of the maps changes.     *)
LEMMA MapsChange ==
  ASSUME NEW m \in Maps, NEW o \in Objs,
         \A n \in Maps \ {m}, k \in Keys : HeldBy(n, k)' = HeldBy(n, k)
  PROVE  /\ InMaps(o)' = (InMaps(o) - KeysOf(m, o)) + KeysOf(m, o)'
         /\ InMaps(o) \in Nat /\ KeysOf(m, o) \in Nat /\ KeysOf(m, o)' \in Nat
<1>. DEFINE f == [n \in Maps |-> KeysOf(n, o)]
            g == [n \in Maps |-> KeysOf(n, o)']
<1>1. \A n \in Maps \ {m} : KeysOf(n, o)' = KeysOf(n, o)
  BY DEF KeysOf
<1>2. \A n \in Maps : KeysOf(n, o) \in Nat /\ KeysOf(n, o)' \in Nat
  <2>1. \A P \in SUBSET Keys : Cardinality(P) \in Nat
    BY Shapes, FS_Subset, FS_CardinalityType
  <2>. QED BY <2>1 DEF KeysOf
<1>3. f \in [Maps -> Nat] /\ g \in [Maps -> Nat] /\ \A n \in Maps \ {m} : f[n] = g[n]
  BY <1>1, <1>2
<1>4. f[m] = KeysOf(m, o) /\ g[m] = KeysOf(m, o)'
  OBVIOUS
<1>5. InMaps(o) = Total(f) /\ InMaps(o)' = Total(g)
  BY DEF InMaps, KeysOf
<1>6. IsFiniteSet(Maps)
  BY Shapes
<1>. HIDE DEF f, g
<1>7. Total(g) = (Total(f) - f[m]) + g[m] /\ Total(f) \in Nat
  BY <1>3, <1>6, TotalChange
<1>. QED BY <1>2, <1>4, <1>5, <1>7

(* The keys of one value, before and after one key changes.                *)
LEMMA KeyChange ==
  ASSUME NEW m \in Maps, NEW k \in Keys, NEW o \in Objs,
         \A j \in Keys \ {k} : HeldBy(m, j)' = HeldBy(m, j)
  PROVE  /\ KeysOf(m, o)' = (KeysOf(m, o) - One(HeldBy(m, k) = o)) + One(HeldBy(m, k)' = o)
         /\ KeysOf(m, o) \in Nat
<1>. DEFINE P == {j \in Keys : HeldBy(m, j) = o}
            Q == {j \in Keys : HeldBy(m, j)' = o}
            B == P \ {k}
<1>1. IsFiniteSet(P) /\ IsFiniteSet(B)
  <2>1. P \in SUBSET Keys /\ B \in SUBSET Keys /\ IsFiniteSet(Keys)
    BY Shapes
  <2>. QED BY <2>1, FS_Subset
<1>2. /\ HeldBy(m, k) = o => P = B \cup {k}
      /\ HeldBy(m, k) # o => P = B
      /\ HeldBy(m, k)' = o => Q = B \cup {k}
      /\ HeldBy(m, k)' # o => Q = B
      /\ k \notin B
  OBVIOUS
<1>3. KeysOf(m, o) = Cardinality(P) /\ KeysOf(m, o)' = Cardinality(Q)
  BY DEF KeysOf
<1>. HIDE DEF P, Q, B
<1>4. Cardinality(B \cup {k}) = Cardinality(B) + 1 /\ Cardinality(B) \in Nat
  BY <1>1, <1>2, FS_AddElement, FS_CardinalityType
<1>5. Cardinality(P) = Cardinality(B) + One(HeldBy(m, k) = o)
  <2>1. CASE HeldBy(m, k) = o
    BY <1>2, <1>4, <2>1 DEF One
  <2>2. CASE HeldBy(m, k) # o
    BY <1>2, <1>4, <2>2 DEF One
  <2>. QED BY <2>1, <2>2
<1>6. Cardinality(Q) = Cardinality(B) + One(HeldBy(m, k)' = o)
  BY <1>2, <1>4 DEF One
<1>7. One(HeldBy(m, k) = o) \in Nat /\ One(HeldBy(m, k)' = o) \in Nat
  BY DEF One
<1>. QED BY <1>3, <1>4, <1>5, <1>6, <1>7

(* The references from pools, before and after one of the pools changes.   *)
LEMMA PoolsChange ==
  ASSUME ObjTypes, due' \in Seq([Objs -> Nat]), NEW p \in DOMAIN due, DOMAIN due' = DOMAIN due, NEW o \in Objs,
         \A q \in DOMAIN due \ {p} : due'[q][o] = due[q][o]
  PROVE  /\ InPools(o)' = (InPools(o) - due[p][o]) + due'[p][o]
         /\ InPools(o) \in Nat /\ due[p][o] \in Nat /\ due'[p][o] \in Nat
<1>. DEFINE f == [q \in DOMAIN due |-> due[q][o]]
            g == [q \in DOMAIN due' |-> due'[q][o]]
<1>1. \A q \in DOMAIN due : due[q] \in [Objs -> Nat] /\ due'[q] \in [Objs -> Nat]
  <2>1. due \in Seq([Objs -> Nat])
    BY DEF ObjTypes
  <2>2. \A q \in DOMAIN due : due[q] \in [Objs -> Nat]
    BY <2>1
  <2>3. \A q \in DOMAIN due' : due'[q] \in [Objs -> Nat]
    OBVIOUS
  <2>. QED BY <2>2, <2>3
<1>2. /\ f \in [DOMAIN due -> Nat] /\ g \in [DOMAIN due -> Nat]
      /\ \A q \in DOMAIN due \ {p} : f[q] = g[q]
      /\ f[p] = due[p][o] /\ g[p] = due'[p][o]
  BY <1>1
<1>3. IsFiniteSet(DOMAIN due)
  <2>1. Len(due) \in Nat /\ DOMAIN due = 1 .. Len(due)
    BY DEF ObjTypes
  <2>2. 1 \in Int /\ Len(due) \in Int
    BY <2>1
  <2>. QED BY <2>1, <2>2, FS_Interval
<1>4. InPools(o) = Total(f) /\ InPools(o)' = Total(g)
  BY DEF InPools
<1>. DEFINE D == DOMAIN due
<1>5. /\ IsFiniteSet(D) /\ f \in [D -> Nat] /\ g \in [D -> Nat] /\ p \in D
      /\ \A q \in D \ {p} : f[q] = g[q]
  BY <1>2, <1>3
<1>. HIDE DEF f, g, D
<1>6. Total(g) = (Total(f) - f[p]) + g[p] /\ Total(f) \in Nat
  BY ONLY <1>5, TotalChange
<1>. QED BY <1>1, <1>2, <1>4, <1>6

(* The memory of a dead collection was given back.                         *)
DeadEmpty ==
  /\ \A x \in Arrays : retain[x] = 0 => elements[x] = <<>>
  /\ \A m \in Maps : retain[m] = 0 => entries[m] = NoValues

(* The value that is stored next is the program's own, and its map can     *)
(* still be reached and is not inside the value.                           *)
StoreOK ==
  storing # NoStore =>
    /\ ~drain.on /\ storing.value \in Roots /\ storing.map \in Reach(Held, Roots)
    /\ storing.value # storing.map /\ storing.map \notin Reach(Held, Held[storing.value])

(* A pool as a list from the newest object to the oldest: every one but    *)
(* the oldest is linked to the one before it, for which no later link may  *)
(* have taken its place.                                                   *)
First(s) == IF s = <<>> THEN Nil ELSE s[1]
HeadOf(p) == IF p = Top /\ drain.on THEN drain.cur ELSE pools[p]

LinksOf(lists, p) ==
  \A i \in 1 .. Len(lists[p]) - 1 :
    /\ next[lists[p][i]] = lists[p][i + 1]
    /\ \A j \in 1 .. i - 1 : lists[p][j] # lists[p][i]
    /\ \A q \in p + 1 .. Len(lists) : \A j \in 1 .. Len(lists[q]) : lists[q][j] # lists[p][i]

LinkFound(lists, o) == \E p \in 1 .. Len(lists) : \E i \in 1 .. Len(lists[p]) - 1 : lists[p][i] = o

PoolsAre(lists) ==
  /\ lists \in Seq(Seq(Objs)) /\ Len(lists) = Top
  /\ \A p \in 1 .. Top : /\ HeadOf(p) = First(lists[p])
                         /\ \A o \in Objs : due[p][o] = Times(lists[p], o)
                         /\ LinksOf(lists, p)
  /\ \A o \in Objs : next[o] # Nil => LinkFound(lists, o)

PoolsOK == \E lists : PoolsAre(lists)

ObjInv ==
  /\ ObjTypes /\ CountsMatch /\ DeadEmpty /\ Acyclic(Held) /\ StoreOK /\ ArrayFits /\ PoolsOK

-----------------------------------------------------------------------------
(* What a collection holds, as a list.                                     *)
LEMMA ContentsHeld ==
  ASSUME ObjTypes, NEW o \in Objs, storing.map # o
  PROVE  /\ Contents(o) \in Seq(Objs) /\ ToSet(Contents(o)) = Held[o]
         /\ \A c \in Objs : Times(Contents(o), c) = IF o \in Arrays THEN Times(elements[o], c)
                                                    ELSE IF o \in Maps THEN KeysOf(o, c) ELSE 0
<1>0. Arrays \cap Maps = {} /\ Nil \notin Objs /\ IsFiniteSet(Keys)
  BY Shapes
<1>1. CASE o \in Arrays
  <2>1. Contents(o) = elements[o] /\ elements[o] \in Seq(Objs) /\ Held[o] = ToSet(elements[o])
    BY <1>1 DEF Contents, Held, ObjTypes
  <2>. QED BY <1>1, <2>1
<1>2. CASE o \in Maps
  <2>. DEFINE v == entries[o]
              K == {k \in Keys : v[k] # Nil}
  <2>1. v \in [Keys -> Objs \cup {Nil}] /\ \A k \in Keys : HeldBy(o, k) = v[k]
    BY <1>2 DEF ObjTypes, HeldBy
  <2>2. K \in SUBSET Keys /\ \A k \in K : v[k] \in Objs
    BY <2>1
  <2>3. IsFiniteSet(K)
    BY <1>0, <2>2, FS_Subset
  <2>4. Contents(o) = [i \in DOMAIN SetToSeq(K) |-> v[SetToSeq(K)[i]]]
    BY <1>0, <1>2 DEF Contents, Values
  <2>5. Held[o] = {v[k] : k \in K}
    BY <1>0, <1>2, <2>1 DEF Held
  <2>6. ASSUME NEW c \in Objs PROVE KeysOf(o, c) = Cardinality({k \in K : v[k] = c})
    <3>1. {k \in Keys : HeldBy(o, k) = c} = {k \in K : v[k] = c}
      BY <1>0, <2>1
    <3>. QED BY <3>1 DEF KeysOf
  <2>. HIDE DEF v, K
  <2>7. /\ Contents(o) \in Seq(Objs) /\ ToSet(Contents(o)) = {v[k] : k \in K}
        /\ \A c : Times(Contents(o), c) = Cardinality({k \in K : v[k] = c})
    BY <2>2, <2>3, <2>4, TimesListed
  <2>. QED BY <1>0, <1>2, <2>5, <2>6, <2>7
<1>3. CASE o \notin Arrays /\ o \notin Maps
  <2>1. Contents(o) = <<>> /\ Held[o] = {} /\ ToSet(<<>>) = {}
    BY <1>3 DEF Contents, Held, ToSet
  <2>2. \A c : Times(<<>>, c) = 0
    BY TimesOne
  <2>. QED BY <1>3, <2>1, <2>2
<1>. QED BY <1>1, <1>2, <1>3

(* containsObject: between calls is what Held reaches.                     *)
LEMMA InsideReach ==
  ASSUME ObjTypes, storing = NoStore
  PROVE  /\ \A o \in Objs : Inside(o) = Reach(Held, Held[o])
         /\ \A o \in Objs : Contents(o) \in Seq(Objs) /\ ToSet(Contents(o)) = Held[o]
<1>1. \A o \in Objs : storing.map # o
  BY ObjectsAssumption DEF NoStore
<1>2. \A o \in Objs : Contents(o) \in Seq(Objs) /\ ToSet(Contents(o)) = Held[o]
  BY <1>1, ContentsHeld
<1>3. ASSUME NEW o \in Objs PROVE Inside(o) = Reach(Held, Held[o])
  <2>1. ASSUME NEW S \in SUBSET Objs
        PROVE  (\A d \in S \cup {o} : ToSet(Contents(d)) \subseteq S)
                 <=> Held[o] \subseteq S /\ \A d \in S : Held[d] \subseteq S
    BY <1>2
  <2>. QED BY <2>1 DEF Inside, Reach
<1>. QED BY <1>2, <1>3

(* What has a reference lives, and the other way round.                    *)
LEMMA LivesReferenced ==
  ASSUME ObjTypes, CountsMatch, NEW o \in Objs
  PROVE  /\ retain[o] \in Nat /\ retain[o] = References(o)
         /\ retain[o] = 0 <=> /\ o \notin Roots /\ own[o] = 0 /\ (\A c \in Objs : o \notin Held[c])
                              /\ \A i \in DOMAIN releasing : releasing[i] # o
BY Referenced DEF CountsMatch, ObjTypes

(* What is reached from living objects lives.                              *)
LEMMA ReachLives ==
  ASSUME ObjTypes, CountsMatch, NEW R \in SUBSET Objs, \A r \in R : retain[r] > 0
  PROVE  \A o \in Reach(Held, R) : retain[o] > 0
<1>. SUFFICES ASSUME NEW o \in Reach(Held, R) PROVE retain[o] > 0
  OBVIOUS
<1>1. Held \in Edges
  BY HeldTypes
<1>2. o \in Objs /\ (o \in R \/ \E d \in Objs : o \in Held[d])
  BY <1>1, ReachClosed
<1>3. CASE o \in R
  BY <1>3
<1>4. CASE \E d \in Objs : o \in Held[d]
  BY <1>2, <1>4, LivesReferenced
<1>. QED BY <1>2, <1>3, <1>4

(* What the program can name lives, and can be reached from its roots.     *)
LEMMA NamedLive ==
  ASSUME ObjTypes, CountsMatch, storing = NoStore
  PROVE  /\ Named \in SUBSET Objs /\ Roots \in SUBSET Objs /\ Roots \subseteq Named
         /\ \A o \in Named : retain[o] > 0 /\ o \in Reach(Held, Roots) /\ Held[o] \subseteq Named
<1>1. Held \in Edges
  BY HeldTypes
<1>2. Roots \in SUBSET Objs /\ \A o \in Roots : retain[o] > 0
  <2>1. Roots \in SUBSET Objs
    BY DEF Roots
  <2>2. \A o \in Objs : o \in Roots => retain[o] # 0 /\ retain[o] \in Nat
    BY LivesReferenced
  <2>. QED BY <2>1, <2>2
<1>3. \A r \in Objs : Inside(r) = Reach(Held, Held[r]) /\ Held[r] \in SUBSET Objs
  BY <1>1, InsideReach DEF Edges
<1>4. ASSUME NEW r \in Roots, NEW o \in Inside(r)
      PROVE  o \in Objs /\ o \in Reach(Held, Roots) /\ Held[o] \subseteq Inside(r)
  <2>1. Held[r] \subseteq Reach(Held, Roots)
    BY <1>1, <1>2, ReachClosed
  <2>2. /\ Reach(Held, Roots) \in SUBSET Objs
        /\ \A d \in Reach(Held, Roots) : Held[d] \subseteq Reach(Held, Roots)
    BY <1>1, <1>2, ReachClosed
  <2>3. /\ Reach(Held, Held[r]) \subseteq Reach(Held, Roots)
        /\ \A d \in Reach(Held, Held[r]) : Held[d] \subseteq Reach(Held, Held[r])
    BY <1>1, <1>2, <1>3, <2>1, <2>2, ReachClosed
  <2>. QED BY <1>2, <1>3, <1>4, <2>2, <2>3
<1>5. Roots \subseteq Reach(Held, Roots) /\ \A r \in Roots : Held[r] \subseteq Inside(r)
  BY <1>1, <1>2, <1>3, ReachClosed
<1>6. \A o \in Reach(Held, Roots) : retain[o] > 0
  BY <1>2, ReachLives
<1>. QED BY <1>2, <1>4, <1>5, <1>6 DEF Named

(* A list without a first object is empty.                                 *)
LEMMA ListHead ==
  ASSUME NEW s \in Seq(Objs)
  PROVE  /\ First(s) \in Objs \cup {Nil}
         /\ First(s) = Nil => s = <<>> /\ \A o : Times(s, o) = 0
         /\ First(s) # Nil => s # <<>> /\ Times(s, First(s)) > 0
<1>1. Len(s) \in Nat /\ DOMAIN s = 1 .. Len(s)
  BY LenProperties
<1>2. CASE s = <<>>
  BY <1>2, TimesOne DEF First
<1>3. CASE s # <<>>
  <2>1. 1 \in DOMAIN s /\ s[1] \in Objs /\ First(s) = s[1]
    BY <1>1, <1>3, EmptySeq DEF First
  <2>2. Times(s, s[1]) \in Nat /\ Times(s, s[1]) # 0
    BY <2>1, TimesType
  <2>. QED BY <1>3, <2>1, <2>2, ObjectsAssumption
<1>. QED BY <1>2, <1>3

(* The types of the pools and of a drain, spelled out.                     *)
LEMMA PoolTypes ==
  ASSUME ObjTypes
  PROVE  /\ Top \in Nat /\ DOMAIN due = 1 .. Top /\ DOMAIN pools = 1 .. Top
         /\ \A p \in 1 .. Top : due[p] \in [Objs -> Nat] /\ pools[p] \in Objs \cup {Nil}
         /\ drain.on \in BOOLEAN /\ drain.cur \in Objs \cup {Nil}
         /\ drain.on => Top > 0 /\ Top \in 1 .. Top
         /\ ~drain.on => drain = NoDrain /\ drain.cur = Nil
<1>1. /\ Top \in Nat /\ DOMAIN due = 1 .. Top /\ DOMAIN pools = 1 .. Top
      /\ \A p \in 1 .. Top : due[p] \in [Objs -> Nat] /\ pools[p] \in Objs \cup {Nil}
  <2>1. pools \in Seq(Objs \cup {Nil}) /\ due \in Seq([Objs -> Nat]) /\ Len(due) = Len(pools)
    BY DEF ObjTypes
  <2>. QED BY <2>1 DEF Top
<1>2. CASE drain = NoDrain
  <2>1. drain.on = FALSE /\ drain.cur = Nil
    BY <1>2 DEF NoDrain
  <2>. QED BY <1>1, <1>2, <2>1
<1>3. CASE Top > 0 /\ drain \in [on : {TRUE}, cur : Objs \cup {Nil}, pop : BOOLEAN]
  <2>1. drain.on = TRUE /\ drain.cur \in Objs \cup {Nil}
    BY <1>3
  <2>2. Top \in 1 .. Top
    BY <1>1, <1>3
  <2>. QED BY <1>1, <1>3, <2>1, <2>2
<1>. QED BY <1>2, <1>3 DEF ObjTypes

(* The lists of the pools make drains exact.                               *)
LEMMA DrainedExactly ==
  ASSUME ObjTypes, PoolsOK
  PROVE  DrainExact
<1>1. PICK lists : PoolsAre(lists)
  BY DEF PoolsOK
<1>. SUFFICES ASSUME drain.on
              PROVE  /\ drain.cur # Nil => due[Top][drain.cur] > 0
                     /\ drain.cur = Nil => \A o \in Objs : due[Top][o] = 0
  BY DEF DrainExact
<1>2. Top \in 1 .. Top /\ drain.cur \in Objs \cup {Nil}
  BY PoolTypes
<1>3. /\ lists[Top] \in Seq(Objs) /\ drain.cur = First(lists[Top])
      /\ \A o \in Objs : due[Top][o] = Times(lists[Top], o)
  BY <1>1, <1>2 DEF PoolsAre, HeadOf
<1>. QED BY <1>2, <1>3, ListHead

(* The inductive invariant implies that every retain is counted.           *)
LEMMA InvSafe ==
  ASSUME ObjInv
  PROVE  RetainsCounted
<1>. USE DEF ObjInv
<1>1. DrainExact
  BY DrainedExactly
<1>2. Held \in Edges /\ Roots \in SUBSET Objs
  BY HeldTypes DEF Roots
<1>3. NoneFreed
  <2>1. ASSUME NEW i \in DOMAIN releasing PROVE retain[releasing[i]] > 0
    <3>1. releasing[i] \in Objs
      BY DEF ObjTypes
    <3>2. retain[releasing[i]] \in Nat /\ retain[releasing[i]] # 0
      BY <3>1, LivesReferenced
    <3>. QED BY <3>2
  <2>2. \A r \in Roots : retain[r] > 0
    <3>1. ASSUME NEW r \in Roots PROVE retain[r] > 0
      <4>1. r \in Objs
        BY <1>2
      <4>2. retain[r] \in Nat /\ retain[r] # 0
        BY <4>1, LivesReferenced
      <4>. QED BY <4>2
    <3>. QED BY <3>1
  <2>3. storing # NoStore => retain[storing.value] > 0 /\ retain[storing.map] > 0
    BY <1>2, <2>2, ReachLives DEF StoreOK
  <2>4. ASSUME drain.cur # Nil PROVE retain[drain.cur] > 0
    <3>1. drain.on /\ drain.cur \in Objs /\ Top \in DOMAIN due
      BY <2>4, PoolTypes
    <3>2. due[Top][drain.cur] > 0
      BY <1>1, <2>4, <3>1 DEF DrainExact
    <3>. QED BY <2>2, <3>1, <3>2 DEF Roots
  <2>. QED BY <2>1, <2>3, <2>4 DEF NoneFreed
<1>4. NoLeak
  <2>. SUFFICES ASSUME Idle PROVE \A o \in Objs : retain[o] > 0 => o \in Named
    BY DEF NoLeak
  <2>. DEFINE U == {o \in Objs : retain[o] > 0} \ Named
  <2>1. releasing = <<>> /\ storing = NoStore
    BY DEF Idle
  <2>2. ASSUME U # {} PROVE FALSE
    <3>1. PICK o \in U : \A c \in U : o \notin Held[c]
      BY <2>2 DEF Acyclic
    <3>2. o \notin Roots /\ o \in Objs /\ retain[o] > 0
      BY <2>1, NamedLive
    <3>3. \E c \in Objs : o \in Held[c]
      <4>1. ~(retain[o] = 0)
        BY <3>2
      <4>2. \A i \in DOMAIN releasing : releasing[i] # o
        BY <2>1
      <4>3. own[o] = 0
        BY <3>2 DEF Roots, ObjTypes
      <4>. QED BY <3>2, <4>1, <4>2, <4>3, LivesReferenced
    <3>4. PICK c \in Objs : o \in Held[c]
      BY <3>3
    <3>5. retain[c] # 0
      <4>1. c \in Arrays \/ c \in Maps
        BY <3>4 DEF Held
      <4>2. ASSUME c \in Arrays, retain[c] = 0 PROVE FALSE
        <5>1. elements[c] = <<>> /\ Held[c] = ToSet(<<>>)
          BY <4>2 DEF DeadEmpty, Held
        <5>. QED BY <3>4, <5>1 DEF ToSet
      <4>3. ASSUME c \in Maps, retain[c] = 0 PROVE FALSE
        <5>1. \A k \in Keys : entries[c][k] = Nil
          BY <4>3 DEF DeadEmpty, NoValues
        <5>2. \A k \in Keys : HeldBy(c, k) = Nil
          BY <5>1 DEF HeldBy
        <5>. QED BY <3>4, <4>3, <5>2, Shapes DEF Held
      <4>. QED BY <4>1, <4>2, <4>3
    <3>6. c \notin Named
      BY <2>1, <3>1, <3>4, NamedLive
    <3>7. c \in U
      BY <3>4, <3>5, <3>6 DEF ObjTypes
    <3>. QED BY <3>1, <3>4, <3>7
  <2>. QED BY <2>2
<1>. QED BY <1>1, <1>3, <1>4 DEF RetainsCounted

(* The types of the lists of the pools, spelled out.                       *)
LEMMA ListTypes ==
  ASSUME ObjTypes, NEW lists, PoolsAre(lists)
  PROVE  /\ lists \in [1 .. Top -> Seq(Objs)] /\ Len(lists) = Top
         /\ \A p \in 1 .. Top :
              /\ lists[p] \in Seq(Objs) /\ Len(lists[p]) \in Nat
              /\ DOMAIN lists[p] = 1 .. Len(lists[p])
              /\ \A i \in 1 .. Len(lists[p]) : lists[p][i] \in Objs
              /\ \A i \in 1 .. Len(lists[p]) - 1 : next[lists[p][i]] # Nil
<1>1. lists \in Seq(Seq(Objs)) /\ Len(lists) = Top /\ Nil \notin Objs
  BY ObjectsAssumption DEF PoolsAre
<1>2. lists \in [1 .. Top -> Seq(Objs)]
  BY <1>1
<1>3. ASSUME NEW p \in 1 .. Top
      PROVE  /\ lists[p] \in Seq(Objs) /\ Len(lists[p]) \in Nat
             /\ DOMAIN lists[p] = 1 .. Len(lists[p])
             /\ \A i \in 1 .. Len(lists[p]) : lists[p][i] \in Objs
  <2>1. lists[p] \in Seq(Objs)
    BY <1>2
  <2>. QED BY <2>1
<1>4. ASSUME NEW p \in 1 .. Top, NEW i \in 1 .. Len(lists[p]) - 1 PROVE next[lists[p][i]] # Nil
  <2>1. next[lists[p][i]] = lists[p][i + 1]
    BY DEF PoolsAre, LinksOf
  <2>2. i + 1 \in 1 .. Len(lists[p])
    BY <1>3
  <2>. QED BY <1>1, <1>3, <2>1, <2>2
<1>. QED BY <1>1, <1>2, <1>3, <1>4

(* A function on 1 .. n is a sequence of length n.                         *)
LEMMA FunctionIsSeq ==
  ASSUME NEW S, NEW n \in Nat, NEW f \in [1 .. n -> S]
  PROVE  f \in Seq(S) /\ Len(f) = n
OBVIOUS

(* An object that is linked to none joins the newest pool.                 *)
LEMMA PoolsPush ==
  ASSUME ObjTypes, PoolsOK, ~drain.on, Top > 0, NEW o \in Objs, next[o] = Nil,
         next' = [next EXCEPT ![o] = pools[Top]], pools' = [pools EXCEPT ![Top] = o],
         due' = [due EXCEPT ![Top][o] = @ + 1], drain' = drain
  PROVE  PoolsOK'
<1>1. PICK lists : PoolsAre(lists)
  BY DEF PoolsOK
<1>. DEFINE t == Top
            s == lists[t]
            s2 == <<o>> \o s
<1>2. /\ Top \in Nat /\ t \in 1 .. Top /\ Nil \notin Objs /\ Top' = Top
      /\ DOMAIN due = 1 .. Top /\ DOMAIN pools = 1 .. Top
      /\ \A p \in 1 .. Top : due[p] \in [Objs -> Nat]
      /\ next \in [Objs -> Objs \cup {Nil}]
  <2>1. Len(pools') = Len(pools)
    BY PoolTypes DEF ObjTypes
  <2>. QED BY <2>1, PoolTypes, ObjectsAssumption DEF Top, ObjTypes
<1>3. /\ lists \in [1 .. Top -> Seq(Objs)] /\ Len(lists) = Top
      /\ \A p \in 1 .. Top : /\ lists[p] \in Seq(Objs) /\ Len(lists[p]) \in Nat
                             /\ \A i \in 1 .. Len(lists[p]) : lists[p][i] \in Objs
                             /\ \A i \in 1 .. Len(lists[p]) - 1 : next[lists[p][i]] # Nil
  BY <1>1, ListTypes
<1>4. /\ s \in Seq(Objs) /\ s2 \in Seq(Objs) /\ Len(s) \in Nat /\ Len(s2) = Len(s) + 1
      /\ s2[1] = o /\ \A i \in 1 .. Len(s) : s2[i + 1] = s[i]
      /\ \A c : Times(s2, c) = One(o = c) + Times(s, c) /\ Times(s, c) \in Nat
  <2>1. s \in Seq(Objs) /\ <<o>> \in Seq(Objs) /\ Len(<<o>>) = 1 /\ <<o>>[1] = o
    BY <1>2, <1>3
  <2>. DEFINE h == <<o>>
  <2>. HIDE DEF s, h
  <2>2. /\ h \o s \in Seq(Objs) /\ Len(h \o s) = Len(h) + Len(s)
        /\ \A i \in 1 .. Len(h) + Len(s) : (h \o s)[i] = IF i <= Len(h) THEN h[i] ELSE s[i - Len(h)]
    BY <2>1, ConcatProperties DEF h
  <2>3. ASSUME NEW c PROVE Times(h \o s, c) = One(o = c) + Times(s, c) /\ Times(s, c) \in Nat
    <3>1. Times(h \o s, c) = Times(h, c) + Times(s, c)
      BY <2>1, TimesConcat DEF h
    <3>2. Times(h, c) = One(o = c)
      BY TimesOne DEF h
    <3>3. Times(s, c) \in Nat
      BY <2>1, TimesType
    <3>. QED BY <3>1, <3>2, <3>3
  <2>4. Len(h) = 1 /\ h[1] = o /\ Len(s) \in Nat
    BY <2>1 DEF h
  <2>5. Len(h \o s) = Len(s) + 1 /\ (h \o s)[1] = o
    BY <2>2, <2>4
  <2>6. ASSUME NEW i \in 1 .. Len(s) PROVE (h \o s)[i + 1] = s[i]
    <3>1. i + 1 \in 1 .. Len(h) + Len(s) /\ ~(i + 1 <= Len(h)) /\ (i + 1) - Len(h) = i
      BY <2>4
    <3>. QED BY <2>2, <3>1
  <2>. QED BY <2>1, <2>2, <2>3, <2>4, <2>5, <2>6 DEF h
<1>. HIDE DEF s2
<1>. HIDE DEF t
<1>0. PICK new : new = [lists EXCEPT ![t] = s2]
  OBVIOUS
<1>5. /\ new \in Seq(Seq(Objs)) /\ Len(new) = Top
      /\ new[t] = s2 /\ \A p \in 1 .. Top : p # t => new[p] = lists[p]
  <2>1. new \in [1 .. Top -> Seq(Objs)] /\ new[t] = s2 /\ \A p \in 1 .. Top : p # t => new[p] = lists[p]
    BY <1>0, <1>2, <1>3, <1>4
  <2>2. new \in Seq(Seq(Objs)) /\ Len(new) = Top
    <3>1. Top \in Nat /\ new \in [1 .. Top -> Seq(Objs)]
      BY <1>2, <2>1
    <3>. QED BY <3>1, FunctionIsSeq
  <2>. QED BY <2>1, <2>2
<1>6. \A c \in Objs : next'[c] = IF c = o THEN pools[t] ELSE next[c]
  BY <1>2 DEF t
<1>7. pools[t] = First(s)
  BY <1>1, <1>2 DEF PoolsAre, HeadOf, t
<1>8. \A p \in 1 .. Top : \A i \in 1 .. Len(lists[p]) - 1 : lists[p][i] # o
  BY <1>3
<1>9. ASSUME NEW p \in 1 .. Top
      PROVE  /\ HeadOf(p)' = First(new[p])
             /\ \A c \in Objs : due'[p][c] = Times(new[p], c)
  <2>1. CASE p = t
    <3>1. HeadOf(p)' = o
      BY <1>2, <2>1 DEF HeadOf, t
    <3>2. First(s2) = o
      BY <1>4, EmptySeq DEF First
    <3>3. \A c \in Objs : due'[p][c] = IF c = o THEN due[p][c] + 1 ELSE due[p][c]
      BY <1>2, <2>1 DEF t
    <3>4. \A c \in Objs : due[p][c] = Times(s, c)
      BY <1>1, <2>1 DEF PoolsAre
    <3>. QED BY <1>4, <1>5, <2>1, <3>1, <3>2, <3>3, <3>4 DEF One
  <2>2. CASE p # t
    <3>1. HeadOf(p)' = HeadOf(p) /\ due'[p] = due[p]
      BY <1>2, <2>2 DEF HeadOf, t
    <3>. QED BY <1>1, <1>5, <2>2, <3>1 DEF PoolsAre
  <2>. QED BY <2>1, <2>2
<1>10. ASSUME NEW p \in 1 .. Top PROVE LinksOf(new, p)'
  <2>. SUFFICES ASSUME NEW i \in 1 .. Len(new[p]) - 1
                PROVE  /\ next'[new[p][i]] = new[p][i + 1]
                       /\ \A j \in 1 .. i - 1 : new[p][j] # new[p][i]
                       /\ \A q \in p + 1 .. Top : \A j \in 1 .. Len(new[q]) : new[q][j] # new[p][i]
    BY <1>2, <1>5 DEF LinksOf
  <2>1. CASE p = t
    <3>1. new[p] = s2 /\ i \in 1 .. Len(s) /\ p + 1 .. Top = {}
      BY SMTT(30), ZenonT(30), <1>2, <1>4, <1>5, <2>1 DEF t
    <3>2. CASE i = 1
      <4>1. s2[2] = s[1] /\ s # <<>>
        BY <1>4, <3>1, <3>2, EmptySeq
      <4>. QED BY <1>4, <1>6, <1>7, <3>1, <3>2, <4>1 DEF First
    <3>3. CASE i # 1
      <4>1. i - 1 \in 1 .. Len(s) - 1 /\ i - 1 \in 1 .. Len(s) /\ (i - 1) + 1 = i
        BY <1>4, <3>1, <3>3
      <4>2. s2[i] = s[i - 1] /\ s2[i + 1] = s[i] /\ s[i - 1] # o /\ s[i - 1] \in Objs
        <5>1. s2[i] = s[i - 1] /\ s2[i + 1] = s[i]
          BY <1>4, <3>1, <4>1
        <5>2. s[i - 1] \in Objs
          BY <1>3, <4>1 DEF t
        <5>3. s[i - 1] # o
          BY <1>2, <1>8, <4>1 DEF t
        <5>. QED BY <5>1, <5>2, <5>3
      <4>3. next[s[i - 1]] = s[i] /\ \A j \in 1 .. (i - 1) - 1 : s[j] # s[i - 1]
        <5>1. LinksOf(lists, t)
          BY <1>1, <1>2 DEF PoolsAre, t
        <5>2. next[s[i - 1]] = s[(i - 1) + 1] /\ \A j \in 1 .. (i - 1) - 1 : s[j] # s[i - 1]
          BY <4>1, <5>1 DEF LinksOf
        <5>. QED BY <4>1, <5>2
      <4>4. next'[s2[i]] = s2[i + 1]
        BY <1>6, <4>2, <4>3
      <4>5. ASSUME NEW j \in 1 .. i - 1 PROVE s2[j] # s2[i]
        <5>1. CASE j = 1
          BY <1>4, <4>2, <5>1
        <5>2. CASE j # 1
          <6>1. j - 1 \in 1 .. (i - 1) - 1 /\ j - 1 \in 1 .. Len(s) /\ (j - 1) + 1 = j
            BY <4>1, <5>2
          <6>. QED BY <1>4, <4>2, <4>3, <6>1
        <5>. QED BY <5>1, <5>2
      <4>. QED BY <3>1, <4>4, <4>5
    <3>. QED BY <3>2, <3>3
  <2>2. CASE p # t
    <3>1. new[p] = lists[p] /\ i \in 1 .. Len(lists[p]) - 1
      BY <1>5, <2>2
    <3>2. /\ next[lists[p][i]] = lists[p][i + 1]
          /\ \A j \in 1 .. i - 1 : lists[p][j] # lists[p][i]
          /\ \A q \in p + 1 .. Top : \A j \in 1 .. Len(lists[q]) : lists[q][j] # lists[p][i]
      BY <1>1, <1>3, <3>1 DEF PoolsAre, LinksOf
    <3>3. lists[p][i] # o /\ lists[p][i] \in Objs
      BY <1>3, <1>8, <3>1
    <3>4. ASSUME NEW q \in p + 1 .. Top, NEW j \in 1 .. Len(new[q]) PROVE new[q][j] # lists[p][i]
      <4>0. q \in 1 .. Top
        BY <1>2
      <4>1. CASE q = t /\ j = 1
        BY <1>4, <1>5, <3>3, <4>0, <4>1
      <4>2. CASE q = t /\ j # 1
        <5>0. new[q] = s2
          BY <1>5, <4>2
        <5>1. new[q] = s2 /\ j - 1 \in 1 .. Len(s) /\ (j - 1) + 1 = j
          BY SMTT(30), ZenonT(30), <1>4, <4>2, <5>0
        <5>2. s2[j] = s[j - 1]
          BY <1>4, <5>1
        <5>. QED BY <3>2, <4>2, <5>1, <5>2
      <4>3. CASE q # t
        BY <1>5, <3>2, <4>0, <4>3
      <4>. QED BY <4>1, <4>2, <4>3
    <3>. QED BY <1>6, <3>1, <3>2, <3>3, <3>4
  <2>. QED BY <2>1, <2>2
<1>11. ASSUME NEW c \in Objs, next'[c] # Nil PROVE LinkFound(new, c)
  <2>1. CASE c = o
    <3>1. s # <<>>
      BY <1>6, <1>7, <1>11, <2>1 DEF First
    <3>2. 1 \in 1 .. Len(s2) - 1
      BY <1>4, <3>1, EmptySeq
    <3>. QED BY <1>2, <1>4, <1>5, <2>1, <3>2 DEF LinkFound
  <2>2. CASE c # o
    <3>1. LinkFound(lists, c)
      BY <1>1, <1>6, <1>11, <2>2 DEF PoolsAre
    <3>2. PICK p \in 1 .. Top : \E i \in 1 .. Len(lists[p]) - 1 : lists[p][i] = c
      BY <1>3, <3>1 DEF LinkFound
    <3>3. PICK i \in 1 .. Len(lists[p]) - 1 : lists[p][i] = c
      BY <3>2
    <3>4. CASE p = t
      <4>1. i + 1 \in 1 .. Len(s2) - 1 /\ i \in 1 .. Len(s)
        BY <1>4, <3>4
      <4>. QED BY <1>4, <1>5, <3>3, <3>4, <4>1 DEF LinkFound
    <3>5. CASE p # t
      BY <1>5, <3>3, <3>5 DEF LinkFound
    <3>. QED BY <3>4, <3>5
  <2>. QED BY <2>1, <2>2
<1>12. PoolsAre(new)'
  BY <1>2, <1>5, <1>9, <1>10, <1>11 DEF PoolsAre, LinkFound, First
<1>. QED BY <1>12 DEF PoolsOK

(* The newest object leaves the pool that drains.                          *)
LEMMA PoolsPop ==
  ASSUME ObjTypes, PoolsOK, drain.on, NEW o \in Objs, drain.cur = o,
         next' = [next EXCEPT ![o] = Nil], pools' = pools,
         due' = [due EXCEPT ![Top][o] = @ - 1],
         drain' = [drain EXCEPT !.cur = next[o]]
  PROVE  PoolsOK'
<1>1. PICK lists : PoolsAre(lists)
  BY DEF PoolsOK
<1>. DEFINE t == Top
            s == lists[t]
            s2 == Tail(s)
<1>2. /\ Top \in Nat /\ t \in 1 .. Top /\ Nil \notin Objs /\ Top' = Top
      /\ DOMAIN due = 1 .. Top /\ DOMAIN pools = 1 .. Top
      /\ \A p \in 1 .. Top : due[p] \in [Objs -> Nat]
      /\ next \in [Objs -> Objs \cup {Nil}]
  BY PoolTypes, ObjectsAssumption DEF Top, ObjTypes
<1>3. /\ lists \in [1 .. Top -> Seq(Objs)] /\ Len(lists) = Top
      /\ \A p \in 1 .. Top : /\ lists[p] \in Seq(Objs) /\ Len(lists[p]) \in Nat
                             /\ \A i \in 1 .. Len(lists[p]) : lists[p][i] \in Objs
                             /\ \A i \in 1 .. Len(lists[p]) - 1 : next[lists[p][i]] # Nil
  BY <1>1, ListTypes
<1>0. drain'.on /\ drain'.cur = next[o]
  BY PoolTypes DEF ObjTypes, NoDrain
<1>. HIDE DEF t
<1>4. First(s) = o
  BY <1>1, <1>2 DEF PoolsAre, HeadOf, t
<1>5. /\ s \in Seq(Objs) /\ s # <<>> /\ s[1] = o /\ Len(s) \in Nat /\ 1 \in 1 .. Len(s)
      /\ Head(s) = o /\ s2 \in Seq(Objs) /\ Len(s2) = Len(s) - 1
      /\ \A i \in 1 .. Len(s) - 1 : s2[i] = s[i + 1]
      /\ \A c : Times(s, c) = One(o = c) + Times(s2, c) /\ Times(s2, c) \in Nat
  <2>1. s \in Seq(Objs)
    BY <1>2, <1>3
  <2>2. s # <<>> /\ s[1] = o
    BY <1>2, <1>4 DEF First
  <2>. HIDE DEF s
  <2>3. Len(s) \in Nat /\ 1 \in 1 .. Len(s) /\ Head(s) = s[1]
    BY <2>1, <2>2, EmptySeq
  <2>4. /\ Tail(s) \in Seq(Objs) /\ Len(Tail(s)) = Len(s) - 1
        /\ \A i \in 1 .. Len(Tail(s)) : Tail(s)[i] = s[i + 1]
    BY <2>1, <2>2, HeadTailProperties
  <2>5. ASSUME NEW c PROVE Times(s, c) = One(o = c) + Times(Tail(s), c) /\ Times(Tail(s), c) \in Nat
    <3>1. Times(s, c) = One(Head(s) = c) + Times(Tail(s), c)
      BY <2>1, <2>2, TimesHead
    <3>2. Times(Tail(s), c) \in Nat
      BY <2>4, TimesType
    <3>. QED BY <2>2, <2>3, <3>1, <3>2
  <2>. QED BY <2>1, <2>2, <2>3, <2>4, <2>5
<1>. HIDE DEF s2
<1>6. PICK new : new = [lists EXCEPT ![t] = s2]
  OBVIOUS
<1>7. /\ new \in Seq(Seq(Objs)) /\ Len(new) = Top
      /\ new[t] = s2 /\ \A p \in 1 .. Top : p # t => new[p] = lists[p]
  <2>1. new \in [1 .. Top -> Seq(Objs)] /\ new[t] = s2 /\ \A p \in 1 .. Top : p # t => new[p] = lists[p]
    BY <1>2, <1>3, <1>5, <1>6
  <2>2. new \in Seq(Seq(Objs)) /\ Len(new) = Top
    <3>1. Top \in Nat /\ new \in [1 .. Top -> Seq(Objs)]
      BY <1>2, <2>1
    <3>. QED BY <3>1, FunctionIsSeq
  <2>. QED BY <2>1, <2>2
<1>8. \A p \in 1 .. Top : LinksOf(lists, p)
  BY <1>1 DEF PoolsAre
<1>9. /\ \A p \in 1 .. Top : p # t => \A i \in 1 .. Len(lists[p]) - 1 : lists[p][i] # o
      /\ \A i \in 2 .. Len(s) - 1 : s[i] # o
  <2>1. ASSUME NEW p \in 1 .. Top, p # t, NEW i \in 1 .. Len(lists[p]) - 1 PROVE lists[p][i] # o
    <3>1. t \in p + 1 .. Len(lists)
      BY SMTT(30), ZenonT(30), <1>2, <1>3, <2>1 DEF t
    <3>2. \A j \in 1 .. Len(lists[t]) : lists[t][j] # lists[p][i]
      BY <1>8, <2>1, <3>1 DEF LinksOf
    <3>. QED BY <1>5, <3>2
  <2>2. ASSUME NEW i \in 2 .. Len(s) - 1 PROVE s[i] # o
    <3>1. i \in 1 .. Len(s) - 1 /\ 1 \in 1 .. i - 1
      BY <1>5
    <3>2. LinksOf(lists, t)
      BY <1>2, <1>8
    <3>3. \A j \in 1 .. i - 1 : s[j] # s[i]
      BY <3>1, <3>2 DEF LinksOf
    <3>. QED BY <1>5, <3>1, <3>3
  <2>. QED BY <2>1, <2>2
<1>10. next[o] = First(s2)
  <2>1. CASE Len(s) > 1
    <3>1. 1 \in 1 .. Len(s) - 1 /\ s2 # <<>>
      BY <1>5, <2>1
    <3>2. next[s[1]] = s[1 + 1]
      BY <1>2, <1>8, <3>1 DEF LinksOf
    <3>. QED BY <1>5, <3>1, <3>2 DEF First
  <2>2. CASE ~(Len(s) > 1)
    <3>1. s2 = <<>>
      BY <1>5, <2>2, EmptySeq
    <3>2. ASSUME next[o] # Nil PROVE FALSE
      <4>1. LinkFound(lists, o)
        BY <1>1, <3>2 DEF PoolsAre
      <4>2. PICK p \in 1 .. Top : \E i \in 1 .. Len(lists[p]) - 1 : lists[p][i] = o
        BY <1>3, <4>1 DEF LinkFound
      <4>3. p = t
        BY <1>9, <4>2
      <4>. QED BY <1>5, <2>2, <4>2, <4>3
    <3>. QED BY <3>1, <3>2 DEF First
  <2>. QED BY <1>5, <2>1, <2>2
<1>11. ASSUME NEW p \in 1 .. Top
       PROVE  /\ HeadOf(p)' = First(new[p])
              /\ \A c \in Objs : due'[p][c] = Times(new[p], c)
  <2>1. CASE p = t
    <3>1. HeadOf(p)' = next[o]
      BY <1>0, <1>2, <2>1 DEF HeadOf, t
    <3>2. \A c \in Objs : due'[p][c] = IF c = o THEN due[p][c] - 1 ELSE due[p][c]
      BY <1>2, <2>1 DEF t
    <3>3. \A c \in Objs : due[p][c] = Times(s, c)
      BY <1>1, <2>1 DEF PoolsAre
    <3>4. ASSUME NEW c \in Objs PROVE due'[p][c] = Times(s2, c)
      <4>1. Times(s, c) = One(o = c) + Times(s2, c) /\ Times(s2, c) \in Nat
        BY <1>5
      <4>2. CASE c = o
        BY <3>2, <3>3, <4>1, <4>2 DEF One
      <4>3. CASE c # o
        BY <3>2, <3>3, <4>1, <4>3 DEF One
      <4>. QED BY <4>2, <4>3
    <3>. QED BY <1>7, <1>10, <2>1, <3>1, <3>4
  <2>2. CASE p # t
    <3>1. HeadOf(p)' = HeadOf(p) /\ due'[p] = due[p]
      BY <1>2, <2>2 DEF HeadOf, t
    <3>. QED BY <1>1, <1>7, <2>2, <3>1 DEF PoolsAre
  <2>. QED BY <2>1, <2>2
<1>12. \A c \in Objs : next'[c] = IF c = o THEN Nil ELSE next[c]
  BY <1>2
<1>13. ASSUME NEW p \in 1 .. Top PROVE LinksOf(new, p)'
  <2>. SUFFICES ASSUME NEW i \in 1 .. Len(new[p]) - 1
                PROVE  /\ next'[new[p][i]] = new[p][i + 1]
                       /\ \A j \in 1 .. i - 1 : new[p][j] # new[p][i]
                       /\ \A q \in p + 1 .. Top : \A j \in 1 .. Len(new[q]) : new[q][j] # new[p][i]
    BY <1>7 DEF LinksOf
  <2>1. CASE p = t
    <3>0. new[p] = s2 /\ Len(s2) = Len(s) - 1 /\ p + 1 .. Top = {}
      BY <1>2, <1>5, <1>7, <2>1 DEF t
    <3>1. new[p] = s2 /\ i \in 1 .. Len(s) - 2 /\ p + 1 .. Top = {}
      BY <1>5, <3>0
    <3>2. /\ i + 1 \in 1 .. Len(s) - 1 /\ i + 1 \in 2 .. Len(s) - 1 /\ i \in 1 .. Len(s) - 1
          /\ i + 1 \in 1 .. Len(s)
      BY SMTT(30), <1>5, <3>1
    <3>3. s2[i] = s[i + 1] /\ s2[i + 1] = s[(i + 1) + 1] /\ s[i + 1] # o /\ s[i + 1] \in Objs
      BY SMTT(30), ZenonT(30), <1>2, <1>3, <1>5, <1>9, <3>2
    <3>4. next[s[i + 1]] = s[(i + 1) + 1] /\ \A j \in 1 .. (i + 1) - 1 : s[j] # s[i + 1]
      BY <1>2, <1>8, <3>2 DEF LinksOf
    <3>5. ASSUME NEW j \in 1 .. i - 1 PROVE s2[j] # s2[i]
      <4>1. j \in 1 .. Len(s) - 1 /\ j + 1 \in 1 .. (i + 1) - 1
        BY <3>2
      <4>. QED BY <1>5, <3>3, <3>4, <4>1
    <3>. QED BY <1>12, <3>1, <3>3, <3>4, <3>5
  <2>2. CASE p # t
    <3>1. new[p] = lists[p] /\ i \in 1 .. Len(lists[p]) - 1
      BY <1>7, <2>2
    <3>2. /\ next[lists[p][i]] = lists[p][i + 1]
          /\ \A j \in 1 .. i - 1 : lists[p][j] # lists[p][i]
          /\ \A q \in p + 1 .. Top : \A j \in 1 .. Len(lists[q]) : lists[q][j] # lists[p][i]
      BY <1>3, <1>8, <3>1 DEF LinksOf
    <3>3. lists[p][i] # o /\ lists[p][i] \in Objs
      BY <1>3, <1>9, <2>2, <3>1
    <3>4. ASSUME NEW q \in p + 1 .. Top, NEW j \in 1 .. Len(new[q]) PROVE new[q][j] # lists[p][i]
      <4>0. q \in 1 .. Top
        BY <1>2
      <4>1. CASE q = t
        <5>0. new[q] = s2
          BY <1>7, <4>1
        <5>1. j \in 1 .. Len(s) - 1 /\ j + 1 \in 1 .. Len(s)
          BY <1>5, <5>0
        <5>2. s2[j] = s[j + 1]
          BY <1>5, <5>1
        <5>. QED BY <3>2, <4>1, <5>0, <5>1, <5>2
      <4>2. CASE q # t
        BY <1>7, <3>2, <4>0, <4>2
      <4>. QED BY <4>1, <4>2
    <3>. QED BY <1>12, <3>1, <3>2, <3>3, <3>4
  <2>. QED BY <2>1, <2>2
<1>14. ASSUME NEW c \in Objs, next'[c] # Nil PROVE LinkFound(new, c)
  <2>1. c # o /\ next[c] # Nil
    BY <1>12, <1>14
  <2>2. LinkFound(lists, c)
    BY <1>1, <2>1 DEF PoolsAre
  <2>3. PICK p \in 1 .. Top : \E i \in 1 .. Len(lists[p]) - 1 : lists[p][i] = c
    BY <1>3, <2>2 DEF LinkFound
  <2>4. PICK i \in 1 .. Len(lists[p]) - 1 : lists[p][i] = c
    BY <2>3
  <2>5. CASE p = t
    <3>1. i # 1
      BY <1>5, <2>1, <2>4, <2>5
    <3>2. i - 1 \in 1 .. Len(s2) - 1 /\ i - 1 \in 1 .. Len(s) - 1 /\ (i - 1) + 1 = i
      BY <1>5, <2>5, <3>1
    <3>3. s2[i - 1] = c
      BY <1>5, <2>4, <2>5, <3>2
    <3>. QED BY <1>2, <1>7, <3>2, <3>3 DEF LinkFound
  <2>6. CASE p # t
    BY <1>7, <2>4, <2>6 DEF LinkFound
  <2>. QED BY <2>5, <2>6
<1>15. PoolsAre(new)'
  BY <1>2, <1>7, <1>11, <1>13, <1>14 DEF PoolsAre, LinkFound, First
<1>. QED BY <1>15 DEF PoolsOK

(* The lists of the pools do not change when their heads and links do not. *)
LEMMA PoolsSame ==
  ASSUME ObjTypes, PoolsOK, next' = next, due' = due, Top' = Top,
         \A p \in 1 .. Top : HeadOf(p)' = HeadOf(p)
  PROVE  PoolsOK'
<1>1. PICK lists : PoolsAre(lists)
  BY DEF PoolsOK
<1>2. \A p \in 1 .. Top : LinksOf(lists, p)' <=> LinksOf(lists, p)
  BY DEF LinksOf
<1>3. PoolsAre(lists)'
  BY <1>1, <1>2 DEF PoolsAre, LinkFound, First
<1>. QED BY <1>3 DEF PoolsOK

(* A new pool has the empty list.                                          *)
LEMMA PoolsNew ==
  ASSUME ObjTypes, PoolsOK, ~drain.on, next' = next, drain' = drain,
         pools' = Append(pools, Nil), due' = Append(due, [o \in Objs |-> 0])
  PROVE  PoolsOK'
<1>1. PICK lists : PoolsAre(lists)
  BY DEF PoolsOK
<1>2. /\ Top \in Nat /\ Top' = Top + 1 /\ DOMAIN due = 1 .. Top /\ Len(due) = Top
      /\ \A p \in 1 .. Top : pools'[p] = pools[p] /\ due'[p] = due[p]
      /\ pools'[Top + 1] = Nil /\ due'[Top + 1] = [o \in Objs |-> 0]
  <2>1. /\ pools \in Seq(Objs \cup {Nil}) /\ due \in Seq([Objs -> Nat]) /\ Len(due) = Len(pools)
        /\ Len(pools) \in Nat /\ DOMAIN due = 1 .. Len(due)
    BY DEF ObjTypes
  <2>2. Len(pools') = Len(pools) + 1
    BY <2>1
  <2>3. [o \in Objs |-> 0] \in [Objs -> Nat]
    OBVIOUS
  <2>. DEFINE z == [o \in Objs |-> 0]
  <2>. HIDE DEF z
  <2>4. /\ \A p \in 1 .. Len(due) : Append(due, z)[p] = due[p]
        /\ Append(due, z)[Len(due) + 1] = z
    BY <2>1, <2>3, AppendProperties DEF z
  <2>5. /\ \A p \in 1 .. Len(pools) : Append(pools, Nil)[p] = pools[p]
        /\ Append(pools, Nil)[Len(pools) + 1] = Nil
    BY <2>1
  <2>. QED BY <2>1, <2>2, <2>4, <2>5 DEF Top, z
<1>3. /\ lists \in Seq(Seq(Objs)) /\ Len(lists) = Top
      /\ \A p \in 1 .. Top : lists[p] \in Seq(Objs)
  BY <1>1, ListTypes DEF PoolsAre
<1>4. PICK new : new = Append(lists, <<>>)
  OBVIOUS
<1>5. /\ new \in Seq(Seq(Objs)) /\ Len(new) = Top + 1
      /\ \A p \in 1 .. Top : new[p] = lists[p]
      /\ new[Top + 1] = <<>> /\ Len(new[Top + 1]) = 0
  <2>1. <<>> \in Seq(Objs) /\ Len(<<>>) = 0
    OBVIOUS
  <2>2. /\ Append(lists, <<>>) \in Seq(Seq(Objs)) /\ Len(Append(lists, <<>>)) = Len(lists) + 1
        /\ \A p \in 1 .. Len(lists) : Append(lists, <<>>)[p] = lists[p]
        /\ Append(lists, <<>>)[Len(lists) + 1] = <<>>
    BY <1>3, <2>1, AppendProperties
  <2>3. new[Top + 1] = <<>>
    BY <1>3, <1>4, <2>2
  <2>4. Len(new[Top + 1]) = 0
    BY <2>1, <2>3
  <2>. QED BY <1>3, <1>4, <2>2, <2>3, <2>4
<1>6. ASSUME NEW p \in 1 .. Top'
      PROVE  /\ HeadOf(p)' = First(new[p])
             /\ \A o \in Objs : due'[p][o] = Times(new[p], o)
             /\ LinksOf(new, p)'
  <2>1. CASE p = Top + 1
    <3>1. pools'[p] = Nil /\ ~drain'.on /\ First(<<>>) = Nil
      BY <1>2, <2>1 DEF First
    <3>2. \A o \in Objs : due'[p][o] = 0 /\ Times(<<>>, o) = 0
      BY <1>2, <2>1, TimesOne
    <3>3. new[p] = <<>> /\ Len(new[p]) = 0 /\ 1 .. Len(new[p]) - 1 = {}
      BY <1>5, <2>1
    <3>4. HeadOf(p)' = First(new[p])
      BY <3>1, <3>3 DEF HeadOf
    <3>5. LinksOf(new, p)'
      BY <3>3 DEF LinksOf
    <3>. QED BY <3>2, <3>3, <3>4, <3>5
  <2>2. CASE p # Top + 1
    <3>0. p \in 1 .. Top
      BY <1>2, <2>2
    <3>1. p \in 1 .. Top /\ new[p] = lists[p] /\ due'[p] = due[p] /\ pools'[p] = pools[p]
      BY <1>2, <1>5, <3>0
    <3>2. /\ HeadOf(p) = First(lists[p]) /\ LinksOf(lists, p)
          /\ \A o \in Objs : due[p][o] = Times(lists[p], o)
      BY <1>1, <3>1 DEF PoolsAre
    <3>3. HeadOf(p)' = HeadOf(p)
      BY <3>1 DEF HeadOf
    <3>4. LinksOf(new, p)'
      <4>. SUFFICES ASSUME NEW i \in 1 .. Len(new[p]) - 1
                    PROVE  /\ next'[new[p][i]] = new[p][i + 1]
                           /\ \A j \in 1 .. i - 1 : new[p][j] # new[p][i]
                           /\ \A q \in p + 1 .. Top + 1 : \A j \in 1 .. Len(new[q]) : new[q][j] # new[p][i]
        BY <1>5 DEF LinksOf
      <4>1. /\ next[lists[p][i]] = lists[p][i + 1]
            /\ \A j \in 1 .. i - 1 : lists[p][j] # lists[p][i]
            /\ \A q \in p + 1 .. Top : \A j \in 1 .. Len(lists[q]) : lists[q][j] # lists[p][i]
        BY <1>3, <3>1, <3>2 DEF LinksOf
      <4>2. ASSUME NEW q \in p + 1 .. Top + 1, NEW j \in 1 .. Len(new[q]) PROVE new[q][j] # new[p][i]
        <5>1. q # Top + 1
          BY <1>5
        <5>2. q \in p + 1 .. Top /\ q \in 1 .. Top
          BY <1>2, <3>1, <5>1
        <5>. QED BY <1>5, <3>1, <4>1, <5>2
      <4>. QED BY <3>1, <4>1, <4>2
    <3>. QED BY <3>1, <3>2, <3>3, <3>4
  <2>. QED BY <2>1, <2>2
<1>7. ASSUME NEW o \in Objs, next'[o] # Nil PROVE LinkFound(new, o)
  <2>1. LinkFound(lists, o)
    BY <1>1, <1>7 DEF PoolsAre
  <2>2. PICK p \in 1 .. Top : \E i \in 1 .. Len(lists[p]) - 1 : lists[p][i] = o
    BY <1>3, <2>1 DEF LinkFound
  <2>3. p \in 1 .. Top + 1 /\ new[p] = lists[p]
    BY <1>2, <1>5
  <2>. QED BY <1>5, <2>2, <2>3 DEF LinkFound
<1>8. PoolsAre(new)'
  BY <1>2, <1>5, <1>6, <1>7 DEF PoolsAre, LinkFound, First
<1>. QED BY <1>8 DEF PoolsOK

(* A pool that was drained is empty, or goes.                              *)
LEMMA PoolsEnd ==
  ASSUME ObjTypes, PoolsOK, drain.on, drain.cur = Nil, next' = next, drain' = NoDrain,
         pools' = IF drain.pop THEN Front(pools) ELSE [pools EXCEPT ![Top] = Nil],
         due' = IF drain.pop THEN Front(due) ELSE due
  PROVE  PoolsOK' /\ \A o \in Objs : due[Top][o] = 0
<1>1. PICK lists : PoolsAre(lists)
  BY DEF PoolsOK
<1>2. /\ Top \in Nat /\ Top \in 1 .. Top /\ DOMAIN due = 1 .. Top /\ Len(due) = Top /\ Len(pools) = Top
      /\ pools \in Seq(Objs \cup {Nil}) /\ due \in Seq([Objs -> Nat])
  BY PoolTypes DEF ObjTypes, Top
<1>3. /\ lists \in Seq(Seq(Objs)) /\ Len(lists) = Top
      /\ \A p \in 1 .. Top : lists[p] \in Seq(Objs)
  BY <1>1, ListTypes DEF PoolsAre
<1>4. lists[Top] = <<>> /\ \A o \in Objs : due[Top][o] = 0
  <2>1. lists[Top] \in Seq(Objs) /\ First(lists[Top]) = Nil
    BY <1>1, <1>2, <1>3 DEF PoolsAre, HeadOf
  <2>2. lists[Top] = <<>> /\ \A o : Times(lists[Top], o) = 0
    BY <2>1, ListHead
  <2>. QED BY <1>1, <1>2, <2>2 DEF PoolsAre
<1>5. ~drain'.on
  BY DEF NoDrain
<1>6. CASE ~drain.pop
  <2>0. /\ Len([pools EXCEPT ![Top] = Nil]) = Top
        /\ \A p \in 1 .. Top : [pools EXCEPT ![Top] = Nil][p] = IF p = Top THEN Nil ELSE pools[p]
    BY <1>2
  <2>00. pools' = [pools EXCEPT ![Top] = Nil]
    BY <1>6
  <2>01. Top' = Len(pools')
    BY DEF Top
  <2>1. Top' = Top /\ \A p \in 1 .. Top : pools'[p] = IF p = Top THEN Nil ELSE pools[p]
    BY <2>0, <2>00, <2>01
  <2>2. \A p \in 1 .. Top : HeadOf(p)' = HeadOf(p)
    BY <1>2, <1>5, <2>1 DEF HeadOf
  <2>. QED BY <1>4, <1>6, <2>1, <2>2, PoolsSame
<1>7. CASE drain.pop
  <2>. DEFINE n == Top - 1
  <2>1. n \in Nat /\ \A p \in 1 .. n : p \in 1 .. Top /\ p # Top
    BY <1>2
  <2>2. /\ Top' = n /\ \A p \in 1 .. n : pools'[p] = pools[p] /\ due'[p] = due[p]
    <3>1. pools' = SubSeq(pools, 1, n) /\ due' = SubSeq(due, 1, n)
      BY <1>2, <1>7 DEF Front
    <3>. HIDE DEF n
    <3>2. /\ Len(SubSeq(pools, 1, n)) = n /\ \A p \in 1 .. n : SubSeq(pools, 1, n)[p] = pools[p]
      BY <1>2, <2>1
    <3>3. \A p \in 1 .. n : SubSeq(due, 1, n)[p] = due[p]
      BY <1>2, <2>1
    <3>. QED BY <3>1, <3>2, <3>3 DEF Top
  <2>3. PICK new : new = SubSeq(lists, 1, n)
    OBVIOUS
  <2>4. /\ new \in Seq(Seq(Objs)) /\ Len(new) = n /\ \A p \in 1 .. n : new[p] = lists[p]
    <3>. HIDE DEF n
    <3>1. \A p \in 1 .. n : lists[p] \in Seq(Objs)
      BY <1>3, <2>1
    <3>. QED BY <2>1, <2>3, <3>1
  <2>. HIDE DEF n
  <2>5. ASSUME NEW p \in 1 .. n
        PROVE  /\ HeadOf(p)' = First(new[p])
               /\ \A o \in Objs : due'[p][o] = Times(new[p], o)
               /\ LinksOf(new, p)'
    <3>1. p \in 1 .. Top /\ p # Top /\ new[p] = lists[p] /\ due'[p] = due[p] /\ pools'[p] = pools[p]
      BY <2>1, <2>2, <2>4
    <3>2. /\ HeadOf(p) = First(lists[p]) /\ LinksOf(lists, p)
          /\ \A o \in Objs : due[p][o] = Times(lists[p], o)
      BY <1>1, <3>1 DEF PoolsAre
    <3>3. HeadOf(p)' = HeadOf(p)
      BY <1>5, <3>1 DEF HeadOf
    <3>4. LinksOf(new, p)'
      <4>. SUFFICES ASSUME NEW i \in 1 .. Len(new[p]) - 1
                    PROVE  /\ next'[new[p][i]] = new[p][i + 1]
                           /\ \A j \in 1 .. i - 1 : new[p][j] # new[p][i]
                           /\ \A q \in p + 1 .. n : \A j \in 1 .. Len(new[q]) : new[q][j] # new[p][i]
        BY <2>4 DEF LinksOf
      <4>1. /\ next[lists[p][i]] = lists[p][i + 1]
            /\ \A j \in 1 .. i - 1 : lists[p][j] # lists[p][i]
            /\ \A q \in p + 1 .. Top : \A j \in 1 .. Len(lists[q]) : lists[q][j] # lists[p][i]
        BY <1>3, <3>1, <3>2 DEF LinksOf
      <4>2. ASSUME NEW q \in p + 1 .. n PROVE q \in p + 1 .. Top /\ new[q] = lists[q]
        <5>1. q \in 1 .. n /\ n = Top - 1
          BY <1>2, <2>1, <3>1 DEF n
        <5>2. q \in p + 1 .. Top
          BY <1>2, <3>1, <5>1
        <5>. QED BY <2>4, <5>1, <5>2
      <4>. QED BY <3>1, <4>1, <4>2
    <3>. QED BY <3>1, <3>2, <3>3, <3>4
  <2>6. ASSUME NEW o \in Objs, next'[o] # Nil PROVE LinkFound(new, o)
    <3>1. LinkFound(lists, o)
      BY <1>1, <2>6 DEF PoolsAre
    <3>2. PICK p \in 1 .. Top : \E i \in 1 .. Len(lists[p]) - 1 : lists[p][i] = o
      BY <1>3, <3>1 DEF LinkFound
    <3>3. p # Top
      BY <1>4, <3>2, EmptySeq
    <3>4. p \in 1 .. n /\ new[p] = lists[p]
      BY <1>2, <2>4, <3>3 DEF n
    <3>. QED BY <2>4, <3>2, <3>4 DEF LinkFound
  <2>7. PoolsAre(new)'
    BY <2>2, <2>4, <2>5, <2>6 DEF PoolsAre, LinkFound, First
  <2>. QED BY <1>4, <2>7 DEF PoolsOK
<1>. QED BY <1>6, <1>7

(* An object in no pool is linked to none.                                 *)
LEMMA DeadUnlinked ==
  ASSUME ObjTypes, CountsMatch, PoolsOK, NEW o \in Objs, retain[o] = 0
  PROVE  /\ next[o] = Nil /\ own[o] = 0 /\ \A c \in Objs : o \notin Held[c]
         /\ o \notin Roots /\ \A p \in 1 .. Top : due[p][o] = 0
         /\ References(o) = 0 /\ \A i \in DOMAIN releasing : releasing[i] # o
<1>1. /\ own[o] = 0 /\ (\A c \in Objs : o \notin Held[c])
      /\ o \notin Roots /\ References(o) = 0 /\ \A i \in DOMAIN releasing : releasing[i] # o
  BY LivesReferenced
<1>2. \A p \in 1 .. Top : due[p][o] = 0
  <2>1. \A p \in DOMAIN due : due[p][o] \in Nat
    BY ReferenceParts
  <2>. QED BY SMTT(30), ZenonT(30), <1>1, <2>1, PoolTypes DEF Roots
<1>3. next[o] = Nil
  <2>1. PICK lists : PoolsAre(lists)
    BY DEF PoolsOK
  <2>2. ASSUME next[o] # Nil PROVE FALSE
    <3>1. LinkFound(lists, o) /\ Len(lists) = Top
      BY <2>1, <2>2 DEF PoolsAre
    <3>2. PICK p \in 1 .. Top : \E i \in 1 .. Len(lists[p]) - 1 : lists[p][i] = o
      BY <3>1 DEF LinkFound
    <3>3. PICK i \in 1 .. Len(lists[p]) - 1 : lists[p][i] = o
      BY <3>2
    <3>4. lists[p] \in Seq(Objs) /\ i \in DOMAIN lists[p]
      BY <2>1, ListTypes
    <3>5. Times(lists[p], o) # 0
      <4>1. Times(lists[p], o) = 0 <=> \A j \in DOMAIN lists[p] : lists[p][j] # o
        BY ONLY <3>4, TimesType
      <4>. QED BY <3>3, <3>4, <4>1
    <3>. QED BY <1>2, <2>1, <3>5 DEF PoolsAre
  <2>. QED BY <2>2
<1>. QED BY <1>1, <1>2, <1>3

(* The references to an object, summand by summand.                        *)
LEMMA CountParts ==
  ASSUME ObjTypes, CountsMatch, NEW o \in Objs
  PROVE  /\ own[o] \in Nat /\ InPools(o) \in Nat /\ InArrays(o) \in Nat /\ InMaps(o) \in Nat
         /\ Times(releasing, o) \in Nat
         /\ retain[o] = own[o] + InPools(o) + InArrays(o) + InMaps(o) + Times(releasing, o)
<1>1. retain[o] = References(o)
  BY DEF CountsMatch
<1>. QED BY <1>1, ReferenceParts DEF References

(* What does not change when the state it is made from does not.           *)
LEMMA Frames ==
  /\ due' = due => \A o : InPools(o)' = InPools(o)
  /\ elements' = elements => \A o : InArrays(o)' = InArrays(o)
  /\ entries' = entries /\ storing' = storing =>
       \A o : InMaps(o)' = InMaps(o) /\ \A m, k : HeldBy(m, k)' = HeldBy(m, k)
  /\ elements' = elements /\ entries' = entries /\ storing' = storing => Held' = Held
  /\ due' = due /\ own' = own => Roots' = Roots
  /\ releasing' = releasing => \A o : Times(releasing, o)' = Times(releasing, o)
<1>1. due' = due => \A o : InPools(o)' = InPools(o)
  BY DEF InPools
<1>2. elements' = elements => \A o : InArrays(o)' = InArrays(o)
  BY DEF InArrays
<1>3. ASSUME entries' = entries, storing' = storing
      PROVE  \A o : InMaps(o)' = InMaps(o) /\ \A m, k : HeldBy(m, k)' = HeldBy(m, k)
  BY <1>3 DEF InMaps, HeldBy
<1>4. ASSUME elements' = elements, entries' = entries, storing' = storing PROVE Held' = Held
  BY <1>3, <1>4 DEF Held, HeldBy
<1>5. due' = due /\ own' = own => Roots' = Roots
  BY DEF Roots
<1>. QED BY <1>1, <1>2, <1>3, <1>4, <1>5

(* When the next, the pools and the drain stay.                            *)
LEMMA PoolsStay ==
  ASSUME ObjTypes, PoolsOK, next' = next, due' = due, pools' = pools, drain' = drain
  PROVE  PoolsOK'
<1>1. Top' = Top /\ \A p \in 1 .. Top : HeadOf(p)' = HeadOf(p)
  BY DEF Top, HeadOf
<1>. QED BY <1>1, PoolsSame

(* A call that leaves the collections alone and frees nothing.             *)
LEMMA Unmoved ==
  ASSUME ObjInv, storing = NoStore, UNCHANGED <<elements, cap, entries, storing>>,
         \A o \in Objs : retain'[o] = 0 => retain[o] = 0,
         ObjTypes', CountsMatch', PoolsOK'
  PROVE  ObjInv'
<1>1. Held' = Held /\ Acyclic(Held)
  BY Frames DEF ObjInv
<1>2. Acyclic(Held)'
  BY <1>1 DEF Acyclic
<1>3. DeadEmpty'
  BY Shapes DEF ObjInv, DeadEmpty
<1>4. StoreOK'
  BY DEF StoreOK
<1>5. ArrayFits'
  BY DEF ObjInv, ArrayFits
<1>. QED BY <1>2, <1>3, <1>4, <1>5 DEF ObjInv

(* A list of one object.                                                   *)
LEMMA SeqOfOne ==
  ASSUME NEW o \in Objs
  PROVE  <<o>> \in Seq(Objs) /\ <<>> \in Seq(Objs) /\ \A c : Times(<<o>>, c) = One(o = c)
<1>1. <<o>> \in Seq(Objs) /\ <<>> \in Seq(Objs)
  OBVIOUS
<1>2. \A c : Times(<<o>>, c) = One(o = c)
  BY TimesOne
<1>. QED BY <1>1, <1>2

-----------------------------------------------------------------------------
(* alloc and init preserve the invariant.                                  *)
LEMMA AllocStep ==
  ASSUME ObjInv, NEW o \in Objs, Alloc(o)
  PROVE  ObjInv'
<1>1. ObjTypes /\ CountsMatch /\ PoolsOK
  BY DEF ObjInv
<1>2. /\ storing = NoStore /\ retain[o] = 0 /\ releasing = <<>>
      /\ retain' = [retain EXCEPT ![o] = 1] /\ own' = [own EXCEPT ![o] = 1]
      /\ next' = [next EXCEPT ![o] = Nil]
      /\ UNCHANGED <<elements, cap, entries, pools, due, releasing, storing, drain>>
  BY DEF Alloc, Idle
<1>3. next[o] = Nil /\ own[o] = 0
  BY <1>1, <1>2, DeadUnlinked
<1>4. next' = next
  BY <1>1, <1>2, <1>3 DEF ObjTypes
<1>5. ObjTypes'
  BY <1>1, <1>2, <1>4 DEF ObjTypes, Top
<1>6. ASSUME NEW c \in Objs PROVE retain'[c] = References(c)'
  <2>1. /\ own[c] \in Nat /\ InPools(c) \in Nat /\ InArrays(c) \in Nat /\ InMaps(c) \in Nat
        /\ Times(releasing, c) \in Nat
        /\ retain[c] = own[c] + InPools(c) + InArrays(c) + InMaps(c) + Times(releasing, c)
    BY <1>1, CountParts
  <2>2. /\ InPools(c)' = InPools(c) /\ InArrays(c)' = InArrays(c) /\ InMaps(c)' = InMaps(c)
        /\ Times(releasing, c)' = Times(releasing, c)
    BY <1>2, Frames
  <2>3. /\ retain'[c] = IF c = o THEN 1 ELSE retain[c]
        /\ own'[c] = IF c = o THEN 1 ELSE own[c]
    BY <1>1, <1>2 DEF ObjTypes
  <2>4. References(c)' = own'[c] + InPools(c) + InArrays(c) + InMaps(c) + Times(releasing, c)
    BY <2>2 DEF References
  <2>5. CASE c = o
    <3>1. own'[c] = 1 /\ retain'[c] = 1 /\ own[c] = 0 /\ retain[c] = 0
      BY <1>2, <1>3, <2>3, <2>5
    <3>. QED BY <2>1, <2>4, <3>1
  <2>6. CASE c # o
    BY <2>1, <2>3, <2>4, <2>6
  <2>. QED BY <2>5, <2>6
<1>7. CountsMatch'
  BY <1>6 DEF CountsMatch
<1>8. PoolsOK'
  BY <1>1, <1>2, <1>4, PoolsStay
<1>9. \A c \in Objs : retain'[c] = 0 => retain[c] = 0
  BY <1>1, <1>2 DEF ObjTypes
<1>. QED BY <1>2, <1>5, <1>7, <1>8, <1>9, Unmoved

(* retain preserves the invariant.                                         *)
LEMMA RetainStep ==
  ASSUME ObjInv, NEW o \in Objs, Retain(o)
  PROVE  ObjInv'
<1>1. ObjTypes /\ CountsMatch /\ PoolsOK
  BY DEF ObjInv
<1>2. /\ storing = NoStore
      /\ retain' = [retain EXCEPT ![o] = @ + 1] /\ own' = [own EXCEPT ![o] = @ + 1]
      /\ UNCHANGED <<next, elements, cap, entries, pools, due, releasing, storing, drain>>
  BY DEF Retain, Idle
<1>5. ObjTypes'
  <2>1. retain' \in [Objs -> Nat] /\ own' \in [Objs -> Nat]
    BY <1>1, <1>2 DEF ObjTypes
  <2>. QED BY <1>1, <1>2, <2>1 DEF ObjTypes, Top
<1>6. ASSUME NEW c \in Objs PROVE retain'[c] = References(c)'
  <2>1. /\ own[c] \in Nat /\ InPools(c) \in Nat /\ InArrays(c) \in Nat /\ InMaps(c) \in Nat
        /\ Times(releasing, c) \in Nat
        /\ retain[c] = own[c] + InPools(c) + InArrays(c) + InMaps(c) + Times(releasing, c)
    BY <1>1, CountParts
  <2>2. /\ InPools(c)' = InPools(c) /\ InArrays(c)' = InArrays(c) /\ InMaps(c)' = InMaps(c)
        /\ Times(releasing, c)' = Times(releasing, c)
    BY <1>2, Frames
  <2>3. /\ retain'[c] = IF c = o THEN retain[c] + 1 ELSE retain[c]
        /\ own'[c] = IF c = o THEN own[c] + 1 ELSE own[c]
    BY <1>1, <1>2 DEF ObjTypes
  <2>. QED BY <2>1, <2>2, <2>3 DEF References
<1>7. CountsMatch'
  BY <1>6 DEF CountsMatch
<1>8. PoolsOK'
  BY <1>1, <1>2, PoolsStay
<1>9. \A c \in Objs : retain'[c] = 0 => retain[c] = 0
  BY <1>1, <1>2 DEF ObjTypes
<1>. QED BY <1>2, <1>5, <1>7, <1>8, <1>9, Unmoved

(* The start of release preserves the invariant.                           *)
LEMMA ReleaseCall ==
  ASSUME ObjInv, NEW o \in Objs, Release(o)
  PROVE  ObjInv'
<1>1. ObjTypes /\ CountsMatch /\ PoolsOK
  BY DEF ObjInv
<1>2. /\ storing = NoStore /\ own[o] > 0 /\ releasing = <<>>
      /\ own' = [own EXCEPT ![o] = @ - 1] /\ releasing' = <<o>>
      /\ UNCHANGED <<retain, next, elements, cap, entries, pools, due, storing, drain>>
  BY DEF Release, Idle
<1>3. <<o>> \in Seq(Objs) /\ \A c : Times(<<o>>, c) = One(o = c) /\ Times(<<>>, c) = 0
  BY SeqOfOne, TimesOne
<1>5. ObjTypes'
  <2>1. own' \in [Objs -> Nat]
    BY <1>1, <1>2 DEF ObjTypes
  <2>. QED BY <1>1, <1>2, <1>3, <2>1 DEF ObjTypes, Top
<1>6. ASSUME NEW c \in Objs PROVE retain'[c] = References(c)'
  <2>1. /\ own[c] \in Nat /\ InPools(c) \in Nat /\ InArrays(c) \in Nat /\ InMaps(c) \in Nat
        /\ Times(releasing, c) \in Nat
        /\ retain[c] = own[c] + InPools(c) + InArrays(c) + InMaps(c) + Times(releasing, c)
    BY <1>1, CountParts
  <2>2. InPools(c)' = InPools(c) /\ InArrays(c)' = InArrays(c) /\ InMaps(c)' = InMaps(c)
    BY <1>2, Frames
  <2>3. /\ retain'[c] = retain[c]
        /\ own'[c] = IF c = o THEN own[c] - 1 ELSE own[c]
    BY <1>1, <1>2 DEF ObjTypes
  <2>4. Times(releasing, c) = 0 /\ Times(releasing', c) = IF c = o THEN 1 ELSE 0
    BY <1>2, <1>3 DEF One
  <2>. QED BY <2>1, <2>2, <2>3, <2>4 DEF References
<1>7. CountsMatch'
  BY <1>6 DEF CountsMatch
<1>8. PoolsOK'
  BY <1>1, <1>2, PoolsStay
<1>. QED BY <1>2, <1>5, <1>7, <1>8, Unmoved

(* A new pool preserves the invariant.                                     *)
LEMMA PoolInitStep ==
  ASSUME ObjInv, PoolInit
  PROVE  ObjInv'
<1>1. ObjTypes /\ CountsMatch /\ PoolsOK
  BY DEF ObjInv
<1>. DEFINE z == [o \in Objs |-> 0]
<1>2. /\ storing = NoStore /\ ~drain.on
      /\ pools' = Append(pools, Nil) /\ due' = Append(due, z)
      /\ UNCHANGED <<retain, next, own, elements, cap, entries, releasing, storing, drain>>
  BY DEF PoolInit, Idle
<1>3. z \in [Objs -> Nat] /\ \A c \in Objs : z[c] = 0
  OBVIOUS
<1>. HIDE DEF z
<1>4. /\ Top \in Nat /\ DOMAIN due = 1 .. Top /\ Top = Len(pools) /\ Len(due) = Top
      /\ \A p \in 1 .. Top : due[p] \in [Objs -> Nat]
  BY <1>1, PoolTypes DEF Top, ObjTypes
<1>5. /\ Append(pools, Nil) \in Seq(Objs \cup {Nil}) /\ Len(Append(pools, Nil)) = Top + 1
      /\ Append(due, z) \in Seq([Objs -> Nat]) /\ Len(Append(due, z)) = Top + 1
      /\ DOMAIN Append(due, z) = 1 .. Top + 1
      /\ \A q \in 1 .. Top : Append(due, z)[q] = due[q]
      /\ Append(due, z)[Top + 1] = z
  <2>1. pools \in Seq(Objs \cup {Nil}) /\ due \in Seq([Objs -> Nat])
    BY <1>1 DEF ObjTypes
  <2>2. /\ Append(pools, Nil) \in Seq(Objs \cup {Nil}) /\ Len(Append(pools, Nil)) = Top + 1
    BY <1>4, <2>1, AppendProperties
  <2>3. /\ Append(due, z) \in Seq([Objs -> Nat]) /\ Len(Append(due, z)) = Top + 1
        /\ \A q \in 1 .. Top : Append(due, z)[q] = due[q]
        /\ Append(due, z)[Top + 1] = z
    BY <1>3, <1>4, <2>1, AppendProperties
  <2>4. DOMAIN Append(due, z) = 1 .. Top + 1
    BY <2>3, LenProperties
  <2>. QED BY <2>2, <2>3, <2>4
<1>6. ObjTypes'
  <2>1. drain = NoDrain
    BY <1>1, <1>2, PoolTypes
  <2>2. pools' \in Seq(Objs \cup {Nil}) /\ due' \in Seq([Objs -> Nat]) /\ Len(due') = Len(pools')
    BY <1>2, <1>5
  <2>. QED BY <1>1, <1>2, <2>1, <2>2 DEF ObjTypes
<1>7. ASSUME NEW c \in Objs PROVE retain'[c] = References(c)'
  <2>1. retain[c] = own[c] + InPools(c) + InArrays(c) + InMaps(c) + Times(releasing, c)
    BY <1>1, CountParts
  <2>2. /\ InArrays(c)' = InArrays(c) /\ InMaps(c)' = InMaps(c)
        /\ Times(releasing, c)' = Times(releasing, c)
    BY <1>2, Frames
  <2>3. InPools(c)' = InPools(c)
    <3>1. PICK e : e = Append(due, z)
      OBVIOUS
    <3>2. /\ DOMAIN e = 1 .. Top + 1 /\ e[Top + 1][c] = 0
          /\ \A q \in 1 .. Top : due[q][c] \in Nat /\ e[q] = due[q]
      BY <1>3, <1>4, <1>5, <3>1
    <3>3. PICK f : f = [q \in DOMAIN due |-> due[q][c]]
      OBVIOUS
    <3>4. PICK g : g = [q \in DOMAIN e |-> e[q][c]]
      OBVIOUS
    <3>5. f \in [1 .. Top -> Nat] /\ \A q \in 1 .. Top : f[q] = due[q][c]
      BY <1>4, <3>2, <3>3
    <3>6. /\ \A q \in 1 .. Top + 1 : e[q][c] \in Nat
          /\ 1 .. Top + 1 = 1 .. Top \cup {Top + 1}
      BY <1>4, <3>2
    <3>7. g \in [1 .. Top + 1 -> Nat] /\ g[Top + 1] = 0 /\ \A q \in 1 .. Top : f[q] = g[q]
      BY <1>4, <3>2, <3>4, <3>5, <3>6
    <3>8. Total(g) = Total(f)
      <4>. DEFINE D == 1 .. Top
                  E == 1 .. Top + 1
                  p == Top + 1
      <4>1. /\ E = D \cup {p} /\ f \in [D -> Nat] /\ g \in [E -> Nat] /\ g[p] = 0
            /\ \A q \in D : f[q] = g[q]
        BY <3>5, <3>6, <3>7
      <4>. HIDE DEF D, E, p
      <4>. QED BY <4>1, TotalExtend
    <3>9. InPools(c) = Total(f) /\ InPools(c)' = Total(g)
      BY <1>2, <3>1, <3>3, <3>4 DEF InPools
    <3>. QED BY <3>8, <3>9
  <2>. QED BY <1>2, <2>1, <2>2, <2>3 DEF References
<1>8. CountsMatch'
  BY <1>7 DEF CountsMatch
<1>9. PoolsOK'
  BY <1>1, <1>2, PoolsNew DEF z
<1>. QED BY <1>2, <1>6, <1>8, <1>9, Unmoved

(* The counts of the pools when one of them changes.                       *)
LEMMA DueSet ==
  ASSUME ObjTypes, DOMAIN due' = 1 .. Top, due' = [q \in 1 .. Top |-> due'[q]],
         \A q \in 1 .. Top : due'[q] \in [Objs -> Nat]
  PROVE  due' \in Seq([Objs -> Nat]) /\ Len(due') = Len(due) /\ DOMAIN due' = DOMAIN due
<1>1. Top \in Nat /\ Len(due) = Top /\ DOMAIN due = 1 .. Top
  BY PoolTypes DEF ObjTypes, Top
<1>2. due' \in [1 .. Top -> [Objs -> Nat]]
  OBVIOUS
<1>3. due' \in Seq([Objs -> Nat]) /\ Len(due') = Top
  BY <1>1, <1>2, FunctionIsSeq
<1>. QED BY <1>1, <1>3

(* autorelease preserves the invariant.                                    *)
LEMMA AutoreleaseStep ==
  ASSUME ObjInv, NEW o \in Objs, Autorelease(o)
  PROVE  ObjInv'
<1>1. ObjTypes /\ CountsMatch /\ PoolsOK
  BY DEF ObjInv
<1>2. /\ storing = NoStore /\ own[o] > 0 /\ releasing = <<>> /\ Top > 0 /\ next[o] = Nil /\ ~drain.on
      /\ own' = [own EXCEPT ![o] = @ - 1]
      /\ next' = [next EXCEPT ![o] = pools[Top]]
      /\ pools' = [pools EXCEPT ![Top] = o]
      /\ due' = [due EXCEPT ![Top][o] = @ + 1]
      /\ UNCHANGED <<retain, elements, cap, entries, releasing, storing, drain>>
  BY DEF Autorelease, Idle
<1>3. /\ Top \in Nat /\ Top \in 1 .. Top /\ DOMAIN due = 1 .. Top /\ due[Top][o] \in Nat
      /\ Len(pools) = Top /\ pools \in Seq(Objs \cup {Nil}) /\ pools[Top] \in Objs \cup {Nil}
      /\ drain = NoDrain
  <2>1. Top \in Nat /\ DOMAIN due = 1 .. Top /\ (\A p \in 1 .. Top : due[p] \in [Objs -> Nat] /\ pools[p] \in Objs \cup {Nil})
        /\ drain = NoDrain
    BY <1>1, <1>2, PoolTypes
  <2>. QED BY <1>1, <1>2, <2>1 DEF ObjTypes, Top
<1>4. /\ due' \in Seq([Objs -> Nat]) /\ Len(due') = Len(due) /\ DOMAIN due' = DOMAIN due
      /\ due'[Top][o] = due[Top][o] + 1
      /\ \A q \in 1 .. Top : \A c \in Objs : (q # Top \/ c # o) => due'[q][c] = due[q][c]
  <2>1. PICK v \in Nat : v = due[Top][o] + 1
    BY <1>3
  <2>2. due' = [due EXCEPT ![Top][o] = v]
    BY <1>2, <2>1
  <2>3. /\ DOMAIN due = 1 .. Top /\ due \in [1 .. Top -> [Objs -> Nat]] /\ Top \in 1 .. Top /\ o \in Objs
    <3>1. DOMAIN due = 1 .. Top /\ (\A q \in 1 .. Top : due[q] \in [Objs -> Nat]) /\ due \in Seq([Objs -> Nat])
      BY <1>1, PoolTypes DEF ObjTypes
    <3>. QED BY <1>1, <1>3, <3>1
  <2>4. /\ DOMAIN due' = 1 .. Top
        /\ \A q \in 1 .. Top : due'[q] = IF q = Top THEN [due[Top] EXCEPT ![o] = v] ELSE due[q]
    BY <2>2, <2>3
  <2>5. due' = [q \in 1 .. Top |-> due'[q]]
    BY <2>2, <2>3
  <2>6. \A q \in 1 .. Top : due'[q] \in [Objs -> Nat]
    <3>1. due[Top] \in [Objs -> Nat]
      BY <2>3
    <3>2. [due[Top] EXCEPT ![o] = v] \in [Objs -> Nat]
      BY <2>1, <3>1
    <3>. QED BY <2>3, <2>4, <3>2
  <2>7. \A q \in 1 .. Top : \A c \in Objs : (q # Top \/ c # o) => due'[q][c] = due[q][c]
    BY <2>3, <2>4
  <2>8. due'[Top][o] = v
    BY <2>3, <2>4
  <2>9. due' \in Seq([Objs -> Nat]) /\ Len(due') = Len(due) /\ DOMAIN due' = DOMAIN due
    BY <1>1, <2>4, <2>5, <2>6, DueSet
  <2>. QED BY <2>1, <2>7, <2>8, <2>9
<1>5. ObjTypes'
  <2>1. own' \in [Objs -> Nat]
    BY <1>1, <1>2 DEF ObjTypes
  <2>2. next' \in [Objs -> Objs \cup {Nil}]
    BY <1>1, <1>2, <1>3 DEF ObjTypes
  <2>3. /\ [pools EXCEPT ![Top] = o] \in Seq(Objs \cup {Nil})
        /\ Len([pools EXCEPT ![Top] = o]) = Top
    BY <1>3
  <2>4. pools' \in Seq(Objs \cup {Nil}) /\ Len(due') = Len(pools')
    BY <1>1, <1>2, <1>4, <2>3 DEF ObjTypes, Top
  <2>. QED BY <1>1, <1>2, <1>3, <1>4, <2>1, <2>2, <2>4 DEF ObjTypes
<1>6. ASSUME NEW c \in Objs PROVE retain'[c] = References(c)'
  <2>1. /\ own[c] \in Nat /\ InPools(c) \in Nat /\ InArrays(c) \in Nat /\ InMaps(c) \in Nat
        /\ Times(releasing, c) \in Nat
        /\ retain[c] = own[c] + InPools(c) + InArrays(c) + InMaps(c) + Times(releasing, c)
    BY <1>1, CountParts
  <2>2. /\ InArrays(c)' = InArrays(c) /\ InMaps(c)' = InMaps(c)
        /\ Times(releasing, c)' = Times(releasing, c)
    BY <1>2, Frames
  <2>3. /\ retain'[c] = retain[c]
        /\ own'[c] = IF c = o THEN own[c] - 1 ELSE own[c]
    BY <1>1, <1>2 DEF ObjTypes
  <2>4. /\ InPools(c)' = (InPools(c) - due[Top][c]) + due'[Top][c]
        /\ InPools(c) \in Nat /\ due[Top][c] \in Nat /\ due'[Top][c] \in Nat
    <3>1. Top \in DOMAIN due /\ \A q \in DOMAIN due \ {Top} : due'[q][c] = due[q][c]
      BY <1>3, <1>4
    <3>. QED BY <1>1, <1>4, <1>5, <3>1, PoolsChange
  <2>5. due'[Top][c] = IF c = o THEN due[Top][c] + 1 ELSE due[Top][c]
    BY <1>3, <1>4
  <2>6. References(c)' = own'[c] + InPools(c)' + InArrays(c) + InMaps(c) + Times(releasing, c)
    BY <2>2 DEF References
  <2>7. CASE c = o
    <3>1. own'[c] = own[c] - 1 /\ due'[Top][c] = due[Top][c] + 1
      BY <2>3, <2>5, <2>7
    <3>. QED BY <2>1, <2>3, <2>4, <2>6, <3>1
  <2>8. CASE c # o
    BY <2>1, <2>3, <2>4, <2>5, <2>6, <2>8
  <2>. QED BY <2>7, <2>8
<1>7. CountsMatch'
  BY <1>6 DEF CountsMatch
<1>8. PoolsOK'
  BY <1>1, <1>2, PoolsPush
<1>. QED BY <1>2, <1>5, <1>7, <1>8, Unmoved

(* The start of a drain preserves the invariant.                           *)
LEMMA DrainStartStep ==
  ASSUME ObjInv, NEW pop \in BOOLEAN, DrainStart(pop)
  PROVE  ObjInv'
<1>1. ObjTypes /\ CountsMatch /\ PoolsOK
  BY DEF ObjInv
<1>2. /\ storing = NoStore /\ Top > 0 /\ ~drain.on
      /\ drain' = [on |-> TRUE, cur |-> pools[Top], pop |-> pop]
      /\ UNCHANGED <<retain, next, own, elements, cap, entries, pools, due, releasing, storing>>
  BY DEF DrainStart, Idle
<1>3. Top \in 1 .. Top /\ pools[Top] \in Objs \cup {Nil} /\ Top' = Top
  <2>1. Top \in Nat /\ (\A p \in 1 .. Top : pools[p] \in Objs \cup {Nil})
    BY <1>1, PoolTypes
  <2>. QED BY <1>2, <2>1 DEF Top
<1>4. ObjTypes'
  BY <1>1, <1>2, <1>3 DEF ObjTypes
<1>5. ASSUME NEW c \in Objs PROVE retain'[c] = References(c)'
  <2>1. retain[c] = own[c] + InPools(c) + InArrays(c) + InMaps(c) + Times(releasing, c)
    BY <1>1, CountParts
  <2>2. /\ InPools(c)' = InPools(c) /\ InArrays(c)' = InArrays(c) /\ InMaps(c)' = InMaps(c)
        /\ Times(releasing, c)' = Times(releasing, c)
    BY <1>2, Frames
  <2>. QED BY <1>2, <2>1, <2>2 DEF References
<1>6. CountsMatch'
  BY <1>5 DEF CountsMatch
<1>7. \A p \in 1 .. Top : HeadOf(p)' = HeadOf(p)
  BY <1>2, <1>3 DEF HeadOf
<1>8. PoolsOK'
  BY <1>1, <1>2, <1>3, <1>7, PoolsSame
<1>. QED BY <1>2, <1>4, <1>6, <1>8, Unmoved

(* Each object that a drain releases preserves the invariant.              *)
LEMMA DrainNextStep ==
  ASSUME ObjInv, DrainNext
  PROVE  ObjInv'
<1>. DEFINE o == drain.cur
<1>1. ObjTypes /\ CountsMatch /\ PoolsOK
  BY DEF ObjInv
<1>2. /\ drain.on /\ releasing = <<>> /\ o # Nil
      /\ next' = [next EXCEPT ![o] = Nil] /\ releasing' = <<o>>
      /\ drain' = [drain EXCEPT !.cur = next[o]]
      /\ due' = [due EXCEPT ![Top][o] = @ - 1]
      /\ UNCHANGED <<retain, own, elements, cap, entries, pools, storing>>
  BY DEF DrainNext
<1>3. storing = NoStore
  BY <1>2 DEF ObjInv, StoreOK
<1>4. o \in Objs /\ due[Top][o] > 0
  <2>1. DrainExact
    BY <1>1, DrainedExactly
  <2>2. drain.cur \in Objs \cup {Nil}
    BY <1>1, PoolTypes
  <2>. QED BY <1>2, <2>1, <2>2 DEF DrainExact
<1>. HIDE DEF o
<1>5. /\ Top \in Nat /\ Top \in 1 .. Top /\ DOMAIN due = 1 .. Top /\ due[Top][o] \in Nat
  <2>1. Top \in Nat /\ Top \in 1 .. Top /\ DOMAIN due = 1 .. Top /\ (\A p \in 1 .. Top : due[p] \in [Objs -> Nat])
    BY <1>1, <1>2, PoolTypes
  <2>. QED BY <1>4, <2>1
<1>6. PICK ob : ob = o
  OBVIOUS
<1>7. /\ due' \in Seq([Objs -> Nat]) /\ Len(due') = Len(due) /\ DOMAIN due' = DOMAIN due
      /\ due'[Top][ob] = due[Top][ob] - 1
      /\ \A q \in 1 .. Top : \A c \in Objs : (q # Top \/ c # ob) => due'[q][c] = due[q][c]
  <2>1. PICK v \in Nat : v = due[Top][ob] - 1
    BY <1>4, <1>5, <1>6
  <2>2. due' = [due EXCEPT ![Top][ob] = v]
    BY <1>2, <1>6, <2>1
  <2>3. /\ DOMAIN due = 1 .. Top /\ due \in [1 .. Top -> [Objs -> Nat]] /\ Top \in 1 .. Top /\ ob \in Objs
    <3>1. DOMAIN due = 1 .. Top /\ (\A q \in 1 .. Top : due[q] \in [Objs -> Nat]) /\ due \in Seq([Objs -> Nat])
      BY <1>1, PoolTypes DEF ObjTypes
    <3>. QED BY <1>1, <1>4, <1>5, <1>6, <3>1
  <2>4. /\ DOMAIN due' = 1 .. Top
        /\ \A q \in 1 .. Top : due'[q] = IF q = Top THEN [due[Top] EXCEPT ![ob] = v] ELSE due[q]
    BY <2>2, <2>3
  <2>5. due' = [q \in 1 .. Top |-> due'[q]]
    BY <2>2, <2>3
  <2>6. \A q \in 1 .. Top : due'[q] \in [Objs -> Nat]
    <3>1. due[Top] \in [Objs -> Nat]
      BY <2>3
    <3>2. [due[Top] EXCEPT ![ob] = v] \in [Objs -> Nat]
      BY <2>1, <3>1
    <3>. QED BY <2>3, <2>4, <3>2
  <2>7. \A q \in 1 .. Top : \A c \in Objs : (q # Top \/ c # ob) => due'[q][c] = due[q][c]
    BY <2>3, <2>4
  <2>8. due'[Top][ob] = v
    BY <2>3, <2>4
  <2>9. due' \in Seq([Objs -> Nat]) /\ Len(due') = Len(due) /\ DOMAIN due' = DOMAIN due
    BY <1>1, <2>4, <2>5, <2>6, DueSet
  <2>. QED BY <2>1, <2>7, <2>8, <2>9
<1>8. <<ob>> \in Seq(Objs) /\ \A c : Times(<<ob>>, c) = One(ob = c) /\ Times(<<>>, c) = 0
  BY <1>4, <1>6, SeqOfOne, TimesOne
<1>9. ObjTypes'
  <2>1. next' \in [Objs -> Objs \cup {Nil}] /\ next[ob] \in Objs \cup {Nil}
    BY <1>1, <1>2, <1>4, <1>6 DEF ObjTypes
  <2>2. drain \in [on : {TRUE}, cur : Objs \cup {Nil}, pop : BOOLEAN] /\ Top > 0
    <3>1. drain # NoDrain
      BY <1>2 DEF NoDrain
    <3>. QED BY <1>1, <3>1 DEF ObjTypes
  <2>3. drain' \in [on : {TRUE}, cur : Objs \cup {Nil}, pop : BOOLEAN]
    BY <1>2, <1>6, <2>1, <2>2
  <2>4. Top' > 0
    BY <1>2, <2>2 DEF Top
  <2>5. releasing' \in Seq(Objs)
    BY <1>2, <1>6, <1>8
  <2>. QED BY <1>1, <1>2, <1>7, <2>1, <2>3, <2>4, <2>5 DEF ObjTypes
<1>10. ASSUME NEW c \in Objs PROVE retain'[c] = References(c)'
  <2>1. /\ own[c] \in Nat /\ InPools(c) \in Nat /\ InArrays(c) \in Nat /\ InMaps(c) \in Nat
        /\ Times(releasing, c) \in Nat
        /\ retain[c] = own[c] + InPools(c) + InArrays(c) + InMaps(c) + Times(releasing, c)
    BY <1>1, CountParts
  <2>2. /\ InArrays(c)' = InArrays(c) /\ InMaps(c)' = InMaps(c)
    BY <1>2, Frames
  <2>3. retain'[c] = retain[c] /\ own'[c] = own[c]
    BY <1>2
  <2>4. /\ InPools(c)' = (InPools(c) - due[Top][c]) + due'[Top][c]
        /\ InPools(c) \in Nat /\ due[Top][c] \in Nat /\ due'[Top][c] \in Nat
    BY <1>1, <1>5, <1>7, <1>9, PoolsChange
  <2>5. due'[Top][c] = IF c = ob THEN due[Top][c] - 1 ELSE due[Top][c]
    BY <1>5, <1>7
  <2>6. Times(releasing, c) = 0 /\ Times(releasing', c) = IF c = ob THEN 1 ELSE 0
    BY <1>2, <1>6, <1>8 DEF One
  <2>7. References(c)' = own'[c] + InPools(c)' + InArrays(c) + InMaps(c) + Times(releasing', c)
    BY <2>2 DEF References
  <2>8. CASE c = ob
    <3>1. Times(releasing', c) = 1 /\ due'[Top][c] = due[Top][c] - 1
      BY <2>5, <2>6, <2>8
    <3>. QED BY <2>1, <2>3, <2>4, <2>6, <2>7, <3>1
  <2>9. CASE c # ob
    BY <2>1, <2>3, <2>4, <2>5, <2>6, <2>7, <2>9
  <2>. QED BY <2>8, <2>9
<1>11. CountsMatch'
  BY <1>10 DEF CountsMatch
<1>12. PoolsOK'
  <2>1. /\ drain.cur = ob /\ next' = [next EXCEPT ![ob] = Nil]
        /\ due' = [due EXCEPT ![Top][ob] = @ - 1]
        /\ drain' = [drain EXCEPT !.cur = next[ob]] /\ ob \in Objs
    BY <1>2, <1>4, <1>6 DEF o
  <2>. QED BY <1>1, <1>2, <2>1, PoolsPop
<1>13. UNCHANGED <<elements, cap, entries, storing>> /\ \A c \in Objs : retain'[c] = 0 => retain[c] = 0
  BY <1>2
<1>. QED BY <1>3, <1>9, <1>11, <1>12, <1>13, Unmoved

(* The end of a drain, or of its pool, preserves the invariant.            *)
LEMMA DrainEndStep ==
  ASSUME ObjInv, DrainEnd
  PROVE  ObjInv'
<1>1. ObjTypes /\ CountsMatch /\ PoolsOK
  BY DEF ObjInv
<1>2. /\ drain.on /\ drain.cur = Nil
      /\ pools' = IF drain.pop THEN Front(pools) ELSE [pools EXCEPT ![Top] = Nil]
      /\ due' = IF drain.pop THEN Front(due) ELSE due
      /\ drain' = NoDrain
      /\ UNCHANGED <<retain, next, own, elements, cap, entries, releasing, storing>>
  BY DEF DrainEnd
<1>3. storing = NoStore
  BY <1>2 DEF ObjInv, StoreOK
<1>4. PoolsOK' /\ \A o \in Objs : due[Top][o] = 0
  BY <1>1, <1>2, PoolsEnd
<1>5. /\ Top \in Nat /\ Top \in 1 .. Top /\ DOMAIN due = 1 .. Top /\ Len(due) = Top /\ Len(pools) = Top
      /\ pools \in Seq(Objs \cup {Nil}) /\ due \in Seq([Objs -> Nat])
      /\ \A p \in 1 .. Top : due[p] \in [Objs -> Nat]
  BY <1>1, <1>2, PoolTypes DEF ObjTypes, Top
<1>6. CASE ~drain.pop
  <2>1. /\ pools' \in Seq(Objs \cup {Nil}) /\ Len(pools') = Top /\ due' = due
    <3>1. /\ [pools EXCEPT ![Top] = Nil] \in Seq(Objs \cup {Nil})
          /\ Len([pools EXCEPT ![Top] = Nil]) = Top
      BY <1>5
    <3>. QED BY <1>2, <1>6, <3>1
  <2>2. ObjTypes'
    BY <1>1, <1>2, <1>5, <2>1 DEF ObjTypes
  <2>3. ASSUME NEW c \in Objs PROVE retain'[c] = References(c)'
    <3>1. retain[c] = own[c] + InPools(c) + InArrays(c) + InMaps(c) + Times(releasing, c)
      BY <1>1, CountParts
    <3>2. /\ InPools(c)' = InPools(c) /\ InArrays(c)' = InArrays(c) /\ InMaps(c)' = InMaps(c)
          /\ Times(releasing, c)' = Times(releasing, c)
      BY <1>2, <2>1, Frames
    <3>. QED BY <1>2, <3>1, <3>2 DEF References
  <2>4. CountsMatch'
    BY <2>3 DEF CountsMatch
  <2>. QED BY <1>2, <1>3, <1>4, <2>2, <2>4, Unmoved
<1>7. CASE drain.pop
  <2>1. PICK n \in Nat : n = Top - 1
    BY <1>5
  <2>2. /\ pools' = SubSeq(pools, 1, n) /\ due' = SubSeq(due, 1, n)
    BY <1>2, <1>5, <1>7, <2>1 DEF Front
  <2>3. /\ SubSeq(pools, 1, n) \in Seq(Objs \cup {Nil}) /\ Len(SubSeq(pools, 1, n)) = n
        /\ SubSeq(due, 1, n) \in Seq([Objs -> Nat]) /\ Len(SubSeq(due, 1, n)) = n
        /\ DOMAIN SubSeq(due, 1, n) = 1 .. n
        /\ \A p \in 1 .. n : SubSeq(due, 1, n)[p] = due[p]
    <3>1. \A p \in 1 .. n : p \in 1 .. Top
      BY <1>5, <2>1
    <3>2. \A p \in 1 .. n : pools[p] \in Objs \cup {Nil} /\ due[p] \in [Objs -> Nat]
      BY <1>1, <1>5, <3>1, PoolTypes
    <3>3. SubSeq(pools, 1, n) \in Seq(Objs \cup {Nil}) /\ Len(SubSeq(pools, 1, n)) = n
      BY <2>1, <3>2, <1>5
    <3>4. SubSeq(due, 1, n) \in Seq([Objs -> Nat]) /\ Len(SubSeq(due, 1, n)) = n
      BY <2>1, <3>2, <1>5
    <3>5. \A p \in 1 .. n : SubSeq(due, 1, n)[p] = due[p]
      BY <2>1, <1>5
    <3>. QED BY <3>3, <3>4, <3>5, LenProperties
  <2>4. ObjTypes'
    BY <1>1, <1>2, <2>2, <2>3 DEF ObjTypes
  <2>5. ASSUME NEW c \in Objs PROVE retain'[c] = References(c)'
    <3>1. retain[c] = own[c] + InPools(c) + InArrays(c) + InMaps(c) + Times(releasing, c)
      BY <1>1, CountParts
    <3>2. /\ InArrays(c)' = InArrays(c) /\ InMaps(c)' = InMaps(c)
          /\ Times(releasing, c)' = Times(releasing, c)
      BY <1>2, Frames
    <3>3. InPools(c)' = InPools(c)
      <4>1. PICK e : e = SubSeq(due, 1, n)
        OBVIOUS
      <4>2. DOMAIN e = 1 .. n /\ \A p \in 1 .. n : p \in 1 .. Top /\ e[p] = due[p] /\ e[p][c] \in Nat
        BY <1>5, <2>1, <2>3, <4>1
      <4>3. PICK f : f = [q \in DOMAIN e |-> e[q][c]]
        OBVIOUS
      <4>4. PICK g : g = [q \in DOMAIN due |-> due[q][c]]
        OBVIOUS
      <4>5. f \in [1 .. n -> Nat] /\ \A q \in 1 .. n : f[q] = due[q][c]
        BY <4>2, <4>3
      <4>6. g \in [1 .. Top -> Nat] /\ g[Top] = 0 /\ \A q \in 1 .. Top : g[q] = due[q][c]
        BY <1>4, <1>5, <4>4
      <4>7. 1 .. Top = 1 .. n \cup {Top}
        BY <1>5, <2>1
      <4>8. Total(g) = Total(f)
        <5>. DEFINE D == 1 .. n
                    E == 1 .. Top
                    p == Top
        <5>1. /\ E = D \cup {p} /\ f \in [D -> Nat] /\ g \in [E -> Nat] /\ g[p] = 0
              /\ \A q \in D : f[q] = g[q]
          BY <4>2, <4>5, <4>6, <4>7
        <5>. HIDE DEF D, E, p
        <5>. QED BY <5>1, TotalExtend
      <4>9. InPools(c) = Total(g) /\ InPools(c)' = Total(f)
        BY <2>2, <4>1, <4>3, <4>4 DEF InPools
      <4>. QED BY <4>8, <4>9
    <3>. QED BY <1>2, <3>1, <3>2, <3>3 DEF References
  <2>6. CountsMatch'
    BY <2>5 DEF CountsMatch
  <2>. QED BY <1>2, <1>3, <1>4, <2>4, <2>6, Unmoved
<1>. QED BY <1>6, <1>7

(* Held is a graph, and the references to an object are a number.          *)
LEMMA HeldEdges == ObjTypes => Held \in Edges /\ \A o \in Objs : References(o) \in Nat
BY HeldTypes, Referenced

(* The same for the next state.                                            *)
LEMMA HeldEdgesNext ==
  ASSUME ObjTypes'
  PROVE  Held' \in Edges /\ \A o \in Objs : References(o)' \in Nat
<1>1. (ObjTypes => Held \in Edges /\ \A o \in Objs : References(o) \in Nat)'
  BY HeldEdges, PTL
<1>. QED BY <1>1

(* A call that changes collections and leaves the pools alone.             *)
LEMMA Moved ==
  ASSUME ObjInv, UNCHANGED <<next, pools, due, drain>>,
         ObjTypes', CountsMatch', DeadEmpty', Acyclic(Held'), StoreOK', ArrayFits'
  PROVE  ObjInv'
<1>1. PoolsOK'
  BY PoolsStay DEF ObjInv
<1>2. Acyclic(Held)'
  BY DEF Acyclic
<1>. QED BY <1>1, <1>2 DEF ObjInv

(* A call that only takes from what collections hold.                      *)
LEMMA LessHeld ==
  ASSUME ObjInv, ObjTypes', \A d \in Objs : Held'[d] \subseteq Held[d]
  PROVE  Acyclic(Held')
<1>1. Held \in Edges /\ Acyclic(Held)
  BY HeldTypes DEF ObjInv
<1>2. PICK G \in Edges : G = Held'
  BY HeldEdgesNext
<1>3. Acyclic(G)
  BY <1>1, <1>2, FewerEdges
<1>. QED BY <1>2, <1>3

(* A collection that gives up all it holds.                                *)
LEMMA Emptied ==
  ASSUME ObjTypes, NEW c \in Objs, storing.map # c, storing' = storing,
         elements' = [x \in Arrays |-> IF x = c THEN <<>> ELSE elements[x]],
         entries' = [m \in Maps |-> IF m = c THEN NoValues ELSE entries[m]]
  PROVE  /\ elements' \in [Arrays -> Seq(Objs)] /\ entries' \in [Maps -> [Keys -> Objs \cup {Nil}]]
         /\ \A d \in Objs : Held'[d] = IF d = c THEN {} ELSE Held[d]
         /\ \A o \in Objs : /\ InArrays(o)' \in Nat /\ InMaps(o)' \in Nat /\ Times(Contents(c), o) \in Nat
                            /\ (InArrays(o)' + InMaps(o)') + Times(Contents(c), o) = InArrays(o) + InMaps(o)
<1>0. /\ Arrays \cap Maps = {} /\ Nil \notin Objs
      /\ elements \in [Arrays -> Seq(Objs)] /\ entries \in [Maps -> [Keys -> Objs \cup {Nil}]]
  BY Shapes DEF ObjTypes
<1>1. /\ elements' \in [Arrays -> Seq(Objs)] /\ entries' \in [Maps -> [Keys -> Objs \cup {Nil}]]
  <2>1. <<>> \in Seq(Objs) /\ NoValues \in [Keys -> Objs \cup {Nil}]
    BY DEF NoValues
  <2>. QED BY <1>0, <2>1
<1>2. /\ \A m \in Maps, k \in Keys : HeldBy(m, k)' = IF m = c THEN Nil ELSE HeldBy(m, k)
  BY DEF HeldBy, NoValues
<1>3. \A d \in Objs : Held'[d] = IF d = c THEN {} ELSE Held[d]
  <2>. SUFFICES ASSUME NEW d \in Objs PROVE Held'[d] = IF d = c THEN {} ELSE Held[d]
    OBVIOUS
  <2>1. CASE d \in Arrays
    <3>1. Held'[d] = ToSet(elements'[d]) /\ Held[d] = ToSet(elements[d]) /\ ToSet(<<>>) = {}
      BY <2>1 DEF Held, ToSet
    <3>. QED BY <2>1, <3>1
  <2>2. CASE d \in Maps
    <3>1. /\ Held'[d] = {HeldBy(d, k)' : k \in Keys} \ {Nil}
          /\ Held[d] = {HeldBy(d, k) : k \in Keys} \ {Nil}
      BY <1>0, <2>2 DEF Held
    <3>2. CASE d = c
      <4>1. \A k \in Keys : HeldBy(d, k)' = Nil
        BY <1>2, <2>2, <3>2
      <4>. QED BY <3>1, <3>2, <4>1
    <3>3. CASE d # c
      <4>1. \A k \in Keys : HeldBy(d, k)' = HeldBy(d, k)
        BY <1>2, <2>2, <3>3
      <4>. QED BY <3>1, <3>3, <4>1
    <3>. QED BY <3>2, <3>3
  <2>3. CASE d \notin Arrays /\ d \notin Maps
    BY <2>3 DEF Held
  <2>. QED BY <2>1, <2>2, <2>3
<1>4. ASSUME NEW o \in Objs
      PROVE  /\ InArrays(o)' \in Nat /\ InMaps(o)' \in Nat /\ Times(Contents(c), o) \in Nat
             /\ (InArrays(o)' + InMaps(o)') + Times(Contents(c), o) = InArrays(o) + InMaps(o)
  <2>1. Times(Contents(c), o) = IF c \in Arrays THEN Times(elements[c], o)
                                ELSE IF c \in Maps THEN KeysOf(c, o) ELSE 0
    BY ContentsHeld
  <2>2. InArrays(o) \in Nat /\ InMaps(o) \in Nat
    BY ReferenceParts
  <2>3. ASSUME c \notin Arrays PROVE InArrays(o)' = InArrays(o)
    <3>1. elements' = elements
      BY <1>0, <2>3
    <3>. QED BY <3>1, Frames
  <2>4. ASSUME c \notin Maps PROVE InMaps(o)' = InMaps(o)
    <3>1. entries' = entries
      BY <1>0, <2>4
    <3>. QED BY <3>1, Frames
  <2>5. CASE c \in Arrays
    <3>1. /\ InArrays(o)' = (InArrays(o) - Times(elements[c], o)) + Times(<<>>, o)
          /\ Times(elements[c], o) \in Nat
      <4>0. <<>> \in Seq(Objs)
        OBVIOUS
      <4>1. PICK s \in Seq(Objs) : s = <<>>
        BY <4>0
      <4>2. elements' = [elements EXCEPT ![c] = s]
        BY <1>0, <2>5, <4>1
      <4>3. /\ InArrays(o)' = (InArrays(o) - Times(elements[c], o)) + Times(s, o)
            /\ Times(elements[c], o) \in Nat
        BY <2>5, <4>2, ArraysChange
      <4>. QED BY <4>1, <4>3
    <3>2. c \notin Maps /\ Times(<<>>, o) = 0
      BY <1>0, <2>5, TimesOne
    <3>3. Times(elements[c], o) <= InArrays(o)
      <4>1. elements \in [Arrays -> Seq(Objs)] /\ IsFiniteSet(Arrays)
        BY <1>0, Shapes
      <4>2. PICK f : f = [x \in Arrays |-> Times(elements[x], o)]
        OBVIOUS
      <4>3. f \in [Arrays -> Nat]
        <5>1. \A x \in Arrays : Times(elements[x], o) \in Nat
          BY <4>1, TimesType
        <5>. QED BY <4>2, <5>1
      <4>4. f[c] <= Total(f) /\ f[c] = Times(elements[c], o)
        BY <2>5, <4>1, <4>2, <4>3, TotalType
      <4>. QED BY <4>2, <4>4 DEF InArrays
    <3>. QED BY <2>1, <2>2, <2>4, <2>5, <3>1, <3>2, <3>3
  <2>6. CASE c \in Maps
    <3>1. /\ InMaps(o)' = (InMaps(o) - KeysOf(c, o)) + KeysOf(c, o)'
          /\ KeysOf(c, o) \in Nat
      <4>1. \A n \in Maps \ {c}, k \in Keys : HeldBy(n, k)' = HeldBy(n, k)
        BY <1>2
      <4>. QED BY <2>6, <4>1, MapsChange
    <3>2. c \notin Arrays
      BY <1>0, <2>6
    <3>3. KeysOf(c, o)' = 0
      <4>1. {k \in Keys : HeldBy(c, k)' = o} = {}
        BY <1>0, <1>2, <2>6
      <4>. QED BY <4>1, FS_EmptySet DEF KeysOf
    <3>4. KeysOf(c, o) <= InMaps(o)
      <4>1. PICK f : f = [m \in Maps |-> KeysOf(m, o)]
        OBVIOUS
      <4>2. f \in [Maps -> Nat] /\ IsFiniteSet(Maps)
        BY <4>1, HeldTypes, Shapes
      <4>3. f[c] <= Total(f) /\ f[c] = KeysOf(c, o)
        BY <2>6, <4>1, <4>2, TotalType
      <4>. QED BY <4>1, <4>3 DEF InMaps, KeysOf
    <3>. QED BY <2>1, <2>2, <2>3, <2>6, <3>1, <3>2, <3>3, <3>4
  <2>7. CASE c \notin Arrays /\ c \notin Maps
    BY <2>1, <2>2, <2>3, <2>4, <2>7
  <2>. QED BY <2>5, <2>6, <2>7
<1>. QED BY <1>1, <1>3, <1>4

(* One key of one map gets another value, or none.                         *)
LEMMA OneKey ==
  ASSUME ObjTypes, ObjTypes', elements' = elements, NEW m \in Maps, NEW k \in Keys,
         \A n \in Maps, j \in Keys : (n # m \/ j # k) => HeldBy(n, j)' = HeldBy(n, j)
  PROVE  /\ \A o \in Objs :
              /\ InMaps(o)' = (InMaps(o) - One(HeldBy(m, k) = o)) + One(HeldBy(m, k)' = o)
              /\ InArrays(o)' = InArrays(o)
         /\ \A d \in Objs \ {m} : Held'[d] = Held[d]
         /\ Held'[m] \subseteq Held[m] \cup ({HeldBy(m, k)'} \ {Nil})
<1>0. Arrays \cap Maps = {} /\ Maps \subseteq Objs
  BY Shapes
<1>1. ASSUME NEW o \in Objs
      PROVE  /\ InMaps(o)' = (InMaps(o) - One(HeldBy(m, k) = o)) + One(HeldBy(m, k)' = o)
             /\ InArrays(o)' = InArrays(o)
  <2>1. /\ InMaps(o)' = (InMaps(o) - KeysOf(m, o)) + KeysOf(m, o)'
        /\ InMaps(o) \in Nat /\ KeysOf(m, o) \in Nat /\ KeysOf(m, o)' \in Nat
    BY MapsChange
  <2>2. /\ KeysOf(m, o)' = (KeysOf(m, o) - One(HeldBy(m, k) = o)) + One(HeldBy(m, k)' = o)
    BY KeyChange
  <2>3. One(HeldBy(m, k) = o) \in Nat /\ One(HeldBy(m, k)' = o) \in Nat
    BY DEF One
  <2>4. InArrays(o)' = InArrays(o)
    BY Frames
  <2>. QED BY <2>1, <2>2, <2>3, <2>4
<1>2. ASSUME NEW d \in Objs \ {m} PROVE Held'[d] = Held[d]
  <2>1. CASE d \in Maps
    <3>1. \A j \in Keys : HeldBy(d, j)' = HeldBy(d, j)
      BY <2>1
    <3>. QED BY <1>0, <2>1, <3>1 DEF Held
  <2>2. CASE d \notin Maps
    BY <2>2 DEF Held
  <2>. QED BY <2>1, <2>2
<1>3. Held'[m] \subseteq Held[m] \cup ({HeldBy(m, k)'} \ {Nil})
  <2>1. /\ Held[m] = {HeldBy(m, j) : j \in Keys} \ {Nil}
        /\ Held'[m] = {HeldBy(m, j)' : j \in Keys} \ {Nil}
    BY <1>0 DEF Held
  <2>. QED BY <2>1
<1>. QED BY <1>1, <1>2, <1>3

(* removeObjectAtIndex: preserves the invariant.                           *)
LEMMA RemoveElementStep ==
  ASSUME ObjInv, NEW x \in Arrays, NEW i, RemoveElement(x, i)
  PROVE  ObjInv'
<1>1. ObjTypes /\ CountsMatch /\ DeadEmpty /\ ArrayFits
  BY DEF ObjInv
<1>2. /\ storing = NoStore /\ releasing = <<>> /\ i \in DOMAIN elements[x]
      /\ releasing' = <<elements[x][i]>>
      /\ elements' = [elements EXCEPT ![x] = RemoveAt(@, i)]
      /\ UNCHANGED <<retain, next, own, cap, entries, pools, due, storing, drain>>
  BY DEF RemoveElement, Idle
<1>3. PICK s \in Seq(Objs) : s = elements[x]
  BY <1>1 DEF ObjTypes
<1>4. PICK r \in Seq(Objs) : r = RemoveAt(s, i)
  BY <1>2, <1>3, TimesRemoveAt
<1>5. PICK o \in Objs : o = s[i]
  BY <1>2, <1>3, ElementOfSeq
<1>6. /\ Len(r) = Len(s) - 1 /\ Len(s) \in Nat /\ ToSet(r) \subseteq ToSet(s)
      /\ \A c : Times(s, c) = Times(r, c) + One(o = c)
  <2>1. i \in DOMAIN s
    BY <1>2, <1>3
  <2>2. /\ Len(RemoveAt(s, i)) = Len(s) - 1 /\ ToSet(RemoveAt(s, i)) \subseteq ToSet(s)
        /\ \A c : Times(s, c) = Times(RemoveAt(s, i), c) + One(s[i] = c)
    BY <2>1, TimesRemoveAt
  <2>3. Len(s) \in Nat
    BY LenProperties
  <2>4. \A c : Times(s, c) = Times(r, c) + One(o = c)
    BY <1>4, <1>5, <2>2
  <2>. QED BY <1>4, <2>2, <2>3, <2>4
<1>7. elements' = [elements EXCEPT ![x] = r] /\ releasing' = <<o>>
  BY <1>2, <1>3, <1>4, <1>5
<1>8. /\ elements' \in [Arrays -> Seq(Objs)]
      /\ \A y \in Arrays : elements'[y] = IF y = x THEN r ELSE elements[y]
  BY <1>1, <1>7 DEF ObjTypes
<1>9. ObjTypes'
  <2>1. releasing' \in Seq(Objs)
    BY <1>7, SeqOfOne
  <2>. QED BY <1>1, <1>2, <1>8, <2>1 DEF ObjTypes, Top
<1>10. ASSUME NEW c \in Objs PROVE retain'[c] = References(c)'
  <2>1. /\ own[c] \in Nat /\ InPools(c) \in Nat /\ InArrays(c) \in Nat /\ InMaps(c) \in Nat
        /\ retain[c] = own[c] + InPools(c) + InArrays(c) + InMaps(c) + Times(releasing, c)
    BY <1>1, CountParts
  <2>2. InPools(c)' = InPools(c) /\ InMaps(c)' = InMaps(c) /\ retain'[c] = retain[c] /\ own'[c] = own[c]
    BY <1>2, Frames
  <2>3. InArrays(c)' = (InArrays(c) - Times(s, c)) + Times(r, c) /\ Times(s, c) \in Nat /\ Times(r, c) \in Nat
    BY <1>1, <1>3, <1>7, ArraysChange
  <2>4. Times(s, c) = Times(r, c) + One(o = c)
    BY <1>6
  <2>5. Times(releasing, c) = 0 /\ Times(releasing', c) = One(o = c)
    BY <1>2, <1>7, TimesOne, SeqOfOne
  <2>6. References(c)' = own'[c] + InPools(c)' + InArrays(c)' + InMaps(c)' + Times(releasing', c)
    BY DEF References
  <2>7. One(o = c) \in Nat
    BY DEF One
  <2>. QED BY SMTT(30), ZenonT(30), <2>1, <2>2, <2>3, <2>4, <2>5, <2>6, <2>7
<1>11. CountsMatch'
  BY <1>10 DEF CountsMatch
<1>12. DeadEmpty'
  <2>1. retain[x] # 0
    BY <1>1, <1>2 DEF DeadEmpty
  <2>. QED BY <1>1, <1>2, <1>8, <2>1 DEF DeadEmpty
<1>13. \A d \in Objs : Held'[d] \subseteq Held[d]
  <2>1. \A m \in Maps, k \in Keys : HeldBy(m, k)' = HeldBy(m, k)
    BY <1>2, Frames
  <2>2. ASSUME NEW d \in Objs PROVE Held'[d] \subseteq Held[d]
    <3>1. CASE d \in Arrays
      <4>1. Held'[d] = ToSet(elements'[d]) /\ Held[d] = ToSet(elements[d])
        BY <3>1 DEF Held
      <4>. QED BY <1>3, <1>6, <1>8, <3>1, <4>1
    <3>2. CASE d \notin Arrays
      BY <2>1, <3>2 DEF Held
    <3>. QED BY <3>1, <3>2
  <2>. QED BY <2>2
<1>14. Acyclic(Held')
  BY <1>9, <1>13, LessHeld
<1>15. StoreOK'
  BY <1>2 DEF StoreOK
<1>16. ArrayFits'
  <2>1. \A y \in Arrays : Len(elements[y]) <= cap[y] /\ cap[y] \in Nat
    BY <1>1 DEF ArrayFits, ObjTypes
  <2>. QED BY <1>2, <1>3, <1>6, <1>8, <2>1 DEF ArrayFits
<1>. QED BY <1>2, <1>9, <1>11, <1>12, <1>14, <1>15, <1>16, Moved

(* removeAllObjects preserves the invariant.                               *)
LEMMA RemoveAllStep ==
  ASSUME ObjInv, NEW c \in Objs, RemoveAll(c)
  PROVE  ObjInv'
<1>1. ObjTypes /\ CountsMatch /\ DeadEmpty /\ ArrayFits
  BY DEF ObjInv
<1>2. /\ storing = NoStore /\ releasing = <<>>
      /\ releasing' = Contents(c)
      /\ elements' = [x \in Arrays |-> IF x = c THEN <<>> ELSE elements[x]]
      /\ entries' = [m \in Maps |-> IF m = c THEN NoValues ELSE entries[m]]
      /\ UNCHANGED <<retain, next, own, cap, pools, due, storing, drain>>
  BY DEF RemoveAll, Idle
<1>3. storing.map # c /\ storing' = storing
  BY <1>2, Shapes DEF NoStore
<1>4. /\ elements' \in [Arrays -> Seq(Objs)] /\ entries' \in [Maps -> [Keys -> Objs \cup {Nil}]]
      /\ \A d \in Objs : Held'[d] = IF d = c THEN {} ELSE Held[d]
      /\ \A o \in Objs : /\ InArrays(o)' \in Nat /\ InMaps(o)' \in Nat /\ Times(Contents(c), o) \in Nat
                         /\ (InArrays(o)' + InMaps(o)') + Times(Contents(c), o) = InArrays(o) + InMaps(o)
  BY <1>1, <1>2, <1>3, Emptied
<1>5. Contents(c) \in Seq(Objs)
  BY <1>1, <1>3, ContentsHeld
<1>6. ObjTypes'
  BY <1>1, <1>2, <1>4, <1>5 DEF ObjTypes, Top
<1>7. ASSUME NEW o \in Objs PROVE retain'[o] = References(o)'
  <2>1. /\ own[o] \in Nat /\ InPools(o) \in Nat /\ InArrays(o) \in Nat /\ InMaps(o) \in Nat
        /\ retain[o] = own[o] + InPools(o) + InArrays(o) + InMaps(o) + Times(releasing, o)
    BY <1>1, CountParts
  <2>2. InPools(o)' = InPools(o) /\ retain'[o] = retain[o] /\ own'[o] = own[o]
    BY <1>2, Frames
  <2>3. Times(releasing, o) = 0 /\ Times(releasing', o) = Times(Contents(c), o)
    BY <1>2, TimesOne
  <2>4. References(o)' = own'[o] + InPools(o)' + InArrays(o)' + InMaps(o)' + Times(releasing', o)
    BY DEF References
  <2>5. /\ InArrays(o)' \in Nat /\ InMaps(o)' \in Nat /\ Times(Contents(c), o) \in Nat
        /\ (InArrays(o)' + InMaps(o)') + Times(Contents(c), o) = InArrays(o) + InMaps(o)
    BY <1>4
  <2>6. retain'[o] = own[o] + InPools(o) + InArrays(o) + InMaps(o)
    BY <2>1, <2>2, <2>3
  <2>7. References(o)' = own[o] + InPools(o) + InArrays(o)' + InMaps(o)' + Times(Contents(c), o)
    BY <2>2, <2>3, <2>4
  <2>. QED BY <2>1, <2>5, <2>6, <2>7
<1>8. CountsMatch'
  BY <1>7 DEF CountsMatch
<1>9. DeadEmpty'
  BY <1>1, <1>2 DEF DeadEmpty
<1>10. Acyclic(Held')
  <2>1. \A d \in Objs : Held'[d] \subseteq Held[d]
    BY <1>4
  <2>. QED BY <1>6, <2>1, LessHeld
<1>11. StoreOK'
  BY <1>2 DEF StoreOK
<1>12. ArrayFits'
  <2>1. \A y \in Arrays : Len(elements[y]) <= cap[y] /\ cap[y] \in Nat
    BY <1>1 DEF ArrayFits, ObjTypes
  <2>2. \A y \in Arrays : elements'[y] = IF y = c THEN <<>> ELSE elements[y]
    BY <1>2
  <2>3. Len(<<>>) = 0
    OBVIOUS
  <2>. QED BY <1>2, <2>1, <2>2, <2>3 DEF ArrayFits
<1>. QED BY <1>2, <1>6, <1>8, <1>9, <1>10, <1>11, <1>12, Moved

(* removeObjectForKey: preserves the invariant.                            *)
LEMMA RemoveKeyStep ==
  ASSUME ObjInv, NEW m \in Maps, NEW k \in Keys, RemoveKey(m, k)
  PROVE  ObjInv'
<1>1. ObjTypes /\ CountsMatch /\ DeadEmpty /\ ArrayFits
  BY DEF ObjInv
<1>2. /\ storing = NoStore /\ releasing = <<>> /\ entries[m][k] # Nil
      /\ releasing' = <<entries[m][k]>>
      /\ entries' = [entries EXCEPT ![m][k] = Nil]
      /\ UNCHANGED <<retain, next, own, elements, cap, pools, due, storing, drain>>
  BY DEF RemoveKey, Idle
<1>3. PICK o \in Objs : o = entries[m][k]
  BY <1>1, <1>2 DEF ObjTypes
<1>4. /\ entries' \in [Maps -> [Keys -> Objs \cup {Nil}]]
      /\ \A n \in Maps, j \in Keys : entries'[n][j] = IF n = m /\ j = k THEN Nil ELSE entries[n][j]
      /\ \A n \in Maps : n # m => entries'[n] = entries[n]
  BY <1>1, <1>2 DEF ObjTypes
<1>5. ObjTypes'
  BY <1>1, <1>2, <1>3, <1>4, SeqOfOne DEF ObjTypes, Top
<1>6. /\ HeldBy(m, k) = o /\ HeldBy(m, k)' = Nil
      /\ \A n \in Maps, j \in Keys : (n # m \/ j # k) => HeldBy(n, j)' = HeldBy(n, j)
  <2>1. \A n \in Maps, j \in Keys : HeldBy(n, j) = entries[n][j] /\ HeldBy(n, j)' = entries'[n][j]
    BY <1>2, Shapes DEF HeldBy, NoStore
  <2>. QED BY <1>3, <1>4, <2>1
<1>7. /\ \A c \in Objs :
           /\ InMaps(c)' = (InMaps(c) - One(HeldBy(m, k) = c)) + One(HeldBy(m, k)' = c)
           /\ InArrays(c)' = InArrays(c)
      /\ \A d \in Objs \ {m} : Held'[d] = Held[d]
      /\ Held'[m] \subseteq Held[m] \cup ({HeldBy(m, k)'} \ {Nil})
  BY <1>1, <1>2, <1>5, <1>6, OneKey
<1>8. ASSUME NEW c \in Objs PROVE retain'[c] = References(c)'
  <2>1. /\ own[c] \in Nat /\ InPools(c) \in Nat /\ InArrays(c) \in Nat /\ InMaps(c) \in Nat
        /\ retain[c] = own[c] + InPools(c) + InArrays(c) + InMaps(c) + Times(releasing, c)
    BY <1>1, CountParts
  <2>2. InPools(c)' = InPools(c) /\ retain'[c] = retain[c] /\ own'[c] = own[c]
    BY <1>2, Frames
  <2>3. InMaps(c)' = InMaps(c) - One(o = c) /\ InArrays(c)' = InArrays(c) /\ One(o = c) \in Nat
    <3>1. One(HeldBy(m, k)' = c) = 0 /\ One(HeldBy(m, k) = c) = One(o = c) /\ One(o = c) \in Nat
      BY <1>6, Shapes DEF One
    <3>. QED BY <1>7, <2>1, <3>1
  <2>4. Times(releasing, c) = 0 /\ Times(releasing', c) = One(o = c)
    BY <1>2, <1>3, TimesOne
  <2>5. References(c)' = own'[c] + InPools(c)' + InArrays(c)' + InMaps(c)' + Times(releasing', c)
    BY DEF References
  <2>. QED BY <2>1, <2>2, <2>3, <2>4, <2>5
<1>9. CountsMatch'
  BY <1>8 DEF CountsMatch
<1>10. DeadEmpty'
  <2>1. retain[m] # 0
    BY <1>1, <1>2 DEF DeadEmpty, NoValues
  <2>. QED BY <1>1, <1>2, <1>4, <2>1 DEF DeadEmpty
<1>11. Acyclic(Held')
  <2>1. \A d \in Objs : Held'[d] \subseteq Held[d]
    BY <1>6, <1>7, Shapes
  <2>. QED BY <1>5, <2>1, LessHeld
<1>12. StoreOK'
  BY <1>2 DEF StoreOK
<1>13. ArrayFits'
  BY <1>1, <1>2 DEF ArrayFits
<1>. QED BY <1>2, <1>5, <1>9, <1>10, <1>11, <1>12, <1>13, Moved

(* append: and insert:atIndex: preserve the invariant.                     *)
LEMMA InsertStep ==
  ASSUME ObjInv, NEW x \in Arrays, NEW o \in Objs, NEW i, Insert(x, o, i)
  PROVE  ObjInv'
<1>1. ObjTypes /\ CountsMatch /\ DeadEmpty /\ ArrayFits /\ Acyclic(Held)
  BY DEF ObjInv
<1>2. /\ storing = NoStore /\ releasing = <<>> /\ {x, o} \subseteq Named
      /\ i \in 1 .. Len(elements[x]) + 1 /\ Accepts(x, o)
      /\ cap' = [cap EXCEPT ![x] = IF Len(elements[x]) >= @ THEN Grown(@) ELSE @]
      /\ elements' = [elements EXCEPT ![x] = InsertedAt(@, i, o)]
      /\ retain' = [retain EXCEPT ![o] = @ + 1]
      /\ UNCHANGED <<next, own, entries, pools, due, releasing, storing, drain>>
  BY DEF Insert, Idle
<1>0. x \in Objs /\ retain[x] > 0
  BY <1>1, <1>2, NamedLive, Shapes
<1>3. PICK s \in Seq(Objs) : s = elements[x]
  BY <1>1 DEF ObjTypes
<1>4. /\ InsertedAt(s, i, o) \in Seq(Objs) /\ Len(InsertedAt(s, i, o)) = Len(s) + 1
      /\ \A c : Times(InsertedAt(s, i, o), c) = Times(s, c) + One(o = c)
  BY <1>2, <1>3, TimesInsertedAt
<1>5. PICK r \in Seq(Objs) : r = InsertedAt(s, i, o)
  BY <1>4
<1>6. /\ Len(r) = Len(s) + 1 /\ Len(s) \in Nat
      /\ \A c : Times(r, c) = Times(s, c) + One(o = c)
  BY <1>4, <1>5, LenProperties
<1>7. ToSet(r) \subseteq ToSet(s) \cup {o}
  <2>. SUFFICES ASSUME NEW c \in ToSet(r), c # o PROVE c \in ToSet(s)
    OBVIOUS
  <2>1. Times(r, c) = Times(s, c) /\ Times(s, c) \in Nat
    <3>1. Times(s, c) \in Nat /\ One(o = c) = 0
      BY TimesType DEF One
    <3>. QED BY <1>6, <3>1
  <2>2. Times(r, c) # 0
    <3>1. \E j \in DOMAIN r : r[j] = c
      BY DEF ToSet
    <3>. QED BY <3>1, TimesType
  <2>3. \E j \in DOMAIN s : s[j] = c
    BY <2>1, <2>2, TimesType
  <2>. QED BY <2>3 DEF ToSet
<1>8. elements' = [elements EXCEPT ![x] = r]
  BY <1>2, <1>3, <1>5
<1>9. /\ elements' \in [Arrays -> Seq(Objs)] /\ retain' \in [Objs -> Nat]
      /\ \A y \in Arrays : elements'[y] = IF y = x THEN r ELSE elements[y]
      /\ \A c \in Objs : retain'[c] = IF c = o THEN retain[c] + 1 ELSE retain[c]
  BY <1>1, <1>2, <1>8 DEF ObjTypes
<1>10. /\ cap' \in [Arrays -> Nat]
       /\ \A y \in Arrays : cap'[y] = IF y = x THEN IF Len(s) >= cap[x] THEN Grown(cap[x]) ELSE cap[x] ELSE cap[y]
       /\ cap[x] \in Nat /\ Grown(cap[x]) \in Nat /\ Grown(cap[x]) >= cap[x] + 1
  <2>1. cap \in [Arrays -> Nat] /\ cap[x] \in Nat
    BY <1>1 DEF ObjTypes
  <2>2. Grown(cap[x]) \in Nat /\ Grown(cap[x]) >= cap[x] + 1
    <3>1. \A n \in Nat : Grown(n) \in Nat /\ Grown(n) >= n + 1
      BY DEF Grown
    <3>. QED BY <2>1, <3>1
  <2>3. cap' = [cap EXCEPT ![x] = IF Len(s) >= cap[x] THEN Grown(cap[x]) ELSE cap[x]]
    BY <1>2, <1>3
  <2>. QED BY <2>1, <2>2, <2>3
<1>11. ObjTypes'
  BY <1>1, <1>2, <1>9, <1>10 DEF ObjTypes, Top
<1>12. ASSUME NEW c \in Objs PROVE retain'[c] = References(c)'
  <2>1. /\ own[c] \in Nat /\ InPools(c) \in Nat /\ InArrays(c) \in Nat /\ InMaps(c) \in Nat
        /\ Times(releasing, c) \in Nat
        /\ retain[c] = own[c] + InPools(c) + InArrays(c) + InMaps(c) + Times(releasing, c)
    BY <1>1, CountParts
  <2>2. /\ InPools(c)' = InPools(c) /\ InMaps(c)' = InMaps(c) /\ own'[c] = own[c]
        /\ Times(releasing, c)' = Times(releasing, c)
    BY <1>2, Frames
  <2>3. InArrays(c)' = (InArrays(c) - Times(s, c)) + Times(r, c) /\ Times(s, c) \in Nat /\ Times(r, c) \in Nat
    BY <1>1, <1>3, <1>8, ArraysChange
  <2>4. Times(r, c) = Times(s, c) + One(o = c) /\ One(o = c) = IF c = o THEN 1 ELSE 0
    BY <1>6 DEF One
  <2>5. References(c)' = own[c] + InPools(c) + InArrays(c)' + InMaps(c) + Times(releasing, c)
    BY <2>2 DEF References
  <2>6. CASE c = o
    <3>1. One(o = c) = 1 /\ retain'[c] = retain[c] + 1
      BY <1>9, <2>4, <2>6
    <3>2. InArrays(c)' = InArrays(c) + 1
      BY <2>1, <2>3, <2>4, <3>1
    <3>3. retain'[c] = retain[c] + 1
      BY <3>1
    <3>4. retain[c] + 1 = own[c] + InPools(c) + (InArrays(c) + 1) + InMaps(c) + Times(releasing, c)
      <4>. DEFINE p == own[c]
                  q == InPools(c)
                  t == InArrays(c)
                  u == InMaps(c)
                  v == Times(releasing, c)
      <4>1. p \in Nat /\ q \in Nat /\ t \in Nat /\ u \in Nat /\ v \in Nat /\ retain[c] = p + q + t + u + v
        BY <2>1
      <4>. HIDE DEF p, q, t, u, v
      <4>2. retain[c] + 1 = p + q + (t + 1) + u + v
        BY <4>1
      <4>. QED BY <4>2 DEF p, q, t, u, v
    <3>5. References(c)' = own[c] + InPools(c) + (InArrays(c) + 1) + InMaps(c) + Times(releasing, c)
      BY <2>5, <3>2
    <3>. QED BY <3>3, <3>4, <3>5
  <2>7. CASE c # o
    <3>1. One(o = c) = 0 /\ retain'[c] = retain[c]
      BY <1>9, <2>4, <2>7
    <3>2. InArrays(c)' = InArrays(c)
      BY <2>1, <2>3, <2>4, <3>1
    <3>. QED BY <2>1, <2>5, <3>1, <3>2
  <2>. QED BY <2>6, <2>7
<1>13. CountsMatch'
  BY <1>12 DEF CountsMatch
<1>14. DeadEmpty'
  <2>1. \A c \in Objs : retain'[c] = 0 => retain[c] = 0 /\ c # x
    BY <1>0, <1>1, <1>9 DEF ObjTypes
  <2>. QED BY <1>1, <1>2, <1>9, <2>1, Shapes DEF DeadEmpty
<1>15. Acyclic(Held')
  <2>1. \A m \in Maps, k \in Keys : HeldBy(m, k)' = HeldBy(m, k)
    BY <1>2, Frames
  <2>2. ASSUME NEW d \in Objs \ {x} PROVE Held'[d] \subseteq Held[d]
    BY <1>9, <2>1 DEF Held
  <2>3. Held'[x] \subseteq Held[x] \cup {o}
    <3>1. Held'[x] = ToSet(r) /\ Held[x] = ToSet(s)
      BY <1>0, <1>3, <1>9 DEF Held
    <3>. QED BY <1>7, <3>1
  <2>4. o # x /\ x \notin Reach(Held, Held[o])
    BY <1>1, <1>2, InsideReach DEF Accepts
  <2>5. PICK G \in Edges : G = Held'
    BY <1>11, HeldEdgesNext
  <2>6. Held \in Edges
    BY <1>1, HeldTypes
  <2>7. Acyclic(G)
    BY <1>0, <1>1, <2>2, <2>3, <2>4, <2>5, <2>6, OneEdgeMore
  <2>. QED BY <2>5, <2>7
<1>16. StoreOK'
  BY <1>2 DEF StoreOK
<1>17. ArrayFits'
  <2>1. \A y \in Arrays : Len(elements[y]) <= cap[y] /\ cap[y] \in Nat
    BY <1>1 DEF ArrayFits, ObjTypes
  <2>2. Len(s) + 1 <= cap'[x]
    BY <1>3, <1>6, <1>10, <2>1
  <2>3. elements'[x] = r /\ Len(r) <= cap'[x]
    BY <1>6, <1>9, <2>2
  <2>4. \A y \in Arrays \ {x} : elements'[y] = elements[y] /\ cap'[y] = cap[y]
    BY <1>9, <1>10
  <2>5. \A y \in Arrays : Len(elements'[y]) <= cap'[y]
    BY <2>1, <2>3, <2>4
  <2>. QED BY <2>5 DEF ArrayFits
<1>. QED BY <1>2, <1>11, <1>13, <1>14, <1>15, <1>16, <1>17, Moved

(* A key without a value gets one that does not hold its map.              *)
LEMMA KeyTaken ==
  ASSUME ObjTypes, ObjTypes', CountsMatch, Acyclic(Held), NEW m \in Maps, NEW k \in Keys, NEW o \in Objs,
         HeldBy(m, k) = Nil, HeldBy(m, k)' = o,
         \A n \in Maps, j \in Keys : (n # m \/ j # k) => HeldBy(n, j)' = HeldBy(n, j),
         UNCHANGED <<own, elements, due, releasing>>, retain' = [retain EXCEPT ![o] = @ + 1],
         o # m, m \notin Reach(Held, Held[o])
  PROVE  CountsMatch' /\ Acyclic(Held')
<1>1. /\ \A c \in Objs :
           /\ InMaps(c)' = (InMaps(c) - One(HeldBy(m, k) = c)) + One(HeldBy(m, k)' = c)
           /\ InArrays(c)' = InArrays(c)
      /\ \A d \in Objs \ {m} : Held'[d] = Held[d]
      /\ Held'[m] \subseteq Held[m] \cup ({HeldBy(m, k)'} \ {Nil})
  BY OneKey
<1>2. ASSUME NEW c \in Objs PROVE retain'[c] = References(c)'
  <2>1. /\ own[c] \in Nat /\ InPools(c) \in Nat /\ InArrays(c) \in Nat /\ InMaps(c) \in Nat
        /\ Times(releasing, c) \in Nat
        /\ retain[c] = own[c] + InPools(c) + InArrays(c) + InMaps(c) + Times(releasing, c)
    BY CountParts
  <2>2. /\ InPools(c)' = InPools(c) /\ own'[c] = own[c] /\ InArrays(c)' = InArrays(c)
        /\ Times(releasing, c)' = Times(releasing, c)
    BY Frames
  <2>3. retain'[c] = IF c = o THEN retain[c] + 1 ELSE retain[c]
    BY DEF ObjTypes
  <2>4. InMaps(c)' = IF c = o THEN InMaps(c) + 1 ELSE InMaps(c)
    <3>1. One(HeldBy(m, k) = c) = 0 /\ One(HeldBy(m, k)' = c) = IF c = o THEN 1 ELSE 0
      BY Shapes DEF One
    <3>. QED BY <1>1, <2>1, <3>1
  <2>5. References(c)' = own[c] + InPools(c) + InArrays(c) + InMaps(c)' + Times(releasing, c)
    BY <2>2 DEF References
  <2>6. CASE c = o
    <3>1. retain'[c] = retain[c] + 1 /\ InMaps(c)' = InMaps(c) + 1
      BY <2>3, <2>4, <2>6
    <3>. QED BY <2>1, <2>5, <3>1
  <2>7. CASE c # o
    BY <2>1, <2>3, <2>4, <2>5, <2>7
  <2>. QED BY <2>6, <2>7
<1>3. CountsMatch'
  BY <1>2 DEF CountsMatch
<1>4. PICK G \in Edges : G = Held'
  BY HeldEdgesNext
<1>5. Held \in Edges /\ m \in Objs
  BY HeldTypes, Shapes
<1>6. Acyclic(G)
  <2>1. G[m] \subseteq Held[m] \cup {o} /\ \A d \in Objs \ {m} : G[d] \subseteq Held[d]
    BY <1>1, <1>4
  <2>. QED BY <1>5, <2>1, OneEdgeMore
<1>. QED BY <1>3, <1>4, <1>6

(* setObject:forKey: with a new key preserves the invariant.               *)
LEMMA SetNewStep ==
  ASSUME ObjInv, NEW m \in Maps, NEW k \in Keys, NEW o \in Objs, SetNew(m, k, o)
  PROVE  ObjInv'
<1>1. ObjTypes /\ CountsMatch /\ DeadEmpty /\ ArrayFits /\ Acyclic(Held)
  BY DEF ObjInv
<1>2. /\ storing = NoStore /\ {m, o} \subseteq Named /\ entries[m][k] = Nil /\ Accepts(m, o)
      /\ retain' = [retain EXCEPT ![o] = @ + 1]
      /\ entries' = [entries EXCEPT ![m][k] = o]
      /\ UNCHANGED <<next, own, elements, cap, pools, due, releasing, storing, drain>>
  BY DEF SetNew, Idle
<1>3. m \in Objs /\ retain[m] > 0 /\ o # m /\ m \notin Reach(Held, Held[o])
  BY <1>1, <1>2, NamedLive, Shapes, InsideReach DEF Accepts
<1>4. /\ entries' \in [Maps -> [Keys -> Objs \cup {Nil}]] /\ retain' \in [Objs -> Nat]
      /\ \A n \in Maps, j \in Keys : entries'[n][j] = IF n = m /\ j = k THEN o ELSE entries[n][j]
      /\ \A n \in Maps : n # m => entries'[n] = entries[n]
      /\ \A c \in Objs : retain'[c] = IF c = o THEN retain[c] + 1 ELSE retain[c]
  BY <1>1, <1>2 DEF ObjTypes
<1>5. ObjTypes'
  BY <1>1, <1>2, <1>4 DEF ObjTypes, Top
<1>6. /\ HeldBy(m, k) = Nil /\ HeldBy(m, k)' = o
      /\ \A n \in Maps, j \in Keys : (n # m \/ j # k) => HeldBy(n, j)' = HeldBy(n, j)
  <2>1. \A n \in Maps, j \in Keys : HeldBy(n, j) = entries[n][j] /\ HeldBy(n, j)' = entries'[n][j]
    BY <1>2, Shapes DEF HeldBy, NoStore
  <2>. QED BY <1>2, <1>4, <2>1
<1>7. CountsMatch' /\ Acyclic(Held')
  BY <1>1, <1>2, <1>3, <1>5, <1>6, KeyTaken
<1>8. DeadEmpty'
  <2>1. \A c \in Objs : retain'[c] = 0 => retain[c] = 0 /\ c # m
    BY <1>1, <1>3, <1>4 DEF ObjTypes
  <2>. QED BY <1>1, <1>2, <1>4, <2>1, Shapes DEF DeadEmpty
<1>9. StoreOK'
  BY <1>2 DEF StoreOK
<1>10. ArrayFits'
  BY <1>1, <1>2 DEF ArrayFits
<1>. QED BY <1>2, <1>5, <1>7, <1>8, <1>9, <1>10, Moved

(* setObject:forKey: with the key of another value preserves the invariant.*)
LEMMA SetOtherStep ==
  ASSUME ObjInv, NEW m \in Maps, NEW k \in Keys, NEW o \in Objs, SetOther(m, k, o)
  PROVE  ObjInv'
<1>1. ObjTypes /\ CountsMatch /\ DeadEmpty /\ ArrayFits /\ Acyclic(Held)
  BY DEF ObjInv
<1>2. /\ storing = NoStore /\ releasing = <<>> /\ ~drain.on
      /\ m \in Named /\ o \in Roots /\ entries[m][k] \notin {Nil, o} /\ Accepts(m, o)
      /\ releasing' = <<entries[m][k]>>
      /\ storing' = [map |-> m, key |-> k, value |-> o]
      /\ UNCHANGED <<retain, next, own, elements, cap, entries, pools, due, drain>>
  BY DEF SetOther, Idle
<1>3. PICK v \in Objs : v = entries[m][k]
  BY <1>1, <1>2 DEF ObjTypes
<1>4. /\ m \in Objs /\ m \in Reach(Held, Roots) /\ o # m /\ m \notin Reach(Held, Held[o])
      /\ Roots \in SUBSET Objs
  BY <1>1, <1>2, NamedLive, Shapes, InsideReach DEF Accepts
<1>5. storing'.map = m /\ storing'.key = k /\ storing'.value = o /\ storing' \in [map : Maps, key : Keys, value : Objs]
  BY <1>2
<1>6. ObjTypes'
  <2>1. releasing' \in Seq(Objs)
    BY <1>2, <1>3, SeqOfOne
  <2>. QED BY <1>1, <1>2, <1>5, <2>1 DEF ObjTypes, Top
<1>7. /\ HeldBy(m, k) = v /\ HeldBy(m, k)' = Nil
      /\ \A n \in Maps, j \in Keys : (n # m \/ j # k) => HeldBy(n, j)' = HeldBy(n, j)
  <2>1. \A n \in Maps, j \in Keys : HeldBy(n, j) = entries[n][j]
    BY <1>2, Shapes
  <2>2. \A n \in Maps, j \in Keys : HeldBy(n, j)' = IF n = m /\ j = k THEN Nil ELSE entries[n][j]
    BY <1>2, <1>5 DEF HeldBy
  <2>. QED BY <1>3, <2>1, <2>2
<1>8. /\ \A c \in Objs :
           /\ InMaps(c)' = (InMaps(c) - One(HeldBy(m, k) = c)) + One(HeldBy(m, k)' = c)
           /\ InArrays(c)' = InArrays(c)
      /\ \A d \in Objs \ {m} : Held'[d] = Held[d]
      /\ Held'[m] \subseteq Held[m] \cup ({HeldBy(m, k)'} \ {Nil})
  BY <1>1, <1>2, <1>6, <1>7, OneKey
<1>9. ASSUME NEW c \in Objs PROVE retain'[c] = References(c)'
  <2>1. /\ own[c] \in Nat /\ InPools(c) \in Nat /\ InArrays(c) \in Nat /\ InMaps(c) \in Nat
        /\ retain[c] = own[c] + InPools(c) + InArrays(c) + InMaps(c) + Times(releasing, c)
    BY <1>1, CountParts
  <2>2. InPools(c)' = InPools(c) /\ retain'[c] = retain[c] /\ own'[c] = own[c]
    BY <1>2, Frames
  <2>3. InMaps(c)' = InMaps(c) - One(v = c) /\ InArrays(c)' = InArrays(c) /\ One(v = c) \in Nat
    <3>1. One(HeldBy(m, k)' = c) = 0 /\ One(HeldBy(m, k) = c) = One(v = c) /\ One(v = c) \in Nat
      BY <1>7, Shapes DEF One
    <3>. QED BY <1>8, <2>1, <3>1
  <2>4. Times(releasing, c) = 0 /\ Times(releasing', c) = One(v = c)
    BY <1>2, <1>3, TimesOne
  <2>5. References(c)' = own'[c] + InPools(c)' + InArrays(c)' + InMaps(c)' + Times(releasing', c)
    BY DEF References
  <2>. QED BY <2>1, <2>2, <2>3, <2>4, <2>5
<1>10. CountsMatch'
  BY <1>9 DEF CountsMatch
<1>11. DeadEmpty'
  BY <1>1, <1>2 DEF DeadEmpty
<1>12. PICK G \in Edges : G = Held'
  BY <1>6, HeldEdgesNext
<1>13. Held \in Edges /\ (\A d \in Objs : G[d] \subseteq Held[d]) /\ \A d \in Objs \ {m} : Held[d] \subseteq G[d]
  BY <1>1, <1>7, <1>8, <1>12, HeldTypes
<1>14. Acyclic(Held')
  BY <1>1, <1>12, <1>13, FewerEdges
<1>15. StoreOK'
  <2>1. m \in Reach(G, Roots)
    BY <1>4, <1>13, OwnEdgesUnused
  <2>2. m \notin Reach(G, G[o])
    <3>1. Held[o] \in SUBSET Objs /\ G[o] \in SUBSET Held[o]
      BY <1>13 DEF Edges
    <3>2. Reach(G, G[o]) \subseteq Reach(Held, Held[o])
      BY <1>13, <3>1, FewerEdges
    <3>. QED BY <1>4, <3>2
  <2>3. Roots' = Roots
    BY <1>2, Frames
  <2>4. m \in Reach(Held', Roots') /\ m \notin Reach(Held', Held'[o])
    BY <1>12, <2>1, <2>2, <2>3
  <2>5. /\ Reach(Held, Roots)' = Reach(Held', Roots')
        /\ Reach(Held, Held[o])' = Reach(Held', Held'[o])
    BY DEF Reach
  <2>6. Reach(Held, Held[storing.value])' = Reach(Held', Held'[o])
    BY <1>5 DEF Reach
  <2>. QED BY <1>2, <1>4, <1>5, <2>3, <2>4, <2>5, <2>6 DEF StoreOK
<1>16. ArrayFits'
  BY <1>1, <1>2 DEF ArrayFits
<1>. QED BY <1>2, <1>6, <1>10, <1>11, <1>14, <1>15, <1>16, Moved

(* The store after the release of the old value preserves the invariant.   *)
LEMMA StoreStep ==
  ASSUME ObjInv, Store
  PROVE  ObjInv'
<1>1. ObjTypes /\ CountsMatch /\ DeadEmpty /\ ArrayFits /\ Acyclic(Held) /\ StoreOK
  BY DEF ObjInv
<1>2. /\ storing # NoStore
      /\ retain' = [retain EXCEPT ![storing.value] = @ + 1]
      /\ entries' = [entries EXCEPT ![storing.map][storing.key] = storing.value]
      /\ storing' = NoStore
      /\ UNCHANGED <<next, own, elements, cap, pools, due, releasing, drain>>
  BY DEF Store
<1>3. storing \in [map : Maps, key : Keys, value : Objs]
  BY <1>1, <1>2 DEF ObjTypes
<1>4. PICK m \in Maps : m = storing.map
  BY <1>3
<1>5. PICK k \in Keys : k = storing.key
  BY <1>3
<1>6. PICK o \in Objs : o = storing.value
  BY <1>3
<1>7. /\ o \in Roots /\ m \in Reach(Held, Roots) /\ o # m /\ m \notin Reach(Held, Held[o])
  BY <1>1, <1>2, <1>4, <1>6 DEF StoreOK
<1>8. m \in Objs /\ retain[m] > 0
  <2>1. \A r \in Roots : retain[r] > 0
    <3>1. \A r \in Objs : r \in Roots => retain[r] # 0 /\ retain[r] \in Nat
      BY <1>1, LivesReferenced
    <3>. QED BY <3>1 DEF Roots
  <2>2. Roots \in SUBSET Objs
    BY DEF Roots
  <2>. QED BY <1>1, <1>7, <2>1, <2>2, ReachLives, Shapes
<1>9. /\ retain' = [retain EXCEPT ![o] = @ + 1]
      /\ entries' = [entries EXCEPT ![m][k] = o]
  BY <1>2, <1>4, <1>5, <1>6
<1>10. /\ entries' \in [Maps -> [Keys -> Objs \cup {Nil}]] /\ retain' \in [Objs -> Nat]
       /\ \A n \in Maps, j \in Keys : entries'[n][j] = IF n = m /\ j = k THEN o ELSE entries[n][j]
       /\ \A n \in Maps : n # m => entries'[n] = entries[n]
       /\ \A c \in Objs : retain'[c] = IF c = o THEN retain[c] + 1 ELSE retain[c]
  BY <1>1, <1>9 DEF ObjTypes
<1>11. ObjTypes'
  BY <1>1, <1>2, <1>10 DEF ObjTypes, Top
<1>12. /\ HeldBy(m, k) = Nil /\ HeldBy(m, k)' = o
       /\ \A n \in Maps, j \in Keys : (n # m \/ j # k) => HeldBy(n, j)' = HeldBy(n, j)
  <2>1. \A n \in Maps, j \in Keys : HeldBy(n, j) = IF n = m /\ j = k THEN Nil ELSE entries[n][j]
    BY <1>4, <1>5 DEF HeldBy
  <2>2. \A n \in Maps, j \in Keys : HeldBy(n, j)' = entries'[n][j]
    BY <1>2, Shapes DEF HeldBy, NoStore
  <2>. QED BY <1>10, <2>1, <2>2
<1>13. CountsMatch' /\ Acyclic(Held')
  BY SMTT(30), ZenonT(30), <1>1, <1>2, <1>7, <1>9, <1>11, <1>12, KeyTaken
<1>14. DeadEmpty'
  <2>1. \A c \in Objs : retain'[c] = 0 => retain[c] = 0 /\ c # m
    BY <1>1, <1>8, <1>10 DEF ObjTypes
  <2>. QED BY <1>1, <1>2, <1>10, <2>1, Shapes DEF DeadEmpty
<1>15. StoreOK'
  BY <1>2 DEF StoreOK
<1>16. ArrayFits'
  BY <1>1, <1>2 DEF ArrayFits
<1>. QED BY <1>2, <1>11, <1>13, <1>14, <1>15, <1>16, Moved

(* The last reference to an object frees it, and nothing still needs it.   *)
LEMMA ReleaseStepStep ==
  ASSUME ObjInv, ReleaseStep
  PROVE  ObjInv'
<1>1. ObjTypes /\ CountsMatch /\ DeadEmpty /\ ArrayFits /\ Acyclic(Held) /\ StoreOK
  BY DEF ObjInv
<1>2. releasing \in Seq(Objs) /\ releasing # <<>>
  BY <1>1 DEF ObjTypes, ReleaseStep
<1>3. PICK o \in Objs : o = Head(releasing)
  BY <1>2, HeadTailProperties
<1>4. PICK rest \in Seq(Objs) : rest = Tail(releasing)
  BY <1>2, HeadTailProperties
<1>5. /\ retain' = [retain EXCEPT ![o] = @ - 1]
      /\ releasing' = (IF retain[o] = 1 THEN Contents(o) ELSE <<>>) \o rest
      /\ elements' = [x \in Arrays |-> IF x = o /\ retain[o] = 1 THEN <<>> ELSE elements[x]]
      /\ cap' = [x \in Arrays |-> IF x = o /\ retain[o] = 1 THEN 0 ELSE cap[x]]
      /\ entries' = [m \in Maps |-> IF m = o /\ retain[o] = 1 THEN NoValues ELSE entries[m]]
      /\ UNCHANGED <<next, own, pools, due, storing, drain>>
  BY <1>3, <1>4 DEF ReleaseStep
<1>6. \A c : Times(releasing, c) = One(o = c) + Times(rest, c) /\ Times(rest, c) \in Nat /\ One(o = c) \in Nat
  BY <1>2, <1>3, <1>4, TimesHead, TimesType DEF One
<1>7. retain[o] \in Nat /\ retain[o] > 0 /\ Times(releasing, o) > 0
  <2>1. /\ own[o] \in Nat /\ InPools(o) \in Nat /\ InArrays(o) \in Nat /\ InMaps(o) \in Nat
        /\ Times(releasing, o) \in Nat
        /\ retain[o] = own[o] + InPools(o) + InArrays(o) + InMaps(o) + Times(releasing, o)
    BY <1>1, CountParts
  <2>2. Times(releasing, o) > 0
    <3>1. One(o = o) = 1
      BY DEF One
    <3>. QED BY <1>6, <3>1
  <2>. QED BY <2>1, <2>2
<1>8. /\ retain' \in [Objs -> Nat]
      /\ \A c \in Objs : retain'[c] = retain[c] - One(o = c)
  <2>1. retain \in [Objs -> Nat]
    BY <1>1 DEF ObjTypes
  <2>2. \A c \in Objs : retain'[c] = IF c = o THEN retain[c] - 1 ELSE retain[c]
    BY <1>5, <2>1
  <2>3. retain' \in [Objs -> Nat]
    BY <1>5, <1>7, <2>1
  <2>4. \A c \in Objs : One(o = c) = IF c = o THEN 1 ELSE 0
    BY DEF One
  <2>5. \A c \in Objs : retain'[c] = retain[c] - One(o = c)
    BY <2>1, <2>2, <2>4
  <2>. QED BY <2>3, <2>5
<1>9. /\ elements \in [Arrays -> Seq(Objs)] /\ cap \in [Arrays -> Nat]
      /\ entries \in [Maps -> [Keys -> Objs \cup {Nil}]]
  BY <1>1 DEF ObjTypes
<1>10. CASE retain[o] # 1
  <2>1. elements' = elements /\ cap' = cap /\ entries' = entries
    BY <1>5, <1>9, <1>10
  <2>2. releasing' = rest
    BY <1>4, <1>5, <1>10, ConcatEmptySeq
  <2>3. ObjTypes'
    BY <1>1, <1>5, <1>8, <2>1, <2>2 DEF ObjTypes, Top
  <2>4. ASSUME NEW c \in Objs PROVE retain'[c] = References(c)'
    <3>1. /\ own[c] \in Nat /\ InPools(c) \in Nat /\ InArrays(c) \in Nat /\ InMaps(c) \in Nat
          /\ Times(releasing, c) \in Nat
          /\ retain[c] = own[c] + InPools(c) + InArrays(c) + InMaps(c) + Times(releasing, c)
      BY <1>1, CountParts
    <3>2. /\ InPools(c)' = InPools(c) /\ InArrays(c)' = InArrays(c) /\ InMaps(c)' = InMaps(c)
      BY <1>5, <2>1, Frames
    <3>3. References(c)' = own[c] + InPools(c) + InArrays(c) + InMaps(c) + Times(rest, c)
      BY <1>5, <2>2, <3>2 DEF References
    <3>. QED BY <1>6, <1>8, <3>1, <3>3
  <2>5. CountsMatch'
    BY <2>4 DEF CountsMatch
  <2>6. DeadEmpty'
    <3>1. \A c \in Objs : retain'[c] = 0 => retain[c] = 0
      <4>1. ASSUME NEW c \in Objs, retain'[c] = 0 PROVE retain[c] = 0
        <5>1. c # o
          BY <1>7, <1>8, <1>10, <4>1 DEF One
        <5>. QED BY <1>1, <1>8, <4>1, <5>1 DEF One, ObjTypes
      <4>. QED BY <4>1
    <3>. QED BY <1>1, <2>1, <3>1, Shapes DEF DeadEmpty
  <2>7. Held' = Held /\ Roots' = Roots
    BY <1>5, <2>1, Frames
  <2>8. Acyclic(Held')
    BY <1>1, <2>7
  <2>9. StoreOK'
    BY <1>1, <1>5, <2>7 DEF StoreOK, Reach
  <2>10. ArrayFits'
    BY <1>1, <2>1 DEF ArrayFits
  <2>. QED BY <1>5, <2>3, <2>5, <2>6, <2>8, <2>9, <2>10, Moved
<1>11. CASE retain[o] = 1
  <2>1. o \notin Roots /\ \A c \in Objs : o \notin Held[c]
    <3>1. /\ own[o] \in Nat /\ InPools(o) \in Nat /\ InArrays(o) \in Nat /\ InMaps(o) \in Nat
          /\ Times(releasing, o) \in Nat
          /\ retain[o] = own[o] + InPools(o) + InArrays(o) + InMaps(o) + Times(releasing, o)
      BY <1>1, CountParts
    <3>2. own[o] = 0 /\ InPools(o) = 0 /\ InArrays(o) = 0 /\ InMaps(o) = 0
      BY <1>7, <1>11, <3>1
    <3>. QED BY <1>1, <3>2, Referenced
  <2>2. Held \in Edges /\ Roots \in SUBSET Objs
    BY <1>1, HeldTypes DEF Roots
  <2>3. storing.map # o
    <3>1. CASE storing = NoStore
      BY <3>1, Shapes DEF NoStore
    <3>2. CASE storing # NoStore
      <4>1. storing.map \in Reach(Held, Roots)
        BY <1>1, <3>2 DEF StoreOK
      <4>2. storing.map \in Roots \/ \E d \in Reach(Held, Roots) : storing.map \in Held[d]
        BY <2>2, <4>1, ReachClosed
      <4>3. Reach(Held, Roots) \in SUBSET Objs
        BY <2>2, ReachClosed
      <4>. QED BY <2>1, <4>2, <4>3
    <3>. QED BY <3>1, <3>2
  <2>4. /\ elements' = [x \in Arrays |-> IF x = o THEN <<>> ELSE elements[x]]
        /\ entries' = [m \in Maps |-> IF m = o THEN NoValues ELSE entries[m]]
        /\ \A x \in Arrays : cap'[x] = IF x = o THEN 0 ELSE cap[x]
        /\ cap' \in [Arrays -> Nat]
        /\ releasing' = Contents(o) \o rest
    BY <1>5, <1>9, <1>11
  <2>5. /\ elements' \in [Arrays -> Seq(Objs)] /\ entries' \in [Maps -> [Keys -> Objs \cup {Nil}]]
        /\ \A d \in Objs : Held'[d] = IF d = o THEN {} ELSE Held[d]
        /\ \A c \in Objs : /\ InArrays(c)' \in Nat /\ InMaps(c)' \in Nat /\ Times(Contents(o), c) \in Nat
                           /\ (InArrays(c)' + InMaps(c)') + Times(Contents(o), c) = InArrays(c) + InMaps(c)
    BY <1>1, <1>5, <2>3, <2>4, Emptied
  <2>6. Contents(o) \in Seq(Objs)
    BY <1>1, <2>3, ContentsHeld
  <2>7. releasing' \in Seq(Objs) /\ \A c : Times(releasing', c) = Times(Contents(o), c) + Times(rest, c)
    BY <2>4, <2>6, TimesConcat, ConcatProperties
  <2>8. ObjTypes'
    BY <1>1, <1>5, <1>8, <2>4, <2>5, <2>7 DEF ObjTypes, Top
  <2>9. ASSUME NEW c \in Objs PROVE retain'[c] = References(c)'
    <3>1. /\ own[c] \in Nat /\ InPools(c) \in Nat /\ InArrays(c) \in Nat /\ InMaps(c) \in Nat
          /\ retain[c] = own[c] + InPools(c) + InArrays(c) + InMaps(c) + Times(releasing, c)
      BY <1>1, CountParts
    <3>2. /\ InPools(c)' = InPools(c)
      BY <1>5, Frames
    <3>3. References(c)' = own[c] + InPools(c) + InArrays(c)' + InMaps(c)' + Times(releasing', c)
      BY <1>5, <3>2 DEF References
    <3>4. /\ InArrays(c)' \in Nat /\ InMaps(c)' \in Nat /\ Times(Contents(o), c) \in Nat
          /\ (InArrays(c)' + InMaps(c)') + Times(Contents(o), c) = InArrays(c) + InMaps(c)
      BY <2>5
    <3>5. Times(releasing, c) = One(o = c) + Times(rest, c) /\ Times(rest, c) \in Nat /\ One(o = c) \in Nat
      BY <1>6
    <3>6. References(c)' = own[c] + InPools(c) + InArrays(c) + InMaps(c) + Times(rest, c)
      <4>1. own[c] + InPools(c) \in Nat
        BY <3>1
      <4>2. PICK p \in Nat : p = own[c] + InPools(c)
        BY <4>1
      <4>3. PICK a \in Nat : a = InArrays(c)'
        BY <3>4
      <4>4. PICK b \in Nat : b = InMaps(c)'
        BY <3>4
      <4>5. PICK t \in Nat : t = Times(Contents(o), c)
        BY <3>4
      <4>6. PICK u \in Nat : u = Times(rest, c)
        BY <3>5
      <4>7. PICK i \in Nat : i = InArrays(c)
        BY <3>1
      <4>8. PICK j \in Nat : j = InMaps(c)
        BY <3>1
      <4>9. (a + b) + t = i + j
        BY <3>4, <4>3, <4>4, <4>5, <4>7, <4>8
      <4>10. Times(releasing', c) = t + u
        BY <2>7, <4>5, <4>6
      <4>11. References(c)' = p + a + b + (t + u)
        BY <3>3, <4>2, <4>3, <4>4, <4>10
      <4>12. References(c)' = p + i + j + u
        BY <4>9, <4>11
      <4>. QED BY <4>2, <4>6, <4>7, <4>8, <4>12
    <3>7. retain'[c] = retain[c] - One(o = c)
      BY <1>8
    <3>. QED BY <3>1, <3>5, <3>6, <3>7
  <2>10. CountsMatch'
    BY <2>9 DEF CountsMatch
  <2>11. DeadEmpty'
    <3>1. \A c \in Objs : retain'[c] = 0 => c = o \/ retain[c] = 0
      <4>1. ASSUME NEW c \in Objs, retain'[c] = 0, c # o PROVE retain[c] = 0
        BY <1>1, <1>8, <4>1 DEF One, ObjTypes
      <4>. QED BY <4>1
    <3>2. /\ \A x \in Arrays : elements'[x] = IF x = o THEN <<>> ELSE elements[x]
          /\ \A m \in Maps : entries'[m] = IF m = o THEN NoValues ELSE entries[m]
      BY <2>4
    <3>. QED BY <1>1, <3>1, <3>2, Shapes DEF DeadEmpty
  <2>12. PICK G \in Edges : G = Held'
    BY <2>8, HeldEdgesNext
  <2>13. \A d \in Objs : G[d] = IF d = o THEN {} ELSE Held[d]
    BY <2>5, <2>12
  <2>14. Acyclic(Held')
    <3>1. \A d \in Objs : G[d] \subseteq Held[d]
      BY <2>13
    <3>. QED BY <1>1, <2>2, <2>12, <3>1, FewerEdges
  <2>15. ASSUME storing # NoStore PROVE StoreOK'
    <3>1. PICK v \in Objs : v = storing.value
      BY <1>1, <2>15 DEF ObjTypes
    <3>2. /\ ~drain.on /\ v \in Roots /\ storing.map \in Reach(Held, Roots)
          /\ v # storing.map /\ storing.map \notin Reach(Held, Held[v])
      BY <1>1, <2>15, <3>1 DEF StoreOK
    <3>3. storing.map \in Reach(G, Roots)
      <4>1. \A d \in Objs \ {o} : Held[d] \subseteq G[d]
        BY <2>13
      <4>2. Reach(Held, Roots) \subseteq Reach(G, Roots)
        BY <2>1, <2>2, <4>1, UnreachedGone
      <4>. QED BY <3>2, <4>2
    <3>4. storing.map \notin Reach(G, G[v])
      <4>1. Held[v] \in SUBSET Objs /\ G[v] \in SUBSET Held[v] /\ \A d \in Objs : G[d] \subseteq Held[d]
        BY <2>2, <2>13 DEF Edges
      <4>2. Reach(G, G[v]) \subseteq Reach(Held, Held[v])
        BY <2>2, <4>1, FewerEdges
      <4>. QED BY <3>2, <4>2
    <3>5. Roots' = Roots
      BY <1>5, Frames
    <3>6. /\ Reach(Held, Roots)' = Reach(G, Roots)
          /\ Reach(Held, Held[storing.value])' = Reach(G, G[v])
      BY <1>5, <2>12, <3>1, <3>5 DEF Reach
    <3>. QED BY <1>5, <3>1, <3>2, <3>3, <3>4, <3>5, <3>6 DEF StoreOK
  <2>16. StoreOK'
    BY <1>5, <2>15 DEF StoreOK
  <2>17. ArrayFits'
    <3>1. \A x \in Arrays : Len(elements[x]) <= cap[x]
      BY <1>1 DEF ArrayFits
    <3>2. \A x \in Arrays : elements'[x] = IF x = o THEN <<>> ELSE elements[x]
      BY <2>4
    <3>3. Len(<<>>) <= 0
      OBVIOUS
    <3>. QED BY <2>4, <3>1, <3>2, <3>3 DEF ArrayFits
  <2>. QED BY <1>5, <2>8, <2>10, <2>11, <2>14, <2>16, <2>17, Moved
<1>. QED BY <1>10, <1>11

(* A new object is in the newest pool, or the program's own.               *)
LEMMA GivenCounts ==
  ASSUME ObjInv, ~drain.on, drain' = drain, NEW n \in Objs, retain[n] = 0, NEW pooled \in BOOLEAN, Given(n, pooled)
  PROVE  /\ PoolsOK' /\ own' \in [Objs -> Nat] /\ next' \in [Objs -> Objs \cup {Nil}]
         /\ pools' \in Seq(Objs \cup {Nil}) /\ due' \in Seq([Objs -> Nat])
         /\ Len(due') = Len(pools') /\ Len(pools') = Len(pools)
         /\ \A c \in Objs : /\ own'[c] \in Nat /\ InPools(c)' \in Nat
                            /\ own'[c] + InPools(c)' = own[c] + InPools(c) + One(n = c)
<1>1. ObjTypes /\ CountsMatch /\ PoolsOK
  BY DEF ObjInv
<1>2. next[n] = Nil /\ own[n] = 0 /\ \A p \in 1 .. Top : due[p][n] = 0
  BY <1>1, DeadUnlinked
<1>3. \A c \in Objs : /\ own[c] \in Nat /\ InPools(c) \in Nat
                      /\ One(n = c) = IF c = n THEN 1 ELSE 0
  BY <1>1, CountParts DEF One
<1>4. /\ own \in [Objs -> Nat] /\ next \in [Objs -> Objs \cup {Nil}] /\ pools \in Seq(Objs \cup {Nil})
      /\ due \in Seq([Objs -> Nat]) /\ Len(due) = Len(pools) /\ Top = Len(pools)
  BY <1>1 DEF ObjTypes, Top
<1>5. CASE pooled
  <2>1. /\ Top > 0
        /\ next' = [next EXCEPT ![n] = pools[Top]] /\ pools' = [pools EXCEPT ![Top] = n]
        /\ due' = [due EXCEPT ![Top][n] = 1] /\ own' = own
    BY <1>5 DEF Given
  <2>2. /\ Top \in Nat /\ Top \in 1 .. Top /\ DOMAIN due = 1 .. Top
        /\ (\A q \in 1 .. Top : due[q] \in [Objs -> Nat] /\ pools[q] \in Objs \cup {Nil})
    BY <1>1, <2>1, PoolTypes
  <2>3. due[Top] \in [Objs -> Nat] /\ due[Top][n] = 0 /\ due \in [1 .. Top -> [Objs -> Nat]]
    BY <1>2, <1>4, <2>2
  <2>4. /\ DOMAIN due' = 1 .. Top
        /\ \A q \in 1 .. Top : due'[q] = IF q = Top THEN [due[Top] EXCEPT ![n] = 1] ELSE due[q]
    BY <2>1, <2>2, <2>3
  <2>5. due' = [q \in 1 .. Top |-> due'[q]]
    BY <2>1, <2>3
  <2>6. \A q \in 1 .. Top : due'[q] \in [Objs -> Nat]
    <3>1. [due[Top] EXCEPT ![n] = 1] \in [Objs -> Nat]
      BY <2>3
    <3>. QED BY <2>2, <2>4, <3>1
  <2>7. \A q \in 1 .. Top : \A c \in Objs : (q # Top \/ c # n) => due'[q][c] = due[q][c]
    BY <2>2, <2>3, <2>4
  <2>8. due'[Top][n] = 1
    BY <2>2, <2>3, <2>4
  <2>9. due' \in Seq([Objs -> Nat]) /\ Len(due') = Len(due) /\ DOMAIN due' = DOMAIN due
    BY <1>1, <2>4, <2>5, <2>6, DueSet
  <2>10. PoolsOK'
    <3>1. due' = [due EXCEPT ![Top][n] = @ + 1]
      BY <2>1, <2>3
    <3>. QED BY <1>1, <1>2, <2>1, <3>1, PoolsPush
  <2>11. next' \in [Objs -> Objs \cup {Nil}]
    BY <1>4, <2>1, <2>2
  <2>12. pools' \in Seq(Objs \cup {Nil}) /\ Len(pools') = Len(pools)
    <3>1. /\ [pools EXCEPT ![Top] = n] \in Seq(Objs \cup {Nil})
          /\ Len([pools EXCEPT ![Top] = n]) = Len(pools)
      BY <1>4, <2>2
    <3>. QED BY <2>1, <3>1
  <2>13. ASSUME NEW c \in Objs
         PROVE  /\ own'[c] \in Nat /\ InPools(c)' \in Nat
                /\ own'[c] + InPools(c)' = own[c] + InPools(c) + One(n = c)
    <3>1. /\ InPools(c)' = (InPools(c) - due[Top][c]) + due'[Top][c]
          /\ InPools(c) \in Nat /\ due[Top][c] \in Nat /\ due'[Top][c] \in Nat
      <4>1. Top \in DOMAIN due /\ \A q \in DOMAIN due \ {Top} : due'[q][c] = due[q][c]
        BY <2>2, <2>7
      <4>. QED BY <1>1, <2>9, <4>1, PoolsChange
    <3>2. InPools(c)' = InPools(c) + One(n = c) /\ One(n = c) \in Nat
      <4>1. CASE c = n
        <5>1. due[Top][c] = 0 /\ due'[Top][c] = 1 /\ One(n = c) = 1
          BY <1>3, <2>3, <2>8, <4>1
        <5>. QED BY <3>1, <5>1
      <4>2. CASE c # n
        <5>1. due[Top][c] = due'[Top][c] /\ One(n = c) = 0
          BY <1>3, <2>2, <2>7, <4>2
        <5>. QED BY <3>1, <5>1
      <4>. QED BY <4>1, <4>2
    <3>. QED BY <1>3, <2>1, <3>1, <3>2
  <2>. QED BY <1>4, <2>1, <2>9, <2>10, <2>11, <2>12, <2>13
<1>6. CASE ~pooled
  <2>1. own' = [own EXCEPT ![n] = 1] /\ next' = [next EXCEPT ![n] = Nil] /\ pools' = pools /\ due' = due
    BY <1>6 DEF Given
  <2>2. next' = next
    BY <1>2, <1>4, <2>1
  <2>3. own' \in [Objs -> Nat] /\ \A c \in Objs : own'[c] = IF c = n THEN 1 ELSE own[c]
    BY <1>4, <2>1
  <2>4. PoolsOK'
    BY <1>1, <2>1, <2>2, PoolsStay
  <2>5. ASSUME NEW c \in Objs
        PROVE  /\ own'[c] \in Nat /\ InPools(c)' \in Nat
               /\ own'[c] + InPools(c)' = own[c] + InPools(c) + One(n = c)
    <3>1. InPools(c)' = InPools(c)
      BY <2>1, Frames
    <3>. QED BY <1>2, <1>3, <2>3, <3>1
  <2>. QED BY <1>4, <2>1, <2>2, <2>3, <2>4, <2>5
<1>. QED BY <1>5, <1>6

(* A new object has what it holds counted, and itself once.                *)
LEMMA NewCounts ==
  ASSUME ObjTypes, CountsMatch, releasing = <<>>, NEW n \in Objs, retain[n] = 0,
         NEW list \in Seq(Objs), Times(list, n) = 0, retain' = RetainedBy(n, list),
         \A c \in Objs : InArrays(c)' \in Nat /\ InMaps(c)' \in Nat
                         /\ InArrays(c)' + InMaps(c)' = InArrays(c) + InMaps(c) + Times(list, c),
         \A c \in Objs : own'[c] \in Nat /\ InPools(c)' \in Nat /\ Times(releasing', c) \in Nat
                         /\ own'[c] + InPools(c)' + Times(releasing', c) = own[c] + InPools(c) + One(n = c)
  PROVE  CountsMatch'
<1>1. ASSUME NEW c \in Objs PROVE retain'[c] = References(c)'
  <2>1. /\ own[c] \in Nat /\ InPools(c) \in Nat /\ InArrays(c) \in Nat /\ InMaps(c) \in Nat
        /\ retain[c] = own[c] + InPools(c) + InArrays(c) + InMaps(c) + Times(releasing, c)
    BY CountParts
  <2>2. Times(releasing, c) = 0 /\ One(n = c) = IF c = n THEN 1 ELSE 0
    BY TimesOne DEF One
  <2>3. retain'[c] = IF c = n THEN 1 ELSE retain[c] + Times(list, c)
    BY DEF RetainedBy
  <2>4. PICK t \in Nat : t = Times(list, c)
    BY TimesType
  <2>5. PICK e \in Nat : e = One(n = c)
    BY <2>2
  <2>6. PICK r \in Nat : r = retain[c]
    BY DEF ObjTypes
  <2>7. retain'[c] = r + t + e
    <3>1. CASE c = n
      <4>1. t = 0 /\ r = 0 /\ e = 1 /\ retain'[c] = 1
        BY <2>2, <2>3, <2>4, <2>5, <2>6, <3>1
      <4>. QED BY <4>1
    <3>2. CASE c # n
      <4>1. e = 0 /\ retain'[c] = r + t
        BY <2>2, <2>3, <2>4, <2>5, <2>6, <3>2
      <4>. QED BY <4>1
    <3>. QED BY <3>1, <3>2
  <2>8. PICK a \in Nat : a = own'[c]
    OBVIOUS
  <2>9. PICK b \in Nat : b = InPools(c)'
    OBVIOUS
  <2>10. PICK f \in Nat : f = InArrays(c)'
    OBVIOUS
  <2>11. PICK g \in Nat : g = InMaps(c)'
    OBVIOUS
  <2>12. PICK h \in Nat : h = Times(releasing', c)
    OBVIOUS
  <2>13. PICK i \in Nat : i = InArrays(c)
    BY <2>1
  <2>14. PICK j \in Nat : j = InMaps(c)
    BY <2>1
  <2>15. PICK k \in Nat : k = own[c]
    BY <2>1
  <2>16. PICK m \in Nat : m = InPools(c)
    BY <2>1
  <2>17. f + g = (i + j) + t
    BY <2>4, <2>10, <2>11, <2>13, <2>14
  <2>18. a + b + h = k + m + e
    BY <2>5, <2>8, <2>9, <2>12, <2>15, <2>16
  <2>19. References(c)' = a + b + f + g + h
    BY <2>8, <2>9, <2>10, <2>11, <2>12 DEF References
  <2>20. r = k + m + i + j + 0
    BY <2>1, <2>2, <2>6, <2>13, <2>14, <2>15, <2>16
  <2>21. r + t + e = a + b + f + g + h
    BY <2>17, <2>18, <2>20
  <2>. QED BY <2>7, <2>19, <2>21
<1>. QED BY <1>1 DEF CountsMatch

(* A new collection is held by none.                                       *)
LEMMA NewEdges ==
  ASSUME ObjInv, ObjTypes', NEW n \in Objs, retain[n] = 0, storing = NoStore,
         NEW list \in Seq(Objs), ToSet(list) \subseteq Named,
         Held'[n] = ToSet(list), \A d \in Objs \ {n} : Held'[d] = Held[d]
  PROVE  Acyclic(Held)' /\ Times(list, n) = 0 /\ \A c \in Objs : Times(list, c) \in Nat
<1>1. n \notin ToSet(list)
  BY NamedLive DEF ObjInv
<1>2. \A c \in Objs : Times(list, c) \in Nat /\ (Times(list, c) = 0 <=> c \notin ToSet(list))
  <2>. SUFFICES ASSUME NEW c \in Objs PROVE Times(list, c) \in Nat /\ (Times(list, c) = 0 <=> c \notin ToSet(list))
    OBVIOUS
  <2>1. Times(list, c) \in Nat /\ (Times(list, c) = 0 <=> \A i \in DOMAIN list : list[i] # c)
    BY TimesType
  <2>. QED BY <2>1 DEF ToSet
<1>3. PICK G \in Edges : G = Held'
  BY HeldEdgesNext
<1>4. Held \in Edges /\ Acyclic(Held) /\ \A d \in Objs : n \notin Held[d]
  BY HeldTypes, DeadUnlinked DEF ObjInv
<1>5. \A d \in Objs : G[d] = IF d = n THEN ToSet(list) ELSE Held[d]
  BY <1>3
<1>6. (\A d \in Objs : n \notin G[d]) /\ \A d \in Objs \ {n} : G[d] \subseteq Held[d]
  BY <1>1, <1>4, <1>5
<1>7. Acyclic(G)
  BY <1>3, <1>4, <1>6, NewSource
<1>8. Acyclic(Held)'
  BY <1>3, <1>7 DEF Acyclic
<1>. QED BY <1>1, <1>2, <1>8

(* A new object is retained once, and frees none of those it holds.        *)
LEMMA NewRetains ==
  ASSUME ObjTypes, NEW n \in Objs, NEW list \in Seq(Objs), retain' = RetainedBy(n, list)
  PROVE  retain' \in [Objs -> Nat] /\ \A c \in Objs : retain'[c] = 0 => c # n /\ retain[c] = 0
<1>1. \A c \in Objs : Times(list, c) \in Nat /\ retain[c] \in Nat
  <2>1. \A c : Times(list, c) \in Nat
    BY TimesType
  <2>. QED BY <2>1 DEF ObjTypes
<1>2. \A c \in Objs : retain'[c] = IF c = n THEN 1 ELSE retain[c] + Times(list, c)
  BY DEF RetainedBy
<1>3. retain' \in [Objs -> Nat]
  BY <1>1 DEF RetainedBy
<1>4. ASSUME NEW c \in Objs, retain'[c] = 0 PROVE c # n /\ retain[c] = 0
  BY <1>1, <1>2, <1>4
<1>. QED BY <1>3, <1>4

(* arrayWithObjects: and initWithObjects: preserve the invariant.          *)
LEMMA ArrayWithStep ==
  ASSUME ObjInv, NEW x \in Arrays, NEW list \in Seq(Objs), NEW pooled \in BOOLEAN, ArrayWith(x, list, pooled)
  PROVE  ObjInv'
<1>1. ObjTypes /\ CountsMatch /\ DeadEmpty /\ ArrayFits
  BY DEF ObjInv
<1>2. /\ storing = NoStore /\ releasing = <<>> /\ ~drain.on
      /\ retain[x] = 0 /\ ToSet(list) \subseteq Named
      /\ retain' = RetainedBy(x, list)
      /\ elements' = [elements EXCEPT ![x] = list] /\ cap' = [cap EXCEPT ![x] = Len(list)]
      /\ Given(x, pooled)
      /\ UNCHANGED <<entries, releasing, storing, drain>>
  BY DEF ArrayWith, Idle
<1>3. x \in Objs /\ x \notin Maps
  BY Shapes
<1>4. /\ PoolsOK' /\ own' \in [Objs -> Nat] /\ next' \in [Objs -> Objs \cup {Nil}]
      /\ pools' \in Seq(Objs \cup {Nil}) /\ due' \in Seq([Objs -> Nat])
      /\ Len(due') = Len(pools') /\ Len(pools') = Len(pools)
      /\ \A c \in Objs : /\ own'[c] \in Nat /\ InPools(c)' \in Nat
                         /\ own'[c] + InPools(c)' = own[c] + InPools(c) + One(x = c)
  BY <1>2, <1>3, GivenCounts
<1>5. /\ elements' \in [Arrays -> Seq(Objs)] /\ cap' \in [Arrays -> Nat]
      /\ \A y \in Arrays : /\ elements'[y] = IF y = x THEN list ELSE elements[y]
                           /\ cap'[y] = IF y = x THEN Len(list) ELSE cap[y]
      /\ Len(list) \in Nat
  <2>1. Len(list) \in Nat
    BY LenProperties
  <2>. QED BY <1>1, <1>2, <2>1 DEF ObjTypes
<1>6. retain' \in [Objs -> Nat] /\ \A c \in Objs : retain'[c] = 0 => c # x /\ retain[c] = 0
  BY <1>1, <1>2, <1>3, NewRetains
<1>7. ObjTypes'
  BY <1>1, <1>2, <1>4, <1>5, <1>6 DEF ObjTypes, Top
<1>8. Held'[x] = ToSet(list) /\ \A d \in Objs \ {x} : Held'[d] = Held[d]
  <2>1. \A m \in Maps, k \in Keys : HeldBy(m, k)' = HeldBy(m, k)
    BY <1>2, Frames
  <2>2. Held'[x] = ToSet(list)
    BY <1>3, <1>5 DEF Held
  <2>3. ASSUME NEW d \in Objs \ {x} PROVE Held'[d] = Held[d]
    BY <1>5, <2>1 DEF Held
  <2>. QED BY <2>2, <2>3
<1>9. Acyclic(Held)' /\ Times(list, x) = 0 /\ \A c \in Objs : Times(list, c) \in Nat
  BY <1>2, <1>3, <1>7, <1>8, NewEdges
<1>10. CountsMatch'
  <2>1. ASSUME NEW c \in Objs
        PROVE  /\ InArrays(c)' \in Nat /\ InMaps(c)' \in Nat
               /\ InArrays(c)' + InMaps(c)' = InArrays(c) + InMaps(c) + Times(list, c)
    <3>1. /\ InArrays(c)' = (InArrays(c) - Times(elements[x], c)) + Times(list, c)
          /\ InArrays(c) \in Nat
      BY <1>1, <1>2, ArraysChange
    <3>2. Times(elements[x], c) = 0
      <4>1. elements[x] = <<>>
        BY <1>1, <1>2 DEF DeadEmpty
      <4>. QED BY <4>1, TimesOne
    <3>3. InMaps(c)' = InMaps(c) /\ InMaps(c) \in Nat
      BY <1>1, <1>2, Frames, CountParts
    <3>. QED BY <1>9, <3>1, <3>2, <3>3
  <2>2. ASSUME NEW c \in Objs
        PROVE  /\ own'[c] \in Nat /\ InPools(c)' \in Nat /\ Times(releasing', c) \in Nat
               /\ own'[c] + InPools(c)' + Times(releasing', c) = own[c] + InPools(c) + One(x = c)
    <3>1. Times(releasing', c) = 0
      BY <1>2, TimesOne
    <3>. QED BY <1>4, <3>1
  <2>. QED BY <1>1, <1>2, <1>3, <1>9, <2>1, <2>2, NewCounts
<1>11. DeadEmpty'
  BY <1>1, <1>2, <1>5, <1>6, Shapes DEF DeadEmpty
<1>12. StoreOK'
  BY <1>2 DEF StoreOK
<1>13. ArrayFits'
  <2>1. \A y \in Arrays : Len(elements[y]) <= cap[y]
    BY <1>1 DEF ArrayFits
  <2>2. \A y \in Arrays : Len(elements'[y]) <= cap'[y]
    <3>1. elements'[x] = list /\ cap'[x] = Len(list) /\ Len(list) \in Nat
      BY <1>5
    <3>2. \A y \in Arrays \ {x} : elements'[y] = elements[y] /\ cap'[y] = cap[y]
      BY <1>5
    <3>. QED BY <2>1, <3>1, <3>2
  <2>. QED BY <2>2 DEF ArrayFits
<1>. QED BY <1>4, <1>7, <1>9, <1>10, <1>11, <1>12, <1>13 DEF ObjInv

(* The values given by key, as a list.                                     *)
LEMMA NewMapStep ==
  ASSUME ObjInv, Idle, NEW m \in Maps, retain[m] = 0,
         NEW values \in [Keys -> Objs \cup {Nil}], \A k \in Keys : values[k] # Nil => values[k] \in Named,
         NEW list, list = [i \in DOMAIN SetToSeq({k \in Keys : values[k] # Nil}) |->
                             values[SetToSeq({k \in Keys : values[k] # Nil})[i]]],
         retain' = RetainedBy(m, list), entries' = [entries EXCEPT ![m] = values],
         UNCHANGED <<elements, cap, storing, drain>>,
         \/ releasing' = <<m>> /\ UNCHANGED <<own, next, pools, due>>
         \/ Given(m, TRUE) /\ UNCHANGED releasing
  PROVE  ObjInv'
<1>1. ObjTypes /\ CountsMatch /\ DeadEmpty /\ ArrayFits /\ PoolsOK
  BY DEF ObjInv
<1>2. storing = NoStore /\ releasing = <<>> /\ ~drain.on
  BY DEF Idle
<1>3. m \in Objs /\ m \notin Arrays /\ IsFiniteSet(Keys) /\ Nil \notin Objs
  BY Shapes
<1>4. /\ list \in Seq(Objs) /\ ToSet(list) = {values[k] : k \in Keys} \ {Nil}
      /\ \A c \in Objs : Times(list, c) = Cardinality({k \in Keys : values[k] = c})
  <2>. DEFINE K == {k \in Keys : values[k] # Nil}
  <2>1. K \in SUBSET Keys /\ (\A k \in K : values[k] \in Objs)
    OBVIOUS
  <2>2. IsFiniteSet(K)
    BY <1>3, <2>1, FS_Subset
  <2>3. {values[k] : k \in K} = {values[k] : k \in Keys} \ {Nil}
    OBVIOUS
  <2>4. \A c \in Objs : {k \in K : values[k] = c} = {k \in Keys : values[k] = c}
    BY <1>3
  <2>. HIDE DEF K
  <2>5. list = [i \in DOMAIN SetToSeq(K) |-> values[SetToSeq(K)[i]]]
    BY DEF K
  <2>6. /\ list \in Seq(Objs) /\ ToSet(list) = {values[k] : k \in K}
        /\ \A c : Times(list, c) = Cardinality({k \in K : values[k] = c})
    BY ONLY SMTT(30), ZenonT(30), <2>1, <2>2, <2>5, TimesListed
  <2>. QED BY <2>3, <2>4, <2>6
<1>5. ToSet(list) \subseteq Named
  BY <1>4
<1>6. \A c \in Objs : One(m = c) \in Nat
  BY DEF One
<1>7. /\ PoolsOK' /\ own' \in [Objs -> Nat] /\ next' \in [Objs -> Objs \cup {Nil}]
      /\ pools' \in Seq(Objs \cup {Nil}) /\ due' \in Seq([Objs -> Nat])
      /\ Len(due') = Len(pools') /\ Len(pools') = Len(pools) /\ releasing' \in Seq(Objs)
      /\ \A c \in Objs : /\ own'[c] \in Nat /\ InPools(c)' \in Nat /\ Times(releasing', c) \in Nat
                         /\ own'[c] + InPools(c)' + Times(releasing', c) = own[c] + InPools(c) + One(m = c)
  <2>1. CASE releasing' = <<m>> /\ UNCHANGED <<own, next, pools, due>>
    <3>1. PoolsOK' /\ releasing' \in Seq(Objs) /\ \A c \in Objs : Times(releasing', c) = One(m = c)
      BY <1>1, <1>3, <2>1, PoolsStay, SeqOfOne
    <3>2. ASSUME NEW c \in Objs
          PROVE  /\ own'[c] \in Nat /\ InPools(c)' \in Nat /\ Times(releasing', c) \in Nat
                 /\ own'[c] + InPools(c)' + Times(releasing', c) = own[c] + InPools(c) + One(m = c)
      <4>1. own'[c] = own[c] /\ InPools(c)' = InPools(c)
        BY <2>1, Frames
      <4>. QED BY <1>1, <1>6, <3>1, <4>1, CountParts
    <3>. QED BY <1>1, <2>1, <3>1, <3>2 DEF ObjTypes
  <2>2. CASE Given(m, TRUE) /\ UNCHANGED releasing
    <3>1. /\ PoolsOK' /\ own' \in [Objs -> Nat] /\ next' \in [Objs -> Objs \cup {Nil}]
          /\ pools' \in Seq(Objs \cup {Nil}) /\ due' \in Seq([Objs -> Nat])
          /\ Len(due') = Len(pools') /\ Len(pools') = Len(pools)
          /\ \A c \in Objs : /\ own'[c] \in Nat /\ InPools(c)' \in Nat
                             /\ own'[c] + InPools(c)' = own[c] + InPools(c) + One(m = c)
      BY <1>2, <1>3, <2>2, GivenCounts
    <3>2. releasing' \in Seq(Objs) /\ \A c : Times(releasing', c) = 0
      BY <1>2, <1>3, <2>2, TimesOne, SeqOfOne
    <3>3. ASSUME NEW c \in Objs
          PROVE  /\ own'[c] \in Nat /\ InPools(c)' \in Nat /\ Times(releasing', c) \in Nat
                 /\ own'[c] + InPools(c)' + Times(releasing', c) = own[c] + InPools(c) + One(m = c)
      BY <3>1, <3>2
    <3>. QED BY <3>1, <3>2, <3>3
  <2>. QED BY <2>1, <2>2
<1>8. /\ entries' \in [Maps -> [Keys -> Objs \cup {Nil}]]
      /\ \A n \in Maps : entries'[n] = IF n = m THEN values ELSE entries[n]
  BY <1>1 DEF ObjTypes
<1>9. retain' \in [Objs -> Nat] /\ \A c \in Objs : retain'[c] = 0 => c # m /\ retain[c] = 0
  BY <1>1, <1>3, <1>4, NewRetains
<1>10. ObjTypes'
  BY <1>1, <1>7, <1>8, <1>9 DEF ObjTypes, Top
<1>11. /\ \A n \in Maps, k \in Keys : HeldBy(n, k)' = IF n = m THEN values[k] ELSE HeldBy(n, k)
       /\ \A k \in Keys : HeldBy(m, k) = Nil
  <2>1. \A n \in Maps, k \in Keys : HeldBy(n, k) = entries[n][k] /\ HeldBy(n, k)' = entries'[n][k]
    BY <1>2, Shapes DEF HeldBy, NoStore
  <2>2. entries[m] = NoValues
    BY <1>1 DEF DeadEmpty
  <2>. QED BY <1>8, <2>1, <2>2 DEF NoValues
<1>12. Held'[m] = ToSet(list) /\ \A d \in Objs \ {m} : Held'[d] = Held[d]
  <2>1. Held'[m] = {HeldBy(m, k)' : k \in Keys} \ {Nil}
    BY <1>3 DEF Held
  <2>2. ASSUME NEW d \in Objs \ {m} PROVE Held'[d] = Held[d]
    <3>1. CASE d \in Maps
      <4>1. \A k \in Keys : HeldBy(d, k)' = HeldBy(d, k)
        BY <1>11, <3>1
      <4>. QED BY <3>1, <4>1 DEF Held
    <3>2. CASE d \notin Maps
      BY <3>2 DEF Held
    <3>. QED BY <3>1, <3>2
  <2>. QED BY <1>4, <1>11, <2>1, <2>2
<1>13. Acyclic(Held)' /\ Times(list, m) = 0 /\ \A c \in Objs : Times(list, c) \in Nat
  BY <1>2, <1>3, <1>4, <1>5, <1>10, <1>12, NewEdges
<1>14. CountsMatch'
  <2>1. ASSUME NEW c \in Objs
        PROVE  /\ InArrays(c)' \in Nat /\ InMaps(c)' \in Nat
               /\ InArrays(c)' + InMaps(c)' = InArrays(c) + InMaps(c) + Times(list, c)
    <3>1. /\ InMaps(c)' = (InMaps(c) - KeysOf(m, c)) + KeysOf(m, c)'
          /\ InMaps(c) \in Nat
      <4>1. \A n \in Maps \ {m}, k \in Keys : HeldBy(n, k)' = HeldBy(n, k)
        BY <1>11
      <4>. QED BY <4>1, MapsChange
    <3>2. KeysOf(m, c) = 0
      <4>1. {k \in Keys : HeldBy(m, k) = c} = {}
        BY <1>3, <1>11
      <4>. QED BY <4>1, FS_EmptySet DEF KeysOf
    <3>3. KeysOf(m, c)' = Times(list, c)
      <4>1. {k \in Keys : HeldBy(m, k)' = c} = {k \in Keys : values[k] = c}
        BY <1>11
      <4>. QED BY <1>4, <4>1 DEF KeysOf
    <3>4. InArrays(c)' = InArrays(c) /\ InArrays(c) \in Nat
      BY <1>1, Frames, CountParts
    <3>. QED BY <1>13, <3>1, <3>2, <3>3, <3>4
  <2>. QED BY <1>1, <1>2, <1>3, <1>4, <1>7, <1>13, <2>1, NewCounts
<1>15. DeadEmpty'
  BY <1>1, <1>8, <1>9, Shapes DEF DeadEmpty
<1>16. StoreOK'
  BY <1>2 DEF StoreOK
<1>17. ArrayFits'
  BY <1>1 DEF ArrayFits
<1>. QED BY <1>7, <1>10, <1>13, <1>14, <1>15, <1>16, <1>17 DEF ObjInv

(* mapWithObjects:forKeys: preserves the invariant, refused or not.        *)
LEMMA MapWithStep ==
  ASSUME ObjInv, NEW m \in Maps, NEW pairs \in SomePairs, NEW refused \in BOOLEAN, MapWith(m, pairs, refused)
  PROVE  ObjInv'
<1>. DEFINE last(k) == LET at == {i \in DOMAIN pairs : pairs[i][2] = k} IN
                         IF at = {} THEN Nil ELSE pairs[Max(at)][1]
            values == [k \in Keys |-> last(k)]
            list == [i \in DOMAIN SetToSeq({k \in Keys : values[k] # Nil}) |->
                       values[SetToSeq({k \in Keys : values[k] # Nil})[i]]]
<1>1. /\ Idle /\ retain[m] = 0 /\ \A i \in DOMAIN pairs : pairs[i][1] \in Named
  BY DEF MapWith
<1>2. /\ retain' = RetainedBy(m, list)
      /\ entries' = [entries EXCEPT ![m] = values]
      /\ UNCHANGED <<elements, cap, storing, drain>>
  BY DEF MapWith
<1>3. \/ releasing' = <<m>> /\ UNCHANGED <<own, next, pools, due>>
      \/ Given(m, TRUE) /\ UNCHANGED releasing
  BY DEF MapWith
<1>4. DOMAIN pairs \in SUBSET {1, 2} /\ \A i \in DOMAIN pairs : pairs[i][1] \in Objs
  BY DEF SomePairs
<1>5. ASSUME NEW k \in Keys PROVE last(k) \in Objs \cup {Nil} /\ (last(k) # Nil => last(k) \in Named)
  <2>. DEFINE at == {i \in DOMAIN pairs : pairs[i][2] = k}
  <2>1. CASE at = {}
    BY <2>1
  <2>2. CASE at # {}
    <3>1. at \in SUBSET {1, 2}
      BY <1>4
    <3>2. \E x \in at : \A y \in at : x >= y
      <4>. HIDE DEF at
      <4>1. CASE 2 \in at
        BY <3>1, <4>1
      <4>2. CASE 2 \notin at
        <5>1. 1 \in at /\ \A y \in at : y = 1
          BY <2>2, <3>1, <4>2
        <5>. QED BY <5>1
      <4>. QED BY <4>1, <4>2
    <3>3. Max(at) \in at
      <4>. HIDE DEF at
      <4>. QED BY <3>2 DEF Max
    <3>4. Max(at) \in DOMAIN pairs /\ last(k) = pairs[Max(at)][1]
      BY <2>2, <3>3
    <3>. QED BY <1>1, <1>4, <3>4
  <2>. QED BY <2>1, <2>2
<1>6. PICK v : v = values
  OBVIOUS
<1>. HIDE DEF last
<1>7. v \in [Keys -> Objs \cup {Nil}] /\ \A k \in Keys : v[k] # Nil => v[k] \in Named
  BY <1>5, <1>6
<1>8. PICK l : l = [i \in DOMAIN SetToSeq({k \in Keys : v[k] # Nil}) |-> v[SetToSeq({k \in Keys : v[k] # Nil})[i]]]
  OBVIOUS
<1>9. l = list
  BY <1>6, <1>8
<1>. HIDE DEF values, list
<1>10. retain' = RetainedBy(m, l) /\ entries' = [entries EXCEPT ![m] = v]
  BY <1>2, <1>6, <1>9
<1>. QED BY <1>1, <1>2, <1>3, <1>7, <1>8, <1>10, NewMapStep

(* The invariant holds before the first call.                              *)
LEMMA ObjectsInitOK == ObjectsInit => ObjInv
<1>. SUFFICES ASSUME ObjectsInit PROVE ObjInv
  OBVIOUS
<1>1. /\ retain = [o \in Objs |-> 0] /\ next = [o \in Objs |-> Nil] /\ own = [o \in Objs |-> 0]
      /\ elements = [x \in Arrays |-> <<>>] /\ cap = [x \in Arrays |-> 0]
      /\ entries = [m \in Maps |-> NoValues]
      /\ pools = <<>> /\ due = <<>>
      /\ releasing = <<>> /\ storing = NoStore /\ drain = NoDrain
  BY DEF ObjectsInit
<1>2. <<>> \in Seq(Objs) /\ <<>> \in Seq(Objs \cup {Nil}) /\ <<>> \in Seq([Objs -> Nat]) /\ Len(<<>>) = 0
  OBVIOUS
<1>3. ObjTypes
  <2>1. entries \in [Maps -> [Keys -> Objs \cup {Nil}]]
    BY <1>1 DEF NoValues
  <2>2. elements \in [Arrays -> Seq(Objs)] /\ pools \in Seq(Objs \cup {Nil}) /\ due \in Seq([Objs -> Nat])
        /\ Len(due) = Len(pools) /\ releasing \in Seq(Objs)
    BY <1>1, <1>2
  <2>3. retain \in [Objs -> Nat] /\ own \in [Objs -> Nat] /\ next \in [Objs -> Objs \cup {Nil}] /\ cap \in [Arrays -> Nat]
    BY <1>1
  <2>. QED BY <1>1, <2>1, <2>2, <2>3 DEF ObjTypes
<1>4. \A d \in Objs : Held[d] = {}
  <2>1. \A m \in Maps, k \in Keys : HeldBy(m, k) = Nil
    BY <1>1 DEF HeldBy, NoValues
  <2>2. ToSet(<<>>) = {}
    BY DEF ToSet
  <2>. QED BY <1>1, <2>1, <2>2 DEF Held
<1>5. CountsMatch
  <2>1. ASSUME NEW o \in Objs PROVE retain[o] = References(o)
    <3>1. own[o] = 0 /\ retain[o] = 0 /\ o \notin Roots
      BY <1>1 DEF Roots
    <3>2. \A i \in DOMAIN releasing : releasing[i] # o
      BY <1>1
    <3>3. References(o) = 0
      BY <1>3, <1>4, <3>1, <3>2, Referenced
    <3>. QED BY <3>1, <3>3
  <2>. QED BY <2>1 DEF CountsMatch
<1>6. DeadEmpty /\ StoreOK
  BY <1>1 DEF DeadEmpty, StoreOK
<1>7. Acyclic(Held)
  BY <1>4 DEF Acyclic
<1>8. ArrayFits
  BY <1>1, <1>2 DEF ArrayFits
<1>9. PoolsOK
  <2>1. PICK lists : lists = <<>>
    OBVIOUS
  <2>2. lists \in Seq(Seq(Objs)) /\ Len(lists) = 0 /\ Top = 0
    BY <1>1, <2>1 DEF Top
  <2>3. \A o \in Objs : next[o] = Nil
    BY <1>1
  <2>4. PoolsAre(lists)
    BY <2>2, <2>3 DEF PoolsAre
  <2>. QED BY <2>4 DEF PoolsOK
<1>. QED BY <1>3, <1>5, <1>6, <1>7, <1>8, <1>9 DEF ObjInv

(* Every step of every call preserves the invariant.                       *)
LEMMA ObjectsNextOK == ObjInv /\ [ObjectsStep]_objVars => ObjInv'
<1>. SUFFICES ASSUME ObjInv, [ObjectsStep]_objVars PROVE ObjInv'
  OBVIOUS
<1>1. CASE UNCHANGED objVars
  <2>1. UNCHANGED <<retain, next, own, elements, cap, entries, pools, due, releasing, storing, drain>>
    BY <1>1 DEF objVars
  <2>2. Held' = Held /\ Roots' = Roots
    BY <2>1, Frames
  <2>3. ObjTypes'
    BY <2>1 DEF ObjInv, ObjTypes, Top
  <2>4. CountsMatch'
    <3>1. ASSUME NEW c \in Objs PROVE References(c)' = References(c)
      BY <2>1, Frames DEF References
    <3>. QED BY <2>1, <3>1 DEF ObjInv, CountsMatch
  <2>5. DeadEmpty' /\ ArrayFits' /\ Acyclic(Held')
    BY <2>1, <2>2 DEF ObjInv, DeadEmpty, ArrayFits
  <2>6. StoreOK'
    BY <2>1, <2>2 DEF ObjInv, StoreOK, Reach
  <2>. QED BY <2>1, <2>3, <2>4, <2>5, <2>6, Moved
<1>2. ASSUME NEW o \in Objs, Alloc(o) \/ Retain(o) \/ Release(o) \/ Autorelease(o) \/ RemoveAll(o)
      PROVE  ObjInv'
  BY <1>2, AllocStep, RetainStep, ReleaseCall, AutoreleaseStep, RemoveAllStep
<1>3. CASE ReleaseStep \/ PoolInit \/ DrainNext \/ DrainEnd \/ Store
  BY <1>3, ReleaseStepStep, PoolInitStep, DrainNextStep, DrainEndStep, StoreStep
<1>4. ASSUME NEW pop \in BOOLEAN, DrainStart(pop) PROVE ObjInv'
  BY <1>4, DrainStartStep
<1>5. ASSUME NEW x \in Arrays, NEW o \in Objs, NEW i, Insert(x, o, i) PROVE ObjInv'
  BY <1>5, InsertStep
<1>6. ASSUME NEW x \in Arrays, NEW i, RemoveElement(x, i) PROVE ObjInv'
  BY <1>6, RemoveElementStep
<1>7. ASSUME NEW m \in Maps, NEW k \in Keys, NEW o \in Objs, SetNew(m, k, o) \/ SetOther(m, k, o) PROVE ObjInv'
  BY <1>7, SetNewStep, SetOtherStep
<1>8. ASSUME NEW m \in Maps, NEW k \in Keys, RemoveKey(m, k) PROVE ObjInv'
  BY <1>8, RemoveKeyStep
<1>9. ASSUME NEW x \in Arrays, NEW o \in Objs, RemoveEqual(x, o) PROVE ObjInv'
  BY <1>9, RemoveElementStep DEF RemoveEqual
<1>10. ASSUME NEW x \in Arrays, NEW list \in SomeObjects, NEW pooled \in BOOLEAN, ArrayWith(x, list, pooled)
       PROVE  ObjInv'
  <2>1. list \in Seq(Objs)
    <3>1. PICK n \in 0 .. MaxLength : list \in [1 .. n -> Objs]
      BY DEF SomeObjects
    <3>. QED BY <3>1, FunctionIsSeq
  <2>. QED BY <1>10, <2>1, ArrayWithStep
<1>11. ASSUME NEW m \in Maps, NEW x \in Arrays, AllObjects(m, x) PROVE ObjInv'
  <2>1. ArrayWith(x, Contents(m), TRUE) /\ Idle
    BY <1>11 DEF AllObjects, ArrayWith
  <2>2. Contents(m) \in Seq(Objs)
    BY <2>1, InsideReach, Shapes DEF ObjInv, Idle
  <2>3. PICK list \in Seq(Objs) : list = Contents(m)
    BY <2>2
  <2>4. ArrayWith(x, list, TRUE)
    BY <2>1, <2>3
  <2>. QED BY <2>4, ArrayWithStep
<1>12. ASSUME NEW m \in Maps, NEW pairs \in SomePairs, NEW refused \in BOOLEAN, MapWith(m, pairs, refused)
       PROVE  ObjInv'
  BY <1>12, MapWithStep
<1>. QED BY <1>1, <1>2, <1>3, <1>4, <1>5, <1>6, <1>7, <1>8, <1>9, <1>10, <1>11, <1>12 DEF ObjectsStep

(* The inductive invariant of the objects: types, counts, empty memory of  *)
(* the dead, no cycle of collections, a map that stays reachable while its *)
(* new value waits, and the linked lists of the pools.                     *)
THEOREM ObjectsInvariant == ObjectsSpec => []ObjInv
<1>. QED BY ObjectsInitOK, ObjectsNextOK, PTL DEF ObjectsSpec

(* Objects live exactly as long as somebody refers to them: in the middle  *)
(* of every call, release, dealloc and drain (NXObject.m,                  *)
(* NXAutoreleasePool.m, NXArray.m, NXMap.m) the retain count is the number *)
(* of references, no freed object is touched, nothing leaks, a drain gives *)
(* back what was added, and an array stays in its memory; for any objects, *)
(* keys, lengths and pools.                                                *)
THEOREM RetainsCountedAlways == ObjectsSpec => []RetainsCounted
<1>1. ObjInv => RetainsCounted
  BY InvSafe
<1>. QED BY <1>1, ObjectsInvariant, PTL
=============================================================================
