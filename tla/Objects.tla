------------------------------- MODULE Objects ------------------------------
(***************************************************************************)
(* The objects of Foundation: retain counts (NXObject.m), autorelease      *)
(* pools (NXAutoreleasePool.m), arrays and maps (NXArray.m, NXMap.m).  A   *)
(* release goes through the objects it frees one by one; a drain goes      *)
(* through the list of its pool.  Keys are constant strings, which retain  *)
(* and release leave alone; a map is the function HashTable specifies.     *)
(***************************************************************************)
EXTENDS Integers, Sequences, FiniteSets, SequencesExt

CONSTANTS
  Items, Arrays, Maps,  \* the objects the program makes, by class
  Keys,
  Nil,
  MaxOwn, MaxRetain, MaxLength, MaxPools  \* references, elements, pools (bounds)

Objs == Items \cup Arrays \cup Maps

ASSUME ObjectsAssumption ==
  /\ IsFiniteSet(Objs) /\ IsFiniteSet(Keys) /\ Nil \notin Objs
  /\ Items \cap (Arrays \cup Maps) = {} /\ Arrays \cap Maps = {}

VARIABLES
  retain,     \* _retain; 0 for memory that is free
  next,       \* _next
  own,        \* the references the program itself has to release
  elements,   \* the elements of an array
  cap,        \* _cap of an array
  entries,    \* the values of a map by key
  pools,      \* the pools from the outermost to defaultPool, each its _tail
  due,        \* history: how often each object was added to each pool
  releasing,  \* the objects whose release is still to come in this call
  storing,    \* the value setObject:forKey: has still to retain and store
  drain       \* the drain that runs: on, _cur, and whether the pool goes too

objVars == <<retain, next, own, elements, cap, entries, pools, due, releasing, storing, drain>>

NoStore == [map |-> Nil, key |-> Nil, value |-> Nil]
NoDrain == [on |-> FALSE, cur |-> Nil, pop |-> FALSE]
NoValues == [k \in Keys |-> Nil]

ObjectsInit ==
  /\ retain = [o \in Objs |-> 0] /\ next = [o \in Objs |-> Nil] /\ own = [o \in Objs |-> 0]
  /\ elements = [x \in Arrays |-> <<>>] /\ cap = [x \in Arrays |-> 0]
  /\ entries = [m \in Maps |-> NoValues]
  /\ pools = <<>> /\ due = <<>>
  /\ releasing = <<>> /\ storing = NoStore /\ drain = NoDrain

-----------------------------------------------------------------------------
Values(m) == {k \in Keys : entries[m][k] # Nil}

Contents(o) ==
  IF o \in Arrays THEN elements[o]
  ELSE IF o \in Maps
       THEN LET ks == SetToSeq(Values(o)) IN [i \in DOMAIN ks |-> entries[o][ks[i]]]
       ELSE <<>>

(* containsObject: - what a collection holds, and what those hold: the     *)
(* objects in every set that has the contents of o and of its own members. *)
Inside(o) ==
  {c \in Objs : \A S \in SUBSET Objs :
     (\A d \in S \cup {o} : ToSet(Contents(d)) \subseteq S) => c \in S}

(* What the program can name without a stale pointer.                      *)
Roots == {o \in Objs : own[o] > 0 \/ \E p \in DOMAIN due : due[p][o] > 0}
Named == Roots \cup UNION {Inside(o) : o \in Roots}

Times(s, o) == Cardinality({i \in DOMAIN s : s[i] = o})

(* One thread: a call begins when the last one has ended.                  *)
Idle == releasing = <<>> /\ storing = NoStore /\ ~drain.on

Alloc(o) ==
  /\ Idle /\ retain[o] = 0
  /\ retain' = [retain EXCEPT ![o] = 1] /\ own' = [own EXCEPT ![o] = 1]
  /\ next' = [next EXCEPT ![o] = Nil]
  /\ UNCHANGED <<elements, cap, entries, pools, due, releasing, storing, drain>>

Retain(o) ==
  /\ Idle /\ own[o] < MaxOwn /\ retain[o] < MaxRetain /\ o \in Named
  /\ retain' = [retain EXCEPT ![o] = @ + 1] /\ own' = [own EXCEPT ![o] = @ + 1]
  /\ UNCHANGED <<next, elements, cap, entries, pools, due, releasing, storing, drain>>

Release(o) ==
  /\ Idle /\ own[o] > 0
  /\ own' = [own EXCEPT ![o] = @ - 1] /\ releasing' = <<o>>
  /\ UNCHANGED <<retain, next, elements, cap, entries, pools, due, storing, drain>>

(* release, and dealloc when that was the last reference: a collection     *)
(* releases what it holds before its memory is free.                       *)
ReleaseStep ==
  LET o == Head(releasing)  last == retain[o] = 1 IN
    /\ releasing # <<>>
    /\ retain' = [retain EXCEPT ![o] = @ - 1]
    /\ releasing' = (IF last THEN Contents(o) ELSE <<>>) \o Tail(releasing)
    /\ elements' = [x \in Arrays |-> IF x = o /\ last THEN <<>> ELSE elements[x]]
    /\ cap' = [x \in Arrays |-> IF x = o /\ last THEN 0 ELSE cap[x]]
    /\ entries' = [m \in Maps |-> IF m = o /\ last THEN NoValues ELSE entries[m]]
    /\ UNCHANGED <<next, own, pools, due, storing, drain>>

-----------------------------------------------------------------------------
Top == Len(pools)

PoolInit ==
  /\ Idle /\ Top < MaxPools
  /\ pools' = Append(pools, Nil) /\ due' = Append(due, [o \in Objs |-> 0])
  /\ UNCHANGED <<retain, next, own, elements, cap, entries, releasing, storing, drain>>

(* autorelease - addObject: panics when the object is linked to another.   *)
Autorelease(o) ==
  /\ Idle /\ Top > 0 /\ own[o] > 0 /\ next[o] = Nil
  /\ own' = [own EXCEPT ![o] = @ - 1]
  /\ next' = [next EXCEPT ![o] = pools[Top]]
  /\ pools' = [pools EXCEPT ![Top] = o]
  /\ due' = [due EXCEPT ![Top][o] = @ + 1]
  /\ UNCHANGED <<retain, elements, cap, entries, releasing, storing, drain>>

(* drain, or the release of the pool, which drains first.                  *)
DrainStart(pop) ==
  /\ Idle /\ Top > 0
  /\ drain' = [on |-> TRUE, cur |-> pools[Top], pop |-> pop]
  /\ UNCHANGED <<retain, next, own, elements, cap, entries, pools, due, releasing, storing>>

(* Mutation: the next object is read after the link was cleared.           *)
DrainNextLate ==
  LET o == drain.cur IN
    /\ drain.on /\ releasing = <<>> /\ o # Nil
    /\ next' = [next EXCEPT ![o] = Nil] /\ releasing' = <<o>>
    /\ drain' = [drain EXCEPT !.cur = Nil]
    /\ due' = [due EXCEPT ![Top][o] = @ - 1]
    /\ UNCHANGED <<retain, own, elements, cap, entries, pools, storing>>

DrainNext ==
  LET o == drain.cur IN
    /\ drain.on /\ releasing = <<>> /\ o # Nil
    /\ next' = [next EXCEPT ![o] = Nil] /\ releasing' = <<o>>
    /\ drain' = [drain EXCEPT !.cur = next[o]]
    /\ due' = [due EXCEPT ![Top][o] = @ - 1]
    /\ UNCHANGED <<retain, own, elements, cap, entries, pools, storing>>

DrainEnd ==
  /\ drain.on /\ releasing = <<>> /\ drain.cur = Nil
  /\ pools' = IF drain.pop THEN Front(pools) ELSE [pools EXCEPT ![Top] = Nil]
  /\ due' = IF drain.pop THEN Front(due) ELSE due
  /\ drain' = NoDrain
  /\ UNCHANGED <<retain, next, own, elements, cap, entries, releasing, storing>>

-----------------------------------------------------------------------------

(* A collection takes neither itself nor one that holds it.                *)
Accepts(c, o) == o # c /\ c \notin Inside(o)

Grown(n) == IF n < 2 THEN n + 1 ELSE n + (n \div 2)

InsertedAt(s, i, o) == SubSeq(s, 1, i - 1) \o <<o>> \o SubSeq(s, i, Len(s))

(* append: and insert:atIndex:                                             *)
Insert(x, o, i) ==
  /\ Idle /\ Len(elements[x]) < MaxLength /\ retain[o] < MaxRetain
  /\ i \in 1 .. Len(elements[x]) + 1
  /\ {x, o} \subseteq Named /\ Accepts(x, o)
  /\ cap' = [cap EXCEPT ![x] = IF Len(elements[x]) >= @ THEN Grown(@) ELSE @]
  /\ elements' = [elements EXCEPT ![x] = InsertedAt(@, i, o)]
  /\ retain' = [retain EXCEPT ![o] = @ + 1]
  /\ UNCHANGED <<next, own, entries, pools, due, releasing, storing, drain>>

(* removeObjectAtIndex:                                                    *)
RemoveElement(x, i) ==
  /\ Idle /\ i \in DOMAIN elements[x] /\ x \in Named
  /\ releasing' = <<elements[x][i]>>
  /\ elements' = [elements EXCEPT ![x] = RemoveAt(@, i)]
  /\ UNCHANGED <<retain, next, own, cap, entries, pools, due, storing, drain>>

(* indexForObject: and remove: - the first object that is equal.           *)
IndexFor(x, o) == CHOOSE i \in DOMAIN elements[x] :
                    elements[x][i] = o /\ \A j \in 1 .. i - 1 : elements[x][j] # o

RemoveEqual(x, o) == o \in ToSet(elements[x]) /\ RemoveElement(x, IndexFor(x, o))

(* removeAllObjects of an array or a map.                                  *)
RemoveAll(c) ==
  /\ Idle /\ c \in Arrays \cup Maps /\ c \in Named
  /\ releasing' = Contents(c)
  /\ elements' = [x \in Arrays |-> IF x = c THEN <<>> ELSE elements[x]]
  /\ entries' = [m \in Maps |-> IF m = c THEN NoValues ELSE entries[m]]
  /\ UNCHANGED <<retain, next, own, cap, pools, due, storing, drain>>

(* setObject:forKey: with a new key.                                       *)
SetNew(m, k, o) ==
  /\ Idle /\ entries[m][k] = Nil /\ retain[o] < MaxRetain
  /\ {m, o} \subseteq Named /\ Accepts(m, o)
  /\ retain' = [retain EXCEPT ![o] = @ + 1]
  /\ entries' = [entries EXCEPT ![m][k] = o]
  /\ UNCHANGED <<next, own, elements, cap, pools, due, releasing, storing, drain>>

(* With a key that has another value: the old value is released before the *)
(* new one is retained, so the program must hold the new one by itself.    *)
SetOther(m, k, o) ==
  /\ Idle /\ entries[m][k] \notin {Nil, o} /\ o \in Roots /\ m \in Named
  /\ Accepts(m, o)
  /\ releasing' = <<entries[m][k]>>
  /\ storing' = [map |-> m, key |-> k, value |-> o]
  /\ UNCHANGED <<retain, next, own, elements, cap, entries, pools, due, drain>>

Store ==
  /\ storing # NoStore /\ releasing = <<>>
  /\ retain' = [retain EXCEPT ![storing.value] = @ + 1]
  /\ entries' = [entries EXCEPT ![storing.map][storing.key] = storing.value]
  /\ storing' = NoStore
  /\ UNCHANGED <<next, own, elements, cap, pools, due, releasing, drain>>

(* removeObjectForKey:                                                     *)
RemoveKey(m, k) ==
  /\ Idle /\ entries[m][k] # Nil /\ m \in Named
  /\ releasing' = <<entries[m][k]>>
  /\ entries' = [entries EXCEPT ![m][k] = Nil]
  /\ UNCHANGED <<retain, next, own, elements, cap, pools, due, storing, drain>>

-----------------------------------------------------------------------------
(* A new collection with what it holds, in the pool or the program's own.  *)
Given(o, pooled) ==
  IF pooled
  THEN /\ Top > 0
       /\ next' = [next EXCEPT ![o] = pools[Top]] /\ pools' = [pools EXCEPT ![Top] = o]
       /\ due' = [due EXCEPT ![Top][o] = 1] /\ UNCHANGED own
  ELSE own' = [own EXCEPT ![o] = 1] /\ next' = [next EXCEPT ![o] = Nil] /\ UNCHANGED <<pools, due>>

RetainedBy(new, list) == [o \in Objs |-> IF o = new THEN 1 ELSE retain[o] + Times(list, o)]

(* arrayWithObjects: and initWithObjects:                                  *)
ArrayWith(x, list, pooled) ==
  /\ Idle /\ retain[x] = 0 /\ \A o \in Objs : RetainedBy(x, list)[o] <= MaxRetain
  /\ ToSet(list) \subseteq Named
  /\ retain' = RetainedBy(x, list)
  /\ elements' = [elements EXCEPT ![x] = list] /\ cap' = [cap EXCEPT ![x] = Len(list)]
  /\ Given(x, pooled)
  /\ UNCHANGED <<entries, releasing, storing, drain>>

(* allObjects: an array of the values of a map.                            *)
AllObjects(m, x) == m \in Named /\ ArrayWith(x, Contents(m), TRUE)

(* mapWithObjects:forKeys: - of two values for one key the last stays; a   *)
(* key that is not a string ends it, and the map and all it holds go.      *)
MapWith(m, pairs, refused) ==
  LET last(k) == LET at == {i \in DOMAIN pairs : pairs[i][2] = k} IN
                   IF at = {} THEN Nil ELSE pairs[Max(at)][1]
      values == [k \in Keys |-> last(k)]
      list == LET ks == SetToSeq({k \in Keys : values[k] # Nil}) IN
                [i \in DOMAIN ks |-> values[ks[i]]]
  IN /\ Idle /\ retain[m] = 0 /\ \A i \in DOMAIN pairs : pairs[i][1] \in Named
     /\ \A o \in Objs : RetainedBy(m, list)[o] <= MaxRetain
     /\ retain' = RetainedBy(m, list)
     /\ entries' = [entries EXCEPT ![m] = values]
     /\ IF refused THEN releasing' = <<m>> /\ UNCHANGED <<own, next, pools, due>>
        ELSE Given(m, TRUE) /\ UNCHANGED releasing
     /\ UNCHANGED <<elements, cap, storing, drain>>

SomeObjects == UNION {[1 .. n -> Objs] : n \in 0 .. MaxLength}
SomePairs == UNION {[1 .. n -> Objs \X Keys] : n \in 1 .. 2}

ObjectsStep ==
  \/ \E o \in Objs : Alloc(o) \/ Retain(o) \/ Release(o) \/ Autorelease(o) \/ RemoveAll(o)
  \/ ReleaseStep \/ PoolInit \/ DrainNext \/ DrainEnd \/ Store
  \/ \E pop \in BOOLEAN : DrainStart(pop)
  \/ \E x \in Arrays, o \in Objs, i \in 1 .. MaxLength : Insert(x, o, i)
  \/ \E x \in Arrays, i \in 1 .. MaxLength : RemoveElement(x, i)
  \/ \E m \in Maps, k \in Keys, o \in Objs : SetNew(m, k, o) \/ SetOther(m, k, o)
  \/ \E m \in Maps, k \in Keys : RemoveKey(m, k)
  \/ \E x \in Arrays, o \in Objs : RemoveEqual(x, o)
  \/ \E m \in Maps, x \in Arrays : AllObjects(m, x)
  \/ \E x \in Arrays, list \in SomeObjects, pooled \in BOOLEAN : ArrayWith(x, list, pooled)
  \/ \E m \in Maps, pairs \in SomePairs, refused \in BOOLEAN : MapWith(m, pairs, refused)

ObjectsSpec == ObjectsInit /\ [][ObjectsStep]_objVars

-----------------------------------------------------------------------------
(* The sum of a function's values, as the size of a set.                   *)
Total(f) == Cardinality(UNION {{e} \X (1 .. f[e]) : e \in DOMAIN f})

HeldBy(m, k) == IF storing.map = m /\ storing.key = k THEN Nil ELSE entries[m][k]

InPools(o) == Total([p \in DOMAIN due |-> due[p][o]])
InArrays(o) == Total([x \in Arrays |-> Times(elements[x], o)])
InMaps(o) == Total([m \in Maps |-> Cardinality({k \in Keys : HeldBy(m, k) = o})])
References(o) == own[o] + InPools(o) + InArrays(o) + InMaps(o) + Times(releasing, o)

(* In the middle of every call, the retain count of an object is the number*)
(* of references to it: the program's, the pools', the collections', and   *)
(* the releases still to come.                                             *)
CountsMatch == \A o \in Objs : retain[o] = References(o)

(* No call touches an object whose memory was freed.                       *)
NoneFreed ==
  /\ \A i \in DOMAIN releasing : retain[releasing[i]] > 0
  /\ storing # NoStore => retain[storing.value] > 0 /\ retain[storing.map] > 0
  /\ drain.cur # Nil => retain[drain.cur] > 0

(* Between calls, every object that lives can still be reached: nothing    *)
(* leaks, because no collection can come to hold itself.                   *)
NoLeak == Idle => {o \in Objs : retain[o] > 0} \subseteq Named

(* The linked list of a pool gives back what was added to it, an object    *)
(* that is in two pools or twice in one included.                          *)
DrainExact ==
  drain.on =>
    /\ drain.cur # Nil => due[Top][drain.cur] > 0
    /\ drain.cur = Nil => \A o \in Objs : due[Top][o] = 0

(* An array never writes beyond its memory.                                *)
ArrayFits == \A x \in Arrays : Len(elements[x]) <= cap[x]

(* Objects live exactly as long as somebody refers to them, through pools, *)
(* arrays, maps and deallocations that release others.                     *)
RetainsCounted ==
  /\ CountsMatch
  /\ NoneFreed
  /\ NoLeak
  /\ DrainExact
  /\ ArrayFits
=============================================================================
