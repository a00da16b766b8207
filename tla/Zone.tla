--------------------------------- MODULE Zone --------------------------------
(***************************************************************************)
(* A memory zone, Foundation/NXZone.m over NXZone+arena.c: a chain of      *)
(* arenas, of which only the last one allocates.  Each allocation is a     *)
(* header and its payload, linked in a list whose tail the arena keeps.    *)
(* Addresses count from the start of the arena.                            *)
(***************************************************************************)
EXTENDS Integers, Sequences, FiniteSets

CONSTANTS
  Header,      \* the size of an allocation's header
  Align,       \* the alignment of an allocation
  ObjectSize,  \* the size of the zone's own object
  Capacity,    \* the size asked of zoneWithSize:
  Sizes,       \* the sizes asked of allocWithSize:
  MaxArenas    \* malloc fails beyond this (bound)

ASSUME ZoneAssumption ==
  /\ Header \in Nat \ {0} /\ Align \in Nat \ {0} /\ ObjectSize \in Nat
  /\ Capacity \in Nat /\ Capacity >= Header
  /\ Sizes \subseteq Nat \ {0} /\ MaxArenas \in Nat

VARIABLES
  arenas,  \* the arenas from _root to _cur: size, list of allocations, tail
  count,   \* _count
  held,    \* the allocations the program has and did not free
  zone     \* "used", "freed" or "panic"

zoneVars == <<arenas, count, held, zone>>

NoTail == -1
EmptyArena(size) == [size |-> size, chain |-> <<>>, tail |-> NoTail]

(* objc_arena_check_collision: does a block of n bytes at p meet block b?  *)
Meets(p, n, b) == p < b.at + Header + b.size /\ p + n > b.at

(* objc_arena_find_free_space: the places where an allocation fits.        *)
Places(a, size) ==
  {p \in 0 .. a.size - (Header + size) :
     /\ p % Align = 0
     /\ \A k \in DOMAIN a.chain : ~Meets(p, Header + size, a.chain[k])}

Highest(P) == CHOOSE p \in P : \A q \in P : q <= p

Block(p, size) == [at |-> p, size |-> size]

(* objc_arena_alloc_inner: the block joins the list behind the tail; it is *)
(* lost when the tail is not in the list.                                  *)
Place(a, p, size) ==
  [a EXCEPT !.chain = IF a.chain = <<>> \/ a.chain[Len(a.chain)].at = a.tail
                      THEN Append(a.chain, Block(p, size)) ELSE a.chain,
            !.tail = p]

Without(s, k) == [i \in 1 .. Len(s) - 1 |-> IF i < k THEN s[i] ELSE s[i + 1]]

(* Mutation: the tail stays when the last allocation is freed.             *)
UnlinkKeepsTail(a, k) == [a EXCEPT !.chain = Without(a.chain, k)]

(* objc_arena_free_inner: the k-th allocation leaves the list.             *)
Unlink(a, k) ==
  [a EXCEPT !.chain = Without(a.chain, k),
            !.tail = IF a.chain[k].at # a.tail THEN a.tail
                     ELSE IF k > 1 THEN a.chain[k - 1].at ELSE NoTail]

-----------------------------------------------------------------------------
(* zoneWithSize: - the zone's own object is the first block of its arena.  *)
ZoneInit ==
  /\ LET root == EmptyArena(ObjectSize + Capacity) IN
       arenas = <<Place(root, Highest(Places(root, ObjectSize)), ObjectSize)>>
  /\ count = 0 /\ held = {} /\ zone = "used"

Current == Len(arenas)
Pointer(n, p, size) == [arena |-> n, at |-> p, size |-> size]

AllocHere(size) ==
  LET free == Places(arenas[Current], size) IN
    /\ zone = "used" /\ free # {}
    /\ arenas' = [arenas EXCEPT ![Current] = Place(@, Highest(free), size)]
    /\ held' = held \cup {Pointer(Current, Highest(free), size)}
    /\ count' = count + 1
    /\ UNCHANGED zone

(* The last arena is full: a new one of the zone's size, or of the size    *)
(* asked for if that is more.                                              *)
NewArena(size) ==
  EmptyArena(IF size > ObjectSize + Capacity THEN size ELSE ObjectSize + Capacity)

(* The new arena has no room for the header of an allocation as large as   *)
(* itself: the call fails and the arena stays.                             *)
AllocGrow(size) ==
  LET new == NewArena(size)  free == Places(new, size) IN
    /\ zone = "used" /\ Places(arenas[Current], size) = {} /\ Current < MaxArenas
    /\ UNCHANGED zone
    /\ \/ /\ free # {}
          /\ arenas' = Append(arenas, Place(new, Highest(free), size))
          /\ held' = held \cup {Pointer(Current + 1, Highest(free), size)}
          /\ count' = count + 1
       \/ /\ free = {}
          /\ arenas' = Append(arenas, new) /\ UNCHANGED <<held, count>>

(* free: - the arenas are searched from the root, and a block that is not  *)
(* found is a panic.                                                       *)
Free(b) ==
  LET chain == arenas[b.arena].chain
      found == {k \in DOMAIN chain : chain[k].at = b.at}
  IN /\ zone = "used" /\ b \in held
     /\ IF found = {}
        THEN zone' = "panic" /\ UNCHANGED <<arenas, count, held>>
        ELSE /\ \E k \in found :
                  /\ \A j \in found : k <= j
                  /\ arenas' = [arenas EXCEPT ![b.arena] = Unlink(@, k)]
             /\ held' = held \ {b} /\ count' = count - 1
             /\ UNCHANGED zone

(* dealloc panics while allocations are counted.  The program frees all it *)
(* holds first.                                                            *)
ZoneDealloc ==
  /\ zone = "used" /\ held = {}
  /\ zone' = IF count = 0 THEN "freed" ELSE "panic"
  /\ arenas' = IF count = 0 THEN <<>> ELSE arenas
  /\ UNCHANGED <<held, count>>

ZoneStep ==
  \/ \E size \in Sizes : AllocHere(size) \/ AllocGrow(size)
  \/ \E b \in held : Free(b)
  \/ ZoneDealloc

ZoneSpec == ZoneInit /\ [][ZoneStep]_zoneVars

-----------------------------------------------------------------------------
(* What the program holds never shares a byte, and lies in its arena: no   *)
(* sequence of frees lets an allocation take a place that is in use.       *)
HeldApart ==
  \A b \in held :
    /\ b.at >= 0 /\ b.at + Header + b.size <= arenas[b.arena].size
    /\ \A c \in held \ {b} :
         c.arena = b.arena => ~Meets(c.at, Header + c.size, b)

(* The list and the count know what the program holds: a free finds its    *)
(* block, and the dealloc of a zone whose blocks were freed is no panic.   *)
NoZonePanic == zone # "panic"

(* The zone's object and every block of the program are linked, which the  *)
(* search for free space relies on.                                        *)
AllLinked ==
  /\ \A b \in held : \E k \in DOMAIN arenas[b.arena].chain :
       arenas[b.arena].chain[k] = Block(b.at, b.size)
  /\ zone = "used" => \E k \in DOMAIN arenas[1].chain : arenas[1].chain[k].size = ObjectSize

(* The memory of an arena zone: blocks in use are disjoint and known to    *)
(* the zone, whatever was freed before, and giving them back never panics. *)
ZoneSafe ==
  /\ HeldApart
  /\ NoZonePanic
  /\ AllLinked
=============================================================================
