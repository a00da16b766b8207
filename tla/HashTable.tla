----------------------------- MODULE HashTable -----------------------------
(***************************************************************************)
(* The chained open-addressing hash table of runtime-sys/all/hashtable.c   *)
(* as operators on a chain: a sequence of tables, each a function from its *)
(* slots to entries.  An entry is addressed by its table and its slot.     *)
(***************************************************************************)
EXTENDS Naturals, Sequences, FiniteSets, FiniteSetsExt

CONSTANTS
  Keys,          (* key pointers                                            *)
  Strings,       (* what they point to                                      *)
  Str,           (* the string of each key pointer                          *)
  Hash,          (* the hash of each string                                 *)
  UsesKeyEquals, (* whether the table was given a keyequals function        *)
  Values,        (* values: non-zero words                                  *)
  Size,          (* the size of the first table                             *)
  NULL

ASSUME SizeAssumption == Size \in Nat \ {0}
ASSUME KeysAssumption == Str \in [Keys -> Strings] /\ Hash \in [Strings -> Nat]
ASSUME NullAssumption == NULL \notin Values \cup Keys \cup Nat /\ NULL \notin Nat \X Nat
ASSUME EqualsAssumption == UsesKeyEquals \in BOOLEAN

KeyHash(k) == Hash[Str[k]]

(* sys_memset zeroes the entries of a new table.                           *)
Unused == [hash |-> 0, key |-> NULL, value |-> NULL, deleted |-> FALSE]

NewTable(n) == [s \in 0 .. n - 1 |-> Unused]

NewChain == <<NewTable(Size)>>

Length(table) == Cardinality(DOMAIN table)

(* A key function that follows the pointers; without one, hashes decide.   *)
KeyEquals(k, other) == ~UsesKeyEquals \/ (other # NULL /\ Str[k] = Str[other])

Matches(e, k) == e.hash = KeyHash(k) /\ ~e.deleted /\ KeyEquals(k, e.key)

IsEmpty(e) == e.value = NULL /\ ~e.deleted

(* The i-th slot the linear probe of a key looks at.                       *)
Probe(table, k, i) == (KeyHash(k) + i) % Length(table)

(* Where the probe of a key may stop: at a match or at an empty slot.      *)
Stops(table, k) ==
  {i \in DOMAIN table : LET e == table[Probe(table, k, i)] IN Matches(e, k) \/ IsEmpty(e)}

(* _sys_hashtable_get_bykey_inner: the first match before an empty slot.   *)
GetInner(table, k) ==
  LET stops == Stops(table, k)
      slot  == Probe(table, k, Min(stops))
  IN  IF stops # {} /\ Matches(table[slot], k) THEN slot ELSE NULL

(* Mutation: a full table gives up the slot where the probe began.         *)
FindSlotWhenFull(table, k) ==
  LET stops == Stops(table, k)
  IN  IF stops = {} THEN Probe(table, k, 0) ELSE Probe(table, k, Min(stops))

(* _sys_hashtable_find_slot: the match, or else the first deleted slot on  *)
(* the way, or else the empty slot where the probe stopped.                *)
FindSlot(table, k) ==
  LET stops == Stops(table, k)
      last  == IF stops = {} THEN Length(table) ELSE Min(stops)
      tombs == {i \in DOMAIN table : i < last /\ table[Probe(table, k, i)].deleted}
  IN  IF stops # {} /\ Matches(table[Probe(table, k, last)], k) THEN Probe(table, k, last)
      ELSE IF tombs # {} THEN Probe(table, k, Min(tombs))
      ELSE IF stops # {} THEN Probe(table, k, last)
      ELSE NULL

-----------------------------------------------------------------------------
Addresses(chain) == UNION {{i} \X DOMAIN chain[i] : i \in DOMAIN chain}

EntryAt(chain, a) == chain[a[1]][a[2]]

(* sys_hashtable_get_key: the match in the first table that has one.       *)
GetKey(chain, k) ==
  LET hits == {i \in DOMAIN chain : GetInner(chain[i], k) # NULL}
  IN  IF hits = {} THEN NULL ELSE <<Min(hits), GetInner(chain[Min(hits)], k)>>

(* sys_hashtable_get_value: the first entry with the value.                *)
GetValue(chain, v) ==
  LET hits == {a \in Addresses(chain) : EntryAt(chain, a).value = v /\ ~EntryAt(chain, a).deleted}
  IN  IF hits = {} THEN NULL
      ELSE CHOOSE a \in hits :
             \A b \in hits : a[1] < b[1] \/ (a[1] = b[1] /\ a[2] <= b[2])

(* The table that follows when all are full has 1.5 times the first's size.*)
NextSize(chain) == Length(chain[1]) + Length(chain[1]) \div 2

(* sys_hashtable_put: the first table with a slot for the key, or else a   *)
(* new table, gets the key unless it has it.  The caller writes the value. *)
Put(chain, k) ==
  LET open  == {i \in DOMAIN chain : FindSlot(chain[i], k) # NULL}
      grown == IF open = {} THEN Append(chain, NewTable(NextSize(chain))) ELSE chain
      i     == IF open = {} THEN Len(grown) ELSE Min(open)
      s     == FindSlot(grown[i], k)
      same  == open # {} /\ Matches(grown[i][s], k)
  IN  [chain   |-> IF same THEN grown
                   ELSE [grown EXCEPT ![i][s] =
                          [@ EXCEPT !.key = k, !.hash = KeyHash(k), !.deleted = FALSE]],
       at      |-> <<i, s>>,
       samekey |-> same]

SetDeleted(chain, a) == [chain EXCEPT ![a[1]][a[2]].deleted = TRUE]

SetValue(chain, a, v) == [chain EXCEPT ![a[1]][a[2]].value = v]

(* The entries that sys_hashtable_iterator_next returns and that           *)
(* sys_hashtable_count counts.                                             *)
InUse(chain) == {a \in Addresses(chain) : ~EntryAt(chain, a).deleted /\ EntryAt(chain, a).value # NULL}

Count(chain) == Cardinality(InUse(chain))

(* The values that entries in use hold for a string.                       *)
Held(chain, str) == {EntryAt(chain, a).value : a \in {b \in InUse(chain) : Str[EntryAt(chain, b).key] = str}}

-----------------------------------------------------------------------------
(***************************************************************************)
(* A client of the hash table of runtime-sys/all/hashtable.c that puts     *)
(* values, deletes by key and by value, and walks the table with an        *)
(* iterator while it does so.                                              *)
(***************************************************************************)

CONSTANTS
  Deletes,    (* whether it deletes when the chain has more than one table  *)
  MaxTables   (* bound: the length of the chain                             *)

ASSUME ClientAssumption == Deletes \in BOOLEAN /\ MaxTables \in Nat \ {0}

VARIABLES
  chain,   (* the chain of tables                                           *)
  iter,    (* the position of the iterator: the table, 0 for none, and slot *)
  steady,  (* the entries in use ever since the iteration started           *)
  seen     (* the entries the iteration has returned, in order              *)

tableVars == <<chain, iter, steady, seen>>
walk == <<iter, seen>>

Reset == <<0, 0>>

TableInit ==
  /\ chain = NewChain
  /\ iter = Reset
  /\ steady = {}
  /\ seen = <<>>

(* An entry stays in use for the iteration as long as its key stays.       *)
Keep(c) == steady' = {a \in steady : a \in InUse(c) /\ EntryAt(c, a).key = EntryAt(chain, a).key}

PutKey(k, v) ==
  LET put == Put(chain, k) IN
  /\ Len(put.chain) <= MaxTables
  /\ chain' = SetValue(put.chain, put.at, v)
  /\ Keep(chain')
  /\ UNCHANGED walk

(* Deleting before the table grows is always safe.                         *)
MayDelete == Deletes \/ Len(chain) = 1

DeleteKey(k) ==
  LET a == GetKey(chain, k) IN
  /\ MayDelete
  /\ chain' = IF a = NULL THEN chain ELSE SetDeleted(chain, a)
  /\ Keep(chain')
  /\ UNCHANGED walk

DeleteValue(v) ==
  LET a == GetValue(chain, v) IN
  /\ MayDelete
  /\ chain' = IF a = NULL THEN chain ELSE SetDeleted(chain, a)
  /\ Keep(chain')
  /\ UNCHANGED walk

(* Mutation: the index is kept when the iterator moves to the next table.  *)
AheadKeepsIndex(pos) == {a \in InUse(chain) : a[1] >= pos[1] /\ a[2] >= pos[2]}

(* The entries an iterator at a position has still to return.              *)
Ahead(pos) == {a \in InUse(chain) : a[1] > pos[1] \/ (a[1] = pos[1] /\ a[2] >= pos[2])}

(* sys_hashtable_iterator_next returns the first entry in use from the     *)
(* iterator's position on and moves past it, or else resets the iterator.  *)
IteratorNext ==
  LET pos   == IF iter[1] = 0 THEN <<1, 0>> ELSE iter
      ahead == Ahead(pos)
      a     == CHOOSE x \in ahead :
                 \A y \in ahead : x[1] < y[1] \/ (x[1] = y[1] /\ x[2] <= y[2])
      begun == IF iter[1] = 0 THEN InUse(chain) ELSE steady
      past  == IF iter[1] = 0 THEN <<>> ELSE seen
  IN  /\ \/ ahead # {} /\ iter' = <<a[1], a[2] + 1>> /\ seen' = Append(past, a)
         \/ ahead = {} /\ iter' = Reset /\ seen' = past
      /\ steady' = begun
      /\ UNCHANGED chain

TableNext ==
  \/ \E k \in Keys, v \in Values : PutKey(k, v)
  \/ \E k \in Keys : DeleteKey(k)
  \/ \E v \in Values : DeleteValue(v)
  \/ IteratorNext

TableSpec == TableInit /\ [][TableNext]_tableVars

-----------------------------------------------------------------------------
(* Properties.                                                             *)

Entry == [hash : Nat, key : Keys \cup {NULL}, value : Values \cup {NULL}, deleted : BOOLEAN]

EntriesTyped ==
  /\ Len(chain) \in 1 .. MaxTables
  /\ \A a \in Addresses(chain) : EntryAt(chain, a) \in Entry
  /\ \A i \in DOMAIN chain : Length(chain[i]) = IF i = 1 THEN Size ELSE Size + Size \div 2
  /\ iter \in (0 .. MaxTables) \X Nat

(* No string has two entries in use, wherever tombstones were reused.      *)
OneEntryPerKey ==
  \A a, b \in InUse(chain) : Str[EntryAt(chain, a).key] = Str[EntryAt(chain, b).key] => a = b

(* A look-up finds a key's entry in use, and finds nothing when there is   *)
(* none: no deletion and no reuse of a slot cuts a probe short of an entry *)
(* beyond it or brings a deleted entry back.                               *)
Reachable ==
  \A k \in Keys :
    LET mine == {a \in InUse(chain) : Str[EntryAt(chain, a).key] = Str[k]}
    IN  IF mine = {} THEN GetKey(chain, k) = NULL ELSE GetKey(chain, k) \in mine

(* An iteration returns every entry that stays in the table while it lasts *)
(* and none twice, whatever is put and deleted meanwhile.                  *)
IterationComplete ==
  [][ iter[1] # 0 /\ iter'[1] = 0 =>
        /\ \A a \in steady : \E i \in DOMAIN seen : seen[i] = a
        /\ \A i, j \in DOMAIN seen : seen[i] = seen[j] => i = j ]_tableVars

(* The table implements a map from strings to values: a put sets one key,  *)
(* a deletion removes one key, no other key changes and the count agrees.  *)
Map == INSTANCE KeyedStore WITH
  store <- [s \in Strings |-> IF Held(chain, s) = {} THEN NULL
                              ELSE CHOOSE v \in Held(chain, s) : TRUE],
  size <- Count(chain)

ImplementsStore == Map!Spec

(* Probing, deletion and growth agree on where an entry is: one for each   *)
(* key, and found.                                                         *)
TableHolds == [](EntriesTyped /\ OneEntryPerKey /\ Reachable) /\ IterationComplete
=============================================================================
