------------------------------- MODULE Chain --------------------------------
(***************************************************************************)
(* NXMap+hash.c: a hash table of text keys as a chain of tables of one     *)
(* size, probed linearly, each made when the ones before it are full. Keys *)
(* are their hashes, as the code compares nothing else.                    *)
(***************************************************************************)
EXTENDS Integers, Sequences

CONSTANTS
  Hashes,     \* the hashes of keys, numbers above 0
  Pointers,   \* values, not NULL
  Null,       \* NULL
  Slots,      \* the size of a table
  MaxTables   \* tables in a chain (bound)

ASSUME ChainAssumption ==
  /\ Hashes \subseteq Nat \ {0} /\ Slots \in Nat \ {0} /\ MaxTables \in Nat
  /\ Null \notin Pointers

VARIABLES
  chain,    \* the tables: entries hash, value and deleted
  holds,    \* history: what was set for each key and not deleted since
  iter,     \* objc_hash_iterator: table (0: not started) and index
  visited,  \* history: the keys an iteration has returned since it started
  twice     \* history: some key has had entries in two tables

chainVars == <<chain, holds, iter, visited, twice>>

Never == [hash |-> 0, value |-> Null, deleted |-> FALSE]
NewTable == [i \in 0 .. Slots - 1 |-> Never]

ChainInit ==
  /\ chain = <<NewTable>> /\ holds = [k \in Hashes |-> Null]
  /\ iter = [table |-> 0, index |-> 0] /\ visited = <<>> /\ twice = FALSE

-----------------------------------------------------------------------------
Least(S) == CHOOSE n \in S : \A m \in S : n <= m
At(key, probe) == (key + probe) % Slots
Probes == 0 .. Slots - 1
Exact(t, key, i) == t[At(key, i)].hash = key /\ ~t[At(key, i)].deleted
Vacancy(t, key, i) == t[At(key, i)].value = Null /\ ~t[At(key, i)].deleted

(* objc_hash_table_get_entry_inner: the probe that ends with the key.      *)
FoundIn(t, key) ==
  LET ends == {i \in Probes : Exact(t, key, i) \/ Vacancy(t, key, i)}
  IN ends # {} /\ Exact(t, key, Least(ends))

(* objc_hash_table_get_entry, in the first table that has the key.         *)
Entry(key) ==
  LET in == {n \in DOMAIN chain : FoundIn(chain[n], key)} IN
    IF in = {} THEN <<>>
    ELSE LET t == chain[Least(in)] IN
      <<Least(in), At(key, Least({i \in Probes : Exact(t, key, i)}))>>

Lookup(key) ==
  LET e == Entry(key) IN IF e = <<>> THEN Null ELSE chain[e[1]][e[2]].value

(* The first slot that could do.                                          *)
FirstFree(t, key) ==
  LET ends == {i \in Probes : t[At(key, i)].deleted \/ Exact(t, key, i) \/ Vacancy(t, key, i)}
  IN IF ends = {} THEN -1 ELSE At(key, Least(ends))

(* objc_hash_table_find_slot: the key's entry, or else the first tombstone *)
(* before an unused slot, or else that slot.                               *)
FindSlot(t, key) ==
  LET ends == {i \in Probes : Exact(t, key, i) \/ Vacancy(t, key, i)}
      last == IF ends = {} THEN Slots ELSE Least(ends)
      tombs == {i \in Probes : t[At(key, i)].deleted /\ i < last}
  IN IF last < Slots /\ Exact(t, key, last) THEN At(key, last)
     ELSE IF tombs # {} THEN At(key, Least(tombs))
     ELSE IF last < Slots THEN At(key, last) ELSE -1

(* objc_hash_table_put_entry: in the first table with a slot, or a new one*)
PutEntry(key, v) ==
  LET fit == {n \in DOMAIN chain : FindSlot(chain[n], key) # -1}
      new == [hash |-> key, value |-> v, deleted |-> FALSE]
  IN IF fit # {}
     THEN [chain EXCEPT ![Least(fit)][FindSlot(chain[Least(fit)], key)] = new]
     ELSE Append(chain, [NewTable EXCEPT ![At(key, 0)] = new])

Live(n, i) == chain[n][i].value # Null /\ ~chain[n][i].deleted
Doubled == \E d, e \in (DOMAIN chain) \X Probes :
             /\ d[1] # e[1] /\ Live(d[1], d[2]) /\ Live(e[1], e[2])
             /\ chain[d[1]][d[2]].hash = chain[e[1]][e[2]].hash

(* What follows a second entry for a key is left out.                      *)
HashSet(key, v) ==
  /\ ~twice /\ Len(PutEntry(key, v)) <= MaxTables
  /\ chain' = PutEntry(key, v)
  /\ holds' = [holds EXCEPT ![key] = v]
  /\ iter' = [table |-> 0, index |-> 0] /\ visited' = <<>>
  /\ twice' = (twice \/ Doubled')

HashDelete(key) ==
  /\ ~twice
  /\ chain' = (LET e == Entry(key) IN
                 IF e = <<>> THEN chain
                 ELSE [chain EXCEPT ![e[1]][e[2]].deleted = TRUE, ![e[1]][e[2]].value = Null])
  /\ holds' = [holds EXCEPT ![key] = Null]
  /\ iter' = [table |-> 0, index |-> 0] /\ visited' = <<>>
  /\ UNCHANGED twice

(* objc_hash_iterator_next: the next live entry, in this table or a later  *)
(* one; at the end it is as it was before it started.                      *)
From == [table |-> IF iter.table = 0 THEN 1 ELSE iter.table, index |-> iter.index]

LaterEntries ==
  {e \in (DOMAIN chain) \X Probes :
     Live(e[1], e[2]) /\ (e[1] > From.table \/ (e[1] = From.table /\ e[2] >= From.index))}

IterateNext ==
  /\ IF LaterEntries = {}
     THEN iter' = [table |-> 0, index |-> 0] /\ visited' = <<>>
     ELSE LET first == Least({e[1] * Slots + e[2] : e \in LaterEntries})
          IN /\ iter' = [table |-> first \div Slots, index |-> (first % Slots) + 1]
             /\ visited' = Append(visited, chain[first \div Slots][first % Slots].hash)
  /\ UNCHANGED <<chain, holds, twice>>

ChainStep ==
  \/ \E k \in Hashes : HashDelete(k) \/ \E v \in Pointers : HashSet(k, v)
  \/ IterateNext

ChainSpec == ChainInit /\ [][ChainStep]_chainVars

-----------------------------------------------------------------------------
(* Every key has the value that was set for it last, through collisions,   *)
(* tombstones that are used again and tables that fill up, as long as no   *)
(* key got an entry in two: a tombstone in an early table takes the key of  *)
(* an entry in a later one, which is found again once the first is deleted.*)
ChainHolds == ~twice => \A k \in Hashes : Lookup(k) = holds[k]

(* An iteration of a chain that does not change returns every key once, and*)
(* ends when it has returned them all (again unless a key has two entries).*)
IteratesOnce ==
  ~twice =>
  /\ \A i, j \in DOMAIN visited : i # j => visited[i] # visited[j]
  /\ LaterEntries = {} =>
       {visited[i] : i \in DOMAIN visited} = {k \in Hashes : holds[k] # Null}

(* A map grown over several tables holds what was stored and iterates over *)
(* it once.                                                                *)
MapHolds ==
  /\ ChainHolds
  /\ IteratesOnce
=============================================================================
