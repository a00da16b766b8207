------------------------------- MODULE Messages ------------------------------
(***************************************************************************)
(* Message dispatch of the Objective-C runtime, runtime-gcc: modules       *)
(* register classes and categories, a class is resolved when it is looked  *)
(* up, the first message loads static instances and categories, and a      *)
(* class gets +initialize before its first message. Selectors of one name  *)
(* have one type, but for +initialize, which the runtime looks up with the *)
(* encoding of 64-bit targets whatever the target is. The table of methods *)
(* is a map in the first part, since nothing is ever removed from it; the  *)
(* second part has that table and the one of protocols, with their         *)
(* collisions.                                                             *)
(***************************************************************************)
EXTENDS Integers, Sequences, FiniteSets, SequencesExt

CONSTANTS
  Classes,
  Super,       \* the superclass of each class, NoClass for the root
  NoClass,
  Statics,        \* the classes that have static instances
  CategoryLists,  \* categories in the order their modules register them
  MaxNesting   \* sends inside +initialize (bound)

Methods == {"work", "initialize"}

ASSUME MessagesAssumption ==
  /\ IsFiniteSet(Classes) /\ NoClass \notin Classes /\ Statics \subseteq Classes
  /\ Super \in [Classes -> Classes \cup {NoClass}]
  /\ \A list \in CategoryLists : /\ Len(list) \in Nat /\ DOMAIN list = 1 .. Len(list)
                                /\ \A i \in DOMAIN list : list[i].has \in Methods

VARIABLES
  wide,               \* the target has pointers of 8 bytes
  implements,         \* the classes that implement each method themselves
  categories,  \* category_table: the class each is on and the method it has
  resolved,    \* the classes whose methods are in the hash table
  imps,        \* hash_table: class and method to implementation
  loaded,      \* the first message was sent
  flagged,     \* the classes with objc_class_flag_initialized
  stack,       \* sends and +initialize that run, the innermost last
  calls,       \* history: the calls of +initialize
  done         \* history: the classes whose +initialize returned

msgVars == <<wide, implements, categories, resolved, imps, loaded, flagged, stack, calls, done>>

NoImp == <<"none", NoClass>>
Root == CHOOSE c \in Classes : Super[c] = NoClass

MessagesInit ==
  /\ wide \in BOOLEAN
  /\ implements \in [Methods -> {S \in SUBSET Classes : Root \in S}]
  /\ categories \in CategoryLists
  /\ resolved = {} /\ imps = [e \in Classes \X Methods |-> NoImp]
  /\ loaded = FALSE /\ flagged = {} /\ stack = <<>> /\ calls = <<>> /\ done = {}

-----------------------------------------------------------------------------
(* The class and its superclasses, nearest first.                          *)
ChainOf(c) ==
  LET Up[n \in 0 .. Cardinality(Classes)] ==
        IF n = 0 THEN <<c>>
        ELSE LET s == Super[Last(Up[n - 1])] IN
               IF s = NoClass THEN Up[n - 1] ELSE Append(Up[n - 1], s)
  IN Up[Cardinality(Classes)]

(* Every class descends from the root.                                     *)
ASSUME HierarchyAssumption == Super[Root] = NoClass /\ \A c \in Classes : Root \in ToSet(ChainOf(c))

(* objc_lookup_class resolves the class and its superclasses: their own    *)
(* methods go to the hash table, once.                                     *)
Unresolved(c) == ToSet(ChainOf(c)) \ resolved

WithOwn(table, new) ==
  [e \in Classes \X Methods |->
     IF e[1] \in new /\ e[1] \in implements[e[2]] THEN <<"own", e[1]>> ELSE table[e]]

(* __objc_statics_load resolves the classes of the static instances.       *)
LoadStatics(from) ==
  LET new == (UNION {ToSet(ChainOf(c)) : c \in Statics}) \ from.resolved IN
    [resolved |-> from.resolved \cup new, imps |-> WithOwn(from.imps, new)]

(* __objc_category_load: category by category, the class resolved first;   *)
(* the methods replace what is there.                                      *)
LoadCategories(from) ==
  LET after[n \in 0 .. Len(categories)] ==
        IF n = 0 THEN from
        ELSE IF categories[n].on \notin Classes THEN after[n - 1]
        ELSE LET cat == categories[n]
                 r == after[n - 1]
                 new == ToSet(ChainOf(cat.on)) \ r.resolved
             IN [resolved |-> r.resolved \cup new,
                 imps |-> [WithOwn(r.imps, new) EXCEPT ![<<cat.on, cat.has>>] = <<cat.name, cat.on>>]]
  IN after[Len(categories)]

Nearest(S) == CHOOSE n \in S : \A m \in S : n <= m
Latest(S) == CHOOSE n \in S : \A m \in S : m <= n

(* __objc_msg_lookup: the first implementation up the superclasses.        *)
Find(table, c, m) ==
  LET line == ChainOf(c)
      has == {i \in DOMAIN line : table[<<line[i], m>>] # NoImp}
  IN IF has = {} THEN NoImp ELSE table[<<line[Nearest(has)], m>>]

(* +initialize is looked up as "v16@0:8". That is how the compiler encodes *)
(* it where a pointer has 8 bytes; where it has 4, as on the Pico, the     *)
(* methods are registered as "v8@0:4" and none matches.                    *)
InitializeOf(c) == IF wide THEN Find(imps, c, "initialize") ELSE NoImp

InitFrames(c) == <<[what |-> "initialize", class |-> c, at |-> "super"]>>

-----------------------------------------------------------------------------
(* The program and a running +initialize send messages.                    *)
Frame == Last(stack)
Turn(at) == stack # <<>> /\ Frame.what = "initialize" /\ Frame.at = at
Sends == {i \in DOMAIN stack : stack[i].what = "send"}
MaySend == stack = <<>> \/ (Turn("body") /\ Cardinality(Sends) < MaxNesting)

(* objc_msg_lookup.  The receiver is a class, which objc_get_class looked  *)
(* up; an instance of a class that had a message; or a static instance,    *)
(* whose class the load of the first message resolves.                     *)
Send(c, receiver) ==
  LET named == IF receiver = "class" THEN Unresolved(c) ELSE {}
      before == [resolved |-> resolved \cup named, imps |-> WithOwn(imps, named)]
      after == IF loaded THEN before ELSE LoadCategories(LoadStatics(before))
      frame == [what |-> "send", class |-> c, at |-> receiver,
                imp |-> Find(after.imps, c, "work")]
  IN /\ MaySend
     /\ receiver = "instance" => c \in flagged
     /\ receiver = "static" => c \in Statics
     /\ resolved' = after.resolved /\ imps' = after.imps /\ loaded' = TRUE
     /\ stack' = Append(stack, frame) \o (IF c \in flagged THEN <<>> ELSE InitFrames(c))
     /\ flagged' = flagged \cup {c}
     /\ UNCHANGED <<wide, implements, categories, calls, done>>

(* The classes that wait for the +initialize of a superclass.              *)
Waiting == {stack[i].class : i \in {j \in DOMAIN stack : stack[j].at = "super"}}

(* __objc_send_initialize: the class is flagged first, then the superclass *)
(* is initialized, then the method is looked up, and called if it is found.*)
(* Mutation: only a superclass that has the method itself is initialized.   *)
InitializeSuperOwn ==
  LET s == Super[Frame.class] IN
    /\ Turn("super") /\ s # NoClass /\ s \notin flagged
    /\ flagged' = flagged \cup {s}
    /\ stack' = stack \o (IF s \in implements["initialize"] THEN InitFrames(s) ELSE <<>>)
    /\ UNCHANGED <<wide, implements, categories, resolved, imps, loaded, calls, done>>

InitializeSuper ==
  LET s == Super[Frame.class] IN
    /\ Turn("super") /\ s # NoClass /\ s \notin flagged
    /\ flagged' = flagged \cup {s}
    /\ stack' = stack \o InitFrames(s)
    /\ UNCHANGED <<wide, implements, categories, resolved, imps, loaded, calls, done>>

SuperFlagged == Turn("super") /\ Super[Frame.class] \in flagged \cup {NoClass}

InitializeBody ==
  /\ SuperFlagged /\ InitializeOf(Frame.class) # NoImp
  /\ stack' = [stack EXCEPT ![Len(stack)].at = "body"]
  /\ calls' = Append(calls, [class |-> Frame.class, waiting |-> Waiting,
                              imp |-> InitializeOf(Frame.class)])
  /\ UNCHANGED <<wide, implements, categories, resolved, imps, loaded, flagged, done>>

(* Nothing is called, and nothing will be: the class stays flagged.        *)
InitializeMissing ==
  /\ SuperFlagged /\ InitializeOf(Frame.class) = NoImp
  /\ stack' = Front(stack)
  /\ UNCHANGED <<wide, implements, categories, resolved, imps, loaded, flagged, calls, done>>

InitializeReturn ==
  /\ Turn("body")
  /\ stack' = Front(stack) /\ done' = done \cup {Frame.class}
  /\ UNCHANGED <<wide, implements, categories, resolved, imps, loaded, flagged, calls>>

(* The method runs and returns.                                            *)
Run ==
  /\ stack # <<>> /\ Frame.what = "send"
  /\ stack' = Front(stack)
  /\ UNCHANGED <<wide, implements, categories, resolved, imps, loaded, flagged, calls, done>>

MessagesStep ==
  \/ \E c \in Classes, receiver \in {"class", "instance", "static"} : Send(c, receiver)
  \/ InitializeSuper \/ InitializeBody \/ InitializeMissing \/ InitializeReturn \/ Run

MessagesSpec == MessagesInit /\ [][MessagesStep]_msgVars

-----------------------------------------------------------------------------
(* What a message should find: in the nearest class that has the method, in*)
(* a category or by itself, the last category that brings it.              *)
Brings(d, m) == {i \in DOMAIN categories : categories[i].on = d /\ categories[i].has = m}
Expected(c, m) ==
  LET line == ChainOf(c)
      d == line[Nearest({i \in DOMAIN line : line[i] \in implements[m] \/ Brings(line[i], m) # {}})]
  IN IF Brings(d, m) = {} THEN <<"own", d>> ELSE <<categories[Latest(Brings(d, m))].name, d>>

(* Whatever the order in which classes are looked up, resolved and         *)
(* extended, a message finds the most derived implementation.              *)
FindsMostDerived ==
  /\ \A i \in DOMAIN stack :
       stack[i].what = "send" => stack[i].imp = Expected(stack[i].class, "work")
  /\ \A i \in DOMAIN calls : calls[i].imp = Expected(calls[i].class, "initialize")

(* +initialize comes once to a class, after its superclass had it, whatever*)
(* a +initialize sends; only a superclass that itself still waits for the  *)
(* +initialize which sends the message is overtaken.                       *)
SuperFirst ==
  \A i \in DOMAIN calls :
    /\ \A j \in 1 .. i - 1 : calls[j].class # calls[i].class
    /\ LET s == Super[calls[i].class] IN
         s \notin calls[i].waiting \cup {NoClass} => \E j \in 1 .. i - 1 : calls[j].class = s

(* Where pointers have 8 bytes, a method of a class runs when the class    *)
(* and its superclasses were initialized, or inside such a +initialize.    *)
(* Where they have 4, the flag is all a class ever gets: no +initialize is *)
(* called, though api.h:65 says that the flag means it was received.       *)
RunsInitialized ==
  stack # <<>> /\ Frame.what = "send" =>
    \A d \in ToSet(ChainOf(Frame.class)) :
      IF wide THEN d \in done \/ \E i \in DOMAIN stack : stack[i].what = "initialize" /\ stack[i].class = d
      ELSE d \in flagged /\ calls = <<>>

-----------------------------------------------------------------------------
(***************************************************************************)
(* The tables of the Objective-C runtime (runtime-gcc): implementations by *)
(* class, method and types, probed linearly and never deleted; classes and *)
(* protocols by name, in tables of a fixed size that panic when they are   *)
(* full; and the conformance of a class to a protocol, which names decide. *)
(***************************************************************************)

CONSTANTS
  Selectors,          \* methods of classes, each with one type encoding
  Imps,               \* implementations, numbers above 0
  Cells,             \* HASH_TABLE_SIZE
  Untyped,            \* types = NULL
  Kinds, Protocols,   \* the classes and protocol objects of the program
  NameOf,             \* protocols' names: two modules may each have one of a name
  Hierarchies,        \* what may be declared: super, adopts and inherits
  ProtocolTableSize   \* PROTOCOL_TABLE_SIZE

VARIABLES
  dispatch,   \* hash_table: the key and imp of each place
  hashOf,     \* __objc_hash_compute, whatever it is
  installed,  \* history: the implementation registered last for each method
  classes,    \* class_table
  protocols,  \* protocol_table
  declared,   \* the hierarchy that this program has
  stopped     \* a table was full

regVars == <<dispatch, hashOf, installed, classes, protocols, declared, stopped>>

NoKind == "Nil"
IsList(list) == /\ Len(list) \in Nat /\ DOMAIN list = 1 .. Len(list)
                /\ \A i \in DOMAIN list : list[i] \in Protocols

ASSUME RegistryAssumption ==
  /\ Cells \in Nat \ {0} /\ ProtocolTableSize \in Nat /\ Untyped \notin Selectors
  /\ IsFiniteSet(Kinds) /\ IsFiniteSet(Protocols)
  /\ Kinds \cap Protocols = {} /\ NoKind \notin Kinds \cup Protocols
  /\ \A h \in Hierarchies : /\ h.super \in [Kinds -> Kinds \cup {NoKind}]
                            /\ DOMAIN h.adopts = Kinds /\ DOMAIN h.inherits = Protocols
                            /\ \A k \in Kinds : IsList(h.adopts[k])
                            /\ \A p \in Protocols : IsList(h.inherits[p])

MethodKeys == Selectors \X {"typed", Untyped}
Vacant == [key |-> <<Untyped, Untyped>>, imp |-> 0]

RegistryInit ==
  /\ dispatch = [i \in 0 .. Cells - 1 |-> Vacant]
  /\ hashOf \in [MethodKeys -> 0 .. Cells - 1]
  /\ installed = [s \in Selectors |-> 0]
  /\ classes = <<>> /\ protocols = <<>> /\ declared \in Hierarchies /\ stopped = FALSE

-----------------------------------------------------------------------------
Cell(key, probe) == (hashOf[key] + probe) % Cells

(* __objc_hash_match: without types any entry of the method will do.       *)
Match(item, key) == IF key[2] = Untyped THEN item.key[1] = key[1] ELSE item.key = key

(* Where a probe ends: at a match or at a vacant place, if there is one.   *)
Ends(d, key) ==
  {i \in 0 .. Cells - 1 : d[Cell(key, i)] = Vacant \/ Match(d[Cell(key, i)], key)}

HashLookup(d, key) == IF Ends(d, key) = {} THEN 0 ELSE d[Cell(key, Nearest(Ends(d, key)))].imp

(* __objc_hash_register: a match keeps its key and gets the implementation.*)
Registered(d, key, imp) ==
  [d EXCEPT ![Cell(key, Nearest(Ends(d, key)))] =
     [key |-> IF @ = Vacant THEN key ELSE @.key, imp |-> imp]]

(* A method of a class or a category, with its types and without: the      *)
(* table panics when there is no place for either.                         *)
RegisterMethod(s, imp) ==
  LET typed == Registered(dispatch, <<s, "typed">>, imp)
      both == Registered(typed, <<s, Untyped>>, imp)
  IN /\ ~stopped
     /\ IF Ends(dispatch, <<s, "typed">>) = {} \/ Ends(typed, <<s, Untyped>>) = {}
        THEN stopped' = TRUE /\ UNCHANGED <<dispatch, installed>>
        ELSE dispatch' = both /\ installed' = [installed EXCEPT ![s] = imp] /\ UNCHANGED stopped
     /\ UNCHANGED <<hashOf, classes, protocols, declared>>

-----------------------------------------------------------------------------
(* __objc_protocol_register takes a protocol as the same by its name; by   *)
(* the object only, each module would register its own.                    *)
SameProtocol(p, q) == NameOf[p] = NameOf[q]

WithProtocols(table, list) ==
  LET after[n \in 0 .. Len(list)] ==
        IF n = 0 THEN table
        ELSE IF \E i \in DOMAIN after[n - 1] : SameProtocol(after[n - 1][i], list[n])
             THEN after[n - 1] ELSE Append(after[n - 1], list[n])
  IN after[Len(list)]

(* __objc_class_register, with the protocols the class itself names.       *)
RegisterClass(c) ==
  /\ ~stopped /\ \A i \in DOMAIN classes : classes[i] # c
  /\ classes' = Append(classes, c)
  /\ LET all == WithProtocols(protocols, declared.adopts[c]) IN
       IF Len(all) > ProtocolTableSize
       THEN protocols' = SubSeq(all, 1, ProtocolTableSize) /\ stopped' = TRUE
       ELSE protocols' = all /\ UNCHANGED stopped
  /\ UNCHANGED <<dispatch, hashOf, installed, declared>>

RegistryStep ==
  \/ \E s \in Selectors, imp \in Imps : RegisterMethod(s, imp)
  \/ \E c \in Kinds : RegisterClass(c)

RegistrySpec == RegistryInit /\ [][RegistryStep]_regVars

Elements(list) == {list[i] : i \in DOMAIN list}

(* proto_conformsTo: of the name itself, or by what is inherited, as deep  *)
(* as there are protocols.                                                 *)
ProtoConforms(p, other) ==
  LET with(S) == S \cup {q \in Protocols : Elements(declared.inherits[q]) \cap S # {}}
      within[n \in 0 .. Cardinality(Protocols)] ==
        IF n = 0 THEN {q \in Protocols : SameProtocol(q, other)} ELSE with(within[n - 1])
  IN p \in within[Cardinality(Protocols)]

(* What the class names itself.                                            *)
ConformsItself(c, other) == \E p \in Elements(declared.adopts[c]) : ProtoConforms(p, other)

(* class_conformsTo: or what its superclass does.                          *)
ConformsTo(c, other) ==
  LET with(S) == S \cup {k \in Kinds : declared.super[k] \in S}
      upTo[n \in 0 .. Cardinality(Kinds)] ==
        IF n = 0 THEN {k \in Kinds : ConformsItself(k, other)} ELSE with(upTo[n - 1])
  IN c \in upTo[Cardinality(Kinds)]

-----------------------------------------------------------------------------
(* A message with types or without finds the implementation registered     *)
(* last for the method, whatever collides with it, until the table is full.*)
Dispatches ==
  \A s \in Selectors, t \in {"typed", Untyped} : HashLookup(dispatch, <<s, t>>) = installed[s]

(* One protocol of each name that a registered class names.                *)
OneOfEachName ==
  ~stopped =>
    \A c \in Elements(classes), p \in Protocols :
      p \in Elements(declared.adopts[c]) =>
        Cardinality({i \in DOMAIN protocols : SameProtocol(protocols[i], p)}) = 1

(* What is reached from a class in any number of steps.                    *)
Reach(c) ==
  LET step(S) == S \cup {declared.super[k] : k \in S \cap Kinds}
                   \cup (UNION {Elements(declared.adopts[k]) : k \in S \cap Kinds})
                   \cup (UNION {Elements(declared.inherits[p]) : p \in S \cap Protocols})
      all[n \in 0 .. Cardinality(Kinds \cup Protocols)] ==
        IF n = 0 THEN {c} ELSE step(all[n - 1])
  IN all[Cardinality(Kinds \cup Protocols)]

(* A registered class conforms to what some chain of superclasses, adopted *)
(* protocols and protocols those inherit leads to, by name.                *)
ConformsByPath ==
  \A c \in Elements(classes), other \in Protocols :
    ConformsTo(c, other) <=> \E p \in Reach(c) \cap Protocols : SameProtocol(p, other)

(* Messages run the method of the most derived class or category, on a     *)
(* class that is initialized where pointers are wide, and the tables of    *)
(* methods and protocols answer by name though slots collide.              *)
MethodsFound ==
  /\ FindsMostDerived
  /\ SuperFirst
  /\ RunsInitialized
  /\ Dispatches
  /\ OneOfEachName
  /\ ConformsByPath
=============================================================================
