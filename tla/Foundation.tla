------------------------------ MODULE Foundation -----------------------------
(***************************************************************************)
(* The parts of Foundation and of the Objective-C runtime, the formatting  *)
(* they use, and the main function around them, that share no state but    *)
(* memory: each behaviour is about one of them, used by one thread.        *)
(***************************************************************************)
EXTENDS Zone, Objects, Messages, Strings, Values, Printf, Chain, Json, Launch

CONSTANT Subjects  \* which of the parts are used

VARIABLE subject

runtimeVars == <<msgVars, regVars>>
memoryVars == <<zoneVars, objVars, chainVars>>
valueVars == <<strVars, dateVars, printfVars, numVars, jsonVars>>
vars == <<subject, runtimeVars, memoryVars, valueVars, launchVars>>

Init ==
  /\ subject \in Subjects
  /\ ZoneInit /\ ObjectsInit /\ ChainInit
  /\ StringsInit /\ DatesInit /\ PrintfInit /\ NumbersInit /\ JsonInit
  /\ IF subject = "launch" THEN LaunchInit
     ELSE LaunchInit /\ ~posix /\ made = {} /\ ~responds
  /\ IF subject = "messages" THEN MessagesInit
     ELSE MessagesInit /\ wide /\ implements = [m \in Methods |-> {Root}]
                       /\ categories = CHOOSE list \in CategoryLists : TRUE
  /\ IF subject = "registry" THEN RegistryInit
     ELSE RegistryInit /\ hashOf = [k \in MethodKeys |-> 0]
                       /\ declared = CHOOSE h \in Hierarchies : TRUE

RuntimeStep ==
  \/ subject = "messages" /\ MessagesStep /\ UNCHANGED regVars
  \/ subject = "registry" /\ RegistryStep /\ UNCHANGED msgVars

MemoryStep ==
  \/ subject = "zone" /\ ZoneStep /\ UNCHANGED <<objVars, chainVars>>
  \/ subject = "objects" /\ ObjectsStep /\ UNCHANGED <<zoneVars, chainVars>>
  \/ subject = "chain" /\ ChainStep /\ UNCHANGED <<zoneVars, objVars>>

ValueStep ==
  \/ subject = "strings" /\ StringsStep /\ UNCHANGED <<dateVars, printfVars, numVars, jsonVars>>
  \/ subject = "dates" /\ DatesStep /\ UNCHANGED <<strVars, printfVars, numVars, jsonVars>>
  \/ subject = "format" /\ PrintfStep /\ UNCHANGED <<strVars, dateVars, numVars, jsonVars>>
  \/ subject = "numbers" /\ NumbersStep /\ UNCHANGED <<strVars, dateVars, printfVars, jsonVars>>
  \/ subject = "json" /\ JsonStep /\ UNCHANGED <<strVars, dateVars, printfVars, numVars>>

Step == \/ RuntimeStep /\ UNCHANGED <<memoryVars, valueVars, launchVars>>
        \/ MemoryStep /\ UNCHANGED <<runtimeVars, valueVars, launchVars>>
        \/ ValueStep /\ UNCHANGED <<runtimeVars, memoryVars, launchVars>>
        \/ subject = "launch" /\ LaunchStep /\ UNCHANGED <<runtimeVars, memoryVars, valueVars>>

Next == UNCHANGED subject /\ Step

Spec == Init /\ [][Next]_vars
=============================================================================
