-------------------------------- MODULE Json --------------------------------
(***************************************************************************)
(* The texts that objects write of themselves: the JSON protocol of        *)
(* strings, numbers, null, arrays and maps, the memory they ask for it,    *)
(* and an array joined to a string.  A document is built by the calls that *)
(* fill collections, and read by a reader of JSON.                         *)
(***************************************************************************)
EXTENDS Integers, Sequences, FiniteSets, SequencesExt

CONSTANTS
  JsonTexts,    \* texts, sequences of characters
  JsonNumbers,  \* numbers: their class, and their value as it is written
  Members,      \* the documents that are put into collections
  JsonKeys,     \* the keys of maps
  MaxMembers, MaxDepth  \* bounds

VARIABLES
  doc,    \* the object
  depth   \* how often it was put into a collection, for the bound

jsonVars == <<doc, depth>>

StringDoc(text) == [kind |-> "string", text |-> text]
ObjectDoc(text) == [kind |-> "object", text |-> text]
NumberDoc(n) == [kind |-> "number", number |-> n]
NullDoc == [kind |-> "null"]
ArrayDoc(items) == [kind |-> "array", items |-> items]
MapDoc(pairs) == [kind |-> "map", pairs |-> pairs]

JsonInit == doc = NullDoc /\ depth = 0

-----------------------------------------------------------------------------
(* A backslash is written as it is.                                        *)
EscapedQuote(c) ==
  CASE c = "quote"   -> <<"backslash", "quote">>
    [] c = "newline" -> <<"backslash", "n">>
    [] OTHER         -> <<c>>

Escaped(c) ==
  CASE c = "quote"     -> <<"backslash", "quote">>
    [] c = "backslash" -> <<"backslash", "backslash">>
    [] c = "newline"   -> <<"backslash", "n">>
    [] c = "control"   -> <<"backslash", "u0001">>
    [] OTHER           -> <<c>>

StringJSON(text) == <<"quote">> \o FlattenSeq([i \in DOMAIN text |-> Escaped(text[i])]) \o <<"quote">>

(* The parts with a comma and a space between them.                        *)
Separated(parts) ==
  FlattenSeq([i \in DOMAIN parts |-> IF i = 1 THEN parts[i] ELSE <<",", " ">> \o parts[i]])

RECURSIVE JSONString(_)
ArrayJSON(items) == <<"[">> \o Separated([i \in DOMAIN items |-> JSONString(items[i])]) \o <<"]">>
MapJSON(pairs) ==
  LET pair(p) == StringJSON(p.key) \o <<":", " ">> \o JSONString(p.value)
  IN <<"{">> \o Separated([i \in DOMAIN pairs |-> pair(pairs[i])]) \o <<"}">>

(* An object without the protocol writes its description as a string.      *)
JSONString(d) ==
  CASE d.kind \in {"string", "object"} -> StringJSON(d.text)
    [] d.kind = "number"               -> d.number.shown
    [] d.kind = "null"                 -> <<"n", "u", "l", "l">>
    [] d.kind = "array"                -> ArrayJSON(d.items)
    [] d.kind = "map"                  -> MapJSON(d.pairs)

-----------------------------------------------------------------------------
NumberBytes(n) ==
  CASE n.class = "Int16" -> 6   [] n.class = "UnsignedInt16" -> 5
    [] n.class = "Int32" -> 11  [] n.class = "UnsignedInt32" -> 10
    [] n.class = "Int64" -> 20  [] n.class = "UnsignedInt64" -> 20
    [] n.class = "Bool" -> IF n.shown[1] = "t" THEN 4 ELSE 5
    [] n.class = "Zero" -> 1

StringBytes(text) == Len(text) + 2 + Len(text) \div 4

SumSeq(s) == FoldLeft(+, 0, s)

RECURSIVE JSONBytes(_)

ArrayBytes(items) == 2 + SumSeq([i \in DOMAIN items |-> JSONBytes(items[i]) + 2])
MapBytes(pairs) ==
  2 + SumSeq([i \in DOMAIN pairs |-> StringBytes(pairs[i].key) + JSONBytes(pairs[i].value) + 4])

JSONBytes(d) ==
  CASE d.kind \in {"string", "object"} -> StringBytes(d.text)
    [] d.kind = "number"               -> NumberBytes(d.number)
    [] d.kind = "null"                 -> 4
    [] d.kind = "array"                -> ArrayBytes(d.items)
    [] d.kind = "map"                  -> MapBytes(d.pairs)

(* stringWithObjectsJoinedByString: - its first pass counts, its second    *)
(* one appends.  A string is its own description, a map has its class name.*)
Delimiter == <<",", " ">>
RECURSIVE Joined(_)
Described(d) ==
  CASE d.kind \in {"string", "object"} -> d.text
    [] d.kind = "array" -> <<"@", "[", " ">> \o Joined(d.items) \o <<" ", "]">>
    [] d.kind = "map"   -> <<"N", "X", "M", "a", "p">>
    [] OTHER            -> JSONString(d)
Joined(items) ==
  FlattenSeq([i \in DOMAIN items |-> (IF i > 1 THEN Delimiter ELSE <<>>) \o Described(items[i])])
JoinedLength(items) ==
  SumSeq([i \in DOMAIN items |-> Len(Described(items[i]))])
  + (IF Len(items) > 1 THEN (Len(items) - 1) * Len(Delimiter) ELSE 0)

-----------------------------------------------------------------------------
(* The program makes an object,                                            *)
Make ==
  /\ doc = NullDoc
  /\ doc' \in {StringDoc(x) : x \in JsonTexts} \cup {ObjectDoc(x) : x \in JsonTexts}
              \cup {NumberDoc(n) : n \in JsonNumbers} \cup {ArrayDoc(<<>>), MapDoc(<<>>)}
  /\ UNCHANGED depth

(* appends to an array,                                                    *)
AppendMember(m) ==
  /\ doc.kind = "array" /\ Len(doc.items) < MaxMembers
  /\ doc' = ArrayDoc(Append(doc.items, m))
  /\ UNCHANGED depth

(* sets a key, which an iteration meets wherever its hash puts it,         *)
SetKey(k, m, at) ==
  /\ doc.kind = "map" /\ at \in 0 .. Len(doc.pairs)
  /\ LET with == {i \in DOMAIN doc.pairs : doc.pairs[i].key = k}
         pair == [key |-> k, value |-> m]
     IN IF with = {}
        THEN Len(doc.pairs) < MaxMembers /\ doc' = MapDoc(InsertAt(doc.pairs, at + 1, pair))
        ELSE doc' = MapDoc([i \in DOMAIN doc.pairs |-> IF i \in with THEN pair ELSE doc.pairs[i]])
  /\ UNCHANGED depth

(* or makes a collection with the object in it.                            *)
Wrap ==
  /\ depth < MaxDepth /\ depth' = depth + 1
  /\ \E k \in JsonKeys : doc' \in {ArrayDoc(<<doc>>), MapDoc(<<[key |-> k, value |-> doc]>>)}

JsonStep ==
  \/ Make \/ Wrap
  \/ \E m \in Members : AppendMember(m)
  \/ \E k \in JsonKeys, m \in Members, at \in 0 .. MaxMembers : SetKey(k, m, at)

-----------------------------------------------------------------------------
(* A reader of JSON.  The text is cut into strings, words and marks,       *)
Unescaped(c) == CASE c = "n" -> "newline" [] c = "u0001" -> "control" [] OTHER -> c

Lexed(text) ==
  LET start == [out |-> <<>>, mode |-> "out", held |-> <<>>]
      ended(st, is) == IF is = "word" /\ st.held = <<>> THEN st.out
                       ELSE Append(st.out, [is |-> is, text |-> st.held])
      step(st, c) ==
        CASE st.mode = "escape" -> [st EXCEPT !.mode = "in", !.held = Append(@, Unescaped(c))]
          [] st.mode = "in" /\ c = "backslash" -> [st EXCEPT !.mode = "escape"]
          [] st.mode = "in" /\ c = "quote" -> [start EXCEPT !.out = ended(st, "string")]
          [] st.mode = "in" -> [st EXCEPT !.held = Append(@, c)]
          [] c = "quote" -> [out |-> ended(st, "word"), mode |-> "in", held |-> <<>>]
          [] c = " " -> [start EXCEPT !.out = ended(st, "word")]
          [] c \in {"[", "]", "{", "}", ",", ":"} ->
               [start EXCEPT !.out = Append(ended(st, "word"), [is |-> c, text |-> <<>>])]
          [] OTHER -> [st EXCEPT !.held = Append(@, c)]
      last == FoldLeft(step, start, text)
  IN IF last.mode = "out" THEN ended(last, "word") ELSE <<[is |-> "error", text |-> <<>>]>>

(* which fill the collections that are open, the inner one at the end.     *)
Unreadable == [is |-> "error"]

Reading(tokens) ==
  LET bottom == [is |-> "top", has |-> <<>>, key |-> <<>>, wants |-> "value"]
      open(is) == [bottom EXCEPT !.is = is, !.wants = IF is = "{" THEN "key" ELSE "value"]
      value(stack, v) ==
        LET top == Last(stack) IN
          IF top.wants # "value" THEN <<>>
          ELSE Append(Front(stack), [top EXCEPT !.has = Append(@, <<top.key, v>>), !.key = <<>>,
                                                !.wants = "comma"])
      marked(stack, wants) == Append(Front(stack), [Last(stack) EXCEPT !.wants = wants])
      step(stack, token) ==
        LET top == Last(stack) IN
          CASE stack = <<>> -> <<>>
            [] token.is \in {"[", "{"} /\ top.wants = "value" -> Append(stack, open(token.is))
            [] token.is = "string" /\ top.wants = "key" ->
                 Append(Front(stack), [top EXCEPT !.key = token.text, !.wants = "colon"])
            [] token.is = ":" /\ top.wants = "colon" -> marked(stack, "value")
            [] token.is = "," /\ top.wants = "comma" /\ top.is \in {"[", "{"} ->
                 marked(stack, IF top.is = "{" THEN "key" ELSE "value")
            [] \/ token.is = "]" /\ top.is = "["
               \/ token.is = "}" /\ top.is = "{" ->
                 IF top.wants = "comma" \/ top.has = <<>>
                 THEN value(Front(stack), [is |-> top.is, has |-> top.has]) ELSE <<>>
            [] token.is \in {"string", "word"} -> value(stack, [is |-> token.is, has |-> token.text])
            [] OTHER -> <<>>
      last == FoldLeft(step, <<bottom>>, tokens)
  IN IF Len(last) = 1 /\ Len(last[1].has) = 1 THEN last[1].has[1][2] ELSE Unreadable

(* What a reader should find.                                              *)
RECURSIVE Plain(_)
Plain(d) ==
  CASE d.kind \in {"string", "object"} -> [is |-> "string", has |-> d.text]
    [] d.kind \in {"number", "null"}   -> [is |-> "word", has |-> JSONString(d)]
    [] d.kind = "array" ->
         [is |-> "[", has |-> [i \in DOMAIN d.items |-> <<<<>>, Plain(d.items[i])>>]]
    [] d.kind = "map" ->
         [is |-> "{", has |-> [i \in DOMAIN d.pairs |-> <<d.pairs[i].key, Plain(d.pairs[i].value)>>]]

(* A reader of JSON finds in the text of an object what the object holds:  *)
(* no text, whatever it is made of, ends a string early or takes the marks *)
(* around it along, and no nesting confuses who holds what.                *)
ReadsAsWritten == Reading(Lexed(JSONString(doc))) = Plain(doc)

(* No text in the document is escaped.                                     *)
Unescapable(text) == {i \in DOMAIN text : Escaped(text[i]) # <<text[i]>>} = {}
RECURSIVE Smooth(_)
Smooth(d) ==
  CASE d.kind \in {"string", "object"} -> Unescapable(d.text)
    [] d.kind \in {"number", "null"}   -> TRUE
    [] d.kind = "array" -> \A i \in DOMAIN d.items : Smooth(d.items[i])
    [] d.kind = "map"   -> \A i \in DOMAIN d.pairs :
                             Unescapable(d.pairs[i].key) /\ Smooth(d.pairs[i].value)

(* The memory asked for holds the text, unless much of it is escaped: the  *)
(* text is written without moving it.  A joined array takes the length that*)
(* was counted for it.                                                     *)
EstimateHolds ==
  /\ Smooth(doc) => Len(JSONString(doc)) <= JSONBytes(doc)
  /\ doc.kind = "array" => Len(Joined(doc.items)) = JoinedLength(doc.items)

(* The text of a document reads back as the document, and fits the memory  *)
(* estimated for it.                                                       *)
JsonFaithful ==
  /\ ReadsAsWritten
  /\ EstimateHolds
=============================================================================
