---------------------------- MODULE MCFoundation ----------------------------
(* Instances of Foundation for TLC.                                        *)
EXTENDS Foundation

CONSTANTS rootClass, midClass, leafClass, str1, str2, ptr1, ptr2

Every == {"zone", "objects", "messages", "strings", "dates",
          "format", "chain", "registry", "numbers", "json", "launch"}

(* Sizes that fit, and one that only an arena of its own would.            *)
SomeSizes == {1, 2, 3, 10}

Three == {rootClass, midClass, leafClass}
Line == [c \in Three |-> IF c = leafClass THEN midClass ELSE IF c = midClass THEN rootClass ELSE NoClass]
JustMid == {midClass}
Cat(n, c, m) == [name |-> n, on |-> c, has |-> m]
Lists == {<<Cat("c1", midClass, "work"), Cat("c2", midClass, "work")>>,
          <<Cat("c1", leafClass, "initialize"), Cat("c2", rootClass, "work")>>,
          <<Cat("c1", NoClass, "work")>>}

SomeTexts == {<<"x">>, <<"_", "x">>}

(* No operation tells one string from another.                            *)
Alike == Permutations({str1, str2})

(* A year of two months, of two days and one.                              *)
ShortYear == <<2, 1>>
SomeIntervals == {-5, -1, 3}

(* An int is 3 bits wide and a long 4.                                     *)
SomeFlags == {{}, {"left"}, {"pad"}, {"sign", "pad"}, {"prefix", "pad"},
              {"left", "sign", "prefix", "pad"}}
SomeLongs == {-8, -1, 7, 15}
TwoAnswers == {<<"x">>, <<"x", "y">>}

TwoKinds == {"base", "derived"}
FourProtocols == {"drawing", "drawingAgain", "printing", "copying"}
ProtocolNames == [p \in FourProtocols |-> IF p = "drawingAgain" THEN "drawing" ELSE p]
Program(ofBase, ofDerived, ofPrinting) ==
  [super |-> [k \in TwoKinds |-> IF k = "derived" THEN "base" ELSE NoKind],
   adopts |-> [k \in TwoKinds |-> IF k = "base" THEN ofBase ELSE ofDerived],
   inherits |-> [p \in FourProtocols |-> IF p = "printing" THEN ofPrinting ELSE <<>>]]
Programs == {Program(<<"drawing">>, <<"drawingAgain", "printing">>, <<"copying">>),
             Program(<<"printing">>, <<>>, <<"drawing">>),
             Program(<<>>, <<"printing", "drawingAgain", "copying">>, <<>>)}

Halves == [Int16 |-> 2, UnsignedInt16 |-> 2, Int32 |-> 4, UnsignedInt32 |-> 4,
           Int64 |-> 8, UnsignedInt64 |-> 8]

(* Characters that JSON escapes, one that it uses, and one that is the end *)
(* of an escape; the numbers with the longest texts.                       *)
Characters == {"quote", "backslash", "newline", ",", "n"}
ShortTexts == UNION {[1 .. n -> Characters] : n \in 0 .. 2} \cup {<<"control">>}
Shown(c, chars) == [class |-> c, shown |-> chars]
Longest ==
  {Shown("Int16", <<"-", "3", "2", "7", "6", "8">>),
   Shown("UnsignedInt16", <<"6", "5", "5", "3", "5">>),
   Shown("Int32", <<"-", "2", "1", "4", "7", "4", "8", "3", "6", "4", "8">>),
   Shown("UnsignedInt32", <<"4", "2", "9", "4", "9", "6", "7", "2", "9", "5">>),
   Shown("Int64", <<"-", "9", "2", "2", "3", "3", "7", "2", "0", "3", "6", "8", "5", "4", "7", "7",
                    "5", "8", "0", "8">>),
   Shown("UnsignedInt64", <<"1", "8", "4", "4", "6", "7", "4", "4", "0", "7", "3", "7", "0", "9",
                            "5", "5", "1", "6", "1", "5">>),
   Shown("Bool", <<"t", "r", "u", "e">>), Shown("Bool", <<"f", "a", "l", "s", "e">>),
   Shown("Zero", <<"0">>)}
SomeMembers == {StringDoc(<<"quote", ",">>), ObjectDoc(<<"backslash">>), NullDoc,
                NumberDoc(Shown("Int16", <<"-", "3", "2", "7", "6", "8">>))}
TwoKeys == {<<"n">>, <<"quote">>}

=============================================================================
