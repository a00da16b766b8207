------------------------------- MODULE Strings ------------------------------
(***************************************************************************)
(* NXString.m and NXData.m: a string points at a C string that it does not *)
(* own - a constant or the memory of another string - until it is changed, *)
(* and at memory of its own from then on.  Data grow a buffer of bytes and *)
(* are written as text through the bytes of a new string.  An allocation   *)
(* that fails changes nothing and is left out; so is [s append:s], which   *)
(* copies between ranges that overlap.                                     *)
(***************************************************************************)
EXTENDS Integers, Sequences, FiniteSets, Printf

CONSTANTS
  Strs,       \* the string objects
  Texts,      \* the C strings the program has, sequences of letters
  Nothing,    \* NULL
  Freed,      \* a pointer to memory that was freed
  Careful,    \* TRUE: a string that others refer to is neither changed nor released
  MaxText, MaxData  \* the longest text and data (bounds)

VARIABLES
  str,     \* live, value, length, cap, and the cells of _data; encoded
  text,    \* history: the text a string stands for
  data,    \* the bytes, size and capacity of an NXData
  bytes,   \* history: the bytes it stands for
  overrun  \* something was written past the end of its memory

strVars == <<str, text, data, bytes, overrun>>

NUL == "nul"
Garbage == "?"
White == "_"
Alphabet == {"x", "X", White}

ASSUME StringsAssumption ==
  /\ Texts \subseteq Seq(Alphabet) /\ MaxText \in Nat /\ MaxData \in Nat
  /\ Strs \cap Texts = {} /\ <<>> \notin Strs
  /\ Nothing \notin Strs \cup Texts \cup {<<>>}
  /\ Freed \notin Strs \cup Texts \cup {<<>>, Nothing}

Upper(c) == IF c = "x" THEN "X" ELSE c
Lower(c) == IF c = "X" THEN "x" ELSE c

NoStr == [live |-> FALSE, value |-> Nothing, length |-> 0, cap |-> 0,
          cells |-> <<>>, encoded |-> FALSE]

StringsInit ==
  /\ str = [s \in Strs |-> NoStr] /\ text = [s \in Strs |-> <<>>]
  /\ data = [cells |-> <<>>, size |-> 0, cap |-> 0] /\ bytes = <<>>
  /\ overrun = FALSE

-----------------------------------------------------------------------------
Fill(n, c) == [i \in 1 .. n |-> c]
Terminated(t) == t \o <<NUL>>

(* The memory behind a pointer.                                            *)
Memory(p) == IF p = Nothing THEN <<NUL>>
             ELSE IF p \in Strs THEN str[p].cells ELSE Terminated(p)

(* A C string is what comes before the first terminator.                   *)
CString(m) ==
  LET ends == {i \in DOMAIN m : m[i] = NUL} IN
    IF ends = {} THEN Append(m, Garbage)
    ELSE SubSeq(m, 1, (CHOOSE i \in ends : \A j \in ends : i <= j) - 1)

Written(m, at, new) ==
  [i \in DOMAIN m |-> IF i > at /\ i <= at + Len(new) THEN new[i - at] ELSE m[i]]

AtLeast(a, b) == IF a < b THEN b ELSE a

(* _makeMutableWithCapacity: - the memory the string owns afterwards.      *)
Mutable(s, ask) ==
  LET old == str[s]
      cap == AtLeast(AtLeast(ask, old.length + 1), old.cap)
      from == Memory(old.value)
  IN IF old.value = s /\ old.cap >= cap THEN old.cells
     ELSE IF old.length = 0 THEN Fill(cap, NUL)
     ELSE SubSeq(from, 1, old.length + 1) \o Fill(cap - (old.length + 1), Garbage)

Referrers(s) == {r \in Strs \ {s} : str[r].live /\ str[r].value = s}
MayChange(s) == str[s].live /\ ~str[s].encoded /\ (Careful => Referrers(s) = {})
Readable(s) == str[s].live /\ str[s].value # Freed

(* The string has new memory, or none: who pointed at the old one points   *)
(* at freed memory.                                                        *)
Moved(s, new) ==
  [r \in Strs |->
     IF r = s THEN new
     ELSE IF r \in Referrers(s) /\ (~new.live \/ new.cap # str[s].cap)
          THEN [str[r] EXCEPT !.value = Freed] ELSE str[r]]

(* The string after n letters were written behind its first at letters.    *)
StringChange(s, mem, at, new, length, t) ==
  /\ str' = Moved(s, [str[s] EXCEPT !.value = s, !.cap = Len(mem), !.length = length,
                                    !.cells = Written(mem, at, new)])
  /\ overrun' = (overrun \/ at + Len(new) > Len(mem))
  /\ text' = [text EXCEPT ![s] = t]
  /\ UNCHANGED <<data, bytes>>

StringNew(s, value, length, cells, t) ==
  /\ ~str[s].live
  /\ str' = [str EXCEPT ![s] = [NoStr EXCEPT !.live = TRUE, !.value = value, !.length = length,
                                             !.cells = cells, !.cap = Len(cells)]]
  /\ text' = [text EXCEPT ![s] = t] /\ UNCHANGED <<data, bytes, overrun>>

(* initWithCapacity:, initWithCString:, initWithFormat:                    *)
NewWithCapacity(s, n) == StringNew(s, s, 0, Fill(n, NUL), <<>>)
NewWithCString(s, t) == StringNew(s, t, Len(t), <<>>, t)
NewWithFormat(s, t) ==
  IF t = <<>> THEN StringNew(s, Nothing, 0, <<>>, <<>>) ELSE StringNew(s, s, Len(t), Terminated(t), t)

(* initWithString: takes the pointer of the other string and no reference. *)
NewWithString(s, r) ==
  /\ Readable(r) /\ ~str[r].encoded
  /\ StringNew(s, IF str[r].value = Nothing THEN <<>> ELSE str[r].value, str[r].length, <<>>, text[r])

StringRelease(s) ==
  /\ MayChange(s) \/ (str[s].live /\ str[s].encoded)
  /\ str' = Moved(s, NoStr) /\ text' = [text EXCEPT ![s] = <<>>]
  /\ UNCHANGED <<data, bytes, overrun>>

-----------------------------------------------------------------------------

(* append:, appendCString: and appendStringWithFormat:                     *)
AppendMemory(s, t, mem, n) ==
  /\ MayChange(s) /\ Readable(s) /\ n > 0 /\ str[s].length + n <= MaxText
  /\ LET old == str[s] IN
       StringChange(s, Mutable(s, old.length + n + 1), old.length, SubSeq(mem, 1, n + 1),
              old.length + n, text[s] \o t)

AppendString(s, r) ==
  /\ r # s /\ Readable(r) /\ ~str[r].encoded
  /\ AppendMemory(s, text[r], Memory(str[r].value), str[r].length)

AppendText(s, t) == AppendMemory(s, t, Terminated(t), Len(t))

(* Mutation: what is left keeps the old terminator.                        *)
CutUnterminated(s, start, end) ==
  LET mem == Mutable(s, end - start + 1) IN
    StringChange(s, mem, 0, SubSeq(mem, start + 1, end), end - start,
           SubSeq(text[s], start + 1, end))

(* The letters from start to end move to the front.                        *)
Cut(s, start, end) ==
  LET mem == Mutable(s, end - start + 1) IN
    StringChange(s, mem, 0, Terminated(SubSeq(mem, start + 1, end)), end - start,
           SubSeq(text[s], start + 1, end))

(* trimWhitespace *)
Trim(s) ==
  LET m == Memory(str[s].value)  n == str[s].length
      ink == {i \in 1 .. n : m[i] # White}
      start == IF ink = {} THEN n ELSE (CHOOSE i \in ink : \A j \in ink : i <= j) - 1
      end == IF ink = {} THEN n ELSE CHOOSE i \in ink : \A j \in ink : j <= i
  IN /\ MayChange(s) /\ Readable(s) /\ n > 0
     /\ ~(start = 0 /\ end = n)
     /\ Cut(s, start, end)

(* trimPrefix:suffix: - the suffix may reach into the prefix.              *)
TrimAffixes(s, p, q) ==
  LET m == Memory(str[s].value)  n == str[s].length
      hasPrefix == Len(p) \in 1 .. n /\ SubSeq(m, 1, Len(p)) = p
      hasSuffix == Len(q) \in 1 .. n /\ SubSeq(m, n - Len(q) + 1, n) = q
      start == IF hasPrefix THEN Len(p) ELSE 0
      end == IF hasSuffix THEN AtLeast(n - Len(q), start) ELSE n
  IN /\ MayChange(s) /\ Readable(s) /\ (hasPrefix \/ hasSuffix)
     /\ Cut(s, start, end)

(* toUppercase and toLowercase                                             *)
ToCase(s, upper) ==
  LET Case(c) == IF upper THEN Upper(c) ELSE Lower(c)
      mem == Mutable(s, 0)
      n == str[s].length
  IN /\ MayChange(s) /\ Readable(s) /\ n > 0
     /\ StringChange(s, mem, 0, [i \in 1 .. n |-> Case(mem[i])], n,
              [i \in DOMAIN text[s] |-> Case(text[s][i])])

ToUppercase(s) == ToCase(s, TRUE)
ToLowercase(s) == ToCase(s, FALSE)

-----------------------------------------------------------------------------

(* _setCapacity: - more room, when there is not enough.                    *)
DataRoom(n) == IF data.size + n > data.cap THEN data.cap + n ELSE data.cap

(* initWithCapacity: of data.                                              *)
DataWithCapacity(n) ==
  /\ data.cap = 0
  /\ data' = [cells |-> Fill(n, Garbage), size |-> 0, cap |-> n]
  /\ UNCHANGED <<str, text, bytes, overrun>>

(* appendBytes:size:, appendString: and appendData:, of itself included.   *)
AppendData(new) ==
  LET room == DataRoom(Len(new))
      grown == SubSeq(data.cells, 1, data.size) \o Fill(room - data.size, Garbage)
  IN /\ new # <<>> /\ data.size + Len(new) <= MaxData
     /\ data' = [cells |-> Written(grown, data.size, new), size |-> data.size + Len(new), cap |-> room]
     /\ overrun' = (overrun \/ data.size + Len(new) > room)
     /\ bytes' = bytes \o new
     /\ UNCHANGED <<str, text>>

AppendItself == AppendData(SubSeq(data.cells, 1, data.size))

(* base64Capacity, the terminator included.                                *)
Base64Capacity(n) == ((n + 2) \div 3) * 4 + 1

(* The letters base64String writes: four for each whole group, four for    *)
(* what remains.                                                           *)
Base64Letters(n) == 4 * (n \div 3) + IF n % 3 = 0 THEN 0 ELSE 4

(* hexString, base64String: the letters go through the bytes of a string   *)
(* of that capacity, whose length stays 0.                                 *)
Encode(s, letters, room) ==
  /\ ~str[s].live /\ data.size > 0
  /\ str' = [str EXCEPT ![s] = [live |-> TRUE, value |-> s, length |-> 0, cap |-> room, encoded |-> TRUE,
                                cells |-> Written(Fill(room, NUL), 0, Terminated(Fill(letters, "x")))]]
  /\ overrun' = (overrun \/ letters + 1 > room)
  /\ text' = [text EXCEPT ![s] = Fill(letters, "x")]
  /\ UNCHANGED <<data, bytes>>

HexString(s) == Encode(s, 2 * data.size, 2 * data.size + 1)
Base64String(s) == Encode(s, Base64Letters(data.size), Base64Capacity(data.size))

(* initWithString: and initWithBytes:size: of data take just what they copy.*)
DataWith(new) ==
  /\ data.cap = 0 /\ Len(new) <= MaxData
  /\ data' = [cells |-> new, size |-> Len(new), cap |-> Len(new)] /\ bytes' = new
  /\ UNCHANGED <<str, text, overrun>>

(* dealloc of the data.                                                    *)
DataDealloc ==
  /\ data.cap > 0
  /\ data' = [cells |-> <<>>, size |-> 0, cap |-> 0] /\ bytes' = <<>>
  /\ UNCHANGED <<str, text, overrun>>

StringsStep ==
  \/ \E s \in Strs, n \in 1 .. MaxText + 1 : NewWithCapacity(s, n)
  \/ \E s \in Strs, t \in Texts \cup {<<>>} :
       NewWithCString(s, t) \/ NewWithFormat(s, t) \/ AppendText(s, t)
  \/ \E s, r \in Strs : NewWithString(s, r) \/ AppendString(s, r)
  \/ \E s \in Strs : \/ StringRelease(s) \/ Trim(s) \/ ToUppercase(s) \/ ToLowercase(s)
                     \/ HexString(s) \/ Base64String(s)
  \/ \E s \in Strs, p, q \in Texts \cup {<<>>} : TrimAffixes(s, p, q)
  \/ \E n \in 1 .. MaxData : DataWithCapacity(n)
  \/ \E t \in Texts : AppendData(t) \/ DataWith(t)
  \/ AppendItself \/ DataDealloc

StringsSpec == StringsInit /\ [][StringsStep]_strVars

-----------------------------------------------------------------------------
(* What the methods that only look answer, from the memory they look at.   *)
Rank(c) == CASE c = "X" -> 1 [] c = White -> 2 [] c = "x" -> 3 [] OTHER -> 0

(* strcmp: the sign of the first difference, the terminator included.      *)
StrCmp(a, b) ==
  LET m == Terminated(CString(a))  n == Terminated(CString(b))
      shared == DOMAIN m \cap DOMAIN n
      differ == {i \in shared : m[i] # n[i]}
      first == CHOOSE i \in differ : \A j \in differ : i <= j
  IN IF differ = {} THEN 0 ELSE IF Rank(m[first]) < Rank(n[first]) THEN -1 ELSE 1

(* strncmp = 0: the first n letters, as far as the terminator.             *)
Leading(m, n) == IF n > Len(m) THEN m ELSE SubSeq(m, 1, n)
SameFirst(a, b, n) == Leading(Terminated(CString(a)), n) = Leading(Terminated(CString(b)), n)

Behind(m, at) == SubSeq(m, at + 1, Len(m))

EqualTo(s, r) ==
  \/ s = r
  \/ /\ str[s].length = str[r].length
     /\ str[s].value = str[r].value \/ StrCmp(Memory(str[s].value), Memory(str[r].value)) = 0

CompareStrings(s, r) ==
  IF str[s].value = str[r].value THEN 0 ELSE StrCmp(Memory(str[s].value), Memory(str[r].value))

CountOccurrences(s, c) ==
  IF str[s].value = Nothing THEN 0
  ELSE Cardinality({i \in 1 .. str[s].length : Memory(str[s].value)[i] = c})

HasPrefix(s, r) ==
  LET n == str[r].length IN
    \/ n = 0
    \/ n <= str[s].length /\ SameFirst(Memory(str[s].value), Memory(str[r].value), n)

HasSuffix(s, r) ==
  LET n == str[r].length  m == Memory(str[s].value) IN
    \/ n = 0
    \/ n <= str[s].length /\ SameFirst(Behind(m, str[s].length - n), Memory(str[r].value), n)

(* strstr finds what starts anywhere before the terminator.                *)
ContainsString(s, r) ==
  LET n == str[r].length  m == Memory(str[s].value) IN
    \/ n = 0
    \/ /\ n <= str[s].length
       /\ \E at \in 0 .. Len(CString(m)) : SameFirst(Behind(m, at), Memory(str[r].value), n)

-----------------------------------------------------------------------------
(* What a reader of the string sees, up to the terminator, is the text the *)
(* calls built, whoever owns the memory, and the length agrees with it.    *)
TextKept ==
  \A s \in Strs : Readable(s) =>
    /\ CString(Memory(str[s].value)) = text[s]
    /\ str[s].encoded \/ str[s].length = Len(text[s])

Legible(s) == Readable(s) /\ ~str[s].encoded

(* What two strings answer about each other depends on their texts alone,  *)
(* not on who owns the memory, how much of it there is, or what an earlier *)
(* text left behind the terminator.                                        *)
AnswersByText ==
  \A s, r \in Strs : Legible(s) /\ Legible(r) =>
    LET t == text[s]  o == text[r]  from(at) == SubSeq(t, at + 1, Len(t)) IN
      /\ EqualTo(s, r) <=> t = o
      /\ CompareStrings(s, r) = 0 <=> t = o
      /\ CompareStrings(s, r) = -CompareStrings(r, s)
      /\ \A c \in {"x", White} : CountOccurrences(s, c) = Cardinality({i \in DOMAIN t : t[i] = c})
      /\ HasPrefix(s, r) <=> Leading(t, Len(o)) = o
      /\ HasSuffix(s, r) <=> Len(o) <= Len(t) /\ from(Len(t) - Len(o)) = o
      /\ ContainsString(s, r) <=> \E at \in 0 .. Len(t) : Leading(from(at), Len(o)) = o

(* The bytes of the data survive its growth.                               *)
BytesKept == SubSeq(data.cells, 1, data.size) = bytes

(* No call writes past the memory it asked for, the terminator included.   *)
NoOverrun == ~overrun

(* Strings, data and formatted text are what was put into them, and stay   *)
(* within the memory that was asked for.                                   *)
TextSafe ==
  /\ TextKept
  /\ BytesKept
  /\ NoOverrun
  /\ AnswersByText
  /\ BufferHolds
  /\ LengthAgrees
  /\ ReadsBack

=============================================================================
