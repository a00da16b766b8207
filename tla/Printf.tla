------------------------------- MODULE Printf -------------------------------
(***************************************************************************)
(* printf.c: a format is read item by item and what each stands for is put *)
(* character by character into a buffer of a given size, or only counted.  *)
(* NXString formats twice: once to learn the length, once into memory of   *)
(* that length.  A format is here the sequence of its parsed items, a      *)
(* character is a one-letter string, and integers have IntTop and LongTop  *)
(* for 2^31 and 2^63.  sys_printf is the same walk under a mutex, in       *)
(* module Console; the scratch buffer of 64 characters is left out, and    *)
(* formats are such that a number fits.                                    *)
(***************************************************************************)
EXTENDS Integers, Sequences

CONSTANTS
  IntTop, LongTop,   \* the first integer above an int, and above a long
  LongArgs,          \* the long arguments passed (bound)
  PointerDigits,     \* hexadecimal digits of a pointer
  FlagSets, Widths,  \* the flags and widths in formats
  Room,              \* the memory that may be written, longer than any text (bound)
  Rooms,             \* the sizes of buffers
  Descriptions       \* what an object may answer to description

VARIABLES
  job,      \* the items still to format, all of them, and who formats
  sprint,   \* sys_printf_state: size, pos and the memory at buffer
  measured  \* NXString: the length of the first pass, _length

printfVars == <<job, sprint, measured>>

End == "nul"
Unset == "?"
Letters == <<"0", "1", "2", "3", "4", "5", "6", "7", "8", "9", "a", "b", "c", "d", "e", "f">>
Capitals == <<"0", "1", "2", "3", "4", "5", "6", "7", "8", "9", "A", "B", "C", "D", "E", "F">>
Digit == {"0", "1", "2", "3", "4", "5", "6", "7", "8", "9", "a", "b", "c", "d", "e", "f",
          "A", "B", "C", "D", "E", "F"}
Chars == Digit \cup {" ", "-", "+", "x", "X", "q", "y", "%", "<", ">"}

PrintfInit ==
  /\ job = [todo |-> <<>>, items |-> <<>>, by |-> "none", moved |-> FALSE]
  /\ sprint = [size |-> 0, pos |-> 0, cells |-> <<>>]
  /\ measured = 0

-----------------------------------------------------------------------------
(* One field                                                               *)
Copies(n, c) == [i \in 1 .. (IF n > 0 THEN n ELSE 0) |-> c]

(* Blanks up to the width, before or after.                                *)
Justified(text, item) ==
  LET blanks == Copies(item.width - Len(text), " ") IN
    IF "left" \in item.flags THEN text \o blanks ELSE blanks \o text

Base(item) == IF item.conv \in {"x", "X", "p"} THEN 16
              ELSE IF item.conv = "b" THEN 2 ELSE IF item.conv = "o" THEN 8 ELSE 10

Digits(n, base, alphabet) ==
  LET of[m \in 0 .. n] == IF m < base THEN <<alphabet[m + 1]>>
                          ELSE Append(of[m \div base], alphabet[(m % base) + 1])
  IN of[n]

TopOf(item) == IF item.length = "l" THEN LongTop ELSE IntTop

(* _sys_printf_putd: the absolute value of a negative number without ever  *)
(* negating the least one, which has no negative.                          *)
AbsNum(item) == (-(item.arg + 1) + 1) % (2 * TopOf(item))

Negative(item) == item.conv = "d" /\ item.length # "z" /\ item.arg < 0

Number(item) ==
  LET digits == Digits(IF Negative(item) THEN AbsNum(item) ELSE item.arg,
                       Base(item), IF item.conv = "X" THEN Capitals ELSE Letters)
      sign == IF Negative(item) THEN <<"-">>
              ELSE IF "sign" \in item.flags THEN <<"+">> ELSE <<>>
      prefix == IF "prefix" \notin item.flags THEN <<>>
                ELSE CASE Base(item) = 16 -> <<"0", IF item.conv = "X" THEN "X" ELSE "x">>
                       [] Base(item) = 8 -> <<"0">>
                       [] Base(item) = 2 -> <<"0", "b">>
                       [] OTHER -> <<>>
      zeros == IF "pad" \in item.flags
               THEN Copies(item.width - Len(digits) - Len(prefix) - Len(sign), "0")
               ELSE <<>>
  IN Justified(sign \o prefix \o zeros \o digits, item)

PutPointer(item) ==
  Number([item EXCEPT !.flags = item.flags \cup {"prefix", "pad"}, !.width = PointerDigits + 2])

Conversions == {"d", "u", "x", "X", "b", "o"}
Aligning == {"c", "s"}

(* What a custom handler answers is put as it is.                          *)
Field(item, described) ==
  CASE item.conv = "lit" -> item.arg
    [] item.conv \in Aligning -> Justified(item.arg, item)
    [] item.conv \in Conversions -> Number(item)
    [] item.conv = "p" -> PutPointer(item)
    [] item.conv = "@" -> described

-----------------------------------------------------------------------------

(* _sys_sprintf_putch: what does not fit is counted.                       *)
Putch(st, ch) ==
  [st EXCEPT !.pos = st.pos + 1,
             !.cells[st.pos] = IF st.size > 0 /\ st.pos < st.size - 1 THEN ch ELSE @]

PutAll(st, text) ==
  LET after[n \in 0 .. Len(text)] == IF n = 0 THEN st ELSE Putch(after[n - 1], text[n])
  IN after[Len(text)]

Fresh(size) == [size |-> size, pos |-> 0, cells |-> [i \in 0 .. Room |-> Unset]]

(* The arguments a caller may pass for a conversion.                       *)
Args(conv, length) ==
  IF length = "" THEN IF conv = "d" THEN -IntTop .. IntTop - 1 ELSE 0 .. 2 * IntTop - 1
  ELSE {a \in LongArgs : IF conv = "d" /\ length = "l" THEN a < LongTop ELSE a >= 0}

Item(c, l, f, w, a) == [conv |-> c, length |-> l, flags |-> f, width |-> w, arg |-> a]
Lengths == {"", "l", "z"}
Arguments == (-IntTop .. 2 * IntTop - 1) \cup LongArgs
AnySpec ==
  {Item(c, l, f, w, a) : c \in Conversions, l \in Lengths, f \in FlagSets, w \in Widths, a \in Arguments}
Specs == {item \in AnySpec : item.arg \in Args(item.conv, item.length)}

Sides == SUBSET {"left"}
AlignedItems == {Item(c, "", f, w, <<"q">>) : c \in Aligning, f \in Sides, w \in Widths}
FixedItems ==
  {Item("lit", "", {}, 0, <<"%">>), Item("@", "", {}, 0, <<>>), Item("p", "", {}, 0, LongTop)}
Others == FixedItems \cup AlignedItems

(* A field between two letters.                                            *)
Lit(c) == Item("lit", "", {}, 0, <<c>>)
Steady == CHOOSE d \in Descriptions : TRUE
FormatOf(item) == <<Lit("<"), item, Lit(">")>>

ASSUME PrintfAssumption ==
  /\ IntTop \in Nat \ {0} /\ LongTop \in Nat \ {0} /\ PointerDigits \in Nat
  /\ Room \in Nat /\ Rooms \subseteq 0 .. Room /\ Widths \subseteq Nat
  /\ LongArgs \subseteq -LongTop .. 2 * LongTop - 1
  /\ Descriptions # {} /\ Descriptions \subseteq Seq(Chars)
  /\ \A item \in Specs \cup Others, d \in Descriptions : Len(Field(item, d)) + 2 <= Room

(* sys_sprintf and its variants.                                           *)
Sprintf(item, size) ==
  /\ job.by = "none"
  /\ job' = [todo |-> FormatOf(item), items |-> FormatOf(item), by |-> "sprintf", moved |-> FALSE]
  /\ sprint' = Fresh(size)
  /\ UNCHANGED measured

(* initWithFormat: and appendStringWithFormat: measure first.              *)
FormatString(item) ==
  /\ job.by = "none"
  /\ job' = [todo |-> FormatOf(item), items |-> FormatOf(item), by |-> "measure", moved |-> FALSE]
  /\ sprint' = Fresh(0)
  /\ UNCHANGED measured

(* An object describes itself anew in each pass, and may answer otherwise. *)
PutItem ==
  /\ job.todo # <<>>
  /\ \E described \in Descriptions :
       /\ sprint' = PutAll(sprint, Field(Head(job.todo), described))
       /\ job' = [job EXCEPT !.todo = Tail(@),
                             !.moved = job.moved \/ (Head(job.todo).conv = "@"
                                                     /\ described # Steady)]
  /\ UNCHANGED measured

(* The terminator goes after the text, or in the last place there is.      *)
Terminate(st) ==
  IF st.size = 0 THEN st
  ELSE [st EXCEPT !.cells[IF st.pos < st.size - 1 THEN st.pos ELSE st.size - 1] = End]

Measured ==
  /\ job.by = "measure" /\ job.todo = <<>>
  /\ measured' = sprint.pos
  /\ sprint' = Fresh(sprint.pos + 1)
  /\ job' = [job EXCEPT !.by = "write", !.todo = job.items]

Formatted ==
  /\ job.by \in {"sprintf", "write"} /\ job.todo = <<>>
  /\ sprint' = Terminate(sprint)
  /\ job' = [job EXCEPT !.by = "done"]
  /\ measured' = IF job.by = "sprintf" THEN sprint.pos ELSE measured

PrintfStep ==
  \/ \E item \in Specs \cup Others :
       FormatString(item) \/ \E size \in Rooms : Sprintf(item, size)
  \/ PutItem \/ Measured \/ Formatted

PrintfSpec == PrintfInit /\ [][PrintfStep]_printfVars

-----------------------------------------------------------------------------
(* What was written of the text: the cells before the terminator.          *)
Finished == job.by = "done"
TextOf(cells) ==
  LET end == CHOOSE i \in 0 .. Room : cells[i] = End /\ \A j \in 0 .. i - 1 : cells[j] # End
  IN [i \in 1 .. end |-> cells[i - 1]]

(* Terminated where the size says and untouched from there on: neither the *)
(* text nor the terminator is ever written past the end of the buffer, and *)
(* the text is cut at the end of it and nowhere else.                      *)
BufferHolds ==
  Finished =>
    /\ \A i \in 0 .. Room : i >= sprint.size => sprint.cells[i] = Unset
    /\ sprint.size > 0 =>
         \E end \in 0 .. sprint.size - 1 :
            /\ sprint.cells[end] = End
            /\ \A j \in 0 .. Room : (j < end) <=> (sprint.cells[j] \notin {End, Unset})
            /\ end = IF sprint.pos < sprint.size THEN sprint.pos ELSE sprint.size - 1

(* The length that a call returns does not depend on the buffer, so that a *)
(* string measured first has the length of its text, unless an object      *)
(* described itself otherwise the second time.                             *)
LengthAgrees ==
  Finished /\ ~job.moved =>
    measured = Len(job.items[1].arg) + Len(job.items[3].arg)
                 + Len(Field(job.items[2], Steady))

(* What stands for the number in a text, and whether it is the argument.   *)
Reads(text, item) ==
  LET notBlank == {i \in DOMAIN text : text[i] # " "}
      first == CHOOSE i \in notBlank : \A j \in notBlank : i <= j
      last == CHOOSE i \in notBlank : \A j \in notBlank : j <= i
      signed == text[first] \in {"-", "+"}
      from == first + (IF signed THEN 1 ELSE 0)
                + (IF "prefix" \notin item.flags /\ item.conv # "p" THEN 0
                   ELSE IF Base(item) \in {2, 16} THEN 2 ELSE IF Base(item) = 8 THEN 1 ELSE 0)
      digit(c) == CHOOSE d \in 0 .. 15 : c \in {Letters[d + 1], Capitals[d + 1]}
      upTo[i \in from - 1 .. last] ==
        IF i = from - 1 THEN 0 ELSE upTo[i - 1] * Base(item) + digit(text[i])
  IN /\ first <= last /\ from <= last
     /\ \A i \in from .. last :
          \E d \in 0 .. Base(item) - 1 : text[i] \in {Letters[d + 1], Capitals[d + 1]}
     /\ (IF signed /\ text[first] = "-" THEN -upTo[last] ELSE upTo[last]) = item.arg
     /\ Len(text) >= item.width

(* A reader of the text gets the number back: blanks, a sign, the prefix   *)
(* that was asked for and digits of the base, whose value is the argument. *)
ReadsBack ==
  Finished /\ sprint.size > sprint.pos /\ job.items[2].conv \in {"d", "u", "x", "X", "b", "o", "p"} =>
    LET text == TextOf(sprint.cells) IN Reads(SubSeq(text, 2, Len(text) - 1), job.items[2])
=============================================================================
