------------------------------ MODULE Infrared ------------------------------
(***************************************************************************)
(* runtime-hw/pico/infrared_rx.h and .c: a receiver claims a state machine *)
(* of a PIO, marks the context of that machine and shares a line of        *)
(* interrupts.  The handler of the line runs between any two steps and     *)
(* drains the machine of every marked context.                             *)
(***************************************************************************)
EXTENDS Naturals, FiniteSets

CONSTANTS Machines, Lines, FifoSize
ASSUME InfraredAssumption == Lines \subseteq Nat \ {0} /\ IsFiniteSet(Lines) /\ FifoSize \in Nat

VARIABLES
  marked,   \* machines whose context has a callback
  claimed,  \* machines claimed from the PIO
  line,     \* the line of a machine's context
  taken,    \* lines with an exclusive handler of somebody else
  enabled,  \* lines that are enabled
  fifo,     \* words waiting in a machine
  busy,     \* the call that runs: its step and its machine
  heard     \* history: machines that were drained since they were claimed

irVars == <<marked, claimed, line, taken, enabled, fifo, busy, heard>>

NoLine == 0
NoCall == [at |-> "idle"]
At(step, m) == [at |-> step, machine |-> m]

IrInit ==
  /\ marked = {} /\ claimed = {} /\ line = [m \in Machines |-> NoLine]
  /\ taken = {} /\ enabled = {}
  /\ fifo = [m \in Machines |-> 0]
  /\ busy = NoCall /\ heard = {}

(* The lines of a PIO are tried in order.                                  *)
FreeLines == Lines \ taken
FirstLine == CHOOSE l \in FreeLines : \A k \in FreeLines : l <= k

-----------------------------------------------------------------------------
(* hw_infrared_rx_init: the PIO gives a free machine, and a context that   *)
(* is still marked refuses it.                                             *)
RxClaim(m) ==
  /\ busy = NoCall /\ m \notin claimed
  /\ IF m \in marked THEN UNCHANGED <<claimed, busy, heard>>
     ELSE claimed' = claimed \cup {m} /\ busy' = At("mark", m) /\ heard' = heard \ {m}
  /\ UNCHANGED <<marked, line, taken, enabled, fifo>>

RxMark ==
  /\ busy.at = "mark"
  /\ marked' = marked \cup {busy.machine}
  /\ busy' = [busy EXCEPT !.at = "line"]
  /\ UNCHANGED <<claimed, line, taken, enabled, fifo, heard>>

RxNoLine ==
  /\ busy.at = "line" /\ FreeLines = {}
  /\ marked' = marked \ {busy.machine} /\ claimed' = claimed \ {busy.machine}
  /\ busy' = NoCall
  /\ UNCHANGED <<line, taken, enabled, fifo, heard>>

RxLine ==
  /\ busy.at = "line" /\ FreeLines # {}
  /\ line' = [line EXCEPT ![busy.machine] = FirstLine]
  /\ enabled' = enabled \cup {FirstLine}
  /\ fifo' = [fifo EXCEPT ![busy.machine] = 0]
  /\ busy' = NoCall
  /\ UNCHANGED <<marked, claimed, taken, heard>>

(* hw_infrared_rx_finalize: the line is disabled for everyone on it, then  *)
(* the context is cleared, then the machine is given back.                 *)
RxSilence(m) ==
  /\ busy = NoCall /\ m \in marked
  /\ enabled' = enabled \ {line[m]} /\ line' = [line EXCEPT ![m] = NoLine]
  /\ busy' = At("clear", m)
  /\ UNCHANGED <<marked, claimed, taken, fifo, heard>>

(* Mutation: the machine is given back before the context is cleared.      *)
RxClearLate ==
  /\ busy.at = "clear"
  /\ claimed' = claimed \ {busy.machine}
  /\ busy' = [busy EXCEPT !.at = "release"]
  /\ UNCHANGED <<marked, line, taken, enabled, fifo, heard>>

RxClear ==
  /\ busy.at = "clear"
  /\ marked' = marked \ {busy.machine}
  /\ busy' = [busy EXCEPT !.at = "release"]
  /\ UNCHANGED <<claimed, line, taken, enabled, fifo, heard>>

RxRelease ==
  /\ busy.at = "release"
  /\ claimed' = claimed \ {busy.machine}
  /\ busy' = NoCall
  /\ UNCHANGED <<marked, line, taken, enabled, fifo, heard>>

-----------------------------------------------------------------------------
(* A signal: the machine pushes a word, or drops it when its FIFO is full. *)
Receive(m) ==
  /\ m \in claimed /\ line[m] # NoLine /\ fifo[m] < FifoSize
  /\ fifo' = [fifo EXCEPT ![m] = @ + 1]
  /\ UNCHANGED <<marked, claimed, line, taken, enabled, busy, heard>>

(* _hw_infrared_rx_irq_pio_handler.                                        *)
Interrupt ==
  /\ \E m \in Machines : line[m] \in enabled /\ fifo[m] > 0
  /\ fifo' = [m \in Machines |-> IF m \in marked THEN 0 ELSE fifo[m]]
  /\ heard' = heard \cup marked
  /\ UNCHANGED <<marked, claimed, line, taken, enabled, busy>>

(* Another driver takes a line nobody shares, or gives it back.            *)
TakeLine ==
  /\ \E l \in Lines : /\ \A m \in Machines : line[m] # l
                      /\ taken' = IF l \in taken THEN taken \ {l} ELSE taken \cup {l}
  /\ UNCHANGED <<marked, claimed, line, enabled, fifo, busy, heard>>

IrStep ==
  \/ \E m \in Machines : RxClaim(m) \/ RxSilence(m) \/ Receive(m)
  \/ RxMark \/ RxNoLine \/ RxLine \/ RxClear \/ RxRelease
  \/ Interrupt \/ TakeLine

-----------------------------------------------------------------------------
(* The handler, whenever it runs, reads the machines of this driver only:  *)
(* a context is marked at most as long as its machine is claimed.  And no  *)
(* failed init leaves a mark that would refuse the machine for ever.       *)
ContextBacked ==
  /\ marked \subseteq claimed
  /\ busy = NoCall => marked = claimed
=============================================================================
