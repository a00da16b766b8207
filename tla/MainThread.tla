----------------------------- MODULE MainThread -----------------------------
(***************************************************************************)
(* The one thread of a program for the Pico that uses the network: lwIP    *)
(* and the CYW43 driver are linked in their poll variant, so every         *)
(* callback runs inside hw_poll or net_poll, below main() or below a call  *)
(* that polls while it waits.  The stack holds the callbacks and blocking  *)
(* calls that have not returned; application code runs in main (the stack  *)
(* is empty) or in the callback on top.                                    *)
(***************************************************************************)
EXTENDS Naturals, Sequences, SequencesExt

CONSTANT MaxDepth  \* a bound on the nesting of callbacks and blocking calls

VARIABLES
  stack,    \* the frames: a callback and what follows it, or a publish
  panicked  \* sys_assert failed and sys_panicf stopped the program

threadVars == <<stack, panicked>>

(* "after" is what the library does when the callback returns.             *)
Callback(event, after) == [kind |-> "callback", event |-> event, after |-> after]

Running == ~panicked
TopIs(kind) == IF stack = <<>> THEN FALSE ELSE Last(stack).kind = kind
InApp == Running /\ (stack # <<>> => TopIs("callback"))

(* Where the application code that runs was called from.                   *)
Here ==
  IF TopIs("callback") THEN Last(stack).event ELSE IF stack = <<>> THEN "main" ELSE "publish"

(* Who may poll: main, or a call that waits.                               *)
Polling ==
  /\ Running
  /\ Len(stack) < MaxDepth
  /\ stack # <<>> => TopIs("publish")

ThreadInit == stack = <<>> /\ panicked = FALSE

CallBack(event, after) ==
  stack' = Append(stack, Callback(event, after)) /\ UNCHANGED panicked

Returning(after) ==
  Running /\ TopIs("callback") /\ Last(stack).after = after

Panic == panicked' = TRUE /\ UNCHANGED stack
=============================================================================
