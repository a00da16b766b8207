------------------------------ MODULE Console -------------------------------
(***************************************************************************)
(* Threads that print (runtime-sys): a main thread starts one worker after *)
(* the other and waits for each with a waitgroup, as the multicore example *)
(* does, and all print lines, character by character, under the mutex of   *)
(* printf.c.  A specifier that is not supported panics inside the line; a  *)
(* panic prints through the same mutex.  On POSIX the mutex checks errors, *)
(* threads are detached and aborting ends them all; on the Pico a worker   *)
(* runs on core 1, which is reset to start the next one.                   *)
(***************************************************************************)
EXTENDS Integers, Sequences

CONSTANTS
  Rounds,         \* workers that are started, one after the other
  LineLength,     \* characters of a line
  Platforms,      \* "posix", "pico"
  BadLines,       \* whether a line may hold an unsupported specifier
  ResetsRunning   \* TRUE: a worker is started while the last one still runs
ASSUME ConsoleAssumption ==
  /\ {Rounds, LineLength} \subseteq Nat \ {0}
  /\ BadLines \subseteq BOOLEAN

VARIABLES
  platform,
  mutex,    \* printf_mutex: init and owner
  actor,    \* what each thread does: pc, at (in its script), left, bad
  working,  \* the waitgroup's counter
  mailbox,  \* what core 0 has sent to core 1
  wrapper,  \* thread_wrapper_t: allocations less frees, for each worker
  row,      \* history: the line that has begun and not ended, and if one was torn
  halted    \* the process is gone (POSIX)

conVars == <<platform, mutex, actor, working, mailbox, wrapper, row, halted>>

Workers == 1 .. Rounds
Main == 0
Actors == Workers \cup {Main}
NoOne == -1

(* core0_task once for each round, and core1_task.                         *)
Script(p) ==
  IF p # Main THEN <<"print", "done", "print", "return">>
  ELSE [i \in 1 .. 6 * Rounds + 1 |->
          IF i = 6 * Rounds + 1 THEN "exit"
          ELSE <<"add", "print", "create", "print", "wait", "print">>[((i - 1) % 6) + 1]]
Round == (actor[Main].at - 1) \div 6 + 1
Op(p) == Script(p)[actor[p].at]

ConsoleInit ==
  /\ platform \in Platforms
  /\ mutex = [init |-> TRUE, owner |-> NoOne]
  /\ actor = [p \in Actors |-> [pc |-> IF p = Main THEN "next" ELSE "none",
                                at |-> 1, left |-> 0, bad |-> FALSE]]
  /\ working = 0 /\ mailbox = <<>> /\ wrapper = [w \in Workers |-> 0]
  /\ row = [of |-> NoOne, torn |-> FALSE] /\ halted = FALSE

Goes(p, pc, left) == [actor EXCEPT ![p].pc = pc, ![p].left = left]
GoesOn(p) == [actor EXCEPT ![p].pc = "next", ![p].at = @ + 1]

-----------------------------------------------------------------------------

(* sys_mutex_lock: false when the mutex is finalized, and on POSIX when    *)
(* the caller holds it; callers do not look.  On the Pico they spin.       *)
LockMutex(p) ==
  \/ ~mutex.init /\ UNCHANGED mutex
  \/ mutex.init /\ mutex.owner = NoOne /\ mutex' = [mutex EXCEPT !.owner = p]
  \/ mutex.init /\ mutex.owner = p /\ platform = "posix" /\ UNCHANGED mutex

(* Nobody locks.                                                           *)
PrintfUnlocked(p) ==
  /\ actor[p].pc = "next" /\ Op(p) = "print"
  /\ actor' = [actor EXCEPT ![p].pc = "put", ![p].left = LineLength, ![p].bad = FALSE]
  /\ UNCHANGED <<platform, mutex, working, mailbox, wrapper, row, halted>>

Printf(p) ==
  /\ actor[p].pc = "next" /\ Op(p) = "print"
  /\ LockMutex(p)
  /\ \E bad \in BadLines :
       actor' = [actor EXCEPT ![p].pc = "put", ![p].left = LineLength, ![p].bad = bad]
  /\ UNCHANGED <<platform, working, mailbox, wrapper, row, halted>>

(* A character goes to the console; the last one ends the line.            *)
PutChar(p) ==
  /\ actor[p].pc \in {"put", "panicput"} /\ actor[p].left > 0
  /\ row' = [of |-> IF actor[p].left = 1 THEN NoOne ELSE p,
              torn |-> row.torn \/ row.of \notin {NoOne, p}
                        \/ (row.of = NoOne /\ actor[p].left < LineLength)]
  /\ actor' = Goes(p, actor[p].pc, actor[p].left - 1)
  /\ UNCHANGED <<platform, mutex, working, mailbox, wrapper, halted>>

(* sys_panicf from within the line: a heading, and then sys_vprintf.       *)
PanicBegin(p) ==
  /\ actor[p].pc = "put" /\ actor[p].left = 0 /\ actor[p].bad
  /\ actor' = Goes(p, "panic", 0)
  /\ UNCHANGED <<platform, mutex, working, mailbox, wrapper, row, halted>>

PanicPrint(p) ==
  /\ actor[p].pc = "panic"
  /\ LockMutex(p)
  /\ actor' = Goes(p, "panicput", LineLength)
  /\ UNCHANGED <<platform, working, mailbox, wrapper, row, halted>>

Unlocked(p) == IF mutex.init /\ mutex.owner = p THEN [mutex EXCEPT !.owner = NoOne] ELSE mutex

EndLine(p) ==
  /\ actor[p].pc = "put" /\ actor[p].left = 0 /\ ~actor[p].bad
  /\ mutex' = Unlocked(p)
  /\ actor' = GoesOn(p)
  /\ UNCHANGED <<platform, working, mailbox, wrapper, row, halted>>

(* sys_abort: the process ends on POSIX, the core stops on the Pico.       *)
Abort(p) ==
  /\ actor[p].pc = "panicput" /\ actor[p].left = 0
  /\ mutex' = Unlocked(p)
  /\ actor' = Goes(p, "dead", 0)
  /\ halted' = (platform = "posix")
  /\ UNCHANGED <<platform, working, mailbox, wrapper, row>>

-----------------------------------------------------------------------------
(* sys_waitgroup_add, before the thread is created.                        *)
AddWork ==
  /\ actor[Main].pc = "next" /\ Op(Main) = "add"
  /\ working' = working + 1
  /\ actor' = GoesOn(Main)
  /\ UNCHANGED <<platform, mutex, mailbox, wrapper, row, halted>>

Over(w) == actor[w].pc \in {"none", "end", "dead", "killed"}

(* sys_thread_create on POSIX: each failure gives the wrapper back and the *)
(* main thread leaves; otherwise the thread owns it.                       *)
CreateThread ==
  /\ actor[Main].pc = "next" /\ Op(Main) = "create" /\ platform = "posix"
  /\ wrapper' = [wrapper EXCEPT ![Round] = @ + 1]
  /\ actor' = [actor EXCEPT ![Round].pc = "wrapper", ![Main].at = @ + 1]
  /\ UNCHANGED <<platform, mutex, working, mailbox, row, halted>>

CreateFails ==
  /\ actor[Main].pc = "next" /\ Op(Main) = "create" /\ platform = "posix"
  /\ actor' = [actor EXCEPT ![Main].at = 6 * Rounds]
  /\ UNCHANGED <<platform, mutex, working, mailbox, wrapper, row, halted>>

(* thread_wrapper.                                                         *)
RunWrapper(w) ==
  /\ actor[w].pc = "wrapper"
  /\ wrapper' = [wrapper EXCEPT ![w] = @ - 1]
  /\ actor' = Goes(w, "next", 0)
  /\ UNCHANGED <<platform, mutex, working, mailbox, row, halted>>

(* sys_thread_create_on_core on the Pico: whatever runs on core 1 is gone, *)
(* and the function and its argument go through the FIFO, in that order.   *)
CreateOnCore ==
  /\ actor[Main].pc = "next" /\ Op(Main) = "create" /\ platform = "pico"
  /\ ResetsRunning \/ \A w \in Workers : Over(w)
  /\ actor' = [p \in Actors |->
                 IF p = Round THEN [actor[p] EXCEPT !.pc = "pop"]
                 ELSE IF p = Main THEN [actor[p] EXCEPT !.pc = "send"]
                 ELSE IF Over(p) THEN actor[p] ELSE [actor[p] EXCEPT !.pc = "killed"]]
  /\ mailbox' = <<"func">>
  /\ UNCHANGED <<platform, mutex, working, wrapper, row, halted>>

SendArg ==
  /\ actor[Main].pc = "send"
  /\ mailbox' = Append(mailbox, "arg")
  /\ actor' = GoesOn(Main)
  /\ UNCHANGED <<platform, mutex, working, wrapper, row, halted>>

(* pico_thread_wrapper pops a function, then its argument.                 *)
PopFifo(w) ==
  /\ actor[w].pc \in {"pop", "poparg"} /\ mailbox # <<>>
  /\ mailbox' = Tail(mailbox)
  /\ actor' = Goes(w, IF actor[w].pc = "pop" THEN "poparg" ELSE "next", 0)
  /\ UNCHANGED <<platform, mutex, working, wrapper, row, halted>>

Done(w) ==
  /\ actor[w].pc = "next" /\ Op(w) = "done"
  /\ working' = working - 1
  /\ actor' = GoesOn(w)
  /\ UNCHANGED <<platform, mutex, mailbox, wrapper, row, halted>>

Return(w) ==
  /\ actor[w].pc = "next" /\ Op(w) = "return"
  /\ actor' = Goes(w, "end", 0)
  /\ UNCHANGED <<platform, mutex, working, mailbox, wrapper, row, halted>>

(* sys_waitgroup_finalize.                                                 *)
WaitWork ==
  /\ actor[Main].pc = "next" /\ Op(Main) = "wait" /\ working = 0
  /\ actor' = GoesOn(Main)
  /\ UNCHANGED <<platform, mutex, working, mailbox, wrapper, row, halted>>

(* sys_exit finalizes the mutex whoever holds it; then main returns on     *)
(* POSIX, and sleeps for ever on the Pico.                                 *)
Exit ==
  /\ actor[Main].pc = "next" /\ Op(Main) = "exit"
  /\ mutex' = [init |-> FALSE, owner |-> NoOne]
  /\ actor' = Goes(Main, "exiting", 0)
  /\ UNCHANGED <<platform, working, mailbox, wrapper, row, halted>>

ReturnMain ==
  /\ actor[Main].pc = "exiting" /\ platform = "posix"
  /\ halted' = TRUE
  /\ UNCHANGED <<platform, mutex, actor, working, mailbox, wrapper, row>>

ActorStep(p) ==
  ~halted /\ (Printf(p) \/ PutChar(p) \/ PanicBegin(p) \/ PanicPrint(p) \/ EndLine(p) \/ Abort(p))

MainStep == ~halted /\ (AddWork \/ CreateThread \/ CreateFails \/ CreateOnCore \/ SendArg
                          \/ WaitWork \/ Exit \/ ReturnMain)

WorkerStep(w) == ~halted /\ (RunWrapper(w) \/ PopFifo(w) \/ Done(w) \/ Return(w))

ConsoleStep == \/ \E p \in Actors : ActorStep(p)
               \/ MainStep
               \/ \E w \in Workers : WorkerStep(w)

-----------------------------------------------------------------------------
Panicking == \E p \in Actors : actor[p].pc \in {"panic", "panicput", "dead"}

(* Lines are whole: whatever the threads print at once, no character of    *)
(* another lands in a line, until the mutex is finalized or a panic prints *)
(* from within a line.                                                     *)
LinesWhole == mutex.init /\ ~Panicking => ~row.torn

(* The thread that holds the console's mutex still runs: no thread ends,   *)
(* and none is reset, in the middle of a line.                             *)
OwnerRuns == mutex.owner # NoOne => actor[mutex.owner].pc \in {"put", "panic", "panicput"}

(* A wrapper is freed once, by the thread it was made for or by whoever    *)
(* failed to create it: none is left when no thread is about to start.     *)
WrapperReturned ==
  \A w \in Workers : wrapper[w] = IF actor[w].pc = "wrapper" THEN 1 ELSE 0

(* A panic ends the process, also when the thread panics while it holds    *)
(* the mutex that the panic prints under.                                  *)
PanicHalts == (platform = "posix" /\ \E p \in Actors : actor[p].pc = "panic") ~> halted
=============================================================================
