------------------------------- MODULE Launch -------------------------------
(***************************************************************************)
(* NXApplicationMain (Application/ApplicationMain.m) from the creation of  *)
(* its memory to the release of it, with the signals of                    *)
(* runtime-sys/posix/signal.c that interrupt it anywhere.  The kernel hands*)
(* a signal to the main thread, which stands still while the handler runs. *)
(* The Pico has no signals.  RunLoop has the events of the loop; here it is*)
(* only where main is when a signal comes.                                 *)
(***************************************************************************)
EXTENDS Integers, Sequences, FiniteSets, SequencesExt

CONSTANT Signals  \* TERM, INT and QUIT

ASSUME LaunchAssumption == IsFiniteSet(Signals)

VARIABLES
  posix,     \* there are signals
  plan,      \* what main has still to do
  inRun,     \* where main is inside run
  made,      \* what exists of what main makes and releases
  actions,   \* what the kernel does with each signal
  handler,   \* _sys_env_signal_callback_ex is set
  success,   \* no call of signal failed
  responds,  \* the delegate has applicationReceivedSignal:
  closed,    \* the queue of the application was shut down
  outcome,   \* how the process ended
  told, missed, strayed  \* history: what signals met

launchVars == <<posix, plan, inRun, made, actions, handler, success, responds, closed, outcome,
                told, missed, strayed>>
met == <<told, missed, strayed>>

Do(what, list) == [i \in DOMAIN list |-> [do |-> what, on |-> list[i]]]
InTurn == SetToSeq(Signals)

(* sys_env_signalhandler(0, callback): every signal gets its default, then *)
(* the callback goes, then every signal gets the handler.  The Pico does   *)
(* neither.                                                                *)
Clearing == IF posix THEN Do("default", InTurn) \o Do("forget", <<"callback">>) ELSE <<>>
Installing ==
  IF posix THEN Clearing \o Do("handle", InTurn) \o Do("call", <<"callback">>) ELSE <<>>

Ending ==
  Clearing \o Do("release", <<"watchdog", "power", "app", "delegate", "pool", "zone">>)
           \o Do("exit", <<0>>)

(* Mutation: signals are handled before there is an application.           *)
NXApplicationMainEarly ==
  Installing \o Do("make", <<"zone", "pool", "app", "delegate", "args">>)
  \o Do("enable", <<"watchdog", "power">>) \o Do("run", <<0>>) \o Ending

NXApplicationMain ==
  Do("make", <<"zone", "pool", "app", "delegate", "args">>) \o Installing
  \o Do("enable", <<"watchdog", "power">>) \o Do("run", <<0>>) \o Ending

LaunchInit ==
  /\ posix \in BOOLEAN
  /\ plan = NXApplicationMain
  /\ inRun = "no" /\ made \in {{}, {"defaultZone"}}
  /\ actions = [s \in Signals |-> "default"] /\ handler = FALSE /\ success = TRUE
  /\ responds \in BOOLEAN /\ closed = FALSE /\ outcome = "no"
  /\ told = FALSE /\ missed = FALSE /\ strayed = FALSE

-----------------------------------------------------------------------------
Doing(what) == outcome = "no" /\ inRun = "no" /\ Head(plan).do = what
Target == Head(plan).on
Advance == plan' = Tail(plan)
Zones == made \cap {"zone", "defaultZone"}

(* A zone is made only when there is no default zone, and the class of the *)
(* delegate need not be given.  What cannot be made is a panic.            *)
MakeOne ==
  /\ Doing("make")
  /\ \/ /\ made' = IF Target = "zone" /\ Zones # {} THEN made ELSE made \cup {Target}
        /\ Advance /\ UNCHANGED outcome
     \/ Target = "delegate" /\ Advance /\ UNCHANGED <<made, outcome>>
     \/ ~(Target = "zone" /\ Zones # {}) /\ outcome' = "panic" /\ UNCHANGED <<made, plan>>
  /\ UNCHANGED <<posix, inRun, actions, handler, success, responds, closed, met>>

SetAction ==
  /\ Doing("default") \/ Doing("handle")
  /\ \E ok \in BOOLEAN :
       /\ actions' = IF ok THEN [actions EXCEPT ![Target] = Head(plan).do] ELSE actions
       /\ success' = (success /\ ok)
  /\ Advance
  /\ UNCHANGED <<posix, inRun, made, handler, responds, closed, outcome, met>>

SetHandler ==
  /\ Doing("forget") \/ Doing("call")
  /\ handler' = (Doing("call") /\ success)
  /\ Advance
  /\ UNCHANGED <<posix, inRun, made, actions, success, responds, closed, outcome, met>>

(* The watchdog and the power source, if the application has the capability*)
(* and the board has the device.                                           *)
Enable ==
  /\ Doing("enable")
  /\ made' \in {made, made \cup {Target}}
  /\ Advance
  /\ UNCHANGED <<posix, inRun, actions, handler, success, responds, closed, outcome, met>>

(* The arguments are in the pool, and the application retains them.        *)
ReleaseMade ==
  /\ Doing("release")
  /\ LET rest == made \ {Target}
     IN made' = IF rest \cap {"pool", "app"} = {} THEN rest \ {"args"} ELSE rest
  /\ Advance
  /\ UNCHANGED <<posix, inRun, actions, handler, success, responds, closed, outcome, met>>

ExitMain ==
  /\ Doing("exit")
  /\ outcome' = "returned"
  /\ UNCHANGED <<posix, plan, inRun, made, actions, handler, success, responds, closed, met>>

-----------------------------------------------------------------------------
(* run fails when a timer does not start.                                  *)
EnterRun ==
  /\ Doing("run")
  /\ \/ inRun' = "delegate" /\ UNCHANGED plan
     \/ Advance /\ UNCHANGED inRun
  /\ UNCHANGED <<posix, made, actions, handler, success, responds, closed, outcome, met>>

Move(from, to) == inRun = from /\ inRun' = to

(* The delegate's code runs before the first pop and for the events, and   *)
(* may terminate.  pop takes the queue's mutex, gives it up while it waits,*)
(* and returns nothing once the queue is shut down and empty.              *)
LoopStep ==
  /\ outcome = "no"
  /\ \/ Move("delegate", "pop") /\ closed' \in {closed, TRUE} /\ UNCHANGED plan
     \/ /\ \/ Move("pop", "locked") \/ Move("waiting", "locked") \/ Move("locked", "delegate")
           \/ ~closed /\ Move("locked", "waiting")
        /\ UNCHANGED <<closed, plan>>
     \/ closed /\ Move("locked", "no") /\ Advance /\ UNCHANGED closed
  /\ UNCHANGED <<posix, made, actions, handler, success, responds, outcome, met>>

-----------------------------------------------------------------------------

(* The mutex of the queue checks for errors: who owns it cannot take it    *)
(* again, and sys_event_queue_shutdown returns at once.                    *)
Shuts == inRun # "locked"

(* [app signal:] terminates, unless the delegate has a method of its own,  *)
(* which may do the same.                                                  *)
AppSignal ==
  LET asks == responds /\ "delegate" \in made IN
    /\ told' = (told \/ ~asks)
    /\ \/ closed' = (closed \/ Shuts) /\ missed' = (missed \/ inRun = "locked")
       \/ asks /\ UNCHANGED <<closed, missed>>

(* sharedApplication would make another application if there was none.     *)
HasSharedApplication == "app" \in made

(* _app_handle_signal *)
HandleSignal == AppSignal /\ strayed' = (strayed \/ ~HasSharedApplication)

(* It dies of a signal, hears it, or - with no callback - ignores it.      *)
SignalComes(s) ==
  /\ posix /\ outcome = "no"
  /\ \/ actions[s] = "default" /\ outcome' = "killed" /\ UNCHANGED <<closed, met>>
     \/ actions[s] = "handle" /\ handler /\ HandleSignal /\ UNCHANGED outcome
  /\ UNCHANGED <<posix, plan, inRun, made, actions, handler, success, responds>>

LaunchStep ==
  \/ MakeOne \/ SetAction \/ SetHandler \/ Enable \/ ReleaseMade \/ ExitMain
  \/ EnterRun \/ LoopStep
  \/ \E s \in Signals : SignalComes(s)

LaunchSpec == LaunchInit /\ [][LaunchStep]_launchVars

-----------------------------------------------------------------------------
(* A handler finds the application: the handlers are installed after it was*)
(* made and cleared before it is released, or a signal would make a second *)
(* one.                                                                    *)
HandlerFindsApp == ~strayed

(* What main made is given back in an order in which nothing is left in    *)
(* memory that is gone, whatever failed or was not wanted.                 *)
TornDownInOrder ==
  /\ made \cap {"pool", "app", "delegate", "args"} # {} => Zones # {}
  /\ outcome = "returned" => made \subseteq {"defaultZone"} /\ ~handler

(* A signal that the application handles by default ends its run, unless it*)
(* interrupted main while that held the queue: that signal is lost.        *)
SignalTerminates == told => closed \/ missed

(* A signal would be lost without a trace only while the handlers are being*)
(* installed, or after a call of signal failed.                            *)
NoneIgnored ==
  outcome = "no" /\ ~handler /\ (\E s \in Signals : actions[s] = "handle") =>
    ~success \/ Doing("handle") \/ Doing("call")

(* NXApplicationMain and its signal handler, which may interrupt it        *)
(* anywhere, agree on when there is an application to terminate, and all   *)
(* is given back in order.                                                 *)
LaunchOrderly ==
  /\ HandlerFindsApp
  /\ TornDownInOrder
  /\ SignalTerminates
  /\ NoneIgnored
=============================================================================
