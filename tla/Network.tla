------------------------------- MODULE Network ------------------------------
(***************************************************************************)
(* The NTP client, and the network programs of src/examples over it, Wifi  *)
(* and Mqtt: one thread that calls hw_poll and net_poll, and reacts to     *)
(* what their callbacks report.  A program is the set of calls it makes    *)
(* and where it makes them: in main or in the callback of an event.        *)
(* "visit" is not an example: it calls from the connected callback what    *)
(* the interface allows a delegate to call there.                          *)
(***************************************************************************)
EXTENDS Wifi, Mqtt

-----------------------------------------------------------------------------
(***************************************************************************)
(* runtime-net/pico/ntp.c and NXNetworkTime over the SNTP client of lwIP:  *)
(* net_poll starts and stops the client with the link, and an answer sets  *)
(* the clock unless the delegate objects.                                  *)
(***************************************************************************)

VARIABLES
  listening, \* net_ntp_t.callback # NULL
  ntpState,  \* net_ntp_t.state, -1 for none
  stamped,   \* net_ntp_t.timestamp # 0
  sntp,      \* sntp_enabled
  clock      \* the system's date: "unset" or "set"

ntpVars == <<listening, ntpState, stamped, sntp, clock>>

NtpInit ==
  /\ listening = FALSE /\ ntpState = "DOWN" /\ stamped = FALSE
  /\ sntp = FALSE /\ clock = "unset"

(* net_ntp_init finalizes the handle first.                                *)
NtpOpen ==
  /\ InApp
  /\ sntp' = (sntp /\ ~listening)
  /\ listening' = TRUE /\ ntpState' = NoState /\ stamped' = FALSE
  /\ UNCHANGED <<clock, threadVars>>

NtpFinalize ==
  /\ InApp /\ listening
  /\ sntp' = FALSE
  /\ listening' = FALSE /\ ntpState' = "DOWN" /\ stamped' = FALSE
  /\ UNCHANGED <<clock, threadVars>>

(* _net_ntp_poll, every 30 seconds: only a change of the link matters.     *)
PollNtp ==
  /\ Running /\ stack = <<>> /\ listening
  /\ stamped' = TRUE
  /\ \/ link = ntpState /\ UNCHANGED <<ntpState, sntp>>
     \/ link # ntpState /\ ntpState' = link /\ sntp' = (link = "UP")
  /\ UNCHANGED <<listening, clock, threadVars>>

(* net_ntp_set_date, called by the client, and net_ntp_valid.              *)
TimeAnswers ==
  /\ Polling /\ sntp
  /\ IF listening /\ ntpState # NoState /\ stamped
     THEN CallBack("time", "setClock") ELSE UNCHANGED threadVars
  /\ UNCHANGED ntpVars

(* The delegate agrees, or the date stays.                                 *)
ReturnSetClock ==
  /\ Returning("setClock")
  /\ stack' = Front(stack)
  /\ clock' \in {"set", clock}
  /\ UNCHANGED <<listening, ntpState, stamped, sntp, panicked>>

-----------------------------------------------------------------------------
(* The programs.                                                           *)

CONSTANT Programs  \* which of the programs run

VARIABLE program

vars == <<program, threadVars, wifiVars, mqttVars, ntpVars>>

ScanCalls == {"main"} \X {"wifiOpen", "scan", "wifiFinalize"}
ConnectCalls == {"main"} \X {"wifiOpen", "connect", "disconnect", "wifiFinalize"}
NtpCalls == ConnectCalls \cup ({"main"} \X {"ntpOpen", "ntpFinalize"})
MqttMain == ConnectCalls \cup ({"main"} \X {"mqttOpen", "publish", "mqttDisconnect"})
MqttDelegate ==
  {<<"connected", "mqttConnect">>, <<"connected", "publish">>,
   <<"disconnected", "mqttDisconnect">>}
VisitCalls == ConnectCalls \cup {"connected"} \X {"scan", "disconnect", "wifiFinalize"}

Calls ==
  [scan |-> ScanCalls, connect |-> ConnectCalls, ntp |-> NtpCalls,
   mqtt |-> MqttMain \cup MqttDelegate, visit |-> VisitCalls]

May(call) == <<Here, call>> \in Calls[program]

ASSUME NetworkAssumption == Programs \subseteq DOMAIN Calls /\ MaxDepth \in Nat

Init ==
  /\ program \in Programs
  /\ ThreadInit /\ WifiInit /\ MqttInit /\ NtpInit

CallWifi ==
  \/ May("wifiOpen") /\ ~valid /\ WifiOpen
  \/ May("wifiFinalize") /\ WifiFinalize
  \/ May("scan") /\ Scan
  \/ May("connect") /\ (CallInvalid \/ \E n \in Networks : Connect(n))
  \/ May("disconnect") /\ Disconnect

CallMqtt ==
  \/ May("mqttOpen") /\ (MqttOpen \/ MqttFinalize)
  \/ May("mqttConnect") /\ (MqttConnect \/ CallNoClient)
  \/ May("mqttDisconnect") /\ MqttDisconnect
  \/ May("publish") /\ MqttPublish

CallNtp == (May("ntpOpen") /\ NtpOpen) \/ (May("ntpFinalize") /\ NtpFinalize)

WifiStep == CallWifi \/ WifiEvents \/ WifiReturns \/ Driver
MqttStep == CallMqtt \/ MqttEvents \/ MqttReturns
NtpStep == CallNtp \/ PollNtp \/ TimeAnswers \/ ReturnSetClock

Next ==
  /\ UNCHANGED program
  /\ \/ WifiStep /\ UNCHANGED <<mqttVars, ntpVars>>
     \/ MqttStep /\ UNCHANGED <<wifiVars, ntpVars>>
     \/ NtpStep /\ UNCHANGED <<wifiVars, mqttVars>>

Spec == Init /\ [][Next]_vars

Only(A) == A /\ UNCHANGED program
WifiOnly(A) == Only(A) /\ UNCHANGED <<mqttVars, ntpVars>>
MqttOnly(A) == Only(A) /\ UNCHANGED <<wifiVars, ntpVars>>

(* main polls again and again, callbacks return however many calls they    *)
(* make, the driver and the broker answer.                                 *)
Fairness ==
  /\ SF_vars(WifiOnly(WifiReturns)) /\ SF_vars(MqttOnly(MqttReturns))
  /\ SF_vars(Only(ReturnSetClock) /\ UNCHANGED <<wifiVars, mqttVars>>)
  /\ WF_vars(WifiOnly(LinkSettles)) /\ WF_vars(WifiOnly(ScanEnds))
  /\ SF_vars(WifiOnly(PollWifi))
  /\ SF_vars(MqttOnly(DnsAnswers)) /\ SF_vars(MqttOnly(Accepted \/ Refused))
  /\ \A i \in 1 .. MaxDepth : SF_vars(MqttOnly(PublishAnswered(i)))

FairSpec == Spec /\ Fairness

-----------------------------------------------------------------------------
Events == {"found", "scanned", "joining", "connected", "disconnected", "failed",
           "mqttUp", "mqttFailed", "mqttDown", "time"}
Afters == {"none", "rest", "forget", "forgetNetwork", "freeServer", "setClock"}
Frames == [kind : {"callback"}, event : Events, after : Afters]
          \cup [kind : {"publish"}, err : {"pending", "done"}]

TypeOK ==
  /\ stack \in Seq(Frames)
  /\ Len(stack) <= MaxDepth
  /\ link \in Links /\ state \in Links /\ ntpState \in Links
  /\ flags \subseteq {"scanning", "joining", "leaving"}
  /\ {network, known, asked} \subseteq Networks \cup {NoNetwork}
  /\ conn \in {"off", "connecting", "up"}
  /\ requests \subseteq 1 .. MaxDepth

(* The driver is busy exactly as long as an accepted request awaits its    *)
(* event: every scan, connection and disconnection ends in one event of    *)
(* its own, and no event ends a request nobody made.                       *)
BusyMatches ==
  flags = CASE op = "none" -> {}
            [] op = "scan" -> {"scanning"}
            [] op = "connect" -> {"joining"}
            [] op = "disconnect" -> {"leaving"}

(* What a connection will report is the network that was asked for, and    *)
(* not one an earlier attempt left or cleared.                             *)
NetworkKept == "joining" \in flags => network = asked

(* A pending publish points into a call that still waits for it.           *)
RequestsLive == \A i \in requests : i <= Len(stack) /\ stack[i] = Publish("pending")

(* The strings given to lwIP live while an attempt or a connection may     *)
(* read them.                                                              *)
ServerKept == resolving \/ conn # "off" => server

(* The strings are freed with the server they were copied for: no refusal, *)
(* time-out, loss, failed copy or finalize keeps one or frees one twice.   *)
StringsFreed == heap = IF server THEN Strings ELSE 0

(* The time client runs for a live handle that has seen the link up, and   *)
(* for no other.                                                           *)
SntpFollows == sntp <=> listening /\ ntpState = "UP"

Unseen == flags = {"joining"} /\ link = NoState /\ state = NoState

(* Every request of the application is answered.  The exception is a       *)
(* failure that comes before a poll has seen the attempt begin: its status *)
(* is the -1 the code takes for "no status yet".                           *)
RequestsAnswered == op # "none" ~> (op = "none" \/ Unseen \/ panicked)

(* Every accepted net_mqtt_connect reports how it ended.                   *)
AttemptAnswered == attempt ~> (~attempt \/ panicked)

Waits(i) == i <= Len(stack) /\ stack[i] = Publish("pending")

(* A publish returns, unless the connection ends under it: lwIP forgets    *)
(* the request and nobody writes the result it waits for.                  *)
PublishEnds ==
  \A i \in 1 .. MaxDepth : i \in requests ~> (~Waits(i) \/ conn # "up" \/ panicked)

(* The flags and the handles of the wifi and time clients follow the       *)
(* requests that are under way, through callbacks that make the next       *)
(* request.                                                                *)
RequestsKept ==
  /\ TypeOK
  /\ BusyMatches
  /\ NetworkKept
  /\ SntpFollows

(* What lwIP was given a pointer to, the strings of the MQTT server and    *)
(* the result of a publish, is there as long as it may be used, and is     *)
(* freed once.                                                             *)
StringsKept ==
  /\ RequestsLive
  /\ ServerKept
  /\ StringsFreed

(* Each request to the wifi and MQTT clients is answered in the end.       *)
EverythingEnds ==
  /\ RequestsAnswered
  /\ AttemptAnswered
  /\ PublishEnds
=============================================================================
