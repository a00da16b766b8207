-------------------------------- MODULE Wifi --------------------------------
(***************************************************************************)
(* runtime-hw/pico/wifi.c and NXWireless over the CYW43 driver.  A scan,   *)
(* a connection and a disconnection are started by a call and completed by *)
(* hw_poll, which compares the link status of the driver with the status   *)
(* it saw last.  hw_wifi_t.state is -1 for "none seen yet"; in the driver  *)
(* -1 is CYW43_LINK_FAIL.                                                  *)
(***************************************************************************)
EXTENDS MainThread

CONSTANTS Networks, NoNetwork

VARIABLES
  link,     \* cyw43_tcpip_link_status
  found,    \* the scan of the driver: "idle", "active"
  valid,    \* hw_wifi_valid
  flags,    \* hw_wifi_t.flags
  state,    \* hw_wifi_t.state
  network,  \* hw_wifi_t.network: whose SSID it holds
  reports,  \* hw_wifi_t.ts > 0
  known,    \* NXWireless._network
  asked,    \* history: the network of the last connection attempt
  op        \* history: the accepted request that awaits its event

wifiVars == <<link, found, valid, flags, state, network, reports, known, asked, op>>
driver == <<link, found>>
nx == <<known, asked>>

NoState == "FAIL"
Failures == {"FAIL", "NONET", "BADAUTH"}
Links == {"DOWN", "JOIN", "NOIP", "UP"} \cup Failures

WifiInit ==
  /\ link = "DOWN" /\ found = "idle"
  /\ valid = FALSE /\ flags = {} /\ state = "DOWN"
  /\ network = NoNetwork /\ reports = FALSE
  /\ known = NoNetwork /\ asked = NoNetwork /\ op = "none"

-----------------------------------------------------------------------------
(* Calls of the application.                                               *)

Clear ==
  /\ flags' = {} /\ state' = "DOWN" /\ network' = NoNetwork /\ reports' = FALSE
  /\ op' = "none"

LeaveDriver == link' = IF valid /\ link = "UP" THEN "DOWN" ELSE link

WifiOpen ==
  /\ InApp
  /\ LeaveDriver /\ Clear
  /\ valid' \in {TRUE, FALSE}
  /\ UNCHANGED <<found, nx, threadVars>>

WifiFinalize ==
  /\ InApp /\ valid
  /\ LeaveDriver /\ Clear
  /\ valid' = FALSE
  /\ known' = NoNetwork
  /\ UNCHANGED <<found, asked, threadVars>>

(* Every call asserts that the handle is valid, which the NULL of a failed *)
(* hw_wifi_init is not.                                                    *)
CallInvalid == InApp /\ ~valid /\ Panic /\ UNCHANGED wifiVars

Begin(what) == flags' = flags \cup {what} /\ state' = NoState

Scan ==
  /\ InApp /\ valid /\ flags = {}
  /\ found = "idle" /\ found' = "active"
  /\ Begin("scanning") /\ op' = "scan"
  /\ UNCHANGED <<link, valid, network, reports, nx, threadVars>>

Connect(n) ==
  /\ InApp /\ valid /\ flags = {}
  /\ \/ /\ link' = "JOIN"
        /\ Begin("joining") /\ network' = n
        /\ asked' = n /\ op' = "connect"
     \/ /\ network' = NoNetwork
        /\ UNCHANGED <<link, flags, state, asked, op>>
  /\ UNCHANGED <<found, valid, reports, known, threadVars>>

Disconnect ==
  /\ InApp /\ valid /\ flags = {}
  /\ \/ /\ link # "UP"
        /\ Len(stack) < MaxDepth
        /\ CallBack("disconnected", "forget")
        /\ UNCHANGED <<flags, state, op>>
     \/ /\ link = "UP"
        /\ Begin("leaving") /\ op' = "disconnect"
        /\ UNCHANGED threadVars
  /\ UNCHANGED <<driver, valid, network, reports, nx>>

-----------------------------------------------------------------------------
(* hw_poll.  A callback that is followed by more of the function is left   *)
(* on the stack with the rest to do.                                       *)

Deliver(base, event, after) ==
  stack' = Append(base, Callback(event, after)) /\ UNCHANGED panicked

EndScan(base) ==
  /\ "scanning" \in flags
  /\ \/ found = "active" /\ stack' = base /\ UNCHANGED <<flags, op, panicked>>
     \/ /\ found = "idle"
        /\ flags' = flags \ {"scanning"} /\ op' = "none"
        /\ Deliver(base, "scanned", "none")
  /\ UNCHANGED <<state, network, reports>>

LinkDown(base) ==
  /\ flags' = {} /\ state' = NoState /\ op' = "none"
  /\ Deliver(base, "disconnected", "forget")
  /\ UNCHANGED <<network, reports>>

LinkJoins(base) ==
  /\ flags' = flags \cup {"joining"} /\ state' = link
  /\ Deliver(base, "joining", "none")
  /\ UNCHANGED <<network, reports, op>>

(* Mutation: the event of a connection leaves the joining flag.            *)
LinkUpStaysBusy(base) ==
  /\ state' = NoState /\ reports' = TRUE /\ op' = "none"
  /\ Deliver(base, "connected", "none")
  /\ UNCHANGED <<flags, network>>

LinkUp(base) ==
  \/ /\ "joining" \in flags
     /\ flags' = flags \ {"joining"} /\ state' = NoState /\ op' = "none"
     /\ reports' = TRUE
     /\ Deliver(base, "connected", "none")
     /\ UNCHANGED network
  \/ /\ "joining" \notin flags
     /\ state' = link /\ stack' = base
     /\ UNCHANGED <<flags, op, network, reports, panicked>>

LinkFails(base) ==
  /\ flags' = flags \ {"joining"} /\ state' = NoState /\ op' = "none"
  /\ Deliver(base, "failed", "forgetNetwork")
  /\ UNCHANGED <<network, reports>>

PollRest(base) ==
  /\ \/ /\ flags = {} \/ ("scanning" \notin flags /\ link = state)
        /\ stack' = base
        /\ UNCHANGED <<flags, state, network, reports, op, panicked>>
     \/ EndScan(base)
     \/ /\ flags # {} /\ "scanning" \notin flags /\ link # state
        /\ \/ link = "DOWN" /\ LinkDown(base)
           \/ link = "JOIN" /\ LinkJoins(base)
           \/ /\ link = "NOIP" /\ state' = link /\ stack' = base
              /\ UNCHANGED <<flags, network, reports, op, panicked>>
           \/ link = "UP" /\ LinkUp(base)
           \/ link \in Failures /\ LinkFails(base)
  /\ UNCHANGED <<driver, valid, asked>>

(* Connected: once a minute the network is reported again.                 *)
PollReports ==
  /\ Polling /\ valid /\ reports /\ link = "UP"
  /\ CallBack("connected", "rest")
  /\ known' = network
  /\ UNCHANGED <<link, found, valid, flags, state, network, reports, asked, op>>

(* NXWireless copies the network of a connected event before it tells its  *)
(* delegate.                                                               *)
Learn(base) ==
  known' = IF Len(stack') > Len(base) /\ Last(stack').event = "connected"
           THEN network ELSE known

PollWifi == Polling /\ valid /\ PollRest(stack) /\ Learn(stack)

ReturnRest ==
  Returning("rest") /\ PollRest(Front(stack)) /\ Learn(Front(stack))

(* The failing events clear the network behind their callback, the end of  *)
(* a connection also the copy of NXWireless.                               *)
ReturnForget ==
  /\ Returning("forget") \/ Returning("forgetNetwork")
  /\ network' = NoNetwork
  /\ known' = IF Last(stack).after = "forget" THEN NoNetwork ELSE known
  /\ stack' = Front(stack)
  /\ UNCHANGED <<driver, valid, flags, state, reports, asked, op, panicked>>

ReturnPlain ==
  Returning("none") /\ stack' = Front(stack) /\ UNCHANGED <<wifiVars, panicked>>

-----------------------------------------------------------------------------
(* The driver: results of a scan and its end, and the status of the link.  *)

(* The callback of the scan asserts that the handle is still valid.        *)
ScanResult ==
  /\ Polling /\ found = "active"
  /\ IF valid THEN CallBack("found", "none") ELSE Panic
  /\ UNCHANGED wifiVars

ScanEnds == found = "active" /\ found' = "idle" /\ UNCHANGED <<link, valid, flags, state, network, reports, nx, op, threadVars>>

LinkMoves(to) ==
  /\ \/ link = "JOIN" /\ to \in {"NOIP"} \cup Failures
     \/ link = "NOIP" /\ to \in {"UP", "DOWN"}
     \/ link = "UP" /\ to = "DOWN"
  /\ link' = to
  /\ UNCHANGED <<found, valid, flags, state, network, reports, nx, op, threadVars>>

LinkSettles == Running /\ \/ link \in {"JOIN", "NOIP"} /\ \E to \in Links : LinkMoves(to)
                          \/ "leaving" \in flags /\ LinkMoves("DOWN")

Driver == Running /\ (ScanEnds \/ \E to \in Links : LinkMoves(to))
WifiEvents == PollWifi \/ PollReports \/ ScanResult
WifiReturns == ReturnRest \/ ReturnForget \/ ReturnPlain
=============================================================================
