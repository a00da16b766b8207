---------------------------- MODULE NetworkProofs ----------------------------
(***************************************************************************)
(* The requests of the wifi and time clients and the strings and results   *)
(* that lwIP holds pointers to, for any networks and any nesting of        *)
(* callbacks.                                                              *)
(***************************************************************************)
EXTENDS Network, SequenceTheorems, TLAPS

Forgets == {"forget", "forgetNetwork"}

(* The frames are what they are and the requests point to calls that wait. *)
StackOK ==
  /\ stack \in Seq(Frames) /\ Len(stack) <= MaxDepth
  /\ requests \subseteq 1 .. MaxDepth /\ RequestsLive

(* No callback that waits is the one that will clear the network of an     *)
(* attempt: an attempt begins in main, below nothing.                      *)
NothingForgets ==
  "joining" \in flags =>
    \A i \in 1 .. Len(stack) : stack[i].kind = "callback" => stack[i].after \notin Forgets

(* The callback behind which the strings are freed is the innermost, and   *)
(* it makes no call: nothing can begin to use them.                        *)
FreesLast ==
  \A i \in 1 .. Len(stack) :
    stack[i].kind = "callback" /\ stack[i].after = "freeServer" =>
      /\ i = Len(stack) /\ stack[i].event \in {"mqttFailed", "mqttDown"}
      /\ conn = "off" /\ ~resolving

StackInv == StackOK /\ NothingForgets /\ FreesLast

(* The flags say what is under way, and a link is left only while it is up *)
(* or down.                                                                *)
WifiInv ==
  /\ link \in Links /\ state \in Links
  /\ flags \subseteq {"scanning", "joining", "leaving"}
  /\ {network, known, asked} \subseteq Networks \cup {NoNetwork}
  /\ op \in {"none", "scan", "connect", "disconnect"} /\ BusyMatches
  /\ "leaving" \in flags => link \in {"UP", "DOWN"}
  /\ NetworkKept

(* The resolver is asked by an attempt, before lwIP connects.              *)
MqttInv ==
  /\ conn \in {"off", "connecting", "up"}
  /\ ServerKept /\ StringsFreed
  /\ resolving => attempt /\ conn = "off"

NtpInv == ntpState \in Links /\ SntpFollows

NetInv == program \in Programs /\ StackInv /\ WifiInv /\ MqttInv /\ NtpInv

-----------------------------------------------------------------------------
(* What a call is pushed onto, or a return leaves: no frame in it frees    *)
(* the strings.                                                            *)
Base(s) ==
  /\ s \in Seq(Frames) /\ Len(s) < MaxDepth
  /\ \A i \in 1 .. Len(s) :
       s[i].kind = "callback" =>
         /\ s[i].after # "freeServer"
         /\ "joining" \in flags => s[i].after \notin Forgets
  /\ \A i \in requests : i <= Len(s) /\ s[i] = Publish("pending")

(* The end of a stack is taken off.                                        *)
LEMMA FrontFacts ==
  ASSUME NEW S, NEW s \in Seq(S), s # <<>>
  PROVE  /\ Front(s) \in Seq(S) /\ Len(Front(s)) = Len(s) - 1 /\ Len(s) \in Nat \ {0}
         /\ \A i \in 1 .. Len(s) - 1 : Front(s)[i] = s[i]
<1>1. Len(s) \in Nat /\ Len(s) # 0
  BY EmptySeq
<1>2. 1 \in 1 .. Len(s) + 1 /\ Len(s) - 1 \in 1 - 1 .. Len(s)
  BY <1>1
<1>3. /\ SubSeq(s, 1, Len(s) - 1) \in Seq(S)
      /\ Len(SubSeq(s, 1, Len(s) - 1)) = IF 1 <= Len(s) - 1 THEN (Len(s) - 1) - 1 + 1 ELSE 0
      /\ \A i \in 1 .. (Len(s) - 1) - 1 + 1 : SubSeq(s, 1, Len(s) - 1)[i] = s[1 + i - 1]
  BY <1>2, SubSeqProperties
<1>4. Len(Front(s)) = Len(s) - 1
  <2>1. \A n \in Nat \ {0} : (IF 1 <= n - 1 THEN (n - 1) - 1 + 1 ELSE 0) = n - 1
    OBVIOUS
  <2>. QED BY <1>1, <1>3, <2>1 DEF Front
<1>5. \A i \in 1 .. Len(s) - 1 : i \in 1 .. (Len(s) - 1) - 1 + 1 /\ 1 + i - 1 = i
  BY <1>1
<1>6. \A i \in 1 .. Len(s) - 1 : Front(s)[i] = s[i]
  <2>. SUFFICES ASSUME NEW i \in 1 .. Len(s) - 1 PROVE Front(s)[i] = s[i]
    OBVIOUS
  <2>1. SubSeq(s, 1, Len(s) - 1)[i] = s[1 + i - 1] /\ 1 + i - 1 = i
    BY ONLY <1>3, <1>5, i \in 1 .. Len(s) - 1
  <2>. QED BY <2>1 DEF Front
<1>. QED BY <1>1, <1>3, <1>4, <1>6 DEF Front

(* The frames of a stack below a new one.                                  *)
LEMMA PushFacts ==
  ASSUME NEW S, NEW s \in Seq(S), NEW e \in S
  PROVE  /\ Append(s, e) \in Seq(S) /\ Len(Append(s, e)) = Len(s) + 1 /\ Len(s) \in Nat
         /\ \A i \in 1 .. Len(s) : Append(s, e)[i] = s[i]
         /\ Append(s, e)[Len(s) + 1] = e
  BY AppendProperties

(* Whoever polls is main or a call that waits.                             *)
LEMMA PollingBase ==
  ASSUME NetInv, Polling
  PROVE  Base(stack)
<1>1. /\ stack \in Seq(Frames) /\ Len(stack) \in Nat /\ Len(stack) < MaxDepth
      /\ stack = <<>> => Len(stack) = 0
  BY EmptySeq DEF NetInv, StackInv, StackOK, Polling
<1>3. ASSUME NEW i \in 1 .. Len(stack), stack[i].kind = "callback" PROVE stack[i].after # "freeServer"
  <2>1. stack # <<>>
    BY <1>1
  <2>2. stack[Len(stack)].kind = "publish"
    BY <2>1 DEF Polling, TopIs, Last
  <2>. QED BY <1>3, <2>2 DEF NetInv, StackInv, FreesLast
<1>4. "joining" \in flags =>
        \A i \in 1 .. Len(stack) : stack[i].kind = "callback" => stack[i].after \notin Forgets
  BY DEF NetInv, StackInv, NothingForgets
<1>5. \A i \in requests : i <= Len(stack) /\ stack[i] = Publish("pending")
  BY DEF NetInv, StackInv, StackOK, RequestsLive
<1>. QED BY <1>1, <1>3, <1>4, <1>5 DEF Base

(* A callback that makes a call does not free the strings.                 *)
LEMMA CallerBase ==
  ASSUME NetInv, InApp, Len(stack) < MaxDepth, Here \in {"main", "connected", "disconnected"}
  PROVE  Base(stack)
<1>1. /\ stack \in Seq(Frames) /\ Len(stack) \in Nat
      /\ stack = <<>> => Len(stack) = 0
  BY EmptySeq DEF NetInv, StackInv, StackOK
<1>3. ASSUME NEW i \in 1 .. Len(stack), stack[i].kind = "callback" PROVE stack[i].after # "freeServer"
  <2>1. stack # <<>>
    BY <1>1
  <2>2. stack[Len(stack)].event \in {"main", "connected", "disconnected"}
    BY <2>1 DEF InApp, Here, TopIs, Last
  <2>. QED BY <1>3, <2>2 DEF NetInv, StackInv, FreesLast
<1>4. "joining" \in flags =>
        \A i \in 1 .. Len(stack) : stack[i].kind = "callback" => stack[i].after \notin Forgets
  BY DEF NetInv, StackInv, NothingForgets
<1>5. \A i \in requests : i <= Len(stack) /\ stack[i] = Publish("pending")
  BY DEF NetInv, StackInv, StackOK, RequestsLive
<1>. QED BY <1>1, <1>3, <1>4, <1>5 DEF Base

(* Below a callback that returns, or a publish that was answered.          *)
LEMMA ReturnBase ==
  ASSUME NetInv, stack # <<>>, Last(stack) # Publish("pending")
  PROVE  Base(Front(stack))
<1>. DEFINE b == Front(stack)
<1>1. /\ stack \in Seq(Frames) /\ Len(stack) <= MaxDepth
      /\ b \in Seq(Frames) /\ Len(b) = Len(stack) - 1 /\ Len(stack) \in Nat \ {0}
      /\ \A i \in 1 .. Len(b) : b[i] = stack[i]
  BY FrontFacts DEF NetInv, StackInv, StackOK
<1>2. \A i \in 1 .. Len(b) : i \in 1 .. Len(stack) /\ i # Len(stack)
  BY <1>1
<1>4. \A i \in 1 .. Len(b) : b[i].kind = "callback" => b[i].after # "freeServer"
  BY <1>1, <1>2 DEF NetInv, StackInv, FreesLast
<1>5. "joining" \in flags => \A i \in 1 .. Len(b) : b[i].kind = "callback" => b[i].after \notin Forgets
  BY <1>1, <1>2 DEF NetInv, StackInv, NothingForgets
<1>6. ASSUME NEW i \in requests PROVE i <= Len(b) /\ b[i] = Publish("pending")
  <2>1. i \in Nat /\ i >= 1 /\ i <= Len(stack) /\ stack[i] = Publish("pending")
    BY DEF NetInv, StackInv, StackOK, RequestsLive
  <2>2. i # Len(stack)
    BY <2>1 DEF Last
  <2>. QED BY <1>1, <2>1, <2>2
<1>7. Len(b) < MaxDepth
  BY <1>1, NetworkAssumption
<1>. QED BY <1>1, <1>4, <1>5, <1>6, <1>7 DEF Base

(* A step that leaves a base.                                              *)
LEMMA StackLeft ==
  ASSUME NetInv, NEW b, Base(b), requests' \subseteq requests, stack' = b,
         "joining" \in flags' => "joining" \in flags
  PROVE  StackInv'
<1>1. /\ b \in Seq(Frames) /\ Len(b) \in Nat /\ Len(b) < MaxDepth /\ MaxDepth \in Nat
      /\ requests' \subseteq 1 .. MaxDepth
  BY NetworkAssumption, LenProperties DEF Base, NetInv, StackInv, StackOK
<1>2. /\ \A i \in 1 .. Len(b) :
           b[i].kind = "callback" =>
             /\ b[i].after # "freeServer"
             /\ "joining" \in flags' => b[i].after \notin Forgets
      /\ \A i \in requests' : i <= Len(b) /\ b[i] = Publish("pending")
  BY DEF Base
<1>3. StackOK'
  BY <1>1, <1>2 DEF StackOK, RequestsLive
<1>. QED BY <1>2, <1>3 DEF StackInv, NothingForgets, FreesLast

(* A step that pushes a callback onto a base.                              *)
Pushes(b, event, after) ==
  /\ Base(b) /\ stack' = Append(b, Callback(event, after))
  /\ requests' \subseteq requests /\ ("joining" \in flags' => "joining" \in flags)
  /\ after = "freeServer" => event \in {"mqttFailed", "mqttDown"} /\ conn' = "off" /\ ~resolving'
  /\ after \in Forgets => "joining" \notin flags'

LEMMA StackCalls ==
  ASSUME NetInv, NEW b, NEW event \in Events, NEW after \in Afters, Pushes(b, event, after)
  PROVE  StackInv'
<1>. USE DEF Pushes
<1>1. /\ b \in Seq(Frames) /\ Len(b) \in Nat /\ Len(b) < MaxDepth /\ MaxDepth \in Nat
      /\ requests' \subseteq 1 .. MaxDepth
  BY NetworkAssumption, LenProperties DEF Base, NetInv, StackInv, StackOK
<1>2. /\ \A i \in 1 .. Len(b) :
           b[i].kind = "callback" =>
             /\ b[i].after # "freeServer"
             /\ "joining" \in flags' => b[i].after \notin Forgets
      /\ \A i \in requests' : i <= Len(b) /\ b[i] = Publish("pending")
  BY DEF Base
<1>. DEFINE e == Callback(event, after)
<1>3. e \in Frames /\ e.kind = "callback" /\ e.event = event /\ e.after = after
  BY DEF Frames, Callback
<1>4. /\ stack' \in Seq(Frames) /\ Len(stack') = Len(b) + 1
      /\ \A i \in 1 .. Len(b) : stack'[i] = b[i]
      /\ stack'[Len(b) + 1] = e
  BY <1>1, <1>3, PushFacts
<1>. HIDE DEF e
<1>5. \A i \in 1 .. Len(stack') : i \in 1 .. Len(b) \/ i = Len(stack')
  BY <1>1, <1>4
<1>6. StackOK'
  <2>2. \A i \in requests' : i \in 1 .. Len(b) /\ i <= Len(stack')
    BY <1>1, <1>2, <1>4
  <2>. QED BY <1>1, <1>2, <1>4, <2>2 DEF StackOK, RequestsLive
<1>7. NothingForgets'
  BY <1>2, <1>3, <1>4, <1>5 DEF NothingForgets
<1>8. FreesLast'
  BY <1>2, <1>3, <1>4, <1>5 DEF FreesLast
<1>. QED BY <1>6, <1>7, <1>8 DEF StackInv

(* A step that leaves the stack alone.                                     *)
LEMMA StackStays ==
  ASSUME NetInv, UNCHANGED <<stack, requests, conn, resolving>>,
         "joining" \in flags' => "joining" \in flags \/ stack = <<>>
  PROVE  StackInv'
<1>1. StackOK' /\ FreesLast'
  BY DEF NetInv, StackInv, StackOK, RequestsLive, FreesLast
<1>2. NothingForgets'
  <2>1. stack = <<>> => Len(stack) = 0
    BY EmptySeq DEF NetInv, StackInv, StackOK
  <2>. QED BY <2>1 DEF NetInv, StackInv, NothingForgets
<1>. QED BY <1>1, <1>2 DEF StackInv

(* Where the programs make their calls.                                    *)
LEMMA Callers ==
  ASSUME NetInv, NEW call, May(call)
  PROVE  /\ Here \in {"main", "connected", "disconnected"}
         /\ call \in {"connect", "wifiOpen", "mqttOpen"} => Here = "main"
<1>1. program \in {"scan", "connect", "ntp", "mqtt", "visit"}
  BY NetworkAssumption DEF NetInv, Calls
<1>2. <<Here, call>> \in Calls[program]
  BY DEF May
<1>. QED BY <1>1, <1>2 DEF Calls, ScanCalls, ConnectCalls, NtpCalls, MqttMain, MqttDelegate, VisitCalls

-----------------------------------------------------------------------------
(* The clients share no variables.                                         *)
LEMMA OthersStay ==
  ASSUME NetInv, UNCHANGED <<mqttVars, ntpVars>>
  PROVE  MqttInv' /\ NtpInv'
  BY DEF NetInv, MqttInv, NtpInv, mqttVars, ntpVars, ServerKept, StringsFreed, SntpFollows

(* The calls of the wifi client.                                           *)
LEMMA ClearKeeps ==
  ASSUME NetInv, UNCHANGED <<program, mqttVars, ntpVars, threadVars>>,
         Clear, LeaveDriver, known' \in {known, NoNetwork}, UNCHANGED <<asked>>
  PROVE  NetInv'
<1>1. StackInv'
  BY StackStays DEF Clear, mqttVars, threadVars
<1>2. WifiInv'
  BY DEF NetInv, WifiInv, Clear, LeaveDriver, Links, Failures, BusyMatches, NetworkKept
<1>3. MqttInv' /\ NtpInv'
  BY OthersStay
<1>. QED BY <1>1, <1>2, <1>3 DEF NetInv

LEMMA ScanKeeps ==
  ASSUME NetInv, UNCHANGED <<program, mqttVars, ntpVars>>, Scan
  PROVE  NetInv'
<1>1. StackInv'
  BY StackStays DEF Scan, Begin, mqttVars, threadVars
<1>2. WifiInv'
  BY DEF NetInv, WifiInv, Scan, Begin, nx, NoState, Links, Failures, BusyMatches, NetworkKept
<1>3. MqttInv' /\ NtpInv'
  BY OthersStay
<1>. QED BY <1>1, <1>2, <1>3 DEF NetInv

LEMMA ConnectKeeps ==
  ASSUME NetInv, UNCHANGED <<program, mqttVars, ntpVars>>, May("connect"), NEW n \in Networks, Connect(n)
  PROVE  NetInv'
<1>1. stack = <<>>
  <2>1. Here = "main"
    BY Callers
  <2>2. stack \in Seq(Frames) /\ (stack # <<>> => Len(stack) \in 1 .. Len(stack))
    BY EmptySeq, LenProperties DEF NetInv, StackInv, StackOK
  <2>3. stack # <<>> => stack[Len(stack)] \in Frames
    BY <2>2
  <2>. QED BY <2>1, <2>3 DEF Here, TopIs, Last, Frames, Events
<1>2. StackInv'
  BY <1>1, StackStays DEF Connect, mqttVars, threadVars
<1>3. WifiInv'
  BY DEF NetInv, WifiInv, Connect, Begin, nx, NoState, Links, Failures, BusyMatches, NetworkKept
<1>4. MqttInv' /\ NtpInv'
  BY OthersStay
<1>. QED BY <1>2, <1>3, <1>4 DEF NetInv


(* A link that is down is reported at once, before disconnect returns.     *)
LEMMA DisconnectKeeps ==
  ASSUME NetInv, UNCHANGED <<program, mqttVars, ntpVars>>, May("disconnect"), Disconnect
  PROVE  NetInv'
<1>1. StackInv'
  <2>1. CASE link # "UP"
    <3>1. /\ InApp /\ Len(stack) < MaxDepth /\ UNCHANGED <<flags, requests>> /\ flags = {}
          /\ stack' = Append(stack, Callback("disconnected", "forget"))
      BY <2>1 DEF Disconnect, CallBack, mqttVars
    <3>2. Base(stack)
      BY <3>1, CallerBase, Callers
    <3>8. Pushes(stack, "disconnected", "forget")
      BY <3>1, <3>2 DEF Pushes, Forgets
    <3>. QED BY <3>8, StackCalls DEF Events, Afters
  <2>2. CASE link = "UP"
    BY <2>2, StackStays DEF Disconnect, Begin, mqttVars, threadVars
  <2>. QED BY <2>1, <2>2
<1>2. WifiInv'
  BY DEF NetInv, WifiInv, Disconnect, Begin, nx, driver, NoState, Links, Failures, BusyMatches, NetworkKept
<1>3. MqttInv' /\ NtpInv'
  BY OthersStay
<1>. QED BY <1>1, <1>2, <1>3 DEF NetInv

-----------------------------------------------------------------------------
(* hw_poll, on what is left when a callback has returned or nothing has    *)
(* been reported yet.                                                      *)
LEMMA PollKeeps ==
  ASSUME NetInv, UNCHANGED <<program, mqttVars, ntpVars>>,
         NEW b, Base(b), PollRest(b), Learn(b)
  PROVE  NetInv'
<1>1. known' \in {known, network} /\ UNCHANGED <<asked, requests, link>>
  BY DEF Learn, PollRest, mqttVars, driver
<1>2. CASE stack' = b /\ UNCHANGED <<flags, network, op>> /\ state' \in {state, link}
  <2>1. StackInv'
    BY <1>1, <1>2, StackLeft
  <2>2. WifiInv'
    BY <1>1, <1>2 DEF NetInv, WifiInv, BusyMatches, NetworkKept
  <2>. QED BY <2>1, <2>2, OthersStay DEF NetInv
<1>3. CASE EndScan(b)
  <2>1. CASE found = "active"
    BY <1>2, <1>3, <2>1 DEF EndScan
  <2>2. CASE found = "idle"
    <3>1. /\ "scanning" \in flags /\ flags' = flags \ {"scanning"} /\ op' = "none"
          /\ stack' = Append(b, Callback("scanned", "none")) /\ UNCHANGED <<state, network>>
      BY <1>3, <2>2 DEF EndScan, Deliver
    <3>2. StackInv'
      <4>1. Pushes(b, "scanned", "none")
        BY <1>1, <3>1 DEF Pushes, Forgets
      <4>. QED BY <4>1, StackCalls DEF Events, Afters
    <3>3. WifiInv'
      BY <1>1, <3>1 DEF NetInv, WifiInv, BusyMatches, NetworkKept
    <3>. QED BY <3>2, <3>3, OthersStay DEF NetInv
  <2>. QED BY <1>3, <2>1, <2>2 DEF EndScan
<1>4. CASE link = "DOWN" /\ LinkDown(b)
  <2>1. /\ flags' = {} /\ op' = "none" /\ state' = NoState /\ UNCHANGED network
        /\ stack' = Append(b, Callback("disconnected", "forget"))
    BY <1>4 DEF LinkDown, Deliver
  <2>2. StackInv'
    <3>1. Pushes(b, "disconnected", "forget")
      BY <1>1, <2>1 DEF Pushes, Forgets
    <3>. QED BY <3>1, StackCalls DEF Events, Afters
  <2>3. WifiInv'
    BY <1>1, <2>1 DEF NetInv, WifiInv, BusyMatches, NetworkKept, NoState, Links, Failures
  <2>. QED BY <2>2, <2>3, OthersStay DEF NetInv
<1>5. CASE flags # {} /\ "scanning" \notin flags /\ link = "JOIN" /\ LinkJoins(b)
  <2>1. flags = {"joining"}
    BY <1>5 DEF NetInv, WifiInv, BusyMatches
  <2>2. /\ flags' = flags /\ state' = link /\ UNCHANGED <<network, op>>
        /\ stack' = Append(b, Callback("joining", "none"))
    BY <1>5, <2>1 DEF LinkJoins, Deliver
  <2>3. StackInv'
    <3>1. Pushes(b, "joining", "none")
      BY <1>1, <2>2 DEF Pushes, Forgets
    <3>. QED BY <3>1, StackCalls DEF Events, Afters
  <2>4. WifiInv'
    BY <1>1, <2>2 DEF NetInv, WifiInv, BusyMatches, NetworkKept
  <2>. QED BY <2>3, <2>4, OthersStay DEF NetInv
<1>6. CASE LinkUp(b)
  <2>1. CASE "joining" \in flags
    <3>1. /\ flags' = flags \ {"joining"} /\ state' = NoState /\ op' = "none"
          /\ UNCHANGED network
          /\ stack' = Append(b, Callback("connected", "none"))
      BY <1>6, <2>1 DEF LinkUp, Deliver
    <3>2. StackInv'
      <4>1. Pushes(b, "connected", "none")
        BY <1>1, <3>1 DEF Pushes, Forgets
      <4>. QED BY <4>1, StackCalls DEF Events, Afters
    <3>3. WifiInv'
      BY <1>1, <2>1, <3>1 DEF NetInv, WifiInv, BusyMatches, NetworkKept, NoState, Links, Failures
    <3>. QED BY <3>2, <3>3, OthersStay DEF NetInv
  <2>2. CASE "joining" \notin flags
    BY <1>2, <1>6, <2>2 DEF LinkUp
  <2>. QED BY <2>1, <2>2
<1>7. CASE flags # {} /\ "scanning" \notin flags /\ link \in Failures /\ LinkFails(b)
  <2>1. flags = {"joining"}
    BY <1>7 DEF NetInv, WifiInv, BusyMatches, Failures
  <2>2. /\ flags' = {} /\ state' = NoState /\ op' = "none" /\ UNCHANGED network
        /\ stack' = Append(b, Callback("failed", "forgetNetwork"))
    BY <1>7, <2>1 DEF LinkFails, Deliver
  <2>3. StackInv'
    <3>1. Pushes(b, "failed", "forgetNetwork")
      BY <1>1, <2>2 DEF Pushes, Forgets
    <3>. QED BY <3>1, StackCalls DEF Events, Afters
  <2>4. WifiInv'
    BY <1>1, <2>2 DEF NetInv, WifiInv, BusyMatches, NetworkKept, NoState, Links, Failures
  <2>. QED BY <2>3, <2>4, OthersStay DEF NetInv
<1>. QED BY <1>2, <1>3, <1>4, <1>5, <1>6, <1>7 DEF PollRest

LEMMA PollReportsKeeps ==
  ASSUME NetInv, UNCHANGED <<program, mqttVars, ntpVars>>, PollReports
  PROVE  NetInv'
<1>1. /\ Polling /\ known' = network /\ UNCHANGED <<link, flags, state, network, asked, op, requests>>
      /\ stack' = Append(stack, Callback("connected", "rest"))
  BY DEF PollReports, CallBack, mqttVars
<1>2. StackInv'
  <2>1. Pushes(stack, "connected", "rest")
    BY <1>1, PollingBase DEF Pushes, Forgets
  <2>. QED BY <2>1, StackCalls DEF Events, Afters
<1>3. WifiInv'
  BY <1>1 DEF NetInv, WifiInv, BusyMatches, NetworkKept
<1>. QED BY <1>2, <1>3, OthersStay DEF NetInv, PollReports

(* A callback of the wifi client returns.                                  *)
LEMMA WifiReturnsKeep ==
  ASSUME NetInv, UNCHANGED <<program, mqttVars, ntpVars>>, WifiReturns
  PROVE  NetInv'
<1>1. stack # <<>> /\ Last(stack).kind = "callback"
  BY DEF WifiReturns, ReturnRest, ReturnForget, ReturnPlain, Returning, TopIs
<1>2. Base(Front(stack))
  <2>1. Last(stack) # Publish("pending")
    BY <1>1 DEF Publish
  <2>. QED BY <1>1, <2>1, ReturnBase
<1>3. CASE ReturnRest
  BY <1>2, <1>3, PollKeeps DEF ReturnRest
<1>4. CASE ReturnForget
  <2>1. /\ Last(stack).after \in Forgets
        /\ network' = NoNetwork /\ known' \in {known, NoNetwork} /\ stack' = Front(stack)
        /\ UNCHANGED <<link, flags, state, asked, op, requests>>
    BY <1>4 DEF ReturnForget, Returning, Forgets, driver, mqttVars
  <2>2. "joining" \notin flags
    <3>1. Len(stack) \in 1 .. Len(stack)
      BY <1>1, FrontFacts DEF NetInv, StackInv, StackOK
    <3>. QED BY <1>1, <2>1, <3>1 DEF NetInv, StackInv, NothingForgets, Last
  <2>3. StackInv'
    BY <1>2, <2>1, StackLeft
  <2>4. WifiInv'
    BY <2>1, <2>2 DEF NetInv, WifiInv, BusyMatches, NetworkKept
  <2>. QED BY <2>3, <2>4, OthersStay DEF NetInv
<1>5. CASE ReturnPlain
  <2>1. stack' = Front(stack) /\ UNCHANGED <<wifiVars, requests>>
    BY <1>5 DEF ReturnPlain, mqttVars
  <2>2. StackInv'
    BY <1>2, <2>1, StackLeft DEF wifiVars
  <2>3. WifiInv'
    BY <2>1 DEF NetInv, WifiInv, BusyMatches, NetworkKept, wifiVars
  <2>. QED BY <2>2, <2>3, OthersStay DEF NetInv
<1>. QED BY <1>3, <1>4, <1>5 DEF WifiReturns

(* The results and the end of a scan, and the link.                        *)
LEMMA DriverKeeps ==
  ASSUME NetInv, UNCHANGED <<program, mqttVars, ntpVars>>, ScanResult \/ Driver \/ CallInvalid
  PROVE  NetInv'
<1>1. CASE ScanResult /\ valid
  <2>1. /\ Polling /\ UNCHANGED <<wifiVars, requests>>
        /\ stack' = Append(stack, Callback("found", "none"))
    BY <1>1 DEF ScanResult, CallBack, mqttVars
  <2>2. StackInv'
    <3>1. Pushes(stack, "found", "none")
      BY <2>1, PollingBase DEF Pushes, Forgets, wifiVars
    <3>. QED BY <3>1, StackCalls DEF Events, Afters
  <2>3. WifiInv'
    BY <2>1 DEF NetInv, WifiInv, BusyMatches, NetworkKept, wifiVars
  <2>. QED BY <2>2, <2>3, OthersStay DEF NetInv
<1>2. CASE (ScanResult /\ ~valid) \/ CallInvalid
  <2>1. UNCHANGED <<wifiVars, requests, stack, conn, resolving>>
    BY <1>2 DEF ScanResult, CallInvalid, Panic, mqttVars
  <2>2. StackInv'
    BY <2>1, StackStays DEF wifiVars
  <2>3. WifiInv'
    BY <2>1 DEF NetInv, WifiInv, BusyMatches, NetworkKept, wifiVars
  <2>. QED BY <2>2, <2>3, OthersStay DEF NetInv
<1>3. CASE Driver
  <2>1. UNCHANGED <<flags, state, network, known, asked, op, stack, requests, conn, resolving>>
    BY <1>3 DEF Driver, ScanEnds, LinkMoves, threadVars, mqttVars, nx
  <2>2. link' = link \/ (link = "JOIN" /\ link' \in Links) \/ (link = "NOIP" /\ link' \in Links)
        \/ link' = "DOWN"
    BY <1>3 DEF Driver, ScanEnds, LinkMoves, Links
  <2>3. StackInv'
    BY <2>1, StackStays
  <2>4. WifiInv'
    BY <2>1, <2>2 DEF NetInv, WifiInv, BusyMatches, NetworkKept, Links
  <2>. QED BY <2>3, <2>4, OthersStay DEF NetInv
<1>. QED BY <1>1, <1>2, <1>3

-----------------------------------------------------------------------------
(* The calls of the MQTT client.                                           *)
LEMMA WifiStays ==
  ASSUME NetInv, UNCHANGED wifiVars
  PROVE  WifiInv'
  BY DEF NetInv, WifiInv, BusyMatches, NetworkKept, wifiVars

LEMMA NtpStays ==
  ASSUME NetInv, UNCHANGED ntpVars
  PROVE  NtpInv'
  BY DEF NetInv, NtpInv, SntpFollows, ntpVars

LEMMA ClientKeeps ==
  ASSUME NetInv, UNCHANGED <<program, wifiVars, ntpVars>>, MqttOpen \/ MqttFinalize \/ CallNoClient
  PROVE  NetInv'
<1>1. UNCHANGED <<flags, stack, requests, conn, resolving, attempt>>
  BY DEF MqttOpen, MqttFinalize, CallNoClient, Panic, threadVars, mqttVars, wifiVars
<1>2. StackInv'
  BY <1>1, StackStays
<1>3. MqttInv'
  BY <1>1 DEF NetInv, MqttInv, ServerKept, StringsFreed, MqttOpen, MqttFinalize, ServerFinalize,
              CallNoClient, mqttVars
<1>. QED BY <1>2, <1>3, WifiStays, NtpStays DEF NetInv

(* No strings are there when an attempt begins, so none is connecting.     *)
LEMMA MqttConnectKeeps ==
  ASSUME NetInv, UNCHANGED <<program, wifiVars, ntpVars>>, May("mqttConnect"), MqttConnect
  PROVE  NetInv'
<1>1. Base(stack) /\ UNCHANGED <<flags, requests>>
  BY CallerBase, Callers DEF MqttConnect, Panic, wifiVars, mqttVars
<1>2. CASE server
  <2>1. UNCHANGED <<stack, mqttVars>>
    BY <1>2 DEF MqttConnect, Panic
  <2>2. StackInv'
    BY <1>1, <2>1, StackLeft DEF mqttVars
  <2>3. MqttInv'
    BY <2>1 DEF NetInv, MqttInv, ServerKept, StringsFreed, mqttVars
  <2>. QED BY <2>2, <2>3, WifiStays, NtpStays DEF NetInv
<1>3. CASE ~server
  <2>1. conn = "off" /\ ~resolving /\ heap = 0
    BY <1>3 DEF NetInv, MqttInv, ServerKept, StringsFreed
  <2>2. CASE ServerNew(Strings) /\ DnsAnswersNow
    <3>1. server' /\ heap' = Strings
      <4>1. server' = (Strings = Strings) /\ heap' = 0 + Strings /\ Strings \in Int
        BY <2>1, <2>2 DEF ServerNew, Strings
      <4>2. server'
        BY <4>1, Zenon
      <4>3. heap' = Strings
        BY <4>1
      <4>. QED BY <4>2, <4>3
    <3>2. /\ resolving' => attempt' /\ conn' = "off"
          /\ conn' \in {"off", "connecting", "up"}
      BY <2>1, <2>2 DEF DnsAnswersNow
    <3>3. MqttInv'
      BY <3>1, <3>2 DEF MqttInv, ServerKept, StringsFreed
    <3>4. \/ stack' = stack
          \/ Pushes(stack, "mqttFailed", "freeServer")
      BY <1>1, <2>1, <2>2 DEF DnsAnswersNow, Told, threadVars, Pushes, Forgets
    <3>5. StackInv'
      BY <1>1, <3>4, StackLeft, StackCalls DEF Events, Afters
    <3>. QED BY <3>3, <3>5, WifiStays, NtpStays DEF NetInv
  <2>3. CASE \E granted \in 0 .. Strings - 1 : ServerNew(granted) /\ UNCHANGED <<conn, resolving, attempt, threadVars>>
    <3>1. ~server' /\ heap' = 0 /\ UNCHANGED <<stack, conn, resolving, attempt>>
      <4>1. PICK granted \in 0 .. Strings - 1 :
              ServerNew(granted) /\ UNCHANGED <<conn, resolving, attempt, threadVars>>
        BY <2>3
      <4>2. granted # Strings
        BY DEF Strings
      <4>3. ~server'
        BY <4>1, <4>2, Zenon DEF ServerNew
      <4>4. heap' = 0
        BY <2>1, <4>1, <4>2 DEF ServerNew
      <4>. QED BY <4>1, <4>3, <4>4 DEF threadVars
    <3>2. StackInv'
      BY <1>1, <3>1, StackLeft
    <3>3. MqttInv'
      BY <2>1, <3>1 DEF NetInv, MqttInv, ServerKept, StringsFreed
    <3>. QED BY <3>2, <3>3, WifiStays, NtpStays DEF NetInv
  <2>. QED BY <1>3, <2>2, <2>3 DEF MqttConnect
<1>. QED BY <1>2, <1>3

LEMMA MqttDisconnectKeeps ==
  ASSUME NetInv, UNCHANGED <<program, wifiVars, ntpVars>>, May("mqttDisconnect"), MqttDisconnect
  PROVE  NetInv'
<1>1. Base(stack)
  BY CallerBase, Callers DEF MqttDisconnect
<1>2. Pushes(stack, "mqttDown", "none")
  BY <1>1 DEF MqttDisconnect, Told, Pushes, Forgets, wifiVars
<1>3. StackInv'
  BY <1>2, StackCalls DEF Events, Afters
<1>4. MqttInv'
  BY DEF MqttDisconnect, NetInv, MqttInv, ServerKept, StringsFreed
<1>. QED BY <1>3, <1>4, WifiStays, NtpStays DEF NetInv

(* A publish is a frame of its own, which its request points to.           *)
LEMMA MqttPublishKeeps ==
  ASSUME NetInv, UNCHANGED <<program, wifiVars, ntpVars>>, May("publish"), MqttPublish
  PROVE  NetInv'
<1>. DEFINE e == Publish("pending")
<1>1. /\ InApp /\ Len(stack) + 1 < MaxDepth /\ MaxDepth \in Nat
      /\ stack \in Seq(Frames) /\ Len(stack) \in Nat
      /\ stack' = Append(stack, e) /\ requests' = requests \cup {Len(stack) + 1}
      /\ UNCHANGED <<conn, server, heap, resolving, attempt, flags>>
  BY NetworkAssumption, LenProperties DEF MqttPublish, wifiVars, NetInv, StackInv, StackOK
<1>2. Base(stack)
  BY <1>1, CallerBase, Callers
<1>3. e \in Frames /\ e.kind = "publish"
  BY DEF Publish, Frames
<1>4. /\ stack' \in Seq(Frames) /\ Len(stack') = Len(stack) + 1
      /\ \A i \in 1 .. Len(stack) : stack'[i] = stack[i]
      /\ stack'[Len(stack) + 1] = e
  BY <1>1, <1>3, PushFacts
<1>. HIDE DEF e
<1>5. \A i \in 1 .. Len(stack') : i \in 1 .. Len(stack) \/ i = Len(stack) + 1
  BY <1>1, <1>4
<1>6. StackOK'
  <2>1. requests' \subseteq 1 .. MaxDepth
    <3>1. Len(stack) + 1 \in 1 .. MaxDepth
      BY <1>1
    <3>2. requests \subseteq 1 .. MaxDepth
      BY DEF NetInv, StackInv, StackOK
    <3>. QED BY <1>1, <3>1, <3>2
  <2>2. ASSUME NEW i \in requests' PROVE i <= Len(stack') /\ stack'[i] = Publish("pending")
    <3>1. CASE i = Len(stack) + 1
      BY <1>1, <1>4, <3>1 DEF e
    <3>2. CASE i \in requests
      <4>1. i \in 1 .. Len(stack) /\ stack[i] = Publish("pending")
        BY <3>2 DEF NetInv, StackInv, StackOK, RequestsLive
      <4>. QED BY <1>1, <1>4, <4>1
    <3>. QED BY <1>1, <3>1, <3>2
  <2>. QED BY <1>1, <1>4, <2>1, <2>2 DEF StackOK, RequestsLive
<1>7. NothingForgets' /\ FreesLast'
  BY <1>1, <1>2, <1>3, <1>4, <1>5 DEF Base, NothingForgets, FreesLast
<1>8. MqttInv'
  BY <1>1 DEF NetInv, MqttInv, ServerKept, StringsFreed
<1>. QED BY <1>6, <1>7, <1>8, WifiStays, NtpStays DEF NetInv, StackInv

-----------------------------------------------------------------------------
(* What lwIP calls.                                                        *)
LEMMA DnsKeeps ==
  ASSUME NetInv, UNCHANGED <<program, wifiVars, ntpVars>>, DnsAnswers
  PROVE  NetInv'
<1>1. Base(stack) /\ conn = "off" /\ resolving /\ ~resolving' /\ server /\ UNCHANGED <<flags, requests, server, heap>>
  BY PollingBase DEF DnsAnswers, StartClient, NetInv, MqttInv, ServerKept, wifiVars
<1>2. \/ stack' = stack /\ conn' = "connecting"
      \/ stack' = Append(stack, Callback("mqttFailed", "freeServer")) /\ conn' = "off"
  BY <1>1 DEF DnsAnswers, StartClient, Told, threadVars
<1>3. stack' = stack \/ Pushes(stack, "mqttFailed", "freeServer")
  BY <1>1, <1>2 DEF Pushes, Forgets
<1>4. StackInv'
  BY <1>1, <1>3, StackLeft, StackCalls DEF Events, Afters
<1>5. MqttInv'
  BY <1>1, <1>2 DEF NetInv, MqttInv, ServerKept, StringsFreed
<1>. QED BY <1>4, <1>5, WifiStays, NtpStays DEF NetInv

LEMMA ConnectionKeeps ==
  ASSUME NetInv, UNCHANGED <<program, wifiVars, ntpVars>>, Accepted \/ Refused \/ Lost
  PROVE  NetInv'
<1>1. Base(stack) /\ conn # "off" /\ ~resolving /\ UNCHANGED <<flags, resolving, server, heap>> /\ server
  BY PollingBase DEF Accepted, Refused, Lost, NetInv, MqttInv, ServerKept, wifiVars
<1>2. \/ Pushes(stack, "mqttUp", "none") /\ conn' = "up"
      \/ Pushes(stack, "mqttFailed", "freeServer") /\ conn' = "off"
      \/ Pushes(stack, "mqttDown", "freeServer") /\ conn' = "off"
  BY <1>1 DEF Accepted, Refused, Lost, Told, Pushes, Forgets
<1>3. StackInv'
  BY <1>2, StackCalls DEF Events, Afters
<1>4. MqttInv'
  BY <1>1, <1>2 DEF NetInv, MqttInv, ServerKept, StringsFreed
<1>. QED BY <1>3, <1>4, WifiStays, NtpStays DEF NetInv

(* The answer to a request changes the frame it points to.                 *)
LEMMA AnswerKeeps ==
  ASSUME NetInv, UNCHANGED <<program, wifiVars, ntpVars>>, NEW r \in requests, PublishAnswered(r)
  PROVE  NetInv'
<1>1. /\ stack \in Seq(Frames) /\ Len(stack) \in Nat /\ Len(stack) <= MaxDepth
      /\ DOMAIN stack = 1 .. Len(stack)
      /\ r \in 1 .. Len(stack) /\ stack[r] = Publish("pending")
      /\ requests \subseteq 1 .. MaxDepth
  BY LenProperties DEF NetInv, StackInv, StackOK, RequestsLive
<1>2. /\ stack' = [stack EXCEPT ![r] = Publish("done")] /\ requests' = requests \ {r}
      /\ UNCHANGED <<conn, server, heap, resolving, attempt, flags>>
  BY <1>1 DEF PublishAnswered, Publish, wifiVars
<1>3. Publish("done") \in Frames /\ Publish("done").kind = "publish"
  BY DEF Publish, Frames
<1>4. /\ stack' \in Seq(Frames) /\ Len(stack') = Len(stack)
      /\ \A i \in 1 .. Len(stack) : stack'[i] = IF i = r THEN Publish("done") ELSE stack[i]
  BY <1>1, <1>2, <1>3, ExceptSeq
<1>5. StackOK'
  BY <1>1, <1>2, <1>4 DEF NetInv, StackInv, StackOK, RequestsLive
<1>6. NothingForgets' /\ FreesLast'
  <2>1. \A i \in 1 .. Len(stack') : stack'[i].kind = "callback" => stack'[i] = stack[i]
    BY <1>3, <1>4
  <2>2. NothingForgets'
    BY <1>2, <1>4, <2>1 DEF NetInv, StackInv, NothingForgets
  <2>3. FreesLast'
    BY <1>2, <1>4, <2>1 DEF NetInv, StackInv, FreesLast
  <2>. QED BY <2>2, <2>3
<1>7. MqttInv'
  BY <1>2 DEF NetInv, MqttInv, ServerKept, StringsFreed
<1>. QED BY <1>5, <1>6, <1>7, WifiStays, NtpStays DEF NetInv, StackInv

LEMMA MqttReturnsKeep ==
  ASSUME NetInv, UNCHANGED <<program, wifiVars, ntpVars>>, MqttReturns
  PROVE  NetInv'
<1>1. /\ stack # <<>> /\ Last(stack) # Publish("pending") /\ stack' = Front(stack)
      /\ UNCHANGED <<flags, requests, conn, resolving, attempt>>
  BY DEF MqttReturns, PublishReturns, ReturnFreeServer, Returning, TopIs, Publish, mqttVars, wifiVars
<1>2. StackInv'
  BY <1>1, ReturnBase, StackLeft
<1>3. CASE PublishReturns
  <2>1. MqttInv'
    BY <1>3 DEF NetInv, MqttInv, ServerKept, StringsFreed, PublishReturns, mqttVars
  <2>. QED BY <1>2, <2>1, WifiStays, NtpStays DEF NetInv
<1>4. CASE ReturnFreeServer
  <2>1. Len(stack) \in 1 .. Len(stack)
    BY <1>1, FrontFacts DEF NetInv, StackInv, StackOK
  <2>2. stack[Len(stack)].kind = "callback" /\ stack[Len(stack)].after = "freeServer"
    BY <1>1, <1>4 DEF ReturnFreeServer, Returning, TopIs, Last
  <2>3. conn = "off" /\ ~resolving
    BY <2>1, <2>2 DEF NetInv, StackInv, FreesLast
  <2>4. server' = FALSE /\ heap' = 0
    BY <1>4 DEF ReturnFreeServer, ServerFinalize, NetInv, MqttInv, StringsFreed
  <2>5. MqttInv'
    BY <1>1, <2>3, <2>4 DEF NetInv, MqttInv, ServerKept, StringsFreed
  <2>. QED BY <1>2, <2>5, WifiStays, NtpStays DEF NetInv
<1>. QED BY <1>3, <1>4 DEF MqttReturns

-----------------------------------------------------------------------------
(* The time client.                                                        *)
LEMMA NtpKeeps ==
  ASSUME NetInv, UNCHANGED <<program, wifiVars, mqttVars>>, NtpStep
  PROVE  NetInv'
<1>1. WifiInv' /\ MqttInv' /\ UNCHANGED <<flags, requests, conn, resolving>>
  BY WifiStays DEF NetInv, MqttInv, ServerKept, StringsFreed, mqttVars, wifiVars
<1>2. CASE CallNtp \/ PollNtp
  <2>1. StackInv'
    BY <1>1, <1>2, StackStays DEF CallNtp, NtpOpen, NtpFinalize, PollNtp, threadVars
  <2>2. NtpInv'
    <3>1. link \in Links
      BY DEF NetInv, WifiInv
    <3>2. CASE NtpOpen
      <4>1. sntp => listening
        BY DEF NetInv, NtpInv, SntpFollows
      <4>2. ~sntp' /\ ntpState' = "FAIL"
        BY <3>2, <4>1 DEF NtpOpen, NoState
      <4>. QED BY <4>2 DEF NtpInv, SntpFollows, Links, Failures
    <3>3. CASE NtpFinalize
      BY <3>3 DEF NtpFinalize, NtpInv, SntpFollows, Links
    <3>4. CASE PollNtp /\ link = ntpState
      BY <3>4 DEF PollNtp, NetInv, NtpInv, SntpFollows
    <3>5. CASE PollNtp /\ link # ntpState
      BY <3>1, <3>5 DEF PollNtp, NtpInv, SntpFollows
    <3>. QED BY <1>2, <3>2, <3>3, <3>4, <3>5 DEF CallNtp
  <2>. QED BY <1>1, <2>1, <2>2 DEF NetInv
<1>3. CASE TimeAnswers
  <2>1. NtpInv'
    BY <1>3, NtpStays DEF TimeAnswers
  <2>2. Base(stack) /\ (stack' = stack \/ Pushes(stack, "time", "setClock"))
    BY <1>1, <1>3, PollingBase DEF TimeAnswers, CallBack, threadVars, Pushes, Forgets
  <2>3. StackInv'
    BY <1>1, <2>2, StackLeft, StackCalls DEF Events, Afters
  <2>. QED BY <1>1, <2>1, <2>3 DEF NetInv
<1>4. CASE ReturnSetClock
  <2>1. stack # <<>> /\ Last(stack) # Publish("pending") /\ stack' = Front(stack)
    BY <1>4 DEF ReturnSetClock, Returning, TopIs, Publish
  <2>2. StackInv'
    BY <1>1, <2>1, ReturnBase, StackLeft
  <2>3. NtpInv'
    BY <1>4 DEF ReturnSetClock, NetInv, NtpInv, SntpFollows
  <2>. QED BY <1>1, <2>2, <2>3 DEF NetInv
<1>. QED BY <1>2, <1>3, <1>4 DEF NtpStep

-----------------------------------------------------------------------------
LEMMA NetworkInit == Init => NetInv
<1>. SUFFICES ASSUME Init PROVE NetInv
  OBVIOUS
<1>1. stack \in Seq(Frames) /\ Len(stack) = 0 /\ MaxDepth \in Nat
  BY EmptySeq, NetworkAssumption DEF Init, ThreadInit
<1>2. StackInv
  BY <1>1 DEF Init, MqttInit, StackInv, StackOK, RequestsLive, NothingForgets, FreesLast
<1>3. WifiInv
  BY DEF Init, WifiInit, WifiInv, BusyMatches, NetworkKept, Links
<1>4. MqttInv /\ NtpInv
  BY DEF Init, MqttInit, NtpInit, MqttInv, NtpInv, ServerKept, StringsFreed, SntpFollows, Links
<1>. QED BY <1>2, <1>3, <1>4 DEF Init, NetInv

LEMMA WifiStepKeeps ==
  ASSUME NetInv, UNCHANGED <<program, mqttVars, ntpVars>>, WifiStep
  PROVE  NetInv'
<1>1. CASE (May("wifiOpen") /\ ~valid /\ WifiOpen) \/ (May("wifiFinalize") /\ WifiFinalize)
  BY <1>1, ClearKeeps DEF WifiOpen, WifiFinalize, nx
<1>2. CASE May("scan") /\ Scan
  BY <1>2, ScanKeeps
<1>3. CASE May("connect") /\ \E n \in Networks : Connect(n)
  BY <1>3, ConnectKeeps
<1>4. CASE CallInvalid \/ ScanResult \/ Driver
  BY <1>4, DriverKeeps
<1>5. CASE May("disconnect") /\ Disconnect
  BY <1>5, DisconnectKeeps
<1>6. CASE PollWifi
  BY <1>6, PollingBase, PollKeeps DEF PollWifi
<1>7. CASE PollReports
  BY <1>7, PollReportsKeeps
<1>8. CASE WifiReturns
  BY <1>8, WifiReturnsKeep
<1>. QED BY <1>1, <1>2, <1>3, <1>4, <1>5, <1>6, <1>7, <1>8 DEF WifiStep, CallWifi, WifiEvents

LEMMA MqttStepKeeps ==
  ASSUME NetInv, UNCHANGED <<program, wifiVars, ntpVars>>, MqttStep
  PROVE  NetInv'
<1>1. CASE MqttOpen \/ MqttFinalize \/ CallNoClient
  BY <1>1, ClientKeeps
<1>2. CASE May("mqttConnect") /\ MqttConnect
  BY <1>2, MqttConnectKeeps
<1>3. CASE May("mqttDisconnect") /\ MqttDisconnect
  BY <1>3, MqttDisconnectKeeps
<1>4. CASE May("publish") /\ MqttPublish
  BY <1>4, MqttPublishKeeps
<1>5. CASE DnsAnswers
  BY <1>5, DnsKeeps
<1>6. CASE Accepted \/ Refused \/ Lost
  BY <1>6, ConnectionKeeps
<1>7. CASE \E r \in requests : PublishAnswered(r)
  BY <1>7, AnswerKeeps
<1>8. CASE MqttReturns
  BY <1>8, MqttReturnsKeep
<1>. QED BY <1>1, <1>2, <1>3, <1>4, <1>5, <1>6, <1>7, <1>8 DEF MqttStep, CallMqtt, MqttEvents

LEMMA NetworkNext == NetInv /\ [Next]_vars => NetInv'
<1>. SUFFICES ASSUME NetInv, [Next]_vars PROVE NetInv'
  OBVIOUS
<1>1. CASE UNCHANGED vars
  <2>1. UNCHANGED <<program, flags, stack, requests, conn, resolving, wifiVars, mqttVars, ntpVars>>
    BY <1>1 DEF vars, threadVars, wifiVars, mqttVars
  <2>2. StackInv'
    BY <2>1, StackStays
  <2>. QED BY <2>1, <2>2, WifiStays, OthersStay DEF NetInv
<1>2. CASE Next
  BY <1>2, WifiStepKeeps, MqttStepKeeps, NtpKeeps DEF Next
<1>. QED BY <1>1, <1>2

(* The inductive invariant of the network programs: what the frames of the *)
(* one thread may be, what each still does when it returns, and which      *)
(* request, connection and handle that fits.                               *)
THEOREM NetworkInvariant == Spec => []NetInv
<1>. QED BY NetworkInit, NetworkNext, PTL DEF Spec

(* The flags of hw_wifi_t say which request is under way, a connection     *)
(* reports the network that was asked for, and SNTP runs for a live handle *)
(* that saw the link up (wifi.c, NXWireless.m, ntp.c), for any networks,   *)
(* through callbacks that make the next request.                           *)
THEOREM RequestsSafe == Spec => []RequestsKept
<1>1. NetInv => RequestsKept
  BY DEF NetInv, StackInv, StackOK, WifiInv, MqttInv, NtpInv, RequestsKept, TypeOK
<1>. QED BY <1>1, NetworkInvariant, PTL

(* The strings of an MQTT server are there as long as lwIP or the resolver *)
(* may read them and are freed once, and a publish that is under way has   *)
(* its result on the stack (mqtt.c), however deep callbacks and publishes  *)
(* nest.                                                                   *)
THEOREM StringsSafe == Spec => []StringsKept
<1>1. NetInv => StringsKept
  BY DEF NetInv, StackInv, StackOK, MqttInv, StringsKept
<1>. QED BY <1>1, NetworkInvariant, PTL
=============================================================================
