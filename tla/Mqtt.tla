-------------------------------- MODULE Mqtt --------------------------------
(***************************************************************************)
(* runtime-net/pico/mqtt.c over the MQTT client and the resolver of lwIP.  *)
(* The strings of a connection (net_mqtt_server_t) live from               *)
(* net_mqtt_connect to the callback that ends the attempt or the           *)
(* connection.  A publish waits on its stack for its request.              *)
(***************************************************************************)
EXTENDS MainThread

VARIABLES
  client,    \* net_mqtt_impl_t.client # NULL
  conn,      \* the connection of lwIP: "off", "connecting", "up"
  server,    \* net_mqtt_server_t.port # 0: its strings are allocated
  heap,      \* how many strings are allocated
  resolving, \* a DNS answer is to come
  requests,  \* publishes lwIP has not answered: where their error lives
  attempt    \* history: an accepted net_mqtt_connect has not been answered

Strings == 2  \* that a connection copies: client_id and the optional ones

mqttVars == <<client, conn, server, heap, resolving, requests, attempt>>

Publish(err) == [kind |-> "publish", err |-> err]
Told(event, after) == stack' = Append(stack, Callback(event, after)) /\ UNCHANGED panicked

MqttInit ==
  /\ client = FALSE /\ conn = "off" /\ server = FALSE /\ heap = 0
  /\ resolving = FALSE /\ requests = {} /\ attempt = FALSE

-----------------------------------------------------------------------------
(* mqtt_client_new may fail.                                               *)
MqttOpen ==
  /\ InApp /\ ~client
  /\ client' = TRUE
  /\ UNCHANGED <<conn, server, heap, resolving, requests, attempt, threadVars>>

(* _net_mqtt_server_finalize.                                              *)
ServerFinalize == server' = FALSE /\ heap' = IF server THEN 0 ELSE heap

(* The caller makes sure that nothing is connected or in flight.           *)
MqttFinalize ==
  /\ InApp /\ client /\ conn = "off" /\ ~attempt
  /\ client' = FALSE /\ ServerFinalize
  /\ UNCHANGED <<conn, resolving, requests, attempt, threadVars>>

(* Every call asserts that there is a client.                              *)
CallNoClient == InApp /\ ~client /\ Panic /\ UNCHANGED mqttVars

(* _net_mqtt_do_connect: lwIP refuses, or starts to connect.               *)
StartClient ==
  \/ /\ conn = "off" /\ conn' = "connecting"
     /\ UNCHANGED <<server, heap, attempt, threadVars>>
  \/ /\ Told("mqttFailed", "freeServer")
     /\ attempt' = FALSE /\ UNCHANGED <<conn, server, heap>>

DnsAnswersNow ==
  \/ resolving' = TRUE /\ UNCHANGED <<conn, threadVars>> /\ attempt' = TRUE
  \/ /\ conn' = "connecting" /\ attempt' = TRUE /\ UNCHANGED <<resolving, threadVars>>
  \/ /\ Told("mqttFailed", "freeServer")
     /\ UNCHANGED <<conn, resolving, attempt>>

(* _net_mqtt_server_new: memory is granted for so many of the strings.     *)
(* Fewer than all are freed.                                               *)
ServerNew(granted) ==
  /\ server' = (granted = Strings)
  /\ heap' = heap + IF granted = Strings THEN granted ELSE 0

(* net_mqtt_connect.  No memory for the strings: it returns false.  The    *)
(* name resolves at once or later, or not at all.                          *)
MqttConnect ==
  /\ InApp /\ Len(stack) < MaxDepth
  /\ client
  /\ conn # "up"
  /\ IF server
     THEN Panic /\ UNCHANGED mqttVars
     ELSE /\ \/ ServerNew(Strings) /\ DnsAnswersNow
             \/ /\ \E granted \in 0 .. Strings - 1 : ServerNew(granted)
                /\ UNCHANGED <<conn, resolving, attempt, threadVars>>
          /\ UNCHANGED <<client, requests>>

(* lwIP closes the connection without a callback and forgets the requests. *)
(* The strings stay.                                                       *)
MqttDisconnect ==
  /\ InApp /\ Len(stack) < MaxDepth
  /\ client /\ conn = "up"
  /\ conn' = "off" /\ requests' = {}
  /\ Told("mqttDown", "none")
  /\ UNCHANGED <<client, server, heap, resolving, attempt>>

(* net_mqtt_publish hands lwIP the address of a local and polls until the  *)
(* request changes it.                                                     *)
MqttPublish ==
  /\ InApp /\ Len(stack) + 1 < MaxDepth
  /\ client /\ conn = "up"
  /\ stack' = Append(stack, Publish("pending"))
  /\ requests' = requests \cup {Len(stack) + 1}
  /\ UNCHANGED <<client, conn, server, heap, resolving, attempt, panicked>>

(* Mutation: a publish gives up while its request is under way.            *)
PublishGivesUp ==
  /\ Running /\ TopIs("publish")
  /\ stack' = Front(stack)
  /\ UNCHANGED <<mqttVars, panicked>>

PublishReturns ==
  /\ Running /\ TopIs("publish") /\ Last(stack).err # "pending"
  /\ stack' = Front(stack)
  /\ UNCHANGED <<mqttVars, panicked>>

-----------------------------------------------------------------------------
(* What lwIP calls while somebody polls.                                   *)

(* _net_mqtt_dns_cb, which asserts that the strings are there.             *)
DnsAnswers ==
  /\ Polling /\ resolving
  /\ resolving' = FALSE
  /\ \/ IF server THEN StartClient
        ELSE Panic /\ UNCHANGED <<conn, server, heap, attempt>>
     \/ /\ Told("mqttFailed", "freeServer")
        /\ attempt' = FALSE /\ UNCHANGED <<conn, server, heap>>
  /\ UNCHANGED <<client, requests>>

(* _net_mqtt_connection_cb.                                                *)
Accepted ==
  /\ Polling /\ conn = "connecting"
  /\ conn' = "up" /\ attempt' = FALSE
  /\ Told("mqttUp", "none")
  /\ UNCHANGED <<client, server, heap, resolving, requests>>

Refused ==
  /\ Polling /\ conn = "connecting"
  /\ conn' = "off" /\ attempt' = FALSE
  /\ Told("mqttFailed", "freeServer")
  /\ UNCHANGED <<client, server, heap, resolving, requests>>

Lost ==
  /\ Polling /\ conn = "up"
  /\ conn' = "off" /\ requests' = {}
  /\ Told("mqttDown", "freeServer")
  /\ UNCHANGED <<client, server, heap, resolving, attempt>>

(* Mutation: the result of a request is not written.                       *)
PublishUnanswered(i) ==
  /\ Polling /\ i \in requests
  /\ requests' = requests \ {i}
  /\ UNCHANGED <<client, conn, server, heap, resolving, attempt, threadVars>>

(* _net_mqtt_publish_cb writes the result where the request points to.     *)
PublishAnswered(i) ==
  /\ Polling /\ i \in requests
  /\ requests' = requests \ {i}
  /\ stack' = IF i \in DOMAIN stack /\ stack[i].kind = "publish"
              THEN [stack EXCEPT ![i] = Publish("done")] ELSE stack
  /\ UNCHANGED <<client, conn, server, heap, resolving, attempt, panicked>>

ReturnFreeServer ==
  /\ Returning("freeServer")
  /\ ServerFinalize
  /\ stack' = Front(stack)
  /\ UNCHANGED <<client, conn, resolving, requests, attempt, panicked>>

MqttEvents ==
  DnsAnswers \/ Accepted \/ Refused \/ Lost \/ \E i \in requests : PublishAnswered(i)
MqttReturns == PublishReturns \/ ReturnFreeServer
=============================================================================
