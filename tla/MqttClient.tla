------------------------------ MODULE MqttClient ------------------------------
(***************************************************************************)
(* Client of qqmusic_api/utils/mqtt.py: one task of the event loop calls   *)
(* connect, subscribe, messages and disconnect; every connection attempt   *)
(* makes a candidate, a paho client with a network thread of its own.      *)
(*                                                                         *)
(* Most callbacks of a network thread are handed to the loop and block the *)
(* thread until the loop has run them (`inHand`); _on_subscribe and the    *)
(* failing of pending subscriptions run in the network thread itself,      *)
(* between any two steps of the loop.  paho dials again by itself whenever *)
(* a connection ends, until it is told to stop.                            *)
(*                                                                         *)
(* The broker may answer, redirect, refuse, stay silent, leave or vanish.  *)
(* A message is its number in the order in which it arrives.               *)
(***************************************************************************)
EXTENDS Naturals, Sequences, SequencesExt

CONSTANTS
    MaxRedirects, \* _max_redirects
    QueueSize,    \* _MQTT_PUBLISH_QUEUE_SIZE
    MaxMessages   \* bound: messages the broker publishes

ASSUME MqttAssumption ==
    MaxRedirects \in Nat /\ QueueSize \in Nat \ {0} /\ MaxMessages \in Nat

VARIABLES
    thread,   \* of each candidate: its network thread and connection
    inHand,   \* of each candidate: the callback it waits for the loop to run
    broker,   \* of each candidate: what the broker knows of its subscription
    published,\* messages that have reached a network thread
    stage,    \* where the caller's task is suspended
    dialled,  \* candidates made by this connect
    stopFor,  \* why connect stops a candidate
    client,   \* _mqtt_client, 0 for None
    attempt,  \* _current_connect
    closing,  \* _closing
    suback,   \* the entry of _pending_subacks
    stream,   \* the memory object stream
    msgError, \* _message_error is set
    outcome,  \* how the last call of the caller ended
    taken,    \* messages the caller got
    overflown \* history: messages dropped at a full queue

netVars == <<thread, inHand, broker, published>>
callVars == <<stage, dialled, stopFor, outcome>>
linkVars == <<client, attempt, closing>>
streamVars == <<stream, msgError, taken, overflown>>
mqttVars == <<netVars, callVars, linkVars, suback, streamVars>>

-----------------------------------------------------------------------------

Candidates == 1 .. MaxRedirects + 1
Codes == {"accepted", "redirect", "refused"}
NoCall == <<"none">>
Callbacks == {NoCall, <<"lost">>, <<"connectError">>}
             \cup ({"connack"} \X Codes) \cup ({"message"} \X (1 .. MaxMessages))
NoAttempt == [made |-> FALSE, code |-> "none", error |-> FALSE]
NewAttempt == [NoAttempt EXCEPT !.made = TRUE]
NoStream == [made |-> FALSE, open |-> FALSE, buffer |-> <<>>]
NewStream == [NoStream EXCEPT !.made = TRUE, !.open = TRUE]

MqttTypeOK ==
    /\ thread \in [Candidates -> {"unborn", "dialling", "linked", "leaving", "ended"}]
    /\ inHand \in [Candidates -> Callbacks]
    /\ broker \in [Candidates -> {"none", "asked", "granted", "rejected", "gone"}]
    /\ published \in 0 .. MaxMessages
    /\ stage \in {"idle", "connecting", "stopping", "registering", "subscribing",
                  "receiving", "closing", "closed"}
    /\ dialled \in 0 .. MaxRedirects + 1
    /\ stopFor \in {"none", "redirect", "failed"}
    /\ client \in 0 .. MaxRedirects + 1
    /\ attempt \in [made : BOOLEAN, code : Codes \cup {"none"}, error : BOOLEAN]
    /\ closing \in BOOLEAN
    /\ suback \in {"none", "waiting", "granted", "rejected", "failed"}
    /\ stream \in [made : BOOLEAN, open : BOOLEAN, buffer : Seq(1 .. MaxMessages)]
    /\ Len(stream.buffer) <= QueueSize
    /\ msgError \in BOOLEAN
    /\ outcome \in {"none", "ok", "error", "redirected", "timeout", "message", "end"}
    /\ taken \in Seq(1 .. MaxMessages)
    /\ overflown \subseteq 1 .. MaxMessages

MqttInit ==
    /\ thread = [c \in Candidates |-> "unborn"]
    /\ inHand = [c \in Candidates |-> NoCall]
    /\ broker = [c \in Candidates |-> "none"]
    /\ published = 0
    /\ stage = "idle" /\ outcome = "none"
    /\ dialled = 0 /\ stopFor = "none"
    /\ client = 0 /\ attempt = NoAttempt /\ closing = FALSE
    /\ suback = "none"
    /\ stream = NoStream /\ msgError = FALSE
    /\ taken = <<>> /\ overflown = {}

-----------------------------------------------------------------------------
(* The network threads *)

\* The thread of c is free to read from the network.
Reads(c) == inHand[c] = NoCall

HandOver(c, call) == inHand' = [inHand EXCEPT ![c] = call]

FailPendingSubacks == suback' = IF suback = "none" THEN "none" ELSE "failed"

Connack(c) ==
    /\ thread[c] = "dialling" /\ Reads(c)
    /\ thread' = [thread EXCEPT ![c] = "linked"]
    /\ \E code \in Codes : HandOver(c, <<"connack", code>>)
    /\ UNCHANGED <<broker, published, callVars, linkVars, suback, streamVars>>

\* _on_disconnect: while connecting it is the attempt that fails, later the session;
\* only then is paho kept from dialling again.
LinkLost(c) ==
    /\ thread[c] \in {"dialling", "linked"} /\ Reads(c)
    /\ broker' = [broker EXCEPT ![c] = "none"]
    /\ IF closing
         THEN /\ thread' = [thread EXCEPT ![c] = "dialling"]
              /\ UNCHANGED <<inHand, suback>>
         ELSE IF attempt.made
                THEN /\ thread' = [thread EXCEPT ![c] = "dialling"]
                     /\ HandOver(c, <<"connectError">>)
                     /\ UNCHANGED suback
                ELSE /\ thread' = [thread EXCEPT ![c] = "ended"]
                     /\ HandOver(c, <<"lost">>)
                     /\ FailPendingSubacks
    /\ UNCHANGED <<published, callVars, linkVars, streamVars>>

\* A DISCONNECT with reason code 0 from the broker is ignored, and paho dials again.
BrokerLeaves(c) ==
    /\ thread[c] = "linked" /\ Reads(c)
    /\ thread' = [thread EXCEPT ![c] = "dialling"]
    /\ broker' = [broker EXCEPT ![c] = "gone"]
    /\ UNCHANGED <<inHand, published, callVars, linkVars, suback, streamVars>>

\* _on_subscribe; an answer that finds no entry is forgotten.
Suback(c) ==
    /\ thread[c] = "linked" /\ Reads(c) /\ broker[c] = "asked"
    /\ \E answer \in {"granted", "rejected"} :
          /\ broker' = [broker EXCEPT ![c] = answer]
          /\ suback' = IF suback = "none" THEN "none" ELSE answer
    /\ UNCHANGED <<thread, inHand, published, callVars, linkVars, streamVars>>

Publish(c) ==
    /\ thread[c] = "linked" /\ Reads(c) /\ broker[c] \in {"asked", "granted"}
    /\ published < MaxMessages
    /\ published' = published + 1
    /\ HandOver(c, <<"message", published'>>)
    /\ UNCHANGED <<thread, broker, callVars, linkVars, suback, streamVars>>

\* The end of a thread that was told to stop: paho reports a disconnect (code 0, not
\* from the broker) if it was connected.
Leaves(c) ==
    /\ thread[c] = "leaving" /\ Reads(c)
    /\ thread' = [thread EXCEPT ![c] = "ended"]
    /\ broker' = [broker EXCEPT ![c] = "none"]
    /\ \/ UNCHANGED <<inHand, suback>>
       \/ /\ ~closing /\ attempt.made
          /\ HandOver(c, <<"connectError">>)
          /\ UNCHANGED suback
       \/ /\ ~closing /\ ~attempt.made
          /\ HandOver(c, <<"lost">>)
          /\ FailPendingSubacks
    /\ UNCHANGED <<published, callVars, linkVars, streamVars>>

NetworkStep ==
    \E c \in Candidates : Connack(c) \/ LinkLost(c) \/ BrokerLeaves(c) \/ Suback(c)
                          \/ Publish(c)

-----------------------------------------------------------------------------
(* Callbacks on the loop *)

\* _set_connect_success
RunConnack(c) ==
    /\ inHand[c][1] = "connack"
    /\ attempt' = IF attempt.made THEN [attempt EXCEPT !.code = inHand[c][2]] ELSE attempt
    /\ UNCHANGED <<client, closing, streamVars>>

\* _set_connect_error: a CONNACK that has come stays the outcome.
RunConnectError(c) ==
    /\ inHand[c] = <<"connectError">>
    /\ attempt' = IF attempt.made /\ attempt.code = "none"
                    THEN [attempt EXCEPT !.error = TRUE] ELSE attempt
    /\ UNCHANGED <<client, closing, streamVars>>

\* Faulty: a message that finds the queue full pushes the oldest one out.
DropOldest(c) ==
    /\ inHand[c][1] = "message"
    /\ stream' = IF ~stream.open THEN stream
                 ELSE IF Len(stream.buffer) < QueueSize
                        THEN [stream EXCEPT !.buffer = Append(@, inHand[c][2])]
                        ELSE [stream EXCEPT !.buffer = Append(Tail(@), inHand[c][2])]
    /\ UNCHANGED <<client, attempt, closing, msgError, taken, overflown>>

\* _send_message_nowait: a full queue and a closed stream drop the message.
RunMessage(c) ==
    /\ inHand[c][1] = "message"
    /\ LET n == inHand[c][2] IN
       \/ /\ stream.open /\ Len(stream.buffer) < QueueSize
          /\ stream' = [stream EXCEPT !.buffer = Append(@, n)]
          /\ UNCHANGED overflown
       \/ /\ ~stream.open \/ Len(stream.buffer) = QueueSize
          /\ overflown' = IF stream.open THEN overflown \cup {n} ELSE overflown
          /\ UNCHANGED stream
    /\ UNCHANGED <<client, attempt, closing, msgError, taken>>

\* _handle_unexpected_disconnect: what is buffered can still be read.
RunLost(c) ==
    /\ inHand[c] = <<"lost">>
    /\ client' = IF client = c THEN 0 ELSE client
    /\ msgError' = TRUE
    /\ stream' = [stream EXCEPT !.open = FALSE]
    /\ UNCHANGED <<attempt, closing, taken, overflown>>

RunCallback(c) ==
    /\ RunConnack(c) \/ RunConnectError(c) \/ RunMessage(c) \/ RunLost(c)
    /\ HandOver(c, NoCall)
    /\ UNCHANGED <<thread, broker, published, callVars, suback>>

-----------------------------------------------------------------------------
(* The caller's task *)

Returns(how) == stage' = "idle" /\ outcome' = how

\* _connect_candidate as far as its first await, with the threads as they then are.
DialWith(threads) ==
    /\ dialled' = dialled + 1
    /\ thread' = [threads EXCEPT ![dialled'] = "dialling"]
    /\ attempt' = NewAttempt
    /\ stage' = "connecting"
    /\ UNCHANGED outcome

\* connect begins with disconnect_ws_only, which here has nothing to stop.
Connect ==
    /\ stage = "idle" /\ client = 0 /\ dialled = 0
    /\ DialWith(thread)
    /\ closing' = FALSE
    /\ stream' = NoStream /\ msgError' = FALSE
    /\ UNCHANGED <<inHand, broker, published, stopFor, client, suback, taken, overflown>>

\* client.disconnect() and loop_stop() in a worker thread, which joins the thread.
Stop(c) == thread' = [thread EXCEPT ![c] = IF @ = "ended" THEN @ ELSE "leaving"]

\* The CONNACK accepts: the candidate becomes the client, with a stream of its own.
Adopt ==
    /\ stage = "connecting" /\ attempt.code = "accepted"
    /\ client' = dialled /\ attempt' = NoAttempt /\ closing' = FALSE
    /\ stream' = NewStream /\ msgError' = FALSE
    /\ Returns("ok")
    /\ UNCHANGED <<netVars, dialled, stopFor, suback, taken, overflown>>

\* Faulty: the candidate that redirected is left behind.
RedirectAtOnce ==
    /\ stage = "connecting" /\ attempt.code = "redirect"
    /\ stage' = "stopping" /\ stopFor' = "redirect"
    /\ UNCHANGED <<netVars, dialled, outcome, linkVars, suback, streamVars>>

\* The CONNACK redirects or refuses: the candidate is stopped first, the attempt still
\* being the current one.
RedirectOrRefused ==
    /\ stage = "connecting" /\ attempt.code \in {"redirect", "refused"}
    /\ Stop(dialled)
    /\ stage' = "stopping"
    /\ stopFor' = IF attempt.code = "redirect" THEN "redirect" ELSE "failed"
    /\ UNCHANGED <<inHand, broker, published, dialled, outcome, linkVars, suback, streamVars>>

\* No CONNACK: the link failed, or _MQTT_CONNECT_TIMEOUT is over.
AttemptFails ==
    /\ stage = "connecting" /\ attempt.code = "none"
    /\ attempt' = NoAttempt
    /\ Stop(dialled)
    /\ stage' = "stopping" /\ stopFor' = "failed"
    /\ UNCHANGED <<inHand, broker, published, dialled, outcome, client, closing, suback,
                   streamVars>>

\* The candidate's thread has been joined: dial the next node, or give up.
Stopped ==
    /\ stage = "stopping" /\ thread[dialled] # "leaving" /\ Reads(dialled)
    /\ stopFor' = "none"
    /\ \/ /\ stopFor = "redirect" /\ dialled <= MaxRedirects
          /\ DialWith(thread)
       \/ /\ stopFor = "redirect" /\ dialled > MaxRedirects
          /\ attempt' = NoAttempt
          /\ Returns("redirected")
          /\ UNCHANGED <<thread, dialled>>
       \/ /\ stopFor = "failed"
          /\ attempt' = NoAttempt
          /\ Returns("error")
          /\ UNCHANGED <<thread, dialled>>
    /\ UNCHANGED <<inHand, broker, published, client, closing, suback, streamVars>>

\* The caller's deadline strikes: in `finally` the worker thread that should stop the
\* candidate is not even started, because its first await is cancelled as well.
ConnectCut ==
    /\ stage = "connecting"
    /\ Returns("timeout")
    /\ UNCHANGED <<netVars, dialled, stopFor, linkVars, suback, streamVars>>

IsConnected == client # 0 /\ thread[client] = "linked"

\* Either not connected, or the packet is out; the network thread may see the answer
\* before the entry is made.
Subscribe ==
    /\ stage = "idle"
    /\ \/ /\ ~IsConnected
          /\ Returns("error")
          /\ UNCHANGED broker
       \/ /\ IsConnected
          /\ broker' = [broker EXCEPT ![client] = "asked"]
          /\ stage' = "registering"
          /\ UNCHANGED outcome
    /\ UNCHANGED <<thread, inHand, published, dialled, stopFor, linkVars, suback, streamVars>>

Register ==
    /\ stage = "registering"
    /\ suback' = "waiting"
    /\ stage' = "subscribing"
    /\ UNCHANGED <<netVars, dialled, stopFor, outcome, linkVars, streamVars>>

\* Faulty: any answer will do.
SubscribedAnyhow ==
    /\ stage = "subscribing" /\ suback # "waiting"
    /\ suback' = "none"
    /\ Returns("ok")
    /\ UNCHANGED <<netVars, dialled, stopFor, linkVars, streamVars>>

Subscribed ==
    /\ stage = "subscribing" /\ suback # "waiting"
    /\ suback' = "none"
    /\ Returns(IF suback = "granted" THEN "ok" ELSE "error")
    /\ UNCHANGED <<netVars, dialled, stopFor, linkVars, streamVars>>

\* Faulty: threading.Event.wait without its limit.
WaitForSuback ==
    /\ FALSE
    /\ UNCHANGED mqttVars

\* max(keep_alive, 5) seconds are over.  No cancellation cuts this wait short.
SubscribeTimesOut ==
    /\ stage = "subscribing" /\ suback = "waiting"
    /\ suback' = "none"
    /\ Returns("timeout")
    /\ UNCHANGED <<netVars, dialled, stopFor, linkVars, streamVars>>

\* anext(messages())
Receive ==
    /\ stage = "idle"
    /\ stage' = "receiving"
    /\ UNCHANGED <<netVars, dialled, stopFor, outcome, linkVars, suback, streamVars>>

\* A message; or the stream is over, with or without an error.
Received ==
    /\ stage = "receiving"
    /\ \/ /\ stream.buffer # <<>>
          /\ taken' = Append(taken, Head(stream.buffer))
          /\ stream' = [stream EXCEPT !.buffer = Tail(@)]
          /\ Returns("message")
       \/ /\ stream.buffer = <<>> /\ ~stream.open
          /\ Returns(IF msgError THEN "error" ELSE "end")
          /\ UNCHANGED <<taken, stream>>
    /\ UNCHANGED <<netVars, dialled, stopFor, linkVars, suback, msgError, overflown>>

ReceiveCut ==
    /\ stage = "receiving"
    /\ Returns("timeout")
    /\ UNCHANGED <<netVars, dialled, stopFor, linkVars, suback, streamVars>>

\* disconnect, called from __aexit__.
Disconnect ==
    /\ stage = "idle"
    /\ client' = 0 /\ closing' = TRUE /\ attempt' = NoAttempt
    /\ IF client # 0 THEN Stop(client) ELSE UNCHANGED thread
    /\ stage' = "closing"
    /\ UNCHANGED <<inHand, broker, published, dialled, stopFor, outcome, suback, streamVars>>

\* The only thread that can be on its way out is the one being joined.
Disconnected ==
    /\ stage = "closing"
    /\ \A c \in Candidates : thread[c] # "leaving" /\ (thread[c] = "ended" => Reads(c))
    /\ stage' = "closed"
    /\ suback' = "none"
    /\ stream' = NoStream /\ msgError' = FALSE /\ closing' = FALSE
    /\ UNCHANGED <<netVars, dialled, stopFor, outcome, client, attempt, taken, overflown>>

\* Steps of the caller's task and of the threads it has told to stop that need nobody else.
ClientStep ==
    \/ Adopt \/ RedirectOrRefused \/ Stopped \/ Register \/ Subscribed \/ Received
    \/ Disconnected \/ SubscribeTimesOut \/ AttemptFails
    \/ \E c \in Candidates : RunCallback(c) \/ Leaves(c)
=============================================================================
