------------------------------- MODULE QrLogin -------------------------------
(***************************************************************************)
(* A QR code login session: iter_events of QRCodeLoginSession              *)
(* (qqmusic_api/modules/login_utils.py), which polls check_qrcode for a    *)
(* code of QQ or WeChat, or follows checking_mobile_qrcode (login.py) on   *)
(* an MqttClient for a code of the mobile app.  The user, the upstream and *)
(* the broker do what they like; the deadline may pass at any moment.      *)
(***************************************************************************)
EXTENDS MqttClient

VARIABLES
    kind,   \* qr_type: "web" (QQ, WeChat) or "mobile"
    at,     \* where the session is suspended
    late,   \* the deadline has passed
    shown,  \* the last event yielded
    ending  \* how the stream of events ended: a terminal event or an exception

qrVars == <<kind, at, late, shown, ending>>
vars == <<mqttVars, qrVars>>

Terminal == {"DONE", "REFUSE", "TIMEOUT"}
Events == Terminal \cup {"SCAN", "CONF"}
Errors == {"networkError", "redirectError", "loginError"}

QrTypeOK ==
    /\ kind \in {"web", "mobile"}
    /\ at \in {"start", "connect", "subscribe", "listen", "message", "login",
               "check", "pause", "end"}
    /\ late \in BOOLEAN
    /\ shown \in Events \cup {"none"}
    /\ ending \in Terminal \cup Errors \cup {"none", "silent"}

\* Every variable of the client and of the session keeps its type.
TypeOK == MqttTypeOK /\ QrTypeOK

Init ==
    /\ MqttInit
    /\ kind \in {"web", "mobile"}
    /\ at = "start" /\ late = FALSE /\ shown = "none" /\ ending = "none"

-----------------------------------------------------------------------------

Goes(place) == at' = place /\ UNCHANGED <<kind, late, shown, ending>>

Yields(event, place) ==
    /\ at' = place /\ shown' = event
    /\ UNCHANGED <<kind, late, ending>>

\* A terminal event is yielded last; an exception ends the stream without one.
Ends(how) ==
    /\ at' = "end" /\ ending' = how
    /\ shown' = IF how \in Terminal THEN how ELSE shown
    /\ UNCHANGED <<kind, late>>

DeadlinePasses ==
    /\ ~late /\ late' = TRUE
    /\ UNCHANGED <<mqttVars, kind, at, shown, ending>>

\* A code of the mobile app: connect and subscribe, each before the deadline.
MobileStart ==
    /\ at = "start" /\ kind = "mobile"
    /\ \/ late /\ Ends("TIMEOUT") /\ UNCHANGED mqttVars
       \/ ~late /\ Connect /\ Goes("connect")

MobileConnected ==
    /\ at = "connect" /\ stage = "idle"
    /\ \/ outcome = "ok" /\ ~late /\ Subscribe /\ Goes("subscribe")
       \/ /\ \/ outcome = "ok" /\ late /\ Ends("TIMEOUT")
             \/ outcome = "timeout" /\ Ends("TIMEOUT")
             \/ outcome = "error" /\ Ends("networkError")
             \/ outcome = "redirected" /\ Ends("redirectError")
          /\ UNCHANGED mqttVars

MobileSubscribed ==
    /\ at = "subscribe" /\ stage = "idle"
    /\ \/ outcome = "ok" /\ Yields("SCAN", "listen")
       \/ outcome = "timeout" /\ Ends("TIMEOUT")
       \/ outcome = "error" /\ Ends("networkError")
    /\ UNCHANGED mqttVars

MobileListen ==
    /\ at = "listen"
    /\ \/ late /\ Ends("TIMEOUT") /\ UNCHANGED mqttVars
       \/ ~late /\ Receive /\ Goes("message")

\* _handle_mobile_message: what is not known is skipped, cookies are exchanged for a
\* credential, the rest is an event or a failure.
MobileMessage ==
    /\ at = "message" /\ stage = "idle" /\ outcome = "message"
    /\ \/ late /\ Ends("TIMEOUT")
       \/ /\ ~late
          /\ \/ Goes("listen")
             \/ Yields("CONF", "listen")
             \/ \E how \in {"REFUSE", "TIMEOUT", "loginError"} : Ends(how)
             \/ Goes("login")
    /\ UNCHANGED mqttVars

MobileSilence ==
    /\ at = "message" /\ stage = "idle"
    /\ \/ outcome = "timeout" /\ Ends("TIMEOUT")
       \/ outcome = "error" /\ Ends("networkError")
       \/ outcome = "end" /\ Ends("silent")
    /\ UNCHANGED mqttVars

MobileLogin ==
    /\ at = "login"
    /\ \/ late /\ Ends("TIMEOUT")
       \/ \E how \in {"DONE", "loginError", "networkError"} : Ends(how)
    /\ UNCHANGED mqttVars

\* The deadline cuts the two waits it can cut.
MobileCut ==
    /\ late /\ at \in {"connect", "message"}
    /\ ConnectCut \/ ReceiveCut
    /\ UNCHANGED qrVars

\* Leaving `async with MqttClient`.
MobileLeave ==
    /\ at = "end" /\ kind = "mobile"
    /\ Disconnect
    /\ UNCHANGED qrVars

\* A code of QQ or WeChat: check, yield, sleep, until a terminal event.
WebStart ==
    /\ at = "start" /\ kind = "web"
    /\ \/ late /\ Ends("TIMEOUT")
       \/ ~late /\ Goes("check")
    /\ UNCHANGED mqttVars

\* The check is cut at the deadline; a network error is retried after a pause.
WebCheck ==
    /\ at = "check"
    /\ \/ late /\ Ends("TIMEOUT")
       \/ \E event \in Events \ Terminal : Yields(event, "pause")
       \/ \E how \in Terminal \cup {"loginError"} : Ends(how)
       \/ Goes("pause")
    /\ UNCHANGED mqttVars

WebPause ==
    /\ at = "pause"
    /\ \/ late /\ Ends("TIMEOUT")
       \/ ~late /\ Goes("start")
    /\ UNCHANGED mqttVars

MobileStep ==
    \/ MobileStart \/ MobileConnected \/ MobileSubscribed \/ MobileListen
    \/ MobileMessage \/ MobileSilence \/ MobileLogin \/ MobileLeave
WebStep == WebStart \/ WebCheck \/ WebPause
ClientSteps == ClientStep /\ UNCHANGED qrVars

Next ==
    \/ DeadlinePasses \/ MobileStep \/ MobileCut \/ WebStep
    \/ ClientSteps
    \/ NetworkStep /\ UNCHANGED qrVars

Spec == Init /\ [][Next]_vars

\* The loop runs what is ready and the callbacks handed to it, requests and worker threads
\* end, timers fire: the deadline, and the limits of connect and subscribe.  Nothing is
\* assumed of the network.
FairSpec ==
    /\ Spec
    /\ WF_vars(DeadlinePasses)
    /\ WF_vars(MobileStep \/ WebStep) /\ WF_vars(MobileCut)
    /\ WF_vars((Adopt \/ RedirectOrRefused \/ Stopped \/ Register \/ Subscribed
                \/ Received \/ Disconnected \/ SubscribeTimesOut \/ AttemptFails)
               /\ UNCHANGED qrVars)
    /\ \A c \in Candidates : WF_vars((RunCallback(c) \/ Leaves(c)) /\ UNCHANGED qrVars)

-----------------------------------------------------------------------------
(* Properties *)

\* The session is over and its client, if any, is closed.
Over == at = "end" /\ (kind = "mobile" => stage = "closed")

\* Every message that reached the network thread is delivered once and in its order,
\* is waiting to be, or was dropped at a full queue: the loop, a lost connection and the
\* reader between them lose none, and a session that fails on the loss has first read what
\* arrived before it.
MessagesAccountedFor ==
    LET order == taken \o stream.buffer IN
    /\ TypeOK
    /\ at = "message" /\ stage = "idle" /\ outcome = "error" =>
         ToSet(taken) \cup overflown = 1 .. published
    /\ \A i, j \in 1 .. Len(order) : i < j => order[i] < order[j]
    /\ stream.open =>
         \A n \in 1 .. published :
            \/ n \in ToSet(order) \cup overflown
            \/ \E c \in Candidates : inHand[c] = <<"message", n>>

\* A session that waits for messages is subscribed, or is about to be told of the loss, or
\* the broker has left with reason code 0, which the client ignores.
ListenersAreSubscribed ==
    at \in {"listen", "message"} /\ stream.open =>
        \E c \in Candidates : broker[c] \in {"granted", "gone"} \/ inHand[c] = <<"lost">>

\* When a session is over no network thread is left, a candidate excepted whose connect
\* was cut by the deadline.
OnlyCutConnectsStay ==
    Over => \A c \in Candidates :
                thread[c] \in {"unborn", "ended"}
                \/ (c = dialled /\ ending = "TIMEOUT" /\ broker[c] \in {"none", "gone"})

\* Every session ends, whatever the network does: its client is closed, and its stream of
\* events has not just stopped but given a terminal event or raised.
SessionEnds == <>(Over /\ ending # "silent")
=============================================================================
