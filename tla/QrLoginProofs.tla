----------------------------- MODULE QrLoginProofs -----------------------------
(***************************************************************************)
(* Proofs about QrLogin for any number of redirects and messages and any   *)
(* size of the queue: no message is lost, doubled or out of order between  *)
(* the network thread and the reader, who listens is subscribed, and no    *)
(* network thread outlives a session but one whose connect was cut.        *)
(*                                                                         *)
(* The argument is QrInv.  One candidate at a time has a thread (Alone);   *)
(* where the session is suspended tells what its client is doing (Places); *)
(* a callback in hand blocks its thread, so that a message in hand is the  *)
(* last one published (Flow), and a connection is lost only after all that *)
(* it delivered.                                                           *)
(***************************************************************************)
EXTENDS QrLogin, SequenceTheorems, TLAPS

-----------------------------------------------------------------------------
(* The invariant. *)

\* Only the candidate dialled last has a thread that runs, a callback or a subscription.
Alone ==
    \A c \in Candidates : c # dialled =>
        /\ thread[c] = IF c < dialled THEN "ended" ELSE "unborn"
        /\ inHand[c] = NoCall /\ broker[c] = "none"

\* What the client does while the session is suspended somewhere.
Places ==
    /\ kind = "web" => dialled = 0 /\ stage = "idle" /\ at \in {"start", "check", "pause", "end"}
    /\ at \in {"check", "pause"} => kind = "web"
    /\ at = "start" => dialled = 0 /\ stage = "idle"
    /\ at = "connect" => dialled # 0 /\ stage \in {"connecting", "stopping", "idle"}
    /\ at = "subscribe" => dialled # 0 /\ stage \in {"registering", "subscribing", "idle"}
    /\ at = "listen" => dialled # 0 /\ stage = "idle"
    /\ at = "message" => dialled # 0 /\ stage \in {"receiving", "idle"}
    /\ at = "login" => dialled # 0 /\ stage = "idle"
    /\ at = "end" => stage \in {"idle", "closing", "closed"}
    /\ at # "end" => ending = "none"

\* Before a subscription there is nothing to read.
Untouched ==
    at \in {"start", "connect"} =>
        /\ published = 0 /\ taken = <<>> /\ overflown = {} /\ stream.buffer = <<>>
        /\ \A c \in Candidates : broker[c] \in {"none", "gone"}

\* The attempt and the client of a connect.
Link ==
    /\ client \in {0, dialled}
    /\ dialled = 0 => stream = NoStream /\ published = 0 /\ taken = <<>> /\ overflown = {}
    /\ dialled # 0 => thread[dialled] # "unborn"
    /\ stage \in {"connecting", "stopping"} => client = 0 /\ ~stream.made
    /\ stage = "connecting" => attempt.made
    /\ stage = "stopping" => thread[dialled] \in {"leaving", "ended"}
    /\ at = "connect" /\ stage = "idle" /\ outcome = "ok" => ~attempt.made
    /\ at \in {"subscribe", "listen", "message", "login"} => ~attempt.made
    /\ closing => stage = "closing"
    /\ suback # "none" => stage = "subscribing"
    /\ \A c \in Candidates : thread[c] = "leaving" => stage \in {"stopping", "closing"}
    /\ \A c \in Candidates : inHand[c] = <<"lost">> => thread[c] = "ended"
    /\ \A c \in Candidates : thread[c] = "ended" => broker[c] = "none"
    /\ stage \in {"closing", "closed"} => client = 0

\* The dialled candidate has its subscription, or did until the broker left with code 0.
Granted ==
    /\ dialled # 0
    /\ broker[dialled] \in {"granted", "gone"} /\ thread[dialled] \in {"dialling", "linked"}

\* ... or the loss of it is in hand.
Holds == Granted \/ (dialled # 0 /\ inHand[dialled] = <<"lost">>)

Subscription ==
    /\ suback = "granted" => Granted
    /\ stream.open =>
          /\ at = "subscribe" /\ stage = "idle" /\ outcome = "ok" => Holds
          /\ at \in {"listen", "message"} => Holds

\* A thread nobody will stop is one whose connect was cut.
Stray ==
    /\ client = 0 /\ dialled # 0 /\ stage \notin {"connecting", "stopping"}
    /\ thread[dialled] \in {"dialling", "linked"}
    => /\ broker[dialled] \in {"none", "gone"}
       /\ \/ at = "connect" /\ stage = "idle" /\ outcome = "timeout"
          \/ at = "end" /\ ending = "TIMEOUT"

\* What the caller got and what it will get.
Read == taken \o stream.buffer
Known == ToSet(Read) \cup overflown

Flow ==
    /\ ToSet(Read) \subseteq 1 .. published /\ overflown \subseteq 1 .. published
    /\ \A i, j \in 1 .. Len(Read) : i < j => Read[i] < Read[j]
    /\ dialled # 0 /\ inHand[dialled][1] = "message" =>
          inHand[dialled][2] = published /\ published \notin ToSet(Read)
    /\ at = "connect" /\ stage = "idle" /\ outcome = "ok" => stream.made
    /\ at \in {"subscribe", "listen", "message"} => stream.made
    /\ stream.open =>
          /\ stream.made
          /\ \A n \in 1 .. published :
                \/ n \in Known
                \/ dialled # 0 /\ inHand[dialled] = <<"message", n>>
    /\ stream.made /\ ~stream.open =>
          /\ dialled # 0 /\ thread[dialled] = "ended" /\ inHand[dialled] = NoCall
          /\ 1 .. published \subseteq Known
    /\ at = "message" /\ stage = "idle" /\ outcome = "error" =>
          stream.made /\ ~stream.open /\ stream.buffer = <<>>

\* All of it, inductive.
QrInv == TypeOK /\ Alone /\ Places /\ Untouched /\ Link /\ Subscription /\ Stray /\ Flow

-----------------------------------------------------------------------------
(* The parts a step touches. *)

\* What a callback in hand can be.
LEMMA CallKinds ==
    ASSUME NEW call \in Callbacks
    PROVE  /\ call[1] = "message" =>
                 call[2] \in 1 .. MaxMessages /\ call = <<"message", call[2]>>
           /\ call[1] = "connack" => call[2] \in Codes
           /\ call = <<"lost">> => call[1] # "message"
           /\ call = <<"connectError">> => call[1] # "message"
           /\ call = NoCall => call[1] # "message"
  <1>1. CASE call \in {NoCall, <<"lost">>, <<"connectError">>}
    BY <1>1, SMT DEF NoCall
  <1>2. CASE call \in {"connack"} \X Codes
    BY <1>2, SMT DEF NoCall
  <1>3. CASE call \in {"message"} \X (1 .. MaxMessages)
    BY <1>3, SMT DEF NoCall
  <1> QED
    BY <1>1, <1>2, <1>3 DEF Callbacks

\* Only the candidate dialled last is anything to the network.
LEMMA OnlyDialled ==
    ASSUME QrInv, NEW c \in Candidates,
           \/ thread[c] \notin {"unborn", "ended"}
           \/ inHand[c] # NoCall
           \/ broker[c] # "none"
    PROVE  c = dialled /\ dialled # 0
  BY MqttAssumption DEF QrInv, TypeOK, MqttTypeOK, Alone, Candidates

\* The numbers of candidates.
LEMMA DialledIsACandidate ==
    ASSUME TypeOK, dialled # 0
    PROVE  dialled \in Candidates
  BY MqttAssumption DEF TypeOK, MqttTypeOK, Candidates

-----------------------------------------------------------------------------
(* The session begins in the invariant. *)

LEMMA InitQrLogin == Init => QrInv
  <1> SUFFICES ASSUME Init PROVE QrInv
    OBVIOUS
  <1> USE DEF Init, MqttInit, NoAttempt, NoStream
  <1>1. TypeOK
    <2>1. inHand \in [Candidates -> Callbacks]
      BY DEF Callbacks
    <2>2. QrTypeOK
      BY DEF QrTypeOK
    <2>3. attempt \in [made : BOOLEAN, code : Codes \cup {"none"}, error : BOOLEAN]
      OBVIOUS
    <2>4. /\ stream \in [made : BOOLEAN, open : BOOLEAN, buffer : Seq(1 .. MaxMessages)]
          /\ Len(stream.buffer) <= QueueSize /\ taken \in Seq(1 .. MaxMessages)
      BY MqttAssumption
    <2>5. /\ thread \in [Candidates -> {"unborn", "dialling", "linked", "leaving", "ended"}]
          /\ broker \in [Candidates -> {"none", "asked", "granted", "rejected", "gone"}]
      OBVIOUS
    <2>6. published \in 0 .. MaxMessages /\ dialled \in 0 .. MaxRedirects + 1
      BY MqttAssumption
    <2> QED
      BY <2>1, <2>2, <2>3, <2>4, <2>5, <2>6 DEF TypeOK, MqttTypeOK
  <1>2. Alone
    BY MqttAssumption DEF Alone, Candidates, NoCall
  <1>3. Places
    BY DEF Places
  <1>4. Untouched /\ Link /\ Stray
    BY DEF Untouched, Link, Stray, NoCall
  <1>5. Subscription
    BY DEF Subscription
  <1>6. Flow
    <2>1. Read = <<>>
      BY DEF Read
    <2>2. ToSet(Read) = {}
      BY <2>1 DEF ToSet
    <2> QED
      BY <2>1, <2>2 DEF Flow
  <1> QED
    BY <1>1, <1>2, <1>3, <1>4, <1>5, <1>6 DEF QrInv

-----------------------------------------------------------------------------
(* The steps of the network threads. *)

LEMMA SameRead ==
    ASSUME UNCHANGED <<stream, taken, overflown>>
    PROVE  Read' = Read /\ Known' = Known
  BY DEF Read, Known

LEMMA ConnackKeeps ==
    ASSUME QrInv, NEW c \in Candidates, Connack(c), UNCHANGED qrVars
    PROVE  QrInv'
  <1> USE DEF qrVars, callVars, linkVars, streamVars, Connack, HandOver, Reads
  <1>1. c = dialled /\ dialled # 0
    BY OnlyDialled
  <1>2. PICK code \in Codes : inHand' = [inHand EXCEPT ![c] = <<"connack", code>>]
    OBVIOUS
  <1>3. /\ <<"connack", code>> \in Callbacks
        /\ <<"connack", code>>[1] # "message" /\ <<"connack", code>> # <<"lost">>
    BY DEF Callbacks
  <1>4. TypeOK'
    <2>1. inHand' \in [Candidates -> Callbacks]
      BY <1>2, <1>3 DEF QrInv, TypeOK, MqttTypeOK
    <2>2. thread' \in [Candidates -> {"unborn", "dialling", "linked", "leaving", "ended"}]
      BY DEF QrInv, TypeOK, MqttTypeOK
    <2>3. QrTypeOK'
      BY DEF QrInv, TypeOK, QrTypeOK
    <2> QED
      BY <2>1, <2>2, <2>3 DEF QrInv, TypeOK, MqttTypeOK
  <1>5. Alone' /\ Places' /\ Untouched'
    BY <1>1, <1>2 DEF QrInv, TypeOK, MqttTypeOK, Alone, Places, Untouched
  <1>6. Link' /\ Stray'
    BY <1>1, <1>2, <1>3 DEF QrInv, TypeOK, MqttTypeOK, Link, Stray
  <1>7. Subscription'
    BY <1>1, <1>2 DEF QrInv, TypeOK, MqttTypeOK, Subscription, Granted, Holds, NoCall
  <1>8. Flow'
    <2>1. Read' = Read /\ Known' = Known
      BY SameRead
    <2>2. inHand[dialled] # <<"message", 1>> /\ \A n : inHand[dialled] # <<"message", n>>
      BY <1>1 DEF NoCall
    <2> QED
      BY <1>1, <1>2, <1>3, <2>1, <2>2 DEF QrInv, TypeOK, MqttTypeOK, Flow
  <1> QED
    BY <1>4, <1>5, <1>6, <1>7, <1>8 DEF QrInv

LEMMA LinkLostKeeps ==
    ASSUME QrInv, NEW c \in Candidates, LinkLost(c), UNCHANGED qrVars
    PROVE  QrInv'
  <1> USE DEF qrVars, callVars, linkVars, streamVars, LinkLost, HandOver, Reads
  <1>1. c = dialled /\ dialled # 0
    BY OnlyDialled
  <1>2. /\ <<"lost">> \in Callbacks /\ <<"connectError">> \in Callbacks
        /\ <<"lost">>[1] # "message" /\ <<"connectError">>[1] # "message"
        /\ <<"connectError">> # <<"lost">>
    BY DEF Callbacks
  <1>3. TypeOK'
    <2>1. inHand' \in [Candidates -> Callbacks]
      BY <1>2 DEF QrInv, TypeOK, MqttTypeOK
    <2>2. /\ thread' \in [Candidates -> {"unborn", "dialling", "linked", "leaving", "ended"}]
          /\ broker' \in [Candidates -> {"none", "asked", "granted", "rejected", "gone"}]
      BY DEF QrInv, TypeOK, MqttTypeOK
    <2>3. QrTypeOK'
      BY DEF QrInv, TypeOK, QrTypeOK
    <2>4. suback' \in {"none", "waiting", "granted", "rejected", "failed"}
      BY DEF QrInv, TypeOK, MqttTypeOK, FailPendingSubacks
    <2> QED
      BY <2>1, <2>2, <2>3, <2>4 DEF QrInv, TypeOK, MqttTypeOK
  <1>4. Alone' /\ Places' /\ Untouched'
    BY <1>1 DEF QrInv, TypeOK, MqttTypeOK, Alone, Places, Untouched
  <1>5. Link'
    <2>1. suback' # "none" => stage' = "subscribing"
      BY DEF QrInv, Link, FailPendingSubacks
    <2>2. /\ thread'[c] \in {"dialling", "ended"} /\ broker'[c] = "none"
          /\ inHand'[c] = <<"lost">> => thread'[c] = "ended"
          /\ \A other \in Candidates \ {c} : /\ thread'[other] = thread[other]
                                             /\ broker'[other] = broker[other]
                                             /\ inHand'[other] = inHand[other]
      BY <1>2 DEF QrInv, TypeOK, MqttTypeOK, NoCall
    <2>3. /\ \A x \in Candidates : thread'[x] = "leaving" => stage \in {"stopping", "closing"}
          /\ \A x \in Candidates : inHand'[x] = <<"lost">> => thread'[x] = "ended"
          /\ \A x \in Candidates : thread'[x] = "ended" => broker'[x] = "none"
      BY <2>2 DEF QrInv, Link
    <2> QED
      BY <1>1, <2>1, <2>2, <2>3 DEF QrInv, Link
  <1>6. Stray'
    BY <1>1 DEF QrInv, TypeOK, MqttTypeOK, Link, Stray
  <1>7. Subscription'
    <2>1. CASE ~closing /\ ~attempt.made
      <3>1. suback' # "granted"
        BY <2>1 DEF FailPendingSubacks
      <3>2. dialled' # 0 /\ inHand'[dialled'] = <<"lost">>
        BY <1>1, <2>1 DEF QrInv, TypeOK, MqttTypeOK
      <3> QED
        BY <3>1, <3>2 DEF Subscription, Holds
    <2>2. CASE closing \/ attempt.made
      <3>1. at \in {"start", "connect", "end", "check", "pause"}
        BY <2>2 DEF QrInv, TypeOK, QrTypeOK, Link, Places
      <3>2. suback' = suback /\ suback = "none"
        BY <2>2, <3>1 DEF QrInv, Link, Places
      <3> QED
        BY <3>1, <3>2 DEF Subscription
    <2> QED
      BY <2>1, <2>2
  <1>8. Flow'
    <2>1. Read' = Read /\ Known' = Known
      BY SameRead
    <2>2. \A n : inHand[dialled] # <<"message", n>>
      BY <1>1 DEF NoCall
    <2> QED
      BY <1>1, <1>2, <2>1, <2>2 DEF QrInv, TypeOK, MqttTypeOK, Flow
  <1> QED
    BY <1>3, <1>4, <1>5, <1>6, <1>7, <1>8 DEF QrInv

LEMMA BrokerLeavesKeeps ==
    ASSUME QrInv, NEW c \in Candidates, BrokerLeaves(c), UNCHANGED qrVars
    PROVE  QrInv'
  <1> USE DEF qrVars, callVars, linkVars, streamVars, BrokerLeaves, Reads
  <1>1. c = dialled /\ dialled # 0
    BY OnlyDialled
  <1>2. TypeOK'
    <2>1. /\ thread' \in [Candidates -> {"unborn", "dialling", "linked", "leaving", "ended"}]
          /\ broker' \in [Candidates -> {"none", "asked", "granted", "rejected", "gone"}]
      BY DEF QrInv, TypeOK, MqttTypeOK
    <2>2. QrTypeOK'
      BY DEF QrInv, TypeOK, QrTypeOK
    <2> QED
      BY <2>1, <2>2 DEF QrInv, TypeOK, MqttTypeOK
  <1>3. Alone' /\ Places' /\ Untouched'
    BY <1>1 DEF QrInv, TypeOK, MqttTypeOK, Alone, Places, Untouched
  <1>4. Link' /\ Stray'
    BY <1>1 DEF QrInv, TypeOK, MqttTypeOK, Link, Stray
  <1>5. Subscription'
    BY <1>1 DEF QrInv, TypeOK, MqttTypeOK, Subscription, Granted, Holds
  <1>6. Flow'
    <2>1. Read' = Read /\ Known' = Known
      BY SameRead
    <2> QED
      BY <1>1, <2>1 DEF QrInv, TypeOK, MqttTypeOK, Flow
  <1> QED
    BY <1>2, <1>3, <1>4, <1>5, <1>6 DEF QrInv

LEMMA SubackKeeps ==
    ASSUME QrInv, NEW c \in Candidates, Suback(c), UNCHANGED qrVars
    PROVE  QrInv'
  <1> USE DEF qrVars, callVars, linkVars, streamVars, Suback, Reads
  <1>1. c = dialled /\ dialled # 0
    BY OnlyDialled
  <1>2. PICK answer \in {"granted", "rejected"} :
            /\ broker' = [broker EXCEPT ![c] = answer]
            /\ suback' = IF suback = "none" THEN "none" ELSE answer
    OBVIOUS
  <1>3. TypeOK'
    <2>1. /\ broker' \in [Candidates -> {"none", "asked", "granted", "rejected", "gone"}]
          /\ suback' \in {"none", "waiting", "granted", "rejected", "failed"}
      BY <1>2 DEF QrInv, TypeOK, MqttTypeOK
    <2>2. QrTypeOK'
      BY DEF QrInv, TypeOK, QrTypeOK
    <2> QED
      BY <2>1, <2>2 DEF QrInv, TypeOK, MqttTypeOK
  <1>4. Alone' /\ Places' /\ Untouched'
    BY <1>1, <1>2 DEF QrInv, TypeOK, MqttTypeOK, Alone, Places, Untouched
  <1>5. Link' /\ Stray'
    BY <1>1, <1>2 DEF QrInv, TypeOK, MqttTypeOK, Link, Stray
  <1>6. Subscription'
    BY <1>1, <1>2 DEF QrInv, TypeOK, MqttTypeOK, Subscription, Granted, Holds, NoCall
  <1>7. Flow'
    <2>1. Read' = Read /\ Known' = Known
      BY SameRead
    <2> QED
      BY <1>1, <2>1 DEF QrInv, TypeOK, MqttTypeOK, Flow
  <1> QED
    BY <1>3, <1>4, <1>5, <1>6, <1>7 DEF QrInv

\* A message has its number from the network thread and is in its hand alone.
LEMMA PublishKeeps ==
    ASSUME QrInv, NEW c \in Candidates, Publish(c), UNCHANGED qrVars
    PROVE  QrInv'
  <1> USE DEF qrVars, callVars, linkVars, streamVars, Publish, HandOver, Reads
  <1>1. c = dialled /\ dialled # 0
    BY OnlyDialled
  <1>2. /\ published \in Nat /\ published' = published + 1
        /\ 1 .. published' = (1 .. published) \cup {published'}
        /\ published' \notin 1 .. published
    BY MqttAssumption DEF QrInv, TypeOK, MqttTypeOK
  <1> DEFINE call == <<"message", published'>>
  <1>3. /\ call \in Callbacks /\ call[1] = "message" /\ call[2] = published'
        /\ call # <<"lost">>
    BY <1>2, MqttAssumption DEF QrInv, TypeOK, MqttTypeOK, Callbacks
  <1>4. TypeOK'
    <2>1. inHand' \in [Candidates -> Callbacks]
      BY <1>3 DEF QrInv, TypeOK, MqttTypeOK
    <2>2. QrTypeOK'
      BY DEF QrInv, TypeOK, QrTypeOK
    <2>3. published' \in 0 .. MaxMessages
      BY MqttAssumption DEF QrInv, TypeOK, MqttTypeOK
    <2> QED
      BY <2>1, <2>2, <2>3 DEF QrInv, TypeOK, MqttTypeOK
  <1>5. Alone' /\ Places' /\ Untouched'
    BY <1>1 DEF QrInv, TypeOK, MqttTypeOK, Alone, Places, Untouched
  <1>6. Link' /\ Stray'
    BY <1>1, <1>3 DEF QrInv, TypeOK, MqttTypeOK, Link, Stray
  <1>7. Subscription'
    BY <1>1 DEF QrInv, TypeOK, MqttTypeOK, Subscription, Granted, Holds, NoCall
  <1>8. Flow'
    <2>1. Read' = Read /\ Known' = Known
      BY SameRead
    <2>2. \A n : inHand[dialled] # <<"message", n>>
      BY <1>1 DEF NoCall
    <2>3. thread[dialled] # "ended" /\ inHand'[dialled] = call
      BY <1>1 DEF QrInv, TypeOK, MqttTypeOK
    <2> QED
      BY <1>1, <1>2, <1>3, <2>1, <2>2, <2>3 DEF QrInv, TypeOK, MqttTypeOK, Flow
  <1> QED
    BY <1>4, <1>5, <1>6, <1>7, <1>8 DEF QrInv

LEMMA LeavesKeeps ==
    ASSUME QrInv, NEW c \in Candidates, Leaves(c), UNCHANGED qrVars
    PROVE  QrInv'
  <1> USE DEF qrVars, callVars, linkVars, streamVars, Leaves, HandOver, Reads
  <1>1. c = dialled /\ dialled # 0
    BY OnlyDialled
  <1>2. /\ <<"lost">> \in Callbacks /\ <<"connectError">> \in Callbacks
        /\ <<"lost">>[1] # "message" /\ <<"connectError">>[1] # "message"
        /\ <<"connectError">> # <<"lost">>
    BY DEF Callbacks
  <1>3. suback = "none" /\ suback' = "none"
    BY <1>1 DEF QrInv, Link, FailPendingSubacks
  <1>4. TypeOK'
    <2>1. inHand' \in [Candidates -> Callbacks]
      BY <1>2 DEF QrInv, TypeOK, MqttTypeOK
    <2>2. /\ thread' \in [Candidates -> {"unborn", "dialling", "linked", "leaving", "ended"}]
          /\ broker' \in [Candidates -> {"none", "asked", "granted", "rejected", "gone"}]
      BY DEF QrInv, TypeOK, MqttTypeOK
    <2>3. QrTypeOK'
      BY DEF QrInv, TypeOK, QrTypeOK
    <2> QED
      BY <1>3, <2>1, <2>2, <2>3 DEF QrInv, TypeOK, MqttTypeOK
  <1>5. Alone' /\ Places' /\ Untouched'
    BY <1>1 DEF QrInv, TypeOK, MqttTypeOK, Alone, Places, Untouched
  <1>6. Link'
    BY <1>1, <1>2, <1>3 DEF QrInv, TypeOK, MqttTypeOK, Link
  <1>7. Stray'
    BY <1>1 DEF QrInv, TypeOK, MqttTypeOK, Stray
  <1>8. Subscription'
    BY <1>1, <1>3 DEF QrInv, TypeOK, MqttTypeOK, Link, Places, Subscription
  <1>9. Flow'
    <2>1. Read' = Read /\ Known' = Known
      BY SameRead
    <2>2. \A n : inHand[dialled] # <<"message", n>>
      BY <1>1 DEF NoCall
    <2> QED
      BY <1>1, <1>2, <2>1, <2>2 DEF QrInv, TypeOK, MqttTypeOK, Flow
  <1> QED
    BY <1>4, <1>5, <1>6, <1>7, <1>8, <1>9 DEF QrInv

-----------------------------------------------------------------------------
(* The callbacks on the loop. *)

\* Putting a number at the end of what there is to read.
LEMMA ReadGrows ==
    ASSUME NEW front \in Seq(1 .. MaxMessages), NEW back \in Seq(1 .. MaxMessages),
           NEW n \in 1 .. MaxMessages
    PROVE  /\ front \o Append(back, n) = Append(front \o back, n)
           /\ front \o back \in Seq(1 .. MaxMessages)
           /\ Append(front \o back, n) \in Seq(1 .. MaxMessages)
           /\ Len(Append(front \o back, n)) = Len(front \o back) + 1
           /\ \A i \in 1 .. Len(front \o back) :
                 Append(front \o back, n)[i] = (front \o back)[i]
           /\ Append(front \o back, n)[Len(front \o back) + 1] = n
           /\ ToSet(Append(front \o back, n)) = ToSet(front \o back) \cup {n}
  <1>1. /\ front \o back \in Seq(1 .. MaxMessages)
        /\ Append(front \o back, n) \in Seq(1 .. MaxMessages)
        /\ Len(Append(front \o back, n)) = Len(front \o back) + 1
        /\ \A i \in 1 .. Len(front \o back) :
              Append(front \o back, n)[i] = (front \o back)[i]
        /\ Append(front \o back, n)[Len(front \o back) + 1] = n
    OBVIOUS
  <1>2. front \o Append(back, n) = Append(front \o back, n)
    OBVIOUS
  <1> DEFINE old == front \o back
             new == Append(old, n)
  <1>3. ToSet(new) = ToSet(old) \cup {n}
    <2>1. /\ Len(new) = Len(old) + 1 /\ Len(old) \in Nat
          /\ DOMAIN old = 1 .. Len(old) /\ DOMAIN new = 1 .. Len(new)
          /\ \A i \in 1 .. Len(old) : new[i] = old[i]
          /\ new[Len(old) + 1] = n
      BY <1>1
    <2> HIDE DEF old, new
    <2>2. /\ \A x : x \in ToSet(old) <=> \E i \in 1 .. Len(old) : x = old[i]
          /\ \A x : x \in ToSet(new) <=> \E i \in 1 .. Len(new) : x = new[i]
      BY <2>1, Zenon DEF ToSet
    <2>3. PICK last \in 1 .. Len(new) : last = Len(old) + 1
      BY <2>1
    <2>4. new[last] = n /\ \A i \in 1 .. Len(new) : i \in 1 .. Len(old) \/ i = last
      BY <2>1, <2>3
    <2>5. ASSUME NEW x \in ToSet(new)
          PROVE  x \in ToSet(old) \cup {n}
      <3>1. PICK i \in 1 .. Len(new) : x = new[i]
        BY <2>2
      <3>2. CASE i \in 1 .. Len(old)
        <4>1. x = old[i]
          BY <2>1, <3>1, <3>2
        <4> QED
          BY <2>2, <3>2, <4>1
      <3>3. CASE i = last
        BY <2>4, <3>1, <3>3
      <3> QED
        BY <2>4, <3>2, <3>3
    <2>6. ASSUME NEW x \in ToSet(old) \cup {n}
          PROVE  x \in ToSet(new)
      <3>1. CASE x \in ToSet(old)
        <4>1. PICK i \in 1 .. Len(old) : x = old[i]
          BY <2>2, <3>1
        <4>2. i \in 1 .. Len(new) /\ new[i] = x
          BY <2>1, <4>1
        <4> QED
          BY <2>2, <4>2
      <3>2. CASE x = n
        BY <2>2, <2>3, <2>4, <3>2
      <3> QED
        BY <3>1, <3>2
    <2> QED
      BY <2>5, <2>6
  <1> QED
    BY <1>1, <1>2, <1>3

LEMMA AttemptCallbackKeeps ==
    ASSUME QrInv, NEW c \in Candidates, RunCallback(c), RunConnack(c) \/ RunConnectError(c),
           UNCHANGED qrVars
    PROVE  QrInv'
  <1> USE DEF qrVars, callVars, linkVars, streamVars, RunCallback, HandOver
  <1>1. inHand[c] \in Callbacks
    BY DEF QrInv, TypeOK, MqttTypeOK
  <1>2. /\ inHand[c] # NoCall /\ inHand[c][1] # "message" /\ inHand[c] # <<"lost">>
    BY SMT DEF RunConnack, RunConnectError, NoCall
  <1>3. c = dialled /\ dialled # 0
    BY <1>2, OnlyDialled
  <1>4. UNCHANGED <<client, closing, stream, msgError, taken, overflown>>
    BY DEF RunConnack, RunConnectError
  <1>5. /\ attempt' \in [made : BOOLEAN, code : Codes \cup {"none"}, error : BOOLEAN]
        /\ attempt'.made = attempt.made
    <2>1. CASE RunConnack(c)
      BY <1>1, <2>1, CallKinds DEF RunConnack, QrInv, TypeOK, MqttTypeOK
    <2>2. CASE RunConnectError(c)
      BY <2>2 DEF RunConnectError, QrInv, TypeOK, MqttTypeOK
    <2> QED
      BY <2>1, <2>2
  <1>6. NoCall \in Callbacks /\ NoCall[1] # "message" /\ NoCall # <<"lost">>
    BY DEF Callbacks, NoCall
  <1>7. TypeOK'
    <2>1. inHand' \in [Candidates -> Callbacks]
      BY <1>6 DEF QrInv, TypeOK, MqttTypeOK
    <2>2. QrTypeOK'
      BY DEF QrInv, TypeOK, QrTypeOK
    <2> QED
      BY <1>4, <1>5, <2>1, <2>2 DEF QrInv, TypeOK, MqttTypeOK
  <1>8. Alone' /\ Places' /\ Untouched'
    BY <1>3, <1>4 DEF QrInv, TypeOK, MqttTypeOK, Alone, Places, Untouched
  <1>9. Link' /\ Stray'
    BY <1>3, <1>4, <1>5, <1>6 DEF QrInv, TypeOK, MqttTypeOK, Link, Stray
  <1>10. Subscription'
    BY <1>2, <1>3, <1>4 DEF QrInv, TypeOK, MqttTypeOK, Subscription, Granted, Holds
  <1>11. Flow'
    <2>1. Read' = Read /\ Known' = Known
      BY <1>4, SameRead
    <2>2. \A n : inHand[dialled] # <<"message", n>>
      BY <1>2, <1>3
    <2>3. inHand'[dialled] = NoCall
      BY <1>3 DEF QrInv, TypeOK, MqttTypeOK
    <2> QED
      BY <1>3, <1>4, <1>6, <2>1, <2>2, <2>3 DEF QrInv, TypeOK, MqttTypeOK, Flow
  <1> QED
    BY <1>7, <1>8, <1>9, <1>10, <1>11 DEF QrInv

\* A message goes to the end of what there is to read, and is the newest there.
LEMMA RunMessageKeeps ==
    ASSUME QrInv, NEW c \in Candidates, RunCallback(c), RunMessage(c), UNCHANGED qrVars
    PROVE  QrInv'
  <1> USE DEF qrVars, callVars, linkVars, RunCallback, HandOver
  <1>1. inHand[c] \in Callbacks
    BY DEF QrInv, TypeOK, MqttTypeOK
  <1> DEFINE n == inHand[c][2]
  <1>2. /\ inHand[c] # NoCall /\ inHand[c] # <<"lost">> /\ inHand[c] = <<"message", n>>
        /\ n \in 1 .. MaxMessages
    BY <1>1, CallKinds DEF RunMessage
  <1>3. c = dialled /\ dialled # 0
    BY <1>2, OnlyDialled
  <1>4. n = published /\ published \notin ToSet(Read)
    BY <1>2, <1>3 DEF QrInv, Flow
  <1>5. NoCall \in Callbacks /\ NoCall[1] # "message" /\ NoCall # <<"lost">>
    BY DEF Callbacks, NoCall
  <1>6. UNCHANGED <<client, attempt, closing, msgError, taken>>
    BY DEF RunMessage
  <1>7. /\ stream.buffer \in Seq(1 .. MaxMessages) /\ taken \in Seq(1 .. MaxMessages)
        /\ stream \in [made : BOOLEAN, open : BOOLEAN, buffer : Seq(1 .. MaxMessages)]
        /\ overflown \subseteq 1 .. MaxMessages /\ published \in Nat
        /\ Len(stream.buffer) <= QueueSize
    BY DEF QrInv, TypeOK, MqttTypeOK
  <1>8. /\ stream'.made = stream.made /\ stream'.open = stream.open
        /\ stream' \in [made : BOOLEAN, open : BOOLEAN, buffer : Seq(1 .. MaxMessages)]
        /\ Len(stream'.buffer) <= QueueSize
        /\ overflown' \subseteq 1 .. MaxMessages
    <2>1. CASE stream' = stream
      BY <1>2, <1>7, <2>1 DEF RunMessage
    <2>2. CASE Len(stream.buffer) < QueueSize
               /\ stream' = [stream EXCEPT !.buffer = Append(@, n)] /\ overflown' = overflown
      <3>1. /\ Append(stream.buffer, n) \in Seq(1 .. MaxMessages)
            /\ Len(Append(stream.buffer, n)) = Len(stream.buffer) + 1
        BY <1>2, <1>7
      <3>2. stream'.buffer = Append(stream.buffer, n)
        BY <1>7, <2>2
      <3>3. Len(stream'.buffer) <= QueueSize
        BY <1>7, <2>2, <3>1, <3>2, MqttAssumption
      <3> QED
        BY <1>7, <2>2, <3>1, <3>3
    <2> QED
      BY <2>1, <2>2 DEF RunMessage
  <1>9. \/ stream' = stream /\ overflown' = overflown /\ ~stream.open
        \/ stream' = stream /\ overflown' = overflown \cup {n} /\ stream.open
        \/ /\ stream' = [stream EXCEPT !.buffer = Append(@, n)] /\ overflown' = overflown
           /\ stream.open
    BY DEF RunMessage
  <1> HIDE DEF n
  <1>10. /\ taken \o Append(stream.buffer, n) = Append(Read, n)
         /\ Read \in Seq(1 .. MaxMessages) /\ Len(Read) \in Nat
         /\ Len(Append(Read, n)) = Len(Read) + 1
         /\ \A i \in 1 .. Len(Read) : Append(Read, n)[i] = Read[i]
         /\ Append(Read, n)[Len(Read) + 1] = n
         /\ ToSet(Append(Read, n)) = ToSet(Read) \cup {n}
    <2>1. PICK front \in Seq(1 .. MaxMessages) : front = taken
      BY <1>7
    <2>2. PICK back \in Seq(1 .. MaxMessages) : back = stream.buffer
      BY <1>7
    <2>3. PICK m \in 1 .. MaxMessages : m = n
      BY <1>2
    <2> QED
      <3>1. Read = front \o back
        BY <2>1, <2>2 DEF Read
      <3> QED
        <4>1. /\ front \o Append(back, m) = Append(front \o back, m)
              /\ front \o back \in Seq(1 .. MaxMessages)
              /\ Len(Append(front \o back, m)) = Len(front \o back) + 1
              /\ \A i \in 1 .. Len(front \o back) :
                    Append(front \o back, m)[i] = (front \o back)[i]
              /\ Append(front \o back, m)[Len(front \o back) + 1] = m
              /\ ToSet(Append(front \o back, m)) = ToSet(front \o back) \cup {m}
          BY ReadGrows
        <4>2. Len(front \o back) \in Nat
          BY <4>1
        <4> QED
          BY <2>1, <2>2, <2>3, <3>1, <4>1, <4>2
  <1>11. TypeOK'
    <2>1. inHand' \in [Candidates -> Callbacks]
      BY <1>5 DEF QrInv, TypeOK, MqttTypeOK
    <2>2. QrTypeOK'
      BY DEF QrInv, TypeOK, QrTypeOK
    <2> QED
      BY <1>6, <1>8, <2>1, <2>2 DEF QrInv, TypeOK, MqttTypeOK
  <1>12. at \notin {"start", "connect"}
    BY <1>2, <1>4, <1>7 DEF QrInv, Untouched
  <1>13. Alone' /\ Places' /\ Untouched'
    BY <1>3, <1>12 DEF QrInv, TypeOK, MqttTypeOK, Alone, Places, Untouched
  <1>14. Link' /\ Stray'
    BY <1>3, <1>5, <1>6, <1>8 DEF QrInv, TypeOK, MqttTypeOK, Link, Stray
  <1>15. Subscription'
    BY <1>2, <1>3, <1>8 DEF QrInv, TypeOK, MqttTypeOK, Subscription, Granted, Holds
  <1>16. Flow'
    <2>1. \/ Read' = Read /\ Known' = Known /\ ~stream.open
          \/ Read' = Read /\ Known' = Known \cup {n} /\ stream.open
          \/ Read' = Append(Read, n) /\ Known' = Known \cup {n} /\ stream.open
      <3>1. CASE stream' = [stream EXCEPT !.buffer = Append(@, n)] /\ overflown' = overflown
        <4>1. stream'.buffer = Append(stream.buffer, n)
          BY <1>7, <3>1
        <4>2. Read' = Append(Read, n) /\ ToSet(Append(Read, n)) = ToSet(Read) \cup {n}
          BY <1>6, <1>10, <4>1 DEF Read
        <4> QED
          BY <1>7, <1>9, <3>1, <4>1, <4>2 DEF Known
      <3> QED
        BY <1>6, <1>9, <3>1 DEF Read, Known
    <2>2. inHand'[dialled] = NoCall /\ thread' = thread /\ published' = published
      BY <1>3 DEF QrInv, TypeOK, MqttTypeOK
    <2>3. ToSet(Read') \subseteq 1 .. published /\ overflown' \subseteq 1 .. published
      <3>1. n \in 1 .. published
        BY <1>2, <1>4
      <3> QED
        BY <1>9, <1>10, <2>1, <3>1 DEF QrInv, Flow
    <2>4. \A i, j \in 1 .. Len(Read') : i < j => Read'[i] < Read'[j]
      <3>1. CASE Read' = Read
        BY <3>1 DEF QrInv, Flow
      <3>2. CASE Read' = Append(Read, n)
        <4>1. \A i \in 1 .. Len(Read) : Read[i] \in 1 .. published /\ Read[i] # published
          BY <1>4, <1>10 DEF QrInv, Flow, ToSet
        <4>2. \A i \in 1 .. Len(Read) : Read[i] < n
          BY <1>4, <1>7, <4>1
        <4>3. TAKE i, j \in 1 .. Len(Read')
        <4>4. HAVE i < j
        <4>5. CASE j \in 1 .. Len(Read)
          BY <3>2, <1>10, <4>4, <4>5 DEF QrInv, Flow
        <4>6. CASE j = Len(Read) + 1
          BY <3>2, <1>10, <4>2, <4>4, <4>6
        <4> QED
          BY <3>2, <1>10, <4>5, <4>6
      <3> QED
        BY <2>1, <3>1, <3>2
    <2>5. stream.open => \A k \in 1 .. published : k \in Known'
      BY <1>2, <1>3, <2>1 DEF QrInv, Flow
    <2>6. stream.made /\ ~stream.open => FALSE
      BY <1>2, <1>3 DEF QrInv, Flow
    <2> QED
      BY <1>3, <1>5, <1>8, <1>12, <2>2, <2>3, <2>4, <2>5, <2>6 DEF QrInv, Flow
  <1> QED
    BY <1>11, <1>13, <1>14, <1>15, <1>16 DEF QrInv

\* What is buffered when the connection is lost is all that was published and not read.
LEMMA RunLostKeeps ==
    ASSUME QrInv, NEW c \in Candidates, RunCallback(c), RunLost(c), UNCHANGED qrVars
    PROVE  QrInv'
  <1> USE DEF qrVars, callVars, RunCallback, RunLost, HandOver
  <1>1. inHand[c] = <<"lost">> /\ inHand[c] # NoCall
    BY DEF NoCall
  <1>2. c = dialled /\ dialled # 0
    BY <1>1, OnlyDialled
  <1>3. thread[c] = "ended"
    BY <1>1 DEF QrInv, Link
  <1>4. NoCall \in Callbacks /\ NoCall[1] # "message" /\ NoCall # <<"lost">>
    BY DEF Callbacks, NoCall
  <1>5. /\ stream' \in [made : BOOLEAN, open : BOOLEAN, buffer : Seq(1 .. MaxMessages)]
        /\ stream'.made = stream.made /\ stream'.buffer = stream.buffer /\ ~stream'.open
        /\ dialled = 0 => stream' = NoStream
    BY <1>2 DEF QrInv, TypeOK, MqttTypeOK
  <1>6. client' \in {0, client} /\ client' \in 0 .. MaxRedirects + 1
    BY MqttAssumption DEF QrInv, TypeOK, MqttTypeOK
  <1>7. TypeOK'
    <2>1. inHand' \in [Candidates -> Callbacks]
      BY <1>4 DEF QrInv, TypeOK, MqttTypeOK
    <2>2. QrTypeOK'
      BY DEF QrInv, TypeOK, QrTypeOK
    <2> QED
      BY <1>5, <1>6, <2>1, <2>2 DEF QrInv, TypeOK, MqttTypeOK
  <1>8. Alone' /\ Places' /\ Untouched'
    BY <1>2, <1>5 DEF QrInv, TypeOK, MqttTypeOK, Alone, Places, Untouched
  <1>9. Link' /\ Stray'
    BY <1>2, <1>3, <1>4, <1>5, <1>6 DEF QrInv, TypeOK, MqttTypeOK, Link, Stray
  <1>10. Subscription'
    BY <1>2, <1>5 DEF QrInv, Subscription, Granted
  <1>11. Flow'
    <2>1. Read' = Read /\ Known' = Known
      BY <1>5 DEF Read, Known
    <2>2. \A n : inHand[dialled] # <<"message", n>>
      BY <1>1, <1>2
    <2>3. inHand'[dialled] = NoCall
      BY <1>2 DEF QrInv, TypeOK, MqttTypeOK
    <2>4. 1 .. published \subseteq Known \/ ~stream.open
      BY <2>2 DEF QrInv, Flow
    <2> QED
      BY <1>1, <1>2, <1>3, <1>4, <1>5, <2>1, <2>2, <2>3, <2>4 DEF QrInv, Flow
  <1> QED
    BY <1>7, <1>8, <1>9, <1>10, <1>11 DEF QrInv

-----------------------------------------------------------------------------
(* The steps of the caller's task inside the client. *)

\* The suspended call tells where the session is.
LEMMA Where ==
    ASSUME QrInv
    PROVE  /\ stage \in {"connecting", "stopping"} => at = "connect" /\ dialled # 0
           /\ stage \in {"registering", "subscribing"} => at = "subscribe" /\ dialled # 0
           /\ stage = "receiving" => at = "message" /\ dialled # 0
           /\ stage \in {"closing", "closed"} => at = "end"
  BY DEF QrInv, TypeOK, QrTypeOK, Places

LEMMA FirstStream ==
    /\ NewStream \in [made : BOOLEAN, open : BOOLEAN, buffer : Seq(1 .. MaxMessages)]
    /\ NewStream.made /\ NewStream.open /\ NewStream.buffer = <<>>
  <1>1. <<>> \in Seq(1 .. MaxMessages)
    OBVIOUS
  <1>2. NoStream \in [made : BOOLEAN, open : BOOLEAN, buffer : Seq(1 .. MaxMessages)]
        /\ NoStream.buffer = <<>>
    BY <1>1 DEF NoStream
  <1>3. NewStream.made /\ NewStream.open /\ NewStream.buffer = NoStream.buffer
    BY <1>2 DEF NewStream
  <1>4. NewStream \in [made : BOOLEAN, open : BOOLEAN, buffer : Seq(1 .. MaxMessages)]
    BY <1>2 DEF NewStream
  <1> QED
    BY <1>2, <1>3, <1>4

LEMMA AdoptKeeps ==
    ASSUME QrInv, Adopt, UNCHANGED qrVars
    PROVE  QrInv'
  <1> USE DEF qrVars, netVars, Adopt, Returns
  <1>1. at = "connect" /\ dialled # 0
    BY Where
  <1>2. /\ NewStream \in [made : BOOLEAN, open : BOOLEAN, buffer : Seq(1 .. MaxMessages)]
        /\ NewStream.made /\ NewStream.open /\ NewStream.buffer = <<>>
    BY FirstStream
  <1>3. /\ NoAttempt \in [made : BOOLEAN, code : Codes \cup {"none"}, error : BOOLEAN]
        /\ ~NoAttempt.made
    BY DEF NoAttempt
  <1>4. TypeOK'
    <2>1. QrTypeOK'
      BY DEF QrInv, TypeOK, QrTypeOK
    <2>2. Len(stream'.buffer) <= QueueSize
      BY <1>2, MqttAssumption
    <2> QED
      BY <1>2, <1>3, <2>1, <2>2 DEF QrInv, TypeOK, MqttTypeOK
  <1>5. Alone' /\ Places' /\ Untouched'
    BY <1>1, <1>2 DEF QrInv, Alone, Places, Untouched
  <1>6. Link' /\ Stray' /\ Subscription'
    BY <1>1, <1>2, <1>3 DEF QrInv, Link, Stray, Subscription, Granted
  <1>7. Flow'
    <2>1. published = 0 /\ taken = <<>> /\ overflown = {}
      BY <1>1 DEF QrInv, Untouched
    <2>2. Read' = <<>> /\ ToSet(Read') = {}
      BY <1>2, <2>1 DEF Read, ToSet
    <2>3. inHand[dialled][1] # "message"
      <3>1. inHand[dialled] \in Callbacks
        BY <1>1, DialledIsACandidate DEF QrInv, TypeOK, MqttTypeOK
      <3>2. inHand[dialled][1] = "message" => inHand[dialled][2] \in 1 .. MaxMessages
        BY <3>1, CallKinds
      <3> QED
        BY <2>1, <1>1, <3>2 DEF QrInv, Flow
    <2> QED
      BY <1>1, <1>2, <2>1, <2>2, <2>3 DEF QrInv, Flow
  <1> QED
    BY <1>4, <1>5, <1>6, <1>7 DEF QrInv

\* The steps that stop a candidate.
LEMMA StopKeeps ==
    ASSUME QrInv, RedirectOrRefused \/ AttemptFails, UNCHANGED qrVars
    PROVE  QrInv'
  <1> USE DEF qrVars, linkVars, streamVars, RedirectOrRefused, AttemptFails, Stop
  <1>1. at = "connect" /\ dialled # 0
    BY Where
  <1>2. dialled \in Candidates
    BY <1>1, DialledIsACandidate DEF QrInv
  <1>3. /\ attempt' \in [made : BOOLEAN, code : Codes \cup {"none"}, error : BOOLEAN]
        /\ client = 0 /\ ~stream.made
    <2>1. NoAttempt \in [made : BOOLEAN, code : Codes \cup {"none"}, error : BOOLEAN]
      BY DEF NoAttempt
    <2>2. attempt' \in {attempt, NoAttempt}
      OBVIOUS
    <2>3. client = 0 /\ ~stream.made
      BY DEF QrInv, Link
    <2> QED
      BY <2>1, <2>2, <2>3 DEF QrInv, TypeOK, MqttTypeOK
  <1>4. TypeOK'
    <2>1. thread' \in [Candidates -> {"unborn", "dialling", "linked", "leaving", "ended"}]
      BY DEF QrInv, TypeOK, MqttTypeOK
    <2>2. QrTypeOK'
      BY DEF QrInv, TypeOK, QrTypeOK
    <2> QED
      BY <1>3, <2>1, <2>2 DEF QrInv, TypeOK, MqttTypeOK
  <1>5. /\ thread'[dialled] \in {"leaving", "ended"}
        /\ \A c \in Candidates : c # dialled => thread'[c] = thread[c]
        /\ thread[dialled] = "ended" => thread'[dialled] = "ended"
        /\ thread'[dialled] = "ended" => thread[dialled] = "ended"
    BY <1>2 DEF QrInv, TypeOK, MqttTypeOK
  <1>6. /\ Alone' /\ Places' /\ Untouched'
        /\ Link' /\ Stray'
    <2>1. Alone'
      BY <1>5 DEF QrInv, Alone
    <2>2. Places' /\ Untouched'
      BY <1>1 DEF QrInv, Places, Untouched
    <2>3. Link'
      BY <1>1, <1>2, <1>3, <1>5 DEF QrInv, Link
    <2>4. Stray'
      BY <1>1 DEF Stray
    <2> QED
      BY <2>1, <2>2, <2>3, <2>4
  <1>7. Subscription'
    <2>1. suback' = suback /\ suback = "none"
      BY DEF QrInv, Link
    <2> QED
      BY <1>1, <2>1 DEF Subscription
  <1>8. Flow'
    <2>1. Read' = Read /\ Known' = Known
      BY SameRead
    <2> QED
      BY <1>1, <1>3, <2>1 DEF QrInv, Flow
  <1> QED
    BY <1>4, <1>5, <1>6, <1>7, <1>8 DEF QrInv

\* The next candidate is dialled when the last one has ended and left nothing in hand.
LEMMA StoppedKeeps ==
    ASSUME QrInv, Stopped, UNCHANGED qrVars
    PROVE  QrInv'
  <1> USE DEF qrVars, streamVars, Stopped, DialWith, Returns, Reads
  <1>1. at = "connect" /\ dialled # 0
    BY Where
  <1>2. dialled \in Candidates
    BY <1>1, DialledIsACandidate DEF QrInv
  <1>3. /\ thread[dialled] = "ended" /\ inHand[dialled] = NoCall /\ broker[dialled] = "none"
        /\ client = 0 /\ ~stream.made
    BY <1>2 DEF QrInv, TypeOK, MqttTypeOK, Link
  <1>4. /\ attempt' \in [made : BOOLEAN, code : Codes \cup {"none"}, error : BOOLEAN]
        /\ attempt'.made <=> stage' = "connecting"
    <2>1. /\ NoAttempt \in [made : BOOLEAN, code : Codes \cup {"none"}, error : BOOLEAN]
          /\ NewAttempt \in [made : BOOLEAN, code : Codes \cup {"none"}, error : BOOLEAN]
          /\ NewAttempt.made /\ ~NoAttempt.made
      BY DEF NewAttempt, NoAttempt
    <2> QED
      BY <2>1
  <1>5. NoCall[1] # "message" /\ NoCall # <<"lost">>
    BY DEF NoCall
  <1>6. Read' = Read /\ Known' = Known
    BY SameRead
  <1>7. CASE thread' = thread /\ dialled' = dialled /\ stage' = "idle"
             /\ outcome' \in {"redirected", "error"}
    <2>1. TypeOK'
      BY <1>4, <1>7 DEF QrInv, TypeOK, MqttTypeOK, QrTypeOK
    <2>2. Alone' /\ Places' /\ Untouched'
      BY <1>1, <1>7 DEF QrInv, Alone, Places, Untouched
    <2>3. /\ Link' /\ Stray'
          /\ Subscription'
      <3>1. Link'
        <4>1. \A c \in Candidates : thread[c] # "leaving"
          BY <1>3 DEF QrInv, Alone
        <4> QED
          BY <1>1, <1>2, <1>3, <1>4, <1>7, <4>1 DEF QrInv, Link
      <3>2. Stray'
        BY <1>3, <1>7 DEF Stray
      <3>3. Subscription'
        BY <1>1, <1>7 DEF QrInv, Link, Subscription
      <3> QED
        BY <3>1, <3>2, <3>3
    <2>4. Flow'
      BY <1>1, <1>3, <1>6, <1>7 DEF QrInv, Flow
    <2> QED
      BY <2>1, <2>2, <2>3, <2>4 DEF QrInv
  <1>8. CASE dialled <= MaxRedirects /\ DialWith(thread)
    <2>1. /\ dialled' = dialled + 1 /\ dialled' \in Candidates /\ dialled \in Nat
          /\ dialled' # dialled /\ dialled' # 0 /\ stage' = "connecting"
          /\ \A c \in Candidates : c < dialled' <=> (c < dialled \/ c = dialled)
      BY <1>8, <1>2, MqttAssumption DEF QrInv, TypeOK, MqttTypeOK, Candidates
    <2>2. /\ thread' \in [Candidates -> {"unborn", "dialling", "linked", "leaving", "ended"}]
          /\ thread'[dialled'] = "dialling"
          /\ \A c \in Candidates : c # dialled' => thread'[c] = thread[c]
      BY <1>8, <2>1 DEF QrInv, TypeOK, MqttTypeOK
    <2>3. inHand[dialled'] = NoCall /\ broker[dialled'] = "none"
      BY <2>1 DEF QrInv, Alone
    <2>4. TypeOK'
      <3>1. dialled' \in 0 .. MaxRedirects + 1
        BY <2>1, MqttAssumption DEF Candidates
      <3> QED
        BY <1>4, <1>8, <2>2, <3>1 DEF QrInv, TypeOK, MqttTypeOK, QrTypeOK
    <2>5. Alone' /\ Places' /\ Untouched'
      BY <1>1, <1>2, <1>3, <2>1, <2>2 DEF QrInv, Alone, Places, Untouched
    <2>6. Link' /\ Stray' /\ Subscription'
      <3>1. suback' = suback /\ suback = "none"
        BY DEF QrInv, Link
      <3> QED
        <4>1. Link'
          <5>1. \A c \in Candidates : thread'[c] # "leaving"
            BY <1>3, <2>2 DEF QrInv, Alone
          <5>2. \A c \in Candidates :
                   /\ inHand'[c] = <<"lost">> => thread'[c] = "ended"
                   /\ thread'[c] = "ended" => broker'[c] = "none"
            BY <1>1, <2>2, <2>3 DEF QrInv, Link, NoCall
          <5> QED
            BY <1>1, <1>3, <1>4, <1>5, <2>1, <2>2, <3>1, <5>1, <5>2 DEF QrInv, Link
        <4>2. Stray'
          BY <2>1 DEF Stray
        <4>3. Subscription'
          BY <1>1, <3>1 DEF Subscription
        <4> QED
          BY <4>1, <4>2, <4>3
    <2>7. Flow'
      BY <1>1, <1>3, <1>5, <1>6, <2>1, <2>2, <2>3 DEF QrInv, Link, Flow
    <2> QED
      BY <2>4, <2>5, <2>6, <2>7 DEF QrInv
  <1> QED
    BY <1>7, <1>8

\* Waiting for the answer to a subscription.
LEMMA SubscribingKeeps ==
    ASSUME QrInv, Register \/ Subscribed \/ SubscribeTimesOut, UNCHANGED qrVars
    PROVE  QrInv'
  <1> USE DEF qrVars, netVars, linkVars, streamVars, Register, Subscribed, SubscribeTimesOut,
              Returns
  <1>1. at = "subscribe" /\ dialled # 0
    BY Where
  <1>2. TypeOK'
    <2>1. QrTypeOK'
      BY DEF QrInv, TypeOK, QrTypeOK
    <2>2. /\ suback' \in {"none", "waiting", "granted", "rejected", "failed"}
          /\ stage' \in {"idle", "subscribing"} /\ outcome' \in {outcome, "ok", "error", "timeout"}
      OBVIOUS
    <2> QED
      BY <2>1, <2>2 DEF QrInv, TypeOK, MqttTypeOK
  <1>3. Alone' /\ Places' /\ Untouched'
    BY <1>1 DEF QrInv, Alone, Places, Untouched
  <1>4. Link' /\ Stray'
    BY <1>1 DEF QrInv, Link, Stray
  <1>5. Subscription'
    BY <1>1 DEF QrInv, Subscription, Granted, Holds
  <1>6. Flow'
    <2>1. Read' = Read /\ Known' = Known
      BY SameRead
    <2> QED
      BY <1>1, <2>1 DEF QrInv, Flow
  <1> QED
    BY <1>2, <1>3, <1>4, <1>5, <1>6 DEF QrInv

\* What is taken from the stream stays what has been read.
LEMMA HeadIsTaken ==
    ASSUME NEW front \in Seq(1 .. MaxMessages), NEW back \in Seq(1 .. MaxMessages),
           back # <<>>
    PROVE  /\ Append(front, Head(back)) \o Tail(back) = front \o back
           /\ Append(front, Head(back)) \in Seq(1 .. MaxMessages)
           /\ Tail(back) \in Seq(1 .. MaxMessages)
           /\ Len(Tail(back)) <= Len(back)
  <1>1. /\ Head(back) \in 1 .. MaxMessages /\ Tail(back) \in Seq(1 .. MaxMessages)
        /\ Len(Tail(back)) = Len(back) - 1 /\ Len(back) \in Nat
        /\ \A i \in 1 .. Len(Tail(back)) : Tail(back)[i] = back[i + 1]
    <2>1. Len(back) \in Nat \ {0}
      BY EmptySeq
    <2>2. Head(back) \in 1 .. MaxMessages
      BY HeadTailProperties, Zenon
    <2>3. Tail(back) \in Seq(1 .. MaxMessages)
      BY <2>1
    <2>4. Len(Tail(back)) = Len(back) - 1
      BY <2>1
    <2>5. \A i \in 1 .. Len(Tail(back)) : Tail(back)[i] = back[i + 1]
      BY <2>1, <2>4
    <2> QED
      BY <2>1, <2>2, <2>3, <2>4, <2>5
  <1>2. back = <<Head(back)>> \o Tail(back)
    BY <1>1
  <1>3. Append(front, Head(back)) = front \o <<Head(back)>>
    BY <1>1, AppendIsConcat
  <1>4. (front \o <<Head(back)>>) \o Tail(back) = front \o (<<Head(back)>> \o Tail(back))
    BY <1>1, ConcatAssociative
  <1> QED
    BY <1>1, <1>2, <1>3, <1>4

LEMMA ReceivedKeeps ==
    ASSUME QrInv, Received, UNCHANGED qrVars
    PROVE  QrInv'
  <1> USE DEF qrVars, netVars, linkVars, Received, Returns
  <1>1. at = "message" /\ dialled # 0
    BY Where
  <1>2. /\ stream.buffer \in Seq(1 .. MaxMessages) /\ taken \in Seq(1 .. MaxMessages)
        /\ stream \in [made : BOOLEAN, open : BOOLEAN, buffer : Seq(1 .. MaxMessages)]
        /\ Len(stream.buffer) <= QueueSize /\ Len(stream.buffer) \in Nat
    BY DEF QrInv, TypeOK, MqttTypeOK
  <1>3. /\ stream'.made = stream.made /\ stream'.open = stream.open
        /\ stream' \in [made : BOOLEAN, open : BOOLEAN, buffer : Seq(1 .. MaxMessages)]
        /\ taken' \in Seq(1 .. MaxMessages)
        /\ Len(stream'.buffer) <= QueueSize
        /\ Read' = Read
        /\ outcome' = "error" => stream'.buffer = <<>> /\ ~stream'.open
    <2>1. CASE stream' = stream /\ taken' = taken
      BY <1>2, <2>1 DEF Read
    <2>2. CASE /\ stream.buffer # <<>>
               /\ taken' = Append(taken, Head(stream.buffer))
               /\ stream' = [stream EXCEPT !.buffer = Tail(@)]
               /\ outcome' = "message"
      <3>1. PICK front \in Seq(1 .. MaxMessages) : front = taken
        BY <1>2
      <3>2. PICK back \in Seq(1 .. MaxMessages) : back = stream.buffer
        BY <1>2
      <3>3. /\ Append(taken, Head(stream.buffer)) \o Tail(stream.buffer) = Read
            /\ taken' \in Seq(1 .. MaxMessages)
            /\ Tail(stream.buffer) \in Seq(1 .. MaxMessages)
            /\ Len(Tail(stream.buffer)) <= Len(stream.buffer)
        BY <2>2, <3>1, <3>2, HeadIsTaken DEF Read
      <3>4. stream'.buffer = Tail(stream.buffer)
        BY <1>2, <2>2
      <3>5. Len(Tail(stream.buffer)) <= QueueSize
        BY <1>2, <3>3, MqttAssumption
      <3> QED
        BY <1>2, <2>2, <3>3, <3>4, <3>5 DEF Read
    <2> QED
      BY <2>1, <2>2
  <1>4. TypeOK'
    BY <1>3 DEF QrInv, TypeOK, MqttTypeOK, QrTypeOK
  <1>5. Alone' /\ Places' /\ Untouched'
    BY <1>1 DEF QrInv, Alone, Places, Untouched
  <1>6. Link' /\ Stray' /\ Subscription'
    BY <1>1, <1>3 DEF QrInv, Link, Stray, Subscription, Granted, Holds
  <1>7. Flow'
    BY <1>1, <1>3 DEF QrInv, Flow, Known
  <1> QED
    BY <1>4, <1>5, <1>6, <1>7 DEF QrInv

\* Of two numbers of a prefix the later is still the larger.
LEMMA FrontIsOrdered ==
    ASSUME NEW front \in Seq(1 .. MaxMessages), NEW back \in Seq(1 .. MaxMessages)
    PROVE  /\ Len(front) <= Len(front \o back) /\ Len(front) \in Nat
           /\ Len(front \o back) \in Nat
           /\ \A i \in 1 .. Len(front) : i \in 1 .. Len(front \o back)
                                         /\ (front \o back)[i] = front[i]
           /\ ToSet(front) \subseteq ToSet(front \o back)
  <1>1. /\ Len(front) <= Len(front \o back) /\ Len(front) \in Nat
        /\ Len(front \o back) \in Nat
        /\ \A i \in 1 .. Len(front) : i \in 1 .. Len(front \o back)
                                      /\ (front \o back)[i] = front[i]
    OBVIOUS
  <1>2. DOMAIN front = 1 .. Len(front) /\ DOMAIN (front \o back) = 1 .. Len(front \o back)
    OBVIOUS
  <1>3. ASSUME NEW x \in ToSet(front)
        PROVE  x \in ToSet(front \o back)
    <2>1. PICK i \in 1 .. Len(front) : x = front[i]
      BY <1>2 DEF ToSet
    <2>2. i \in DOMAIN (front \o back) /\ x = (front \o back)[i]
      BY <1>1, <1>2, <2>1
    <2> QED
      BY <2>2 DEF ToSet
  <1> QED
    BY <1>1, <1>3

LEMMA DisconnectedKeeps ==
    ASSUME QrInv, Disconnected, UNCHANGED qrVars
    PROVE  QrInv'
  <1> USE DEF qrVars, netVars, Disconnected
  <1>1. at = "end"
    BY Where
  <1>2. /\ NoStream \in [made : BOOLEAN, open : BOOLEAN, buffer : Seq(1 .. MaxMessages)]
        /\ ~NoStream.made /\ ~NoStream.open /\ NoStream.buffer = <<>>
    BY DEF NoStream
  <1>3. TypeOK'
    <2>1. Len(stream'.buffer) <= QueueSize
      BY <1>2, MqttAssumption
    <2> QED
      <3>1. QrTypeOK'
        BY DEF QrInv, TypeOK, QrTypeOK
      <3> QED
        BY <1>2, <2>1, <3>1 DEF QrInv, TypeOK, MqttTypeOK
  <1>4. Alone' /\ Places' /\ Untouched'
    BY <1>1, <1>2 DEF QrInv, Alone, Places, Untouched
  <1>5. Link' /\ Stray' /\ Subscription'
    BY <1>1, <1>2 DEF QrInv, Link, Stray, Subscription
  <1>6. Flow'
    <2>1. taken \in Seq(1 .. MaxMessages) /\ stream.buffer \in Seq(1 .. MaxMessages)
      BY DEF QrInv, TypeOK, MqttTypeOK
    <2>2. Read' = taken
      BY <1>2, <2>1 DEF Read
    <2>3. /\ \A i \in 1 .. Len(taken) : i \in 1 .. Len(Read) /\ Read[i] = taken[i]
          /\ ToSet(taken) \subseteq ToSet(Read)
      <3>1. PICK front \in Seq(1 .. MaxMessages) : front = taken
        BY <2>1
      <3>2. PICK back \in Seq(1 .. MaxMessages) : back = stream.buffer
        BY <2>1
      <3>3. Read = front \o back
        BY <3>1, <3>2 DEF Read
      <3> QED
        BY <3>1, <3>2, <3>3, FrontIsOrdered
    <2>4. \A i, j \in 1 .. Len(taken) : i < j => taken[i] < taken[j]
      BY <2>3 DEF QrInv, Flow
    <2> QED
      BY <1>1, <1>2, <2>2, <2>3, <2>4 DEF QrInv, Flow
  <1> QED
    BY <1>3, <1>4, <1>5, <1>6 DEF QrInv

-----------------------------------------------------------------------------
(* The steps of the session. *)

\* Where the session goes while its client stays as it is.
Moves ==
    \/ at' = at /\ ending' = ending
    \/ /\ at # "end" /\ at' = "end" /\ stage = "idle"
       /\ at = "connect" /\ outcome = "timeout" => ending' = "TIMEOUT"
    \/ /\ at = "subscribe" /\ stage = "idle" /\ outcome = "ok"
       /\ at' = "listen" /\ ending' = ending
    \/ /\ at = "message" /\ stage = "idle" /\ outcome = "message"
       /\ at' \in {"listen", "login"} /\ ending' = ending
    \/ kind = "web" /\ at # "end" /\ at' \in {"start", "check", "pause"} /\ ending' = ending

LEMMA MovesKeep ==
    ASSUME QrInv, UNCHANGED mqttVars, kind' = kind, QrTypeOK', Moves
    PROVE  QrInv'
  <1> USE DEF mqttVars, netVars, callVars, linkVars, streamVars
  <1>1. Read' = Read /\ Known' = Known
    BY SameRead
  <1>2. TypeOK'
    BY DEF QrInv, TypeOK, MqttTypeOK
  <1>3. Alone'
    BY DEF QrInv, Alone
  <1>4. Places'
    BY DEF QrInv, TypeOK, QrTypeOK, Places, Moves
  <1>5. Untouched'
    <2>1. CASE at' = at
      BY <2>1 DEF QrInv, Untouched
    <2>2. CASE at' = "start" /\ kind = "web"
      <3>1. dialled = 0
        BY <2>2 DEF QrInv, Places
      <3>2. \A c \in Candidates : broker[c] = "none"
        BY <3>1 DEF QrInv, Alone, Candidates
      <3> QED
        BY <3>1, <3>2 DEF QrInv, Link, Untouched, NoStream
    <2> QED
      BY <2>1, <2>2 DEF Untouched, Moves
  <1>6. Link'
    BY <1>4 DEF QrInv, Link, Places, Moves
  <1>7. Subscription'
    BY DEF QrInv, Subscription, Granted, Holds, Moves
  <1>8. Stray'
    BY DEF QrInv, Stray, Moves, Places
  <1>9. Flow'
    BY <1>1, <1>4 DEF QrInv, Flow, Places, Moves
  <1> QED
    BY <1>2, <1>3, <1>4, <1>5, <1>6, <1>7, <1>8, <1>9 DEF QrInv

\* Each step of the session that leaves its client alone is one of these moves.
LEMMA SessionMoves ==
    ASSUME QrInv, UNCHANGED mqttVars,
           DeadlinePasses \/ MobileStart \/ MobileConnected \/ MobileSubscribed \/ MobileListen
           \/ MobileMessage \/ MobileSilence \/ MobileLogin \/ WebStep
    PROVE  kind' = kind /\ QrTypeOK' /\ Moves
  <1> USE DEF mqttVars, callVars, QrInv, TypeOK, QrTypeOK, Goes, Yields, Ends, Events, Terminal,
              Errors, Moves
  <1>1. CASE DeadlinePasses
    BY <1>1 DEF DeadlinePasses
  <1>2. CASE MobileStart
    BY <1>2 DEF MobileStart, Connect, DialWith, Places
  <1>3. CASE MobileConnected
    BY <1>3 DEF MobileConnected, Subscribe, Returns
  <1>4. CASE MobileSubscribed
    BY <1>4 DEF MobileSubscribed
  <1>5. CASE MobileListen
    BY <1>5 DEF MobileListen, Receive, Places
  <1>6. CASE MobileMessage
    BY <1>6 DEF MobileMessage
  <1>7. CASE MobileSilence
    BY <1>7 DEF MobileSilence
  <1>8. CASE MobileLogin
    BY <1>8 DEF MobileLogin, Places
  <1>9. CASE WebStep
    BY <1>9 DEF WebStep, WebStart, WebCheck, WebPause, Places
  <1> QED
    BY <1>1, <1>2, <1>3, <1>4, <1>5, <1>6, <1>7, <1>8, <1>9

\* The first candidate of a session.
LEMMA ConnectKeeps ==
    ASSUME QrInv, at = "start", kind = "mobile", Connect, Goes("connect")
    PROVE  QrInv'
  <1> USE DEF Connect, DialWith, Goes
  <1>1. /\ dialled = 0 /\ stage = "idle" /\ dialled' = 1 /\ dialled' \in Candidates
        /\ \A c \in Candidates : c # 1 => ~(c < 1)
    BY MqttAssumption DEF Candidates
  <1>2. /\ NoStream \in [made : BOOLEAN, open : BOOLEAN, buffer : Seq(1 .. MaxMessages)]
        /\ ~NoStream.made /\ ~NoStream.open /\ NoStream.buffer = <<>> /\ stream = NoStream
        /\ published = 0 /\ taken = <<>> /\ overflown = {}
    BY <1>1 DEF NoStream, QrInv, Link
  <1>3. /\ NewAttempt \in [made : BOOLEAN, code : Codes \cup {"none"}, error : BOOLEAN]
        /\ NewAttempt.made
    BY DEF NewAttempt, NoAttempt
  <1>4. \A c \in Candidates : thread[c] = "unborn" /\ inHand[c] = NoCall /\ broker[c] = "none"
    BY <1>1 DEF QrInv, Alone, Candidates
  <1>5. /\ thread' \in [Candidates -> {"unborn", "dialling", "linked", "leaving", "ended"}]
        /\ thread'[1] = "dialling"
        /\ \A c \in Candidates : c # 1 => thread'[c] = "unborn"
    BY <1>1, <1>4 DEF QrInv, TypeOK, MqttTypeOK
  <1>6. NoCall[1] # "message" /\ NoCall # <<"lost">>
    BY DEF NoCall
  <1>7. TypeOK'
    <2>1. dialled' \in 0 .. MaxRedirects + 1 /\ Len(stream'.buffer) <= QueueSize
      BY <1>1, <1>2, MqttAssumption
    <2>2. QrTypeOK'
      BY DEF QrInv, TypeOK, QrTypeOK
    <2> QED
      BY <1>2, <1>3, <1>5, <2>1, <2>2 DEF QrInv, TypeOK, MqttTypeOK
  <1>8. Alone'
    BY <1>1, <1>4, <1>5 DEF Alone
  <1>9. Places' /\ Untouched'
    BY <1>1, <1>2, <1>4 DEF QrInv, Places, Untouched
  <1>10. Link'
    BY <1>1, <1>2, <1>3, <1>4, <1>5, <1>6 DEF QrInv, Link
  <1>11. Subscription'
    BY <1>1, <1>2 DEF QrInv, Link, Subscription
  <1>12. Stray'
    BY DEF Stray
  <1>13. Flow'
    <2>1. Read' = Read
      BY <1>2 DEF Read
    <2> QED
      BY <1>1, <1>2, <1>4, <1>6, <2>1 DEF QrInv, Flow
  <1> QED
    BY <1>7, <1>8, <1>9, <1>10, <1>11, <1>12, <1>13 DEF QrInv

LEMMA SubscribeKeeps ==
    ASSUME QrInv, at = "connect", stage = "idle", outcome = "ok", Subscribe, Goes("subscribe")
    PROVE  QrInv'
  <1> USE DEF Subscribe, Goes, Returns, linkVars, streamVars
  <1>1. dialled # 0
    BY DEF QrInv, Places
  <1>2. IsConnected => /\ client = dialled /\ client \in Candidates /\ thread[client] = "linked"
    BY <1>1, DialledIsACandidate DEF QrInv, Link, IsConnected
  <1>3. Read' = Read /\ Known' = Known
    BY SameRead
  <1>4. CASE IsConnected
    <2>1. TypeOK'
      <3>1. broker' \in [Candidates -> {"none", "asked", "granted", "rejected", "gone"}]
        BY <1>4 DEF QrInv, TypeOK, MqttTypeOK
      <3>2. QrTypeOK'
        BY DEF QrInv, TypeOK, QrTypeOK
      <3>3. stage' = "registering" /\ outcome' = outcome
        BY <1>4
      <3> QED
        BY <3>1, <3>2, <3>3 DEF QrInv, TypeOK, MqttTypeOK
    <2>2. /\ stage' = "registering"
          /\ \A c \in Candidates : c # dialled => broker'[c] = broker[c]
      BY <1>2, <1>4 DEF QrInv, TypeOK, MqttTypeOK
    <2>3. Alone' /\ Places' /\ Untouched'
      BY <1>1, <2>2 DEF QrInv, Alone, Places, Untouched
    <2>4. Link'
      BY <1>1, <1>2, <1>4, <2>2 DEF QrInv, Link
    <2>5. Stray' /\ Subscription'
      BY <1>1, <1>2, <1>4, <2>2 DEF QrInv, Link, Stray, Subscription
    <2>6. Flow'
      BY <1>1, <1>3, <2>2 DEF QrInv, Flow
    <2> QED
      BY <2>1, <2>3, <2>4, <2>5, <2>6 DEF QrInv
  <1>5. CASE ~IsConnected
    <2>1. stage' = "idle" /\ outcome' = "error" /\ broker' = broker
      BY <1>5
    <2>2. TypeOK'
      <3>1. QrTypeOK'
        BY DEF QrInv, TypeOK, QrTypeOK
      <3> QED
        BY <2>1, <3>1 DEF QrInv, TypeOK, MqttTypeOK
    <2>3. Alone' /\ Places' /\ Untouched'
      BY <1>1, <2>1 DEF QrInv, Alone, Places, Untouched
    <2>4. Link' /\ Subscription'
      BY <1>1, <2>1 DEF QrInv, Link, Subscription
    <2>5. Stray'
      BY <2>1 DEF QrInv, Stray
    <2>6. Flow'
      BY <1>1, <1>3, <2>1 DEF QrInv, Flow
    <2> QED
      BY <2>2, <2>3, <2>4, <2>5, <2>6 DEF QrInv
  <1> QED
    BY <1>4, <1>5

LEMMA ReceiveKeeps ==
    ASSUME QrInv, at = "listen", Receive, Goes("message")
    PROVE  QrInv'
  <1> USE DEF Receive, Goes, netVars, linkVars, streamVars
  <1>1. dialled # 0
    BY DEF QrInv, Places
  <1>2. TypeOK'
    BY DEF QrInv, TypeOK, MqttTypeOK, QrTypeOK
  <1>3. Alone' /\ Places' /\ Untouched'
    BY <1>1 DEF QrInv, Alone, Places, Untouched
  <1>4. Link' /\ Stray' /\ Subscription'
    BY <1>1 DEF QrInv, Link, Stray, Subscription, Granted, Holds
  <1>5. Flow'
    <2>1. Read' = Read /\ Known' = Known
      BY SameRead
    <2> QED
      BY <1>1, <2>1 DEF QrInv, Flow
  <1> QED
    BY <1>2, <1>3, <1>4, <1>5 DEF QrInv

\* A call that is cut leaves the client as it was: the candidate being dialled too.
LEMMA CutKeeps ==
    ASSUME QrInv, ConnectCut \/ ReceiveCut, UNCHANGED qrVars
    PROVE  QrInv'
  <1> USE DEF ConnectCut, ReceiveCut, Returns, qrVars, netVars, linkVars, streamVars
  <1>1. at \in {"connect", "message"} /\ dialled # 0 /\ stage' = "idle" /\ outcome' = "timeout"
    BY Where
  <1>2. TypeOK'
    <2>1. QrTypeOK'
      BY DEF QrInv, TypeOK, QrTypeOK
    <2> QED
      BY <1>1, <2>1 DEF QrInv, TypeOK, MqttTypeOK
  <1>3. Alone' /\ Places' /\ Untouched'
    BY <1>1 DEF QrInv, Alone, Places, Untouched
  <1>4. Link' /\ Subscription'
    BY <1>1 DEF QrInv, Link, Subscription, Granted, Holds
  <1>5. Stray'
    BY <1>1, DialledIsACandidate, Where DEF QrInv, Stray, Untouched
  <1>6. Flow'
    <2>1. Read' = Read /\ Known' = Known
      BY SameRead
    <2> QED
      BY <1>1, <2>1 DEF QrInv, Flow
  <1> QED
    BY <1>2, <1>3, <1>4, <1>5, <1>6 DEF QrInv

\* Leaving: the client's thread is told to stop; a candidate never adopted is not.
LEMMA DisconnectKeeps ==
    ASSUME QrInv, at = "end", kind = "mobile", Disconnect, UNCHANGED qrVars
    PROVE  QrInv'
  <1> USE DEF Disconnect, qrVars, streamVars
  <1>1. /\ client # 0 => client = dialled /\ dialled # 0 /\ dialled \in Candidates
        /\ client' = 0 /\ closing' = TRUE /\ stage' = "closing"
    BY DialledIsACandidate DEF QrInv, Link
  <1>2. /\ attempt' \in [made : BOOLEAN, code : Codes \cup {"none"}, error : BOOLEAN]
        /\ ~attempt'.made
    BY DEF NoAttempt
  <1>3. /\ thread' \in [Candidates -> {"unborn", "dialling", "linked", "leaving", "ended"}]
        /\ \A c \in Candidates : c # dialled => thread'[c] = thread[c]
        /\ \A c \in Candidates : thread'[c] = "ended" <=> thread[c] = "ended"
        /\ client # 0 => thread'[dialled] \in {"leaving", "ended"}
        /\ client = 0 => thread' = thread
        /\ \A c \in Candidates : thread'[c] = "unborn" => thread[c] = "unborn"
    BY <1>1 DEF QrInv, TypeOK, MqttTypeOK, Stop
  <1>4. TypeOK'
    <2>1. client' \in 0 .. MaxRedirects + 1
      BY <1>1, MqttAssumption
    <2>2. QrTypeOK'
      BY DEF QrInv, TypeOK, QrTypeOK
    <2> QED
      BY <1>1, <1>2, <1>3, <2>1, <2>2 DEF QrInv, TypeOK, MqttTypeOK
  <1>5. Alone'
    BY <1>3 DEF QrInv, Alone
  <1>6. Places' /\ Untouched'
    BY <1>1 DEF QrInv, Places, Untouched
  <1>7. dialled # 0 => dialled \in Candidates
    BY DialledIsACandidate DEF QrInv
  <1>8. Link'
    BY <1>1, <1>2, <1>3, <1>7 DEF QrInv, Link
  <1>9. Subscription'
    <2>1. suback' = suback /\ suback = "none"
      BY DEF QrInv, Link
    <2> QED
      BY <2>1 DEF Subscription
  <1>10. Stray'
    BY <1>1, <1>3, <1>7 DEF QrInv, Stray
  <1>11. Flow'
    <2>1. Read' = Read /\ Known' = Known
      BY SameRead
    <2> QED
      BY <1>3, <1>7, <2>1 DEF QrInv, Flow
  <1> QED
    BY <1>4, <1>5, <1>6, <1>8, <1>9, <1>10, <1>11 DEF QrInv

-----------------------------------------------------------------------------
(* Every step keeps the invariant. *)

LEMMA NextKeeps ==
    ASSUME QrInv, [Next]_vars
    PROVE  QrInv'
  <1>1. CASE UNCHANGED mqttVars /\ (DeadlinePasses \/ MobileStart \/ MobileConnected
             \/ MobileSubscribed \/ MobileListen \/ MobileMessage \/ MobileSilence
             \/ MobileLogin \/ WebStep)
    BY <1>1, SessionMoves, MovesKeep
  <1>2. CASE MobileStart
    <2>1. CASE at = "start" /\ kind = "mobile" /\ Connect /\ Goes("connect")
      BY <2>1, ConnectKeeps
    <2> QED
      BY <1>1, <1>2, <2>1 DEF MobileStart
  <1>3. CASE MobileConnected
    <2>1. CASE at = "connect" /\ stage = "idle" /\ outcome = "ok" /\ Subscribe /\ Goes("subscribe")
      BY <2>1, SubscribeKeeps
    <2> QED
      BY <1>1, <1>3, <2>1 DEF MobileConnected
  <1>4. CASE MobileListen
    <2>1. CASE at = "listen" /\ Receive /\ Goes("message")
      BY <2>1, ReceiveKeeps
    <2> QED
      BY <1>1, <1>4, <2>1 DEF MobileListen
  <1>5. CASE MobileCut
    BY <1>5, CutKeeps DEF MobileCut
  <1>6. CASE MobileLeave
    BY <1>6, DisconnectKeeps DEF MobileLeave
  <1>7. CASE ClientStep /\ UNCHANGED qrVars
    <2>1. CASE \E c \in Candidates : RunCallback(c) \/ Leaves(c)
      <3>1. PICK c \in Candidates : RunCallback(c) \/ Leaves(c)
        BY <2>1
      <3>2. CASE Leaves(c)
        BY <1>7, <3>2, LeavesKeeps
      <3>3. CASE RunCallback(c)
        <4>1. CASE RunConnack(c) \/ RunConnectError(c)
          BY <1>7, <3>3, <4>1, AttemptCallbackKeeps
        <4>2. CASE RunMessage(c)
          BY <1>7, <3>3, <4>2, RunMessageKeeps
        <4>3. CASE RunLost(c)
          BY <1>7, <3>3, <4>3, RunLostKeeps
        <4> QED
          BY <3>3, <4>1, <4>2, <4>3 DEF RunCallback
      <3> QED
        BY <3>1, <3>2, <3>3
    <2>2. CASE Adopt
      BY <1>7, <2>2, AdoptKeeps
    <2>3. CASE RedirectOrRefused \/ AttemptFails
      BY <1>7, <2>3, StopKeeps
    <2>4. CASE Stopped
      BY <1>7, <2>4, StoppedKeeps
    <2>5. CASE Register \/ Subscribed \/ SubscribeTimesOut
      BY <1>7, <2>5, SubscribingKeeps
    <2>6. CASE Received
      BY <1>7, <2>6, ReceivedKeeps
    <2>7. CASE Disconnected
      BY <1>7, <2>7, DisconnectedKeeps
    <2> QED
      BY <1>7, <2>1, <2>2, <2>3, <2>4, <2>5, <2>6, <2>7 DEF ClientStep
  <1>8. CASE NetworkStep /\ UNCHANGED qrVars
    <2>1. PICK c \in Candidates :
              Connack(c) \/ LinkLost(c) \/ BrokerLeaves(c) \/ Suback(c) \/ Publish(c)
      BY <1>8 DEF NetworkStep
    <2> QED
      BY <1>8, <2>1, ConnackKeeps, LinkLostKeeps, BrokerLeavesKeeps, SubackKeeps, PublishKeeps
  <1>9. CASE UNCHANGED vars
    <2>1. UNCHANGED mqttVars /\ kind' = kind /\ QrTypeOK' /\ Moves
      BY <1>9 DEF vars, qrVars, QrInv, TypeOK, QrTypeOK, Moves
    <2> QED
      BY <2>1, MovesKeep
  <1>10. CASE DeadlinePasses \/ MobileSubscribed \/ MobileMessage \/ MobileSilence \/ MobileLogin
              \/ WebStep
    <2>1. UNCHANGED mqttVars
      BY <1>10 DEF DeadlinePasses, MobileSubscribed, MobileMessage, MobileSilence, MobileLogin,
                   WebStep, WebStart, WebCheck, WebPause
    <2> QED
      BY <1>1, <1>10, <2>1
  <1> QED
    BY <1>2, <1>3, <1>4, <1>5, <1>6, <1>7, <1>8, <1>9, <1>10
    DEF Next, MobileStep, ClientSteps

\* The invariant, the types of every variable of the client and the session in it.
THEOREM QrInvariant == Spec => []QrInv
  BY InitQrLogin, NextKeeps, PTL DEF Spec

-----------------------------------------------------------------------------
(* What it gives. *)

\* The loop, a lost connection and the reader lose no message that reached the network
\* thread and double or reorder none: _send_message_nowait, _handle_unexpected_disconnect
\* and messages() of MqttClient, for any queue and any number of messages.
THEOREM NoMessageIsLost == Spec => []MessagesAccountedFor
  <1>1. QrInv => MessagesAccountedFor
    <2> SUFFICES ASSUME QrInv PROVE MessagesAccountedFor
      OBVIOUS
    <2> DEFINE order == taken \o stream.buffer
    <2>1. order = Read
      BY DEF Read
    <2>2. ASSUME at = "message", stage = "idle", outcome = "error"
          PROVE  ToSet(taken) \cup overflown = 1 .. published
      <3>1. /\ stream.buffer = <<>> /\ 1 .. published \subseteq Known
            /\ ToSet(Read) \subseteq 1 .. published /\ overflown \subseteq 1 .. published
        BY <2>2 DEF QrInv, Flow
      <3>2. Read = taken
        BY <3>1, ConcatEmptySeq DEF QrInv, TypeOK, MqttTypeOK, Read
      <3> QED
        BY <3>1, <3>2 DEF Known
    <2>3. \A i, j \in 1 .. Len(order) : i < j => order[i] < order[j]
      BY <2>1 DEF QrInv, Flow
    <2>4. ASSUME stream.open, NEW n \in 1 .. published
          PROVE  \/ n \in ToSet(order) \cup overflown
                 \/ \E c \in Candidates : inHand[c] = <<"message", n>>
      BY <2>1, <2>4, DialledIsACandidate DEF QrInv, Flow, Known
    <2>5. TypeOK
      BY DEF QrInv
    <2> QED
      BY <2>2, <2>3, <2>4, <2>5 DEF MessagesAccountedFor
  <1> QED
    BY <1>1, QrInvariant, PTL

\* Who waits for messages has the subscription of subscribe() or the news of its loss,
\* whatever the broker answers and when.
THEOREM ListenersHoldTheirSubscription == Spec => []ListenersAreSubscribed
  <1>1. QrInv => ListenersAreSubscribed
    BY DialledIsACandidate DEF QrInv, Subscription, Granted, Holds, ListenersAreSubscribed
  <1> QED
    BY <1>1, QrInvariant, PTL

\* disconnect() and the stopping of candidates in connect() leave no network thread but
\* that of a connect that was cut, through any number of redirects.
THEOREM NoThreadIsLeftBehind == Spec => []OnlyCutConnectsStay
  <1>1. QrInv => OnlyCutConnectsStay
    <2> SUFFICES ASSUME QrInv, Over, NEW c \in Candidates
                 PROVE  \/ thread[c] \in {"unborn", "ended"}
                        \/ c = dialled /\ ending = "TIMEOUT" /\ broker[c] \in {"none", "gone"}
      BY DEF OnlyCutConnectsStay
    <2>1. CASE c # dialled
      BY <2>1 DEF QrInv, Alone
    <2>2. CASE c = dialled
      <3>1. dialled # 0 /\ kind = "mobile" /\ stage = "closed" /\ at = "end"
        BY <2>2 DEF QrInv, TypeOK, QrTypeOK, Over, Places, Candidates
      <3>2. client = 0 /\ thread[c] # "leaving"
        BY <3>1 DEF QrInv, Link
      <3> QED
        BY <2>2, <3>1, <3>2 DEF QrInv, TypeOK, MqttTypeOK, Stray
    <2> QED
      BY <2>1, <2>2
  <1> QED
    BY <1>1, QrInvariant, PTL
=============================================================================
