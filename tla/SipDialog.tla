----------------------------- MODULE SipDialog ------------------------------
(***************************************************************************)
(* core/AmSipDialog.cpp with AmBasicSipDialog.cpp, Am100rel.cpp and the    *)
(* offer/answer state (OfferAnswer): one dialog, the AmSession that handles *)
(* it, and a peer that may send anything the transaction layer lets        *)
(* through.  All of it runs on the session's thread, one event at a time,  *)
(* so a handler with everything it calls is one step; the record dlg holds *)
(* the members of the dialog, and every method is an operator on it.       *)
(*                                                                         *)
(* The fields from waits on stand for the transaction layer (UacTrans and  *)
(* UasTrans) and the peer.  Tags, URIs and route sets are left out: peers  *)
(* answer with the tag of the dialog.                                      *)
(***************************************************************************)
EXTENDS OfferAnswer, FiniteSets, FiniteSetsExt, TLC

CONSTANTS MaxLocal,   \* requests the application sends
          MaxRemote,  \* requests the peer sends
          MaxRseq,    \* reliable provisional replies in each direction
          PeerSdp,    \* session descriptions the peer sends
          Rel100      \* settings of AmConfig::rel100

ASSUME DialogAssumption ==
    /\ MaxLocal \in Nat /\ MaxRemote \in Nat /\ MaxRseq \in Nat
    /\ PeerSdp \subseteq Bodies /\ Rel100 \subseteq {"DISABLED", "SUPPORTED", "REQUIRE"}

VARIABLE dlg

NoTrans == [n \in {} |-> ""]

NewDialog(rel) ==
    [status |-> "Disconnected", cseq |-> 1, r_cseq |-> 0,
     uac_trans |-> NoTrans, uas_trans |-> NoTrans, pending_invites |-> 0,
     oa_state |-> "None", saved_state |-> "None", oa_cseq |-> 0,
     sdp_local |-> FALSE, sdp_remote |-> "none",
     early_session_started |-> FALSE, session_started |-> FALSE,
     reliable_1xx |-> rel, rseq |-> 0, rseq_confirmed |-> FALSE,
     rseq_1st |-> 0, rseq_last |-> 0,
     sess_stopped |-> FALSE, processing_status |-> "events",
     waits |-> NoTrans,    \* requests sent whose final reply is to come
     cancels |-> {},       \* INVITEs whose CANCEL may still time out
     acks |-> {},          \* INVITEs of the peer whose 2xx waits for its ACK
     unacked |-> {},       \* INVITEs that got a 2xx and no ACK
     pracks |-> {},        \* RSeqs of reliable replies that wait for a PRACK
     refused |-> 0,        \* INVITEs refused because of 100rel
     peer |-> "idle",      \* what the peer thinks of the call
     ok |-> TRUE,          \* whether the transport takes messages
     failed |-> FALSE,     \* a message could not be sent
     dropped |-> FALSE]    \* the dialog was closed before the call was settled

Init == \E rel \in Rel100 : dlg = NewDialog(rel)

With(f, n, x) == (n :> x) @@ f
Without(f, n) == [k \in DOMAIN f \ {n} |-> f[k]]
Invites(f) == {n \in DOMAIN f : f[n] = "INVITE"}
BelowConnected(S) == S.status \notin {"Connected", "Disconnecting"}

setStatus(S, st) == [S EXCEPT !.status = st]
setStopped(S) == [S EXCEPT !.sess_stopped = TRUE]
Established(S) == [S EXCEPT !.peer = IF @ = "idle" THEN "call" ELSE @]

-----------------------------------------------------------------------------
(* Requests that are sent.                                                 *)

\* AmSipDialog::onTxRequest.
onTxRequest(S, method, n, ask) ==
    LET R == oaRequestOut(S, method, n, ask)
    IN  CASE RequestRefused(S, method, ask) -> R
          [] method = "INVITE" /\ S.status = "Disconnected" -> setStatus(R, "Trying")
          [] method = "BYE" -> setStatus(R, "Disconnecting")
          [] OTHER -> R

\* sendRequest; the transport may refuse the message after all of that.
sendRequest(S, method, ask) ==
    LET R == onTxRequest(S, method, S.cseq, ask)
        T == [R EXCEPT !.uac_trans = With(@, S.cseq, method), !.cseq = @ + 1,
                       !.waits = With(@, S.cseq, method),
                       !.peer = IF method = "BYE" THEN "over" ELSE @]
    IN  IF ~S.ok \/ RequestRefused(S, method, ask) THEN R
        ELSE oaRequestSent(T, method, S.cseq)

send_200_ack(S, n) ==
    LET R == onTxRequest(S, "ACK", n, FALSE)
        T == [R EXCEPT !.uac_trans = Without(@, n), !.unacked = @ \ {n}]
    IN  IF n \notin DOMAIN S.uac_trans THEN S
        ELSE IF ~S.ok THEN R
        ELSE oaRequestSent(T, "ACK", n)

-----------------------------------------------------------------------------
(* Replies that are sent.                                                  *)

Provisional(method, code) == method = "INVITE" /\ code > 100 /\ code < 200

\* Am100rel::onReplyOut: what makes it throw, and the RSeq it adds.
Unpracked(S, method, code) ==
    /\ method = "INVITE" /\ S.reliable_1xx = "REQUIRE" /\ S.rseq # 0 /\ ~S.rseq_confirmed
    /\ \/ Provisional(method, code) /\ S.rseq_1st = S.rseq
       \/ code = 200

relReplyOut(S, method, code) ==
    IF ~(Provisional(method, code) /\ S.reliable_1xx = "REQUIRE") THEN S
    ELSE IF S.rseq = 0
    THEN [S EXCEPT !.rseq = 1, !.rseq_confirmed = FALSE, !.rseq_1st = 1]
    ELSE [S EXCEPT !.rseq = @ + 1]

\* The switch of AmSipDialog::onTxReply.
onTxReply(S, method, code) ==
    CASE S.status \in {"Trying", "Proceeding", "Early", "Cancelling"} /\ method = "INVITE" ->
             setStatus(S, CASE code < 200 -> "Early"
                            [] code = 200 -> "Connected"
                            [] OTHER -> "Disconnected")
      [] S.status = "Disconnecting" /\ method = "BYE" /\ code >= 200 ->
             setStatus(S, "Disconnected")
      [] OTHER -> S

\* Mutant: the counter is left alone.
onReplyTxed_uncounted(S, n, method, code) ==
    LET R == IF code >= 200 /\ method # "CANCEL"
             THEN [S EXCEPT !.uas_trans = Without(@, n)] ELSE S
    IN  oaReplySent(R, n, method, code)

onReplyTxed(S, n, method, code) ==
    LET R == IF code >= 200 /\ method # "CANCEL"
             THEN [S EXCEPT !.uas_trans = Without(@, n)] ELSE S
        T == oaReplySent(R, n, method, code)
    IN  IF method # "INVITE" THEN T
        ELSE IF code < 200
        THEN IF S.reliable_1xx = "REQUIRE" THEN [T EXCEPT !.pracks = @ \cup {S.rseq}] ELSE T
        ELSE LET U == [T EXCEPT !.pending_invites = @ - 1, !.pracks = {}]
             IN  IF code = 200 THEN Established([U EXCEPT !.acks = @ \cup {n}]) ELSE U

\* AmBasicSipDialog::reply; Throws is the exception of Am100rel.
Throws(S, n, method, code) == n \in DOMAIN S.uas_trans /\ Unpracked(S, method, code)

reply(S, n, method, code) ==
    LET R == oaReplyOut(S, n, method, code)
        T == relReplyOut(R, method, code)
        U == onTxReply(T, method, code)
    IN  CASE n \notin DOMAIN S.uas_trans -> S
          [] Unpracked(S, method, code) -> R
          [] S.status = "Cancelling" /\ method = "INVITE" /\ code < 200 -> T
          [] OTHER -> IF S.ok THEN onReplyTxed(U, n, method, code) ELSE U

-----------------------------------------------------------------------------
(* Hanging up.                                                             *)

\* cancel(): the INVITE that was sent last.
cancel(S) ==
    LET n == CHOOSE k \in Invites(S.uac_trans) : \A j \in Invites(S.uac_trans) : j <= k
    IN  IF S.status = "Cancelling" THEN S
        ELSE [setStatus(S, "Cancelling") EXCEPT !.cancels = IF S.ok THEN @ \cup {n} ELSE @]

\* "finish any UAC transaction before sending BYE"
AckAll(S) == FoldSet(LAMBDA n, R : send_200_ack(R, n), S, Invites(S.uac_trans))

FirstInvite(S) == CHOOSE n \in Invites(S.uas_trans) : \A k \in Invites(S.uas_trans) : n <= k

\* Mutant: no BYE for a call that a 2xx set up after all.
bye_disconnects(S) ==
    CASE S.status = "Connected" -> setStatus(AckAll(S), "Disconnected")
      [] S.status = "Disconnecting" -> AckAll(S)
      [] S.status \in {"Trying", "Proceeding", "Early"} /\ Invites(S.uac_trans) # {} -> cancel(S)
      [] S.status \in {"Trying", "Proceeding", "Early", "Cancelling"} ->
             IF Invites(S.uas_trans) # {} THEN reply(S, FirstInvite(S), "INVITE", 487)
             ELSE setStatus(S, "Disconnected")
      [] OTHER -> S

bye(S) ==
    CASE S.status = "Connected" ->
             sendRequest(setStatus(AckAll(S), "Disconnected"), "BYE", FALSE)
      [] S.status = "Disconnecting" -> AckAll(S)
      [] S.status \in {"Trying", "Proceeding", "Early"} /\ Invites(S.uac_trans) # {} -> cancel(S)
      [] S.status \in {"Trying", "Proceeding", "Early", "Cancelling"} ->
             IF Invites(S.uas_trans) # {} THEN reply(S, FirstInvite(S), "INVITE", 487)
             ELSE [setStatus(S, "Disconnected") EXCEPT !.dropped = TRUE]
      [] OTHER -> S

\* AmSession::onFailure.
onFailure(S) == IF BelowConnected(S) THEN setStopped(S) ELSE S

-----------------------------------------------------------------------------
(* Requests that are received.                                             *)

\* AmOfferAnswer::onRequestIn and what it answers to a body it refuses.
SdpMethods == {"INVITE", "UPDATE", "PRACK"}

oaReceived(S, method, n, body) ==
    LET R == saveState(S)
    IN  IF method \in SdpMethods \cup {"ACK"} /\ body # "none" THEN onRxSdp(R, n, body) ELSE R

oaRefuses(S, method, n, body) ==
    LET R == oaReceived(S, method, n, body)
    IN  \/ method \in SdpMethods \cup {"ACK"} /\ body # "none" /\ RxSdpError(S, body)
        \/ StateChanged(R) /\ SdpRefused(R)

oaRequestIn(S, method, n, body) ==
    LET R == checkStateChange(oaReceived(S, method, n, body))
        T == CASE ~oaRefuses(S, method, n, body) -> R
               [] method = "ACK" -> bye(R)
               [] OTHER -> reply(R, n, method, 400)
    IN  IF method = "ACK" /\ n = T.oa_cseq THEN clearTransitionalState(T) ELSE T

\* onRxReqStatus, up to the offer/answer code.
RxReqStatus(S, method, n) ==
    CASE S.status = "Disconnected" /\ method = "INVITE" -> setStatus(S, "Trying")
      [] S.status \in {"Connected", "Trying", "Proceeding", "Early"} /\ method = "BYE" ->
             setStatus(S, "Disconnecting")
      [] S.status \in {"Trying", "Proceeding", "Early"} /\ method = "CANCEL" ->
             reply(setStatus(S, "Cancelling"), n, "CANCEL", 200)
      [] OTHER -> S

\* AmSession::onSipRequest.  An INVITE is answered at once, if answer says so,
\* or later by the application.
onSipRequest(S, method, n, body, answer) ==
    CASE method = "INVITE" /\ answer ->
             IF Throws(S, n, method, 200)
             THEN LET R == reply(S, n, method, 200)
                  IN  reply(IF BelowConnected(R) THEN setStopped(R) ELSE R, n, method, 491)
             ELSE reply(S, n, method, 200)
      [] method = "BYE" -> setStopped(reply(S, n, method, 200))
      [] method = "CANCEL" -> setStopped(bye(S))
      [] method = "PRACK" -> reply(S, n, method, 200)
      [] method = "UPDATE" -> reply(S, n, method, IF body = "none" THEN 200 ELSE 501)
      [] OTHER -> S

\* onRxReqStatus and the session's handler.
Dispatched(S, method, n, body, answer) ==
    LET R == RxReqStatus(S, method, n)
        T == oaRequestIn(R, method, n, body)
    IN  IF oaRefuses(R, method, n, body) THEN T ELSE onSipRequest(T, method, n, body, answer)

\* "491 Pending when our own UAC INVITE is still in flight"
Pending(S) == \/ S.pending_invites > 0 \/ Invites(S.uac_trans) # {}
              \/ S.oa_state \notin {"None", "Completed"}

\* Am100rel::onRequestIn.  offered tells what the INVITE says of 100rel.
relRefuses(S, offered) == \/ S.reliable_1xx = "REQUIRE" /\ offered = "no"
                          \/ S.reliable_1xx = "DISABLED" /\ offered = "require"

\* A new request of the peer: onRxReqSanity, then the handlers.
onRxInvite(S, body, offered, answer) ==
    LET n == S.r_cseq + 1
        R == [S EXCEPT !.r_cseq = n]
        T == [R EXCEPT !.pending_invites = @ + 1]
        U == [T EXCEPT !.uas_trans = With(@, n, "INVITE"),
                       !.reliable_1xx = IF @ = "SUPPORTED" /\ offered # "no"
                                        THEN "REQUIRE" ELSE @]
    IN  CASE Pending(S) -> R
          [] relRefuses(S, offered) -> onFailure([T EXCEPT !.refused = @ + 1])
          [] OTHER -> Dispatched(U, "INVITE", n, body, answer)

onRxRequest(S, method, body) ==
    LET n == S.r_cseq + 1
        R == [S EXCEPT !.r_cseq = n, !.uas_trans = With(@, n, method),
                       !.peer = IF method = "BYE" THEN "over" ELSE @]
    IN  Dispatched(R, method, n, body, FALSE)

\* PRACK: Am100rel::onRequestIn notes the RSeq first.
onRxPrack(S, rack, body) ==
    onRxRequest([S EXCEPT !.rseq_confirmed =
                     @ \/ (S.reliable_1xx = "REQUIRE" /\ rack = S.rseq),
                          !.pracks = @ \ {rack}], "PRACK", body)

-----------------------------------------------------------------------------
(* Replies that are received: r has the fields n (CSeq), method, code,     *)
(* body and rseq (0 if the reply is not reliable).                         *)

\* The final result of the race between INVITE and CANCEL.
\* Mutant: an error reply is not looked at.
CancelRace_waits_on(S, code) == IF code = 200 THEN bye(setStatus(S, "Connected")) ELSE S

CancelRace(S, code) ==
    CASE code < 200 -> S
      [] code = 200 -> bye(setStatus(S, "Connected"))
      [] OTHER -> setStatus(S, "Disconnected")

\* The status part of AmSipDialog::onRxReplyStatus.
RxReplyStatus(S, r) ==
    CASE r.method = "INVITE" /\ S.status \in {"Trying", "Proceeding", "Early"} ->
             setStatus(S, CASE r.code = 100 /\ S.status # "Early" -> "Proceeding"
                            [] r.code < 200 -> "Early"
                            [] r.code = 200 -> "Connected"
                            [] OTHER -> "Disconnected")
      [] r.method = "INVITE" /\ S.status = "Cancelling" ->
             CancelRace(S, r.code)
      [] r.method = "BYE" /\ S.status = "Disconnecting" /\ r.code >= 200 ->
             setStatus(S, "Disconnected")
      [] r.method = "CANCEL" /\ S.status = "Cancelling" /\ r.code >= 200 ->
             setStatus(S, "Disconnected")
      [] OTHER -> S

\* AmOfferAnswer::onReplyIn.
oaReplyIn(S, r) ==
    LET R == onRxSdp(saveState(S), r.n, r.body)
    IN  CASE r.code >= 300 /\ r.n = S.oa_cseq -> clearTransitionalState(S)
          [] r.method \notin SdpMethods \/ r.body = "none" -> S
          [] S.oa_state \in {"Completed", "OfferRecved"} /\ r.n = S.oa_cseq ->
                 IF r.code = 200 THEN onSdpCompleted(S) ELSE S
          [] OTHER -> IF RxSdpError(S, r.body) THEN bye(checkStateChange(R))
                      ELSE checkStateChange(R)

\* onInvite2xx, or AmBasicSipDialog::onRxReplyStatus with onRemoteDisappeared.
\* Mutant: only a connected dialog acknowledges.
Informed_connected(S, r) ==
    CASE r.method = "INVITE" /\ r.code = 200 ->
             IF S.status = "Connected" THEN send_200_ack(S, r.n) ELSE S
      [] r.code = 480 -> setStopped(bye(S))
      [] OTHER -> S

Informed(S, r) ==
    CASE r.method = "INVITE" /\ r.code = 200 -> send_200_ack(S, r.n)
      [] r.code = 480 -> setStopped(bye(S))
      [] OTHER -> S

\* Am100rel::onReplyIn, and the PRACK of onInvite1xxRel.
relReplyIn(S, r) ==
    LET R == [S EXCEPT !.reliable_1xx = IF @ = "SUPPORTED" /\ r.rseq > 0
                                        THEN "REQUIRE" ELSE @]
    IN  CASE S.status \notin {"Trying", "Proceeding", "Early", "Connected"} -> S
          [] Provisional(r.method, r.code) /\ R.reliable_1xx = "REQUIRE" ->
                 CASE r.rseq = 0 -> onFailure(bye(R))
                   [] R.rseq_last < r.rseq ->
                          sendRequest([R EXCEPT !.rseq_last = r.rseq], "PRACK", FALSE)
                   [] OTHER -> R
          [] r.method = "PRACK" /\ S.reliable_1xx # "DISABLED" /\ r.code >= 300 ->
                 onFailure(bye(S))
          [] OTHER -> R

\* AmBasicSipDialog::onRxReply.
Finished(r) == r.code >= 200 /\ (r.method # "INVITE" \/ r.code >= 300)

onRxReply(S, r) ==
    LET R == relReplyIn(Informed(oaReplyIn(RxReplyStatus(S, r), r), r), r)
    IN  IF r.n \notin DOMAIN S.uac_trans THEN S
        ELSE IF Finished(r) THEN [R EXCEPT !.uac_trans = Without(@, r.n)] ELSE R

-----------------------------------------------------------------------------
(* Steps.  The handler runs with a transport that works or, once, does not.*)

\* saved_state is not read by a later handler.
Step(f(_)) ==
    \E ok \in BOOLEAN :
        /\ ok \/ ~dlg.failed
        /\ dlg' = [f([dlg EXCEPT !.ok = ok, !.failed = @ \/ ~ok])
                     EXCEPT !.ok = TRUE, !.saved_state = "None"]

Runs == dlg.processing_status # "ended"
Running == Runs /\ ~dlg.sess_stopped
CanSend == dlg.cseq <= MaxLocal
CanReceive == Runs /\ dlg.r_cseq < MaxRemote

\* The application.
invite ==
    /\ Running /\ CanSend /\ dlg.status = "Disconnected"
    /\ dlg.peer = "idle" /\ dlg.r_cseq = 0
    /\ Step(LAMBDA S : sendRequest(S, "INVITE", TRUE))

reinvite ==
    /\ Running /\ CanSend /\ dlg.status = "Connected"
    /\ \E sdp \in BOOLEAN : Step(LAMBDA S : sendRequest(S, "INVITE", sdp))

update ==
    /\ Running /\ CanSend /\ dlg.status \in {"Connected", "Trying", "Proceeding", "Early"}
    /\ \E sdp \in BOOLEAN : Step(LAMBDA S : sendRequest(S, "UPDATE", sdp))

hang_up ==
    /\ Running /\ dlg.status # "Disconnected"
    /\ Step(bye)

stop == Running /\ dlg.status # "Disconnected" /\ dlg' = setStopped(dlg)

\* finalize: termUasTrans answers what is left with 481, termUacTrans drops
\* the transactions, and the dialog is deleted.
finalize(S) == [NewDialog("DISABLED") EXCEPT !.processing_status = "ended",
                    !.waits = S.waits, !.peer = S.peer,
                    !.failed = S.failed, !.dropped = S.dropped]

\* A reply of the application; an exception ends the session.
reply_invite(n, code) ==
    /\ Running /\ n \in Invites(dlg.uas_trans)
    /\ code < 200 => dlg.rseq < MaxRseq
    /\ IF Throws(dlg, n, "INVITE", code)
       THEN dlg' = finalize([dlg EXCEPT !.dropped = TRUE])
       ELSE Step(LAMBDA S : reply(S, n, "INVITE", code))

\* The peer.
rx_invite ==
    /\ CanReceive
    /\ \/ dlg.peer = "call" \/ (dlg.peer = "idle" /\ dlg.cseq = 1 /\ dlg.r_cseq = 0)
    /\ \E body \in PeerSdp \cup {"none"}, offered \in {"no", "supported", "require"},
          answer \in BOOLEAN :
              Step(LAMBDA S : onRxInvite(S, body, offered, answer))

rx_update ==
    /\ CanReceive /\ dlg.peer # "over" /\ dlg.status \notin {"Disconnected", "Trying"}
    /\ \E body \in PeerSdp \cup {"none"} : Step(LAMBDA S : onRxRequest(S, "UPDATE", body))

rx_bye ==
    /\ CanReceive /\ (dlg.peer = "call" \/ Invites(dlg.uas_trans) # {})
    /\ Step(LAMBDA S : onRxRequest(S, "BYE", "none"))

rx_prack(rack) ==
    /\ CanReceive /\ rack \in dlg.pracks
    /\ \E body \in PeerSdp \cup {"none"} : Step(LAMBDA S : onRxPrack(S, rack, body))

rx_cancel(n) ==
    /\ Runs /\ n \in Invites(dlg.uas_trans)
    /\ Step(LAMBDA S : Dispatched(S, "CANCEL", n, "none", FALSE))

rx_ack(n) ==
    /\ Runs /\ n \in dlg.acks
    /\ \E body \in PeerSdp \cup {"none"} :
           Step(LAMBDA S : Dispatched([S EXCEPT !.acks = @ \ {n}], "ACK", n, body, FALSE))

\* uasTimeout.
noACK(n) ==
    /\ Runs /\ n \in dlg.acks
    /\ Step(LAMBDA S : LET R == onNoAck([S EXCEPT !.acks = @ \ {n}], n)
                       IN  setStopped(IF R.status = "Connected" THEN bye(R) ELSE R))

noPRACK(rack, n) ==
    /\ Runs /\ rack \in dlg.pracks /\ n \in Invites(dlg.uas_trans)
    /\ Step(LAMBDA S : LET R == [S EXCEPT !.pracks = @ \ {rack}]
                       IN  IF S.reliable_1xx = "REQUIRE" /\ rack = S.rseq
                           THEN onFailure(reply(R, n, "INVITE", 504)) ELSE R)

\* A provisional reply to an INVITE.
rx_1xx(n) ==
    /\ Runs /\ n \in Invites(dlg.waits)
    /\ \E code \in {100, 183}, body \in PeerSdp \cup {"none"},
          rseq \in 0 .. IF dlg.rseq_last < MaxRseq THEN dlg.rseq_last + 1 ELSE MaxRseq :
           /\ code = 100 => body = "none" /\ rseq = 0
           /\ Step(LAMBDA S : onRxReply(S, [n |-> n, method |-> "INVITE", code |-> code,
                                            body |-> body, rseq |-> rseq]))

\* The peer puts an answer into the reply to an UPDATE or PRACK if that had
\* an offer.
Offered(n) == dlg.oa_state = "OfferSent" /\ dlg.oa_cseq = n

\* The final reply, real or the transaction layer's 408 (480 stands for the
\* codes that make the session give up).
rx_final(n, code) ==
    /\ Runs /\ n \in DOMAIN dlg.waits
    /\ \E body \in PeerSdp \cup {"none"} :
           /\ dlg.waits[n] = "INVITE" \/ (body # "none" <=> code = 200 /\ Offered(n))
           /\ code # 200 => body = "none"
           /\ LET inv == dlg.waits[n] = "INVITE" /\ code = 200
                  known == n \in DOMAIN dlg.uac_trans
                  r == [n |-> n, method |-> dlg.waits[n], code |-> code,
                        body |-> body, rseq |-> 0]
              IN  Step(LAMBDA S :
                    LET R == [S EXCEPT !.waits = Without(@, n), !.cancels = @ \ {n},
                                       !.unacked = IF inv /\ known THEN @ \cup {n} ELSE @]
                    IN  onRxReply(IF inv THEN Established(R) ELSE R, r))

\* The CANCEL of an INVITE gets no answer: only this reply to a CANCEL
\* reaches the dialog.
cancel_timeout(n) ==
    /\ Runs /\ n \in dlg.cancels
    /\ Step(LAMBDA S : onRxReply([S EXCEPT !.cancels = @ \ {n}, !.dropped = TRUE],
                                 [n |-> n, method |-> "CANCEL", code |-> 480,
                                  body |-> "none", rseq |-> 0]))

\* AmSession::processingCycle between two events; finalize.
\* bye() failed: there is nothing to wait for.
cycle ==
    /\ Runs /\ dlg.sess_stopped
    /\ \/ /\ dlg.status = "Disconnected"
          /\ dlg' = finalize(dlg)
       \/ /\ dlg.processing_status = "events"
          /\ dlg.status \notin {"Disconnected", "Disconnecting"}
          /\ \E ok \in BOOLEAN :
               /\ ok \/ ~dlg.failed
               /\ LET S == [dlg EXCEPT !.ok = ok, !.failed = @ \/ ~ok]
                      R == IF dlg.status = "Cancelling" THEN S ELSE bye(S)
                  IN  dlg' = [(IF ok THEN R ELSE finalize(R)) EXCEPT !.ok = TRUE,
                                !.processing_status = IF ok THEN "waiting" ELSE @]

-----------------------------------------------------------------------------
Final == {200, 400, 480}

Next ==
    \/ invite \/ reinvite \/ update \/ hang_up \/ stop \/ cycle
    \/ \E n \in 1 .. MaxRemote :
          \/ \E code \in {183, 200, 400} : reply_invite(n, code)
          \/ rx_cancel(n) \/ rx_ack(n) \/ noACK(n)
          \/ \E rack \in 1 .. MaxRseq : noPRACK(rack, n)
    \/ rx_invite \/ rx_update \/ rx_bye \/ \E rack \in 1 .. MaxRseq : rx_prack(rack)
    \/ \E n \in DOMAIN dlg.waits : rx_1xx(n) \/ \E code \in Final : rx_final(n, code)
    \/ \E n \in dlg.cancels : cancel_timeout(n)

Spec == Init /\ [][Next]_dlg

-----------------------------------------------------------------------------
(* Properties.                                                             *)

\* pending_invites, for which every further INVITE gets a 491, counts the
\* INVITEs that wait for their final reply, and those that 100rel refused:
\* the 420 and 421 do not go through onReplyTxed.
PendingCounted ==
    Runs => dlg.pending_invites = Cardinality(Invites(dlg.uas_trans)) + dlg.refused

\* Every 2xx to an INVITE of ours that reaches the dialog is acknowledged by
\* the time its handler returns, in whatever state the dialog is.
Acked == dlg.unacked # {} => dlg.failed

\* An offer in flight belongs to a transaction whose end will settle it.
\* Otherwise the dialog would refuse every INVITE with 491 and every offer
\* of its own for ever.
OfferOwned ==
    Runs /\ dlg.status \notin {"Disconnected", "Disconnecting", "Cancelling"}
         /\ dlg.oa_state \in {"OfferSent", "OfferRecved"}
    => \/ dlg.oa_cseq \in DOMAIN dlg.uac_trans \cup DOMAIN dlg.uas_trans \cup dlg.acks
       \/ dlg.failed

\* A dialog that waits for its end waits for a reply that will come: that of
\* its BYE, or the final one of the INVITE it cancels.
EndComes ==
    Runs /\ ~dlg.failed =>
        /\ dlg.status = "Disconnecting" =>
               \E n \in DOMAIN dlg.uac_trans \cap DOMAIN dlg.waits : dlg.waits[n] = "BYE"
        /\ dlg.status = "Cancelling" =>
               Invites(dlg.uac_trans) \cap Invites(dlg.waits) # {}

\* When the session is gone the peer does not sit in a call: it got a BYE or
\* sent one, or no INVITE can be answered any more.  Excepted are sessions
\* that could not send, or that closed the dialog while it was cancelling.
HungUp ==
    dlg.processing_status = "ended" =>
        \/ dlg.peer = "over" \/ dlg.failed \/ dlg.dropped
        \/ dlg.peer = "idle" /\ Invites(dlg.waits) = {}
=============================================================================
