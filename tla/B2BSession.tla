----------------------------- MODULE B2BSession -----------------------------
(***************************************************************************)
(* core/AmB2BSession.cpp: the sessions of a back-to-back call.  Each leg   *)
(* is a session with a thread and an event queue of its own; what it       *)
(* receives from its peer it relays to the other leg as an event.          *)
(*                                                                         *)
(* S holds the legs, their queues and the reference counts of the media    *)
(* sessions, and every method is an operator on it.  A leg's AmSipDialog   *)
(* (SipDialog) is reduced to its status and its open transactions.  A      *)
(* request is named by its kind: a peer sends each kind once in a call, so *)
(* the kind stands for the CSeqs that relayed_req maps to one another.     *)
(***************************************************************************)
EXTENDS Integers, Sequences, FiniteSets, FiniteSetsExt

CONSTANTS A,        \* the leg of the caller
          Callees,  \* legs that can be created to call somebody
          NoLeg

Legs == {A} \cup Callees
Kinds == {"INVITE", "reINVITE", "BYE"}
Invites == {"INVITE", "reINVITE"}

\* A session, with other_legs of CallLeg; media is the callee whose AmB2BMedia
\* media_session points to.  The last three fields are the peer's: the
\* final replies and the ACKs it owes, and the requests it has made.
Session(state, other) ==
    [state |-> state, other_id |-> other, other_legs |-> {},
     call_status |-> "Disconnected", sip_relay_only |-> FALSE,
     recvd_req |-> {}, relayed_req |-> {}, sess_stopped |-> FALSE,
     status |-> "Disconnected", uac_trans |-> {}, uas_trans |-> {},
     media |-> NoLeg, waits |-> {}, acks |-> {}, used |-> {}]

-----------------------------------------------------------------------------
(* The dialog of a leg.                                                    *)

getUACInvTransPending(S, l) == S.leg[l].uac_trans \cap Invites # {}

setStopped(S, l) == [S EXCEPT !.leg[l].sess_stopped = TRUE]

send_200_ack(S, l, k) == [S EXCEPT !.leg[l].uac_trans = @ \ {k}]

\* A fault is one message that the transport refuses, or a body that cannot
\* be rewritten.  excused tells of the ones after which a leg is left behind:
\* a BYE that is not sent leaves the dialog Disconnecting, and a callee's leg
\* whose INVITE is not sent ends the caller's.
Failed(S, left) == [S EXCEPT !.fault = "none", !.excused = @ \/ left]

sendRequest(S, l, k) ==
    LET R == [S EXCEPT !.leg[l].status = CASE k = "BYE" -> "Disconnecting"
                                           [] k = "INVITE" -> "Trying"
                                           [] OTHER -> @]
    IN  IF S.fault # "none" THEN Failed(R, k # "reINVITE")
        ELSE [R EXCEPT !.leg[l].uac_trans = @ \cup {k}, !.leg[l].waits = @ \cup {k}]

\* onTxReply and, if the transport takes the reply, onReplySent of
\* AmB2BSession with onReplyTxed.
reply(S, l, k, code) ==
    LET d == S.leg[l].status
        R == [S EXCEPT !.leg[l].status =
                  CASE k = "INVITE" /\ d \in {"Early", "Cancelling"} ->
                           CASE code = 180 -> "Early" [] code = 200 -> "Connected"
                             [] OTHER -> "Disconnected"
                    [] k = "BYE" /\ d = "Disconnecting" -> "Disconnected"
                    [] OTHER -> d]
    IN  IF S.fault # "none" THEN Failed(R, FALSE)
        ELSE IF code < 200 THEN R
        ELSE [R EXCEPT !.leg[l].uas_trans = @ \ {k}, !.leg[l].recvd_req = @ \ {k},
                       !.leg[l].acks = IF k \in Invites /\ code = 200 THEN @ \cup {k} ELSE @]

bye(S, l) ==
    LET d == S.leg[l].status
        acked == [S EXCEPT !.leg[l].uac_trans = @ \ Invites]
    IN  CASE d = "Connected" -> sendRequest(acked, l, "BYE")
          [] d = "Disconnecting" -> acked
          [] d \in {"Trying", "Early"} /\ getUACInvTransPending(S, l) ->
                 [S EXCEPT !.leg[l].status = "Cancelling"]
          [] d \in {"Trying", "Early", "Cancelling"} ->
                 IF "INVITE" \in S.leg[l].uas_trans THEN reply(S, l, "INVITE", 487)
                 ELSE [S EXCEPT !.leg[l].status = "Disconnected"]
          [] OTHER -> S

-----------------------------------------------------------------------------
(* Events from leg to leg.                                                 *)

Event(e, l, k, fwd, code) == [e |-> e, from |-> l, kind |-> k, forward |-> fwd, code |-> code]
Request(l, k, fwd) == Event("B2BSipRequest", l, k, fwd, 0)
Ack(l, k) == Event("ACK", l, k, TRUE, 0)
Reply(l, k, code) == Event("B2BSipReply", l, k, TRUE, IF code < 300 THEN code ELSE 500)
Terminate(l) == Event("B2BTerminateLeg", l, "BYE", FALSE, 0)
Connect(l) == Event("ConnectLeg", l, "INVITE", TRUE, 0)

\* A queue takes events until its session is destroyed.
Reachable(S, l) == l # NoLeg /\ S.leg[l].state \in {"running", "waiting", "ended"}

postEvent(S, l, ev) == IF Reachable(S, l) THEN [S EXCEPT !.q[l] = Append(@, ev)] ELSE S

relayEvent(S, l, ev) == postEvent(S, S.leg[l].other_id, ev)

\* What relayEvent returns: an event for nobody is not a failure.
Relayed(S, l) == S.leg[l].other_id = NoLeg \/ Reachable(S, S.leg[l].other_id)

relayError(S, l, k, code) == relayEvent(S, l, Reply(l, k, code))

-----------------------------------------------------------------------------
(* The media session.                                                      *)

releaseReference(S, b) == [S EXCEPT !.ref[b] = @ - 1]

clearRtpReceiverRelay(S, l) ==
    IF S.leg[l].media = NoLeg THEN S
    ELSE [releaseReference(S, S.leg[l].media) EXCEPT !.leg[l].media = NoLeg]

setMediaSession(S, l, b) == [S EXCEPT !.leg[l].media = b, !.ref[b] = @ + 1]

-----------------------------------------------------------------------------
(* Relaying to the peer, and ending a leg.                                 *)

\* A reply in the dialog of the leg; FALSE if dlg->reply fails.
RelaysReply(S, l, code) == S.fault = "none" /\ ~(S.leg[l].status = "Cancelling" /\ code < 200)

\* relaySip of a request.  A request that could not be sent stays in
\* relayed_req, and an ACK is matched with the INVITE that was relayed.
relayAck(S, l, k) ==
    IF k \in S.leg[l].relayed_req
    THEN [send_200_ack(S, l, k) EXCEPT !.leg[l].relayed_req = @ \ {k}] ELSE S

relaySip(S, l, k) ==
    LET R == sendRequest([S EXCEPT !.leg[l].relayed_req = @ \cup {k}], l, k)
    IN  IF S.fault = "none" THEN R ELSE relayError(R, l, k, 500)

terminateLeg(S, l) == bye(clearRtpReceiverRelay(setStopped(S, l), l), l)

\* AmB2BSession::finalize up to AmSession::finalize: "clean up relayed_req",
\* then the dialog's transactions, then the destructor.
relayErrors(S, l) ==
    IF S.leg[l].other_id = NoLeg THEN S
    ELSE FoldSet(LAMBDA k, R : relayError(R, l, k, 481), S, S.leg[l].relayed_req)
=============================================================================
