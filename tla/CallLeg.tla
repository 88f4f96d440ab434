------------------------------ MODULE CallLeg -------------------------------
(***************************************************************************)
(* apps/sbc/CallLeg.cpp: a call from one caller to one or more callees     *)
(* that are tried at the same time or one after the other.  The leg A      *)
(* lists the legs it has created in other_legs, chooses one of them with   *)
(* its first 1xx (other_id), may choose another with a 2xx, and ends the   *)
(* rest.  Every leg runs on its own thread: a handler is one step, and     *)
(* between two steps of a leg the others do theirs.                        *)
(*                                                                         *)
(* The SIP peers behave as RFC 3261 wants it: a callee hangs up only after *)
(* the ACK.                                                                *)
(***************************************************************************)
EXTENDS B2BSession

CONSTANTS MaxEvents  \* requests of the peers, timeouts and faults in a call

ASSUME CallAssumption ==
    /\ IsFiniteSet(Callees) /\ A \notin Callees /\ NoLeg \notin Legs
    /\ MaxEvents \in Nat

VARIABLE call

-----------------------------------------------------------------------------
(* The other legs.                                                         *)

updateCallStatus(S, l, st) == [S EXCEPT !.leg[l].call_status = st]

\* Takes the legs of B out of other_legs, with the references they hold.
Unlisted(S, l, B) ==
    [S EXCEPT !.leg[l].other_legs = @ \ B,
              !.ref = [b \in Callees |-> IF b \in B \cap S.leg[l].other_legs THEN @[b] - 1 ELSE @[b]]]

\* Mutant of terminateNotConnectedLegs: clears the list without telling the legs.
terminateNotConnectedLegs_silently(S, l) ==
    Unlisted(S, l, S.leg[l].other_legs \ {S.leg[l].other_id})

terminateNotConnectedLegs(S, l) ==
    LET B == S.leg[l].other_legs \ {S.leg[l].other_id}
    IN  IF B = {} THEN S
        ELSE [Unlisted(S, l, B) EXCEPT
                 !.q = [k \in Legs |-> IF k \in B /\ Reachable(S, k)
                                       THEN Append(@[k], Terminate(l)) ELSE @[k]]]

terminateOtherLeg(S, l) ==
    LET R == IF S.leg[l].call_status # "Connected" THEN terminateNotConnectedLegs(S, l) ELSE S
        T == relayEvent(R, l, Terminate(l))
    IN  updateCallStatus(Unlisted(T, l, {T.leg[l].other_id}), l, "Disconnected")

stopCall(S, l) ==
    LET R == terminateNotConnectedLegs(updateCallStatus(S, l, "Disconnected"), l)
    IN  terminateLeg(terminateOtherLeg(R, l), l)

\* Mutant of removeOtherLeg: erases the entry and keeps its reference.
removeOtherLeg_keeps_ref(S, l, b) ==
    [S EXCEPT !.leg[l].other_id = IF @ = b THEN NoLeg ELSE @, !.leg[l].other_legs = @ \ {b}]

removeOtherLeg(S, l, b) ==
    Unlisted([S EXCEPT !.leg[l].other_id = IF @ = b THEN NoLeg ELSE @], l, {b})

\* setOther, and what it returns.
IsOther(S, l, b) == S.leg[l].other_id = b \/ b \in S.leg[l].other_legs

setOther(S, l, b) ==
    IF S.leg[l].other_id = b THEN S
    ELSE setMediaSession(
             clearRtpReceiverRelay([S EXCEPT !.leg[l].other_id = b,
                                             !.leg[l].sip_relay_only = TRUE], l), l, b)

\* addNewCallee; the new leg and the entry hold a reference each.
addNewCallee(S, l, b) ==
    LET R == [S EXCEPT !.leg[b] = [Session("running", l) EXCEPT !.media = b],
                       !.ref[b] = 2, !.leg[l].other_legs = @ \cup {b},
                       !.q[b] = <<Connect(l)>>]
    IN  IF S.leg[l].call_status = "Disconnected" THEN updateCallStatus(R, l, "NoReply") ELSE R

addCallees(S, l, B) == FoldSet(LAMBDA b, R : addNewCallee(R, l, b), S, B)

-----------------------------------------------------------------------------
(* Replies of the other legs.                                              *)

\* relaySipReply: a request that was answered before is no error.
relaySipReply(S, l, k, code) == IF k \in S.leg[l].recvd_req THEN reply(S, l, k, code) ELSE S
RelayFails(S, l, k, code) == k \in S.leg[l].recvd_req /\ ~RelaysReply(S, l, code)

RelayedOrStopped(S, l, code) ==
    LET R == relaySipReply(S, l, "INVITE", code)
    IN  IF RelayFails(S, l, "INVITE", code) THEN stopCall(R, l) ELSE R

b2bInitial1xx(S, l, b) ==
    CASE S.leg[l].call_status = "NoReply" /\ IsOther(S, l, b) ->
             RelayedOrStopped(updateCallStatus(setOther(S, l, b), l, "Ringing"), l, 180)
      [] S.leg[l].call_status # "NoReply" /\ S.leg[l].other_id = b -> RelayedOrStopped(S, l, 180)
      [] OTHER -> S

b2bInitial2xx(S, l, b) ==
    LET R == terminateNotConnectedLegs(setOther(S, l, b), l)
        T == Unlisted(R, l, {b})
    IN  CASE ~IsOther(S, l, b) -> S
          [] RelayFails(T, l, "INVITE", 200) -> stopCall(relaySipReply(T, l, "INVITE", 200), l)
          [] OTHER -> updateCallStatus(relaySipReply(T, l, "INVITE", 200), l, "Connected")

\* more are the legs that onBLegRefused adds: a serial fork.
b2bInitialErr(S, l, b, more) ==
    LET other == S.leg[l].call_status = "Ringing" /\ S.leg[l].other_id # b
        R == removeOtherLeg(clearRtpReceiverRelay(S, l), l, b)
        T == addCallees(updateCallStatus(R, l, "NoReply"), l, more)
        U == [T EXCEPT !.leg[l].sip_relay_only = FALSE]
    IN  CASE other -> addCallees(removeOtherLeg(S, l, b), l, more)
          [] ~other /\ U.leg[l].other_legs # {} -> U
          [] OTHER -> stopCall(updateCallStatus(relaySipReply(U, l, "INVITE", 503), l,
                                                "Disconnected"), l)

onInitialReply(S, l, ev, more) ==
    CASE ev.code < 200 -> b2bInitial1xx(S, l, ev.from)
      [] ev.code = 200 -> b2bInitial2xx(S, l, ev.from)
      [] OTHER -> b2bInitialErr(S, l, ev.from, more)

\* AmB2BSession::onB2BEvent for a reply.
onOtherReply(S, l, ev) ==
    LET R == relaySipReply(S, l, ev.kind, ev.code)
    IN  IF RelayFails(S, l, ev.kind, ev.code) THEN terminateLeg(terminateOtherLeg(R, l), l) ELSE R

Initial(S, l, ev) == ev.kind = "INVITE" /\ S.leg[l].call_status \in {"NoReply", "Ringing"}

onB2BReply(S, l, ev, more) ==
    CASE Initial(S, l, ev) -> onInitialReply(S, l, ev, more)
      [] ~Initial(S, l, ev) /\ S.leg[l].other_id = ev.from -> onOtherReply(S, l, ev)
      [] OTHER -> S

-----------------------------------------------------------------------------
(* The other events.                                                       *)

\* The leg is created with the INVITE to send; est_invite_cseq and
\* relayed_req make its replies those of the caller's INVITE.
onB2BConnect(S, l) ==
    LET R == [S EXCEPT !.leg[l].sip_relay_only = TRUE]
        T == sendRequest(R, l, "INVITE")
    IN  CASE S.fault = "body" ->  \* the exception ends the session
                 [relayError(R, l, "INVITE", 500) EXCEPT !.leg[l].state = "ended",
                                                         !.fault = "none"]
          [] S.fault = "send" -> stopCall(relayError(T, l, "INVITE", 500), l)
          [] OTHER -> updateCallStatus([T EXCEPT !.leg[l].relayed_req = @ \cup {"INVITE"}],
                                       l, "NoReply")

\* Mutant of onOtherBye: the leg is not stopped.
onOtherBye_runs_on(S, l) == clearRtpReceiverRelay(updateCallStatus(S, l, "Disconnected"), l)

onOtherBye(S, l) == clearRtpReceiverRelay(setStopped(updateCallStatus(S, l, "Disconnected"), l), l)

onB2BRequest(S, l, ev) ==
    LET fwd == ev.forward /\ S.leg[l].sip_relay_only
        R == IF ev.kind = "BYE" THEN onOtherBye(S, l) ELSE S
    IN  CASE fwd /\ ev.kind = "reINVITE" /\ getUACInvTransPending(S, l) ->
                 relayError(S, l, "reINVITE", 491)
          [] fwd /\ ev.kind = "BYE" /\ S.leg[l].status # "Connected" ->
                 relayError(S, l, "BYE", 200)
          [] OTHER -> IF fwd THEN relaySip(R, l, ev.kind) ELSE R

onB2BEvent(S, l, ev, more) ==
    CASE ev.e = "B2BSipReply" -> onB2BReply(S, l, ev, more)
      [] ev.e = "ConnectLeg" -> onB2BConnect(S, l)
      [] ev.e = "B2BSipRequest" -> onB2BRequest(S, l, ev)
      [] ev.e = "ACK" -> IF S.leg[l].sip_relay_only THEN relayAck(S, l, ev.kind) ELSE S
      [] ev.e = "B2BTerminateLeg" -> terminateLeg(S, l)

-----------------------------------------------------------------------------
(* Requests of the peer.                                                   *)

onBye(S, l) ==
    LET R == updateCallStatus(terminateNotConnectedLegs(S, l), l, "Disconnected")
    IN  setStopped(clearRtpReceiverRelay(R, l), l)

\* "terminate whole B2B call if the caller receives CANCEL"
onCancel(S, l) ==
    IF S.leg[l].call_status \in {"NoReply", "Ringing"} /\ l = A
    THEN stopCall(updateCallStatus(S, l, "Disconnected"), l) ELSE S

\* AmB2BSession::onSipRequest in sip_relay_only mode.
Forwarded(S, l, k) ==
    LET R == IF k = "BYE" THEN onBye(S, l) ELSE S
    IN  IF Relayed(R, l)
        THEN [relayEvent(R, l, Request(l, k, TRUE)) EXCEPT !.leg[l].recvd_req = @ \cup {k}]
        ELSE reply(R, l, k, 500)

onSipRequest(S, l, k) ==
    LET over == S.leg[l].call_status = "Disconnected"
        alone == over /\ S.leg[l].other_id = NoLeg
    IN  CASE alone /\ k = "BYE" -> stopCall(onBye(reply(S, l, k, 200), l), l)
          [] alone /\ k # "BYE" -> reply(S, l, k, 500)
          [] ~alone /\ over /\ k = "BYE" -> reply(S, l, k, 200)
          [] OTHER -> IF S.leg[l].sip_relay_only THEN Forwarded(S, l, k)
                      ELSE relayEvent(onBye(reply(S, l, k, 200), l), l, Request(l, k, FALSE))

-----------------------------------------------------------------------------
(* Replies of the peer.                                                    *)

\* The dialog's part: onRxReplyStatus.
RxReplyStatus(S, l, k, code) ==
    LET d == S.leg[l].status
        Is(st) == [S EXCEPT !.leg[l].status = st]
    IN  CASE k = "INVITE" /\ d \in {"Trying", "Early"} ->
                 Is(CASE code = 180 -> "Early" [] code = 200 -> "Connected"
                      [] OTHER -> "Disconnected")
          [] k = "INVITE" /\ d = "Cancelling" ->
                 CASE code = 180 -> S [] code = 200 -> bye(Is("Connected"), l)
                   [] OTHER -> Is("Disconnected")
          [] k = "BYE" /\ d = "Disconnecting" -> Is("Disconnected")
          [] OTHER -> S

\* Mutant of onInvite2xx: acknowledges at once, as AmSession does.
onInvite2xx_acks(S, l, k) == send_200_ack(S, l, k)

onInvite2xx(S, l, k) ==
    IF k \in S.leg[l].relayed_req THEN S ELSE send_200_ack(S, l, k)

onRemoteDisappeared(S, l) ==
    LET R == clearRtpReceiverRelay(S, l)
        T == IF R.leg[l].status = "Connected"
             THEN setStopped(bye(terminateOtherLeg(R, l), l), l) ELSE R
    IN  IF S.leg[l].call_status = "Connected" THEN updateCallStatus(T, l, "Disconnected") ELSE S

\* AmB2BSession::onSipReply: "not removing relayed INVITE transaction yet".
RelayedReply(S, l, k, code) ==
    LET R == relayEvent(S, l, Reply(l, k, code))
    IN  CASE k \notin S.leg[l].relayed_req -> S
          [] code < 200 \/ (code = 200 /\ k \in Invites) -> R
          [] OTHER -> [R EXCEPT !.leg[l].relayed_req = @ \ {k}]

onSipReply(S, l, k, code) ==
    LET R == RelayedReply(S, l, k, code)
        st == R.leg[l].call_status
    IN  CASE ~(k = "INVITE" /\ st \in {"NoReply", "Ringing"}) -> R
          [] code = 180 -> updateCallStatus(R, l, "Ringing")
          [] code = 200 -> updateCallStatus(R, l, "Connected")
          [] OTHER -> terminateLeg(updateCallStatus(R, l, "Disconnected"), l)

onRxReply(S, l, k, code) ==
    LET R == RxReplyStatus(S, l, k, code)
        T == CASE code = 200 /\ k \in Invites -> onInvite2xx(R, l, k)
               [] code = 408 -> onRemoteDisappeared(R, l)
               [] OTHER -> R
        U == onSipReply(T, l, k, code)
    IN  IF code >= 200 /\ ~(code = 200 /\ k \in Invites)
        THEN [U EXCEPT !.leg[l].uac_trans = @ \ {k}] ELSE U

-----------------------------------------------------------------------------
(* Actions.                                                                *)

Running(l) == call.leg[l].state \in {"running", "waiting"}

Active(l) == Running(l) /\ ~call.leg[l].sess_stopped

\* A fault, which strikes in the same step.
Faulty(S, f) == [S EXCEPT !.fault = f, !.events = IF f = "none" THEN @ ELSE @ + 1]
Becomes(S) == call' = S

\* What happens at most MaxEvents times.
Happens(S) == call.events < MaxEvents /\ Becomes([S EXCEPT !.events = @ + 1])
Faults == {"none"} \cup IF call.events < MaxEvents THEN {"send", "body"} ELSE {}

\* The caller's INVITE: SBCCallLeg::onInvite answers 100, CallLeg::onInvite
\* keeps the request, and the application calls the first callees.
Init ==
    LET S == [leg |-> [l \in Legs |-> Session(IF l = A THEN "running" ELSE "none", NoLeg)],
              q |-> [l \in Legs |-> <<>>], ref |-> [b \in Callees |-> 0],
              fault |-> "none", events |-> 0, excused |-> FALSE]
        R == [S EXCEPT !.leg[A].status = "Early", !.leg[A].uas_trans = {"INVITE"},
                       !.leg[A].recvd_req = {"INVITE"}]
    IN  \E B \in SUBSET Callees \ {{}} : call = addCallees(R, A, B)

\* One event of the queue.
process(l) ==
    /\ Running(l) /\ call.q[l] # <<>>
    /\ \E f \in Faults :
           \E more \in SUBSET {b \in Callees : call.leg[b].state = "none"} :
              LET ev == Head(call.q[l])
                  S == [call EXCEPT !.q[l] = Tail(@)]
                  R == onB2BEvent(Faulty(S, f), l, ev, more)
              IN  /\ f = "body" => ev.e = "ConnectLeg"
                  /\ R.fault = "none"
                  /\ more # {} => l = A /\ ev.e = "B2BSipReply" /\ ev.code >= 300
                                     /\ Initial(S, l, ev)
                  /\ call' = R

\* The caller cancels.
rx_cancel ==
    /\ Running(A) /\ "INVITE" \in call.leg[A].uas_trans /\ call.leg[A].status = "Early"
    /\ Happens(onCancel([call EXCEPT !.leg[A].status = "Cancelling"], A))

\* A request in the dialog, and two that leave a leg behind: a BYE of the
\* caller before the answer, which the ringing leg does not end for; and a BYE
\* that crosses ours on a leg that lost, which A takes for one of the leg it
\* is connected to.
InDialog(l) == call.leg[l].status \in {"Connected", "Disconnecting"}
                  /\ "INVITE" \notin call.leg[l].uac_trans \cup call.leg[l].acks
Early(l) == l = A /\ call.leg[l].status = "Early" /\ call.leg[l].call_status = "Ringing"
Lost(l) == l \in Callees /\ ~IsOther(call, A, l)

rx_bye(l) ==
    /\ Running(l) /\ "BYE" \notin call.leg[l].used /\ (InDialog(l) \/ Early(l))
    /\ Happens(onSipRequest(
           [call EXCEPT !.leg[l].status = "Disconnecting", !.leg[l].used = @ \cup {"BYE"},
                        !.leg[l].uas_trans = @ \cup {"BYE"},
                        !.excused = @ \/ Early(l) \/ Lost(l)], l, "BYE"))

rx_reinvite(l) ==
    /\ Running(l) /\ "reINVITE" \notin call.leg[l].used /\ InDialog(l)
    /\ call.leg[l].status = "Connected"
    /\ (call.leg[l].uas_trans \cup call.leg[l].uac_trans) \cap Invites = {}
    /\ Happens(onSipRequest(
           [call EXCEPT !.leg[l].used = @ \cup {"reINVITE"},
                        !.leg[l].uas_trans = @ \cup {"reINVITE"}], l, "reINVITE"))

rx_ack(l, k) ==
    /\ Running(l) /\ k \in call.leg[l].acks
    /\ LET S == [call EXCEPT !.leg[l].acks = @ \ {k}]
       IN  Becomes(IF S.leg[l].sip_relay_only THEN relayEvent(S, l, Ack(l, k)) ELSE S)

noAck(l, k) ==
    /\ Running(l) /\ k \in call.leg[l].acks
    /\ LET S == updateCallStatus([call EXCEPT !.leg[l].acks = @ \ {k}], l, "Disconnected")
           R == terminateOtherLeg(S, l)
       IN  Happens(setStopped(IF R.leg[l].status = "Connected" THEN bye(R, l) ELSE R, l))

rx_1xx(l) ==
    /\ Running(l) /\ "INVITE" \in call.leg[l].waits \cap call.leg[l].uac_trans
    /\ call.leg[l].status = "Trying"
    /\ Becomes(onRxReply(call, l, "INVITE", 180))

\* The final reply; 408 stands for the codes that end the dialog.
rx_final(l, k, code) ==
    /\ Running(l) /\ k \in call.leg[l].waits /\ (k = "BYE" => code # 503)
    /\ LET S == [call EXCEPT !.leg[l].waits = @ \ {k}]
       IN  Becomes(IF k \in S.leg[l].uac_trans THEN onRxReply(S, l, k, code) ELSE S)

\* onRtpTimeout and onSessionTimeout, once the 2xx is acknowledged: the media
\* and session timers are minutes.  The handlers themselves have no guard.
timeout(l) ==
    /\ Active(l) /\ call.leg[l].call_status = "Connected"
    /\ call.leg[l].status = "Connected" /\ InDialog(l)
    /\ Happens(setStopped(bye(terminateOtherLeg(
                  updateCallStatus(call, l, "Disconnected"), l), l), l))

\* AmSession::processingCycle after the events.
cycle(l) ==
    /\ Running(l) /\ call.leg[l].sess_stopped
    /\ LET d == call.leg[l].status
           Goes(S, st) == Becomes([S EXCEPT !.leg[l].state = st])
       IN  \/ d = "Disconnected" /\ Goes(call, "ended")
           \/ /\ call.leg[l].state = "running" /\ d \notin {"Disconnected", "Disconnecting"}
              /\ Goes(IF d = "Cancelling" THEN call ELSE bye(call, l), "waiting")

\* AmSession::finalize and the destructors.  Events that came after the last
\* cycle are lost with the queue.
finalize(l) ==
    /\ call.leg[l].state = "ended"
    /\ LET S == relayErrors(call, l)
           R == Unlisted(S, l, S.leg[l].other_legs)
       IN  Becomes([clearRtpReceiverRelay(R, l) EXCEPT
                       !.leg[l] = Session("gone", NoLeg), !.q[l] = <<>>,
                       !.excused = @ \/ \E i \in DOMAIN call.q[l] :
                                              call.q[l][i].e = "B2BSipRequest"])

Next ==
    \/ rx_cancel
    \/ \E l \in Legs :
          \/ process(l) \/ cycle(l) \/ finalize(l) \/ timeout(l)
          \/ rx_bye(l) \/ rx_reinvite(l) \/ rx_1xx(l)
          \/ \E k \in Invites : rx_ack(l, k) \/ noAck(l, k)
          \/ \E k \in Kinds, code \in {200, 408, 503} : rx_final(l, k, code)

Spec == Init /\ [][Next]_call

\* Something that is due happens: a leg's thread runs while it has something
\* to do; a request gets a final reply, or the transaction layer's 408, unless
\* it is an INVITE that rings and was not cancelled; and a 2xx gets its
\* ACK, or the report that it is missing.
Settled(l) ==
    \E k \in Kinds, code \in {200, 408, 503} :
       /\ k = "INVITE" => call.leg[l].status = "Cancelling"
       /\ rx_final(l, k, code)

Due(l) ==
    \/ process(l) \/ cycle(l) \/ finalize(l) \/ Settled(l)
    \/ \E k \in Invites : rx_ack(l, k) \/ noAck(l, k)

FairSpec == Spec /\ WF_call(\E l \in Legs : Due(l))

-----------------------------------------------------------------------------
(* Properties.                                                             *)

\* The references of an AmB2BMedia are those of the legs that use it and of
\* the entry of other_legs: none is lost and none is given back twice, on
\* whatever path the entry is dropped.
RefsExact ==
    \A b \in Callees :
       call.ref[b] = Cardinality({l \in Legs : call.leg[l].media = b})
                     + (IF b \in call.leg[A].other_legs THEN 1 ELSE 0)

\* A leg is told to end: terminateNotConnectedLegs, terminateOtherLeg, or a
\* BYE from the other side.
ToldToEnd(l) ==
    \E i \in DOMAIN call.q[l] :
       \/ call.q[l][i].e = "B2BTerminateLeg"
       \/ call.q[l][i].e = "B2BSipRequest" /\ call.q[l][i].kind = "BYE"

\* No callee's leg is forgotten: while it is not stopped, the caller's leg
\* runs and knows it, or has told it to end.
Owned ==
    \A b \in Callees :
       Active(b) => \/ Active(A) /\ IsOther(call, A, b)
                    \/ ToldToEnd(b) \/ call.excused

\* Only the callee that the caller talks to has its 2xx acknowledged and is
\* not hung up: the other legs that answer get their ACK together with a BYE.
OneConversation ==
    \A b \in Callees :
       Active(b) /\ call.leg[b].status = "Connected" /\ "INVITE" \notin call.leg[b].uac_trans
          => call.leg[A].other_id = b \/ ToldToEnd(b) \/ call.excused

\* The legs end together: once one leg of the call that is up, or the last
\* leg that rings, is stopped, all of them are destroyed at last.  The BYE that
\* each relays to its own peer is answered on every path.
Over == \/ call.leg[A].sess_stopped \/ call.leg[A].state = "gone"
        \/ \A b \in Callees : ~Active(b)
        \/ call.leg[A].call_status = "Connected" /\ ~Active(call.leg[A].other_id)
AllGone == \A l \in Legs : call.leg[l].state \in {"none", "gone"}

EndTogether == []<>(Over => AllGone \/ call.excused)
=============================================================================
