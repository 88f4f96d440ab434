---------------------------- MODULE OfferAnswer -----------------------------
(***************************************************************************)
(* core/AmOfferAnswer.cpp: the offer/answer state of a dialog, as          *)
(* operators on the dialog's record (SipDialog).                           *)
(*                                                                         *)
(* A session description is "none", "sdp", "bad" (it does not parse) or    *)
(* "odd" (it parses, but the RTP stream cannot be set up with it).  What   *)
(* the session itself writes is never bad, and its body is left to the     *)
(* offer/answer code, as AmSession does.                                   *)
(***************************************************************************)
EXTENDS Naturals

Bodies == {"none", "sdp", "bad", "odd"}

clear(S) == [S EXCEPT !.oa_state = "None", !.oa_cseq = 0,
                      !.sdp_local = FALSE, !.sdp_remote = "none"]

\* Mutant: the state stays as it is.
clearTransitionalState_nothing(S) == S

clearTransitionalState(S) == IF S.oa_state # "Completed" THEN clear(S) ELSE S

saveState(S) == [S EXCEPT !.saved_state = S.oa_state]

\* AmSession::onSdpCompleted: both descriptions must be there and usable.
SdpRefused(S) == ~S.sdp_local \/ S.sdp_remote # "sdp"

\* AmSipDialog::onSdpCompleted.
onSdpCompleted(S) ==
    IF SdpRefused(S) THEN clear(S)
    ELSE [S EXCEPT !.early_session_started = @ \/ S.status = "Early",
                   !.session_started = @ \/ S.status = "Connected"]

StateChanged(S) == S.saved_state # S.oa_state /\ S.oa_state = "Completed"

checkStateChange(S) == IF StateChanged(S) THEN onSdpCompleted(S) ELSE S

\* onRxSdp: whether it refuses the body, and what becomes of the state.
RxSdpError(S, body) == body = "bad" \/ S.oa_state = "OfferRecved"

onRxSdp(S, n, body) ==
    IF body = "bad" THEN [S EXCEPT !.sdp_remote = "none"]
    ELSE LET R == [S EXCEPT !.sdp_remote = body]
         IN  CASE S.oa_state \in {"None", "Completed"} ->
                      [R EXCEPT !.oa_state = "OfferRecved", !.oa_cseq = n]
               [] S.oa_state = "OfferSent" -> [R EXCEPT !.oa_state = "Completed"]
               [] S.oa_state = "OfferRecved" -> R

\* getSdpBody writes a description unless an offer waits for its answer, and
\* onTxSdp takes note of it.
onTxSdp(S, n) ==
    LET R == [S EXCEPT !.sdp_local = TRUE]
    IN  IF S.oa_state = "OfferRecved" THEN [R EXCEPT !.oa_state = "Completed"]
        ELSE [R EXCEPT !.oa_state = "OfferSent", !.oa_cseq = n]

\* onRequestOut: ask tells that the caller wants a description to be added.
GenerateInRequest(S, method, ask) ==
    ask \/ (method \in {"PRACK", "ACK"} /\ S.oa_state = "OfferRecved")

RequestRefused(S, method, ask) ==
    GenerateInRequest(S, method, ask) /\ S.oa_state = "OfferSent"

oaRequestOut(S, method, n, ask) ==
    LET R == saveState(S)
    IN  IF GenerateInRequest(S, method, ask) /\ ~RequestRefused(S, method, ask)
        THEN onTxSdp(R, n) ELSE R

oaRequestSent(S, method, n) ==
    LET R == checkStateChange(S)
    IN  IF method = "ACK" /\ n = R.oa_cseq THEN clearTransitionalState(R) ELSE R

\* onReplyOut: a 183 or 2xx to an INVITE gets a description even if one was
\* agreed upon, which makes it a new offer.
GenerateInReply(S, method, code) ==
    \/ method = "INVITE" /\ code \in {183, 200} /\ S.oa_state # "OfferSent"
    \/ method = "UPDATE" /\ code = 200 /\ S.oa_state = "OfferRecved"

oaReplyOut(S, n, method, code) ==
    LET R == saveState(S)
        T == IF GenerateInReply(S, method, code) THEN onTxSdp(R, n) ELSE R
    IN  IF code >= 300 /\ n = T.oa_cseq THEN clearTransitionalState(T) ELSE T

oaReplySent(S, n, method, code) ==
    LET R == checkStateChange(S)
    IN  IF code >= 200 /\ method \notin {"CANCEL", "INVITE"} /\ n = R.oa_cseq
        THEN clearTransitionalState(R) ELSE R

onNoAck(S, n) == IF n = S.oa_cseq THEN clearTransitionalState(S) ELSE S
=============================================================================
