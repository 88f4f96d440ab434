-------------------------- MODULE SubscriptionClient --------------------------
(***************************************************************************)
(* The subscription client (core/AmSipSubscriptionContainer.cpp) for one   *)
(* handle: applications create, refresh and remove the subscription from   *)
(* their own threads, the container's thread takes SIP messages and timer  *)
(* events from its queue, and the timer thread fires the direct timers of  *)
(* AmAppTimer.  subscriptions_mut makes the first two atomic; a timer      *)
(* fires under direct_timers_mut, so it is either removed or has its event *)
(* in the queue.                                                           *)
(*                                                                         *)
(* The order in which SIP messages are taken from the queue is the order   *)
(* in which they happen here; only timer events are kept in a queue.       *)
(***************************************************************************)
EXTENDS SipSubscription

CONSTANTS MaxLocal,   \* requests we send
          MaxRemote   \* requests the peer sends

ASSUME ClientAssumption == NoSub \notin Addr /\ MaxLocal \in Nat /\ MaxRemote \in Nat

VARIABLES alive,    \* the handle: not used yet, in subscriptions, removed
          dlg,      \* the AmSipSubscriptionDialog
          queue,    \* SingleSubTimeoutEvents of the container's queue
          subless   \* allow_subless_notify, which no constructor sets

vars == <<alive, dlg, queue, subless>>

Subscribe == [method |-> "SUBSCRIBE", ss |-> "none"]
Notify(ss) == [method |-> "NOTIFY", ss |-> ss]

Init ==
    /\ alive = "no" /\ dlg = NewDialog /\ queue = <<>>
    /\ subless \in BOOLEAN

\* AmSipSubscriptionDialog::subscribe; a request that cannot be sent changes
\* nothing.
subscribe ==
    /\ dlg.cseq <= MaxLocal
    /\ \E a \in Addr : Room(dlg, Subscribe, TRUE, a) /\ dlg' = sendRequest(dlg, Subscribe, a)

createSubscription_app ==
    /\ alive = "no" /\ subscribe
    /\ alive' = "yes"
    /\ UNCHANGED <<queue, subless>>

\* refreshSubscription, and removeSubscription with Expires: 0.
refreshSubscription ==
    /\ alive = "yes" /\ subscribe
    /\ UNCHANGED <<alive, queue, subless>>

\* What onEvent does after the dialog has handled the event.
Handled(l) ==
    IF l.usages > 0 THEN dlg' = l /\ UNCHANGED alive
    ELSE /\ dlg' = [NewDialog EXCEPT !.told = l.told, !.stale = l.stale]
         /\ alive' = "gone"

\* A request of the peer.  sent: our reply to a NOTIFY could be sent.
rx_request ==
    /\ alive = "yes" /\ dlg.r_cseq < MaxRemote
    /\ \E a \in Addr,
          req \in {Subscribe} \cup {Notify(ss) : ss \in {"active", "pending", "ended"}},
          sent \in BOOLEAN, seen \in {"active", "pending", "terminated", "failed"} :
        /\ Room(dlg, req, FALSE, a)
        /\ Handled(onRequestIn(dlg, req, subless, a, sent, seen))
    /\ UNCHANGED <<queue, subless>>

rx_reply ==
    /\ alive = "yes"
    /\ \E c \in DOMAIN dlg.uac_trans, code \in Codes :
        Handled(onReplyIn(dlg, c, code))
    /\ UNCHANGED <<queue, subless>>

\* SubscriptionTimer::fire, called with direct_timers_mut held.
fire ==
    /\ \E t \in dlg.timers :
        /\ dlg' = [dlg EXCEPT !.timers = @ \ {t}]
        /\ queue' = Append(queue, t)
    /\ UNCHANGED <<alive, subless>>

\* The session hears of a timeout whether or not a subscription ended.
timeout ==
    /\ queue # <<>>
    /\ queue' = Tail(queue)
    /\ IF alive = "yes" THEN Handled(Told(onTimeout(dlg, Head(queue)[1]), "timeout"))
       ELSE UNCHANGED <<alive, dlg>>
    /\ UNCHANGED subless

Next ==
    \/ createSubscription_app \/ refreshSubscription
    \/ rx_request \/ rx_reply
    \/ fire \/ timeout

Spec == Init /\ [][Next]_vars

\* The timer thread and the container's thread run.
FairSpec == Spec /\ WF_vars(fire) /\ WF_vars(timeout)

-----------------------------------------------------------------------------
(* Properties.                                                             *)

Listed(l) == {l.subs[i] : i \in 1 .. Len(l.subs)}

\* The usage counter that keeps the dialog in the container counts the
\* subscriptions that are not terminated, and the container forgets the
\* dialog with the last of them.
UsagesExact ==
    /\ dlg.usages = Cardinality({a \in Addr : ~terminated(dlg, a) /\ dlg.sub[a] # Freed})
    /\ (alive = "yes") = (dlg.usages > 0)

\* Armed timers and the CSeq maps only refer to subscriptions that exist:
\* fire(), onReplyIn and onReplySent never follow a dangling pointer.
NoDangling ==
    /\ Listed(dlg) = Addr \ Free(dlg)
    /\ {t[1] : t \in dlg.timers} \cup Range(dlg.uac_cseq_map)
       \cup Range(dlg.uas_cseq_map) \subseteq Listed(dlg)

\* When the dialog goes away the last event its session got says so: failed,
\* terminated or timeout (or what onNotify read after the delete).
EndTold ==
    alive = "gone" => dlg.told \in {"failed", "terminated", "timeout"} \/ dlg.stale

\* A subscription ends unless it is refreshed again and again.
Ends == (alive = "yes") ~> (alive = "gone")
=============================================================================
