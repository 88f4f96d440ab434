--------------------------- MODULE SipSubscription ---------------------------
(***************************************************************************)
(* The subscriptions of one dialog (core/AmSipSubscription.cpp) as         *)
(* operations on a record: AmSipSubscription with its list of              *)
(* SingleSubscription objects and the maps from CSeq to subscription, the  *)
(* transactions and the usage counter of the AmBasicSipDialog it belongs   *)
(* to, and the two direct timers of every subscription.                    *)
(*                                                                         *)
(* Objects have addresses, which are used again after delete.  A request   *)
(* is [method, ss], ss being what its Subscription-State amounts to: a     *)
(* state other than "active" and "pending", or no expires, is "ended".     *)
(* A reply is one of the classes of codes the code tells apart.            *)
(***************************************************************************)
EXTENDS Integers, Sequences, FiniteSets, Functions, TLC

CONSTANTS Addr,   \* addresses of SingleSubscription objects
          NoSub   \* subs.end()

Freed == [role |-> "none", state |-> "freed", pending |-> 0]
Failures == {"fatal", "failed"}
Codes == {"1xx", "2xx", "2xx_zero", "2xx_none"} \cup Failures

NewDialog ==
    [subs |-> <<>>, sub |-> [a \in Addr |-> Freed],
     uac_cseq_map |-> <<>>, uas_cseq_map |-> <<>>,
     uac_trans |-> <<>>, uas_trans |-> <<>>,
     usages |-> 0, timers |-> {}, remote_tag |-> FALSE, cseq |-> 1, r_cseq |-> 0,
     told |-> "none", stale |-> FALSE]

Free(l) == {a \in Addr : l.sub[a] = Freed}
Without(f, K) == Restrict(f, DOMAIN f \ K)
CseqsOf(f, a) == {c \in DOMAIN f : f[c] = a}

\* AmSipSubscriptionDialog posts an event to the session that subscribed.
Told(l, status) == [l EXCEPT !.told = status, !.stale = FALSE]

setState_uncounted(l, a, st) ==  \* mutant: no decUsages
    IF l.sub[a].state = "terminated" THEN l ELSE [l EXCEPT !.sub[a].state = st]

setState(l, a, st) ==
    IF l.sub[a].state = "terminated" THEN l
    ELSE [l EXCEPT !.sub[a].state = st,
                   !.usages = IF st = "terminated" THEN @ - 1 ELSE @]

terminate(l, a) == setState(l, a, "terminated")
terminated(l, a) == l.sub[a].state = "terminated"

removeSubscription_keeps_N(l, a) ==  \* mutant: timer N survives the object
    [l EXCEPT !.uac_cseq_map = Without(@, CseqsOf(@, a)),
              !.uas_cseq_map = Without(@, CseqsOf(@, a)),
              !.uas_trans = Without(@, CseqsOf(l.uas_cseq_map, a)),
              !.timers = @ \ {<<a, "expire">>},
              !.subs = SelectSeq(@, LAMBDA b : b # a),
              !.sub[a] = Freed]

\* Pending requests of the peer get a 481; the destructor drops the timers.
removeSubscription(l, a) ==
    [l EXCEPT !.uac_cseq_map = Without(@, CseqsOf(@, a)),
              !.uas_cseq_map = Without(@, CseqsOf(@, a)),
              !.uas_trans = Without(@, CseqsOf(l.uas_cseq_map, a)),
              !.timers = @ \ {<<a, "N">>, <<a, "expire">>},
              !.subs = SelectSeq(@, LAMBDA b : b # a),
              !.sub[a] = Freed]

RemovedIfTerminated(l, a) == IF terminated(l, a) THEN removeSubscription(l, a) ELSE l

\* The first subscription of the role; a terminated one is deleted instead.
findSubscription(l, role) ==
    LET match == SelectSeq(l.subs, LAMBDA a : l.sub[a].role = role)
    IN  IF match = <<>> THEN [dlg |-> l, at |-> NoSub]
        ELSE IF terminated(l, Head(match))
             THEN [dlg |-> removeSubscription(l, Head(match)), at |-> NoSub]
             ELSE [dlg |-> l, at |-> Head(match)]

\* createSubscription puts the new object at the address a.
createSubscription(l, role, a) ==
    [dlg |-> [l EXCEPT !.subs = Append(@, a), !.usages = @ + 1,
                       !.sub[a] = [role |-> role, state |-> "init", pending |-> 0]],
     at |-> a]

\* Who subscribes with a request that we send (uac) or receive.
RoleIn(method, uac) == IF uac = (method = "SUBSCRIBE") THEN "Subscriber" ELSE "Notifier"

matchSubscription(l, method, uac, a) ==
    LET role == RoleIn(method, uac)
        found == IF (uac /\ ~l.remote_tag) \/ l.subs = <<>>
                 THEN [dlg |-> l, at |-> NoSub]
                 ELSE findSubscription(l, role)
    IN  IF found.at = NoSub /\ method = "SUBSCRIBE"
        THEN createSubscription(found.dlg, role, a)
        ELSE found

\* Whatever is created for the request can be put at the address a.
Room(l, req, uac, a) == a \in Free(l) \/ matchSubscription(l, req.method, uac, a).at # a

\* replyFSM for the replies to SUBSCRIBE: with Expires, with Expires: 0 and
\* without a readable Expires; and the failures.
Accepted(l, a, code) ==
    LET fine == [l EXCEPT !.remote_tag = TRUE]
    IN  CASE code = "2xx" -> [fine EXCEPT !.timers = (@ \ {<<a, "N">>}) \cup {<<a, "expire">>}]
          [] code = "2xx_zero" -> fine
          [] code = "2xx_none" -> Told(terminate(fine, a), "failed")

Refused_silently(l, a, code) ==  \* mutant: no onFailureReply
    IF l.sub[a].state = "notify_wait" \/ code = "fatal" THEN terminate(l, a) ELSE l

Refused(l, a, code) ==
    IF l.sub[a].state = "notify_wait" \/ code = "fatal"
    THEN Told(terminate(l, a), "failed") ELSE l

SubscribeReplied(l, a, code) ==
    LET r == IF code \in Failures THEN Refused(l, a, code) ELSE Accepted(l, a, code)
    IN  [r EXCEPT !.sub[a].pending = @ - 1]

\* replyFSM for the replies to NOTIFY.
NotifyReplied(l, a, ss, code) ==
    LET stopped == [l EXCEPT !.timers = @ \ {<<a, "N">>}]
    IN  CASE code = "fatal" -> Told(terminate(l, a), "failed")
          [] code \in Failures \ {"fatal"} -> l
          [] OTHER -> IF ss = "ended" THEN terminate(stopped, a)
                      ELSE [setState(stopped, a, ss) EXCEPT !.timers = @ \cup {<<a, "expire">>}]

\* SingleSubscription::replyFSM
replyFSM(l, a, req, code) ==
    CASE code = "1xx" -> l
      [] code # "1xx" /\ req.method = "SUBSCRIBE" -> SubscribeReplied(l, a, code)
      [] code # "1xx" /\ req.method = "NOTIFY" -> NotifyReplied(l, a, req.ss, code)

onReplySent(l, c, req, code) ==
    IF c \notin DOMAIN l.uas_cseq_map THEN l
    ELSE LET a == l.uas_cseq_map[c]
         IN  RemovedIfTerminated(
                 replyFSM([l EXCEPT !.uas_cseq_map = Without(@, {c})], a, req, code), a)

\* AmBasicSipDialog::reply with onReplyTxed.
reply(l, c, code) ==
    IF c \notin DOMAIN l.uas_trans THEN l
    ELSE LET r == onReplySent(l, c, l.uas_trans[c], code)
         IN  IF code = "1xx" THEN r ELSE [r EXCEPT !.uas_trans = Without(@, {c})]

Subscribing_no_N(l, a) ==  \* mutant: timer N is not started
    [l EXCEPT !.sub[a].state = IF @ = "init" THEN "notify_wait" ELSE @,
              !.sub[a].pending = @ + 1]

\* requestFSM for SUBSCRIBE: every one of them restarts timer N.
Subscribing(l, a) ==
    [l EXCEPT !.sub[a].state = IF @ = "init" THEN "notify_wait" ELSE @,
              !.sub[a].pending = @ + 1,
              !.timers = @ \cup {<<a, "N">>}]

\* AmSipSubscriptionDialog::onNotify.  The 200 may delete the subscription
\* whose state is read next; what a freed object holds then is in seen.
onNotify(l, c, a, sent, seen) ==
    LET r == IF sent THEN reply(l, c, "2xx") ELSE l
    IN  IF r.sub[a] = Freed THEN [r EXCEPT !.told = seen, !.stale = TRUE]
        ELSE Told(r, IF r.sub[a].state \in {"pending", "active", "terminated"}
                     THEN r.sub[a].state ELSE "failed")

\* AmBasicSipDialog::onRxRequest and AmSipSubscription::onRequestIn; a is
\* where a new subscription would be put.
onRequestIn(l, req, subless, a, sent, seen) ==
    LET c == l.r_cseq + 1
        rx == [l EXCEPT !.r_cseq = c, !.uas_trans = @ @@ (c :> req)]
        m == matchSubscription(rx, req.method, FALSE, a)
        s == [m.dlg EXCEPT !.uas_cseq_map = @ @@ (c :> m.at)]
    IN  CASE m.at = NoSub -> IF subless THEN m.dlg ELSE reply(m.dlg, c, "fatal")
          [] m.at # NoSub /\ req.method = "NOTIFY" -> onNotify(s, c, m.at, sent, seen)
          [] m.at # NoSub /\ req.method = "SUBSCRIBE" ->
                 IF s.sub[m.at].pending # 0 THEN reply(s, c, "failed")
                 ELSE Subscribing(s, m.at)

\* AmBasicSipDialog::sendRequest, when it is sent, and onRequestSent.
sendRequest(l, req, a) ==
    LET c == l.cseq
        m == matchSubscription(l, req.method, TRUE, a)
        s == IF m.at = NoSub THEN m.dlg
             ELSE [m.dlg EXCEPT !.uac_cseq_map = @ @@ (c :> m.at)]
        t == IF m.at # NoSub /\ req.method = "SUBSCRIBE" THEN Subscribing(s, m.at) ELSE s
    IN  [t EXCEPT !.uac_trans = @ @@ (c :> req), !.cseq = c + 1]

\* AmBasicSipDialog::onRxReply and AmSipSubscription::onReplyIn.  A
\* provisional reply already takes the request out of uac_cseq_map.
onReplyIn(l, c, code) ==
    LET a == l.uac_cseq_map[c]
        r == IF c \notin DOMAIN l.uac_cseq_map THEN l
             ELSE RemovedIfTerminated(
                      replyFSM([l EXCEPT !.uac_cseq_map = Without(@, {c})],
                               a, l.uac_trans[c], code), a)
    IN  IF code = "1xx" THEN r ELSE [r EXCEPT !.uac_trans = Without(@, {c})]

\* AmSipSubscription::onTimeout: the object is looked up by its address.
onTimeout(l, a) ==
    IF l.sub[a] = Freed THEN l ELSE removeSubscription(terminate(l, a), a)
=============================================================================
