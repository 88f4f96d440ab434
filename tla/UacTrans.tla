------------------------------ MODULE UacTrans ------------------------------
(***************************************************************************)
(* Client transactions of core/sip/trans_layer.cpp: one request of the UA  *)
(* (an INVITE or another method) from send_request to the removal of the   *)
(* last transaction made for it, with fail-over to further targets         *)
(* (try_next_ip), the blacklist, CANCEL and the timers.                    *)
(*                                                                         *)
(* All transactions of a request live in one bucket, and each handler runs *)
(* under the bucket's lock, so a handler is one action.  Where the code    *)
(* unlocks in the middle (timer C, a 1xx for an abandoned transaction) the *)
(* rest of the handler is an action of its own.                            *)
(*                                                                         *)
(* A transaction is named by the first target it was made for, which also  *)
(* orders the bucket's list: every target is tried at most once.  A branch *)
(* is the pair of a transaction and the target the request was sent to.    *)
(* Timers expire in any order: their lengths are configuration.            *)
(***************************************************************************)
EXTENDS Integers, Sequences

CONSTANTS NTargets,  \* length of the resolved target set
          Reliable,  \* targets reached over a reliable transport
          Methods,   \* methods the UA sends, of INVITE and OTHER
          BlTtl      \* default_bl_ttl # 0

Targets == 1 .. NTargets

ASSUME UacAssumption ==
    /\ NTargets \in Nat \ {0}
    /\ Reliable \subseteq Targets
    /\ Methods \subseteq {"INVITE", "OTHER"}
    /\ BlTtl \in BOOLEAN

VARIABLES method,     \* method of the request
          tr,         \* the transactions: the request's and the CANCELs
          ticket,     \* transaction in the UA's trans_ticket, 0 before
          blacklist,  \* addresses in tr_blacklist
          answer,     \* what was sent on and received for each branch
          told,       \* final replies passed to the UA, in order
          wheel,      \* what the timer thread still has to do, unlocked
          nested      \* transactions for which a receiver is about to cancel

vars == <<method, tr, ticket, blacklist, answer, told, wheel, nested>>

Tids == {"REQ", "CANCEL"} \X Targets
None == "none"
Idle == [step |-> "idle", t |-> <<"REQ", 1>>]

Lowest(S) == CHOOSE x \in S : \A y \in S : x <= y
Highest(S) == CHOOSE x \in S : \A y \in S : x >= y

-----------------------------------------------------------------------------
(* sip_trans and its three timer slots.                                    *)

Slot(type) == CASE type \in {"A", "E"} -> 0
                [] type \in {"B", "F"} -> 1
                [] type \in {"C", "D", "K", "L", "M", "BL"} -> 2

\* sip_trans::sip_trans(); state "0" is the enum's value zero.
NewTrans == [state |-> "0", dst |-> 1, timers |-> [s \in 0 .. 2 |-> None],
             disable_bl |-> FALSE, canceled |-> FALSE, next |-> 0]
Absent == [NewTrans EXCEPT !.state = "absent"]
Removed == [NewTrans EXCEPT !.state = "REMOVED"]

reset_timer(x, type) == [x EXCEPT !.timers[Slot(type)] = type]
clear_timer(x, type) == [x EXCEPT !.timers[Slot(type)] = None]
reset_all_timers(x) == [x EXCEPT !.timers = [s \in 0 .. 2 |-> None]]

\* A transaction given up for the next target or by a CANCEL.
\* Mutant: its state is left alone.
Abandoned_keeps_state(x) == clear_timer(x, "A")

Abandoned(x) == [clear_timer(x, "A") EXCEPT !.state = "ABANDONED"]

DidReply(x) == [x EXCEPT !.disable_bl = TRUE]

\* The states in which a final reply is the first one.
\* Mutant: a repeated reply is taken for the first one.
Waiting_or_completed == {"CALLING", "TRYING", "PROCEEDING", "COMPLETED"}

Waiting == {"CALLING", "TRYING", "PROCEEDING"}

Invite(id) == id[1] = "REQ" /\ method = "INVITE"
Exists(id) == tr[id].state \notin {"absent", "REMOVED"}

\* The state and timers after the request went out to x.dst: add_trans and
\* update_uac_request, and the end of try_next_ip.  Timer B or F is kept
\* when there is one; timer M runs while there are targets left.
Started(x, invite) ==
    LET retr == IF x.dst \in Reliable THEN x
                ELSE reset_timer(x, IF invite THEN "A" ELSE "E")
        total == IF x.timers[1] # None THEN retr
                 ELSE reset_timer(retr, IF invite THEN "B" ELSE "F")
        more == IF x.next \in Targets THEN reset_timer(total, "M") ELSE total
    IN  [more EXCEPT !.state = IF invite THEN "CALLING" ELSE "TRYING"]

\* What sip_target_set::get_next can still return.
Candidates(x) ==
    {d \in Targets : x.next > 0 /\ d >= x.next
                     /\ (x.disable_bl \/ d \notin blacklist)}

\* The destinations that refuse the message go to the blacklist.
Blacklisted(failed) == IF BlTtl THEN blacklist \cup failed ELSE blacklist

\* try_next_ip(tr, use_new): the set of its outcomes, one for each target
\* that can be the first to accept the message, and one for none (0).
Attempt(id, use_new, sent) ==
    LET x == clear_timer(tr[id], "M")
        C == Candidates(x)
        fork == use_new /\ C # {}
        yid == IF fork THEN <<"REQ", Lowest(C)>> ELSE id
        old == IF fork THEN [x EXCEPT !.next = 0] ELSE x
        base == IF fork THEN [NewTrans EXCEPT !.disable_bl = x.disable_bl,
                                              !.timers[1] = x.timers[1]]
                        ELSE x
        last == IF sent # 0 THEN sent ELSE IF C # {} THEN Highest(C) ELSE x.dst
        moved == [base EXCEPT !.dst = last,
                              !.next = IF sent # 0 THEN sent + 1
                                       ELSE IF x.next > 0 THEN NTargets + 1 ELSE 0]
    IN  [ok |-> sent # 0,
         tr |-> [tr EXCEPT ![id] = old,
                           ![yid] = IF sent # 0 THEN Started(moved, Invite(yid))
                                                ELSE moved],
         blacklist |-> Blacklisted({d \in C : sent = 0 \/ d < sent}),
         answer |-> IF sent = 0 THEN answer
                    ELSE [answer EXCEPT ![<<yid, sent>>] = "silent"]]

try_next_ip(id, use_new) ==
    {Attempt(id, use_new, sent) :
        sent \in Candidates(tr[id]) \cup {0}}

-----------------------------------------------------------------------------
Init ==
    /\ method \in Methods
    /\ tr = [id \in Tids |-> Absent]
    /\ ticket = 0
    /\ blacklist \in SUBSET (IF BlTtl THEN Targets ELSE {})
    /\ answer = [b \in Tids \X Targets |-> "unsent"]
    /\ told = <<>>
    /\ wheel = Idle
    /\ nested = {}

\* send_request: targets are tried in turn; each refusal is blacklisted.
send_request(disable_bl) ==
    LET x == [NewTrans EXCEPT !.disable_bl = disable_bl, !.next = 1]
        C == Candidates(x)
    IN  /\ ticket = 0 /\ told = <<>>
        /\ \E sent \in C \cup {0} :
             /\ blacklist' = Blacklisted({d \in C : sent = 0 \/ d < sent})
             /\ IF sent = 0
                THEN told' = <<"500">> /\ UNCHANGED <<tr, ticket, answer>>
                ELSE LET id == <<"REQ", sent>>
                         y == [x EXCEPT !.dst = sent, !.next = sent + 1]
                     IN  /\ tr' = [tr EXCEPT ![id] = Started(y, Invite(id))]
                         /\ ticket' = sent
                         /\ answer' = [answer EXCEPT ![<<id, sent>>] = "silent"]
                         /\ UNCHANGED told
        /\ UNCHANGED <<method, wheel, nested>>

\* cancel(): the transaction it works on, <<>> for none.  find_uac_trans
\* takes the newest one of the dialog that is not abandoned.
\* Mutant: the transaction of the ticket even if it is abandoned.
ToCancel_takes_abandoned(id, in_dialog) == IF Exists(id) THEN id ELSE <<>>

ToCancel(id, in_dialog) ==
    LET found == {i \in Targets : LET x == <<"REQ", i>>
                                  IN  Exists(x) /\ tr[x].state # "ABANDONED"}
    IN  IF Exists(id) /\ tr[id].state # "ABANDONED" THEN id
        ELSE IF in_dialog /\ found # {} THEN <<"REQ", Highest(found)>> ELSE <<>>

\* An INVITE still in CALLING is answered 487 locally.  In PROCEEDING a
\* CANCEL goes out unless the transport refuses it; the flags of its
\* transaction are never initialised.
cancel(id, in_dialog, refused) ==
    LET t == ToCancel(id, in_dialog)
        c == <<"CANCEL", t[2]>>
    IN  IF \/ t = <<>> \/ tr[t].canceled \/ ~Invite(t)
           \/ tr[t].state \notin {"CALLING", "PROCEEDING"}
           \/ tr[t].state = "PROCEEDING" /\ refused
        THEN UNCHANGED <<tr, told, answer>>
        ELSE IF tr[t].state = "CALLING"
        THEN /\ tr' = [tr EXCEPT ![t] = [Abandoned(clear_timer(@, "M"))
                                         EXCEPT !.disable_bl = TRUE]]
             /\ told' = Append(told, "487")
             /\ UNCHANGED answer
        ELSE \E garbage \in BOOLEAN :
             /\ tr' = [tr EXCEPT
                         ![t].canceled = TRUE,
                         ![c] = Started([NewTrans EXCEPT !.dst = tr[t].dst,
                                                         !.disable_bl = garbage],
                                        FALSE)]
             /\ answer' = [answer EXCEPT ![<<c, tr[t].dst>>] = "silent"]
             /\ UNCHANGED told

\* The UA gives up on a request it has no final reply for.
ua_cancel(refused) ==
    /\ ticket # 0 /\ told = <<>>
    /\ cancel(<<"REQ", ticket>>, TRUE, refused)
    /\ UNCHANGED <<method, ticket, blacklist, wheel, nested>>

-----------------------------------------------------------------------------
(* Replies (process_rcvd_msg and update_uac_reply).                        *)

\* match_reply: the branch of the reply is the transaction's current one.
\* Peers answer a branch with any number of 1xx and one final reply, which
\* may be repeated; messages overtake each other.
Received(id, code, was) ==
    LET b == <<id, tr[id].dst>>
    IN  /\ Exists(id)
        /\ answer[b] = was
        /\ IF code = "1xx" THEN was \notin {"unsent", "local"}
                           ELSE was \in {"silent", "1xx", code}

Heard(code, was) == IF was = "silent" \/ code # "1xx" THEN code ELSE was

\* A request queued on a stream that broke down before it was written comes
\* back as a local 503 (transport_error): nothing was or will be heard.
Unsendable(id) ==
    LET b == <<id, tr[id].dst>>
    IN  Exists(id) /\ tr[id].dst \in Reliable /\ answer[b] \in {"silent", "local"}

Mark(a, id, code) == [a EXCEPT ![<<id, tr[id].dst>>] = code]

\* Mutant: timer C is not started.
receive_1xx_without_C(id) ==
    /\ Received(id, "1xx", "silent")
    /\ answer' = Mark(answer, id, "1xx")
    /\ tr' = [tr EXCEPT ![id] = IF @.state = "CALLING"
                                THEN [reset_all_timers(@) EXCEPT !.state = "PROCEEDING"]
                                ELSE @]
    /\ UNCHANGED <<method, ticket, blacklist, told, wheel, nested>>

\* A provisional reply.  For an abandoned transaction the receiver unlocks
\* the bucket and goes on to nested_cancel.
receive_1xx(id) ==
    LET x == tr[id]
        y == IF x.state = "CALLING" THEN reset_all_timers(x) ELSE x
        z == [y EXCEPT !.state = "PROCEEDING"]
    IN  \E was \in {"silent", "1xx", "2xx", "6xx", "503"} :
        /\ Received(id, "1xx", was)
        /\ answer' = Mark(answer, id, Heard("1xx", was))
        /\ tr' = [tr EXCEPT ![id] =
                    IF x.state \in {"CALLING", "TRYING", "PROCEEDING"}
                    THEN IF Invite(id) THEN reset_timer(z, "C") ELSE z
                    ELSE IF x.state \in {"ABANDONED", "TERMINATED"}
                    THEN DidReply(x) ELSE x]
        /\ nested' = IF x.state = "ABANDONED" THEN nested \cup {id} ELSE nested
        /\ UNCHANGED <<method, ticket, blacklist, told, wheel>>

nested_cancel(id, refused) ==
    /\ id \in nested
    /\ nested' = nested \ {id}
    /\ cancel(id, FALSE, refused)
    /\ UNCHANGED <<method, ticket, blacklist, wheel>>

Failover(id, code, local) ==
    IF code = "503" /\ tr[id].state \in {"CALLING", "PROCEEDING"}
    THEN try_next_ip(id, ~local)
    ELSE {[ok |-> FALSE, tr |-> tr, blacklist |-> blacklist, answer |-> answer]}

\* The 503 itself puts the target on the blacklist.
Refused(id, code) ==
    IF BlTtl /\ code = "503" /\ ~tr[id].disable_bl
       /\ tr[id].state \in {"CALLING", "PROCEEDING"}
    THEN {tr[id].dst} ELSE {}

\* Mutants: the 503 of a target is passed on even though the request went
\* to the next one; no error is passed on.
forget_reply_never(o) == FALSE

forget_reply(o) == o.ok

invite_error(id, code, local) ==
    \E o \in Failover(id, code, local) :
        LET x == o.tr[id]
            live == x.state \in {"CALLING", "PROCEEDING"}
            y == IF x.state = "CALLING" THEN reset_all_timers(x)
                                        ELSE clear_timer(x, "C")
        IN  /\ blacklist' = o.blacklist \cup Refused(id, code)
            /\ answer' = Mark(o.answer, id, IF local THEN "local" ELSE code)
            /\ IF local /\ o.ok
               THEN tr' = o.tr /\ UNCHANGED told
               ELSE /\ tr' = [o.tr EXCEPT ![id] =
                         IF live
                         THEN [reset_timer(y, "D") EXCEPT !.state = "COMPLETED"]
                         ELSE IF x.state \notin {"ABANDONED", "TERMINATED"} THEN x
                         ELSE IF local THEN Removed
                         ELSE DidReply(x)]
                    /\ told' = IF live /\ ~forget_reply(o) THEN Append(told, code) ELSE told
            /\ UNCHANGED <<method, ticket, wheel, nested>>

\* A positive final reply to an INVITE; repeated ones are answered with the
\* stored ACK and change nothing here.
invite_2xx(id) ==
    LET x == tr[id]
        live == x.state \in {"CALLING", "PROCEEDING"}
    IN  /\ answer' = Mark(answer, id, "2xx")
        /\ tr' = [tr EXCEPT ![id] =
                    IF live THEN [reset_timer(reset_all_timers(x), "L")
                                  EXCEPT !.state = "TERMINATED_200"]
                    ELSE IF x.state \in {"ABANDONED", "TERMINATED"}
                    THEN DidReply(x) ELSE x]
        /\ told' = IF live THEN Append(told, "2xx") ELSE told
        /\ UNCHANGED <<method, ticket, blacklist, wheel, nested>>

Answered(x) ==
    [reset_timer(clear_timer(clear_timer(clear_timer(x, "E"), "M"), "F"), "K")
     EXCEPT !.state = "COMPLETED"]

\* A final reply to another request, or to a CANCEL.  A 503 is acted upon
\* in whatever state the transaction is.
other_final(id, code, local) ==
    \E o \in IF code = "503" THEN try_next_ip(id, FALSE)
             ELSE {[ok |-> FALSE, tr |-> tr, blacklist |-> blacklist,
                    answer |-> answer]} :
        LET x == o.tr[id]
            live == x.state \in Waiting
        IN  /\ blacklist' = o.blacklist \cup
                            (IF BlTtl /\ code = "503" THEN {tr[id].dst} ELSE {})
            /\ answer' = Mark(o.answer, id, IF local THEN "local" ELSE code)
            /\ IF o.ok
               THEN tr' = o.tr /\ UNCHANGED told
               ELSE /\ tr' = [o.tr EXCEPT ![id] =
                         IF live
                         THEN IF local \/ tr[id].dst \in Reliable THEN Removed
                              ELSE Answered(x)
                         ELSE IF x.state \notin {"ABANDONED", "TERMINATED"} THEN x
                         ELSE IF local THEN Removed
                         ELSE DidReply(x)]
                    /\ told' = IF live /\ id[1] = "REQ" THEN Append(told, code)
                                                       ELSE told
            /\ UNCHANGED <<method, ticket, wheel, nested>>

receive_final(id, code) ==
    \E was \in {"silent", "1xx", code} :
        /\ Received(id, code, was)
        /\ IF ~Invite(id) THEN other_final(id, code, FALSE)
           ELSE IF code = "2xx" THEN invite_2xx(id) ELSE invite_error(id, code, FALSE)

transport_error(id) ==
    /\ Unsendable(id)
    /\ IF Invite(id) THEN invite_error(id, "503", TRUE)
                     ELSE other_final(id, "503", TRUE)

-----------------------------------------------------------------------------
(* Timers (timer_expired).  One thread runs them all.                      *)

Armed(id, type) == wheel = Idle /\ tr[id].timers[Slot(type)] = type

\* Mutant: the UA is not told.
timeout_without_reply(x, id) ==
    /\ tr' = [tr EXCEPT ![id] = Removed]
    /\ UNCHANGED told

\* timeout(): t may be in any state when timer C gets here.
timeout(x, id) ==
    LET y == [reset_all_timers(x) EXCEPT !.state = "TERMINATED"]
    IN  /\ tr' = [tr EXCEPT ![id] = IF x.disable_bl THEN Removed
                                                    ELSE reset_timer(y, "BL")]
        /\ told' = IF id[1] = "REQ" THEN Append(told, "408") ELSE told

\* Timers A and E send the request again and re-arm themselves.
fire_AE(id, type) == type \in {"A", "E"} /\ Armed(id, type) /\ UNCHANGED vars

fire_BF(id, type) ==
    LET x == clear_timer(tr[id], type)
    IN  /\ type \in {"B", "F"} /\ Armed(id, type)
        /\ IF \/ type = "B" /\ x.state = "CALLING"
              \/ type = "F" /\ x.state \in {"TRYING", "PROCEEDING"}
           THEN timeout(x, id)
           ELSE /\ tr' = [tr EXCEPT ![id] =
                            IF x.state = "ABANDONED" /\ ~x.disable_bl
                            THEN reset_timer(x, "BL") ELSE Removed]
                /\ UNCHANGED told
        /\ UNCHANGED <<method, ticket, blacklist, answer, wheel, nested>>

\* Timer C: CANCEL, then give up; the bucket is unlocked before and after
\* the call of cancel().
fire_C(id) ==
    /\ Armed(id, "C")
    /\ tr' = [tr EXCEPT ![id] = clear_timer(@, "C")]
    /\ wheel' = [step |-> "cancel", t |-> id]
    /\ UNCHANGED <<method, ticket, blacklist, answer, told, nested>>

C_cancel(refused) ==
    /\ wheel.step = "cancel"
    /\ cancel(wheel.t, FALSE, refused)
    /\ wheel' = [wheel EXCEPT !.step = "timeout"]
    /\ UNCHANGED <<method, ticket, blacklist, nested>>

C_timeout ==
    /\ wheel.step = "timeout"
    /\ IF Exists(wheel.t) THEN timeout(tr[wheel.t], wheel.t)
                          ELSE UNCHANGED <<tr, told>>
    /\ wheel' = Idle
    /\ UNCHANGED <<method, ticket, blacklist, answer, nested>>

fire_DKL(id, type) ==
    /\ type \in {"D", "K", "L"} /\ Armed(id, type)
    /\ tr' = [tr EXCEPT ![id] = Removed]
    /\ UNCHANGED <<method, ticket, blacklist, answer, told, wheel, nested>>

\* Timer M: no answer from this target in time, try the next one.
fire_M(id) ==
    /\ Armed(id, "M")
    /\ \E o \in try_next_ip(id, TRUE) :
         /\ tr' = IF o.ok
                  THEN [o.tr EXCEPT ![id] = Abandoned(@)] ELSE o.tr
         /\ blacklist' = o.blacklist /\ answer' = o.answer
    /\ UNCHANGED <<method, ticket, told, wheel, nested>>

fire_BL(id) ==
    /\ Armed(id, "BL")
    /\ blacklist' = IF tr[id].disable_bl THEN blacklist
                                         ELSE Blacklisted({tr[id].dst})
    /\ tr' = [tr EXCEPT ![id] = Removed]
    /\ UNCHANGED <<method, ticket, answer, told, wheel, nested>>

\* bl_timer::fire
blacklist_expires(d) ==
    /\ wheel = Idle /\ d \in blacklist
    /\ blacklist' = blacklist \ {d}
    /\ UNCHANGED <<method, tr, ticket, answer, told, wheel, nested>>

Codes == {"2xx", "503", "6xx"}

\* What the timer thread does about a transaction.
Timer(id) ==
    \/ \E type \in {"B", "F"} : fire_BF(id, type)
    \/ fire_C(id)
    \/ \E type \in {"D", "K", "L"} : fire_DKL(id, type)
    \/ fire_M(id)
    \/ fire_BL(id)

AfterC == C_timeout \/ \E refused \in BOOLEAN : C_cancel(refused)

Next ==
    \/ \E disable_bl \in BOOLEAN : send_request(disable_bl)
    \/ \E refused \in BOOLEAN : ua_cancel(refused)
    \/ \E id \in Tids :
         \/ receive_1xx(id)
         \/ \E code \in Codes : receive_final(id, code)
         \/ transport_error(id)
         \/ \E refused \in BOOLEAN : nested_cancel(id, refused)
         \/ Timer(id)
         \/ \E type \in {"A", "E"} : fire_AE(id, type)
    \/ AfterC
    \/ \E d \in Targets : blacklist_expires(d)

Spec == Init /\ [][Next]_vars

\* The timer thread runs; an armed timer expires unless it is dropped (peers
\* do not refresh timer C for ever).
FairSpec == Spec /\ WF_vars(AfterC \/ \E id \in Tids : Timer(id))

-----------------------------------------------------------------------------
(* Properties.                                                             *)

\* The transactions over which the request can still be answered.
Live == {id \in Tids : id[1] = "REQ" /\ tr[id].state \in Waiting}

\* Fail-over never leaves two transactions waiting for an answer, so no two
\* targets can both have their answer passed to the UA.
OneLive == \A x, y \in Live : x = y

\* After a final reply no INVITE is left ringing.  Only timer C, which drops
\* the lock before timeout(), can report 408 for a transaction that has
\* failed over in the meantime.
Settled == told # <<>> /\ Live # {} => "408" \in {told[i] : i \in DOMAIN told}

\* A final reply to an INVITE reaches the UA only over the one transaction
\* that waits, and ends it (timer C's late timeout() apart).
OneFinal ==
    [][method = "INVITE" /\ told' # told /\ ticket # 0 /\ wheel.step # "timeout"
       => Live # {} /\ Live' = {}]_vars

\* When fail-over abandoned the transaction of the UA's ticket, cancel()
\* finds the one that waits now (find_uac_trans).  A copy that try_next_ip
\* could send nowhere hides it.
CancelFollowsFailover ==
    /\ ticket # 0 /\ told = <<>> /\ tr[<<"REQ", ticket>>].state = "ABANDONED"
    /\ \A id \in Tids : tr[id].state # "0"
    => ToCancel(<<"REQ", ticket>>, TRUE) \in Live

\* A second final reply to another request can only follow a timeout.
SecondAfterTimeout == method = "OTHER" /\ Len(told) > 1 => told[1] = "408"

\* Every request that went out is answered to the UA in the end: by a peer,
\* or by a timeout.
UaAnswered == (ticket # 0) ~> (told # <<>>)

\* Every INVITE transaction that went out is removed from its bucket.  Only
\* a copy that try_next_ip could send nowhere (state "0") may stay.
InvitesEnd ==
    []<>(method = "INVITE" =>
            \A d \in Targets : tr[<<"REQ", d>>].state \in {"absent", "0", "REMOVED"})

=============================================================================
