------------------------------ MODULE UasTrans ------------------------------
(***************************************************************************)
(* Server transactions of core/sip/trans_layer.cpp: a request of a peer    *)
(* (an INVITE, a PRACK or another), the UA's replies to it, ACK, PRACK and *)
(* the timers.  The request arrives any number of times; when a copy       *)
(* arrives after its transaction is gone it makes a new one.               *)
(*                                                                         *)
(* Each handler runs under the bucket's lock and is one action, except     *)
(* that a PRACK gives the lock back to find its INVITE before it makes a   *)
(* transaction of its own.  Timers expire in any order.                    *)
(***************************************************************************)
EXTENDS Integers, Sequences

CONSTANTS Methods,  \* methods received
          MaxTrans  \* bound on the transactions made for the request

Tids == 1 .. MaxTrans

AllMethods == {"INVITE", "PRACK", "OTHER"}

ASSUME UasAssumption == MaxTrans \in Nat \ {0} /\ Methods \subseteq AllMethods

VARIABLES method,    \* method of the request
          reliable,  \* it came over a reliable transport
          rseq,      \* it carries Require: 100rel and an RSeq header
          pending,   \* threads with a PRACK between unlock and add_trans
          made,      \* number of transactions made
          tr,        \* the transactions
          sent,      \* final replies put on the wire, for each transaction
          told       \* what the UA was told about the ACK

vars == <<method, reliable, rseq, pending, made, tr, sent, told>>

None == "none"
Final == {"2xx", "6xx"}

Slot(type) == CASE type \in {"G", "J"} -> 0 [] type = "H" -> 1 [] type = "I" -> 2

Blank(state) == [state |-> state, timers |-> [s \in 0 .. 2 |-> None],
                 reply_status |-> None, last_rseq |-> FALSE]
NewTrans == Blank(IF method = "INVITE" THEN "PROCEEDING" ELSE "TRYING")
Absent == Blank("absent")
Removed == Blank("REMOVED")

Exists(i) == tr[i].state \notin {"absent", "REMOVED"}

reset_timer(x, type) == [x EXCEPT !.timers[Slot(type)] = type]
clear_timer(x, type) == [x EXCEPT !.timers[Slot(type)] = None]

\* The reply (1xx, 2xx, 3xx and above) is sent again until the ACK, or the
\* PRACK, arrives or timer H expires.
Repeated(x, state) ==
    LET y == [reset_timer(x, "H") EXCEPT !.state = state]
    IN  IF reliable THEN y ELSE reset_timer(y, "G")

Confirmed(x) ==
    IF reliable THEN Removed
    ELSE [reset_timer(clear_timer(clear_timer(x, "G"), "H"), "I")
          EXCEPT !.state = "CONFIRMED"]

-----------------------------------------------------------------------------
Init ==
    /\ method \in Methods
    /\ reliable \in BOOLEAN
    /\ rseq \in BOOLEAN
    /\ pending = 0
    /\ made = 0
    /\ tr = [i \in Tids |-> Absent]
    /\ sent = [i \in Tids |-> <<>>]
    /\ told = [i \in Tids |-> <<>>]

\* A copy of the request that matches a transaction makes it send its last
\* reply again (sip_trans::retransmit); any other starts a transaction.
add_trans ==
    /\ made' = made + 1
    /\ tr' = [tr EXCEPT ![made + 1] = NewTrans]
    /\ UNCHANGED <<method, reliable, rseq, sent, told>>

receive_request ==
    /\ method # "PRACK" /\ made < MaxTrans
    /\ \A i \in Tids : ~Exists(i)
    /\ add_trans /\ UNCHANGED pending

\* A PRACK that matches no transaction.  The lock is released while the
\* INVITE is looked for (receive_PRACK is what that does to it), and the
\* PRACK is not matched again before its transaction is made.
unlock_for_PRACK ==
    /\ method = "PRACK" /\ made + pending < MaxTrans
    /\ \A i \in Tids : ~Exists(i)
    /\ pending' = pending + 1
    /\ UNCHANGED <<method, reliable, rseq, made, tr, sent, told>>

add_PRACK == pending > 0 /\ pending' = pending - 1 /\ add_trans

\* update_uas_reply
\* Mutant: timer J is not started.
update_uas_reply_without_J(x, code) ==
    IF code \in Final /\ method # "INVITE" THEN [x EXCEPT !.state = "COMPLETED"]
    ELSE IF code \in Final THEN Repeated(x, IF code = "2xx" THEN "TERMINATED_200"
                                                            ELSE "COMPLETED")
    ELSE IF x.last_rseq THEN Repeated(x, "PROCEEDING_REL")
    ELSE [x EXCEPT !.state = "PROCEEDING"]

update_uas_reply(x, code) ==
    IF code \in Final /\ method # "INVITE"
    THEN IF reliable THEN Removed
                     ELSE [reset_timer(x, "J") EXCEPT !.state = "COMPLETED"]
    ELSE IF code \in Final THEN Repeated(x, IF code = "2xx" THEN "TERMINATED_200"
                                                            ELSE "COMPLETED")
    ELSE IF x.last_rseq THEN Repeated(x, "PROCEEDING_REL")
    ELSE [x EXCEPT !.state = "PROCEEDING"]

\* Mutant: a transaction that was given its final reply takes another one.
Open_always(i) == Exists(i)

Open(i) == Exists(i) /\ tr[i].reply_status \notin Final

\* send_reply: last_rseq is taken from the headers of the request; whether
\* the UA's reply has an RSeq (rel) is not looked at.  ok is whether the
\* transport takes the reply.
send_reply(i, code, rel, ok) ==
    LET x == [tr[i] EXCEPT !.last_rseq = @ \/ rseq]
    IN  /\ Open(i)
        /\ tr' = [tr EXCEPT ![i] =
                    IF ok THEN update_uas_reply([x EXCEPT !.reply_status = code], code)
                    ELSE IF reliable THEN Removed ELSE reset_timer(x, "J")]
        /\ sent' = IF ok /\ code \in Final THEN [sent EXCEPT ![i] = Append(@, code)]
                                           ELSE sent
        /\ UNCHANGED <<method, reliable, rseq, pending, made, told>>

\* The ACK of a peer that got a final reply (any number of times).  The one
\* for 2xx is matched by its tags, so it is about j; the other by the branch,
\* which all copies of the request share.  An ACK that finds no transaction,
\* or one without a final reply, is dropped.
\* Mutant: the transaction of a 2xx stays after its ACK.
receive_ACK_keeps_transaction(i, j) ==
    /\ method = "INVITE" /\ Exists(i)
    /\ sent[j] # <<>> /\ (sent[j] = <<"2xx">> => i = j)
    /\ tr[i].state \in {"COMPLETED", "TERMINATED_200"}
    /\ tr' = [tr EXCEPT ![i] = IF @.state = "COMPLETED" THEN Confirmed(@) ELSE @]
    /\ told' = IF tr[i].state = "TERMINATED_200"
               THEN [told EXCEPT ![i] = Append(@, "ACK")] ELSE told
    /\ UNCHANGED <<method, reliable, rseq, pending, made, sent>>

receive_ACK(i, j) ==
    /\ method = "INVITE" /\ Exists(i)
    /\ sent[j] # <<>> /\ (sent[j] = <<"2xx">> => i = j)
    /\ tr[i].state \in {"COMPLETED", "TERMINATED_200"}
    /\ tr' = [tr EXCEPT ![i] = IF @.state = "COMPLETED" THEN Confirmed(@) ELSE Removed]
    /\ told' = IF tr[i].state = "TERMINATED_200"
               THEN [told EXCEPT ![i] = Append(@, "ACK")] ELSE told
    /\ UNCHANGED <<method, reliable, rseq, pending, made, sent>>

\* The PRACK for a reliable 1xx; RAck and last_rseq must agree.
receive_PRACK(i) ==
    /\ method = "INVITE" /\ tr[i].last_rseq
    /\ tr[i].state = "PROCEEDING_REL"
    /\ tr' = [tr EXCEPT ![i] = clear_timer(clear_timer(@, "G"), "H")]
    /\ UNCHANGED <<method, reliable, rseq, pending, made, sent, told>>

-----------------------------------------------------------------------------
(* timer_expired                                                           *)

\* Timer G sends the reply again and re-arms itself.
fire_G(i) == tr[i].timers[0] = "G" /\ UNCHANGED vars

fire_H(i) ==
    /\ tr[i].timers[1] = "H"
    /\ tr' = [tr EXCEPT ![i] = IF @.state = "PROCEEDING_REL" THEN clear_timer(@, "H")
                                                             ELSE Removed]
    /\ told' = IF tr[i].state \in {"TERMINATED_200", "COMPLETED"}
               THEN [told EXCEPT ![i] = Append(@, "noACK")] ELSE told
    /\ UNCHANGED <<method, reliable, rseq, pending, made, sent>>

fire_IJ(i, type) ==
    /\ type \in {"I", "J"} /\ tr[i].timers[Slot(type)] = type
    /\ tr' = [tr EXCEPT ![i] = Removed]
    /\ UNCHANGED <<method, reliable, rseq, pending, made, sent, told>>

Timer(i) == fire_H(i) \/ \E type \in {"I", "J"} : fire_IJ(i, type)

Next ==
    \/ receive_request
    \/ unlock_for_PRACK
    \/ add_PRACK
    \/ \E i \in Tids :
         \/ \E ok \in BOOLEAN :
              \/ \E rel \in BOOLEAN : send_reply(i, "1xx", rel, ok)
              \/ \E code \in Final : send_reply(i, code, FALSE, ok)
         \/ \E j \in Tids : receive_ACK(i, j)
         \/ receive_PRACK(i)
         \/ fire_G(i)
         \/ Timer(i)

Spec == Init /\ [][Next]_vars

\* The timer thread fires every armed timer that is not dropped.
FairSpec == Spec /\ \A i \in Tids : WF_vars(Timer(i))

-----------------------------------------------------------------------------
(* Properties.                                                             *)

\* Every timer is in its slot and all else has its type.
TypeOK ==
    /\ method \in AllMethods
    /\ reliable \in BOOLEAN /\ rseq \in BOOLEAN
    /\ pending \in Nat /\ made \in Nat /\ made + pending <= MaxTrans
    /\ tr \in [Tids -> [state : {"absent", "TRYING", "PROCEEDING", "PROCEEDING_REL",
                                 "COMPLETED", "CONFIRMED", "TERMINATED_200", "REMOVED"},
                        timers : [0 .. 2 -> {None, "G", "H", "I", "J"}],
                        reply_status : {None, "1xx"} \cup Final,
                        last_rseq : BOOLEAN]]
    /\ \A i \in Tids : /\ tr[i].timers[0] \in {None, "G", "J"}
                       /\ tr[i].timers[1] \in {None, "H"}
                       /\ tr[i].timers[2] \in {None, "I"}
    /\ sent \in [Tids -> Seq(Final)]
    /\ told \in [Tids -> Seq({"ACK", "noACK"})]

\* No timer outlives the state it was set for: G and H run only while an ACK
\* or PRACK is awaited, I only after the ACK.  J also runs after a reply the
\* transport refused, until a final one is out.
TimersFit ==
    \A i \in Tids :
        LET x == tr[i]
        IN  /\ x.timers[0] = "G" \/ x.timers[1] = "H" =>
                 x.state \in {"PROCEEDING_REL", "COMPLETED", "TERMINATED_200"}
            /\ x.timers[2] = "I" => x.state = "CONFIRMED"
            /\ x.timers[0] = "J" => \/ x.reply_status \notin Final
                                    \/ method # "INVITE" /\ x.state = "COMPLETED"

\* A transaction that was given its final reply has a timer that ends it.
AnsweredEnds ==
    \A i \in Tids : Exists(i) /\ tr[i].reply_status \in Final
        => tr[i].timers[1] = "H" \/ tr[i].timers[2] = "I" \/ tr[i].timers[0] = "J"

\* Two transactions for one request never exist side by side, so its copies
\* and its ACK always find the one the UA works on.  A PRACK is the exception:
\* it is not matched again after the lock was released.
OneTransaction ==
    method # "PRACK" => \A i, j \in Tids : Exists(i) /\ Exists(j) => i = j

\* A peer gets at most one final reply from a transaction.
FinalOnce == \A i \in Tids : Len(sent[i]) <= 1

\* For each final reply the UA is told of the ACK or of its absence, never
\* of both: an ACK stops timer H and timer H forgets the transaction.
AckOrTimeout ==
    /\ \A i \in Tids : Len(told[i]) <= Len(sent[i])
    /\ \A i \in Tids : told[i] # <<>> => tr[i].state = "REMOVED"

\* A transaction that sent its final reply is removed.
AnsweredRemoved == \A i \in Tids : (sent[i] # <<>>) ~> (tr[i].state = "REMOVED")

-----------------------------------------------------------------------------
(* What comments of the code say, and the code does not do.                *)

\* sip_trans.h: last_rseq keeps the RSeq of the reliable 1xx sent last.
LastRseqIsSent ==
    [][\A i \in Tids : send_reply(i, "1xx", TRUE, TRUE) => tr'[i].last_rseq]_vars

=============================================================================
