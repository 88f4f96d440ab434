--------------------------- MODULE UacTransProofs ---------------------------
(***************************************************************************)
(* The remaining handlers of UacTrans, that every step keeps the inductive *)
(* invariant, and the theorems that follow from it.  That a CANCEL finds the*)
(* transaction that waits rests on Highest and Lowest being what their names*)
(* say, which is proved here (OrderHolds) and assumed by name before.      *)
(***************************************************************************)
EXTENDS UacStepProofs, WellFoundedInduction

\* What a leaf with no prover of its own is tried with.
USE SMTT(30), ZenonT(30)

LEMMA AnsweredFields ==
    ASSUME NEW x \in Trans
    PROVE  LET v == Answered(x)
           IN  Same(x, v) /\ v.state = "COMPLETED" /\ v.timers[1] = None /\ v.timers[2] = "K"
<1> DEFINE a == clear_timer(x, "E")
           b == clear_timer(a, "M")
           c == clear_timer(b, "F")
           d == reset_timer(c, "K")
           v == [d EXCEPT !.state = "COMPLETED"]
<1>1. Same(x, a)  BY ClearTimer, TimerNames
<1>2. a \in Trans  BY <1>1 DEF Same
<1> HIDE DEF a
<1>3. Same(a, b)  BY <1>2, ClearTimer, TimerNames
<1>4. b \in Trans  BY <1>3 DEF Same
<1> HIDE DEF b
<1>5. Same(b, c) /\ c.timers[1] = None  BY <1>4, ClearTimer, TimerNames
<1>6. c \in Trans  BY <1>5 DEF Same
<1> HIDE DEF c
<1>7. Same(c, d) /\ d.timers[1] = c.timers[1] /\ d.timers[2] = "K"  BY <1>6, ResetTimer, TimerNames
<1>8. d \in Trans  BY <1>7 DEF Same
<1> HIDE DEF d
<1>9. Same(d, v) /\ v.state = "COMPLETED" /\ v.timers = d.timers  BY <1>8, StateSet, Zenon DEF States
<1>10. v = Answered(x)  BY DEF Answered, d, c, b, a
<1> HIDE DEF v
<1> QED  BY <1>1, <1>3, <1>5, <1>7, <1>9, <1>10 DEF Same

\* What other_final makes of the transaction if it is not sent on.
OtherEnd(x, gone, local) ==
    IF x.state \in Waiting THEN IF gone THEN Removed ELSE Answered(x)
    ELSE IF x.state \notin {"ABANDONED", "TERMINATED"} THEN x
    ELSE IF local THEN Removed ELSE DidReply(x)

OtherEnded(x, v) ==
    /\ Sane(v, FALSE) /\ v.state \notin Waiting
    /\ \/ v.state = "REMOVED" /\ v.next = 0 /\ x.state \notin {"absent", "0"}
       \/ v.next = x.next /\ v.dst = x.dst /\ v.state = x.state
       \/ v.next = x.next /\ v.dst = x.dst /\ v.state = "COMPLETED" /\ x.state \in Waiting

LEMMA OtherEndFields ==
    ASSUME NEW x \in Trans, Sane(x, FALSE), NEW gone \in BOOLEAN, NEW local \in BOOLEAN
    PROVE  OtherEnded(x, OtherEnd(x, gone, local))
<1> DEFINE v == OtherEnd(x, gone, local)
<1>0. \A s \in Waiting : s \notin {"absent", "0"}  BY DEF Waiting
<1>1. \/ v = Removed /\ x.state \notin {"absent", "0"}
      \/ v = Answered(x) /\ x.state \in Waiting
      \/ v = x /\ x.state \notin Waiting
      \/ v = DidReply(x) /\ x.state \notin Waiting
    BY <1>0 DEF OtherEnd
<1> SUFFICES OtherEnded(x, v)  OBVIOUS
<1> HIDE DEF v
<1>2. CASE v = Removed /\ x.state \notin {"absent", "0"}
  <2>1. /\ v \in Trans /\ v.next = 0 /\ v.state = "REMOVED" /\ v.timers[1] = None /\ v.timers[2] = None
      BY <1>2, Fresh
  <2>2. Sane(v, FALSE)  BY <2>1 DEF Sane, Waiting, None
  <2>3. "REMOVED" \notin Waiting  BY DEF Waiting
  <2> QED  BY <1>2, <2>1, <2>2, <2>3, Zenon DEF OtherEnded
<1>3. CASE v = Answered(x) /\ x.state \in Waiting
  <2>1. Same(x, v) /\ v.state = "COMPLETED" /\ v.timers[1] = None /\ v.timers[2] = "K"
      BY <1>3, AnsweredFields
  <2>2. v \in Trans /\ v.next = x.next /\ v.dst = x.dst  BY <2>1 DEF Same
  <2>3. Sane(v, FALSE) /\ "COMPLETED" \notin Waiting  BY <2>1, <2>2 DEF Sane, Waiting, None
  <2> QED  BY <1>3, <2>1, <2>2, <2>3, Zenon DEF OtherEnded
<1>4. CASE v = x /\ x.state \notin Waiting  BY <1>4, Zenon DEF OtherEnded
<1>5. CASE v = DidReply(x) /\ x.state \notin Waiting
  <2>1. /\ v \in Trans /\ v.next = x.next /\ v.dst = x.dst /\ v.state = x.state /\ v.timers = x.timers
      BY <1>5, DidReplyFields
  <2>2. Sane(v, FALSE)  BY <1>5, <2>1 DEF Sane
  <2> QED  BY <1>5, <2>1, <2>2, Zenon DEF OtherEnded
<1> QED  BY <1>1, <1>2, <1>3, <1>4, <1>5

LEMMA OtherEnds ==
    ASSUME IInv, NEW id \in Tids, Exists(id), ~Invite(id), NEW code \in {"2xx", "503", "6xx"},
           NEW local \in BOOLEAN, local => code = "503", NEW gone \in BOOLEAN,
           NEW o, Unmoved(o, id), IF code = "503" THEN o.tr[id].next \notin Targets ELSE o.tr = tr,
           blacklist' \in SUBSET Targets,
           answer' = Mark(answer, id, IF local THEN "local" ELSE code),
           tr' = [o.tr EXCEPT ![id] = OtherEnd(o.tr[id], gone, local)],
           told' = IF o.tr[id].state \in Waiting /\ id[1] = "REQ" THEN Append(told, code) ELSE told,
           UNCHANGED <<method, ticket, wheel, nested>>
    PROVE  IInv' /\ Ends
<1> DEFINE x == o.tr[id]
           v == OtherEnd(x, gone, local)
           c == IF local THEN "local" ELSE code
<1>1. tr[id].dst \in Targets /\ TypesRest  BY AtHand
<1>2. /\ x \in Trans /\ Sane(x, FALSE) /\ o.tr \in [Tids -> Trans] /\ Quiet(tr[id], x)
      /\ \A k \in Tids \ {id} : o.tr[k] = tr[k]
      /\ x.state = tr[id].state
  <2>1. Invite(id) = FALSE  BY DEF Invite
  <2> QED  BY <2>1, Zenon DEF Unmoved
<1>3. tr[id].state \notin {"absent", "REMOVED"}  BY DEF Exists
<1> HIDE DEF x
<1>4. /\ Sane(v, FALSE) /\ v.state \notin Waiting
      /\ \/ v.state = "REMOVED" /\ v.next = 0 /\ x.state \notin {"absent", "0"}
         \/ v.next = x.next /\ v.dst = x.dst /\ v.state = x.state
         \/ v.next = x.next /\ v.dst = x.dst /\ v.state = "COMPLETED" /\ x.state \in Waiting
  <2>1. OtherEnded(x, v)  BY <1>2, OtherEndFields, Zenon
  <2> HIDE DEF v
  <2> QED  BY <2>1, Zenon DEF OtherEnded
<1>5. v \in Trans  BY <1>4 DEF Sane
<1>6. tr' \in [Tids -> Trans] /\ tr'[id] = v /\ \A k \in Tids \ {id} : tr'[k] = tr[k]
  <2>1. tr' = [o.tr EXCEPT ![id] = v]  BY DEF x
  <2> HIDE DEF v
  <2> QED  BY <1>2, <1>5, <2>1
<1> HIDE DEF v
<1>7. Quiet(tr[id], tr'[id])
  <2>1. v.next \in {0, x.next}  BY <1>4
  <2>2. v.state # "absent" /\ (x.state \in Unborn => v.state \in Unborn)
      BY <1>2, <1>3, <1>4 DEF Waiting, Unborn
  <2> QED  BY <1>2, <1>3, <1>4, <1>6, <2>1, <2>2 DEF Quiet
<1>8. tr[id].state # "absent" /\ (tr'[id].state = "0" => tr[id].state = "0") /\ Sane(tr'[id], Invite(id))
  <2>1. Invite(id) = FALSE  BY DEF Invite
  <2> QED  BY <1>2, <1>3, <1>4, <1>6, <2>1, Zenon
<1>9. c \in Answers /\ (code # "503" => c \in {"2xx", "6xx"})  BY DEF Answers
<1>10. /\ answer' \in AnswerSet /\ Elsewhere(answer, answer', {id})
       /\ answer'[<<id, tr[id].dst>>] = c
  <2>1. answer \in AnswerSet /\ answer' = Mark(answer, id, c)  BY <1>1 DEF TypesRest
  <2> HIDE DEF c
  <2> QED  BY <1>1, <1>9, <2>1, MarkFacts
<1> HIDE DEF c
<1>11. code \in Verdicts /\ told \in Seq(Verdicts) /\ told' \in Seq(Verdicts)
  <2>1. code \in Verdicts /\ told \in Seq(Verdicts)  BY <1>1 DEF Verdicts, TypesRest
  <2> QED  BY <2>1, AppendFacts
<1>12. TypesRest'  BY <1>1, <1>10, <1>11, Zenon DEF TypesRest
<1>13. TellsRight(id)
  <2>1. told' = IF x.state \in Waiting /\ id[1] = "REQ" THEN Append(told, code) ELSE told  BY DEF x
  <2> QED  BY <1>2, <1>4, <1>6, <1>11, <2>1, Zenon DEF TellsRight
<1>14. ASSUME NEW i \in Targets, id = Req(i) PROVE Spent(i)'
  <2>1. CASE code = "503"
    <3>1. x.next \notin Targets /\ 0 \notin Targets  BY <2>1, TargetNat DEF x
    <3>2. v.next \notin Targets  BY <1>4, <3>1
    <3> QED  BY <1>6, <1>14, <3>2 DEF Spent
  <2>2. CASE code # "503"
    <3> SUFFICES ASSUME v.next \in Targets, method = "OTHER"
                 PROVE  \/ v.state = "TERMINATED" /\ told' # <<>> /\ told'[1] = "408"
                        \/ v.state = "COMPLETED" /\ answer'[<<Req(i), v.dst>>] \in {"2xx", "6xx"}
        BY <1>6, <1>14 DEF Spent
    <3>1. x = tr[id] /\ 0 \notin Targets  BY <2>2, TargetNat DEF x
    <3>2. v.next = x.next /\ v.dst = x.dst
          /\ (v.state = x.state \/ (v.state = "COMPLETED" /\ x.state \in Waiting))
        BY <1>4, <3>1
    <3>3. answer'[<<Req(i), v.dst>>] \in {"2xx", "6xx"}  BY <1>9, <1>10, <1>14, <2>2, <3>1, <3>2
    <3>4. CASE v.state = "COMPLETED"  BY <3>3, <3>4
    <3>5. CASE v.state = x.state /\ v.state # "COMPLETED"
      <4>1. Spent(i)  BY DEF IInv
      <4>2. x.state = "TERMINATED" /\ told # <<>> /\ told[1] = "408"
          BY <1>4, <1>14, <3>1, <3>2, <3>5, <4>1 DEF Spent
      <4>3. told' = told  BY <1>4, <3>5 DEF x
      <4> QED  BY <3>5, <4>2, <4>3
    <3> QED  BY <3>2, <3>4, <3>5, Zenon
  <2> QED  BY <2>1, <2>2
<1> QED  BY <1>6, <1>7, <1>8, <1>10, <1>12, <1>13, <1>14, QuietStep DEF QuietChange

\* A final reply to another request or to a CANCEL.
LEMMA OtherFinal ==
    ASSUME TargetsOrdered, IInv, NEW id \in Tids, Exists(id), ~Invite(id), NEW code \in {"2xx", "503", "6xx"},
           NEW local \in BOOLEAN, local => code = "503",
           code = "503" => answer[<<id, tr[id].dst>>] \notin {"2xx", "6xx"},
           other_final(id, code, local)
    PROVE  IInv' /\ Ends
<1> DEFINE gone == local \/ tr[id].dst \in Reliable
           c == IF local THEN "local" ELSE code
<1>1. PICK o \in IF code = "503" THEN try_next_ip(id, FALSE) ELSE {Untried} :
        /\ blacklist' = o.blacklist \cup (IF BlTtl /\ code = "503" THEN {tr[id].dst} ELSE {})
        /\ answer' = Mark(o.answer, id, c)
        /\ IF o.ok
           THEN tr' = o.tr /\ UNCHANGED told
           ELSE /\ tr' = [o.tr EXCEPT ![id] = OtherEnd(o.tr[id], gone, local)]
                /\ told' = IF o.tr[id].state \in Waiting /\ id[1] = "REQ" THEN Append(told, code) ELSE told
        /\ UNCHANGED <<method, ticket, wheel, nested>>
    BY Zenon DEF other_final, OtherEnd, Untried
<1>2. /\ tr[id].dst \in Targets /\ TypesRest /\ (id[1] = "REQ" => method = "OTHER")  BY AtHand
<1>3. UNCHANGED <<method, ticket, wheel, nested>>  BY <1>1
<1>4. ASSUME Unmoved(o, id), IF code = "503" THEN o.tr[id].next \notin Targets ELSE o.tr = tr
      PROVE  IInv' /\ Ends
  <2>1. o.ok = FALSE /\ o.answer = answer /\ o.blacklist \in SUBSET Targets  BY <1>4 DEF Unmoved
  <2>2. blacklist' \in SUBSET Targets /\ answer' = Mark(answer, id, c)  BY <1>1, <1>2, <2>1
  <2>3. /\ tr' = [o.tr EXCEPT ![id] = OtherEnd(o.tr[id], gone, local)]
        /\ told' = IF o.tr[id].state \in Waiting /\ id[1] = "REQ" THEN Append(told, code) ELSE told
      BY <1>1, <2>1
  <2>4. gone \in BOOLEAN  OBVIOUS
  <2> HIDE DEF gone
  <2> QED  BY <1>3, <1>4, <2>2, <2>3, <2>4, OtherEnds
<1>5. CASE code # "503"
  <2>1. o = Untried  BY <1>1, <1>5
  <2>2. Unmoved(o, id) /\ o.tr = tr  BY <2>1, UnmovedFacts, Zenon DEF Untried
  <2> QED  BY <1>4, <1>5, <2>2
<1>6. CASE code = "503"
  <2>1. PICK sent \in Candidates(tr[id]) \cup {0} : o = Attempt(id, FALSE, sent)
      BY <1>1, <1>6, Zenon DEF try_next_ip
  <2>2. Stays(o, id, sent)  BY <2>1, AttemptOn, Zenon
  <2>3. CASE sent = 0
    <3>1. Unmoved(o, id)  BY <2>2, <2>3, UnmovedFacts
    <3>2. o.tr[id].next \notin Targets  BY <2>2, <2>3 DEF Stays
    <3> QED  BY <1>4, <1>6, <3>1, <3>2
  <2>4. CASE sent # 0
    <3>1. o.ok  BY <2>2, <2>4, Zenon DEF Stays
    <3>2. tr' = o.tr /\ told' = told  BY <1>1, <3>1
    <3>3. PICK i \in Targets : id = Req(i)  BY <2>2, <2>4 DEF Stays
    <3>4. /\ o.tr \in [Tids -> Trans] /\ \A k \in Tids \ {id} : o.tr[k] = tr[k]
          /\ Sane(o.tr[id], Invite(id)) /\ o.blacklist \in SUBSET Targets
          /\ o.answer \in AnswerSet /\ Elsewhere(answer, o.answer, {id})
          /\ tr[id].next \in Targets /\ o.tr[id].next > tr[id].next /\ o.tr[id].state \in Waiting
        BY <2>2, <2>4 DEF Stays
    <3>5. answer' \in AnswerSet /\ Elsewhere(answer, answer', {id})
      <4>1. {id} \cup {id} = {id} /\ answer' = Mark(o.answer, id, c) /\ c \in Answers
          BY <1>1, Zenon DEF Answers
      <4> HIDE DEF c
      <4> QED  BY <1>2, <3>4, <4>1, MarkAfter
    <3>6. blacklist' \in SUBSET Targets  BY <1>1, <1>2, <3>4, Zenon
    <3>7. TypesRest'  BY <1>2, <1>3, <3>2, <3>5, <3>6, Zenon DEF TypesRest
    <3>8. method = "OTHER" /\ Invite(id) = (method = "INVITE")
        BY <1>2, <3>3, TidCases, Zenon DEF Invite
    <3>9. UNCHANGED <<method, ticket, told, wheel>>  BY <1>3, <3>2
    <3> QED  BY <1>6, <3>2, <3>3, <3>4, <3>5, <3>7, <3>8, <3>9, RevivedStep DEF RevivedChange
  <2> QED  BY <2>3, <2>4
<1> QED  BY <1>5, <1>6, Zenon

-----------------------------------------------------------------------------
LEMMA AbsentSane == Sane(Absent, TRUE) /\ Sane(Absent, FALSE)
<1>1. /\ Absent \in Trans /\ Absent.next = 0 /\ Absent.state = "absent"
      /\ Absent.timers[1] = None /\ Absent.timers[2] = None
    BY Fresh
<1> QED  BY <1>1 DEF Sane, Waiting, None

LEMMA AbsentFacts ==
    ASSUME NEW t, t = [id \in Tids |-> Absent]
    PROVE  /\ t \in [Tids -> Trans]
           /\ \A id \in Tids : t[id].state = "absent" /\ t[id].next = 0 /\ t[id] = Absent
BY Fresh

LEMMA InitHolds == Init => IInv
<1> SUFFICES ASSUME Init PROVE IInv  OBVIOUS
<1>1. tr = [id \in Tids |-> Absent] /\ ticket = 0 /\ told = <<>> /\ wheel = Idle /\ nested = {}
    BY DEF Init
<1>2. /\ tr \in [Tids -> Trans]
      /\ \A id \in Tids : tr[id].state = "absent" /\ tr[id].next = 0 /\ tr[id] = Absent
    BY <1>1, AbsentFacts
<1>3. answer \in AnswerSet  BY DEF Init, AnswerSet, Answers
<1>4. wheel \in [step : {"idle", "cancel", "timeout"}, t : Tids] /\ wheel.step = "idle"
  <2>1. <<"REQ", 1>> \in Tids  BY UacAssumption DEF Tids, Targets
  <2> QED  BY <1>1, <2>1 DEF Idle
<1>5. method \in {"INVITE", "OTHER"} /\ blacklist \in SUBSET Targets
    BY UacAssumption DEF Init
<1>6. TypeOK
  <2>1. ticket \in 0 .. NTargets  BY <1>1, UacAssumption
  <2>2. told \in Seq(Verdicts)  BY <1>1
  <2> QED  BY <1>1, <1>2, <1>3, <1>4, <1>5, <2>1, <2>2 DEF TypeOK
<1>7. Shape(tr, method)
  <2>1. \A id \in Tids : Sane(tr[id], IsInvite(id, method))
      BY <1>2, AbsentSane, Zenon DEF IsInvite
  <2>2. \A i \in Targets : Holder(tr, i) /\ Newest(tr, i)
    <3>1. \A i \in Targets : tr[Req(i)].next = 0 /\ tr[Req(i)].state = "absent"  BY <1>2, TidCases, Zenon
    <3>2. ~(0 > 0) /\ "absent" \notin Waiting  BY DEF Waiting
    <3> QED  BY <3>1, <3>2 DEF Holder, Newest
  <2>3. \A i \in Targets : tr[<<"CANCEL", i>>].next = 0  BY <1>2, TidCases
  <2> QED  BY <1>2, <2>1, <2>2, <2>3 DEF Shape
<1>8. \A i \in Targets : Spent(i)
  <2>1. 0 \notin Targets  BY TargetNat
  <2> QED  BY <1>2, <2>1, TidCases, Zenon DEF Spent
<1>9. ToldRight  BY <1>1 DEF ToldRight
<1> QED  BY <1>1, <1>4, <1>6, <1>7, <1>8, <1>9 DEF IInv

\* The request goes to the first target that takes it, or to none.
LEMMA SendRequest ==
    ASSUME IInv, NEW disable_bl \in BOOLEAN, send_request(disable_bl)
    PROVE  IInv'
<1> DEFINE x == [NewTrans EXCEPT !.disable_bl = disable_bl, !.next = 1]
           C == Candidates(x)
<1>1. ticket = 0 /\ told = <<>> /\ UNCHANGED <<method, wheel, nested>>  BY DEF send_request
<1>2. PICK sent \in C \cup {0} :
             /\ blacklist' = Blacklisted({d \in C : sent = 0 \/ d < sent})
             /\ IF sent = 0
                THEN told' = <<"500">> /\ UNCHANGED <<tr, ticket, answer>>
                ELSE LET id == <<"REQ", sent>>
                         y == [x EXCEPT !.dst = sent, !.next = sent + 1]
                     IN  /\ tr' = [tr EXCEPT ![id] = Started(y, Invite(id))]
                         /\ ticket' = sent
                         /\ answer' = [answer EXCEPT ![<<id, sent>>] = "silent"]
                         /\ UNCHANGED told
    BY Zenon DEF send_request
<1>3. /\ tr \in [Tids -> Trans] /\ tr = [id \in Tids |-> Absent]
      /\ \A id \in Tids : tr[id].state = "absent" /\ tr[id].next = 0 /\ tr[id] = Absent
    BY <1>1, AbsentFacts DEF IInv
<1>4. C \subseteq Targets  BY DEF Candidates
<1>5. blacklist' \in SUBSET Targets  BY <1>2, <1>4 DEF Blacklisted, IInv, TypeOK
<1>6. /\ Shape(tr, method) /\ answer \in AnswerSet /\ nested \in SUBSET Tids
      /\ wheel \in [step : {"idle", "cancel", "timeout"}, t : Tids]
      /\ method \in {"INVITE", "OTHER"}
    BY DEF IInv, TypeOK
<1>7. wheel.step = "idle"
  <2>1. wheel.t \in Tids  BY <1>6
  <2> QED  BY <1>3, <2>1 DEF IInv
<1>8. CASE sent = 0
  <2>1. told' = <<"500">> /\ UNCHANGED <<tr, ticket, answer>>  BY <1>2, <1>8
  <2>2. told' \in Seq(Verdicts) /\ told' # <<>> /\ Len(told') = 1  BY <2>1 DEF Verdicts
  <2>3. Live' = {}  BY <1>3, <2>1 DEF Live, Waiting
  <2>4. ToldRight'  BY <2>2, <2>3 DEF ToldRight
  <2>5. \A i \in Targets : Spent(i)'
    <3>1. 0 \notin Targets  BY TargetNat
    <3> QED  BY <1>3, <2>1, <3>1, TidCases, Zenon DEF Spent
  <2>6. TypeOK'  BY <1>1, <1>5, <1>6, <2>1, <2>2 DEF IInv, TypeOK
  <2>7. Shape(tr, method)'  BY <1>1, <1>6, <2>1
  <2> QED  BY <1>1, <1>3, <1>7, <2>1, <2>4, <2>5, <2>6, <2>7 DEF IInv
<1>9. CASE sent # 0
  <2> DEFINE id == Req(sent)
             y == Moved(x, sent, sent + 1)
             v == Started(y, Invite(id))
  <2>1. sent \in Targets /\ id \in Tids  BY <1>4, <1>9, TidCases, Zenon
  <2>2. /\ tr' = [tr EXCEPT ![id] = v] /\ ticket' = sent
        /\ answer' = [answer EXCEPT ![<<id, sent>>] = "silent"] /\ told' = told
      BY <1>2, <1>9 DEF Req, Moved
  <2>3. x \in Trans /\ x.timers[1] = None /\ x.timers[2] = None
    <3>1. NewTrans \in Trans /\ NewTrans.timers[1] = None /\ NewTrans.timers[2] = None  BY Fresh
    <3>2. 1 \in 0 .. NTargets + 1  BY UacAssumption
    <3> HIDE DEF NewTrans
    <3> QED  BY <3>1, <3>2, Zenon DEF Trans
  <2> HIDE DEF x
  <2>4. sent + 1 \in 0 .. NTargets + 1 /\ sent + 1 > sent /\ sent + 1 > 0 /\ sent \in 0 .. NTargets
      BY <2>1, UacAssumption DEF Targets
  <2>5. /\ y \in Trans /\ y.next = sent + 1 /\ y.timers[1] = None /\ y.timers[2] = None
      BY <2>1, <2>3, <2>4, MovedFields
  <2> HIDE DEF y
  <2>6. /\ Same(y, v) /\ v.state = IF Invite(id) THEN "CALLING" ELSE "TRYING"
        /\ v.timers[1] = IF Invite(id) THEN "B" ELSE "F"
        /\ v.timers[2] \in {None, "M"}
    <3>1. Invite(id) \in BOOLEAN  BY DEF Invite
    <3> QED  BY <2>5, <3>1, StartedFields
  <2> HIDE DEF v
  <2>7. v \in Trans /\ v.next = sent + 1 /\ v.state \in Waiting  BY <2>5, <2>6 DEF Same, Waiting
  <2>8. Sane(v, Invite(id))  BY <2>6, <2>7 DEF Sane, Waiting, None
  <2>9. tr' \in [Tids -> Trans] /\ tr'[id] = v /\ \A k \in Tids \ {id} : tr'[k] = Absent
      BY <1>3, <2>1, <2>2, <2>7, Zenon
  <2>10. Absent.next = 0 /\ Absent.state = "absent" /\ "absent" \notin Waiting  BY Fresh DEF Waiting
  <2>11. \A j \in Targets \ {sent} : tr'[Req(j)].next = 0 /\ tr'[Req(j)].state = "absent"
      BY <2>1, <2>9, <2>10, TidCases, Zenon
  <2>12. Shape(tr', method)
    <3>1. ASSUME NEW k \in Tids PROVE Sane(tr'[k], IsInvite(k, method))
      <4>1. CASE k = id  BY <2>8, <2>9, <4>1 DEF IsInvite, Invite
      <4>2. CASE k # id  BY <2>9, <4>2, AbsentSane, Zenon DEF IsInvite
      <4> QED  BY <4>1, <4>2
    <3>2. \A i \in Targets : tr'[<<"CANCEL", i>>].next = 0  BY <2>1, <2>9, <2>10, TidCases
    <3>3. ASSUME NEW i \in Targets PROVE Holder(tr', i) /\ Newest(tr', i)
      <4>1. CASE i = sent
        <5>1. tr'[Req(i)].next = sent + 1  BY <2>7, <2>9, <4>1
        <5> QED  BY <2>4, <2>10, <2>11, <4>1, <5>1 DEF Holder, Newest, Unborn
      <4>2. CASE i # sent  BY <2>10, <2>11, <4>2 DEF Holder, Newest
      <4> QED  BY <4>1, <4>2
    <3> QED  BY <2>9, <3>1, <3>2, <3>3 DEF Shape
  <2>13. Shape(tr, method)'  BY <1>1, <2>12
  <2>14. id \in Live'  BY <2>1, <2>7, <2>9, TidCases, Zenon DEF Live
  <2>15. ToldRight'  BY <1>1, <2>2, <2>14 DEF ToldRight
  <2>16. ASSUME NEW i \in Targets PROVE Spent(i)'
    <3>1. 0 \notin Targets  BY TargetNat
    <3>2. CASE i = sent  BY <2>7, <2>9, <3>2 DEF Spent
    <3>3. CASE i # sent  BY <2>11, <3>1, <3>3 DEF Spent
    <3> QED  BY <3>2, <3>3
  <2>17. answer' \in AnswerSet  BY <1>6, <2>1, <2>2, AnswerSilent, Zenon
  <2>18. TypeOK'  BY <1>1, <1>5, <1>6, <2>2, <2>4, <2>9, <2>17 DEF IInv, TypeOK
  <2> QED  BY <1>1, <1>7, <1>9, <2>2, <2>13, <2>15, <2>16, <2>18 DEF IInv
<1> QED  BY <1>8, <1>9

LEMMA ReceiveFinal ==
    ASSUME TargetsOrdered, IInv, NEW id \in Tids, NEW code \in Codes, receive_final(id, code)
    PROVE  IInv' /\ Ends
<1>1. PICK was \in {"silent", "1xx", code} :
        /\ Received(id, code, was)
        /\ IF ~Invite(id) THEN other_final(id, code, FALSE)
           ELSE IF code = "2xx" THEN invite_2xx(id) ELSE invite_error(id, code, FALSE)
    BY Zenon DEF receive_final
<1>2. Exists(id) /\ answer[<<id, tr[id].dst>>] = was  BY <1>1 DEF Received
<1>3. code \in {"2xx", "503", "6xx"}  BY DEF Codes
<1>4. CASE ~Invite(id)
  <2>1. code = "503" => answer[<<id, tr[id].dst>>] \notin {"2xx", "6xx"}  BY <1>2
  <2> QED  BY <1>1, <1>2, <1>3, <1>4, <2>1, OtherFinal, Zenon
<1>5. CASE Invite(id) /\ code = "2xx"  BY <1>1, <1>2, <1>5, Invite2xx
<1>6. CASE Invite(id) /\ code # "2xx"
  <2>1. code \in {"503", "6xx"} /\ invite_error(id, code, FALSE)  BY <1>1, <1>3, <1>6, Zenon
  <2> QED  BY <1>2, <1>6, <2>1, InviteError, Zenon
<1> QED  BY <1>4, <1>5, <1>6

LEMMA TransportError ==
    ASSUME TargetsOrdered, IInv, NEW id \in Tids, transport_error(id)
    PROVE  IInv' /\ Ends
<1>1. Exists(id) /\ answer[<<id, tr[id].dst>>] \in {"silent", "local"}
    BY DEF transport_error, Unsendable
<1>2. CASE Invite(id)
  <2>1. invite_error(id, "503", TRUE)  BY <1>2, Zenon DEF transport_error
  <2> QED  BY <1>1, <1>2, <2>1, InviteError, Zenon
<1>3. CASE ~Invite(id)
  <2>1. other_final(id, "503", TRUE)  BY <1>3, Zenon DEF transport_error
  <2>2. answer[<<id, tr[id].dst>>] \notin {"2xx", "6xx"}  BY <1>1
  <2> QED  BY <1>1, <1>3, <2>1, <2>2, OtherFinal, Zenon
<1> QED  BY <1>2, <1>3

LEMMA SameState ==
    ASSUME IInv, UNCHANGED <<method, tr, ticket, answer, told, wheel, nested>>,
           blacklist' \in SUBSET Targets
    PROVE  IInv'
<1>1. ToldRight'
  <2>1. Live' = Live  BY DEF Live
  <2> QED  BY <2>1, ToldKept DEF IInv
<1>2. \A i \in Targets : Spent(i)'  BY DEF IInv, Spent
<1>3. TypeOK'  BY DEF IInv, TypeOK
<1>4. Shape(tr, method)'  BY DEF IInv
<1>5. (wheel.step # "idle" => Invite(wheel.t) /\ tr[wheel.t].state \notin {"absent", "0"})'
    BY DEF IInv, Invite
<1> QED  BY <1>1, <1>2, <1>3, <1>4, <1>5 DEF IInv

\* Every step keeps IInv; one that passes a final reply on ends the wait for
\* it, but for send_request, which had not begun one, and timer C.
LEMMA NextKeeps ==
    ASSUME TargetsOrdered, IInv, [Next]_vars
    PROVE  IInv' /\ (ticket # 0 /\ wheel.step # "timeout" => Ends)
<1> USE DEF Ends
<1>1. CASE \E disable_bl \in BOOLEAN : send_request(disable_bl)
  <2>1. ticket = 0  BY <1>1 DEF send_request
  <2> QED  BY <1>1, <2>1, SendRequest
<1>2. CASE \E refused \in BOOLEAN : ua_cancel(refused)  BY <1>2, UaCancel
<1>3. ASSUME NEW id \in Tids,
             \/ receive_1xx(id)
             \/ \E code \in Codes : receive_final(id, code)
             \/ transport_error(id)
             \/ \E refused \in BOOLEAN : nested_cancel(id, refused)
             \/ Timer(id)
             \/ \E type \in {"A", "E"} : fire_AE(id, type)
      PROVE  IInv' /\ Ends
  <2>1. CASE receive_1xx(id)
    <3>1. told' = told  BY <2>1 DEF receive_1xx
    <3> QED  BY <2>1, <3>1, Receive1xx
  <2>2. CASE \E code \in Codes : receive_final(id, code)  BY <2>2, ReceiveFinal
  <2>3. CASE transport_error(id)  BY <2>3, TransportError
  <2>4. CASE \E refused \in BOOLEAN : nested_cancel(id, refused)  BY <2>4, NestedCancel
  <2>5. CASE \E type \in {"B", "F"} : fire_BF(id, type)  BY <2>5, FireBF
  <2>6. CASE fire_C(id)
    <3>1. told' = told  BY <2>6 DEF fire_C
    <3> QED  BY <2>6, <3>1, FireC
  <2>7. CASE (\E type \in {"D", "K", "L"} : fire_DKL(id, type)) \/ fire_BL(id)
    <3>1. told' = told  BY <2>7 DEF fire_DKL, fire_BL
    <3> QED  BY <2>7, <3>1, FireDKLBL
  <2>8. CASE fire_M(id)
    <3>1. told' = told  BY <2>8 DEF fire_M
    <3> QED  BY <2>8, <3>1, FireM
  <2>9. CASE \E type \in {"A", "E"} : fire_AE(id, type)
    <3>1. UNCHANGED <<method, tr, ticket, answer, told, wheel, nested, blacklist>>
        BY <2>9 DEF fire_AE, vars
    <3>2. blacklist' \in SUBSET Targets  BY <3>1 DEF IInv, TypeOK
    <3> QED  BY <3>1, <3>2, SameState
  <2> QED  BY <1>3, <2>1, <2>2, <2>3, <2>4, <2>5, <2>6, <2>7, <2>8, <2>9 DEF Timer
<1>4. CASE C_timeout
  <2>1. wheel.step = "timeout"  BY <1>4 DEF C_timeout
  <2> QED  BY <1>4, <2>1, CTimeout
<1>5. CASE \E refused \in BOOLEAN : C_cancel(refused)  BY <1>5, CCancel
<1>6. CASE (\E d \in Targets : blacklist_expires(d)) \/ UNCHANGED vars
  <2>1. UNCHANGED <<method, tr, ticket, answer, told, wheel, nested>>
      BY <1>6 DEF blacklist_expires, vars
  <2>2. blacklist' \in SUBSET Targets  BY <1>6 DEF blacklist_expires, vars, IInv, TypeOK
  <2> QED  BY <2>1, <2>2, SameState
<1> QED  BY <1>1, <1>2, <1>3, <1>4, <1>5, <1>6 DEF Next, AfterC

-----------------------------------------------------------------------------
\* A non-empty set of naturals has a least element; one of naturals up to n
\* has a greatest.
LEMMA LeastBy ==
    ASSUME NEW R, IsWellFoundedOn(R, Nat), \A x, y \in Nat : x < y => <<x, y>> \in R,
           NEW T \in SUBSET Nat, T # {}
    PROVE  \E x \in T : \A y \in T : x <= y
<1>1. T \subseteq Nat  OBVIOUS
<1>2. \E x \in T : \A y \in T : ~(<<y, x>> \in R)
    BY ONLY <1>1, IsWellFoundedOn(R, Nat), T # {}, WFMin, Zenon
<1>3. PICK x \in T : \A y \in T : ~(<<y, x>> \in R)  BY <1>2
<1>4. \A y \in T : ~(y < x)  BY <1>3, Zenon
<1> QED  BY <1>4

LEMMA LeastNat ==
    ASSUME NEW T \in SUBSET Nat, T # {}
    PROVE  \E x \in T : \A y \in T : x <= y
<1>1. \A x, y \in Nat : x < y => <<x, y>> \in OpToRel(<, Nat)  BY DEF OpToRel
<1> QED  BY <1>1, NatLessThanWellFounded, LeastBy, Zenon

LEMMA LowestIn ==
    ASSUME NEW C \in SUBSET Targets, C # {}
    PROVE  Lowest(C) \in C /\ \A y \in C : Lowest(C) <= y
<1>1. C \in SUBSET Nat  BY UacAssumption DEF Targets
<1>2. \E x \in C : \A y \in C : x <= y  BY <1>1, LeastNat
<1> QED  BY <1>2 DEF Lowest

LEMMA HighestIn ==
    ASSUME NEW C \in SUBSET Targets, C # {}
    PROVE  Highest(C) \in C /\ \A y \in C : y <= Highest(C)
<1> DEFINE T == {NTargets - x : x \in C}
<1>1. T \in SUBSET Nat
  <2>1. \A x \in C : NTargets - x \in Nat  BY UacAssumption DEF Targets
  <2> QED  BY <2>1
<1>0. T # {}  OBVIOUS
<1>2. PICK n \in T : \A k \in T : n <= k  BY <1>0, <1>1, LeastNat, Zenon
<1>3. PICK x \in C : n = NTargets - x  BY <1>2
<1>4. \A y \in C : x >= y
  <2> TAKE y \in C
  <2>1. n <= NTargets - y  BY <1>2
  <2> QED  BY <1>3, <2>1, UacAssumption DEF Targets
<1>5. \A y \in C : Highest(C) >= y /\ Highest(C) \in C  BY <1>3, <1>4 DEF Highest
<1> QED  BY <1>5, UacAssumption DEF Targets

LEMMA OrderHolds == TargetsOrdered
BY LowestIn, HighestIn DEF TargetsOrdered

-----------------------------------------------------------------------------
LEMMA Inductive == Spec => []IInv
<1>1. IInv /\ [Next]_vars => IInv'  BY NextKeeps, OrderHolds
<1> QED  BY <1>1, InitHolds, PTL DEF Spec

\* The buckets hold transactions in the states of trans_layer.h, each sent
\* to a target, with its three timer slots, whatever is received or expires.
THEOREM TypeCorrect == Spec => []TypeOK
<1>1. IInv => TypeOK  BY DEF IInv
<1> QED  BY <1>1, Inductive, PTL

\* try_next_ip never leaves two transactions of a request waiting for an
\* answer, for any target set and whichever timer or reply calls it.
THEOREM OneWaits == Spec => []OneLive
<1>1. ASSUME IInv PROVE OneLive
  <2>1. \A id \in Live : Live = {id}  BY <1>1, LiveFacts DEF IInv
  <2> QED  BY <2>1 DEF OneLive
<1> QED  BY <1>1, Inductive, PTL

\* Once the UA has its final reply no INVITE is left ringing, unless timer
\* C's timeout() reported a 408 after a fail-over in between.
THEOREM NoneRings == Spec => []Settled
<1>1. ASSUME IInv PROVE Settled
  <2> SUFFICES ASSUME told # <<>>, Live # {} PROVE "408" \in {told[i] : i \in DOMAIN told}
      BY DEF Settled
  <2>1. Has408(told)  BY <1>1 DEF IInv, ToldRight
  <2> QED  BY <2>1 DEF Has408
<1> QED  BY <1>1, Inductive, PTL

\* A final reply to an INVITE is passed to the UA over the one transaction
\* that waits and ends it, timer C's late timeout() apart.
THEOREM FinalEnds == Spec => OneFinal
<1>1. ASSUME IInv, [Next]_vars
      PROVE  [method = "INVITE" /\ told' # told /\ ticket # 0 /\ wheel.step # "timeout"
                => Live # {} /\ Live' = {}]_vars
  <2>1. ticket # 0 /\ wheel.step # "timeout" => Ends  BY <1>1, NextKeeps, OrderHolds, Zenon
  <2> QED  BY <2>1 DEF Ends
<1> QED  BY <1>1, Inductive, PTL DEF Spec, OneFinal

\* find_uac_trans: cancel() on a ticket whose transaction was abandoned for
\* another target finds the transaction that waits now, unless a copy that
\* could be sent nowhere is in the way.
THEOREM CancelFindsWaiting == Spec => []CancelFollowsFailover
<1>1. ASSUME IInv PROVE CancelFollowsFailover
  <2> DEFINE t == <<"REQ", ticket>>
             found == {i \in Targets : LET x == <<"REQ", i>>
                                       IN  Exists(x) /\ tr[x].state # "ABANDONED"}
  <2> SUFFICES ASSUME ticket # 0, told = <<>>, tr[t].state = "ABANDONED",
                      \A id \in Tids : tr[id].state # "0"
               PROVE  ToCancel(t, TRUE) \in Live
      BY Zenon DEF CancelFollowsFailover
  <2>1. Shape(tr, method)  BY <1>1 DEF IInv
  <2>2. Live # {}  BY <1>1 DEF IInv, ToldRight
  <2>3. PICK l \in Targets : Req(l) \in Live /\ tr[Req(l)].state \in Waiting
      BY <2>1, <2>2, LiveFacts
  <2>4. l \in found  BY <2>3 DEF Exists, Waiting, Req
  <2>5. found \in SUBSET Targets  OBVIOUS
  <2>6. Highest(found) \in found /\ l <= Highest(found)  BY <2>4, <2>5, HighestIn, Zenon
  <2>7. ToCancel(t, TRUE) = Req(Highest(found))  BY <2>4 DEF ToCancel, Req
  <2>8. Highest(found) \in Targets /\ tr[Req(Highest(found))].state \notin {"absent", "REMOVED"}
      BY <2>6 DEF Exists, Req
  <2> HIDE DEF found
  <2>9. Highest(found) = l
    <3>1. tr[Req(Highest(found))].state \notin Unborn  BY <2>8, TidCases, Zenon DEF Unborn
    <3>2. Newest(tr, l)  BY <2>1 DEF Shape
    <3>3. ~(Highest(found) > l)  BY <2>3, <2>8, <3>1, <3>2, TargetNat DEF Newest
    <3> QED  BY <2>6, <2>8, <3>3, TargetNat
  <2> QED  BY <2>3, <2>7, <2>9, Zenon
<1> QED  BY <1>1, Inductive, PTL

\* A request other than INVITE gets a second final reply only after a
\* timeout: a 503 that comes in after it sends the request on.
THEOREM OtherOnce == Spec => []SecondAfterTimeout
<1>1. IInv => SecondAfterTimeout  BY DEF IInv, ToldRight, SecondAfterTimeout
<1> QED  BY <1>1, Inductive, PTL
=============================================================================
