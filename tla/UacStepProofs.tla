--------------------------- MODULE UacStepProofs ---------------------------
(***************************************************************************)
(* The handlers that move between transactions of a request keep the       *)
(* invariant of UacBucketProofs: timer C and its two late steps, CANCEL,   *)
(* fail-over at timer M, and an error reply to an INVITE.                  *)
(***************************************************************************)
EXTENDS UacBucketProofs

\* What a leaf with no prover of its own is tried with.
USE SMTT(30), ZenonT(30)

LEMMA InviteSpent == ASSUME method' = "INVITE" PROVE \A i \in Targets : Spent(i)'
BY DEF Spent

\* Timer C takes the transaction to the wheel's next steps.
LEMMA FireC ==
    ASSUME IInv, NEW id \in Tids, fire_C(id)
    PROVE  IInv'
<1> DEFINE v == clear_timer(tr[id], "C")
<1>1. /\ Shape(tr, method) /\ tr \in [Tids -> Trans] /\ tr[id] \in Trans
      /\ Sane(tr[id], Invite(id)) /\ TypesRest
    BY AtHand
<1>2. tr[id].timers[2] = "C"  BY TimerNames, ArmedSlot DEF fire_C
<1>3. Invite(id) /\ tr[id].state \in Waiting  BY <1>1, <1>2 DEF Sane
<1>4. tr' = [tr EXCEPT ![id] = v] /\ wheel' = [step |-> "cancel", t |-> id]  BY DEF fire_C
<1>5. UNCHANGED <<method, ticket, blacklist, answer, told, nested>>  BY DEF fire_C
<1>6. Same(tr[id], v) /\ v.state = tr[id].state /\ v.timers[1] = tr[id].timers[1] /\ v.timers[2] = None
    BY <1>1, TimerNames, ClearTimer
<1> HIDE DEF v
<1>7. v \in Trans /\ v.next = tr[id].next /\ Sane(v, Invite(id))
    BY <1>1, <1>3, <1>6 DEF Same, Sane, None
<1>8. tr' \in [Tids -> Trans] /\ tr'[id] = v /\ \A k \in Tids \ {id} : tr'[k] = tr[k]
    BY <1>1, <1>4, <1>7
<1>9. IsInvite(id, method) /\ IsInvite(id, method) = Invite(id) /\ method = "INVITE"
    BY <1>3 DEF IsInvite, Invite
<1>10. Quiet(tr[id], tr'[id])  BY <1>6, <1>7, <1>8 DEF Quiet
<1>11. Shape(tr', method)
  <2>1. Sane(tr'[id], IsInvite(id, method))  BY <1>7, <1>8, <1>9, Zenon
  <2> QED  BY <1>1, <1>8, <1>10, <2>1, QuietKeeps
<1>12. Live' = Live  BY <1>6, <1>8, LiveSame
<1>13. ToldRight'  BY <1>5, <1>12, ToldKept DEF IInv
<1>14. ticket # 0
  <2>1. Absent.state = "absent"  BY Fresh
  <2> QED  BY <1>3, <2>1 DEF IInv, Waiting
<1>15. \A i \in Targets : Spent(i)'  BY <1>5, <1>9, InviteSpent
<1>16. wheel'.step = "cancel" /\ wheel'.t = id  BY <1>4
<1>17. TypeOK'  BY <1>4, <1>5, <1>8 DEF IInv, TypeOK
<1>18. tr'[wheel'.t].state \notin {"absent", "0"}  BY <1>3, <1>6, <1>8, <1>16 DEF Waiting
<1>19. Invite(wheel.t)'  BY <1>3, <1>5, <1>16 DEF Invite
<1> QED  BY <1>5, <1>11, <1>13, <1>14, <1>15, <1>17, <1>18, <1>19 DEF IInv

\* timeout() after timer C: whatever became of the transaction meanwhile.
LEMMA CTimeout ==
    ASSUME IInv, C_timeout
    PROVE  IInv'
<1> DEFINE id == wheel.t
           y == [reset_all_timers(tr[id]) EXCEPT !.state = "TERMINATED"]
           w == IF tr[id].disable_bl THEN Removed ELSE reset_timer(y, "BL")
<1>0. id \in Tids /\ wheel.step # "idle"  BY DEF IInv, TypeOK, C_timeout
<1>1. /\ Shape(tr, method) /\ tr \in [Tids -> Trans] /\ tr[id] \in Trans
      /\ Sane(tr[id], Invite(id)) /\ Invite(id) \in BOOLEAN /\ TypesRest
    BY <1>0, AtHand
<1>2. Invite(id) /\ tr[id].state \notin {"absent", "0"}  BY <1>0 DEF IInv
<1>3. method = "INVITE" /\ id[1] = "REQ" /\ IsInvite(id, method) = Invite(id)
    BY <1>2 DEF Invite, IsInvite
<1>4. UNCHANGED <<method, ticket, blacklist, answer, nested>> /\ wheel' = Idle  BY DEF C_timeout
<1>5. wheel' \in [step : {"idle", "cancel", "timeout"}, t : Tids] /\ wheel'.step = "idle"
  <2>1. <<"REQ", 1>> \in Tids  BY UacAssumption DEF Tids, Targets
  <2> QED  BY <1>4, <2>1 DEF Idle
<1>6. \A i \in Targets : Spent(i)'  BY <1>3, <1>4, InviteSpent
<1>7. ticket # 0
  <2>1. Absent.state = "absent"  BY Fresh
  <2> QED  BY <1>0, <1>2, <2>1 DEF IInv
<1>8. CASE Exists(id)
  <2>1. tr' = [tr EXCEPT ![id] = w] /\ told' = Append(told, "408")
      BY <1>3, <1>8 DEF C_timeout, timeout
  <2> HIDE DEF id
  <2>2. /\ w \in Trans /\ w.timers[1] = None /\ w.timers[2] \in {None, "BL"}
        /\ \/ w = Removed
           \/ w.state = "TERMINATED" /\ w.next = tr[id].next
      BY <1>1, TimedOut
  <2> HIDE DEF w
  <2>3. tr' \in [Tids -> Trans] /\ tr'[id] = w /\ \A k \in Tids \ {id} : tr'[k] = tr[k]
      BY <1>0, <1>1, <2>1, <2>2
  <2>4. /\ w.state \in States \ (Waiting \cup {"absent"}) /\ w.timers[2] \notin {"C", "M"}
        /\ w.state = "REMOVED" => w.next = 0 /\ w.timers[1] = None /\ w.timers[2] = None
      BY <2>2, Fresh DEF States, Waiting, None
  <2>5. Sane(w, Invite(id))
    <3>1. w.timers[1] \in {None, tr[id].timers[1]}  BY <2>2
    <3> QED  BY <1>1, <2>2, <2>4, <3>1, Over
  <2>6. Quiet(tr[id], tr'[id])
    <3>1. tr[id].state \notin Unborn  BY <1>2, <1>8 DEF Exists, Unborn
    <3> QED  BY <1>2, <2>2, <2>3, <2>4, <3>1, Fresh DEF Quiet
  <2>7. Sane(tr'[id], IsInvite(id, method))  BY <1>3, <2>3, <2>5
  <2>8. Shape(tr', method)  BY <1>0, <1>1, <2>3, <2>6, <2>7, QuietKeeps
  <2>9. told \in Seq(Verdicts) /\ "408" \in Verdicts  BY <1>1 DEF TypesRest, Verdicts
  <2>10. told' \in Seq(Verdicts)  BY <2>1, <2>9, AppendFacts
  <2>11. ToldRight'  BY <1>3, <1>4, <2>1, <2>9, ToldLate
  <2>12. TypeOK'  BY <1>4, <1>5, <2>3, <2>10 DEF IInv, TypeOK
  <2> QED  BY <1>4, <1>5, <1>6, <1>7, <2>8, <2>11, <2>12 DEF IInv
<1>9. CASE ~Exists(id)
  <2>1. UNCHANGED <<tr, told>>  BY <1>9 DEF C_timeout
  <2>2. Live' = Live  BY <2>1 DEF Live
  <2>3. ToldRight'  BY <1>4, <2>1, <2>2, ToldKept DEF IInv
  <2>4. TypeOK'  BY <1>4, <1>5, <2>1 DEF IInv, TypeOK
  <2>5. Shape(tr, method)'  BY <1>1, <1>4, <2>1
  <2> QED  BY <1>4, <1>5, <1>6, <1>7, <2>3, <2>4, <2>5 DEF IInv
<1> QED  BY <1>8, <1>9

LEMMA ToCancelIn ==
    ASSUME TargetsOrdered, NEW id \in Tids, NEW in_dialog \in BOOLEAN, ToCancel(id, in_dialog) # <<>>
    PROVE  ToCancel(id, in_dialog) \in Tids
<1> DEFINE found == {i \in Targets : LET x == <<"REQ", i>>
                                     IN  Exists(x) /\ tr[x].state # "ABANDONED"}
<1>1. found \in SUBSET Targets  OBVIOUS
<1>2. found # {} => Highest(found) \in Targets  BY <1>1, Zenon DEF TargetsOrdered
<1>3. \/ ToCancel(id, in_dialog) = id
      \/ found # {} /\ ToCancel(id, in_dialog) = <<"REQ", Highest(found)>>
    BY DEF ToCancel
<1> HIDE DEF found
<1> QED  BY <1>2, <1>3 DEF Tids

\* What cancel() leaves behind, whoever calls it.
AfterCancel ==
    /\ Shape(tr, method) /\ answer \in AnswerSet /\ told \in Seq(Verdicts)
    /\ ToldRight /\ \A i \in Targets : Spent(i)
    /\ ticket = 0 => tr = [id \in Tids |-> Absent]

LEMMA CancelStep ==
    ASSUME TargetsOrdered, IInv, NEW id \in Tids, NEW in_dialog \in BOOLEAN, NEW refused \in BOOLEAN,
           cancel(id, in_dialog, refused), UNCHANGED <<method, ticket>>
    PROVE  /\ AfterCancel' /\ Ends
           /\ \A k \in Tids : tr'[k].state \in {"absent", "0"} => tr[k].state \in {"absent", "0"}
<1> DEFINE t == ToCancel(id, in_dialog)
           c == <<"CANCEL", t[2]>>
           none == \/ t = <<>> \/ tr[t].canceled \/ ~Invite(t)
                   \/ tr[t].state \notin {"CALLING", "PROCEEDING"}
                   \/ tr[t].state = "PROCEEDING" /\ refused
<1>0. /\ Shape(tr, method) /\ tr \in [Tids -> Trans] /\ answer \in AnswerSet
      /\ told \in Seq(Verdicts) /\ ToldRight
    BY DEF IInv, TypeOK
<1>1. CASE none
  <2>1. UNCHANGED <<tr, told, answer>>  BY <1>1, Zenon DEF cancel
  <2>2. Live' = Live  BY <2>1 DEF Live
  <2>3. ToldRight'  BY <1>0, <2>1, <2>2, ToldKept
  <2>4. \A i \in Targets : Spent(i)'  BY <2>1 DEF IInv, Spent
  <2>5. Shape(tr, method)'  BY <1>0, <2>1
  <2>6. (ticket = 0 => tr = [k \in Tids |-> Absent])'  BY <2>1 DEF IInv
  <2> QED  BY <1>0, <2>1, <2>3, <2>4, <2>5, <2>6 DEF AfterCancel, Ends
<1>2. CASE ~none
  <2>1. t \in Tids /\ Invite(t) /\ tr[t].state \in {"CALLING", "PROCEEDING"}
      BY <1>2, ToCancelIn
  <2>2. /\ tr[t] \in Trans /\ Sane(tr[t], Invite(t)) /\ tr[t].dst \in Targets  BY <2>1, AtHand, Zenon
  <2>3. method = "INVITE" /\ t[1] = "REQ" /\ IsInvite(t, method) = Invite(t)
      BY <2>1 DEF Invite, IsInvite
  <2>4. \A i \in Targets : Spent(i)'  BY <2>3, InviteSpent
  <2>5. ticket # 0
    <3>1. Absent.state = "absent"  BY Fresh
    <3> QED  BY <2>1, <3>1 DEF IInv
  <2>6. CASE tr[t].state = "CALLING"
    <3> DEFINE x == clear_timer(tr[t], "M")
               y == clear_timer(x, "A")
               z == [y EXCEPT !.state = "ABANDONED"]
               v == [z EXCEPT !.disable_bl = TRUE]
    <3>1. tr' = [tr EXCEPT ![t] = v] /\ told' = Append(told, "487") /\ answer' = answer
        BY <1>2, <2>6 DEF cancel, Abandoned
    <3> HIDE DEF t
    <3>2. Same(tr[t], x) /\ x.timers[1] = tr[t].timers[1] /\ x.timers[2] = None
        BY <2>2, ClearTimer, TimerNames
    <3>3. x \in Trans  BY <3>2 DEF Same
    <3> HIDE DEF x
    <3>4. Same(x, y) /\ y.timers[1] = x.timers[1] /\ y.timers[2] = x.timers[2]
        BY <3>3, ClearTimer, TimerNames
    <3>5. y \in Trans  BY <3>4, Zenon DEF Same
    <3> HIDE DEF y
    <3>6. Same(y, z) /\ z.state = "ABANDONED" /\ z.timers = y.timers  BY <3>5, StateSet, Zenon DEF States
    <3>7. z \in Trans  BY <3>6 DEF Same
    <3> HIDE DEF z
    <3>8. v \in Trans /\ v.state = z.state /\ v.timers = z.timers /\ v.next = z.next
        BY <3>7, Zenon DEF Trans
    <3> HIDE DEF v
    <3>9. /\ v.state = "ABANDONED" /\ v.next = tr[t].next /\ v.timers[1] = tr[t].timers[1]
          /\ v.timers[2] = None
        BY <3>2, <3>4, <3>6, <3>8 DEF Same
    <3>10. Sane(v, Invite(t))
      <4>1. /\ v.state \in States \ (Waiting \cup {"absent"}) /\ v.timers[2] \notin {"C", "M"}
            /\ v.state # "REMOVED" /\ v.timers[1] \in {None, tr[t].timers[1]}
          BY <3>9 DEF States, Waiting, None
      <4>2. Invite(t) \in BOOLEAN  BY DEF Invite
      <4> QED  BY <2>2, <3>8, <4>1, <4>2, Over
    <3>11. tr' \in [Tids -> Trans] /\ tr'[t] = v /\ \A k \in Tids \ {t} : tr'[k] = tr[k]
        BY <1>0, <2>1, <3>1, <3>8, Zenon
    <3>12. Quiet(tr[t], tr'[t])  BY <2>6, <3>9, <3>11 DEF Quiet, Waiting, Unborn
    <3>13. Sane(tr'[t], IsInvite(t, method))  BY <2>3, <3>10, <3>11
    <3>14. Shape(tr', method)  BY <1>0, <2>1, <3>11, <3>12, <3>13, QuietKeeps
    <3>15. Live = {t}
      <4>1. t \in Live  BY <2>1, <2>3, <2>6 DEF Live, Waiting
      <4> QED  BY <1>0, <4>1, LiveFacts
    <3>16. Live' = {}  BY <3>9, <3>11, <3>15 DEF Live, Waiting
    <3>17. "487" \in Verdicts  BY DEF Verdicts
    <3>18. ToldRight'  BY <1>0, <3>1, <3>15, <3>16, <3>17, ToldEnded, Zenon
    <3>19. told' \in Seq(Verdicts)  BY <1>0, <3>1, <3>17, AppendFacts
    <3>20. \A k \in Tids : tr'[k].state \in {"absent", "0"} => tr[k].state \in {"absent", "0"}
        BY <3>9, <3>11
    <3> QED  BY <1>0, <2>4, <2>5, <3>1, <3>14, <3>15, <3>16, <3>18, <3>19, <3>20 DEF AfterCancel, Ends
  <2>7. CASE tr[t].state = "PROCEEDING"
    <3>1. PICK garbage \in BOOLEAN :
            /\ tr' = [tr EXCEPT ![t].canceled = TRUE,
                               ![c] = Started([NewTrans EXCEPT !.dst = tr[t].dst,
                                                               !.disable_bl = garbage], FALSE)]
            /\ answer' = [answer EXCEPT ![<<c, tr[t].dst>>] = "silent"]
            /\ UNCHANGED told
        BY <1>2, <2>7 DEF cancel
    <3> HIDE DEF t
    <3>2. PICK i \in Targets : t = Req(i)  BY <2>1, <2>3, TidCases
    <3>3. c = <<"CANCEL", i>>  BY <3>2 DEF Req
    <3>4. c \in Tids /\ c # t  BY <3>2, <3>3, TidCases
    <3> HIDE DEF c
    <3> DEFINE u == [tr[t] EXCEPT !.canceled = TRUE]
               n == [tr EXCEPT ![t] = u]
               b == [NewTrans EXCEPT !.dst = tr[t].dst, !.disable_bl = garbage]
               v == Started(b, FALSE)
    <3>5. tr' = [n EXCEPT ![c] = v] /\ answer' = [answer EXCEPT ![<<c, tr[t].dst>>] = "silent"]
          /\ told' = told
        BY <1>0, <2>1, <3>1
    <3>6. u \in Trans /\ u.state = tr[t].state /\ u.timers = tr[t].timers /\ u.next = tr[t].next
        BY <2>2, Zenon DEF Trans
    <3> HIDE DEF u
    <3>7. n \in [Tids -> Trans] /\ n[t] = u /\ \A k \in Tids \ {t} : n[k] = tr[k]
        BY <1>0, <2>1, <3>6
    <3> HIDE DEF n
    <3>8. Shape(n, method)
      <4>1. Sane(n[t], IsInvite(t, method))  BY <2>2, <2>3, <3>6, <3>7 DEF Sane
      <4>2. Quiet(tr[t], n[t])  BY <3>6, <3>7 DEF Quiet
      <4> QED  BY <1>0, <2>1, <3>7, <4>1, <4>2, QuietKeeps
    <3>9. b \in Trans /\ b.next = 0 /\ b.timers[1] = None /\ b.timers[2] = None
      <4>1. NewTrans \in Trans /\ NewTrans.next = 0 /\ NewTrans.timers[1] = None /\ NewTrans.timers[2] = None
          BY Fresh
      <4> HIDE DEF NewTrans
      <4> QED  BY <2>2, <4>1, Zenon DEF Trans
    <3> HIDE DEF b
    <3>10. Same(b, v) /\ v.state = "TRYING" /\ v.timers[1] = "F"
           /\ v.timers[2] = IF b.next \in Targets THEN "M" ELSE b.timers[2]
        BY <3>9, StartedFields, Zenon
    <3> HIDE DEF v
    <3>11. v \in Trans /\ v.next = 0 /\ v.timers[2] = None
      <4>1. 0 \notin Targets  BY TargetNat
      <4> QED  BY <3>9, <3>10, <4>1 DEF Same
    <3>12. Sane(v, FALSE)  BY <3>10, <3>11 DEF Sane, Waiting, None
    <3>13. tr' \in [Tids -> Trans] /\ tr'[c] = v /\ \A k \in Tids \ {c} : tr'[k] = n[k]
        BY <3>4, <3>5, <3>7, <3>11
    <3>14. Shape(tr', method)  BY <3>3, <3>8, <3>11, <3>12, <3>13, CancelKeeps, Zenon
    <3>15. \A k \in Tids : k # c => tr'[k].state = tr[k].state  BY <3>6, <3>7, <3>13
    <3>16. Live' = Live
      <4>1. c[1] # "REQ"  BY <3>3
      <4> QED  BY <3>15, <4>1, LiveSame
    <3>17. ToldRight'  BY <1>0, <3>5, <3>16, ToldKept
    <3>18. answer' \in AnswerSet  BY <1>0, <2>2, <3>4, <3>5 DEF AnswerSet, Answers
    <3>19. \A k \in Tids : tr'[k].state \in {"absent", "0"} => tr[k].state \in {"absent", "0"}
        BY <3>10, <3>13, <3>15
    <3> QED  BY <1>0, <2>4, <2>5, <3>5, <3>14, <3>17, <3>18, <3>19, Zenon DEF AfterCancel, Ends
  <2> QED  BY <2>1, <2>6, <2>7
<1> QED  BY <1>1, <1>2

\* A caller of cancel() that leaves the rest as it was, the wheel's step apart.
LEMMA CancelRest ==
    ASSUME IInv, AfterCancel', UNCHANGED <<method, ticket, blacklist>>,
           wheel' \in [step : {"idle", "cancel", "timeout"}, t : Tids],
           nested' \in SUBSET Tids,
           wheel'.step # "idle" => wheel.step # "idle" /\ wheel'.t = wheel.t,
           \A k \in Tids : tr'[k].state \in {"absent", "0"} => tr[k].state \in {"absent", "0"}
    PROVE  IInv'
<1>1. (wheel.step # "idle" => Invite(wheel.t) /\ tr[wheel.t].state \notin {"absent", "0"})'
  <2>1. wheel.t \in Tids  BY DEF IInv, TypeOK
  <2> QED  BY <2>1 DEF IInv, Invite
<1>2. tr' \in [Tids -> Trans]  BY DEF AfterCancel, Shape
<1>3. TypeOK'  BY <1>2 DEF IInv, TypeOK, AfterCancel
<1> QED  BY <1>1, <1>3 DEF IInv, AfterCancel

LEMMA UaCancel ==
    ASSUME TargetsOrdered, IInv, NEW refused \in BOOLEAN, ua_cancel(refused)
    PROVE  IInv' /\ Ends
<1>1. <<"REQ", ticket>> \in Tids  BY DEF IInv, TypeOK, ua_cancel, Tids, Targets
<1>2. /\ cancel(<<"REQ", ticket>>, TRUE, refused)
      /\ UNCHANGED <<method, ticket, blacklist, wheel, nested>>
    BY Zenon DEF ua_cancel
<1>3. /\ AfterCancel' /\ Ends
      /\ \A k \in Tids : tr'[k].state \in {"absent", "0"} => tr[k].state \in {"absent", "0"}
    BY <1>1, <1>2, CancelStep, Zenon
<1>4. wheel \in [step : {"idle", "cancel", "timeout"}, t : Tids] /\ nested \in SUBSET Tids
    BY DEF IInv, TypeOK
<1> QED  BY <1>2, <1>3, <1>4, CancelRest

LEMMA NestedCancel ==
    ASSUME TargetsOrdered, IInv, NEW id \in Tids, NEW refused \in BOOLEAN, nested_cancel(id, refused)
    PROVE  IInv' /\ Ends
<1>1. /\ cancel(id, FALSE, refused) /\ nested' = nested \ {id}
      /\ UNCHANGED <<method, ticket, blacklist, wheel>>
    BY Zenon DEF nested_cancel
<1>2. /\ AfterCancel' /\ Ends
      /\ \A k \in Tids : tr'[k].state \in {"absent", "0"} => tr[k].state \in {"absent", "0"}
    BY <1>1, CancelStep, Zenon
<1>3. wheel \in [step : {"idle", "cancel", "timeout"}, t : Tids] /\ nested \in SUBSET Tids
    BY DEF IInv, TypeOK
<1> QED  BY <1>1, <1>2, <1>3, CancelRest

LEMMA CCancel ==
    ASSUME TargetsOrdered, IInv, NEW refused \in BOOLEAN, C_cancel(refused)
    PROVE  IInv' /\ Ends
<1>1. /\ cancel(wheel.t, FALSE, refused) /\ wheel' = [wheel EXCEPT !.step = "timeout"]
      /\ wheel.step = "cancel" /\ UNCHANGED <<method, ticket, blacklist, nested>>
    BY Zenon DEF C_cancel
<1>2. /\ wheel \in [step : {"idle", "cancel", "timeout"}, t : Tids] /\ wheel.t \in Tids
      /\ nested \in SUBSET Tids
    BY DEF IInv, TypeOK
<1>3. /\ wheel' \in [step : {"idle", "cancel", "timeout"}, t : Tids] /\ wheel'.t = wheel.t
    BY <1>1, <1>2
<1>4. /\ AfterCancel' /\ Ends
      /\ \A k \in Tids : tr'[k].state \in {"absent", "0"} => tr[k].state \in {"absent", "0"}
    BY <1>1, <1>2, CancelStep, Zenon
<1> QED  BY <1>1, <1>2, <1>3, <1>4, CancelRest

-----------------------------------------------------------------------------
LEMMA AbandonedFields ==
    ASSUME NEW x \in Trans
    PROVE  LET v == Abandoned(x)
           IN  /\ Same(x, v) /\ v.state = "ABANDONED"
               /\ v.timers[1] = x.timers[1] /\ v.timers[2] = x.timers[2]
<1> DEFINE y == clear_timer(x, "A")
           v == [y EXCEPT !.state = "ABANDONED"]
<1>1. Same(x, y) /\ y.timers[1] = x.timers[1] /\ y.timers[2] = x.timers[2]
    BY ClearTimer, TimerNames
<1>2. y \in Trans  BY <1>1 DEF Same
<1>3. v = Abandoned(x)  BY DEF Abandoned
<1> HIDE DEF y
<1>4. Same(y, v) /\ v.state = "ABANDONED" /\ v.timers = y.timers  BY <1>2, StateSet, Zenon DEF States
<1> QED  BY <1>1, <1>3, <1>4, Zenon DEF Same

LEMMA AnswerSilent ==
    ASSUME NEW id \in Tids, NEW d \in Targets, answer \in AnswerSet
    PROVE  LET b == [answer EXCEPT ![<<id, d>>] = "silent"]
           IN  b \in AnswerSet /\ Elsewhere(answer, b, {id})
BY DEF AnswerSet, Elsewhere, Answers

\* try_next_ip on the transaction itself.
Stays(o, id, sent) ==
    /\ o.ok = (sent # 0) /\ o.tr \in [Tids -> Trans]
    /\ \A k \in Tids \ {id} : o.tr[k] = tr[k]
    /\ Sane(o.tr[id], Invite(id)) /\ o.blacklist \in SUBSET Targets
    /\ o.answer \in AnswerSet /\ Elsewhere(answer, o.answer, {id})
    /\ IF sent = 0
       THEN /\ o.answer = answer /\ o.tr[id].state = tr[id].state
            /\ o.tr[id].next \notin Targets /\ Quiet(tr[id], o.tr[id])
            /\ o.tr[id].timers[1] = tr[id].timers[1] /\ o.tr[id].timers[2] = None
       ELSE /\ tr[id].next \in Targets /\ o.tr[id].next > tr[id].next
            /\ o.tr[id].state \in Waiting /\ \E i \in Targets : id = Req(i)

LEMMA AttemptOn ==
    ASSUME TargetsOrdered, IInv, NEW id \in Tids, NEW use_new \in BOOLEAN,
           NEW sent \in Candidates(tr[id]) \cup {0}, ~use_new \/ Candidates(tr[id]) = {}
    PROVE  Stays(Attempt(id, use_new, sent), id, sent)
<1> DEFINE o == Attempt(id, use_new, sent)
<1>1. /\ Shape(tr, method) /\ tr[id] \in Trans /\ Sane(tr[id], Invite(id))
      /\ Invite(id) \in BOOLEAN /\ TypesRest
    BY AtHand
<1>2. /\ o.ok = (sent # 0) /\ o.tr \in [Tids -> Trans]
      /\ \A k \in Tids \ {id} : o.tr[k] = tr[k]
      /\ SentOn(tr[id], o.tr[id], sent, Invite(id))
      /\ o.answer = IF sent = 0 THEN answer
                    ELSE [answer EXCEPT ![<<id, sent>>] = "silent"]
      /\ o.blacklist \subseteq blacklist \cup Targets
    BY <1>1, AttemptStays
<1> SUFFICES Stays(o, id, sent)  OBVIOUS
<1> HIDE DEF o
<1>3. o.blacklist \in SUBSET Targets /\ answer \in AnswerSet  BY <1>1, <1>2 DEF TypesRest
<1>4. Sane(o.tr[id], Invite(id))
  <2>1. CASE sent = 0
    <3>1. /\ o.tr[id] \in Trans /\ o.tr[id].state = tr[id].state /\ o.tr[id].timers[2] = None
          /\ o.tr[id].timers[1] = tr[id].timers[1]
          /\ o.tr[id].next = IF tr[id].next > 0 THEN NTargets + 1 ELSE 0
        BY <1>2, <2>1, Zenon DEF SentOn
    <3>2. Sane(tr[id], Invite(id))  BY <1>1, Zenon
    <3> QED  BY <3>1, <3>2 DEF Sane, None
  <2>2. CASE sent # 0  BY <1>1, <1>2, <2>2, Zenon DEF SentOn, Sane, None, Waiting
  <2> QED  BY <2>1, <2>2, Zenon
<1>5. CASE sent = 0
  <2>1. Elsewhere(answer, answer, {id})  BY DEF Elsewhere
  <2>2. tr[id].next \in 0 .. NTargets + 1  BY <1>1 DEF Trans
  <2>3. /\ o.tr[id].state = tr[id].state /\ o.tr[id].timers[1] = tr[id].timers[1]
        /\ o.tr[id].timers[2] = None
        /\ o.tr[id].next = IF tr[id].next > 0 THEN NTargets + 1 ELSE 0
      BY <1>2, <1>5 DEF SentOn
  <2>4. o.tr[id].next \notin Targets  BY <2>3, UacAssumption DEF Targets
  <2>5. Quiet(tr[id], o.tr[id])  BY <2>2, <2>3, UacAssumption DEF Quiet
  <2> QED  BY <1>2, <1>3, <1>4, <1>5, <2>1, <2>3, <2>4, <2>5, Zenon DEF Stays
<1>6. CASE sent # 0
  <2>1. sent \in Candidates(tr[id])  BY <1>6
  <2>2. /\ tr[id].next \in Targets /\ (\E i \in Targets : id = Req(i))
        /\ sent \in Targets /\ sent >= tr[id].next
      BY <1>1, <2>1, CandidateFacts
  <2>3. o.answer \in AnswerSet /\ Elsewhere(answer, o.answer, {id})
      BY <1>2, <1>3, <1>6, <2>2, AnswerSilent, Zenon
  <2>4. o.tr[id].next = sent + 1 /\ o.tr[id].state \in Waiting
      BY <1>2, <1>6 DEF SentOn, Waiting
  <2>5. o.tr[id].next > tr[id].next  BY <2>2, <2>4, TargetNat
  <2> QED  BY <1>2, <1>3, <1>4, <1>6, <2>2, <2>3, <2>4, <2>5 DEF Stays
<1> QED  BY <1>5, <1>6

\* try_next_ip on a copy, which is that of target k.
Forks(o, i, k, sent) ==
    /\ o.ok = (sent # 0) /\ o.tr \in [Tids -> Trans] /\ o.blacklist \in SUBSET Targets
    /\ tr[Req(i)].next \in Targets /\ k >= tr[Req(i)].next /\ i # k
    /\ \A id \in Tids \ {Req(i), Req(k)} : o.tr[id] = tr[id]
    /\ HandedOver(tr[Req(i)], o.tr[Req(i)])
    /\ Sane(o.tr[Req(k)], method = "INVITE") /\ o.tr[Req(k)].next > k
    /\ IF sent = 0 THEN o.tr[Req(k)].state = "0" /\ o.tr[Req(k)].next \notin Targets
                   ELSE o.tr[Req(k)].state \in Waiting
    /\ o.answer \in AnswerSet /\ Elsewhere(answer, o.answer, {Req(k)})

LEMMA AttemptCopied ==
    ASSUME TargetsOrdered, IInv, NEW i \in Targets, NEW sent \in Candidates(tr[Req(i)]) \cup {0},
           Candidates(tr[Req(i)]) # {}
    PROVE  \E k \in Targets : Forks(Attempt(Req(i), TRUE, sent), i, k, sent)
<1> DEFINE o == Attempt(Req(i), TRUE, sent)
<1>0. Req(i) \in Tids  BY TidCases, Zenon
<1>1. /\ Shape(tr, method) /\ tr[Req(i)] \in Trans /\ Sane(tr[Req(i)], Invite(Req(i)))
      /\ TypesRest
    BY <1>0, AtHand
<1>2. /\ o.ok = (sent # 0) /\ o.tr \in [Tids -> Trans]
      /\ o.blacklist \subseteq blacklist \cup Targets
      /\ HandedOver(tr[Req(i)], o.tr[Req(i)])
      /\ \E k \in Candidates(tr[Req(i)]) :
            /\ k > i /\ (sent # 0 => sent >= k)
            /\ \A id \in Tids \ {Req(i), Req(k)} : o.tr[id] = tr[id]
            /\ Copied(tr[Req(i)], o.tr[Req(k)], sent, Invite(Req(k)))
            /\ o.answer = IF sent = 0 THEN answer
                          ELSE [answer EXCEPT ![<<Req(k), sent>>] = "silent"]
    BY <1>1, AttemptForks, Zenon
<1> HIDE DEF o
<1>3. PICK k \in Candidates(tr[Req(i)]) :
            /\ k > i /\ (sent # 0 => sent >= k)
            /\ \A id \in Tids \ {Req(i), Req(k)} : o.tr[id] = tr[id]
            /\ Copied(tr[Req(i)], o.tr[Req(k)], sent, Invite(Req(k)))
            /\ o.answer = IF sent = 0 THEN answer
                          ELSE [answer EXCEPT ![<<Req(k), sent>>] = "silent"]
    BY <1>2
<1>4. /\ tr[Req(i)].next \in Targets /\ k \in Targets /\ k >= tr[Req(i)].next
      /\ sent # 0 => sent \in Targets
    BY <1>0, <1>1, CandidateFacts
<1>5. i # k  BY <1>3, <1>4, TargetNat
<1>6. Invite(Req(i)) = (method = "INVITE") /\ Invite(Req(k)) = (method = "INVITE")
    BY DEF Invite, Req
<1>7. Sane(o.tr[Req(k)], method = "INVITE")
  <2>1. CASE sent = 0  BY <1>1, <1>3, <1>6, <2>1, Zenon DEF Copied, Sane, None, Waiting
  <2>2. CASE sent # 0  BY <1>1, <1>3, <1>6, <2>2, Zenon DEF Copied, Sane, None, Waiting
  <2> QED  BY <2>1, <2>2
<1>8. /\ o.tr[Req(k)].next > k
      /\ IF sent = 0 THEN o.tr[Req(k)].state = "0" /\ o.tr[Req(k)].next \notin Targets
                     ELSE o.tr[Req(k)].state \in Waiting
  <2>1. CASE sent = 0
    <3>1. o.tr[Req(k)].next = NTargets + 1 /\ o.tr[Req(k)].state = "0"  BY <1>3, <2>1 DEF Copied
    <3> QED  BY <1>4, <2>1, <3>1, UacAssumption DEF Targets
  <2>2. CASE sent # 0
    <3>1. o.tr[Req(k)].next = sent + 1 /\ o.tr[Req(k)].state \in Waiting
        BY <1>3, <2>2 DEF Copied, Waiting
    <3> QED  BY <1>3, <1>4, <2>2, <3>1, TargetNat
  <2> QED  BY <2>1, <2>2
<1>9. o.answer \in AnswerSet /\ Elsewhere(answer, o.answer, {Req(k)})
  <2>1. answer \in AnswerSet /\ Req(k) \in Tids  BY <1>1, <1>4, TidCases, Zenon DEF TypesRest
  <2>2. Elsewhere(answer, answer, {Req(k)})  BY DEF Elsewhere
  <2>3. CASE sent = 0  BY <1>3, <2>1, <2>2, <2>3
  <2>4. CASE sent # 0  BY <1>3, <1>4, <2>1, <2>4, AnswerSilent
  <2> QED  BY <2>3, <2>4
<1>10. o.blacklist \in SUBSET Targets  BY <1>1, <1>2, Zenon DEF TypesRest
<1>11. Forks(o, i, k, sent)  BY <1>2, <1>3, <1>4, <1>5, <1>7, <1>8, <1>9, <1>10, Zenon DEF Forks
<1> QED  BY <1>4, <1>11, Zenon DEF o

\* Timer M: the next target's transaction takes over, or there is none.
LEMMA FireM ==
    ASSUME TargetsOrdered, IInv, NEW id \in Tids, fire_M(id)
    PROVE  IInv'
<1>1. /\ tr[id] \in Trans /\ Sane(tr[id], Invite(id)) /\ TypesRest
    BY AtHand
<1>2. tr[id].timers[2] = "M"  BY TimerNames, ArmedSlot DEF fire_M
<1>3. tr[id].state \in Waiting  BY <1>1, <1>2 DEF Sane
<1>w. /\ \A s \in Waiting : s \notin {"absent", "0", "REMOVED", "ABANDONED"}
    BY DEF Waiting
<1>4. UNCHANGED <<method, ticket, told, wheel, nested>>  BY DEF fire_M
<1>5. PICK sent \in Candidates(tr[id]) \cup {0} :
        LET o == Attempt(id, TRUE, sent)
        IN  /\ tr' = IF o.ok THEN [o.tr EXCEPT ![id] = Abandoned(@)] ELSE o.tr
            /\ blacklist' = o.blacklist /\ answer' = o.answer
    BY Zenon DEF fire_M, try_next_ip
<1> DEFINE o == Attempt(id, TRUE, sent)
<1>6. CASE Candidates(tr[id]) = {}
  <2>1. sent = 0  BY <1>6
  <2>2. Stays(o, id, sent)  BY <1>6, AttemptOn, Zenon
  <2> HIDE DEF o
  <2>3. /\ o.ok = FALSE /\ o.tr \in [Tids -> Trans]
        /\ \A k \in Tids \ {id} : o.tr[k] = tr[k]
        /\ Sane(o.tr[id], Invite(id)) /\ o.blacklist \in SUBSET Targets
        /\ o.answer = answer /\ o.tr[id].state = tr[id].state /\ Quiet(tr[id], o.tr[id])
      BY <2>1, <2>2, Zenon DEF Stays
  <2>4. tr' = o.tr /\ answer' = answer /\ blacklist' = o.blacklist  BY <1>5, <2>3, Zenon DEF o
  <2>5. TypesRest'  BY <1>1, <1>4, <2>3, <2>4 DEF TypesRest
  <2>6. TellsRight(id)  BY <1>4, <2>3, <2>4 DEF TellsRight
  <2>7. Elsewhere(answer, answer', {id})  BY <2>4 DEF Elsewhere
  <2>8. \A i \in Targets : id = Req(i) => Spent(i)'  BY <1>3, <2>3, <2>4 DEF Spent
  <2>9. tr[id].state # "absent" /\ (tr'[id].state = "0" => tr[id].state = "0")
      BY <1>3, <1>w, <2>3, <2>4
  <2>10. UNCHANGED <<method, ticket, wheel>>  BY <1>4
  <2>11. /\ tr' \in [Tids -> Trans] /\ \A k \in Tids \ {id} : tr'[k] = tr[k]
         /\ Sane(tr'[id], Invite(id)) /\ Quiet(tr[id], tr'[id])
      BY <2>3, <2>4, ZenonT(30)
  <2> QED  BY <2>5, <2>6, <2>7, <2>8, <2>9, <2>10, <2>11, QuietStep DEF QuietChange
<1>7. CASE Candidates(tr[id]) # {}
  <2>1. PICK i \in Targets : id = Req(i)  BY <1>7, CandidateFacts DEF IInv
  <2>2. PICK k \in Targets : Forks(o, i, k, sent)  BY <1>7, <2>1, AttemptCopied, Zenon
  <2> HIDE DEF o
  <2>3. Req(i) \in Tids /\ Req(k) \in Tids /\ Req(i) # Req(k)
    <3>1. i # k  BY <2>2 DEF Forks
    <3> QED  BY <3>1, TidCases, Zenon
  <2>4. Invite(id) = (method = "INVITE")  BY <2>1 DEF Invite, Req
  <2>5. HandedOver(tr[Req(i)], o.tr[Req(i)])  BY <2>2, Zenon DEF Forks
  <2> DEFINE u == IF o.ok THEN Abandoned(o.tr[id]) ELSE o.tr[id]
  <2>6. /\ u \in Trans /\ u.next = 0 /\ u.state = IF o.ok THEN "ABANDONED" ELSE tr[id].state
        /\ u.timers[1] = tr[id].timers[1] /\ u.timers[2] = None
    <3>1. o.tr[id] \in Trans  BY <2>1, <2>5 DEF HandedOver
    <3>2. CASE o.ok
      <4>1. /\ Same(o.tr[id], u) /\ u.state = "ABANDONED"
            /\ u.timers[1] = o.tr[id].timers[1] /\ u.timers[2] = o.tr[id].timers[2]
          BY <3>1, <3>2, AbandonedFields
      <4> HIDE DEF u
      <4> QED  BY <2>1, <2>5, <3>2, <4>1, Zenon DEF HandedOver, Same
    <3>3. CASE ~o.ok  BY <2>1, <2>5, <3>3 DEF HandedOver
    <3> QED  BY <3>2, <3>3
  <2>7. tr' = IF o.ok THEN [o.tr EXCEPT ![id] = Abandoned(@)] ELSE o.tr  BY <1>5 DEF o
  <2>8. o.tr \in [Tids -> Trans]  BY <2>2 DEF Forks
  <2>9. tr' \in [Tids -> Trans] /\ tr'[id] = u /\ \A j \in Tids \ {id} : tr'[j] = o.tr[j]
      BY <2>6, <2>7, <2>8
  <2> HIDE DEF u
  <2>10. Sane(u, method = "INVITE")
    <3>1. CASE o.ok  BY <1>1, <2>4, <2>6, <3>1, Zenon DEF Sane, Waiting, None
    <3>2. CASE ~o.ok  BY <1>1, <1>3, <2>4, <2>6, <3>2, ZenonT(30) DEF Sane, None
    <3> QED  BY <3>1, <3>2
  <2>11. /\ tr[Req(i)].next \in Targets /\ k >= tr[Req(i)].next
         /\ \A j \in Tids \ {Req(i), Req(k)} : tr'[j] = tr[j]
         /\ Sane(tr'[Req(k)], method = "INVITE") /\ tr'[Req(k)].next > k
         /\ IF sent = 0 THEN tr'[Req(k)].state = "0" /\ tr'[Req(k)].next \notin Targets
                        ELSE tr'[Req(k)].state \in Waiting
         /\ o.ok = (sent # 0)
      BY <2>1, <2>2, <2>3, <2>9 DEF Forks
  <2>12. /\ Sane(tr'[Req(i)], method = "INVITE") /\ tr'[Req(i)].next = 0
         /\ tr'[Req(i)].state \notin {"absent", "0"} /\ tr[Req(i)].state \in Waiting
         /\ IF sent = 0 THEN tr'[Req(i)].state \in Waiting ELSE tr'[Req(i)].state \notin Waiting
      BY <1>3, <1>w, <2>1, <2>6, <2>9, <2>10, <2>11, Zenon
  <2>13. /\ answer' \in AnswerSet /\ blacklist' \in SUBSET Targets
         /\ Elsewhere(answer, answer', {Req(i), Req(k)})
    <3>1. answer' = o.answer /\ blacklist' = o.blacklist  BY <1>5 DEF o
    <3>2. o.answer \in AnswerSet /\ o.blacklist \in SUBSET Targets /\ Elsewhere(answer, o.answer, {Req(k)})
        BY <2>2 DEF Forks
    <3> QED  BY <3>1, <3>2 DEF Elsewhere
  <2>14. TypesRest'  BY <1>1, <1>4, <2>13 DEF TypesRest
  <2>15. \/ /\ tr'[Req(k)].state = "0" /\ tr'[Req(k)].next \notin Targets
            /\ tr'[Req(i)].state \in Waiting /\ told' = told
         \/ tr'[Req(k)].state \in Waiting /\ tr'[Req(i)].state \notin Waiting /\ told' = told
      BY <1>4, <2>11, <2>12
  <2>16. UNCHANGED <<method, ticket, wheel>>  BY <1>4
  <2> QED  BY <2>9, <2>11, <2>12, <2>13, <2>14, <2>15, <2>16, ForkedStep DEF ForkedChange
<1> QED  BY <1>6, <1>7

\* try_next_ip was not called or found no target.
Unmoved(o, id) ==
    /\ o.ok = FALSE /\ o.tr \in [Tids -> Trans]
    /\ \A k \in Tids \ {id} : o.tr[k] = tr[k]
    /\ Sane(o.tr[id], Invite(id)) /\ o.blacklist \in SUBSET Targets /\ o.answer = answer
    /\ o.tr[id].state = tr[id].state /\ Quiet(tr[id], o.tr[id])

Untried == [ok |-> FALSE, tr |-> tr, blacklist |-> blacklist, answer |-> answer]

LEMMA UnmovedFacts ==
    ASSUME IInv, NEW id \in Tids
    PROVE  /\ Unmoved(Untried, id)
           /\ \A o : Stays(o, id, 0) => Unmoved(o, id)
<1>1. /\ tr \in [Tids -> Trans] /\ Sane(tr[id], Invite(id)) /\ TypesRest  BY AtHand
<1>2. Quiet(tr[id], tr[id])  BY DEF Quiet
<1>3. Unmoved(Untried, id)  BY <1>1, <1>2, Zenon DEF Unmoved, Untried, TypesRest
<1>4. \A o : Stays(o, id, 0) => Unmoved(o, id)  BY Zenon DEF Stays, Unmoved
<1> QED  BY <1>3, <1>4

\* A branch is marked after try_next_ip.
LEMMA MarkAfter ==
    ASSUME NEW id \in Tids, NEW a \in AnswerSet, NEW code \in Answers, tr[id].dst \in Targets,
           NEW ids, Elsewhere(answer, a, ids)
    PROVE  Mark(a, id, code) \in AnswerSet /\ Elsewhere(answer, Mark(a, id, code), ids \cup {id})
<1>1. Mark(a, id, code) \in AnswerSet /\ Elsewhere(a, Mark(a, id, code), {id})  BY MarkFacts, Zenon
<1> QED  BY <1>1 DEF Elsewhere

\* What invite_error makes of the transaction the reply came in on.
ErrorEnd(x, local) ==
    LET live == x.state \in {"CALLING", "PROCEEDING"}
        y == IF x.state = "CALLING" THEN reset_all_timers(x) ELSE clear_timer(x, "C")
    IN  IF live THEN [reset_timer(y, "D") EXCEPT !.state = "COMPLETED"]
        ELSE IF x.state \notin {"ABANDONED", "TERMINATED"} THEN x
        ELSE IF local THEN Removed ELSE DidReply(x)

LEMMA ErrorEndFields ==
    ASSUME NEW x \in Trans, Sane(x, TRUE), NEW local \in BOOLEAN
    PROVE  LET v == ErrorEnd(x, local)
           IN  /\ Sane(v, TRUE) /\ v.next \in {0, x.next} /\ v.state \notin Waiting
               /\ IF x.state \in Waiting THEN v.state = "COMPLETED" /\ v.next = x.next
                                         ELSE v.state \in {x.state, "REMOVED"}
               /\ x.state \in {"absent", "0"} => v = x
<1> DEFINE y == IF x.state = "CALLING" THEN reset_all_timers(x) ELSE clear_timer(x, "C")
           s == reset_timer(y, "D")
           v == ErrorEnd(x, local)
<1>0. x.state \in Waiting <=> x.state \in {"CALLING", "PROCEEDING"}  BY DEF Sane, Waiting
<1>1. CASE x.state \in Waiting
  <2>1. /\ Same(x, y) /\ y.timers[1] \in {None, x.timers[1]}
      BY ResetAllTimers, ClearTimer, TimerNames
  <2>2. y \in Trans  BY <2>1 DEF Same
  <2> HIDE DEF y
  <2>3. Same(y, s) /\ s.timers[1] = y.timers[1] /\ s.timers[2] = "D"  BY <2>2, ResetTimer, TimerNames
  <2>4. s \in Trans  BY <2>3 DEF Same
  <2>5. v = [s EXCEPT !.state = "COMPLETED"]  BY <1>0, <1>1, Zenon DEF ErrorEnd, y
  <2> HIDE DEF s, v
  <2>6. Same(s, v) /\ v.state = "COMPLETED" /\ v.timers = s.timers
      BY <2>4, <2>5, StateSet, Zenon DEF States
  <2>7. v \in Trans /\ v.next = x.next /\ v.timers[1] \in {None, x.timers[1]} /\ v.timers[2] = "D"
      BY <2>1, <2>3, <2>6 DEF Same
  <2>8. Sane(v, TRUE)  BY <2>6, <2>7, Over, Zenon DEF States, Waiting
  <2>9. \A z \in Waiting : z \notin {"absent", "0"} /\ z # "COMPLETED"  BY DEF Waiting
  <2> QED  BY <1>1, <2>6, <2>7, <2>8, <2>9, Zenon DEF v
<1>2. CASE x.state \notin Waiting
  <2>1. \/ v = x
        \/ v = DidReply(x) /\ x.state \notin {"absent", "0"}
        \/ v = Removed /\ x.state \notin {"absent", "0"}
      BY <1>0, <1>2 DEF ErrorEnd
  <2> HIDE DEF v
  <2>2. CASE v = x  BY <1>2, <2>2, Zenon DEF v
  <2>3. CASE v = DidReply(x) /\ x.state \notin {"absent", "0"}
    <3>1. /\ v \in Trans /\ v.next = x.next /\ v.state = x.state /\ v.timers = x.timers
        BY <2>3, DidReplyFields
    <3>2. Sane(v, TRUE)  BY <1>2, <3>1 DEF Sane
    <3> QED  BY <1>2, <2>3, <3>1, <3>2, Zenon DEF v
  <2>4. CASE v = Removed /\ x.state \notin {"absent", "0"}
    <3>1. /\ v \in Trans /\ v.next = 0 /\ v.state = "REMOVED" /\ v.timers[1] = None /\ v.timers[2] = None
        BY <2>4, Fresh
    <3>2. Sane(v, TRUE)  BY <3>1 DEF Sane, Waiting, None
    <3>3. "REMOVED" \notin Waiting  BY DEF Waiting
    <3> QED  BY <1>2, <2>4, <3>1, <3>2, <3>3, Zenon DEF v
  <2> QED  BY <2>1, <2>2, <2>3, <2>4, Zenon
<1> QED  BY <1>1, <1>2, Zenon

\* An error that goes no further than the transaction it came in on.
LEMMA InviteErrorEnds ==
    ASSUME IInv, NEW id \in Tids, Exists(id), Invite(id), NEW code \in {"503", "6xx"},
           NEW local \in BOOLEAN, NEW o, Unmoved(o, id),
           blacklist' \in SUBSET Targets, NEW c \in Answers, answer' = Mark(answer, id, c),
           tr' = [o.tr EXCEPT ![id] = ErrorEnd(o.tr[id], local)],
           told' = IF o.tr[id].state \in {"CALLING", "PROCEEDING"} THEN Append(told, code) ELSE told,
           UNCHANGED <<method, ticket, wheel, nested>>
    PROVE  IInv' /\ Ends
<1> DEFINE x == o.tr[id]
           v == ErrorEnd(x, local)
<1>1. tr[id].dst \in Targets /\ TypesRest  BY AtHand
<1>2. /\ x \in Trans /\ Sane(x, TRUE) /\ o.tr \in [Tids -> Trans] /\ Quiet(tr[id], x)
      /\ \A k \in Tids \ {id} : o.tr[k] = tr[k]
      /\ x.state = tr[id].state
    BY Zenon DEF Unmoved
<1>3. tr[id].state \notin {"absent", "REMOVED"} /\ method = "INVITE" /\ id[1] = "REQ"
    BY DEF Exists, Invite
<1> HIDE DEF x
<1>4. /\ Sane(v, TRUE) /\ v.next \in {0, x.next} /\ v.state \notin Waiting
      /\ IF x.state \in Waiting THEN v.state = "COMPLETED" /\ v.next = x.next
                                ELSE v.state \in {x.state, "REMOVED"}
      /\ x.state \in {"absent", "0"} => v = x
    BY <1>2, ErrorEndFields, Zenon
<1>5. v \in Trans  BY <1>4, Zenon DEF Sane
<1>6. tr' \in [Tids -> Trans] /\ tr'[id] = v /\ \A k \in Tids \ {id} : tr'[k] = tr[k]
  <2>1. tr' = [o.tr EXCEPT ![id] = v]  BY DEF x
  <2> HIDE DEF v
  <2> QED  BY <1>2, <1>5, <2>1
<1> HIDE DEF v
<1>7. Quiet(tr[id], tr'[id])
    BY <1>2, <1>3, <1>4, <1>6, Zenon DEF Quiet, Waiting, Unborn
<1>8. tr[id].state # "absent" /\ (tr'[id].state = "0" => tr[id].state = "0") /\ Sane(tr'[id], Invite(id))
    BY <1>2, <1>3, <1>4, <1>6, Zenon
<1>9. answer' \in AnswerSet /\ Elsewhere(answer, answer', {id})
  <2>1. answer \in AnswerSet  BY <1>1 DEF TypesRest
  <2> QED  BY <1>1, <2>1, MarkFacts, ZenonT(30)
<1>10. code \in Verdicts /\ told' \in Seq(Verdicts)
  <2>1. code \in Verdicts /\ told \in Seq(Verdicts)  BY <1>1, Zenon DEF Verdicts, TypesRest
  <2> QED  BY <2>1, AppendFacts, Zenon
<1>11. TypesRest'  BY <1>1, <1>9, <1>10, Zenon DEF TypesRest
<1>12. TellsRight(id)
  <2>1. x.state \in Waiting <=> x.state \in {"CALLING", "PROCEEDING"}  BY <1>2, Zenon DEF Sane, Waiting
  <2>2. told' = IF x.state \in Waiting THEN Append(told, code) ELSE told  BY <2>1, Zenon DEF x
  <2> QED  BY <1>2, <1>3, <1>4, <1>6, <1>10, <2>2, Zenon DEF TellsRight
<1>13. \A i \in Targets : id = Req(i) => Spent(i)'  BY <1>3, InviteSpent, Zenon
<1> QED  BY <1>6, <1>7, <1>8, <1>9, <1>11, <1>12, <1>13, QuietStep, Zenon DEF QuietChange

\* A 503 that makes a copy go to the next target.
LEMMA InviteErrorForks ==
    ASSUME IInv, NEW i \in Targets, method = "INVITE", tr[Req(i)].state \in Waiting,
           NEW sent, NEW k \in Targets, NEW o, Forks(o, i, k, sent),
           blacklist' \in SUBSET Targets, answer' = Mark(o.answer, Req(i), "503"),
           tr' = [o.tr EXCEPT ![Req(i)] = ErrorEnd(o.tr[Req(i)], FALSE)],
           told' = IF o.ok THEN told ELSE Append(told, "503"),
           UNCHANGED <<method, ticket, wheel, nested>>
    PROVE  IInv' /\ Ends
<1> DEFINE x == o.tr[Req(i)]
           v == ErrorEnd(x, FALSE)
<1>0. Req(i) \in Tids /\ Req(k) \in Tids /\ Req(i) # Req(k) /\ (method = "INVITE") = TRUE
  <2>1. i # k  BY Zenon DEF Forks
  <2> QED  BY <2>1, TidCases, ZenonT(30)
<1>1. /\ tr[Req(i)].dst \in Targets /\ TypesRest /\ Sane(tr[Req(i)], TRUE)
  <2>1. Invite(Req(i)) = TRUE  BY DEF Invite, Req
  <2> QED  BY <1>0, <2>1, AtHand, Zenon
<1>2. /\ o.ok = (sent # 0) /\ o.tr \in [Tids -> Trans]
      /\ tr[Req(i)].next \in Targets /\ k >= tr[Req(i)].next
      /\ \A id \in Tids \ {Req(i), Req(k)} : o.tr[id] = tr[id]
      /\ HandedOver(tr[Req(i)], x)
      /\ Sane(o.tr[Req(k)], method = "INVITE") /\ o.tr[Req(k)].next > k
      /\ IF sent = 0 THEN o.tr[Req(k)].state = "0" /\ o.tr[Req(k)].next \notin Targets
                     ELSE o.tr[Req(k)].state \in Waiting
      /\ o.answer \in AnswerSet /\ Elsewhere(answer, o.answer, {Req(k)})
    BY Zenon DEF Forks
<1> HIDE DEF x
<1>3. /\ x \in Trans /\ Sane(x, TRUE) /\ x.state = tr[Req(i)].state /\ x.next = 0
    BY <1>1, <1>2, Zenon DEF HandedOver, Sane, None
<1>4. /\ Sane(v, TRUE) /\ v.state = "COMPLETED" /\ v.next = 0
  <2>1. /\ Sane(v, TRUE)
        /\ IF x.state \in Waiting THEN v.state = "COMPLETED" /\ v.next = x.next
                                  ELSE v.state \in {x.state, "REMOVED"}
      BY <1>3, ErrorEndFields, Zenon
  <2> QED  BY <1>3, <2>1, Zenon
<1>5. v \in Trans  BY <1>4, Zenon DEF Sane
<1>6. tr' \in [Tids -> Trans] /\ tr'[Req(i)] = v /\ \A j \in Tids \ {Req(i)} : tr'[j] = o.tr[j]
  <2>1. tr' = [o.tr EXCEPT ![Req(i)] = v]  BY DEF x
  <2> HIDE DEF v
  <2> QED  BY <1>0, <1>2, <1>5, <2>1, ZenonT(30)
<1> HIDE DEF v
<1>7. "503" \in Verdicts /\ told' \in Seq(Verdicts)
  <2>1. "503" \in Verdicts /\ told \in Seq(Verdicts)  BY <1>1 DEF Verdicts, TypesRest
  <2> QED  BY <2>1, AppendFacts
<1>8. answer' \in AnswerSet /\ Elsewhere(answer, answer', {Req(i), Req(k)})
  <2>1. "503" \in Answers /\ {Req(k)} \cup {Req(i)} = {Req(i), Req(k)}  BY DEF Answers
  <2>2. /\ Req(i) \in Tids /\ o.answer \in AnswerSet /\ tr[Req(i)].dst \in Targets
        /\ Elsewhere(answer, o.answer, {Req(k)})
      BY <1>0, <1>1, <1>2, Zenon
  <2>3. /\ Mark(o.answer, Req(i), "503") \in AnswerSet
        /\ Elsewhere(answer, Mark(o.answer, Req(i), "503"), {Req(k)} \cup {Req(i)})
      BY ONLY <2>1, <2>2, MarkAfter
  <2> QED  BY <2>1, <2>3, Zenon
<1>9. TypesRest'  BY <1>1, <1>7, <1>8 DEF TypesRest
<1>10. /\ \A j \in Tids \ {Req(i), Req(k)} : tr'[j] = tr[j]
       /\ tr'[Req(k)] = o.tr[Req(k)]
    BY <1>0, <1>2, <1>6, Zenon
<1>11. "COMPLETED" \notin Waiting /\ v.state \notin {"absent", "0"}  BY <1>4 DEF Waiting
<1>12. \/ /\ tr'[Req(k)].state = "0" /\ tr'[Req(k)].next \notin Targets
          /\ tr'[Req(i)].state \notin Waiting /\ \E c \in Verdicts : told' = Append(told, c)
       \/ tr'[Req(k)].state \in Waiting /\ tr'[Req(i)].state \notin Waiting /\ told' = told
  <2>1. CASE sent = 0  BY <1>2, <1>4, <1>6, <1>7, <1>10, <1>11, <2>1, Zenon
  <2>2. CASE sent # 0  BY <1>2, <1>4, <1>6, <1>10, <1>11, <2>2, Zenon
  <2> QED  BY <2>1, <2>2, Zenon
<1>13. /\ Sane(tr'[Req(i)], method = "INVITE") /\ Sane(tr'[Req(k)], method = "INVITE")
       /\ tr'[Req(i)].next = 0 /\ tr'[Req(i)].state \notin {"absent", "0"} /\ tr'[Req(k)].next > k
    BY <1>0, <1>2, <1>4, <1>6, <1>10, <1>11, Zenon
<1> QED  BY <1>2, <1>6, <1>8, <1>9, <1>10, <1>12, <1>13, ForkedStep, Zenon DEF ForkedChange

\* A negative final reply to an INVITE.
LEMMA InviteError ==
    ASSUME TargetsOrdered, IInv, NEW id \in Tids, Exists(id), Invite(id), NEW code \in {"503", "6xx"},
           NEW local \in BOOLEAN, local => code = "503", invite_error(id, code, local)
    PROVE  IInv' /\ Ends
<1> DEFINE c == IF local THEN "local" ELSE code
           live(o) == o.tr[id].state \in {"CALLING", "PROCEEDING"}
           go == code = "503" /\ tr[id].state \in {"CALLING", "PROCEEDING"}
<1>1. PICK o \in Failover(id, code, local) :
        /\ blacklist' = o.blacklist \cup Refused(id, code)
        /\ answer' = Mark(o.answer, id, c)
        /\ IF local /\ o.ok
           THEN tr' = o.tr /\ UNCHANGED told
           ELSE /\ tr' = [o.tr EXCEPT ![id] = ErrorEnd(o.tr[id], local)]
                /\ told' = IF live(o) /\ ~o.ok THEN Append(told, code) ELSE told
        /\ UNCHANGED <<method, ticket, wheel, nested>>
    BY DEF invite_error, ErrorEnd, forget_reply
<1>2. /\ tr[id] \in Trans /\ Sane(tr[id], Invite(id)) /\ tr[id].dst \in Targets /\ TypesRest
    BY AtHand, Zenon
<1>3. method = "INVITE" /\ id[1] = "REQ"  BY DEF Invite
<1>4. c \in Answers  BY DEF Answers
<1>5. Refused(id, code) \subseteq Targets  BY <1>2 DEF Refused
<1>6. UNCHANGED <<method, ticket, wheel, nested>>  BY <1>1
<1>7. ASSUME Unmoved(o, id) PROVE IInv' /\ Ends
  <2>1. o.ok = FALSE /\ o.answer = answer /\ o.blacklist \in SUBSET Targets  BY <1>7, Zenon DEF Unmoved
  <2>2. blacklist' \in SUBSET Targets /\ answer' = Mark(answer, id, c)  BY <1>1, <1>5, <2>1, Zenon
  <2>3. /\ tr' = [o.tr EXCEPT ![id] = ErrorEnd(o.tr[id], local)]
        /\ told' = IF live(o) THEN Append(told, code) ELSE told
      BY <1>1, <2>1
  <2> HIDE DEF c
  <2> QED  BY <1>4, <1>6, <1>7, <2>2, <2>3, InviteErrorEnds, Zenon
<1>8. CASE ~go
  <2>1. o = Untried  BY <1>1, <1>8 DEF Failover, Untried
  <2> QED  BY <1>7, <2>1, UnmovedFacts
<1>9. CASE go
  <2>1. PICK sent \in Candidates(tr[id]) \cup {0} : o = Attempt(id, ~local, sent)
      BY <1>1, <1>9, Zenon DEF Failover, try_next_ip
  <2>2. CASE ~local /\ Candidates(tr[id]) # {}
    <3>1. PICK i \in Targets : id = Req(i)  BY <2>2, CandidateFacts DEF IInv
    <3>2. PICK k \in Targets : Forks(o, i, k, sent)  BY <2>1, <2>2, <3>1, AttemptCopied, ZenonT(30)
    <3>3. o.blacklist \in SUBSET Targets /\ o.tr[id].state = tr[id].state
        BY <3>1, <3>2, Zenon DEF Forks, HandedOver
    <3>4. blacklist' \in SUBSET Targets  BY <1>1, <1>5, <3>3, Zenon
    <3>5. answer' = Mark(o.answer, Req(i), "503")  BY <1>1, <1>9, <2>2, <3>1, Zenon
    <3>6. /\ tr' = [o.tr EXCEPT ![Req(i)] = ErrorEnd(o.tr[Req(i)], FALSE)]
          /\ told' = IF o.ok THEN told ELSE Append(told, "503")
      <4>1. live(o)  BY <1>9, <3>3
      <4>2. local = FALSE  BY <2>2
      <4> QED  BY <1>1, <1>9, <3>1, <4>1, <4>2, ZenonT(30)
    <3>7. tr[Req(i)].state \in Waiting  BY <1>9, <3>1 DEF Waiting
    <3> QED  BY <1>3, <1>6, <3>2, <3>4, <3>5, <3>6, <3>7, InviteErrorForks, Zenon
  <2>3. CASE local \/ Candidates(tr[id]) = {}
    <3>1. Stays(o, id, sent)  BY <2>1, <2>3, AttemptOn, Zenon
    <3>2. CASE sent = 0  BY <1>7, <3>1, <3>2, UnmovedFacts
    <3>3. CASE sent # 0
      <4>1. local /\ o.ok  BY <2>3, <3>1, <3>3 DEF Stays
      <4>2. tr' = o.tr /\ told' = told  BY <1>1, <4>1, Zenon
      <4>3. PICK i \in Targets : id = Req(i)  BY <3>1, <3>3, Zenon DEF Stays
      <4>4. /\ o.tr \in [Tids -> Trans] /\ \A k \in Tids \ {id} : o.tr[k] = tr[k]
            /\ Sane(o.tr[id], Invite(id)) /\ o.blacklist \in SUBSET Targets
            /\ o.answer \in AnswerSet /\ Elsewhere(answer, o.answer, {id})
            /\ tr[id].next \in Targets /\ o.tr[id].next > tr[id].next /\ o.tr[id].state \in Waiting
          BY <3>1, <3>3, ZenonT(30) DEF Stays
      <4>5. answer' \in AnswerSet /\ Elsewhere(answer, answer', {id})
        <5>1. {id} \cup {id} = {id} /\ answer' = Mark(o.answer, id, c)  BY <1>1
        <5> HIDE DEF c
        <5> QED  BY <1>2, <1>4, <4>4, <5>1, MarkAfter
      <4>6. blacklist' \in SUBSET Targets  BY <1>1, <1>5, <4>4, Zenon
      <4>7. TypesRest'  BY <1>2, <1>6, <4>2, <4>5, <4>6, Zenon DEF TypesRest
      <4>8. Invite(id) = (method = "INVITE")  BY <1>3, Zenon
      <4>9. tr[id].state \in Waiting  BY <1>9 DEF Waiting
      <4>10. UNCHANGED <<method, ticket, told, wheel>>  BY <1>6, <4>2
      <4> QED  BY <4>2, <4>3, <4>4, <4>5, <4>7, <4>8, <4>9, <4>10, RevivedStep, ZenonT(30) DEF RevivedChange
    <3> QED  BY <3>2, <3>3
  <2> QED  BY <2>2, <2>3
<1> QED  BY <1>8, <1>9
=============================================================================
