--------------------------- MODULE UacBucketProofs ---------------------------
(***************************************************************************)
(* Proofs about UacTrans for any number of targets, any of them reliable,  *)
(* and any blacklist: the invariants of fail-over, CANCEL and the timers.  *)
(*                                                                         *)
(* The bucket is described by Shape, on which the proof rests.  Only one   *)
(* transaction holds the rest of the target set (next > 0); it is the      *)
(* newest, and while targets are left none but it waits.  A handler makes  *)
(* one of four changes to the bucket: it lets a transaction go on or end   *)
(* (Quiet), sends a transaction to its next target (Revived), copies it    *)
(* for the next target (Forked), or makes a CANCEL.                        *)
(***************************************************************************)
EXTENDS UacTrans, TLAPS

\* What a leaf with no prover of its own is tried with.
USE SMTT(30), ZenonT(30)

States == {"absent", "0", "CALLING", "TRYING", "PROCEEDING", "COMPLETED",
           "TERMINATED_200", "TERMINATED", "ABANDONED", "REMOVED"}
TimerTypes == {"A", "B", "C", "D", "E", "F", "K", "L", "M", "BL", None}

Trans == [state : States, dst : Targets, timers : [0 .. 2 -> TimerTypes],
          disable_bl : BOOLEAN, canceled : BOOLEAN, next : 0 .. NTargets + 1]

\* A transaction whose request was never sent or that is removed.
Unborn == {"absent", "0", "REMOVED"}

Req(i) == <<"REQ", i>>

\* A transaction's state and timers agree.
Sane(x, invite) ==
    /\ x \in Trans
    /\ x.state = "CALLING" => invite
    /\ x.state = "TRYING" => ~invite
    /\ x.timers[1] \in {None, IF invite THEN "B" ELSE "F"}
    /\ invite /\ x.state = "PROCEEDING" => x.timers[1] = None
    /\ x.timers[2] = "C" => invite
    /\ IF x.state \in Waiting THEN x.timers[2] \in {None, "C", "M"}
                              ELSE x.timers[2] \notin {"C", "M"}
    /\ x.state \in {"absent", "REMOVED"} =>
          x.next = 0 /\ x.timers[1] = None /\ x.timers[2] = None

\* The transaction that holds the rest of the target set.
Holder(t, i) ==
    t[Req(i)].next > 0 =>
       /\ i < t[Req(i)].next
       /\ \A j \in Targets \ {i} :
             /\ t[Req(j)].next = 0
             /\ t[Req(j)].state # "absent" => j < i
             /\ t[Req(i)].next \in Targets => t[Req(j)].state \notin Waiting

\* The transaction that waits is the only one, and nothing newer was sent.
Newest(t, i) ==
    t[Req(i)].state \in Waiting =>
       \A j \in Targets \ {i} :
          /\ t[Req(j)].state \notin Waiting
          /\ j > i => t[Req(j)].state \in Unborn

IsInvite(id, m) == id[1] = "REQ" /\ m = "INVITE"

Shape(t, m) ==
    /\ t \in [Tids -> Trans]
    /\ \A id \in Tids : Sane(t[id], IsInvite(id, m))
    /\ \A i \in Targets : t[<<"CANCEL", i>>].next = 0
    /\ \A i \in Targets : Holder(t, i) /\ Newest(t, i)

\* A transaction that is over can only be sent on after a timeout.
Spent(i) ==
    LET x == tr[Req(i)]
    IN  method = "OTHER" /\ x.next \in Targets /\ x.state \notin Waiting =>
           \/ x.state = "TERMINATED" /\ told # <<>> /\ told[1] = "408"
           \/ x.state = "COMPLETED" /\ answer[<<Req(i), x.dst>>] \in {"2xx", "6xx"}

Has408(s) == \E i \in DOMAIN s : s[i] = "408"

Answers == {"unsent", "silent", "1xx", "2xx", "6xx", "503", "local"}
AnswerSet == [Tids \X Targets -> Answers]
Verdicts == {"2xx", "6xx", "503", "408", "487", "500"}

\* Only branches of the transactions in ids differ.
Elsewhere(a, b, ids) == \A k \in Tids \ ids, d \in Targets : b[<<k, d>>] = a[<<k, d>>]

\* What the UA was told agrees with what still waits.
ToldRight ==
    /\ ticket # 0 /\ told = <<>> => Live # {}
    /\ told # <<>> /\ Live # {} => Has408(told) /\ (method = "OTHER" => told[1] = "408")
    /\ method = "OTHER" /\ Len(told) > 1 => told[1] = "408"

TypeOK ==
    /\ method \in {"INVITE", "OTHER"}
    /\ tr \in [Tids -> Trans]
    /\ ticket \in 0 .. NTargets
    /\ blacklist \in SUBSET Targets
    /\ answer \in AnswerSet
    /\ told \in Seq(Verdicts)
    /\ wheel \in [step : {"idle", "cancel", "timeout"}, t : Tids]
    /\ nested \in SUBSET Tids

IInv ==
    /\ TypeOK
    /\ Shape(tr, method)
    /\ ticket = 0 => tr = [id \in Tids |-> Absent]
    /\ wheel.step # "idle" => Invite(wheel.t) /\ tr[wheel.t].state \notin {"absent", "0"}
    /\ \A i \in Targets : Spent(i)
    /\ ToldRight

-----------------------------------------------------------------------------
(* Operators of the model.                                                 *)

\* Every non-empty set of targets has a first and a last one.  (Proved in
\* UacTransProofs, from the well-foundedness of the naturals.)
TargetsOrdered ==
    \A C \in SUBSET Targets : C # {} =>
        /\ Lowest(C) \in C /\ \A y \in C : Lowest(C) <= y
        /\ Highest(C) \in C /\ \A y \in C : y <= Highest(C)

SlotOf(type) == IF type \in {"A", "E"} THEN 0 ELSE IF type \in {"B", "F"} THEN 1 ELSE 2

LEMMA Slots ==
    ASSUME NEW type \in TimerTypes \ {None}
    PROVE  Slot(type) = SlotOf(type) /\ SlotOf(type) \in 0 .. 2
BY DEF TimerTypes, Slot, SlotOf, None

\* What each step on a transaction changes, and what it leaves alone.
Same(x, v) ==
    /\ v \in Trans
    /\ v.next = x.next /\ v.dst = x.dst /\ v.disable_bl = x.disable_bl

LEMMA ResetTimer ==
    ASSUME NEW x \in Trans, NEW type \in TimerTypes \ {None}
    PROVE  LET v == reset_timer(x, type)
           IN  /\ Same(x, v) /\ v.state = x.state
               /\ \A s \in 0 .. 2 : v.timers[s] = IF s = SlotOf(type) THEN type ELSE x.timers[s]
<1>1. [x.timers EXCEPT ![SlotOf(type)] = type] \in [0 .. 2 -> TimerTypes]
    BY Slots DEF Trans
<1>2. reset_timer(x, type) = [x EXCEPT !.timers = [x.timers EXCEPT ![SlotOf(type)] = type]]
    BY Slots DEF reset_timer
<1> QED  BY <1>1, <1>2 DEF Trans, Same

LEMMA ClearTimer ==
    ASSUME NEW x \in Trans, NEW type \in TimerTypes \ {None}
    PROVE  LET v == clear_timer(x, type)
           IN  /\ Same(x, v) /\ v.state = x.state
               /\ \A s \in 0 .. 2 : v.timers[s] = IF s = SlotOf(type) THEN None ELSE x.timers[s]
<1>1. [x.timers EXCEPT ![SlotOf(type)] = None] \in [0 .. 2 -> TimerTypes]
    BY Slots DEF Trans, TimerTypes
<1>2. clear_timer(x, type) = [x EXCEPT !.timers = [x.timers EXCEPT ![SlotOf(type)] = None]]
    BY Slots DEF clear_timer
<1> QED  BY <1>1, <1>2 DEF Trans, Same

LEMMA ResetAllTimers ==
    ASSUME NEW x \in Trans
    PROVE  LET v == reset_all_timers(x)
           IN  /\ Same(x, v) /\ v.state = x.state
               /\ \A s \in 0 .. 2 : v.timers[s] = None
<1>1. [s \in 0 .. 2 |-> None] \in [0 .. 2 -> TimerTypes]  BY DEF TimerTypes
<1> QED  BY <1>1 DEF Trans, Same, reset_all_timers

LEMMA StateSet ==
    ASSUME NEW x \in Trans, NEW s \in States
    PROVE  LET v == [x EXCEPT !.state = s]
           IN  Same(x, v) /\ v.state = s /\ v.timers = x.timers
BY DEF Trans, Same

LEMMA Fresh ==
    /\ NewTrans \in Trans /\ Absent \in Trans /\ Removed \in Trans
    /\ NewTrans.next = 0 /\ Absent.next = 0 /\ Removed.next = 0
    /\ Absent.state = "absent" /\ Removed.state = "REMOVED" /\ NewTrans.state = "0"
    /\ \A s \in 0 .. 2 : NewTrans.timers[s] = None /\ Absent.timers[s] = None /\ Removed.timers[s] = None
<1>1. [s \in 0 .. 2 |-> None] \in [0 .. 2 -> TimerTypes]  BY DEF TimerTypes
<1>2. 1 \in Targets /\ 0 \in 0 .. NTargets + 1  BY UacAssumption DEF Targets
<1> QED  BY <1>1, <1>2, Zenon DEF Trans, States, NewTrans, Absent, Removed

LEMMA StartedFields ==
    ASSUME NEW x \in Trans, NEW invite \in BOOLEAN
    PROVE  LET v == Started(x, invite)
           IN  /\ Same(x, v)
               /\ v.state = IF invite THEN "CALLING" ELSE "TRYING"
               /\ v.timers[1] = IF x.timers[1] # None THEN x.timers[1]
                                ELSE IF invite THEN "B" ELSE "F"
               /\ v.timers[2] = IF x.next \in Targets THEN "M" ELSE x.timers[2]
<1> DEFINE retr == IF x.dst \in Reliable THEN x
                   ELSE reset_timer(x, IF invite THEN "A" ELSE "E")
           total == IF x.timers[1] # None THEN retr
                    ELSE reset_timer(retr, IF invite THEN "B" ELSE "F")
           more == IF x.next \in Targets THEN reset_timer(total, "M") ELSE total
           v == [more EXCEPT !.state = IF invite THEN "CALLING" ELSE "TRYING"]
<1>k. /\ \A s \in {"A", "B", "E", "F", "M"} : s \in TimerTypes \ {None}
      /\ SlotOf("A") = 0 /\ SlotOf("E") = 0 /\ SlotOf("B") = 1 /\ SlotOf("F") = 1 /\ SlotOf("M") = 2
    BY DEF SlotOf, TimerTypes, None
<1>1. /\ Same(x, retr)
      /\ retr.timers[1] = x.timers[1] /\ retr.timers[2] = x.timers[2]
  <2>1. CASE x.dst \in Reliable  BY <2>1 DEF Same
  <2>2. CASE x.dst \notin Reliable /\ invite  BY <2>2, <1>k, ResetTimer
  <2>3. CASE x.dst \notin Reliable /\ ~invite  BY <2>3, <1>k, ResetTimer
  <2> QED  BY <2>1, <2>2, <2>3
<1> HIDE DEF retr
<1>r. retr \in Trans  BY <1>1 DEF Same
<1>2. /\ Same(x, total)
      /\ total.timers[1] = IF x.timers[1] # None THEN x.timers[1]
                           ELSE IF invite THEN "B" ELSE "F"
      /\ total.timers[2] = x.timers[2]
  <2>1. CASE x.timers[1] # None  BY <1>1, <2>1
  <2>2. CASE x.timers[1] = None /\ invite
    <3>1. total = reset_timer(retr, "B")  BY <2>2
    <3>2. /\ Same(retr, total) /\ total.timers[1] = "B" /\ total.timers[2] = retr.timers[2]
        BY <1>r, <1>k, <3>1, ResetTimer
    <3> HIDE DEF total
    <3> QED  BY <1>1, <2>2, <3>2 DEF Same
  <2>3. CASE x.timers[1] = None /\ ~invite
    <3>1. total = reset_timer(retr, "F")  BY <2>3
    <3>2. /\ Same(retr, total) /\ total.timers[1] = "F" /\ total.timers[2] = retr.timers[2]
        BY <1>r, <1>k, <3>1, ResetTimer
    <3> HIDE DEF total
    <3> QED  BY <1>1, <2>3, <3>2 DEF Same
  <2> QED  BY <2>1, <2>2, <2>3
<1> HIDE DEF total
<1>t. total \in Trans  BY <1>2 DEF Same
<1>3. /\ Same(x, more) /\ more.timers[1] = total.timers[1]
      /\ more.timers[2] = IF x.next \in Targets THEN "M" ELSE x.timers[2]
  <2>1. CASE x.next \notin Targets  BY <1>2, <2>1
  <2>2. CASE x.next \in Targets
    <3>1. more = reset_timer(total, "M")  BY <2>2
    <3>2. /\ Same(total, more) /\ more.timers[1] = total.timers[1] /\ more.timers[2] = "M"
        BY <1>t, <1>k, <3>1, ResetTimer
    <3> HIDE DEF more
    <3> QED  BY <1>2, <2>2, <3>2 DEF Same
  <2> QED  BY <2>1, <2>2
<1> HIDE DEF more
<1>m. more \in Trans  BY <1>3 DEF Same
<1>4. Same(more, v) /\ v.timers = more.timers /\ v.state = IF invite THEN "CALLING" ELSE "TRYING"
  <2>1. (IF invite THEN "CALLING" ELSE "TRYING") \in States  BY DEF States
  <2> QED  BY <1>m, <2>1, StateSet
<1>5. v = Started(x, invite)  BY DEF Started, more, total, retr
<1> QED  BY <1>2, <1>3, <1>4, <1>5, Zenon DEF Same

-----------------------------------------------------------------------------
(* What may happen to the bucket.                                          *)

LEMMA TargetNat == \A i \in Targets : i \in Nat /\ i > 0 /\ i <= NTargets
BY UacAssumption DEF Targets

LEMMA TidCases ==
    /\ \A i \in Targets : Req(i) \in Tids /\ <<"CANCEL", i>> \in Tids /\ Req(i)[1] = "REQ"
    /\ \A i, j \in Targets : Req(i) # <<"CANCEL", j>> /\ (Req(i) = Req(j) => i = j)
    /\ \A id \in Tids : \E i \in Targets : id = Req(i) \/ id = <<"CANCEL", i>>
    /\ \A id \in Tids : id[1] = "REQ" => \E i \in Targets : id = Req(i)
BY DEF Tids, Req

\* The transaction goes on waiting, or ends.
Quiet(x, v) ==
    /\ v.next = x.next \/ v.next = 0 \/ (0 < x.next /\ x.next < v.next)
    /\ v.state \in Waiting => x.state \in Waiting
    /\ v.state = "absent" <=> x.state = "absent"
    /\ x.state \in Unborn => v.state \in Unborn

LEMMA QuietKeeps ==
    ASSUME NEW m, NEW t, Shape(t, m), NEW id \in Tids, NEW n \in [Tids -> Trans],
           \A k \in Tids \ {id} : n[k] = t[k],
           Sane(n[id], IsInvite(id, m)), Quiet(t[id], n[id])
    PROVE  Shape(n, m)
<1> USE TidCases
<1>1. \A k \in Tids : Sane(n[k], IsInvite(k, m))  BY DEF Shape
<1>2. \A k \in Tids : Quiet(t[k], n[k])  BY DEF Quiet
<1>3. \A k \in Tids : t[k].next \in Nat /\ n[k].next \in Nat
    BY UacAssumption DEF Shape, Trans
<1>4. ASSUME NEW i \in Targets PROVE n[<<"CANCEL", i>>].next = 0
  <2>1. t[<<"CANCEL", i>>].next = 0 /\ Quiet(t[<<"CANCEL", i>>], n[<<"CANCEL", i>>])
      BY <1>2 DEF Shape
  <2> QED  BY <2>1 DEF Quiet
<1>5. ASSUME NEW i \in Targets PROVE Holder(n, i)
  <2> SUFFICES ASSUME n[Req(i)].next > 0 PROVE Holder(n, i)  BY DEF Holder
  <2>1. t[Req(i)].next > 0 /\ n[Req(i)].next >= t[Req(i)].next
    <3>1. Quiet(t[Req(i)], n[Req(i)]) /\ t[Req(i)].next \in Nat /\ n[Req(i)].next \in Nat
        BY <1>2, <1>3, Zenon
    <3> QED  BY <3>1 DEF Quiet
  <2>2. n[Req(i)].next \in Targets => t[Req(i)].next \in Targets
    <3>1. t[Req(i)].next \in Nat /\ n[Req(i)].next \in Nat  BY <1>3, Zenon
    <3> QED  BY <2>1, <3>1, UacAssumption DEF Targets
  <2>3. Holder(t, i)  BY DEF Shape
  <2>4. i < n[Req(i)].next
    <3>1. t[Req(i)].next \in Nat /\ n[Req(i)].next \in Nat /\ i \in Nat
        BY <1>3, TargetNat, Zenon
    <3> QED  BY <2>1, <2>3, <3>1 DEF Holder
  <2>5. ASSUME NEW j \in Targets \ {i}
        PROVE  /\ n[Req(j)].next = 0
               /\ n[Req(j)].state # "absent" => j < i
               /\ n[Req(i)].next \in Targets => n[Req(j)].state \notin Waiting
    <3>1. /\ t[Req(j)].next = 0
          /\ t[Req(j)].state # "absent" => j < i
          /\ t[Req(i)].next \in Targets => t[Req(j)].state \notin Waiting
        BY <2>1, <2>3 DEF Holder
    <3>2. Quiet(t[Req(j)], n[Req(j)])  BY <1>2, Zenon
    <3> QED  BY <1>3, <2>2, <3>1, <3>2 DEF Quiet
  <2> QED  BY <2>4, <2>5 DEF Holder
<1>6. ASSUME NEW i \in Targets PROVE Newest(n, i)
  <2>1. Newest(t, i)  BY DEF Shape
  <2> QED  BY <1>2, <2>1, Zenon DEF Newest, Quiet
<1> QED  BY <1>1, <1>4, <1>5, <1>6 DEF Shape

\* The CANCEL of a transaction is not among those of the request.
LEMMA CancelKeeps ==
    ASSUME NEW m, NEW t, Shape(t, m), NEW i \in Targets, NEW n \in [Tids -> Trans],
           \A k \in Tids \ {<<"CANCEL", i>>} : n[k] = t[k],
           Sane(n[<<"CANCEL", i>>], FALSE), n[<<"CANCEL", i>>].next = 0
    PROVE  Shape(n, m)
<1> USE TidCases
<1>1. \A k \in Tids : Sane(n[k], IsInvite(k, m))
  <2>1. IsInvite(<<"CANCEL", i>>, m) = FALSE  BY DEF IsInvite
  <2> TAKE k \in Tids
  <2>2. CASE k = <<"CANCEL", i>>  BY <2>1, <2>2, Zenon
  <2>3. CASE k # <<"CANCEL", i>>  BY <2>3 DEF Shape
  <2> QED  BY <2>2, <2>3
<1>2. \A j \in Targets : n[Req(j)] = t[Req(j)]  BY Zenon
<1>3. \A j \in Targets : Holder(n, j) /\ Newest(n, j)  BY <1>2 DEF Shape, Holder, Newest
<1> QED  BY <1>1, <1>3 DEF Shape

\* The transaction that holds the rest of the target set is sent on.
LEMMA RevivedKeeps ==
    ASSUME NEW m, NEW t, Shape(t, m), NEW i \in Targets, NEW n \in [Tids -> Trans],
           \A k \in Tids \ {Req(i)} : n[k] = t[k],
           t[Req(i)].next \in Targets, Sane(n[Req(i)], m = "INVITE"),
           n[Req(i)].next > t[Req(i)].next, n[Req(i)].state # "absent"
    PROVE  Shape(n, m)
<1> USE TidCases
<1>1. \A k \in Tids : Sane(n[k], IsInvite(k, m))
  <2>1. IsInvite(Req(i), m) = (m = "INVITE")  BY Zenon DEF IsInvite
  <2> QED  BY <2>1 DEF Shape
<1>2. \A k \in Tids : t[k].next \in Nat /\ n[k].next \in Nat
    BY UacAssumption DEF Shape, Trans
<1>3. ASSUME NEW j \in Targets \ {i}
      PROVE  /\ n[Req(j)] = t[Req(j)] /\ n[Req(j)].next = 0
             /\ n[Req(j)].state # "absent" => j < i
             /\ n[Req(j)].state \notin Waiting
             /\ i < t[Req(i)].next
  <2>1. Holder(t, i)  BY DEF Shape
  <2>2. t[Req(i)].next > 0  BY UacAssumption DEF Targets
  <2> QED  BY <2>1, <2>2, Zenon DEF Holder
<1>4. i < n[Req(i)].next
  <2>1. Holder(t, i) /\ t[Req(i)].next > 0  BY UacAssumption DEF Shape, Targets
  <2>2. t[Req(i)].next \in Nat /\ n[Req(i)].next \in Nat /\ i \in Nat
      BY <1>2, TargetNat, Zenon
  <2> QED  BY <2>1, <2>2 DEF Holder
<1>5. ASSUME NEW j \in Targets PROVE Holder(n, j) /\ Newest(n, j)
  <2>1. CASE j = i  BY <1>3, <1>4, <2>1, UacAssumption DEF Holder, Newest, Unborn, Targets
  <2>2. CASE j # i  BY <1>3, <2>2 DEF Holder, Newest
  <2> QED  BY <2>1, <2>2
<1>6. \A j \in Targets : n[<<"CANCEL", j>>].next = 0  BY DEF Shape
<1> QED  BY <1>1, <1>5, <1>6 DEF Shape

\* A copy of the holder goes to the next target, in which case the holder
\* stops waiting, or to none.
LEMMA ForkedKeeps ==
    ASSUME NEW m, NEW t, Shape(t, m), NEW i \in Targets, NEW k \in Targets,
           t[Req(i)].next \in Targets, k >= t[Req(i)].next,
           NEW n \in [Tids -> Trans],
           \A id \in Tids \ {Req(i), Req(k)} : n[id] = t[id],
           Sane(n[Req(i)], m = "INVITE"), Sane(n[Req(k)], m = "INVITE"),
           n[Req(i)].next = 0, n[Req(i)].state # "absent", n[Req(k)].next > k,
           n[Req(k)].state = "0" \/ (n[Req(k)].state \in Waiting /\ n[Req(i)].state \notin Waiting),
           n[Req(k)].next \in Targets => n[Req(i)].state \notin Waiting
    PROVE  Shape(n, m)
<1> USE TidCases
<1>1. \A id \in Tids : Sane(n[id], IsInvite(id, m))
  <2>1. IsInvite(Req(i), m) = (m = "INVITE") /\ IsInvite(Req(k), m) = (m = "INVITE")
      BY Zenon DEF IsInvite
  <2> TAKE id \in Tids
  <2>2. CASE id \in {Req(i), Req(k)}  BY <2>1, <2>2
  <2>3. CASE id \notin {Req(i), Req(k)}  BY <2>3 DEF Shape
  <2> QED  BY <2>2, <2>3
<1>2. \A id \in Tids : t[id].next \in Nat /\ n[id].next \in Nat
    BY UacAssumption DEF Shape, Trans
<1>3. /\ i \in Nat /\ k \in Nat /\ t[Req(i)].next \in Nat /\ t[Req(i)].next > 0
      /\ n[Req(k)].next \in Nat
    BY <1>2, TargetNat, Zenon
<1>4. i < t[Req(i)].next  BY <1>3 DEF Shape, Holder
<1>5. i < k  BY <1>3, <1>4
<1>6. ASSUME NEW j \in Targets \ {i, k}
      PROVE  /\ n[Req(j)] = t[Req(j)] /\ n[Req(j)].next = 0
             /\ n[Req(j)].state # "absent" => j < i
             /\ n[Req(j)].state \notin Waiting
             /\ j \in Nat
  <2>1. Holder(t, i)  BY DEF Shape
  <2>2. n[Req(j)] = t[Req(j)]  BY Zenon
  <2> QED  BY <1>3, <2>1, <2>2, TargetNat DEF Holder
<1>7. Holder(n, i) /\ \A j \in Targets \ {i, k} : Holder(n, j)  BY <1>6 DEF Holder
<1>8. Holder(n, k)
  <2> SUFFICES ASSUME NEW j \in Targets \ {k}
               PROVE  /\ n[Req(j)].next = 0
                      /\ n[Req(j)].state # "absent" => j < k
                      /\ n[Req(k)].next \in Targets => n[Req(j)].state \notin Waiting
      BY <1>3 DEF Holder
  <2>1. CASE j = i  BY <1>5, <2>1
  <2>2. CASE j # i
    <3>1. /\ n[Req(j)].next = 0 /\ n[Req(j)].state \notin Waiting /\ j \in Nat
          /\ n[Req(j)].state # "absent" => j < i
        BY <1>6, <2>2
    <3> QED  BY <1>3, <1>5, <3>1
  <2> QED  BY <2>1, <2>2
<1>9. ASSUME NEW j \in Targets PROVE Newest(n, j)
  <2>1. CASE j = k
    <3> SUFFICES ASSUME n[Req(k)].state \in Waiting, NEW l \in Targets \ {k}
                 PROVE  n[Req(l)].state \notin Waiting /\ (l > k => n[Req(l)].state \in Unborn)
        BY <2>1 DEF Newest
    <3>1. CASE l = i  BY <1>3, <1>5, <3>1 DEF Waiting
    <3>2. CASE l # i
      <4>1. /\ n[Req(l)].state \notin Waiting /\ l \in Nat
            /\ n[Req(l)].state # "absent" => l < i
          BY <1>6, <3>2
      <4> QED  BY <1>3, <1>5, <4>1 DEF Unborn
    <3> QED  BY <3>1, <3>2
  <2>2. CASE j = i
    <3> SUFFICES ASSUME n[Req(i)].state \in Waiting, NEW l \in Targets \ {i}
                 PROVE  n[Req(l)].state \notin Waiting /\ (l > i => n[Req(l)].state \in Unborn)
        BY <2>2 DEF Newest
    <3>1. CASE l = k  BY <3>1 DEF Waiting, Unborn
    <3>2. CASE l # k
      <4>1. /\ n[Req(l)].state \notin Waiting /\ l \in Nat
            /\ n[Req(l)].state # "absent" => l < i
          BY <1>6, <3>2
      <4> QED  BY <1>3, <4>1 DEF Unborn
    <3> QED  BY <3>1, <3>2
  <2>3. CASE j \notin {i, k}  BY <1>6, <2>3 DEF Newest
  <2> QED  BY <2>1, <2>2, <2>3
<1>10. \A j \in Targets : n[<<"CANCEL", j>>].next = 0  BY DEF Shape
<1> QED  BY <1>1, <1>7, <1>8, <1>9, <1>10 DEF Shape

-----------------------------------------------------------------------------
(* try_next_ip.                                                            *)

\* Only the holder has targets left.
LEMMA CandidateFacts ==
    ASSUME Shape(tr, method), NEW id \in Tids, Candidates(tr[id]) # {}
    PROVE  /\ tr[id].next \in Targets /\ \E i \in Targets : id = Req(i)
           /\ \A d \in Candidates(tr[id]) : d \in Targets /\ d >= tr[id].next
<1>1. PICK d \in Targets : tr[id].next > 0 /\ d >= tr[id].next  BY DEF Candidates
<1>2. tr[id].next \in Nat  BY UacAssumption DEF Shape, Trans
<1>3. tr[id].next \in Targets  BY <1>1, <1>2, UacAssumption DEF Targets
<1>4. \A i \in Targets : id # <<"CANCEL", i>>  BY <1>1 DEF Shape
<1> QED  BY <1>3, <1>4, TidCases DEF Candidates

\* The transaction itself is sent to the next target, or has none left.
SentOn(x, v, sent, invite) ==
    /\ v \in Trans /\ v.disable_bl = x.disable_bl /\ v.timers[2] \in {None, "M"}
    /\ IF sent = 0
       THEN /\ v.state = x.state /\ v.timers[2] = None /\ v.timers[1] = x.timers[1]
            /\ v.next = IF x.next > 0 THEN NTargets + 1 ELSE 0
            /\ x.next \notin Targets => v.dst = x.dst
       ELSE /\ v.state = IF invite THEN "CALLING" ELSE "TRYING"
            /\ v.timers[1] = IF x.timers[1] # None THEN x.timers[1]
                             ELSE IF invite THEN "B" ELSE "F"
            /\ v.next = sent + 1 /\ v.dst = sent

\* A copy of it is, and it has handed over the target set.
HandedOver(x, u) ==
    /\ u \in Trans /\ u.state = x.state /\ u.disable_bl = x.disable_bl
    /\ u.dst = x.dst /\ u.timers[2] = None /\ u.timers[1] = x.timers[1] /\ u.next = 0

Copied(x, w, sent, invite) ==
    /\ w \in Trans /\ w.timers[2] \in {None, "M"}
    /\ IF sent = 0
       THEN /\ w.state = "0" /\ w.timers[2] = None /\ w.timers[1] = x.timers[1]
            /\ w.next = NTargets + 1
       ELSE /\ w.state = IF invite THEN "CALLING" ELSE "TRYING"
            /\ w.timers[1] = IF x.timers[1] # None THEN x.timers[1]
                             ELSE IF invite THEN "B" ELSE "F"
            /\ w.next = sent + 1 /\ w.dst = sent

Moved(b, d, n) == [b EXCEPT !.dst = d, !.next = n]

LEMMA MovedFields ==
    ASSUME NEW b \in Trans, NEW d \in Targets, NEW n \in 0 .. NTargets + 1
    PROVE  LET v == Moved(b, d, n)
           IN  /\ v \in Trans /\ v.dst = d /\ v.next = n /\ v.state = b.state
               /\ v.timers = b.timers /\ v.disable_bl = b.disable_bl
BY Zenon DEF Trans, Moved

LEMMA AttemptStays ==
    ASSUME TargetsOrdered, Shape(tr, method), NEW id \in Tids, NEW use_new \in BOOLEAN,
           NEW sent \in Candidates(tr[id]) \cup {0},
           ~use_new \/ Candidates(tr[id]) = {}
    PROVE  LET o == Attempt(id, use_new, sent)
           IN  /\ o.ok = (sent # 0) /\ o.tr \in [Tids -> Trans]
               /\ \A k \in Tids \ {id} : o.tr[k] = tr[k]
               /\ SentOn(tr[id], o.tr[id], sent, Invite(id))
               /\ o.answer = IF sent = 0 THEN answer
                             ELSE [answer EXCEPT ![<<id, sent>>] = "silent"]
               /\ o.blacklist \subseteq blacklist \cup Targets
<1> DEFINE x == clear_timer(tr[id], "M")
           C == Candidates(x)
           last == IF sent # 0 THEN sent ELSE IF C # {} THEN Highest(C) ELSE x.dst
           nxt == IF sent # 0 THEN sent + 1 ELSE IF x.next > 0 THEN NTargets + 1 ELSE 0
           moved == Moved(x, last, nxt)
           v == IF sent # 0 THEN Started(moved, Invite(id)) ELSE moved
           o == Attempt(id, use_new, sent)
<1>1. tr[id] \in Trans /\ tr \in [Tids -> Trans]  BY DEF Shape
<1>2. /\ Same(tr[id], x) /\ x.state = tr[id].state
      /\ x.timers[1] = tr[id].timers[1] /\ x.timers[2] = None
  <2>1. "M" \in TimerTypes \ {None} /\ SlotOf("M") = 2  BY DEF TimerTypes, None, SlotOf
  <2> QED  BY <1>1, <2>1, ClearTimer
<1>3. x \in Trans /\ x.next = tr[id].next /\ x.dst = tr[id].dst /\ x.disable_bl = tr[id].disable_bl
    BY <1>2 DEF Same
<1> HIDE DEF x
<1>4. C = Candidates(tr[id])  BY <1>3 DEF Candidates
<1>5. C \subseteq Targets  BY DEF Candidates
<1>6. last \in Targets
  <2>1. x.dst \in Targets  BY <1>3 DEF Trans
  <2>2. C # {} => Highest(C) \in Targets  BY <1>5 DEF TargetsOrdered
  <2>3. sent # 0 => sent \in Targets  BY <1>4, <1>5
  <2> QED  BY <2>1, <2>2, <2>3
<1>7. nxt \in 0 .. NTargets + 1
  <2>1. sent # 0 => sent \in Targets  BY <1>4, <1>5
  <2> QED  BY <2>1, UacAssumption DEF Targets
<1>c. x.next \notin Targets => C = {}  BY <1>3, <1>4, CandidateFacts
<1>8. /\ moved \in Trans /\ moved.dst = last /\ moved.next = nxt /\ moved.state = x.state
      /\ moved.timers = x.timers /\ moved.disable_bl = x.disable_bl
  <2> HIDE DEF last, nxt, C
  <2> QED  BY <1>3, <1>6, <1>7, MovedFields
<1>9. Invite(id) \in BOOLEAN  BY DEF Invite
<1>10. SentOn(tr[id], v, sent, Invite(id))
  <2>1. CASE sent = 0
    <3>1. v = moved  BY <2>1
    <3>2. x.next \notin Targets => last = x.dst  BY <2>1, <1>c
    <3>3. nxt = IF x.next > 0 THEN NTargets + 1 ELSE 0  BY <2>1, Zenon
    <3> HIDE DEF v, moved, last, nxt, C
    <3> QED  BY <1>2, <1>3, <1>8, <2>1, <3>1, <3>2, <3>3 DEF SentOn
  <2>2. CASE sent # 0
    <3>1. v = Started(moved, Invite(id)) /\ last = sent /\ nxt = sent + 1  BY <2>2
    <3> HIDE DEF v, moved, last, nxt, C
    <3>2. /\ Same(moved, v)
          /\ v.state = IF Invite(id) THEN "CALLING" ELSE "TRYING"
          /\ v.timers[1] = IF moved.timers[1] # None THEN moved.timers[1]
                           ELSE IF Invite(id) THEN "B" ELSE "F"
          /\ v.timers[2] = IF moved.next \in Targets THEN "M" ELSE moved.timers[2]
        BY <1>8, <1>9, <3>1, StartedFields
    <3> QED  BY <1>2, <1>3, <1>8, <2>2, <3>1, <3>2 DEF SentOn, Same
  <2> QED  BY <2>1, <2>2, Zenon
<1>11. /\ o.ok = (sent # 0) /\ o.tr = [tr EXCEPT ![id] = x, ![id] = v]
       /\ o.answer = IF sent = 0 THEN answer ELSE [answer EXCEPT ![<<id, sent>>] = "silent"]
       /\ o.blacklist = Blacklisted({d \in C : sent = 0 \/ d < sent})
    BY <1>4, Zenon DEF Attempt, x, Moved
<1>12. v \in Trans  BY <1>10, Zenon DEF SentOn
<1> HIDE DEF v, C
<1> QED  BY <1>1, <1>3, <1>5, <1>10, <1>11, <1>12 DEF Blacklisted

LEMMA AttemptForks ==
    ASSUME TargetsOrdered, Shape(tr, method), NEW i \in Targets, NEW sent \in Candidates(tr[Req(i)]) \cup {0},
           Candidates(tr[Req(i)]) # {}
    PROVE  LET o == Attempt(Req(i), TRUE, sent)
           IN  /\ o.ok = (sent # 0) /\ o.tr \in [Tids -> Trans]
               /\ o.blacklist \subseteq blacklist \cup Targets
               /\ HandedOver(tr[Req(i)], o.tr[Req(i)])
               /\ \E k \in Candidates(tr[Req(i)]) :
                     /\ k > i /\ (sent # 0 => sent >= k)
                     /\ \A id \in Tids \ {Req(i), Req(k)} : o.tr[id] = tr[id]
                     /\ Copied(tr[Req(i)], o.tr[Req(k)], sent, Invite(Req(k)))
                     /\ o.answer = IF sent = 0 THEN answer
                                   ELSE [answer EXCEPT ![<<Req(k), sent>>] = "silent"]
<1> DEFINE id == Req(i)
           x == clear_timer(tr[id], "M")
           C == Candidates(x)
           k == Lowest(C)
           y == Req(k)
           old == [x EXCEPT !.next = 0]
           base == [NewTrans EXCEPT !.disable_bl = x.disable_bl, !.timers[1] = x.timers[1]]
           last == IF sent # 0 THEN sent ELSE Highest(C)
           nxt == IF sent # 0 THEN sent + 1 ELSE NTargets + 1
           moved == Moved(base, last, nxt)
           w == IF sent # 0 THEN Started(moved, Invite(y)) ELSE moved
           o == Attempt(id, TRUE, sent)
<1>1. id \in Tids /\ tr[id] \in Trans /\ tr \in [Tids -> Trans]  BY TidCases, Zenon DEF Shape
<1>2. /\ Same(tr[id], x) /\ x.state = tr[id].state
      /\ x.timers[1] = tr[id].timers[1] /\ x.timers[2] = None
  <2>1. "M" \in TimerTypes \ {None} /\ SlotOf("M") = 2  BY DEF TimerTypes, None, SlotOf
  <2> QED  BY <1>1, <2>1, ClearTimer
<1>3. x \in Trans /\ x.next = tr[id].next /\ x.dst = tr[id].dst /\ x.disable_bl = tr[id].disable_bl
    BY <1>2 DEF Same
<1> HIDE DEF x
<1>4. C = Candidates(tr[id])  BY <1>3 DEF Candidates
<1>5. C \in SUBSET Targets /\ C # {}  BY <1>4 DEF Candidates
<1>6. k \in C /\ \A d \in C : k <= d  BY <1>5 DEF TargetsOrdered
<1>7. sent # 0 => sent \in C  BY <1>4
<1>8. tr[id].next \in Targets /\ k >= tr[id].next /\ k \in Targets
    BY <1>1, <1>4, <1>5, <1>6, CandidateFacts
<1>9. k > i
  <2>1. Holder(tr, i)  BY DEF Shape
  <2>2. tr[id].next \in Nat /\ tr[id].next > 0 /\ k \in Nat /\ i \in Nat  BY <1>8, TargetNat
  <2> QED  BY <1>8, <2>1, <2>2 DEF Holder
<1>10. y \in Tids /\ y # id
  <2>1. i # k  BY <1>8, <1>9, TargetNat
  <2> QED  BY <1>8, <2>1, TidCases, Zenon
<1>11. last \in Targets /\ nxt \in 0 .. NTargets + 1
  <2>1. Highest(C) \in Targets  BY <1>5 DEF TargetsOrdered
  <2>2. sent # 0 => sent \in Targets  BY <1>5, <1>7
  <2>3. sent # 0 => sent + 1 \in 0 .. NTargets + 1  BY <2>2, UacAssumption DEF Targets
  <2> QED  BY <2>1, <2>2, <2>3, UacAssumption
<1>12. HandedOver(tr[id], old)
  <2>1. 0 \in 0 .. NTargets + 1  BY UacAssumption
  <2> QED  BY <1>2, <1>3, <2>1 DEF HandedOver, Trans
<1>13. base \in Trans /\ base.state = "0" /\ base.timers[1] = x.timers[1] /\ base.timers[2] = None
  <2> DEFINE b == [NewTrans EXCEPT !.disable_bl = x.disable_bl]
  <2>1. x.disable_bl \in BOOLEAN /\ x.timers[1] \in TimerTypes  BY <1>3 DEF Trans
  <2>2. NewTrans \in Trans /\ NewTrans.state = "0" /\ NewTrans.timers[2] = None  BY Fresh
  <2>3. b \in Trans /\ b.state = "0" /\ b.timers[2] = None  BY <2>1, <2>2 DEF Trans
  <2>4. base = [b EXCEPT !.timers = [b.timers EXCEPT ![1] = x.timers[1]]]  OBVIOUS
  <2> HIDE DEF b, base
  <2>5. [b.timers EXCEPT ![1] = x.timers[1]] \in [0 .. 2 -> TimerTypes]  BY <2>1, <2>3 DEF Trans
  <2> QED  BY <2>1, <2>3, <2>4, <2>5 DEF Trans
<1> HIDE DEF base, old, last, nxt, C, k
<1>14. /\ moved \in Trans /\ moved.dst = last /\ moved.next = nxt /\ moved.state = "0"
       /\ moved.timers[1] = x.timers[1] /\ moved.timers[2] = None
    BY <1>11, <1>13, MovedFields
<1>15. Copied(tr[id], w, sent, Invite(y))
  <2>1. CASE sent = 0
    <3>1. w = moved /\ nxt = NTargets + 1  BY <2>1 DEF nxt
    <3> QED  BY <1>2, <1>14, <2>1, <3>1 DEF Copied
  <2>2. CASE sent # 0
    <3>1. w = Started(moved, Invite(y)) /\ last = sent /\ nxt = sent + 1  BY <2>2 DEF last, nxt
    <3>2. Invite(y) \in BOOLEAN  BY Zenon DEF Invite
    <3> HIDE DEF w, moved
    <3>3. /\ Same(moved, w)
          /\ w.state = IF Invite(y) THEN "CALLING" ELSE "TRYING"
          /\ w.timers[1] = IF moved.timers[1] # None THEN moved.timers[1]
                           ELSE IF Invite(y) THEN "B" ELSE "F"
          /\ w.timers[2] = IF moved.next \in Targets THEN "M" ELSE moved.timers[2]
        BY <1>14, <3>1, <3>2, StartedFields, Zenon
    <3> QED  BY <1>2, <1>14, <2>2, <3>1, <3>3 DEF Copied, Same
  <2> QED  BY <2>1, <2>2
<1>16. /\ o.ok = (sent # 0) /\ o.tr = [tr EXCEPT ![id] = old, ![y] = w]
       /\ o.answer = IF sent = 0 THEN answer ELSE [answer EXCEPT ![<<y, sent>>] = "silent"]
       /\ o.blacklist = Blacklisted({d \in C : sent = 0 \/ d < sent})
  <2>1. x.next > 0  BY <1>3, <1>8, TargetNat
  <2> DEFINE l == IF sent # 0 THEN sent ELSE IF C # {} THEN Highest(C) ELSE x.dst
             n == IF sent # 0 THEN sent + 1 ELSE IF x.next > 0 THEN NTargets + 1 ELSE 0
  <2>2. l = last /\ n = nxt  BY <1>5, <2>1 DEF last, nxt
  <2>3. Moved(base, l, n) = moved  BY <2>2
  <2>4. o.ok = (sent # 0)  BY DEF Attempt
  <2>5. o.blacklist = Blacklisted({d \in C : sent = 0 \/ d < sent})  BY DEF Attempt, x, C
  <2>6. o.answer = IF sent = 0 THEN answer ELSE [answer EXCEPT ![<<y, sent>>] = "silent"]
      BY <1>5 DEF Attempt, x, C, k, Req
  <2>7. o.tr = [tr EXCEPT ![id] = old, ![y] = IF sent # 0 THEN Started(Moved(base, l, n), Invite(y))
                                                       ELSE Moved(base, l, n)]
      BY <1>5 DEF Attempt, x, Moved, base, old, C, k, Req
  <2> QED  BY <2>3, <2>4, <2>5, <2>6, <2>7, Zenon
<1>17. w \in Trans /\ old \in Trans  BY <1>12, <1>15, Zenon DEF Copied, HandedOver
<1>18. sent # 0 => sent >= k
  <2>1. k \in Nat  BY <1>8, TargetNat
  <2>2. sent # 0 => sent \in Nat  BY <1>5, <1>7, TargetNat
  <2> QED  BY <1>6, <1>7, <2>1, <2>2
<1> HIDE DEF w
<1>19. /\ o.tr \in [Tids -> Trans] /\ o.tr[id] = old /\ o.tr[y] = w
       /\ \A j \in Tids \ {id, y} : o.tr[j] = tr[j]
  <2> HIDE DEF id, y, o
  <2> QED  BY <1>1, <1>10, <1>16, <1>17
<1>20. o.blacklist \subseteq blacklist \cup Targets  BY <1>5, <1>16, Zenon DEF Blacklisted
<1> QED  BY <1>4, <1>6, <1>9, <1>12, <1>15, <1>16, <1>18, <1>19, <1>20, Zenon

-----------------------------------------------------------------------------
(* What the UA is told.                                                    *)

LEMMA AppendFacts ==
    ASSUME NEW s \in Seq(Verdicts), NEW c \in Verdicts
    PROVE  /\ Append(s, c) \in Seq(Verdicts) /\ Append(s, c) # <<>>
           /\ Len(Append(s, c)) > 1 => s # <<>>
           /\ IF s = <<>> THEN Append(s, c)[1] = c ELSE Append(s, c)[1] = s[1]
           /\ Has408(s) \/ c = "408" => Has408(Append(s, c))
<1>1. Append(s, c) \in Seq(Verdicts)  OBVIOUS
<1>2. Len(Append(s, c)) = Len(s) + 1 /\ Len(s) \in Nat  OBVIOUS
<1>3. Append(s, c)[Len(s) + 1] = c /\ \A i \in 1 .. Len(s) : Append(s, c)[i] = s[i]  OBVIOUS
<1>4. DOMAIN s = 1 .. Len(s) /\ DOMAIN Append(s, c) = 1 .. (Len(s) + 1)  BY <1>2
<1>5. s # <<>> => Len(s) > 0  OBVIOUS
<1>6. s = <<>> => Len(s) = 0  OBVIOUS
<1>7. Append(s, c) # <<>>  BY <1>1, <1>2
<1>8. ASSUME Has408(s) PROVE Has408(Append(s, c))
  <2>1. PICK i \in DOMAIN s : s[i] = "408"  BY <1>8 DEF Has408
  <2>2. i \in 1 .. Len(s) /\ i \in DOMAIN Append(s, c)  BY <1>2, <1>4
  <2> QED  BY <1>3, <2>1, <2>2 DEF Has408
<1>9. ASSUME c = "408" PROVE Has408(Append(s, c))
  <2>1. Len(s) + 1 \in DOMAIN Append(s, c)  BY <1>2, <1>4
  <2> QED  BY <1>3, <1>9, <2>1 DEF Has408
<1>10. s = <<>> => Append(s, c)[1] = c  BY <1>3, <1>6
<1>11. s # <<>> => Append(s, c)[1] = s[1]  BY <1>2, <1>3, <1>5
<1> QED  BY <1>1, <1>2, <1>5, <1>6, <1>7, <1>8, <1>9, <1>10, <1>11

\* At most one transaction waits.
LEMMA LiveFacts ==
    ASSUME Shape(tr, method)
    PROVE  /\ \A id \in Live : Live = {id}
           /\ \A i \in Targets : Req(i) \in Live <=> tr[Req(i)].state \in Waiting
           /\ \A id \in Live : \E i \in Targets : id = Req(i)
<1>1. \A i \in Targets : Req(i) \in Live <=> tr[Req(i)].state \in Waiting
    BY TidCases, Zenon DEF Live
<1>2. \A id \in Live : \E i \in Targets : id = Req(i)  BY TidCases DEF Live
<1>3. \A i, j \in Targets : Req(i) \in Live /\ Req(j) \in Live => i = j
    BY <1>1 DEF Shape, Newest
<1> QED  BY <1>1, <1>2, <1>3

\* The transactions that wait are those that waited.
LEMMA LiveSame ==
    ASSUME \A id \in Tids : id[1] = "REQ" =>
              (tr'[id].state \in Waiting <=> tr[id].state \in Waiting)
    PROVE  Live' = Live
BY DEF Live

LEMMA ToldKept ==
    ASSUME ToldRight, UNCHANGED <<method, ticket, told>>, Live' = {} <=> Live = {}
    PROVE  ToldRight'
BY DEF ToldRight

LEMMA ToldRevived ==
    ASSUME ToldRight, UNCHANGED <<method, ticket, told>>, Live' # {},
           told # <<>> => Has408(told) /\ (method = "OTHER" => told[1] = "408")
    PROVE  ToldRight'
BY DEF ToldRight

LEMMA ToldEnded ==
    ASSUME ToldRight, told \in Seq(Verdicts), UNCHANGED <<method, ticket>>,
           Live # {}, Live' = {}, NEW c \in Verdicts, told' = Append(told, c)
    PROVE  ToldRight'
<1>1. told' # <<>> /\ (Len(told') > 1 => told # <<>>)
      /\ (told # <<>> => told'[1] = told[1])
    BY AppendFacts
<1>2. told # <<>> /\ method = "OTHER" => told[1] = "408"  BY DEF ToldRight
<1> QED  BY <1>1, <1>2 DEF ToldRight

LEMMA ToldLate ==
    ASSUME told \in Seq(Verdicts), method = "INVITE", method' = method, told' = Append(told, "408")
    PROVE  ToldRight'
<1>1. "408" \in Verdicts  BY DEF Verdicts
<1>2. told' # <<>> /\ Has408(told')  BY <1>1, AppendFacts
<1> QED  BY <1>2 DEF ToldRight

\* A handler that leaves a transaction and its branches alone.
LEMMA SpentElsewhere ==
    ASSUME NEW i \in Targets, Spent(i), method' = method, tr'[Req(i)] = tr[Req(i)],
           told \in Seq(Verdicts), tr[Req(i)] \in Trans,
           \A d \in Targets : answer'[<<Req(i), d>>] = answer[<<Req(i), d>>],
           told' = told \/ \E c \in Verdicts : told' = Append(told, c)
    PROVE  Spent(i)'
<1>1. told # <<>> => told' # <<>> /\ told'[1] = told[1]  BY AppendFacts
<1>2. tr[Req(i)].dst \in Targets  BY DEF Trans
<1> QED  BY <1>1, <1>2 DEF Spent

-----------------------------------------------------------------------------
(* The steps of the handlers.                                              *)

WheelRight == wheel.step # "idle" => IsInvite(wheel.t, method) /\ tr[wheel.t].state \notin {"absent", "0"}

LEMMA WheelKept ==
    ASSUME WheelRight, wheel \in [step : {"idle", "cancel", "timeout"}, t : Tids],
           UNCHANGED <<method, wheel>>,
           \A id \in Tids : tr'[id].state \in {"absent", "0"} => tr[id].state \in {"absent", "0"}
    PROVE  WheelRight'
BY DEF WheelRight

\* The state outside the bucket that a handler writes.
TypesRest ==
    /\ blacklist \in SUBSET Targets
    /\ answer \in AnswerSet
    /\ told \in Seq(Verdicts)
    /\ nested \in SUBSET Tids

\* What the UA learns when the state of transaction id changes.
TellsRight(id) ==
    \/ told' = told /\ (id[1] = "REQ" => (tr'[id].state \in Waiting <=> tr[id].state \in Waiting))
    \/ /\ id[1] = "REQ" /\ tr[id].state \in Waiting /\ tr'[id].state \notin Waiting
       /\ \E c \in Verdicts : told' = Append(told, c)

\* A verdict ends the only wait.
Ends == told' # told => Live # {} /\ Live' = {}

\* Transaction id changes, and no other: it goes on waiting or ends.
QuietChange(id) ==
    /\ UNCHANGED <<method, ticket, wheel>> /\ TypesRest'
    /\ tr' \in [Tids -> Trans] /\ \A k \in Tids \ {id} : tr'[k] = tr[k]
    /\ Sane(tr'[id], Invite(id)) /\ Quiet(tr[id], tr'[id])
    /\ tr[id].state # "absent" /\ (tr'[id].state = "0" => tr[id].state = "0")
    /\ TellsRight(id)
    /\ Elsewhere(answer, answer', {id})
    /\ \A i \in Targets : id = Req(i) => Spent(i)'

LEMMA QuietStep ==
    ASSUME IInv, NEW id \in Tids, QuietChange(id)
    PROVE  IInv' /\ Ends
<1>a. UNCHANGED <<method, ticket, wheel>> /\ TypesRest'  BY Zenon DEF QuietChange
<1>b. tr' \in [Tids -> Trans] /\ \A k \in Tids \ {id} : tr'[k] = tr[k]  BY Zenon DEF QuietChange
<1>c. Sane(tr'[id], Invite(id)) /\ Quiet(tr[id], tr'[id])  BY Zenon DEF QuietChange
<1>d. tr[id].state # "absent" /\ (tr'[id].state = "0" => tr[id].state = "0")  BY Zenon DEF QuietChange
<1>e. TellsRight(id)  BY Zenon DEF QuietChange
<1>1. Shape(tr, method) /\ told \in Seq(Verdicts) /\ ToldRight  BY Zenon DEF IInv, TypeOK
<1>2. Shape(tr', method)
  <2>1. IsInvite(id, method) = Invite(id)  BY Zenon DEF IsInvite, Invite
  <2> QED  BY <1>1, <1>b, <1>c, <2>1, QuietKeeps
<1>3. Shape(tr, method)'  BY <1>a, <1>2
<1>4. ToldRight' /\ Ends
  <2>1. CASE told' = told /\ (id[1] = "REQ" => (tr'[id].state \in Waiting <=> tr[id].state \in Waiting))
    <3>1. Live' = Live  BY <1>b, <2>1, LiveSame, Zenon
    <3> QED  BY <1>1, <1>a, <2>1, <3>1, ToldKept DEF Ends
  <2>2. CASE /\ id[1] = "REQ" /\ tr[id].state \in Waiting /\ tr'[id].state \notin Waiting
             /\ \E c \in Verdicts : told' = Append(told, c)
    <3>1. id \in Live  BY <2>2 DEF Live
    <3>2. Live = {id}  BY <1>1, <3>1, LiveFacts, Zenon
    <3>3. Live' = {}  BY <1>b, <2>2, <3>2 DEF Live
    <3>4. PICK c \in Verdicts : told' = Append(told, c)  BY <2>2, Zenon
    <3> QED  BY <1>1, <1>a, <3>2, <3>3, <3>4, ToldEnded DEF Ends
  <2> QED  BY <1>e, <2>1, <2>2, Zenon DEF TellsRight
<1>5. WheelRight'
  <2>1. \A k \in Tids : tr'[k].state \in {"absent", "0"} => tr[k].state \in {"absent", "0"}
      BY <1>b, <1>c, <1>d DEF Quiet
  <2>2. WheelRight /\ wheel \in [step : {"idle", "cancel", "timeout"}, t : Tids]
      BY Zenon DEF IInv, TypeOK, WheelRight, Invite, IsInvite
  <2> QED  BY <1>a, <2>1, <2>2, WheelKept
<1>6. ASSUME NEW i \in Targets PROVE Spent(i)'
  <2>1. CASE id = Req(i)  BY <2>1, Zenon DEF QuietChange
  <2>2. CASE id # Req(i)
    <3>1. Spent(i) /\ tr[Req(i)] \in Trans /\ Req(i) \in Tids  BY <1>1, TidCases, Zenon DEF IInv, Shape
    <3>2. told' = told \/ \E c \in Verdicts : told' = Append(told, c)  BY <1>e, Zenon DEF TellsRight
    <3>3. \A d \in Targets : answer'[<<Req(i), d>>] = answer[<<Req(i), d>>]
        BY <2>2, <3>1, Zenon DEF QuietChange, Elsewhere
    <3>4. tr'[Req(i)] = tr[Req(i)] /\ method' = method  BY <1>a, <1>b, <2>2, <3>1, Zenon
    <3> QED  BY <1>1, <3>1, <3>2, <3>3, <3>4, SpentElsewhere, Zenon
  <2> QED  BY <2>1, <2>2, Zenon
<1>7. ticket # 0
  <2>1. Absent.state = "absent"  BY Fresh, Zenon
  <2> QED  BY <1>d, <2>1 DEF IInv
<1>8. TypeOK'  BY <1>a, <1>b, Zenon DEF IInv, TypeOK, TypesRest
<1>9. /\ ticket' # 0 /\ \A i \in Targets : Spent(i)'
      /\ (wheel.step # "idle" => Invite(wheel.t) /\ tr[wheel.t].state \notin {"absent", "0"})'
  BY <1>a, <1>5, <1>6, <1>7 DEF WheelRight, IsInvite, Invite
<1> QED  BY <1>3, <1>4, <1>8, <1>9, Zenon DEF IInv

\* The transaction is sent to the next target.  One that waits no more does
\* so only after a timeout.
RevivedChange(i) ==
    /\ UNCHANGED <<method, ticket, told, wheel>> /\ TypesRest'
    /\ tr' \in [Tids -> Trans] /\ \A k \in Tids \ {Req(i)} : tr'[k] = tr[k]
    /\ Sane(tr'[Req(i)], method = "INVITE") /\ tr[Req(i)].next \in Targets
    /\ tr'[Req(i)].next > tr[Req(i)].next /\ tr'[Req(i)].state \in Waiting
    /\ \/ tr[Req(i)].state \in Waiting
       \/ method = "OTHER" /\ answer[<<Req(i), tr[Req(i)].dst>>] \notin {"2xx", "6xx"}
    /\ Elsewhere(answer, answer', {Req(i)})

LEMMA RevivedStep ==
    ASSUME IInv, NEW i \in Targets, RevivedChange(i)
    PROVE  IInv' /\ Ends
<1>a. UNCHANGED <<method, ticket, told, wheel>> /\ TypesRest'  BY Zenon DEF RevivedChange
<1>b. tr' \in [Tids -> Trans] /\ \A k \in Tids \ {Req(i)} : tr'[k] = tr[k]
    BY Zenon DEF RevivedChange
<1>c. /\ Sane(tr'[Req(i)], method = "INVITE") /\ tr[Req(i)].next \in Targets
      /\ tr'[Req(i)].next > tr[Req(i)].next
    BY Zenon DEF RevivedChange
<1>d. tr'[Req(i)].state \in Waiting /\ Req(i) \in Tids /\ Req(i)[1] = "REQ"
    BY TidCases, Zenon DEF RevivedChange
<1>1. Shape(tr, method) /\ told \in Seq(Verdicts) /\ ToldRight /\ Spent(i)  BY Zenon DEF IInv, TypeOK
<1>0. \A s \in Waiting : s # "absent" /\ s # "0"  BY DEF Waiting
<1>2. Shape(tr', method)
  <2>1. tr'[Req(i)].state # "absent"  BY <1>0, <1>d, Zenon
  <2> QED  BY <1>1, <1>b, <1>c, <2>1, RevivedKeeps
<1>3. Shape(tr, method)'  BY <1>a, <1>2
<1>4. ToldRight'
  <2>1. Live' # {}  BY <1>d, Zenon DEF Live
  <2>2. ASSUME told # <<>> PROVE Has408(told) /\ (method = "OTHER" => told[1] = "408")
    <3>1. CASE tr[Req(i)].state \in Waiting
      <4>1. Live # {}  BY <1>d, <3>1, Zenon DEF Live
      <4> QED  BY <1>1, <2>2, <4>1, Zenon DEF ToldRight
    <3>2. CASE tr[Req(i)].state \notin Waiting
      <4>0. method = "OTHER" /\ answer[<<Req(i), tr[Req(i)].dst>>] \notin {"2xx", "6xx"}
          BY <3>2, Zenon DEF RevivedChange
      <4>1. told[1] = "408"  BY <1>1, <1>c, <3>2, <4>0, Zenon DEF Spent
      <4>2. 1 \in DOMAIN told  BY <1>1, <2>2
      <4> QED  BY <4>1, <4>2, Zenon DEF Has408
    <3> QED  BY <3>1, <3>2, Zenon
  <2> QED  BY <1>1, <1>a, <2>1, <2>2, ToldRevived, Zenon
<1>5. WheelRight'
  <2>1. \A k \in Tids : tr'[k].state \in {"absent", "0"} => tr[k].state \in {"absent", "0"}
      BY <1>0, <1>b, <1>d
  <2>2. WheelRight /\ wheel \in [step : {"idle", "cancel", "timeout"}, t : Tids]
      BY Zenon DEF IInv, TypeOK, WheelRight, Invite, IsInvite
  <2> QED  BY <1>a, <2>1, <2>2, WheelKept
<1>6. ASSUME NEW j \in Targets PROVE Spent(j)'
  <2>1. CASE j = i  BY <1>d, <2>1, Zenon DEF Spent
  <2>2. CASE j # i
    <3>1. Spent(j) /\ tr[Req(j)] \in Trans /\ Req(j) \in Tids /\ Req(j) # Req(i)
        BY <1>1, <2>2, TidCases, Zenon DEF IInv, Shape
    <3>2. \A d \in Targets : answer'[<<Req(j), d>>] = answer[<<Req(j), d>>]
        BY <3>1, Zenon DEF RevivedChange, Elsewhere
    <3>3. tr'[Req(j)] = tr[Req(j)] /\ method' = method /\ told' = told  BY <1>a, <1>b, <3>1, Zenon
    <3> QED  BY <1>1, <3>1, <3>2, <3>3, SpentElsewhere, Zenon
  <2> QED  BY <2>1, <2>2, Zenon
<1>7. ticket # 0
  <2>1. Absent.next = 0 /\ 0 \notin Targets  BY Fresh, TargetNat
  <2> QED  BY <1>c, <1>d, <2>1 DEF IInv
<1>8. TypeOK'  BY <1>a, <1>b, Zenon DEF IInv, TypeOK, TypesRest
<1>9. /\ ticket' # 0 /\ \A j \in Targets : Spent(j)'
      /\ (wheel.step # "idle" => Invite(wheel.t) /\ tr[wheel.t].state \notin {"absent", "0"})'
  BY <1>a, <1>5, <1>6, <1>7 DEF WheelRight, IsInvite, Invite
<1> QED  BY <1>3, <1>4, <1>8, <1>9, <1>a, Zenon DEF IInv, Ends

\* A copy is sent to the next target, or to none.
ForkedChange(i, k) ==
    /\ UNCHANGED <<method, ticket, wheel>> /\ TypesRest'
    /\ tr[Req(i)].next \in Targets /\ k >= tr[Req(i)].next /\ tr[Req(i)].state \in Waiting
    /\ tr' \in [Tids -> Trans] /\ \A id \in Tids \ {Req(i), Req(k)} : tr'[id] = tr[id]
    /\ Sane(tr'[Req(i)], method = "INVITE") /\ Sane(tr'[Req(k)], method = "INVITE")
    /\ tr'[Req(i)].next = 0 /\ tr'[Req(i)].state \notin {"absent", "0"}
    /\ tr'[Req(k)].next > k
    /\ \/ /\ tr'[Req(k)].state = "0" /\ tr'[Req(k)].next \notin Targets
          /\ \/ tr'[Req(i)].state \in Waiting /\ told' = told
             \/ /\ tr'[Req(i)].state \notin Waiting
                /\ \E c \in Verdicts : told' = Append(told, c)
       \/ tr'[Req(k)].state \in Waiting /\ tr'[Req(i)].state \notin Waiting /\ told' = told
    /\ Elsewhere(answer, answer', {Req(i), Req(k)})

LEMMA ForkedStep ==
    ASSUME IInv, NEW i \in Targets, NEW k \in Targets, ForkedChange(i, k)
    PROVE  IInv' /\ Ends
<1>a. UNCHANGED <<method, ticket, wheel>> /\ TypesRest'  BY Zenon DEF ForkedChange
<1>b. tr' \in [Tids -> Trans] /\ \A id \in Tids \ {Req(i), Req(k)} : tr'[id] = tr[id]
    BY Zenon DEF ForkedChange
<1>c. tr[Req(i)].next \in Targets /\ k >= tr[Req(i)].next /\ tr[Req(i)].state \in Waiting
    BY Zenon DEF ForkedChange
<1>d. /\ Sane(tr'[Req(i)], method = "INVITE") /\ Sane(tr'[Req(k)], method = "INVITE")
      /\ tr'[Req(i)].next = 0 /\ tr'[Req(i)].state \notin {"absent", "0"} /\ tr'[Req(k)].next > k
    BY Zenon DEF ForkedChange
<1>e. \/ /\ tr'[Req(k)].state = "0" /\ tr'[Req(k)].next \notin Targets
         /\ \/ tr'[Req(i)].state \in Waiting /\ told' = told
            \/ /\ tr'[Req(i)].state \notin Waiting
               /\ \E c \in Verdicts : told' = Append(told, c)
      \/ tr'[Req(k)].state \in Waiting /\ tr'[Req(i)].state \notin Waiting /\ told' = told
    BY Zenon DEF ForkedChange
<1>t. /\ Req(i) \in Tids /\ Req(i)[1] = "REQ" /\ Req(k) \in Tids /\ Req(k)[1] = "REQ"
    BY TidCases, Zenon
<1>0. \A s \in Waiting : s # "absent" /\ s # "0"  BY DEF Waiting
<1>1. Shape(tr, method) /\ told \in Seq(Verdicts) /\ ToldRight  BY Zenon DEF IInv, TypeOK
<1>2. Shape(tr', method)
  <2>1. tr'[Req(k)].state = "0" \/ (tr'[Req(k)].state \in Waiting /\ tr'[Req(i)].state \notin Waiting)
      BY <1>e, Zenon
  <2>2. tr'[Req(k)].next \in Targets => tr'[Req(i)].state \notin Waiting  BY <1>e, Zenon
  <2>3. tr'[Req(i)].state # "absent"  BY <1>d, Zenon
  <2> QED  BY <1>1, <1>b, <1>c, <1>d, <2>1, <2>2, <2>3, ForkedKeeps
<1>3. Shape(tr, method)'  BY <1>a, <1>2
<1>k. i # k /\ tr[Req(k)].state = "absent"
  <2>1. i \in Nat /\ k \in Nat /\ tr[Req(i)].next \in Nat /\ tr[Req(i)].next > 0
      BY <1>c, TargetNat, Zenon
  <2>2. Holder(tr, i)  BY <1>1, Zenon DEF Shape
  <2>3. i < k  BY <1>c, <2>1, <2>2 DEF Holder
  <2> QED  BY <1>c, <2>1, <2>2, <2>3 DEF Holder
<1>l. Live = {Req(i)}
  <2>1. Req(i) \in Live  BY <1>c, <1>t, Zenon DEF Live
  <2> QED  BY <1>1, <2>1, LiveFacts, Zenon
<1>4. ToldRight' /\ Ends
  <2>1. CASE told' = told /\ (tr'[Req(k)].state \in Waiting \/ tr'[Req(i)].state \in Waiting)
    <3>1. Live' # {}  BY <1>t, <2>1, Zenon DEF Live
    <3> QED  BY <1>1, <1>a, <1>l, <2>1, <3>1, ToldKept DEF Ends
  <2>2. CASE /\ tr'[Req(i)].state \notin Waiting /\ tr'[Req(k)].state = "0"
             /\ \E c \in Verdicts : told' = Append(told, c)
    <3>1. Live' = {}
      <4>1. Req(i) \notin Live' /\ Req(k) \notin Live'  BY <1>0, <2>2, Zenon DEF Live
      <4>2. \A id \in Tids \ {Req(i), Req(k)} : id \notin Live'  BY <1>b, <1>l, Zenon DEF Live
      <4> QED  BY <4>1, <4>2, Zenon DEF Live
    <3>2. PICK c \in Verdicts : told' = Append(told, c)  BY <2>2, Zenon
    <3> QED  BY <1>1, <1>a, <1>l, <3>1, <3>2, ToldEnded DEF Ends
  <2> QED  BY <1>e, <2>1, <2>2, Zenon
<1>5. WheelRight'
  <2>1. \A id \in Tids : tr'[id].state \in {"absent", "0"} => tr[id].state \in {"absent", "0"}
      BY <1>b, <1>d, <1>k, Zenon
  <2>2. WheelRight /\ wheel \in [step : {"idle", "cancel", "timeout"}, t : Tids]
      BY Zenon DEF IInv, TypeOK, WheelRight, Invite, IsInvite
  <2> QED  BY <1>a, <2>1, <2>2, WheelKept
<1>6. ASSUME NEW j \in Targets PROVE Spent(j)'
  <2>1. CASE j = i
    <3>1. 0 \notin Targets  BY TargetNat
    <3> QED  BY <1>d, <2>1, <3>1, Zenon DEF Spent
  <2>2. CASE j = k  BY <1>e, <2>2, Zenon DEF Spent
  <2>3. CASE j \notin {i, k}
    <3>1. Spent(j) /\ tr[Req(j)] \in Trans /\ Req(j) \in Tids /\ Req(j) \notin {Req(i), Req(k)}
        BY <1>1, <2>3, TidCases, Zenon DEF IInv, Shape
    <3>2. \A d \in Targets : answer'[<<Req(j), d>>] = answer[<<Req(j), d>>]
        BY <3>1, Zenon DEF ForkedChange, Elsewhere
    <3>3. tr'[Req(j)] = tr[Req(j)] /\ method' = method  BY <1>a, <1>b, <3>1, Zenon
    <3>4. told' = told \/ \E c \in Verdicts : told' = Append(told, c)  BY <1>e, Zenon
    <3> QED  BY <1>1, <3>1, <3>2, <3>3, <3>4, SpentElsewhere, Zenon
  <2> QED  BY <2>1, <2>2, <2>3, Zenon
<1>7. ticket # 0
  <2>1. Absent.next = 0 /\ 0 \notin Targets  BY Fresh, TargetNat
  <2> QED  BY <1>c, <1>t, <2>1 DEF IInv
<1>8. TypeOK'  BY <1>a, <1>b, Zenon DEF IInv, TypeOK, TypesRest
<1>9. /\ ticket' # 0 /\ \A j \in Targets : Spent(j)'
      /\ (wheel.step # "idle" => Invite(wheel.t) /\ tr[wheel.t].state \notin {"absent", "0"})'
  BY <1>a, <1>5, <1>6, <1>7 DEF WheelRight, IsInvite, Invite
<1> QED  BY <1>3, <1>4, <1>8, <1>9, Zenon DEF IInv

-----------------------------------------------------------------------------
LEMMA DidReplyFields ==
    ASSUME NEW x \in Trans
    PROVE  LET v == DidReply(x)
           IN  /\ v \in Trans /\ v.next = x.next /\ v.dst = x.dst /\ v.state = x.state
               /\ v.timers = x.timers
BY Zenon DEF Trans, DidReply

LEMMA TimerNames ==
    /\ \A s \in {"A", "B", "C", "D", "E", "F", "K", "L", "M", "BL"} : s \in TimerTypes \ {None}
    /\ SlotOf("A") = 0 /\ SlotOf("E") = 0 /\ SlotOf("B") = 1 /\ SlotOf("F") = 1
    /\ SlotOf("C") = 2 /\ SlotOf("D") = 2 /\ SlotOf("K") = 2 /\ SlotOf("L") = 2
    /\ SlotOf("M") = 2 /\ SlotOf("BL") = 2
BY DEF TimerTypes, None, SlotOf

\* Sane(x, invite) for a transaction that does not wait any more.
LEMMA Over ==
    ASSUME NEW x, NEW v \in Trans, NEW invite \in BOOLEAN, Sane(x, invite),
           v.state \in States \ (Waiting \cup {"absent"}),
           v.timers[1] \in {None, x.timers[1]}, v.timers[2] \notin {"C", "M"},
           v.state = "REMOVED" => v.next = 0 /\ v.timers[1] = None /\ v.timers[2] = None
    PROVE  Sane(v, invite)
BY DEF Sane, Waiting

\* The handler of a reply marks the branch the transaction is sent on.
LEMMA MarkFacts ==
    ASSUME NEW a \in AnswerSet, NEW id \in Tids, NEW code \in Answers,
           tr[id].dst \in Targets
    PROVE  LET b == Mark(a, id, code)
           IN  /\ b \in AnswerSet /\ b[<<id, tr[id].dst>>] = code /\ Elsewhere(a, b, {id})
BY DEF Mark, AnswerSet, Elsewhere

\* What IInv says about one transaction.
LEMMA AtHand ==
    ASSUME IInv, NEW id \in Tids
    PROVE  /\ Shape(tr, method) /\ tr \in [Tids -> Trans] /\ tr[id] \in Trans
           /\ Sane(tr[id], Invite(id)) /\ Invite(id) \in BOOLEAN /\ tr[id].dst \in Targets
           /\ TypesRest
           /\ ~Invite(id) /\ id[1] = "REQ" => method = "OTHER"
<1>1. IsInvite(id, method) = Invite(id) /\ Invite(id) \in BOOLEAN  BY DEF IsInvite, Invite
<1> QED  BY <1>1 DEF IInv, TypeOK, Shape, TypesRest, Trans, Invite

LEMMA Receive1xx ==
    ASSUME IInv, NEW id \in Tids, receive_1xx(id)
    PROVE  IInv'
<1> DEFINE x == tr[id]
           y == IF x.state = "CALLING" THEN reset_all_timers(x) ELSE x
           z == [y EXCEPT !.state = "PROCEEDING"]
           v == IF x.state \in {"CALLING", "TRYING", "PROCEEDING"}
                THEN IF Invite(id) THEN reset_timer(z, "C") ELSE z
                ELSE IF x.state \in {"ABANDONED", "TERMINATED"} THEN DidReply(x) ELSE x
<1>1. /\ Shape(tr, method) /\ tr \in [Tids -> Trans] /\ x \in Trans
      /\ Sane(x, Invite(id)) /\ Invite(id) \in BOOLEAN /\ x.dst \in Targets /\ TypesRest
    BY AtHand
<1>2. PICK was \in {"silent", "1xx", "2xx", "6xx", "503"} :
        /\ Received(id, "1xx", was)
        /\ answer' = Mark(answer, id, Heard("1xx", was))
        /\ tr' = [tr EXCEPT ![id] = v]
        /\ nested' = IF x.state = "ABANDONED" THEN nested \cup {id} ELSE nested
        /\ UNCHANGED <<method, ticket, blacklist, told, wheel>>
    BY DEF receive_1xx
<1>3. x.state \notin {"absent", "REMOVED"} /\ answer[<<id, x.dst>>] = was
    BY <1>2, Zenon DEF Received, Exists
<1>4. /\ v \in Trans /\ v.next = x.next /\ v.dst = x.dst
      /\ Sane(v, Invite(id))
      /\ v.state \in Waiting <=> x.state \in Waiting
      /\ x.state \notin Waiting => v.state = x.state
  <2>1. CASE x.state \in Waiting
    <3>1. /\ y \in Trans /\ y.next = x.next /\ y.dst = x.dst
          /\ y.timers[1] = x.timers[1] \/ y.timers[1] = None
          /\ Invite(id) => y.timers[1] = None
          /\ y.timers[2] = x.timers[2] \/ y.timers[2] = None
      <4>1. CASE x.state = "CALLING"  BY <1>1, <4>1, ResetAllTimers DEF Same
      <4>2. CASE x.state # "CALLING"  BY <1>1, <2>1, <4>2, Zenon DEF Sane, Waiting
      <4> QED  BY <4>1, <4>2, Zenon
    <3> HIDE DEF y
    <3>2. /\ Same(y, z) /\ z.state = "PROCEEDING" /\ z.timers = y.timers
        BY <3>1, StateSet, Zenon DEF States
    <3>3. z \in Trans  BY <3>2 DEF Same
    <3> HIDE DEF z, x
    <3>4. CASE Invite(id)
      <4>1. v = reset_timer(z, "C")  BY <2>1, <3>4 DEF Waiting
      <4>2. Same(z, v) /\ v.state = z.state /\ v.timers[1] = z.timers[1] /\ v.timers[2] = "C"
          BY <3>3, <4>1, ResetTimer, TimerNames
      <4> HIDE DEF v
      <4> QED  BY <2>1, <3>1, <3>2, <3>4, <4>2 DEF Same, Sane, Waiting, None
    <3>5. CASE ~Invite(id)
      <4>1. v = z  BY <2>1, <3>5 DEF Waiting
      <4> HIDE DEF v
      <4> QED  BY <1>1, <2>1, <3>1, <3>2, <3>5, <4>1 DEF Same, Sane, Waiting, None
    <3> QED  BY <3>4, <3>5, Zenon
  <2>2. CASE x.state \notin Waiting
    <3>1. v = DidReply(x) \/ v = x  BY <2>2, Zenon DEF Waiting
    <3>2. /\ v \in Trans /\ v.next = x.next /\ v.dst = x.dst /\ v.state = x.state /\ v.timers = x.timers
        BY <1>1, <3>1, DidReplyFields, Zenon
    <3> HIDE DEF v, x
    <3> QED  BY <1>1, <2>2, <3>2 DEF Sane
  <2> QED  BY <2>1, <2>2
<1> HIDE DEF v
<1>5. tr' \in [Tids -> Trans] /\ tr'[id] = v /\ \A k \in Tids \ {id} : tr'[k] = tr[k]
    BY <1>1, <1>2, <1>4
<1>6. Quiet(tr[id], tr'[id])  BY <1>3, <1>4, <1>5 DEF Quiet, Waiting, Unborn
<1>7. Heard("1xx", was) \in Answers /\ (was \in {"2xx", "6xx"} => Heard("1xx", was) = was)
    BY DEF Heard, Answers
<1>8. /\ answer' \in AnswerSet
      /\ answer'[<<id, x.dst>>] = Heard("1xx", was)
      /\ Elsewhere(answer, answer', {id})
  <2>1. answer \in AnswerSet /\ tr[id].dst \in Targets  BY <1>1 DEF TypesRest
  <2>2. answer' = Mark(answer, id, Heard("1xx", was))  BY <1>2
  <2> QED  BY <1>7, <2>1, <2>2, MarkFacts
<1>9. TypesRest'  BY <1>1, <1>2, <1>8 DEF TypesRest
<1>10. TellsRight(id)  BY <1>2, <1>4, <1>5 DEF TellsRight
<1>11. ASSUME NEW i \in Targets, id = Req(i) PROVE Spent(i)'
  <2>1. Spent(i)  BY DEF IInv
  <2> QED  BY <1>2, <1>3, <1>4, <1>5, <1>7, <1>8, <1>11, <2>1, Zenon DEF Spent
<1>12. tr'[id].state = "0" => tr[id].state = "0"  BY <1>4, <1>5 DEF Waiting
<1>13. UNCHANGED <<method, ticket, wheel>>  BY <1>2
<1>14. tr[id].state # "absent" /\ Sane(tr'[id], Invite(id))  BY <1>3, <1>4, <1>5, Zenon
<1> QED  BY <1>5, <1>6, <1>8, <1>9, <1>10, <1>11, <1>12, <1>13, <1>14, QuietStep DEF QuietChange

\* A first final reply is passed on and ends the wait.
LEMMA Invite2xx ==
    ASSUME IInv, NEW id \in Tids, Exists(id), Invite(id), invite_2xx(id)
    PROVE  IInv' /\ Ends
<1> DEFINE x == tr[id]
           live == x.state \in {"CALLING", "PROCEEDING"}
           v == IF live THEN [reset_timer(reset_all_timers(x), "L") EXCEPT !.state = "TERMINATED_200"]
                ELSE IF x.state \in {"ABANDONED", "TERMINATED"} THEN DidReply(x) ELSE x
<1>1. /\ Shape(tr, method) /\ tr \in [Tids -> Trans] /\ x \in Trans
      /\ Sane(x, Invite(id)) /\ Invite(id) \in BOOLEAN /\ x.dst \in Targets /\ TypesRest
    BY AtHand, Zenon
<1>2. /\ answer' = Mark(answer, id, "2xx") /\ tr' = [tr EXCEPT ![id] = v]
      /\ told' = IF live THEN Append(told, "2xx") ELSE told
    BY DEF invite_2xx
<1>3. UNCHANGED <<method, ticket, blacklist, wheel, nested>>  BY DEF invite_2xx
<1>4. x.state \notin {"absent", "REMOVED"} /\ method = "INVITE" /\ id[1] = "REQ"
    BY DEF Exists, Invite
<1>l. live <=> x.state \in Waiting  BY <1>1 DEF Sane, Waiting
<1>5. /\ v \in Trans /\ v.next = x.next /\ Sane(v, Invite(id)) /\ v.state \notin Waiting
      /\ IF live THEN v.state = "TERMINATED_200" ELSE v.state = x.state
  <2>1. CASE live
    <3> DEFINE r == reset_all_timers(x)
               s == reset_timer(r, "L")
    <3>1. Same(x, r) /\ r.timers[1] = None  BY <1>1, ResetAllTimers
    <3>2. r \in Trans  BY <3>1, Zenon DEF Same
    <3> HIDE DEF r
    <3>3. Same(r, s) /\ s.timers[1] = None /\ s.timers[2] = "L"  BY <3>1, <3>2, ResetTimer, TimerNames
    <3>4. s \in Trans  BY <3>3 DEF Same
    <3> HIDE DEF s
    <3>5. v = [s EXCEPT !.state = "TERMINATED_200"]  BY <2>1, Zenon DEF s, r
    <3> HIDE DEF v, x
    <3>6. Same(s, v) /\ v.state = "TERMINATED_200" /\ v.timers = s.timers
        BY <3>4, <3>5, StateSet, Zenon DEF States
    <3>7. v \in Trans /\ v.next = x.next  BY <3>1, <3>3, <3>6 DEF Same
    <3> QED  BY <1>1, <2>1, <3>3, <3>6, <3>7, Over, Zenon DEF States, Waiting
  <2>2. CASE ~live
    <3>1. v = DidReply(x) \/ v = x  BY <2>2, Zenon
    <3>2. /\ v \in Trans /\ v.next = x.next /\ v.dst = x.dst /\ v.state = x.state /\ v.timers = x.timers
        BY <1>1, <3>1, DidReplyFields, Zenon
    <3> HIDE DEF v, x
    <3> QED  BY <1>1, <1>l, <2>2, <3>2 DEF Sane
  <2> QED  BY <2>1, <2>2, Zenon
<1> HIDE DEF v
<1>6. tr' \in [Tids -> Trans] /\ tr'[id] = v /\ \A k \in Tids \ {id} : tr'[k] = tr[k]
    BY <1>1, <1>2, <1>5
<1>7. /\ Quiet(tr[id], tr'[id]) /\ tr[id].state # "absent" /\ Sane(tr'[id], Invite(id))
      /\ tr'[id].state = "0" => tr[id].state = "0"
    BY <1>4, <1>5, <1>6, <1>l, Zenon DEF Quiet, Waiting, Unborn
<1>8. /\ answer' \in AnswerSet
      /\ Elsewhere(answer, answer', {id})
  <2>1. answer \in AnswerSet /\ tr[id].dst \in Targets /\ "2xx" \in Answers
      BY <1>1 DEF TypesRest, Answers
  <2>2. answer' = Mark(answer, id, "2xx")  BY <1>2
  <2> QED  BY ONLY <2>1, <2>2, id \in Tids, MarkFacts, Zenon
<1>9. told' \in Seq(Verdicts) /\ "2xx" \in Verdicts
  <2>1. "2xx" \in Verdicts /\ told \in Seq(Verdicts)  BY <1>1 DEF Verdicts, TypesRest
  <2> QED  BY <1>2, <2>1, AppendFacts
<1>10. TypesRest'  BY <1>1, <1>3, <1>8, <1>9, Zenon DEF TypesRest
<1>11. TellsRight(id)  BY <1>2, <1>4, <1>5, <1>6, <1>9, <1>l, Zenon DEF TellsRight
<1>12. \A i \in Targets : id = Req(i) => Spent(i)'  BY <1>3, <1>4 DEF Spent
<1>13. UNCHANGED <<method, ticket, wheel>>  BY <1>3
<1> QED  BY <1>6, <1>7, <1>8, <1>10, <1>11, <1>12, <1>13, QuietStep, Zenon DEF QuietChange

\* The transaction after timeout().
LEMMA TimedOut ==
    ASSUME NEW x \in Trans
    PROVE  LET y == [reset_all_timers(x) EXCEPT !.state = "TERMINATED"]
               v == IF x.disable_bl THEN Removed ELSE reset_timer(y, "BL")
           IN  /\ v \in Trans /\ v.timers[1] = None /\ v.timers[2] \in {None, "BL"}
               /\ \/ v = Removed
                  \/ v.state = "TERMINATED" /\ v.next = x.next
<1> DEFINE r == reset_all_timers(x)
           y == [r EXCEPT !.state = "TERMINATED"]
           s == reset_timer(y, "BL")
<1>1. Same(x, r) /\ r.timers[1] = None  BY ResetAllTimers
<1>2. r \in Trans  BY <1>1, Zenon DEF Same
<1> HIDE DEF r
<1>3. Same(r, y) /\ y.state = "TERMINATED" /\ y.timers = r.timers  BY <1>2, StateSet, Zenon DEF States
<1>4. y \in Trans  BY <1>3 DEF Same
<1> HIDE DEF y
<1>5. Same(y, s) /\ s.state = y.state /\ s.timers[1] = y.timers[1] /\ s.timers[2] = "BL"
    BY <1>4, ResetTimer, TimerNames
<1> HIDE DEF s
<1>6. s \in Trans /\ s.timers[1] = None /\ s.timers[2] = "BL" /\ s.state = "TERMINATED" /\ s.next = x.next
    BY <1>1, <1>3, <1>5 DEF Same
<1> QED  BY <1>6, Fresh DEF s, y, r

\* The timer thread ends a transaction.
LEMMA TimerStep ==
    ASSUME IInv, NEW id \in Tids, NEW v \in Trans, tr' = [tr EXCEPT ![id] = v],
           v = Removed \/ v.state \in {"TERMINATED", "ABANDONED"}, v.next \in {0, tr[id].next},
           v.timers[1] \in {None, tr[id].timers[1]}, v.timers[2] \notin {"C", "M"},
           v = Removed \/ tr[id].state \notin Unborn, tr[id].state # "absent",
           UNCHANGED <<method, ticket, wheel, answer, nested>>, blacklist' \in SUBSET Targets,
           \/ told' = told /\ (id[1] = "REQ" => tr[id].state \notin Waiting)
           \/ id[1] = "REQ" /\ tr[id].state \in Waiting /\ told' = Append(told, "408"),
           \A i \in Targets : method = "OTHER" /\ id = Req(i) =>
               v.next \notin Targets \/ (v.state = "TERMINATED" /\ told' = Append(told, "408"))
    PROVE  IInv' /\ Ends
<1>1. /\ Shape(tr, method) /\ tr \in [Tids -> Trans] /\ tr[id] \in Trans
      /\ Sane(tr[id], Invite(id)) /\ Invite(id) \in BOOLEAN /\ TypesRest
    BY AtHand, Zenon
<1>2. tr' \in [Tids -> Trans] /\ tr'[id] = v /\ \A k \in Tids \ {id} : tr'[k] = tr[k]  BY <1>1
<1>3. v.state \in {"REMOVED", "TERMINATED", "ABANDONED"}  BY Fresh, Zenon
<1>4. v.state = "REMOVED" => v.next = 0 /\ v.timers[1] = None /\ v.timers[2] = None  BY Fresh
<1>5. Sane(v, Invite(id))
  <2>1. v.state \in States \ (Waiting \cup {"absent"})  BY <1>3, Zenon DEF States, Waiting
  <2> QED  BY <1>1, <1>4, <2>1, Over
<1>6. Quiet(tr[id], tr'[id])
  <2>1. v = Removed => v.state = "REMOVED"  BY Fresh
  <2> QED  BY <1>2, <1>3, <2>1 DEF Quiet, Waiting, Unborn
<1>7. "408" \in Verdicts /\ told \in Seq(Verdicts)  BY <1>1 DEF Verdicts, TypesRest
<1>8. TypesRest'
  <2>1. told' \in Seq(Verdicts)  BY <1>7, AppendFacts
  <2> QED  BY <1>1, <2>1 DEF TypesRest
<1>9. TellsRight(id)  BY <1>2, <1>3, <1>7, Zenon DEF TellsRight, Waiting
<1>10. Elsewhere(answer, answer', {id})  BY DEF Elsewhere
<1>11. ASSUME NEW i \in Targets, id = Req(i) PROVE Spent(i)'
  <2> SUFFICES ASSUME method = "OTHER", v.next \in Targets
               PROVE  v.state = "TERMINATED" /\ told' # <<>> /\ told'[1] = "408"
      BY <1>2, <1>11 DEF Spent
  <2>1. v.state = "TERMINATED" /\ told' = Append(told, "408")  BY <1>11
  <2>2. told' # <<>> /\ (told = <<>> => told'[1] = "408") /\ (told # <<>> => told'[1] = told[1])
      BY <1>7, <2>1, AppendFacts, Zenon
  <2>3. ASSUME told # <<>> PROVE told[1] = "408"
    <3>1. tr[id].state \in Waiting /\ id[1] = "REQ"
      <4>1. told' # told  BY <1>7, <2>1
      <4> QED  BY <4>1
    <3>2. Live # {}  BY <3>1, Zenon DEF Live
    <3> QED  BY <2>3, <3>2, Zenon DEF IInv, ToldRight
  <2> QED  BY <2>1, <2>2, <2>3
<1>12. UNCHANGED <<method, ticket, wheel>> /\ (tr'[id].state = "0" => tr[id].state = "0")
    BY <1>2, <1>3, Zenon
<1>13. Sane(tr'[id], Invite(id))  BY <1>2, <1>5, Zenon
<1> QED  BY <1>2, <1>6, <1>8, <1>9, <1>10, <1>11, <1>12, <1>13, QuietStep, Zenon DEF QuietChange

LEMMA ArmedSlot ==
    ASSUME NEW id \in Tids, NEW type \in TimerTypes \ {None}, Armed(id, type)
    PROVE  tr[id].timers[SlotOf(type)] = type /\ wheel = Idle
BY Slots, Zenon DEF Armed

LEMMA FireBF ==
    ASSUME IInv, NEW id \in Tids, NEW type \in {"B", "F"}, fire_BF(id, type)
    PROVE  IInv' /\ Ends
<1> DEFINE x == clear_timer(tr[id], type)
           out == \/ type = "B" /\ x.state = "CALLING"
                  \/ type = "F" /\ x.state \in {"TRYING", "PROCEEDING"}
           y == [reset_all_timers(x) EXCEPT !.state = "TERMINATED"]
           w == IF x.disable_bl THEN Removed ELSE reset_timer(y, "BL")
           u == IF x.state = "ABANDONED" /\ ~x.disable_bl THEN reset_timer(x, "BL") ELSE Removed
<1>1. /\ tr \in [Tids -> Trans] /\ tr[id] \in Trans /\ Sane(tr[id], Invite(id)) /\ TypesRest
      /\ ~Invite(id) /\ id[1] = "REQ" => method = "OTHER"
    BY AtHand
<1>2. type \in TimerTypes \ {None} /\ SlotOf(type) = 1  BY TimerNames, Zenon
<1>3. tr[id].timers[1] = type  BY <1>2, ArmedSlot DEF fire_BF
<1>4. tr[id].state \notin {"absent", "REMOVED"}  BY <1>1, <1>2, <1>3, Zenon DEF Sane
<1>5. Same(tr[id], x) /\ x.state = tr[id].state /\ x.timers[1] = None /\ x.timers[2] = tr[id].timers[2]
    BY <1>1, <1>2, ClearTimer
<1>6. x \in Trans /\ x.next = tr[id].next  BY <1>5, Zenon DEF Same
<1>7. UNCHANGED <<method, ticket, wheel, answer, nested>> /\ blacklist' \in SUBSET Targets
    BY <1>1, Zenon DEF fire_BF, TypesRest
<1>8. CASE out
  <2>1. timeout(x, id)  BY <1>8 DEF fire_BF
  <2>2. tr' = [tr EXCEPT ![id] = w] /\ told' = IF id[1] = "REQ" THEN Append(told, "408") ELSE told
      BY <2>1, Zenon DEF timeout
  <2>3. tr[id].state \in Waiting  BY <1>5, <1>8 DEF Waiting
  <2> HIDE DEF x
  <2>4. /\ w \in Trans /\ w.timers[1] = None /\ w.timers[2] \in {None, "BL"}
        /\ \/ w = Removed
           \/ w.state = "TERMINATED" /\ w.next = x.next
      BY <1>6, TimedOut, Zenon
  <2> HIDE DEF w
  <2>5. w.next \in {0, tr[id].next} /\ w.timers[2] \notin {"C", "M"}  BY <1>6, <2>4, Fresh DEF None
  <2>6. ASSUME NEW i \in Targets, method = "OTHER", id = Req(i)
        PROVE  w.next \notin Targets \/ (w.state = "TERMINATED" /\ told' = Append(told, "408"))
    <3>1. 0 \notin Targets /\ Removed.next = 0 /\ id[1] = "REQ"  BY <2>6, TargetNat, Fresh DEF Req
    <3> QED  BY <2>2, <2>4, <3>1
  <2>7. tr[id].state \notin Unborn /\ tr[id].state # "absent"  BY <2>3 DEF Waiting, Unborn
  <2>8. w = Removed \/ w.state \in {"TERMINATED", "ABANDONED"}  BY <2>4
  <2>9. \/ told' = told /\ (id[1] = "REQ" => tr[id].state \notin Waiting)
        \/ id[1] = "REQ" /\ tr[id].state \in Waiting /\ told' = Append(told, "408")
      BY <2>2, <2>3, Zenon
  <2> QED  BY <1>7, <2>2, <2>4, <2>5, <2>6, <2>7, <2>8, <2>9, TimerStep, Zenon
<1>9. CASE ~out
  <2>1. tr' = [tr EXCEPT ![id] = u] /\ told' = told  BY <1>9 DEF fire_BF
  <2>2. tr[id].state \notin Waiting  BY <1>1, <1>3, <1>5, <1>9 DEF Sane, Waiting, None
  <2>3. u = Removed \/ (u = reset_timer(x, "BL") /\ tr[id].state = "ABANDONED")  BY <1>5, Zenon
  <2> HIDE DEF x, u
  <2>4. /\ u \in Trans /\ u.timers[1] = None /\ u.timers[2] \in {None, "BL"}
        /\ u = Removed \/ (u.state = "ABANDONED" /\ u.next = tr[id].next /\ tr[id].state = "ABANDONED")
    <3>1. LET v == reset_timer(x, "BL")
          IN  Same(x, v) /\ v.state = x.state /\ v.timers[1] = x.timers[1] /\ v.timers[2] = "BL"
        BY <1>6, ResetTimer, TimerNames
    <3> QED  BY <1>5, <1>6, <2>3, <3>1, Fresh DEF Same
  <2>5. u.next \in {0, tr[id].next} /\ u.timers[2] \notin {"C", "M"}  BY <2>4, Fresh, Zenon DEF None
  <2>6. ASSUME NEW i \in Targets, method = "OTHER", id = Req(i) PROVE u.next \notin Targets
    <3>1. Spent(i) /\ 0 \notin Targets /\ Removed.next = 0  BY TargetNat, Fresh DEF IInv
    <3> QED  BY <2>2, <2>4, <2>6, <3>1, Zenon DEF Spent
  <2>7. u = Removed \/ tr[id].state \notin Unborn  BY <2>4, Zenon DEF Unborn
  <2> QED  BY <1>4, <1>7, <2>1, <2>2, <2>4, <2>5, <2>6, <2>7, TimerStep, Zenon
<1> QED  BY <1>8, <1>9, Zenon

\* The timers that take a transaction out of its bucket.
LEMMA FireDKLBL ==
    ASSUME IInv, NEW id \in Tids,
           (\E type \in {"D", "K", "L"} : fire_DKL(id, type)) \/ fire_BL(id)
    PROVE  IInv'
<1>1. /\ tr \in [Tids -> Trans] /\ tr[id] \in Trans /\ Sane(tr[id], Invite(id)) /\ TypesRest
      /\ tr[id].dst \in Targets
    BY AtHand
<1>2. tr[id].timers[2] \in {"D", "K", "L", "BL"}
    BY TimerNames, ArmedSlot DEF fire_DKL, fire_BL
<1>3. tr' = [tr EXCEPT ![id] = Removed] /\ UNCHANGED <<method, ticket, wheel, answer, told, nested>>
    BY DEF fire_DKL, fire_BL
<1>4. blacklist' \in SUBSET Targets  BY <1>1, Zenon DEF fire_DKL, fire_BL, Blacklisted, TypesRest
<1>5. tr[id].state \notin Waiting /\ tr[id].state # "absent"  BY <1>1, <1>2, Zenon DEF Sane, None
<1>6. /\ Removed \in Trans /\ Removed.next = 0 /\ Removed.timers[1] = None /\ Removed.timers[2] = None
      /\ 0 \notin Targets
    BY Fresh, TargetNat
<1>7. None \notin {"C", "M"}  BY DEF None
<1> QED  BY <1>3, <1>4, <1>5, <1>6, <1>7, TimerStep, Zenon
=============================================================================
