--------------------------- MODULE UasTransProofs ---------------------------
(***************************************************************************)
(* Proofs about UasTrans for any number of transactions made for a         *)
(* request.  The inductive invariant says of each transaction how its      *)
(* state, its reply status and its timers go together (Fit), and how what  *)
(* was sent and told belongs to its state (History).                       *)
(***************************************************************************)
EXTENDS UasTrans, TLAPS

Answered == {"COMPLETED", "CONFIRMED", "TERMINATED_200"}
Gone == {"absent", "REMOVED"}
TransStates == {"absent", "TRYING", "PROCEEDING", "PROCEEDING_REL",
                "COMPLETED", "CONFIRMED", "TERMINATED_200", "REMOVED"}
Trans == [state : TransStates, timers : [0 .. 2 -> {None, "G", "H", "I", "J"}],
          reply_status : {None, "1xx"} \cup Final, last_rseq : BOOLEAN]

\* What holds of each transaction.
Fit(x) ==
    /\ x \in Trans
    /\ x.timers[0] \in {None, "G", "J"}
    /\ x.timers[1] \in {None, "H"}
    /\ x.timers[2] \in {None, "I"}
    /\ reliable => x.timers[0] = None /\ x.timers[2] = None
    /\ x.state \in Gone => /\ x.timers[0] = None /\ x.timers[1] = None
                           /\ x.timers[2] = None /\ x.reply_status = None
    /\ x.state \in Answered <=> x.reply_status \in Final
    /\ x.timers[0] = "G" \/ x.timers[1] = "H" =>
          x.state \in {"PROCEEDING_REL", "COMPLETED", "TERMINATED_200"}
    /\ x.state = "PROCEEDING_REL" => x.last_rseq
    /\ x.timers[2] = "I" => x.state = "CONFIRMED"
    /\ x.timers[0] = "J" /\ x.state \in Answered =>
          method # "INVITE" /\ x.state = "COMPLETED"
    /\ x.state \in Answered =>
          x.timers[1] = "H" \/ x.timers[2] = "I" \/ x.timers[0] = "J"

\* What can have been sent and told about a transaction.
Sent == {<<>>, <<"2xx">>, <<"6xx">>}
Told == {<<>>, <<"ACK">>, <<"noACK">>}

\* How they go with the state of transaction i.
History(i) ==
    /\ tr[i].state \in Answered => sent[i] # <<>>
    /\ tr[i].state \notin Answered \cup {"REMOVED"} => sent[i] = <<>>
    /\ told[i] # <<>> => sent[i] # <<>> /\ tr[i].state = "REMOVED"
    /\ i > made => tr[i].state = "absent"

IInv ==
    /\ method \in AllMethods /\ reliable \in BOOLEAN /\ rseq \in BOOLEAN
    /\ pending \in Nat /\ made \in Nat /\ made + pending <= MaxTrans
    /\ pending # 0 => method = "PRACK"
    /\ tr \in [Tids -> Trans]
    /\ sent \in [Tids -> Sent]
    /\ told \in [Tids -> Told]
    /\ OneTransaction
    /\ \A i \in Tids : Fit(tr[i]) /\ History(i)

-----------------------------------------------------------------------------
(* The transactions the handlers make are fit.                             *)

\* A fresh transaction and one that is gone.
LEMMA FreshFit ==
    ASSUME method \in AllMethods, reliable \in BOOLEAN
    PROVE  Fit(NewTrans) /\ Fit(Absent) /\ Fit(Removed)
<1>1. ASSUME NEW state \in TransStates \ (Answered \cup {"PROCEEDING_REL"})
      PROVE  Fit(Blank(state))
  <2>1. Blank(state) \in Trans
      BY <1>1 DEF Trans, None, Blank
  <2>2. /\ Blank(state).state = state /\ Blank(state).reply_status = None
        /\ Blank(state).timers[0] = None /\ Blank(state).timers[1] = None
        /\ Blank(state).timers[2] = None
      BY DEF Blank
  <2>3. state \notin Answered /\ state # "PROCEEDING_REL"  BY <1>1
  <2>4. QED  BY <2>1, <2>2, <2>3 DEF Fit, None, Final
<1>2. QED  BY <1>1 DEF NewTrans, Absent, Removed, TransStates, Answered

\* Setting or clearing a timer changes one slot.
LEMMA Timers ==
    ASSUME NEW x \in Trans
    PROVE  /\ \A type \in {"G", "H", "I", "J"} :
                /\ reset_timer(x, type) \in Trans
                /\ reset_timer(x, type).state = x.state
                /\ reset_timer(x, type).reply_status = x.reply_status
                /\ reset_timer(x, type).last_rseq = x.last_rseq
                /\ \A s \in 0 .. 2 : reset_timer(x, type).timers[s] =
                       IF s = Slot(type) THEN type ELSE x.timers[s]
           /\ \A type \in {"G", "H", "I", "J"} :
                /\ clear_timer(x, type) \in Trans
                /\ clear_timer(x, type).state = x.state
                /\ clear_timer(x, type).reply_status = x.reply_status
                /\ clear_timer(x, type).last_rseq = x.last_rseq
                /\ \A s \in 0 .. 2 : clear_timer(x, type).timers[s] =
                       IF s = Slot(type) THEN None ELSE x.timers[s]
<1>1. \A type \in {"G", "H", "I", "J"} : Slot(type) \in 0 .. 2
    BY DEF Slot
<1>2. QED  BY <1>1 DEF reset_timer, clear_timer, Trans, None

LEMMA Slots ==
    Slot("G") = 0 /\ Slot("J") = 0 /\ Slot("H") = 1 /\ Slot("I") = 2
BY DEF Slot

\* Changing the state leaves the rest of a transaction alone.
LEMMA SetState ==
    ASSUME NEW x \in Trans, NEW state \in TransStates,
           NEW y, y = [x EXCEPT !.state = state]
    PROVE  /\ y \in Trans /\ y.state = state /\ y.timers = x.timers
           /\ y.reply_status = x.reply_status /\ y.last_rseq = x.last_rseq
BY DEF Trans

\* Repeated starts timer H, and timer G on an unreliable transport.
LEMMA RepeatedTimers ==
    ASSUME NEW x \in Trans, NEW state \in TransStates,
           NEW y, y = Repeated(x, state)
    PROVE  /\ y \in Trans /\ y.state = state /\ y.reply_status = x.reply_status
           /\ y.last_rseq = x.last_rseq
           /\ y.timers[0] = IF reliable THEN x.timers[0] ELSE "G"
           /\ y.timers[1] = "H"
           /\ y.timers[2] = x.timers[2]
<1> DEFINE h == reset_timer(x, "H")
           z == [h EXCEPT !.state = state]
<1>1. /\ h \in Trans /\ h.reply_status = x.reply_status /\ h.last_rseq = x.last_rseq
      /\ h.timers[0] = x.timers[0] /\ h.timers[1] = "H" /\ h.timers[2] = x.timers[2]
    BY Timers, Slots
<1> HIDE DEF h
<1>2. /\ z \in Trans /\ z.state = state /\ z.reply_status = x.reply_status
      /\ z.timers = h.timers /\ z.last_rseq = x.last_rseq
    BY <1>1, SetState
<1>3. y = IF reliable THEN z ELSE reset_timer(z, "G")
    BY DEF Repeated, h
<1> HIDE DEF z
<1>4. CASE reliable  BY <1>1, <1>2, <1>3, <1>4
<1>5. CASE ~reliable
  <2>1. y = reset_timer(z, "G")  BY <1>3, <1>5
  <2>2. /\ y \in Trans /\ y.state = state /\ y.reply_status = x.reply_status
        /\ y.last_rseq = x.last_rseq
        /\ y.timers[0] = "G" /\ y.timers[1] = z.timers[1] /\ y.timers[2] = z.timers[2]
      BY <1>2, <2>1, Timers, Slots
  <2>3. QED  BY <1>1, <1>2, <1>5, <2>2
<1>6. QED  BY <1>4, <1>5

\* A reply that the transport took leaves a fit transaction: answered or
\* removed after a final one, proceeding after a provisional one.
LEMMA ReplyFit ==
    ASSUME method \in AllMethods, reliable \in BOOLEAN,
           NEW x, Fit(x), x.state \notin Gone \cup Answered,
           NEW code \in {"1xx"} \cup Final, NEW b \in BOOLEAN, x.last_rseq => b,
           NEW z \in Trans, z.state = x.state, z.timers = x.timers,
           z.reply_status = code, z.last_rseq = b,
           NEW y, y = update_uas_reply(z, code)
    PROVE  /\ Fit(y)
           /\ code \in Final => y.state \in Answered \cup {"REMOVED"}
           /\ code \notin Final => y.state \in {"PROCEEDING", "PROCEEDING_REL"}
<1>3. /\ x.timers[0] \in {None, "G", "J"} /\ x.timers[1] \in {None, "H"}
      /\ x.timers[2] = None
      /\ reliable => x.timers[0] = None
      /\ x.timers[1] = "H" \/ x.timers[0] = "G" => x.last_rseq
    BY DEF Fit, Answered, Gone
<1>4. CASE code \in Final /\ method # "INVITE" /\ reliable
  <2>1. y = Removed  BY <1>4 DEF update_uas_reply
  <2>2. QED  BY <1>4, <2>1, FreshFit DEF Removed, Blank
<1>5. CASE code \in Final /\ method # "INVITE" /\ ~reliable
  <2> DEFINE j == reset_timer(z, "J")
  <2>1. /\ j \in Trans /\ j.reply_status = code /\ j.timers[0] = "J"
        /\ j.timers[1] = x.timers[1] /\ j.timers[2] = None
      BY <1>3, Timers, Slots
  <2> HIDE DEF j
  <2>2. y = [j EXCEPT !.state = "COMPLETED"]
      BY <1>5 DEF update_uas_reply, j
  <2>3. /\ y \in Trans /\ y.state = "COMPLETED" /\ y.timers = j.timers
        /\ y.reply_status = code
      BY <2>1, <2>2, SetState DEF TransStates
  <2>4. Fit(y)  BY <1>3, <1>5, <2>1, <2>3 DEF Fit, None, Gone, Answered
  <2>5. QED  BY <1>5, <2>3, <2>4 DEF Answered
<1>6. CASE code \in Final /\ method = "INVITE"
  <2> DEFINE st == IF code = "2xx" THEN "TERMINATED_200" ELSE "COMPLETED"
  <2>1. st \in {"TERMINATED_200", "COMPLETED"}  OBVIOUS
  <2>2. y = Repeated(z, st)  BY <1>6 DEF update_uas_reply
  <2> HIDE DEF st
  <2>3. /\ y \in Trans /\ y.state = st /\ y.reply_status = code
        /\ y.timers[0] = (IF reliable THEN x.timers[0] ELSE "G")
        /\ y.timers[1] = "H" /\ y.timers[2] = None
      BY <1>3, <2>1, <2>2, RepeatedTimers DEF TransStates
  <2>4. Fit(y)  BY <1>3, <1>6, <2>1, <2>3 DEF Fit, None, Gone, Answered
  <2>5. QED  BY <1>6, <2>1, <2>3, <2>4 DEF Answered
<1>7. CASE code \notin Final /\ b
  <2>1. y = Repeated(z, "PROCEEDING_REL")  BY <1>7 DEF update_uas_reply
  <2>2. /\ y \in Trans /\ y.state = "PROCEEDING_REL" /\ y.reply_status = code
        /\ y.timers[0] = (IF reliable THEN x.timers[0] ELSE "G")
        /\ y.timers[1] = "H" /\ y.timers[2] = None /\ y.last_rseq = b
      BY <1>3, <2>1, RepeatedTimers DEF TransStates
  <2>3. Fit(y)  BY <1>3, <1>7, <2>2 DEF Fit, None, Gone, Answered
  <2>4. QED  BY <1>7, <2>2, <2>3
<1>8. CASE code \notin Final /\ ~b
  <2>1. y = [z EXCEPT !.state = "PROCEEDING"]  BY <1>8 DEF update_uas_reply
  <2>2. /\ y \in Trans /\ y.state = "PROCEEDING" /\ y.timers = x.timers
        /\ y.reply_status = code
      BY <2>1, SetState DEF TransStates
  <2>3. Fit(y)  BY <1>3, <1>8, <2>2 DEF Fit, None, Gone, Answered
  <2>4. QED  BY <1>8, <2>2, <2>3
<1>9. QED  BY <1>4, <1>5, <1>6, <1>7, <1>8

\* A reply that the transport refused.
LEMMA RefusedFit ==
    ASSUME method \in AllMethods, reliable \in BOOLEAN,
           NEW x, Fit(x), x.state \notin Gone \cup Answered,
           NEW b \in BOOLEAN, x.last_rseq => b,
           NEW z \in Trans, z.state = x.state, z.timers = x.timers,
           z.reply_status = x.reply_status, z.last_rseq = b,
           NEW y, y = IF reliable THEN Removed ELSE reset_timer(z, "J")
    PROVE  Fit(y) /\ y.state \in {x.state, "REMOVED"}
<1>1. CASE reliable  BY <1>1, FreshFit DEF Removed, Blank
<1>2. CASE ~reliable
  <2>1. /\ y \in Trans /\ y.state = x.state /\ y.reply_status = x.reply_status
        /\ y.last_rseq = b /\ y.timers[0] = "J"
        /\ y.timers[1] = x.timers[1] /\ y.timers[2] = x.timers[2]
      BY <1>2, Timers, Slots
  <2>2. QED  BY <1>2, <2>1 DEF Fit, None
<1>3. QED  BY <1>1, <1>2

\* The ACK for an error reply.
LEMMA ConfirmedFit ==
    ASSUME method = "INVITE", reliable \in BOOLEAN,
           NEW x, Fit(x), x.state = "COMPLETED",
           NEW y, y = Confirmed(x)
    PROVE  Fit(y) /\ y.state \in {"CONFIRMED", "REMOVED"}
<1>1. CASE reliable  BY <1>1, FreshFit DEF Confirmed, Removed, Blank, AllMethods
<1>2. CASE ~reliable
  <2> DEFINE g == clear_timer(x, "G")
             h == clear_timer(g, "H")
             i == reset_timer(h, "I")
  <2>1. x \in Trans  BY DEF Fit
  <2>2. /\ g \in Trans /\ g.reply_status = x.reply_status /\ g.last_rseq = x.last_rseq
        /\ g.timers[0] = None
      BY <2>1, Timers, Slots
  <2> HIDE DEF g
  <2>3. /\ h \in Trans /\ h.reply_status = x.reply_status
        /\ h.timers[0] = None /\ h.timers[1] = None
      BY <2>2, Timers, Slots
  <2> HIDE DEF h
  <2>4. /\ i \in Trans /\ i.reply_status = x.reply_status
        /\ i.timers[0] = None /\ i.timers[1] = None /\ i.timers[2] = "I"
      BY <2>3, Timers, Slots
  <2>5. y = [i EXCEPT !.state = "CONFIRMED"]
      BY <1>2 DEF Confirmed, g, h
  <2> HIDE DEF i
  <2>6. /\ y \in Trans /\ y.state = "CONFIRMED" /\ y.timers = i.timers
        /\ y.reply_status = x.reply_status
      BY <2>4, <2>5, SetState DEF TransStates
  <2>7. x.reply_status \in Final  BY DEF Fit, Answered
  <2>8. QED  BY <1>2, <2>4, <2>6, <2>7 DEF Fit, None, Gone, Answered
<1>3. QED  BY <1>1, <1>2

\* The PRACK, or its absence, for a reliable 1xx.
LEMMA PrackFit ==
    ASSUME NEW x, Fit(x), x.state = "PROCEEDING_REL"
    PROVE  /\ Fit(clear_timer(x, "H"))
           /\ clear_timer(x, "H").state = "PROCEEDING_REL"
           /\ Fit(clear_timer(clear_timer(x, "G"), "H"))
           /\ clear_timer(clear_timer(x, "G"), "H").state = "PROCEEDING_REL"
<1>1. ASSUME NEW z, Fit(z), z.state = "PROCEEDING_REL",
             NEW type \in {"G", "H"}
      PROVE  Fit(clear_timer(z, type)) /\ clear_timer(z, type).state = "PROCEEDING_REL"
  <2> DEFINE y == clear_timer(z, type)
  <2>1. z \in Trans  BY <1>1 DEF Fit
  <2>2. /\ y \in Trans /\ y.state = z.state /\ y.reply_status = z.reply_status
        /\ y.last_rseq = z.last_rseq
        /\ y.timers[0] = (IF type = "G" THEN None ELSE z.timers[0])
        /\ y.timers[1] = (IF type = "H" THEN None ELSE z.timers[1])
        /\ y.timers[2] = z.timers[2]
      BY <1>1, <2>1, Timers, Slots
  <2> HIDE DEF y
  <2>3. Fit(y)  BY <1>1, <2>2 DEF Fit, None, Gone, Answered
  <2>4. QED  BY <1>1, <2>2, <2>3 DEF y
<1>2. QED  BY <1>1

-----------------------------------------------------------------------------
(* The invariant.                                                          *)

\* A handler that works on transaction i leaves the others alone.
LEMMA StepKeeps ==
    ASSUME IInv, NEW i \in Tids, NEW y, Fit(y), Exists(i), y.state # "absent",
           UNCHANGED <<method, reliable, rseq, pending, made>>,
           tr' = [tr EXCEPT ![i] = y],
           NEW s \in Sent, sent' = [sent EXCEPT ![i] = s],
           NEW t \in Told, told' = [told EXCEPT ![i] = t],
           y.state \in Answered => s # <<>>,
           y.state \notin Answered \cup {"REMOVED"} => s = <<>>,
           t # <<>> => s # <<>> /\ y.state = "REMOVED"
    PROVE  IInv'
<1>1. /\ tr' \in [Tids -> Trans] /\ sent' \in [Tids -> Sent]
      /\ told' \in [Tids -> Told]
    BY DEF IInv, Fit
<1>2. /\ tr'[i] = y /\ sent'[i] = s /\ told'[i] = t
      /\ \A j \in Tids \ {i} : tr'[j] = tr[j] /\ sent'[j] = sent[j] /\ told'[j] = told[j]
    BY DEF IInv
<1>3. \A j \in Tids : Fit(tr'[j])
    BY <1>2 DEF IInv
<1>4. \A j \in Tids : Fit(tr[j])'
    BY <1>3 DEF Fit
<1>5. OneTransaction'
    BY <1>2 DEF IInv, OneTransaction, Exists
<1>6. i <= made
    BY DEF IInv, History, Exists, Tids
<1>7. History(i)'
    BY <1>2, <1>6 DEF History, IInv, Tids
<1>8. \A j \in Tids \ {i} : History(j)'
    BY <1>2 DEF History, IInv
<1>9. QED  BY <1>1, <1>4, <1>5, <1>7, <1>8 DEF IInv

\* A handler that sends no final reply and tells the UA nothing.
LEMMA SilentStepKeeps ==
    ASSUME IInv, NEW i \in Tids, NEW y, Fit(y), Exists(i), y.state # "absent",
           UNCHANGED <<method, reliable, rseq, pending, made, sent, told>>,
           tr' = [tr EXCEPT ![i] = y],
           y.state = "REMOVED" \/ (y.state \in Answered <=> tr[i].state \in Answered)
    PROVE  IInv'
<1>1. PICK s \in Sent : s = sent[i]
    BY DEF IInv
<1>2. PICK t \in Told : t = told[i]
    BY DEF IInv
<1>3. sent' = [sent EXCEPT ![i] = s] /\ told' = [told EXCEPT ![i] = t]
    BY <1>1, <1>2 DEF IInv
<1>4. /\ t = <<>>
      /\ y.state \in Answered => s # <<>>
      /\ y.state \notin Answered \cup {"REMOVED"} => s = <<>>
    BY <1>1, <1>2 DEF IInv, History, Exists, Answered
<1>5. UNCHANGED <<method, reliable, rseq, pending, made>>
    OBVIOUS
<1>6. t # <<>> => s # <<>> /\ y.state = "REMOVED"
    BY <1>4
<1>7. QED
    BY ONLY IInv, i \in Tids, Fit(y), Exists(i), y.state # "absent",
            tr' = [tr EXCEPT ![i] = y], s \in Sent, t \in Told,
            <1>3, <1>4, <1>5, <1>6, StepKeeps

\* A handler that tells the UA how the transaction ended and removes it.
LEMMA LastStepKeeps ==
    ASSUME IInv, NEW i \in Tids, Exists(i), sent[i] # <<>>,
           UNCHANGED <<method, reliable, rseq, pending, made, sent>>,
           tr' = [tr EXCEPT ![i] = Removed],
           NEW t \in Told, told' = [told EXCEPT ![i] = t]
    PROVE  IInv'
<1>1. PICK s \in Sent : s = sent[i]
    BY DEF IInv
<1>2. PICK y : y = Removed
    OBVIOUS
<1>3. Fit(y) /\ y.state = "REMOVED"
    BY <1>2, FreshFit DEF IInv, Removed, Blank
<1>4. sent' = [sent EXCEPT ![i] = s] /\ s # <<>> /\ y.state \notin Answered
    BY <1>1, <1>3 DEF IInv, Answered
<1>5. UNCHANGED <<method, reliable, rseq, pending, made>>
    OBVIOUS
<1>6. QED
    BY <1>2, <1>3, <1>4, <1>5, StepKeeps

LEMMA InitHolds == Init => IInv
<1> SUFFICES ASSUME Init PROVE IInv
    OBVIOUS
<1>1. /\ method \in AllMethods /\ reliable \in BOOLEAN /\ rseq \in BOOLEAN
      /\ pending = 0 /\ made = 0 /\ MaxTrans \in Nat
    BY UasAssumption DEF Init
<1>2. Fit(Absent) /\ Absent.state = "absent"
    BY <1>1, FreshFit DEF Absent, Blank
<1>3. /\ tr \in [Tids -> Trans] /\ sent \in [Tids -> Sent]
      /\ told \in [Tids -> Told]
    BY <1>2 DEF Init, Fit, Sent, Told
<1>4. \A i \in Tids : tr[i] = Absent /\ sent[i] = <<>> /\ told[i] = <<>>
    BY DEF Init
<1>5. \A i \in Tids : Fit(tr[i]) /\ History(i)
    BY <1>2, <1>4 DEF History, Answered
<1>6. OneTransaction
    BY <1>2, <1>4 DEF OneTransaction, Exists
<1>7. QED  BY <1>1, <1>3, <1>5, <1>6 DEF IInv

LEMMA NextKeeps == IInv /\ [Next]_vars => IInv'
<1> SUFFICES ASSUME IInv, [Next]_vars PROVE IInv'
    OBVIOUS
<1>0. /\ method \in AllMethods /\ reliable \in BOOLEAN /\ rseq \in BOOLEAN
      /\ tr \in [Tids -> Trans] /\ sent \in [Tids -> Sent]
      /\ told \in [Tids -> Told]
      /\ \A i \in Tids : Fit(tr[i]) /\ History(i)
    BY DEF IInv
<1>r. Fit(Removed) /\ Removed.state = "REMOVED"
    BY <1>0, FreshFit DEF Removed, Blank
<1>g. \A i \in Tids : Exists(i) <=> tr[i].state \notin Gone
    BY DEF Exists, Gone
<1>k. \A i \in Tids : sent' = sent => sent' = [sent EXCEPT ![i] = sent[i]]
    BY <1>0
<1>l. \A i \in Tids : told' = told => told' = [told EXCEPT ![i] = told[i]]
    BY <1>0
<1>1. ASSUME NEW p \in Nat, add_trans, pending' = p,
             made + 1 + p <= MaxTrans, p # 0 => method = "PRACK",
             method # "PRACK" => \A i \in Tids : ~Exists(i)
      PROVE  IInv'
  <2>0. PICK n \in Tids : n = made + 1
    <3>1. made \in Nat /\ MaxTrans \in Nat  BY UasAssumption DEF IInv
    <3>2. made + 1 <= MaxTrans  BY <1>1, <3>1
    <3>3. QED  BY ONLY <3>1, <3>2 DEF Tids
  <2>1. /\ made' = n
        /\ tr' = [tr EXCEPT ![n] = NewTrans]
        /\ UNCHANGED <<method, reliable, rseq, sent, told>>
      BY <1>1, <2>0 DEF add_trans
  <2>2. Fit(NewTrans) /\ NewTrans.state \in {"PROCEEDING", "TRYING"}
      BY <1>0, FreshFit DEF NewTrans, Blank
  <2>3. /\ tr'[n] = NewTrans
        /\ \A i \in Tids \ {n} : tr'[i] = tr[i]
        /\ tr' \in [Tids -> Trans]
      BY <1>0, <2>1, <2>2 DEF Fit
  <2>4. \A i \in Tids : Fit(tr'[i])
      BY <1>0, <2>2, <2>3
  <2>5. \A i \in Tids : Fit(tr[i])'
      BY <2>1, <2>4 DEF Fit
  <2>6. OneTransaction'
      BY <1>1, <2>1, <2>3 DEF OneTransaction, Exists
  <2>7. /\ made \in Nat /\ n > made
        /\ pending' \in Nat /\ made' \in Nat /\ made' + pending' <= MaxTrans
        /\ (pending # 0 => method = "PRACK")'
    <3>1. made \in Nat  BY DEF IInv
    <3>2. n > made /\ n \in Nat /\ n + p <= MaxTrans
        BY <1>1, <2>0, <3>1
    <3>3. QED  BY <1>1, <2>1, <3>1, <3>2
  <2>8. tr[n].state = "absent" /\ sent[n] = <<>> /\ told[n] = <<>>
      BY <1>0, <2>7 DEF History, Answered
  <2>9. History(n)'
      BY <2>1, <2>2, <2>3, <2>7, <2>8 DEF History, Answered
  <2>10. \A i \in Tids \ {n} : History(i)'
    <3> SUFFICES ASSUME NEW i \in Tids \ {n} PROVE History(i)'
        OBVIOUS
    <3>1. History(i) /\ tr'[i] = tr[i] /\ sent' = sent /\ told' = told
        BY <1>0, <2>1, <2>3
    <3>2. i > made' => i > made
        BY <2>0, <2>1, <2>7 DEF Tids
    <3>3. QED  BY <3>1, <3>2 DEF History
  <2>11. QED  BY <1>0, <2>1, <2>3, <2>5, <2>6, <2>7, <2>9, <2>10 DEF IInv
<1>a. ASSUME receive_request PROVE IInv'
  <2>1. method # "PRACK" /\ add_trans /\ made < MaxTrans /\ UNCHANGED pending
        /\ \A i \in Tids : ~Exists(i)
      BY <1>a DEF receive_request
  <2>2. pending = 0 /\ made \in Nat /\ MaxTrans \in Nat
      BY <2>1, UasAssumption DEF IInv
  <2>3. made + 1 + 0 <= MaxTrans  BY <2>1, <2>2
  <2>4. QED  BY <1>1, <2>1, <2>2, <2>3
<1>b. ASSUME add_PRACK PROVE IInv'
  <2>1. PICK p \in Nat : pending = p + 1 /\ made + 1 + p <= MaxTrans
    <3>1. pending \in Nat /\ pending > 0 /\ made \in Nat /\ made + pending <= MaxTrans
        BY <1>b DEF IInv, add_PRACK
    <3>2. pending - 1 \in Nat /\ pending = (pending - 1) + 1
          /\ made + 1 + (pending - 1) <= MaxTrans
        BY ONLY <3>1, UasAssumption
    <3>3. QED  BY <3>2
  <2>2. pending' = p /\ method = "PRACK" /\ add_trans
      BY <1>b, <2>1 DEF add_PRACK, IInv
  <2>3. QED  BY <1>1, <2>1, <2>2
<1>c. ASSUME unlock_for_PRACK PROVE IInv'
  <2>0. /\ pending' = pending + 1 /\ pending \in Nat /\ made \in Nat
        /\ made + pending < MaxTrans /\ MaxTrans \in Nat
      BY <1>c, UasAssumption DEF unlock_for_PRACK, IInv
  <2>1. /\ pending' \in Nat /\ made + pending' <= MaxTrans
        /\ method = "PRACK"
        /\ UNCHANGED <<method, reliable, rseq, made, tr, sent, told>>
      BY <1>c, <2>0 DEF unlock_for_PRACK
  <2>2. QED
      BY <2>1 DEF IInv, Fit, History, OneTransaction, Exists
<1>2. ASSUME NEW i \in Tids, NEW code \in {"1xx"} \cup Final, NEW rel \in BOOLEAN,
             NEW ok \in BOOLEAN, send_reply(i, code, rel, ok)
      PROVE  IInv'
  <2> DEFINE x == tr[i]
             b == x.last_rseq \/ rseq
             z == [x EXCEPT !.last_rseq = b]
             zz == [z EXCEPT !.reply_status = code]
             y == IF ok THEN update_uas_reply(zz, code)
                  ELSE IF reliable THEN Removed ELSE reset_timer(z, "J")
             s == IF ok /\ code \in Final THEN Append(sent[i], code) ELSE sent[i]
  <2>1. x \in Trans /\ Fit(x) /\ History(i) /\ b \in BOOLEAN
      BY <1>0 DEF Trans
  <2>2. /\ Open(i) /\ tr' = [tr EXCEPT ![i] = y]
        /\ sent' = IF ok /\ code \in Final THEN [sent EXCEPT ![i] = Append(@, code)]
                                           ELSE sent
        /\ UNCHANGED <<method, reliable, rseq, pending, made, told>>
      BY <1>2 DEF send_reply
  <2>3. sent' = [sent EXCEPT ![i] = s]
      BY <1>0, <2>2
  <2>4. Exists(i) /\ x.state \notin Gone \cup Answered
      BY <1>g, <2>1, <2>2 DEF Open, Fit
  <2>5. sent[i] = <<>> /\ told[i] = <<>>
      BY <2>1, <2>4 DEF History, Gone
  <2>6. /\ z \in Trans /\ z.state = x.state /\ z.timers = x.timers
        /\ z.reply_status = x.reply_status /\ z.last_rseq = b
      BY <2>1 DEF Trans
  <2> HIDE DEF b, z
  <2>7. /\ zz \in Trans /\ zz.state = x.state /\ zz.timers = x.timers
        /\ zz.reply_status = code /\ zz.last_rseq = b
      BY <2>6 DEF Trans
  <2> HIDE DEF zz
  <2>8. x.last_rseq => b  BY DEF b
  <2>9. CASE ok
    <3>1. y = update_uas_reply(zz, code)  BY <2>9
    <3> HIDE DEF x, y
    <3>2. /\ Fit(y)
          /\ code \in Final => y.state \in Answered \cup {"REMOVED"}
          /\ code \notin Final => y.state \in {"PROCEEDING", "PROCEEDING_REL"}
        BY <1>0, <2>1, <2>4, <2>7, <2>8, <3>1, ReplyFit
    <3>3. CASE code \in Final
      <4>1. s = <<code>>  BY <2>5, <2>9, <3>3
      <4>2. s \in Sent /\ s # <<>>
        <5> HIDE DEF s
        <5>1. code \in {"2xx", "6xx"}  BY <3>3 DEF Final
        <5>2. QED  BY <4>1, <5>1 DEF Sent
      <4> HIDE DEF s
      <4>3. y.state # "absent" /\ (y.state \in Answered \/ y.state = "REMOVED")
          BY <3>2, <3>3 DEF Answered
      <4>4. QED
          BY <1>0, <1>l, <2>2, <2>3, <2>4, <2>5, <3>2, <4>2, <4>3, StepKeeps DEF Told
    <3>4. CASE code \notin Final
      <4>1. s = <<>> /\ s \in Sent  BY <2>5, <3>4 DEF Sent
      <4> HIDE DEF s
      <4>2. y.state \notin Answered /\ y.state # "absent"
          BY <3>2, <3>4 DEF Answered
      <4>3. QED  BY <1>0, <1>l, <2>2, <2>3, <2>4, <2>5, <3>2, <4>1, <4>2, StepKeeps DEF Told
    <3>5. QED  BY <3>3, <3>4
  <2>10. CASE ~ok
    <3>1. y = IF reliable THEN Removed ELSE reset_timer(z, "J")  BY <2>10
    <3>2. s = <<>> /\ s \in Sent  BY <2>5, <2>10 DEF Sent
    <3> HIDE DEF x, y, s
    <3>3. Fit(y) /\ y.state \in {x.state, "REMOVED"}
        BY <1>0, <2>1, <2>4, <2>6, <2>8, <3>1, RefusedFit
    <3>4. y.state \notin Answered /\ y.state # "absent"
        BY <2>4, <3>3 DEF Answered, Gone
    <3>5. QED  BY <1>0, <1>l, <2>2, <2>3, <2>4, <2>5, <3>2, <3>3, <3>4, StepKeeps DEF Told
  <2>11. QED  BY <2>9, <2>10
<1>3. ASSUME NEW i \in Tids, NEW j \in Tids, receive_ACK(i, j) PROVE IInv'
  <2>1. /\ method = "INVITE" /\ Exists(i)
        /\ UNCHANGED <<method, reliable, rseq, pending, made, sent>>
      BY <1>3 DEF receive_ACK
  <2>2. Fit(tr[i]) /\ History(i)  BY <1>0
  <2>3. sent[i] # <<>> /\ told[i] = <<>>
      BY <1>3, <2>2 DEF receive_ACK, History, Answered
  <2>4. CASE tr[i].state = "COMPLETED"
    <3>1. tr' = [tr EXCEPT ![i] = Confirmed(tr[i])] /\ told' = told
        BY <1>3, <2>4 DEF receive_ACK
    <3>2. Fit(Confirmed(tr[i])) /\ Confirmed(tr[i]).state \in {"CONFIRMED", "REMOVED"}
        BY <1>0, <2>1, <2>2, <2>4, ConfirmedFit
    <3>3. /\ Confirmed(tr[i]).state # "absent"
          /\ Confirmed(tr[i]).state \in Answered \cup {"REMOVED"}
        BY <3>2 DEF Answered
    <3>4. QED
        BY <2>1, <2>4, <3>1, <3>2, <3>3, SilentStepKeeps DEF Answered
  <2>5. CASE tr[i].state = "TERMINATED_200"
    <3>1. /\ tr' = [tr EXCEPT ![i] = Removed]
          /\ told' = [told EXCEPT ![i] = Append(@, "ACK")]
        BY <1>3, <2>5 DEF receive_ACK
    <3>2. /\ told' = [told EXCEPT ![i] = <<"ACK">>]
          /\ <<"ACK">> \in Told /\ <<"ACK">> # <<>>
        BY <1>0, <2>3, <3>1 DEF Told
    <3>3. QED
        BY <2>1, <2>3, <3>1, <3>2, LastStepKeeps
  <2>6. QED  BY <1>3, <2>4, <2>5 DEF receive_ACK
<1>4. ASSUME NEW i \in Tids, receive_PRACK(i) PROVE IInv'
  <2> DEFINE y == clear_timer(clear_timer(tr[i], "G"), "H")
  <2>1. /\ tr[i].state = "PROCEEDING_REL" /\ tr' = [tr EXCEPT ![i] = y]
        /\ UNCHANGED <<method, reliable, rseq, pending, made, sent, told>>
      BY <1>4 DEF receive_PRACK
  <2>2. Fit(tr[i]) /\ History(i)  BY <1>0
  <2>3. Fit(y) /\ y.state = "PROCEEDING_REL"  BY <2>1, <2>2, PrackFit
  <2>4. Exists(i)  BY <2>1 DEF Exists
  <2> HIDE DEF y
  <2>5. QED  BY <2>1, <2>3, <2>4, SilentStepKeeps
<1>5. ASSUME NEW i \in Tids, fire_H(i) PROVE IInv'
  <2>1. Fit(tr[i]) /\ History(i)  BY <1>0
  <2>2. /\ Exists(i)
        /\ tr[i].state \in {"PROCEEDING_REL", "COMPLETED", "TERMINATED_200"}
      BY <1>5, <2>1 DEF fire_H, Fit, Exists
  <2>3. UNCHANGED <<method, reliable, rseq, pending, made, sent>>  BY <1>5 DEF fire_H
  <2>4. CASE tr[i].state = "PROCEEDING_REL"
    <3> DEFINE y == clear_timer(tr[i], "H")
    <3>1. tr' = [tr EXCEPT ![i] = y] /\ told' = told
        BY <1>5, <2>4 DEF fire_H
    <3>2. Fit(y) /\ y.state = "PROCEEDING_REL"  BY <2>1, <2>4, PrackFit
    <3> HIDE DEF y
    <3>3. QED  BY <2>2, <2>3, <2>4, <3>1, <3>2, SilentStepKeeps
  <2>5. CASE tr[i].state \in {"COMPLETED", "TERMINATED_200"}
    <3>1. /\ tr' = [tr EXCEPT ![i] = Removed]
          /\ told' = [told EXCEPT ![i] = Append(@, "noACK")]
        BY <1>5, <2>5 DEF fire_H
    <3>2. sent[i] # <<>> /\ told[i] = <<>>
        BY <2>1, <2>5 DEF History, Answered
    <3>3. /\ told' = [told EXCEPT ![i] = <<"noACK">>]
          /\ <<"noACK">> \in Told /\ <<"noACK">> # <<>>
        BY <1>0, <3>1, <3>2 DEF Told
    <3>4. QED
        BY <2>2, <2>3, <3>1, <3>2, <3>3, LastStepKeeps
  <2>6. QED  BY <2>2, <2>4, <2>5
<1>6. ASSUME NEW i \in Tids, NEW type \in {"I", "J"}, fire_IJ(i, type) PROVE IInv'
  <2>1. Fit(tr[i]) /\ History(i)  BY <1>0
  <2>2. tr[i].timers[0] = "J" \/ tr[i].timers[2] = "I"
      BY <1>6, Slots DEF fire_IJ
  <2>3. Exists(i) /\ told[i] = <<>>
      BY <2>1, <2>2 DEF Fit, Exists, Gone, None, History
  <2>4. /\ tr' = [tr EXCEPT ![i] = Removed]
        /\ UNCHANGED <<method, reliable, rseq, pending, made, sent, told>>
      BY <1>6 DEF fire_IJ
  <2>5. QED
      BY <1>r, <2>3, <2>4, SilentStepKeeps
<1>7. ASSUME UNCHANGED vars PROVE IInv'
    BY <1>7 DEF IInv, vars, Fit, History, OneTransaction, Exists
<1>8. QED
    BY <1>a, <1>b, <1>c, <1>2, <1>3, <1>4, <1>5, <1>6, <1>7 DEF Next, Timer, fire_G, Final

-----------------------------------------------------------------------------
(* Theorems.                                                               *)

\* Everything has its type, whatever arrives, is sent or expires.
THEOREM TypeCorrect == Spec => []TypeOK
<1>1. IInv => TypeOK
  <2>1. Sent \subseteq Seq(Final) /\ Told \subseteq Seq({"ACK", "noACK"})
      BY DEF Sent, Told, Final
  <2>2. QED  BY <2>1 DEF IInv, TypeOK, Fit, Trans, TransStates
<1>2. QED  BY <1>1, InitHolds, NextKeeps, PTL DEF Spec

\* For any number of copies of a request: no timer outlives the state it was
\* set for, and a transaction that sent its final reply has a timer that ends
\* it.
THEOREM TimersRight == Spec => [](TimersFit /\ AnsweredEnds)
<1>1. IInv => TimersFit /\ AnsweredEnds
  <2> SUFFICES ASSUME IInv, NEW i \in Tids PROVE
        LET x == tr[i]
        IN  /\ x.timers[0] = "G" \/ x.timers[1] = "H" =>
                 x.state \in {"PROCEEDING_REL", "COMPLETED", "TERMINATED_200"}
            /\ x.timers[2] = "I" => x.state = "CONFIRMED"
            /\ x.timers[0] = "J" => \/ x.reply_status \notin Final
                                    \/ method # "INVITE" /\ x.state = "COMPLETED"
            /\ x.reply_status \in Final
               => x.timers[1] = "H" \/ x.timers[2] = "I" \/ x.timers[0] = "J"
      BY DEF TimersFit, AnsweredEnds
  <2>1. Fit(tr[i])  BY DEF IInv
  <2>2. QED  BY <2>1 DEF Fit
<1>2. QED  BY <1>1, InitHolds, NextKeeps, PTL DEF Spec

\* Of one request, PRACK excepted, there is one transaction at a time, each sends one
\* final reply, and the UA is told of the ACK or of its absence, not of both.
THEOREM OneOutcome == Spec => [](OneTransaction /\ FinalOnce /\ AckOrTimeout)
<1>1. IInv => OneTransaction /\ FinalOnce /\ AckOrTimeout
  <2> SUFFICES ASSUME IInv, NEW i \in Tids
               PROVE  /\ Len(sent[i]) <= 1 /\ Len(told[i]) <= Len(sent[i])
                      /\ told[i] # <<>> => tr[i].state = "REMOVED"
      BY DEF FinalOnce, AckOrTimeout, IInv
  <2>1. History(i) /\ sent[i] \in Sent /\ told[i] \in Told  BY DEF IInv
  <2>2. \A q \in Sent \cup Told : Len(q) = IF q = <<>> THEN 0 ELSE 1
      BY DEF Sent, Told
  <2>3. /\ Len(sent[i]) = IF sent[i] = <<>> THEN 0 ELSE 1
        /\ Len(told[i]) = IF told[i] = <<>> THEN 0 ELSE 1
      BY <2>1, <2>2
  <2>4. QED  BY <2>1, <2>3 DEF History
<1>2. QED  BY <1>1, InitHolds, NextKeeps, PTL DEF Spec

\* The transaction of a final reply to an INVITE tells the UA at most once how it
\* ended, of the ACK or of timer H without one, and is gone from its bucket then.
THEOREM OneVerdict == Spec => []AckOrTimeout
BY OneOutcome, PTL
=============================================================================
