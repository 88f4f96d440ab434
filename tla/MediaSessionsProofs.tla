------------------------ MODULE MediaSessionsProofs -------------------------
(***************************************************************************)
(* The steps of the media threads keep the invariant of MediaClientProofs, *)
(* and what follows from it.                                               *)
(***************************************************************************)
EXTENDS MediaClientProofs

\* What a leaf with no prover of its own is tried with.
USE SMTT(30), ZenonT(30)

\* A stream error: the thread posts a Clear to itself.
LEMMA ErrorStep ==
    ASSUME IInv, NEW t \in Threads, StreamError(t) PROVE IInv'
<1> USE ClientAssumption, MediaAssumption
<1>0. Types /\ Alone /\ Made /\ Idle /\ Moving BY DEF IInv
<1>1. PICK s \in sessions[t] : stream_error(t, s) /\ UNCHANGED <<user, moved, b2b, busy>>
  BY DEF StreamError
<1>2. s \in Addr BY <1>0 DEF Types
<1>3. UNCHANGED <<processing_media, gen, groups, sessions, user, moved, b2b, busy>>
  BY <1>1 DEF stream_error
<1>4. Drops
  <2>1. Request("Clear", s) \in Requests /\ Request("Clear", s).type = "Clear" BY <1>0, <1>2, RequestType
  <2>2. queue' = postRequest(queue, t, Request("Clear", s)) BY <1>1 DEF stream_error
  <2>3. Table(groups') BY <1>0, <1>3 DEF Types, Table
  <2> QED BY <1>3, <2>1, <2>2, <2>3 DEF Drops
<1>5. Call(s) BY <1>4 DEF Call
<1>6. Alone' /\ \A x \in Addr \ moved' : Held(x)' BY <1>2, <1>3, <1>5, CallHeld
<1>7. Types' BY <1>0, <1>2, <1>3, <1>5, CallType DEF Types
<1>8. Made' /\ Idle' /\ Moving' BY <1>0, <1>3 DEF Made, Idle, Moving
<1>9. \A m \in Media : Counted(b2b[m], processing_media[m])' BY <1>3 DEF IInv, Counted, References
<1> QED BY <1>6, <1>7, <1>8, <1>9 DEF IInv

\* The request at the head of a queue.
LEMMA HeadRequest ==
    ASSUME Types, NEW t \in Threads, Pending(t)
    PROVE  First(t) \in Requests /\ First(t).s \in Addr /\ queue[t] # <<>>
<1>1. queue[t] \in Seq(Requests) /\ queue[t] # <<>> BY DEF Types, Pending
<1>2. First(t) \in Requests BY <1>1 DEF First
<1> QED BY <1>1, <1>2 DEF Requests

LEMMA HeadInserts ==
    ASSUME Types, NEW t \in Threads, Pending(t)
    PROVE  \A s : Inserts(t, 1, s) <=> First(t).type = "Insert" /\ First(t).s = s
<1>1. queue[t] \in Seq(Requests) /\ queue[t] # <<>> BY DEF Types, Pending
<1>2. First(t) = queue[t][1] /\ 1 \in 1 .. Len(queue[t]) BY <1>1 DEF First
<1> QED BY <1>2 DEF Inserts

\* onMediaProcessingTerminated of s, on behalf of a thread that has dropped it.
LEMMA TerminatedKeeps ==
    ASSUME IInv, NEW s \in Addr, s \in Media => processing_media[s], Terminated(s),
           UNCHANGED <<gen, user, moved>>
    PROVE  /\ processing_media' = [processing_media EXCEPT ![s] = FALSE]
           /\ b2b' \in [Media -> Objects]
           /\ Made' /\ Idle' /\ Moving'
           /\ \A m \in Media : Counted(b2b[m], processing_media[m])'
<1> USE ClientAssumption, MediaAssumption
<1>0. Types /\ Alone /\ Made /\ Idle /\ Moving BY DEF IInv
<1>1. processing_media' = [processing_media EXCEPT ![s] = FALSE] BY DEF Terminated
<1>2. /\ processing_media'[s] = FALSE
      /\ \A x \in Addr \ {s} : processing_media'[x] = processing_media[x]
  BY <1>0, <1>1 DEF Types
<1>3. ASSUME s \in Media
      PROVE  Released(b2b[s]) \in Objects /\ Counted(Released(b2b[s]), FALSE) /\ b2b[s].alive
  <2>1. b2b[s] \in Objects /\ b2b[s].alive BY <1>0, <1>3, LiveFlag DEF Types
  <2>2. References(b2b[s]) \in Int BY DEF References
  <2>3. b2b[s].ref_cnt = References(b2b[s]) + (IF FALSE THEN 1 ELSE 0) + 1
    BY <1>3, <2>1, <2>2 DEF IInv, Counted
  <2> QED BY <2>1, <2>3, ReleasedCounted, Zenon
<1>4. ASSUME NEW m \in Media
      PROVE  /\ b2b'[m] \in Objects /\ Counted(b2b'[m], processing_media'[m])
             /\ b2b'[m].alive => b2b[m].alive
  <2>1. b2b[m] \in Objects /\ Counted(b2b[m], processing_media[m]) BY <1>0 DEF Types, IInv
  <2>2. CASE m = s
    <3>1. b2b'[m] = Released(b2b[s]) BY <1>0, <2>2 DEF Terminated, Types
    <3> QED BY <2>2, <3>1, <1>2, <1>3, Zenon
  <2>3. CASE m # s
    <3>1. b2b'[m] = b2b[m] BY <1>0, <2>3 DEF Terminated, Types
    <3> QED BY <2>1, <2>3, <3>1, <1>2
  <2> QED BY <2>2, <2>3
<1>5. b2b' \in [Media -> Objects]
  <2>1. b2b' = [m \in Media |-> b2b'[m]] BY <1>0, Zenon DEF Terminated, Types
  <2> QED BY <2>1, <1>4
<1>6. \A m \in Media : Counted(b2b[m], processing_media[m])' BY <1>4 DEF Counted, References
<1>7. Made' BY <1>0, <1>4 DEF Made
<1>8. Idle' /\ Moving' BY <1>0, <1>2 DEF Idle, Moving
<1> QED BY <1>1, <1>5, <1>6, <1>7, <1>8, Zenon

\* A thread takes up a request: the hold moves from the Insert to the set, or
\* ends with processing_media.
LEMMA ProcessStep ==
    ASSUME IInv, NEW t \in Threads, process(t) PROVE IInv'
<1> USE ClientAssumption, MediaAssumption
<1>0. Types /\ Alone /\ Made /\ Idle /\ Moving BY DEF IInv
<1> DEFINE r == First(t)
<1>1. /\ busy[t] = 0 /\ Pending(t) /\ sessions' = processed(t) /\ queue' = popped(t)
      /\ UNCHANGED <<gen, groups, user, moved, busy>>
  BY DEF process
<1>2. r \in Requests /\ r.s \in Addr /\ queue[t] # <<>> BY <1>0, <1>1, HeadRequest
<1>3. /\ sessions'[t] = IF r.type = "Insert" THEN sessions[t] \cup {r.s} ELSE sessions[t] \ {r.s}
      /\ \A u \in Threads \ {t} : sessions'[u] = sessions[u]
      /\ sessions' \in [Threads -> SUBSET Addr]
  BY <1>0, <1>1, <1>2 DEF processed, Types
<1>4. queue' \in [Threads -> Seq(Requests)] BY <1>0, <1>1, <1>2, PopType
<1>5. \A u \in Threads \ {t} : queue'[u] = queue[u] BY <1>0, <1>1 DEF popped, Types
<1>6. Alone' BY <1>0, <1>1, <1>5 DEF Alone, First
<1>7. /\ \A x \in Addr \ {r.s} : processing_media'[x] = processing_media[x]
      /\ processing_media' \in [Addr -> BOOLEAN] /\ b2b' \in [Media -> Objects]
      /\ processing_media'[r.s] = IF Terminates(t) THEN FALSE ELSE processing_media[r.s]
      /\ Made' /\ Idle' /\ Moving' /\ \A m \in Media : Counted(b2b[m], processing_media[m])'
  <2>1. CASE Terminates(t)
    <3>1. Terminated(r.s) BY <2>1 DEF process
    <3>2. r.s \in Media => processing_media[r.s]
      BY <1>0, <1>2, <2>1 DEF Terminates, Found, IInv, Held, Untouched, Has, Types
    <3>3. /\ processing_media' = [processing_media EXCEPT ![r.s] = FALSE]
          /\ b2b' \in [Media -> Objects] /\ Made' /\ Idle' /\ Moving'
          /\ \A m \in Media : Counted(b2b[m], processing_media[m])'
      BY <3>1, <3>2, <1>1, <1>2, TerminatedKeeps, ZenonT(30)
    <3> QED BY <2>1, <3>3, <1>0, <1>2, Zenon DEF Types
  <2>2. CASE ~Terminates(t)
    <3>1. UNCHANGED <<processing_media, b2b>> BY <2>2 DEF process
    <3>2. Made' /\ Idle' /\ Moving' BY <3>1, <1>0, <1>1 DEF Made, Idle, Moving
    <3>3. \A m \in Media : Counted(b2b[m], processing_media[m])' BY <3>1 DEF IInv, Counted, References
    <3> QED BY <2>2, <3>1, <3>2, <3>3, <1>0 DEF Types
  <2> QED BY <2>1, <2>2, Zenon
<1>8. Types' BY <1>0, <1>1, <1>3, <1>4, <1>7 DEF Types, Table
<1>9. ASSUME NEW x \in Addr \ moved' PROVE Held(x)'
  <2>0. Held(x) BY <1>1 DEF IInv
  <2>1. \A u \in Threads : \A i \in Nat :
            Inserts(u, i, x)' <=> IF u = t THEN i # 0 /\ Inserts(u, i + 1, x) ELSE Inserts(u, i, x)
    BY <1>0, <1>1, <1>2, PopInserts
  <2>2. \A u \in Threads : Clearing(u, x)' <=> Clearing(u, x)
    BY <1>1, <1>5 DEF Clearing, First
  <2>3. \A u \in Threads \ {t} : Has(u, x)' <=> Has(u, x) BY <1>3 DEF Has
  <2>4. Has(t, x)' <=> IF r.s # x THEN Has(t, x) ELSE r.type = "Insert"
    BY <1>3 DEF Has
  <2>5. Inserts(t, 1, x) <=> r.type = "Insert" /\ r.s = x BY <1>0, <1>1, HeadInserts
  <2> HIDE DEF r
  <2>6. CASE r.s # x
    <3>1. \A u \in Threads : Has(u, x)' <=> Has(u, x) BY <2>3, <2>4, <2>6
    <3>2. Once(x)' BY ONLY <2>0, <2>1, <2>2, <3>1 DEF Held, Once
    <3>3. Untouched(x) => Untouched(x)' BY ONLY <2>1, <2>2, <3>1 DEF Untouched
    <3>4. processing_media'[x] = processing_media[x] BY <1>7, <2>6
    <3> QED BY <2>0, <3>2, <3>3, <3>4 DEF Held
  <2>7. CASE r.s = x /\ r.type = "Insert"
    <3>1. Inserts(t, 1, x) BY <2>5, <2>7
    <3>2. \A u \in Threads : /\ ~Has(u, x) /\ ~Clearing(u, x)
                             /\ \A i \in Nat : Inserts(u, i, x) => u = t /\ i = 1
      BY <2>0, <3>1 DEF Held, Once
    <3>3. \A u \in Threads : \A i \in Nat : ~Inserts(u, i, x)' BY <2>1, <3>2
    <3>4. \A u \in Threads : ~Clearing(u, x)' BY <2>2, <3>2
    <3>5. \A u \in Threads : Has(u, x)' <=> u = t BY <2>3, <2>4, <2>7, <3>2, Zenon
    <3>6. processing_media[x] BY <2>0, <3>1 DEF Held, Untouched
    <3>7. ~Terminates(t) BY <2>7 DEF Terminates, r
    <3>8. processing_media'[x] BY <1>7, <2>7, <3>6, <3>7, Zenon
    <3> QED BY <3>3, <3>4, <3>5, <3>8, Zenon DEF Held, Once
  <2>8. CASE r.s = x /\ r.type # "Insert"
    <3>1. \A u \in Threads : Has(u, x)' => Has(u, x) /\ u # t BY <2>3, <2>4, <2>8
    <3>2. Once(x)' BY ONLY <2>0, <2>1, <2>2, <3>1 DEF Held, Once
    <3>3. Untouched(x) => Untouched(x)' BY ONLY <2>1, <2>2, <3>1 DEF Untouched
    <3>4. CASE Terminates(t)
      <4>1. Has(t, x) BY <3>4, <2>8 DEF Terminates, Found, Has, r
      <4>2. \A u \in Threads : (Has(u, x) => u = t) /\ ~Clearing(u, x) /\ \A i \in Nat : ~Inserts(u, i, x)
        BY <2>0, <4>1 DEF Held, Once
      <4>3. Untouched(x)' BY <4>2, <2>1, <2>2, <3>1 DEF Untouched
      <4> QED BY <3>2, <4>3 DEF Held
    <3>5. CASE ~Terminates(t)
      <4>1. processing_media'[x] = processing_media[x] BY <1>7, <2>8, <3>5, Zenon
      <4> QED BY <2>0, <3>2, <3>3, <4>1 DEF Held
    <3> QED BY <3>4, <3>5
  <2> QED BY <2>6, <2>7, <2>8
<1> QED BY <1>6, <1>7, <1>8, <1>9 DEF IInv

\* clearAudio() by a thread that has the object, which is therefore processed.
LEMMA ClearTouches ==
    ASSUME IInv, NEW m \in Media, NEW l \in Legs, processing_media[m],
           b2b' = [b2b EXCEPT ![m] = clearAudio(m, l).x], Becomes(clearAudio(m, l).P),
           UNCHANGED <<gen, user, moved>>
    PROVE  Touches(m, clearAudio(m, l).x) /\ (Same \/ Drops)
<1> DEFINE r == clearAudio(m, l)
           y == r.x
<1>1. Types /\ b2b[m] \in Objects BY DEF IInv, Types
<1>2. b2b[m].alive /\ gen[m] >= 1 BY LiveFlag
<1>3. Result(b2b[m], r.x, m, r.P) BY <1>1, ClearAudioResult
<1> HIDE DEF r
<1>4. Becomes(r.P) BY DEF r
<1>5. Like(b2b[m], y, 0) /\ (Same \/ Drops) BY <1>1, <1>2, <1>3, <1>4, ResultCall, Zenon
<1>6. y \in Objects /\ y.alive /\ y.ref_cnt = b2b[m].ref_cnt
  BY <1>1, <1>2, <1>5 DEF Like, Objects
<1>7. References(y) = References(b2b[m]) BY <1>5 DEF Like, References
<1>8. b2b' = [b2b EXCEPT ![m] = y] BY DEF r
<1> HIDE DEF y
<1>9. Touches(m, y) BY <1>2, <1>5, <1>6, <1>7, <1>8, Zenon DEF Touches
<1> QED BY <1>5, <1>9 DEF y, r

\* The queues after such a call.
LEMMA DropsQueues ==
    ASSUME Types, Same \/ Drops
    PROVE  /\ \A x : \A u \in Threads : \A i \in Nat : Inserts(u, i, x)' <=> Inserts(u, i, x)
           /\ \A u \in Threads : queue[u] # <<>> => queue'[u] # <<>> /\ Head(queue'[u]) = Head(queue[u])
           /\ processing_media' = processing_media
<1>1. CASE Same BY <1>1 DEF Same, Inserts
<1>2. CASE Drops
  <2>1. PICK t \in Threads, r \in Requests :
            /\ r.type # "Insert" /\ queue' = postRequest(queue, t, r)
            /\ processing_media' = processing_media
    BY <1>2 DEF Drops
  <2>2. \A x : \A u \in Threads : \A i \in Nat : Inserts(u, i, x)' <=> Inserts(u, i, x)
    BY <2>1, PostInserts, Zenon
  <2>3. \A u \in Threads : queue[u] # <<>> => queue'[u] # <<>> /\ Head(queue'[u]) = Head(queue[u])
    BY <2>1, PostHead, Zenon
  <2> QED BY <2>1, <2>2, <2>3
<1> QED BY <1>1, <1>2

\* ClearSession of an AmB2BMedia: the hold moves from the set to the hand ...
LEMMA ClearStep ==
    ASSUME IInv, NEW t \in Threads, process_clear(t) PROVE IInv'
<1> USE ClientAssumption, MediaAssumption
<1>0. Types /\ Alone /\ Made /\ Idle /\ Moving BY DEF IInv
<1> DEFINE m == First(t).s
           y == clearAudio(m, "A").x
<1>1. /\ busy[t] = 0 /\ Pending(t) /\ Found(t) /\ First(t).type = "Clear" /\ m \in Media
      /\ sessions' = processed(t) /\ busy' = [busy EXCEPT ![t] = 1]
      /\ b2b' = [b2b EXCEPT ![m] = y] /\ Becomes(clearAudio(m, "A").P)
      /\ UNCHANGED <<gen, user, moved>>
  BY Zenon DEF process_clear
<1>2. queue[t] # <<>> BY <1>1, Zenon DEF Pending
<1>3. Has(t, m) BY <1>1, Zenon DEF Found, Has
<1>4. Held(m) BY <1>0, <1>1, Zenon DEF IInv, Types
<1>5. processing_media[m] BY <1>3, <1>4, Zenon DEF Held, Untouched
<1> HIDE DEF m
<1>6. Touches(m, y) /\ (Same \/ Drops) BY <1>1, <1>5, ClearTouches, Zenon DEF Legs
<1> HIDE DEF y
<1>7. /\ Call(m) /\ b2b' \in [Media -> Objects] /\ Made' /\ Idle' /\ Moving'
      /\ \A k \in Media : Counted(b2b[k], processing_media[k])'
  BY <1>1, <1>6, TouchKeeps
<1>8. /\ \A x : \A u \in Threads : \A i \in Nat : Inserts(u, i, x)' <=> Inserts(u, i, x)
      /\ \A u \in Threads : queue[u] # <<>> => queue'[u] # <<>> /\ Head(queue'[u]) = Head(queue[u])
      /\ processing_media' = processing_media
  BY <1>0, <1>6, DropsQueues, ZenonT(30)
<1>9. /\ sessions'[t] = sessions[t] \ {m}
      /\ \A u \in Threads \ {t} : sessions'[u] = sessions[u]
      /\ sessions' \in [Threads -> SUBSET Addr]
  BY <1>0, <1>1 DEF processed, Types, m
<1>10. Types'
  <2>1. busy' \in [Threads -> 0 .. 2] BY <1>0, <1>1 DEF Types
  <2>2. /\ Table(groups)' /\ queue' \in [Threads -> Seq(Requests)]
        /\ processing_media' \in [Addr -> BOOLEAN]
    BY <1>1, <1>7, CallType, Zenon
  <2> QED BY <1>0, <1>1, <1>7, <1>9, <2>1, <2>2 DEF Types
<1>11. busy'[t] = 1 /\ \A u \in Threads \ {t} : busy'[u] = busy[u] BY <1>0, <1>1 DEF Types
<1>12. Alone' BY <1>0, <1>1, <1>2, <1>8, <1>11 DEF Alone, First, m
<1>13. ASSUME NEW x \in Addr \ moved' PROVE Held(x)'
  <2>0. Held(x) BY <1>1, ZenonT(30) DEF IInv
  <2>1. \A u \in Threads \ {t} : Clearing(u, x)' <=> Clearing(u, x)
    BY <1>0, <1>8, <1>11 DEF Clearing, First, Alone
  <2>2. Clearing(t, x)' <=> x = m BY <1>2, <1>8, <1>11 DEF Clearing, First, m
  <2>3. ~Clearing(t, x) BY <1>1 DEF Clearing
  <2>4. \A u \in Threads : Has(u, x)' <=> Has(u, x) /\ ~(u = t /\ x = m) BY <1>9 DEF Has
  <2>5. CASE x = m
    <3>1. \A u \in Threads : (Has(u, x) => u = t) /\ ~Clearing(u, x) /\ \A i \in Nat : ~Inserts(u, i, x)
      BY <1>3, <2>0, <2>5, Zenon DEF Held, Once
    <3>2. Once(x)' BY <1>8, <2>1, <2>2, <2>4, <2>5, <3>1, Zenon DEF Once
    <3> QED BY <3>2, <1>5, <1>8, <2>5, Zenon DEF Held
  <2>6. CASE x # m
    <3>1. \A u \in Threads : Clearing(u, x)' <=> Clearing(u, x) BY <2>1, <2>2, <2>3, <2>6
    <3>2. \A u \in Threads : Has(u, x)' <=> Has(u, x) BY <2>4, <2>6
    <3>3. \A u \in Threads : \A i \in Nat : Inserts(u, i, x)' <=> Inserts(u, i, x) BY <1>8
    <3>4. processing_media'[x] = processing_media[x] BY <1>8, Zenon
    <3> QED BY ONLY <2>0, <3>1, <3>2, <3>3, <3>4, SameHolds, Zenon
  <2> QED BY <2>5, <2>6, Zenon
<1> QED BY <1>7, <1>10, <1>12, <1>13 DEF IInv

\* ... stays there while leg B is cleared ...
LEMMA ClearedStep ==
    ASSUME IInv, NEW t \in Threads, process_cleared(t) PROVE IInv'
<1> USE ClientAssumption, MediaAssumption
<1>0. Types /\ Alone /\ Made /\ Idle /\ Moving BY DEF IInv
<1> DEFINE m == First(t).s
           y == clearAudio(m, "B").x
<1>1. /\ busy[t] = 1 /\ busy' = [busy EXCEPT ![t] = 2]
      /\ b2b' = [b2b EXCEPT ![m] = y] /\ Becomes(clearAudio(m, "B").P)
      /\ UNCHANGED <<gen, sessions, user, moved>>
  BY DEF process_cleared
<1>2. m \in Media BY <1>0, <1>1 DEF Alone
<1>3. Clearing(t, m) BY <1>1 DEF Clearing
<1>4. Held(m) BY <1>0, <1>2, Zenon DEF IInv, Types
<1>5. processing_media[m] BY <1>3, <1>4, Zenon DEF Held, Untouched
<1> HIDE DEF m
<1>6. Touches(m, y) /\ (Same \/ Drops) BY <1>1, <1>2, <1>5, ClearTouches, ZenonT(30) DEF Legs
<1> HIDE DEF y
<1>7. /\ Call(m) /\ b2b' \in [Media -> Objects] /\ Made' /\ Idle' /\ Moving'
      /\ \A k \in Media : Counted(b2b[k], processing_media[k])'
  BY <1>2, <1>6, TouchKeeps
<1>8. /\ \A x : \A u \in Threads : \A i \in Nat : Inserts(u, i, x)' <=> Inserts(u, i, x)
      /\ \A u \in Threads : queue[u] # <<>> => queue'[u] # <<>> /\ Head(queue'[u]) = Head(queue[u])
      /\ processing_media' = processing_media
  BY <1>0, <1>6, DropsQueues
<1>9. \A u \in Threads : busy'[u] # 0 <=> busy[u] # 0 BY <1>0, <1>1 DEF Types
<1>10. Types'
  <2>1. busy' \in [Threads -> 0 .. 2] BY <1>0, <1>1 DEF Types
  <2>2. /\ Table(groups)' /\ queue' \in [Threads -> Seq(Requests)]
        /\ processing_media' \in [Addr -> BOOLEAN]
    BY <1>2, <1>7, CallType, Zenon
  <2> QED BY <1>0, <1>1, <1>7, <2>1, <2>2 DEF Types
<1>11. Alone' BY <1>0, <1>8, <1>9 DEF Alone, First
<1>12. ASSUME NEW x \in Addr \ moved' PROVE Held(x)'
  <2>0. Held(x) BY <1>1, Zenon DEF IInv
  <2>1. \A u \in Threads : Clearing(u, x)' <=> Clearing(u, x)
    BY <1>0, <1>8, <1>9 DEF Clearing, First, Alone
  <2>2. \A u \in Threads : Has(u, x)' <=> Has(u, x) BY <1>1 DEF Has
  <2>3. \A u \in Threads : \A i \in Nat : Inserts(u, i, x)' <=> Inserts(u, i, x) BY <1>8
  <2>4. processing_media'[x] = processing_media[x] BY <1>8
  <2> QED BY ONLY <2>0, <2>1, <2>2, <2>3, <2>4, SameHolds
<1> QED BY <1>7, <1>10, <1>11, <1>12 DEF IInv

\* ... and ends with processing_media and the processor's reference.
LEMMA TerminatedStep ==
    ASSUME IInv, NEW t \in Threads, process_terminated(t) PROVE IInv'
<1> USE ClientAssumption, MediaAssumption
<1>0. Types /\ Alone /\ Made /\ Idle /\ Moving BY DEF IInv
<1> DEFINE m == First(t).s
<1>1. /\ busy[t] = 2 /\ busy' = [busy EXCEPT ![t] = 0] /\ Terminated(m) /\ queue' = popped(t)
      /\ UNCHANGED <<gen, groups, sessions, user, moved>>
  BY DEF process_terminated
<1>2. m \in Media /\ queue[t] # <<>> /\ First(t).type = "Clear" BY <1>0, <1>1 DEF Alone
<1>3. Clearing(t, m) BY <1>1 DEF Clearing
<1>4. Held(m) BY <1>0, <1>2 DEF IInv, Types
<1>5. processing_media[m] BY <1>3, <1>4 DEF Held, Untouched
<1>a. \A x : Clearing(t, x) <=> x = m BY <1>1 DEF Clearing
<1> HIDE DEF m
<1>6. /\ processing_media' = [processing_media EXCEPT ![m] = FALSE]
      /\ b2b' \in [Media -> Objects] /\ Made' /\ Idle' /\ Moving'
      /\ \A k \in Media : Counted(b2b[k], processing_media[k])'
  BY <1>1, <1>2, <1>5, TerminatedKeeps, Zenon
<1>7. queue' \in [Threads -> Seq(Requests)] BY <1>0, <1>1, <1>2, PopType
<1>8. \A u \in Threads \ {t} : queue'[u] = queue[u] /\ busy'[u] = busy[u]
  BY <1>0, <1>1 DEF popped, Types
<1>9. busy'[t] = 0 /\ busy' \in [Threads -> 0 .. 2] BY <1>0, <1>1 DEF Types
<1>10. Types' BY <1>0, <1>1, <1>6, <1>7, <1>9, Zenon DEF Types, Table
<1>11. Alone' BY <1>0, <1>8, <1>9 DEF Alone, First
<1>12. ASSUME NEW x \in Addr \ moved' PROVE Held(x)'
  <2>0. Held(x) BY <1>1 DEF IInv
  <2>1. \A u \in Threads : \A i \in Nat :
            Inserts(u, i, x)' <=> IF u = t THEN i # 0 /\ Inserts(u, i + 1, x) ELSE Inserts(u, i, x)
    BY <1>0, <1>1, <1>2, PopInserts, Zenon
  <2>2. \A u \in Threads : Clearing(u, x)' <=> Clearing(u, x) /\ u # t
    BY <1>8, <1>9 DEF Clearing, First
  <2>3. \A u \in Threads : Has(u, x)' <=> Has(u, x) BY <1>1, Zenon DEF Has
  <2>4. Once(x)' BY <2>0, <2>1, <2>2, <2>3 DEF Held, Once
  <2>5. CASE x = m
    <3>1. \A u \in Threads : ~Has(u, x) /\ (Clearing(u, x) => u = t) /\ \A i \in Nat : ~Inserts(u, i, x)
      BY <1>3, <2>0, <2>5, Zenon DEF Held, Once
    <3>2. Untouched(x)' BY <3>1, <2>1, <2>2, <2>3 DEF Untouched
    <3> QED BY <2>4, <3>2 DEF Held
  <2>6. CASE x # m
    <3>1. processing_media'[x] = processing_media[x] BY <1>0, <1>6, <2>6, Zenon DEF Types
    <3>2. Untouched(x) => Untouched(x)' BY <2>1, <2>2, <2>3 DEF Untouched
    <3> QED BY <2>0, <2>4, <3>1, <3>2, Zenon DEF Held
  <2> QED BY <2>5, <2>6
<1> QED BY <1>6, <1>10, <1>11, <1>12, Zenon DEF IInv

\* The invariant is inductive.
LEMMA NextKeeps == IInv /\ [Next]_vars => IInv'
<1> SUFFICES ASSUME IInv, [Next]_vars PROVE IInv' OBVIOUS
<1>1. CASE UNCHANGED vars
  <2>1. UNCHANGED <<processing_media, gen, groups, queue, sessions, user, moved, b2b, busy>>
    BY <1>1, Zenon DEF vars, procVars
  <2>2. Types' BY <2>1, Zenon DEF IInv, Types, Table
  <2>3. Alone' /\ Made' /\ Idle' /\ Moving' BY <2>1, Zenon DEF IInv, Alone, First, Made, Idle, Moving
  <2>4. ASSUME NEW x \in Addr \ moved' PROVE Held(x)'
    <3>1. Held(x) BY <2>1, Zenon DEF IInv
    <3>2. /\ \A u \in Threads : Has(u, x)' <=> Has(u, x)
          /\ \A u \in Threads : Clearing(u, x)' <=> Clearing(u, x)
          /\ \A u \in Threads : \A i \in Nat : Inserts(u, i, x)' <=> Inserts(u, i, x)
          /\ processing_media'[x] = processing_media[x]
      BY <2>1 DEF Has, Clearing, Inserts, First
    <3> QED BY ONLY <3>1, <3>2, SameHolds, Zenon
  <2>5. \A m \in Media : Counted(b2b[m], processing_media[m])' BY <2>1 DEF IInv, Counted, References
  <2> QED BY <2>2, <2>3, <2>4, <2>5 DEF IInv
<1>2. CASE Next
  <2>1. CASE \E s \in Sessions : Session(s) BY <2>1, SessionSteps
  <2>2. CASE \E m \in Media : \E transcoding \in BOOLEAN : initializeRTPRelay(m, transcoding)
    BY <2>2, NewMedia
  <2>3. CASE \E m \in Media : \E l \in Legs : Leg(m, l) BY <2>3, LegSteps
  <2>4. CASE \E t \in Threads : StreamError(t) BY <2>4, ErrorStep
  <2>5. CASE \E t \in Threads : MediaThread(t)
    BY <2>5, ProcessStep, ClearStep, ClearedStep, TerminatedStep, Zenon DEF MediaThread
  <2> QED BY <1>2, <2>1, <2>2, <2>3, <2>4, <2>5 DEF Next
<1> QED BY <1>1, <1>2

-----------------------------------------------------------------------------
\* A user of s is a thread with a hold on it.
LEMMA UsersTouch ==
    ASSUME Types, NEW s, NEW t \in Threads
    PROVE  t \in Users(s) <=> Has(t, s) \/ Clearing(t, s) \/ \E i \in Nat : Inserts(t, i, s)
<1>1. queue[t] \in Seq(Requests) BY DEF Types
<1>2. DOMAIN queue[t] = 1 .. Len(queue[t]) /\ Len(queue[t]) \in Nat BY <1>1
<1> QED BY <1>2 DEF Users, Has, Clearing, Inserts

\* What the invariant says of the three properties.
LEMMA Implied == IInv => RefCountExact /\ DeletedUnused /\ OneThread
<1> SUFFICES ASSUME IInv PROVE RefCountExact /\ DeletedUnused /\ OneThread OBVIOUS
<1> USE ClientAssumption
<1>0. Types BY DEF IInv
<1>1. RefCountExact
  <2> SUFFICES ASSUME NEW m \in Media, b2b[m].alive
               PROVE  b2b[m].ref_cnt = References(b2b[m]) + (IF processing_media[m] THEN 1 ELSE 0)
    BY DEF RefCountExact
  <2> QED BY DEF IInv, Counted
<1>2. DeletedUnused
  <2> SUFFICES ASSUME NEW s \in Addr \ moved, ~Alive(s) PROVE Users(s) = {} BY DEF DeletedUnused
  <2>1. ~processing_media[s] BY Zenon DEF Alive, IInv, Counted, Idle
  <2>2. Untouched(s) BY <2>1 DEF IInv, Held
  <2>3. \A t \in Threads : t \notin Users(s) BY <1>0, <2>2, UsersTouch DEF Untouched
  <2> QED BY <2>3 DEF Users
<1>3. OneThread
  <2> SUFFICES ASSUME NEW s \in Addr \ moved, NEW t \in Users(s), NEW u \in Users(s) PROVE t = u
    BY DEF OneThread
  <2>1. Once(s) BY DEF IInv, Held
  <2>2. t \in Threads /\ u \in Threads BY DEF Users
  <2> QED BY <1>0, <2>1, <2>2, UsersTouch, Zenon DEF Once
<1> QED BY <1>1, <1>2, <1>3

\* ref_cnt of an AmB2BMedia is exact: releaseReference deletes it with its
\* last user, neither before nor never, in every interleaving.
THEOREM ReferencesExact == Spec => []RefCountExact
<1>1. IInv => RefCountExact BY Implied
<1> QED BY <1>1, InitHolds, NextKeeps, PTL DEF Spec

\* No thread processes, or will insert, an object that was deleted.
THEOREM DeletedNotProcessed == Spec => []DeletedUnused
<1>1. IInv => DeletedUnused BY Implied, Zenon
<1> QED BY <1>1, InitHolds, NextKeeps, PTL DEF Spec

\* At most one thread ever processes an object whose callgroup is not changed.
THEOREM ProcessedOnce == Spec => []OneThread
<1>1. IInv => OneThread BY Implied
<1> QED BY <1>1, InitHolds, NextKeeps, PTL DEF Spec

-----------------------------------------------------------------------------
(* The objects behind the requests.                                        *)

\* Thread t has s by the time it comes to the jth request of its queue.
Ahead(t, j, s) == Has(t, s) \/ \E i \in 1 .. j : Inserts(t, i, s)

\* Those requests for s were posted for the object that is there now.  The
\* ones of an earlier object all lie before the Insert of the present one.
Fresh(s) == \A t \in Threads : \A j \in 1 .. Len(queue[t]) :
    queue[t][j].s = s /\ Ahead(t, j, s) => queue[t][j].gen = gen[s]

AllFresh == \A s \in Addr \ moved : Fresh(s)

\* A request for the object that is at its address is posted to thread t.
Posts(t, r) == queue' = postRequest(queue, t, r) /\ r \in Requests /\ r.gen = gen[r.s]

\* A request that is posted comes behind the Insert of its object.
LEMMA PostKeepsFresh ==
    ASSUME Types, NEW s \in Addr, Fresh(s), gen' = gen,
           \A t \in Threads : sessions'[t] \subseteq sessions[t],
           queue' = queue \/ \E t, r : Posts(t, r)
    PROVE  Fresh(s)'
<1> SUFFICES ASSUME NEW t \in Threads, NEW j \in 1 .. Len(queue'[t]), queue'[t][j].s = s, Ahead(t, j, s)'
             PROVE  queue'[t][j].gen = gen[s]
  BY DEF Fresh
<1>1. queue[t] \in Seq(Requests) BY DEF Types
<1>2. CASE queue'[t] = queue[t]
  <2>1. Ahead(t, j, s) BY <1>2 DEF Ahead, Has, Inserts
  <2> QED BY <1>2, <2>1 DEF Fresh
<1>3. CASE queue'[t] # queue[t]
  <2>1. PICK u, r : Posts(u, r) BY <1>3
  <2>2. queue'[t] = Append(queue[t], r) /\ r \in Requests /\ r.gen = gen[r.s]
    BY <1>3, <2>1, ZenonT(30) DEF Posts, postRequest, Types
  <2>3. Len(queue'[t]) = Len(queue[t]) + 1 /\ queue'[t][Len(queue[t]) + 1] = r
        /\ Len(queue[t]) \in Nat /\ \A i \in 1 .. Len(queue[t]) : queue'[t][i] = queue[t][i]
    BY <1>1, <2>2
  <2>4. CASE j = Len(queue[t]) + 1 BY <2>2, <2>3, <2>4
  <2>5. CASE j # Len(queue[t]) + 1
    <3>1. j \in 1 .. Len(queue[t]) /\ queue'[t][j] = queue[t][j] BY <2>3, <2>5
    <3>2. \A i \in 1 .. j : i \in 1 .. Len(queue[t]) /\ queue'[t][i] = queue[t][i] BY <2>3, <3>1
    <3>3. Ahead(t, j, s) BY <3>2 DEF Ahead, Has, Inserts
    <3> QED BY <3>1, <3>3 DEF Fresh
  <2> QED BY <2>4, <2>5
<1> QED BY <1>2, <1>3

\* A thread that takes an Insert has the session for all that follows.
LEMMA PopKeepsFresh ==
    ASSUME Types, NEW s \in Addr, Fresh(s), gen' = gen, NEW t \in Threads, queue[t] # <<>>,
           queue' = popped(t),
           \A u \in Threads : Has(u, s)' => Has(u, s) \/ (u = t /\ Inserts(t, 1, s))
    PROVE  Fresh(s)'
<1> SUFFICES ASSUME NEW u \in Threads, NEW j \in 1 .. Len(queue'[u]), queue'[u][j].s = s, Ahead(u, j, s)'
             PROVE  queue'[u][j].gen = gen[s]
  BY DEF Fresh
<1>1. CASE u # t
  <2>1. queue'[u] = queue[u] BY <1>1 DEF popped, Types
  <2>2. Ahead(u, j, s) BY <1>1, <2>1 DEF Ahead, Has, Inserts
  <2> QED BY <2>1, <2>2 DEF Fresh
<1>2. CASE u = t
  <2>1. queue[t] \in Seq(Requests) /\ queue'[t] = Tail(queue[t]) BY DEF popped, Types
  <2>2. Len(queue[t]) \in Nat /\ Len(queue'[t]) = Len(queue[t]) - 1
        /\ \A i \in 1 .. Len(queue'[t]) : queue'[t][i] = queue[t][i + 1]
    BY <2>1
  <2>3. j + 1 \in 1 .. Len(queue[t]) /\ queue'[t][j] = queue[t][j + 1] BY <1>2, <2>2
  <2>4. CASE Has(t, s)' 
    <3>1. Has(t, s) \/ Inserts(t, 1, s) BY <2>4
    <3>2. 1 \in 1 .. (j + 1) BY <2>2, <1>2
    <3>3. Ahead(t, j + 1, s) BY <3>1, <3>2 DEF Ahead
    <3> QED BY <1>2, <2>3, <3>3 DEF Fresh
  <2>5. CASE ~Has(t, s)'
    <3>1. PICK i \in 1 .. j : Inserts(t, i, s)' BY <1>2, <2>5 DEF Ahead
    <3>2. i \in 1 .. Len(queue'[t]) /\ i + 1 \in 1 .. (j + 1) BY <1>2, <2>2, <3>1
    <3>3. Inserts(t, i + 1, s) BY <2>2, <3>1, <3>2 DEF Inserts
    <3>4. Ahead(t, j + 1, s) BY <3>2, <3>3 DEF Ahead
    <3> QED BY <1>2, <2>3, <3>4 DEF Fresh
  <2> QED BY <2>4, <2>5
<1> QED BY <1>1, <1>2

\* An object is made where no thread has a hold on the last one.
LEMMA AllocationKeepsFresh ==
    ASSUME IInv, AllFresh, NEW s \in Addr, Allocated(s), s \notin moved => Untouched(s),
           UNCHANGED <<queue, sessions, moved>>
    PROVE  AllFresh'
<1> SUFFICES ASSUME NEW x \in Addr \ moved PROVE Fresh(x)'  BY Zenon DEF AllFresh
<1> SUFFICES ASSUME NEW t \in Threads, NEW j \in 1 .. Len(queue[t]),
                    queue[t][j].s = x, Ahead(t, j, x)'
             PROVE  queue[t][j].gen = gen'[x]
  BY DEF Fresh
<1>0. Ahead(t, j, x) BY Zenon DEF Ahead, Has, Inserts
<1>1. x # s BY <1>0 DEF Untouched, Ahead
<1>2. gen'[x] = gen[x] BY <1>1 DEF Allocated, IInv, Types
<1> QED BY <1>0, <1>2, Zenon DEF AllFresh, Fresh

\* A call posts at most one request, for the object it is about.
Posted(P) == P.queue = queue \/ \E t, r : /\ P.queue = postRequest(queue, t, r)
                                           /\ r \in Requests /\ r.gen = gen[r.s]

LEMMA CallPosts ==
    ASSUME Types, NEW s \in Addr, NEW cg, NEW type \in {"Remove", "SoftRemove", "Clear"}
    PROVE  /\ Posted(State)
           /\ Posted(addSession(State, s, cg))
           /\ Posted(removeFromProcessor(State, s, type))
<1>1. State.queue = queue BY DEF State
<1>2. addSession(State, s, cg).queue = postRequest(queue, SchedThread(groups, cg), Request("Insert", s))
  BY DEF addSession, State
<1>3. removeFromProcessor(State, s, type).queue = postRequest(queue, ThreadOf(groups, s), Request(type, s))
  BY DEF removeFromProcessor, State
<1>4. \A k \in {"Insert", "Remove", "SoftRemove", "Clear"} :
          Request(k, s) \in Requests /\ Request(k, s).gen = gen[Request(k, s).s]
  BY RequestType, Zenon DEF Request
<1>5. Posted(State) BY <1>1 DEF Posted
<1>6. Posted(addSession(State, s, cg)) BY <1>2, <1>4 DEF Posted
<1>7. Posted(removeFromProcessor(State, s, type)) BY <1>3, <1>4 DEF Posted
<1> QED BY <1>5, <1>6, <1>7

LEMMA AdjustedPosts ==
    ASSUME Types, NEW m \in Media, NEW x
    PROVE  Posted(Adjusted(x, m, State).P)
<1>1. m \in Addr BY ClientAssumption
<1>2. Adjusted(x, m, State).P \in {State, addSession(State, m, Own(m, gen[m])),
                                  removeFromProcessor(State, m, "Remove")}
  BY DEF Adjusted
<1> QED BY <1>1, <1>2, CallPosts, Zenon

LEMMA ClearAudioPosts ==
    ASSUME Types, NEW m \in Media, NEW l
    PROVE  Posted(clearAudio(m, l).P)
<1> DEFINE x == [b2b[m] EXCEPT !.ptr[l] = FALSE]
<1>1. clearAudio(m, l).P = Adjusted(x, m, State).P BY DEF clearAudio, Adjusted
<1>2. Posted(Adjusted(x, m, State).P) BY AdjustedPosts
<1> QED BY <1>1, <1>2

\* What becomes of the requests in a step that leaves the objects where they
\* are and takes up no request.
LEMMA PostedKeepsFresh ==
    ASSUME IInv, AllFresh, gen' = gen, moved \subseteq moved',
           \A t \in Threads : sessions'[t] \subseteq sessions[t],
           NEW P, Posted(P), queue' = P.queue
    PROVE  AllFresh'
<1>1. queue' = queue \/ \E t, r : Posts(t, r) BY DEF Posted, Posts
<1>2. \A s \in Addr \ moved' : Fresh(s) BY DEF AllFresh
<1> QED BY <1>1, <1>2, PostKeepsFresh DEF AllFresh, IInv

LEMMA SessionFresh ==
    ASSUME IInv, AllFresh, NEW s \in Sessions, Session(s) PROVE AllFresh'
<1>0. s \in Addr /\ Types BY ClientAssumption DEF IInv
<1>1. CASE new_session(s)
  <2>1. s \notin moved => Untouched(s) BY <1>0, <1>1 DEF new_session, IInv, Held, Idle
  <2> QED BY <1>0, <1>1, <2>1, AllocationKeepsFresh DEF new_session
<1>2. CASE startMediaProcessing(s)
  <2>1. Posted(addSession(State, s, Own(s, gen[s]))) BY <1>0, CallPosts
  <2> QED BY <1>2, <2>1, PostedKeepsFresh DEF startMediaProcessing, Becomes
<1>3. CASE stopMediaProcessing(s)
  <2>1. Posted(removeFromProcessor(State, s, "Remove")) BY <1>0, CallPosts
  <2> QED BY <1>3, <2>1, PostedKeepsFresh DEF stopMediaProcessing, Becomes
<1>4. CASE changeCallgroup(s)
  <2>1. Posted(removeFromProcessor(State, s, "SoftRemove")) BY <1>0, CallPosts
  <2> QED BY <1>4, <2>1, PostedKeepsFresh DEF changeCallgroup, Becomes
<1>5. CASE changedCallgroup(s)
  <2>1. Posted(addSession(State, s, Conference)) BY <1>0, CallPosts
  <2> QED BY <1>5, <2>1, PostedKeepsFresh DEF changedCallgroup, Becomes
<1>6. CASE on_stop(s)
  <2>1. Posted(IF processing_media[s] THEN removeFromProcessor(State, s, "Clear") ELSE State)
    BY <1>0, CallPosts
  <2> QED BY <1>6, <2>1, PostedKeepsFresh DEF on_stop, Becomes
<1>7. CASE delete_session(s)
  <2>1. Posted(State) /\ State.queue = queue BY <1>0, CallPosts DEF State
  <2> QED BY <1>7, <2>1, PostedKeepsFresh DEF delete_session, procVars
<1> QED BY <1>1, <1>2, <1>3, <1>4, <1>5, <1>6, <1>7 DEF Session

LEMMA LegFresh ==
    ASSUME IInv, AllFresh, NEW m \in Media, NEW l \in Legs, Leg(m, l) PROVE AllFresh'
<1>0. m \in Addr /\ Types BY ClientAssumption DEF IInv
<1>1. CASE updateStreams(m, l)
  <2>1. Posted(Adjusted([b2b[m] EXCEPT !.streams = TRUE], m, State).P) BY <1>0, AdjustedPosts
  <2> QED BY <1>1, <2>1, PostedKeepsFresh, Zenon DEF updateStreams, Becomes
<1>2. ASSUME NEW in, setFirstStreamInput(m, l, in) PROVE AllFresh'
  <2>1. Posted(Adjusted([b2b[m] EXCEPT !.input = in], m, State).P) BY <1>0, AdjustedPosts
  <2> QED BY <1>2, <2>1, PostedKeepsFresh DEF setFirstStreamInput, Becomes
<1>3. CASE stop(m, l)
  <2>1. Posted(clearAudio(m, l).P) BY <1>0, ClearAudioPosts
  <2> QED BY <1>3, <2>1, PostedKeepsFresh DEF stop, Becomes
<1>4. CASE stop_both(m, l)
  <2>1. Posted(IF processing_media[m] /\ \A k \in Legs : ~b2b[m].ptr[k]
               THEN removeFromProcessor(State, m, "Remove") ELSE State)
    BY <1>0, CallPosts
  <2> QED BY <1>4, <2>1, PostedKeepsFresh DEF stop_both, Becomes
<1>5. CASE release(m, l)
  <2>1. Posted(State) /\ State.queue = queue BY <1>0, CallPosts DEF State
  <2> QED BY <1>5, <2>1, PostedKeepsFresh DEF release, procVars
<1> QED BY <1>1, <1>2, <1>3, <1>4, <1>5 DEF Leg

LEMMA ThreadFresh ==
    ASSUME IInv, AllFresh, NEW t \in Threads, MediaThread(t) \/ StreamError(t) PROVE AllFresh'
<1>0. Types BY DEF IInv
<1>1. CASE StreamError(t)
  <2>1. PICK s \in Addr : queue' = postRequest(queue, t, Request("Clear", s))
    BY <1>0, <1>1 DEF StreamError, stream_error, Types
  <2>2. Request("Clear", s) \in Requests /\ Request("Clear", s).gen = gen[Request("Clear", s).s]
    BY <1>0, RequestType, ZenonT(30) DEF Request
  <2>3. Posts(t, Request("Clear", s)) BY <2>1, <2>2 DEF Posts
  <2>4. UNCHANGED <<gen, sessions, moved>> BY <1>1 DEF StreamError, stream_error
  <2> QED BY <1>0, <2>3, <2>4, PostKeepsFresh DEF AllFresh
<1>2. CASE process(t)
  <2>1. /\ queue[t] # <<>> /\ queue' = popped(t) /\ UNCHANGED <<gen, moved>>
        /\ sessions' = processed(t)
    BY <1>2 DEF process, Pending
  <2>2. ASSUME NEW s \in Addr, NEW u \in Threads, Has(u, s)'
        PROVE  Has(u, s) \/ (u = t /\ Inserts(t, 1, s))
    <3>1. u # t => Has(u, s) BY <1>0, <2>1, <2>2 DEF processed, Has, Types
    <3>2. CASE u = t
      <4>1. queue[t] \in Seq(Requests) BY <1>0 DEF Types
      <4>2. First(t) = queue[t][1] /\ 1 \in 1 .. Len(queue[t]) BY <2>1, <4>1 DEF First
      <4>3. Has(t, s) \/ (First(t).type = "Insert" /\ First(t).s = s)
        BY <1>0, <2>1, <2>2, <3>2 DEF processed, Has, Types
      <4> QED BY <3>2, <4>2, <4>3 DEF Inserts
    <3> QED BY <3>1, <3>2
  <2> QED BY <1>0, <2>1, <2>2, PopKeepsFresh DEF AllFresh
<1>3. CASE process_clear(t)
  <2>1. Posted(clearAudio(First(t).s, "A").P) BY <1>0, <1>3, ClearAudioPosts DEF process_clear
  <2>2. \A u \in Threads : sessions'[u] \subseteq sessions[u]
    BY <1>0, <1>3 DEF process_clear, processed, Types
  <2> QED BY <1>3, <2>1, <2>2, PostedKeepsFresh DEF process_clear, Becomes
<1>4. CASE process_cleared(t)
  <2>1. First(t).s \in Media BY <1>4 DEF process_cleared, IInv, Alone
  <2>2. Posted(clearAudio(First(t).s, "B").P) BY <1>0, <2>1, ClearAudioPosts
  <2> QED BY <1>4, <2>2, PostedKeepsFresh, ZenonT(30) DEF process_cleared, Becomes
<1>5. CASE process_terminated(t)
  <2>1. /\ queue[t] # <<>> /\ queue' = popped(t) /\ UNCHANGED <<gen, moved, sessions>>
    BY <1>5 DEF process_terminated, IInv, Alone
  <2>2. \A s \in Addr : \A u \in Threads : Has(u, s)' => Has(u, s) BY <2>1 DEF Has
  <2> QED BY <1>0, <2>1, <2>2, PopKeepsFresh, ZenonT(30) DEF AllFresh
<1> QED BY <1>1, <1>2, <1>3, <1>4, <1>5 DEF MediaThread

LEMMA FreshStep == IInv /\ AllFresh /\ [Next]_vars => AllFresh'
<1> SUFFICES ASSUME IInv, AllFresh, [Next]_vars PROVE AllFresh' OBVIOUS
<1>0. Types BY DEF IInv
<1>1. CASE UNCHANGED vars
  <2>1. UNCHANGED <<gen, queue, sessions, moved>> BY <1>1 DEF vars, procVars
  <2> QED BY <1>0, <2>1, PostKeepsFresh DEF AllFresh
<1>2. ASSUME NEW m \in Media, NEW transcoding \in BOOLEAN, initializeRTPRelay(m, transcoding)
      PROVE  AllFresh'
  <2>1. m \in Addr BY ClientAssumption
  <2>2. m \notin moved => Untouched(m) BY <1>2, <2>1 DEF initializeRTPRelay, IInv, Held, Counted
  <2> QED BY <1>2, <2>1, <2>2, AllocationKeepsFresh DEF initializeRTPRelay
<1> QED BY <1>1, <1>2, SessionFresh, LegFresh, ThreadFresh DEF Next

LEMMA FreshRight == IInv /\ AllFresh => RightObject
<1> SUFFICES ASSUME IInv, AllFresh, NEW t \in Threads, Pending(t), First(t).s \notin moved,
                    Found(t) \/ First(t).type = "Insert"
             PROVE  First(t).gen = gen[First(t).s]
  BY DEF RightObject
<1>1. queue[t] \in Seq(Requests) BY DEF IInv, Types
<1>2. /\ First(t) = queue[t][1] /\ 1 \in 1 .. Len(queue[t]) /\ 1 \in 1 .. 1
      /\ queue[t][1] \in Requests
  BY <1>1 DEF First, Pending
<1>3. First(t).s \in Addr BY <1>2 DEF Requests
<1>4. Ahead(t, 1, First(t).s) BY <1>2 DEF Ahead, Has, Found, Inserts
<1> QED BY <1>2, <1>3, <1>4 DEF AllFresh, Fresh

\* Whatever a thread finds for a request is the object that the request was
\* posted for: no surplus one hits a later object at the same address.
THEOREM RequestsMeetTheirObject == Spec => []RightObject
<1>1. Init => AllFresh BY DEF Init, ProcInit, AllFresh, Fresh
<1> QED BY <1>1, InitHolds, NextKeeps, FreshStep, FreshRight, PTL DEF Spec
=============================================================================
