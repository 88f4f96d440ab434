--------------------------- MODULE SessionProofs ---------------------------
(***************************************************************************)
(* For any number of events: the type invariant of SessionThread, that no  *)
(* event lies in the queue of a thread that sleeps, and that a session     *)
(* waits for the end of its dialog only after it has hung up.              *)
(*                                                                         *)
(* For any number of sessions of SessionContainer: no session is lost or   *)
(* in two places, none is deleted while something uses it, and the         *)
(* broadcast of the shutdown passes over none that was registered.         *)
(***************************************************************************)
EXTENDS SessionThread, SessionContainer, TLAPS

-----------------------------------------------------------------------------
(* SessionContainer: the inductive invariant.                              *)

Held(c) == cleaner[c].n_sessions
Cur(c) == cleaner[c].cur

Pcs == {"loop", "wait", "clean", "judge", "more", "no more", "reset", "idle",
        "cast", "drain", "done"}

Cleaner == [pc : Pcs, cur : Sessions \cup {None}, n_sessions : Seq(Sessions)]

Types ==
    /\ starter \in [Sessions -> {"idle", "created", "refused", "adding", "added",
                                 "failed", "started"}]
    /\ thread \in [Sessions -> {None, "start", "run", "stop", "queue", "exit", "stopped"}]
    /\ media \in [Sessions -> {"off", "on", "clearing"}]
    /\ d_sessions \in Seq(Sessions)
    /\ cleaner \in [Cleaners -> Cleaner]
    /\ registered \subseteq Sessions /\ deleted \subseteq Sessions

\* s is in the list q; no element of q is there twice.
In(s, q) == \E i \in 1 .. Len(q) : q[i] = s
Once(q) == \A i, j \in 1 .. Len(q) : q[i] = q[j] => i = j

Queued(s) ==
    \/ In(s, d_sessions) \/ s \in deleted
    \/ \E c \in Cleaners : Cur(c) = s \/ In(s, Held(c))

\* The places of a session exclude each other.
Apart(s) ==
    /\ In(s, d_sessions) =>
          s \notin deleted /\ \A c \in Cleaners : Cur(c) # s /\ ~In(s, Held(c))
    /\ \A c \in Cleaners : Cur(c) = s =>
          s \notin deleted /\ \A k \in Cleaners : ~In(s, Held(k)) /\ (Cur(k) = s => k = c)
    /\ \A c \in Cleaners : In(s, Held(c)) =>
          s \notin deleted /\ \A k \in Cleaners : In(s, Held(k)) => k = c

\* What its threads have done so far with a session.
Life(s) ==
    /\ thread[s] # None <=> starter[s] = "started"
    /\ s \in registered <=> starter[s] = "added" \/ thread[s] \in {"start", "run"}
    /\ thread[s] \in {None, "start"} => media[s] = "off"
    /\ thread[s] = None /\ Queued(s) => starter[s] = "refused" /\ s \in deleted
    /\ thread[s] # None => (Queued(s) <=> thread[s] \in {"exit", "stopped"})
    /\ s \in deleted => thread[s] \in {None, "stopped"} /\ media[s] = "off"

\* A cleaner has a session in hand while it judges it.
Hands ==
    /\ \A c \in Cleaners : cleaner[c].pc = "judge" <=> Cur(c) # None
    /\ Once(d_sessions) /\ \A c \in Cleaners : Once(Held(c))

\* The broadcast has yet to look for a session, holds it, or has told it.
Cast ==
    /\ cleaner["stopper"].pc = "idle" => todo = Sessions /\ early = {} /\ next = None
    /\ registered \cap early \subseteq told \cup todo \cup {next}
    /\ \A s \in early : s \in Sessions /\ starter[s] \notin {"idle", "created", "adding"}

IInv ==
    /\ Types /\ Hands /\ Cast
    /\ \A s \in Sessions : Apart(s) /\ Life(s)

-----------------------------------------------------------------------------
(* Lists.                                                                  *)

\* What taking the head of a list leaves.
LEMMA TailIn ==
    ASSUME NEW S, NEW q \in Seq(S), q # <<>>, Once(q)
    PROVE  /\ Head(q) \in S /\ Tail(q) \in Seq(S) /\ Once(Tail(q)) /\ In(Head(q), q)
           /\ \A s : In(s, Tail(q)) <=> In(s, q) /\ s # Head(q)
<1>1. Head(q) = q[1] /\ Head(q) \in S /\ Tail(q) \in Seq(S) /\ Len(q) \in Nat /\ Len(q) >= 1
    OBVIOUS
<1>2. Len(Tail(q)) = Len(q) - 1 /\ \A i \in 1 .. Len(q) - 1 : Tail(q)[i] = q[i + 1]
    OBVIOUS
<1>3. Once(Tail(q)) /\ In(Head(q), q)
    BY <1>1, <1>2 DEF Once, In
<1>4. ASSUME NEW s, In(s, Tail(q)) PROVE In(s, q) /\ s # Head(q)
    BY <1>1, <1>2, <1>4 DEF Once, In
<1>5. ASSUME NEW s, In(s, q), s # Head(q) PROVE In(s, Tail(q))
  <2>1. PICK i \in 1 .. Len(q) : q[i] = s  BY <1>5 DEF In
  <2>2. i - 1 \in 1 .. Len(q) - 1 /\ (i - 1) + 1 = i  BY <2>1, <1>1, <1>5
  <2>3. Tail(q)[i - 1] = s  BY <2>1, <2>2, <1>2
  <2>4. QED  BY <2>2, <2>3, <1>2 DEF In
<1>6. QED  BY <1>1, <1>3, <1>4, <1>5

\* What adding to a list makes of it.
LEMMA AppendIn ==
    ASSUME NEW S, NEW q \in Seq(S), NEW x \in S
    PROVE  /\ Append(q, x) \in Seq(S)
           /\ \A s : In(s, Append(q, x)) <=> In(s, q) \/ s = x
           /\ Once(q) /\ ~In(x, q) => Once(Append(q, x))
<1>1. /\ Append(q, x) \in Seq(S) /\ Len(q) \in Nat /\ Len(Append(q, x)) = Len(q) + 1
      /\ Append(q, x)[Len(q) + 1] = x
      /\ \A i \in 1 .. Len(q) : Append(q, x)[i] = q[i]
    OBVIOUS
<1>2. ASSUME NEW s PROVE In(s, Append(q, x)) <=> In(s, q) \/ s = x
  <2>1. In(s, Append(q, x)) => In(s, q) \/ s = x  BY <1>1 DEF In
  <2>2. In(s, q) => In(s, Append(q, x))  BY <1>1 DEF In
  <2>3. s = x => In(s, Append(q, x))
    <3>1. Len(q) + 1 \in 1 .. Len(Append(q, x))  BY <1>1
    <3>2. QED  BY <1>1, <3>1 DEF In
  <2>4. QED  BY <2>1, <2>2, <2>3
<1>3. Once(q) /\ ~In(x, q) => Once(Append(q, x))
    BY <1>1 DEF Once, In
<1>4. QED  BY <1>1, <1>2, <1>3

\* Nothing is in the empty list.
LEMMA EmptyIn == Once(<<>>) /\ \A s : ~In(s, <<>>)
    BY DEF Once, In

-----------------------------------------------------------------------------
(* The invariant is inductive.                                             *)

\* The places of the sessions are a matter of three variables, of one of
\* which it is not the pc.
LEMMA PlacesKept ==
    ASSUME IInv, UNCHANGED <<d_sessions, deleted>>,
           \A c \in Cleaners : UNCHANGED <<Held(c), Cur(c)>>
    PROVE  \A s \in Sessions : Apart(s)' /\ (Queued(s)' <=> Queued(s))
<1> SUFFICES ASSUME NEW s \in Sessions PROVE Apart(s)' /\ (Queued(s)' <=> Queued(s))
    OBVIOUS
<1>1. Apart(s)  BY DEF IInv
<1>2. QED  BY <1>1 DEF Apart, Queued

\* A session nothing happens to.
LEMMA LifeKept ==
    ASSUME NEW x, Life(x), Queued(x)' <=> Queued(x), x \in deleted' <=> x \in deleted,
           thread'[x] = thread[x], starter'[x] = starter[x], media'[x] = media[x],
           x \in registered' <=> x \in registered
    PROVE  Life(x)'
BY DEF Life

\* A cleaner of which some fields are changed, written with all of them.
LEMMA FieldPc ==
    ASSUME cleaner \in [Cleaners -> Cleaner], NEW c \in Cleaners, NEW p
    PROVE  [cleaner EXCEPT ![c].pc = p]
           = [cleaner EXCEPT ![c] = [pc |-> p, cur |-> Cur(c), n_sessions |-> Held(c)]]
<1>1. [cleaner[c] EXCEPT !.pc = p] = [pc |-> p, cur |-> Cur(c), n_sessions |-> Held(c)]
    BY DEF Cleaner, Cur, Held
<1>2. [cleaner EXCEPT ![c].pc = p] = [cleaner EXCEPT ![c] = [cleaner[c] EXCEPT !.pc = p]]
    OBVIOUS
<1>3. QED  BY <1>1, <1>2, Zenon

\* A cleaner that changes two of its fields.
LEMMA FieldsPcCur ==
    ASSUME cleaner \in [Cleaners -> Cleaner], NEW c \in Cleaners, NEW p, NEW u
    PROVE  [cleaner EXCEPT ![c].pc = p, ![c].cur = u]
           = [cleaner EXCEPT ![c] = [pc |-> p, cur |-> u, n_sessions |-> Held(c)]]
<1>1. [cleaner[c] EXCEPT !.pc = p] = [pc |-> p, cur |-> Cur(c), n_sessions |-> Held(c)]
    BY DEF Cleaner, Cur, Held
<1>2. [[pc |-> p, cur |-> Cur(c), n_sessions |-> Held(c)] EXCEPT !.cur = u]
      = [pc |-> p, cur |-> u, n_sessions |-> Held(c)]
    OBVIOUS
<1>3. [cleaner EXCEPT ![c].pc = p, ![c].cur = u]
      = [cleaner EXCEPT ![c] = [[cleaner[c] EXCEPT !.pc = p] EXCEPT !.cur = u]]
    BY Zenon
<1>4. QED  BY <1>1, <1>2, <1>3, Zenon

\* A cleaner moves on, with something in its hand and some sessions kept.
LEMMA CleanerMoves ==
    ASSUME cleaner \in [Cleaners -> Cleaner], NEW c \in Cleaners,
           NEW p \in Pcs, NEW u \in Sessions \cup {None}, NEW q \in Seq(Sessions),
           cleaner' = [cleaner EXCEPT ![c] = [pc |-> p, cur |-> u, n_sessions |-> q]]
    PROVE  /\ cleaner' \in [Cleaners -> Cleaner]
           /\ cleaner'[c].pc = p /\ Cur(c)' = u /\ Held(c)' = q
           /\ \A k \in Cleaners : k # c => UNCHANGED <<Cur(k), Held(k), cleaner[k].pc>>
<1>1. [pc |-> p, cur |-> u, n_sessions |-> q] \in Cleaner  BY DEF Cleaner
<1>2. QED  BY <1>1 DEF Held, Cur

\* Initially there is no session.
LEMMA InitHolds == Init => IInv
<1> SUFFICES ASSUME Init PROVE IInv  OBVIOUS
<1>1. /\ \A c \in Cleaners : Held(c) = <<>> /\ Cur(c) = None /\ cleaner[c].pc # "judge"
      /\ Types
  <2>1. <<>> \in Seq(Sessions)  OBVIOUS
  <2>2. \A c \in Cleaners : Held(c) = <<>> /\ Cur(c) = None /\ cleaner[c].pc # "judge"
      BY DEF Init, Held, Cur
  <2>3. cleaner \in [Cleaners -> Cleaner]
      BY <2>1 DEF Init, Pcs, Cleaner
  <2>4. QED  BY <2>1, <2>2, <2>3 DEF Init, Types, None
<1>2. Hands  BY <1>1, EmptyIn DEF Init, Hands
<1>3. Cast  BY DEF Init, Cast
<1>4. ASSUME NEW s \in Sessions PROVE Apart(s) /\ Life(s)
  <2>1. s # None  BY SessionAssumption DEF None
  <2>2. ~In(s, d_sessions) /\ s \notin deleted  BY EmptyIn DEF Init
  <2>3. \A c \in Cleaners : Cur(c) # s /\ ~In(s, Held(c))  BY <1>1, <2>1, EmptyIn
  <2>4. ~Queued(s) /\ Apart(s)  BY <2>2, <2>3 DEF Queued, Apart
  <2>5. QED  BY <2>2, <2>4 DEF Init, Life, None
<1>5. QED  BY <1>1, <1>2, <1>3, <1>4 DEF IInv

\* The steps of the starter, of a session's thread and of the media processor.
LEMMA SessionSteps ==
    ASSUME IInv, NEW s \in Sessions,
           \/ createSession(s) \/ addSession(s) \/ addEventQueue(s) \/ start(s)
           \/ start_throws(s) \/ session_started(s) \/ startMediaProcessing(s)
           \/ stopMediaProcessing(s) \/ destroySession(s) \/ stop(s) \/ thread_ends(s)
           \/ onMediaProcessingTerminated(s)
    PROVE  IInv'
<1> USE DEF createSession, addSession, addEventQueue, start, start_throws, session_started,
            startMediaProcessing, stopMediaProcessing, destroySession, stop, thread_ends,
            onMediaProcessingTerminated
<1>1. UNCHANGED <<d_sessions, deleted, cleaner, castVars>>
    BY DEF containerUnchanged
<1>2. \A x \in Sessions : Apart(x)' /\ (Queued(x)' <=> Queued(x))
    BY <1>1, PlacesKept DEF Held, Cur
<1>3. Types'
    BY <1>1 DEF IInv, Types, castVars, None
<1>4. Hands'
    BY <1>1 DEF IInv, Hands, Held, Cur
<1>5. ASSUME NEW x \in Sessions PROVE Life(x)'
  <2>1. Life(x) /\ Life(s) /\ Types  BY DEF IInv
  <2>2. CASE x # s
    <3>1. /\ thread'[x] = thread[x] /\ starter'[x] = starter[x] /\ media'[x] = media[x]
          /\ x \in registered' <=> x \in registered
        BY <2>1, <2>2 DEF Types
    <3>2. QED  BY <1>1, <1>2, <2>1, <3>1, LifeKept
  <2>3. CASE x = s
    <3>1. starter[s] \in {"idle", "created", "adding", "added"} => thread[s] = None
        BY <2>1 DEF Life
    <3>2. CASE UNCHANGED thread
        BY <1>1, <1>2, <2>1, <2>3, <3>1, <3>2 DEF Life, Types, None
    <3>3. CASE start(s)
      <4>1. /\ thread'[s] = "start" /\ starter'[s] = "started" /\ starter[s] = "added"
            /\ UNCHANGED <<media, registered>>
          BY <2>1, <3>3 DEF Types
      <4>2. ~Queued(s) /\ s \notin deleted  BY <2>1, <3>1, <4>1 DEF Life, Queued
      <4>3. QED  BY <1>1, <1>2, <2>1, <2>3, <3>1, <4>1, <4>2 DEF Life, None
    <3>4. CASE session_started(s)
        BY <1>1, <1>2, <2>1, <2>3, <3>4 DEF Life, Types, None
    <3>5. CASE destroySession(s) \/ stop(s) \/ thread_ends(s)
        BY <1>1, <1>2, <2>1, <2>3, <3>5 DEF Life, Types, None
    <3>6. QED  BY <3>2, <3>3, <3>4, <3>5
  <2>4. QED  BY <2>2, <2>3
<1>6. Cast'
  <2>1. /\ registered' \subseteq registered \cup {s}
        /\ starter[s] = "adding" \/ registered' \subseteq registered
      OBVIOUS
  <2>2. Cast /\ Types  BY DEF IInv
  <2>3. ASSUME NEW x \in early
        PROVE  x \in Sessions /\ starter'[x] \notin {"idle", "created", "adding"}
      BY <2>2, <2>3 DEF Cast, Types
  <2>4. registered' \cap early \subseteq told \cup todo \cup {next}
      BY <2>1, <2>2 DEF Cast
  <2>5. QED  BY <1>1, <2>2, <2>3, <2>4 DEF Cast, castVars
<1>7. QED  BY <1>2, <1>3, <1>4, <1>5, <1>6 DEF IInv

\* A session that could not be started is deleted at once.
LEMMA DeleteUnstarted ==
    ASSUME IInv, NEW s \in Sessions, delete_unstarted(s)
    PROVE  IInv'
<1>1. /\ UNCHANGED <<d_sessions, cleaner, castVars, thread, registered, media>>
      /\ deleted' = deleted \cup {s} /\ Types /\ Hands /\ Cast
      /\ starter[s] = "failed" /\ starter' = [starter EXCEPT ![s] = "refused"]
    BY DEF delete_unstarted, containerUnchanged, IInv
<1>2. thread[s] = None /\ ~Queued(s) /\ media[s] = "off" /\ s \notin registered
    BY <1>1 DEF IInv, Life, None
<1>3. Types' /\ Hands' /\ Cast'
    BY <1>1 DEF Types, Hands, Cast, Held, Cur, castVars
<1>4. ASSUME NEW x \in Sessions PROVE Apart(x)' /\ Life(x)'
  <2>1. Apart(x) /\ Life(x)  BY DEF IInv
  <2>2. Apart(x)'  BY <1>1, <1>2, <2>1 DEF Apart, Queued, Held, Cur
  <2>3. CASE x = s
    <3>1. starter'[s] = "refused" /\ s \in deleted'  BY <1>1 DEF Types
    <3>2. QED  BY <1>1, <1>2, <2>2, <2>3, <3>1 DEF Life, None
  <2>4. CASE x # s
    <3>1. Queued(x)' <=> Queued(x)  BY <1>1, <2>4 DEF Queued, Held, Cur
    <3>2. starter'[x] = starter[x] /\ (x \in deleted' <=> x \in deleted)
        BY <1>1, <2>4 DEF Types
    <3>3. QED  BY <1>1, <2>1, <2>2, <3>1, <3>2, LifeKept
  <2>5. QED  BY <2>2, <2>3, <2>4
<1>5. QED  BY <1>3, <1>4 DEF IInv

\* A session that has left the dispatcher is queued for deletion.
LEMMA StopAndQueue ==
    ASSUME IInv, NEW s \in Sessions, stopAndQueue(s)
    PROVE  IInv'
<1>1. /\ UNCHANGED <<cleaner, castVars, starter, registered, media, deleted>>
      /\ thread[s] = "queue" /\ thread' = [thread EXCEPT ![s] = "exit"]
      /\ d_sessions' = Append(d_sessions, s) /\ Types /\ Hands /\ Cast
    BY DEF stopAndQueue, IInv
<1>2. ~Queued(s)
    BY <1>1 DEF IInv, Life, None
<1>3. /\ d_sessions' \in Seq(Sessions) /\ Once(d_sessions')
      /\ \A x : In(x, d_sessions') <=> In(x, d_sessions) \/ x = s
    BY <1>1, <1>2, AppendIn DEF Types, Hands, Queued
<1>4. Types' /\ Hands' /\ Cast'
    BY <1>1, <1>3 DEF Types, Hands, Cast, Held, Cur, castVars
<1>5. ASSUME NEW x \in Sessions PROVE Apart(x)' /\ Life(x)'
  <2>1. Apart(x) /\ Life(x) /\ Life(s)  BY DEF IInv
  <2>2. Apart(x)'  BY <1>1, <1>2, <1>3, <2>1 DEF Apart, Queued, Held, Cur
  <2>3. Queued(x)' <=> Queued(x) \/ x = s  BY <1>1, <1>3 DEF Queued, Held, Cur
  <2>4. CASE x = s
    <3>1. thread'[s] = "exit" /\ s \notin deleted  BY <1>1, <1>2 DEF Types, Queued
    <3>2. QED  BY <1>1, <2>1, <2>2, <2>3, <2>4, <3>1 DEF Life, None
  <2>5. CASE x # s
    <3>1. thread'[x] = thread[x]  BY <1>1, <2>5 DEF Types
    <3>2. QED  BY <1>1, <2>1, <2>2, <2>3, <2>5, <3>1, LifeKept
  <2>6. QED  BY <2>2, <2>4, <2>5
<1>6. QED  BY <1>4, <1>5 DEF IInv

\* A cleaner takes a session from the queue.
LEMMA CleanPop ==
    ASSUME IInv, NEW c \in Cleaners, clean_pop(c)
    PROVE  IInv'
<1> DEFINE h == Head(d_sessions)
<1>1. /\ UNCHANGED <<sessVars, castVars>> /\ d_sessions # <<>>
      /\ cleaner[c].pc = "clean" /\ d_sessions' = Tail(d_sessions)
      /\ cleaner' = [cleaner EXCEPT ![c] =
                        [pc |-> "judge", cur |-> h, n_sessions |-> Held(c)]]
      /\ Types /\ Hands /\ Cast
  <2>1. cleaner \in [Cleaners -> Cleaner]  BY DEF IInv, Types
  <2>2. [cleaner EXCEPT ![c].pc = "judge", ![c].cur = h]
        = [cleaner EXCEPT ![c] = [pc |-> "judge", cur |-> h, n_sessions |-> Held(c)]]
      BY <2>1, FieldsPcCur, Zenon
  <2>3. cleaner' = [cleaner EXCEPT ![c].pc = "judge", ![c].cur = h]  BY DEF clean_pop
  <2>4. cleaner' = [cleaner EXCEPT ![c] = [pc |-> "judge", cur |-> h, n_sessions |-> Held(c)]]
      BY <2>2, <2>3
  <2>5. QED  BY <2>4, Zenon DEF clean_pop, IInv
<1>2. /\ h \in Sessions /\ d_sessions' \in Seq(Sessions) /\ Once(d_sessions')
      /\ In(h, d_sessions)
      /\ \A x : In(x, d_sessions') <=> In(x, d_sessions) /\ x # h
    BY <1>1, TailIn DEF Types, Hands
<1> HIDE DEF h
<1>3. /\ \A k \in Cleaners : Held(k)' = Held(k) /\ (k # c => UNCHANGED <<Cur(k), cleaner[k].pc>>)
      /\ Cur(c)' = h /\ cleaner'[c].pc = "judge" /\ Cur(c) = None /\ h # None
      /\ cleaner' \in [Cleaners -> Cleaner]
  <2>1. Held(c) \in Seq(Sessions) /\ "judge" \in Pcs  BY <1>1 DEF Types, Cleaner, Held, Pcs
  <2>2. Cur(c) = None /\ h # None  BY <1>1, <1>2, SessionAssumption DEF Hands, None
  <2>3. QED  BY <1>1, <1>2, <2>1, <2>2, CleanerMoves, ZenonT(30) DEF Types
<1>4. Types'
    BY <1>1, <1>2, <1>3 DEF Types, sessVars, castVars
<1>5. Hands' /\ Cast'
  <2>1. Hands'  BY <1>1, <1>2, <1>3 DEF Hands
  <2>2. cleaner'["stopper"].pc = "idle" => cleaner["stopper"].pc = "idle"
      BY <1>3 DEF Cleaners
  <2>3. QED  BY <1>1, <2>1, <2>2 DEF Cast, sessVars, castVars
<1>6. ASSUME NEW x \in Sessions PROVE Apart(x)' /\ Life(x)'
  <2>1. Apart(x) /\ Life(x) /\ x # None  BY SessionAssumption DEF IInv, None
  <2>2. UNCHANGED <<deleted, thread, starter, media, registered>>  BY <1>1 DEF sessVars
  <2>3. Apart(x)'
      BY <1>2, <1>3, <2>1, <2>2 DEF Apart
  <2>4. Queued(x)' <=> Queued(x)
      BY <1>2, <1>3, <2>1, <2>2 DEF Queued
  <2>5. QED  BY <2>1, <2>2, <2>3, <2>4, LifeKept
<1>7. QED  BY <1>4, <1>5, <1>6 DEF IInv

\* It deletes the session, or keeps it for the next time.
LEMMA CleanJudge ==
    ASSUME IInv, NEW c \in Cleaners, clean_judge(c)
    PROVE  IInv'
<1> DEFINE s == Cur(c)
<1>1. /\ UNCHANGED <<starter, thread, registered, media, d_sessions, castVars>>
      /\ cleaner[c].pc = "judge"
      /\ deleted' = IF Finished(s) THEN deleted \cup {s} ELSE deleted
      /\ cleaner' = [cleaner EXCEPT ![c] = [pc |-> "clean", cur |-> None,
               n_sessions |-> IF Finished(s) THEN Held(c) ELSE Append(Held(c), s)]]
      /\ Types /\ Hands /\ Cast
  <2>1. cleaner' = [cleaner EXCEPT ![c].pc = "clean", ![c].cur = None,
               ![c].n_sessions = IF Finished(s) THEN Held(c) ELSE Append(Held(c), s)]
      BY DEF clean_judge, Cur, Held, IInv, Types
  <2>2. cleaner \in [Cleaners -> Cleaner]  BY DEF IInv, Types
  <2>3. cleaner' = [cleaner EXCEPT ![c] = [pc |-> "clean", cur |-> None,
               n_sessions |-> IF Finished(s) THEN Held(c) ELSE Append(Held(c), s)]]
    <3> DEFINE q == IF Finished(s) THEN Held(c) ELSE Append(Held(c), s)
    <3> HIDE DEF q
    <3>1. [cleaner[c] EXCEPT !.pc = "clean"]
          = [pc |-> "clean", cur |-> Cur(c), n_sessions |-> Held(c)]
        BY <2>2 DEF Cleaner, Cur, Held
    <3>2. [[pc |-> "clean", cur |-> Cur(c), n_sessions |-> Held(c)] EXCEPT !.cur = None]
          = [pc |-> "clean", cur |-> None, n_sessions |-> Held(c)]
        OBVIOUS
    <3>3. [[pc |-> "clean", cur |-> None, n_sessions |-> Held(c)] EXCEPT !.n_sessions = q]
          = [pc |-> "clean", cur |-> None, n_sessions |-> q]
        OBVIOUS
    <3>4. cleaner' = [cleaner EXCEPT ![c].pc = "clean", ![c].cur = None, ![c].n_sessions = q]
        BY <2>1 DEF q
    <3>5. cleaner' = [cleaner EXCEPT ![c] =
             [[[cleaner[c] EXCEPT !.pc = "clean"] EXCEPT !.cur = None] EXCEPT !.n_sessions = q]]
        BY <2>2, <3>4, Zenon
    <3>6. cleaner' = [cleaner EXCEPT ![c] = [pc |-> "clean", cur |-> None, n_sessions |-> q]]
        BY <3>1, <3>2, <3>3, <3>5, Zenon
    <3>7. QED  BY <3>6 DEF q
  <2>4. QED  BY <2>3, Zenon DEF clean_judge, IInv, Cur
<1>2. s \in Sessions /\ s # None /\ Held(c) \in Seq(Sessions) /\ Once(Held(c))
    BY <1>1, SessionAssumption DEF Types, Cleaner, Hands, Held, Cur, None
<1>3. Apart(s) /\ Life(s) /\ Queued(s)
    BY <1>2 DEF IInv, Queued
<1>4. /\ ~In(s, Held(c)) /\ ~In(s, d_sessions) /\ s \notin deleted
      /\ thread[s] \in {"exit", "stopped"}
    BY <1>3 DEF Apart, Life, Queued
<1> HIDE DEF s
<1>5. /\ \A k \in Cleaners : k # c => UNCHANGED <<Cur(k), Held(k), cleaner[k].pc>>
      /\ Cur(c)' = None /\ cleaner'[c].pc = "clean"
      /\ Held(c)' = IF Finished(s) THEN Held(c) ELSE Append(Held(c), s)
      /\ cleaner' \in [Cleaners -> Cleaner]
  <2>1. (IF Finished(s) THEN Held(c) ELSE Append(Held(c), s)) \in Seq(Sessions)
      BY <1>2, AppendIn
  <2>2. "clean" \in Pcs  BY DEF Pcs
  <2>3. QED  BY <1>1, <2>1, <2>2, CleanerMoves, ZenonT(30) DEF Types
<1>6. /\ Held(c)' \in Seq(Sessions) /\ Once(Held(c)')
      /\ \A x : In(x, Held(c)') <=> In(x, Held(c)) \/ (x = s /\ ~Finished(s))
  <2>1. CASE Finished(s)  BY <1>2, <1>5, <2>1
  <2>2. CASE ~Finished(s)
      BY <1>2, <1>4, <1>5, <2>2, AppendIn
  <2>3. QED  BY <2>1, <2>2
<1>7. Types'
  <2>1. deleted' \subseteq Sessions  BY <1>1, <1>2 DEF Types
  <2>2. QED  BY <1>1, <1>5, <2>1 DEF Types, castVars
<1>8. Hands' /\ Cast'
  <2>1. Hands'  BY <1>1, <1>5, <1>6, Zenon DEF Hands
  <2>2. cleaner'["stopper"].pc = "idle" => cleaner["stopper"].pc = "idle"
      BY <1>5 DEF Cleaners
  <2>3. QED  BY <1>1, <2>1, <2>2 DEF Cast, castVars
<1>9. ASSUME NEW x \in Sessions PROVE Apart(x)' /\ Life(x)'
  <2>1. Apart(x) /\ Life(x) /\ x # None  BY SessionAssumption DEF IInv, None
  <2>2. x \in deleted' <=> x \in deleted \/ (x = s /\ Finished(s))  BY <1>1
  <2>3. Cur(c) = s  BY DEF s
  <2>4. Apart(x)'
    <3>1. CASE x # s
      <4>1. \A k \in Cleaners : (Cur(k)' = x <=> Cur(k) = x) /\ (In(x, Held(k)') <=> In(x, Held(k)))
          BY <1>5, <1>6, <2>1, <2>3, <3>1, Zenon
      <4>2. QED  BY <1>1, <2>1, <2>2, <3>1, <4>1 DEF Apart
    <3>2. CASE x = s
      <4>1. \A k \in Cleaners : Cur(k)' # s /\ ~In(s, Held(k)) /\ (k # c => ~In(s, Held(k)'))
          BY <1>2, <1>3, <1>5, <2>3 DEF Apart
      <4>2. In(s, Held(c)') => s \notin deleted'  BY <1>4, <1>6, <2>2, <3>2
      <4>3. QED  BY <1>1, <1>4, <3>2, <4>1, <4>2 DEF Apart
    <3>3. QED  BY <3>1, <3>2
  <2>5. Queued(x)' <=> Queued(x)
      BY <1>1, <1>5, <1>6, <2>1, <2>2, <2>3, Zenon DEF Queued
  <2>6. CASE x \in deleted' <=> x \in deleted
      BY <1>1, <2>1, <2>4, <2>5, <2>6, LifeKept
  <2>7. CASE x = s /\ Finished(s)
      BY <1>1, <1>4, <2>1, <2>4, <2>5, <2>7 DEF Life, Finished, None
  <2>8. QED  BY <2>2, <2>6, <2>7
<1>10. QED  BY <1>7, <1>8, <1>9 DEF IInv

\* What it kept becomes the queue, which is empty.
LEMMA CleanSwap ==
    ASSUME IInv, NEW c \in Cleaners, clean_swap(c)
    PROVE  IInv'
<1>1. /\ UNCHANGED <<sessVars, castVars>> /\ d_sessions = <<>>
      /\ cleaner[c].pc = "clean" /\ d_sessions' = Held(c)
      /\ cleaner' = [cleaner EXCEPT ![c] =
               [pc |-> IF Held(c) # <<>> THEN "more" ELSE "no more",
                cur |-> Cur(c), n_sessions |-> <<>>]]
      /\ Types /\ Hands /\ Cast
  <2>1. cleaner' = [cleaner EXCEPT ![c].n_sessions = <<>>,
               ![c].pc = IF Held(c) # <<>> THEN "more" ELSE "no more"]
      BY DEF clean_swap, Held
  <2>2. cleaner \in [Cleaners -> Cleaner]  BY DEF IInv, Types
  <2>3. cleaner' = [cleaner EXCEPT ![c] =
               [pc |-> IF Held(c) # <<>> THEN "more" ELSE "no more",
                cur |-> Cur(c), n_sessions |-> <<>>]]
    <3> DEFINE p == IF Held(c) # <<>> THEN "more" ELSE "no more"
    <3> HIDE DEF p
    <3>1. [cleaner[c] EXCEPT !.n_sessions = <<>>]
          = [pc |-> cleaner[c].pc, cur |-> Cur(c), n_sessions |-> <<>>]
        BY <2>2 DEF Cleaner, Cur
    <3>2. [[pc |-> cleaner[c].pc, cur |-> Cur(c), n_sessions |-> <<>>] EXCEPT !.pc = p]
          = [pc |-> p, cur |-> Cur(c), n_sessions |-> <<>>]
        OBVIOUS
    <3>3. cleaner' = [cleaner EXCEPT ![c].n_sessions = <<>>, ![c].pc = p]  BY <2>1 DEF p
    <3>4. cleaner' = [cleaner EXCEPT ![c] =
                        [[cleaner[c] EXCEPT !.n_sessions = <<>>] EXCEPT !.pc = p]]
        BY <2>2, <3>3, Zenon
    <3>5. cleaner' = [cleaner EXCEPT ![c] = [pc |-> p, cur |-> Cur(c), n_sessions |-> <<>>]]
        BY <3>1, <3>2, <3>4, Zenon
    <3>6. QED  BY <3>5 DEF p
  <2>4. QED  BY <2>3 DEF clean_swap, IInv, Held
<1>2. /\ \A k \in Cleaners : Cur(k)' = Cur(k) /\ (k # c => UNCHANGED <<Held(k), cleaner[k].pc>>)
      /\ Held(c)' = <<>> /\ cleaner'[c].pc \in {"more", "no more"} /\ Cur(c) = None
      /\ Held(c) \in Seq(Sessions) /\ cleaner' \in [Cleaners -> Cleaner]
  <2>1. /\ Held(c) \in Seq(Sessions) /\ Cur(c) \in Sessions \cup {None} /\ <<>> \in Seq(Sessions)
        /\ (IF Held(c) # <<>> THEN "more" ELSE "no more") \in Pcs
      BY <1>1 DEF Types, Cleaner, Held, Cur, Pcs
  <2>2. Cur(c) = None  BY <1>1 DEF Hands
  <2>3. QED  BY <1>1, <2>1, <2>2, CleanerMoves, Zenon DEF Types
<1>3. Types'
    BY <1>1, <1>2 DEF Types, sessVars, castVars
<1>4. Hands' /\ Cast'
  <2>1. Hands'  BY <1>1, <1>2, EmptyIn DEF Hands
  <2>2. cleaner'["stopper"].pc = "idle" => cleaner["stopper"].pc = "idle"
      BY <1>2 DEF Cleaners
  <2>3. QED  BY <1>1, <2>1, <2>2 DEF Cast, sessVars, castVars
<1>5. ASSUME NEW x \in Sessions PROVE Apart(x)' /\ Life(x)'
  <2>1. Apart(x) /\ Life(x)  BY DEF IInv
  <2>2. UNCHANGED <<deleted, thread, starter, media, registered>>  BY <1>1 DEF sessVars
  <2>3. ~In(x, d_sessions) /\ ~In(x, Held(c)') /\ (In(x, d_sessions') <=> In(x, Held(c)))
      BY <1>1, <1>2, EmptyIn, Zenon
  <2>4. Apart(x)'  BY <1>2, <2>1, <2>2, <2>3, Zenon DEF Apart
  <2>5. Queued(x)' <=> Queued(x)  BY <1>2, <2>2, <2>3 DEF Queued
  <2>6. QED  BY <2>1, <2>2, <2>4, <2>5, LifeKept
<1>6. QED  BY <1>3, <1>4, <1>5 DEF IInv

\* A cleaner only moves on: the loop of run, on_stop once it has begun.
LEMMA CleanerSteps ==
    ASSUME IInv, NEW c \in Cleaners, NEW p \in Pcs \ {"judge", "idle"},
           cleaner_to(c, p), cleaner[c].pc \notin {"judge", "idle"},
           UNCHANGED <<castVars, sessVars, d_sessions>>
    PROVE  IInv'
<1>1. /\ cleaner \in [Cleaners -> Cleaner] /\ Types /\ Hands /\ Cast
      /\ Held(c) \in Seq(Sessions) /\ Cur(c) = None
    BY DEF IInv, Types, Hands, Cleaner, Held, Cur
<1>2. cleaner' = [cleaner EXCEPT ![c] = [pc |-> p, cur |-> Cur(c), n_sessions |-> Held(c)]]
    BY <1>1, FieldPc, Zenon DEF cleaner_to
<1>3. /\ cleaner' \in [Cleaners -> Cleaner] /\ cleaner'[c].pc = p
      /\ \A k \in Cleaners : UNCHANGED <<Held(k), Cur(k)>> /\ (k # c => UNCHANGED cleaner[k].pc)
    BY <1>1, <1>2, CleanerMoves, ZenonT(30)
<1>4. Types' /\ Hands'
    BY <1>1, <1>3 DEF Types, Hands, castVars, sessVars
<1>5. Cast'
  <2>1. cleaner'["stopper"].pc = "idle" => cleaner["stopper"].pc = "idle"
      BY <1>3 DEF Cleaners
  <2>2. QED  BY <1>1, <2>1 DEF Cast, castVars, sessVars
<1>6. UNCHANGED <<deleted, thread, starter, media, registered>>  BY DEF sessVars
<1>7. \A x \in Sessions : Apart(x)' /\ (Queued(x)' <=> Queued(x))
    BY <1>3, <1>6, PlacesKept, ZenonT(30)
<1>8. \A x \in Sessions : Life(x)'
    BY <1>6, <1>7, LifeKept, Zenon DEF IInv
<1>9. QED  BY <1>4, <1>5, <1>7, <1>8 DEF IInv

\* The container is closed.
LEMMA OnStop == ASSUME IInv, on_stop PROVE IInv'
<1>1. /\ UNCHANGED <<sessVars, d_sessions, told, next, todo>> /\ early' = registered
      /\ cleaner["stopper"].pc = "idle" /\ "stopper" \in Cleaners
    BY DEF on_stop, Cleaners
<1>2. PICK p \in {"cast", "no more"} : cleaner_to("stopper", p)  BY Zenon DEF on_stop
<1>3. /\ cleaner \in [Cleaners -> Cleaner] /\ Types /\ Hands /\ Cast /\ p \in Pcs
      /\ Held("stopper") \in Seq(Sessions) /\ Cur("stopper") = None
    BY <1>1, <1>2 DEF IInv, Types, Hands, Cleaner, Held, Cur, Pcs
<1>4. cleaner' = [cleaner EXCEPT !["stopper"] =
                    [pc |-> p, cur |-> Cur("stopper"), n_sessions |-> Held("stopper")]]
    BY <1>1, <1>2, <1>3, FieldPc DEF cleaner_to
<1>5. /\ cleaner' \in [Cleaners -> Cleaner] /\ cleaner'["stopper"].pc = p
      /\ \A k \in Cleaners : /\ UNCHANGED <<Held(k), Cur(k)>>
                             /\ k # "stopper" => UNCHANGED cleaner[k].pc
    BY <1>1, <1>3, <1>4, CleanerMoves
<1>6. Types' /\ Hands'
    BY <1>1, <1>3, <1>5 DEF Types, Hands, sessVars
<1>7. UNCHANGED <<deleted, thread, starter, media, registered>>  BY <1>1 DEF sessVars
<1>8. Cast'
  <2>1. \A s \in Sessions : Life(s)  BY DEF IInv
  <2>2. registered \subseteq Sessions  BY <1>3 DEF Types
  <2>3. \A s \in registered : s \in Sessions /\ starter[s] \notin {"idle", "created", "adding"}
      BY <2>1, <2>2 DEF Life, None
  <2>4. QED  BY <1>1, <1>2, <1>3, <1>5, <1>7, <2>2, <2>3 DEF Cast
<1>9. \A x \in Sessions : Apart(x)' /\ (Queued(x)' <=> Queued(x))
    BY <1>1, <1>5, <1>7, PlacesKept
<1>10. \A x \in Sessions : Life(x)'
    BY <1>7, <1>9, LifeKept DEF IInv
<1>11. QED  BY <1>6, <1>8, <1>9, <1>10 DEF IInv

\* The dispatcher's broadcast.
LEMMA Broadcasting ==
    ASSUME IInv, broadcast_post \/ \E s \in Sessions : broadcast(s)
    PROVE  IInv'
<1>1. /\ UNCHANGED <<sessVars, d_sessions, cleaner, early>> /\ todo' \subseteq todo
      /\ Types /\ Hands /\ Cast
    BY DEF broadcast_post, broadcast, IInv
<1>2. UNCHANGED <<deleted, thread, starter, media, registered>>  BY <1>1 DEF sessVars
<1>3. Types' /\ Hands'
    BY <1>1, <1>2 DEF Types, Hands, Held, Cur
<1>4. Cast'
  <2>1. registered \cap early \subseteq told' \cup todo' \cup {next'}
    <3>1. CASE broadcast_post  BY <1>1, <3>1 DEF broadcast_post, Cast
    <3>2. ASSUME NEW s \in Sessions, broadcast(s)
          PROVE  registered \cap early \subseteq told' \cup todo' \cup {next'}
      <4>1. ASSUME NEW x \in registered \cap early
            PROVE  x \in told' \cup todo' \cup {next'}
        <5>1. x \in told \cup todo \/ x = next  BY <1>1, <4>1 DEF Cast
        <5>2. x # next
            BY <1>1, <3>2, <4>1, SessionAssumption DEF broadcast, Cast, None
        <5>3. QED  BY <3>2, <4>1, <5>1, <5>2 DEF broadcast
      <4>2. QED  BY <4>1
    <3>3. QED  BY <3>1, <3>2
  <2>2. cleaner["stopper"].pc # "idle"
    <3>1. CASE broadcast_post  BY <1>1, <3>1 DEF broadcast_post, Cast
    <3>2. QED  BY <3>1 DEF broadcast
  <2>3. QED  BY <1>1, <1>2, <2>1, <2>2 DEF Cast
<1>5. \A x \in Sessions : Apart(x)' /\ (Queued(x)' <=> Queued(x))
    BY <1>1, <1>2, PlacesKept DEF Held, Cur
<1>6. \A x \in Sessions : Life(x)'
    BY <1>2, <1>5, LifeKept DEF IInv
<1>7. QED  BY <1>3, <1>4, <1>5, <1>6 DEF IInv

\* The invariant is inductive.
LEMMA NextKeeps == IInv /\ [Next]_vars => IInv'
<1> SUFFICES ASSUME IInv, [Next]_vars PROVE IInv'  OBVIOUS
<1>1. ASSUME NEW s \in Sessions,
             start_session(s) \/ end_session(s) \/ startMediaProcessing(s)
             \/ stopMediaProcessing(s) \/ destroySession(s)
      PROVE  IInv'
    BY <1>1, SessionSteps, DeleteUnstarted, StopAndQueue DEF start_session, end_session
<1>2. ASSUME NEW c \in Cleaners, clean_sessions(c) PROVE IInv'
    BY <1>2, CleanPop, CleanJudge, CleanSwap DEF clean_sessions
<1>3. CASE run_loop \/ run_woken \/ run_finished \/ run_reset
  <2>1. PICK p \in {"done", "wait", "clean", "loop", "reset"} : cleaner_to("thread", p)
      BY <1>3 DEF run_loop, run_woken, run_finished, run_reset
  <2>2. /\ cleaner["thread"].pc \notin {"judge", "idle"}
        /\ UNCHANGED <<castVars, sessVars, d_sessions>>
      BY <1>3 DEF run_loop, run_woken, run_finished, run_reset
  <2>3. "thread" \in Cleaners /\ p \in Pcs \ {"judge", "idle"}  BY DEF Cleaners, Pcs
  <2>4. QED  BY <2>1, <2>2, <2>3, CleanerSteps
<1>4. CASE broadcast_done \/ drained \/ stop_done
  <2>1. PICK p \in {"drain", "clean", "done"} : cleaner_to("stopper", p)
      BY <1>4 DEF broadcast_done, drained, stop_done
  <2>2. /\ cleaner["stopper"].pc \notin {"judge", "idle"}
        /\ UNCHANGED <<castVars, sessVars, d_sessions>>
      BY <1>4 DEF broadcast_done, drained, stop_done
  <2>3. "stopper" \in Cleaners /\ p \in Pcs \ {"judge", "idle"}  BY DEF Cleaners, Pcs
  <2>4. QED  BY <2>1, <2>2, <2>3, CleanerSteps
<1>5. CASE on_stop  BY <1>5, OnStop
<1>6. CASE broadcast_post \/ \E s \in Sessions : broadcast(s)  BY <1>6, Broadcasting
<1>7. CASE UNCHANGED vars
  <2>1. UNCHANGED <<deleted, thread, starter, media, registered, cleaner, d_sessions,
                    told, next, todo, early>>
      BY <1>7 DEF vars, sessVars, castVars
  <2>2. Types' /\ Hands' /\ Cast'  BY <2>1 DEF IInv, Types, Hands, Cast, Held, Cur
  <2>3. \A x \in Sessions : Apart(x)' /\ (Queued(x)' <=> Queued(x))
      BY <2>1, PlacesKept DEF Held, Cur
  <2>4. \A x \in Sessions : Life(x)'  BY <2>1, <2>3, LifeKept DEF IInv
  <2>5. QED  BY <2>2, <2>3, <2>4 DEF IInv
<1>8. "thread" \in Cleaners /\ "stopper" \in Cleaners  BY DEF Cleaners
<1>9. QED
    BY <1>1, <1>2, <1>3, <1>4, <1>5, <1>6, <1>7, <1>8 DEF Next, run, go_on_stopping

-----------------------------------------------------------------------------
(* Theorems.                                                               *)

\* A session that two threads clean up behind each other's back is in one
\* place at a time, and none whose thread has ended is forgotten
\* (clean_sessions), for any number of sessions.
THEOREM NoneLost == Spec => []NoSessionLost
<1>1. IInv => NoSessionLost
  <2> SUFFICES ASSUME IInv, NEW s \in Sessions
               PROVE  /\ \A p, q \in Places(s) : p = q
                      /\ thread[s] = "stopped" => Places(s) # {}
      BY DEF NoSessionLost
  <2>1. Types /\ Hands /\ Apart(s) /\ Life(s)  BY DEF IInv
  <2>2. d_sessions \in Seq(Sessions) /\ \A c \in Cleaners : Held(c) \in Seq(Sessions)
      BY <2>1 DEF Types, Cleaner, Held
  <2>3. Places(s) = InQueue(s) \cup InHand(s) \cup Kept(s) \cup Gone(s)  BY DEF Places
  <2>4. \A p \in InQueue(s) : In(s, d_sessions) /\ \E i \in 1 .. Len(d_sessions) :
                              p = <<"queued", i>> /\ d_sessions[i] = s
      BY <2>2 DEF In, InQueue
  <2>5. \A p \in InHand(s) : \E c \in Cleaners : p = <<c, 0>> /\ Cur(c) = s  BY DEF Cur, InHand
  <2>6. \A p \in Kept(s) : \E c \in Cleaners : \E i \in 1 .. Len(Held(c)) :
                              p = <<c, i>> /\ Held(c)[i] = s /\ In(s, Held(c))
    <3> TAKE p \in Kept(s)
    <3>1. PICK c \in Cleaners : p \in {<<c, i>> : i \in {j \in DOMAIN Held(c) : Held(c)[j] = s}}
        BY DEF Held, Kept
    <3>2. PICK i \in 1 .. Len(Held(c)) : p = <<c, i>> /\ Held(c)[i] = s  BY <2>2, <3>1
    <3>3. QED  BY <3>2 DEF In
  <2>7. \A p \in Gone(s) : p = <<"deleted", 0>> /\ s \in deleted  BY DEF Gone
  <2>8. /\ In(s, d_sessions) => InQueue(s) # {}
        /\ s \in deleted => Gone(s) # {}
        /\ \A c \in Cleaners : (Cur(c) = s => InHand(s) # {}) /\ (In(s, Held(c)) => Kept(s) # {})
    <3>1. ASSUME In(s, d_sessions) PROVE InQueue(s) # {}
      <4>1. PICK i \in 1 .. Len(d_sessions) : d_sessions[i] = s  BY <3>1 DEF In
      <4>2. <<"queued", i>> \in InQueue(s)  BY <2>2, <4>1 DEF InQueue
      <4>3. QED  BY <4>2
    <3>2. s \in deleted => Gone(s) # {}  BY Zenon DEF Gone
    <3>3. ASSUME NEW c \in Cleaners PROVE Cur(c) = s => InHand(s) # {}  BY Zenon DEF Cur, InHand
    <3>4. ASSUME NEW c \in Cleaners, In(s, Held(c)) PROVE Kept(s) # {}
      <4>1. PICK i \in 1 .. Len(Held(c)) : Held(c)[i] = s  BY <3>4 DEF In
      <4>2. <<c, i>> \in Kept(s)  BY <2>2, <4>1 DEF Held, Kept
      <4>3. QED  BY <4>2
    <3>5. QED  BY <3>1, <3>2, <3>3, <3>4
  <2>9. \A p, q \in Places(s) : p = q
    <3> SUFFICES ASSUME NEW p \in Places(s), NEW q \in Places(s) PROVE p = q  OBVIOUS
    <3>1. CASE p \in InQueue(s) \/ q \in InQueue(s)
      <4>1. ~(\E x \in {p, q} : x \in InHand(s) \cup Kept(s) \cup Gone(s))
          BY <2>1, <2>4, <2>5, <2>6, <2>7, <3>1 DEF Apart
      <4>2. QED  BY <2>1, <2>3, <2>4, <4>1 DEF Hands, Once
    <3>2. CASE p \in InHand(s) \/ q \in InHand(s)
      <4>1. ~(\E x \in {p, q} : x \in InQueue(s) \cup Kept(s) \cup Gone(s))
          BY <2>1, <2>4, <2>5, <2>6, <2>7, <3>2 DEF Apart
      <4>2. QED  BY <2>1, <2>3, <2>5, <4>1 DEF Apart
    <3>3. CASE p \in Kept(s) \/ q \in Kept(s)
      <4>1. ~(\E x \in {p, q} : x \in InQueue(s) \cup InHand(s) \cup Gone(s))
          BY <2>1, <2>4, <2>5, <2>6, <2>7, <3>3 DEF Apart
      <4>2. p \in Kept(s) /\ q \in Kept(s)  BY <2>3, <4>1
      <4>3. PICK c \in Cleaners : \E i \in 1 .. Len(Held(c)) :
                p = <<c, i>> /\ Held(c)[i] = s /\ In(s, Held(c))
          BY <2>6, <4>2
      <4>4. PICK k \in Cleaners : \E j \in 1 .. Len(Held(k)) :
                q = <<k, j>> /\ Held(k)[j] = s /\ In(s, Held(k))
          BY <2>6, <4>2
      <4>5. k = c  BY <2>1, <4>3, <4>4 DEF Apart
      <4>6. Once(Held(c))  BY <2>1 DEF Hands
      <4>7. QED  BY <4>3, <4>4, <4>5, <4>6 DEF Once
    <3>4. CASE p \in Gone(s) /\ q \in Gone(s)  BY <2>7, <3>4
    <3>5. QED  BY <2>3, <3>1, <3>2, <3>3, <3>4
  <2>10. thread[s] = "stopped" => Places(s) # {}
      BY <2>1, <2>3, <2>8 DEF Life, Queued, None
  <2>11. QED  BY <2>9, <2>10
<1>2. QED  BY <1>1, InitHolds, NextKeeps, PTL DEF Spec

\* clean_sessions deletes a session only when its thread, the media
\* processor and the dispatcher have done with it, for any number of sessions.
THEOREM DeletionSafe == Spec => []DeletedSafely
<1>1. IInv => DeletedSafely
    BY DEF IInv, DeletedSafely, Types, Life, None, Queued
<1>2. QED  BY <1>1, InitHolds, NextKeeps, PTL DEF Spec

\* The broadcast passes over no session that was in the dispatcher when the
\* container was closed, for any number of sessions that come and go.
THEOREM ShutdownHeard == Spec => []EarlyTold
<1>1. IInv => EarlyTold
  <2> SUFFICES ASSUME IInv, todo = {}, next = None, NEW s \in registered \cap early
               PROVE  s \in told
      BY DEF EarlyTold
  <2>1. Cast  BY DEF IInv
  <2>2. s # None  BY <2>1, SessionAssumption DEF Cast, None
  <2>3. QED  BY <2>1, <2>2 DEF Cast
<1>2. QED  BY <1>1, InitHolds, NextKeeps, PTL DEF Spec

-----------------------------------------------------------------------------
(* SessionThread.                                                          *)

\* What taking an event from a queue leaves.
LEMMA TailType ==
    ASSUME NEW S, NEW q \in Seq(S), q # <<>>
    PROVE  Head(q) \in S /\ Tail(q) \in Seq(S)
  OBVIOUS

\* Posting keeps the type of the queue and leaves the condition set.
LEMMA PostKeeps ==
    ASSUME TypeOK, NEW e \in Events \cup {"null"}, postEvent(e)
    PROVE  ev_queue' \in Seq(Events) /\ ev_pending' = TRUE
  BY DEF TypeOK, postEvent, Events

\* A handler leaves the dialog in one of its statuses.
LEMMA HandledType ==
    ASSUME TypeOK, NEW e
    PROVE  Handled(e) \subseteq {"Early", "Connected", "Disconnecting", "Disconnected"}
  BY DEF TypeOK, Handled

\* What processingCycle leaves when it comes to its end.
LEMMA CycleKeeps ==
    ASSUME TypeOK,
           NEW st \in {"PROCESSING_EVENTS", "WAITING_DISCONNECTED", "ENDED_DISCONNECTED"},
           NEW d \in {"Early", "Connected", "Disconnecting", "Disconnected"},
           NEW to \in {"wait", "finalize"},
           cycle(st, d, to)
    PROVE  TypeOK' /\ Wakeup'
  BY Zenon DEF TypeOK, cycle, Wakeup

\* The type invariant is inductive.
LEMMA TypeStep == TypeOK /\ [ThreadNext]_threadVars => TypeOK'
  <1> SUFFICES ASSUME TypeOK, [ThreadNext]_threadVars PROVE TypeOK'
    OBVIOUS
  <1> USE MaxEventsAssumption
  <1>1. CASE start_thread \/ startup \/ waitForEvent \/ finalize \/ broadcast_find
    BY <1>1, Zenon DEF TypeOK, start_thread, startup, waitForEvent, finalize, broadcast_find,
                sessionUnchanged
  <1>2. ASSUME NEW e \in {"msg", "stop", "null"}, post(e) PROVE TypeOK'
    <2>1. ev_queue' \in Seq(Events) /\ ev_pending' = TRUE
      BY <1>2, PostKeeps, Zenon DEF post, Events
    <2>2. posted' \in 0..MaxEvents
      BY <1>2 DEF TypeOK, post
    <2> QED BY <1>2, <2>1, <2>2 DEF TypeOK, post, sessionUnchanged
  <1>3. CASE post_invite \/ answer_bye \/ broadcast_event
    <2>1. ev_queue' \in Seq(Events) /\ ev_pending' = TRUE
      BY <1>3, PostKeeps, Zenon DEF post_invite, answer_bye, broadcast_event, Events
    <2> QED
      BY <1>3, <2>1 DEF TypeOK, post_invite, answer_bye, broadcast_event, sessionUnchanged
  <1>4. CASE process
    <2>1. ev_queue' \in Seq(Events)
      BY <1>4, TailType DEF TypeOK, process
    <2>2. dlg' \in {"Early", "Connected", "Disconnecting", "Disconnected"}
      BY <1>4, HandledType DEF process
    <2>3. sess_stopped' \in BOOLEAN
      BY <1>4, Zenon DEF process
    <2> QED BY <1>4, <2>1, <2>2, <2>3 DEF TypeOK, process
  <1>5. CASE process_throws
    BY <1>5, TailType DEF TypeOK, process_throws
  <1>6. CASE go_on
    BY <1>6, CycleKeeps DEF go_on, TypeOK
  <1>7. CASE session_over
    BY <1>7, CycleKeeps DEF session_over, TypeOK
  <1>8. CASE bye
    BY <1>8, CycleKeeps DEF bye
  <1>9. CASE bye_fails
    BY <1>9, CycleKeeps DEF bye_fails
  <1>10. CASE UNCHANGED threadVars
    BY <1>10 DEF TypeOK, threadVars
  <1> QED
    BY <1>1, <1>2, <1>3, <1>4, <1>5, <1>6, <1>7, <1>8, <1>9, <1>10 DEF ThreadNext, run_thread

LEMMA TypeInit == ThreadInit => TypeOK
  <1> SUFFICES ASSUME ThreadInit PROVE TypeOK
    OBVIOUS
  <1>1. ev_queue \in Seq(Events) /\ posted \in 0..MaxEvents
    BY MaxEventsAssumption DEF ThreadInit
  <1> QED BY <1>1, Zenon DEF ThreadInit, TypeOK

\* TypeOK is an invariant: whatever the threads do, the state has its type.
THEOREM TypeCorrect == ThreadSpec => []TypeOK
  BY TypeInit, TypeStep, PTL DEF ThreadSpec

\* Wakeup is inductive relative to the types: the condition is set with
\* every event, and reset only with the queue empty and locked.
LEMMA WakeupStep == TypeOK /\ Wakeup /\ [ThreadNext]_threadVars => Wakeup'
  <1> SUFFICES ASSUME TypeOK, Wakeup, [ThreadNext]_threadVars PROVE Wakeup'
    OBVIOUS
  <1>1. CASE start_thread \/ startup \/ waitForEvent \/ finalize \/ broadcast_find
    BY <1>1 DEF Wakeup, start_thread, startup, waitForEvent, finalize, broadcast_find
  <1>2. CASE post_invite \/ answer_bye \/ broadcast_event
             \/ \E e \in {"msg", "stop", "null"} : post(e)
    BY <1>2 DEF Wakeup, post_invite, answer_bye, broadcast_event, post, postEvent
  <1>3. CASE process \/ process_throws
    BY <1>3 DEF Wakeup, process, process_throws
  <1>4. CASE go_on \/ session_over \/ bye \/ bye_fails
    BY <1>4 DEF Wakeup, go_on, session_over, bye, bye_fails, cycle
  <1>5. CASE UNCHANGED threadVars
    BY <1>5 DEF Wakeup, threadVars
  <1> QED BY <1>1, <1>2, <1>3, <1>4, <1>5 DEF ThreadNext, run_thread

\* No wake-up is lost between AmEventQueue::postEvent and processEvents, for
\* any number of events and any interleaving of the threads that post.
THEOREM NoLostWakeup == ThreadSpec => []Wakeup
  <1>1. ThreadInit => Wakeup
    BY DEF ThreadInit, Wakeup
  <1> QED BY <1>1, TypeCorrect, WakeupStep, PTL DEF ThreadSpec

-----------------------------------------------------------------------------
\* HangsUp is not inductive: an INVITE handled while the session waits would
\* open its dialog again.  There is one INVITE, and the dialog of a session
\* only leaves Disconnected by handling it.
NoInvite == \A i \in DOMAIN ev_queue : ev_queue[i] # "invite"

OneInvite ==
    /\ \A i, j \in DOMAIN ev_queue : ev_queue[i] = "invite" /\ ev_queue[j] = "invite" => i = j
    /\ receiver # "done" => NoInvite
    /\ (dlg # "Disconnected" \/ processing_status = "WAITING_DISCONNECTED")
          => receiver = "done" /\ NoInvite

HungUpInv == TypeOK /\ OneInvite /\ HangsUp

\* The elements of a queue to which an event was appended, and of its tail.
LEMMA AppendElements ==
    ASSUME NEW S, NEW q \in Seq(S), NEW e \in S
    PROVE  /\ DOMAIN Append(q, e) = 1..(Len(q) + 1)
           /\ DOMAIN q = 1..Len(q)
           /\ Len(q) \in Nat
           /\ \A i \in DOMAIN q : Append(q, e)[i] = q[i]
           /\ Append(q, e)[Len(q) + 1] = e
  OBVIOUS

LEMMA TailElements ==
    ASSUME NEW S, NEW q \in Seq(S), q # <<>>
    PROVE  /\ 1 \in DOMAIN q /\ Head(q) = q[1]
           /\ \A i \in DOMAIN Tail(q) : /\ i \in Nat /\ i + 1 # 1
                                        /\ i + 1 \in DOMAIN q
                                        /\ Tail(q)[i] = q[i + 1]
  OBVIOUS

\* A queue without INVITE stays so unless the INVITE is posted.
LEMMA OtherPost ==
    ASSUME TypeOK, NEW e \in {"msg", "stop", "null", "answer"}, postEvent(e)
    PROVE  /\ NoInvite => NoInvite'
           /\ OneInvite => \A i, j \in DOMAIN ev_queue' :
                 ev_queue'[i] = "invite" /\ ev_queue'[j] = "invite" => i = j
  <1>1. CASE e = "null"
    BY <1>1 DEF postEvent, NoInvite, OneInvite
  <1>2. CASE e # "null"
    <2>1. ev_queue' = Append(ev_queue, e)
      BY <1>2 DEF postEvent
    <2>2. e \in Events /\ ev_queue \in Seq(Events)
      BY <1>2 DEF Events, TypeOK
    <2>3. \A i \in DOMAIN ev_queue' : ev_queue'[i] = "invite" =>
             i \in DOMAIN ev_queue /\ ev_queue[i] = "invite"
      BY <2>1, <2>2, AppendElements
    <2> QED BY <2>3 DEF NoInvite, OneInvite
  <1> QED BY <1>1, <1>2

\* The first element is taken: what is left had its place in the queue.
LEMMA TakeOne ==
    ASSUME TypeOK, OneInvite, ev_queue # <<>>, ev_queue' = Tail(ev_queue)
    PROVE  /\ NoInvite => NoInvite'
           /\ Head(ev_queue) = "invite" => NoInvite'
           /\ NoInvite => Head(ev_queue) # "invite"
           /\ \A i, j \in DOMAIN ev_queue' :
                 ev_queue'[i] = "invite" /\ ev_queue'[j] = "invite" => i = j
  <1>1. ev_queue \in Seq(Events)
    BY DEF TypeOK
  <1>2. /\ 1 \in DOMAIN ev_queue /\ Head(ev_queue) = ev_queue[1]
        /\ \A i \in DOMAIN ev_queue' : /\ i \in Nat /\ i + 1 # 1
                                       /\ i + 1 \in DOMAIN ev_queue
                                       /\ ev_queue'[i] = ev_queue[i + 1]
    BY <1>1, TailElements
  <1>3. NoInvite => NoInvite'
    BY <1>2 DEF NoInvite
  <1>4. Head(ev_queue) = "invite" => NoInvite'
    BY <1>2 DEF NoInvite, OneInvite
  <1>5. NoInvite => Head(ev_queue) # "invite"
    BY <1>2 DEF NoInvite
  <1>6. ASSUME NEW i \in DOMAIN ev_queue', NEW j \in DOMAIN ev_queue',
               ev_queue'[i] = "invite", ev_queue'[j] = "invite"
        PROVE  i = j
    <2>1. i + 1 = j + 1
      BY <1>2, <1>6 DEF OneInvite
    <2> QED BY <1>2, <2>1
  <1> QED BY <1>3, <1>4, <1>5, <1>6

LEMMA HangsUpStep == HungUpInv /\ [ThreadNext]_threadVars => HungUpInv'
  <1> SUFFICES ASSUME HungUpInv, [ThreadNext]_threadVars PROVE OneInvite' /\ HangsUp'
    BY TypeStep DEF HungUpInv
  <1>0. TypeOK /\ OneInvite /\ HangsUp
    BY DEF HungUpInv
  <1>1. CASE start_thread \/ startup \/ waitForEvent \/ finalize \/ broadcast_find
    BY <1>0, <1>1 DEF OneInvite, HangsUp, NoInvite, start_thread, startup, waitForEvent, finalize,
                      broadcast_find, sessionUnchanged
  <1>2. CASE answer_bye \/ broadcast_event \/ \E e \in {"msg", "stop", "null"} : post(e)
    <2>1. PICK e \in {"msg", "stop", "null", "answer"} : postEvent(e)
      BY <1>2 DEF answer_bye, broadcast_event, post
    <2>2. UNCHANGED <<receiver, dlg, processing_status, sess_stopped>>
      BY <1>2 DEF answer_bye, broadcast_event, post, sessionUnchanged
    <2> QED BY <1>0, <2>1, <2>2, OtherPost DEF OneInvite, HangsUp
  <1>3. CASE post_invite
    <2>1. receiver = "started" /\ receiver' = "done" /\ ev_queue' = Append(ev_queue, "invite")
          /\ UNCHANGED <<dlg, processing_status, sess_stopped>>
      BY <1>3 DEF post_invite, postEvent, sessionUnchanged
    <2>2. NoInvite /\ dlg = "Disconnected" /\ processing_status # "WAITING_DISCONNECTED"
      BY <1>0, <2>1 DEF OneInvite
    <2>3. \A i \in DOMAIN ev_queue' : ev_queue'[i] = "invite" => i = Len(ev_queue) + 1
      BY <1>0, <2>1, <2>2, AppendElements DEF TypeOK, Events, NoInvite
    <2> QED BY <2>1, <2>2, <2>3 DEF OneInvite, HangsUp
  <1>4. CASE process
    <2>1. ev_queue # <<>> /\ ev_queue' = Tail(ev_queue) /\ dlg' \in Handled(Head(ev_queue))
          /\ (sess_stopped => sess_stopped') /\ UNCHANGED <<receiver, processing_status>>
      BY <1>4, Zenon DEF process
    <2>2. dlg = "Disconnected" => dlg' = "Disconnected" \/ Head(ev_queue) = "invite"
      BY <2>1 DEF Handled
    <2>3. dlg = "Disconnecting" => dlg' \in {"Disconnecting", "Disconnected"}
      BY <2>1 DEF Handled
    <2>4. Head(ev_queue) = "invite" => receiver = "done"
      BY <1>0, <2>1, TakeOne DEF OneInvite
    <2> QED BY <1>0, <2>1, <2>2, <2>3, <2>4, TakeOne DEF OneInvite, HangsUp
  <1>5. CASE process_throws
    BY <1>0, <1>5, TakeOne DEF process_throws, OneInvite, HangsUp
  <1>6. CASE go_on \/ session_over \/ bye \/ bye_fails
    BY <1>0, <1>6 DEF go_on, session_over, bye, bye_fails, cycle, OneInvite, NoInvite, HangsUp
  <1>7. CASE UNCHANGED threadVars
    BY <1>0, <1>7 DEF OneInvite, NoInvite, HangsUp, threadVars
  <1> QED BY <1>1, <1>2, <1>3, <1>4, <1>5, <1>6, <1>7 DEF ThreadNext, run_thread

\* A session that waits for its dialog to end was stopped and has hung up,
\* and no event opens the dialog again.
THEOREM NoDialogReopened == ThreadSpec => []HangsUp
  <1>1. ThreadInit => HungUpInv
    <2>1. ThreadInit => OneInvite /\ HangsUp
      BY DEF ThreadInit, OneInvite, NoInvite, HangsUp
    <2> QED BY <2>1, TypeInit DEF HungUpInv
  <1>2. HungUpInv => HangsUp
    BY DEF HungUpInv
  <1> QED BY <1>1, <1>2, HangsUpStep, PTL DEF ThreadSpec

=============================================================================
