-------------------------- MODULE SessionContainer --------------------------
(***************************************************************************)
(* The register of all sessions (core/AmSessionContainer.cpp): receiver    *)
(* threads create sessions, enter them into the event dispatcher and start *)
(* them; a session that ends leaves the dispatcher, stops its media and is *)
(* queued in d_sessions; the container's thread deletes it.  stop() closes *)
(* the container, broadcasts the shutdown and cleans up as well.           *)
(*                                                                         *)
(* What a session does while it runs is in SessionThread: here it may end  *)
(* at any time.  A step is what a thread does under one lock, or between   *)
(* two moments other threads can see.                                      *)
(***************************************************************************)
EXTENDS Naturals, Sequences, FiniteSets

CONSTANTS Sessions,      \* the sessions ever created
          SessionLimit   \* AmConfig::SessionLimit, 0 for none

ASSUME SessionAssumption ==
    SessionLimit \in Nat /\ IsFiniteSet(Sessions) /\ "none" \notin Sessions

VARIABLES
    starter,     \* where the receiver thread is that creates the session
    thread,      \* where the session's own thread is
    registered,  \* sessions in the event dispatcher
    media,       \* "on" while the media processor has the session,
                 \* "clearing" once it was asked to give it back
    deleted,     \* sessions that were deleted
    d_sessions,
    run_cond,    \* _run_cond
    closed,      \* _container_closed
    cleaner,     \* where the two threads are that run clean_sessions
    told,        \* broadcast: the sessions that were sent the shutdown,
    next,        \* the one it found, with the lock released,
    todo,        \* and the ones it did not look for yet
    early        \* sessions that were registered when on_stop closed it

sessVars == <<starter, thread, registered, media, deleted>>
castVars == <<told, next, todo, early>>
vars == <<sessVars, d_sessions, run_cond, closed, cleaner, castVars>>

None == "none"
Cleaners == {"thread", "stopper"}

\* AmSession::session_num, by session_started and session_stopped.
session_num == Cardinality({s \in Sessions :
                   thread[s] \in {"run", "stop", "queue", "exit"}})

Init ==
    /\ starter = [s \in Sessions |-> "idle"]
    /\ thread = [s \in Sessions |-> None]
    /\ registered = {}
    /\ media = [s \in Sessions |-> "off"]
    /\ deleted = {}
    /\ d_sessions = <<>>
    /\ run_cond = FALSE
    /\ closed = FALSE
    /\ cleaner = [c \in Cleaners |-> [pc |-> IF c = "thread" THEN "loop" ELSE "idle",
                                      cur |-> None, n_sessions |-> <<>>]]
    /\ told = {} /\ next = None /\ todo = Sessions /\ early = {}

containerUnchanged == UNCHANGED <<d_sessions, run_cond, closed, cleaner, castVars>>

-----------------------------------------------------------------------------
(* startSessionUAS                                                         *)

\* createSession reads the number of sessions without a lock.
createSession(s) ==
    /\ starter[s] = "idle"
    /\ starter' = [starter EXCEPT ![s] =
         IF SessionLimit # 0 /\ SessionLimit <= session_num THEN "refused" ELSE "created"]
    /\ UNCHANGED <<thread, registered, media, deleted>> /\ containerUnchanged

\* addSession reads the flag, then calls the dispatcher.
addSession(s) ==
    /\ starter[s] = "created"
    /\ starter' = [starter EXCEPT ![s] = IF closed THEN "refused" ELSE "adding"]
    /\ UNCHANGED <<thread, registered, media, deleted>> /\ containerUnchanged

addEventQueue(s) ==
    /\ starter[s] = "adding"
    /\ starter' = [starter EXCEPT ![s] = "added"]
    /\ registered' = registered \cup {s}
    /\ UNCHANGED <<thread, media, deleted>> /\ containerUnchanged

\* start() creates the thread; the INVITE is posted after that.
start(s) ==
    /\ starter[s] = "added"
    /\ starter' = [starter EXCEPT ![s] = "started"]
    /\ thread' = [thread EXCEPT ![s] = "start"]
    /\ UNCHANGED <<registered, media, deleted>> /\ containerUnchanged

\* It throws: the session leaves the dispatcher, and is deleted.
start_throws(s) ==
    /\ starter[s] = "added"
    /\ starter' = [starter EXCEPT ![s] = "failed"]
    /\ registered' = registered \ {s}
    /\ UNCHANGED <<thread, media, deleted>> /\ containerUnchanged

delete_unstarted(s) ==
    /\ starter[s] = "failed"
    /\ starter' = [starter EXCEPT ![s] = "refused"]
    /\ deleted' = deleted \cup {s}
    /\ UNCHANGED <<thread, registered, media>> /\ containerUnchanged

-----------------------------------------------------------------------------
(* The session's thread, up to AmThread::_start                            *)

session_started(s) ==
    /\ thread[s] = "start"
    /\ thread' = [thread EXCEPT ![s] = "run"]
    /\ UNCHANGED <<starter, registered, media, deleted>> /\ containerUnchanged

startMediaProcessing(s) ==
    /\ thread[s] = "run" /\ media[s] = "off"
    /\ media' = [media EXCEPT ![s] = "on"]
    /\ UNCHANGED <<starter, thread, registered, deleted>> /\ containerUnchanged

stopMediaProcessing(s) ==
    /\ thread[s] = "run" /\ media[s] = "on"
    /\ media' = [media EXCEPT ![s] = "clearing"]
    /\ UNCHANGED <<starter, thread, registered, deleted>> /\ containerUnchanged

\* destroySession: the one who finds the session in the dispatcher queues it.
destroySession(s) ==
    /\ thread[s] = "run"
    /\ thread' = [thread EXCEPT ![s] = IF s \in registered THEN "stop" ELSE "exit"]
    /\ registered' = registered \ {s}
    /\ UNCHANGED <<starter, media, deleted>> /\ containerUnchanged

\* AmSession::on_stop asks the media processor to give the session back.
stop(s) ==
    /\ thread[s] = "stop"
    /\ thread' = [thread EXCEPT ![s] = "queue"]
    /\ media' = [media EXCEPT ![s] = IF @ = "on" THEN "clearing" ELSE @]
    /\ UNCHANGED <<starter, registered, deleted>> /\ containerUnchanged

stopAndQueue(s) ==
    /\ thread[s] = "queue"
    /\ thread' = [thread EXCEPT ![s] = "exit"]
    /\ d_sessions' = Append(d_sessions, s)
    /\ run_cond' = TRUE
    /\ UNCHANGED <<starter, registered, media, deleted, closed, cleaner, castVars>>

\* session_stopped, and _stopped is set.
thread_ends(s) ==
    /\ thread[s] = "exit"
    /\ thread' = [thread EXCEPT ![s] = "stopped"]
    /\ UNCHANGED <<starter, registered, media, deleted>> /\ containerUnchanged

\* The media processor's thread lets go of a session when it is asked to,
\* or by itself when its audio fails.
onMediaProcessingTerminated(s) ==
    /\ media[s] # "off"
    /\ media' = [media EXCEPT ![s] = "off"]
    /\ UNCHANGED <<starter, thread, registered, deleted>> /\ containerUnchanged

-----------------------------------------------------------------------------
(* clean_sessions, by cleaner c                                            *)

clean_pop(c) ==
    /\ cleaner[c].pc = "clean" /\ d_sessions # <<>>
    /\ cleaner' = [cleaner EXCEPT ![c].pc = "judge", ![c].cur = Head(d_sessions)]
    /\ d_sessions' = Tail(d_sessions)
    /\ UNCHANGED <<sessVars, run_cond, closed, castVars>>

\* Mutant: only the thread is looked at.
Finished_thread_only(s) == thread[s] = "stopped"

\* is_stopped() and not isProcessingMedia().
Finished(s) == thread[s] = "stopped" /\ media[s] = "off"

clean_judge(c) ==
    LET s == cleaner[c].cur IN
    /\ cleaner[c].pc = "judge"
    /\ deleted' = IF Finished(s) THEN deleted \cup {s} ELSE deleted
    /\ cleaner' = [cleaner EXCEPT ![c].pc = "clean", ![c].cur = None,
                      ![c].n_sessions = IF Finished(s) THEN @ ELSE Append(@, s)]
    /\ UNCHANGED <<starter, thread, registered, media, d_sessions, run_cond, closed, castVars>>

\* Mutant: the sessions that still run are not put back.
clean_swap_forgets(c) ==
    /\ cleaner[c].pc = "clean" /\ d_sessions = <<>>
    /\ cleaner' = [cleaner EXCEPT ![c].n_sessions = <<>>,
                      ![c].pc = IF cleaner[c].n_sessions # <<>> THEN "more" ELSE "no more"]
    /\ UNCHANGED <<sessVars, d_sessions, run_cond, closed, castVars>>

clean_swap(c) ==
    /\ cleaner[c].pc = "clean" /\ d_sessions = <<>>
    /\ d_sessions' = cleaner[c].n_sessions
    /\ cleaner' = [cleaner EXCEPT ![c].n_sessions = <<>>,
                      ![c].pc = IF cleaner[c].n_sessions # <<>> THEN "more" ELSE "no more"]
    /\ UNCHANGED <<sessVars, run_cond, closed, castVars>>

-----------------------------------------------------------------------------
(* run                                                                     *)

cleaner_to(c, pc) == cleaner' = [cleaner EXCEPT ![c].pc = pc]

run_loop ==
    /\ cleaner["thread"].pc \in {"loop", "more"}
    /\ cleaner_to("thread", IF closed THEN "done" ELSE "wait")
    /\ UNCHANGED <<run_cond, closed, castVars, sessVars, d_sessions>>

\* Woken, the thread sleeps before it cleans up.
run_woken ==
    /\ cleaner["thread"].pc = "wait" /\ run_cond
    /\ cleaner_to("thread", IF closed THEN "done" ELSE "clean")
    /\ UNCHANGED <<run_cond, closed, castVars, sessVars, d_sessions>>

\* The flag is read, then _run_cond reset: ds_mut is not held any more.
run_finished ==
    /\ cleaner["thread"].pc = "no more"
    /\ cleaner_to("thread", IF closed THEN "loop" ELSE "reset")
    /\ UNCHANGED <<run_cond, closed, castVars, sessVars, d_sessions>>

run_reset ==
    /\ cleaner["thread"].pc = "reset"
    /\ run_cond' = FALSE
    /\ cleaner_to("thread", "loop")
    /\ UNCHANGED <<closed, castVars, sessVars, d_sessions>>

-----------------------------------------------------------------------------
(* on_stop, AmEventDispatcher::broadcast                                   *)

\* The container is closed.  An unclean shutdown tells nobody.
on_stop ==
    /\ cleaner["stopper"].pc = "idle"
    /\ closed' = TRUE
    /\ early' = registered
    /\ \E pc \in {"cast", "no more"} : cleaner_to("stopper", pc)
    /\ UNCHANGED <<run_cond, told, next, todo, sessVars, d_sessions>>

\* Mutant: a session whose thread has not started yet is passed over.
broadcast_to_running(s) ==
    /\ cleaner["stopper"].pc = "cast" /\ next = None /\ s \in todo
    /\ todo' = todo \ {s}
    /\ next' = IF s \in registered /\ thread[s] # None THEN s ELSE None
    /\ UNCHANGED <<told, early, run_cond, closed, cleaner, sessVars, d_sessions>>

\* Under the lock of its bucket the dispatcher finds the session's queue.
broadcast(s) ==
    /\ cleaner["stopper"].pc = "cast" /\ next = None /\ s \in todo
    /\ todo' = todo \ {s}
    /\ next' = IF s \in registered THEN s ELSE None
    /\ UNCHANGED <<told, early, run_cond, closed, cleaner, sessVars, d_sessions>>

\* It posts the event with the lock released.
broadcast_post ==
    /\ next # None
    /\ told' = told \cup {next}
    /\ next' = None
    /\ UNCHANGED <<sessVars, d_sessions, run_cond, closed, cleaner, todo, early>>

broadcast_done ==
    /\ cleaner["stopper"].pc = "cast" /\ next = None /\ todo = {}
    /\ cleaner_to("stopper", "drain")
    /\ UNCHANGED <<run_cond, closed, castVars, sessVars, d_sessions>>

\* No queue is left in the dispatcher, or MaxShutdownTime is over.
drained ==
    /\ cleaner["stopper"].pc \in {"drain", "more"}
    /\ cleaner_to("stopper", "clean")
    /\ UNCHANGED <<run_cond, closed, castVars, sessVars, d_sessions>>

\* Mutant: the thread of the container is not woken.
stop_done_no_wakeup ==
    /\ cleaner["stopper"].pc = "no more"
    /\ cleaner_to("stopper", "done")
    /\ UNCHANGED <<run_cond, closed, castVars, sessVars, d_sessions>>

stop_done ==
    /\ cleaner["stopper"].pc = "no more"
    /\ run_cond' = TRUE
    /\ cleaner_to("stopper", "done")
    /\ UNCHANGED <<closed, castVars, sessVars, d_sessions>>

-----------------------------------------------------------------------------
start_session(s) ==
    \/ createSession(s) \/ addSession(s) \/ addEventQueue(s) \/ start(s)
    \/ start_throws(s) \/ delete_unstarted(s)

end_session(s) ==
    \/ session_started(s) \/ stop(s) \/ stopAndQueue(s) \/ thread_ends(s)
    \/ onMediaProcessingTerminated(s)

clean_sessions(c) == clean_pop(c) \/ clean_judge(c) \/ clean_swap(c)

run == clean_sessions("thread") \/ run_loop \/ run_woken \/ run_finished \/ run_reset

go_on_stopping ==
    \/ clean_sessions("stopper") \/ (\E s \in Sessions : broadcast(s)) \/ broadcast_post
    \/ broadcast_done \/ drained \/ stop_done

Next ==
    \/ \E s \in Sessions : \/ start_session(s) \/ end_session(s)
                            \/ startMediaProcessing(s) \/ stopMediaProcessing(s)
                            \/ destroySession(s)
    \/ run \/ on_stop \/ go_on_stopping

Spec == Init /\ [][Next]_vars

\* Every thread runs.  A session need not end.
Fairness ==
    /\ \A s \in Sessions : WF_vars(start_session(s))
    /\ \A s \in Sessions : WF_vars(end_session(s))
    /\ WF_vars(run) /\ WF_vars(go_on_stopping)

FairSpec == Spec /\ Fairness

-----------------------------------------------------------------------------
(* Properties                                                              *)

\* The places where a session that was queued can be.
InQueue(s) == {<<"queued", i>> : i \in {j \in DOMAIN d_sessions : d_sessions[j] = s}}
InHand(s) == {<<c, 0>> : c \in {k \in Cleaners : cleaner[k].cur = s}}
Kept(s) == UNION {{<<c, i>> : i \in {j \in DOMAIN cleaner[c].n_sessions :
                                        cleaner[c].n_sessions[j] = s}} : c \in Cleaners}
Gone(s) == {<<"deleted", 0>> : x \in {s} \cap deleted}
Places(s) == InQueue(s) \cup InHand(s) \cup Kept(s) \cup Gone(s)

\* Two threads run clean_sessions, which unlocks d_sessions for every
\* session it looks at: no session whose thread has ended is forgotten, and
\* none is in two places, so that it could be deleted twice.
NoSessionLost ==
    \A s \in Sessions :
        /\ \A p, q \in Places(s) : p = q
        /\ thread[s] = "stopped" => Places(s) # {}

\* A session is deleted when its thread has ended, the media processor has
\* given it back and the dispatcher does not know it (clean_sessions).
DeletedSafely ==
    \A s \in deleted :
        thread[s] \in {None, "stopped"} /\ media[s] = "off" /\ s \notin registered

\* The broadcast reaches every session that was in the dispatcher when the
\* container was closed, or it has left by itself, although sessions come
\* and go while the dispatcher's lock is released.
EarlyTold == (todo = {} /\ next = None) => registered \cap early \subseteq told

\* on_stop ends although sessions may run on, and so does the container's
\* thread, whatever it was doing when the container was closed.
ShutdownEnds == closed ~> \A c \in Cleaners : cleaner[c].pc = "done"

=============================================================================
