--------------------------- MODULE MediaSessions ----------------------------
(***************************************************************************)
(* The two kinds of media session and how they use the media processor:    *)
(* AmSession, whose own thread starts and stops its media and which the    *)
(* session container deletes once it is stopped and no longer processed;   *)
(* and AmB2BMedia, shared by the two legs of a call and deleted with its   *)
(* last reference, one of which is the media processor's.                  *)
(*                                                                         *)
(* A method of AmB2BMedia that runs under its mutex is one action.         *)
(***************************************************************************)
EXTENDS MediaProcessor

CONSTANTS Sessions,  \* addresses of AmSession objects
          Media      \* addresses of AmB2BMedia objects

ASSUME ClientAssumption == Addr = Sessions \cup Media /\ Sessions \cap Media = {}

VARIABLES user,   \* what each AmSession's own thread does
          moved,  \* addresses of sessions whose callgroup was changed
          b2b,    \* the AmB2BMedia objects
          busy    \* how far a thread has cleared an AmB2BMedia

vars == <<procVars, user, moved, b2b, busy>>

Legs == {"A", "B"}

\* No object; the fields are those of AmB2BMedia, with leg telling how far
\* each AmB2BSession has got with clearRtpReceiverRelay.
NoMedia == [alive |-> FALSE, transcoding |-> FALSE, streams |-> FALSE,
            input |-> FALSE, ptr |-> [l \in Legs |-> FALSE],
            leg |-> [l \in Legs |-> "off"], ref_cnt |-> 0]

Init ==
    /\ ProcInit
    /\ user = [s \in Sessions |-> "gone"]
    /\ moved = {}
    /\ b2b = [m \in Media |-> NoMedia]
    /\ busy = [t \in Threads |-> 0]

-----------------------------------------------------------------------------
(* AmSession.                                                              *)

\* A new session, possibly where one was deleted; "by default each session
\* is in its own callgroup".
new_session(s) ==
    /\ user[s] = "gone" /\ Allocated(s)
    /\ user' = [user EXCEPT ![s] = "run"]
    /\ UNCHANGED <<processing_media, groups, queue, sessions, moved, b2b, busy>>

\* A stream error leaves the session in callgroupmembers, and the next start
\* adds it another time.
startMediaProcessing(s) ==
    /\ user[s] = "run" /\ ~processing_media[s] /\ Room(queue)
    /\ groups.members[Own(s, gen[s])][s] < MaxMember
    /\ Becomes(addSession(State, s, Own(s, gen[s])))
    /\ UNCHANGED <<gen, sessions, user, moved, b2b, busy>>

stopMediaProcessing(s) ==
    /\ user[s] = "run" /\ processing_media[s] /\ Room(queue)
    /\ Becomes(removeFromProcessor(State, s, "Remove"))
    /\ UNCHANGED <<gen, sessions, user, moved, b2b, busy>>

\* changeCallgroup removes the session softly and adds it again; the threads
\* run in between.
changeCallgroup(s) ==
    /\ user[s] = "run" /\ s \notin moved /\ Room(queue)
    /\ Becomes(removeFromProcessor(State, s, "SoftRemove"))
    /\ user' = [user EXCEPT ![s] = "moving"]
    /\ moved' = moved \cup {s}
    /\ UNCHANGED <<gen, sessions, b2b, busy>>

changedCallgroup(s) ==
    /\ user[s] = "moving"
    /\ Becomes(addSession(State, s, Conference))
    /\ user' = [user EXCEPT ![s] = "run"]
    /\ UNCHANGED <<gen, sessions, moved, b2b, busy>>

\* AmSession::on_stop (or stop), with which the session's life ends.
on_stop(s) ==
    /\ user[s] = "run"
    /\ Becomes(IF processing_media[s] THEN removeFromProcessor(State, s, "Clear")
                                      ELSE State)
    /\ user' = [user EXCEPT ![s] = "stopped"]
    /\ UNCHANGED <<gen, sessions, moved, b2b, busy>>

\* The session container deletes it (SessionContainer: Finished).
\* Mutant: as soon as it is stopped.
delete_session_stopped(s) ==
    /\ user[s] = "stopped"
    /\ user' = [user EXCEPT ![s] = "gone"]
    /\ UNCHANGED <<procVars, moved, b2b, busy>>

delete_session(s) ==
    /\ user[s] = "stopped" /\ ~processing_media[s]
    /\ user' = [user EXCEPT ![s] = "gone"]
    /\ UNCHANGED <<procVars, moved, b2b, busy>>

-----------------------------------------------------------------------------
(* AmB2BMedia.                                                             *)

\* "needs_processing" of changeSessionUnsafe and updateAudioStreams.
needs_processing(x) == x.input \/ (x.ptr["A"] /\ x.ptr["B"] /\ x.transcoding)

\* The end of both: what they do to the object x at m and to the processor.
\* Mutant: the processor gets no reference of its own.
Adjusted_no_ref(x, m, P) ==
    IF needs_processing(x)
    THEN IF P.flag[m] THEN [x |-> x, P |-> P]
         ELSE [x |-> x, P |-> addSession(P, m, Own(m, gen[m]))]
    ELSE [x |-> x, P |-> IF P.flag[m] THEN removeFromProcessor(P, m, "Remove") ELSE P]

Adjusted(x, m, P) ==
    IF needs_processing(x)
    THEN IF P.flag[m] THEN [x |-> x, P |-> P]
         ELSE [x |-> [x EXCEPT !.ref_cnt = @ + 1],
               P |-> addSession(P, m, Own(m, gen[m]))]
    ELSE [x |-> x, P |-> IF P.flag[m] THEN removeFromProcessor(P, m, "Remove") ELSE P]

\* clearAudio(a_leg): forget the leg's session; with both gone the streams go.
clearAudio(m, l) ==
    LET r == Adjusted([b2b[m] EXCEPT !.ptr[l] = FALSE], m, State)
    IN  [r EXCEPT !.x = IF \A k \in Legs : ~@.ptr[k]
                        THEN [@ EXCEPT !.streams = FALSE, !.input = FALSE] ELSE @]

\* releaseReference: the object is deleted with the last one.
Released(x) == IF x.ref_cnt = 1 THEN NoMedia ELSE [x EXCEPT !.ref_cnt = @ - 1]

\* initializeRTPRelay: both sessions take a reference.
initializeRTPRelay(m, transcoding) ==
    /\ ~b2b[m].alive /\ Allocated(m)
    /\ b2b' = [b2b EXCEPT ![m] =
                 [NoMedia EXCEPT !.alive = TRUE, !.transcoding = transcoding,
                                 !.ptr = [l \in Legs |-> TRUE],
                                 !.leg = [l \in Legs |-> "on"], !.ref_cnt = 2]]
    /\ UNCHANGED <<processing_media, groups, queue, sessions, user, moved, busy>>

updateStreams(m, l) ==
    /\ b2b[m].leg[l] = "on" /\ Room(queue)
    /\ LET r == Adjusted([b2b[m] EXCEPT !.streams = TRUE], m, State)
       IN  b2b' = [b2b EXCEPT ![m] = r.x] /\ Becomes(r.P)
    /\ UNCHANGED <<gen, sessions, user, moved, busy>>

setFirstStreamInput(m, l, in) ==
    /\ b2b[m].leg[l] = "on" /\ b2b[m].streams /\ Room(queue)
    /\ LET r == Adjusted([b2b[m] EXCEPT !.input = in], m, State)
       IN  b2b' = [b2b EXCEPT ![m] = r.x] /\ Becomes(r.P)
    /\ UNCHANGED <<gen, sessions, user, moved, busy>>

\* clearRtpReceiverRelay of a leg: stop, whose last test runs without the
\* mutex, and the release of the leg's reference.
stop(m, l) ==
    /\ b2b[m].leg[l] = "on"
    /\ LET r == clearAudio(m, l)
       IN  b2b' = [b2b EXCEPT ![m] = [r.x EXCEPT !.leg[l] = "cleared"]] /\ Becomes(r.P)
    /\ UNCHANGED <<gen, sessions, user, moved, busy>>

\* Mutant: stop() leaves the removal to clearAudio.
stop_both_nothing(m, l) ==
    /\ b2b[m].leg[l] = "cleared"
    /\ b2b' = [b2b EXCEPT ![m].leg[l] = "checked"]
    /\ UNCHANGED <<procVars, user, moved, busy>>

stop_both(m, l) ==
    /\ b2b[m].leg[l] = "cleared"
    /\ Becomes(IF processing_media[m] /\ \A k \in Legs : ~b2b[m].ptr[k]
               THEN removeFromProcessor(State, m, "Remove") ELSE State)
    /\ b2b' = [b2b EXCEPT ![m].leg[l] = "checked"]
    /\ UNCHANGED <<gen, sessions, user, moved, busy>>

release(m, l) ==
    /\ b2b[m].leg[l] = "checked"
    /\ b2b' = [b2b EXCEPT ![m] = Released([@ EXCEPT !.leg[l] = "off"])]
    /\ UNCHANGED <<procVars, user, moved, busy>>

-----------------------------------------------------------------------------
(* The threads.                                                            *)

\* onMediaProcessingTerminated of either kind.
Terminated(s) ==
    /\ processing_media' = [processing_media EXCEPT ![s] = FALSE]
    /\ b2b' = IF s \in Media THEN [b2b EXCEPT ![s] = Released(@)] ELSE b2b

\* A request that touches no AmB2BMedia's streams.
process(t) ==
    /\ busy[t] = 0 /\ Pending(t)
    /\ ~(Found(t) /\ First(t).type = "Clear" /\ First(t).s \in Media)
    /\ sessions' = processed(t)
    /\ queue' = popped(t)
    /\ IF Terminates(t) THEN Terminated(First(t).s)
                        ELSE UNCHANGED <<processing_media, b2b>>
    /\ UNCHANGED <<gen, groups, user, moved, busy>>

\* ClearSession of an AmB2BMedia: clearAudio() for leg A, for leg B, then
\* onMediaProcessingTerminated.
process_clear(t) ==
    /\ busy[t] = 0 /\ Pending(t)
    /\ Found(t) /\ First(t).type = "Clear" /\ First(t).s \in Media
    /\ sessions' = processed(t)
    /\ LET r == clearAudio(First(t).s, "A")
       IN  b2b' = [b2b EXCEPT ![First(t).s] = r.x] /\ Becomes(r.P)
    /\ busy' = [busy EXCEPT ![t] = 1]
    /\ UNCHANGED <<gen, user, moved>>

process_cleared(t) ==
    /\ busy[t] = 1
    /\ LET r == clearAudio(First(t).s, "B")
       IN  b2b' = [b2b EXCEPT ![First(t).s] = r.x] /\ Becomes(r.P)
    /\ busy' = [busy EXCEPT ![t] = 2]
    /\ UNCHANGED <<gen, sessions, user, moved>>

process_terminated(t) ==
    /\ busy[t] = 2
    /\ Terminated(First(t).s)
    /\ queue' = popped(t)
    /\ busy' = [busy EXCEPT ![t] = 0]
    /\ UNCHANGED <<gen, groups, sessions, user, moved>>

MediaThread(t) == process(t) \/ process_clear(t) \/ process_cleared(t) \/ process_terminated(t)

-----------------------------------------------------------------------------
Session(s) ==
    \/ new_session(s) \/ startMediaProcessing(s) \/ stopMediaProcessing(s)
    \/ changeCallgroup(s) \/ changedCallgroup(s) \/ on_stop(s) \/ delete_session(s)

Leg(m, l) ==
    \/ updateStreams(m, l) \/ \E in \in BOOLEAN : setFirstStreamInput(m, l, in)
    \/ stop(m, l) \/ stop_both(m, l) \/ release(m, l)

StreamError(t) == \E s \in sessions[t] : stream_error(t, s) /\ UNCHANGED <<user, moved, b2b, busy>>

Next ==
    \/ \E s \in Sessions : Session(s)
    \/ \E m \in Media : \/ \E transcoding \in BOOLEAN : initializeRTPRelay(m, transcoding)
                        \/ \E l \in Legs : Leg(m, l)
    \/ \E t \in Threads : StreamError(t) \/ MediaThread(t)

Spec == Init /\ [][Next]_vars

\* The media threads never stop, a leg that has begun to stop goes on, and
\* the container collects stopped sessions.
FairSpec ==
    /\ Spec
    /\ \A t \in Threads : WF_vars(MediaThread(t))
    /\ \A m \in Media, l \in Legs : WF_vars(stop_both(m, l) \/ release(m, l))
    /\ \A s \in Sessions : WF_vars(delete_session(s))

-----------------------------------------------------------------------------

Alive(s) == IF s \in Media THEN b2b[s].alive ELSE user[s] # "gone"

\* The threads that process s or will once they have taken up its Insert.
Users(s) == {t \in Threads :
    \/ s \in sessions[t]
    \/ busy[t] # 0 /\ First(t).s = s
    \/ \E i \in DOMAIN queue[t] : queue[t][i].type = "Insert" /\ queue[t][i].s = s}

\* The references of the legs to an AmB2BMedia.
References(x) == (IF x.leg["A"] # "off" THEN 1 ELSE 0) + (IF x.leg["B"] # "off" THEN 1 ELSE 0)

\* ref_cnt counts the legs that have not released the object and the media
\* processor, however stop(), updateStreams() and a failing stream interleave.
RefCountExact ==
    \A m \in Media : b2b[m].alive =>
        b2b[m].ref_cnt = References(b2b[m]) + (IF processing_media[m] THEN 1 ELSE 0)

\* A deleted object is in no thread's set and no thread will insert it, so
\* processAudio never calls into freed memory.
DeletedUnused == \A s \in Addr \ moved : ~Alive(s) => Users(s) = {}

\* "It should be avoided to insert one session into media processor multiple
\* times": at most one thread ever processes a session.
OneThread == \A s \in Addr \ moved : \A t, u \in Users(s) : t = u

\* Requests carry a bare pointer, and removeFromProcessor posts surplus ones
\* (to thread 0).  None is left that could hit another object allocated at
\* the same address: what a thread finds was posted for the object it finds.
RightObject ==
    \A t \in Threads : busy[t] = 0 /\ Pending(t) /\ First(t).s \notin moved
                       /\ (Found(t) \/ First(t).type = "Insert")
        => First(t).gen = gen[First(t).s]

\* An AmB2BMedia that both legs have released is deleted: the request that
\* makes the processor drop its reference is never lost or sent astray.
MediaFreed == \A m \in Media :
    []<>(b2b[m].alive => \E l \in Legs : b2b[m].leg[l] # "off")

\* A stopped session gets rid of the media processor and can be deleted.
SessionFreed == \A s \in Sessions : []<>(user[s] # "stopped")
=============================================================================
