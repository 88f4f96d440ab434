--------------------------- MODULE SessionThread ---------------------------
(***************************************************************************)
(* One UAS session (core/AmSession.cpp) and its event queue                *)
(* (core/AmEventQueue.cpp): the receiver thread registers and starts it    *)
(* and posts its INVITE; other threads post events through the event       *)
(* dispatcher; its own thread handles them, until the session is stopped   *)
(* and its dialog is over, and then leaves the dispatcher.                 *)
(*                                                                         *)
(* A step is what a thread does under one lock.  The handler of an event   *)
(* belongs to an application and may do any of the things that matter      *)
(* here.                                                                   *)
(***************************************************************************)
EXTENDS Naturals, Sequences

CONSTANT MaxEvents   \* bound on the events that others post in all

ASSUME MaxEventsAssumption == MaxEvents \in Nat

VARIABLES
    receiver,       \* where the receiver thread is
    session,        \* where the session's thread is
    in_dispatcher,  \* the session is in the event dispatcher
    ev_queue,       \* its events: "invite", the "answer" to its BYE, one that
                    \* makes it stop ("stop"), any other ("msg")
    ev_pending,     \* the condition its thread waits for
    sess_stopped,
    dlg,            \* the status of its dialog
    processing_status,
    broadcaster,    \* where the thread is that broadcasts the shutdown
    posted          \* number of events others have posted

threadVars == <<receiver, session, in_dispatcher, ev_queue, ev_pending, sess_stopped, dlg,
                processing_status, broadcaster, posted>>

Events == {"invite", "answer", "stop", "msg"}

ThreadInit ==
    /\ receiver = "added" /\ session = "none" /\ in_dispatcher = TRUE
    /\ ev_queue = <<>> /\ ev_pending = FALSE
    /\ sess_stopped = FALSE /\ dlg = "Disconnected"
    /\ processing_status = "PROCESSING_EVENTS"
    /\ broadcaster = "idle" /\ posted = 0

-----------------------------------------------------------------------------
(* AmEventQueue::postEvent, under the lock of the queue                    *)

\* A null pointer only wakes the thread.
postEvent(e) ==
    /\ ev_queue' = IF e = "null" THEN ev_queue ELSE Append(ev_queue, e)
    /\ ev_pending' = TRUE

sessionUnchanged == UNCHANGED <<session, in_dispatcher, sess_stopped, dlg, processing_status>>

\* AmEventDispatcher::post, under the lock of the session's bucket.  Only the
\* ivr application posts null, to the session itself.
post(e) ==
    /\ in_dispatcher /\ posted < MaxEvents
    /\ posted' = posted + 1
    /\ postEvent(e)
    /\ UNCHANGED <<receiver, broadcaster>> /\ sessionUnchanged

\* The transaction layer's final reply to the BYE.
answer_bye ==
    /\ in_dispatcher /\ dlg = "Disconnecting"
    /\ \A i \in DOMAIN ev_queue : ev_queue[i] # "answer"
    /\ postEvent("answer")
    /\ UNCHANGED <<receiver, broadcaster, posted>> /\ sessionUnchanged

\* AmEventDispatcher::broadcast finds the queue under the lock, and posts
\* the shutdown with the lock released.
broadcast_find ==
    /\ broadcaster = "idle" /\ in_dispatcher
    /\ broadcaster' = "found"
    /\ UNCHANGED <<receiver, ev_queue, ev_pending, posted>> /\ sessionUnchanged

broadcast_event ==
    /\ broadcaster = "found"
    /\ broadcaster' = "posted"
    /\ postEvent("stop")
    /\ UNCHANGED <<receiver, posted>> /\ sessionUnchanged

\* AmSessionContainer::startSessionUAS starts the thread, and posts the
\* INVITE to the session itself.
start_thread ==
    /\ receiver = "added"
    /\ receiver' = "started"
    /\ session' = "startup"
    /\ UNCHANGED <<in_dispatcher, ev_queue, ev_pending, sess_stopped, dlg, processing_status,
                   broadcaster, posted>>

post_invite ==
    /\ receiver = "started"
    /\ receiver' = "done"
    /\ postEvent("invite")
    /\ UNCHANGED <<broadcaster, posted>> /\ sessionUnchanged

-----------------------------------------------------------------------------
(* AmSession::run                                                          *)

\* onStart may throw: the session is then destroyed.
startup ==
    /\ session = "startup"
    /\ session' \in {"wait", "finalize"}
    /\ UNCHANGED <<receiver, in_dispatcher, ev_queue, ev_pending, sess_stopped, dlg,
                   processing_status, broadcaster, posted>>

waitForEvent ==
    /\ session = "wait" /\ ev_pending
    /\ session' = "events"
    /\ UNCHANGED <<receiver, in_dispatcher, ev_queue, ev_pending, sess_stopped, dlg,
                   processing_status, broadcaster, posted>>

\* The statuses the handler of event e may give the dialog: the call is
\* answered or rejected at once or later, hung up here or by the peer.
Handled(e) ==
    CASE e = "invite" /\ dlg = "Disconnected" -> {dlg, "Early", "Connected"}
      [] e = "answer" /\ dlg = "Disconnecting" -> {"Disconnected"}
      [] e \in {"msg", "stop"} /\ dlg = "Early" -> {dlg, "Connected", "Disconnected"}
      [] e \in {"msg", "stop"} /\ dlg = "Connected" -> {dlg, "Disconnecting", "Disconnected"}
      [] OTHER -> {dlg}

\* processEvents: an event is taken, and handled with the queue unlocked.
process ==
    /\ session = "events" /\ ev_queue # <<>>
    /\ ev_queue' = Tail(ev_queue)
    /\ dlg' \in Handled(Head(ev_queue))
    /\ sess_stopped' \in {sess_stopped \/ Head(ev_queue) = "stop",
                          sess_stopped \/ Head(ev_queue) \in {"stop", "invite"}}
    /\ UNCHANGED <<receiver, session, in_dispatcher, ev_pending, processing_status, broadcaster,
                   posted>>

\* The handler throws: the session is over.
process_throws ==
    /\ session = "events" /\ ev_queue # <<>>
    /\ ev_queue' = Tail(ev_queue)
    /\ processing_status' = "ENDED_DISCONNECTED"
    /\ session' = "finalize"
    /\ UNCHANGED <<receiver, in_dispatcher, ev_pending, sess_stopped, dlg, broadcaster, posted>>

\* Mutant: the condition is reset before the queue is looked at again.
cycle_early_reset(st, d, to) ==
    /\ session = "events"
    /\ ev_pending' = FALSE
    /\ processing_status' = st /\ dlg' = d /\ session' = to
    /\ UNCHANGED <<receiver, in_dispatcher, ev_queue, sess_stopped, broadcaster, posted>>

\* The queue is empty: processEvents resets the condition before it unlocks
\* the queue, and processingCycle leaves with status st, dialog d.
cycle(st, d, to) ==
    /\ session = "events" /\ ev_queue = <<>>
    /\ ev_pending' = FALSE
    /\ processing_status' = st /\ dlg' = d /\ session' = to
    /\ UNCHANGED <<receiver, in_dispatcher, ev_queue, sess_stopped, broadcaster, posted>>

\* Mutant: a session that waits for its dialog to end is not asked again.
go_on_for_ever ==
    /\ \/ processing_status = "PROCESSING_EVENTS"
          /\ (~sess_stopped \/ dlg = "Disconnecting")
       \/ processing_status = "WAITING_DISCONNECTED"
    /\ cycle(processing_status, dlg, "wait")

\* Still running, or waiting for the end of the dialog.
go_on ==
    /\ \/ processing_status = "PROCESSING_EVENTS"
          /\ (~sess_stopped \/ dlg = "Disconnecting")
       \/ processing_status = "WAITING_DISCONNECTED" /\ dlg # "Disconnected"
    /\ cycle(processing_status, dlg, "wait")

session_over ==
    /\ dlg = "Disconnected" /\ (processing_status = "PROCESSING_EVENTS" => sess_stopped)
    /\ cycle("ENDED_DISCONNECTED", dlg, "finalize")

\* Mutant: the dialog is ended although nobody stopped the session.
bye_while_running ==
    /\ processing_status = "PROCESSING_EVENTS"
    /\ \/ dlg = "Early" /\ cycle("WAITING_DISCONNECTED", "Disconnected", "wait")
       \/ dlg = "Connected" /\ cycle("WAITING_DISCONNECTED", "Disconnecting", "wait")

\* The application did not hang up: a call that was not answered gets a 487,
\* which ends its dialog; a BYE waits for its answer.
bye ==
    /\ processing_status = "PROCESSING_EVENTS" /\ sess_stopped
    /\ \/ dlg = "Early" /\ cycle("WAITING_DISCONNECTED", "Disconnected", "wait")
       \/ dlg = "Connected" /\ cycle("WAITING_DISCONNECTED", "Disconnecting", "wait")

bye_fails ==
    /\ processing_status = "PROCESSING_EVENTS" /\ sess_stopped
    /\ dlg \in {"Early", "Connected"}
    /\ \E d \in {dlg, "Disconnecting", "Disconnected"} :
         cycle("ENDED_DISCONNECTED", d, "finalize")

\* finalize and destroy: the session leaves the dispatcher.
finalize ==
    /\ session = "finalize"
    /\ session' = "gone"
    /\ in_dispatcher' = FALSE
    /\ UNCHANGED <<receiver, ev_queue, ev_pending, sess_stopped, dlg, processing_status,
                   broadcaster, posted>>

-----------------------------------------------------------------------------
run_thread ==
    \/ startup \/ waitForEvent \/ process \/ process_throws \/ go_on \/ session_over
    \/ bye \/ bye_fails \/ finalize

ThreadNext ==
    \/ run_thread \/ start_thread \/ post_invite \/ answer_bye \/ broadcast_find \/ broadcast_event
    \/ \E e \in {"msg", "stop", "null"} : post(e)

ThreadSpec == ThreadInit /\ [][ThreadNext]_threadVars

\* The threads run; a BYE is answered, if only by its own timeout.
ThreadFairness ==
    /\ WF_threadVars(run_thread) /\ WF_threadVars(start_thread) /\ WF_threadVars(post_invite)
    /\ WF_threadVars(answer_bye) /\ WF_threadVars(broadcast_event)

FairThreadSpec == ThreadSpec /\ ThreadFairness

-----------------------------------------------------------------------------
(* Properties                                                              *)

\* The type of the variables.
TypeOK ==
    /\ receiver \in {"added", "started", "done"}
    /\ session \in {"none", "startup", "wait", "events", "finalize", "gone"}
    /\ in_dispatcher \in BOOLEAN
    /\ ev_queue \in Seq(Events)
    /\ ev_pending \in BOOLEAN
    /\ sess_stopped \in BOOLEAN
    /\ dlg \in {"Early", "Connected", "Disconnecting", "Disconnected"}
    /\ processing_status \in {"PROCESSING_EVENTS", "WAITING_DISCONNECTED", "ENDED_DISCONNECTED"}
    /\ broadcaster \in {"idle", "found", "posted"}
    /\ posted \in 0..MaxEvents

\* AmEventQueue: whatever threads post while the session's thread resets
\* the condition, no event lies in the queue of a thread that sleeps.
Wakeup == ev_queue # <<>> => ev_pending

\* A session only waits for the end of its dialog when it was stopped and
\* has hung up: no later event opens the dialog again (processingCycle).
HangsUp ==
    processing_status = "WAITING_DISCONNECTED" =>
        sess_stopped /\ dlg \in {"Disconnecting", "Disconnected"}

\* A session that has sent a BYE on behalf of its application ends.
ByeEnds ==
    (processing_status = "WAITING_DISCONNECTED" /\ dlg = "Disconnecting") ~> session = "gone"

\* AmSession::processingCycle says of WAITING_DISCONNECTED that it is
\* "processing events until dialog status is Disconnected".
StoppedEnds ==
    (processing_status = "WAITING_DISCONNECTED" /\ dlg = "Disconnected") ~> session = "gone"

=============================================================================
