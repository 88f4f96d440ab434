--------------------------- MODULE MediaProcessor ---------------------------
(***************************************************************************)
(* core/AmMediaProcessor.cpp: the tables that give every media session a   *)
(* processing thread by its callgroup, the request queue of each thread    *)
(* and what a thread does about a request.                                 *)
(*                                                                         *)
(* A media session is named by its address, which the allocator may hand   *)
(* out again: gen counts the objects that have lived there.  A request     *)
(* carries the pointer alone; its field gen records, for the properties,   *)
(* which object it was posted for.                                         *)
(***************************************************************************)
EXTENDS Naturals, Sequences, FiniteSets, FiniteSetsExt

CONSTANTS NThreads,  \* AmConfig::MediaProcessorThreads
          Addr,      \* addresses of media sessions
          MaxObj,    \* media sessions made in all
          MaxQueue,  \* length a request queue may reach
          MaxMember  \* times a session may be left in a callgroup

ASSUME MediaAssumption ==
    /\ NThreads \in Nat \ {0} /\ MaxObj \in Nat \ {0} /\ MaxQueue \in Nat /\ MaxMember \in Nat
    /\ IsFiniteSet(Addr)

VARIABLES processing_media,  \* AmMediaSession::processing_media
          gen,               \* how many objects have lived at the address
          groups,            \* the three maps guarded by group_mut
          queue,             \* the event queue of each thread
          sessions           \* the sessions each thread processes

procVars == <<processing_media, gen, groups, queue, sessions>>

Threads == 0 .. NThreads - 1
NoThread == NThreads

\* Callgroups: one of its own for each object, that of a conference, and the
\* empty string, which std::map gives for a session it does not know.
Own(s, g) == <<s, g>>
Conference == <<"conference">>
NoGroup == <<>>
Groups == {NoGroup, Conference} \cup {Own(s, g) : s \in Addr, g \in 1 .. MaxObj}

\* An object is made at an address; the bound on all of them, and so on those
\* made at this one.
Allocated(s) == /\ gen[s] < MaxObj
                /\ MapThenSumSet(LAMBDA x : gen[x], Addr) < MaxObj
                /\ gen' = [gen EXCEPT ![s] = @ + 1]

ProcInit ==
    /\ processing_media = [s \in Addr |-> FALSE]
    /\ gen = [s \in Addr |-> 0]
    /\ groups = [thread |-> [cg \in Groups |-> NoThread],
                 members |-> [cg \in Groups |-> [s \in Addr |-> 0]],
                 of |-> [s \in Addr |-> NoGroup]]
    /\ queue = [t \in Threads |-> <<>>]
    /\ sessions = [t \in Threads |-> {}]

-----------------------------------------------------------------------------
(* The tables.                                                             *)

getLoad(t) == Cardinality(sessions[t])

\* "find the thread with lowest load": thread 0, unless others have a lower
\* load; then the first of those with the lowest.
LowestLoad ==
    LET lower == {t \in Threads : /\ getLoad(t) < getLoad(0)
                                  /\ \A u \in Threads : getLoad(t) <= getLoad(u)
                                  /\ \A u \in 0 .. t - 1 : getLoad(t) < getLoad(u)}
    IN  IF lower = {} THEN 0 ELSE CHOOSE t \in lower : TRUE

\* The thread addSession selects.
SchedThread(G, cg) == IF G.thread[cg] # NoThread THEN G.thread[cg] ELSE LowestLoad

\* addSession, under group_mut.
Joined(G, s, cg) ==
    [G EXCEPT !.thread[cg] = SchedThread(G, cg),
              !.members[cg][s] = @ + 1,
              !.of[s] = cg]

\* removeFromProcessor, under group_mut, and the thread it posts to: thread 0
\* when the session has no entry (any more).
ThreadOf(G, s) == IF G.thread[G.of[s]] # NoThread THEN G.thread[G.of[s]] ELSE 0

Left(G, s) ==
    LET cg == G.of[s]
        left == [G.members[cg] EXCEPT ![s] = IF @ > 0 THEN @ - 1 ELSE 0]
    IN  [G EXCEPT !.members[cg] = left,
                  !.thread[cg] = IF \A x \in Addr : left[x] = 0
                                 THEN NoThread ELSE ThreadOf(G, s),
                  !.of[s] = NoGroup]

Request(type, s) == [type |-> type, s |-> s, gen |-> gen[s]]

Room(Q) == \A t \in Threads : Len(Q[t]) < MaxQueue
postRequest(Q, t, r) == [Q EXCEPT ![t] = Append(@, r)]

\* AmMediaProcessor::addSession and removeFromProcessor: what they make of
\* the tables and queues P, a record of groups, queue and processing_media.
State == [groups |-> groups, queue |-> queue, flag |-> processing_media]

addSession(P, s, cg) ==
    [P EXCEPT !.flag[s] = TRUE,
              !.groups = Joined(@, s, cg),
              !.queue = postRequest(@, SchedThread(P.groups, cg), Request("Insert", s))]

\* Mutant: the request goes to the thread with the lowest load.
removeFromProcessor_any_thread(P, s, type) ==
    [P EXCEPT !.groups = Left(@, s),
              !.queue = postRequest(@, LowestLoad, Request(type, s))]

\* Mutant: the session counts as removed before the thread has dropped it.
removeFromProcessor_clears_flag(P, s, type) ==
    [P EXCEPT !.groups = Left(@, s), !.flag[s] = FALSE,
              !.queue = postRequest(@, ThreadOf(P.groups, s), Request(type, s))]

removeFromProcessor(P, s, type) ==
    [P EXCEPT !.groups = Left(@, s),
              !.queue = postRequest(@, ThreadOf(P.groups, s), Request(type, s))]

Becomes(P) == /\ groups' = P.groups /\ queue' = P.queue
              /\ processing_media' = P.flag

-----------------------------------------------------------------------------
(* A thread's side.                                                        *)

\* processAudio: readStreams or writeStreams failed, the thread asks itself
\* to clear the session.
stream_error(t, s) ==
    /\ s \in sessions[t] /\ Room(queue)
    /\ queue' = postRequest(queue, t, Request("Clear", s))
    /\ UNCHANGED <<processing_media, gen, groups, sessions>>

\* The request a thread takes up, and whether it concerns a session it has.
Pending(t) == queue[t] # <<>>
First(t) == Head(queue[t])
Found(t) == First(t).s \in sessions[t]

popped(t) == [queue EXCEPT ![t] = Tail(@)]

\* AmMediaProcessorThread::process: what becomes of the thread's sessions.
\* Mutant: a cleared session stays in the thread's set.
processed_keeps_clear(t) ==
    [sessions EXCEPT ![t] = IF First(t).type = "Insert" THEN @ \cup {First(t).s}
                            ELSE IF First(t).type = "Clear" THEN @
                            ELSE @ \ {First(t).s}]

processed(t) ==
    [sessions EXCEPT ![t] = IF First(t).type = "Insert" THEN @ \cup {First(t).s}
                            ELSE @ \ {First(t).s}]

\* A request after which the session is told that it is no longer processed.
Terminates(t) == Found(t) /\ First(t).type \in {"Remove", "Clear"}
=============================================================================
