------------------------- MODULE MediaClientProofs --------------------------
(***************************************************************************)
(* Proofs that the media processor and its two kinds of client keep count  *)
(* of each other, for any number of threads, sessions and media objects.   *)
(*                                                                         *)
(* The argument follows one hold on each object: it is in a thread's set,  *)
(* in the hand of a thread that clears it, or in an Insert that some queue *)
(* has.  There is at most one, and none unless processing_media is set,    *)
(* wherever the surplus Remove and Clear requests end up.  Here are the    *)
(* invariant and the steps of the clients; MediaSessionsProofs has those   *)
(* of the threads and the theorems.                                        *)
(***************************************************************************)
EXTENDS MediaSessions, Integers, TLAPS

\* What a leaf with no prover of its own is tried with.
USE SMTT(30), ZenonT(30)

\* The tables under group_mut.
Table(G) ==
    /\ G = [thread |-> G.thread, members |-> G.members, of |-> G.of]
    /\ G.thread \in [Groups -> Threads \cup {NoThread}]
    /\ G.of \in [Addr -> Groups]

\* The types of the state.
Requests == [type : {"Insert", "Remove", "SoftRemove", "Clear"}, s : Addr, gen : Nat]
Objects == [alive : BOOLEAN, transcoding : BOOLEAN, streams : BOOLEAN, input : BOOLEAN,
            ptr : [Legs -> BOOLEAN], leg : [Legs -> {"on", "cleared", "checked", "off"}],
            ref_cnt : Int]

Types ==
    /\ Table(groups)
    /\ queue \in [Threads -> Seq(Requests)]
    /\ processing_media \in [Addr -> BOOLEAN]
    /\ gen \in [Addr -> 0 .. MaxObj]
    /\ sessions \in [Threads -> SUBSET Addr]
    /\ busy \in [Threads -> 0 .. 2]
    /\ moved \in SUBSET Sessions
    /\ user \in [Sessions -> {"gone", "run", "moving", "stopped"}]
    /\ b2b \in [Media -> Objects]

\* The three holds a thread can have on s.
Has(t, s) == s \in sessions[t]
Clearing(t, s) == busy[t] # 0 /\ First(t).s = s
Inserts(t, i, s) == i \in 1 .. Len(queue[t]) /\ queue[t][i].type = "Insert" /\ queue[t][i].s = s

\* A thread in the midst of clearing has the request still at the head.
Alone == \A t \in Threads : busy[t] # 0 =>
    queue[t] # <<>> /\ First(t).type = "Clear" /\ First(t).s \in Media

\* No thread has a hold on s; at most one hold on s exists.
Untouched(s) == \A t \in Threads :
    ~Has(t, s) /\ ~Clearing(t, s) /\ \A i \in Nat : ~Inserts(t, i, s)

Once(s) == \A t, u \in Threads :
    /\ Has(t, s) => (Has(u, s) => t = u) /\ ~Clearing(u, s) /\ \A i \in Nat : ~Inserts(u, i, s)
    /\ Clearing(t, s) => (Clearing(u, s) => t = u) /\ \A i \in Nat : ~Inserts(u, i, s)
    /\ \A i, j \in Nat : Inserts(t, i, s) /\ Inserts(u, j, s) => t = u /\ i = j

\* processing_media tells whether there may be one.
Held(s) == Once(s) /\ (~processing_media[s] => Untouched(s))

\* An object that exists was made; none is processed before it starts its
\* media; a session between its two callgroups counts as moved.
Made == /\ \A s \in Sessions : user[s] # "gone" => gen[s] >= 1
        /\ \A m \in Media : b2b[m].alive => gen[m] >= 1

Idle == \A s \in Sessions : user[s] = "gone" => ~processing_media[s]
Moving == \A s \in Sessions : user[s] = "moving" => s \in moved

\* The legs' references, and ref_cnt with that of the processor.
Counted(x, f) == IF x.alive THEN x.ref_cnt = References(x) + (IF f THEN 1 ELSE 0)
                 ELSE x = NoMedia /\ ~f

\* The inductive invariant.
IInv == /\ Types /\ Alone /\ Made /\ Idle /\ Moving
        /\ \A s \in Addr \ moved : Held(s)
        /\ \A m \in Media : Counted(b2b[m], processing_media[m])

-----------------------------------------------------------------------------
\* The tables keep their shape when one entry of a field is set.
LEMMA ThreadSet ==
    ASSUME NEW G, Table(G), NEW cg \in Groups, NEW th \in Threads \cup {NoThread}
    PROVE  Table([G EXCEPT !.thread[cg] = th])
BY DEF Table
LEMMA OfSet ==
    ASSUME NEW G, Table(G), NEW cg \in Groups, NEW s \in Addr
    PROVE  Table([G EXCEPT !.of[s] = cg])
BY DEF Table
LEMMA MembersSet ==
    ASSUME NEW G, Table(G), NEW cg, NEW v
    PROVE  Table([G EXCEPT !.members[cg] = v])
BY DEF Table

LEMMA MemberSet ==
    ASSUME NEW G, Table(G), NEW cg, NEW s
    PROVE  Table([G EXCEPT !.members[cg][s] = @ + 1])
BY DEF Table

\* "find the thread with lowest load" finds one.
LEMMA LowestLoadThread == LowestLoad \in Threads
<1> DEFINE lower == {t \in Threads : /\ getLoad(t) < getLoad(0)
                                     /\ \A u \in Threads : getLoad(t) <= getLoad(u)
                                     /\ \A u \in 0 .. t - 1 : getLoad(t) < getLoad(u)}
<1>1. 0 \in Threads BY MediaAssumption DEF Threads
<1>2. lower \subseteq Threads OBVIOUS
<1>3. LowestLoad = IF lower = {} THEN 0 ELSE CHOOSE t \in lower : TRUE BY Zenon DEF LowestLoad
<1> HIDE DEF lower
<1> QED BY <1>1, <1>2, <1>3

\* addSession leaves well-formed tables and finds a thread.
LEMMA JoinedTable == ASSUME NEW G, Table(G), NEW s \in Addr, NEW cg \in Groups
   PROVE Table(Joined(G, s, cg)) /\ SchedThread(G, cg) \in Threads
<1>1. SchedThread(G, cg) \in Threads BY LowestLoadThread DEF SchedThread, Table
<1> DEFINE H1 == [G EXCEPT !.thread[cg] = SchedThread(G, cg)]
           H2 == [H1 EXCEPT !.members[cg][s] = @ + 1]
           H3 == [H2 EXCEPT !.of[s] = cg]
<1>2. Table(H1) BY <1>1, ThreadSet
<1>5. Joined(G, s, cg) = H3
   BY DEF Joined, Table
<1>3. Table(H2)
  <2> HIDE DEF H1
  <2> QED BY <1>2, MemberSet, Zenon
<1>4. Table(H3)
  <2> HIDE DEF H2
  <2> QED BY <1>3, OfSet
<1> QED BY <1>1, <1>4, <1>5

\* So does removeFromProcessor.
LEMMA LeftTable == ASSUME NEW G, Table(G), NEW s \in Addr, NThreads \in Nat \ {0}
   PROVE Table(Left(G, s)) /\ ThreadOf(G, s) \in Threads
<1>1. ThreadOf(G, s) \in Threads BY DEF ThreadOf, Table, Threads, NoThread
<1> DEFINE cg == G.of[s]
           left == [G.members[cg] EXCEPT ![s] = IF @ > 0 THEN @ - 1 ELSE 0]
           th == IF \A x \in Addr : left[x] = 0 THEN NoThread ELSE ThreadOf(G, s)
<1>a. th \in Threads \cup {NoThread} BY <1>1
<1>b. NoGroup \in Groups BY DEF Groups
<1>c. cg \in Groups BY DEF Table
<1> DEFINE H1 == [G EXCEPT !.members[cg] = left]
           H2 == [H1 EXCEPT !.thread[cg] = th]
           H3 == [H2 EXCEPT !.of[s] = NoGroup]
<1>5. Left(G, s) = H3
   BY DEF Left, Table
<1> HIDE DEF th, left, cg
<1>2. Table(H1) BY MembersSet
<1>3. Table(H2) 
  <2> HIDE DEF H1
  <2> QED BY <1>2, <1>a, <1>c, ThreadSet
<1>4. Table(H3) 
  <2> HIDE DEF H2
  <2> QED BY <1>3, <1>b, OfSet
<1> QED BY <1>1, <1>4, <1>5

\* Requests are of the type the queues hold.
LEMMA RequestType ==
    ASSUME Types, NEW s \in Addr, NEW type \in {"Insert", "Remove", "SoftRemove", "Clear"}
    PROVE  Request(type, s) \in Requests /\ Request(type, s).s = s /\ Request(type, s).type = type
BY MediaAssumption DEF Types, Request, Requests

\* What a call of addSession or removeFromProcessor leaves of the state.
Adds(s) == \E t \in Threads, r \in Requests :
    /\ r.type = "Insert" /\ r.s = s
    /\ queue' = postRequest(queue, t, r)
    /\ processing_media' = [processing_media EXCEPT ![s] = TRUE]
    /\ Table(groups')

Drops == \E t \in Threads, r \in Requests :
    /\ r.type # "Insert"
    /\ queue' = postRequest(queue, t, r)
    /\ processing_media' = processing_media
    /\ Table(groups')

Same == UNCHANGED <<queue, processing_media, groups>>

\* addSession and removeFromProcessor do no more than that.
LEMMA Adding ==
    ASSUME Types, NEW s \in Addr, NEW cg \in Groups, Becomes(addSession(State, s, cg))
    PROVE  Adds(s)
<1> DEFINE r == Request("Insert", s)
           t == SchedThread(groups, cg)
<1>1. r \in Requests /\ r.type = "Insert" /\ r.s = s BY RequestType
<1>2. t \in Threads /\ Table(Joined(groups, s, cg)) BY JoinedTable DEF Types
<1>3. /\ queue' = postRequest(queue, t, r)
      /\ processing_media' = [processing_media EXCEPT ![s] = TRUE]
      /\ groups' = Joined(groups, s, cg)
  BY DEF Becomes, addSession, State
<1> HIDE DEF r, t
<1> QED BY <1>1, <1>2, <1>3 DEF Adds

LEMMA Dropping ==
    ASSUME Types, NEW s \in Addr, NEW type \in {"Remove", "SoftRemove", "Clear"},
           Becomes(removeFromProcessor(State, s, type))
    PROVE  Drops
<1> DEFINE r == Request(type, s)
           t == ThreadOf(groups, s)
<1>1. r \in Requests /\ r.type = type /\ r.s = s BY RequestType
<1>2. t \in Threads /\ Table(Left(groups, s)) BY LeftTable, MediaAssumption DEF Types
<1>3. /\ queue' = postRequest(queue, t, r)
      /\ processing_media' = processing_media
      /\ groups' = Left(groups, s)
  BY DEF Becomes, removeFromProcessor, State
<1> HIDE DEF r, t
<1> QED BY <1>1, <1>2, <1>3 DEF Drops

-----------------------------------------------------------------------------

\* Queues and what they hold of s, when a request is posted or taken.
LEMMA PostType ==
    ASSUME Types, NEW t \in Threads, NEW r \in Requests, queue' = postRequest(queue, t, r)
    PROVE  queue' \in [Threads -> Seq(Requests)]
BY DEF Types, postRequest

LEMMA PostHead ==
    ASSUME Types, NEW t \in Threads, NEW r \in Requests, queue' = postRequest(queue, t, r)
    PROVE  \A u \in Threads : queue[u] # <<>> => queue'[u] # <<>> /\ Head(queue'[u]) = Head(queue[u])
<1> SUFFICES ASSUME NEW u \in Threads, queue[u] # <<>>
             PROVE  queue'[u] # <<>> /\ Head(queue'[u]) = Head(queue[u])
  OBVIOUS
<1>1. queue[u] \in Seq(Requests) BY DEF Types
<1>2. queue'[u] = IF u = t THEN Append(queue[u], r) ELSE queue[u] BY DEF Types, postRequest
<1> QED BY <1>1, <1>2

LEMMA PostInserts ==
    ASSUME Types, NEW t \in Threads, NEW r \in Requests, queue' = postRequest(queue, t, r),
           NEW s, NEW u \in Threads, NEW i \in Nat
    PROVE  Inserts(u, i, s)' <=> \/ Inserts(u, i, s)
                                 \/ u = t /\ i = Len(queue[t]) + 1 /\ r.type = "Insert" /\ r.s = s
<1>1. queue[u] \in Seq(Requests) BY DEF Types
<1>2. queue'[u] = IF u = t THEN Append(queue[u], r) ELSE queue[u] BY DEF Types, postRequest
<1> QED BY <1>1, <1>2 DEF Inserts

LEMMA PopType ==
    ASSUME Types, NEW t \in Threads, queue[t] # <<>>, queue' = popped(t)
    PROVE  queue' \in [Threads -> Seq(Requests)]
BY DEF Types, popped

LEMMA PopInserts ==
    ASSUME Types, NEW t \in Threads, queue[t] # <<>>, queue' = popped(t),
           NEW s, NEW u \in Threads, NEW i \in Nat
    PROVE  Inserts(u, i, s)' <=> IF u = t THEN i # 0 /\ Inserts(u, i + 1, s) ELSE Inserts(u, i, s)
<1>1. queue[u] \in Seq(Requests) BY DEF Types
<1>2. queue'[u] = IF u = t THEN Tail(queue[u]) ELSE queue[u] BY DEF Types, popped
<1> QED BY <1>1, <1>2 DEF Inserts

\* Posting to a queue keeps what a thread with a request in hand is at.
LEMMA PostKeepsAlone ==
    ASSUME Types, Alone, NEW t \in Threads, NEW r \in Requests, queue' = postRequest(queue, t, r),
           UNCHANGED busy
    PROVE  Alone' /\ \A s, u : u \in Threads => (Clearing(u, s)' <=> Clearing(u, s))
<1>1. \A u \in Threads : busy[u] # 0 => queue'[u] # <<>> /\ Head(queue'[u]) = Head(queue[u])
  BY PostHead DEF Alone
<1> QED BY <1>1 DEF Alone, Clearing, First

\* A step that leaves the holds on s and its flag alone.
LEMMA SameHolds ==
    ASSUME NEW s, Held(s), processing_media'[s] = processing_media[s],
           \A u \in Threads : Has(u, s)' <=> Has(u, s),
           \A u \in Threads : Clearing(u, s)' <=> Clearing(u, s),
           \A u \in Threads : \A i \in Nat : Inserts(u, i, s)' <=> Inserts(u, i, s)
    PROVE  Held(s)'
<1>1. Once(s)' BY DEF Held, Once
<1>2. Untouched(s) => Untouched(s)' BY DEF Untouched
<1> QED BY <1>1, <1>2 DEF Held

\* Posting anything but an Insert of s.
LEMMA PostKeepsHeld ==
    ASSUME Types, Alone, NEW t \in Threads, NEW r \in Requests, queue' = postRequest(queue, t, r),
           UNCHANGED <<busy, sessions>>, NEW s \in Addr, Held(s),
           ~(r.type = "Insert" /\ r.s = s), processing_media'[s] = processing_media[s]
    PROVE  Held(s)'
<1>1. \A u \in Threads : \A i \in Nat : Inserts(u, i, s)' <=> Inserts(u, i, s)
  BY PostInserts
<1>2. \A u \in Threads : Clearing(u, s)' <=> Clearing(u, s)
  BY PostKeepsAlone
<1>3. \A u \in Threads : Has(u, s)' <=> Has(u, s)
  BY DEF Has
<1> QED BY <1>1, <1>2, <1>3, SameHolds

\* Posting the Insert of an s that nobody has a hold on.
LEMMA AddKeepsHeld ==
    ASSUME Types, Alone, NEW t \in Threads, NEW r \in Requests, queue' = postRequest(queue, t, r),
           UNCHANGED <<busy, sessions>>, NEW s \in Addr, Held(s), ~processing_media[s],
           r.type = "Insert", r.s = s, processing_media'[s]
    PROVE  Held(s)'
<1>1. Untouched(s) BY DEF Held
<1>2. \A u \in Threads : \A i \in Nat : Inserts(u, i, s)' <=> u = t /\ i = Len(queue[t]) + 1
  BY <1>1, PostInserts DEF Untouched
<1>3. \A u \in Threads : ~Clearing(u, s)'
  BY <1>1, PostKeepsAlone DEF Untouched
<1>4. \A u \in Threads : ~Has(u, s)'
  BY <1>1 DEF Has, Untouched
<1> QED BY <1>2, <1>3, <1>4 DEF Held, Once

\* What a call of the processor may be in one step: nothing, a removal, or the
\* addition of s, which nobody processes or whose callgroup is being changed.
Call(s) == \/ Same
           \/ Drops
           \/ Adds(s) /\ (s \in moved' \/ ~processing_media[s])

\* A call keeps the types and, with the threads' sets as they are, the holds.
LEMMA CallType ==
    ASSUME IInv, NEW s \in Addr, Call(s)
    PROVE  /\ Table(groups)' /\ queue' \in [Threads -> Seq(Requests)]
           /\ processing_media' \in [Addr -> BOOLEAN]
           /\ \A x \in Addr \ {s} : processing_media'[x] = processing_media[x]
<1>1. CASE Same BY <1>1 DEF Same, IInv, Types, Table
<1>2. CASE Drops
  <2>1. PICK t \in Threads, r \in Requests :
            /\ queue' = postRequest(queue, t, r)
            /\ processing_media' = processing_media /\ Table(groups')
    BY <1>2 DEF Drops
  <2>2. Table(groups)' BY <2>1 DEF Table
  <2> QED BY <2>1, <2>2, PostType DEF IInv, Types
<1>3. CASE Adds(s)
  <2>1. PICK t \in Threads, r \in Requests :
            /\ queue' = postRequest(queue, t, r)
            /\ processing_media' = [processing_media EXCEPT ![s] = TRUE] /\ Table(groups')
    BY <1>3 DEF Adds
  <2>2. Table(groups)' BY <2>1 DEF Table
  <2> QED BY <2>1, <2>2, PostType DEF IInv, Types
<1> QED BY <1>1, <1>2, <1>3 DEF Call

LEMMA CallHeld ==
    ASSUME IInv, NEW s \in Addr, Call(s), UNCHANGED <<busy, sessions>>,
           moved \subseteq moved'
    PROVE  Alone' /\ \A x \in Addr \ moved' : Held(x)'
<1> SUFFICES ASSUME NEW x \in Addr \ moved' PROVE Alone' /\ Held(x)'
  <2> CASE Addr \ moved' = {}
    <3>1. CASE Same BY <3>1 DEF Same, IInv, Alone, First
    <3>2. CASE Drops BY <3>2, PostKeepsAlone DEF Drops, IInv
    <3>3. CASE Adds(s) BY <3>3, PostKeepsAlone DEF Adds, IInv
    <3> QED BY <3>1, <3>2, <3>3 DEF Call
  <2> QED OBVIOUS
<1>0. Types /\ Alone /\ Held(x) BY DEF IInv
<1>1. CASE Same
  <2>1. UNCHANGED <<queue, processing_media, busy, sessions>> BY <1>1 DEF Same
  <2>2. Alone' BY <1>0, <2>1 DEF Alone, First
  <2>3. /\ \A u \in Threads : Has(u, x)' <=> Has(u, x)
        /\ \A u \in Threads : Clearing(u, x)' <=> Clearing(u, x)
        /\ \A u \in Threads : \A i \in Nat : Inserts(u, i, x)' <=> Inserts(u, i, x)
        /\ processing_media'[x] = processing_media[x]
    BY <2>1 DEF Has, Clearing, Inserts, First
  <2>4. Held(x)' BY ONLY <1>0, <2>3, SameHolds
  <2> QED BY <2>2, <2>4
<1>2. CASE Drops
  <2>1. PICK t \in Threads, r \in Requests :
            /\ r.type # "Insert" /\ queue' = postRequest(queue, t, r)
            /\ processing_media' = processing_media
    BY <1>2 DEF Drops
  <2>2. Alone' BY <1>0, <2>1, PostKeepsAlone
  <2>3. Held(x)' BY <1>0, <2>1, PostKeepsHeld
  <2> QED BY <2>2, <2>3
<1>3. CASE Adds(s) /\ (s \in moved' \/ ~processing_media[s])
  <2>1. PICK t \in Threads, r \in Requests :
            /\ r.type = "Insert" /\ r.s = s /\ queue' = postRequest(queue, t, r)
            /\ processing_media' = [processing_media EXCEPT ![s] = TRUE]
    BY <1>3 DEF Adds
  <2>2. Alone' BY <1>0, <2>1, PostKeepsAlone
  <2>3. Held(x)'
    <3>1. CASE x = s
      <4>1. ~processing_media[x] BY <1>3, <3>1
      <4>2. processing_media'[x] BY <2>1, <3>1, <1>0 DEF Types
      <4> QED BY <1>0, <2>1, <3>1, <4>1, <4>2, AddKeepsHeld
    <3>2. CASE x # s
      <4>1. processing_media'[x] = processing_media[x] BY <2>1, <3>2, <1>0 DEF Types
      <4> QED BY <1>0, <2>1, <3>2, <4>1, PostKeepsHeld, Zenon
    <3> QED BY <3>1, <3>2
  <2> QED BY <2>2, <2>3
<1> QED BY <1>1, <1>2, <1>3 DEF Call
-----------------------------------------------------------------------------

\* Initially nothing exists.
LEMMA InitHolds == Init => IInv
<1> SUFFICES ASSUME Init PROVE IInv OBVIOUS
<1> USE MediaAssumption, ClientAssumption
<1>0. NoGroup \in Groups BY DEF Groups
<1>1. Table(groups)
  BY <1>0 DEF Init, ProcInit, Table
<1>2. NoMedia \in Objects BY DEF NoMedia, Objects
<1>3. Types BY <1>1, <1>2 DEF Init, ProcInit, Types
<1>4. Alone BY DEF Alone, Init
<1>5. ~NoMedia.alive BY DEF NoMedia
<1>6. Made BY <1>5 DEF Made, Init
<1>7. Idle BY DEF Idle, Init, ProcInit
<1>8. Moving BY DEF Moving, Init
<1>9. ASSUME NEW s \in Addr PROVE Held(s)
  <2>1. Untouched(s) BY DEF Untouched, Has, Clearing, Inserts, Init, ProcInit
  <2> QED BY <2>1 DEF Held, Once, Untouched
<1>10. ASSUME NEW m \in Media PROVE Counted(b2b[m], processing_media[m])
  BY <1>5 DEF Counted, Init, ProcInit
<1> QED BY <1>3, <1>4, <1>6, <1>7, <1>8, <1>9, <1>10 DEF IInv

\* A step of an AmSession.
LEMMA SessionSteps ==
    ASSUME IInv, NEW s \in Sessions, Session(s) PROVE IInv'
<1> USE ClientAssumption, MediaAssumption
<1>0. Types /\ Alone /\ Made /\ Idle /\ Moving BY DEF IInv
<1>s. s \in Addr \ Media OBVIOUS
<1>1. CASE new_session(s)
  <2>1. /\ user' = [user EXCEPT ![s] = "run"] /\ gen' = [gen EXCEPT ![s] = @ + 1]
        /\ gen[s] < MaxObj
        /\ UNCHANGED <<processing_media, groups, queue, sessions, moved, b2b, busy>>
    BY <1>1 DEF new_session, Allocated
  <2>2. Same BY <2>1 DEF Same
  <2>3. Call(s) BY <2>2 DEF Call
  <2>4. Alone' /\ \A x \in Addr \ moved' : Held(x)' BY <2>1, <2>3, CallHeld
  <2>5. Types' BY <2>1, <2>3, <1>0, <1>s, CallType DEF Types
  <2>6. Made' BY <2>1, <1>0, <1>s DEF Made, Types
  <2>7. Idle' /\ Moving' BY <2>1, <1>0 DEF Idle, Moving, Types
  <2>8. \A m \in Media : Counted(b2b[m], processing_media[m])' BY <2>1 DEF IInv, Counted, References
  <2> QED BY <2>4, <2>5, <2>6, <2>7, <2>8 DEF IInv
<1>2. SUFFICES ASSUME /\ Call(s) /\ UNCHANGED <<gen, sessions, b2b, busy>>
                      /\ moved \subseteq moved' /\ moved' \in SUBSET Sessions
                      /\ user' \in [Sessions -> {"gone", "run", "moving", "stopped"}]
                      /\ \A x \in Sessions \ {s} : user'[x] = user[x]
                      /\ user[s] # "gone"
                      /\ user'[s] = "moving" => s \in moved'
                      /\ user'[s] = "gone" => ~processing_media'[s]
               PROVE  IInv'
  <2>1. Own(s, gen[s]) \in Groups \/ user[s] = "gone" BY <1>0 DEF Made, Types, Own, Groups
  <2>2. CASE startMediaProcessing(s)
    <3>1. Adds(s) BY <2>1, <2>2, <1>0, <1>s, Adding DEF startMediaProcessing
    <3> QED BY <3>1, <2>2, <1>0, <1>2 DEF startMediaProcessing, Call, Types
  <2>3. CASE stopMediaProcessing(s)
    <3>1. Drops BY <2>3, <1>0, <1>s, Dropping DEF stopMediaProcessing
    <3> QED BY <3>1, <2>3, <1>0, <1>2 DEF stopMediaProcessing, Call, Types
  <2>4. CASE changeCallgroup(s)
    <3>1. Drops BY <2>4, <1>0, <1>s, Dropping DEF changeCallgroup
    <3> QED BY <3>1, <2>4, <1>0, <1>2 DEF changeCallgroup, Call, Types
  <2>5. CASE changedCallgroup(s)
    <3>0. Conference \in Groups BY DEF Groups
    <3>1. Adds(s) BY <3>0, <2>5, <1>0, <1>s, Adding DEF changedCallgroup
    <3>2. s \in moved' BY <2>5, <1>0 DEF changedCallgroup, Moving
    <3> QED BY <3>1, <3>2, <2>5, <1>0, <1>2 DEF changedCallgroup, Call, Types
  <2>6. CASE on_stop(s)
    <3>1. Drops \/ Same
      <4>1. CASE processing_media[s] BY <4>1, <2>6, <1>0, <1>s, Dropping DEF on_stop
      <4>2. CASE ~processing_media[s] BY <4>2, <2>6 DEF on_stop, Becomes, State, Same
      <4> QED BY <4>1, <4>2
    <3> QED BY <3>1, <2>6, <1>0, <1>2 DEF on_stop, Call, Types
  <2>7. CASE delete_session(s)
    <3>1. Same BY <2>7 DEF delete_session, procVars, Same
    <3> QED BY <3>1, <2>7, <1>0, <1>2 DEF delete_session, procVars, Call, Types
  <2> QED BY <1>1, <2>2, <2>3, <2>4, <2>5, <2>6, <2>7 DEF Session
<1>3. Alone' /\ \A x \in Addr \ moved' : Held(x)' BY <1>2, <1>s, CallHeld
<1>4. Types' BY <1>0, <1>2, <1>s, CallType, Zenon DEF Types
<1>5. Made' BY <1>0, <1>2 DEF Made
<1>6. \A x \in Addr \ {s} : processing_media'[x] = processing_media[x] BY <1>2, <1>s, CallType
<1>7. Idle' BY <1>0, <1>2, <1>6 DEF Idle
<1>8. Moving' BY <1>0, <1>2 DEF Moving
<1>9. \A m \in Media : Counted(b2b[m], processing_media[m])' 
  BY <1>2, <1>6, <1>s DEF IInv, Counted, References
<1> QED BY <1>3, <1>4, <1>5, <1>7, <1>8, <1>9 DEF IInv

-----------------------------------------------------------------------------

\* y is x but for its streams and session pointers, with n more references.
Like(x, y, n) ==
    /\ y \in Objects /\ y.alive = x.alive /\ y.leg = x.leg
    /\ y.ref_cnt = x.ref_cnt + n

\* Setting a field other than alive and leg.
LEMMA FieldsLike ==
    ASSUME NEW x \in Objects, NEW v \in BOOLEAN, NEW l \in Legs
    PROVE  /\ Like(x, x, 0)
           /\ Like(x, [x EXCEPT !.streams = v], 0)
           /\ Like(x, [x EXCEPT !.input = v], 0)
           /\ Like(x, [x EXCEPT !.ptr[l] = v], 0)
           /\ Like(x, [x EXCEPT !.ref_cnt = @ + 1], 1)
BY DEF Like, Objects

LEMMA LikeTrans ==
    ASSUME NEW x \in Objects, NEW y, NEW z, NEW n \in Int, Like(x, y, 0), Like(y, z, n)
    PROVE  Like(x, z, n)
BY DEF Like, Objects

\* What Adjusted makes of an object and of the processor.
Result(x, y, m, P) ==
    \/ Like(x, y, 0) /\ P \in {State, removeFromProcessor(State, m, "Remove")}
    \/ ~processing_media[m] /\ Like(x, y, 1) /\ P = addSession(State, m, Own(m, gen[m]))

\* changeSessionUnsafe and updateAudioStreams, and clearAudio.
LEMMA AdjustedResult ==
    ASSUME NEW x \in Objects, NEW m \in Media
    PROVE  Result(x, Adjusted(x, m, State).x, m, Adjusted(x, m, State).P)
<1>1. State.flag = processing_media BY DEF State
<1>2. Like(x, x, 0) /\ Like(x, [x EXCEPT !.ref_cnt = @ + 1], 1)
  BY FieldsLike, Zenon DEF Legs
<1> QED BY <1>1, <1>2 DEF Adjusted, Result

LEMMA ResultFrom ==
    ASSUME NEW w \in Objects, NEW x, NEW y, NEW m \in Media, NEW P, Like(w, x, 0), Result(x, y, m, P)
    PROVE  Result(w, y, m, P)
BY LikeTrans DEF Result

LEMMA ClearAudioResult ==
    ASSUME NEW m \in Media, NEW l \in Legs, b2b[m] \in Objects
    PROVE  Result(b2b[m], clearAudio(m, l).x, m, clearAudio(m, l).P)
<1> DEFINE x == [b2b[m] EXCEPT !.ptr[l] = FALSE]
           r == Adjusted(x, m, State)
           y == IF \A k \in Legs : ~r.x.ptr[k]
                THEN [r.x EXCEPT !.streams = FALSE, !.input = FALSE] ELSE r.x
<1>1. Like(b2b[m], x, 0) BY FieldsLike, Zenon
<1>2. x \in Objects BY <1>1 DEF Like
<1>3. r = [x |-> r.x, P |-> r.P] BY Zenon DEF Adjusted
<1>4. clearAudio(m, l) = [r EXCEPT !.x = y] BY DEF clearAudio
<1> HIDE DEF x
<1>5. Result(x, r.x, m, r.P) BY <1>2, AdjustedResult
<1> HIDE DEF r
<1>6. r.x \in Objects BY <1>5 DEF Result, Like
<1>7. Like(r.x, y, 0)
  <2>1. Like(r.x, [r.x EXCEPT !.streams = FALSE], 0) BY <1>6, FieldsLike, Zenon
  <2> DEFINE z == [r.x EXCEPT !.streams = FALSE]
  <2>2. z \in Objects BY <2>1 DEF Like
  <2>3. y = IF \A k \in Legs : ~r.x.ptr[k] THEN [z EXCEPT !.input = FALSE] ELSE r.x
    OBVIOUS
  <2> HIDE DEF z
  <2>4. Like(z, [z EXCEPT !.input = FALSE], 0) BY <2>2, FieldsLike, Zenon
  <2>5. Like(r.x, [z EXCEPT !.input = FALSE], 0)
    <3>1. Like(r.x, z, 0) BY <2>1 DEF z
    <3> QED BY <3>1, <2>4, <1>6, LikeTrans
  <2>6. Like(r.x, r.x, 0) BY <1>6, FieldsLike, Zenon
  <2> QED BY <2>3, <2>5, <2>6
<1> HIDE DEF y
<1>8. clearAudio(m, l).x = y /\ clearAudio(m, l).P = r.P BY <1>3, <1>4
<1>9. Result(x, y, m, r.P)
  <2>1. ASSUME Like(x, r.x, 0) PROVE Like(x, y, 0) BY <2>1, <1>2, <1>7, LikeTrans
  <2>2. ASSUME Like(x, r.x, 1) PROVE Like(x, y, 1) BY <2>2, <1>2, <1>7 DEF Like, Objects
  <2> QED BY <1>5, <2>1, <2>2 DEF Result
<1> QED BY <1>1, <1>8, <1>9, ResultFrom

\* As a call of the processor.
LEMMA ResultCall ==
    ASSUME Types, NEW m \in Media, gen[m] >= 1, NEW y, NEW P, Becomes(P), Result(b2b[m], y, m, P)
    PROVE  \/ Like(b2b[m], y, 0) /\ (Same \/ Drops)
           \/ ~processing_media[m] /\ Like(b2b[m], y, 1) /\ Adds(m)
<1> USE ClientAssumption, MediaAssumption
<1>1. Own(m, gen[m]) \in Groups BY DEF Types, Own, Groups
<1>2. CASE P = State
  <2>1. Same BY <1>2 DEF Becomes, State, Same
  <2>2. P # addSession(State, m, Own(m, gen[m])) \/ Adds(m) BY <1>1, Adding
  <2> QED BY <2>1, <2>2 DEF Result
<1>3. CASE P = removeFromProcessor(State, m, "Remove")
  <2>1. Drops BY <1>3, Dropping
  <2>2. P # addSession(State, m, Own(m, gen[m])) \/ Adds(m) BY <1>1, Adding
  <2> QED BY <2>1, <2>2 DEF Result
<1>4. CASE P = addSession(State, m, Own(m, gen[m]))
  <2>1. Adds(m) BY <1>1, <1>4, Adding
  <2>2. P # State \/ Same BY <1>4 DEF Becomes, State, Same
  <2>3. P # removeFromProcessor(State, m, "Remove") \/ Drops BY Dropping
  <2> QED BY <2>1, <2>2, <2>3 DEF Result
<1> QED BY <1>2, <1>3, <1>4 DEF Result

-----------------------------------------------------------------------------

\* A step that leaves a media object its life and its legs (one of them may go
\* on with its release) and in which only the processor may get a reference.
Touches(m, y) ==
    /\ b2b[m].alive /\ y \in Objects /\ y.alive
    /\ References(y) = References(b2b[m])
    /\ b2b' = [b2b EXCEPT ![m] = y]
    /\ UNCHANGED <<gen, user, moved>>
    /\ \/ y.ref_cnt = b2b[m].ref_cnt /\ (Same \/ Drops)
       \/ ~processing_media[m] /\ y.ref_cnt = b2b[m].ref_cnt + 1 /\ Adds(m)

\* Such a step keeps all that does not depend on the threads.
LEMMA TouchKeeps ==
    ASSUME IInv, NEW m \in Media, NEW y, Touches(m, y)
    PROVE  /\ Call(m) /\ b2b' \in [Media -> Objects]
           /\ Made' /\ Idle' /\ Moving'
           /\ \A k \in Media : Counted(b2b[k], processing_media[k])'
<1> USE ClientAssumption
<1>0. Types /\ Made /\ Idle /\ Moving BY DEF IInv
<1>m. m \in Addr OBVIOUS
<1>1. Call(m) BY DEF Touches, Call
<1>2. /\ processing_media' \in [Addr -> BOOLEAN]
      /\ \A x \in Addr \ {m} : processing_media'[x] = processing_media[x]
  BY <1>1, <1>m, CallType, Zenon
<1>3. b2b' \in [Media -> Objects] BY <1>0 DEF Types, Touches
<1>4. b2b'[m] = y /\ \A k \in Media \ {m} : b2b'[k] = b2b[k] BY <1>0 DEF Types, Touches
<1>5. Made' BY <1>0, <1>4 DEF Made, Touches
<1>6. Idle' /\ Moving' BY <1>0, <1>2 DEF Idle, Moving, Touches
<1>7. ASSUME NEW k \in Media PROVE Counted(b2b'[k], processing_media'[k])
  <2>0. Counted(b2b[k], processing_media[k]) BY DEF IInv
  <2>1. CASE k # m BY <2>0, <2>1, <1>2, <1>4
  <2>2. CASE k = m
    <3>0. References(y) \in Int BY DEF References
    <3>1. CASE y.ref_cnt = b2b[m].ref_cnt /\ (Same \/ Drops)
      <4>1. processing_media'[m] = processing_media[m] BY <3>1 DEF Same, Drops
      <4> QED BY <2>0, <2>2, <3>1, <4>1, <1>4 DEF Touches, Counted
    <3>2. CASE ~processing_media[m] /\ y.ref_cnt = b2b[m].ref_cnt + 1 /\ Adds(m)
      <4>1. processing_media'[m] BY <3>2, <1>0, <1>m DEF Adds, Types
      <4> QED BY <2>0, <2>2, <3>0, <3>2, <4>1, <1>4 DEF Touches, Counted
    <3> QED BY <3>1, <3>2 DEF Touches
  <2> QED BY <2>1, <2>2
<1>8. \A k \in Media : Counted(b2b[k], processing_media[k])'
  BY <1>7 DEF Counted, References
<1> QED BY <1>1, <1>3, <1>5, <1>6, <1>8

\* A leg that is not off, and the processor, have a living object.
LEMMA LiveLeg ==
    ASSUME IInv, NEW m \in Media, NEW l \in Legs, b2b[m].leg[l] # "off"
    PROVE  b2b[m].alive /\ gen[m] >= 1
<1>1. Counted(b2b[m], processing_media[m]) /\ Made BY DEF IInv
<1>2. NoMedia.leg[l] = "off" BY DEF NoMedia
<1> QED BY <1>1, <1>2 DEF Counted, Made

LEMMA LiveFlag ==
    ASSUME IInv, NEW m \in Media, processing_media[m]
    PROVE  b2b[m].alive /\ gen[m] >= 1
BY DEF IInv, Counted, Made

\* A leg that goes on with its release has its reference until the last step.
LEMMA LegSame ==
    ASSUME NEW x \in Objects, NEW l \in Legs, x.leg[l] # "off",
           NEW v \in {"cleared", "checked"}
    PROVE  LET y == [x EXCEPT !.leg[l] = v]
           IN  /\ y \in Objects /\ y.alive = x.alive /\ y.ref_cnt = x.ref_cnt
               /\ References(y) = References(x)
<1> DEFINE y == [x EXCEPT !.leg[l] = v]
<1>1. y \in Objects /\ y.alive = x.alive /\ y.ref_cnt = x.ref_cnt /\ y.leg = [x.leg EXCEPT ![l] = v]
  BY DEF Objects
<1>2. x.leg \in [Legs -> {"on", "cleared", "checked", "off"}] BY DEF Objects
<1> HIDE DEF y
<1>3. References(y) = References(x) BY <1>1, <1>2 DEF References, Legs
<1> QED BY <1>1, <1>3 DEF y

LEMMA LegOff ==
    ASSUME NEW x \in Objects, NEW l \in Legs, x.leg[l] # "off"
    PROVE  LET y == [x EXCEPT !.leg[l] = "off"]
           IN  /\ y \in Objects /\ y.alive = x.alive /\ y.ref_cnt = x.ref_cnt
               /\ References(y) = References(x) - 1
<1> DEFINE y == [x EXCEPT !.leg[l] = "off"]
<1>1. y \in Objects /\ y.alive = x.alive /\ y.ref_cnt = x.ref_cnt /\ y.leg = [x.leg EXCEPT ![l] = "off"]
  BY DEF Objects
<1>2. x.leg \in [Legs -> {"on", "cleared", "checked", "off"}] BY DEF Objects
<1> HIDE DEF y
<1>3. References(y) = References(x) - 1 BY <1>1, <1>2 DEF References, Legs
<1> QED BY <1>1, <1>3 DEF y

\* One reference less: exact again if the count was one too high.
LEMMA ReleasedCounted ==
    ASSUME NEW x \in Objects, x.alive, NEW f \in BOOLEAN,
           x.ref_cnt = References(x) + (IF f THEN 1 ELSE 0) + 1
    PROVE  Released(x) \in Objects /\ Counted(Released(x), f) /\ (Released(x).alive => x.alive)
<1>0. References(x) \in Nat BY DEF References
<1>1. CASE x.ref_cnt = 1
  <2>1. Released(x) = NoMedia BY <1>1 DEF Released
  <2>2. NoMedia \in Objects /\ ~NoMedia.alive BY DEF NoMedia, Objects
  <2>3. ~f BY <1>0, <1>1
  <2> QED BY <2>1, <2>2, <2>3 DEF Counted
<1>2. CASE x.ref_cnt # 1
  <2> DEFINE y == [x EXCEPT !.ref_cnt = @ - 1]
  <2>1. Released(x) = y BY <1>2 DEF Released
  <2>2. Like(x, y, -1) BY ONLY x \in Objects DEF Like, Objects
  <2> HIDE DEF y
  <2>3. References(y) = References(x) BY <2>2 DEF References, Like
  <2> QED BY <1>0, <2>1, <2>2, <2>3 DEF Counted, Like
<1> QED BY <1>1, <1>2

\* A step of a leg.
LEMMA LegSteps ==
    ASSUME IInv, NEW m \in Media, NEW l \in Legs, Leg(m, l) PROVE IInv'
<1> USE ClientAssumption, MediaAssumption
<1>0. Types /\ Alone /\ Made /\ Idle /\ Moving BY DEF IInv
<1>m. m \in Addr /\ b2b[m] \in Objects BY <1>0 DEF Types
<1>1. ASSUME NEW y, Touches(m, y), UNCHANGED <<sessions, busy>> PROVE IInv'
  <2>1. /\ Call(m) /\ b2b' \in [Media -> Objects] /\ Made' /\ Idle' /\ Moving'
        /\ \A k \in Media : Counted(b2b[k], processing_media[k])'
    BY <1>1, TouchKeeps, Zenon
  <2>2. UNCHANGED <<user, gen, moved>> BY <1>1, Zenon DEF Touches
  <2>3. Alone' /\ \A x \in Addr \ moved' : Held(x)' BY <1>1, <2>1, <2>2, <1>m, CallHeld, Zenon
  <2>4. Types' BY <1>0, <1>1, <2>1, <2>2, <1>m, CallType DEF Types
  <2> QED BY <2>1, <2>3, <2>4 DEF IInv
<1>2. ASSUME NEW x, NEW y, NEW P, b2b[m].alive, gen[m] >= 1, Like(b2b[m], x, 0), Result(x, y, m, P),
             Becomes(P), b2b' = [b2b EXCEPT ![m] = y], UNCHANGED <<gen, user, moved>>
      PROVE  Touches(m, y)
  <2>1. Result(b2b[m], y, m, P) BY <1>2, <1>m, ResultFrom, Zenon
  <2>2. \/ Like(b2b[m], y, 0) /\ (Same \/ Drops)
        \/ ~processing_media[m] /\ Like(b2b[m], y, 1) /\ Adds(m)
    BY <1>0, <1>2, <2>1, ResultCall
  <2>3. b2b[m].ref_cnt \in Int BY <1>m, Zenon DEF Objects
  <2>4. y \in Objects /\ y.alive /\ References(y) = References(b2b[m])
    BY <1>2, <2>2, Zenon DEF Like, References
  <2>5. \/ y.ref_cnt = b2b[m].ref_cnt /\ (Same \/ Drops)
        \/ ~processing_media[m] /\ y.ref_cnt = b2b[m].ref_cnt + 1 /\ Adds(m)
    BY <2>2, <2>3 DEF Like
  <2> QED BY <1>2, <2>4, <2>5 DEF Touches
<1>3. CASE updateStreams(m, l)
  <2> DEFINE x == [b2b[m] EXCEPT !.streams = TRUE]
             r == Adjusted(x, m, State)
  <2>1. /\ b2b' = [b2b EXCEPT ![m] = r.x] /\ Becomes(r.P) /\ b2b[m].leg[l] # "off"
        /\ UNCHANGED <<gen, sessions, user, moved, busy>>
    BY <1>3 DEF updateStreams
  <2>2. Like(b2b[m], x, 0) BY <1>m, FieldsLike, Zenon
  <2>3. x \in Objects BY <2>2 DEF Like
  <2>4. b2b[m].alive /\ gen[m] >= 1 BY <2>1, LiveLeg
  <2> HIDE DEF x
  <2>5. Result(x, r.x, m, r.P) BY <2>3, AdjustedResult
  <2> HIDE DEF r
  <2>6. Touches(m, r.x) BY <1>2, <2>1, <2>2, <2>4, <2>5, Zenon
  <2> QED BY <1>1, <2>1, <2>6
<1>4. ASSUME NEW in \in BOOLEAN, setFirstStreamInput(m, l, in) PROVE IInv'
  <2> DEFINE x == [b2b[m] EXCEPT !.input = in]
             r == Adjusted(x, m, State)
  <2>1. /\ b2b' = [b2b EXCEPT ![m] = r.x] /\ Becomes(r.P) /\ b2b[m].leg[l] # "off"
        /\ UNCHANGED <<gen, sessions, user, moved, busy>>
    BY <1>4 DEF setFirstStreamInput
  <2>2. Like(b2b[m], x, 0) BY <1>m, FieldsLike, Zenon
  <2>3. x \in Objects BY <2>2 DEF Like
  <2>4. b2b[m].alive /\ gen[m] >= 1 BY <2>1, LiveLeg
  <2> HIDE DEF x
  <2>5. Result(x, r.x, m, r.P) BY <2>3, AdjustedResult
  <2> HIDE DEF r
  <2>6. Touches(m, r.x) BY <1>2, <2>1, <2>2, <2>4, <2>5, Zenon
  <2> QED BY <1>1, <2>1, <2>6
<1>5. CASE stop(m, l)
  <2> DEFINE r == clearAudio(m, l)
             y == [r.x EXCEPT !.leg[l] = "cleared"]
  <2>1. /\ b2b' = [b2b EXCEPT ![m] = y] /\ Becomes(r.P) /\ b2b[m].leg[l] # "off"
        /\ UNCHANGED <<gen, sessions, user, moved, busy>>
    BY <1>5 DEF stop
  <2>2. Result(b2b[m], r.x, m, r.P) BY <1>m, ClearAudioResult
  <2>3. b2b[m].alive /\ gen[m] >= 1 BY <2>1, LiveLeg
  <2> HIDE DEF r
  <2>4. \/ Like(b2b[m], r.x, 0) /\ (Same \/ Drops)
        \/ ~processing_media[m] /\ Like(b2b[m], r.x, 1) /\ Adds(m)
    BY <1>0, <2>1, <2>2, <2>3, ResultCall
  <2> DEFINE x == r.x
  <2>5. /\ x \in Objects /\ x.leg = b2b[m].leg /\ x.alive
        /\ x.leg[l] # "off"
    BY <2>1, <2>3, <2>4, Zenon DEF Like
  <2>6. /\ y \in Objects /\ y.alive = x.alive /\ y.ref_cnt = x.ref_cnt
        /\ References(y) = References(x)
    <3> HIDE DEF x
    <3>1. y = [x EXCEPT !.leg[l] = "cleared"] BY DEF x
    <3> HIDE DEF y
    <3> QED BY ONLY <3>1, <2>5, l \in Legs, LegSame, Zenon
  <2> HIDE DEF y
  <2>7. References(r.x) = References(b2b[m]) BY <2>5, Zenon DEF References
  <2>8. b2b[m].ref_cnt \in Int BY <1>m DEF Objects
  <2>9. \/ y.ref_cnt = b2b[m].ref_cnt /\ (Same \/ Drops)
        \/ ~processing_media[m] /\ y.ref_cnt = b2b[m].ref_cnt + 1 /\ Adds(m)
    BY <2>4, <2>6, <2>8 DEF Like
  <2>10. Touches(m, y) BY <2>1, <2>3, <2>5, <2>6, <2>7, <2>9, Zenon DEF Touches
  <2> QED BY <1>1, <2>1, <2>10, Zenon
<1>6. CASE stop_both(m, l)
  <2> DEFINE y == [b2b[m] EXCEPT !.leg[l] = "checked"]
  <2>1. /\ b2b' = [b2b EXCEPT ![m] = y] /\ b2b[m].leg[l] # "off"
        /\ UNCHANGED <<gen, sessions, user, moved, busy>>
    BY <1>6, Zenon DEF stop_both
  <2>2. Same \/ Drops
    <3>1. CASE processing_media[m] /\ \A k \in Legs : ~b2b[m].ptr[k]
      BY <3>1, <1>6, <1>0, <1>m, Dropping, Zenon DEF stop_both
    <3>2. CASE ~(processing_media[m] /\ \A k \in Legs : ~b2b[m].ptr[k])
      BY <3>2, <1>6 DEF stop_both, Becomes, State, Same
    <3> QED BY <3>1, <3>2
  <2>3. b2b[m].alive BY <2>1, LiveLeg
  <2>4. /\ y \in Objects /\ y.alive = b2b[m].alive /\ y.ref_cnt = b2b[m].ref_cnt
        /\ References(y) = References(b2b[m])
    BY <2>1, <1>m, LegSame, Zenon
  <2> HIDE DEF y
  <2>5. Touches(m, y) BY <2>1, <2>2, <2>3, <2>4, Zenon DEF Touches
  <2> QED BY <1>1, <2>1, <2>5, Zenon
<1>7. CASE release(m, l)
  <2> DEFINE y == [b2b[m] EXCEPT !.leg[l] = "off"]
             f == processing_media[m]
  <2>1. /\ b2b' = [b2b EXCEPT ![m] = Released(y)] /\ b2b[m].leg[l] # "off"
        /\ UNCHANGED <<procVars, user, moved, busy>>
    BY <1>7 DEF release
  <2>2. b2b[m].alive BY <2>1, LiveLeg
  <2>3. /\ y \in Objects /\ y.alive = b2b[m].alive /\ y.ref_cnt = b2b[m].ref_cnt
        /\ References(y) = References(b2b[m]) - 1
    BY <2>1, <1>m, LegOff
  <2> HIDE DEF y
  <2>4. References(b2b[m]) \in Int BY DEF References
  <2>5. y.ref_cnt = References(y) + (IF f THEN 1 ELSE 0) + 1
    BY <2>2, <2>3, <2>4 DEF IInv, Counted
  <2>f. f \in BOOLEAN BY <1>0, <1>m DEF Types
  <2> HIDE DEF f
  <2>6. Released(y) \in Objects /\ Counted(Released(y), f)
    BY <2>2, <2>3, <2>5, <2>f, ReleasedCounted, Zenon
  <2>7. Same /\ UNCHANGED <<gen, sessions>> BY <2>1 DEF Same, procVars
  <2>8. Call(m) BY <2>7 DEF Call
  <2>9. Alone' /\ \A x \in Addr \ moved' : Held(x)' BY <2>1, <2>7, <2>8, <1>m, CallHeld
  <2>10. Types' BY <1>0, <2>1, <2>6, <2>7, <2>8, <1>m, CallType, Zenon DEF Types
  <2>11. Made' BY <1>0, <2>1, <2>2, <2>7, Zenon DEF Made, Types
  <2>12. Idle' /\ Moving' BY <1>0, <2>1, <2>7, Zenon DEF Idle, Moving, Same
  <2>13. ASSUME NEW k \in Media PROVE Counted(b2b'[k], processing_media'[k])
    <3>1. Counted(b2b[k], processing_media[k]) BY DEF IInv
    <3> QED BY <3>1, <2>1, <2>6, <2>7, <1>0, Zenon DEF Types, Same, f
  <2>14. \A k \in Media : Counted(b2b[k], processing_media[k])'
    BY <2>13 DEF Counted, References
  <2> QED BY <2>9, <2>10, <2>11, <2>12, <2>14 DEF IInv
<1> QED BY <1>3, <1>4, <1>5, <1>6, <1>7 DEF Leg

\* initializeRTPRelay.
LEMMA NewMedia ==
    ASSUME IInv, NEW m \in Media, NEW transcoding \in BOOLEAN, initializeRTPRelay(m, transcoding)
    PROVE  IInv'
<1> USE ClientAssumption, MediaAssumption
<1>0. Types /\ Alone /\ Made /\ Idle /\ Moving BY DEF IInv
<1>m. m \in Addr /\ m \notin Sessions OBVIOUS
<1> DEFINE y == [NoMedia EXCEPT !.alive = TRUE, !.transcoding = transcoding,
                                !.ptr = [l \in Legs |-> TRUE],
                                !.leg = [l \in Legs |-> "on"], !.ref_cnt = 2]
<1>1. /\ ~b2b[m].alive /\ b2b' = [b2b EXCEPT ![m] = y]
      /\ gen[m] < MaxObj /\ gen' = [gen EXCEPT ![m] = @ + 1]
      /\ UNCHANGED <<processing_media, groups, queue, sessions, user, moved, busy>>
  BY DEF initializeRTPRelay, Allocated
<1>2. y \in Objects /\ y.alive /\ y.leg = [l \in Legs |-> "on"] /\ y.ref_cnt = 2
  <2> DEFINE on == [l \in Legs |-> "on"]
             ptr == [l \in Legs |-> TRUE]
             y1 == [NoMedia EXCEPT !.alive = TRUE]
             y2 == [y1 EXCEPT !.transcoding = transcoding]
             y3 == [y2 EXCEPT !.ptr = ptr]
             y4 == [y3 EXCEPT !.leg = on]
  <2>0. NoMedia \in Objects BY DEF NoMedia, Objects
  <2>1. y = [y4 EXCEPT !.ref_cnt = 2] OBVIOUS
  <2> HIDE DEF y
  <2>a. ptr \in [Legs -> BOOLEAN] /\ on \in [Legs -> {"on", "cleared", "checked", "off"}] OBVIOUS
  <2> HIDE DEF on, ptr
  <2>2. y1 \in Objects /\ y1.alive BY <2>0, Zenon DEF Objects
  <2> HIDE DEF y1
  <2>3. y2 \in Objects /\ y2.alive BY <2>2 DEF Objects
  <2> HIDE DEF y2
  <2>4. y3 \in Objects /\ y3.alive BY <2>3, <2>a DEF Objects
  <2> HIDE DEF y3
  <2>5. y4 \in Objects /\ y4.alive /\ y4.leg = on BY <2>4, <2>a DEF Objects
  <2> HIDE DEF y4
  <2>6. y \in Objects /\ y.alive /\ y.leg = on /\ y.ref_cnt = 2 BY <2>1, <2>5 DEF Objects
  <2> QED BY <2>6 DEF on
<1> HIDE DEF y
<1>3. References(y) = 2 BY <1>2 DEF References, Legs
<1>4. ~processing_media[m] BY <1>1 DEF IInv, Counted
<1>5. Same BY <1>1 DEF Same
<1>6. Call(m) BY <1>5 DEF Call
<1>7. Alone' /\ \A x \in Addr \ moved' : Held(x)' BY <1>1, <1>6, <1>m, CallHeld, Zenon
<1>8. Types'
  <2>1. b2b' \in [Media -> Objects] /\ gen' \in [Addr -> 0 .. MaxObj] BY <1>0, <1>1, <1>2, <1>m DEF Types
  <2> QED BY <1>0, <1>1, <2>1, Zenon DEF Types
<1>9. Made' BY <1>0, <1>1, <1>m DEF Made, Types
<1>10. Idle' /\ Moving' BY <1>0, <1>1, Zenon DEF Idle, Moving
<1>11. ASSUME NEW k \in Media PROVE Counted(b2b'[k], processing_media'[k])
  <2>1. Counted(b2b[k], processing_media[k]) BY DEF IInv
  <2>2. Counted(y, processing_media[m]) BY <1>2, <1>3, <1>4 DEF Counted
  <2> QED BY <2>1, <2>2, <1>1, <1>0 DEF Types
<1>12. \A k \in Media : Counted(b2b[k], processing_media[k])'
  BY <1>11 DEF Counted, References
<1> QED BY <1>7, <1>8, <1>9, <1>10, <1>12 DEF IInv

=============================================================================
