-------------------------- MODULE WheelTimerProofs --------------------------
(***************************************************************************)
(* Proofs about WheelTimer for any number and size of wheels, any timers   *)
(* and any owners: every index lies inside the wheels (TypeOK), and the    *)
(* deferred insert/remove protocol is memory safe (MemorySafe).            *)
(***************************************************************************)
EXTENDS WheelTimer, SequenceTheorems, WellFoundedInduction, TLAPS

\* Every non-empty set of naturals has a least element.
LEMMA LeastElement ==
    ASSUME NEW T \in SUBSET Nat, T # {}
    PROVE  \E x \in T : \A y \in T : x <= y
<1> DEFINE R == OpToRel(<, Nat)
<1>1. PICK x \in T : \A y \in T : ~ (<<y, x>> \in R)
  BY NatLessThanWellFounded, WFMin
<1>2. \A y \in T : y < x => <<y, x>> \in R
  BY DEF OpToRel
<1>3. \A y \in T : x <= y
  <2> TAKE y \in T
  <2>1. ~ (y < x)
    BY <1>1, <1>2, Zenon
  <2>2. x \in Nat /\ y \in Nat
    OBVIOUS
  <2> QED
    BY <2>1, <2>2
<1> QED
  BY <1>3

\* Every non-empty set of naturals up to n has a greatest element.
LEMMA GreatestElement ==
    ASSUME NEW n \in Nat, NEW T \in SUBSET (0 .. n), T # {}
    PROVE  \E x \in T : \A y \in T : y <= x
<1> DEFINE U == {n - x : x \in T}
<1>0. \A x \in T : n - x \in Nat /\ n - x \in U
  OBVIOUS
<1>1. U \in SUBSET Nat /\ U # {}
  BY <1>0
<1>2. PICK u \in U : \A y \in U : u <= y
  BY <1>1, LeastElement
<1>3. PICK x \in T : u = n - x
  BY <1>2
<1>4. \A y \in T : y <= x
  BY <1>0, <1>2, <1>3, SMTT(30)
<1> QED
  BY <1>4

-----------------------------------------------------------------------------
LEMMA Powers ==
    /\ ELMTS_PER_WHEEL \in Nat \ {0}
    /\ Modulus \in Nat \ {0}
    /\ \A w \in 0 .. WHEELS - 1 : 2 ^ (w * BITS_PER_WHEEL) \in Nat \ {0}
<1>0. \A x, y, z \in Nat : x <= y => x * z <= y * z /\ x * z \in Nat
  OBVIOUS
<1>1. \A w \in 0 .. WHEELS : w * BITS_PER_WHEEL \in 0 .. BITS_PER_WHEEL * WHEELS
  BY <1>0, WheelAssumption
<1>2. BITS_PER_WHEEL \in 0 .. BITS_PER_WHEEL * WHEELS
  BY <1>1, WheelAssumption
<1> QED
  BY <1>1, <1>2, WheelAssumption DEF ELMTS_PER_WHEEL, Modulus

\* A digit is a position of a wheel.
LEMMA DigitType ==
    ASSUME NEW x \in Clock, NEW w \in 0 .. WHEELS - 1
    PROVE  Digit(x, w) \in 0 .. ELMTS_PER_WHEEL - 1
<1> DEFINE p == 2 ^ (w * BITS_PER_WHEEL)
<1>1. x \in Nat /\ p \in Nat \ {0} /\ ELMTS_PER_WHEEL \in Nat \ {0}
  BY Powers DEF Clock
<1>2. x \div p \in Nat
  BY <1>1
<1>3. \A a \in Nat, b \in Nat \ {0} : a % b \in 0 .. b - 1
  OBVIOUS
<1> QED
  BY <1>1, <1>2, <1>3 DEF Digit

\* The search of place_timer(t, wheel) always ends at an existing wheel.
LEMMA WheelForType ==
    ASSUME NEW x \in Clock, NEW clk \in Clock, NEW top \in 0 .. WHEELS - 1
    PROVE  WheelFor(x, clk, top) \in 0 .. top
<1> DEFINE T == {w \in 0 .. top : w = 0 \/ Digit(x, w) # Digit(clk, w)}
<1>1. top \in Nat /\ 0 \in T
  BY WheelAssumption
<1>2. PICK w \in T : \A v \in T : v <= w
  BY <1>1, GreatestElement
<1>3. \A v \in (w + 1) .. top : Digit(x, v) = Digit(clk, v)
  <2> TAKE v \in (w + 1) .. top
  <2>1. v \in 0 .. top /\ ~ (v <= w) /\ v # 0
    BY <1>1, <1>2
  <2> QED
    BY <1>2, <2>1
<1> QED
  BY <1>2, <1>3 DEF WheelFor

LEMMA PlaceBelowType ==
    ASSUME NEW x \in Clock, NEW clk \in Clock, NEW top \in 0 .. WHEELS - 1
    PROVE  place_timer_below(x, clk, top) \in Place
<1>1. WheelFor(x, clk, top) \in 0 .. WHEELS - 1
  BY WheelForType, WheelAssumption
<1> QED
  BY <1>1, DigitType DEF place_timer_below, Place

LEMMA PlaceType ==
    ASSUME NEW x \in Clock, NEW clk \in Clock
    PROVE  place_timer(x, clk) \in Place
<1>1. 0 \in 0 .. WHEELS - 1 /\ WHEELS - 1 \in 0 .. WHEELS - 1
  BY WheelAssumption
<1> QED
  BY <1>1, DigitType, PlaceBelowType DEF place_timer, Place

\* The search of turn_wheel ends at some wheel or runs off the last one.
LEMMA WheelToUpdateType ==
    ASSUME NEW clk \in Clock
    PROVE  WheelToUpdate(clk) \in 0 .. WHEELS
<1> DEFINE T == {i \in 0 .. WHEELS :
                    i = WHEELS \/ Digit(clk, i) # ELMTS_PER_WHEEL - 1}
<1>1. T \in SUBSET Nat /\ WHEELS \in T
  BY WheelAssumption
<1>2. PICK i \in T : \A j \in T : i <= j
  BY <1>1, LeastElement
<1>3. \A j \in 0 .. (i - 1) : Digit(clk, j) = ELMTS_PER_WHEEL - 1
  <2> TAKE j \in 0 .. (i - 1)
  <2>1. j \in 0 .. WHEELS /\ j # WHEELS /\ ~ (i <= j)
    BY <1>1, <1>2, WheelAssumption
  <2> QED
    BY <1>2, <2>1
<1> QED
  BY <1>2, <1>3 DEF WheelToUpdate

LEMMA ModType ==
    ASSUME NEW x \in Int
    PROVE  x % Modulus \in Clock
<1>1. \A a \in Int, b \in Nat \ {0} : a % b \in 0 .. b - 1
  OBVIOUS
<1> QED
  BY <1>1, Powers DEF Clock

LEMMA RequestType ==
    ASSUME NEW t \in Timers
    PROVE  insert_req(t) \in Request /\ remove_req(t) \in Request
BY DEF insert_req, remove_req, Request

LEMMA DroppedType ==
    ASSUME TypeOK, NEW o \in Owners
    PROVE  Dropped(o) \in Seq(Request)
<1>1. CASE slot[o] = NoTimer
  BY <1>1 DEF Dropped
<1>2. CASE slot[o] # NoTimer
  <2>1. remove_req(slot[o]) \in Request
    BY <1>2, RequestType DEF TypeOK
  <2> QED
    BY <1>2, <2>1 DEF Dropped
<1> QED
  BY <1>1, <1>2

\* The cascade leaves every timer linked inside the wheels.
LEMMA UpdateWheelType ==
    ASSUME TypeOK, NEW clk \in Clock, NEW w \in 0 .. WHEELS - 1
    PROVE  update_wheel(at, clk, w) \in [Timers -> Place \cup {Unlinked}]
<1> SUFFICES ASSUME NEW t \in Timers,
                    at[t] \in {<<k, Digit(clk, k)>> : k \in 1 .. w}
             PROVE  place_timer_below(expires[t], clk, at[t][1] - 1) \in Place
  BY DEF update_wheel, TypeOK
<1>1. PICK k \in 1 .. w : at[t] = <<k, Digit(clk, k)>>
  OBVIOUS
<1>2. at[t][1] - 1 \in 0 .. WHEELS - 1
  BY <1>1, WheelAssumption
<1>3. expires[t] \in Clock
  BY DEF TypeOK
<1> QED
  BY <1>2, <1>3, PlaceBelowType

-----------------------------------------------------------------------------
\* In every reachable state of the timer wheel its variables have their
\* types; above all, whatever add_timer_to_wheel is called with lies inside
\* the array wheels[WHEELS][ELMTS_PER_WHEEL].
THEOREM TypeCorrect == Spec => []TypeOK
<1>1. Init => TypeOK
  <2>1. 0 \in Clock /\ 0 \in 0 .. WHEELS
    BY Powers, WheelAssumption DEF Clock
  <2>2. (CHOOSE o \in Owners : TRUE) \in Owners
    BY WheelAssumption
  <2> QED
    BY <2>1, <2>2 DEF Init, TypeOK
<1>2. TypeOK /\ [Next]_vars => TypeOK'
  <2> SUFFICES ASSUME TypeOK, [Next]_vars PROVE TypeOK'
    OBVIOUS
  <2>1. CASE tick
    <3> DEFINE clk == (wall_clock + 1) % Modulus
               i == WheelToUpdate(wall_clock)
               w == IF i = WHEELS THEN WHEELS - 1 ELSE i
    <3>0. wall_clock + 1 \in Int
      BY DEF TypeOK, Clock
    <3>1. clk \in Clock
      BY <3>0, ModType
    <3>2. i \in 0 .. WHEELS /\ w \in 0 .. WHEELS - 1
      BY WheelToUpdateType, WheelAssumption DEF TypeOK
    <3>3. update_wheel(at, clk, w) \in [Timers -> Place \cup {Unlinked}]
      BY <3>1, <3>2, UpdateWheelType
    <3>4. wall_clock' = clk /\ updated' = i /\ at' = update_wheel(at, clk, w)
      BY <2>1 DEF tick
    <3>5. pc' \in {"swap", "crashed"}
      BY <2>1 DEF tick
    <3> HIDE DEF clk, i, w
    <3> QED
      BY <2>1, <3>1, <3>2, <3>3, <3>4, <3>5 DEF tick, TypeOK
  <2>2. CASE swap_requests
    BY <2>2 DEF swap_requests, TypeOK
  <2>3. CASE process_request
    <3> DEFINE rq == Head(reqs_process)
    <3>1. rq \in Request /\ Tail(reqs_process) \in Seq(Request)
      BY <2>3, HeadTailProperties DEF process_request, TypeOK
    <3>2. place_timer(expires[rq.t], wall_clock) \in Place
      BY <3>1, PlaceType DEF TypeOK, Request
    <3>3. at' \in [Timers -> Place \cup {Unlinked}]
      BY <2>3, <3>1, <3>2, Zenon DEF process_request, TypeOK, Request
    <3>4. allocated' \subseteq Timers
      BY <2>3 DEF process_request, TypeOK
    <3> QED
      BY <2>3, <3>1, <3>3, <3>4 DEF process_request, TypeOK
  <2>4. CASE requests_done
    BY <2>4 DEF requests_done, TypeOK
  <2>5. ASSUME NEW t \in Timers, take_timer(t) PROVE TypeOK'
    BY <2>5 DEF take_timer, TypeOK
  <2>6. CASE fire
    <3>1. owner[firing] \in Owners
      BY <2>6 DEF fire, TypeOK
    <3>2. reqs_backlog \o Dropped(owner[firing]) \in Seq(Request)
      BY <3>1, DroppedType, ConcatProperties DEF TypeOK
    <3> QED
      BY <2>6, <3>1, <3>2 DEF fire, TypeOK
  <2>7. CASE turn_done
    BY <2>7 DEF turn_done, TypeOK
  <2>8. CASE stop
    BY <2>8 DEF stop, TypeOK
  <2>9. ASSUME NEW o \in Owners, reset_timer(o) PROVE TypeOK'
    <3>1. PICK t \in Timers \ allocated, d \in 0 .. MaxDelay, lag \in 0 .. MaxLag :
              /\ expires' = [expires EXCEPT ![t] = (wall_clock + d - lag) % Modulus]
              /\ reqs_backlog' = reqs_backlog \o Dropped(o) \o <<insert_req(t)>>
              /\ owner' = [owner EXCEPT ![t] = o]
              /\ slot' = [slot EXCEPT ![o] = t]
              /\ allocated' = allocated \cup {t}
              /\ UNCHANGED <<wall_clock, at, reqs_process, pc, firing, updated>>
      BY <2>9 DEF reset_timer
    <3>2. (wall_clock + d - lag) % Modulus \in Clock
      <4>1. wall_clock + d - lag \in Int
        BY WheelAssumption DEF TypeOK, Clock
      <4> QED
        BY <4>1, ModType
    <3>3. insert_req(t) \in Request
      BY RequestType
    <3>4. reqs_backlog' \in Seq(Request)
      BY <3>1, <3>3, DroppedType, ConcatProperties DEF TypeOK
    <3> QED
      BY <2>9, <3>1, <3>2, <3>4 DEF TypeOK
  <2>10. ASSUME NEW o \in Owners, clear_timer(o) PROVE TypeOK'
    <3>1. reqs_backlog \o Dropped(o) \in Seq(Request)
      BY DroppedType, ConcatProperties DEF TypeOK
    <3> QED
      BY <2>10, <3>1 DEF clear_timer, TypeOK
  <2>11. CASE UNCHANGED vars
    BY <2>11 DEF vars, TypeOK
  <2> QED
    BY <2>1, <2>2, <2>3, <2>4, <2>5, <2>6, <2>7, <2>8, <2>9, <2>10, <2>11
       DEF Next, WheelThread
<1> QED
  BY <1>1, <1>2, PTL DEF Spec

-----------------------------------------------------------------------------
(* Requests as a list: what an appended and a removed request change.      *)

Has(R, rq) == \E i \in 1 .. Len(R) : R[i] = rq
AllLive(R, A) == \A i \in 1 .. Len(R) : R[i].t \in A
Ordered(R) == \A i, j \in 1 .. Len(R) :
                  i < j /\ R[i].t = R[j].t => R[i].insert /\ ~R[j].insert

\* push_back on the request list.
LEMMA Pushed ==
    ASSUME NEW R \in Seq(Request), NEW e \in Request
    PROVE  /\ R \o <<e>> \in Seq(Request)
           /\ \A rq : Has(R \o <<e>>, rq) <=> Has(R, rq) \/ rq = e
           /\ \A A : AllLive(R \o <<e>>, A) <=> AllLive(R, A) /\ e.t \in A
           /\ Ordered(R) /\ (\A rq : Has(R, rq) /\ rq.t = e.t
                                        => rq.insert /\ ~e.insert)
                => Ordered(R \o <<e>>)
<1> DEFINE Q == R \o <<e>>
<1>1. /\ Q \in Seq(Request)
      /\ Len(Q) = Len(R) + 1 /\ Len(R) \in Nat
      /\ \A i \in 1 .. Len(R) : Q[i] = R[i]
      /\ Q[Len(R) + 1] = e
  BY ConcatProperties, LenProperties
<1> HIDE DEF Q
<1>2. 1 .. Len(Q) = (1 .. Len(R)) \cup {Len(R) + 1}
  BY <1>1
<1>3. \A rq : Has(Q, rq) <=> Has(R, rq) \/ rq = e
  BY <1>1, <1>2 DEF Has
<1>4. \A A : AllLive(Q, A) <=> AllLive(R, A) /\ e.t \in A
  BY <1>1, <1>2 DEF AllLive
<1>5. ASSUME Ordered(R),
             \A rq : Has(R, rq) /\ rq.t = e.t => rq.insert /\ ~e.insert
      PROVE  Ordered(Q)
  <2> SUFFICES ASSUME NEW i \in 1 .. Len(Q), NEW j \in 1 .. Len(Q),
                      i < j, Q[i].t = Q[j].t
               PROVE  Q[i].insert /\ ~Q[j].insert
    BY DEF Ordered
  <2>1. i \in 1 .. Len(R) /\ Q[i] = R[i] /\ Has(R, R[i])
    BY <1>1 DEF Has
  <2>2. CASE j \in 1 .. Len(R)
    BY <1>1, <1>5, <2>1, <2>2 DEF Ordered
  <2>3. CASE j = Len(R) + 1
    BY <1>1, <1>5, <2>1, <2>3
  <2> QED
    BY <1>2, <2>2, <2>3
<1> QED
  BY <1>1, <1>3, <1>4, <1>5 DEF Q

\* pop_front on the request list.
LEMMA Popped ==
    ASSUME NEW R \in Seq(Request), R # <<>>
    PROVE  /\ Head(R) \in Request /\ Tail(R) \in Seq(Request)
           /\ \A rq : Has(R, rq) <=> rq = Head(R) \/ Has(Tail(R), rq)
           /\ \A A : AllLive(R, A) <=> Head(R).t \in A /\ AllLive(Tail(R), A)
           /\ Ordered(R) => /\ Ordered(Tail(R))
                            /\ \A rq : Has(Tail(R), rq) /\ rq.t = Head(R).t
                                          => Head(R).insert /\ ~rq.insert
<1> DEFINE Q == Tail(R)  h == Head(R)
<1>1. /\ h \in Request /\ Q \in Seq(Request)
      /\ Len(Q) = Len(R) - 1 /\ Len(R) \in Nat \ {0}
      /\ \A i \in 1 .. Len(Q) : Q[i] = R[i + 1]
      /\ R[1] = h
  <2>1. /\ h \in Request /\ Q \in Seq(Request) /\ Len(Q) = Len(R) - 1
        /\ \A i \in 1 .. Len(Q) : Q[i] = R[i + 1]
    BY HeadTailProperties
  <2>2. Len(R) \in Nat \ {0}
    BY EmptySeq
  <2>3. R[1] = h
    OBVIOUS
  <2> QED
    BY <2>1, <2>2, <2>3
<1> HIDE DEF Q, h
<1>2. /\ 1 \in 1 .. Len(R) /\ \A i \in 1 .. Len(Q) : i + 1 \in 1 .. Len(R)
      /\ \A i \in 1 .. Len(R) : i # 1 => i - 1 \in 1 .. Len(Q) /\ R[i] = Q[i - 1]
  <2>1. ASSUME NEW i \in 1 .. Len(R), i # 1
        PROVE  i - 1 \in 1 .. Len(Q) /\ R[i] = Q[i - 1]
    <3>1. i - 1 \in 1 .. Len(Q) /\ (i - 1) + 1 = i
      BY <1>1, <2>1
    <3>2. Q[i - 1] = R[(i - 1) + 1]
      BY <1>1, <3>1
    <3> QED
      BY <3>1, <3>2
  <2>2. 1 \in 1 .. Len(R) /\ \A i \in 1 .. Len(Q) : i + 1 \in 1 .. Len(R)
    BY <1>1
  <2> QED
    BY <2>1, <2>2, Zenon
<1>3. \A rq : Has(R, rq) <=> rq = h \/ Has(Q, rq)
  BY <1>1, <1>2 DEF Has
<1>4. \A A : AllLive(R, A) <=> h.t \in A /\ AllLive(Q, A)
  BY <1>1, <1>2, SMTT(30) DEF AllLive
<1>5. ASSUME Ordered(R)
      PROVE  /\ Ordered(Q)
             /\ \A rq : Has(Q, rq) /\ rq.t = h.t => h.insert /\ ~rq.insert
  <2>1. Ordered(Q)
    <3> SUFFICES ASSUME NEW i \in 1 .. Len(Q), NEW j \in 1 .. Len(Q),
                        i < j, Q[i].t = Q[j].t
                 PROVE  Q[i].insert /\ ~Q[j].insert
      BY DEF Ordered
    <3>1. /\ i + 1 \in 1 .. Len(R) /\ j + 1 \in 1 .. Len(R) /\ i + 1 < j + 1
          /\ Q[i] = R[i + 1] /\ Q[j] = R[j + 1]
      BY <1>1, <1>2
    <3> QED
      BY <1>5, <3>1 DEF Ordered
  <2>2. ASSUME NEW rq, Has(Q, rq), rq.t = h.t
        PROVE  h.insert /\ ~rq.insert
    <3>1. PICK i \in 1 .. Len(Q) : Q[i] = rq
      BY <2>2 DEF Has
    <3>2. i + 1 \in 1 .. Len(R) /\ 1 < i + 1 /\ R[i + 1] = rq
      BY <1>1, <1>2, <3>1
    <3> QED
      BY <1>1, <1>2, <1>5, <2>2, <3>2 DEF Ordered
  <2> QED
    BY <2>1, <2>2
<1> QED
  BY <1>1, <1>3, <1>4, <1>5 DEF Q, h

LEMMA TailConcat ==
    ASSUME NEW p \in Seq(Request), NEW b \in Seq(Request), p # <<>>
    PROVE  /\ p \o b # <<>> /\ Head(p \o b) = Head(p)
           /\ Tail(p \o b) = Tail(p) \o b
<1> DEFINE R == p \o b
<1>1. /\ R \in Seq(Request) /\ Len(R) = Len(p) + Len(b)
      /\ Len(p) \in Nat \ {0} /\ Len(b) \in Nat
      /\ \A i \in 1 .. Len(R) : R[i] = IF i <= Len(p) THEN p[i] ELSE b[i - Len(p)]
  BY ConcatProperties, LenProperties, EmptySeq
<1>2. R # <<>>
  BY <1>1, EmptySeq
<1>3. Head(R) = Head(p)
  <2>1. Head(R) = R[1] /\ Head(p) = p[1]
    BY <1>1, <1>2
  <2> QED
    BY <1>1, <2>1
<1>4. Tail(R) = Tail(p) \o b
  <2> DEFINE T == Tail(p)
  <2>1. /\ T \in Seq(Request) /\ Len(T) = Len(p) - 1
        /\ \A i \in 1 .. Len(T) : T[i] = p[i + 1]
    BY HeadTailProperties
  <2>2. /\ Tail(R) \in Seq(Request) /\ Len(Tail(R)) = Len(R) - 1
        /\ \A i \in 1 .. Len(Tail(R)) : Tail(R)[i] = R[i + 1]
    BY <1>1, <1>2, HeadTailProperties
  <2> HIDE DEF T, R
  <2>3. /\ T \o b \in Seq(Request) /\ Len(T \o b) = Len(T) + Len(b)
        /\ \A i \in 1 .. Len(T) + Len(b) : (T \o b)[i] =
               IF i <= Len(T) THEN T[i] ELSE b[i - Len(T)]
    BY <2>1, ConcatProperties
  <2>4. \A i \in 1 .. Len(Tail(R)) : Tail(R)[i] = (T \o b)[i]
    BY <1>1, <2>1, <2>2, <2>3, SMTT(30)
  <2>5. Len(Tail(R)) = Len(T \o b)
    BY <1>1, <2>1, <2>2, <2>3
  <2> DEFINE U == Tail(R)
             V == T \o b
  <2>6. /\ U \in Seq(Request) /\ V \in Seq(Request) /\ Len(U) = Len(V)
        /\ \A i \in 1 .. Len(U) : U[i] = V[i]
    BY <2>2, <2>3, <2>4, <2>5
  <2> HIDE DEF U, V
  <2>7. U = V
    BY <2>6, SeqEqual
  <2> QED
    BY <2>7 DEF T, U, V
<1> QED
  BY <1>2, <1>3, <1>4

-----------------------------------------------------------------------------
(* The inductive invariant.                                                *)

\* The swapped-out list is empty outside the request loop, and a callback
\* runs only in process_current_timers: no timer is deleted while it fires.
ThreadStage ==
    /\ pc # "requests" => reqs_process = <<>>
    /\ firing # NoTimer => pc = "fire"

IInv == TypeOK /\ MemorySafe /\ ThreadStage

LEMMA RequestsDiffer ==
    ASSUME NEW t, NEW u
    PROVE  /\ insert_req(t).t = t /\ insert_req(t).insert = TRUE
           /\ remove_req(t).t = t /\ remove_req(t).insert = FALSE
           /\ insert_req(t) # remove_req(u)
           /\ (insert_req(t) = insert_req(u)) => t = u
           /\ (remove_req(t) = remove_req(u)) => t = u
BY DEF insert_req, remove_req

LEMMA RequestCases ==
    ASSUME NEW rq \in Request
    PROVE  rq = insert_req(rq.t) \/ rq = remove_req(rq.t)
BY DEF Request, insert_req, remove_req

LEMMA HasElement ==
    ASSUME NEW R \in Seq(Request), NEW rq, Has(R, rq)
    PROVE  rq \in Request
BY ElementOfSeq DEF Has

LEMMA RequestsType ==
    ASSUME TypeOK
    PROVE  Requests \in Seq(Request)
BY ConcatProperties DEF TypeOK, Requests

\* Appending the remove request for the timer of a slot.
LEMMA DropRequest ==
    ASSUME IInv, NEW o \in Owners, slot[o] # NoTimer,
           NEW R, R = Requests \o <<remove_req(slot[o])>>
    PROVE  /\ R \in Seq(Request)
           /\ \A rq : Has(R, rq) <=> Has(Requests, rq) \/ rq = remove_req(slot[o])
           /\ AllLive(R, allocated)
           /\ Ordered(R)
<1> DEFINE e == remove_req(slot[o])
<1>1. slot[o] \in Timers /\ e \in Request /\ Requests \in Seq(Request)
  BY RequestType, RequestsType DEF IInv, TypeOK
<1>2. AllLive(Requests, allocated) /\ Ordered(Requests) /\ e.t \in allocated
  BY RequestsDiffer DEF IInv, MemorySafe, RefsLive, RequestOrder, AllLive, Ordered
<1>3. ~Has(Requests, e)
  BY <1>1, <1>2, RequestsDiffer DEF IInv, MemorySafe, Reclaim, Held, RemovePending, Has
<1>4. ASSUME NEW rq, Has(Requests, rq), rq.t = e.t
      PROVE  rq.insert /\ ~e.insert
  <2>1. rq \in Request
    BY <1>1, <1>4, HasElement
  <2>2. e.t = slot[o] /\ ~e.insert
    BY RequestsDiffer
  <2>3. rq # remove_req(rq.t)
    BY <1>3, <1>4, <2>2
  <2>4. rq = insert_req(rq.t)
    BY <2>1, <2>3, RequestCases
  <2> QED
    BY <2>2, <2>4, RequestsDiffer
<1> HIDE DEF e
<1>5. R = Requests \o <<e>>
  BY DEF e
<1>6. /\ R \in Seq(Request)
      /\ \A rq : Has(R, rq) <=> Has(Requests, rq) \/ rq = e
      /\ AllLive(R, allocated) <=> AllLive(Requests, allocated) /\ e.t \in allocated
      /\ Ordered(Requests) /\ (\A rq : Has(Requests, rq) /\ rq.t = e.t
                                   => rq.insert /\ ~e.insert)
           => Ordered(R)
  BY <1>1, <1>5, Pushed
<1> QED
  BY <1>2, <1>4, <1>6 DEF e

\* Letting go of the timer in a slot: clear_timer, and fire() on a timer
\* that is still in its slot.
LEMMA DropStep ==
    ASSUME IInv, TypeOK', NEW o \in Owners, slot[o] # NoTimer,
           slot' = [slot EXCEPT ![o] = NoTimer],
           reqs_backlog' = reqs_backlog \o Dropped(o),
           firing' \in {firing, NoTimer},
           UNCHANGED <<at, allocated, owner, reqs_process, pc>>
    PROVE  MemorySafe' /\ ThreadStage'
<1> DEFINE s == slot[o]
<1>0. TypeOK
  BY DEF IInv
<1>1. Requests' = Requests \o <<remove_req(s)>>
  <2>1. Dropped(o) = <<remove_req(s)>> /\ remove_req(s) \in Request
    BY <1>0, RequestType DEF Dropped, TypeOK
  <2>2. reqs_process \o (reqs_backlog \o <<remove_req(s)>>)
            = (reqs_process \o reqs_backlog) \o <<remove_req(s)>>
    BY <1>0, <2>1, ConcatAssociative DEF TypeOK
  <2> QED
    BY <2>1, <2>2 DEF Requests
<1>2. /\ \A rq : Has(Requests', rq) <=> Has(Requests, rq) \/ rq = remove_req(s)
      /\ AllLive(Requests', allocated) /\ Ordered(Requests')
  BY <1>1, DropRequest
<1>3. s \in Timers /\ s # NoTimer
  BY <1>0 DEF TypeOK
<1>4. \A p \in Owners : slot'[p] = IF p = o THEN NoTimer ELSE slot[p]
  BY <1>0 DEF TypeOK
<1> HIDE DEF s
<1>5. RefsLive'
  BY <1>2, <1>4 DEF IInv, MemorySafe, RefsLive, AllLive
<1>6. Reclaim'
  <2> SUFFICES ASSUME NEW t \in allocated PROVE Held(t)' <=> ~RemovePending(t)'
    BY DEF Reclaim
  <2>0. Held(t) <=> ~RemovePending(t)
    BY DEF IInv, MemorySafe, Reclaim
  <2>1. RemovePending(t)' <=> RemovePending(t) \/ t = s
    BY <1>2, RequestsDiffer DEF RemovePending, Has
  <2>2. CASE t = s
    <3>1. \A p \in Owners : slot[p] = s => p = o
      BY <1>3 DEF IInv, MemorySafe, HeldByOwner, s
    <3> QED
      BY <1>3, <1>4, <2>1, <2>2, <3>1 DEF Held
  <2>3. CASE t # s
    <3>1. t # NoTimer
      BY <1>0, WheelAssumption DEF TypeOK
    <3>2. Held(t)' <=> Held(t)
      BY <1>4, <2>3, <3>1 DEF Held, s
    <3> QED
      BY <2>0, <2>1, <2>3, <3>2
  <2> QED
    BY <2>2, <2>3
<1>7. HeldByOwner'
  BY <1>4 DEF IInv, MemorySafe, HeldByOwner
<1>8. RequestOrder'
  BY <1>2 DEF RequestOrder, Ordered
<1>9. PlacedOnce'
  <2> SUFFICES ASSUME NEW t \in Timers, InsertPending(t)'
               PROVE  at[t] = Unlinked /\ firing' # t
    BY DEF PlacedOnce
  <2>1. InsertPending(t)
    BY <1>2, RequestsDiffer DEF InsertPending, Has
  <2> QED
    BY <2>1, WheelAssumption DEF IInv, MemorySafe, PlacedOnce
<1>10. ThreadStage'
  BY DEF IInv, ThreadStage
<1> QED
  BY <1>5, <1>6, <1>7, <1>8, <1>9, <1>10 DEF MemorySafe

\* Putting a new timer object into a slot: reset_timer.
LEMMA ResetStep ==
    ASSUME IInv, TypeOK', NEW o \in Owners, reset_timer(o)
    PROVE  MemorySafe' /\ ThreadStage'
<1>0. TypeOK
  BY DEF IInv
<1>1. PICK t \in Timers \ allocated :
          /\ reqs_backlog' = reqs_backlog \o Dropped(o) \o <<insert_req(t)>>
          /\ owner' = [owner EXCEPT ![t] = o]
          /\ slot' = [slot EXCEPT ![o] = t]
          /\ allocated' = allocated \cup {t}
          /\ UNCHANGED <<at, reqs_process, pc, firing>>
  BY DEF reset_timer
<1> DEFINE Q == Requests \o Dropped(o)
<1>2. /\ Q \in Seq(Request) /\ AllLive(Q, allocated) /\ Ordered(Q)
      /\ \A rq : Has(Q, rq) <=> \/ Has(Requests, rq)
                                \/ slot[o] # NoTimer /\ rq = remove_req(slot[o])
  <2>1. CASE slot[o] = NoTimer
    <3>1. Q = Requests
      BY <1>0, <2>1, RequestsType, ConcatEmptySeq DEF Dropped
    <3>2. Requests \in Seq(Request) /\ AllLive(Requests, allocated) /\ Ordered(Requests)
      BY <1>0, RequestsType
         DEF IInv, MemorySafe, RefsLive, RequestOrder, AllLive, Ordered
    <3> QED
      BY <2>1, <3>1, <3>2
  <2>2. CASE slot[o] # NoTimer
    <3>1. Q = Requests \o <<remove_req(slot[o])>>
      BY <2>2 DEF Dropped
    <3> QED
      BY <2>2, <3>1, DropRequest
  <2> QED
    BY <2>1, <2>2
<1>3. Requests' = Q \o <<insert_req(t)>>
  <2>1. insert_req(t) \in Request /\ Dropped(o) \in Seq(Request)
    BY <1>0, RequestType, DroppedType
  <2>2. /\ reqs_process \in Seq(Request) /\ reqs_backlog \in Seq(Request)
        /\ <<insert_req(t)>> \in Seq(Request)
        /\ reqs_backlog \o Dropped(o) \in Seq(Request)
    BY <1>0, <2>1, ConcatProperties DEF TypeOK
  <2>3. reqs_process \o (reqs_backlog \o Dropped(o) \o <<insert_req(t)>>)
            = (reqs_process \o (reqs_backlog \o Dropped(o))) \o <<insert_req(t)>>
    BY <2>2, ConcatAssociative
  <2>4. reqs_process \o (reqs_backlog \o Dropped(o)) = Q
    BY <2>1, <2>2, ConcatAssociative, SMTT(30) DEF Requests
  <2> QED
    BY <1>1, <2>3, <2>4 DEF Requests
<1>4. \A rq : Has(Q, rq) => rq.t # t
  BY <1>1, <1>2 DEF AllLive, Has
<1>5. /\ \A rq : Has(Requests', rq) <=> Has(Q, rq) \/ rq = insert_req(t)
      /\ AllLive(Requests', allocated') /\ Ordered(Requests')
  <2>1. insert_req(t) \in Request /\ insert_req(t).t = t
    BY RequestType, RequestsDiffer
  <2>2. AllLive(Q, allocated')
    BY <1>1, <1>2 DEF AllLive
  <2> HIDE DEF Q
  <2> QED
    BY <1>1, <1>2, <1>3, <1>4, <2>1, <2>2, Pushed
<1> HIDE DEF Q
<1>6. \A p \in Owners : slot'[p] = IF p = o THEN t ELSE slot[p]
  BY <1>0, <1>1 DEF TypeOK
<1>7. t # NoTimer /\ ~Held(t) /\ at[t] = Unlinked /\ firing # t
  BY <1>1, WheelAssumption DEF IInv, MemorySafe, RefsLive, Held
<1>8. RefsLive'
  BY <1>1, <1>5, <1>6 DEF IInv, MemorySafe, RefsLive, AllLive
<1>9. Reclaim'
  <2> SUFFICES ASSUME NEW u \in allocated' PROVE Held(u)' <=> ~RemovePending(u)'
    BY DEF Reclaim
  <2>0. u # NoTimer
    BY WheelAssumption DEF TypeOK
  <2>01. /\ RemovePending(u)' <=> Has(Requests', remove_req(u))
         /\ RemovePending(u) <=> Has(Requests, remove_req(u))
    BY DEF RemovePending, Has
  <2>02. /\ remove_req(u) # insert_req(t) /\ remove_req(u).t = u
         /\ remove_req(u) = remove_req(slot[o]) <=> u = slot[o]
    BY RequestsDiffer
  <2>1. RemovePending(u)' <=> \/ RemovePending(u)
                              \/ slot[o] # NoTimer /\ u = slot[o]
    BY <1>2, <1>5, <2>01, <2>02
  <2>2. CASE u = t
    <3>1. ~RemovePending(t)'
      BY <1>4, <1>5, <2>01, <2>02, <2>2
    <3> QED
      BY <1>6, <2>2, <3>1 DEF Held
  <2>3. CASE u # t /\ u = slot[o]
    <3>1. \A p \in Owners : slot[p] = u => p = o
      BY <2>0, <2>3 DEF IInv, MemorySafe, HeldByOwner
    <3> QED
      BY <1>6, <2>0, <2>1, <2>3, <3>1 DEF Held
  <2>4. CASE u # t /\ u # slot[o]
    <3>1. Held(u)' <=> Held(u)
      BY <1>6, <2>4 DEF Held
    <3>2. Held(u) <=> ~RemovePending(u)
      BY <1>1, <2>4 DEF IInv, MemorySafe, Reclaim
    <3> QED
      BY <2>1, <2>4, <3>1, <3>2
  <2> QED
    BY <2>2, <2>3, <2>4
<1>10. HeldByOwner'
  <2>1. \A p \in Owners : slot[p] # t
    BY <1>7 DEF Held
  <2> QED
    BY <1>0, <1>1, <1>6, <2>1 DEF IInv, MemorySafe, HeldByOwner, TypeOK
<1>11. RequestOrder'
  BY <1>5 DEF RequestOrder, Ordered
<1>12. PlacedOnce'
  <2> SUFFICES ASSUME NEW u \in Timers, InsertPending(u)'
               PROVE  at[u] = Unlinked /\ firing # u
    BY <1>1 DEF PlacedOnce
  <2>0. /\ Has(Requests', insert_req(u))
        /\ InsertPending(u) <=> Has(Requests, insert_req(u))
    BY DEF InsertPending, Has
  <2>1. /\ insert_req(u) # remove_req(slot[o])
        /\ insert_req(u) = insert_req(t) => u = t
    BY RequestsDiffer
  <2>2. InsertPending(u) \/ u = t
    BY <1>2, <1>5, <2>0, <2>1
  <2> QED
    BY <1>7, <2>2 DEF IInv, MemorySafe, PlacedOnce
<1>13. ThreadStage'
  BY <1>1 DEF IInv, ThreadStage
<1> QED
  BY <1>8, <1>9, <1>10, <1>11, <1>12, <1>13 DEF MemorySafe

\* One request of turn_wheel's loop.
LEMMA ProcessStep ==
    ASSUME IInv, TypeOK', process_request
    PROVE  MemorySafe' /\ ThreadStage'
<1> DEFINE rq == Head(reqs_process)
<1>0. TypeOK /\ Requests \in Seq(Request)
  BY RequestsType DEF IInv
<1>1. /\ pc = "requests" /\ reqs_process # <<>> /\ firing = NoTimer
      /\ reqs_process' = Tail(reqs_process)
      /\ UNCHANGED <<slot, owner, reqs_backlog, pc, firing>>
  BY DEF process_request, IInv, ThreadStage
<1>2. Requests # <<>> /\ rq = Head(Requests) /\ Requests' = Tail(Requests)
  BY <1>0, <1>1, TailConcat, SMTT(30) DEF TypeOK, Requests
<1> HIDE DEF rq
<1>3. /\ rq \in Request
      /\ \A q : Has(Requests, q) <=> q = rq \/ Has(Requests', q)
      /\ AllLive(Requests, allocated) /\ rq.t \in allocated
      /\ AllLive(Requests', allocated) /\ Ordered(Requests')
      /\ \A q : Has(Requests', q) /\ q.t = rq.t => rq.insert /\ ~q.insert
  <2>1. AllLive(Requests, allocated) /\ Ordered(Requests)
    BY DEF IInv, MemorySafe, RefsLive, RequestOrder, AllLive, Ordered
  <2> QED
    BY <1>0, <1>2, <2>1, Popped
<1>4. rq.t \in Timers /\ rq.t # NoTimer
  BY <1>3, WheelAssumption DEF Request
<1>5. \A t \in Timers : /\ RemovePending(t) <=> Has(Requests, remove_req(t))
                        /\ InsertPending(t) <=> Has(Requests, insert_req(t))
                        /\ RemovePending(t)' <=> Has(Requests', remove_req(t))
                        /\ InsertPending(t)' <=> Has(Requests', insert_req(t))
  BY DEF RemovePending, InsertPending, Has
<1>6. RequestOrder'
  BY <1>3 DEF RequestOrder, Ordered
<1>7. HeldByOwner'
  BY <1>1 DEF IInv, MemorySafe, HeldByOwner
<1>8. ThreadStage'
  BY <1>1 DEF ThreadStage
<1>9. CASE rq.insert
  <2>1. /\ allocated' = allocated
        /\ at' = [at EXCEPT ![rq.t] = place_timer(expires[rq.t], wall_clock)]
    BY <1>9 DEF process_request, rq
  <2>2. rq = insert_req(rq.t)
    BY <1>3, <1>9, RequestCases, RequestsDiffer
  <2>3. RefsLive'
    BY <1>0, <1>1, <1>3, <1>4, <2>1
       DEF IInv, MemorySafe, RefsLive, AllLive, TypeOK
  <2>4. Reclaim'
    <3> SUFFICES ASSUME NEW t \in allocated PROVE Held(t)' <=> ~RemovePending(t)'
      BY <2>1 DEF Reclaim
    <3>1. t \in Timers /\ remove_req(t) # rq
      BY <1>0, <2>2, RequestsDiffer DEF TypeOK
    <3>2. RemovePending(t)' <=> RemovePending(t)
      BY <1>3, <1>5, <3>1
    <3> QED
      BY <1>1, <3>2 DEF IInv, MemorySafe, Reclaim, Held
  <2>5. PlacedOnce'
    <3> SUFFICES ASSUME NEW t \in Timers, InsertPending(t)'
                 PROVE  at'[t] = Unlinked /\ firing # t
      BY <1>1 DEF PlacedOnce
    <3>1. insert_req(t).t = t /\ insert_req(t).insert
      BY RequestsDiffer
    <3>2. t # rq.t /\ InsertPending(t)
      BY <1>3, <1>5, <3>1
    <3> QED
      BY <1>0, <2>1, <3>2 DEF IInv, MemorySafe, PlacedOnce, TypeOK
  <2> QED
    BY <1>6, <1>7, <1>8, <2>3, <2>4, <2>5 DEF MemorySafe
<1>10. CASE ~rq.insert
  <2>1. /\ allocated' = allocated \ {rq.t}
        /\ at' = [at EXCEPT ![rq.t] = Unlinked]
    BY <1>10 DEF process_request, rq
  <2>2. rq = remove_req(rq.t)
    BY <1>3, <1>10, RequestCases, RequestsDiffer
  <2>3. \A q : Has(Requests', q) => q.t # rq.t
    BY <1>3, <1>10
  <2>4. ~Held(rq.t)
    <3>1. RemovePending(rq.t)
      BY <1>3, <1>4, <1>5, <2>2
    <3> QED
      BY <1>3, <3>1 DEF IInv, MemorySafe, Reclaim
  <2>5. RefsLive'
    <3>1. \A i \in 1 .. Len(Requests') : Requests'[i].t \in allocated'
      BY <1>3, <2>1, <2>3 DEF AllLive, Has
    <3>2. \A o \in Owners : slot[o] # NoTimer => slot[o] \in allocated'
      BY <2>1, <2>4 DEF IInv, MemorySafe, RefsLive, Held
    <3>3. \A t \in Timers : at'[t] # Unlinked => t \in allocated'
      BY <1>0, <2>1 DEF IInv, MemorySafe, RefsLive, TypeOK
    <3> QED
      BY <1>1, <3>1, <3>2, <3>3 DEF RefsLive
  <2>6. Reclaim'
    <3> SUFFICES ASSUME NEW t \in allocated, t # rq.t
                 PROVE  Held(t)' <=> ~RemovePending(t)'
      BY <2>1 DEF Reclaim
    <3>1. t \in Timers /\ remove_req(t) # rq
      BY <1>0, <2>2, RequestsDiffer DEF TypeOK
    <3>2. RemovePending(t)' <=> RemovePending(t)
      BY <1>3, <1>5, <3>1
    <3> QED
      BY <1>1, <3>2 DEF IInv, MemorySafe, Reclaim, Held
  <2>7. PlacedOnce'
    <3> SUFFICES ASSUME NEW t \in Timers, InsertPending(t)'
                 PROVE  at'[t] = Unlinked /\ firing # t
      BY <1>1 DEF PlacedOnce
    <3>1. InsertPending(t)
      BY <1>3, <1>5
    <3> QED
      BY <1>0, <2>1, <3>1 DEF IInv, MemorySafe, PlacedOnce, TypeOK
  <2> QED
    BY <1>6, <1>7, <1>8, <2>5, <2>6, <2>7 DEF MemorySafe
<1> QED
  BY <1>9, <1>10

\* Steps that leave the requests, the slots and the objects alone and link no
\* timer that was not linked before.
LEMMA QuietStep ==
    ASSUME IInv, Requests' = Requests, ThreadStage',
           UNCHANGED <<allocated, owner, slot>>,
           \A t \in Timers : at[t] = Unlinked => at'[t] = Unlinked,
           firing' # firing /\ firing' # NoTimer
               => firing' \in Timers /\ at[firing'] # Unlinked
    PROVE  MemorySafe' /\ ThreadStage'
<1>1. \A t \in Timers : /\ RemovePending(t)' <=> RemovePending(t)
                        /\ InsertPending(t)' <=> InsertPending(t)
                        /\ Held(t)' <=> Held(t)
  BY DEF RemovePending, InsertPending, Held
<1>2. RefsLive'
  BY DEF IInv, MemorySafe, RefsLive
<1>3. Reclaim'
  BY <1>1 DEF IInv, TypeOK, MemorySafe, Reclaim
<1>4. HeldByOwner' /\ RequestOrder'
  BY DEF IInv, MemorySafe, HeldByOwner, RequestOrder
<1>5. PlacedOnce'
  <2> SUFFICES ASSUME NEW t \in Timers, InsertPending(t)'
               PROVE  at'[t] = Unlinked /\ firing' # t
    BY DEF PlacedOnce
  <2>1. at[t] = Unlinked /\ firing # t
    BY <1>1 DEF IInv, MemorySafe, PlacedOnce
  <2> QED
    BY <2>1, WheelAssumption
<1> QED
  BY <1>2, <1>3, <1>4, <1>5 DEF MemorySafe

\* The cascade links nothing that was not linked.
LEMMA CascadeKeepsUnlinked ==
    ASSUME NEW clk, NEW w, NEW t \in Timers, at[t] = Unlinked
    PROVE  update_wheel(at, clk, w)[t] = Unlinked
<1>1. \A k, d : <<k, d>> # <<>>
  OBVIOUS
<1> QED
  BY <1>1 DEF update_wheel, Unlinked

\* Whatever the interleaving of transactions that arm and drop timers with
\* the wheel's thread, no freed timer is used, none is leaked, none is freed
\* twice and none is linked twice (MemorySafe).
THEOREM MemorySafety == Spec => []MemorySafe
<1>1. Init => MemorySafe /\ ThreadStage
  <2> SUFFICES ASSUME Init PROVE MemorySafe /\ ThreadStage
    OBVIOUS
  <2>1. Requests = <<>> /\ Len(Requests) = 0
    BY DEF Init, Requests
  <2> QED
    BY <2>1 DEF Init, MemorySafe, ThreadStage, RefsLive, Reclaim, HeldByOwner,
                RequestOrder, PlacedOnce, InsertPending
<1>2. IInv /\ TypeOK' /\ [Next]_vars => MemorySafe' /\ ThreadStage'
  <2> SUFFICES ASSUME IInv, TypeOK', [Next]_vars
               PROVE  MemorySafe' /\ ThreadStage'
    OBVIOUS
  <2>0. TypeOK /\ ThreadStage
    BY DEF IInv
  <2>1. CASE tick
    <3>1. /\ Requests' = Requests /\ UNCHANGED <<allocated, owner, slot, firing>>
          /\ pc = "sleep" /\ reqs_process' = reqs_process
      BY <2>1 DEF tick, Requests
    <3>2. ThreadStage'
      BY <2>0, <3>1 DEF ThreadStage
    <3>3. \A t \in Timers : at[t] = Unlinked => at'[t] = Unlinked
      BY <2>1, CascadeKeepsUnlinked DEF tick
    <3> QED
      BY <3>1, <3>2, <3>3, QuietStep
  <2>2. CASE swap_requests
    <3>1. reqs_process = <<>> /\ reqs_backlog \in Seq(Request)
      BY <2>0, <2>2 DEF swap_requests, ThreadStage, TypeOK
    <3>2. Requests' = Requests
      BY <2>2, <3>1, ConcatEmptySeq DEF swap_requests, Requests
    <3>3. ThreadStage'
      BY <2>0, <2>2 DEF swap_requests, ThreadStage
    <3> QED
      BY <2>2, <3>2, <3>3, QuietStep DEF swap_requests
  <2>3. CASE process_request
    BY <2>3, ProcessStep
  <2>4. CASE requests_done
    <3>1. Requests' = Requests /\ ThreadStage'
      BY <2>0, <2>4 DEF requests_done, Requests, ThreadStage
    <3> QED
      BY <2>4, <3>1, QuietStep DEF requests_done
  <2>5. ASSUME NEW t \in Timers, take_timer(t) PROVE MemorySafe' /\ ThreadStage'
    <3>1. Requests' = Requests /\ ThreadStage'
      BY <2>0, <2>5 DEF take_timer, Requests, ThreadStage
    <3>2. firing' = t /\ at[t] # Unlinked
      BY <2>5 DEF take_timer, Current, Unlinked
    <3>3. \A u \in Timers : at[u] = Unlinked => at'[u] = Unlinked
      BY <2>0, <2>5 DEF take_timer, TypeOK
    <3> QED
      BY <2>5, <3>1, <3>2, <3>3, QuietStep DEF take_timer
  <2>6. CASE fire
    <3>1. CASE slot[owner[firing]] = firing
      <4>1. owner[firing] \in Owners /\ slot[owner[firing]] # NoTimer
        BY <2>0, <2>6, <3>1 DEF fire, TypeOK
      <4> QED
        BY <2>6, <3>1, <4>1, DropStep DEF fire
    <3>2. CASE slot[owner[firing]] # firing
      <4>1. Requests' = Requests /\ ThreadStage'
        BY <2>0, <2>6, <3>2 DEF fire, Requests, ThreadStage
      <4> QED
        BY <2>6, <3>2, <4>1, QuietStep DEF fire
    <3> QED
      BY <3>1, <3>2
  <2>7. CASE turn_done
    <3>1. Requests' = Requests /\ ThreadStage'
      BY <2>0, <2>7 DEF turn_done, Requests, ThreadStage
    <3> QED
      BY <2>7, <3>1, QuietStep DEF turn_done
  <2>8. CASE stop
    <3>1. Requests' = Requests /\ ThreadStage'
      BY <2>0, <2>8 DEF stop, Requests, ThreadStage
    <3> QED
      BY <2>8, <3>1, QuietStep DEF stop
  <2>9. ASSUME NEW o \in Owners, reset_timer(o) PROVE MemorySafe' /\ ThreadStage'
    BY <2>9, ResetStep
  <2>10. ASSUME NEW o \in Owners, clear_timer(o) PROVE MemorySafe' /\ ThreadStage'
    BY <2>10, DropStep DEF clear_timer
  <2>11. CASE UNCHANGED vars
    <3>1. Requests' = Requests /\ ThreadStage'
      BY <2>0, <2>11 DEF vars, Requests, ThreadStage
    <3> QED
      BY <2>11, <3>1, QuietStep DEF vars
  <2> QED
    BY <2>1, <2>2, <2>3, <2>4, <2>5, <2>6, <2>7, <2>8, <2>9, <2>10, <2>11
       DEF Next, WheelThread
<1> QED
  BY <1>1, <1>2, TypeCorrect, PTL DEF Spec, IInv

=============================================================================
