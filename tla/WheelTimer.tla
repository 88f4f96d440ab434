----------------------------- MODULE WheelTimer -----------------------------
(***************************************************************************)
(* The hierarchical timer wheel (core/sip/wheeltimer.cpp) together with    *)
(* the way its users hold timers: a slot per owner, protected by the       *)
(* owner's bucket lock, that reset_timer and clear_timer overwrite while   *)
(* trans_timer::fire checks it (core/sip/sip_trans.cpp).                   *)
(*                                                                         *)
(* Users only append requests to a locked backlog; the wheel's own thread  *)
(* applies them, cascades the wheels and fires.  Between the moment it     *)
(* takes a timer out of the wheel and the moment the callback gets the     *)
(* bucket lock, the owner may clear or replace that very timer.            *)
(*                                                                         *)
(* A slot list of the wheel is a set here: at[t] is the wheel and position *)
(* t is linked into.  Timers of one position fire in any order.            *)
(***************************************************************************)
EXTENDS Integers, Sequences

CONSTANTS BITS_PER_WHEEL,  \* 8 in the code
          WHEELS,          \* 4 in the code
          Timers,          \* addresses a timer object can have
          Owners,          \* timer slots of transactions
          NoTimer,         \* NULL
          MaxDelay,        \* longest timeout asked for, in ticks
          MaxLag           \* ticks between reading wall_clock and insert_timer

ELMTS_PER_WHEEL == 2 ^ BITS_PER_WHEEL
Modulus == 2 ^ (BITS_PER_WHEEL * WHEELS)
Clock == 0 .. Modulus - 1
Unlinked == <<>>
Place == (0 .. WHEELS - 1) \X (0 .. ELMTS_PER_WHEEL - 1)

ASSUME WheelAssumption ==
    /\ BITS_PER_WHEEL \in Nat \ {0} /\ WHEELS \in Nat \ {0}
    /\ \A n \in 0 .. BITS_PER_WHEEL * WHEELS : 2 ^ n \in Nat \ {0}
    /\ NoTimer \notin Timers /\ Owners # {}
    /\ MaxDelay \in Nat /\ MaxLag \in Nat
    /\ MaxDelay < Modulus \div 2 /\ MaxLag < Modulus \div 2

VARIABLES wall_clock,    \* u_int32_t tick counter
          at,            \* at[t]: place t is linked into, or Unlinked
          expires,       \* expires[t]
          allocated,     \* timer objects that exist
          owner,         \* owner[t]: the slot t was created for
          slot,          \* slot[o]: the timer the owner holds, or NoTimer
          reqs_backlog,  \* requests of the users, under reqs_m
          reqs_process,  \* requests swapped out by the wheel's thread
          pc,            \* where the wheel's thread is in run()/turn_wheel()
          firing,        \* timer taken out of the wheel, callback not run yet
          updated        \* the wheel index update_wheel was last called with

vars == <<wall_clock, at, expires, allocated, owner, slot, reqs_backlog,
          reqs_process, pc, firing, updated>>

\* The w-th digit of x: (x >> (w*BITS_PER_WHEEL)) & ((1<<BITS_PER_WHEEL)-1).
Digit(x, w) == (x \div 2 ^ (w * BITS_PER_WHEEL)) % ELMTS_PER_WHEEL

\* t1 < t2 on the circle of clock values.
less_ts(t1, t2) == (t1 - t2) % Modulus > Modulus \div 2

\* The highest wheel up to top in which x and clk have different digits.
WheelFor(x, clk, top) ==
    CHOOSE w \in 0 .. top :
        /\ w = 0 \/ Digit(x, w) # Digit(clk, w)
        /\ \A v \in (w + 1) .. top : Digit(x, v) = Digit(clk, v)

\* place_timer(t, wheel)
place_timer_below(x, clk, top) ==
    LET w == WheelFor(x, clk, top) IN <<w, Digit(x, w)>>

place_timer_no_late(x, clk) ==  \* mutant: no check for late timers
    place_timer_below(x, clk, WHEELS - 1)

\* place_timer(t): late timers go to the position that fires in this turn.
place_timer(x, clk) ==
    IF less_ts(x, clk) THEN <<0, Digit(clk, 0)>>
                       ELSE place_timer_below(x, clk, WHEELS - 1)

\* The number of low wheels that are about to roll over; WHEELS for the
\* largest clock value, where no wheel is left.
WheelToUpdate(clk) ==
    CHOOSE i \in 0 .. WHEELS :
        /\ i = WHEELS \/ Digit(clk, i) # ELMTS_PER_WHEEL - 1
        /\ \A j \in 0 .. (i - 1) : Digit(clk, j) = ELMTS_PER_WHEEL - 1

\* update_wheel(w): relink the current position of wheels w, w-1, ..., 1 into
\* the wheels below.  A relinked timer lands in wheel 0 or in a position that
\* is not the current one, so the loop moves no timer twice.
update_wheel(links, clk, w) ==
    [t \in Timers |->
        IF links[t] \in {<<k, Digit(clk, k)>> : k \in 1 .. w}
        THEN place_timer_below(expires[t], clk, links[t][1] - 1)
        ELSE links[t]]

-----------------------------------------------------------------------------
Init ==
    /\ wall_clock = 0
    /\ at = [t \in Timers |-> Unlinked]
    /\ expires = [t \in Timers |-> 0]
    /\ allocated = {}
    /\ owner = [t \in Timers |-> CHOOSE o \in Owners : TRUE]
    /\ slot = [o \in Owners |-> NoTimer]
    /\ reqs_backlog = <<>> /\ reqs_process = <<>>
    /\ pc = "sleep"
    /\ firing = NoTimer
    /\ updated = 0

insert_req(t) == [t |-> t, insert |-> TRUE]
remove_req(t) == [t |-> t, insert |-> FALSE]

\* The remove request for the timer in the slot, if there is one.
Dropped(o) == IF slot[o] = NoTimer THEN <<>> ELSE <<remove_req(slot[o])>>

\* sip_trans::reset_timer: a new timer object replaces the one in the slot.
\* The expiry was computed from wall_clock up to MaxLag ticks ago.
reset_timer(o) ==
    \E t \in Timers \ allocated, d \in 0 .. MaxDelay, lag \in 0 .. MaxLag :
        /\ allocated' = allocated \cup {t}
        /\ expires' = [expires EXCEPT ![t] = (wall_clock + d - lag) % Modulus]
        /\ owner' = [owner EXCEPT ![t] = o]
        /\ slot' = [slot EXCEPT ![o] = t]
        /\ reqs_backlog' = reqs_backlog \o Dropped(o) \o <<insert_req(t)>>
        /\ UNCHANGED <<wall_clock, at, reqs_process, pc, firing, updated>>

clear_timer_deletes(o) ==  \* mutant: delete instead of remove_timer
    /\ slot[o] # NoTimer
    /\ slot' = [slot EXCEPT ![o] = NoTimer]
    /\ allocated' = allocated \ {slot[o]}
    /\ UNCHANGED <<wall_clock, at, expires, owner, reqs_backlog, reqs_process,
                   pc, firing, updated>>

clear_timer_forgets(o) ==  \* mutant: no remove_timer
    /\ slot[o] # NoTimer
    /\ slot' = [slot EXCEPT ![o] = NoTimer]
    /\ UNCHANGED <<wall_clock, at, expires, allocated, owner, reqs_backlog,
                   reqs_process, pc, firing, updated>>

\* sip_trans::clear_timer, and reset_all_timers slot by slot.
clear_timer(o) ==
    /\ slot[o] # NoTimer
    /\ slot' = [slot EXCEPT ![o] = NoTimer]
    /\ reqs_backlog' = reqs_backlog \o Dropped(o)
    /\ UNCHANGED <<wall_clock, at, expires, allocated, owner, reqs_process,
                   pc, firing, updated>>

tick_without_cascade ==  \* mutant: update_wheel is not called
    /\ pc = "sleep"
    /\ wall_clock' = (wall_clock + 1) % Modulus
    /\ pc' = "swap"
    /\ UNCHANGED <<at, expires, allocated, owner, slot, reqs_backlog,
                   reqs_process, firing, updated>>

\* turn_wheel up to update_wheel.  With every digit at its maximum,
\* update_wheel(WHEELS) reads and clears a list head behind the array: it
\* finds it empty, or follows garbage.
tick ==
    LET i == WheelToUpdate(wall_clock)
        clk == (wall_clock + 1) % Modulus
    IN  /\ pc = "sleep"
        /\ wall_clock' = clk
        /\ updated' = i
        /\ at' = update_wheel(at, clk, IF i = WHEELS THEN WHEELS - 1 ELSE i)
        /\ pc' \in IF i = WHEELS THEN {"swap", "crashed"} ELSE {"swap"}
        /\ UNCHANGED <<expires, allocated, owner, slot, reqs_backlog,
                       reqs_process, firing>>

swap_requests ==
    /\ pc = "swap"
    /\ reqs_process' = reqs_backlog /\ reqs_backlog' = <<>>
    /\ pc' = "requests"
    /\ UNCHANGED <<wall_clock, at, expires, allocated, owner, slot, firing, updated>>

\* One request of the loop: place_timer or delete_timer.
process_request ==
    LET rq == Head(reqs_process)
    IN  /\ pc = "requests" /\ reqs_process # <<>>
        /\ reqs_process' = Tail(reqs_process)
        /\ at' = [at EXCEPT ![rq.t] = IF rq.insert
                                      THEN place_timer(expires[rq.t], wall_clock)
                                      ELSE Unlinked]
        /\ allocated' = IF rq.insert THEN allocated ELSE allocated \ {rq.t}
        /\ UNCHANGED <<wall_clock, expires, owner, slot, reqs_backlog, pc,
                       firing, updated>>

requests_done ==
    /\ pc = "requests" /\ reqs_process = <<>>
    /\ pc' = "fire"
    /\ UNCHANGED <<wall_clock, at, expires, allocated, owner, slot,
                   reqs_backlog, reqs_process, firing, updated>>

\* process_current_timers unlinks a timer of the current position ...
Current == {t \in Timers : at[t] = <<0, Digit(wall_clock, 0)>>}

take_timer(t) ==
    /\ pc = "fire" /\ firing = NoTimer /\ t \in Current
    /\ at' = [at EXCEPT ![t] = Unlinked]
    /\ firing' = t
    /\ UNCHANGED <<wall_clock, expires, allocated, owner, slot, reqs_backlog,
                   reqs_process, pc, updated>>

\* ... and calls trans_timer::fire: a timer that is no longer in its slot is
\* ignored; otherwise timer_expired takes it out of the slot (it may arm a
\* new one there, which is a reset_timer of its own).
fire ==
    LET t == firing
        o == owner[firing]
    IN  /\ firing # NoTimer
        /\ firing' = NoTimer
        /\ IF slot[o] = t
           THEN /\ slot' = [slot EXCEPT ![o] = NoTimer]
                /\ reqs_backlog' = reqs_backlog \o Dropped(o)
           ELSE UNCHANGED <<slot, reqs_backlog>>
        /\ UNCHANGED <<wall_clock, at, expires, allocated, owner,
                       reqs_process, pc, updated>>

turn_done ==
    /\ pc = "fire" /\ firing = NoTimer /\ Current = {}
    /\ pc' = "sleep"
    /\ UNCHANGED <<wall_clock, at, expires, allocated, owner, slot,
                   reqs_backlog, reqs_process, firing, updated>>

\* on_stop() was called: run() leaves its loop.
stop ==
    /\ pc = "sleep"
    /\ pc' = "stopped"
    /\ UNCHANGED <<wall_clock, at, expires, allocated, owner, slot,
                   reqs_backlog, reqs_process, firing, updated>>

WheelThread ==
    \/ tick \/ swap_requests \/ process_request \/ requests_done
    \/ (\E t \in Timers : take_timer(t)) \/ fire \/ turn_done

Next ==
    \/ WheelThread
    \/ stop
    \/ \E o \in Owners : reset_timer(o) \/ clear_timer(o)

Spec == Init /\ [][Next]_vars

\* The wheel's thread is never blocked: it keeps turning until it is stopped.
FairSpec == Spec /\ WF_vars(WheelThread)

-----------------------------------------------------------------------------
(* Properties.                                                             *)

Request == [t : Timers, insert : BOOLEAN]

\* Every variable keeps its type; positions lie inside wheels[][].
TypeOK ==
    /\ wall_clock \in Clock
    /\ at \in [Timers -> Place \cup {Unlinked}]
    /\ expires \in [Timers -> Clock]
    /\ allocated \subseteq Timers
    /\ owner \in [Timers -> Owners]
    /\ slot \in [Owners -> Timers \cup {NoTimer}]
    /\ reqs_backlog \in Seq(Request) /\ reqs_process \in Seq(Request)
    /\ pc \in {"sleep", "swap", "requests", "fire", "stopped", "crashed"}
    /\ firing \in Timers \cup {NoTimer}
    /\ updated \in 0 .. WHEELS

\* The requests not applied yet, oldest first.
Requests == reqs_process \o reqs_backlog
Held(t) == \E o \in Owners : slot[o] = t
InsertPending(t) == \E i \in 1 .. Len(Requests) : Requests[i] = insert_req(t)
RemovePending(t) == \E i \in 1 .. Len(Requests) : Requests[i] = remove_req(t)

\* No freed timer object is reachable: whatever the wheel, the request lists,
\* a slot or the running callback refers to still exists, so place_timer,
\* delete_timer and fire() never touch freed memory.
RefsLive ==
    /\ \A t \in Timers : at[t] # Unlinked => t \in allocated
    /\ \A i \in 1 .. Len(Requests) : Requests[i].t \in allocated
    /\ \A o \in Owners : slot[o] # NoTimer => slot[o] \in allocated
    /\ firing # NoTimer => firing \in allocated

\* A timer object either is held by the slot it was made for or has its
\* delete request on the way: none is leaked, none is deleted while held.
Reclaim == \A t \in allocated : Held(t) <=> ~RemovePending(t)

\* A slot only holds timers created for it (fire() looks at that slot).
HeldByOwner == \A o \in Owners : slot[o] # NoTimer => owner[slot[o]] = o

\* Two requests for one timer are its insert followed by its delete; so no
\* timer is placed after it was deleted, and none is deleted twice.
RequestOrder ==
    \A i, j \in 1 .. Len(Requests) :
        i < j /\ Requests[i].t = Requests[j].t
            => Requests[i].insert /\ ~Requests[j].insert

\* A timer waiting to be placed is in no list of the wheel and not firing.
PlacedOnce ==
    \A t \in Timers : InsertPending(t) => at[t] = Unlinked /\ firing # t

\* Memory safety of the deferred insert/remove protocol between
\* sip_trans::reset_timer/clear_timer and the wheel's thread.
MemorySafe ==
    RefsLive /\ Reclaim /\ HeldByOwner /\ RequestOrder /\ PlacedOnce

\* update_wheel is only called with the index of an existing wheel.
UpdateInBounds == updated < WHEELS

\* The wheels with their cascades, and the late insertions, amount to timers
\* that fire exactly on their tick.
Service == INSTANCE TimerService
           WITH now <- wall_clock, due <- expires,
                pending <- {t \in Timers : at[t] # Unlinked}
OnTime == Service!SSpec

Halted == pc \in {"stopped", "crashed"}

\* A timer that its owner dropped is eventually deleted by the wheel.
DroppedTimersAreFreed ==
    \A t \in Timers : (t \in allocated /\ ~Held(t)) ~> (t \notin allocated \/ Halted)

\* An armed timer runs its handler unless its owner drops it before.
ArmedTimersExpire ==
    \A o \in Owners, t \in Timers : (slot[o] = t) ~> (slot[o] # t \/ Halted)
=============================================================================
