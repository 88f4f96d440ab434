---------------------------- MODULE TimerService ----------------------------
(***************************************************************************)
(* What the transaction layer, the blacklist and the application timers    *)
(* expect of the wheel timer (core/sip/wheeltimer.h): a clock counting in  *)
(* ticks modulo the width of wall_clock and a set of pending timers.  A    *)
(* timer fires in the tick it asked for, or in the tick in which it was    *)
(* handed over when that was too late; the clock never moves on while a    *)
(* timer that is due has not fired.  WheelTimer implements it.             *)
(***************************************************************************)
EXTENDS Integers

CONSTANTS Timers,   \* timer objects
          Modulus,  \* number of values of the tick counter
          NoTimer   \* no timer is being fired

VARIABLES now,      \* the tick counter
          pending,  \* timers the service has accepted and not fired
          due,      \* due[t]: the tick at which t is to fire
          firing    \* the timer whose callback is running

svars == <<now, pending, due, firing>>

\* Ticks left before x is reached, counting modulo the width of the clock.
Ahead(x) == (x - now) % Modulus

\* x is still to come: less than half the range of the clock ahead of now.
InFuture(x) == Ahead(x) \in 1 .. (Modulus \div 2)

SInit ==
    /\ now = 0
    /\ pending = {}
    /\ due = [t \in Timers |-> 0]
    /\ firing = NoTimer

\* A timer's expiry is written when the object is created.
Arm(t, x) ==
    /\ t \notin pending /\ t # firing
    /\ due' = [due EXCEPT ![t] = x]
    /\ UNCHANGED <<now, pending, firing>>

Accept(t) ==
    /\ t \notin pending
    /\ pending' = pending \cup {t}
    /\ UNCHANGED <<now, due, firing>>

Withdraw(t) ==
    /\ t \in pending
    /\ pending' = pending \ {t}
    /\ UNCHANGED <<now, due, firing>>

Expire(t) ==
    /\ t \in pending
    /\ firing = NoTimer
    /\ ~InFuture(due[t])
    /\ pending' = pending \ {t}
    /\ firing' = t
    /\ UNCHANGED <<now, due>>

Return ==
    /\ firing # NoTimer
    /\ firing' = NoTimer
    /\ UNCHANGED <<now, pending, due>>

Advance ==
    /\ firing = NoTimer
    /\ \A t \in pending : InFuture(due[t])
    /\ now' = (now + 1) % Modulus
    /\ UNCHANGED <<pending, due, firing>>

SNext ==
    \/ Advance
    \/ Return
    \/ \E t \in Timers : Accept(t) \/ Withdraw(t) \/ Expire(t)
    \/ \E t \in Timers, x \in 0 .. Modulus - 1 : Arm(t, x)

SSpec == SInit /\ [][SNext]_svars
=============================================================================
