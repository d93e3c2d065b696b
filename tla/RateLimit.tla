------------------------------- MODULE RateLimit -------------------------------
(***************************************************************************)
(* services/ratelimit.py: the login throttle, as operators on one row of   *)
(* the table of lockouts.  A key is a client address, or an account whose  *)
(* second factor is being asked for.  Time is counted in ticks from 1.     *)
(***************************************************************************)
EXTENDS Naturals

CONSTANTS
    MaxFailures,  \* _MAX_FAILURES
    Window,       \* _WINDOW_SECONDS, in ticks
    Lockout       \* _LOCKOUT_SECONDS, in ticks

ASSUME ThrottleAssumption ==
    /\ MaxFailures \in Nat \ {0} /\ Window \in Nat \ {0}
    /\ Lockout \in Nat /\ Lockout >= Window

\* last = 0 stands for no row, and until = 0 for no lockout.
NoFailures   == [count |-> 0, last |-> 0, until |-> 0]
LockRow      == [count : Nat, last : Nat, until : Nat]
HasRow(row)  == row.last > 0

Locked(row, t) == row.until > t
Aged(row, t)   == HasRow(row) /\ t >= row.last + Window

\* retry_after, once it found no lockout: a row outside the window is deleted.
Pruned(row, t) == IF Aged(row, t) THEN NoFailures ELSE row

\* Faulty variant: the window has to be overfull before the key is locked.
FailedLate(row, t) ==
    LET count == (IF Aged(row, t) THEN 0 ELSE row.count) + 1
    IN IF count > MaxFailures THEN [count |-> 0, last |-> t, until |-> t + Lockout]
                              ELSE [row EXCEPT !.count = count, !.last = t]

\* record_failure: count, and lock the key when the window is full.
Failed(row, t) ==
    LET count == (IF Aged(row, t) THEN 0 ELSE row.count) + 1
    IN IF count >= MaxFailures THEN [count |-> 0, last |-> t, until |-> t + Lockout]
                               ELSE [row EXCEPT !.count = count, !.last = t]
================================================================================
