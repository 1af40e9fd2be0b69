------------------------------- MODULE MCPool -------------------------------
(* Model values for checking Pool.                                         *)
EXTENDS Pool, TLC

CONSTANTS p1, p2, k1, a, b

\* Tasks that only yield.
Leaves == [t \in Tasks |-> {"yield"}]

\* One that spawns, awaits, drains and wakes, beside others that wait on a
\* channel and wake.
Various ==
  [t \in Tasks |-> IF t = p1 THEN {"spawn", "await", "drain", "wake"}
                   ELSE {"listen", "wake"}]

\* Tasks that park on a channel and wake one another.
Talkers == [t \in Tasks |-> {"listen", "wake"}]

\* A task that spawns a child and awaits it.
Parents == [t \in Tasks |-> IF t \in Children THEN {} ELSE {"spawn", "await"}]
=============================================================================
