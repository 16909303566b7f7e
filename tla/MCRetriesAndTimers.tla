-------------------------- MODULE MCRetriesAndTimers --------------------------
(* RetriesAndTimers on small programs. *)
EXTENDS RetriesAndTimers

\* A coefficient of num / den.
Policy(attempts, interval, num, den, cap, timeout) ==
  [maxNumberOfAttempts |-> attempts, firstRetryInterval |-> interval,
   backoffCoefficient |-> [num |-> num, den |-> den], maxRetryInterval |-> cap,
   retryTimeout |-> timeout]

Twice == Policy(2, 1, 1, 1, 0, 0)
BackingOff == Policy(3, 1, 2, 1, 3, 0)
UntilTwo == Policy(3, 1, 1, 1, 0, 2)
\* 1.0 of 1.5 is left for the first delay, 2.0 of 2.25 for the second.
Fraction == Policy(3, 1, 3, 2, 0, 0)
\* No delay, until the power of the coefficient is beyond the largest double.
AtOnce == Policy(3, 0, 4, 1, 0, 0)
\* The product is beyond the largest long, with and without a maximum.
Overflow(cap) == Policy(3, 3, 4, 1, cap, 0)

\* Tasks that are retried alone, in a race with a timer, nested in each other's delays, awaited
\* late, twice or never; timers of three intervals, awaited, in a race, and beside a retry; delays
\* of fractions, of none, and beyond what a number can hold.
AllPrograms ==
  {<<retriable(BackingOff), await(1)>>,
   <<retriable(Twice), retriable(Twice), allOf({1, 2}), await(1)>>,
   <<retriable(Twice), retriable(Twice), await(1), await(2)>>,
   <<retriable(Twice), createTimer(5), anyOf({1, 2}), await(1)>>,
   <<retriable(Twice), activity, await(2), allOf({1, 2})>>,
   <<createTimer(5), retriable(UntilTwo), await(2), allOf({1, 2})>>,
   <<createTimer(5), activity, createTimer(1), allOf({2, 3}), await(1), anyOf({1})>>,
   <<retriable(Fraction), await(1)>>,
   <<retriable(AtOnce), activity, await(2), await(1), allOf({1})>>,
   <<retriable(Overflow(3)), await(1)>>,
   <<retriable(Overflow(0)), await(1), anyOf({1})>>}

FanOut == {<<retriable(Twice), retriable(Twice), await(1), await(2)>>}

LongTimer == {<<createTimer(5), await(1), createTimer(1), await(3), activity, await(5)>>}
=============================================================================
