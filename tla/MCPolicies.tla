----------------------------- MODULE MCPolicies -----------------------------
(* Instances of Policies for TLC.                                          *)
EXTENDS Policies

Retry(n) == [kind |-> "retry", attempts |-> n]
Timeout == [kind |-> "timeout", attempts |-> 0]

\* Each policy alone, both orders of the two, retries within retries, and a
\* retry of no attempts.
Orders ==
  {<<Timeout>>, <<Retry(0)>>, <<Retry(4)>>, <<Timeout, Retry(3)>>, <<Retry(3), Timeout>>,
   <<Retry(2), Retry(3)>>, <<Retry(2), Timeout, Retry(2)>>, <<Timeout, Retry(2), Retry(2)>>}

Set(b, f, o, c) == [base |-> b, factor |-> f, over |-> o, cap |-> c]

\* Growth within the cap, past the cap and past the longest, by whole factors and by
\* one and a half, no growth, decay to nothing; bases and caps that are no delay; and
\* factors that make the delay nothing or turn its sign.
Settings ==
  {Set(1, 2, 1, 10), Set(3, 3, 1, 10), Set(7, 4, 1, 15), Set(2, 3, 2, 10), Set(5, 1, 1, 10),
   Set(6, 1, 2, 10), Set(0, 2, 1, 3), Set(-2, 3, 1, 3), Set(3, 0, 1, 10), Set(2, -2, 1, 10),
   Set(2, 2, 1, 0), Set(1, 3, 1, -3)}
=============================================================================
