---------------------------- MODULE RetryPolicy ----------------------------
(***************************************************************************)
(* The exponential backoff of src/server/src/jobs/retry-policy.ts, with    *)
(* its base (1 s) and cap (60 s) as parameters so that runs can use ticks. *)
(***************************************************************************)
EXTENDS Naturals

Smaller(a, b) == IF a < b THEN a ELSE b
Larger(a, b)  == IF a > b THEN a ELSE b

\* The delay before the attempt that follows attempt n.
Backoff(base, cap, n) == Smaller(cap, base * 2 ^ Larger(0, n - 1))
=============================================================================
