--------------------------- MODULE MCDurableJobs ---------------------------
(***************************************************************************)
(* DurableJobs with two keys and one kind of each policy: "twice" may be   *)
(* retried once, "once" is external although it allows two attempts,       *)
(* "away" is meant for the runner and no scheduler claims it.              *)
(***************************************************************************)
EXTENDS DurableJobs, RetryPolicy, TLC

MCKinds       == {"twice", "once", "away"}
MCRetryClass  == [k \in MCKinds |-> IF k = "once" THEN "external" ELSE "local"]
MCMaxAttempts == [k \in MCKinds |-> IF k = "away" THEN 1 ELSE 2]
MCTarget      == [k \in MCKinds |-> IF k = "away" THEN "runner" ELSE "app"]
MCRetryDelay  == [n \in 1 .. 3 |-> Backoff(1, 2, n)]

Symmetry == Permutations(Jobs) \cup Permutations(Owners)
=============================================================================
