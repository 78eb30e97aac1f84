--------------------------- MODULE MCJobScheduler ---------------------------
(***************************************************************************)
(* JobScheduler with a local kind that may be retried once, an external    *)
(* kind, and a kind nobody has registered a handler for.                   *)
(***************************************************************************)
EXTENDS JobScheduler, RetryPolicy, TLC

AllKinds  == {"local", "external", "unknown"}
TwoKinds  == {"local", "external"}
OneKind   == {"local"}

MCRetryClass  == [k \in Kinds |-> IF k = "external" THEN "external" ELSE "local"]
MCMaxAttempts == [k \in Kinds |-> IF k = "unknown" THEN 1 ELSE 2]
MCTarget      == [k \in Kinds |-> "app"]
MCRetryDelay  == [n \in 1 .. 2 |-> Backoff(1, 2, n)]
MCHandled     == Kinds \ {"unknown"}

JobSymmetry == Permutations(Jobs)
=============================================================================
