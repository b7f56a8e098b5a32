----------------------------- MODULE WithRetry ------------------------------
(***************************************************************************)
(* db.WithRetry, the loop every repository call of package db runs in, and *)
(* the deadline of the context the callers of package db pass to it.       *)
(***************************************************************************)
EXTENDS Naturals

\* model.RepoOperationTO in seconds, and the limit of db.WithRetry.
RepoOperationTO == 2
maxAttemptCount == 3

\* Another attempt follows a failed one: the error is one isRetryableError
\* recognises (the connection, or an unknown outcome) and the limit is not met.
MayRetry(counter, retryable) == retryable /\ counter < maxAttemptCount

(***************************************************************************)
(* WithRetry sleeps 1, 3, 5, ... seconds without looking at the context:   *)
(* k^2 seconds in all before attempt k.  The context can still be alive at *)
(* attempt k only if that is less than RepoOperationTO.                    *)
(***************************************************************************)
InTime(counter) == counter * counter < RepoOperationTO
=============================================================================
