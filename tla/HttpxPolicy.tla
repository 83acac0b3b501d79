---------------------------- MODULE HttpxPolicy ----------------------------
(***************************************************************************)
(* The retry policy of the provider's shared JSON client                   *)
(* (provider/internal/httpx): how many attempts one call to Do may make,   *)
(* and which attempt outcomes lead to another attempt.  Constant-level, so *)
(* that every resource module uses the same policy.                        *)
(*                                                                         *)
(* An attempt (`once` in the code) ends in one of these outcomes:          *)
(*   ok       2xx, decoded                                                 *)
(*   lost     the server applied the request, the caller saw an error      *)
(*            (connection reset, 5xx after the write, undecodable body)    *)
(*   dropped  the request had no effect and the caller saw an error        *)
(*            (dial failure, 429, 5xx before the write)                    *)
(*   late     the caller gave up (client timeout) while the request was    *)
(*            still on its way: it takes effect later                      *)
(*   missing  404 or 400, the object does not exist                        *)
(*   refused  any other definitive 4xx                                     *)
(***************************************************************************)
EXTENDS Naturals

CONSTANT MaxRetries     \* Client.MaxRetries

ASSUME MaxRetriesAssumption == MaxRetries \in Nat

Transient  == {"lost", "dropped", "late"}
Definitive == {"missing", "refused"}
Outcomes   == {"ok"} \cup Transient \cup Definitive

(***************************************************************************)
(* Transport errors, 429 and 5xx are tried again; another status is final. *)
(***************************************************************************)
IsRetryable(outcome) == outcome \in Transient

\* Mutant: every request is retried.
Attempts_RetriesAll(idempotent) == 1 + MaxRetries

(***************************************************************************)
(* attempts := 1; if idempotent && MaxRetries > 0 { attempts += MaxRetries}*)
(***************************************************************************)
Attempts(idempotent) == IF idempotent THEN 1 + MaxRetries ELSE 1
=============================================================================
