----------------------------- MODULE RemoteCall -----------------------------
(***************************************************************************)
(* What the provider's resources may assume of one call to a service: the  *)
(* service applies it once at most unless the caller declared it           *)
(* idempotent, a success means that it was applied, and a failure means    *)
(* nothing: the call may have been applied, or be applied later.           *)
(***************************************************************************)
EXTENDS Naturals

CONSTANTS Calls, Idempotent

VARIABLES
    result,       \* what the caller was told: "none" (nothing yet) "ok" "error"
    effects       \* how often the service applied the call

vars == <<result, effects>>

Init ==
    /\ result = [c \in Calls |-> "none"]
    /\ effects = [c \in Calls |-> 0]

MayApply(c) == c \in Idempotent \/ effects[c] = 0

\* The service applies the call, before or after the caller is told anything.
Apply(c) ==
    /\ MayApply(c)
    /\ effects' = [effects EXCEPT ![c] = @ + 1]
    /\ UNCHANGED result

Succeed(c) ==
    /\ result[c] = "none"
    /\ result' = [result EXCEPT ![c] = "ok"]
    /\ \/ effects[c] > 0 /\ UNCHANGED effects
       \/ MayApply(c) /\ effects' = [effects EXCEPT ![c] = @ + 1]

\* A failure may be reported in the step in which the service applies the call.
Fail(c) ==
    /\ result[c] = "none"
    /\ result' = [result EXCEPT ![c] = "error"]
    /\ \/ UNCHANGED effects
       \/ MayApply(c) /\ effects' = [effects EXCEPT ![c] = @ + 1]

Next == \E c \in Calls : Apply(c) \/ Succeed(c) \/ Fail(c)

Spec == Init /\ [][Next]_vars
=============================================================================
