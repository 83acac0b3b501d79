------------------------------- MODULE Httpx -------------------------------
(***************************************************************************)
(* Client.Do of the provider's shared JSON client (provider/internal/      *)
(* httpx): the attempt loop, the wait before a retry, and the context that *)
(* may be cancelled at any point, for several calls at a time.             *)
(*                                                                         *)
(* The server and the network are in the outcome of an attempt (see        *)
(* HttpxPolicy); an attempt that is given up on leaves its request on the  *)
(* wire, from where it may still reach the server, or never.               *)
(*                                                                         *)
(* Abstractions: the length of the wait and of a timeout; encoding and     *)
(* decoding, whose failures are a "refused" before and a "lost" after the  *)
(* request took effect.                                                    *)
(***************************************************************************)
EXTENDS HttpxPolicy

CONSTANTS
    Calls,
    Idempotent     \* the calls made with idempotent = true

ASSUME HttpxAssumption == Idempotent \subseteq Calls

VARIABLES
    phase,         \* "attempt" (a request is out) "backoff" "done"
    attempt,       \* which attempt this is
    cancelled,     \* the context of the call is done
    result,        \* what Do returned: "none" (not yet) "ok" "error"
    wire,          \* requests given up on that are still on their way
    effects        \* how often the server applied the request

vars == <<phase, attempt, cancelled, result, wire, effects>>

IsIdempotent(c) == c \in Idempotent

TypeOK ==
    /\ phase \in [Calls -> {"attempt", "backoff", "done"}]
    /\ attempt \in [Calls -> 1 .. 1 + MaxRetries]
    /\ cancelled \in [Calls -> BOOLEAN]
    /\ result \in [Calls -> {"none", "ok", "error"}]
    /\ wire \in [Calls -> 0 .. 1 + MaxRetries]
    /\ effects \in [Calls -> 0 .. 1 + MaxRetries]

Init ==
    /\ phase = [c \in Calls |-> "attempt"]
    /\ attempt = [c \in Calls |-> 1]
    /\ cancelled = [c \in Calls |-> FALSE]
    /\ result = [c \in Calls |-> "none"]
    /\ wire = [c \in Calls |-> 0]
    /\ effects = [c \in Calls |-> 0]

-----------------------------------------------------------------------------

Return(c, r) ==
    /\ phase' = [phase EXCEPT ![c] = "done"]
    /\ result' = [result EXCEPT ![c] = r]

\* Mutant: once the attempts are used up Do returns nil.
AttemptFailed_ForgetsError(c, outcome) ==
    IF IsRetryable(outcome) /\ attempt[c] < Attempts(IsIdempotent(c))
    THEN phase' = [phase EXCEPT ![c] = "backoff"] /\ UNCHANGED result
    ELSE Return(c, IF IsRetryable(outcome) THEN "ok" ELSE "error")

\* Mutant: one attempt too many.
AttemptFailed_OffByOne(c, outcome) ==
    IF IsRetryable(outcome) /\ attempt[c] <= Attempts(IsIdempotent(c))
    THEN phase' = [phase EXCEPT ![c] = "backoff"] /\ UNCHANGED result
    ELSE Return(c, "error")

\* The tail of the loop body: try again while attempts are left.
AttemptFailed(c, outcome) ==
    IF IsRetryable(outcome) /\ attempt[c] < Attempts(IsIdempotent(c))
    THEN phase' = [phase EXCEPT ![c] = "backoff"] /\ UNCHANGED result
    ELSE Return(c, "error")

\* One attempt ends.  With the context done before it starts nothing is sent,
\* which is a "dropped" here; with the context done while the request is out
\* any of the outcomes of a broken connection is possible.
Once(c) ==
    /\ phase[c] = "attempt"
    /\ \E outcome \in Outcomes :
          /\ effects' = IF outcome \in {"ok", "lost"}
                        THEN [effects EXCEPT ![c] = @ + 1] ELSE effects
          /\ wire' = IF outcome = "late" THEN [wire EXCEPT ![c] = @ + 1] ELSE wire
          /\ IF outcome = "ok" THEN Return(c, "ok") ELSE AttemptFailed(c, outcome)
    /\ UNCHANGED <<attempt, cancelled>>

\* Mutant: the wait does not look at the context.
Backoff_IgnoresContext(c) ==
    /\ phase[c] = "backoff"
    /\ phase' = [phase EXCEPT ![c] = "attempt"]
    /\ attempt' = [attempt EXCEPT ![c] = @ + 1]
    /\ UNCHANGED <<cancelled, result, wire, effects>>

\* Mutant: retries are not counted.
Backoff_NeverCounts(c) ==
    /\ phase[c] = "backoff"
    /\ IF cancelled[c] THEN Return(c, "error")
                       ELSE phase' = [phase EXCEPT ![c] = "attempt"] /\ UNCHANGED result
    /\ UNCHANGED <<attempt, cancelled, wire, effects>>

\* The wait before a retry ends with the context or with the timer.  When both
\* are ready the timer may win: the attempt that follows sends nothing.
Backoff(c) ==
    /\ phase[c] = "backoff"
    /\ \/ /\ cancelled[c]
          /\ Return(c, "error") /\ UNCHANGED attempt
       \/ /\ cancelled[c]
          /\ attempt' = [attempt EXCEPT ![c] = @ + 1]
          /\ IF attempt'[c] < Attempts(IsIdempotent(c))
             THEN UNCHANGED <<phase, result>>
             ELSE Return(c, "error")
       \/ /\ ~cancelled[c]
          /\ phase' = [phase EXCEPT ![c] = "attempt"]
          /\ attempt' = [attempt EXCEPT ![c] = @ + 1]
          /\ UNCHANGED result
    /\ UNCHANGED <<cancelled, wire, effects>>

\* The engine cancels the operation the call belongs to.
Cancel(c) ==
    /\ ~cancelled[c]
    /\ cancelled' = [cancelled EXCEPT ![c] = TRUE]
    /\ UNCHANGED <<phase, attempt, result, wire, effects>>

\* A request that was given up on reaches the server, or is lost for good.
Land(c) ==
    /\ wire[c] > 0
    /\ wire' = [wire EXCEPT ![c] = @ - 1]
    /\ effects' \in {effects, [effects EXCEPT ![c] = @ + 1]}
    /\ UNCHANGED <<phase, attempt, cancelled, result>>

Do(c) == Once(c) \/ Backoff(c)

Next == \E c \in Calls : Do(c) \/ Cancel(c) \/ Land(c)

Spec == Init /\ [][Next]_vars

\* An attempt ends: every client is built with a timeout.  A wait ends.
FairSpec == Spec /\ \A c \in Calls : WF_vars(Do(c))

-----------------------------------------------------------------------------
(* Properties *)

\* The client keeps what RemoteCall promises its callers.
Promise == INSTANCE RemoteCall WITH
    Calls <- Calls, Idempotent <- Idempotent, result <- result, effects <- effects
KeepsPromise == Promise!Spec

\* A call that may not be repeated is applied once at most, counting the request
\* that is still on its way after the caller gave up.
AtMostOnce ==
    \A c \in Calls \ Idempotent : effects[c] + wire[c] <= 1

\* Once the context is done and no request is out, no request follows.
SilentAfterCancel ==
    [][ \A c \in Calls :
            cancelled[c] /\ phase[c] # "attempt" => phase'[c] # "attempt" ]_vars

\* Do returns.
Returns == \A c \in Calls : <>(result[c] # "none")

-----------------------------------------------------------------------------
(* Invariant for the proofs: every request was sent by an attempt of its own, *)
(* and a call returns when it is done.                                        *)

Sent(c) == IF phase[c] = "attempt" THEN attempt[c] - 1 ELSE attempt[c]

AttemptInv ==
    /\ TypeOK
    /\ \A c \in Calls :
          /\ attempt[c] <= Attempts(IsIdempotent(c))
          /\ phase[c] = "backoff" => attempt[c] < Attempts(IsIdempotent(c))
          /\ effects[c] + wire[c] <= Sent(c)
          /\ phase[c] = "done" <=> result[c] # "none"
=============================================================================
