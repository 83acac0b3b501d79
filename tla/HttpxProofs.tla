---------------------------- MODULE HttpxProofs ----------------------------
(***************************************************************************)
(* Theorems about Client.Do, for any calls and any MaxRetries.  And, at    *)
(* the end, about ClientsMC: what ContractProofs proves of the contract    *)
(* reader holds of the behaviours that TLC checks it on.                   *)
(***************************************************************************)
EXTENDS ClientsMC, TLAPS

\* A call makes one attempt, or 1 + MaxRetries when it may be repeated.
LEMMA AttemptsBound ==
    ASSUME NEW c
    PROVE  /\ Attempts(IsIdempotent(c)) \in 1 .. 1 + MaxRetries
           /\ c \notin Idempotent => Attempts(IsIdempotent(c)) = 1
  BY MaxRetriesAssumption DEF Attempts, IsIdempotent

\* What AttemptInv says of one call.
CallInv(c) ==
    /\ phase[c] \in {"attempt", "backoff", "done"}
    /\ attempt[c] \in 1 .. 1 + MaxRetries
    /\ result[c] \in {"none", "ok", "error"}
    /\ wire[c] \in 0 .. 1 + MaxRetries
    /\ effects[c] \in 0 .. 1 + MaxRetries
    /\ attempt[c] <= Attempts(IsIdempotent(c))
    /\ phase[c] = "backoff" => attempt[c] < Attempts(IsIdempotent(c))
    /\ effects[c] + wire[c] <= Sent(c)
    /\ phase[c] = "done" <=> result[c] # "none"

Shape ==
    /\ phase = [c \in Calls |-> phase[c]] /\ attempt = [c \in Calls |-> attempt[c]]
    /\ cancelled \in [Calls -> BOOLEAN] /\ result = [c \in Calls |-> result[c]]
    /\ wire = [c \in Calls |-> wire[c]] /\ effects = [c \in Calls |-> effects[c]]

LEMMA InvByCall == AttemptInv <=> Shape /\ \A c \in Calls : CallInv(c)
  BY DEF AttemptInv, TypeOK, Shape, CallInv

LEMMA InvByCallNext == AttemptInv' <=> Shape' /\ (\A c \in Calls : CallInv(c))'
  BY DEF AttemptInv, TypeOK, Shape, CallInv, Sent

LEMMA InitInv == Init => AttemptInv
  BY AttemptsBound, MaxRetriesAssumption DEF Init, AttemptInv, TypeOK, Sent

\* A step of one call leaves the others alone.
OthersSame(c) ==
    \A d \in Calls \ {c} :
        /\ phase'[d] = phase[d] /\ attempt'[d] = attempt[d] /\ result'[d] = result[d]
        /\ wire'[d] = wire[d] /\ effects'[d] = effects[d]

LEMMA OneCall ==
    ASSUME AttemptInv, NEW c \in Calls, Shape', OthersSame(c), CallInv(c)'
    PROVE  AttemptInv'
  BY InvByCall, InvByCallNext DEF OthersSame, CallInv, Sent

LEMMA OnceKeeps == ASSUME AttemptInv, NEW c \in Calls, Once(c) PROVE AttemptInv'
  <1>1. Shape /\ CallInv(c)
    BY InvByCall
  <1>2. PICK outcome \in Outcomes :
          /\ effects' = IF outcome \in {"ok", "lost"}
                        THEN [effects EXCEPT ![c] = @ + 1] ELSE effects
          /\ wire' = IF outcome = "late" THEN [wire EXCEPT ![c] = @ + 1] ELSE wire
          /\ IF outcome = "ok" THEN Return(c, "ok") ELSE AttemptFailed(c, outcome)
    BY DEF Once
  <1>3. phase[c] = "attempt" /\ UNCHANGED <<attempt, cancelled>>
    BY DEF Once
  <1>4. \/ /\ phase' = [phase EXCEPT ![c] = "backoff"] /\ result' = result
           /\ attempt[c] < Attempts(IsIdempotent(c))
        \/ \E r \in {"ok", "error"} : Return(c, r)
    BY <1>2 DEF AttemptFailed
  <1>5. OthersSame(c) /\ Shape'
    BY <1>1, <1>2, <1>3, <1>4 DEF OthersSame, Return, Shape
  <1>6. /\ effects'[c] + wire'[c] <= effects[c] + wire[c] + 1
        /\ effects'[c] \in Nat /\ wire'[c] \in Nat
    BY <1>1, <1>2, MaxRetriesAssumption DEF CallInv, Shape
  <1>7. /\ phase'[c] \in {"backoff", "done"}
        /\ phase'[c] = "backoff" => attempt[c] < Attempts(IsIdempotent(c))
        /\ result'[c] \in {"none", "ok", "error"}
        /\ phase'[c] = "done" <=> result'[c] # "none"
    BY <1>1, <1>3, <1>4 DEF CallInv, Shape, Return
  <1>8. effects[c] + wire[c] <= attempt[c] - 1
    BY <1>1, <1>3 DEF CallInv, Sent
  <1>9. CallInv(c)'
    BY <1>1, <1>3, <1>6, <1>7, <1>8, MaxRetriesAssumption DEF CallInv, Sent
  <1> QED BY <1>5, <1>9, OneCall

LEMMA BackoffKeeps == ASSUME AttemptInv, NEW c \in Calls, Backoff(c) PROVE AttemptInv'
  <1>1. Shape /\ CallInv(c)
    BY InvByCall
  <1>2. phase[c] = "backoff" /\ UNCHANGED <<cancelled, wire, effects>>
    BY DEF Backoff
  <1>3. OthersSame(c) /\ Shape'
    BY <1>1, <1>2 DEF Backoff, OthersSame, Return, Shape
  <1>4. CallInv(c)'
    BY <1>1, <1>2, AttemptsBound, MaxRetriesAssumption
       DEF Backoff, Return, CallInv, Sent, Shape, IsIdempotent
  <1> QED BY <1>3, <1>4, OneCall

LEMMA LandKeeps == ASSUME AttemptInv, NEW c \in Calls, Land(c) PROVE AttemptInv'
  <1>1. Shape /\ CallInv(c)
    BY InvByCall
  <1>2. OthersSame(c) /\ Shape'
    BY <1>1 DEF Land, OthersSame, Shape
  <1>3. CallInv(c)'
    BY <1>1, MaxRetriesAssumption DEF Land, CallInv, Sent, Shape
  <1> QED BY <1>2, <1>3, OneCall

LEMMA NextInv == AttemptInv /\ [Next]_vars => AttemptInv'
  <1>1. ASSUME AttemptInv, NEW c \in Calls, Cancel(c) PROVE AttemptInv'
    BY <1>1 DEF Cancel, AttemptInv, TypeOK, Sent
  <1>2. ASSUME AttemptInv, UNCHANGED vars PROVE AttemptInv'
    BY <1>2 DEF vars, AttemptInv, TypeOK, Sent
  <1> QED BY <1>1, <1>2, OnceKeeps, BackoffKeeps, LandKeeps DEF Next, Do

LEMMA Invariance == Spec => []AttemptInv
  BY InitInv, NextInv, PTL DEF Spec

-----------------------------------------------------------------------------

LEMMA OnceAtMost ==
    ASSUME AttemptInv, NEW c \in Calls \ Idempotent
    PROVE  /\ effects[c] \in Nat /\ wire[c] \in Nat
           /\ effects[c] + wire[c] <= 1
           /\ phase[c] = "attempt" => effects[c] + wire[c] = 0
  BY AttemptsBound, MaxRetriesAssumption DEF AttemptInv, TypeOK, Sent

\* Whatever fails and whenever the context is cancelled, a call that may not be
\* repeated is applied once at most.
THEOREM AtMostOnceAlways == Spec => []AtMostOnce
  <1>1. AttemptInv => AtMostOnce
    BY OnceAtMost DEF AtMostOnce
  <1> QED BY <1>1, Invariance, PTL

LEMMA RefinesStep == AttemptInv /\ [Next]_vars => [Promise!Next]_(Promise!vars)
  <1> SUFFICES ASSUME AttemptInv, [Next]_vars
               PROVE  Promise!Next \/ UNCHANGED <<result, effects>>
    BY DEF Promise!vars
  <1>1. ASSUME NEW c \in Calls, Once(c) PROVE Promise!Next \/ UNCHANGED <<result, effects>>
    <2>1. c \in Idempotent \/ effects[c] = 0
      BY <1>1, OnceAtMost DEF Once
    <2>2. result[c] = "none"
      BY <1>1 DEF Once, AttemptInv
    <2>3. Promise!MayApply(c)
      BY <2>1 DEF Promise!MayApply
    <2>4. effects' = effects \/ effects' = [effects EXCEPT ![c] = @ + 1]
      BY <1>1 DEF Once
    <2>5. \/ result' = result
          \/ result' = [result EXCEPT ![c] = "error"]
          \/ /\ result' = [result EXCEPT ![c] = "ok"]
             /\ effects' = [effects EXCEPT ![c] = @ + 1]
      BY <1>1 DEF Once, AttemptFailed, Return
    <2> QED
      BY <2>2, <2>3, <2>4, <2>5 DEF Promise!Next, Promise!Apply, Promise!Succeed, Promise!Fail
  <1>2. ASSUME NEW c \in Calls, Backoff(c) PROVE Promise!Next \/ UNCHANGED <<result, effects>>
    <2>1. result[c] = "none"
      BY <1>2 DEF Backoff, AttemptInv
    <2> QED
      BY <1>2, <2>1 DEF Backoff, Return, Promise!Next, Promise!Fail
  <1>3. ASSUME NEW c \in Calls, Land(c) PROVE Promise!Next \/ UNCHANGED <<result, effects>>
    <2>1. c \in Idempotent \/ effects[c] = 0
      BY <1>3, OnceAtMost DEF Land
    <2> QED BY <1>3, <2>1 DEF Land, Promise!Next, Promise!Apply, Promise!MayApply
  <1>4. ASSUME NEW c \in Calls, Cancel(c) PROVE UNCHANGED <<result, effects>>
    BY <1>4 DEF Cancel
  <1> QED BY <1>1, <1>2, <1>3, <1>4 DEF Next, Do, vars

\* The client implements the abstract call its users rely on.
THEOREM ImplementsRemoteCall == Spec => KeepsPromise
  <1>1. Init => Promise!Init
    BY DEF Init, Promise!Init
  <1> QED BY <1>1, RefinesStep, Invariance, PTL DEF Spec, KeepsPromise, Promise!Spec
-----------------------------------------------------------------------------

\* Every reachable state is well typed: no call makes more attempts, leaves more
\* requests on the wire or has more effects than its attempts allow.
THEOREM TypeCorrect == Spec => []TypeOK
  <1>1. AttemptInv => TypeOK
    BY DEF AttemptInv
  <1> QED BY <1>1, Invariance, PTL

\* A call that waits under a cancelled context, or has returned, sends no request
\* any more, whatever the other calls do.
THEOREM NothingSentAfterCancel == Spec => SilentAfterCancel
  <1> DEFINE Silent(c) == cancelled[c] /\ phase[c] # "attempt" => phase'[c] # "attempt"
  <1>1. AttemptInv /\ [Next]_vars => \A c \in Calls : Silent(c)
    <2> SUFFICES ASSUME AttemptInv, [Next]_vars, NEW c \in Calls,
                        cancelled[c], phase[c] # "attempt"
                 PROVE  phase'[c] # "attempt"
      OBVIOUS
    <2>1. Shape
      BY InvByCall
    <2>2. ASSUME NEW d \in Calls, Once(d) PROVE phase'[c] # "attempt"
      BY <2>1, <2>2 DEF Once, AttemptFailed, Return, Shape
    <2>3. ASSUME NEW d \in Calls, Backoff(d) PROVE phase'[c] # "attempt"
      BY <2>1, <2>3 DEF Backoff, Return, Shape
    <2>4. ASSUME NEW d \in Calls, Cancel(d) \/ Land(d) PROVE phase'[c] # "attempt"
      BY <2>4 DEF Cancel, Land
    <2>5. CASE UNCHANGED vars
      BY <2>5 DEF vars
    <2> QED BY <2>2, <2>3, <2>4, <2>5 DEF Next, Do
  <1> QED BY <1>1, Invariance, PTL DEF Spec, SilentAfterCancel

-----------------------------------------------------------------------------
(* The composition: a behaviour of ClientsMC is one of the contract reader, so *)
(* that what is proved of a reader holds of it.                            *)

ClientsStep == InHttpx(Next) \/ InContract(Reader!Next)

LEMMA ReaderBehaves == MCSpec => Reader!Spec
  <1>1. MCInit => Reader!Init
    BY DEF MCInit
  <1>2. [ClientsStep]_all => [Reader!Next]_(Reader!vars)
    BY DEF ClientsStep, InHttpx, InContract, all, contract,
           Reader!vars, Reader!world, Reader!refs
  <1> QED BY <1>1, <1>2, PTL DEF MCSpec, ClientsStep, Reader!Spec

\* The caches of the reader are sound: one fetch of an item at a time, no failure
\* that outlives its waiters, no stack reference twice (contract.ts).
THEOREM ReaderCachesSound == MCSpec => []ContractCachesSound
  BY ReaderBehaves, ContractConstants, Reader!CachesSoundAlways, PTL DEF ContractCachesSound

\* No item is fetched without the credentials its transport needs.
THEOREM ReaderHasCredentials == MCSpec => []ContractCredentials
  BY ReaderBehaves, ContractConstants, Reader!CredentialsAlways, PTL DEF ContractCredentials

\* Nobody is served an item older than the program allows.
THEOREM ReaderServesFresh == MCSpec => ContractServedFresh
  BY ReaderBehaves, ContractConstants, Reader!ServedFreshAlways, PTL DEF ContractServedFresh

\* The reader implements the abstract one: one snapshot for everybody.
THEOREM ReaderImplementsSnapshot == MCSpec => ContractOneSnapshot
  BY ReaderBehaves, ContractConstants, Reader!ImplementsItemSnapshot, PTL DEF ContractOneSnapshot
=============================================================================
