---------------------------- MODULE LiteLLMKey ----------------------------
(***************************************************************************)
(* The provider's LiteLLM key registration (provider/litellm/key.go): the  *)
(* program generates the secret and the provider registers it on the admin *)
(* plane, replaces it by deleting first, revokes it, and on refresh drops  *)
(* it from the state when the plane no longer knows it.                    *)
(*                                                                         *)
(* Actors: the engine with the provider inside it, the author of the       *)
(* program, an administrator of the plane, and the network.                *)
(*                                                                         *)
(* Abstractions: a token hash is the secret it hashes, so that the plane   *)
(* holds a key under each value at most; models, budgets, tags, durations, *)
(* metadata and aliases are one configuration; /key/list and the lookups   *)
(* that follow it read the plane at one instant.                           *)
(***************************************************************************)
EXTENDS HttpxPolicy, PulumiEngine, FiniteSets

CONSTANTS
    Values,       \* secrets the program may declare
    HandValues,   \* secrets an administrator registers
    Aliases, Configs,
    Teams,        \* may hold NoTeam
    NoTeam,       \* teamId is empty
    NoKey, NoGoal, NoState,
    MissingAs,    \* how the plane answers for a key it does not know:
                  \* "status" (404 or 400) or "errorBody" (200 with {error})
    HandKinds,    \* "create" "delete"
    FaultKinds,   \* "dropped" "lost" "lostGenerate" "late" "uninspected" "crash"
    MaxEdits, MaxHands, MaxFaults

ASSUME LiteLLMKeyAssumption ==
    /\ Values \cap HandValues = {}
    /\ MissingAs \in {"status", "errorBody"}
    /\ HandKinds \subseteq {"create", "delete"}
    /\ FaultKinds \subseteq {"dropped", "lost", "lostGenerate", "late", "uninspected", "crash"}
    /\ MaxEdits \in Nat /\ MaxHands \in Nat /\ MaxFaults \in Nat

VARIABLES
    keys,         \* the admin plane: the key registered under each secret
    fresh,        \* the secrets no administrator used yet
    late,         \* /key/generate requests given up on that will still land
    unanswered,   \* the secrets of those given up on, for the properties
    goal,         \* the inputs the program declares
    st,           \* what the state file records
    command,      \* the pulumi command in progress
    kind, pc, attempt,
    found,        \* the hashes Create is about to clear
    edits, hands, faults

requests == <<late, unanswered>>
plane    == <<keys, fresh, requests>>
engine   == <<goal, st, command>>
op       == <<kind, pc, attempt, found>>
budgets  == <<edits, hands, faults>>
vars     == <<plane, engine, op, budgets>>

-----------------------------------------------------------------------------
(* Types *)

AllValues == Values \cup HandValues

\* Check requires an alias and a value; the other inputs are optional.
KeyArgs == [alias : Aliases, team : Teams, value : Values, config : Configs]

\* `made` marks, for the properties only, a key this provider registered.
Key == [alias : Aliases, team : Teams, config : Configs, made : BOOLEAN]

ASSUME NullsAssumption ==
    NoKey \notin Key /\ NoGoal \notin KeyArgs /\ NoState \notin KeyArgs

Registered(v) == keys[v] # NoKey

TypeOK ==
    /\ keys \in [AllValues -> Key \cup {NoKey}]
    /\ fresh \subseteq HandValues
    /\ late \subseteq KeyArgs
    /\ unanswered \subseteq Values
    /\ goal \in KeyArgs \cup {NoGoal}
    /\ st \in KeyArgs \cup {NoState}
    /\ command \in {"none", "up", "refresh"}
    /\ kind \in {"none", "create", "read", "update", "delete"}
    /\ pc \in {"idle", "find", "clear", "generate", "info", "update", "delete"}
    /\ attempt \in 1 .. 1 + MaxRetries
    /\ found \subseteq AllValues
    /\ edits \in 0 .. MaxEdits
    /\ hands \in 0 .. MaxHands
    /\ faults \in 0 .. MaxFaults

-----------------------------------------------------------------------------
(* The engine starts an operation *)

DeleteBeforeReplace == TRUE

\* An empty team never asks for a replacement: it may be one that is unknown yet.
Diff(s, g) ==
    IF s.value # g.value \/ (g.team # NoTeam /\ s.team # g.team) THEN "replace"
    ELSE IF s.alias # g.alias \/ s.config # g.config THEN "update"
    ELSE "none"

IsDeclared == goal # NoGoal
IsRecorded == st # NoState
DiffNow    == IF IsDeclared /\ IsRecorded THEN Diff(st, goal) ELSE "none"

CreateDue    == MayCreate(IsDeclared, IsRecorded, DiffNow, DeleteBeforeReplace)
UpdateDue    == MayUpdate(IsDeclared, IsRecorded, DiffNow)
DeleteDue    == MayDelete(IsDeclared, IsRecorded, DiffNow, DeleteBeforeReplace)
SomethingDue == CreateDue \/ UpdateDue \/ DeleteDue

BeginUp ==
    /\ command = "none" /\ SomethingDue
    /\ command' = "up"
    /\ UNCHANGED <<plane, goal, st, op, budgets>>

EndUp ==
    /\ command = "up" /\ pc = "idle" /\ ~SomethingDue
    /\ command' = "none"
    /\ UNCHANGED <<plane, goal, st, op, budgets>>

Start(k, first) ==
    /\ command = "up" /\ pc = "idle"
    /\ kind' = k /\ pc' = first
    /\ UNCHANGED <<plane, engine, attempt, found, budgets>>

StartCreate == CreateDue /\ Start("create", "find")
StartUpdate == UpdateDue /\ Start("update", "update")
StartDelete == DeleteDue /\ Start("delete", "delete")

\* `pulumi refresh` reads the recorded resource.
StartRead ==
    /\ command = "none" /\ IsRecorded
    /\ command' = "refresh" /\ kind' = "read" /\ pc' = "info"
    /\ UNCHANGED <<plane, goal, st, attempt, found, budgets>>

-----------------------------------------------------------------------------
(* How an operation moves and ends *)

GoIdle == kind' = "none" /\ pc' = "idle" /\ attempt' = 1 /\ found' = {}

GoTo(next) == pc' = next /\ attempt' = 1 /\ UNCHANGED kind

\* The operation returns an error: the command stops and the state stays.
Fail == GoIdle /\ command' = "none" /\ UNCHANGED <<goal, st>>

Recorded(s) ==
    /\ GoIdle
    /\ st' = s
    /\ command' = IF command = "refresh" THEN "none" ELSE command
    /\ UNCHANGED goal

Fault(f) ==
    /\ f \in FaultKinds /\ faults < MaxFaults
    /\ faults' = faults + 1
    /\ UNCHANGED <<edits, hands>>

NoFault == UNCHANGED budgets

\* Mutant: one attempt too many.
RetryOrFail_OffByOne(idempotent) ==
    IF attempt <= Attempts(idempotent)
    THEN attempt' = attempt + 1 /\ UNCHANGED <<kind, pc, found, engine>>
    ELSE Fail

RetryOrFail(idempotent) ==
    IF attempt < Attempts(idempotent)
    THEN attempt' = attempt + 1 /\ UNCHANGED <<kind, pc, found, engine>>
    ELSE Fail

Dropped == Fault("dropped") /\ RetryOrFail(TRUE) /\ UNCHANGED plane

-----------------------------------------------------------------------------
(* Create: clear what is registered under the alias and team, then register *)

\* Mutant: the alias alone decides.
Matches_AliasOnly(alias, team) ==
    {v \in AllValues : Registered(v) /\ keys[v].alias = alias}

Matches(alias, team) ==
    {v \in AllValues : Registered(v) /\ keys[v].alias = alias /\ keys[v].team = team}

\* Mutant: one match is enough.
FindKeyHashesByAlias_One ==
    /\ pc = "find"
    /\ \/ \E hashes \in SUBSET Matches(goal.alias, goal.team) :
             /\ IF Cardinality(hashes) = 1 \/ Matches(goal.alias, goal.team) = {}
                THEN NoFault ELSE Fault("uninspected")
             /\ found' = hashes
             /\ GoTo(IF hashes = {} THEN "generate" ELSE "clear")
             /\ UNCHANGED <<plane, engine>>
       \/ Dropped

\* A key whose /key/info fails counts as no match.
FindKeyHashesByAlias ==
    /\ pc = "find"
    /\ \/ \E hashes \in SUBSET Matches(goal.alias, goal.team) :
             /\ IF hashes = Matches(goal.alias, goal.team) THEN NoFault
                                                          ELSE Fault("uninspected")
             /\ found' = hashes
             /\ GoTo(IF hashes = {} THEN "generate" ELSE "clear")
             /\ UNCHANGED <<plane, engine>>
       \/ Dropped

Without(vs) == [v \in AllValues |-> IF v \in vs THEN NoKey ELSE keys[v]]

\* The plane refuses a list with a key it does not know, having deleted the
\* others or not.
ClearFound ==
    /\ pc = "clear"
    /\ \/ /\ \A v \in found : Registered(v)
          /\ keys' = Without(found)
          /\ UNCHANGED <<fresh, requests>>
          /\ \/ NoFault /\ GoTo("generate") /\ UNCHANGED <<found, engine>>
             \/ Fault("lost") /\ RetryOrFail(TRUE)
       \/ /\ \E v \in found : ~Registered(v)
          /\ keys' \in {keys, Without(found)}
          /\ NoFault /\ Fail /\ UNCHANGED <<fresh, requests>>
       \/ Dropped

Register(a) ==
    keys' = [keys EXCEPT ![a.value] =
        [alias |-> a.alias, team |-> a.team, config |-> a.config, made |-> TRUE]]

\* The caller stops waiting for the registration of the declared secret, or has
\* its answer and nothing more under that secret is on its way.
GiveUp   == RetryOrFail(FALSE) /\ unanswered' = unanswered \cup {goal.value}
Answered == unanswered' = {v \in unanswered : v # goal.value \/ \E a \in late : a.value = v}

\* Never retried.  A secret that is registered already is refused.
Generate ==
    /\ pc = "generate"
    /\ \/ /\ ~Registered(goal.value)
          /\ Register(goal)
          /\ UNCHANGED <<fresh, late>>
          /\ \/ NoFault /\ Recorded(goal) /\ Answered
             \/ Fault("lostGenerate") /\ GiveUp
       \/ Registered(goal.value) /\ NoFault /\ Fail /\ UNCHANGED plane
       \/ Fault("dropped") /\ RetryOrFail(FALSE) /\ UNCHANGED plane
       \/ /\ Fault("late") /\ GiveUp
          /\ late' = late \cup {goal} /\ UNCHANGED <<keys, fresh>>

-----------------------------------------------------------------------------
(* Read, Update, Delete *)

\* Mutant: a missing key is an error like any other.
Read_KeepsMissing ==
    /\ pc = "info"
    /\ \/ NoFault /\ UNCHANGED plane
          /\ IF Registered(st.value) THEN Recorded(st) ELSE Fail
       \/ Dropped

\* Only a definitive 404 or 400 drops the resource.
Read ==
    /\ pc = "info"
    /\ \/ NoFault /\ UNCHANGED plane
          /\ IF Registered(st.value) THEN Recorded(st)
             ELSE IF MissingAs = "status" THEN Recorded(NoState) ELSE Fail
       \/ Dropped

\* Keyed on the secret; the team is left as it is, and cleared fields are reset.
Update ==
    /\ pc = "update"
    /\ \/ /\ Registered(goal.value)
          /\ keys' = [keys EXCEPT ![goal.value].alias = goal.alias,
                                  ![goal.value].config = goal.config]
          /\ UNCHANGED <<fresh, requests>>
          /\ \/ NoFault /\ Recorded(goal)
             \/ Fault("lost") /\ RetryOrFail(TRUE)
       \/ ~Registered(goal.value) /\ NoFault /\ Fail /\ UNCHANGED plane
       \/ Dropped

\* Mutant: every error counts as already gone.
Delete_AnyErrorIsGone ==
    /\ pc = "delete"
    /\ \/ /\ keys' = Without({st.value})
          /\ UNCHANGED <<fresh, requests>>
          /\ \/ NoFault /\ Recorded(NoState)
             \/ Fault("lost") /\ RetryOrFail(TRUE)
       \/ Fault("dropped") /\ Recorded(NoState) /\ UNCHANGED plane

\* Already gone (404 or 400) is success, an error body is not.
Delete ==
    /\ pc = "delete"
    /\ \/ /\ Registered(st.value)
          /\ keys' = Without({st.value})
          /\ UNCHANGED <<fresh, requests>>
          /\ \/ NoFault /\ Recorded(NoState)
             \/ Fault("lost") /\ RetryOrFail(TRUE)
       \/ /\ ~Registered(st.value)
          /\ NoFault /\ UNCHANGED plane
          /\ IF MissingAs = "status" THEN Recorded(NoState) ELSE Fail
       \/ Dropped

-----------------------------------------------------------------------------
(* The rest of the world *)

\* A /key/generate that was given up on reaches the plane after all.
Land(a) ==
    /\ a \in late
    /\ late' = late \ {a}
    /\ IF Registered(a.value) THEN UNCHANGED keys ELSE Register(a)
    /\ UNCHANGED <<fresh, unanswered, engine, op, budgets>>

Crash ==
    /\ pc # "idle"
    /\ Fault("crash") /\ Fail /\ UNCHANGED plane

EditProgram ==
    /\ command = "none" /\ edits < MaxEdits
    /\ edits' = edits + 1
    /\ goal' \in (KeyArgs \cup {NoGoal}) \ {goal}
    /\ UNCHANGED <<plane, st, command, op, hands, faults>>

ByHand(k) ==
    /\ k \in HandKinds /\ hands < MaxHands
    /\ hands' = hands + 1
    /\ UNCHANGED <<requests, engine, op, edits, faults>>

HandCreate ==
    /\ ByHand("create")
    /\ \E v \in fresh, a \in Aliases, t \in Teams, c \in Configs :
          /\ fresh' = fresh \ {v}
          /\ keys' = [keys EXCEPT ![v] =
                [alias |-> a, team |-> t, config |-> c, made |-> FALSE]]

HandDelete ==
    /\ ByHand("delete")
    /\ \E v \in AllValues : Registered(v) /\ keys' = Without({v})
    /\ UNCHANGED fresh

-----------------------------------------------------------------------------

Init ==
    /\ keys = [v \in AllValues |-> NoKey] /\ fresh = HandValues
    /\ late = {} /\ unanswered = {}
    /\ goal = NoGoal /\ st = NoState /\ command = "none"
    /\ kind = "none" /\ pc = "idle" /\ attempt = 1 /\ found = {}
    /\ edits = 0 /\ hands = 0 /\ faults = 0

Provider ==
    \/ FindKeyHashesByAlias \/ ClearFound \/ Generate
    \/ Read \/ Update \/ Delete

Up == BeginUp \/ EndUp \/ StartCreate \/ StartUpdate \/ StartDelete

World ==
    \/ \E a \in late : Land(a)
    \/ Crash \/ EditProgram \/ HandCreate \/ HandDelete

Next == Provider \/ Up \/ StartRead \/ World

Spec == Init /\ [][Next]_vars

\* `pulumi up` and `pulumi refresh` are run again and again, and proceed.
FairSpec ==
    /\ Spec
    /\ WF_vars(Provider)
    /\ SF_vars(Up) /\ SF_vars(StartRead)

-----------------------------------------------------------------------------
(* Properties *)

\* Registering, rotating and revoking keys never removes a key an administrator
\* registered under another alias or for another team.
ForeignKeysKept ==
    [][ \A v \in AllValues :
            /\ Registered(v) /\ ~keys[v].made /\ keys'[v] = NoKey
            /\ hands' = hands
            => IsDeclared /\ keys[v].alias = goal.alias /\ keys[v].team = goal.team ]_vars

AtRest == command = "none"

\* The provider registered the key and was told so.
Known(v) == Registered(v) /\ keys[v].made /\ v \notin unanswered

\* Between commands every key the provider registered is the recorded one, but
\* for those whose /key/generate was given up on: no other credential is left
\* that nobody can find or revoke.
OnlyRecordedLives ==
    AtRest => \A v \in AllValues : Known(v) => IsRecorded /\ v = st.value

\* Even when such a request took effect: of the keys with the recorded alias and
\* team the recorded one alone is left, no stale credential survives a Create.
\* Without inspections that fail and late arrivals, with one alias, and without
\* clearing teamId.
NoStaleCredential ==
    AtRest /\ IsRecorded =>
        \A v \in AllValues :
            Registered(v) /\ keys[v].made /\ keys[v].alias = st.alias /\ keys[v].team = st.team
            => v = st.value

\* Nothing is left to do and the recorded key is served.
Settled == ~SomethingDue /\ (IsRecorded => Registered(st.value))

\* Once edits, faults and work by hand are over, repeated up and refresh lead to
\* a state with nothing left to do in which the recorded key is served.
\* With one team: a secret whose registration for another team went unanswered
\* is found under that team only, and refused for the new one.
Converges == <>[]Settled
-----------------------------------------------------------------------------
(* Invariants for the proofs *)

\* The program is not edited under a command, Create runs without a record, and
\* an update keeps the recorded secret.
OpOK ==
    /\ command = "none" => pc = "idle"
    /\ pc \in {"find", "clear", "generate"} => IsDeclared /\ ~IsRecorded
    /\ pc = "update" => IsDeclared /\ IsRecorded /\ goal.value = st.value
    /\ pc \in {"info", "delete"} => IsRecorded

TypeInv == TypeOK /\ OpOK

\* Whatever is still on its way is known to be, and every other key of the
\* provider is the recorded one, also while a command runs.
LiveInv ==
    /\ TypeInv
    /\ \A a \in late : a.value \in unanswered
    /\ \A v \in AllValues : Known(v) => IsRecorded /\ v = st.value
=============================================================================
