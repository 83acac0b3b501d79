-------------------------- MODULE OnePasswordItem --------------------------
(***************************************************************************)
(* The provider's 1Password Item resource (provider/onepassword/item.go)   *)
(* against a Connect server, driven by the Pulumi engine: find-or-create   *)
(* by title, read-modify-write updates that merge the declared fields into *)
(* the live item, deletion by id, and what the state file records.         *)
(*                                                                         *)
(* Actors: the engine with the provider inside it (one operation at a      *)
(* time), the author of the program (EditProgram), a person working in the *)
(* vault (the Hand* actions) and the network (the outcome of an attempt).  *)
(*                                                                         *)
(* Abstractions: one vault; an item keeps, of each label and without one,  *)
(* the values of its fields in their order; the order of different labels, *)
(* category, type, purpose and urls are part of nothing checked here; the  *)
(* transport inputs are not modelled.                                      *)
(***************************************************************************)
EXTENDS HttpxPolicy, PulumiEngine, FiniteSets, Sequences

CONSTANTS
    Uuids,       \* the ids Connect hands out, each at most once
    Titles,
    Labels,
    NoLabel,     \* what a field has that nobody labelled
    Values,      \* values a program declares
    Hand,        \* a value only a person writes
    Absent,      \* the program declares no field of that label
    NoItem,      \* nothing stored under an id
    NoGoal,      \* the program does not declare the resource
    NoState,     \* the state file does not hold the resource
    NoUuid,
    HandKinds,   \* which things a person does: "create" "write" "delete" "rename"
    FaultKinds,  \* which faults happen: "lost" "dropped" "late" "crash"
    MaxEdits,    \* bound on program edits
    MaxHands,    \* bound on things done by hand
    MaxFaults    \* bound on faults

ASSUME OnePasswordAssumption ==
    /\ NoLabel \notin Labels
    /\ Hand \notin Values
    /\ Absent \notin Values \cup {Hand}
    /\ HandKinds \subseteq {"create", "write", "delete", "rename"}
    /\ FaultKinds \subseteq Transient \cup {"crash"}
    /\ Titles # {}
    /\ MaxEdits \in Nat /\ MaxHands \in Nat /\ MaxFaults \in Nat

VARIABLES
    items,       \* the vault: what is stored under each id
    unborn,      \* ids not handed out yet
    late,        \* requests the provider gave up on that will still land
    goal,        \* the inputs the program declares
    st,          \* what the state file records
    pending,     \* old generations the engine still has to delete
    running,     \* a `pulumi up` is in progress
    kind,        \* the operation in progress
    pc,          \* the request it is about to make
    attempt,     \* which attempt of that request
    target,      \* the item it works on
    seen,        \* the fields its GET returned
    edits, hands, faults

vault   == <<items, unborn, late>>
state   == <<goal, st, pending>>
engine  == <<state, running>>
op      == <<kind, pc, attempt, target, seen>>
budgets == <<edits, hands, faults>>
vars    == <<vault, engine, op, budgets>>

-----------------------------------------------------------------------------
(* Types *)

\* Check refuses a second field of one label, so a program has one value of each.
\* The item has as many fields of a label, or without one, as people give it.
Declared    == [Labels -> Values \cup {Absent}]
FieldLabels == Labels \cup {NoLabel}
Stored      == [FieldLabels -> Seq(Values \cup {Hand})]

LabelsOf(fields) == {l \in Labels : fields[l] # Absent}

\* Check rejects an empty field list.
Goals == {g \in [title : Titles, fields : Declared] : LabelsOf(g.fields) # {}}

\* `origin` tells, for the properties only, an item this provider POSTed from one
\* a person made, and either from one that a person renamed since.
Item   == [title : Titles, fields : Stored, origin : {"provider", "person", "renamed"}]
States == [uuid : Uuids, title : Titles, contentHash : Declared,
           managedLabels : SUBSET Labels]

ASSUME NullsAssumption ==
    NoItem \notin Item /\ NoGoal \notin Goals /\ NoState \notin States

Request == [verb : {"PUT", "POST", "DELETE"}, uuid : Uuids \cup {NoUuid},
            title : Titles, fields : Stored]

Live(u)        == items[u] # NoItem
Titled(t)      == {u \in Uuids : Live(u) /\ items[u].title = t}
NothingSeen    == [l \in FieldLabels |-> <<>>]

TypeOK ==
    /\ items \in [Uuids -> Item \cup {NoItem}]
    /\ unborn \subseteq Uuids
    /\ late \subseteq Request
    /\ goal \in Goals \cup {NoGoal}
    /\ st \in States \cup {NoState}
    /\ pending \subseteq Uuids
    /\ running \in BOOLEAN
    /\ kind \in {"none", "create", "update", "delete", "deleteOld"}
    /\ pc \in {"idle", "find", "get", "put", "post", "del"}
    /\ attempt \in 1 .. 1 + MaxRetries
    /\ target \in Uuids \cup {NoUuid}
    /\ seen \in Stored
    /\ edits \in 0 .. MaxEdits
    /\ hands \in 0 .. MaxHands
    /\ faults \in 0 .. MaxFaults

-----------------------------------------------------------------------------
(* Pure parts of the resource *)

\* Category, types and urls are fixed, so the digest tells field lists apart.
ContentHash(fields) == fields

StateOuts(g, u) ==
    [uuid |-> u, title |-> g.title, contentHash |-> ContentHash(g.fields),
     managedLabels |-> LabelsOf(g.fields)]

DeleteBeforeReplace == FALSE

\* Mutant: a changed value asks for a replacement.
Diff_ValueReplaces(s, g) ==
    IF s.title # g.title \/ ContentHash(g.fields) # s.contentHash THEN "replace" ELSE "none"

Diff(s, g) ==
    IF s.title # g.title THEN "replace"
    ELSE IF ContentHash(g.fields) # s.contentHash THEN "update"
    ELSE "none"

\* The declared fields as the item has them.
ManagedFields(fields) ==
    [l \in FieldLabels |-> IF l \in Labels /\ fields[l] # Absent THEN <<fields[l]>> ELSE <<>>]

\* byLabel: of several fields of one label the last one, and none without a label.
ByLabel(existing) ==
    [l \in FieldLabels |-> IF l \in Labels /\ existing[l] # <<>>
                           THEN <<existing[l][Len(existing[l])]>> ELSE <<>>]

\* Mutant: labels dropped from the program are kept.
BuildMergedItemBody_KeepsDropped(existing, fields, priorManagedLabels) ==
    [l \in FieldLabels |-> IF ManagedFields(fields)[l] # <<>> THEN ManagedFields(fields)[l]
                           ELSE ByLabel(existing)[l]]

\* Mutant: of several fields of one label the first is kept.
BuildMergedItemBody_KeepsFirst(existing, fields, priorManagedLabels) ==
    [l \in FieldLabels |-> IF ManagedFields(fields)[l] # <<>> THEN ManagedFields(fields)[l]
                           ELSE IF l \in priorManagedLabels \/ ByLabel(existing)[l] = <<>> THEN <<>>
                           ELSE <<existing[l][1]>>]

\* Declared fields win, labels managed before and no longer declared go, the
\* last field of every other label stays as the GET returned it; a field without
\* a label, and all but the last of one label, are lost.
BuildMergedItemBody(existing, fields, priorManagedLabels) ==
    [l \in FieldLabels |-> IF ManagedFields(fields)[l] # <<>> THEN ManagedFields(fields)[l]
                           ELSE IF l \in priorManagedLabels THEN <<>>
                           ELSE ByLabel(existing)[l]]

PriorManagedLabels == IF kind = "update" THEN st.managedLabels ELSE {}

-----------------------------------------------------------------------------
(* The engine starts an operation *)

IsDeclared == goal # NoGoal
IsRecorded == st # NoState
DiffNow    == IF IsDeclared /\ IsRecorded THEN Diff(st, goal) ELSE "none"

\* The steps the engine has left, given what the program declares.
CreateDue     == MayCreate(IsDeclared, IsRecorded, DiffNow, DeleteBeforeReplace)
UpdateDue     == MayUpdate(IsDeclared, IsRecorded, DiffNow)
DeleteDue     == MayDelete(IsDeclared, IsRecorded, DiffNow, DeleteBeforeReplace)
PendingDue    == MayDeletePending(IsDeclared, IsRecorded, DiffNow, pending)
SomethingDue  == CreateDue \/ UpdateDue \/ DeleteDue \/ PendingDue

\* Somebody runs `pulumi up`; the run ends when nothing is left to do, and
\* stops at the first operation that fails (Fail below).
BeginUp ==
    /\ ~running /\ SomethingDue
    /\ running' = TRUE
    /\ UNCHANGED <<vault, state, op, budgets>>

EndUp ==
    /\ running /\ pc = "idle" /\ ~SomethingDue
    /\ running' = FALSE
    /\ UNCHANGED <<vault, state, op, budgets>>

Start(k, first, u) ==
    /\ running /\ pc = "idle"
    /\ kind' = k
    /\ pc' = first
    /\ target' = u
    /\ UNCHANGED <<vault, engine, attempt, seen, budgets>>

StartCreate == CreateDue /\ Start("create", "find", NoUuid)
StartUpdate == UpdateDue /\ Start("update", "get", st.uuid)
StartDelete == DeleteDue /\ Start("delete", "del", st.uuid)
StartDeletePending == PendingDue /\ \E u \in pending : Start("deleteOld", "del", u)

-----------------------------------------------------------------------------
(* How an operation moves, ends well and ends badly *)

GoIdle ==
    /\ kind' = "none"
    /\ pc' = "idle"
    /\ attempt' = 1
    /\ target' = NoUuid
    /\ seen' = NothingSeen

GoTo(next) ==
    /\ pc' = next
    /\ attempt' = 1
    /\ UNCHANGED kind

\* The operation returns an error: the engine keeps the state it had.
Fail == GoIdle /\ running' = FALSE /\ UNCHANGED state

\* Create returned: the new generation is recorded, and a replaced one waits
\* for its deletion.
CreateDone(u) ==
    /\ st' = StateOuts(goal, u)
    /\ pending' = IF IsRecorded THEN pending \cup {st.uuid} ELSE pending
    /\ UNCHANGED <<goal, running>>
    /\ GoIdle

UpdateDone ==
    /\ st' = StateOuts(goal, target)
    /\ UNCHANGED <<goal, pending, running>>
    /\ GoIdle

DeleteDone ==
    /\ IF kind = "deleteOld"
       THEN pending' = pending \ {target} /\ UNCHANGED st
       ELSE st' = NoState /\ UNCHANGED pending
    /\ UNCHANGED <<goal, running>>
    /\ GoIdle

Fault(f) ==
    /\ f \in FaultKinds
    /\ faults < MaxFaults
    /\ faults' = faults + 1
    /\ UNCHANGED <<edits, hands>>

NoFault == UNCHANGED budgets

\* Mutant: one attempt too many.
RetryOrFail_OffByOne(idempotent) ==
    IF attempt <= Attempts(idempotent)
    THEN attempt' = attempt + 1 /\ UNCHANGED <<kind, pc, target, seen, engine>>
    ELSE Fail

\* The loop of Do after a failed attempt.
RetryOrFail(idempotent) ==
    IF attempt < Attempts(idempotent)
    THEN attempt' = attempt + 1 /\ UNCHANGED <<kind, pc, target, seen, engine>>
    ELSE Fail

-----------------------------------------------------------------------------
(* Requests that read *)

ReadFails ==
    /\ pc \in {"find", "get"}
    /\ Fault("dropped")
    /\ RetryOrFail(TRUE)
    /\ UNCHANGED vault

\* Mutant: any match is adopted.
FindItemIDByTitle_AnyMatch ==
    /\ pc = "find"
    /\ NoFault
    /\ \/ /\ Titled(goal.title) = {}
          /\ GoTo("post")
          /\ UNCHANGED <<target, seen, engine>>
       \/ \E u \in Titled(goal.title) :
             /\ target' = u
             /\ GoTo("get")
             /\ UNCHANGED <<seen, engine>>
    /\ UNCHANGED vault

\* findItemIDByTitle: none creates, one adopts, several are refused.
FindItemIDByTitle ==
    /\ pc = "find"
    /\ NoFault
    /\ \/ /\ Titled(goal.title) = {}
          /\ GoTo("post")
          /\ UNCHANGED <<target, seen, engine>>
       \/ \E u \in Uuids :
             /\ Titled(goal.title) = {u}
             /\ target' = u
             /\ GoTo("get")
             /\ UNCHANGED <<seen, engine>>
       \/ /\ Cardinality(Titled(goal.title)) > 1
          /\ Fail
    /\ UNCHANGED vault

Get ==
    /\ pc = "get"
    /\ NoFault
    /\ IF Live(target)
       THEN /\ seen' = items[target].fields
            /\ GoTo("put")
            /\ UNCHANGED <<target, engine>>
       ELSE Fail
    /\ UNCHANGED vault

-----------------------------------------------------------------------------
(* Requests that write *)

Body == BuildMergedItemBody(seen, goal.fields, PriorManagedLabels)

PutRequest    == [verb |-> "PUT", uuid |-> target, title |-> goal.title, fields |-> Body]
PostRequest   == [verb |-> "POST", uuid |-> NoUuid, title |-> goal.title,
                  fields |-> ManagedFields(goal.fields)]
DeleteRequest == [verb |-> "DELETE", uuid |-> target,
                  title |-> CHOOSE t \in Titles : TRUE, fields |-> NothingSeen]

\* Connect applies a request.
ApplyPut(r) ==
    /\ items' = [items EXCEPT ![r.uuid] =
                    [title |-> r.title, fields |-> r.fields, origin |-> @.origin]]
    /\ UNCHANGED unborn

ApplyPost(r, u) ==
    /\ u \in unborn
    /\ unborn' = unborn \ {u}
    /\ items' = [items EXCEPT ![u] =
                    [title |-> r.title, fields |-> r.fields, origin |-> "provider"]]

ApplyDelete(r) ==
    /\ items' = [items EXCEPT ![r.uuid] = NoItem]
    /\ UNCHANGED unborn

\* A write the caller sees fail without effect: dropped, or still on its way.
WriteFails(request, idempotent) ==
    /\ \/ Fault("dropped") /\ UNCHANGED late
       \/ Fault("late") /\ late' = late \cup {request}
    /\ RetryOrFail(idempotent)
    /\ UNCHANGED <<items, unborn>>

Put ==
    /\ pc = "put"
    /\ \/ /\ Live(target)
          /\ ApplyPut(PutRequest)
          /\ UNCHANGED late
          /\ \/ NoFault /\ kind = "create" /\ CreateDone(target)
             \/ NoFault /\ kind = "update" /\ UpdateDone
             \/ Fault("lost") /\ RetryOrFail(TRUE)
       \/ /\ ~Live(target)               \* 404
          /\ NoFault /\ Fail /\ UNCHANGED vault
       \/ WriteFails(PutRequest, TRUE)

\* Never retried: Do is called with idempotent = false.
Post ==
    /\ pc = "post"
    /\ \/ \E u \in unborn :
             /\ ApplyPost(PostRequest, u)
             /\ UNCHANGED late
             /\ \/ NoFault /\ CreateDone(u)
                \/ Fault("lost") /\ RetryOrFail(FALSE)
       \/ WriteFails(PostRequest, FALSE)

\* Mutant: a 404 is an error.
Del_MissingFails ==
    /\ pc = "del"
    /\ \/ /\ Live(target)
          /\ ApplyDelete(DeleteRequest)
          /\ UNCHANGED late
          /\ \/ NoFault /\ DeleteDone
             \/ Fault("lost") /\ RetryOrFail(TRUE)
       \/ ~Live(target) /\ NoFault /\ Fail /\ UNCHANGED vault
       \/ WriteFails(DeleteRequest, TRUE)

\* A 404 is success: the item is gone either way.
Del ==
    /\ pc = "del"
    /\ \/ /\ ApplyDelete(DeleteRequest)
          /\ UNCHANGED late
          /\ \/ NoFault /\ DeleteDone
             \/ Fault("lost") /\ RetryOrFail(TRUE)
       \/ WriteFails(DeleteRequest, TRUE)

-----------------------------------------------------------------------------
(* The rest of the world *)

\* An abandoned request reaches Connect after all.
Land(r) ==
    /\ r \in late
    /\ late' = late \ {r}
    /\ \/ r.verb = "POST" /\ \E u \in unborn : ApplyPost(r, u)
       \/ r.verb = "PUT" /\ Live(r.uuid) /\ ApplyPut(r)
       \/ r.verb = "DELETE" /\ ApplyDelete(r)
       \/ r.verb = "PUT" /\ ~Live(r.uuid) /\ UNCHANGED <<items, unborn>>
    /\ UNCHANGED <<engine, op, budgets>>

\* `pulumi up` dies, or cannot connect: nothing is recorded.
Crash ==
    /\ pc # "idle"
    /\ Fault("crash")
    /\ Fail
    /\ UNCHANGED vault

\* A run evaluates the program once: an edit is seen by the next run only.
EditProgram ==
    /\ ~running
    /\ edits < MaxEdits
    /\ edits' = edits + 1
    /\ goal' \in (Goals \cup {NoGoal}) \ {goal}
    /\ UNCHANGED <<vault, st, pending, running, op, hands, faults>>

ByHand(k) ==
    /\ k \in HandKinds
    /\ hands < MaxHands
    /\ hands' = hands + 1
    /\ UNCHANGED <<late, engine, op, edits, faults>>

HandCreate ==
    /\ ByHand("create")
    /\ \E u \in unborn, t \in Titles, l \in FieldLabels :
          /\ unborn' = unborn \ {u}
          /\ items' = [items EXCEPT ![u] =
                [title |-> t, fields |-> [NothingSeen EXCEPT ![l] = <<Hand>>],
                 origin |-> "person"]]

\* A person adds a field, with a label the item may already have or without one,
\* or writes over the last one of a label.
HandWrite ==
    /\ ByHand("write")
    /\ \E u \in Uuids, l \in FieldLabels :
          /\ Live(u)
          /\ LET values == items[u].fields[l]
             IN  \/ items' = [items EXCEPT ![u].fields[l] = Append(values, Hand)]
                \/ /\ values # <<>> /\ values[Len(values)] # Hand
                   /\ items' = [items EXCEPT ![u].fields[l][Len(values)] = Hand]
    /\ UNCHANGED unborn

HandDelete ==
    /\ ByHand("delete")
    /\ \E u \in Uuids : Live(u) /\ items' = [items EXCEPT ![u] = NoItem]
    /\ UNCHANGED unborn

HandRename ==
    /\ ByHand("rename")
    /\ \E u \in Uuids, t \in Titles :
          /\ Live(u)
          /\ items[u].title # t
          /\ items' = [items EXCEPT ![u].title = t, ![u].origin = "renamed"]
    /\ UNCHANGED unborn

-----------------------------------------------------------------------------

Init ==
    /\ items = [u \in Uuids |-> NoItem]
    /\ unborn = Uuids
    /\ late = {}
    /\ goal = NoGoal
    /\ st = NoState
    /\ pending = {} /\ running = FALSE
    /\ kind = "none" /\ pc = "idle" /\ attempt = 1
    /\ target = NoUuid /\ seen = NothingSeen
    /\ edits = 0 /\ hands = 0 /\ faults = 0

Provider ==
    \/ BeginUp \/ EndUp
    \/ StartCreate \/ StartUpdate \/ StartDelete \/ StartDeletePending
    \/ ReadFails \/ FindItemIDByTitle \/ Get
    \/ Put \/ Post \/ Del

World ==
    \/ \E r \in late : Land(r)
    \/ Crash
    \/ EditProgram
    \/ HandCreate \/ HandWrite \/ HandDelete \/ HandRename

Next == Provider \/ World

Spec == Init /\ [][Next]_vars

\* Somebody keeps running `pulumi up` while it has something to do, and a run
\* proceeds.  The bounds end faults, edits and work by hand.
FairSpec == Spec /\ WF_vars(Provider)

-----------------------------------------------------------------------------
(* Properties *)

OfProvider(u) == Live(u) /\ items[u].origin = "provider"
OfPerson(u)   == Live(u) /\ items[u].origin = "person"

\* The provider never leaves two items of its own under one title: Create
\* looks for the title first and never repeats its POST.  (Two items of one
\* title are what findItemIDByTitle refuses to choose from.)  But for what
\* people rename, and without requests that land after the caller gave up.
AtMostOneMade ==
    \A u, w \in Uuids :
        OfProvider(u) /\ OfProvider(w) /\ items[u].title = items[w].title => u = w

\* Of the items people made under one title the provider writes to one at most:
\* it never adopts an arbitrary match.  But for what people rename.
HasValue(values) == \E i \in DOMAIN values : values[i] \in Values
HoldsValue(u)    == \E l \in Labels : HasValue(items[u].fields[l])

AdoptsAtMostOne ==
    \A u, w \in Uuids :
        /\ OfPerson(u) /\ HoldsValue(u)
        /\ OfPerson(w) /\ HoldsValue(w)
        /\ items[u].title = items[w].title
        => u = w

\* Whenever the state file holds the resource and nothing is in progress, the
\* recorded item is there: an identity or value change never takes the item
\* away from those who reference it.  Without deletions by hand.
RecordedItemExists == IsRecorded /\ pc = "idle" => Live(st.uuid)

\* Nothing runs and Diff finds nothing to change in the recorded item.
UpToDate ==
    ~running /\ IsDeclared /\ IsRecorded /\ DiffNow = "none" /\ Live(st.uuid)

\* The item then has no value of a label the program declares no more: updates
\* remove what managedLabels knows to be owned.  Without writes by hand.
DroppedLabelsGo ==
    UpToDate => \A l \in Labels :
                   goal.fields[l] = Absent => ~HasValue(items[st.uuid].fields[l])

\* And it has exactly the declared values.  Without writes by hand.
InSync ==
    /\ UpToDate => \A l \in Labels :
                      goal.fields[l] # Absent => items[st.uuid].fields[l] = <<goal.fields[l]>>
    /\ DroppedLabelsGo

\* The label is neither declared nor was it managed before.
Unmanaged(l) == goal.fields[l] = Absent /\ l \notin PriorManagedLabels

\* The PUT of the operation in progress is attempted, and the item remains.
PutAttempt == pc = "put" /\ op' # op /\ Live(target) /\ items'[target] # NoItem

\* The value a label has: its last field's.
EndsWith(values, v) == values # <<>> /\ values[Len(values)] = v

\* A value written by hand that the GET of an operation saw under a label stays,
\* unless the label is declared or was managed before: updates merge into the
\* live item.  Not so a field without a label, nor one that another field of its
\* label follows: buildMergedItemBody keeps neither, whatever its comment says
\* about unmanaged fields.
SeenUnmanagedSurvive ==
    [][ PutAttempt =>
            \A l \in Labels :
                /\ Unmanaged(l)
                /\ EndsWith(seen[l], Hand) /\ EndsWith(items[target].fields[l], Hand)
                => EndsWith(items'[target].fields[l], Hand) ]_vars

\* Nothing is left to do.
Settled == ~SomethingDue /\ pc = "idle" /\ (IsRecorded => Live(st.uuid))

\* Once edits and faults are over, the resource converges to what the program
\* declares, the recorded item exists, and it stays so.
Converges == <>[]Settled

-----------------------------------------------------------------------------
(* What the operation in progress may rely on, for the proofs *)

\* The program is not edited under a run, each request knows its item, and an
\* update works on the recorded item, whose title it does not change.
OpOK ==
    /\ pc # "idle" => running
    /\ pc \in {"find", "post"} => kind = "create"
    /\ pc \in {"get", "put"} => kind \in {"create", "update"}
    /\ pc \in {"find", "get", "put", "post"} => goal \in Goals
    /\ pc \in {"get", "put", "del"} => target \in Uuids
    /\ kind = "update" => /\ pc \in {"get", "put"}
                         /\ st \in States /\ IsRecorded
                         /\ st.uuid = target /\ st.title = goal.title
    /\ \A r \in late : r.verb # "POST" => r.uuid \in Uuids

\* Ids are used once, and an item the provider made keeps the title it is known
\* under.
TitlesOK ==
    /\ late = {}
    /\ \A u \in unborn : ~Live(u)
    /\ IsRecorded =>
            st.uuid \notin unborn /\ (OfProvider(st.uuid) => items[st.uuid].title = st.title)
    /\ pc \in {"get", "put"} =>
            target \notin unborn /\ (OfProvider(target) => items[target].title = goal.title)
    /\ pc = "post" => \A u \in Uuids : OfProvider(u) => items[u].title # goal.title

TypeInv == TypeOK /\ OpOK
MadeInv == TypeInv /\ TitlesOK /\ AtMostOneMade
=============================================================================
