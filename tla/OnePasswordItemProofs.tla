----------------------- MODULE OnePasswordItemProofs -----------------------
(***************************************************************************)
(* Proofs about OnePasswordItem, for every vault, program and bound: types; *)
(* that the provider makes at most one item of a title, adopts at most one  *)
(* and keeps what people wrote; and that, undisturbed, the recorded item is *)
(* there and in step with the program.                                      *)
(***************************************************************************)
EXTENDS ItemConvergeMC, TLAPS

\* The pure parts of the resource stay within their types.
LEMMA PureTypes ==
    /\ NothingSeen \in Stored
    /\ \A f \in Declared : ManagedFields(f) \in Stored
    /\ \A f \in Declared : LabelsOf(f) \subseteq Labels
    /\ \A g \in Goals, u \in Uuids : StateOuts(g, u) \in States
    /\ \A f \in Declared, e \in Stored, p \in SUBSET Labels :
          BuildMergedItemBody(e, f, p) \in Stored
<1>1. NothingSeen \in Stored
  BY DEF NothingSeen, Stored
<1>2. \A f \in Declared : LabelsOf(f) \subseteq Labels
  BY DEF LabelsOf
<1>3. ASSUME NEW g \in Goals, NEW u \in Uuids PROVE StateOuts(g, u) \in States
  BY <1>2, <1>3 DEF StateOuts, States, Goals, ContentHash
<1>4. ASSUME NEW f \in Declared PROVE ManagedFields(f) \in Stored
  <2>1. ASSUME NEW l \in FieldLabels PROVE ManagedFields(f)[l] \in Seq(Values \cup {Hand})
    <3>1. CASE l \in Labels /\ f[l] # Absent
      <4>1. f[l] \in Values
        BY <3>1 DEF Declared
      <4> QED BY <2>1, <3>1, <4>1 DEF ManagedFields
    <3>2. CASE ~(l \in Labels /\ f[l] # Absent)
      BY <2>1, <3>2 DEF ManagedFields
    <3> QED BY <3>1, <3>2
  <2> QED BY <2>1 DEF ManagedFields, Stored
<1>5. ASSUME NEW e \in Stored, NEW l \in FieldLabels PROVE ByLabel(e)[l] \in Seq(Values \cup {Hand})
  <2>1. e[l] \in Seq(Values \cup {Hand})
    BY <1>5 DEF Stored
  <2>2. CASE l \in Labels /\ e[l] # <<>>
    <3>1. PICK v \in Values \cup {Hand} : v = e[l][Len(e[l])]
      BY <2>1, <2>2
    <3>2. ByLabel(e)[l] = <<v>>
      BY <1>5, <2>2, <3>1 DEF ByLabel
    <3> QED BY <3>2
  <2>3. CASE ~(l \in Labels /\ e[l] # <<>>)
    <3>1. ByLabel(e)[l] = <<>>
      BY <1>5, <2>3 DEF ByLabel
    <3> QED BY <3>1
  <2> QED BY <2>2, <2>3
<1>6. ASSUME NEW f \in Declared, NEW e \in Stored, NEW p \in SUBSET Labels
      PROVE  BuildMergedItemBody(e, f, p) \in Stored
  <2>1. ASSUME NEW l \in FieldLabels
        PROVE  BuildMergedItemBody(e, f, p)[l] \in Seq(Values \cup {Hand})
    <3>1. ManagedFields(f)[l] \in Seq(Values \cup {Hand}) /\ ByLabel(e)[l] \in Seq(Values \cup {Hand})
      BY <1>4, <1>5, <1>6, <2>1 DEF Stored
    <3> QED BY <2>1, <3>1 DEF BuildMergedItemBody
  <2> QED BY <2>1 DEF BuildMergedItemBody, Stored
<1> QED BY <1>1, <1>2, <1>3, <1>4, <1>6

\* Values a person adds, and puts in the place of the last one.
LEMMA HandBelongs ==
    /\ <<Hand>> \in Seq(Values \cup {Hand})
    /\ \A s \in Seq(Values \cup {Hand}) : Append(s, Hand) \in Seq(Values \cup {Hand})
<1>1. PICK V : V = Values \cup {Hand}
  OBVIOUS
<1>2. Hand \in V
  BY <1>1
<1>3. <<Hand>> \in Seq(V) /\ \A s \in Seq(V) : Append(s, Hand) \in Seq(V)
  BY <1>2
<1> QED BY <1>1, <1>3

LEMMA LastReplaced ==
    ASSUME NEW s \in Seq(Values \cup {Hand}), s # <<>>
    PROVE  [s EXCEPT ![Len(s)] = Hand] \in Seq(Values \cup {Hand})
<1>1. PICK V : V = Values \cup {Hand}
  OBVIOUS
<1>2. Hand \in V /\ s \in Seq(V) /\ Len(s) \in 1 .. Len(s)
  BY <1>1
<1>3. [s EXCEPT ![Len(s)] = Hand] \in Seq(V)
  BY <1>2
<1> QED BY <1>1, <1>3

\* What a person leaves under one label when writing: one field more, or another
\* value in the last one, and no value of the program's that was not there.
LEMMA HandWriteMeans ==
    ASSUME TypeInv, HandWrite
    PROVE  \E u \in Uuids, l \in FieldLabels, new \in Seq(Values \cup {Hand}) :
              /\ Live(u) /\ items' = [items EXCEPT ![u].fields[l] = new]
              /\ HasValue(new) => HasValue(items[u].fields[l])
<1>1. PICK u \in Uuids, l \in FieldLabels :
          /\ Live(u)
          /\ LET values == items[u].fields[l]
             IN  \/ items' = [items EXCEPT ![u].fields[l] = Append(values, Hand)]
                 \/ /\ values # <<>> /\ values[Len(values)] # Hand
                    /\ items' = [items EXCEPT ![u].fields[l][Len(values)] = Hand]
  BY DEF HandWrite
<1>2. PICK values \in Seq(Values \cup {Hand}) : values = items[u].fields[l]
  BY <1>1 DEF Live, TypeInv, TypeOK, Item, Stored
<1>3. CASE items' = [items EXCEPT ![u].fields[l] = Append(values, Hand)]
  <2>1. PICK new \in Seq(Values \cup {Hand}) : new = Append(values, Hand)
    BY <1>2, HandBelongs
  <2>2. HasValue(new) => HasValue(values)
    <3> SUFFICES ASSUME NEW i \in DOMAIN new, new[i] \in Values PROVE HasValue(values)
      BY DEF HasValue
    <3>1. i \in DOMAIN values /\ new[i] = values[i]
      BY <2>1, OnePasswordAssumption
    <3> QED BY <3>1 DEF HasValue
  <2> QED BY <1>1, <1>2, <1>3, <2>1, <2>2
<1>4. CASE values # <<>> /\ items' = [items EXCEPT ![u].fields[l][Len(values)] = Hand]
  <2>1. PICK new \in Seq(Values \cup {Hand}) : new = [values EXCEPT ![Len(values)] = Hand]
    BY <1>2, <1>4, LastReplaced
  <2>2. HasValue(new) => HasValue(values)
    <3> SUFFICES ASSUME NEW i \in DOMAIN new, new[i] \in Values PROVE HasValue(values)
      BY DEF HasValue
    <3>1. i \in DOMAIN values /\ new[i] = values[i]
      BY <2>1, OnePasswordAssumption
    <3> QED BY <3>1 DEF HasValue
  <2>3. items' = [items EXCEPT ![u].fields[l] = new]
    BY <1>2, <1>4, <2>1
  <2> QED BY <1>1, <1>2, <2>2, <2>3
<1> QED BY <1>1, <1>2, <1>3, <1>4

\* A field that a person alone gives an item holds no value of the program's.
LEMMA HandFieldIsNoValue ==
    ASSUME NEW l \in FieldLabels
    PROVE  /\ [NothingSeen EXCEPT ![l] = <<Hand>>] \in Stored
           /\ \A m \in Labels : ~HasValue([NothingSeen EXCEPT ![l] = <<Hand>>][m])
<1>1. [NothingSeen EXCEPT ![l] = <<Hand>>] \in Stored
  <2>1. <<>> \in Seq(Values \cup {Hand}) /\ <<Hand>> \in Seq(Values \cup {Hand})
    BY HandBelongs
  <2> QED BY <2>1 DEF NothingSeen, Stored
<1>2. ASSUME NEW m \in Labels PROVE ~HasValue([NothingSeen EXCEPT ![l] = <<Hand>>][m])
  <2>1. ~HasValue(<<>>) /\ ~HasValue(<<Hand>>)
    BY OnePasswordAssumption DEF HasValue
  <2>2. [NothingSeen EXCEPT ![l] = <<Hand>>][m] \in {<<>>, <<Hand>>}
    BY DEF NothingSeen, FieldLabels
  <2> QED BY <2>1, <2>2
<1> QED BY <1>1, <1>2

\* What the PUT of an operation sends for one label.
LEMMA BodyAt ==
    ASSUME NEW l \in Labels
    PROVE  Body[l] = IF goal.fields[l] # Absent THEN <<goal.fields[l]>>
                     ELSE IF l \in PriorManagedLabels \/ seen[l] = <<>> THEN <<>>
                     ELSE <<seen[l][Len(seen[l])]>>
BY DEF Body, BuildMergedItemBody, ManagedFields, ByLabel, FieldLabels

\* The number of attempts never exceeds 1 + MaxRetries.
LEMMA AttemptsBound ==
    ASSUME NEW i \in BOOLEAN
    PROVE  Attempts(i) \in 1 .. 1 + MaxRetries
BY MaxRetriesAssumption DEF Attempts

LEMMA InitTypeInv == Init => TypeInv
<1> SUFFICES ASSUME Init PROVE TypeInv
  OBVIOUS
<1>1. TypeOK
  <2>1. seen \in Stored
    BY PureTypes DEF Init
  <2>2. 1 \in 1 .. 1 + MaxRetries /\ 0 \in 0 .. MaxEdits /\ 0 \in 0 .. MaxHands
        /\ 0 \in 0 .. MaxFaults
    BY MaxRetriesAssumption, OnePasswordAssumption
  <2> QED BY <2>1, <2>2 DEF Init, TypeOK
<1>2. OpOK
  BY DEF Init, OpOK
<1> QED BY <1>1, <1>2 DEF TypeInv

(***************************************************************************)
(* What each way of moving an operation on leaves behind.                  *)
(***************************************************************************)
OpTypes ==
    /\ st \in States \cup {NoState}
    /\ pending \subseteq Uuids
    /\ goal \in Goals \cup {NoGoal}
    /\ running \in BOOLEAN
    /\ kind \in {"none", "create", "update", "delete", "deleteOld"}
    /\ pc \in {"idle", "find", "get", "put", "post", "del"}
    /\ attempt \in 1 .. 1 + MaxRetries
    /\ target \in Uuids \cup {NoUuid}
    /\ seen \in Stored

OpControl ==
    /\ pc # "idle" => running
    /\ pc \in {"find", "post"} => kind = "create"
    /\ pc \in {"get", "put"} => kind \in {"create", "update"}
    /\ pc \in {"find", "get", "put", "post"} => goal \in Goals
    /\ pc \in {"get", "put", "del"} => target \in Uuids
    /\ kind = "update" => /\ pc \in {"get", "put"}
                         /\ st \in States /\ IsRecorded
                         /\ st.uuid = target /\ st.title = goal.title

LEMMA FailKeeps ==
    ASSUME TypeInv, Fail
    PROVE  (OpTypes /\ OpControl)'
<1>1. seen' \in Stored
  BY PureTypes DEF Fail, GoIdle
<1>2. attempt' \in 1 .. 1 + MaxRetries
  BY MaxRetriesAssumption DEF Fail, GoIdle
<1> QED
  BY <1>1, <1>2 DEF TypeInv, TypeOK, Fail, GoIdle, OpTypes, OpControl, state

LEMMA RetryKeeps ==
    ASSUME TypeInv, NEW i \in BOOLEAN, RetryOrFail(i)
    PROVE  (OpTypes /\ OpControl)'
<1>1. CASE attempt < Attempts(i)
  <2>1. attempt' = attempt + 1 /\ UNCHANGED <<kind, pc, target, seen, engine>>
    BY <1>1 DEF RetryOrFail
  <2>2. attempt' \in 1 .. 1 + MaxRetries
    BY <1>1, <2>1, AttemptsBound, MaxRetriesAssumption DEF TypeInv, TypeOK
  <2> QED
    BY <2>1, <2>2 DEF TypeInv, TypeOK, OpOK, OpTypes, OpControl, engine, state, IsRecorded
<1>2. CASE ~(attempt < Attempts(i))
  BY <1>2, FailKeeps DEF RetryOrFail
<1> QED BY <1>1, <1>2

LEMMA CreateDoneKeeps ==
    ASSUME TypeInv, NEW u \in Uuids, goal \in Goals, CreateDone(u)
    PROVE  (OpTypes /\ OpControl)'
<1>1. st' \in States
  BY PureTypes DEF CreateDone
<1>2. pending' \subseteq Uuids
  BY DEF CreateDone, TypeInv, TypeOK, IsRecorded, States
<1> QED
  BY <1>1, <1>2, PureTypes, MaxRetriesAssumption
     DEF TypeInv, TypeOK, CreateDone, GoIdle, OpTypes, OpControl

LEMMA UpdateDoneKeeps ==
    ASSUME TypeInv, target \in Uuids, goal \in Goals, UpdateDone
    PROVE  (OpTypes /\ OpControl)'
<1>1. st' \in States
  BY PureTypes DEF UpdateDone
<1> QED
  BY <1>1, PureTypes, MaxRetriesAssumption
     DEF TypeInv, TypeOK, UpdateDone, GoIdle, OpTypes, OpControl

LEMMA DeleteDoneKeeps ==
    ASSUME TypeInv, DeleteDone
    PROVE  (OpTypes /\ OpControl)'
BY PureTypes, MaxRetriesAssumption
   DEF TypeInv, TypeOK, DeleteDone, GoIdle, OpTypes, OpControl

(***************************************************************************)
(* What each write leaves in the vault.                                    *)
(***************************************************************************)
VaultTypes ==
    /\ items \in [Uuids -> Item \cup {NoItem}]
    /\ unborn \subseteq Uuids
    /\ late \subseteq Request
    /\ \A r \in late : r.verb # "POST" => r.uuid \in Uuids

BudgetTypes ==
    /\ edits \in 0 .. MaxEdits
    /\ hands \in 0 .. MaxHands
    /\ faults \in 0 .. MaxFaults

LEMMA PartsMakeTypeInv ==
    ASSUME (OpTypes /\ OpControl)', VaultTypes', BudgetTypes'
    PROVE  TypeInv'
BY DEF OpTypes, OpControl, VaultTypes, BudgetTypes, TypeInv, TypeOK, OpOK

LEMMA FaultKeeps ==
    ASSUME TypeInv, NEW f, Fault(f)
    PROVE  BudgetTypes'
BY OnePasswordAssumption DEF TypeInv, TypeOK, Fault, BudgetTypes

LEMMA NoFaultKeeps ==
    ASSUME TypeInv, NoFault
    PROVE  BudgetTypes'
BY DEF TypeInv, TypeOK, NoFault, budgets, BudgetTypes

LEMMA ApplyPutKeeps ==
    ASSUME TypeInv, NEW r \in Request, r.uuid \in Uuids, Live(r.uuid), ApplyPut(r)
    PROVE  items' \in [Uuids -> Item \cup {NoItem}] /\ unborn' \subseteq Uuids
BY DEF TypeInv, TypeOK, Request, Live, ApplyPut, Item

LEMMA ApplyPostKeeps ==
    ASSUME TypeInv, NEW r \in Request, NEW u \in Uuids, ApplyPost(r, u)
    PROVE  items' \in [Uuids -> Item \cup {NoItem}] /\ unborn' \subseteq Uuids
BY DEF TypeInv, TypeOK, Request, ApplyPost, Item

LEMMA ApplyDeleteKeeps ==
    ASSUME TypeInv, NEW r \in Request, ApplyDelete(r)
    PROVE  items' \in [Uuids -> Item \cup {NoItem}] /\ unborn' \subseteq Uuids
BY DEF TypeInv, TypeOK, Request, ApplyDelete

LEMMA RequestTypes ==
    ASSUME TypeInv
    PROVE  /\ pc = "put" => PutRequest \in Request /\ PutRequest.uuid \in Uuids
           /\ pc = "post" => PostRequest \in Request
           /\ pc = "del" => DeleteRequest \in Request /\ DeleteRequest.uuid \in Uuids
<1>1. pc = "put" => Body \in Stored
  <2> SUFFICES ASSUME pc = "put" PROVE Body \in Stored
    OBVIOUS
  <2>1. goal.fields \in Declared /\ seen \in Stored
    BY DEF TypeInv, TypeOK, OpOK, Goals
  <2>2. PriorManagedLabels \in SUBSET Labels
    BY DEF PriorManagedLabels, TypeInv, TypeOK, OpOK, States
  <2>3. \A f \in Declared, e \in Stored, p \in SUBSET Labels :
           BuildMergedItemBody(e, f, p) \in Stored
    BY PureTypes
  <2> HIDE DEF BuildMergedItemBody
  <2> QED BY <2>1, <2>2, <2>3 DEF Body
<1>2. pc = "put" => PutRequest \in Request /\ PutRequest.uuid \in Uuids
  BY <1>1 DEF PutRequest, Request, TypeInv, TypeOK, OpOK, Goals
<1>3. pc = "post" => PostRequest \in Request
  <2> SUFFICES ASSUME pc = "post" PROVE PostRequest \in Request
    OBVIOUS
  <2>1. ManagedFields(goal.fields) \in Stored /\ goal.title \in Titles
    BY PureTypes DEF TypeInv, OpOK, Goals
  <2> QED BY <2>1 DEF PostRequest, Request
<1>4. (CHOOSE t \in Titles : TRUE) \in Titles
  BY OnePasswordAssumption
<1>5. pc = "del" => DeleteRequest \in Request /\ DeleteRequest.uuid \in Uuids
  BY <1>4, PureTypes DEF DeleteRequest, Request, TypeInv, OpOK
<1> QED BY <1>2, <1>3, <1>5

LEMMA WriteFailsKeeps ==
    ASSUME TypeInv, NEW r \in Request, r.verb # "POST" => r.uuid \in Uuids,
           NEW i \in BOOLEAN, WriteFails(r, i)
    PROVE  TypeInv'
<1>1. (OpTypes /\ OpControl)'
  BY RetryKeeps DEF WriteFails
<1>2. BudgetTypes'
  BY FaultKeeps DEF WriteFails
<1>3. VaultTypes'
  BY DEF WriteFails, TypeInv, TypeOK, OpOK, VaultTypes
<1> QED BY <1>1, <1>2, <1>3, PartsMakeTypeInv

LEMMA StartKeeps ==
    ASSUME TypeInv, NEW k, NEW first, NEW u, Start(k, first, u),
           \/ k = "create" /\ first = "find" /\ u = NoUuid /\ IsDeclared
           \/ /\ k = "update" /\ first = "get" /\ u = st.uuid
              /\ IsDeclared /\ IsRecorded /\ st.title = goal.title
           \/ k \in {"delete", "deleteOld"} /\ first = "del" /\ u \in Uuids
    PROVE  TypeInv'
<1>1. (OpTypes /\ OpControl)'
  BY DEF Start, TypeInv, TypeOK, OpOK, OpTypes, OpControl, engine, state,
         IsDeclared, IsRecorded, States
<1>2. VaultTypes'
  BY DEF Start, TypeInv, TypeOK, OpOK, VaultTypes, vault
<1>3. BudgetTypes'
  BY DEF Start, TypeInv, TypeOK, BudgetTypes, budgets
<1> QED BY <1>1, <1>2, <1>3, PartsMakeTypeInv

LEMMA UpdateDueMeans == UpdateDue => IsDeclared /\ IsRecorded /\ st.title = goal.title
BY DEF UpdateDue, MayUpdate, DiffNow, Diff

\* A person's actions touch the vault and the budget of things done by hand.
LEMMA HandKeeps ==
    ASSUME TypeInv, NEW k, ByHand(k),
           items' \in [Uuids -> Item \cup {NoItem}], unborn' \subseteq Uuids
    PROVE  TypeInv'
<1>1. (OpTypes /\ OpControl)'
  BY DEF ByHand, TypeInv, TypeOK, OpOK, OpTypes, OpControl, engine, state, op, IsRecorded
<1>2. VaultTypes'
  BY DEF ByHand, TypeInv, TypeOK, OpOK, VaultTypes
<1>3. BudgetTypes'
  BY OnePasswordAssumption DEF ByHand, TypeInv, TypeOK, BudgetTypes
<1> QED BY <1>1, <1>2, <1>3, PartsMakeTypeInv

\* Every step keeps the types and what an operation relies on.
LEMMA NextTypeInv == TypeInv /\ [Next]_vars => TypeInv'
<1> SUFFICES ASSUME TypeInv, [Next]_vars PROVE TypeInv'
  OBVIOUS
<1>1. CASE BeginUp \/ EndUp
  BY <1>1 DEF BeginUp, EndUp, TypeInv, TypeOK, OpOK, vault, state, op, budgets, IsRecorded
<1>2. CASE StartCreate
  BY <1>2, StartKeeps DEF StartCreate, CreateDue, MayCreate
<1>3. CASE StartUpdate
  BY <1>3, StartKeeps, UpdateDueMeans DEF StartUpdate
<1>4. CASE StartDelete
  <2>1. st.uuid \in Uuids
    BY <1>4 DEF StartDelete, DeleteDue, MayDelete, IsRecorded, TypeInv, TypeOK, States
  <2> QED BY <1>4, <2>1, StartKeeps DEF StartDelete
<1>5. CASE StartDeletePending
  <2>1. PICK u \in pending : Start("deleteOld", "del", u)
    BY <1>5 DEF StartDeletePending
  <2>2. u \in Uuids
    BY DEF TypeInv, TypeOK
  <2> QED BY <2>1, <2>2, StartKeeps
<1>6. CASE ReadFails
  <2>1. (OpTypes /\ OpControl)'
    BY <1>6, RetryKeeps DEF ReadFails
  <2>2. BudgetTypes'
    BY <1>6, FaultKeeps DEF ReadFails
  <2>3. VaultTypes'
    BY <1>6 DEF ReadFails, vault, TypeInv, TypeOK, OpOK, VaultTypes
  <2> QED BY <2>1, <2>2, <2>3, PartsMakeTypeInv
<1>7. CASE FindItemIDByTitle
  <2>1. BudgetTypes'
    BY <1>7, NoFaultKeeps DEF FindItemIDByTitle
  <2>2. VaultTypes'
    BY <1>7 DEF FindItemIDByTitle, vault, TypeInv, TypeOK, OpOK, VaultTypes
  <2>3. (OpTypes /\ OpControl)'
    <3>1. CASE Fail
      BY <3>1, FailKeeps
    <3>2. CASE GoTo("post") /\ UNCHANGED <<target, seen, engine>>
      BY <1>7, <3>2, MaxRetriesAssumption
         DEF FindItemIDByTitle, GoTo, TypeInv, TypeOK, OpOK, OpTypes, OpControl, engine, state
    <3>3. CASE \E u \in Uuids : target' = u /\ GoTo("get") /\ UNCHANGED <<seen, engine>>
      BY <1>7, <3>3, MaxRetriesAssumption
         DEF FindItemIDByTitle, GoTo, TypeInv, TypeOK, OpOK, OpTypes, OpControl, engine, state
    <3> QED BY <1>7, <3>1, <3>2, <3>3 DEF FindItemIDByTitle
  <2> QED BY <2>1, <2>2, <2>3, PartsMakeTypeInv
<1>8. CASE Get
  <2>1. BudgetTypes'
    BY <1>8, NoFaultKeeps DEF Get
  <2>2. VaultTypes'
    BY <1>8 DEF Get, vault, TypeInv, TypeOK, OpOK, VaultTypes
  <2>3. (OpTypes /\ OpControl)'
    <3>1. CASE Live(target)
      <4>1. items[target].fields \in Stored
        BY <1>8, <3>1 DEF Get, Live, TypeInv, TypeOK, OpOK, Item
      <4> QED
        BY <1>8, <3>1, <4>1, MaxRetriesAssumption
           DEF Get, GoTo, TypeInv, TypeOK, OpOK, OpTypes, OpControl, engine, state, IsRecorded
    <3>2. CASE ~Live(target)
      BY <1>8, <3>2, FailKeeps DEF Get
    <3> QED BY <3>1, <3>2
  <2> QED BY <2>1, <2>2, <2>3, PartsMakeTypeInv
<1>9. CASE Put
  <2>1. target \in Uuids /\ goal \in Goals /\ PutRequest \in Request
        /\ PutRequest.uuid \in Uuids /\ PutRequest.uuid = target
    BY <1>9, RequestTypes DEF Put, TypeInv, OpOK, PutRequest
  <2>2. CASE WriteFails(PutRequest, TRUE)
    BY <2>1, <2>2, WriteFailsKeeps
  <2>3. CASE NoFault /\ Fail /\ UNCHANGED vault
    <3>1. VaultTypes'
      BY <2>3 DEF vault, TypeInv, TypeOK, OpOK, VaultTypes
    <3> QED BY <2>3, <3>1, FailKeeps, NoFaultKeeps, PartsMakeTypeInv
  <2>4. CASE /\ Live(target) /\ ApplyPut(PutRequest) /\ UNCHANGED late
             /\ \/ NoFault /\ kind = "create" /\ CreateDone(target)
                \/ NoFault /\ kind = "update" /\ UpdateDone
                \/ Fault("lost") /\ RetryOrFail(TRUE)
    <3>1. VaultTypes'
      BY <2>1, <2>4, ApplyPutKeeps DEF VaultTypes, TypeInv, TypeOK, OpOK
    <3>2. (OpTypes /\ OpControl)'
      BY <2>1, <2>4, CreateDoneKeeps, UpdateDoneKeeps, RetryKeeps
    <3>3. BudgetTypes'
      BY <2>4, NoFaultKeeps, FaultKeeps
    <3> QED BY <3>1, <3>2, <3>3, PartsMakeTypeInv
  <2> QED BY <1>9, <2>2, <2>3, <2>4 DEF Put
<1>10. CASE Post
  <2>1. goal \in Goals /\ PostRequest \in Request /\ PostRequest.verb = "POST"
    BY <1>10, RequestTypes DEF Post, TypeInv, OpOK, PostRequest
  <2>2. CASE WriteFails(PostRequest, FALSE)
    BY <2>1, <2>2, WriteFailsKeeps
  <2>3. CASE \E u \in unborn :
                /\ ApplyPost(PostRequest, u) /\ UNCHANGED late
                /\ \/ NoFault /\ CreateDone(u)
                   \/ Fault("lost") /\ RetryOrFail(FALSE)
    <3>1. PICK u \in unborn :
                /\ ApplyPost(PostRequest, u) /\ UNCHANGED late
                /\ \/ NoFault /\ CreateDone(u)
                   \/ Fault("lost") /\ RetryOrFail(FALSE)
      BY <2>3
    <3>2. u \in Uuids
      BY DEF TypeInv, TypeOK
    <3>3. VaultTypes'
      BY <2>1, <3>1, <3>2, ApplyPostKeeps DEF VaultTypes, TypeInv, TypeOK, OpOK
    <3>4. (OpTypes /\ OpControl)'
      BY <2>1, <3>1, <3>2, CreateDoneKeeps, RetryKeeps
    <3>5. BudgetTypes'
      BY <3>1, NoFaultKeeps, FaultKeeps
    <3> QED BY <3>3, <3>4, <3>5, PartsMakeTypeInv
  <2> QED BY <1>10, <2>2, <2>3 DEF Post
<1>11. CASE Del
  <2>1. DeleteRequest \in Request /\ DeleteRequest.uuid \in Uuids
    BY <1>11, RequestTypes DEF Del
  <2>2. CASE WriteFails(DeleteRequest, TRUE)
    BY <2>1, <2>2, WriteFailsKeeps
  <2>3. CASE /\ ApplyDelete(DeleteRequest) /\ UNCHANGED late
             /\ \/ NoFault /\ DeleteDone
                \/ Fault("lost") /\ RetryOrFail(TRUE)
    <3>1. VaultTypes'
      BY <2>1, <2>3, ApplyDeleteKeeps DEF VaultTypes, TypeInv, TypeOK, OpOK
    <3>2. (OpTypes /\ OpControl)'
      BY <2>3, DeleteDoneKeeps, RetryKeeps
    <3>3. BudgetTypes'
      BY <2>3, NoFaultKeeps, FaultKeeps
    <3> QED BY <3>1, <3>2, <3>3, PartsMakeTypeInv
  <2> QED BY <1>11, <2>2, <2>3 DEF Del
<1>12. CASE \E r \in late : Land(r)
  <2>1. PICK r \in late : Land(r)
    BY <1>12
  <2>2. r \in Request /\ (r.verb # "POST" => r.uuid \in Uuids)
    BY DEF TypeInv, TypeOK, OpOK
  <2>3. items' \in [Uuids -> Item \cup {NoItem}] /\ unborn' \subseteq Uuids
    <3>1. CASE r.verb = "POST" /\ \E u \in unborn : ApplyPost(r, u)
      BY <2>2, <3>1, ApplyPostKeeps DEF TypeInv, TypeOK
    <3>2. CASE r.verb = "PUT" /\ Live(r.uuid) /\ ApplyPut(r)
      BY <2>2, <3>2, ApplyPutKeeps
    <3>3. CASE r.verb = "DELETE" /\ ApplyDelete(r)
      BY <2>2, <3>3, ApplyDeleteKeeps
    <3>4. CASE UNCHANGED <<items, unborn>>
      BY <3>4 DEF TypeInv, TypeOK
    <3> QED BY <2>1, <3>1, <3>2, <3>3, <3>4 DEF Land
  <2>4. late' \subseteq late
    BY <2>1 DEF Land
  <2>5. VaultTypes'
    BY <2>3, <2>4 DEF VaultTypes, TypeInv, TypeOK, OpOK
  <2>6. (OpTypes /\ OpControl)' /\ BudgetTypes'
    BY <2>1 DEF Land, TypeInv, TypeOK, OpOK, OpTypes, OpControl, BudgetTypes,
                engine, state, op, budgets, IsRecorded
  <2> QED BY <2>5, <2>6, PartsMakeTypeInv
<1>13. CASE Crash
  <2>1. VaultTypes'
    BY <1>13 DEF Crash, vault, TypeInv, TypeOK, OpOK, VaultTypes
  <2> QED BY <1>13, <2>1, FailKeeps, FaultKeeps, PartsMakeTypeInv DEF Crash
<1>14. CASE EditProgram
  BY <1>14, OnePasswordAssumption
     DEF EditProgram, TypeInv, TypeOK, OpOK, vault, op, IsRecorded
<1>15. CASE HandCreate
  <2>1. PICK u \in unborn, t \in Titles, l \in FieldLabels :
            /\ unborn' = unborn \ {u}
            /\ items' = [items EXCEPT ![u] =
                  [title |-> t, fields |-> [NothingSeen EXCEPT ![l] = <<Hand>>],
                   origin |-> "person"]]
    BY <1>15 DEF HandCreate
  <2>2. [NothingSeen EXCEPT ![l] = <<Hand>>] \in Stored
    BY HandFieldIsNoValue
  <2>3. items' \in [Uuids -> Item \cup {NoItem}] /\ unborn' \subseteq Uuids
    BY <2>1, <2>2 DEF TypeInv, TypeOK, Item
  <2> QED BY <1>15, <2>3, HandKeeps DEF HandCreate
<1>16. CASE HandWrite
  <2>1. PICK u \in Uuids, l \in FieldLabels, new \in Seq(Values \cup {Hand}) :
            /\ Live(u) /\ items' = [items EXCEPT ![u].fields[l] = new]
            /\ HasValue(new) => HasValue(items[u].fields[l])
    BY <1>16, HandWriteMeans
  <2>2. items[u] \in Item
    BY <2>1 DEF Live, TypeInv, TypeOK
  <2>3. [items[u] EXCEPT !.fields[l] = new] \in Item
    BY <2>2 DEF Item, Stored
  <2>4. items' \in [Uuids -> Item \cup {NoItem}]
    BY <2>1, <2>3 DEF TypeInv, TypeOK
  <2> QED BY <1>16, <2>4, HandKeeps DEF HandWrite, TypeInv, TypeOK
<1>17. CASE HandDelete
  <2>1. items' \in [Uuids -> Item \cup {NoItem}] /\ unborn' \subseteq Uuids
    BY <1>17 DEF HandDelete, TypeInv, TypeOK
  <2> QED BY <1>17, <2>1, HandKeeps DEF HandDelete
<1>18. CASE HandRename
  <2>1. PICK u \in Uuids, t \in Titles :
            Live(u) /\ items' = [items EXCEPT ![u].title = t, ![u].origin = "renamed"]
    BY <1>18 DEF HandRename
  <2>2. [items[u] EXCEPT !.title = t, !.origin = "renamed"] \in Item
    BY <2>1 DEF Live, TypeInv, TypeOK, Item
  <2>3. items' \in [Uuids -> Item \cup {NoItem}]
    BY <2>1, <2>2 DEF TypeInv, TypeOK
  <2> QED BY <1>18, <2>3, HandKeeps DEF HandRename, TypeInv, TypeOK
<1>19. CASE UNCHANGED vars
  BY <1>19 DEF vars, vault, engine, state, op, budgets, TypeInv, TypeOK, OpOK, IsRecorded
<1> QED
  BY <1>1, <1>2, <1>3, <1>4, <1>5, <1>6, <1>7, <1>8, <1>9, <1>10, <1>11, <1>12,
     <1>13, <1>14, <1>15, <1>16, <1>17, <1>18, <1>19 DEF Next, Provider, World

\* The state the model describes is well typed in every reachable state.
THEOREM TypeCorrect == Spec => []TypeOK
<1>1. TypeInv => TypeOK
  BY DEF TypeInv
<1> QED BY <1>1, InitTypeInv, NextTypeInv, PTL DEF Spec

-----------------------------------------------------------------------------
(* At most one item of a title is the provider's own *)

LEMMA InitMadeInv == Init => MadeInv
<1> SUFFICES ASSUME Init PROVE MadeInv
  OBVIOUS
<1>1. \A u \in Uuids : ~Live(u)
  BY DEF Init, Live
<1>2. TitlesOK /\ AtMostOneMade
  BY <1>1 DEF Init, TitlesOK, AtMostOneMade, IsRecorded, OfProvider
<1> QED BY <1>2, InitTypeInv DEF MadeInv

\* A step that leaves the vault alone and ends the operation, or tries again.
LEMMA FailTitles ==
    ASSUME MadeInv, Fail, UNCHANGED vault
    PROVE  (TitlesOK /\ AtMostOneMade)'
BY DEF MadeInv, Fail, GoIdle, state, vault, TitlesOK, AtMostOneMade, Live, OfProvider, IsRecorded

LEMMA RetryTitles ==
    ASSUME MadeInv, NEW i \in BOOLEAN, RetryOrFail(i), UNCHANGED vault
    PROVE  (TitlesOK /\ AtMostOneMade)'
<1>1. CASE UNCHANGED <<kind, pc, target, seen, engine>>
  BY <1>1 DEF MadeInv, engine, state, vault, TitlesOK, AtMostOneMade, Live, OfProvider, IsRecorded
<1> QED BY <1>1, FailTitles DEF RetryOrFail

\* A write without effect is a drop: nothing is on its way any more.
LEMMA WriteFailsTitles ==
    ASSUME MadeInv, NEW r, NEW i \in BOOLEAN, WriteFails(r, i), "late" \notin FaultKinds
    PROVE  (TitlesOK /\ AtMostOneMade)'
<1>1. UNCHANGED vault
  BY DEF WriteFails, Fault, vault
<1> QED BY <1>1, RetryTitles DEF WriteFails

\* The PUT in progress keeps the title of the item it writes.
LEMMA PutTitles ==
    ASSUME MadeInv, pc = "put", Live(target), ApplyPut(PutRequest), UNCHANGED late
    PROVE  /\ AtMostOneMade'
           /\ \A u \in unborn' : ~Live(u)'
           /\ late' = {} /\ unborn' = unborn
           /\ items'[target].title = goal.title /\ items'[target].origin = items[target].origin
           /\ \A u \in Uuids : u # target => items'[u] = items[u]
<1>1. target \in Uuids /\ target \notin unborn
      /\ (items[target].origin = "provider" => items[target].title = goal.title)
  BY DEF MadeInv, TypeInv, OpOK, TitlesOK, OfProvider
<1>2. /\ items' = [items EXCEPT ![target] =
            [title |-> goal.title, fields |-> Body, origin |-> items[target].origin]]
      /\ unborn' = unborn
  BY DEF ApplyPut, PutRequest
<1>3. items \in [Uuids -> Item \cup {NoItem}]
  BY DEF MadeInv, TypeInv, TypeOK
<1>4. /\ items'[target].title = goal.title /\ items'[target].origin = items[target].origin
      /\ \A u \in Uuids : u # target => items'[u] = items[u]
  BY <1>1, <1>2, <1>3
<1>5. \A u \in Uuids : (u # target => Live(u)' = Live(u))
  BY <1>4 DEF Live
<1>6. AtMostOneMade'
  BY <1>1, <1>4, <1>5 DEF AtMostOneMade, MadeInv, Live, OfProvider
<1>7. \A u \in unborn' : ~Live(u)'
  BY <1>1, <1>2, <1>5 DEF MadeInv, TitlesOK, TypeInv, TypeOK
<1> QED BY <1>2, <1>4, <1>6, <1>7 DEF MadeInv, TitlesOK

\* A person's action.
LEMMA HandTitles ==
    ASSUME MadeInv, NEW k, ByHand(k), unborn' \subseteq unborn,
           NEW u \in Uuids,
           \A w \in Uuids : w # u => items'[w] = items[w],
           \/ /\ Live(u) /\ Live(u)' /\ unborn' = unborn
              /\ items'[u].title = items[u].title /\ items'[u].origin = items[u].origin
           \/ u \in unborn /\ unborn' = unborn \ {u} /\ items'[u].origin = "person"
           \/ Live(u) /\ ~OfProvider(u)' /\ unborn' = unborn
    PROVE  (TitlesOK /\ AtMostOneMade)'
<1>1. \A w \in Uuids : w # u => Live(w)' = Live(w)
  BY DEF Live
<1>2. UNCHANGED <<late, goal, st, kind, pc, target>>
  BY DEF ByHand, engine, state, op
<1>3. AtMostOneMade'
  BY <1>1 DEF MadeInv, AtMostOneMade, OfProvider, Live
<1>4. late' = {} /\ (\A w \in unborn' : ~Live(w)')
  BY <1>1, <1>2 DEF MadeInv, TitlesOK, TypeInv, TypeOK
<1>5. IsRecorded' => st'.uuid \notin unborn' /\ (OfProvider(st.uuid)' => items'[st.uuid].title = st.title)
  BY <1>1, <1>2 DEF MadeInv, TitlesOK, TypeInv, TypeOK, IsRecorded, States, OfProvider, Live
<1>6. pc' \in {"get", "put"} =>
        target' \notin unborn' /\ (OfProvider(target)' => items'[target].title = goal.title)
  BY <1>1, <1>2 DEF MadeInv, TitlesOK, TypeInv, TypeOK, OpOK, OfProvider, Live
<1>7. pc' = "post" =>
        \A w \in Uuids : OfProvider(w)' => items'[w].title # goal.title
  BY <1>1, <1>2 DEF MadeInv, TitlesOK, OfProvider, Live
<1> QED BY <1>2, <1>3, <1>4, <1>5, <1>6, <1>7 DEF TitlesOK

\* Without late landings every step keeps MadeInv.
LEMMA NextMadeInv ==
    ASSUME "late" \notin FaultKinds, MadeInv, [Next]_vars
    PROVE  MadeInv'
<1>0. TypeInv'
  BY NextTypeInv DEF MadeInv
<1> SUFFICES (TitlesOK /\ AtMostOneMade)'
  BY <1>0 DEF MadeInv
<1>1. CASE BeginUp \/ EndUp \/ UNCHANGED vars
  BY <1>1 DEF BeginUp, EndUp, vars, vault, engine, state, op, budgets, MadeInv, TitlesOK,
              AtMostOneMade, Live, OfProvider, IsRecorded
<1>2. CASE StartCreate \/ StartDelete \/ StartDeletePending
  BY <1>2 DEF StartCreate, StartDelete, StartDeletePending, Start, vault, engine, state,
              MadeInv, TitlesOK, AtMostOneMade, Live, OfProvider, IsRecorded
<1>3. CASE StartUpdate
  BY <1>3, UpdateDueMeans DEF StartUpdate, Start, vault, engine, state,
              MadeInv, TitlesOK, AtMostOneMade, Live, OfProvider, IsRecorded
<1>4. CASE ReadFails
  BY <1>4, RetryTitles DEF ReadFails
<1>5. CASE FindItemIDByTitle
  <2>1. CASE Fail
    BY <1>5, <2>1, FailTitles DEF FindItemIDByTitle
  <2>2. CASE Titled(goal.title) = {} /\ GoTo("post") /\ UNCHANGED <<target, seen, engine>>
    BY <1>5, <2>2 DEF FindItemIDByTitle, Titled, GoTo, vault, engine, state, MadeInv,
                      TitlesOK, AtMostOneMade, Live, OfProvider, IsRecorded
  <2>3. CASE \E u \in Uuids : /\ Titled(goal.title) = {u}
                             /\ target' = u /\ GoTo("get") /\ UNCHANGED <<seen, engine>>
    <3>1. PICK u \in Uuids : /\ Titled(goal.title) = {u}
                            /\ target' = u /\ GoTo("get") /\ UNCHANGED <<seen, engine>>
      BY <2>3
    <3>2. Live(u) /\ items[u].title = goal.title
      BY <3>1 DEF Titled
    <3>3. u \notin unborn
      BY <3>2 DEF MadeInv, TitlesOK
    <3> QED
      BY <1>5, <3>1, <3>2, <3>3 DEF FindItemIDByTitle, GoTo, vault, engine, state, MadeInv,
                      TitlesOK, AtMostOneMade, Live, OfProvider, IsRecorded
  <2> QED BY <1>5, <2>1, <2>2, <2>3 DEF FindItemIDByTitle
<1>6. CASE Get
  <2>1. CASE Fail
    BY <1>6, <2>1, FailTitles DEF Get
  <2>2. CASE GoTo("put") /\ UNCHANGED <<target, engine>>
    BY <1>6, <2>2 DEF Get, GoTo, vault, engine, state, MadeInv,
                      TitlesOK, AtMostOneMade, Live, OfProvider, IsRecorded
  <2> QED BY <1>6, <2>1, <2>2 DEF Get
<1>7. CASE Put
  <2>1. CASE WriteFails(PutRequest, TRUE)
    BY <2>1, WriteFailsTitles
  <2>2. CASE Fail /\ UNCHANGED vault
    BY <2>2, FailTitles
  <2>3. CASE /\ Live(target) /\ ApplyPut(PutRequest) /\ UNCHANGED late
             /\ \/ NoFault /\ kind = "create" /\ CreateDone(target)
                \/ NoFault /\ kind = "update" /\ UpdateDone
                \/ Fault("lost") /\ RetryOrFail(TRUE)
    <3>0. pc = "put" /\ target \in Uuids /\ goal \in Goals /\ target \notin unborn
      BY <1>7 DEF Put, MadeInv, TypeInv, OpOK, TitlesOK
    <3>1. /\ AtMostOneMade' /\ late' = {} /\ unborn' = unborn
          /\ \A u \in unborn' : ~Live(u)'
          /\ items'[target].title = goal.title /\ items'[target].origin = items[target].origin
          /\ \A u \in Uuids : u # target => items'[u] = items[u]
      BY <2>3, <3>0, PutTitles
    <3>2. CASE CreateDone(target) \/ UpdateDone
      BY <3>0, <3>1, <3>2 DEF CreateDone, UpdateDone, StateOuts, GoIdle, TitlesOK, Live, OfProvider, IsRecorded
    <3>3. CASE RetryOrFail(TRUE)
      <4>1. IsRecorded =>
              st.uuid \notin unborn /\ (items'[st.uuid] # NoItem /\ items'[st.uuid].origin = "provider"
                                                => items'[st.uuid].title = st.title)
        <5> SUFFICES ASSUME IsRecorded
                     PROVE  st.uuid \notin unborn
                            /\ (items'[st.uuid] # NoItem /\ items'[st.uuid].origin = "provider"
                                                => items'[st.uuid].title = st.title)
          OBVIOUS
        <5>1. st.uuid \in Uuids /\ st.uuid \notin unborn
          BY DEF MadeInv, TypeInv, TypeOK, TitlesOK, IsRecorded, States
        <5>2. CASE st.uuid = target
          BY <2>3, <3>0, <3>1, <5>1, <5>2 DEF MadeInv, TitlesOK, Live, OfProvider
        <5>3. CASE st.uuid # target
          BY <3>1, <5>1, <5>3 DEF MadeInv, TitlesOK, Live, OfProvider
        <5> QED BY <5>1, <5>2, <5>3
      <4>2. UNCHANGED <<goal, st>>
        BY <3>3 DEF RetryOrFail, Fail, engine, state
      <4>3. CASE Fail
        BY <3>1, <4>1, <4>2, <4>3 DEF Fail, GoIdle, TitlesOK, Live, OfProvider, IsRecorded
      <4>4. CASE UNCHANGED <<kind, pc, target, seen, engine>>
        BY <3>0, <3>1, <4>1, <4>2, <4>4 DEF TitlesOK, Live, OfProvider, IsRecorded
      <4> QED BY <3>3, <4>3, <4>4 DEF RetryOrFail
    <3> QED BY <2>3, <3>2, <3>3
  <2> QED BY <1>7, <2>1, <2>2, <2>3 DEF Put
<1>8. CASE Post
  <2>1. CASE WriteFails(PostRequest, FALSE)
    BY <2>1, WriteFailsTitles
  <2>2. CASE \E u \in unborn :
                /\ ApplyPost(PostRequest, u) /\ UNCHANGED late
                /\ \/ NoFault /\ CreateDone(u)
                   \/ Fault("lost") /\ RetryOrFail(FALSE)
    <3>1. PICK u \in unborn :
                /\ ApplyPost(PostRequest, u) /\ UNCHANGED late
                /\ \/ NoFault /\ CreateDone(u)
                   \/ Fault("lost") /\ RetryOrFail(FALSE)
      BY <2>2
    <3>2. /\ u \in Uuids /\ ~Live(u) /\ pc = "post" /\ goal \in Goals
          /\ items \in [Uuids -> Item \cup {NoItem}]
      BY <1>8 DEF Post, MadeInv, TypeInv, TypeOK, OpOK, TitlesOK
    <3>3. /\ unborn' = unborn \ {u}
          /\ items'[u].title = goal.title
          /\ \A w \in Uuids : w # u => items'[w] = items[w]
      BY <3>1, <3>2 DEF ApplyPost, PostRequest
    <3>4. \A w \in Uuids : w # u => Live(w)' = Live(w)
      BY <3>3 DEF Live
    <3>5. \A w \in Uuids : OfProvider(w) => items[w].title # goal.title
      BY <3>2 DEF MadeInv, TitlesOK
    <3>6. AtMostOneMade'
      BY <3>3, <3>4, <3>5 DEF MadeInv, AtMostOneMade, OfProvider, Live
    <3>7. late' = {} /\ \A w \in unborn' : ~Live(w)'
      BY <3>1, <3>3, <3>4 DEF MadeInv, TitlesOK, TypeInv, TypeOK
    <3>8. IsRecorded =>
              st.uuid \notin unborn' /\ (items'[st.uuid] # NoItem /\ items'[st.uuid].origin = "provider"
                                                => items'[st.uuid].title = st.title)
      BY <3>2, <3>3, <3>4 DEF MadeInv, TitlesOK, TypeInv, TypeOK, IsRecorded, States, Live, OfProvider
    <3>9. CASE CreateDone(u)
      BY <3>2, <3>3, <3>6, <3>7, <3>9 DEF CreateDone, StateOuts, GoIdle, TitlesOK, Live, OfProvider, IsRecorded
    <3>10. CASE RetryOrFail(FALSE)
      <4>1. attempt \in Nat /\ 1 <= attempt
        BY MaxRetriesAssumption DEF MadeInv, TypeInv, TypeOK
      <4>2. Fail
        BY <3>10, <4>1 DEF RetryOrFail, Attempts
      <4> QED
        BY <3>6, <3>7, <3>8, <4>2 DEF Fail, GoIdle, state, TitlesOK, Live, OfProvider, IsRecorded
    <3> QED BY <3>1, <3>9, <3>10
  <2> QED BY <1>8, <2>1, <2>2 DEF Post
<1>9. CASE Del
  <2>1. CASE WriteFails(DeleteRequest, TRUE)
    BY <2>1, WriteFailsTitles
  <2>2. CASE /\ ApplyDelete(DeleteRequest) /\ UNCHANGED late
             /\ \/ NoFault /\ DeleteDone
                \/ Fault("lost") /\ RetryOrFail(TRUE)
    <3>1. \A w \in Uuids : items'[w] = NoItem \/ items'[w] = items[w]
      BY <2>2 DEF ApplyDelete, MadeInv, TypeInv, TypeOK
    <3>2. \A w \in Uuids : Live(w)' => Live(w) /\ items'[w] = items[w]
      BY <3>1 DEF Live
    <3>3. AtMostOneMade' /\ late' = {} /\ unborn' = unborn /\ \A w \in unborn' : ~Live(w)'
      BY <2>2, <3>2 DEF ApplyDelete, MadeInv, AtMostOneMade, TitlesOK, TypeInv, TypeOK, OfProvider
    <3>4. IsRecorded =>
              st.uuid \notin unborn /\ (items'[st.uuid] # NoItem /\ items'[st.uuid].origin = "provider"
                                                => items'[st.uuid].title = st.title)
      BY <3>1 DEF MadeInv, TitlesOK, TypeInv, TypeOK, IsRecorded, States, Live, OfProvider
    <3>5. CASE DeleteDone
      BY <3>3, <3>4, <3>5 DEF DeleteDone, GoIdle, TitlesOK, Live, OfProvider, IsRecorded
    <3>6. CASE RetryOrFail(TRUE)
      BY <1>9, <3>3, <3>4, <3>6 DEF Del, RetryOrFail, Fail, GoIdle, engine, state,
                                  TitlesOK, Live, OfProvider, IsRecorded
    <3> QED BY <2>2, <3>5, <3>6
  <2> QED BY <1>9, <2>1, <2>2 DEF Del
<1>10. CASE \E r \in late : Land(r)
  BY <1>10 DEF MadeInv, TitlesOK
<1>11. CASE Crash
  BY <1>11, FailTitles DEF Crash
<1>12. CASE EditProgram
  <2>1. pc = "idle"
    BY <1>12 DEF EditProgram, MadeInv, TypeInv, TypeOK, OpOK
  <2> QED
    BY <1>12, <2>1 DEF EditProgram, vault, op, MadeInv, TitlesOK, AtMostOneMade, Live, OfProvider, IsRecorded
<1>13. CASE HandCreate
  <2>1. PICK u \in unborn, t \in Titles, l \in FieldLabels :
            /\ unborn' = unborn \ {u}
            /\ items' = [items EXCEPT ![u] =
                  [title |-> t, fields |-> [NothingSeen EXCEPT ![l] = <<Hand>>],
                   origin |-> "person"]]
    BY <1>13 DEF HandCreate
  <2>2. u \in Uuids /\ items \in [Uuids -> Item \cup {NoItem}]
    BY DEF MadeInv, TypeInv, TypeOK
  <2>3. items'[u].origin = "person" /\ \A w \in Uuids : w # u => items'[w] = items[w]
    BY <2>1, <2>2
  <2> QED BY <1>13, <2>1, <2>2, <2>3, HandTitles DEF HandCreate
<1>14. CASE HandWrite
  <2>1. PICK u \in Uuids, l \in FieldLabels, new \in Seq(Values \cup {Hand}) :
            /\ Live(u) /\ items' = [items EXCEPT ![u].fields[l] = new]
            /\ HasValue(new) => HasValue(items[u].fields[l])
    BY <1>14, HandWriteMeans DEF MadeInv
  <2>2. items \in [Uuids -> Item \cup {NoItem}] /\ items[u] \in Item
    BY <2>1 DEF MadeInv, TypeInv, TypeOK, Live
  <2>3. /\ items'[u].title = items[u].title /\ items'[u].origin = items[u].origin
        /\ \A w \in Uuids : w # u => items'[w] = items[w]
    BY <2>1, <2>2 DEF Item
  <2>4. CASE Live(u)'
    BY <1>14, <2>1, <2>3, <2>4, HandTitles DEF HandWrite
  <2>5. CASE ~Live(u)'
    BY <1>14, <2>1, <2>3, <2>5, HandTitles DEF HandWrite, OfProvider
  <2> QED BY <2>4, <2>5
<1>15. CASE HandDelete
  <2>1. PICK u \in Uuids : Live(u) /\ items' = [items EXCEPT ![u] = NoItem]
    BY <1>15 DEF HandDelete
  <2>2. ~OfProvider(u)' /\ \A w \in Uuids : w # u => items'[w] = items[w]
    BY <2>1 DEF Live, OfProvider, MadeInv, TypeInv, TypeOK
  <2> QED BY <1>15, <2>1, <2>2, HandTitles DEF HandDelete
<1>16. CASE HandRename
  <2>1. PICK u \in Uuids, t \in Titles :
            Live(u) /\ items' = [items EXCEPT ![u].title = t, ![u].origin = "renamed"]
    BY <1>16 DEF HandRename
  <2>2. items \in [Uuids -> Item \cup {NoItem}] /\ items[u] \in Item
    BY <2>1 DEF MadeInv, TypeInv, TypeOK, Live
  <2>3. items'[u].origin = "renamed" /\ \A w \in Uuids : w # u => items'[w] = items[w]
    BY <2>1, <2>2 DEF Item
  <2> QED BY <1>16, <2>1, <2>3, HandTitles DEF HandRename, OfProvider
<1> QED
  BY <1>1, <1>2, <1>3, <1>4, <1>5, <1>6, <1>7, <1>8, <1>9, <1>10, <1>11, <1>12,
     <1>13, <1>14, <1>15, <1>16 DEF Next, Provider, World

\* Where no request lands after its caller gave up, the provider never leaves two
\* items of its own under one title, but for those that people rename.
THEOREM NeverTwoMade ==
    ASSUME "late" \notin FaultKinds
    PROVE  Spec => []AtMostOneMade
<1>1. MadeInv => AtMostOneMade
  BY DEF MadeInv
<1>2. MadeInv /\ [Next]_vars => MadeInv'
  BY NextMadeInv
<1> QED BY <1>1, <1>2, InitMadeInv, PTL DEF Spec

-----------------------------------------------------------------------------
(* What people wrote *)

\* A PUT sends back what the GET of its operation returned as the value of a label,
\* but for those that are declared or were managed before.
LEMMA BodyKeeps ==
    ASSUME NEW l \in Labels, Unmanaged(l), EndsWith(seen[l], Hand)
    PROVE  EndsWith(Body[l], Hand)
<1>1. Body[l] = <<Hand>>
  BY BodyAt DEF Unmanaged, EndsWith
<1> QED BY <1>1 DEF EndsWith

LEMMA SurviveStep ==
    ASSUME TypeInv, [Next]_vars, PutAttempt, NEW l \in Labels,
           Unmanaged(l), EndsWith(seen[l], Hand), EndsWith(items[target].fields[l], Hand)
    PROVE  EndsWith(items'[target].fields[l], Hand)
<1>0. pc = "put" /\ op' # op /\ target \in Uuids /\ items \in [Uuids -> Item \cup {NoItem}]
  BY DEF PutAttempt, TypeInv, TypeOK, OpOK
<1>1. CASE UNCHANGED items
  BY <1>1
<1>2. CASE Put
  <2>1. CASE ApplyPut(PutRequest)
    <3>1. items'[target].fields = Body
      BY <1>0, <2>1 DEF ApplyPut, PutRequest
    <3> QED BY <3>1, BodyKeeps
  <2> QED BY <1>1, <1>2, <2>1 DEF Put, WriteFails, vault
<1>3. CASE Crash
  BY <1>1, <1>3 DEF Crash, vault
<1>4. CASE BeginUp \/ EndUp \/ (\E r \in late : Land(r)) \/ EditProgram \/ UNCHANGED vars
  BY <1>0, <1>4 DEF BeginUp, EndUp, Land, EditProgram, vars
<1>5. CASE HandCreate \/ HandWrite \/ HandDelete \/ HandRename
  BY <1>0, <1>5 DEF HandCreate, HandWrite, HandDelete, HandRename, ByHand
<1>6. CASE StartCreate \/ StartUpdate \/ StartDelete \/ StartDeletePending
  BY <1>0, <1>6 DEF StartCreate, StartUpdate, StartDelete, StartDeletePending, Start
<1>7. CASE ReadFails \/ FindItemIDByTitle \/ Get \/ Post \/ Del
  BY <1>0, <1>7 DEF ReadFails, FindItemIDByTitle, Get, Post, Del
<1> QED BY <1>2, <1>3, <1>4, <1>5, <1>6, <1>7 DEF Next, Provider, World

\* No update takes away the value a label has that a person wrote, that the update
\* read, and that the program neither declares nor managed before.  (A field without
\* a label, and one another of its label follows, is taken away.)
THEOREM HandWrittenSurvives == Spec => SeenUnmanagedSurvive
<1>1. TypeInv /\ [Next]_vars =>
        [ PutAttempt =>
            \A l \in Labels :
                /\ Unmanaged(l)
                /\ EndsWith(seen[l], Hand) /\ EndsWith(items[target].fields[l], Hand)
                => EndsWith(items'[target].fields[l], Hand) ]_vars
  BY SurviveStep
<1> QED BY <1>1, InitTypeInv, NextTypeInv, PTL DEF Spec, SeenUnmanagedSurvive

-----------------------------------------------------------------------------
(* At most one item of a title that people made is adopted *)

\* An operation, a PUT that may still land, or the record is about the item under
\* this title.
Aimed(u, t) ==
    \/ pc \in {"get", "put"} /\ target = u /\ goal.title = t
    \/ \E r \in late : r.verb = "PUT" /\ r.uuid = u /\ r.title = t
    \/ IsRecorded /\ st.uuid = u /\ st.title = t

Claimed(u) == HoldsValue(u) \/ Aimed(u, items[u].title)

\* Only items that exist are aimed at, under the title they have, and of the
\* items of people one at most of each title.
AdoptInv ==
    /\ \A u \in Uuids : u \in unborn => ~Live(u)
    /\ \A u \in Uuids, t \in Titles : Aimed(u, t) =>
          u \notin unborn /\ (OfPerson(u) => items[u].title = t)
    /\ \A u, w \in Uuids :
          OfPerson(u) /\ Claimed(u) /\ OfPerson(w) /\ Claimed(w) /\ items[u].title = items[w].title
          => u = w

\* A step that aims at nothing new but what it makes itself, and gives no value
\* but to an item that was claimed.
LEMMA AdoptKept ==
    ASSUME TypeInv', AdoptInv,
           unborn' \subseteq unborn,
           \A u \in Uuids : u \in unborn' => items'[u] = items[u],
           \A u \in Uuids, t \in Titles :
              Aimed(u, t)' => Aimed(u, t) \/ (~OfPerson(u)' /\ u \notin unborn'),
           \A u \in Uuids : OfPerson(u)' =>
              \/ u \in unborn /\ ~HoldsValue(u)'
              \/ /\ OfPerson(u) /\ items'[u].title = items[u].title
                 /\ HoldsValue(u)' => Claimed(u)
    PROVE  AdoptInv'
<1>1. \A u \in Uuids : u \in unborn' => ~Live(u)'
  BY DEF AdoptInv, Live
<1>2. ASSUME NEW u \in Uuids, NEW t \in Titles, Aimed(u, t)'
      PROVE  u \notin unborn' /\ (OfPerson(u)' => items'[u].title = t)
  <2>1. CASE Aimed(u, t)
    <3>1. u \notin unborn /\ (OfPerson(u) => items[u].title = t)
      BY <2>1 DEF AdoptInv
    <3> QED BY <3>1
  <2>2. CASE ~OfPerson(u)' /\ u \notin unborn'
    BY <2>2
  <2> QED BY <1>2, <2>1, <2>2
<1>3. ASSUME NEW u \in Uuids, OfPerson(u)', Claimed(u)'
      PROVE  OfPerson(u) /\ Claimed(u) /\ items'[u].title = items[u].title
  <2>1. items'[u].title \in Titles
    BY <1>3 DEF OfPerson, Live, TypeInv, TypeOK, Item
  <2>2. CASE HoldsValue(u)'
    BY <1>3, <2>2
  <2>3. CASE Aimed(u, items[u].title)'
    <3>1. \A t \in Titles : Aimed(u, t)' => Aimed(u, t)
      BY <1>3
    <3>2. Aimed(u, items'[u].title)
      BY <2>1, <2>3, <3>1 DEF Aimed
    <3>3. u \notin unborn
      BY <2>1, <3>2 DEF AdoptInv
    <3> QED BY <1>3, <3>2, <3>3 DEF Claimed
  <2> QED BY <1>3, <2>2, <2>3 DEF Claimed
<1>4. \A u, w \in Uuids :
        OfPerson(u)' /\ Claimed(u)' /\ OfPerson(w)' /\ Claimed(w)'
        /\ items'[u].title = items'[w].title => u = w
  BY <1>3 DEF AdoptInv
<1> QED BY <1>1, <1>2, <1>4 DEF AdoptInv

\* A step that leaves the vault alone and aims at nothing new.
LEMMA VaultKept ==
    ASSUME TypeInv, TypeInv', AdoptInv, UNCHANGED <<items, unborn>>,
           \A u \in Uuids, t \in Titles : Aimed(u, t)' => Aimed(u, t)
    PROVE  AdoptInv'
<1>1. \A u \in Uuids : OfPerson(u)' => /\ OfPerson(u) /\ items'[u].title = items[u].title
                                       /\ HoldsValue(u)' => Claimed(u)
  BY DEF OfPerson, Live, HoldsValue, Claimed
<1> QED BY <1>1, AdoptKept

\* A write in flight or in progress gives values to the item it aims at, and keeps
\* its title if it is of a person.
LEMMA PutKept ==
    ASSUME TypeInv, TypeInv', AdoptInv,
           NEW r, r.uuid \in Uuids, r.title \in Titles, Aimed(r.uuid, r.title),
           Live(r.uuid), ApplyPut(r),
           \A u \in Uuids, t \in Titles : Aimed(u, t)' => Aimed(u, t)
    PROVE  AdoptInv'
<1> DEFINE w == r.uuid
<1>1. /\ items' = [items EXCEPT ![w] = [title |-> r.title, fields |-> r.fields,
                                        origin |-> items[w].origin]]
      /\ unborn' = unborn
      /\ items \in [Uuids -> Item \cup {NoItem}]
  BY DEF ApplyPut, TypeInv, TypeOK
<1>2. w \notin unborn /\ (OfPerson(w) => items[w].title = r.title)
  BY DEF AdoptInv
<1>3. /\ items'[w].title = r.title /\ items'[w].origin = items[w].origin
      /\ \A u \in Uuids : u # w => items'[u] = items[u]
  BY <1>1
<1>4. ASSUME NEW u \in Uuids, OfPerson(u)'
      PROVE  /\ OfPerson(u) /\ items'[u].title = items[u].title
             /\ HoldsValue(u)' => Claimed(u)
  <2>1. CASE u = w
    <3>1. OfPerson(u)
      BY <1>3, <1>4, <2>1 DEF OfPerson
    <3> QED BY <1>2, <1>3, <2>1, <3>1 DEF Claimed
  <2>2. CASE u # w
    BY <1>3, <1>4, <2>2 DEF OfPerson, Live, HoldsValue, Claimed
  <2> QED BY <2>1, <2>2
<1>5. \A u \in Uuids : u \in unborn' => items'[u] = items[u]
  BY <1>1, <1>2, <1>3
<1> QED BY <1>1, <1>4, <1>5, AdoptKept

\* An item the provider makes is not of a person.
LEMMA PostKept ==
    ASSUME TypeInv, TypeInv', AdoptInv, NEW r, NEW w \in unborn, ApplyPost(r, w),
           \A u \in Uuids, t \in Titles : Aimed(u, t)' => Aimed(u, t) \/ u = w
    PROVE  AdoptInv'
<1>1. /\ w \in Uuids /\ unborn' = unborn \ {w}
      /\ items'[w].origin = "provider"
      /\ \A u \in Uuids : u # w => items'[u] = items[u]
  BY DEF ApplyPost, TypeInv, TypeOK
<1>2. \A u \in Uuids : OfPerson(u)' => /\ OfPerson(u) /\ items'[u].title = items[u].title
                                       /\ HoldsValue(u)' => Claimed(u)
  BY <1>1 DEF OfPerson, Live, HoldsValue, Claimed
<1>3. ~OfPerson(w)'
  BY <1>1 DEF OfPerson
<1> QED BY <1>1, <1>2, <1>3, AdoptKept

\* Removing an item claims nothing.
LEMMA DeleteKept ==
    ASSUME TypeInv, TypeInv', AdoptInv, NEW w \in Uuids,
           items' = [items EXCEPT ![w] = NoItem], unborn' = unborn,
           \A u \in Uuids, t \in Titles : Aimed(u, t)' => Aimed(u, t)
    PROVE  AdoptInv'
<1>1. items'[w] = NoItem /\ \A u \in Uuids : u # w => items'[u] = items[u]
  BY DEF TypeInv, TypeOK
<1>2. \A u \in Uuids : OfPerson(u)' => /\ OfPerson(u) /\ items'[u].title = items[u].title
                                       /\ HoldsValue(u)' => Claimed(u)
  BY <1>1 DEF OfPerson, Live, HoldsValue, Claimed
<1>3. \A u \in Uuids : u \in unborn' => items'[u] = items[u]
  BY <1>1 DEF AdoptInv, Live
<1> QED BY <1>2, <1>3, AdoptKept

\* How an operation ends: what is recorded is what it aimed at.
LEMMA EndAims ==
    ASSUME TypeInv, late' = late, NEW u \in Uuids, NEW t \in Titles, Aimed(u, t)'
    PROVE  /\ Fail => Aimed(u, t)
           /\ \A i \in BOOLEAN : RetryOrFail(i) => Aimed(u, t)
           /\ DeleteDone => Aimed(u, t)
           /\ pc \in {"get", "put"} /\ (UpdateDone \/ CreateDone(target)) => Aimed(u, t)
           /\ \A w \in Uuids : CreateDone(w) => Aimed(u, t) \/ u = w
<1>1. Fail => Aimed(u, t)
  BY DEF Fail, GoIdle, state, Aimed, IsRecorded
<1>2. \A i \in BOOLEAN : RetryOrFail(i) => Aimed(u, t)
  BY <1>1 DEF RetryOrFail, engine, state, Aimed, IsRecorded
<1>3. DeleteDone => Aimed(u, t)
  BY DEF DeleteDone, GoIdle, Aimed, IsRecorded
<1>4. pc \in {"get", "put"} /\ (UpdateDone \/ CreateDone(target)) => Aimed(u, t)
  BY DEF UpdateDone, CreateDone, StateOuts, GoIdle, Aimed, IsRecorded
<1>5. \A w \in Uuids : CreateDone(w) => Aimed(u, t) \/ u = w
  BY DEF CreateDone, StateOuts, GoIdle, Aimed, IsRecorded
<1> QED BY <1>1, <1>2, <1>3, <1>4, <1>5

\* A write without effect may still land on the item it aims at.
LEMMA WriteFailsAims ==
    ASSUME TypeInv, NEW r, NEW i \in BOOLEAN, WriteFails(r, i),
           r.verb = "PUT" => Aimed(r.uuid, r.title),
           NEW u \in Uuids, NEW t \in Titles, Aimed(u, t)'
    PROVE  Aimed(u, t)
<1>1. late' \subseteq late \cup {r}
  BY DEF WriteFails
<1>2. Fail => UNCHANGED <<goal, st>> /\ pc' = "idle"
  BY DEF Fail, GoIdle, state
<1>3. UNCHANGED <<goal, st>> /\ (pc' = "idle" \/ UNCHANGED <<pc, target>>)
  BY <1>2 DEF WriteFails, RetryOrFail, engine, state
<1> QED BY <1>1, <1>3 DEF Aimed, IsRecorded

LEMMA NextAdopt == ASSUME TypeInv, AdoptInv, [Next]_vars PROVE AdoptInv'
<1>0. TypeInv'
  BY NextTypeInv
<1>1. CASE UNCHANGED vault /\ \A u \in Uuids, t \in Titles : Aimed(u, t)' => Aimed(u, t)
  BY <1>0, <1>1, VaultKept DEF vault
<1>2. CASE UNCHANGED vault /\ (Fail \/ (\E i \in BOOLEAN : RetryOrFail(i)))
  <2>1. late' = late
    BY <1>2 DEF vault
  <2> QED BY <1>1, <1>2, <2>1, EndAims
<1>3. CASE BeginUp \/ EndUp \/ StartCreate \/ StartDelete \/ StartDeletePending \/ EditProgram
           \/ UNCHANGED vars
  <2>1. UNCHANGED vault
    BY <1>3 DEF BeginUp, EndUp, StartCreate, StartDelete, StartDeletePending, Start, EditProgram,
                vars
  <2>2. ASSUME NEW u \in Uuids, NEW t \in Titles, Aimed(u, t)' PROVE Aimed(u, t)
    <3>1. CASE BeginUp \/ EndUp \/ UNCHANGED vars
      BY <2>2, <3>1 DEF BeginUp, EndUp, vars, vault, engine, state, op, Aimed, IsRecorded
    <3>2. CASE StartCreate \/ StartDelete \/ StartDeletePending
      BY <2>2, <3>2 DEF StartCreate, StartDelete, StartDeletePending, Start, vault, engine, state,
                        Aimed, IsRecorded
    <3>3. CASE EditProgram
      <4>1. pc = "idle"
        BY <3>3 DEF EditProgram, TypeInv, OpOK
      <4> QED BY <2>2, <3>3, <4>1 DEF EditProgram, vault, op, Aimed, IsRecorded
    <3> QED BY <1>3, <3>1, <3>2, <3>3
  <2> QED BY <1>1, <2>1, <2>2
<1>4. CASE StartUpdate
  <2>1. IsRecorded /\ st.title = goal.title
    BY <1>4, UpdateDueMeans DEF StartUpdate
  <2>2. UNCHANGED vault /\ \A u \in Uuids, t \in Titles : Aimed(u, t)' => Aimed(u, t)
    BY <1>4, <2>1 DEF StartUpdate, Start, vault, engine, state, Aimed, IsRecorded
  <2> QED BY <1>1, <2>2
<1>5. CASE ReadFails \/ Crash
  BY <1>2, <1>5 DEF ReadFails, Crash
<1>6. CASE FindItemIDByTitle
  <2>1. CASE Fail
    BY <1>2, <1>6, <2>1 DEF FindItemIDByTitle
  <2>2. CASE GoTo("post") /\ UNCHANGED <<target, seen, engine>>
    <3>1. UNCHANGED vault /\ \A u \in Uuids, t \in Titles : Aimed(u, t)' => Aimed(u, t)
      BY <1>6, <2>2 DEF FindItemIDByTitle, GoTo, vault, engine, state, Aimed, IsRecorded
    <3> QED BY <1>1, <3>1
  <2>3. ASSUME NEW w \in Uuids, Titled(goal.title) = {w}, target' = w, GoTo("get"),
               UNCHANGED <<seen, engine>>
        PROVE  AdoptInv'
    <3>1. UNCHANGED <<items, unborn, late, goal, st>>
      BY <1>6, <2>3 DEF FindItemIDByTitle, vault, engine, state
    <3>2. Live(w) /\ items[w].title = goal.title /\ w \notin unborn
      BY <2>3 DEF Titled, AdoptInv
    <3>3. \A u \in Uuids : Live(u) /\ items[u].title = goal.title => u = w
      BY <2>3 DEF Titled
    <3>4. \A u \in Uuids, t \in Titles : Aimed(u, t)' => Aimed(u, t) \/ (u = w /\ t = goal.title)
      BY <1>6, <2>3, <3>1 DEF FindItemIDByTitle, GoTo, Aimed, IsRecorded
    <3>5. /\ \A u \in Uuids : u \in unborn' => ~Live(u)'
          /\ \A u \in Uuids, t \in Titles : Aimed(u, t)' =>
                u \notin unborn' /\ (OfPerson(u)' => items'[u].title = t)
      BY <3>1, <3>2, <3>4 DEF AdoptInv, OfPerson, Live
    <3>6. ASSUME NEW u \in Uuids, OfPerson(u)', Claimed(u)', items'[u].title # goal.title
          PROVE  OfPerson(u) /\ Claimed(u)
      <4>1. OfPerson(u) /\ items[u].title \in Titles /\ items' = items
        BY <3>1, <3>6 DEF OfPerson, Live, TypeInv, TypeOK, Item
      <4>2. HoldsValue(u)' => HoldsValue(u)
        BY <4>1 DEF HoldsValue
      <4>3. ASSUME NEW t \in Titles, t = items'[u].title, Aimed(u, items[u].title)'
            PROVE  Aimed(u, t)
        <5>1. Aimed(u, t)'
          BY <4>3 DEF Aimed
        <5> QED BY <3>4, <3>6, <4>3, <5>1
      <4> QED BY <3>6, <4>1, <4>2, <4>3 DEF Claimed
    <3>7. ASSUME NEW u \in Uuids, NEW v \in Uuids, OfPerson(u)', Claimed(u)', OfPerson(v)', Claimed(v)',
                 items'[u].title = items'[v].title
          PROVE  u = v
      <4>1. CASE items'[u].title = goal.title
        BY <3>1, <3>3, <3>7, <4>1 DEF OfPerson, Live
      <4>2. CASE items'[u].title # goal.title
        BY <3>1, <3>6, <3>7, <4>2 DEF AdoptInv
      <4> QED BY <4>1, <4>2
    <3> QED BY <3>5, <3>7 DEF AdoptInv
  <2> QED BY <1>6, <2>1, <2>2, <2>3 DEF FindItemIDByTitle
<1>7. CASE Get
  <2>1. CASE Fail
    BY <1>2, <1>7, <2>1 DEF Get
  <2>2. CASE GoTo("put") /\ UNCHANGED <<target, engine>>
    <3>1. UNCHANGED vault /\ \A u \in Uuids, t \in Titles : Aimed(u, t)' => Aimed(u, t)
      BY <1>7, <2>2 DEF Get, GoTo, vault, engine, state, Aimed, IsRecorded
    <3> QED BY <1>1, <3>1
  <2> QED BY <1>7, <2>1, <2>2 DEF Get
<1>8. CASE Put
  <2>1. /\ pc = "put" /\ PutRequest.uuid = target /\ target \in Uuids
        /\ PutRequest.title = goal.title /\ goal.title \in Titles
        /\ PutRequest.title \in Titles /\ Aimed(PutRequest.uuid, PutRequest.title)
    BY <1>8 DEF Put, PutRequest, TypeInv, OpOK, Goals, Aimed
  <2>2. CASE Fail /\ UNCHANGED vault
    BY <1>2, <2>2
  <2>3. CASE WriteFails(PutRequest, TRUE)
    <3>1. UNCHANGED <<items, unborn>>
      BY <2>3 DEF WriteFails
    <3>2. \A u \in Uuids, t \in Titles : Aimed(u, t)' => Aimed(u, t)
      BY <2>1, <2>3, WriteFailsAims
    <3> QED BY <1>0, <3>1, <3>2, VaultKept
  <2>4. CASE /\ Live(target) /\ ApplyPut(PutRequest) /\ UNCHANGED late
             /\ CreateDone(target) \/ UpdateDone \/ RetryOrFail(TRUE)
    <3>1. \A u \in Uuids, t \in Titles : Aimed(u, t)' => Aimed(u, t)
      BY <2>1, <2>4, EndAims
    <3> QED BY <1>0, <2>1, <2>4, <3>1, PutKept
  <2> QED BY <1>8, <2>2, <2>3, <2>4 DEF Put
<1>9. CASE Post
  <2>1. CASE WriteFails(PostRequest, FALSE)
    <3>1. UNCHANGED <<items, unborn>>
      BY <2>1 DEF WriteFails
    <3>2. PostRequest.verb # "PUT"
      BY DEF PostRequest
    <3>3. \A u \in Uuids, t \in Titles : Aimed(u, t)' => Aimed(u, t)
      BY <2>1, <3>2, WriteFailsAims
    <3> QED BY <1>0, <3>1, <3>3, VaultKept
  <2>2. ASSUME NEW w \in unborn, ApplyPost(PostRequest, w), UNCHANGED late,
               CreateDone(w) \/ RetryOrFail(FALSE)
        PROVE  AdoptInv'
    <3>1. w \in Uuids
      BY DEF TypeInv, TypeOK
    <3>2. \A u \in Uuids, t \in Titles : Aimed(u, t)' => Aimed(u, t) \/ u = w
      BY <2>2, <3>1, EndAims
    <3> QED BY <1>0, <2>2, <3>2, PostKept
  <2> QED BY <1>9, <2>1, <2>2 DEF Post
<1>10. CASE Del
  <2>1. DeleteRequest.verb # "PUT" /\ DeleteRequest.uuid = target /\ target \in Uuids
    BY <1>10 DEF Del, DeleteRequest, TypeInv, OpOK
  <2>2. CASE WriteFails(DeleteRequest, TRUE)
    <3>1. UNCHANGED <<items, unborn>>
      BY <2>2 DEF WriteFails
    <3>2. \A u \in Uuids, t \in Titles : Aimed(u, t)' => Aimed(u, t)
      BY <2>1, <2>2, WriteFailsAims
    <3> QED BY <1>0, <3>1, <3>2, VaultKept
  <2>3. CASE ApplyDelete(DeleteRequest) /\ UNCHANGED late /\ (DeleteDone \/ RetryOrFail(TRUE))
    <3>1. \A u \in Uuids, t \in Titles : Aimed(u, t)' => Aimed(u, t)
      BY <2>3, EndAims
    <3>2. items' = [items EXCEPT ![target] = NoItem] /\ unborn' = unborn
      BY <2>1, <2>3 DEF ApplyDelete
    <3> QED BY <1>0, <2>1, <3>1, <3>2, DeleteKept
  <2> QED BY <1>10, <2>2, <2>3 DEF Del
<1>11. ASSUME NEW r \in late, Land(r) PROVE AdoptInv'
  <2>1. r.title \in Titles /\ (r.verb # "POST" => r.uuid \in Uuids)
    BY DEF TypeInv, TypeOK, OpOK, Request
  <2>2. \A u \in Uuids, t \in Titles : Aimed(u, t)' => Aimed(u, t)
    BY <1>11 DEF Land, engine, state, op, Aimed, IsRecorded
  <2>3. CASE UNCHANGED <<items, unborn>>
    BY <1>0, <2>2, <2>3, VaultKept
  <2>4. CASE r.verb = "PUT" /\ Live(r.uuid) /\ ApplyPut(r)
    <3>1. Aimed(r.uuid, r.title)
      BY <2>4 DEF Aimed
    <3> QED BY <1>0, <2>1, <2>2, <2>4, <3>1, PutKept
  <2>5. CASE r.verb = "POST" /\ \E u \in unborn : ApplyPost(r, u)
    BY <1>0, <2>2, <2>5, PostKept
  <2>6. CASE r.verb = "DELETE" /\ ApplyDelete(r)
    <3>1. items' = [items EXCEPT ![r.uuid] = NoItem] /\ unborn' = unborn
      BY <2>6 DEF ApplyDelete
    <3> QED BY <1>0, <2>1, <2>2, <2>6, <3>1, DeleteKept
  <2> QED BY <1>11, <2>3, <2>4, <2>5, <2>6 DEF Land
<1>12. ASSUME NEW k, ByHand(k), NEW u \in Uuids, NEW t \in Titles, Aimed(u, t)' PROVE Aimed(u, t)
  BY <1>12 DEF ByHand, engine, state, op, Aimed, IsRecorded
<1>13. CASE HandCreate
  <2>1. PICK w \in unborn, t \in Titles, l \in FieldLabels :
            /\ unborn' = unborn \ {w}
            /\ items' = [items EXCEPT ![w] =
                  [title |-> t, fields |-> [NothingSeen EXCEPT ![l] = <<Hand>>],
                   origin |-> "person"]]
    BY <1>13 DEF HandCreate
  <2>2. /\ w \in Uuids /\ items'[w].fields = [NothingSeen EXCEPT ![l] = <<Hand>>]
        /\ \A u \in Uuids : u # w => items'[u] = items[u]
    BY <2>1 DEF TypeInv, TypeOK
  <2>3. ~HoldsValue(w)'
    BY <2>1, <2>2, HandFieldIsNoValue DEF HoldsValue
  <2>4. \A u \in Uuids : OfPerson(u)' =>
              \/ u \in unborn /\ ~HoldsValue(u)'
              \/ /\ OfPerson(u) /\ items'[u].title = items[u].title
                 /\ HoldsValue(u)' => Claimed(u)
    BY <2>2, <2>3 DEF OfPerson, Live, HoldsValue, Claimed
  <2>5. \A u \in Uuids, s \in Titles : Aimed(u, s)' => Aimed(u, s)
    BY <1>12, <1>13 DEF HandCreate
  <2> QED BY <1>0, <2>1, <2>2, <2>4, <2>5, AdoptKept
<1>14. CASE HandWrite
  <2>1. PICK w \in Uuids, l \in FieldLabels, new \in Seq(Values \cup {Hand}) :
            /\ Live(w) /\ items' = [items EXCEPT ![w].fields[l] = new]
            /\ HasValue(new) => HasValue(items[w].fields[l])
    BY <1>0, <1>14, HandWriteMeans
  <2>2. items \in [Uuids -> Item \cup {NoItem}] /\ unborn' = unborn
    BY <1>14 DEF HandWrite, TypeInv, TypeOK
  <2>3. /\ items'[w] = [items[w] EXCEPT !.fields[l] = new]
        /\ \A u \in Uuids : u # w => items'[u] = items[u]
    BY <2>1, <2>2
  <2>4. items[w] \in Item
    BY <2>1, <2>2 DEF Live
  <2>5. /\ items'[w].title = items[w].title /\ items'[w].origin = items[w].origin
        /\ items'[w].fields = [items[w].fields EXCEPT ![l] = new]
        /\ items[w].fields \in Stored
    BY <2>3, <2>4 DEF Item
  <2>6. HoldsValue(w)' => HoldsValue(w)
    BY <2>1, <2>5 DEF HoldsValue, Stored
  <2>7. \A u \in Uuids : OfPerson(u)' => /\ OfPerson(u) /\ items'[u].title = items[u].title
                                         /\ HoldsValue(u)' => Claimed(u)
    BY <2>1, <2>3, <2>5, <2>6 DEF OfPerson, Live, HoldsValue, Claimed
  <2>8. \A u \in Uuids, s \in Titles : Aimed(u, s)' => Aimed(u, s)
    BY <1>12, <1>14 DEF HandWrite
  <2>9. \A u \in Uuids : u \in unborn' => items'[u] = items[u]
    BY <2>1, <2>2, <2>3 DEF AdoptInv
  <2> QED BY <1>0, <2>2, <2>7, <2>8, <2>9, AdoptKept
<1>15. CASE HandDelete
  <2>1. \A u \in Uuids, s \in Titles : Aimed(u, s)' => Aimed(u, s)
    BY <1>12, <1>15 DEF HandDelete
  <2> QED BY <1>0, <1>15, <2>1, DeleteKept DEF HandDelete
<1>16. CASE HandRename
  <2>1. PICK w \in Uuids, s \in Titles :
            Live(w) /\ items' = [items EXCEPT ![w].title = s, ![w].origin = "renamed"]
    BY <1>16 DEF HandRename
  <2>2. items \in [Uuids -> Item \cup {NoItem}] /\ unborn' = unborn /\ items[w] \in Item
    BY <1>16, <2>1 DEF HandRename, TypeInv, TypeOK, Live
  <2>3. items'[w].origin = "renamed" /\ \A u \in Uuids : u # w => items'[u] = items[u]
    BY <2>1, <2>2 DEF Item
  <2>4. \A u \in Uuids : OfPerson(u)' => /\ OfPerson(u) /\ items'[u].title = items[u].title
                                         /\ HoldsValue(u)' => Claimed(u)
    BY <2>3 DEF OfPerson, Live, HoldsValue, Claimed
  <2>5. \A u \in Uuids, t \in Titles : Aimed(u, t)' => Aimed(u, t)
    BY <1>12, <1>16 DEF HandRename
  <2>6. \A u \in Uuids : u \in unborn' => items'[u] = items[u]
    BY <2>1, <2>2, <2>3 DEF AdoptInv
  <2> QED BY <1>0, <2>2, <2>4, <2>5, <2>6, AdoptKept
<1> QED
  BY <1>3, <1>4, <1>5, <1>6, <1>7, <1>8, <1>9, <1>10, <1>11, <1>13, <1>14, <1>15, <1>16
     DEF Next, Provider, World

\* Of the items that people made under one title and did not rename, the provider
\* writes to one at most, whatever requests are lost or arrive late.
THEOREM AdoptsOne == Spec => []AdoptsAtMostOne
<1>1. Init => AdoptInv
  <2>1. ASSUME Init PROVE (\A u \in Uuids : ~Live(u)) /\ \A u, t : ~Aimed(u, t)
    BY <2>1 DEF Init, Live, Aimed, IsRecorded
  <2> QED BY <2>1 DEF AdoptInv, OfPerson
<1>2. AdoptInv => AdoptsAtMostOne
  BY DEF AdoptInv, AdoptsAtMostOne, Claimed
<1> QED BY <1>1, <1>2, InitTypeInv, NextTypeInv, NextAdopt, PTL DEF Spec

-----------------------------------------------------------------------------
(* The recorded item exists and holds what is declared *)

\* What RecordedItemExists and InSync ask of a step: a request that fails had no
\* effect, people only make items, and the program declares the one title `t`.
Plain(t) ==
    /\ faults' # faults => UNCHANGED vault
    /\ hands' # hands => HandCreate
    /\ goal' # NoGoal => goal'.title = t

\* The item holds the values of these declared fields, and no other.
Holds(fields, u) ==
    \A l \in Labels : IF fields[l] # Absent THEN items[u].fields[l] = <<fields[l]>>
                                            ELSE ~HasValue(items[u].fields[l])

\* The vault is in step with the record at every point of every operation: values
\* are in the recorded item only, and what a GET returned is what a PUT will find.
SyncInv(t) ==
    /\ TypeInv
    /\ late = {} /\ pending = {}
    /\ \A u \in unborn : ~Live(u)
    /\ IsDeclared => goal.title = t
    /\ IsRecorded => /\ Live(st.uuid) /\ st.title = t
                     /\ st.managedLabels = LabelsOf(st.contentHash)
                     /\ Holds(st.contentHash, st.uuid)
    /\ \A u \in Uuids : Live(u) /\ HoldsValue(u) => IsRecorded /\ u = st.uuid
    /\ kind = "create" => ~IsRecorded
    /\ pc = "put" /\ kind = "create" => \A l \in Labels : ~HasValue(seen[l])
    /\ pc = "put" /\ kind = "update" => seen = items[st.uuid].fields
    /\ pc = "del" => kind = "delete" /\ IsRecorded /\ target = st.uuid

\* A step that leaves the vault and the record alone and reads nothing.
LEMMA SyncKept ==
    ASSUME NEW t, SyncInv(t), TypeInv', Plain(t), UNCHANGED <<vault, st, pending>>,
           \/ pc' = "idle" /\ kind' = "none"
           \/ UNCHANGED <<pc, kind, target, seen>>
           \/ pc' \in {"find", "post", "get"} /\ (kind' = "create" => ~IsRecorded)
           \/ pc' = "del" /\ kind' = "delete" /\ IsRecorded /\ target' = st.uuid
    PROVE  SyncInv(t)'
<1>1. UNCHANGED <<items, unborn, late>>
  BY DEF vault
<1>2. /\ late' = {} /\ pending' = {} /\ \A u \in unborn' : ~Live(u)'
      /\ IsDeclared' => goal'.title = t
  BY <1>1 DEF SyncInv, Plain, IsDeclared, Live
<1>3. IsRecorded' => /\ Live(st.uuid)' /\ st'.title = t
                     /\ st'.managedLabels = LabelsOf(st.contentHash)'
                     /\ Holds(st.contentHash, st.uuid)'
  BY <1>1 DEF SyncInv, IsRecorded, Live, Holds, LabelsOf
<1>4. \A u \in Uuids : Live(u)' /\ HoldsValue(u)' => IsRecorded' /\ u = st'.uuid
  BY <1>1 DEF SyncInv, IsRecorded, Live, HoldsValue
<1>5. /\ kind' = "create" => ~IsRecorded'
      /\ pc' = "put" /\ kind' = "create" => \A l \in Labels : ~HasValue(seen'[l])
      /\ pc' = "put" /\ kind' = "update" => seen' = items'[st'.uuid].fields
      /\ pc' = "del" => kind' = "delete" /\ IsRecorded' /\ target' = st'.uuid
  BY <1>1 DEF SyncInv, IsRecorded, TypeInv, OpOK
<1> QED BY <1>2, <1>3, <1>4, <1>5 DEF SyncInv

\* A write that makes `w` the only item with values, and records it.
LEMMA SyncWritten ==
    ASSUME NEW t, SyncInv(t), TypeInv', Plain(t), GoIdle, UNCHANGED <<late, goal, pending>>,
           NEW w \in Uuids, w \notin unborn', unborn' \subseteq unborn, goal \in Goals,
           IsRecorded => st.uuid = w,
           st' = StateOuts(goal, w),
           \A u \in Uuids : u # w => items'[u] = items[u],
           items'[w] # NoItem, Holds(goal.fields, w)'
    PROVE  SyncInv(t)'
<1>1. /\ st'.uuid = w /\ st'.title = goal.title /\ st'.contentHash = goal.fields
      /\ st'.managedLabels = LabelsOf(goal.fields)
  BY DEF StateOuts, ContentHash
<1>2. IsRecorded'
  BY PureTypes, NullsAssumption DEF IsRecorded
<1>3. goal.title = t
  BY NullsAssumption DEF SyncInv, IsDeclared
<1>4. \A u \in unborn' : ~Live(u)'
  BY DEF SyncInv, Live, TypeInv, TypeOK
<1>5. ASSUME NEW u \in Uuids, Live(u)', HoldsValue(u)' PROVE u = w
  BY <1>5 DEF SyncInv, Live, HoldsValue
<1>6. Holds(st.contentHash, st.uuid)'
  BY <1>1 DEF Holds
<1>7. LabelsOf(st.contentHash)' = LabelsOf(goal.fields)
  BY <1>1 DEF LabelsOf
<1> QED BY <1>1, <1>2, <1>3, <1>4, <1>5, <1>6, <1>7 DEF SyncInv, GoIdle, IsDeclared, Live

\* What the PUT in progress leaves in the item.
LEMMA BodySynced ==
    ASSUME NEW t, SyncInv(t), pc = "put", NEW l \in Labels
    PROVE  IF goal.fields[l] # Absent THEN Body[l] = <<goal.fields[l]>> ELSE ~HasValue(Body[l])
<1>2. goal.fields[l] = Absent /\ l \notin PriorManagedLabels => ~HasValue(seen[l])
  <2>1. CASE kind = "create"
    BY <2>1 DEF SyncInv
  <2>2. CASE kind = "update" /\ l \notin PriorManagedLabels
    <3>1. IsRecorded /\ seen = items[st.uuid].fields /\ PriorManagedLabels = LabelsOf(st.contentHash)
      BY <2>2 DEF SyncInv, TypeInv, OpOK, PriorManagedLabels
    <3>2. st.contentHash[l] = Absent
      BY <2>2, <3>1 DEF LabelsOf
    <3> QED BY <3>1, <3>2 DEF SyncInv, Holds
  <2> QED BY <2>1, <2>2 DEF SyncInv, TypeInv, OpOK
<1>3. ~HasValue(<<>>)
  BY DEF HasValue
<1>4. seen[l] \in Seq(Values \cup {Hand})
  BY DEF SyncInv, TypeInv, TypeOK, Stored, FieldLabels
<1>5. seen[l] # <<>> /\ ~HasValue(seen[l]) => ~HasValue(<<seen[l][Len(seen[l])]>>)
  BY <1>4 DEF HasValue
<1> QED BY <1>2, <1>3, <1>5, BodyAt

\* A fault is one more fault.
LEMMA FaultCounts ==
    ASSUME TypeInv, NEW f, Fault(f), NEW t, Plain(t) PROVE UNCHANGED vault
BY OnePasswordAssumption DEF Fault, Plain, TypeInv, TypeOK

\* A step in which an operation fails or tries again.
LEMMA SyncFails ==
    ASSUME NEW t, SyncInv(t), TypeInv', Plain(t), UNCHANGED vault,
           Fail \/ (\E i \in BOOLEAN : RetryOrFail(i))
    PROVE  SyncInv(t)'
<1>1. CASE Fail
  BY <1>1, SyncKept DEF Fail, GoIdle, state
<1>2. CASE UNCHANGED <<kind, pc, target, seen, engine>>
  BY <1>2, SyncKept DEF engine, state
<1> QED BY <1>1, <1>2 DEF RetryOrFail

LEMMA NextSync == ASSUME NEW t, SyncInv(t), [Next]_vars, Plain(t) PROVE SyncInv(t)'
<1>0. TypeInv /\ TypeInv'
  BY NextTypeInv DEF SyncInv
<1>1. CASE BeginUp \/ EndUp \/ UNCHANGED vars
  BY <1>0, <1>1, SyncKept DEF BeginUp, EndUp, vars, engine, state, op
<1>2. CASE StartCreate
  <2>1. ~IsRecorded
    BY <1>2 DEF StartCreate, CreateDue, MayCreate, DiffNow, Diff, SyncInv
  <2> QED BY <1>0, <1>2, <2>1, SyncKept DEF StartCreate, Start, engine, state
<1>3. CASE StartUpdate
  BY <1>0, <1>3, SyncKept DEF StartUpdate, Start, engine, state
<1>4. CASE StartDelete
  <2>1. IsRecorded
    BY <1>4 DEF StartDelete, DeleteDue, MayDelete
  <2> QED BY <1>0, <1>4, <2>1, SyncKept DEF StartDelete, Start, engine, state
<1>5. CASE StartDeletePending
  BY <1>5 DEF StartDeletePending, SyncInv
<1>6. CASE ReadFails
  BY <1>0, <1>6, SyncFails DEF ReadFails
<1>7. CASE FindItemIDByTitle
  <2>1. ~IsRecorded
    BY <1>7 DEF FindItemIDByTitle, SyncInv, TypeInv, OpOK
  <2>2. CASE Fail
    BY <1>0, <1>7, <2>2, SyncFails DEF FindItemIDByTitle
  <2>3. CASE (GoTo("post") \/ GoTo("get")) /\ UNCHANGED engine
    BY <1>0, <1>7, <2>1, <2>3, SyncKept DEF FindItemIDByTitle, GoTo, engine, state
  <2> QED BY <1>7, <2>2, <2>3 DEF FindItemIDByTitle
<1>8. CASE Get
  <2>1. CASE Fail
    BY <1>0, <1>8, <2>1, SyncFails DEF Get
  <2>2. CASE /\ Live(target) /\ seen' = items[target].fields /\ GoTo("put")
             /\ UNCHANGED <<target, engine>>
    <3>1. UNCHANGED <<items, unborn, late, goal, st, pending, kind, target>> /\ pc' = "put"
      BY <1>8, <2>2 DEF Get, GoTo, vault, engine, state
    <3>2. target \in Uuids /\ kind \in {"create", "update"}
      BY <1>0, <1>8 DEF Get, TypeInv, OpOK
    <3>3. kind = "create" => \A l \in Labels : ~HasValue(seen'[l])
      BY <2>2, <3>2 DEF SyncInv, HoldsValue
    <3>4. kind = "update" => seen' = items'[st'.uuid].fields
      BY <1>0, <2>2, <3>1 DEF TypeInv, OpOK
    <3> QED
      BY <1>0, <3>1, <3>3, <3>4
         DEF SyncInv, IsDeclared, IsRecorded, Live, Holds, HoldsValue, LabelsOf
  <2> QED BY <1>8, <2>1, <2>2 DEF Get
<1>9. CASE Put
  <2>1. CASE UNCHANGED vault /\ (Fail \/ RetryOrFail(TRUE))
    BY <1>0, <2>1, SyncFails
  <2>2. CASE WriteFails(PutRequest, TRUE)
    BY <1>0, <2>1, <2>2, FaultCounts DEF WriteFails
  <2>3. CASE /\ Live(target) /\ ApplyPut(PutRequest) /\ UNCHANGED late
             /\ \/ NoFault /\ kind = "create" /\ CreateDone(target)
                \/ NoFault /\ kind = "update" /\ UpdateDone
    <3>1. /\ pc = "put" /\ target \in Uuids /\ goal \in Goals /\ target \notin unborn
          /\ items \in [Uuids -> Item \cup {NoItem}]
          /\ PutRequest \in Request
      BY <1>0, <1>9, <2>3, RequestTypes DEF Put, TypeInv, TypeOK, OpOK, SyncInv
    <3>2. /\ items' = [items EXCEPT ![target] =
                [title |-> goal.title, fields |-> Body, origin |-> items[target].origin]]
          /\ unborn' = unborn
      BY <2>3 DEF ApplyPut, PutRequest
    <3>3. /\ items'[target] = [title |-> goal.title, fields |-> Body,
                               origin |-> items[target].origin]
          /\ \A u \in Uuids : u # target => items'[u] = items[u]
      BY <3>1, <3>2
    <3>4. items'[target] # NoItem
      <4>1. Body \in Stored /\ goal.title \in Titles
        BY <3>1 DEF PutRequest, Request
      <4>2. items[target].origin \in {"provider", "person", "renamed"}
        BY <2>3, <3>1 DEF Live, Item
      <4>3. items'[target] \in Item
        BY <3>3, <4>1, <4>2 DEF Item
      <4> QED BY <4>3, NullsAssumption
    <3>5. \A l \in Labels : IF goal.fields[l] # Absent THEN Body[l] = <<goal.fields[l]>>
                                                       ELSE ~HasValue(Body[l])
      BY <3>1, BodySynced
    <3>6. IsRecorded => st.uuid = target
      BY <1>0, <2>3 DEF SyncInv, TypeInv, OpOK
    <3>7. /\ GoIdle /\ UNCHANGED <<late, goal, pending>> /\ st' = StateOuts(goal, target)
      BY <2>3 DEF CreateDone, UpdateDone, SyncInv
    <3>8. PICK w \in Uuids : w = target
      BY <3>1
    <3>9. Holds(goal.fields, w)'
      BY <3>3, <3>5, <3>7, <3>8 DEF Holds
    <3> QED BY <1>0, <3>1, <3>2, <3>3, <3>4, <3>6, <3>7, <3>8, <3>9, SyncWritten
  <2>4. CASE ApplyPut(PutRequest) /\ UNCHANGED late /\ Fault("lost") /\ RetryOrFail(TRUE)
    BY <1>0, <2>1, <2>4, FaultCounts
  <2> QED BY <1>9, <2>1, <2>2, <2>3, <2>4 DEF Put
<1>10. CASE Post
  <2>1. CASE UNCHANGED vault /\ RetryOrFail(FALSE)
    BY <1>0, <2>1, SyncFails
  <2>2. CASE WriteFails(PostRequest, FALSE)
    BY <1>0, <2>1, <2>2, FaultCounts DEF WriteFails
  <2>3. ASSUME NEW w \in unborn, ApplyPost(PostRequest, w), UNCHANGED late, CreateDone(w)
        PROVE  SyncInv(t)'
    <3>1. /\ w \in Uuids /\ goal \in Goals /\ ~IsRecorded
          /\ items \in [Uuids -> Item \cup {NoItem}] /\ PostRequest \in Request
      BY <1>0, <1>10, RequestTypes DEF Post, TypeInv, TypeOK, OpOK, SyncInv
    <3>2. /\ items' = [items EXCEPT ![w] =
                [title |-> goal.title, fields |-> ManagedFields(goal.fields),
                 origin |-> "provider"]]
          /\ unborn' = unborn \ {w}
      BY <2>3 DEF ApplyPost, PostRequest
    <3>3. /\ items'[w] = [title |-> goal.title, fields |-> ManagedFields(goal.fields),
                          origin |-> "provider"]
          /\ \A u \in Uuids : u # w => items'[u] = items[u]
      BY <3>1, <3>2
    <3>4. items'[w] # NoItem
      <4>1. ManagedFields(goal.fields) \in Stored /\ goal.title \in Titles
        BY <3>1 DEF PostRequest, Request
      <4>2. items'[w] \in Item
        BY <3>3, <4>1 DEF Item
      <4> QED BY <4>2, NullsAssumption
    <3>5. Holds(goal.fields, w)'
      <4>1. \A l \in Labels : items'[w].fields[l] =
                                IF goal.fields[l] # Absent THEN <<goal.fields[l]>> ELSE <<>>
        BY <3>3 DEF ManagedFields, FieldLabels
      <4>2. ~HasValue(<<>>) /\ goal' = goal
        BY <2>3 DEF HasValue, CreateDone
      <4> QED BY <4>1, <4>2 DEF Holds
    <3>6. /\ GoIdle /\ UNCHANGED <<late, goal, pending>> /\ st' = StateOuts(goal, w)
      BY <2>3, <3>1 DEF CreateDone
    <3> QED BY <1>0, <3>1, <3>2, <3>3, <3>4, <3>5, <3>6, SyncWritten
  <2>4. CASE UNCHANGED late /\ Fault("lost") /\ RetryOrFail(FALSE)
    BY <1>0, <2>1, <2>4, FaultCounts
  <2> QED BY <1>10, <2>2, <2>3, <2>4 DEF Post
<1>11. CASE Del
  <2>1. CASE UNCHANGED vault /\ RetryOrFail(TRUE)
    BY <1>0, <2>1, SyncFails
  <2>2. CASE WriteFails(DeleteRequest, TRUE)
    BY <1>0, <2>1, <2>2, FaultCounts DEF WriteFails
  <2>3. CASE ApplyDelete(DeleteRequest) /\ UNCHANGED late /\ DeleteDone
    <3>1. kind = "delete" /\ IsRecorded /\ target = st.uuid /\ target \in Uuids
      BY <1>0, <1>11 DEF Del, SyncInv, TypeInv, OpOK
    <3>2. items' = [items EXCEPT ![target] = NoItem] /\ unborn' = unborn
      BY <2>3 DEF ApplyDelete, DeleteRequest
    <3>3. items'[target] = NoItem /\ \A u \in Uuids : u # target => items'[u] = items[u]
      BY <1>0, <3>1, <3>2 DEF TypeInv, TypeOK
    <3>4. ~IsRecorded' /\ late' = {} /\ pending' = {} /\ GoIdle /\ UNCHANGED goal
      BY <2>3, <3>1 DEF DeleteDone, IsRecorded, SyncInv
    <3>5. \A u \in Uuids : Live(u)' => ~HoldsValue(u)'
      BY <3>1, <3>3 DEF SyncInv, Live, HoldsValue
    <3>6. \A u \in unborn' : ~Live(u)'
      BY <1>0, <3>2, <3>3 DEF SyncInv, Live, TypeInv, TypeOK
    <3> QED BY <1>0, <3>4, <3>5, <3>6 DEF SyncInv, GoIdle, IsDeclared
  <2>4. CASE UNCHANGED late /\ Fault("lost") /\ RetryOrFail(TRUE)
    BY <1>0, <2>1, <2>4, FaultCounts
  <2> QED BY <1>11, <2>2, <2>3, <2>4 DEF Del
<1>12. CASE \E r \in late : Land(r)
  BY <1>12 DEF SyncInv
<1>13. CASE Crash
  BY <1>0, <1>13, SyncFails DEF Crash
<1>14. CASE EditProgram
  BY <1>0, <1>14, SyncKept DEF EditProgram, op
<1>15. CASE HandCreate
  <2>1. PICK w \in unborn, s \in Titles, l \in FieldLabels :
            /\ unborn' = unborn \ {w}
            /\ items' = [items EXCEPT ![w] =
                  [title |-> s, fields |-> [NothingSeen EXCEPT ![l] = <<Hand>>],
                   origin |-> "person"]]
    BY <1>15 DEF HandCreate
  <2>2. /\ w \in Uuids /\ items'[w].fields = [NothingSeen EXCEPT ![l] = <<Hand>>]
        /\ \A u \in Uuids : u # w => items'[u] = items[u]
    BY <1>0, <2>1 DEF TypeInv, TypeOK
  <2>3. ~HoldsValue(w)'
    BY <2>1, <2>2, HandFieldIsNoValue DEF HoldsValue
  <2>4. UNCHANGED <<late, goal, st, pending, kind, pc, target, seen>>
    BY <1>15 DEF HandCreate, ByHand, engine, state, op
  <2>5. IsRecorded => st.uuid \in Uuids /\ st.uuid # w
    BY <1>0, <2>1 DEF SyncInv, TypeInv, TypeOK, States, IsRecorded
  <2>6. IsRecorded => items'[st.uuid] = items[st.uuid]
    BY <2>2, <2>5
  <2>7. \A u \in unborn' : ~Live(u)'
    BY <1>0, <2>1, <2>2 DEF SyncInv, Live, TypeInv, TypeOK
  <2>8. \A u \in Uuids : Live(u)' /\ HoldsValue(u)' => IsRecorded /\ u = st.uuid
    BY <2>2, <2>3 DEF SyncInv, Live, HoldsValue
  <2>9. IsRecorded => Live(st.uuid)' /\ Holds(st.contentHash, st.uuid)'
    BY <2>4, <2>6 DEF SyncInv, Live, Holds
  <2>10. pc = "put" /\ kind = "update" => seen' = items'[st.uuid].fields
    BY <1>0, <2>4, <2>6 DEF SyncInv, TypeInv, OpOK
  <2> QED
    BY <1>0, <2>4, <2>7, <2>8, <2>9, <2>10 DEF SyncInv, IsDeclared, IsRecorded, LabelsOf
<1>16. CASE HandWrite \/ HandDelete \/ HandRename
  <2>1. hands' # hands
    BY <1>0, <1>16, OnePasswordAssumption
       DEF HandWrite, HandDelete, HandRename, ByHand, TypeInv, TypeOK
  <2> QED BY <1>15, <2>1 DEF Plain
<1> QED
  BY <1>1, <1>2, <1>3, <1>4, <1>5, <1>6, <1>7, <1>8, <1>9, <1>10, <1>11, <1>12, <1>13, <1>14,
     <1>15, <1>16 DEF Next, Provider, World

LEMMA InitSync == ASSUME NEW t, Init PROVE SyncInv(t)
<1>1. (\A u \in Uuids : ~Live(u)) /\ TypeInv
  BY InitTypeInv DEF Init, Live
<1> QED BY <1>1 DEF Init, SyncInv, IsDeclared, IsRecorded, TypeInv, TypeOK

LEMMA SyncFollows == ASSUME NEW t, SyncInv(t) PROVE RecordedItemExists /\ InSync
<1>1. ASSUME ~running, IsDeclared, IsRecorded, DiffNow = "none", NEW l \in Labels
      PROVE  IF goal.fields[l] # Absent THEN items[st.uuid].fields[l] = <<goal.fields[l]>>
                                        ELSE ~HasValue(items[st.uuid].fields[l])
  <2>1. goal.fields = st.contentHash
    BY <1>1 DEF DiffNow, Diff, ContentHash, SyncInv
  <2> QED BY <1>1, <2>1 DEF SyncInv, Holds
<1>2. InSync
  BY <1>1 DEF InSync, DroppedLabelsGo, UpToDate
<1> QED BY <1>2 DEF SyncInv, RecordedItemExists

\* A step that changes nothing is plain.
LEMMA PlainStutter == ASSUME NEW t, SyncInv(t), UNCHANGED vars PROVE Plain(t)
  BY DEF vars, vault, engine, state, budgets, SyncInv, Plain, IsDeclared

\* Whatever way an operation goes on or ends, the program is what it was.
LEMMA EndsKeepGoal ==
    /\ Fail => UNCHANGED goal
    /\ UpdateDone => UNCHANGED goal
    /\ DeleteDone => UNCHANGED goal
    /\ \A u : CreateDone(u) => UNCHANGED goal
    /\ \A i \in BOOLEAN : RetryOrFail(i) => UNCHANGED goal
  BY DEF Fail, UpdateDone, DeleteDone, CreateDone, RetryOrFail, engine, state

\* If nothing else fails and nobody writes, deletes or renames by hand, under one
\* declared title, the recorded item is there whenever nothing is in progress
\* (Update works on the recorded item, a failed operation records nothing).
THEOREM ItemExistsWhenPlain ==
    ASSUME NEW t
    PROVE  Spec /\ [][Plain(t)]_vars => []RecordedItemExists
  <1>1. Init => SyncInv(t)
    BY InitSync
  <1>2. SyncInv(t) /\ [Next]_vars /\ [Plain(t)]_vars => SyncInv(t)'
    BY PlainStutter, NextSync
  <1>3. SyncInv(t) => RecordedItemExists
    BY SyncFollows
  <1> QED BY <1>1, <1>2, <1>3, PTL DEF Spec

\* Under the same conditions, a Diff that finds nothing to change means that the
\* item holds the declared values and no value of a label declared no more.
THEOREM InSyncWhenPlain ==
    ASSUME NEW t
    PROVE  Spec /\ [][Plain(t)]_vars => []InSync
  <1>1. Init => SyncInv(t)
    BY InitSync
  <1>2. SyncInv(t) /\ [Next]_vars /\ [Plain(t)]_vars => SyncInv(t)'
    BY PlainStutter, NextSync
  <1>3. SyncInv(t) => InSync
    BY SyncFollows
  <1> QED BY <1>1, <1>2, <1>3, PTL DEF Spec

-----------------------------------------------------------------------------
(* The checked instance with one title, a person who makes items, and no request *)
(* that takes effect unanswered                                                  *)

LEMMA ProgramFaults ==
    ASSUME TypeInv, NEW f, Program!Fault(f)
    PROVE  Fault(f) /\ f \in {"dropped", "crash"} /\ UNCHANGED hands
  <1>1. faults \in Nat /\ MaxFaults \in Nat
    BY OnePasswordAssumption DEF TypeInv, TypeOK
  <1> QED BY <1>1, InstancesAssumption DEF Program!Fault, Fault

\* The control operators of the instance are those of the specification.
LEMMA ProgramControl ==
    /\ Program!vault = vault /\ Program!vault' = vault'
    /\ Program!state = state /\ Program!state' = state'
    /\ Program!engine = engine /\ Program!engine' = engine'
    /\ Program!op = op /\ Program!op' = op'
    /\ Program!budgets = budgets /\ Program!budgets' = budgets'
  BY DEF Program!vault, vault, Program!state, state, Program!engine, engine, Program!op, op,
         Program!budgets, budgets

LEMMA ProgramEnds ==
    /\ Program!GoIdle <=> GoIdle
    /\ Program!Fail <=> Fail
    /\ Program!NoFault <=> NoFault
    /\ Program!UpdateDone <=> UpdateDone
    /\ Program!DeleteDone <=> DeleteDone
    /\ \A u : Program!CreateDone(u) <=> CreateDone(u)
    /\ \A i \in BOOLEAN : Program!RetryOrFail(i) <=> RetryOrFail(i)
    /\ \A p : Program!GoTo(p) <=> GoTo(p)
  <1>1. /\ Program!GoIdle <=> GoIdle
        /\ Program!IsRecorded <=> IsRecorded
        /\ \A g, u : Program!StateOuts(g, u) = StateOuts(g, u)
    BY DEF Program!GoIdle, GoIdle, Program!NothingSeen, NothingSeen, Program!IsRecorded, IsRecorded,
           Program!FieldLabels, FieldLabels,
           Program!StateOuts, StateOuts, Program!ContentHash, ContentHash, Program!LabelsOf, LabelsOf
  <1>2. Program!Fail <=> Fail
    BY <1>1, ProgramControl DEF Program!Fail, Fail
  <1> QED
    BY <1>1, <1>2, ProgramControl
       DEF Program!NoFault, NoFault, Program!UpdateDone, UpdateDone, Program!DeleteDone, DeleteDone,
           Program!CreateDone, CreateDone, Program!RetryOrFail, RetryOrFail, Program!Attempts,
           Attempts, Program!GoTo, GoTo

LEMMA ProgramRequests ==
    /\ Program!PutRequest = PutRequest
    /\ Program!PostRequest = PostRequest
    /\ Program!DeleteRequest.uuid = DeleteRequest.uuid
    /\ \A u : Program!Live(u) <=> Live(u)
    /\ \A t : Program!Titled(t) = Titled(t)
    /\ \A r : Program!ApplyPut(r) <=> ApplyPut(r)
    /\ \A r, u : Program!ApplyPost(r, u) <=> ApplyPost(r, u)
    /\ Program!ApplyDelete(Program!DeleteRequest) <=> ApplyDelete(DeleteRequest)
  <1>0. \A f, e : Program!ManagedFields(f) = ManagedFields(f) /\ Program!ByLabel(e) = ByLabel(e)
    BY DEF Program!ManagedFields, ManagedFields, Program!ByLabel, ByLabel, Program!FieldLabels,
           FieldLabels
  <1>1. Program!Body = Body
    BY <1>0 DEF Program!Body, Body, Program!BuildMergedItemBody, BuildMergedItemBody,
                Program!PriorManagedLabels, PriorManagedLabels, Program!FieldLabels, FieldLabels
  <1>2. Program!DeleteRequest.uuid = target /\ DeleteRequest.uuid = target
    BY DEF Program!DeleteRequest, DeleteRequest
  <1> QED
    BY <1>0, <1>1, <1>2
       DEF Program!PutRequest, PutRequest, Program!PostRequest, PostRequest, Program!Live, Live,
           Program!Titled, Titled, Program!ApplyPut, ApplyPut, Program!ApplyPost, ApplyPost,
           Program!ApplyDelete, ApplyDelete

\* A write that fails there fails without effect and is not still on its way.
LEMMA ProgramWriteFails ==
    ASSUME TypeInv, NEW r, NEW q, NEW i \in BOOLEAN, Program!WriteFails(r, i)
    PROVE  WriteFails(q, i) /\ UNCHANGED <<vault, hands, goal>>
  BY ProgramFaults, ProgramEnds, EndsKeepGoal DEF Program!WriteFails, WriteFails, vault

\* Its provider takes steps of the specification's, and leaves the vault alone
\* when an attempt fails.
LEMMA ProgramProvider ==
    ASSUME TypeInv, Program!Provider
    PROVE  /\ Provider /\ UNCHANGED <<goal, hands>>
           /\ faults' # faults => UNCHANGED vault
  <1>0. NoFault => UNCHANGED <<hands, faults>>
    BY DEF NoFault, budgets
  <1>1. CASE Program!ReadFails
    BY <1>1, ProgramFaults, ProgramEnds, ProgramControl, EndsKeepGoal
       DEF Program!ReadFails, ReadFails, Provider
  <1>2. CASE Program!FindItemIDByTitle
    <2>1. FindItemIDByTitle
      <3>1. Program!Titled(goal.title) = Titled(goal.title)
        BY ProgramRequests
      <3>2. /\ Program!GoTo("post") <=> GoTo("post")
            /\ Program!GoTo("get") <=> GoTo("get")
        BY ProgramEnds
      <3>3. Program!Cardinality(Titled(goal.title)) = Cardinality(Titled(goal.title))
        BY DEF Program!Cardinality, Cardinality
      <3> QED
        BY <1>2, <3>1, <3>2, <3>3, ProgramEnds, ProgramControl
           DEF Program!FindItemIDByTitle, FindItemIDByTitle
    <2>2. UNCHANGED engine \/ Fail
      BY <2>1 DEF FindItemIDByTitle
    <2> QED
      BY <1>0, <2>1, <2>2, EndsKeepGoal DEF FindItemIDByTitle, Provider, engine, state
  <1>3. CASE Program!Get
    <2>1. Get
      BY <1>3, ProgramEnds, ProgramControl, ProgramRequests DEF Program!Get, Get
    <2> QED BY <1>0, <2>1, EndsKeepGoal DEF Get, Provider, engine, state
  <1>4. CASE Program!Put
    <2>1. ~Program!Fault("lost")
      BY ProgramFaults
    <2>2. CASE Program!WriteFails(Program!PutRequest, TRUE)
      BY <1>4, <2>2, ProgramWriteFails DEF Program!Put, Put, Provider
    <2>3. CASE ~Program!WriteFails(Program!PutRequest, TRUE)
      BY <1>0, <1>4, <2>1, <2>3, ProgramEnds, ProgramControl, ProgramRequests, EndsKeepGoal
         DEF Program!Put, Put, Provider
    <2> QED BY <2>2, <2>3
  <1>5. CASE Program!Post
    <2>1. ~Program!Fault("lost")
      BY ProgramFaults
    <2>2. CASE Program!WriteFails(Program!PostRequest, FALSE)
      BY <1>5, <2>2, ProgramWriteFails DEF Program!Post, Post, Provider
    <2>3. CASE ~Program!WriteFails(Program!PostRequest, FALSE)
      BY <1>0, <1>5, <2>1, <2>3, ProgramEnds, ProgramControl, ProgramRequests, EndsKeepGoal
         DEF Program!Post, Post, Provider
    <2> QED BY <2>2, <2>3
  <1>6. CASE Program!Del
    <2>1. ~Program!Fault("lost")
      BY ProgramFaults
    <2>2. CASE Program!WriteFails(Program!DeleteRequest, TRUE)
      BY <1>6, <2>2, ProgramWriteFails DEF Program!Del, Del, Provider
    <2>3. CASE ~Program!WriteFails(Program!DeleteRequest, TRUE)
      BY <1>0, <1>6, <2>1, <2>3, ProgramEnds, ProgramControl, ProgramRequests, EndsKeepGoal
         DEF Program!Del, Del, Provider
    <2> QED BY <2>2, <2>3
  <1>7. CASE Program!BeginUp \/ Program!EndUp \/ Program!StartCreate \/ Program!StartUpdate
             \/ Program!StartDelete \/ Program!StartDeletePending
    <2>1. /\ Program!CreateDue <=> CreateDue
          /\ Program!UpdateDue <=> UpdateDue
          /\ Program!DeleteDue <=> DeleteDue
          /\ Program!PendingDue <=> PendingDue
      BY DEF Program!CreateDue, CreateDue, Program!UpdateDue, UpdateDue, Program!DeleteDue, DeleteDue,
             Program!PendingDue, PendingDue, Program!DiffNow, DiffNow, Program!Diff, Diff,
             Program!ContentHash, ContentHash,
             Program!MayCreate, MayCreate, Program!MayUpdate, MayUpdate, Program!MayDelete, MayDelete,
             Program!MayDeletePending, MayDeletePending,
             Program!DeleteBeforeReplace, DeleteBeforeReplace, Program!IsDeclared, IsDeclared,
             Program!IsRecorded, IsRecorded
    <2>2. Program!SomethingDue <=> SomethingDue
      BY <2>1 DEF Program!SomethingDue, SomethingDue
    <2>3. \A k, p, u : Program!Start(k, p, u) => Start(k, p, u) /\ UNCHANGED <<goal, hands, faults>>
      BY ProgramControl DEF Program!Start, Start, engine, state, budgets
    <2> QED
      BY <1>7, <2>1, <2>2, <2>3, ProgramControl
         DEF Program!BeginUp, BeginUp, Program!EndUp, EndUp, Program!StartCreate, StartCreate,
             Program!StartUpdate, StartUpdate, Program!StartDelete, StartDelete,
             Program!StartDeletePending, StartDeletePending, Provider, state, budgets
  <1> QED
    BY <1>1, <1>2, <1>3, <1>4, <1>5, <1>6, <1>7 DEF Program!Provider

LEMMA ProgramStep == ASSUME SyncInv(t1), Program!Next PROVE Next /\ Plain(t1)
  <1>1. CASE Program!Provider
    BY <1>1, ProgramProvider DEF SyncInv, Next, Plain, IsDeclared
  <1>2. CASE Program!Crash
    BY <1>2, ProgramFaults, ProgramEnds, ProgramControl, EndsKeepGoal
       DEF Program!Crash, Crash, World, Next, Plain, SyncInv, IsDeclared
  <1>3. CASE Program!EditProgram
    <2>1. /\ goal' \in (Program!Goals \cup {NoGoal}) \ {goal}
          /\ goal' # NoGoal => goal'.title = t1 /\ goal' \in Goals
      BY <1>3, InstancesAssumption
         DEF Program!EditProgram, Program!Goals, Goals, Program!Declared, Declared,
             Program!LabelsOf, LabelsOf
    <2>2. EditProgram /\ UNCHANGED <<hands, faults>>
      BY <1>3, <2>1, ProgramControl DEF Program!EditProgram, EditProgram
    <2> QED BY <2>1, <2>2 DEF World, Next, Plain
  <1>4. CASE Program!HandCreate
    <2>1. ByHand("create") /\ UNCHANGED <<goal, faults>>
      BY <1>4, InstancesAssumption, ProgramControl
         DEF Program!HandCreate, Program!ByHand, ByHand, engine, state
    <2>2. HandCreate
      BY <1>4, <2>1, InstancesAssumption
         DEF Program!HandCreate, HandCreate, Program!NothingSeen, NothingSeen,
             Program!FieldLabels, FieldLabels
    <2> QED BY <2>1, <2>2 DEF World, Next, Plain, SyncInv, IsDeclared
  <1>5. ~(\E r \in late : Program!Land(r))
    BY DEF SyncInv
  <1>6. ~(Program!HandWrite \/ Program!HandDelete \/ Program!HandRename)
    BY DEF Program!HandWrite, Program!HandDelete, Program!HandRename, Program!ByHand
  <1> QED BY <1>1, <1>2, <1>3, <1>4, <1>5, <1>6 DEF Program!Next, Program!World

\* What SyncInv says holds there throughout.
LEMMA ProgramKept ==
    LET Kept == setting = "program" => SyncInv(t1)
    IN  /\ MCInit => Kept
        /\ Kept /\ [In("converge", Converge!Next) \/ In("program", Program!Next)]_all => Kept'
  <1> DEFINE Kept == setting = "program" => SyncInv(t1)
  <1>1. MCInit => Kept
    BY InitSync DEF MCInit
  <1>2. CASE Kept /\ In("converge", Converge!Next)
    BY <1>2 DEF In
  <1>3. CASE Kept /\ In("program", Program!Next)
    BY <1>3, ProgramStep, NextSync DEF In
  <1>4. CASE Kept /\ UNCHANGED all
    <2>1. UNCHANGED setting /\ UNCHANGED vars
      BY <1>4 DEF all
    <2> QED BY <1>4, <2>1, PlainStutter, NextSync
  <1> QED BY <1>1, <1>2, <1>3, <1>4

\* So in the checked instance, for any labels, values and numbers of edits, the
\* recorded item exists whenever nothing is in progress.
THEOREM ProgramKeepsItem == MCSpec => []ProgramRecordedItemExists
  <1>1. (setting = "program" => SyncInv(t1)) => ProgramRecordedItemExists
    BY SyncFollows DEF ProgramRecordedItemExists
  <1> QED BY <1>1, ProgramKept, PTL DEF MCSpec

\* And it is in step with the program whenever Diff finds nothing to change.
THEOREM ProgramStaysInSync == MCSpec => []ProgramInSync
  <1>1. (setting = "program" => SyncInv(t1)) => ProgramInSync
    BY SyncFollows DEF ProgramInSync
  <1> QED BY <1>1, ProgramKept, PTL DEF MCSpec
=============================================================================
