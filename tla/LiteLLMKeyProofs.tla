------------------------- MODULE LiteLLMKeyProofs -------------------------
(***************************************************************************)
(* Theorems about LiteLLMKey, for every set of secrets, aliases and teams  *)
(* and every bound: types, and that no credential is left behind.          *)
(***************************************************************************)
EXTENDS LiteLLMKeyMC, TLAPS

\* The number of attempts never exceeds 1 + MaxRetries.
LEMMA AttemptsBound ==
    ASSUME NEW i \in BOOLEAN
    PROVE  Attempts(i) \in 1 .. 1 + MaxRetries
  BY MaxRetriesAssumption DEF Attempts

\* The parts of TypeInv that a step of an operation may disturb: the control
\* state, the plane and the budgets.
ControlInv ==
    /\ goal \in KeyArgs \cup {NoGoal}
    /\ st \in KeyArgs \cup {NoState}
    /\ command \in {"none", "up", "refresh"}
    /\ kind \in {"none", "create", "read", "update", "delete"}
    /\ pc \in {"idle", "find", "clear", "generate", "info", "update", "delete"}
    /\ attempt \in 1 .. 1 + MaxRetries
    /\ found \subseteq AllValues
    /\ OpOK

PlaneInv ==
    /\ keys \in [AllValues -> Key \cup {NoKey}]
    /\ fresh \subseteq HandValues
    /\ late \subseteq KeyArgs
    /\ unanswered \subseteq Values

BudgetInv ==
    edits \in 0 .. MaxEdits /\ hands \in 0 .. MaxHands /\ faults \in 0 .. MaxFaults

LEMMA Parts == TypeInv <=> ControlInv /\ PlaneInv /\ BudgetInv
  BY DEF TypeInv, TypeOK, ControlInv, PlaneInv, BudgetInv

LEMMA PartsNext == TypeInv' <=> ControlInv' /\ PlaneInv' /\ BudgetInv'
  BY DEF TypeInv, TypeOK, ControlInv, PlaneInv, BudgetInv

-----------------------------------------------------------------------------
(* How an operation moves and ends *)

LEMMA FailKeeps == ASSUME ControlInv, Fail PROVE ControlInv'
  BY MaxRetriesAssumption DEF ControlInv, Fail, GoIdle, OpOK

LEMMA RetryKeeps ==
    ASSUME ControlInv, NEW i \in BOOLEAN, RetryOrFail(i)
    PROVE  ControlInv'
  <1>1. CASE attempt < Attempts(i)
    <2>1. attempt' = attempt + 1 /\ UNCHANGED <<kind, pc, found, engine>>
      BY <1>1 DEF RetryOrFail
    <2>2. attempt' \in 1 .. 1 + MaxRetries
      BY <1>1, <2>1, AttemptsBound, MaxRetriesAssumption DEF ControlInv
    <2> QED BY <2>1, <2>2 DEF ControlInv, OpOK, IsDeclared, IsRecorded, engine
  <1>2. CASE ~(attempt < Attempts(i))
    BY <1>2, FailKeeps DEF RetryOrFail
  <1> QED BY <1>1, <1>2

LEMMA RecordedKeeps ==
    ASSUME ControlInv, NEW s \in KeyArgs \cup {NoState}, Recorded(s)
    PROVE  ControlInv'
  BY MaxRetriesAssumption DEF ControlInv, Recorded, GoIdle, OpOK

LEMMA FaultKeeps == ASSUME BudgetInv, NEW f, Fault(f) PROVE BudgetInv'
  BY LiteLLMKeyAssumption DEF BudgetInv, Fault

LEMMA NoFaultKeeps == ASSUME BudgetInv, NoFault PROVE BudgetInv'
  BY DEF BudgetInv, NoFault, budgets

LEMMA DroppedKeeps == ASSUME TypeInv, Dropped PROVE TypeInv'
  <1>1. ControlInv'
    BY Parts, RetryKeeps DEF Dropped
  <1>2. PlaneInv'
    BY Parts DEF Dropped, PlaneInv, plane, requests
  <1>3. BudgetInv'
    BY Parts, FaultKeeps DEF Dropped
  <1> QED BY <1>1, <1>2, <1>3, PartsNext

LEMMA WithoutType ==
    ASSUME PlaneInv, NEW vs PROVE Without(vs) \in [AllValues -> Key \cup {NoKey}]
  BY DEF PlaneInv, Without

LEMMA RegisterType ==
    ASSUME PlaneInv, NEW a \in KeyArgs, Register(a)
    PROVE  keys' \in [AllValues -> Key \cup {NoKey}]
  BY DEF PlaneInv, Register, KeyArgs, Key

-----------------------------------------------------------------------------
(* Types *)

LEMMA InitType == Init => TypeInv
  BY MaxRetriesAssumption, LiteLLMKeyAssumption DEF Init, TypeInv, TypeOK, OpOK

LEMMA FindType == ASSUME TypeInv, FindKeyHashesByAlias PROVE TypeInv'
  <1>1. CASE Dropped
    BY <1>1, DroppedKeeps
  <1>2. ASSUME NEW hashes \in SUBSET Matches(goal.alias, goal.team),
               NoFault \/ Fault("uninspected"),
               found' = hashes, GoTo(IF hashes = {} THEN "generate" ELSE "clear"),
               UNCHANGED <<plane, engine>>
        PROVE  TypeInv'
    <2>1. BudgetInv'
      BY <1>2, Parts, NoFaultKeeps, FaultKeeps
    <2>2. found' \subseteq AllValues
      BY <1>2 DEF Matches
    <2>3. ControlInv'
      BY <1>2, <2>2, Parts, MaxRetriesAssumption
         DEF FindKeyHashesByAlias, ControlInv, GoTo, OpOK, IsDeclared, IsRecorded, engine
    <2>4. PlaneInv'
      BY <1>2, Parts DEF PlaneInv, plane, requests
    <2> QED BY <2>1, <2>3, <2>4, PartsNext
  <1> QED BY <1>1, <1>2 DEF FindKeyHashesByAlias

LEMMA ClearType == ASSUME TypeInv, ClearFound PROVE TypeInv'
  <1>1. CASE Dropped
    BY <1>1, DroppedKeeps
  <1>2. CASE ~Dropped
    <2>1. PlaneInv'
      BY <1>2, Parts, WithoutType DEF ClearFound, PlaneInv, requests
    <2>2. BudgetInv'
      BY <1>2, Parts, NoFaultKeeps, FaultKeeps DEF ClearFound
    <2>3. ControlInv'
      <3>1. CASE GoTo("generate") /\ UNCHANGED <<found, engine>>
        BY <3>1, Parts, MaxRetriesAssumption
           DEF ClearFound, ControlInv, GoTo, OpOK, IsDeclared, IsRecorded, engine
      <3>2. CASE RetryOrFail(TRUE) \/ Fail
        BY <3>2, Parts, RetryKeeps, FailKeeps
      <3> QED BY <1>2, <3>1, <3>2 DEF ClearFound
    <2> QED BY <2>1, <2>2, <2>3, PartsNext
  <1> QED BY <1>1, <1>2

LEMMA GenerateType == ASSUME TypeInv, Generate PROVE TypeInv'
  <1>1. goal \in KeyArgs
    BY DEF Generate, TypeInv, TypeOK, OpOK, IsDeclared
  <1>2. PlaneInv'
    <2>1. keys' \in [AllValues -> Key \cup {NoKey}] /\ fresh' \subseteq HandValues
      BY <1>1, Parts, RegisterType DEF Generate, PlaneInv, plane
    <2>2. late' \subseteq KeyArgs
      BY <1>1, Parts DEF Generate, PlaneInv, plane, requests
    <2>3. goal.value \in Values
      BY <1>1 DEF KeyArgs
    <2>4. unanswered' \subseteq Values
      BY <2>3, Parts DEF Generate, GiveUp, Answered, PlaneInv, plane, requests
    <2> QED BY <2>1, <2>2, <2>4 DEF PlaneInv
  <1>3. BudgetInv'
    BY Parts, NoFaultKeeps, FaultKeeps DEF Generate
  <1>4. ControlInv'
    BY <1>1, Parts, RecordedKeeps, RetryKeeps, FailKeeps DEF Generate, GiveUp
  <1> QED BY <1>2, <1>3, <1>4, PartsNext

LEMMA ReadType == ASSUME TypeInv, Read PROVE TypeInv'
  <1>1. CASE Dropped
    BY <1>1, DroppedKeeps
  <1>2. CASE ~Dropped
    <2>1. PlaneInv' /\ BudgetInv'
      BY <1>2, Parts, NoFaultKeeps DEF Read, PlaneInv, plane, requests
    <2>2. ControlInv'
      BY <1>2, Parts, RecordedKeeps, FailKeeps DEF Read, ControlInv
    <2> QED BY <2>1, <2>2, PartsNext
  <1> QED BY <1>1, <1>2

LEMMA UpdateType == ASSUME TypeInv, Update PROVE TypeInv'
  <1>1. CASE Dropped
    BY <1>1, DroppedKeeps
  <1>2. CASE ~Dropped
    <2>1. goal \in KeyArgs
      BY DEF Update, TypeInv, TypeOK, OpOK, IsDeclared
    <2>2. PlaneInv'
      <3>1. CASE Registered(goal.value)
        <4>1. /\ keys' = [keys EXCEPT ![goal.value].alias = goal.alias,
                                      ![goal.value].config = goal.config]
              /\ UNCHANGED <<fresh, requests>>
          BY <1>2, <3>1 DEF Update
        <4>2. keys[goal.value] \in Key
          BY <2>1, <3>1, Parts DEF PlaneInv, Registered, KeyArgs, AllValues
        <4>3. keys'[goal.value] \in Key
          BY <2>1, <4>1, <4>2, Parts DEF PlaneInv, KeyArgs, Key, AllValues
        <4>4. keys' \in [AllValues -> Key \cup {NoKey}]
          BY <4>1, <4>3, Parts DEF PlaneInv
        <4> QED BY <4>1, <4>4, Parts DEF PlaneInv, requests
      <3>2. CASE ~Registered(goal.value)
        BY <1>2, <3>2, Parts DEF Update, PlaneInv, plane, requests
      <3> QED BY <3>1, <3>2
    <2>3. BudgetInv'
      BY <1>2, Parts, NoFaultKeeps, FaultKeeps DEF Update
    <2>4. ControlInv'
      BY <1>2, <2>1, Parts, RecordedKeeps, RetryKeeps, FailKeeps DEF Update
    <2> QED BY <2>2, <2>3, <2>4, PartsNext
  <1> QED BY <1>1, <1>2

LEMMA DeleteType == ASSUME TypeInv, Delete PROVE TypeInv'
  <1>1. CASE Dropped
    BY <1>1, DroppedKeeps
  <1>2. CASE ~Dropped
    <2>1. PlaneInv'
      BY <1>2, Parts, WithoutType DEF Delete, PlaneInv, plane, requests
    <2>2. BudgetInv'
      BY <1>2, Parts, NoFaultKeeps, FaultKeeps DEF Delete
    <2>3. ControlInv'
      BY <1>2, Parts, RecordedKeeps, RetryKeeps, FailKeeps DEF Delete
    <2> QED BY <2>1, <2>2, <2>3, PartsNext
  <1> QED BY <1>1, <1>2

LEMMA UpType == ASSUME TypeInv, Up \/ StartRead PROVE TypeInv'
  <1> USE DEF TypeInv, TypeOK
  <1>1. CASE BeginUp \/ EndUp
    BY <1>1 DEF BeginUp, EndUp, plane, op, requests, budgets, OpOK, IsDeclared, IsRecorded
  <1>2. CASE StartCreate
    BY <1>2 DEF StartCreate, Start, CreateDue, MayCreate, DeleteBeforeReplace, plane, engine,
                requests, budgets, OpOK, IsDeclared, IsRecorded
  <1>3. CASE StartUpdate
    <2>1. IsDeclared /\ IsRecorded /\ goal.value = st.value
      BY <1>3 DEF StartUpdate, UpdateDue, MayUpdate, DiffNow, Diff
    <2> QED BY <1>3, <2>1 DEF StartUpdate, Start, plane, engine, requests, budgets, OpOK, IsDeclared,
                              IsRecorded
  <1>4. CASE StartDelete
    BY <1>4 DEF StartDelete, Start, DeleteDue, MayDelete, plane, engine, requests, budgets, OpOK,
                IsDeclared, IsRecorded
  <1>5. CASE StartRead
    BY <1>5 DEF StartRead, plane, requests, budgets, OpOK, IsDeclared, IsRecorded
  <1> QED BY <1>1, <1>2, <1>3, <1>4, <1>5 DEF Up

LEMMA WorldType == ASSUME TypeInv, World PROVE TypeInv'
  <1>1. ASSUME NEW a \in late, Land(a) PROVE TypeInv'
    <2>1. a \in KeyArgs
      BY Parts DEF PlaneInv
    <2>2. PlaneInv'
      BY <1>1, <2>1, Parts, RegisterType DEF Land, PlaneInv
    <2>3. ControlInv' /\ BudgetInv'
      BY <1>1, Parts
         DEF Land, ControlInv, BudgetInv, OpOK, IsDeclared, IsRecorded, engine, op, budgets
    <2> QED BY <2>2, <2>3, PartsNext
  <1>2. CASE Crash
    <2>1. ControlInv' /\ BudgetInv'
      BY <1>2, Parts, FailKeeps, FaultKeeps DEF Crash
    <2>2. PlaneInv'
      BY <1>2, Parts DEF Crash, PlaneInv, plane, requests
    <2> QED BY <2>1, <2>2, PartsNext
  <1>3. CASE EditProgram
    BY <1>3, LiteLLMKeyAssumption
       DEF EditProgram, TypeInv, TypeOK, OpOK, IsDeclared, IsRecorded, plane, requests, op
  <1>4. CASE HandCreate
    <2>1. PICK v \in fresh, a \in Aliases, t \in Teams, c \in Configs :
             /\ fresh' = fresh \ {v}
             /\ keys' = [keys EXCEPT ![v] =
                   [alias |-> a, team |-> t, config |-> c, made |-> FALSE]]
      BY <1>4 DEF HandCreate
    <2>2. [alias |-> a, team |-> t, config |-> c, made |-> FALSE] \in Key
      BY DEF Key
    <2>3. PlaneInv'
      BY <1>4, <2>1, <2>2, Parts DEF HandCreate, ByHand, PlaneInv, requests
    <2>4. ControlInv' /\ BudgetInv'
      BY <1>4, Parts, LiteLLMKeyAssumption
         DEF HandCreate, ByHand, ControlInv, BudgetInv, OpOK, IsDeclared, IsRecorded, engine, op
    <2> QED BY <2>3, <2>4, PartsNext
  <1>5. CASE HandDelete
    <2>1. PlaneInv'
      BY <1>5, Parts, WithoutType DEF HandDelete, ByHand, PlaneInv, requests
    <2>2. ControlInv' /\ BudgetInv'
      BY <1>5, Parts, LiteLLMKeyAssumption
         DEF HandDelete, ByHand, ControlInv, BudgetInv, OpOK, IsDeclared, IsRecorded, engine, op
    <2> QED BY <2>1, <2>2, PartsNext
  <1> QED BY <1>1, <1>2, <1>3, <1>4, <1>5 DEF World

LEMMA StutterType == ASSUME TypeInv, UNCHANGED vars PROVE TypeInv'
  BY DEF vars, plane, requests, engine, op, budgets, TypeInv, TypeOK, OpOK, IsDeclared, IsRecorded

LEMMA NextType == TypeInv /\ [Next]_vars => TypeInv'
  BY FindType, ClearType, GenerateType, ReadType, UpdateType, DeleteType, UpType, WorldType,
     StutterType DEF Next, Provider

\* Every reachable state is well typed, and each operation works on what the
\* state file and the program hold for it.
THEOREM TypeCorrect == Spec => []TypeOK
  <1>1. Init => TypeInv
    BY InitType
  <1>2. TypeInv /\ [Next]_vars => TypeInv'
    BY NextType
  <1>3. TypeInv => TypeOK
    BY DEF TypeInv
  <1> QED BY <1>1, <1>2, <1>3, PTL DEF Spec

-----------------------------------------------------------------------------
(* No credential is left behind *)

LEMMA KnownIsRecorded ==
    ASSUME LiveInv, NEW v \in AllValues, Known(v)
    PROVE  IsRecorded /\ v = st.value
  BY DEF LiveInv

\* A step that adds no key of the provider and keeps what is recorded.
LEMMA ShrinkKeepsLive ==
    ASSUME LiveInv, TypeInv', UNCHANGED <<requests, st>>,
           \A v \in AllValues : Known(v)' => Known(v)
    PROVE  LiveInv'
  BY KnownIsRecorded DEF LiveInv, IsRecorded, requests

LEMMA InitLive == Init => LiveInv
  BY InitType DEF Init, LiveInv, Known, Registered

LEMMA WithoutKnown ==
    ASSUME TypeInv, NEW vs, keys' = Without(vs), UNCHANGED unanswered,
           NEW v \in AllValues, Known(v)'
    PROVE  Known(v) /\ v \notin vs
  BY DEF Known, Registered, Without

LEMMA NextLive ==
    ASSUME LiveInv, [Next]_vars
    PROVE  LiveInv'
  <1>1. TypeInv /\ TypeInv'
    BY NextType DEF LiveInv
  <1>2. ASSUME NEW a \in late, Land(a) PROVE LiveInv'
    <2>1. a.value \in unanswered /\ a \in KeyArgs
      BY <1>1 DEF LiveInv, TypeInv, TypeOK
    <2>2. st' = st /\ unanswered' = unanswered /\ late' \subseteq late
      BY <1>2 DEF Land, engine
    <2>3. ASSUME NEW v \in AllValues, Known(v)' PROVE Known(v)
      <3>1. v # a.value
        BY <2>1, <2>2, <2>3 DEF Known
      <3>2. keys'[v] = keys[v]
        BY <1>1, <1>2, <3>1 DEF Land, Register, TypeInv, TypeOK
      <3> QED BY <2>2, <2>3, <3>2 DEF Known, Registered
    <2> QED BY <1>1, <2>2, <2>3, KnownIsRecorded DEF LiveInv, IsRecorded
  <1>3. CASE UNCHANGED <<keys, requests, st>>
    BY <1>1, <1>3, ShrinkKeepsLive DEF Known, Registered, requests
  <1>4. ASSUME Dropped \/ FindKeyHashesByAlias \/ Crash \/ Up \/ StartRead \/ EditProgram
               \/ UNCHANGED vars
        PROVE  UNCHANGED <<keys, requests, st>>
    BY <1>4 DEF Dropped, RetryOrFail, FindKeyHashesByAlias, Crash, Fail, Up, BeginUp, EndUp,
                StartCreate, StartUpdate, StartDelete, Start, StartRead, EditProgram, vars, plane,
                engine
  <1>5. CASE ClearFound
    <2>1. CASE Dropped
      BY <1>3, <1>4, <2>1
    <2>2. CASE ~Dropped
      <3>1. UNCHANGED <<requests, st>>
        BY <1>5, <2>2 DEF ClearFound, RetryOrFail, Fail, engine
      <3>2. keys' = Without(found) \/ keys' = keys
        BY <1>5, <2>2 DEF ClearFound
      <3>3. \A v \in AllValues : Known(v)' => Known(v)
        BY <1>1, <3>1, <3>2, WithoutKnown DEF Known, Registered, requests
      <3> QED BY <1>1, <3>1, <3>3, ShrinkKeepsLive
    <2> QED BY <2>1, <2>2
  <1>6. CASE Generate
    <2>1. goal \in KeyArgs /\ goal # NoState /\ ~IsRecorded
      BY <1>1, <1>6, NullsAssumption DEF Generate, TypeInv, TypeOK, OpOK, IsDeclared
    <2>2. ASSUME Register(goal), NEW v \in AllValues, v # goal.value
          PROVE  keys'[v] = keys[v]
      BY <1>1, <2>2 DEF Register, TypeInv, TypeOK
    <2>3. CASE Register(goal) /\ UNCHANGED late /\ Recorded(goal) /\ Answered
      <3>1. IsRecorded' /\ st'.value = goal.value
        BY <2>1, <2>3 DEF Recorded, IsRecorded
      <3>2. ASSUME NEW v \in AllValues, Known(v)' PROVE v = goal.value
        BY <2>1, <2>2, <2>3, <3>2, KnownIsRecorded DEF Known, Registered, Answered
      <3>3. \A a \in late : a.value \in unanswered'
        BY <2>3 DEF LiveInv, Answered
      <3> QED BY <1>1, <2>3, <3>1, <3>2, <3>3 DEF LiveInv
    <2>4. CASE /\ GiveUp
               /\ \/ Register(goal) /\ late' = late
                  \/ UNCHANGED keys /\ late' = late \cup {goal}
      <3>1. st' = st
        BY <2>4 DEF GiveUp, RetryOrFail, Fail, engine
      <3>2. \A a \in late' : a.value \in unanswered'
        BY <2>4 DEF GiveUp, LiveInv
      <3>3. ASSUME NEW v \in AllValues, Known(v)' PROVE FALSE
        <4>1. v # goal.value /\ v \notin unanswered
          BY <2>4, <3>3 DEF Known, GiveUp
        <4>2. keys'[v] = keys[v]
          BY <2>2, <2>4, <4>1
        <4> QED BY <2>1, <3>3, <4>1, <4>2, KnownIsRecorded DEF Known, Registered
      <3> QED BY <1>1, <3>2, <3>3 DEF LiveInv
    <2>5. CASE UNCHANGED plane /\ (Fail \/ RetryOrFail(FALSE))
      <3>1. UNCHANGED <<keys, requests, st>>
        BY <2>5 DEF plane, requests, Fail, RetryOrFail, engine
      <3> QED BY <1>3, <3>1
    <2>6. CASE Register(goal) /\ UNCHANGED <<fresh, late>>
      BY <1>6, <2>3, <2>4, <2>5, <2>6 DEF Generate
    <2>7. CASE late' = late \cup {goal} /\ UNCHANGED <<keys, fresh>> /\ GiveUp
      BY <2>4, <2>7
    <2> QED BY <1>6, <2>5, <2>6, <2>7 DEF Generate
  <1>7. CASE Read
    <2>1. CASE Dropped \/ (UNCHANGED plane /\ (Recorded(st) \/ Fail))
      <3>1. UNCHANGED <<keys, requests, st>>
        BY <1>4, <2>1 DEF plane, requests, Recorded, Fail
      <3> QED BY <1>3, <3>1
    <2>2. CASE UNCHANGED plane /\ ~Registered(st.value)
      <3>1. \A v \in AllValues : ~Known(v)
        BY <2>2, KnownIsRecorded DEF Known
      <3>2. \A v \in AllValues : ~Known(v)'
        BY <2>2, <3>1 DEF plane, requests, Known, Registered
      <3> QED BY <1>1, <2>2, <3>2 DEF LiveInv, plane, requests
    <2> QED BY <1>7, <2>1, <2>2 DEF Read
  <1>8. CASE Update
    <2>1. CASE Dropped
      BY <1>3, <1>4, <2>1
    <2>2. CASE ~Dropped /\ ~Registered(goal.value)
      <3>1. UNCHANGED <<keys, requests, st>>
        BY <1>8, <2>2 DEF Update, Fail, plane, requests
      <3> QED BY <1>3, <3>1
    <2>3. CASE ~Dropped /\ Registered(goal.value)
      <3>1. /\ goal \in KeyArgs /\ goal # NoState
            /\ IsRecorded /\ goal.value = st.value
        BY <1>1, <1>8, NullsAssumption DEF Update, TypeInv, TypeOK, OpOK, IsDeclared
      <3>2. UNCHANGED requests /\ (st' = goal \/ st' = st)
        BY <1>8, <2>3 DEF Update, Recorded, RetryOrFail, Fail, engine
      <3>3. \A v \in AllValues : v # goal.value => keys'[v] = keys[v]
        BY <1>1, <1>8, <2>3 DEF Update, TypeInv, TypeOK
      <3>4. ASSUME NEW v \in AllValues, Known(v)' PROVE v = goal.value
        BY <3>1, <3>2, <3>3, <3>4, KnownIsRecorded DEF Known, Registered, requests
      <3> QED BY <1>1, <3>1, <3>2, <3>4 DEF LiveInv, IsRecorded, requests
    <2> QED BY <2>1, <2>2, <2>3
  <1>9. CASE Delete
    <2>1. CASE Dropped
      BY <1>3, <1>4, <2>1
    <2>2. CASE ~Dropped /\ Registered(st.value)
      <3>1. keys' = Without({st.value}) /\ UNCHANGED requests
        BY <1>9, <2>2 DEF Delete
      <3>2. \A v \in AllValues : ~Known(v)'
        BY <1>1, <3>1, WithoutKnown, KnownIsRecorded DEF requests
      <3> QED BY <1>1, <3>1, <3>2 DEF LiveInv, requests
    <2>3. CASE ~Dropped /\ ~Registered(st.value)
      <3>1. UNCHANGED plane
        BY <1>9, <2>3 DEF Delete
      <3>2. \A v \in AllValues : ~Known(v)
        BY <2>3, KnownIsRecorded DEF Known
      <3>3. \A v \in AllValues : ~Known(v)'
        BY <3>1, <3>2 DEF plane, requests, Known, Registered
      <3> QED BY <1>1, <3>1, <3>3 DEF LiveInv, plane, requests
    <2> QED BY <2>1, <2>2, <2>3
  <1>10. CASE HandCreate
    <2>1. UNCHANGED <<requests, st>>
      BY <1>10 DEF HandCreate, ByHand, engine
    <2>2. ASSUME NEW v \in AllValues, Known(v)' PROVE Known(v)
      <3>1. PICK w \in fresh, a \in Aliases, t \in Teams, c \in Configs :
               keys' = [keys EXCEPT ![w] =
                   [alias |-> a, team |-> t, config |-> c, made |-> FALSE]]
        BY <1>10 DEF HandCreate
      <3>2. v # w => keys'[v] = keys[v]
        BY <1>1, <3>1 DEF TypeInv, TypeOK
      <3>3. v = w => ~keys'[v].made
        BY <1>1, <3>1 DEF TypeInv, TypeOK
      <3> QED BY <2>1, <2>2, <3>2, <3>3 DEF Known, Registered, requests
    <2> QED BY <1>1, <2>1, <2>2, ShrinkKeepsLive
  <1>11. CASE HandDelete
    <2>1. UNCHANGED <<requests, st>>
      BY <1>11 DEF HandDelete, ByHand, engine
    <2>2. \A v \in AllValues : Known(v)' => Known(v)
      BY <1>1, <1>11, <2>1, WithoutKnown DEF HandDelete, requests
    <2> QED BY <1>1, <2>1, <2>2, ShrinkKeepsLive
  <1> QED
    BY <1>2, <1>3, <1>4, <1>5, <1>6, <1>7, <1>8, <1>9, <1>10, <1>11 DEF Next, Provider, World

\* Between commands every key the provider registered and did not revoke is the
\* one the state records, or one whose /key/generate it had to give up on,
\* whatever requests fail or arrive late, whoever else works on the plane, and
\* however the program rotates, renames, moves and drops its key.
THEOREM NoCredentialLeftBehind == Spec => []OnlyRecordedLives
  <1>1. Init => LiveInv
    BY InitLive
  <1>2. LiveInv /\ [Next]_vars => LiveInv'
    BY NextLive
  <1>3. LiveInv => OnlyRecordedLives
    BY DEF LiveInv, OnlyRecordedLives
  <1> QED BY <1>1, <1>2, <1>3, PTL DEF Spec

-----------------------------------------------------------------------------
(* Keys of an administrator *)

\* A secret the program declares is registered by the provider only, a secret of
\* an administrator by him only, and by him once.
OwnInv ==
    \A v \in AllValues : Registered(v) =>
        /\ v \in Values => keys[v].made
        /\ v \in HandValues => ~keys[v].made /\ v \notin fresh

\* What Create is about to delete matches what the program declares.
FoundInv ==
    pc = "clear" => \A v \in found :
        /\ v \notin fresh
        /\ v \in HandValues /\ Registered(v) =>
              keys[v].alias = goal.alias /\ keys[v].team = goal.team

ForeignInv == TypeInv /\ OwnInv /\ FoundInv

\* No step but that of an administrator registers a key under a secret of his, or
\* changes one; and what is registered under a declared secret is of the provider.
KeysStep ==
    /\ fresh' = fresh
    /\ \A v \in AllValues : Registered(v)' =>
          \/ (Registered(v) /\ keys'[v] = keys[v])
          \/ (v \in Values /\ (keys'[v].made \/ (Registered(v) /\ keys'[v].made = keys[v].made)))

LEMMA SameKeys == ASSUME UNCHANGED <<keys, fresh>> PROVE KeysStep
  BY DEF KeysStep, Registered

LEMMA WithoutStep ==
    ASSUME NEW vs, keys' = Without(vs), UNCHANGED fresh PROVE KeysStep
  BY DEF KeysStep, Registered, Without

LEMMA RegisterStep ==
    ASSUME TypeInv, NEW a \in KeyArgs, Register(a), UNCHANGED fresh PROVE KeysStep
  <1>1. a.value \in Values /\ a.value \in AllValues
    BY DEF KeyArgs, AllValues
  <1>2. keys'[a.value].made
    BY <1>1 DEF Register, TypeInv, TypeOK
  <1>3. \A v \in AllValues : v # a.value => keys'[v] = keys[v]
    BY DEF Register, TypeInv, TypeOK
  <1> QED BY <1>1, <1>2, <1>3 DEF KeysStep, Registered

LEMMA NextKeys ==
    ASSUME TypeInv, [Next]_vars, ~HandCreate PROVE KeysStep
  <1>1. CASE \/ FindKeyHashesByAlias \/ Read \/ Dropped \/ Up \/ StartRead \/ Crash
             \/ EditProgram \/ UNCHANGED vars
    <2>1. UNCHANGED <<keys, fresh>>
      BY <1>1 DEF FindKeyHashesByAlias, Read, Dropped, Up, BeginUp, EndUp, StartCreate, StartUpdate,
                  StartDelete, Start, StartRead, Crash, EditProgram, vars, plane
    <2> QED BY <2>1, SameKeys
  <1>2. CASE ClearFound /\ ~Dropped
    <2>1. UNCHANGED fresh /\ (keys' = Without(found) \/ keys' = keys)
      BY <1>2 DEF ClearFound
    <2> QED BY <2>1, SameKeys, WithoutStep
  <1>3. CASE Generate
    <2>1. goal \in KeyArgs
      BY <1>3 DEF Generate, TypeInv, TypeOK, OpOK, IsDeclared
    <2>2. UNCHANGED fresh /\ (Register(goal) \/ keys' = keys)
      BY <1>3 DEF Generate, plane
    <2> QED BY <2>1, <2>2, SameKeys, RegisterStep
  <1>4. CASE Update /\ ~Dropped
    <2>1. goal \in KeyArgs /\ goal.value \in Values /\ goal.value \in AllValues
      BY <1>4 DEF Update, TypeInv, TypeOK, OpOK, IsDeclared, KeyArgs, AllValues
    <2>2. CASE Registered(goal.value)
      <3>1. /\ keys' = [keys EXCEPT ![goal.value].alias = goal.alias,
                                    ![goal.value].config = goal.config]
            /\ UNCHANGED fresh
        BY <1>4, <2>2 DEF Update
      <3>2. keys[goal.value] \in Key
        BY <2>1, <2>2 DEF Registered, TypeInv, TypeOK
      <3>3. keys'[goal.value].made = keys[goal.value].made
        BY <2>1, <3>1, <3>2 DEF TypeInv, TypeOK, Key
      <3>4. \A v \in AllValues : v # goal.value => keys'[v] = keys[v]
        BY <3>1 DEF TypeInv, TypeOK
      <3> QED BY <2>1, <2>2, <3>1, <3>3, <3>4 DEF KeysStep, Registered
    <2>3. CASE ~Registered(goal.value)
      <3>1. UNCHANGED <<keys, fresh>>
        BY <1>4, <2>3 DEF Update, plane
      <3> QED BY <3>1, SameKeys
    <2> QED BY <2>2, <2>3
  <1>5. CASE Delete /\ ~Dropped
    <2>1. UNCHANGED fresh /\ (keys' = Without({st.value}) \/ keys' = keys)
      BY <1>5 DEF Delete, plane
    <2> QED BY <2>1, SameKeys, WithoutStep
  <1>6. ASSUME NEW a \in late, Land(a) PROVE KeysStep
    <2>1. a \in KeyArgs /\ UNCHANGED fresh /\ (Register(a) \/ keys' = keys)
      BY <1>6 DEF Land, TypeInv, TypeOK
    <2> QED BY <2>1, SameKeys, RegisterStep
  <1>7. CASE HandDelete
    <2>1. UNCHANGED fresh /\ \E v \in AllValues : keys' = Without({v})
      BY <1>7 DEF HandDelete
    <2> QED BY <2>1, WithoutStep
  <1> QED BY <1>1, <1>2, <1>3, <1>4, <1>5, <1>6, <1>7 DEF Next, Provider, World

\* What an administrator registers is new.
LEMMA HandCreateKeys ==
    ASSUME TypeInv, HandCreate
    PROVE  \E w \in fresh :
              /\ w \in HandValues /\ fresh' = fresh \ {w}
              /\ ~keys'[w].made
              /\ \A v \in AllValues \ {w} : keys'[v] = keys[v]
  <1>1. PICK w \in fresh, a \in Aliases, t \in Teams, c \in Configs :
           /\ fresh' = fresh \ {w}
           /\ keys' = [keys EXCEPT ![w] =
                 [alias |-> a, team |-> t, config |-> c, made |-> FALSE]]
    BY DEF HandCreate
  <1>2. w \in HandValues /\ w \in AllValues
    BY DEF TypeInv, TypeOK, AllValues
  <1>3. ~keys'[w].made
    BY <1>1, <1>2 DEF TypeInv, TypeOK
  <1>4. \A v \in AllValues \ {w} : keys'[v] = keys[v]
    BY <1>1 DEF TypeInv, TypeOK
  <1> QED BY <1>1, <1>2, <1>3, <1>4

LEMMA NextOwn == ASSUME TypeInv, OwnInv, [Next]_vars PROVE OwnInv'
  <1>1. CASE ~HandCreate
    <2>1. KeysStep
      BY <1>1, NextKeys
    <2>2. ASSUME NEW v \in AllValues, Registered(v)'
          PROVE  /\ v \in Values => keys'[v].made
                 /\ v \in HandValues => ~keys'[v].made /\ v \notin fresh'
      <3>1. CASE Registered(v) /\ keys'[v] = keys[v]
        BY <2>1, <3>1 DEF OwnInv, KeysStep
      <3>2. CASE v \in Values /\ (keys'[v].made \/ (Registered(v) /\ keys'[v].made = keys[v].made))
        BY <3>2, LiteLLMKeyAssumption DEF OwnInv
      <3> QED BY <2>1, <2>2, <3>1, <3>2 DEF KeysStep
    <2> QED BY <2>2 DEF OwnInv
  <1>2. CASE HandCreate
    <2>1. PICK w \in fresh : /\ w \in HandValues /\ fresh' = fresh \ {w}
                             /\ ~keys'[w].made
                             /\ \A v \in AllValues \ {w} : keys'[v] = keys[v]
      BY <1>2, HandCreateKeys
    <2>2. ASSUME NEW v \in AllValues, Registered(v)'
          PROVE  /\ v \in Values => keys'[v].made
                 /\ v \in HandValues => ~keys'[v].made /\ v \notin fresh'
      <3>1. CASE v = w
        BY <2>1, <3>1, LiteLLMKeyAssumption
      <3>2. CASE v # w
        BY <2>1, <2>2, <3>2 DEF OwnInv, Registered
      <3> QED BY <3>1, <3>2
    <2> QED BY <2>2 DEF OwnInv
  <1> QED BY <1>1, <1>2

\* A step that leaves Create at the deletion came from the lookup or was refused.
LEMMA ClearStep ==
    ASSUME TypeInv, [Next]_vars, pc' = "clear"
    PROVE  \/ UNCHANGED <<pc, found, goal>>
           \/ /\ FindKeyHashesByAlias
              /\ UNCHANGED <<keys, fresh, goal>>
              /\ found' \subseteq Matches(goal.alias, goal.team)
  <1>1. CASE Fail \/ (\E s : Recorded(s))
    BY <1>1 DEF Fail, Recorded, GoIdle
  <1>2. CASE \E i \in BOOLEAN : RetryOrFail(i)
    BY <1>2 DEF RetryOrFail, Fail, GoIdle, engine
  <1>3. CASE GoTo("generate")
    BY <1>3 DEF GoTo
  <1>4. CASE FindKeyHashesByAlias
    BY <1>2, <1>4 DEF FindKeyHashesByAlias, Dropped, plane, engine
  <1>5. CASE ClearFound \/ Generate \/ Read \/ Update \/ Delete \/ Crash
    BY <1>1, <1>2, <1>3, <1>5 DEF ClearFound, Generate, GiveUp, Read, Update, Delete, Dropped, Crash
  <1>6. CASE Up \/ StartRead
    BY <1>6 DEF Up, BeginUp, EndUp, StartCreate, StartUpdate, StartDelete, Start, StartRead, op
  <1>7. CASE EditProgram
    BY <1>7 DEF EditProgram, TypeInv, OpOK, op
  <1>8. CASE HandCreate \/ HandDelete \/ (\E a \in late : Land(a)) \/ UNCHANGED vars
    BY <1>8 DEF HandCreate, HandDelete, ByHand, Land, vars, engine, op
  <1> QED BY <1>4, <1>5, <1>6, <1>7, <1>8 DEF Next, Provider, World

LEMMA NextFound == ASSUME ForeignInv, [Next]_vars PROVE FoundInv'
  <1> SUFFICES ASSUME pc' = "clear", NEW w \in found'
               PROVE  /\ w \notin fresh'
                      /\ w \in HandValues /\ Registered(w)' =>
                            keys'[w].alias = goal'.alias /\ keys'[w].team = goal'.team
    BY DEF FoundInv
  <1>0. TypeInv /\ TypeInv' /\ w \in AllValues
    BY NextType DEF ForeignInv, TypeInv, TypeOK
  <1>1. CASE UNCHANGED <<pc, found, goal>>
    <2>1. w \notin fresh
          /\ (w \in HandValues /\ Registered(w) =>
                 keys[w].alias = goal.alias /\ keys[w].team = goal.team)
      BY <1>1 DEF ForeignInv, FoundInv
    <2>2. CASE HandCreate
      <3>1. fresh' \subseteq fresh /\ keys'[w] = keys[w]
        BY <1>0, <2>1, <2>2, HandCreateKeys
      <3> QED BY <1>1, <2>1, <3>1 DEF Registered
    <2>3. CASE ~HandCreate
      <3>1. KeysStep
        BY <1>0, <2>3, NextKeys
      <3>2. fresh' = fresh
        BY <3>1 DEF KeysStep
      <3>3. w \in HandValues /\ Registered(w)' => Registered(w) /\ keys'[w] = keys[w]
        BY <1>0, <3>1, LiteLLMKeyAssumption DEF KeysStep
      <3> QED BY <1>1, <2>1, <3>2, <3>3
    <2> QED BY <2>2, <2>3
  <1>2. CASE /\ UNCHANGED <<keys, fresh, goal>>
             /\ found' \subseteq Matches(goal.alias, goal.team)
    <2>1. Registered(w) /\ keys[w].alias = goal.alias /\ keys[w].team = goal.team
      BY <1>2 DEF Matches
    <2>2. w \notin fresh
      BY <1>0, <2>1 DEF ForeignInv, OwnInv, TypeInv, TypeOK
    <2> QED BY <1>2, <2>1, <2>2
  <1> QED BY <1>0, <1>1, <1>2, ClearStep

LEMMA ForeignInvariant == Spec => []ForeignInv
  <1>1. Init => ForeignInv
    BY InitType DEF Init, ForeignInv, OwnInv, FoundInv, Registered
  <1>2. ForeignInv /\ [Next]_vars => ForeignInv'
    BY NextType, NextOwn, NextFound DEF ForeignInv
  <1> QED BY <1>1, <1>2, PTL DEF Spec

\* A step that no administrator takes removes of his keys only those with the
\* declared alias and team.
LEMMA ForeignStep ==
    ASSUME ForeignInv, [Next]_vars, NEW v \in AllValues,
           Registered(v), ~keys[v].made, keys'[v] = NoKey, hands' = hands
    PROVE  IsDeclared /\ keys[v].alias = goal.alias /\ keys[v].team = goal.team
  <1>0. TypeInv /\ v \in HandValues /\ v \notin Values
    BY LiteLLMKeyAssumption DEF ForeignInv, OwnInv, AllValues
  <1>1. keys' # keys
    BY DEF Registered
  <1>2. CASE ClearFound
    <2>1. pc = "clear" /\ IsDeclared /\ keys' = Without(found)
      BY <1>0, <1>1, <1>2 DEF ClearFound, Dropped, plane, TypeInv, OpOK
    <2>2. v \in found
      BY <2>1 DEF Without, Registered
    <2> QED BY <1>0, <2>1, <2>2 DEF ForeignInv, FoundInv
  <1>3. CASE Delete
    <2>1. keys' = Without({st.value}) /\ st \in KeyArgs
      BY <1>0, <1>1, <1>3 DEF Delete, Dropped, plane, TypeInv, TypeOK, OpOK, IsRecorded
    <2>2. v = st.value
      BY <2>1 DEF Without, Registered
    <2> QED BY <1>0, <2>1, <2>2 DEF KeyArgs
  <1>4. CASE HandCreate \/ HandDelete
    BY <1>0, <1>4 DEF HandCreate, HandDelete, ByHand, TypeInv, TypeOK
  <1>5. ASSUME NEW a \in KeyArgs, Register(a) PROVE FALSE
    <2>1. a.value # v
      BY <1>0 DEF KeyArgs
    <2> QED BY <1>0, <1>5, <2>1 DEF Register, Registered, TypeInv, TypeOK
  <1>6. CASE Generate
    BY <1>0, <1>1, <1>5, <1>6
       DEF Generate, plane, TypeInv, TypeOK, OpOK, IsDeclared
  <1>7. ASSUME NEW a \in late, Land(a) PROVE FALSE
    BY <1>0, <1>1, <1>5, <1>7 DEF Land, TypeInv, TypeOK
  <1>8. CASE Update
    <2>1. /\ goal.value \in Values
          /\ keys' = [keys EXCEPT ![goal.value].alias = goal.alias,
                                  ![goal.value].config = goal.config]
      BY <1>0, <1>1, <1>8 DEF Update, Dropped, plane, TypeInv, TypeOK, OpOK, IsDeclared, KeyArgs
    <2> QED BY <1>0, <2>1 DEF Registered, TypeInv, TypeOK
  <1>9. CASE \/ FindKeyHashesByAlias \/ Read \/ Up \/ StartRead \/ Crash \/ EditProgram
             \/ UNCHANGED vars
    BY <1>1, <1>9 DEF FindKeyHashesByAlias, Read, Dropped, Up, BeginUp, EndUp, StartCreate,
                      StartUpdate, StartDelete, Start, StartRead, Crash, EditProgram, vars, plane
  <1> QED BY <1>2, <1>3, <1>4, <1>6, <1>7, <1>8, <1>9 DEF Next, Provider, World

\* Whatever the program declares, renames, rotates or drops, and however its
\* requests fail: of the keys of an administrator it deletes only those with the
\* alias and the team it declares itself.
THEOREM ForeignKeysAreKept == Spec => ForeignKeysKept
  <1>1. ForeignInv /\ [Next]_vars =>
           [ \A v \in AllValues :
                /\ Registered(v) /\ ~keys[v].made /\ keys'[v] = NoKey
                /\ hands' = hands
                => IsDeclared /\ keys[v].alias = goal.alias /\ keys[v].team = goal.team ]_vars
    BY ForeignStep
  <1> QED BY <1>1, ForeignInvariant, PTL DEF Spec, ForeignKeysKept

-----------------------------------------------------------------------------
(* No stale credential under the recorded alias *)

\* What NoStaleCredential asks of a step: the program declares the one alias `a`
\* and the one team `t`, no inspection fails, and no request arrives late.
Undisturbed(a, t) ==
    /\ goal' # NoGoal => goal'.alias = a /\ goal'.team = t
    /\ pc = "find" /\ pc' \in {"clear", "generate"} => found' = Matches(goal.alias, goal.team)
    /\ late' \subseteq late

\* The keys of the provider.
Ours == {v \in Values : Registered(v)}

\* Every key of the provider matches what is declared, so that a Create finds
\* and clears all of them before it registers the next, and a record is of the
\* only one.
StaleInv(a, t) ==
    /\ ForeignInv
    /\ late = {}
    /\ IsDeclared => goal.alias = a /\ goal.team = t
    /\ \A v \in Ours : keys[v].alias = a /\ keys[v].team = t
    /\ IsRecorded => Ours \subseteq {st.value}
    /\ pc = "clear" => Ours \subseteq found
    /\ pc = "generate" => Ours = {}

\* A step that registers nothing of the provider and keeps the record.
LEMMA NothingNew ==
    ASSUME NEW a, NEW t, StaleInv(a, t), ForeignInv', Undisturbed(a, t),
           \A v \in Ours' : v \in Ours /\ keys'[v] = keys[v],
           st' = st \/ ~IsRecorded', pc' \notin {"clear", "generate"} \/ UNCHANGED <<pc, found>>
    PROVE  StaleInv(a, t)'
  BY DEF StaleInv, Undisturbed, IsDeclared, IsRecorded

LEMMA OursKept == ASSUME UNCHANGED keys PROVE \A v \in Ours' : v \in Ours /\ keys'[v] = keys[v]
  BY DEF Ours, Registered

LEMMA OursWithout ==
    ASSUME NEW vs, keys' = Without(vs)
    PROVE  \A v \in Ours' : v \in Ours /\ v \notin vs /\ keys'[v] = keys[v]
  BY DEF Ours, Registered, Without, AllValues

\* After the registration of the declared secret it is the only one.
LEMMA OursRegistered ==
    ASSUME NEW a, NEW t, StaleInv(a, t), IsDeclared, Register(goal), Ours = {}
    PROVE  /\ Ours' = {goal.value}
           /\ keys'[goal.value].alias = a /\ keys'[goal.value].team = t
  <1>1. goal \in KeyArgs /\ goal.value \in Values /\ goal.value \in AllValues
    BY DEF StaleInv, ForeignInv, TypeInv, TypeOK, IsDeclared, KeyArgs, AllValues
  <1>2. keys \in [AllValues -> Key \cup {NoKey}]
    BY DEF StaleInv, ForeignInv, TypeInv, TypeOK
  <1>3. /\ keys'[goal.value] = [alias |-> goal.alias, team |-> goal.team,
                                config |-> goal.config, made |-> TRUE]
        /\ \A v \in AllValues : v # goal.value => keys'[v] = keys[v]
    BY <1>1, <1>2 DEF Register
  <1>4. keys'[goal.value].alias = a /\ keys'[goal.value].team = t
    BY <1>3 DEF StaleInv
  <1>5. [alias |-> goal.alias, team |-> goal.team, config |-> goal.config, made |-> TRUE] \in Key
    BY <1>1 DEF KeyArgs, Key
  <1>6. keys'[goal.value] # NoKey
    BY <1>3, <1>5, NullsAssumption
  <1>7. \A v \in Values : v # goal.value => keys'[v] = NoKey
    BY <1>3 DEF Ours, Registered, AllValues
  <1> QED BY <1>1, <1>4, <1>6, <1>7 DEF Ours, Registered

LEMMA NextStale ==
    ASSUME NEW a, NEW t, StaleInv(a, t), [Next]_vars, Undisturbed(a, t) PROVE StaleInv(a, t)'
  <1>0. TypeInv /\ ForeignInv'
    BY NextType, NextOwn, NextFound DEF StaleInv, ForeignInv
  <1>2. CASE Dropped
    <2>1. UNCHANGED <<keys, st>>
          /\ (pc' \notin {"clear", "generate"} \/ UNCHANGED <<pc, found>>)
      BY <1>2 DEF Dropped, RetryOrFail, Fail, GoIdle, plane, engine
    <2> QED BY <1>0, <2>1, OursKept, NothingNew
  <1>3. CASE FindKeyHashesByAlias /\ ~Dropped
    <2>1. UNCHANGED <<keys, late, goal, st>> /\ pc' \in {"clear", "generate"}
          /\ (found' = {} => pc' = "generate") /\ (pc' = "generate" => found' = {})
      BY <1>3 DEF FindKeyHashesByAlias, GoTo, plane, requests, engine
    <2>2. found' = Matches(goal.alias, goal.team) /\ IsDeclared
      BY <1>0, <1>3, <2>1 DEF FindKeyHashesByAlias, Undisturbed, TypeInv, OpOK
    <2>3. Ours \subseteq found'
      BY <2>2 DEF StaleInv, Ours, Matches, AllValues
    <2>4. Ours' = Ours
      BY <2>1 DEF Ours, Registered
    <2> QED BY <1>0, <2>1, <2>3, <2>4 DEF StaleInv, IsDeclared, IsRecorded
  <1>4. CASE ClearFound /\ ~Dropped
    <2>1. pc = "clear" /\ st' = st /\ (keys' = Without(found) \/ keys' = keys)
      BY <1>4 DEF ClearFound, RetryOrFail, Fail, engine
    <2>2. \A v \in Ours' : v \in Ours /\ keys'[v] = keys[v]
      BY <2>1, OursWithout, OursKept
    <2>3. CASE pc' = "generate"
      <3>1. keys' = Without(found)
        BY <1>4, <2>1, <2>3 DEF ClearFound, RetryOrFail, Fail, GoIdle
      <3>2. Ours' = {}
        BY <2>1, <3>1, OursWithout DEF StaleInv
      <3> QED BY <1>0, <2>1, <2>3, <3>2 DEF StaleInv, Undisturbed, IsDeclared, IsRecorded
    <2>4. CASE pc' # "generate"
      <3>1. pc' \notin {"clear", "generate"} \/ UNCHANGED <<pc, found>>
        BY <1>4, <2>1, <2>4 DEF ClearFound, RetryOrFail, Fail, GoIdle, GoTo
      <3> QED BY <1>0, <2>1, <2>2, <3>1, NothingNew
    <2> QED BY <2>3, <2>4
  <1>5. CASE Generate
    <2>1. IsDeclared /\ ~IsRecorded /\ Ours = {} /\ goal # NoState
      BY <1>0, <1>5, NullsAssumption
         DEF Generate, TypeInv, TypeOK, OpOK, StaleInv, IsDeclared
    <2>2. pc' = "idle" /\ (st' = st \/ st' = goal)
      BY <1>0, <1>5 DEF Generate, GiveUp, RetryOrFail, Attempts, Fail, Recorded, GoIdle, TypeInv, TypeOK
    <2>3. CASE Register(goal)
      <3>1. /\ Ours' = {goal.value}
            /\ keys'[goal.value].alias = a /\ keys'[goal.value].team = t
        BY <2>1, <2>3, OursRegistered
      <3>2. IsRecorded' => st'.value = goal.value
        BY <2>1, <2>2 DEF IsRecorded
      <3> QED BY <1>0, <2>2, <3>1, <3>2 DEF StaleInv, Undisturbed, IsDeclared
    <2>4. CASE UNCHANGED keys
      <3>1. Ours' = {}
        BY <2>1, <2>4 DEF Ours, Registered
      <3> QED BY <1>0, <2>2, <3>1 DEF StaleInv, Undisturbed, IsDeclared
    <2> QED BY <1>5, <2>3, <2>4 DEF Generate, plane
  <1>6. CASE Read
    <2>1. /\ UNCHANGED keys /\ (st' = st \/ ~IsRecorded')
          /\ (pc' \notin {"clear", "generate"} \/ UNCHANGED <<pc, found>>)
      BY <1>6 DEF Read, Dropped, RetryOrFail, Recorded, Fail, GoIdle, plane, engine, IsRecorded
    <2> QED BY <1>0, <2>1, OursKept, NothingNew
  <1>7. CASE Update /\ ~Dropped
    <2>1. /\ IsDeclared /\ IsRecorded /\ goal \in KeyArgs
          /\ goal.value \in AllValues /\ goal.value = st.value
      BY <1>0, <1>7 DEF Update, TypeInv, TypeOK, OpOK, IsDeclared, KeyArgs, AllValues
    <2>2. pc' \notin {"clear", "generate"} /\ (st' = st \/ st' = goal)
      BY <1>7 DEF Update, RetryOrFail, Recorded, Fail, GoIdle, engine
    <2>3. \A v \in AllValues : v # goal.value => keys'[v] = keys[v]
      BY <1>0, <1>7 DEF Update, plane, TypeInv, TypeOK
    <2>4. CASE Registered(goal.value)
      <3>1. keys' = [keys EXCEPT ![goal.value].alias = goal.alias,
                                 ![goal.value].config = goal.config]
        BY <1>7, <2>4 DEF Update
      <3>2. goal.value \in Ours /\ keys[goal.value] \in Key
        BY <1>0, <2>1, <2>4 DEF Ours, Registered, KeyArgs, TypeInv, TypeOK
      <3>3. keys'[goal.value].alias = goal.alias /\ keys'[goal.value].team = keys[goal.value].team
        BY <1>0, <2>1, <3>1, <3>2 DEF TypeInv, TypeOK, Key
      <3>4. keys'[goal.value].alias = a /\ keys'[goal.value].team = t
        BY <2>1, <3>2, <3>3 DEF StaleInv
      <3>5. Ours' \subseteq Ours
        BY <2>3, <3>2 DEF Ours, Registered, AllValues
      <3>6. \A v \in Ours' : keys'[v].alias = a /\ keys'[v].team = t
        BY <2>3, <3>4, <3>5 DEF StaleInv, Ours, AllValues
      <3> QED BY <1>0, <2>1, <2>2, <3>5, <3>6 DEF StaleInv, Undisturbed, IsDeclared, IsRecorded
    <2>5. CASE ~Registered(goal.value)
      <3>1. UNCHANGED <<keys, st>>
        BY <1>7, <2>5 DEF Update, Fail, plane
      <3> QED BY <1>0, <2>2, <3>1, OursKept, NothingNew
    <2> QED BY <2>4, <2>5
  <1>8. CASE Delete /\ ~Dropped
    <2>1. /\ keys' = Without({st.value}) \/ keys' = keys
          /\ st' = st \/ ~IsRecorded'
          /\ pc' \notin {"clear", "generate"}
      BY <1>8 DEF Delete, RetryOrFail, Recorded, Fail, GoIdle, plane, engine, IsRecorded
    <2>2. \A v \in Ours' : v \in Ours /\ keys'[v] = keys[v]
      BY <2>1, OursWithout, OursKept
    <2> QED BY <1>0, <2>1, <2>2, NothingNew
  <1>9. CASE Up \/ StartRead \/ Crash \/ EditProgram \/ UNCHANGED vars
    <2>1. /\ UNCHANGED <<keys, st>>
          /\ (pc' \notin {"clear", "generate"} \/ UNCHANGED <<pc, found>>)
      BY <1>9 DEF Up, BeginUp, EndUp, StartCreate, StartUpdate, StartDelete, Start, StartRead, Crash,
                  Fail, GoIdle, EditProgram, vars, plane, engine, op
    <2> QED BY <1>0, <2>1, OursKept, NothingNew
  <1>10. ASSUME NEW l \in late PROVE FALSE
    BY <1>10 DEF StaleInv
  <1>11. CASE HandCreate
    <2>1. UNCHANGED <<st, pc, found>>
      BY <1>11 DEF HandCreate, ByHand, engine, op
    <2>2. \A v \in Ours' : v \in Ours /\ keys'[v] = keys[v]
      BY <1>0, <1>11, HandCreateKeys, LiteLLMKeyAssumption DEF Ours, Registered, AllValues
    <2> QED BY <1>0, <2>1, <2>2, NothingNew
  <1>12. CASE HandDelete
    <2>1. UNCHANGED <<st, pc, found>>
      BY <1>12 DEF HandDelete, ByHand, engine, op
    <2>2. \A v \in Ours' : v \in Ours /\ keys'[v] = keys[v]
      BY <1>12, OursWithout DEF HandDelete
    <2> QED BY <1>0, <2>1, <2>2, NothingNew
  <1> QED
    BY <1>2, <1>3, <1>4, <1>5, <1>6, <1>7, <1>8, <1>9, <1>10, <1>11, <1>12
       DEF Next, Provider, World

LEMMA StaleFollows == ASSUME NEW a, NEW t, StaleInv(a, t) PROVE NoStaleCredential
  <1>1. \A v \in AllValues : Registered(v) /\ keys[v].made => v \in Ours
    BY LiteLLMKeyAssumption DEF StaleInv, ForeignInv, OwnInv, Ours, AllValues
  <1> QED BY <1>1 DEF NoStaleCredential, StaleInv

LEMMA InitStale == ASSUME NEW a, NEW t, Init PROVE StaleInv(a, t)
  BY InitType DEF Init, StaleInv, ForeignInv, OwnInv, FoundInv, Ours, Registered, IsDeclared,
                  IsRecorded, AllValues

\* Every behaviour whose steps are undisturbed, whatever its administrators do,
\* whichever answers are lost and wherever it crashes: of the keys under the
\* recorded alias and team only the recorded one is registered between commands.
THEOREM NoStaleCredentialUndisturbed ==
    ASSUME NEW a, NEW t
    PROVE  Spec /\ [][Undisturbed(a, t)]_vars => []NoStaleCredential
  <1>1. Init => StaleInv(a, t)
    BY InitStale
  <1>2. StaleInv(a, t) /\ [Next]_vars /\ [Undisturbed(a, t)]_vars => StaleInv(a, t)'
    <2>1. UNCHANGED vars /\ StaleInv(a, t) => Undisturbed(a, t)
      BY DEF vars, plane, requests, engine, op, StaleInv, Undisturbed, IsDeclared
    <2> QED BY <2>1, NextStale
  <1>3. StaleInv(a, t) => NoStaleCredential
    BY StaleFollows
  <1> QED BY <1>1, <1>2, <1>3, PTL DEF Spec

-----------------------------------------------------------------------------
(* The checked instance with one alias and no team *)

\* Its steps are undisturbed steps of the specification.
LEMMA AloneFaults == ASSUME NEW f, Alone!Fault(f) PROVE Fault(f) /\ f \notin {"late", "uninspected"}
  BY InstancesAssumption DEF Alone!Fault, Fault

\* The control operators of the instance are those of the specification.
LEMMA AloneControl ==
    /\ Alone!engine = engine /\ Alone!engine' = engine'
    /\ Alone!plane = plane /\ Alone!plane' = plane'
    /\ Alone!requests = requests /\ Alone!requests' = requests'
    /\ Alone!op = op /\ Alone!op' = op'
    /\ Alone!budgets = budgets /\ Alone!budgets' = budgets'
    /\ Alone!AllValues = AllValues
  BY DEF Alone!engine, engine, Alone!plane, plane, Alone!requests, requests, Alone!op, op,
         Alone!budgets, budgets, Alone!AllValues, AllValues

LEMMA AloneEnds ==
    /\ Alone!Fail <=> Fail
    /\ Alone!NoFault <=> NoFault
    /\ \A i \in BOOLEAN : Alone!RetryOrFail(i) <=> RetryOrFail(i)
    /\ \A s : Alone!Recorded(s) <=> Recorded(s)
    /\ \A p : Alone!GoTo(p) <=> GoTo(p)
  BY DEF Alone!Fail, Fail, Alone!GoIdle, GoIdle, Alone!NoFault, NoFault, Alone!budgets, budgets,
         Alone!RetryOrFail, RetryOrFail, Alone!Attempts, Attempts, Alone!engine, engine,
         Alone!Recorded, Recorded, Alone!GoTo, GoTo

LEMMA AloneKeys ==
    /\ \A v : Alone!Registered(v) <=> Registered(v)
    /\ \A vs : Alone!Without(vs) = Without(vs)
    /\ \A a, t : Alone!Matches(a, t) = Matches(a, t)
    /\ \A a : Alone!Register(a) <=> Register(a)
    /\ (Alone!IsDeclared <=> IsDeclared) /\ (Alone!IsRecorded <=> IsRecorded)
  BY DEF Alone!Registered, Registered, Alone!Without, Without, Alone!Matches, Matches,
         Alone!AllValues, AllValues, Alone!Register, Register, Alone!IsDeclared, IsDeclared,
         Alone!IsRecorded, IsRecorded

LEMMA AloneDropped == ASSUME Alone!Dropped PROVE Dropped
  BY AloneFaults, AloneEnds, AloneControl DEF Alone!Dropped, Dropped

LEMMA AloneProvider == ASSUME Alone!Provider PROVE Provider
  <1>1. CASE Alone!FindKeyHashesByAlias
    BY <1>1, AloneDropped, AloneFaults, AloneEnds, AloneKeys, AloneControl
       DEF Alone!FindKeyHashesByAlias, FindKeyHashesByAlias, Provider
  <1>2. CASE Alone!ClearFound
    BY <1>2, AloneDropped, AloneFaults, AloneEnds, AloneKeys, AloneControl
       DEF Alone!ClearFound, ClearFound, Provider
  <1>3. CASE Alone!Generate
    BY <1>3, AloneFaults, AloneEnds, AloneKeys, AloneControl
       DEF Alone!Generate, Generate, Alone!GiveUp, GiveUp, Alone!Answered, Answered, Provider
  <1>4. CASE Alone!Read
    BY <1>4, AloneDropped, AloneFaults, AloneEnds, AloneKeys, AloneControl
       DEF Alone!Read, Read, Provider
  <1>5. CASE Alone!Update
    BY <1>5, AloneDropped, AloneFaults, AloneEnds, AloneKeys, AloneControl
       DEF Alone!Update, Update, Provider
  <1>6. CASE Alone!Delete
    BY <1>6, AloneDropped, AloneFaults, AloneEnds, AloneKeys, AloneControl
       DEF Alone!Delete, Delete, Provider
  <1> QED BY <1>1, <1>2, <1>3, <1>4, <1>5, <1>6 DEF Alone!Provider

LEMMA AloneUp == ASSUME Alone!Up \/ Alone!StartRead PROVE Up \/ StartRead
  <1>1. /\ Alone!CreateDue <=> CreateDue
        /\ Alone!UpdateDue <=> UpdateDue
        /\ Alone!DeleteDue <=> DeleteDue
        /\ Alone!SomethingDue <=> SomethingDue
    BY DEF Alone!CreateDue, CreateDue, Alone!UpdateDue, UpdateDue, Alone!DeleteDue, DeleteDue,
           Alone!SomethingDue, SomethingDue, Alone!DiffNow, DiffNow, Alone!Diff, Diff,
           Alone!MayCreate, MayCreate, Alone!MayUpdate, MayUpdate, Alone!MayDelete, MayDelete,
           Alone!DeleteBeforeReplace, DeleteBeforeReplace, Alone!IsDeclared, IsDeclared,
           Alone!IsRecorded, IsRecorded
  <1>2. \A k, p : Alone!Start(k, p) <=> Start(k, p)
    BY AloneControl DEF Alone!Start, Start
  <1> QED
    BY <1>1, <1>2, AloneControl, AloneKeys
       DEF Alone!Up, Up, Alone!BeginUp, BeginUp, Alone!EndUp, EndUp, Alone!StartCreate, StartCreate,
           Alone!StartUpdate, StartUpdate, Alone!StartDelete, StartDelete, Alone!StartRead, StartRead

LEMMA AloneWorld ==
    ASSUME Alone!World
    PROVE  World /\ (Alone!EditProgram \/ UNCHANGED goal)
  <1>1. \A a : Alone!Land(a) => Land(a) /\ UNCHANGED goal
    BY AloneKeys, AloneControl DEF Alone!Land, Land, engine
  <1>2. Alone!Crash => Crash /\ UNCHANGED goal
    BY AloneFaults, AloneEnds, AloneControl DEF Alone!Crash, Crash, Fail
  <1>3. Alone!EditProgram => EditProgram
    BY InstancesAssumption, AloneControl
       DEF Alone!EditProgram, EditProgram, Alone!KeyArgs, KeyArgs
  <1>4. \A k : Alone!ByHand(k) => ByHand(k) /\ UNCHANGED goal
    BY AloneControl DEF Alone!ByHand, ByHand, engine
  <1>5. Alone!HandCreate => HandCreate /\ UNCHANGED goal
    BY <1>4, InstancesAssumption DEF Alone!HandCreate, HandCreate
  <1>6. Alone!HandDelete => HandDelete /\ UNCHANGED goal
    BY <1>4, AloneKeys, AloneControl DEF Alone!HandDelete, HandDelete
  <1> QED BY <1>1, <1>2, <1>3, <1>5, <1>6 DEF Alone!World, World

LEMMA AloneStep ==
    ASSUME StaleInv(a1, NoTeam), Alone!Next PROVE Next /\ Undisturbed(a1, NoTeam)
  <1>1. Next
    BY AloneProvider, AloneUp, AloneWorld DEF Alone!Next, Next
  <1>2. goal' # NoGoal => goal'.alias = a1 /\ goal'.team = NoTeam
    <2>1. CASE Alone!EditProgram
      BY <2>1 DEF Alone!EditProgram, Alone!KeyArgs
    <2>2. CASE UNCHANGED goal
      BY <2>2 DEF StaleInv, IsDeclared
    <2>3. Alone!Provider \/ Alone!Up \/ Alone!StartRead => UNCHANGED goal
      BY DEF Alone!Provider, Alone!FindKeyHashesByAlias, Alone!ClearFound, Alone!Generate,
             Alone!GiveUp, Alone!Read, Alone!Update, Alone!Delete, Alone!Dropped, Alone!RetryOrFail,
             Alone!Recorded, Alone!Fail, Alone!engine, Alone!Up, Alone!BeginUp, Alone!EndUp,
             Alone!StartCreate, Alone!StartUpdate, Alone!StartDelete, Alone!Start, Alone!StartRead
    <2> QED BY <2>1, <2>2, <2>3, AloneWorld DEF Alone!Next
  <1>3. pc = "find" /\ pc' \in {"clear", "generate"} => found' = Matches(goal.alias, goal.team)
    <2>1. CASE Alone!FindKeyHashesByAlias
      <3>1. Alone!Dropped => pc' \notin {"clear", "generate"} \/ UNCHANGED pc
        BY DEF Alone!Dropped, Alone!RetryOrFail, Alone!Fail, Alone!GoIdle
      <3> QED BY <2>1, <3>1, AloneFaults, AloneKeys DEF Alone!FindKeyHashesByAlias
    <2>2. CASE ~Alone!FindKeyHashesByAlias /\ pc = "find"
      <3>1. ~Alone!Provider
        BY <2>2 DEF Alone!Provider, Alone!ClearFound, Alone!Generate, Alone!Read, Alone!Update,
                    Alone!Delete
      <3>2. Alone!Up \/ Alone!StartRead => pc' = "find" \/ pc' \notin {"clear", "generate"}
        BY <2>2 DEF Alone!Up, Alone!BeginUp, Alone!EndUp, Alone!StartCreate, Alone!StartUpdate,
                    Alone!StartDelete, Alone!Start, Alone!StartRead, Alone!op
      <3>3. Alone!World => pc' = "find" \/ pc' \notin {"clear", "generate"}
        BY <2>2 DEF Alone!World, Alone!Land, Alone!Crash, Alone!Fail, Alone!GoIdle,
                    Alone!EditProgram, Alone!HandCreate, Alone!HandDelete, Alone!ByHand, Alone!op
      <3> QED BY <2>2, <3>1, <3>2, <3>3 DEF Alone!Next
    <2> QED BY <2>1, <2>2
  <1>4. late' \subseteq late
    <2>1. CASE Alone!Generate
      BY <2>1, AloneFaults DEF Alone!Generate, Alone!plane, Alone!requests
    <2>2. CASE Alone!Provider /\ ~Alone!Generate
      BY <2>2 DEF Alone!Provider, Alone!FindKeyHashesByAlias, Alone!ClearFound, Alone!Read,
                  Alone!Update, Alone!Delete, Alone!Dropped, Alone!plane, Alone!requests
    <2>3. CASE Alone!Up \/ Alone!StartRead \/ Alone!World
      BY <2>3 DEF Alone!Up, Alone!BeginUp, Alone!EndUp, Alone!StartCreate, Alone!StartUpdate,
                  Alone!StartDelete, Alone!Start, Alone!StartRead, Alone!World, Alone!Land,
                  Alone!Crash, Alone!EditProgram, Alone!HandCreate, Alone!HandDelete, Alone!ByHand,
                  Alone!plane, Alone!requests
    <2> QED BY <2>1, <2>2, <2>3 DEF Alone!Next
  <1> QED BY <1>1, <1>2, <1>3, <1>4 DEF Undisturbed

\* So the checked instance promises it for any secrets, budgets and alias.
THEOREM AloneHasNoStaleCredential == MCSpec => []AloneNoStaleCredential
  <1> DEFINE Kept == setting = "alone" => StaleInv(a1, NoTeam)
  <1>1. MCInit => Kept
    BY InitStale DEF MCInit
  <1>2. Kept /\ [In("shared", Shared!Next) \/ In("alone", Alone!Next)]_all => Kept'
    <2>1. CASE In("shared", Shared!Next)
      BY <2>1 DEF In
    <2>2. CASE Kept /\ In("alone", Alone!Next)
      BY <2>2, AloneStep, NextStale DEF In
    <2>3. CASE Kept /\ UNCHANGED all
      <3>1. UNCHANGED setting /\ UNCHANGED vars
        BY <2>3 DEF all
      <3>2. CASE StaleInv(a1, NoTeam)
        <4>1. Undisturbed(a1, NoTeam)
          BY <3>1, <3>2 DEF vars, plane, requests, engine, op, StaleInv, Undisturbed, IsDeclared
        <4> QED BY <3>1, <3>2, <4>1, NextStale
      <3> QED BY <2>3, <3>1, <3>2
    <2> QED BY <2>1, <2>2, <2>3
  <1>3. Kept => AloneNoStaleCredential
    BY StaleFollows DEF AloneNoStaleCredential
  <1> QED BY <1>1, <1>2, <1>3, PTL DEF MCSpec
=============================================================================
