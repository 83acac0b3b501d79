------------------------ MODULE UptimeMonitorProofs ------------------------
(***************************************************************************)
(* Theorems about UptimeMonitor, for any number of monitors and any        *)
(* thresholds.  The two that relate the tables to the webhooks assume      *)
(* invocations in series (one slot).  And, at the end, about WorkersMC:    *)
(* what EdgeSiteProofs and NixImagesProofs prove of a site and of images   *)
(* holds of the behaviours that TLC checks them on.                        *)
(***************************************************************************)
EXTENDS WorkersMC, TLAPS

InSeries == \A s, t \in Slots : s = t

\* Advancing a row yields a row that counts either failures or successes, and
\* its status is the old one unless a threshold is reached.
LEMMA AdvanceType ==
    ASSUME NEW row \in Rows, NEW ok \in BOOLEAN
    PROVE  /\ Advance(row, ok) \in Rows
           /\ Advance(row, ok).fails = 0 \/ Advance(row, ok).oks = 0
           /\ ok => Advance(row, ok).fails = 0
           /\ ~ok => Advance(row, ok).fails \in {row.fails, row.fails + 1}
           /\ Advance(row, ok).status = "unhealthy" /\ row.status # "unhealthy"
                => Advance(row, ok).fails = AlertThreshold
  <1> DEFINE counts == Count(row, ok)
  <1>1. /\ counts \in Rows
        /\ counts.status = row.status
        /\ counts.fails = 0 \/ counts.oks = 0
        /\ ok => counts.fails = 0
        /\ ~ok => counts.fails \in {row.fails, row.fails + 1}
    <2>1. CASE ok
      <3>1. counts = [fails |-> 0, oks |-> Up(row.oks, RecoveryThreshold), status |-> row.status]
        BY <2>1 DEF Count, Rows
      <3>2. Up(row.oks, RecoveryThreshold) \in 0 .. RecoveryThreshold
        BY UptimeMonitorAssumption DEF Up, Rows
      <3> HIDE DEF counts
      <3> QED BY <2>1, <3>1, <3>2, UptimeMonitorAssumption DEF Rows
    <2>2. CASE ~ok
      <3>1. counts = [fails |-> Up(row.fails, AlertThreshold), oks |-> 0, status |-> row.status]
        BY <2>2 DEF Count, Rows
      <3>2. /\ Up(row.fails, AlertThreshold) \in 0 .. AlertThreshold
            /\ Up(row.fails, AlertThreshold) \in {row.fails, row.fails + 1}
        BY UptimeMonitorAssumption DEF Up, Rows
      <3> QED BY <2>2, <3>1, <3>2, UptimeMonitorAssumption DEF Rows
    <2> QED BY <2>1, <2>2
  <1>2. Transition(counts) \in Statuses
    BY <1>1 DEF Transition, Rows, Statuses
  <1>3. Transition(counts) = "unhealthy" /\ row.status # "unhealthy"
          => counts.fails = AlertThreshold
    BY <1>1, UptimeMonitorAssumption DEF Transition, Rows, Statuses
  <1>4. Advance(row, ok) = [counts EXCEPT !.status = Transition(counts)]
    BY DEF Advance
  <1> QED BY <1>1, <1>2, <1>3, <1>4 DEF Rows

\* Appending a result to a table keeps the last AlertThreshold results.
LEMMA RecentAppend ==
    ASSUME NEW h \in Histories, NEW ok \in BOOLEAN
    PROVE  Recent(Append(h, ok)) \in Histories
  BY UptimeMonitorAssumption DEF Histories, Recent

\* The result just appended is the last one, and the others move down by one.
LEMMA RecentFromTheEnd ==
    ASSUME NEW h \in Histories, NEW ok \in BOOLEAN,
           NEW k \in 1 .. AlertThreshold, k - 1 <= Len(h)
    PROVE  LET r == Recent(Append(h, ok))
           IN  /\ k <= Len(r)
               /\ r[Len(r) + 1 - k] = IF k = 1 THEN ok ELSE h[Len(h) + 1 - (k - 1)]
  <1>1. CASE Len(h) < AlertThreshold
    BY <1>1, UptimeMonitorAssumption DEF Histories, Recent
  <1>2. CASE Len(h) = AlertThreshold
    BY <1>2, UptimeMonitorAssumption DEF Histories, Recent
  <1> QED BY <1>1, <1>2, UptimeMonitorAssumption DEF Histories

LEMMA AppendResultsType ==
    ASSUME NEW table \in [Monitors -> Histories],
           NEW results \in [Monitors -> {"none", "ok", "fail"}]
    PROVE  AppendResults(table, results) \in [Monitors -> Histories]
  BY RecentAppend DEF AppendResults

\* What a run writes.
LEMMA NewStateType ==
    ASSUME TypeOK, NEW s \in Slots
    PROVE  /\ NewState(s) \in [Monitors -> Rows]
           /\ \A m \in Monitors : NewState(s)[m].fails = 0 \/ NewState(s)[m].oks = 0
  <1> DEFINE new(m) == Advance(run[s].states[m], run[s].results[m] = "ok")
  <1>1. ASSUME NEW m \in Monitors
        PROVE  new(m) \in Rows /\ (new(m).fails = 0 \/ new(m).oks = 0)
    <2>1. run[s].states[m] \in Rows
      BY DEF TypeOK, Run
    <2>2. (run[s].results[m] = "ok") \in BOOLEAN
      OBVIOUS
    <2> QED BY <2>1, <2>2, AdvanceType
  <1>2. NewState(s) = [m \in Monitors |-> new(m)]
    BY DEF NewState
  <1> HIDE DEF new
  <1> QED BY <1>1, <1>2

-----------------------------------------------------------------------------
(* Types *)

LEMMA IdleType == Idle \in Run
  BY UptimeMonitorAssumption DEF Idle, Run, Rows, DefaultRow, Statuses

LEMMA InitType == Init => TypeOK
  <1> SUFFICES ASSUME Init PROVE TypeOK
    OBVIOUS
  <1>1. DefaultRow \in Rows /\ DefaultRow.fails = 0
    BY UptimeMonitorAssumption DEF Rows, DefaultRow, Statuses
  <1>2. <<>> \in Histories
    BY UptimeMonitorAssumption DEF Histories
  <1> QED BY <1>1, <1>2, IdleType DEF Init, TypeOK, Statuses, Answers


LEMMA NextType == TypeOK /\ [Next]_vars => TypeOK'
  <1> SUFFICES ASSUME TypeOK, [Next]_vars PROVE TypeOK'
    OBVIOUS
  <1> USE DEF TypeOK
  <1>1. ASSUME NEW s \in Slots, Scheduled(s) PROVE TypeOK'
    BY <1>1 DEF Scheduled, GoTo, Run, world, tables
  <1>2. ASSUME NEW s \in Slots, Probe(s) PROVE TypeOK'
    <2>1. PICK m \in Monitors :
             run' = [run EXCEPT
                ![s].results[m] = IF ProbeOk(m, answer[m]) THEN "ok" ELSE "fail",
                ![s].pc = IF m = NumMonitors THEN "insert" ELSE "probe"]
      BY <1>2 DEF Probe
    <2>2. run'[s] \in Run
      BY <2>1 DEF Run
    <2>3. run' \in [Slots -> Run]
      BY <2>1, <2>2
    <2> QED BY <1>2, <2>3 DEF Probe, world, tables
  <1>3. ASSUME NEW s \in Slots, InsertResults(s) PROVE TypeOK'
    <2>1. AppendResults(probeResults, run[s].results) \in [Monitors -> Histories]
      BY AppendResultsType DEF Run
    <2>2. run' \in [Slots -> Run]
      <3>1. run' = [run EXCEPT ![s] = Idle] \/ run' = [run EXCEPT ![s].pc = "select"]
        BY <1>3 DEF InsertResults, GoTo, EndRun
      <3>2. CASE run' = [run EXCEPT ![s] = Idle]
        BY <3>2, IdleType
      <3>3. CASE run' = [run EXCEPT ![s].pc = "select"]
        BY <3>3 DEF Run
      <3> QED BY <3>1, <3>2, <3>3
    <2> QED BY <1>3, <2>1, <2>2 DEF InsertResults, world
  <1>4. ASSUME NEW s \in Slots, SelectState(s) PROVE TypeOK'
    <2>1. run' \in [Slots -> Run]
      <3>1. \/ run' = [run EXCEPT ![s] = Idle]
            \/ run' = [run EXCEPT ![s].states = monitorState, ![s].pc = "batch"]
        BY <1>4 DEF SelectState, EndRun
      <3>2. CASE run' = [run EXCEPT ![s] = Idle]
        BY <3>2, IdleType
      <3>3. CASE run' = [run EXCEPT ![s].states = monitorState, ![s].pc = "batch"]
        <4>1. run'[s] \in Run
          BY <3>3 DEF Run
        <4>2. \A t \in Slots \ {s} : run'[t] = run[t]
          BY <3>3
        <4>3. run' = [t \in Slots |-> run'[t]]
          BY <3>3
        <4> QED BY <4>1, <4>2, <4>3
      <3> QED BY <3>1, <3>2, <3>3
    <2> QED BY <1>4, <2>1 DEF SelectState, world, tables
  <1>5. ASSUME NEW s \in Slots, WriteState(s) PROVE TypeOK'
    <2>1. run' \in [Slots -> Run]
      BY <1>5, IdleType DEF WriteState, EndRun
    <2>2. AppendResults(counted, run[s].results) \in [Monitors -> Histories]
      BY AppendResultsType DEF Run
    <2>3. Alerts(s) \subseteq Posts
      BY DEF Alerts
    <2> QED BY <1>5, <2>1, <2>2, <2>3, NewStateType DEF WriteState, world
  <1>6. ASSUME NEW s \in Slots, SendWebhook(s) PROVE TypeOK'
    BY <1>6 DEF SendWebhook, PostsOf, Posts, world, tables
  <1>7. ASSUME NEW s \in Slots, Kill(s) PROVE TypeOK'
    BY <1>7, IdleType DEF Kill, EndRun, world, tables
  <1>8. CASE EndpointChanges
    BY <1>8 DEF EndpointChanges, tables
  <1>9. CASE CalmsDown
    BY <1>9 DEF CalmsDown, tables
  <1>10. CASE UNCHANGED vars
    BY <1>10 DEF vars, world, tables
  <1> QED
    BY <1>1, <1>2, <1>3, <1>4, <1>5, <1>6, <1>7, <1>8, <1>9, <1>10 DEF Next, Invocation

\* Every reachable state is well typed, and no row of monitor_state counts
\* failures and successes at once, however invocations overlap and fail.
THEOREM TypeCorrect == Spec => []TypeOK
  <1>1. Init => TypeOK
    BY InitType
  <1>2. TypeOK /\ [Next]_vars => TypeOK'
    BY NextType
  <1> QED BY <1>1, <1>2, PTL DEF Spec

-----------------------------------------------------------------------------
(* Invocations in series: what a run writes is based on what the table holds *)

\* A run writes, row by row, the advance of what it read.
LEMMA NewStateRow ==
    ASSUME TypeOK, NEW s \in Slots, NEW m \in Monitors
    PROVE  /\ run[s].states[m] \in Rows
           /\ (run[s].results[m] = "ok") \in BOOLEAN
           /\ NewState(s)[m] = Advance(run[s].states[m], run[s].results[m] = "ok")
  BY DEF TypeOK, Run, NewState

\* In series, no step moves the table away from what a run about to write read.
LEMMA ReadStaysCurrent ==
    ASSUME InSeries, TypeOK, ReadIsCurrent, [Next]_vars
    PROVE  ReadIsCurrent'
  <1> SUFFICES ASSUME NEW t \in Slots, run'[t].pc = "batch"
               PROVE  run'[t].states = monitorState'
    BY DEF ReadIsCurrent
  <1>1. ASSUME NEW s \in Slots, SelectState(s) PROVE run'[t].states = monitorState'
    <2>1. s = t /\ monitorState' = monitorState
      BY <1>1 DEF InSeries, SelectState, tables
    <2>2. CASE run' = [run EXCEPT ![s].states = monitorState, ![s].pc = "batch"]
      BY <2>1, <2>2 DEF TypeOK, Run
    <2>3. CASE EndRun(s)
      BY <2>1, <2>3 DEF TypeOK, EndRun, Idle
    <2> QED BY <1>1, <2>2, <2>3 DEF SelectState
  <1>2. ASSUME NEW s \in Slots, Scheduled(s) \/ Probe(s) \/ InsertResults(s) \/ WriteState(s)
                                  \/ Kill(s)
        PROVE  FALSE
    <2>1. s = t
      BY DEF InSeries
    <2> USE DEF TypeOK
    <2>2. CASE Scheduled(s)
      BY <2>1, <2>2 DEF Scheduled, GoTo, Run
    <2>3. CASE Probe(s)
      BY <2>1, <2>3 DEF Probe, Run
    <2>4. CASE InsertResults(s)
      BY <2>1, <2>4 DEF InsertResults, GoTo, EndRun, Idle, Run
    <2>5. CASE WriteState(s)
      BY <2>1, <2>5 DEF WriteState, EndRun, Idle
    <2>6. CASE Kill(s)
      BY <2>1, <2>6 DEF Kill, EndRun, Idle
    <2> QED BY <1>2, <2>2, <2>3, <2>4, <2>5, <2>6
  <1>3. CASE UNCHANGED <<run, monitorState>>
    BY <1>3 DEF ReadIsCurrent
  <1>4. ASSUME NEW s \in Slots, SendWebhook(s) PROVE UNCHANGED <<run, monitorState>>
    BY <1>4 DEF SendWebhook, tables
  <1>5. EndpointChanges \/ CalmsDown \/ UNCHANGED vars => UNCHANGED <<run, monitorState>>
    BY DEF EndpointChanges, CalmsDown, vars, tables
  <1> QED BY <1>1, <1>2, <1>3, <1>4, <1>5 DEF Next, Invocation

-----------------------------------------------------------------------------
(* Alerts are justified *)

LEMMA CountsAppend ==
    ASSUME NEW row \in Rows, NEW h \in Histories, NEW ok \in BOOLEAN,
           CountsFailures(row, h)
    PROVE  CountsFailures(Advance(row, ok), Recent(Append(h, ok)))
  <1> DEFINE new == Advance(row, ok)
             r   == Recent(Append(h, ok))
  <1>1. /\ new.fails \in 0 .. AlertThreshold
        /\ row.fails \in 0 .. AlertThreshold
        /\ ok => new.fails = 0
        /\ ~ok => new.fails \in {row.fails, row.fails + 1}
    BY AdvanceType DEF Rows
  <1>2. \A k \in 1 .. row.fails : k <= Len(h) /\ ~h[Len(h) + 1 - k]
    BY DEF CountsFailures
  <1>3. Len(h) \in Nat
    BY DEF Histories
  <1>4. ASSUME NEW k \in 1 .. new.fails
        PROVE  k <= Len(r) /\ ~r[Len(r) + 1 - k]
    <2> HIDE DEF new
    <2>1. ~ok /\ k \in 1 .. AlertThreshold
      BY <1>1, <1>4, UptimeMonitorAssumption
    <2>2. k = 1 \/ k - 1 \in 1 .. row.fails
      BY <1>1, <1>4, <2>1, UptimeMonitorAssumption
    <2>3. k - 1 <= Len(h)
      BY <1>2, <1>3, <2>2
    <2>4. k <= Len(r) /\ r[Len(r) + 1 - k] = IF k = 1 THEN ok ELSE h[Len(h) + 1 - (k - 1)]
      BY <2>1, <2>3, RecentFromTheEnd
    <2> QED BY <1>2, <2>1, <2>2, <2>4
  <1> QED BY <1>4 DEF CountsFailures

\* In series, nothing is stored between the INSERT of a run and its evaluation.
LEMMA StoredStaysFirst ==
    ASSUME InSeries, TypeOK, StoredFirst, [Next]_vars
    PROVE  StoredFirst'
  <1> SUFFICES ASSUME NEW t \in Slots, run'[t].pc \in {"select", "batch"}, NEW m \in Monitors
               PROVE  EndsIn(probeResults'[m], run'[t].results[m] = "ok")
    BY DEF StoredFirst, EndsIn
  <1>1. ASSUME NEW s \in Slots, InsertResults(s)
        PROVE  EndsIn(probeResults'[m], run'[t].results[m] = "ok")
    <2>1. s = t
      BY DEF InSeries
    <2>2. CASE EndRun(s)
      BY <2>1, <2>2 DEF TypeOK, EndRun, Idle
    <2>3. CASE probeResults' = AppendResults(probeResults, run[s].results) /\ GoTo(s, "select")
      <3>1. run'[t].results = run[t].results
        BY <2>1, <2>3 DEF GoTo, TypeOK, Run
      <3> DEFINE ok == run[t].results[m] = "ok"
      <3>2. probeResults'[m] = Recent(Append(probeResults[m], ok))
        BY <2>1, <2>3 DEF AppendResults
      <3>3. probeResults[m] \in Histories /\ probeResults'[m] \in Histories
        BY NextType DEF TypeOK
      <3>4. Len(probeResults[m]) \in Nat /\ Len(probeResults'[m]) \in Nat
        BY <3>3 DEF Histories
      <3>5. 1 \in 1 .. AlertThreshold /\ 1 - 1 <= Len(probeResults[m])
        BY <3>4, UptimeMonitorAssumption
      <3>6. ok \in BOOLEAN
        OBVIOUS
      <3> HIDE DEF ok
      <3>7. /\ 1 <= Len(probeResults'[m])
            /\ probeResults'[m][Len(probeResults'[m]) + 1 - 1] = ok
        BY <3>2, <3>3, <3>5, <3>6, RecentFromTheEnd
      <3>8. probeResults'[m] # <<>> /\ Len(probeResults'[m]) + 1 - 1 = Len(probeResults'[m])
        BY <3>4, <3>7
      <3>9. EndsIn(probeResults'[m], ok)
        BY <3>7, <3>8 DEF EndsIn
      <3> QED BY <3>1, <3>9 DEF ok
    <2> QED BY <1>1, <2>2, <2>3 DEF InsertResults
  <1>2. CASE /\ probeResults' = probeResults /\ run'[t].results = run[t].results
             /\ run[t].pc \in {"select", "batch"}
    BY <1>2 DEF StoredFirst
  <1>3. ASSUME NEW s \in Slots, Scheduled(s) \/ Probe(s) \/ WriteState(s) \/ Kill(s)
        PROVE  FALSE
    <2>1. s = t
      BY DEF InSeries
    <2> USE DEF TypeOK
    <2>2. CASE Scheduled(s)
      BY <2>1, <2>2 DEF Scheduled, GoTo, Run
    <2>3. CASE Probe(s)
      BY <2>1, <2>3 DEF Probe, Run
    <2>4. CASE WriteState(s)
      BY <2>1, <2>4 DEF WriteState, EndRun, Idle
    <2>5. CASE Kill(s)
      BY <2>1, <2>5 DEF Kill, EndRun, Idle
    <2> QED BY <1>3, <2>2, <2>3, <2>4, <2>5
  <1>4. ASSUME NEW s \in Slots, SelectState(s)
        PROVE  /\ probeResults' = probeResults /\ run'[t].results = run[t].results
               /\ run[t].pc \in {"select", "batch"}
    <2>1. s = t /\ run[s].pc = "select" /\ probeResults' = probeResults
      BY <1>4 DEF InSeries, SelectState, tables
    <2>2. CASE run' = [run EXCEPT ![s].states = monitorState, ![s].pc = "batch"]
      BY <2>1, <2>2 DEF TypeOK, Run
    <2>3. CASE EndRun(s)
      BY <2>1, <2>3 DEF TypeOK, EndRun, Idle
    <2> QED BY <1>4, <2>1, <2>2, <2>3 DEF SelectState
  <1>5. ASSUME NEW s \in Slots, SendWebhook(s) PROVE UNCHANGED <<run, probeResults>>
    BY <1>5 DEF SendWebhook, tables
  <1>6. EndpointChanges \/ CalmsDown \/ UNCHANGED vars => UNCHANGED <<run, probeResults>>
    BY DEF EndpointChanges, CalmsDown, vars, tables
  <1> QED BY <1>1, <1>2, <1>3, <1>4, <1>5, <1>6 DEF Next, Invocation

LEMMA InitCount == Init => CountInv
  BY InitType, UptimeMonitorAssumption
     DEF Init, CountInv, ReadIsCurrent, StoredFirst, CountsFailures, DefaultRow, Idle

\* The rows and the histories a run writes.
LEMMA WriteCounts ==
    ASSUME CountInv, NEW s \in Slots, WriteState(s), monitorState' = NewState(s),
           counted' = AppendResults(counted, run[s].results), NEW m \in Monitors
    PROVE  CountsFailures(monitorState'[m], counted'[m])
  <1>1. run[s].states[m] = monitorState[m]
    BY DEF CountInv, ReadIsCurrent, WriteState
  <1>2. /\ monitorState[m] \in Rows /\ counted[m] \in Histories
        /\ CountsFailures(monitorState[m], counted[m])
    BY DEF CountInv, TypeOK
  <1>3. /\ (run[s].results[m] = "ok") \in BOOLEAN
        /\ monitorState'[m] = Advance(monitorState[m], run[s].results[m] = "ok")
    BY <1>1, NewStateRow DEF CountInv
  <1>4. counted'[m] = Recent(Append(counted[m], run[s].results[m] = "ok"))
    BY DEF AppendResults
  <1> QED BY <1>2, <1>3, <1>4, CountsAppend

LEMMA NextCount ==
    ASSUME InSeries, CountInv, [Next]_vars
    PROVE  CountInv'
  <1>1. TypeOK' /\ ReadIsCurrent' /\ StoredFirst'
    BY NextType, ReadStaysCurrent, StoredStaysFirst DEF CountInv
  <1>2. CASE UNCHANGED <<monitorState, counted>>
    BY <1>1, <1>2 DEF CountInv
  <1>3. ASSUME NEW s \in Slots, WriteState(s) PROVE CountInv'
    <2>1. CASE UNCHANGED <<monitorState, counted>>
      BY <1>2, <2>1
    <2>2. CASE monitorState' = NewState(s) /\ counted' = AppendResults(counted, run[s].results)
      BY <1>1, <1>3, <2>2, WriteCounts DEF CountInv
    <2> QED BY <1>3, <2>1, <2>2 DEF WriteState
  <1>4. ASSUME NEW s \in Slots, Scheduled(s) \/ Probe(s) \/ InsertResults(s) \/ SelectState(s)
                                  \/ SendWebhook(s) \/ Kill(s)
        PROVE  UNCHANGED <<monitorState, counted>>
    BY <1>4 DEF Scheduled, Probe, InsertResults, SelectState, SendWebhook, Kill, tables
  <1>5. EndpointChanges \/ CalmsDown \/ UNCHANGED vars => UNCHANGED <<monitorState, counted>>
    BY DEF EndpointChanges, CalmsDown, vars, tables
  <1> QED BY <1>2, <1>3, <1>4, <1>5 DEF Next, Invocation

LEMMA StepAlerts ==
    ASSUME InSeries, CountInv, [Next]_vars
    PROVE  \A p \in NewAlerts : /\ AllFailed(counted'[p.monitor])
                               /\ EndsIn(probeResults[p.monitor], FALSE)
  <1> SUFFICES ASSUME NEW p \in NewAlerts
               PROVE  /\ AllFailed(counted'[p.monitor])
                      /\ EndsIn(probeResults[p.monitor], FALSE)
    OBVIOUS
  <1>1. p \in outbox' /\ p \notin outbox /\ p.status = "unhealthy"
    BY DEF NewAlerts
  <1>2. PICK s \in Slots : WriteState(s)
    BY <1>1 DEF Next, Invocation, Scheduled, Probe, InsertResults, SelectState, SendWebhook,
                Kill, EndpointChanges, CalmsDown, vars
  <1>3. /\ p \in Alerts(s)
        /\ monitorState' = NewState(s)
        /\ counted' = AppendResults(counted, run[s].results)
    BY <1>1, <1>2 DEF WriteState
  <1> DEFINE m == p.monitor
  <1>4. /\ m \in Monitors
        /\ monitorState'[m].status = "unhealthy"
        /\ run[s].states[m].status # "unhealthy"
    BY <1>1, <1>3 DEF Alerts, Posts
  <1>5. monitorState'[m].fails = AlertThreshold /\ run[s].results[m] # "ok"
    <2>1. /\ run[s].states[m] \in Rows
          /\ (run[s].results[m] = "ok") \in BOOLEAN
          /\ monitorState'[m] = Advance(run[s].states[m], run[s].results[m] = "ok")
      BY <1>3, <1>4, NewStateRow DEF CountInv
    <2>2. /\ monitorState'[m].fails = AlertThreshold
          /\ run[s].results[m] = "ok" => monitorState'[m].fails = 0
      BY <1>4, <2>1, AdvanceType
    <2> QED BY <2>2, UptimeMonitorAssumption
  <1>6. CountsFailures(monitorState'[m], counted'[m])
    BY <1>2, <1>3, <1>4, WriteCounts
  <1>7. \A k \in 1 .. AlertThreshold : k <= Len(counted'[m]) /\ ~counted'[m][Len(counted'[m]) + 1 - k]
    BY <1>5, <1>6 DEF CountsFailures
  <1>8. Len(counted'[m]) \in Nat /\ Len(counted'[m]) <= AlertThreshold
    BY <1>4, NextType DEF CountInv, TypeOK, Histories
  <1>9. Len(counted'[m]) = AlertThreshold
    BY <1>7, <1>8, UptimeMonitorAssumption
  <1>10. ASSUME NEW i \in 1 .. AlertThreshold PROVE ~counted'[m][i]
    <2>1. AlertThreshold + 1 - i \in 1 .. AlertThreshold
          /\ AlertThreshold + 1 - (AlertThreshold + 1 - i) = i
      BY UptimeMonitorAssumption
    <2> QED BY <1>7, <1>9, <2>1
  <1>11. run[s].pc = "batch"
    BY <1>2 DEF WriteState
  <1>12. EndsIn(probeResults[m], run[s].results[m] = "ok")
    BY <1>4, <1>11 DEF CountInv, StoredFirst
  <1>13. (run[s].results[m] = "ok") = FALSE
    BY <1>5
  <1> QED BY <1>9, <1>10, <1>12, <1>13 DEF AllFailed

\* In series, whatever requests fail and whenever an invocation is killed, an
\* alert is raised only when the last AlertThreshold results that monitor_state
\* reflects all failed, the last of them stored in probe_results.
THEOREM AlertsAreJustified ==
    ASSUME InSeries
    PROVE  Spec => AlertJustified
  <1>1. Init => CountInv
    BY InitCount
  <1>2. CountInv /\ [Next]_vars => CountInv'
    BY NextCount
  <1>3. CountInv /\ [Next]_vars =>
            [\A p \in NewAlerts : /\ AllFailed(counted'[p.monitor])
                                 /\ EndsIn(probeResults[p.monitor], FALSE)]_vars
    BY StepAlerts
  <1> QED BY <1>1, <1>2, <1>3, PTL DEF Spec, AlertJustified

-----------------------------------------------------------------------------
(* The receiver of the webhooks is informed *)

CleanFailures == FaultKinds \cap {"lost", "webhook", "kill"} = {}

LEMMA InitPost == Init => PostInv
  BY InitType DEF Init, PostInv, ReadIsCurrent, DefaultRow, Idle

LEMMA NextPost ==
    ASSUME InSeries, CleanFailures, PostInv, [Next]_vars
    PROVE  PostInv'
  <1>1. TypeOK' /\ ReadIsCurrent'
    BY NextType, ReadStaysCurrent DEF PostInv
  <1> DEFINE Mark(p) == run[p.slot].pc = "idle" /\ p.status = monitorState[p.monitor].status
             Known(m) == \/ told[m] = monitorState[m].status
                         \/ \E p \in outbox : p.monitor = m
  <1>2. (\A p \in outbox : Mark(p)) /\ (\A m \in Monitors : Known(m)) /\ TypeOK
    BY DEF PostInv
  <1>3. \A f \in {"lost", "webhook", "kill"} : ~Fault(f)
    BY DEF CleanFailures, Fault
  <1>4. ASSUME NEW s \in Slots,
               Scheduled(s) \/ Probe(s) \/ InsertResults(s) \/ SelectState(s)
        PROVE  /\ UNCHANGED <<monitorState, outbox, told>>
               /\ outbox = {}
    <2>1. UNCHANGED <<monitorState, outbox, told>>
      BY <1>4 DEF Scheduled, Probe, InsertResults, SelectState, tables
    <2>2. \A p \in outbox : p.slot = s
      BY <1>2 DEF InSeries, TypeOK, Posts
    <2>3. run[s].pc # "idle" \/ PostsOf(s) = {}
      BY <1>4 DEF Scheduled, Probe, InsertResults, SelectState
    <2> QED BY <1>2, <2>1, <2>2, <2>3 DEF PostsOf
  <1>5. ASSUME NEW s \in Slots, WriteState(s)
        PROVE  (\A p \in outbox : Mark(p))' /\ (\A m \in Monitors : Known(m))'
    <2>1. outbox = {}
      BY <1>2, <1>5 DEF WriteState, InSeries, TypeOK, Posts
    <2>2. run[s].states = monitorState
      BY <1>5 DEF WriteState, PostInv, ReadIsCurrent
    <2>3. CASE UNCHANGED <<monitorState, outbox>>
      BY <1>2, <1>5, <2>1, <2>3 DEF WriteState
    <2>4. CASE monitorState' = NewState(s) /\ outbox' = outbox \cup Alerts(s)
      <3>1. ASSUME NEW p \in outbox' PROVE Mark(p)'
        <4>1. p \in Alerts(s)
          BY <2>1, <2>4
        <4>2. p.slot = s /\ p.status = monitorState'[p.monitor].status
          BY <2>4, <4>1 DEF Alerts
        <4>3. run' = [run EXCEPT ![s] = Idle] /\ run \in [Slots -> Run]
          BY <1>2, <1>5 DEF WriteState, EndRun, TypeOK
        <4>4. run'[s].pc = "idle"
          BY <4>3 DEF Idle
        <4> QED BY <4>2, <4>4
      <3>2. ASSUME NEW m \in Monitors PROVE Known(m)'
        <4>1. CASE monitorState'[m].status = monitorState[m].status
          BY <1>2, <1>5, <2>1, <4>1 DEF WriteState
        <4>2. CASE monitorState'[m].status # monitorState[m].status
          <5> DEFINE p == [slot |-> s, monitor |-> m, status |-> monitorState'[m].status]
          <5>1. monitorState'[m].status \in Statuses
            BY <1>1 DEF TypeOK, Rows
          <5>2. p \in Alerts(s)
            BY <2>2, <2>4, <4>2, <5>1 DEF Alerts, Posts
          <5> QED BY <2>4, <5>2
        <4> QED BY <4>1, <4>2
      <3> QED BY <3>1, <3>2
    <2> QED BY <1>3, <1>5, <2>3, <2>4 DEF WriteState
  <1>6. ASSUME NEW s \in Slots, SendWebhook(s)
        PROVE  (\A p \in outbox : Mark(p))' /\ (\A m \in Monitors : Known(m))'
    <2>1. PICK p \in outbox : /\ outbox' = outbox \ {p}
                             /\ told' = [told EXCEPT ![p.monitor] = p.status]
      BY <1>3, <1>6 DEF SendWebhook, PostsOf
    <2>2. UNCHANGED <<run, monitorState>>
      BY <1>6 DEF SendWebhook, tables
    <2>3. p.monitor \in Monitors /\ p.status = monitorState[p.monitor].status
      BY <1>2 DEF TypeOK, Posts
    <2>4. ASSUME NEW m \in Monitors PROVE Known(m)'
      <3>1. CASE m = p.monitor
        BY <1>2, <2>1, <2>2, <2>3, <3>1 DEF TypeOK
      <3>2. CASE m # p.monitor
        BY <1>2, <2>1, <2>2, <3>2 DEF TypeOK
      <3> QED BY <3>1, <3>2
    <2> QED BY <1>2, <2>1, <2>2, <2>4
  <1>7. ASSUME UNCHANGED <<run, monitorState, outbox, told>>
        PROVE  (\A p \in outbox : Mark(p))' /\ (\A m \in Monitors : Known(m))'
    BY <1>2, <1>7
  <1>8. EndpointChanges \/ CalmsDown \/ UNCHANGED vars
            => UNCHANGED <<run, monitorState, outbox, told>>
    BY DEF EndpointChanges, CalmsDown, vars, tables
  <1>9. ~\E s \in Slots : Kill(s)
    BY <1>3 DEF Kill
  <1>10. ASSUME NEW s \in Slots,
                Scheduled(s) \/ Probe(s) \/ InsertResults(s) \/ SelectState(s)
         PROVE  (\A p \in outbox : Mark(p))' /\ (\A m \in Monitors : Known(m))'
    BY <1>2, <1>4, <1>10
  <1>11. (\A p \in outbox : Mark(p))' /\ (\A m \in Monitors : Known(m))'
    BY <1>5, <1>6, <1>7, <1>8, <1>9, <1>10 DEF Next, Invocation
  <1> QED BY <1>1, <1>11 DEF PostInv

\* In series and as long as failures are clean, the receiver of the webhooks
\* knows every recorded status whenever no invocation is in progress.
THEOREM ReceiverIsInformed ==
    ASSUME InSeries, CleanFailures
    PROVE  Spec => []Informed
  <1>1. Init => PostInv
    BY InitPost
  <1>2. PostInv /\ [Next]_vars => PostInv'
    BY NextPost
  <1>3. PostInv => Informed
    BY DEF PostInv, Informed, Quiet
  <1> QED BY <1>1, <1>2, <1>3, PTL DEF Spec

-----------------------------------------------------------------------------
(* The composition: a behaviour of WorkersMC is one of each of its parts, so *)
(* that what is proved of a site and of images holds of it.                *)

WorkersStep == InMonitor(Next) \/ InSite(Site!Next) \/ InImages(Nix!Next)

LEMMA SiteBehaves == MCSpec => Site!Spec
  <1>1. MCInit => Site!Init
    BY DEF MCInit
  <1>2. [WorkersStep]_all => [Site!Next]_(Site!vars)
    BY DEF WorkersStep, InMonitor, InSite, InImages, all, siteVars, Site!vars, Site!deployed
  <1> QED BY <1>1, <1>2, PTL DEF MCSpec, WorkersStep, Site!Spec

LEMMA ImagesBehave == MCSpec => Nix!Spec
  <1>1. MCInit => Nix!Init
    BY DEF MCInit
  <1>2. [WorkersStep]_all => [Nix!Next]_(Nix!vars)
    BY DEF WorkersStep, InMonitor, InSite, InImages, all, nixVars,
           Nix!vars, Nix!recorded, Nix!remote
  <1> QED BY <1>1, <1>2, PTL DEF MCSpec, WorkersStep, Nix!Spec

\* A request between two deployments is answered with the file as the program
\* lists it, where the uploads come before the Worker and versions are never used
\* again, or nothing is cached (worker-site.ts).
THEOREM SiteServesFresh == MCSpec => []SiteFreshWhenOrdered
  BY SiteBehaves, SiteSettings, Site!FreshAlways, PTL DEF SiteFreshWhenOrdered

\* What is added to a site that only grows is visible.
THEOREM SiteShowsWhatIsAdded == MCSpec => []SiteAddedIsVisible
  BY SiteBehaves, SiteSettings, Site!AddedIsVisibleAlways, PTL DEF SiteAddedIsVisible

\* The images of a push group upload the base layer they share once.
THEOREM ImagesShareTheirBase == MCSpec => []BaseUploadedOnce
  BY ImagesBehave, ImagePrograms, Nix!BaseUploadedOnceAlways, PTL DEF BaseUploadedOnce

\* A run that is through has pushed what its checkout holds.
THEOREM ImagesFollowTheTree == MCSpec => []ImageOfTree
  BY ImagesBehave, ImagePrograms, Nix!ImageOfTreeAlways, PTL DEF ImageOfTree
=============================================================================
