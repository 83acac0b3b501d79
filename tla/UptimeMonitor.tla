--------------------------- MODULE UptimeMonitor ---------------------------
(***************************************************************************)
(* The generated uptime-monitor Worker (packages/sector7/monitor/          *)
(* monitor-script.ts): every cron invocation probes each endpoint, appends *)
(* to D1's probe_results, reads monitor_state in one SELECT, advances each *)
(* row, writes all rows in one batch, and posts a webhook per transition.  *)
(*                                                                         *)
(* Actors: the invocations in flight (a slot each), the endpoints, and the *)
(* webhook posts an invocation leaves to ctx.waitUntil.  One slot is the   *)
(* serial execution the design documents assume, two let invocations       *)
(* overlap, which nothing in the Worker prevents.                          *)
(*                                                                         *)
(* Abstractions: the two counters stop at their thresholds, the only value *)
(* they are compared with; a missing monitor_state row is the default row; *)
(* of a table only the last AlertThreshold results of a monitor are kept;  *)
(* timestamps, latency and payload text are left out.                      *)
(***************************************************************************)
EXTENDS Integers, Sequences, FiniteSets

CONSTANTS
    Slots,             \* how many invocations may be in flight
    NumMonitors,
    AlertThreshold, RecoveryThreshold,
    BodyChecked,       \* monitors with an expectedBody and method GET
    TimeLimited,       \* monitors with a timeoutMs
    MaxBoundParams,    \* how many parameters D1 binds in one statement
    FaultKinds         \* "insert" "select" "batch" "lost" "webhook" "kill"

Monitors == 1 .. NumMonitors

ASSUME UptimeMonitorAssumption ==
    /\ NumMonitors \in Nat \ {0}
    /\ AlertThreshold \in Nat \ {0} /\ RecoveryThreshold \in Nat \ {0}
    /\ MaxBoundParams \in Nat
    /\ BodyChecked \subseteq Monitors /\ TimeLimited \subseteq Monitors
    /\ FaultKinds \subseteq {"insert", "select", "batch", "lost", "webhook", "kill"}

VARIABLES
    answer,            \* what each endpoint answers now
    calm,              \* endpoints change no more, nothing fails any more
    run,               \* the invocation in each slot
    probeResults,      \* D1 probe_results
    monitorState,      \* D1 monitor_state
    outbox,            \* posts an invocation has left to ctx.waitUntil
    told,              \* the last status the webhook receiver heard
    counted            \* the results monitor_state reflects, for the properties

tables  == <<probeResults, monitorState, counted>>
world   == <<answer, calm>>
vars    == <<world, run, tables, outbox, told>>

-----------------------------------------------------------------------------
(* One monitor's row *)

Answers  == {"good", "badStatus", "badBody", "slow", "unreachable"}
Statuses == {"healthy", "unhealthy"}

Rows == [fails : 0 .. AlertThreshold, oks : 0 .. RecoveryThreshold, status : Statuses]

DefaultRow == [fails |-> 0, oks |-> 0, status |-> "healthy"]

\* The body is looked at for a GET with an expectedBody, a slow answer counts
\* unless a timeout aborts it, and every exception is a failed probe.
ProbeOk(m, a) ==
    \/ a = "good"
    \/ a = "badBody" /\ m \notin BodyChecked
    \/ a = "slow" /\ m \notin TimeLimited

Up(count, threshold) == IF count < threshold THEN count + 1 ELSE count

\* Mutant: a failure leaves the success counter alone.
Count_KeepsOks(row, ok) ==
    IF ok THEN [row EXCEPT !.fails = 0, !.oks = Up(@, RecoveryThreshold)]
          ELSE [row EXCEPT !.fails = Up(@, AlertThreshold)]

\* Mutant: a success leaves the failure counter alone.
Count_KeepsFails(row, ok) ==
    IF ok THEN [row EXCEPT !.oks = Up(@, RecoveryThreshold)]
          ELSE [row EXCEPT !.fails = Up(@, AlertThreshold), !.oks = 0]

Count(row, ok) ==
    IF ok THEN [row EXCEPT !.fails = 0, !.oks = Up(@, RecoveryThreshold)]
          ELSE [row EXCEPT !.fails = Up(@, AlertThreshold), !.oks = 0]

\* Mutant: nothing recovers.
Transition_NoRecovery(row) ==
    IF row.status = "healthy" /\ row.fails >= AlertThreshold THEN "unhealthy" ELSE row.status

Transition(row) ==
    CASE row.status = "healthy" /\ row.fails >= AlertThreshold -> "unhealthy"
      [] row.status = "unhealthy" /\ row.oks >= RecoveryThreshold -> "healthy"
      [] OTHER -> row.status

Advance(row, ok) ==
    LET counts == Count(row, ok) IN [counts EXCEPT !.status = Transition(counts)]

-----------------------------------------------------------------------------
(* The state *)

\* The last AlertThreshold members of a history.
Recent(history) ==
    IF Len(history) <= AlertThreshold THEN history ELSE Tail(history)

Histories == {h \in Seq(BOOLEAN) : Len(h) <= AlertThreshold}

AppendResults(table, results) ==
    [m \in Monitors |-> Recent(Append(table[m], results[m] = "ok"))]

Posts == [slot : Slots, monitor : Monitors, status : Statuses]

\* "idle" stands for a slot without invocation.
Run == [pc      : {"idle", "probe", "insert", "select", "batch"},
        results : [Monitors -> {"none", "ok", "fail"}],
        states  : [Monitors -> Rows]]

Idle == [pc |-> "idle", results |-> [m \in Monitors |-> "none"],
         states |-> [m \in Monitors |-> DefaultRow]]

\* A row never counts failures and successes at once.
TypeOK ==
    /\ answer \in [Monitors -> Answers]
    /\ calm \in BOOLEAN
    /\ run \in [Slots -> Run]
    /\ probeResults \in [Monitors -> Histories]
    /\ monitorState \in [Monitors -> Rows]
    /\ \A m \in Monitors : monitorState[m].fails = 0 \/ monitorState[m].oks = 0
    /\ outbox \subseteq Posts
    /\ told \in [Monitors -> Statuses]
    /\ counted \in [Monitors -> Histories]

Init ==
    /\ answer = [m \in Monitors |-> "good"]
    /\ calm = FALSE
    /\ run = [s \in Slots |-> Idle]
    /\ probeResults = [m \in Monitors |-> <<>>]
    /\ monitorState = [m \in Monitors |-> DefaultRow]
    /\ outbox = {}
    /\ told = [m \in Monitors |-> "healthy"]
    /\ counted = [m \in Monitors |-> <<>>]

-----------------------------------------------------------------------------
(* One invocation *)

PostsOf(s) == {p \in outbox : p.slot = s}

Fault(f) == ~calm /\ f \in FaultKinds

EndRun(s)   == run' = [run EXCEPT ![s] = Idle]
GoTo(s, pc) == run' = [run EXCEPT ![s].pc = pc]

\* A cron tick; waitUntil keeps the slot of the last invocation busy.
Scheduled(s) ==
    /\ run[s].pc = "idle"
    /\ PostsOf(s) = {}
    /\ GoTo(s, "probe")
    /\ UNCHANGED <<world, tables, outbox, told>>

\* MONITORS are probed one after the other.
Probe(s) ==
    /\ run[s].pc = "probe"
    /\ \E m \in Monitors :
          /\ run[s].results[m] = "none"
          /\ \A n \in 1 .. m - 1 : run[s].results[n] # "none"
          /\ run' = [run EXCEPT
                ![s].results[m] = IF ProbeOk(m, answer[m]) THEN "ok" ELSE "fail",
                ![s].pc = IF m = NumMonitors THEN "insert" ELSE "probe"]
    /\ UNCHANGED <<world, tables, outbox, told>>

\* One statement binds the eight columns of every result, or one id of each.
InsertFits == 8 * NumMonitors <= MaxBoundParams
SelectFits == NumMonitors <= MaxBoundParams

\* A failed INSERT throws out of the handler: no row of this run is evaluated.
InsertResults(s) ==
    /\ run[s].pc = "insert"
    /\ \/ /\ InsertFits
          /\ probeResults' = AppendResults(probeResults, run[s].results)
          /\ GoTo(s, "select") \/ (Fault("lost") /\ EndRun(s))
       \/ /\ Fault("insert") \/ ~InsertFits
          /\ EndRun(s) /\ UNCHANGED probeResults
    /\ UNCHANGED <<world, monitorState, counted, outbox, told>>

\* Mutant: a failed read falls back to the default rows.
SelectState_Defaults(s) ==
    /\ run[s].pc = "select"
    /\ \/ SelectFits /\ run' = [run EXCEPT ![s].states = monitorState, ![s].pc = "batch"]
       \/ Fault("select") /\ GoTo(s, "batch")
    /\ UNCHANGED <<world, tables, outbox, told>>

\* A failed read skips the run.
SelectState(s) ==
    /\ run[s].pc = "select"
    /\ \/ SelectFits /\ run' = [run EXCEPT ![s].states = monitorState, ![s].pc = "batch"]
       \/ /\ Fault("select") \/ ~SelectFits
          /\ EndRun(s)
    /\ UNCHANGED <<world, tables, outbox, told>>

NewState(s) ==
    [m \in Monitors |-> Advance(run[s].states[m], run[s].results[m] = "ok")]

Alerts(s) ==
    {p \in Posts : /\ p.slot = s
                   /\ p.status = NewState(s)[p.monitor].status
                   /\ p.status # run[s].states[p.monitor].status}

\* All rows in one transaction; webhooks only after the write is known to have
\* succeeded.
WriteState(s) ==
    /\ run[s].pc = "batch"
    /\ EndRun(s)
    /\ \/ /\ monitorState' = NewState(s)
          /\ counted' = AppendResults(counted, run[s].results)
          /\ \/ outbox' = outbox \cup Alerts(s)
             \/ Fault("lost") /\ UNCHANGED outbox
       \/ Fault("batch") /\ UNCHANGED <<monitorState, counted, outbox>>
    /\ UNCHANGED <<world, probeResults, told>>

\* A failed post is logged and forgotten.
SendWebhook(s) ==
    /\ \E p \in PostsOf(s) :
          /\ outbox' = outbox \ {p}
          /\ \/ told' = [told EXCEPT ![p.monitor] = p.status]
             \/ Fault("webhook") /\ UNCHANGED told
    /\ UNCHANGED <<world, run, tables>>

\* The runtime ends an invocation and what it left to waitUntil.
Kill(s) ==
    /\ Fault("kill")
    /\ run[s].pc # "idle" \/ PostsOf(s) # {}
    /\ EndRun(s)
    /\ outbox' = outbox \ PostsOf(s)
    /\ UNCHANGED <<world, tables, told>>

-----------------------------------------------------------------------------

EndpointChanges ==
    /\ ~calm
    /\ \E m \in Monitors : \E a \in Answers \ {answer[m]} : answer' = [answer EXCEPT ![m] = a]
    /\ UNCHANGED <<calm, run, tables, outbox, told>>

CalmsDown ==
    /\ ~calm
    /\ calm' = TRUE
    /\ UNCHANGED <<answer, run, tables, outbox, told>>

Invocation(s) ==
    \/ Scheduled(s) \/ Probe(s) \/ InsertResults(s) \/ SelectState(s) \/ WriteState(s)
    \/ SendWebhook(s)

Next ==
    \/ \E s \in Slots : Invocation(s) \/ Kill(s)
    \/ EndpointChanges \/ CalmsDown

Spec == Init /\ [][Next]_vars

\* The cron trigger keeps firing and every invocation proceeds.
FairSpec == Spec /\ \A s \in Slots : WF_vars(Invocation(s))

-----------------------------------------------------------------------------
(* Properties *)

AllFailed(history) ==
    Len(history) = AlertThreshold /\ \A i \in 1 .. AlertThreshold : ~history[i]

EndsIn(history, ok) == history # <<>> /\ history[Len(history)] = ok

NewAlerts == {p \in outbox' \ outbox : p.status = "unhealthy"}

\* An alert is raised only when the last AlertThreshold results that
\* monitor_state reflects all failed, whatever fails in between, and the failure
\* that raises it is stored.  Invocations in series.
AlertJustified ==
    [][ \A p \in NewAlerts : /\ AllFailed(counted'[p.monitor])
                            /\ EndsIn(probeResults[p.monitor], FALSE) ]_vars

Quiet == outbox = {} /\ \A s \in Slots : run[s].pc = "idle"

\* Between invocations the receiver of the webhooks knows the recorded status of
\* every monitor: each transition was posted.  As long as failures are clean (no
\* lost replies, no dropped posts, no killed invocation) and in series.
Informed ==
    Quiet => \A m \in Monitors : told[m] = monitorState[m].status

Verdict(m) == IF ProbeOk(m, answer[m]) THEN "healthy" ELSE "unhealthy"

\* Once the endpoints stop changing and nothing fails any more, every recorded
\* status becomes the right one and stays right, also when invocations overlap.
Detects ==
    calm ~> [](\A m \in Monitors : monitorState[m].status = Verdict(m))
-----------------------------------------------------------------------------
(* Invariants for the proofs *)

\* Every failure a row counts is among the last results of its monitor.
CountsFailures(row, history) ==
    \A k \in 1 .. row.fails : k <= Len(history) /\ ~history[Len(history) + 1 - k]

\* A run that is about to write holds what it read, for one run at a time that
\* is still what the table holds.
ReadIsCurrent == \A s \in Slots : run[s].pc = "batch" => run[s].states = monitorState

\* A run is evaluated after its results were stored.
StoredFirst ==
    \A s \in Slots : run[s].pc \in {"select", "batch"} =>
        \A m \in Monitors : EndsIn(probeResults[m], run[s].results[m] = "ok")

CountInv ==
    /\ TypeOK
    /\ ReadIsCurrent
    /\ StoredFirst
    /\ \A m \in Monitors : CountsFailures(monitorState[m], counted[m])

\* The receiver knows the recorded status, or a post that tells it is left; a
\* run does not start before the posts of the last one are out.
PostInv ==
    /\ TypeOK
    /\ ReadIsCurrent
    /\ \A p \in outbox : /\ run[p.slot].pc = "idle"
                        /\ p.status = monitorState[p.monitor].status
    /\ \A m \in Monitors :
          \/ told[m] = monitorState[m].status
          \/ \E p \in outbox : p.monitor = m
=============================================================================
