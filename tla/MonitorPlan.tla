----------------------------- MODULE MonitorPlan -----------------------------
(***************************************************************************)
(* The UptimeMonitor component (monitor/uptime-monitor.ts) as goals for the *)
(* engine: the database, the D1Query that applies its schema               *)
(* (d1/d1-query.ts), the Worker and its cron trigger.  What the Worker does *)
(* is UptimeMonitor.                                                       *)
(*                                                                         *)
(* Arguments: name, monitors (ids), d1DatabaseId, createD1Database,        *)
(* d1DatabaseName, d1Schema, apiToken, enableReadApi, webhookUrl.  A name  *)
(* is a sequence of words.                                                 *)
(***************************************************************************)
EXTENDS Resources, Naturals, SequencesExt

CONSTANTS
    Unset            \* an optional argument that is not given

MonitorAccepts(args) ==
    /\ args.monitors # <<>>
    /\ \A i, j \in DOMAIN args.monitors : args.monitors[i] = args.monitors[j] => i = j
    /\ args.d1DatabaseId = Unset => args.createD1Database

\* A bug: a name that ends in it already gets the suffix again.
DbName_Appended(args) ==
    Append(IF args.d1DatabaseName # Unset THEN args.d1DatabaseName ELSE args.name, "probe-results")

DbName(args) ==
    LET name == IF args.d1DatabaseName # Unset THEN args.d1DatabaseName ELSE args.name
    IN  IF Last(name) = "probe-results" THEN name ELSE Append(name, "probe-results")

CreatesDb(args) == args.d1DatabaseId = Unset
DbRefs(args) == IF CreatesDb(args) THEN {<<"db">>} ELSE {}

\* Other SQL is another query, and the old one goes first (d1/query.go:91); a
\* rotated token executes it again in place.
D1Query(args) ==
    Goal([sql |-> args.d1Schema, database |-> args.d1DatabaseId], args.apiToken, FALSE,
         DbRefs(args), {})

\* A bug: the Worker waits for the database only.
MonitorWorker_Unordered(args) ==
    InPlace([monitors |-> args.monitors, api |-> args.enableReadApi, webhook |-> args.webhookUrl,
             database |-> args.d1DatabaseId], DbRefs(args), {})

MonitorWorker(args) ==
    InPlace([monitors |-> args.monitors, api |-> args.enableReadApi, webhook |-> args.webhookUrl,
             database |-> args.d1DatabaseId], DbRefs(args), {<<"schema">>})

MonitorPlanOf(args) ==
    AllGoals(<< When(CreatesDb(args), New(<<"db">>, GivenName(DbName(args)))),
                New(<<"schema">>, D1Query(args)),
                New(<<"worker">>, MonitorWorker(args)),
                New(<<"cron">>, InPlace("every minute", {<<"worker">>}, {})) >>)
=============================================================================
