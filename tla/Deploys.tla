------------------------------ MODULE Deploys ------------------------------
(***************************************************************************)
(* The components of packages/sector7 under the engine that deploys them:  *)
(* a program is one component with its arguments, the operator edits the   *)
(* arguments between runs, and any run may break off.                      *)
(***************************************************************************)
EXTENDS DeployEngine, LiteLLMProxy

CONSTANTS
    PlatformDns, DnsChar, KeyChars, EnvVarNaming,
    Families,        \* the components that are deployed
    Args,            \* family -> the arguments it may be given
    Growing          \* families whose arguments only change to a later one

T == INSTANCE Tenancy
S == INSTANCE SitePlan
M == INSTANCE MonitorPlan
R == INSTANCE OpSecretRefs

ProgramsOfAll == UNION {{<<f, n>> : n \in DOMAIN Args[f]} : f \in Families}
ArgsOf(p) == Args[p[1]][p[2]]

\* What the program of a proxy makes of its teams and of its references.
ProxyArgs(args) ==
    [args EXCEPT !.modelGroups = IF args.teams = Unset THEN @
                                 ELSE BuildLiteLLMTeamScopedModelGroups(args.teams),
                 !.extraSecretRefEnv = Over(@, R!MergeSecretRefEnvs(args.opCalls))]

ProxyAccepts(args) ==
    /\ args.teams # Unset => TeamsAccepted(args.teams)
    /\ R!SecretRefsAccepted(args.opCalls)
    /\ LiteLLMAccepts(ProxyArgs(args))

AcceptsOf(p) ==
    CASE p[1] = "litellm" -> ProxyAccepts(ArgsOf(p))
      [] p[1] = "tenant"  -> T!TenantAccepts(ArgsOf(p))
      [] p[1] = "site"    -> S!WorkerSiteAccepts(ArgsOf(p))
      [] p[1] = "monitor" -> M!MonitorAccepts(ArgsOf(p))

PlanOf(p) ==
    CASE p[1] = "litellm" -> AllGoals(<< LiteLLMPlan(ProxyArgs(ArgsOf(p))),
                                         R!SecretRefGoals(ArgsOf(p).opCalls) >>)
      [] p[1] = "tenant"  -> T!TenantPlan(ArgsOf(p))
      [] p[1] = "site"    -> S!SitePlanOf(ArgsOf(p))
      [] p[1] = "monitor" -> M!MonitorPlanOf(ArgsOf(p))

PlansOfAll == [p \in {q \in ProgramsOfAll : AcceptsOf(q)} |-> PlanOf(p)]

\* An edit leaves alone who makes the Namespace of a proxy: with the Namespace
\* everything in it would go, and the state file would not know.
KeepsNamespace(p, q) ==
    p[1] = "litellm" => ArgsOf(p).createNamespace = ArgsOf(q).createNamespace

FollowsOfAll ==
    {e \in ProgramsOfAll \X ProgramsOfAll :
        /\ e[1][1] = e[2][1] /\ e[1] # e[2]
        /\ KeepsNamespace(e[1], e[2])
        /\ e[1][1] \in Growing => e[1][2] < e[2][2]}

\* Constants of the engine, so that TLC computes them once.
ASSUME TablesAssumption ==
    Programs = ProgramsOfAll /\ Plans = PlansOfAll /\ Follows = FollowsOfAll

\* The arguments are listed, the later ones later.
ASSUME ArgsAssumption == \A f \in Growing : f \in Families => DOMAIN Args[f] \subseteq Nat

\* A name is a sequence of words, also when it is empty.
IsName(name) == name \in Seq(STRING) \ {<<>>}

ASSUME NamesAssumption ==
    \A p \in {q \in ProgramsOfAll : q[1] = "monitor"} :
        /\ IsName(ArgsOf(p).name)
        /\ ArgsOf(p).d1DatabaseName # Unset => IsName(ArgsOf(p).d1DatabaseName)

\* access-gate.ts:20
ASSUME AccessAssumption ==
    /\ Unset # "idp"
    /\ \A p \in {q \in ProgramsOfAll : q[1] = "site"} : \A path \in ToSet(ArgsOf(p).paths) :
          path.access \in {"bypass", "public", "github-org"}

\* Keys are told apart by the provider they are of, and every provider has a
\* name for its variable.
ASSUME ProxyAssumption ==
    \A q \in {p \in DOMAIN Plans : p[1] = "litellm"} :
        LET args == ProxyArgs(ArgsOf(q))
        IN  /\ \A p \in WithKey(args) : args.providers[p].apiKey.of = p
            /\ \A p \in DOMAIN args.providers : UpperSnake[p] # Unset
            /\ "host" \in DOMAIN args.databaseUrl
            /\ args.cloudSql # Unset => SidecarContainer(args) # Unset

IsList(s) == s \in Seq(ToSet(s))

\* The lists of a proxy are lists, and the Secrets of its references have names.
ASSUME ListsAssumption ==
    \A q \in {p \in DOMAIN Plans : p[1] = "litellm"} :
        LET args   == ArgsOf(q)
            groups == ProxyArgs(args).modelGroups
        IN  /\ {"deployments", "modelGroups", "extraSecretRefEnv"} \subseteq DOMAIN args
            /\ IsList(groups)
            /\ \A g \in ToSet(groups) : IsList(g.deploymentIds) /\ IsList(g.fallbacks)
            /\ args.teams # Unset =>
                  IsList(args.teams) /\ \A t \in ToSet(args.teams) : IsList(t.capabilities)
            /\ \A call \in ToSet(args.opCalls) : \A i \in R!Referring(call) :
                  IsList(i.ref.field) /\ R!SecretName(call, i) # Unset

Deploying(f) == program[1] = f
Exists(i) == i \in DOMAIN live

(***************************************************************************)
(* LiteLLM.                                                                *)
(***************************************************************************)

\* What the pods of the Deployment read under the name of a resource.
Pod == Now(<<"deployment">>)
Reads(i) == \E r \in Pod.refs : r[1] = i
Content(i) == LET r == CHOOSE x \in Pod.refs : x[1] = i IN live[i][r[2]].data

PodsExist == Deploying("litellm") /\ Exists(<<"deployment">>)

\* The pods read the configuration that was generated with their environment:
\* each model finds the key of its own provider, however often keys are
\* rotated and runs break off.
KeysReachTheirModels ==
    PodsExist =>
        /\ Reads(<<"config">>) /\ Reads(<<"providers">>)
        /\ \A m \in Content(<<"config">>).modelList :
              LET secret == Content(<<"providers">>)
                  ours   == {k \in DOMAIN secret : secret[k].of = m.provider}
                  read   == Pod.data.env[m.apiKey]
              IN  IF ours # {}
                  THEN /\ m.apiKey \in DOMAIN Pod.data.env
                       /\ read.secret = <<"providers">> /\ read.key \in ours
                  ELSE m.apiKey \in DOMAIN Pod.data.env => read.secret # <<"providers">>

\* The proxy beside the container and the url in the runtime Secret agree.
DatabaseRouted ==
    PodsExist =>
        /\ Reads(<<"runtime">>)
        /\ (Pod.data.sidecar # Unset) <=> (Content(<<"runtime">>)["DATABASE_URL"].host = Local)

\* The Namespace the component made is not taken off: a run that goes without
\* createNamespace deletes it, and Kubernetes the Deployment in it.
NamespaceStays == Exists(<<"ns">>) => <<"ns">> \in DOMAIN plan

\* A Deployment is rolled and never taken down (litellm-proxy.ts:428), with two
\* exceptions: one of the Secrets it reads has a fixed name, or the run takes the
\* Namespace away (litellm-proxy.ts:375).
Rolled ==
    [][Deploying("litellm") /\ Exists(<<"deployment">>) /\ ~Exists(<<"credentials">>) /\ NamespaceStays
       => (Exists(<<"deployment">>))']_vars

\* The name under which clients ask for a group, and LiteLLM looks up its
\* fallbacks.
ClientNames(args, g) ==
    {Either(m.teamPublicModelName, m.modelName) :
        m \in {ModelEntry(args, g, id) : id \in ToSet(g.deploymentIds)}}

\* Each group falls back to the groups it declares, under the names the
\* clients use, and to nothing else (config.ts:117).
FallbacksFire ==
    Deploying("litellm") /\ phase = "done" =>
        LET args   == ProxyArgs(ArgsOf(program))
            groups == ToSet(args.modelGroups)
            map    == Now(<<"config">>).data.fallbacks
        IN  \A g \in groups : \A name \in ClientNames(args, g) :
                IF g.fallbacks = <<>> THEN name \notin DOMAIN map
                ELSE /\ name \in DOMAIN map
                     /\ Len(map[name]) = Len(g.fallbacks)
                     /\ \A f \in DOMAIN g.fallbacks : \A h \in groups :
                            h.name = g.fallbacks[f] => map[name][f] \in ClientNames(args, h)

\* A capability of a team is served by its own deployments and by no others,
\* under the name its clients use (team-plan.ts:45).
CapabilitiesServed ==
    Deploying("litellm") /\ phase = "done" /\ ArgsOf(program).teams # Unset =>
        \A team \in ToSet(ArgsOf(program).teams) : \A c \in ToSet(team.capabilities) :
            LET entries == {m \in Now(<<"config">>).data.modelList :
                              m.modelName = ToInternalModelGroupName(team.id, c.name)}
            IN  /\ {m.provider : m \in entries}
                     = {DeploymentById(ArgsOf(program), id).provider : id \in ToSet(c.deploymentIds)}
                /\ \A m \in entries : m.teamPublicModelName = c.name

\* External: under which key the operator in the cluster syncs a field, as the
\* comment at op-secret-helpers.ts:91 says.  What is not allowed is cut off at
\* both ends, as far as it goes, and "-" in between.
SyncedAs(label, key) ==
    \E before, after \in 0 .. Len(label) :
        /\ before + Len(key) + after = Len(label)
        /\ \A k \in DOMAIN label :
              k <= before \/ k > before + Len(key) => label[k] \notin KeyChars
        /\ label[before + 1] \in KeyChars /\ label[before + Len(key)] \in KeyChars
        /\ \A k \in DOMAIN key :
              key[k] = IF label[before + k] \in KeyChars THEN label[before + k] ELSE "-"

\* A variable made from a reference to 1Password reads the field it refers to,
\* through the one OnePasswordItem of its Secret (op-secret-helpers.ts:310).
ReferencesRead ==
    Deploying("litellm") /\ phase = "done" =>
        \A call \in ToSet(ArgsOf(program).opCalls) : \A i \in R!Referring(call) :
            LET read  == Pod.data.env[EnvVarNaming[i.key]]
                items == {o \in Objects : Len(o[1]) = 2 /\ Object(o).key = read.secret}
            IN  /\ read.key # <<>> /\ SyncedAs(i.ref.field, read.key)
                /\ {Object(o).data : o \in items} = {<<i.ref.vault, i.ref.item>>}
                /\ Cardinality(items) = 1

(***************************************************************************)
(* Tenants.                                                                *)
(***************************************************************************)

LiveLimits(ns) ==
    IF Exists(<<"limits", ns>>) THEN Now(<<"limits", ns>>).data ELSE Unset

\* A quota never stops the pods of its namespace from being admitted: what it
\* forces them to declare has a default as long as it is there (tenant.ts:185).
QuotaAdmits ==
    Deploying("tenant") =>
        \A n \in {i \in DOMAIN live : i[1] = "quota"} :
            T!Defaulted(LiveLimits(n[2]), Now(n).data)

GrantsOf(p) ==
    IF p[1] # "tenant" THEN {}
    ELSE ToSet(ArgsOf(p).grants)

Granted(grant) ==
    \E o \in Objects : o[1][1] = "grant" /\ Object(o).key = grant

\* A grant that stays declared is not taken back, however the list is
\* reordered (tenant.ts:231).
GrantsStay ==
    Deploying("tenant") =>
        \A g \in GrantsOf(program) \cap GrantsOf(program') : Granted(g) => Granted(g)'

\* A policy that drops traffic lets through the name service, the tenant
\* itself and the services whose contract it holds; one that observes drops
\* nothing, on layer 7 either (policies.ts:26).
Connected ==
    Deploying("tenant") /\ phase = "done" =>
        \A ns \in T!TenantNamespaces(ArgsOf(program)) :
            Exists(<<"netpol", ns>>) =>
                LET policy == Now(<<"netpol", ns>>).data
                IN  IF ~policy.deny THEN ~policy.l7
                    ELSE /\ T!AllowDns \subseteq policy.egress
                         /\ T!TenantNamespaces(ArgsOf(program))
                                \subseteq policy.peers \cap policy.ingress
                         /\ \A s \in T!ResolveConsumes(ArgsOf(program)) :
                                T!AllowPlatformService(s) \subseteq policy.egress

(***************************************************************************)
(* Sites and monitors.                                                     *)
(***************************************************************************)

IsAsset(i) == i[1] = "asset"

\* No object is deleted whose key is still to be served from that bucket, however
\* the files are reordered (r2object.ts:307).
ObjectsStay ==
    Deploying("site") =>
        \A o \in Objects \ (Objects)' :
            IsAsset(o[1]) =>
                Object(o).key \notin {plan[i].key : i \in {j \in DOMAIN plan : IsAsset(j)}}

Purges == IF Exists(<<"purge">>) THEN {Now(<<"purge">>)} ELSE {}

\* The cache is purged when every object is what this run makes it
\* (r2object.ts:443).
PurgeLast ==
    Deploying("site") /\ ~(Purges' \subseteq Purges) =>
        \A i \in {j \in DOMAIN plan : IsAsset(j)} : Exists(i) /\ Now(i) = Wanted(i)

\* External: whom Access lets through.  "bypass" lets everyone through without a
\* login, whomever the policy names (access-gate.ts:16).
Admits(app) ==
    IF app.decision = "bypass" THEN [login |-> FALSE, whom |-> {"everyone"}]
    ELSE [login |-> TRUE, whom |-> {i.organization : i \in app.includes}]

\* Whom a path is for.
MeantFor(args, path) ==
    [login |-> path.access # "bypass",
     whom  |-> IF path.access = "github-org" THEN args.githubOrganizations ELSE {"everyone"}]

\* When a run got through, every path of every domain has its own application,
\* that lets through whom the path is for, organizations by way of an identity
\* provider (access-gate.ts:232).
Gated ==
    Deploying("site") /\ phase = "done" =>
        LET args == ArgsOf(program)
        IN  \A d \in ToSet(args.domains) : \A p \in ToSet(args.paths) :
                LET apps == {o \in Objects : /\ o[1][1] = "app"
                                               /\ Object(o).data.domain = d
                                               /\ Object(o).data.pattern = p.pattern}
                IN  /\ Cardinality(apps) = 1
                    /\ \A o \in apps :
                          /\ Admits(Object(o).data) = MeantFor(args, p)
                          /\ p.access = "github-org" =>
                                \A i \in Object(o).data.includes : i.provider # Unset

\* The database a Worker writes to: the one that was given, or its own.
DatabaseOf(o) == [given |-> o.data.database, own |-> {r \in o.refs : r[1] = <<"db">>}]

\* A Worker is put on a database when the schema of the program has been
\* applied to it, however runs break off (uptime-monitor.ts:334).
SchemaFirst ==
    /\ Deploying("monitor")
    /\ Exists(<<"worker">>)'
    /\ Exists(<<"worker">>) => DatabaseOf(Now(<<"worker">>)) # DatabaseOf(Now(<<"worker">>))'
    => /\ Exists(<<"schema">>)
       /\ LET schema == Now(<<"schema">>)
          IN  /\ schema.key.sql = ArgsOf(program).d1Schema
              /\ [given |-> schema.key.database, own |-> schema.refs]
                   = DatabaseOf(Now(<<"worker">>))'

Stem(args) ==
    LET name == IF args.d1DatabaseName # Unset THEN args.d1DatabaseName ELSE args.name
    IN  IF Last(name) = "probe-results" THEN Front(name) ELSE name

\* The rows of a monitor stay where they are while the name of its database
\* says the same, suffix or not (uptime-monitor.ts:258).
RowsStay ==
    /\ Deploying("monitor") /\ Recorded(<<"db">>)
    /\ Now(<<"db">>).data = Append(Stem(ArgsOf(program)), "probe-results")
    /\ M!CreatesDb(ArgsOf(program))
    => Recorded(<<"db">>)' /\ current'[<<"db">>] = current[<<"db">>]

(***************************************************************************)
(* Every component.                                                        *)
(***************************************************************************)

\* What is to stay is never lost on the way, not even by a run that breaks off:
\* the grants of a tenant, the objects of a site, the rows of a monitor.
NothingLost == [][GrantsStay /\ ObjectsStay /\ RowsStay]_vars

\* What is to come first has been done: the uploads before the purge, the
\* schema before the Worker.
InOrder == [][PurgeLast /\ SchemaFirst]_vars

\* What the pods of a proxy read fits together, whatever runs have done to them.
PodsServed == KeysReachTheirModels /\ DatabaseRouted

\* Who asks for a group by the name clients use gets it, and its fallbacks.
GroupsServed == FallbacksFire /\ CapabilitiesServed

Valid == {p \in DOMAIN Plans : \A i \in DOMAIN Plans[p] : ~Plans[p][i].bad}

\* When nobody edits any more and the program is one that can be deployed,
\* the runs end up with exactly what it declares, unless it asks for a name that
\* a database or a bucket still has whose deletion broke off.
Converges == <>[](program \in Valid /\ (\A i \in DOMAIN plan : ~Taken(i)) => Synced)
=============================================================================
