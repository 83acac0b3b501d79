----------------------------- MODULE DeploysMC -----------------------------
(* The instances of Deploys for TLC. *)
EXTENDS Deploys

MCUpperSnake == "zai" :> "ZAI_API_KEY" @@ "z-ai" :> "Z_AI_API_KEY" @@ "z_ai" :> "Z_AI_API_KEY"
MCLower ==
    "ZAI_API_KEY" :> <<"zai_api_key">> @@ "Z_AI_API_KEY" :> <<"z_ai_api_key">>
    @@ "POOL_KEY" :> <<"pool_key">>

Key(p, v) == [of |-> p, version |-> v]
Provider(key, env) == [apiKey |-> key, envVar |-> env]
Serving(id, provider) == [id |-> id, provider |-> provider, teamPublicModelName |-> Unset]
Capability(name, ids, fallbacks) ==
    [name |-> <<name>>, deploymentIds |-> ids, fallbacks |-> fallbacks]
Team(id, capabilities) == [id |-> id, capabilities |-> capabilities]

TwoTeams ==
    << Team(<<"blue">>, << Capability("fast", <<"d1">>, <<<<"deep">>>>),
                           Capability("deep", <<"d2">>, <<>>) >>),
       Team(<<"red">>,  << Capability("fast", <<"d1", "d2">>, <<<<"deep">>>>),
                           Capability("deep", <<"d2">>, <<>>) >>) >>

\* The second team has no chain for a name it shares with the first.
Disagreeing ==
    << TwoTeams[1], Team(<<"red">>, << Capability("fast", <<"d2">>, <<>>) >>) >>

\* <<"blue", "::", "x">> <<"fast">> and <<"blue">> <<"x", "::", "fast">>.
Colliding ==
    << Team(<<"blue", "::", "x">>, << Capability("fast", <<"d1">>, <<>>) >>),
       Team(<<"blue">>, << [name |-> <<"x", "::", "fast">>, deploymentIds |-> <<"d2">>,
                            fallbacks |-> <<>>] >>) >>

\* Names made of words and signs; "Key" and "key" are one name for DNS.
Chars == {"acct", "a", "b", "key", "-"}
MCDnsChar == [c \in Chars |-> c] @@ "A" :> "a" @@ "_" :> "-" @@ "Key" :> "key" @@ " " :> "-"
MCKeyChars == Chars \cup {"_", "Key"}
MCEnvVarNaming ==
    <<"a">> :> "A_KEY" @@ <<"A">> :> "A_UPPER_KEY" @@ <<"a", "-", "b">> :> "A_B_KEY"
    @@ <<"a", "_", "b">> :> "A_B_KEY" @@ <<"b">> :> "B_KEY"

Op(item, field) == [vault |-> "vault", item |-> item, section |-> Unset, field |-> field]
OpItem(key, ref) == [key |-> key, ref |-> ref]
OpCall(configKey, items) == [configKey |-> configKey, items |-> items]

Base ==
    [providers |-> "zai" :> Provider(Key("zai", 1), Unset)
                   @@ "z-ai" :> Provider(Key("z-ai", 1), Unset),
     deployments |-> << Serving("d1", "zai"), Serving("d2", "z-ai") >>,
     modelGroups |-> Unset, teams |-> TwoTeams,
     opCalls |-> <<>>,
     replicas |-> 1, redis |-> FALSE, createNamespace |-> TRUE, masterKey |-> Unset,
     databaseUrl |-> [host |-> "db", database |-> "litellm"],
     extraEnv |-> "TRACING" :> <<"on">>, extraSecretEnv |-> "LANGFUSE" :> "secret",
     extraSecretRefEnv |-> "CALLBACK" :> [secretName |-> <<"op">>, key |-> <<"credential">>],
     cloudSql |-> Unset]

WithCalls(calls) == [Base EXCEPT !.opCalls = calls]

Ambient == [credentials |-> Unset, serviceAccountKey |-> Unset]
Inline(v) == [credentials |-> Unset, serviceAccountKey |-> v]
Mode(mode, v) == [credentials |-> [mode |-> mode, value |-> v], serviceAccountKey |-> Unset]

\* Rotations, the modes of the sidecar, and every way for a program to be
\* refused or to break off.
MCLiteLLM ==
    << Base,
       [Base EXCEPT !.providers["zai"].apiKey = Key("zai", 2), !.masterKey = "given",
                    !.teams = Unset,
                    !.modelGroups = << [name |-> <<"only">>, deploymentIds |-> <<"d1">>,
                                        fallbacks |-> <<>>, teamPublicModelName |-> Unset] >>],
       [Base EXCEPT !.cloudSql = Ambient, !.providers["z-ai"].envVar = "POOL_KEY"],
       [Base EXCEPT !.cloudSql = Mode("existing-secret", <<"op">>), !.createNamespace = FALSE],
       [Base EXCEPT !.cloudSql = Inline("key1")],
       [Base EXCEPT !.cloudSql = Mode("inline-key", "key2"), !.replicas = 2, !.redis = TRUE],
       [Base EXCEPT !.cloudSql = Mode("managed-key", "account")],
       WithCalls(<< OpCall(<<"acct">>, << OpItem(<<"a">>, Op("shared", <<"key">>)) >>) >>),
       WithCalls(<< OpCall(<<"acct">>, << OpItem(<<"a">>, Op("shared", <<" ", "a", " ", "b", " ">>)) >>),
                    OpCall(<<"b">>, << OpItem(<<"b">>, Op("other", <<"Key">>)) >>) >>),
       [Base EXCEPT !.providers["z-ai"].apiKey = Unset],
       [Base EXCEPT !.providers = [n \in {"z-ai", "z_ai"} |-> Provider(Key(n, 2), Unset)],
                    !.deployments = << Serving("d1", "z-ai"), Serving("d2", "z_ai") >>],
       [Base EXCEPT !.teams = Disagreeing],
       [Base EXCEPT !.teams = Colliding],
       [Base EXCEPT !.replicas = 2],
       WithCalls(<< OpCall(<<"acct">>, << OpItem(<<"a">>, Op("shared", <<"key">>)),
                                          OpItem(<<"A">>, Op("other", <<"Key">>)) >>) >>),
       WithCalls(<< OpCall(<<"acct">>, << OpItem(<<"a">>, Op("shared", <<"key">>)) >>),
                    OpCall(<<"b">>, << OpItem(<<"a">>, Op("other", <<"key">>)) >>) >>),
       WithCalls(<< OpCall(<<"acct">>,
                    << OpItem(<<"a">>, [Op("shared", <<"key">>) EXCEPT !.section = "s"]) >>) >>),
       [Base EXCEPT !.extraEnv = "ZAI_API_KEY" :> <<"mine">>],
       [Base EXCEPT !.extraSecretRefEnv = "LANGFUSE" :> [secretName |-> <<"op">>, key |-> <<"k">>]],
       [Base EXCEPT !.cloudSql = [credentials |-> [mode |-> "ambient-iam", value |-> Unset],
                                  serviceAccountKey |-> "key1"]],
       WithCalls(<< OpCall(<<"acct">>, << OpItem(<<"a">>, Op("shared", <<" ", " ">>)) >>) >>),
       [Base EXCEPT !.providers["zai"].apiKey = Key("zai", 2), !.createNamespace = FALSE] >>

Ns(name) == [name |-> <<name>>, quota |-> Unset]
Quota(requests, limits, extra) ==
    [requests |-> requests, limits |-> limits, extra |-> extra, removed |-> FALSE]
Limits(defaultRequest, default, max) ==
    [defaultRequest |-> defaultRequest, default |-> default, max |-> max]
Grant(namespace, role) == [namespace |-> namespace, role |-> role]

Catalog ==
    "litellm" :> [namespace |-> "litellm", ports |-> {4000}]
    @@ "postgres" :> [namespace |-> "pg", ports |-> {5432}]

Token == Grant(<<"1password">>, <<"token">>)
Ingress == Grant(<<"networking">>, <<"ingress">>)

Plain ==
    [id |-> "jmm", namespaces |-> << Ns("web") >>, quota |-> Unset, limits |-> Unset,
     consumes |-> <<>>, catalog |-> Catalog, networkPolicy |-> "off",
     grants |-> << Token, Ingress >>, deployerRole |-> "deployer",
     deployer |-> [kind |-> "User", namespace |-> Unset]]

\* Quotas over what defaults there are, policies from off to enforce, grants
\* in another order; the later the more is defaulted, until all goes.
MCTenant ==
    << Plain,
       [Plain EXCEPT !.networkPolicy = "observe",
                     !.limits = Limits({"cpu"}, {}, {}),
                     !.quota = Quota({"cpu"}, {}, {<<"pods", "pods">>}),
                     !.grants = << Ingress, Token >>],
       [Plain EXCEPT !.networkPolicy = "enforce", !.consumes = << "litellm", "litellm" >>,
                     !.limits = Limits({"cpu"}, {"memory"}, {}),
                     !.quota = Quota({"memory"}, {"memory"}, {<<"", "cpu">>}),
                     !.namespaces = << Ns("web"), Ns("db") >>],
       [Plain EXCEPT !.networkPolicy = "enforce", !.namespaces = << Ns("db") >>,
                     !.limits = Limits({}, {"memory"}, {"cpu"}),
                     !.quota = Quota({"cpu"}, {"cpu"}, {}), !.grants = << Token >>],
       [Plain EXCEPT !.limits = Limits({}, {"memory"}, {}),
                     !.quota = Quota({}, {}, {<<"limits", "cpu">>})],
       [Plain EXCEPT !.deployer.kind = "ServiceAccount"],
       [Plain EXCEPT !.grants = << Token, Grant(<<"web">>, <<"admin">>) >>],
       [Plain EXCEPT !.grants = << Token, Token >>],
       [Plain EXCEPT !.consumes = << "unknown" >>],
       Plain >>

File(key, content) == [key |-> key, content |-> content]
Path(pattern, access) == [pattern |-> pattern, access |-> access]

Site ==
    [domains |-> << "a.example", "b.example" >>, zoneId |-> "zone",
     r2Bucket |-> [bucketName |-> "assets", create |-> TRUE], staticAssets |-> Unset,
     cacheKeyVersion |-> Unset, paths |-> <<>>,
     githubIdentityProviderId |-> Unset, githubOAuthConfig |-> Unset, githubOrganizations |-> {},
     files |-> << File("index.html", 1), File("app.js", 1) >>,
     uploadAfter |-> {<<"worker">>}, uploadOptsAfter |-> {}, trigger |-> 1]

Gate == [Site EXCEPT !.domains = << "a.example", "b.example" >>, !.files = <<>>,
                     !.paths = << Path("/*", "github-org") >>,
                     !.githubOAuthConfig = "oauth", !.githubOrganizations = {"org"}]

\* Files that are edited, reordered and dropped, another bucket, gates that
\* change, static assets, and what is refused.
MCSite ==
    << Site,
       [Site EXCEPT !.files = << File("app.js", 1), File("index.html", 2) >>, !.trigger = 2],
       [Site EXCEPT !.files = << File("app.js", 2) >>, !.trigger = 3, !.domains = << "b.example" >>,
                    !.r2Bucket.bucketName = "other"],
       [Gate EXCEPT !.paths = << Path("/public/*", "bypass"), Path("/*", "github-org") >>],
       [Gate EXCEPT !.githubOAuthConfig = Unset, !.githubIdentityProviderId = "given",
                    !.paths = << Path("/*", "github-org"), Path("/public/*", "public") >>],
       [Gate EXCEPT !.githubOAuthConfig = Unset],
       [Gate EXCEPT !.githubIdentityProviderId = "given"],
       [Site EXCEPT !.domains = << "a.example", "a.example" >>, !.paths = << Path("/*", "public") >>],
       [Site EXCEPT !.staticAssets = "dist"],
       [Site EXCEPT !.r2Bucket = Unset, !.staticAssets = "dist", !.files = <<>>] >>

Monitor ==
    [name |-> << "mon" >>, monitors |-> << "a" >>, d1DatabaseId |-> Unset, createD1Database |-> TRUE,
     d1DatabaseName |-> Unset, d1Schema |-> "default", apiToken |-> "token1",
     enableReadApi |-> FALSE, webhookUrl |-> Unset]

\* The same database under another name, another schema, another database,
\* one that is given, and what is refused.
MCMonitor ==
    << Monitor,
       [Monitor EXCEPT !.d1DatabaseName = << "mon", "probe-results" >>, !.apiToken = "token2"],
       [Monitor EXCEPT !.d1Schema = "wider", !.monitors = << "a", "b" >>, !.enableReadApi = TRUE],
       [Monitor EXCEPT !.d1DatabaseName = << "new" >>, !.webhookUrl = "hook"],
       [Monitor EXCEPT !.d1DatabaseId = "id1", !.createD1Database = FALSE],
       [Monitor EXCEPT !.d1DatabaseId = "id2", !.d1Schema = "wider"],
       [Monitor EXCEPT !.createD1Database = FALSE],
       [Monitor EXCEPT !.monitors = << "a", "a" >>] >>

MCArgs ==
    "litellm" :> MCLiteLLM @@ "tenant" :> MCTenant @@ "site" :> MCSite @@ "monitor" :> MCMonitor

\* The public name of a group is given at its deployment.
MCNamedAtDeployment ==
    "litellm" :>
        << Base,
           [Base EXCEPT !.deployments[1].teamPublicModelName = <<"quick">>, !.teams = Unset,
                        !.modelGroups =
                            << [name |-> <<"fast">>, deploymentIds |-> <<"d1">>,
                                fallbacks |-> <<<<"deep">>>>, teamPublicModelName |-> Unset],
                               [name |-> <<"deep">>, deploymentIds |-> <<"d2">>,
                                fallbacks |-> <<>>, teamPublicModelName |-> Unset] >>] >>

MCPrograms == ProgramsOfAll
MCPlans    == PlansOfAll
MCFollows    == FollowsOfAll
=============================================================================
