---------------------------- MODULE LiteLLMProxy ----------------------------
(***************************************************************************)
(* LiteLLMProxy (litellm/litellm-proxy.ts): the environment of the          *)
(* container, the Secrets and the ConfigMap it reads, and the resources of *)
(* the component as goals for the engine.                                  *)
(*                                                                         *)
(* Arguments: those of LiteLLMConfig, and createNamespace, masterKey,      *)
(* databaseUrl, extraEnv, extraSecretEnv (name -> value, Unset when it     *)
(* resolves to nothing), extraSecretRefEnv (name -> [secretName, key]) and *)
(* cloudSql (Unset or [credentials, serviceAccountKey]).                   *)
(*                                                                         *)
(* Abstractions: image, replicas on the Deployment, probes and resources   *)
(* are left out, names and labels are fixed.  Records have a name once, so *)
(* the check for one name twice within a record cannot fail.               *)
(***************************************************************************)
EXTENDS LiteLLMConfig, CloudSqlSidecar

CONSTANTS
    Lower            \* toLowerCase on the variables

ReservedRuntimeEnvVars == {"LITELLM_MASTER_KEY", "DATABASE_URL"}

Disjoint(a, b) == a \cap b = {}

\* A bug: the second look, that knows the providers, is left out.
ValidateExtraEnvNameCollisions_NoProviders(extra, secret, providers, refs) ==
    /\ Disjoint(extra, secret) /\ Disjoint(extra, refs) /\ Disjoint(secret, refs)
    /\ Disjoint(extra \cup secret \cup refs, ReservedRuntimeEnvVars)

\* No name from two sources, none that is reserved or a provider's.
ValidateExtraEnvNameCollisions(extra, secret, providers, refs) ==
    /\ Disjoint(extra, secret) /\ Disjoint(extra, refs) /\ Disjoint(secret, refs)
    /\ Disjoint(extra \cup secret \cup refs, ReservedRuntimeEnvVars \cup providers)

(* ----------------------------- credentials ----------------------------- *)

CredentialsConflict(cloudSql) ==
    cloudSql # Unset /\ cloudSql.credentials # Unset /\ cloudSql.serviceAccountKey # Unset

ResolveLiteLLMCloudSqlCredentials(cloudSql) ==
    IF cloudSql.credentials # Unset THEN cloudSql.credentials
    ELSE IF cloudSql.serviceAccountKey # Unset
         THEN [mode |-> "inline-key", value |-> cloudSql.serviceAccountKey]
         ELSE [mode |-> "ambient-iam", value |-> Unset]

(* ---------------------------- environment ------------------------------ *)

Resolved(record) == {n \in DOMAIN record : record[n] # Unset}
ResolvedRefs(args) ==
    {n \in DOMAIN args.extraSecretRefEnv : args.extraSecretRefEnv[n].secretName # Unset}

WithKey(args) == {p \in DOMAIN args.providers : args.providers[p].apiKey # Unset}
ProviderEnvVars(args) == {EnvVarOf(args, p) : p \in WithKey(args)}

\* The constructor looks before the providers are resolved, the environment
\* again afterwards.
ExtrasAccepted(args) ==
    ValidateExtraEnvNameCollisions(DOMAIN args.extraEnv, DOMAIN args.extraSecretEnv, {},
                                   DOMAIN args.extraSecretRefEnv)

EnvAccepted(args) ==
    ValidateExtraEnvNameCollisions(DOMAIN args.extraEnv, DOMAIN args.extraSecretEnv,
                                   ProviderEnvVars(args), ResolvedRefs(args))

From(secret, key) == [secret |-> secret, key |-> key]

\* The list as the kubelet reads it: of two entries of a name the last one.
Env(args) ==
    LET extra     == [n \in Resolved(args.extraEnv) |-> From(<<"none">>, args.extraEnv[n])]
        refs      == [n \in ResolvedRefs(args) |-> From(args.extraSecretRefEnv[n].secretName,
                                                        args.extraSecretRefEnv[n].key)]
        secret    == [n \in Resolved(args.extraSecretEnv) |-> From(<<"runtime">>, <<n>>)]
        providers == [n \in ProviderEnvVars(args) |-> From(<<"providers">>, Lower[n])]
        reserved  == [n \in ReservedRuntimeEnvVars |-> From(<<"runtime">>, <<n>>)]
    IN  Over(extra, Over(refs, Over(secret, Over(providers, reserved))))

(* ----------------------------- resources ------------------------------- *)

\* Of two providers whose keys end up under one name the last one counts;
\* which one that is, is the order of the record: the choice is left open.
ProviderStringData(args) ==
    [k \in {Lower[n] : n \in ProviderEnvVars(args)} |->
        args.providers[CHOOSE p \in WithKey(args) : Lower[EnvVarOf(args, p)] = k].apiKey]

EffectiveDatabaseUrl(args) ==
    IF args.cloudSql = Unset THEN args.databaseUrl
    ELSE RewriteDatabaseUrlForProxy(args.databaseUrl)

RuntimeSecretData(args) ==
    Over([n \in Resolved(args.extraSecretEnv) |-> args.extraSecretEnv[n]],
         Over(New("LITELLM_MASTER_KEY", Either(args.masterKey, "generated")),
              New("DATABASE_URL", EffectiveDatabaseUrl(args))))

SidecarContainer(args) ==
    IF args.cloudSql = Unset THEN Unset
    ELSE BuildContainer(ResolveLiteLLMCloudSqlCredentials(args.cloudSql))

SecretRefs(args) ==
    {<<"providers">>, <<"runtime">>, <<"config">>}
    \cup IF args.cloudSql = Unset THEN {}
         ELSE CredentialRefs(ResolveLiteLLMCloudSqlCredentials(args.cloudSql))

ProviderSecret(args) == AutoNamed(ProviderStringData(args), {<<"ns">>}, {})

\* A bug: the Secret has a name of its own.
RuntimeSecret_Named(args) ==
    Named(RuntimeSecretData(args),
          {<<"ns">>} \cup IF args.masterKey = Unset THEN {<<"master-key">>} ELSE {}, {})

RuntimeSecret(args) ==
    AutoNamed(RuntimeSecretData(args),
              {<<"ns">>} \cup IF args.masterKey = Unset THEN {<<"master-key">>} ELSE {}, {})

ConfigMap(args) ==
    Throwing(AutoNamed(IF Generates(args) THEN GenerateLiteLLMConfig(args) ELSE Unset,
                       {<<"ns">>}, {}),
             ~Generates(args))

\* A bug: the Deployment spells out the name of the ConfigMap.
Deployment_ConfigByName(args) ==
    Throwing(InPlace([env |-> Env(args), sidecar |-> SidecarContainer(args)],
                     {<<"ns">>} \cup (SecretRefs(args) \ {<<"config">>}), {}),
             ~EnvAccepted(args))

Deployment(args) ==
    Throwing(InPlace([env |-> Env(args), sidecar |-> SidecarContainer(args)],
                     {<<"ns">>} \cup SecretRefs(args), {}),
             ~EnvAccepted(args))

LiteLLMAccepts(args) == ExtrasAccepted(args) /\ ~CredentialsConflict(args.cloudSql)

LiteLLMPlan(args) ==
    AllGoals(<< When(args.createNamespace, New(<<"ns">>, InPlace("namespace", {}, {}))),
                When(args.cloudSql # Unset,
                     SidecarGoals(ResolveLiteLLMCloudSqlCredentials(args.cloudSql), <<"ns">>)),
                New(<<"providers">>, ProviderSecret(args)),
                New(<<"master-key">>, AutoNamed("password", {}, {})),
                New(<<"runtime">>, RuntimeSecret(args)),
                New(<<"config">>, ConfigMap(args)),
                New(<<"deployment">>, Deployment(args)),
                New(<<"service">>, InPlace("service", {<<"ns">>}, {})) >>)
=============================================================================
