--------------------------- MODULE LiteLLMConfig ---------------------------
(***************************************************************************)
(* The configuration of a LiteLLM proxy (litellm/config.ts) and the model   *)
(* groups of its teams (litellm/team-plan.ts), as operators on arguments:  *)
(*   providers    name -> [apiKey, envVar]                                 *)
(*   deployments  <<[id, provider, teamPublicModelName]>>                  *)
(*   teams        <<[id, capabilities |->                                  *)
(*                       <<[name, deploymentIds, fallbacks]>>]>>           *)
(*   modelGroups  <<[name, deploymentIds, fallbacks, teamPublicModelName]>> *)
(*                                                                         *)
(* Abstractions: api bases, limits, prices, tags and the settings that are *)
(* copied from an argument or a default are left out; fallbacks and        *)
(* contextWindowFallbacks go through the same code, and stand for one.     *)
(* Names of teams, capabilities and groups are sequences of words.  YAML   *)
(* is not modelled: a configuration is what it says.                       *)
(***************************************************************************)
EXTENDS Naturals, SequencesExt, FiniteSets

CONSTANTS
    UpperSnake,      \* toUpperSnakeCase and "_API_KEY" on names, many to one
    Unset            \* an optional argument that is not given

Either(a, b) == IF a # Unset THEN a ELSE b

(* ------------------------------- teams --------------------------------- *)

\* The separator is a word like any other: an id or a name may hold it too.
ToInternalModelGroupName(team, capability) == team \o <<"::">> \o capability

TeamGroups(team) ==
    [c \in DOMAIN team.capabilities |->
        LET capability == team.capabilities[c]
        IN  [name                |-> ToInternalModelGroupName(team.id, capability.name),
             deploymentIds       |-> capability.deploymentIds,
             fallbacks           |-> [f \in DOMAIN capability.fallbacks |->
                                        ToInternalModelGroupName(team.id, capability.fallbacks[f])],
             teamPublicModelName |-> capability.name]]

BuildLiteLLMTeamScopedModelGroups(teams) ==
    FlattenSeq([t \in DOMAIN teams |-> TeamGroups(teams[t])])

Unique(seq) == \A i, j \in DOMAIN seq : seq[i] = seq[j] => i = j

TeamsAccepted_PerTeam(teams) ==
    \A t \in DOMAIN teams :
        LET cs == teams[t].capabilities IN Unique([c \in DOMAIN cs |-> cs[c].name])

\* No capability twice in a team, and no internal name twice in the plan.
TeamsAccepted(teams) ==
    /\ \A t \in DOMAIN teams :
          LET cs == teams[t].capabilities IN Unique([c \in DOMAIN cs |-> cs[c].name])
    /\ LET gs == BuildLiteLLMTeamScopedModelGroups(teams)
       IN  Unique([g \in DOMAIN gs |-> gs[g].name])

(* ----------------------------- providers ------------------------------- *)

GetProviderEnvVar(name, provider) ==
    IF provider.envVar # Unset THEN provider.envVar
    ELSE IF provider.apiKey # Unset THEN UpperSnake[name] ELSE Unset

EnvVarOf(args, p) == GetProviderEnvVar(p, args.providers[p])

(* ----------------------------- validation ------------------------------ *)

\* A bug: two providers of one variable go through.
ValidateLiteLLMConfig_SharedEnv(args) ==
    LET ids   == [d \in DOMAIN args.deployments |-> args.deployments[d].id]
        names == {args.modelGroups[g].name : g \in DOMAIN args.modelGroups}
    IN  /\ Unique(ids)
        /\ \A d \in ToSet(args.deployments) : d.provider \in DOMAIN args.providers
        /\ \A g \in ToSet(args.modelGroups) :
              /\ g.deploymentIds # <<>>
              /\ ToSet(g.deploymentIds) \subseteq ToSet(ids)
              /\ ToSet(g.fallbacks) \subseteq names
        /\ args.replicas > 1 => args.redis

ValidateLiteLLMConfig(args) ==
    LET ids   == [d \in DOMAIN args.deployments |-> args.deployments[d].id]
        names == {args.modelGroups[g].name : g \in DOMAIN args.modelGroups}
    IN  /\ Unique(ids)
        /\ \A d \in ToSet(args.deployments) : d.provider \in DOMAIN args.providers
        /\ \A g \in ToSet(args.modelGroups) :
              /\ g.deploymentIds # <<>>
              /\ ToSet(g.deploymentIds) \subseteq ToSet(ids)
              /\ ToSet(g.fallbacks) \subseteq names
        /\ \A p, q \in DOMAIN args.providers :
              EnvVarOf(args, p) = EnvVarOf(args, q) => p = q \/ EnvVarOf(args, p) = Unset
        /\ args.replicas > 1 => args.redis

(* ------------------------------ fallbacks ------------------------------ *)

PublicName(group) == Either(group.teamPublicModelName, group.name)

\* A Map filled in order: of two groups of one name the last one counts.
PublicNameOf(groups, name) ==
    PublicName(groups[CHOOSE g \in DOMAIN groups :
                        /\ groups[g].name = name
                        /\ \A h \in DOMAIN groups : groups[h].name = name => h <= g])

Chain(groups, group) ==
    [f \in DOMAIN group.fallbacks |-> PublicNameOf(groups, group.fallbacks[f])]

\* A bug: a group that declares none is taken to have no opinion.
FallbacksAgree_AbsentAgrees(groups) ==
    \A g, h \in ToSet(groups) :
        /\ PublicName(g) = PublicName(h)
        /\ g.fallbacks # <<>> /\ h.fallbacks # <<>>
        => Chain(groups, g) = Chain(groups, h)

\* LiteLLM has one chain for a public name: all its groups must agree, those
\* without a chain too.
FallbacksAgree(groups) ==
    \A g, h \in ToSet(groups) :
        PublicName(g) = PublicName(h) => Chain(groups, g) = Chain(groups, h)

\* A bug: the map goes by the names of the groups, which no client sends.
BuildFallbackMap_InternalNames(groups) ==
    LET with == {g \in ToSet(groups) : g.fallbacks # <<>>}
    IN  [n \in {g.name : g \in with} |->
            (CHOOSE g \in with : g.name = n).fallbacks]

BuildFallbackMap(groups) ==
    LET with == {g \in ToSet(groups) : g.fallbacks # <<>>}
    IN  [n \in {PublicName(g) : g \in with} |->
            Chain(groups, CHOOSE g \in with : PublicName(g) = n)]

(* --------------------------- the configuration ------------------------- *)

DeploymentById(args, id) ==
    args.deployments[CHOOSE d \in DOMAIN args.deployments : args.deployments[d].id = id]

ModelEntry(args, group, id) ==
    LET deployment == DeploymentById(args, id)
    IN  [modelName |-> group.name,
         provider  |-> deployment.provider,
         apiKey    |-> EnvVarOf(args, deployment.provider),
         teamPublicModelName |->
             Either(deployment.teamPublicModelName, group.teamPublicModelName)]

\* A provider that has neither a key nor a variable cannot be used.
UsedProvidersHaveKeys(args) ==
    \A g \in ToSet(args.modelGroups) : \A id \in ToSet(g.deploymentIds) :
        EnvVarOf(args, DeploymentById(args, id).provider) # Unset

ModelList(args) ==
    UNION {{ModelEntry(args, g, id) : id \in ToSet(g.deploymentIds)}
           : g \in ToSet(args.modelGroups)}

Generates(args) ==
    /\ ValidateLiteLLMConfig(args)
    /\ UsedProvidersHaveKeys(args)
    /\ FallbacksAgree(args.modelGroups)

GenerateLiteLLMConfig(args) ==
    [modelList |-> ModelList(args),
     cache     |-> args.redis,
     fallbacks |-> BuildFallbackMap(args.modelGroups)]
=============================================================================
