------------------------------ MODULE Tenancy ------------------------------
(***************************************************************************)
(* One tenant (tenancy/tenant.ts): the quota and the LimitRange of each of  *)
(* its namespaces (envelope.ts), the network policies (policies.ts), the   *)
(* grants, and the resources as goals for the engine.                      *)
(*                                                                         *)
(* Arguments: id, namespaces <<[name, quota]>> (quota Unset: the tenant's), *)
(* quota (Unset or [requests, limits, extra, removed], sets of resources   *)
(* and of raw keys), limits (Unset or [defaultRequest, default, max]),     *)
(* consumes, catalog (name -> service), networkPolicy, grants              *)
(* <<[namespace, role]>>, deployer [kind, namespace].                      *)
(*                                                                         *)
(* Abstractions: quantities are left out, a ceiling or a default is there  *)
(* or not.  A quota key is <<prefix, resource>>.  Labels, descriptions,    *)
(* reasons and the pod security levels are left out.                       *)
(***************************************************************************)
EXTENDS Resources, Naturals, SequencesExt, FiniteSets

CONSTANTS
    Unset,           \* an optional argument that is not given
    PlatformDns      \* the endpoint of CoreDNS

(* ------------------------------ envelope ------------------------------- *)

\* The quota keys that make a container declare something, and what.
ForcedDeclaration(key) ==
    IF key[2] \notin {"cpu", "memory"} THEN Unset
    ELSE [field |-> IF key[1] = "limits" THEN "limit" ELSE "request", resource |-> key[2]]

\* What the LimitRange fills in: `max` counts as a default limit, and a
\* default limit as a default request.
LimitRangeDefaults(limits, field, resource) ==
    /\ limits # Unset
    /\ \/ resource \in limits.default \cup limits.max
       \/ field = "request" /\ resource \in limits.defaultRequest

TypedKeys(quota) ==
    {<<"requests", r>> : r \in quota.requests} \cup {<<"limits", r>> : r \in quota.limits}

Hard(quota) == TypedKeys(quota) \cup quota.extra

Defaulted(limits, keys) ==
    \A d \in {ForcedDeclaration(k) : k \in keys} \ {Unset} :
        LimitRangeDefaults(limits, d.field, d.resource)

\* A bug: the raw keys are not held to the rule.
EnvelopeAccepted_TypedOnly(quota, limits) ==
    quota # Unset =>
        /\ ~quota.removed
        /\ TypedKeys(quota) \cap quota.extra = {}
        /\ Defaulted(limits, TypedKeys(quota))

\* A quota is refused with a field that is gone, with a key set twice, and
\* when it asks for a declaration nothing defaults.
EnvelopeAccepted(quota, limits) ==
    quota # Unset =>
        /\ ~quota.removed
        /\ TypedKeys(quota) \cap quota.extra = {}
        /\ Defaulted(limits, Hard(quota))

(* ------------------------------ policies ------------------------------- *)

\* Of services listed twice one rule is left; an unknown one is an error.
ConsumesKnown(args) == ToSet(args.consumes) \subseteq DOMAIN args.catalog
ResolveConsumes(args) == {args.catalog[s] : s \in ToSet(args.consumes)}

TenantNamespaces(args) == {args.namespaces[n].name : n \in DOMAIN args.namespaces}

\* By name, itself included, and whatever carries the tenant's label.
TenantPeerEndpoints(args) == TenantNamespaces(args) \cup {<<"label", args.id>>}

AllowPlatformService(service) == {[to |-> service.namespace, port |-> p] : p \in service.ports}
AllowDns == {[to |-> PlatformDns, port |-> "53"]}

\* A bug: the rule for DNS went with the services that nobody consumes.
NamespacePolicy_DnsWithServices(args) ==
    [deny    |-> args.networkPolicy = "enforce",
     l7      |-> args.networkPolicy = "enforce",
     ingress |-> TenantPeerEndpoints(args),
     peers   |-> TenantPeerEndpoints(args),
     egress  |-> (IF args.consumes = <<>> THEN {} ELSE AllowDns)
                 \cup UNION {AllowPlatformService(s) : s \in ResolveConsumes(args)}]

NamespacePolicy(args) ==
    [deny    |-> args.networkPolicy = "enforce",
     l7      |-> args.networkPolicy = "enforce",
     ingress |-> TenantPeerEndpoints(args),
     peers   |-> TenantPeerEndpoints(args),
     egress  |-> AllowDns \cup UNION {AllowPlatformService(s) : s \in ResolveConsumes(args)}]

(* ------------------------------ resources ------------------------------ *)

Distinct(seq) == \A i, j \in DOMAIN seq : seq[i] = seq[j] => i = j

\* Two words with a hyphen between: what a grant is called.
Slug(grant) == grant.namespace \o <<"-">> \o grant.role

QuotaOf(args, entry) == IF entry.quota # Unset THEN entry.quota ELSE args.quota

\* Everything the constructor refuses, before or while it registers.
TenantAccepts(args) ==
    /\ ConsumesKnown(args)
    /\ Distinct([n \in DOMAIN args.namespaces |-> args.namespaces[n].name])
    /\ args.deployer.kind = "ServiceAccount" => args.deployer.namespace # Unset
    /\ \A entry \in ToSet(args.namespaces) : EnvelopeAccepted(QuotaOf(args, entry), args.limits)
    /\ \A g \in ToSet(args.grants) : g.namespace \notin TenantNamespaces(args)
    /\ Distinct([g \in DOMAIN args.grants |-> Slug(args.grants[g])])

\* A bug: each of the two waits for the other.
LimitRangeGoal_AfterQuota(args, ns) ==
    When(args.limits # Unset,
         New(<<"limits", ns>>, InPlace(args.limits, {}, {<<"ns", ns>>, <<"quota", ns>>})))

LimitRangeGoal(args, ns) ==
    When(args.limits # Unset, New(<<"limits", ns>>, InPlace(args.limits, {}, {<<"ns", ns>>})))

\* A bug: the quota waits for its namespace only.
QuotaGoal_Unordered(args, ns, quota) ==
    When(quota # Unset, New(<<"quota", ns>>, InPlace(Hard(quota), {}, {<<"ns", ns>>})))

\* After the LimitRange, when there is one.
QuotaGoal(args, ns, quota) ==
    When(quota # Unset,
         New(<<"quota", ns>>, InPlace(Hard(quota), {},
             {<<"ns", ns>>} \cup IF args.limits # Unset THEN {<<"limits", ns>>} ELSE {})))

PolicyGoal(args, ns) ==
    When(args.networkPolicy # "off",
         New(<<"netpol", ns>>, InPlace(NamespacePolicy(args), {}, {<<"ns", ns>>})))

NamespaceGoals(args, entry) ==
    LET ns == entry.name
    IN  AllGoals(<< New(<<"ns", ns>>, InPlace(args.id, {}, {})),
                    New(<<"deployer", ns>>,
                        Goal(args.deployerRole, args.deployer, FALSE, {}, {<<"ns", ns>>})),
                    LimitRangeGoal(args, ns),
                    QuotaGoal(args, ns, QuotaOf(args, entry)),
                    PolicyGoal(args, ns) >>)

\* A bug: a grant is called after its place in the list.
GrantGoal_ByIndex(args, grant) ==
    New(<<"grant", CHOOSE g \in DOMAIN args.grants : args.grants[g] = grant>>,
        Goal([namespace |-> grant.namespace, role |-> grant.role], args.deployer, FALSE, {}, {}))

\* A binding's role cannot be changed: the role is part of its key.
GrantGoal(args, grant) ==
    New(<<"grant", Slug(grant)>>,
        Goal([namespace |-> grant.namespace, role |-> grant.role], args.deployer, FALSE, {}, {}))

TenantPlan(args) ==
    AllGoals(<< AllGoals([n \in DOMAIN args.namespaces |-> NamespaceGoals(args, args.namespaces[n])]),
                AllGoals([g \in DOMAIN args.grants |-> GrantGoal(args, args.grants[g])]) >>)
=============================================================================
