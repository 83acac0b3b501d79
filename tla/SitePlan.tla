------------------------------ MODULE SitePlan ------------------------------
(***************************************************************************)
(* A static site as the README of workersite/ puts it together: WorkerSite  *)
(* (workersite/worker-site.ts) with the AccessGate it delegates to          *)
(* (access/access-gate.ts), the objects that are uploaded to its bucket and *)
(* the purge of the zone's cache (r2/r2object.ts), as goals for the engine. *)
(* What the Worker does with a request is EdgeSite.                         *)
(*                                                                         *)
(* Arguments: domains, zoneId, r2Bucket (Unset or [bucketName, create]),   *)
(* staticAssets, cacheKeyVersion, paths <<[pattern, access]>>,             *)
(* githubIdentityProviderId, githubOAuthConfig, githubOrganizations; files *)
(* <<[key, content]>>, uploadAfter and uploadOptsAfter (what the caller    *)
(* makes the uploads wait for, in args and in opts), trigger.              *)
(*                                                                         *)
(* Abstractions: redirects, observability, bindings and headers are left   *)
(* out; accounts and zones are fixed.  Two domains that are the same give  *)
(* one name to two resources, which the engine refuses.                    *)
(***************************************************************************)
EXTENDS Resources, Naturals, SequencesExt, FiniteSets

CONSTANTS
    Unset            \* an optional argument that is not given

DistinctItems(seq) == \A i, j \in DOMAIN seq : seq[i] = seq[j] => i = j

(* ------------------------------ AccessGate ----------------------------- *)

NeedsGithub(args) == \E p \in ToSet(args.paths) : p.access = "github-org"

\* A bug: a path for the organization goes without an identity provider.
AccessGateAccepts_NoProvider(args) ==
    /\ args.domains # <<>> /\ DistinctItems(args.domains)
    /\ args.githubOAuthConfig = Unset \/ args.githubIdentityProviderId = Unset
    /\ args.paths # <<>>

AccessGateAccepts(args) ==
    /\ args.domains # <<>> /\ DistinctItems(args.domains)
    /\ args.githubOAuthConfig = Unset \/ args.githubIdentityProviderId = Unset
    /\ NeedsGithub(args) =>
          /\ args.githubOAuthConfig # Unset \/ args.githubIdentityProviderId # Unset
          /\ args.githubOrganizations # {}
    /\ args.paths # <<>>

Everyone == [organization |-> "everyone", provider |-> Unset]

\* Who may pass: everyone, or the organizations at the identity provider.
PolicyIncludes(args, path) ==
    IF path.access \in {"public", "bypass"} THEN {Everyone}
    ELSE {[organization |-> o,
           provider     |-> IF args.githubOAuthConfig # Unset THEN "idp"
                            ELSE args.githubIdentityProviderId] : o \in args.githubOrganizations}

\* A bug: whoever is of the organization is let through by a bypass.
Decision_OrgBypasses ==
    [access \in {"bypass", "public", "github-org"} |-> IF access = "public" THEN "allow" ELSE "bypass"]

Decision ==
    [access \in {"bypass", "public", "github-org"} |-> IF access = "bypass" THEN "bypass" ELSE "allow"]

\* A bug: the applications are counted per domain.
AppName_PerDomain(d, p) == <<"app", p>>

\* By place, since a domain may only be known when it is deployed.
AppName(d, p) == <<"app", d, p>>

AppGoal(args, d, p) ==
    LET path == args.paths[p]
    IN  InPlace([domain   |-> args.domains[d], pattern |-> path.pattern,
                 decision |-> Decision[path.access], includes |-> PolicyIncludes(args, path)],
                IF args.githubOAuthConfig # Unset /\ path.access = "github-org"
                THEN {<<"idp">>} ELSE {}, {})

AccessGateGoals(args) ==
    AllGoals(<< When(args.githubOAuthConfig # Unset,
                     New(<<"idp">>, InPlace(args.githubOAuthConfig, {}, {}))),
                AllGoals([d \in DOMAIN args.domains |->
                    AllGoals([p \in DOMAIN args.paths |-> New(AppName(d, p), AppGoal(args, d, p))])]) >>)

(* ------------------------------ WorkerSite ----------------------------- *)

WorkerSiteAccepts(args) ==
    /\ args.domains # <<>>
    /\ args.zoneId # Unset
    /\ (args.r2Bucket = Unset) # (args.staticAssets = Unset)
    /\ args.staticAssets # Unset => args.cacheKeyVersion = Unset
    /\ args.paths # <<>> => AccessGateAccepts(args)

CreatesBucket(args) == args.r2Bucket # Unset /\ args.r2Bucket.create

BucketRefs(args) == IF CreatesBucket(args) THEN {<<"bucket">>} ELSE {}

\* A bucket or a script of another name is another one.
BucketGoal(args) ==
    When(CreatesBucket(args), New(<<"bucket">>, GivenName(args.r2Bucket.bucketName)))

WorkerGoal(args) ==
    New(<<"worker">>, InPlace([bucket  |-> args.r2Bucket, assets |-> args.staticAssets,
                               version |-> args.cacheKeyVersion], BucketRefs(args), {}))

DomainGoals(args) ==
    AllGoals([d \in DOMAIN args.domains |->
                New(<<"domain", d>>, InPlace(args.domains[d], {<<"worker">>}, {}))])

WorkerSiteGoals(args) ==
    AllGoals(<< When(args.paths # <<>>, AccessGateGoals(args)),
                BucketGoal(args), WorkerGoal(args), DomainGoals(args) >>)

(* ------------------------- uploads and the purge ------------------------ *)

\* What an object waits for: what its caller says in either place.
UploadDeps(args) == args.uploadAfter \cup args.uploadOptsAfter

\* A bug: an object is called after its place in the list.
AssetName_ByIndex(args, f) == <<"asset", f>>

\* After a hash of its key, wherever it stands in the list.
AssetName(args, f) == <<"asset", args.files[f].key>>

\* The provider deletes the object before it makes another (r2/object.go:132).
AssetGoal(args, f) ==
    LET file == args.files[f]
    IN  Goal([bucket |-> args.r2Bucket.bucketName, key |-> file.key], file.content, FALSE,
             {<<"token">>} \cup BucketRefs(args), UploadDeps(args))

UploadAssets(args) ==
    AllGoals(<< New(<<"token">>,
                    InPlace(args.r2Bucket.bucketName, BucketRefs(args), args.uploadOptsAfter)),
                AllGoals([f \in DOMAIN args.files |-> New(AssetName(args, f), AssetGoal(args, f))]) >>)

AssetNames(args) == {AssetName(args, f) : f \in DOMAIN args.files}

\* A bug: what the caller passed is dropped for the options of the resource.
PurgeZoneCache_Unordered(args) == New(<<"purge">>, InPlace(args.trigger, {}, {}))

PurgeZoneCache(args) == New(<<"purge">>, InPlace(args.trigger, {}, AssetNames(args)))

SitePlanOf(args) ==
    AllGoals(<< WorkerSiteGoals(args),
                When(args.r2Bucket # Unset /\ args.files # <<>>,
                     AllGoals(<< UploadAssets(args), PurgeZoneCache(args) >>)) >>)
=============================================================================
