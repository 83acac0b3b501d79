# Verification of sector7

sector7 is a library of Pulumi components (TypeScript, `packages/sector7`), a
Pulumi provider with resources that have no other provider (Go, `provider`), and
reusable CI actions (`.github/actions`). Three kinds of behaviour in it are hard
to test, and this project is about them:

- clients of remote services, which lose answers and are read by several
  consumers at once: the provider's resources, the contract reader;
- components whose resources depend on each other in an order that must hold
  however often the arguments are edited and wherever a run breaks off;
- what runs beside or after a deployment: the monitor and the site Workers at the
  edge, the builds and pushes of images.

TLC checks the models on small instances; TLAPS proves the central theorems for
every value of the constants.

## 1. Inventory

### Modelled

| component | state | operations | talks to |
|---|---|---|---|
| HTTP client, `provider/internal/httpx` | attempt, context and result of a call | `Do`: attempts, waits, cancellation | the server of every provider resource |
| 1Password item, `provider/onepassword/item.go` | the vault (remote); recorded uuid, hash, managed labels | `Check`, `Diff`, `Create` (find by title, adopt or post), `Update` (read, merge, write), `Delete` | Connect server through httpx; the Pulumi engine |
| LiteLLM key, `provider/litellm/key.go` | the keys on the admin plane (remote), the recorded key | `Check`, `Diff`, `Create` (find, clear, register), `Read`, `Update`, `Delete` | admin plane through httpx and a port-forward; the engine |
| Contract reader and resolver, `deploy-lib/contract.ts`, `resolver.ts` | promise of each item, the StackReferences of either resolver | channel selection, `readContractItem`, Connect and `op` transports, freshness, accessors | Connect server, `op`, the stack that publishes |
| Uptime monitor Worker, `monitor/monitor-script.ts` | D1 tables `probe_results` and `monitor_state` | `scheduled`: probe, insert, select, evaluate, batch, webhooks | the endpoints, D1, the receiver of webhooks |
| Uptime monitor component, `monitor/uptime-monitor.ts`, `d1/d1-query.ts` | its resources | constructor: database, schema query, Worker, cron trigger | the engine |
| Site Worker, `workersite/worker-site-script.ts` | edge cache by versioned url | the generated `fetch` handler, the cache write behind the response | R2, the cache, deployments |
| WorkerSite, AccessGate, R2 objects, purge (`workersite/`, `access/`, `r2/`) | their resources | constructors, `uploadAssets`, `purgeZoneCache` | the engine |
| LiteLLM proxy, configuration, team plan (`litellm/`) | its resources | validation, model groups of teams, fallback map, model list, environment, Secrets, Deployment | the engine |
| Cloud SQL sidecar, `cloudsql/auth-proxy-sidecar.ts` | its resources | four ways to credentials, container, rewritten url | the proxy |
| Tenant, `tenancy/` | its resources | quota with forced defaults, LimitRange, policies, grants | the engine |
| 1Password references, `pulumi-config/op-secret-helpers.ts` | OnePasswordItems | parse, name, refuse, merge | the proxy's environment |
| Nix images, `nix-image/`, `nix-output/` | recorded builds and pushes, the sidecar, the members of push groups | build, push, resolve | checkouts, registries, the engine |
| Pulumi engine (external) | program, state file, what exists | `up`, `refresh`, replacement, deletion | all of them |

What is hard in them, and what makes them correct:

- **httpx.** A call that is not idempotent must reach the server once at most,
  whatever error hides its success; a cancelled call sends nothing more; a call
  returns, and never reports a success that did not happen.
- **1Password item.** Identity is a *title*, which people share: never two items of
  the provider's own under one title, never one of several picked, never a field
  undone that a person wrote and the program does not manage. The GET and the
  PUT are two requests, the replacement is create-then-delete, and the labels to
  clean up come from a state file that does not know of unanswered writes.
- **LiteLLM key.** A registration is not repeatable and its answer may be lost, so a
  live credential can exist that no state file knows. No such key may stay unless
  its registration went unanswered, foreign keys are not revoked, and repeated
  runs must settle.
- **Contract reader.** Readers come before, while and after the fetch of an item
  that the publisher replaces meanwhile: all who are served are served from one
  version, one that is fresh when it is handed out; a failure is not kept; half a
  configuration of Connect never falls back to another credential.
- **Uptime monitor.** Results, state and webhooks are three effects with failures
  between them; nothing stops two cron invocations from overlapping. An alert must
  follow a full streak of failures, the receiver must hear each recorded
  transition, and an outage or recovery must be noticed in the end.
- **Site Worker.** A response is cached after it was sent: a deployment may replace
  and purge what a request is about to put back. A request between two
  deployments must get the file as the program lists it.
- **Components under the engine.** Replacing a resource with a fixed name takes down
  what refers to it; deletions come last; a run may break off between any two
  steps. The pods of a proxy must read keys, configuration and database url that
  fit together; a quota must not shut out the pods of its tenant; a gate must
  stand before each path; a purge must come after the uploads, a Worker after the
  schema; what is declared all along must never be lost on the way; and the runs
  must end with what is declared.
- **Pure plans inside them.** Names that meet after normalization, fallbacks that are
  declared by one name and looked up by another, environments put together from
  five sources.
- **Nix images.** Images with a common base are pushed concurrently unless a group
  orders them, and runs from several checkouts share one record of what was built.

### Not modelled

| component | why |
|---|---|
| LiteLLM team, `litellm/team.go` | the find-or-create and replacement protocol of the item and the key over again, without a `Read` |
| Attic cache and token, `attic/` | one PATCH or POST per operation; the token arithmetic is pure |
| Matrix bot account and room, `matrix/` | a chain of calls per operation with the retries of httpx |
| R2 object, cache purge and D1 query of the provider, `r2/`, `d1/` | one request per operation, which the plans see as one step |
| In-cluster tunnel, `internal/kube` | a failure to connect is the `Crash` of an operation |
| Provider helpers, migrations of its state | no state of their own; renaming of stored properties |
| Wrappers: `litellm/admin.ts`, `onepassword/item.ts`, `gateway/`, `iam/` | each declares one or a few resources from its arguments, in no order of its own |
| `pulumi-config/mixed-config.ts` | copies records of configuration |
| `tenancy.ts` (registry of tenants), pod security labels, the policy for observability | labels and lookups with no step between them |
| Custom scripts, headers, redirects by path, bindings and observability of WorkerSite | passed through |
| Eager previews, sub-outputs and the provenance of a checkout of NixOutput | outputs that nothing in the models reads |
| Read API of the monitor Worker (`fetch`) | changes nothing |
| ADR actions, CI actions and workflows | shell around git, nix and GitHub's API |

## 2. Modules

```
HttpxPolicy ── which outcomes are retried, how many attempts    (constant level)
  ├─ Httpx ──────── implements ──► RemoteCall          HttpxProofs
  ├─ OnePasswordItem ┐                                 OnePasswordItemProofs
  └─ LiteLLMKey      ┴─ extend PulumiEngine            LiteLLMKeyProofs
ContractChannel ── Contract ── implements ──► ItemSnapshot
                                                       ContractProofs
UptimeMonitor                                          UptimeMonitorProofs
EdgeSite      NixImages                                EdgeSiteProofs  NixImagesProofs
Resources ── goals for the engine
  ├─ CloudSqlSidecar ┐
  ├─ LiteLLMConfig   ┴─ LiteLLMProxy ┐
  ├─ OpSecretRefs   Tenancy          ├─ Deploys, which extends DeployEngine
  └─ SitePlan       MonitorPlan      ┘                 DeploysProofs

for TLC:  OnePasswordItemMC  ItemConvergeMC  LiteLLMKeyMC
          ClientsMC  (Httpx, Contract)
          WorkersMC  (UptimeMonitor, EdgeSite, NixImages)
          DeploysMC  (Deploys)
```

`RemoteCall` is the abstract specification of one remote call: applied once at
most unless it is declared idempotent, success means that it was applied, failure
means nothing. `Httpx` is shown to implement it, by TLC and by TLAPS.
`ItemSnapshot` is what readers of a published item may assume: all who are
answered are answered from one version. `Contract` is shown to implement it, by TLC
and by TLAPS.

A proof module extends the component it is about. Four extend the MC module
instead, so that what they prove is the very property a run checks:
`HttpxProofs` extends `ClientsMC`, `UptimeMonitorProofs` `WorkersMC`,
`LiteLLMKeyProofs` `LiteLLMKeyMC`, `OnePasswordItemProofs` `ItemConvergeMC`. The MC
modules instantiate the proof modules of their parts (`ContractProofs` as `Reader`,
`EdgeSiteProofs` as `Site`, `NixImagesProofs` as `Nix`), whose theorems then hold of the
composition.

The resource modules do not repeat the loop of `Do`: they take the policy
(`Attempts`, the outcome kinds) from `HttpxPolicy` and make one step of each
attempt, with the outcome chosen by the network: `ok`, `lost` (applied, error
seen), `dropped` (not applied, error seen), `late` (not applied yet, will be), or a
definitive refusal.

There are two models of the engine, both external. `PulumiEngine` calls the
operations of one provider resource: when it may create, update and delete, given
what is declared, recorded, and what `Diff` said. `DeployEngine` works on the
resources of a program as wholes: it orders them by what they need, and holds
what the components rely on (create-before-delete for generated names,
delete-before-create with the dependents for fixed ones, deletions last).

An MC module that holds several specifications lets a behaviour be of one of them,
which a variable says from the start, while the variables of the others stay;
the fairness is that of each. Two of them hold a second, smaller instance of their
component for what is true under narrower conditions: `Alone` in `LiteLLMKeyMC` (one
alias, no team, no fault that leaves a credential unknown) and `Program` in
`ItemConvergeMC` (one title, people who only create, no lost answer).

### OnePasswordItem (`provider/onepassword/item.go`)

| model | code |
|---|---|
| `items`, `unborn` | the vault of the Connect server; ids are handed out once. An item has, for each label and for none, the values of its fields in their order |
| `late` | requests the client gave up on that Connect still applies |
| `goal` | the inputs of the program (`Goals`: `Check` refuses an empty field list) |
| `st` | `ItemState` in the state file: uuid, title, `contentHash`, `managedLabels` |
| `pending` | old generations the engine still has to delete |
| `kind`, `pc`, `attempt`, `target`, `seen` | the operation in progress: the request it is about to make, the item, what its GET returned |
| `FindItemIDByTitle`, `Get`, `Put`, `Post` | `Create`: `findItemIDByTitle`, then GET + `buildMergedItemBody` + PUT, or POST |
| `Get`, `Put` with `kind = "update"` | `Update`; the labels of before come from the state |
| `BuildMergedItemBody`, `ByLabel`, `ManagedFields` | the merge: declared fields, minus labels managed before, plus the last field of every other label; fields without a label and earlier ones of a label go |
| `Del` | `Delete`, for the recorded item and for pending ones; 404 is success |
| `Hand*` | a person in the vault |
| `Crash` | the process dies, or `connect` fails: nothing is recorded |

### LiteLLMKey (`provider/litellm/key.go`)

`keys` is the plane, by secret (a token hash stands for the secret it hashes);
`goal` and `st` are the inputs and the state; `late` and `unanswered` the
registrations that were given up on (the second for the properties only).
`FindKeyHashesByAlias`, `ClearFound`, `Generate` are the three requests of
`Create`, in their order, each with its retries; `Read`, `Update`, `Delete` are
the handlers of these names. A key whose `/key/info` fails counts as no match
(`uninspected`). `MissingAs` selects which of the two proxies that `key.go`
describes is in use: one that answers 404 or 400 for a missing key, or one that
answers 200 with an error body.

### Httpx (`provider/internal/httpx/httpx.go`)

One record per call: the phase (`attempt`, `backoff`, `done`), the attempt, the
context, what `Do` returned, the requests still on the wire, and how often the
server applied the request. `Once` is one attempt, `Backoff` the select of timer
and context, `Cancel` the engine, `Land` the wire.

### ContractChannel, Contract (`deploy-lib/contract.ts`, `resolver.ts`)

`ContractChannel` holds what is pure: `GetContractChannel` (which of the settings,
each unset, empty, blank or given, select Connect or `op`, and which are refused),
`ParseContractItem`, `Fresh`, `RequireContractField`. In `Contract`, `itemCache` is
the map from items to promises, `fetches` the promises with the request each is
at, `reader` the consumers. `ReadContractItem` takes or makes a promise,
`VaultFound`, `ItemListed`, `ItemRead` are the three answers of Connect, `OpExits`
the one of `op`, `RequestFails` any failure of a request, `Catch` the handler that
takes a rejected promise out of the cache, one microtask later, and `AwaitEnds` what a
reader makes of the promise: parse, freshness at that moment, field. `Resolve` is
the resolver; without a contract it goes to `GetPlatformStackRef` or `GetConfigStack`, each
with a cache of its own (`stackRefCache`, `configStackRefCache`), and `registered` lists the
StackReferences the engine was given.
`Publish`, `Remove` and `Tick` are the publishing stack and the clock.

### UptimeMonitor (`monitor/monitor-script.ts`)

Each slot holds one invocation of `scheduled`: `Probe` (the sequential loop),
`InsertResults` (the one INSERT), `SelectState`, `WriteState` (counters,
transition, the batch), and `SendWebhook` for what it left to `ctx.waitUntil`.
`monitorState` and `probeResults` are the D1 tables. Every D1 statement may fail
before it takes effect, or take effect and lose its reply; the runtime may kill
an invocation. `told` (what the receiver last heard) and `counted` (the results
that `monitor_state` reflects) exist for the properties only.

### EdgeSite (`workersite/worker-site-script.ts`, with `r2/r2object.ts`)

A request goes through `Arrive` (redirect by host, the key of the object), `Match`
(the cache under the version of its Worker), `Get` (R2, or 404), and `Put`, which
writes the cache behind the response, at any later time. A deployment is
`BeginUp`, then `DeployWorker`, `Upload` of each file and `Purge` in the order that
`setting.first` gives them, deletions last, `EndUp` or `Interrupt`. `setting` is
how the site is set up: cache on or off, what is passed as `cacheKeyVersion`
(nothing, a fingerprint of the files, a new value each time), what the program
orders, purge or not.

### NixImages (`nix-image/`, `nix-output/`)

`drvPath` is evaluated when the program runs (`BeginUp`), `sidecar` is the file by which
the build script learns its checkout; `built` and `pushed` are what the state
file records of the two Commands: the inputs they ran for and what they printed.
A Command runs again when its inputs differ (`BuildInputs`: attribute, tag and, unless
`changeDetection` is `none`, the derivation; `PushInputs`: full tag and store path).
`DefaultPushGroupFor`, `PushGroup`, `Registered`, `Dependencies` are the push groups
and the order they give. A push asks for its base (`StartPush`), uploads it
(`Upload`) and writes manifest and tag (`PushManifest`); `Resolve` reads a tag.
`EditTree`, `EditProgram` and `Preview` are the people around it.

### Deploys and the plans

A program is a component with its arguments; `AcceptsOf` says whether its
constructor throws, `PlanOf` which goals it registers. A goal (`Resources`,
`DeployEngine`) has `key` (inputs whose change replaces), `data` (updated in place),
`auto` (a replacement stands beside the old one), `given` (the name is the program's, so
that the create is refused while another generation has it), `refs` (resources whose
outputs it uses), `deps` (what it waits for), `bad` (an `apply` throws).

| module | component | what it computes |
|---|---|---|
| `LiteLLMConfig` | `config.ts`, `team-plan.ts` | `BuildLiteLLMTeamScopedModelGroups`, `ValidateLiteLLMConfig`, `BuildFallbackMap`, `ModelList` |
| `CloudSqlSidecar` | `auth-proxy-sidecar.ts` | `SidecarGoals` for each mode, `BuildContainer`, `RewriteDatabaseUrlForProxy` |
| `LiteLLMProxy` | `litellm-proxy.ts` | `ValidateExtraEnvNameCollisions`, `Env`, the Secrets, `ConfigMap`, `Deployment` |
| `OpSecretRefs` | `op-secret-helpers.ts` | names, keys (ends stripped, the rest replaced, none empty), refusals, one `OnePasswordItem` per Secret, the merge of environments |
| `Tenancy` | `tenant.ts`, `envelope.ts`, `policies.ts` | `QuotaGoal` after `LimitRangeGoal`, `NamespacePolicy`, `GrantGoal` by its slug |
| `SitePlan` | `worker-site.ts`, `access-gate.ts`, `r2object.ts` | bucket, Worker, domains, applications and policies of the gate, uploads, purge |
| `MonitorPlan` | `uptime-monitor.ts`, `d1-query.ts` | database and its name, schema query, Worker, cron trigger |

In `DeployEngine`, `live` holds for each logical name the generations that exist,
`current` the one the state file records, `settled` what the run is done with. `Apply`
creates, updates or replaces beside the old; `DropFor` deletes, for a resource
with a fixed name, first what refers to it; `Sweep` and `Delete` are the end of a
run; `Fail` and `Throw` end it anywhere, `Throw` also where a given name is `Taken`: the
D1 database and the R2 bucket have such names. The edits a family makes are those of
`FollowsOfAll`, which leaves `createNamespace` of a proxy alone (`KeepsNamespace`).

## 3. Runs

| run | question | result |
|---|---|---|
| `item` | every fault, late requests included, and everything a person can do: is an ambiguous title never adopted, does a value by hand that the GET saw, and nobody declares or managed, survive? | holds |
| `item_converge` | where answers may be lost and titles stay: never a second item of the provider's own, and do repeated runs end in the declared state? Where only the program writes and no answer is lost: does "no diff" mean the item holds exactly what is declared, and does the recorded item exist? | holds |
| `item_lost_put` | with no diff, labels the program dropped are gone: when the answers of an `Update`'s PUT are lost, and every POST is answered | **violated** |
| `item_revert` | "the recorded item exists" when a title change is taken back | **violated** |
| `key` | every fault and an administrator, two aliases and two teams: is every key of the provider the recorded one or one whose registration went unanswered, do foreign keys stay? With one alias and no team: does the next `Create` clear what is left, do repeated `up` and `refresh` settle? | holds |
| `key_error_body` | that they settle, against a proxy that reports a missing key as 200 with an error | **violated** |
| `clients` | `Do` with the 3 retries of production: applied once, silent after cancellation, returns, implements `RemoteCall`? Three readers, two versions of an item, every kind of configuration, a failing request, the clock: whole credentials, one fetch at a time, no failure kept, each resolver registers a stack once, fresh when served, one snapshot (`ItemSnapshot`), does every reader end? | holds |
| `monitor_detects` | two overlapping invocations and every fault, killed invocations included: does the recorded status become right and stay right? | holds |
| `monitor_params` | that, with more monitors than one INSERT can bind | **violated** |
| `workers` | monitor invocations in series, D1 statements fail: does each alert follow a full streak whose last failure is stored, is the receiver informed? A site under deployments that break off: fresh between deployments where the order is right, added files visible in any order? Three images from two checkouts: a base uploaded once in a group, and is what is recorded what the checkout of the run holds? | holds |
| `deploys` | each component through every two edits of its arguments and one run that breaks off: do keys, configuration, database url and fallbacks of a proxy fit together, does a variable made from a reference read the key the operator makes of the field's label, does a quota admit its pods, do policies connect, does the gate of each path let through whom it is for, is a Deployment rolled, is nothing lost, is the order kept, and do the runs end with what is declared, where no name it asks for is taken? | holds |
| `litellm_fallback` | whether fallbacks fire when a group is named at its deployment | **violated** |

Every property of a passing run has a mutant in `PROJECT.json`: an operator,
kept next to the one it changes, that breaks the property the way a plausible
edit of the code would.

`deploys` computes the plans of all programs once: `Programs`, `Plans` and `Follows` are
constants of the engine that `DeploysMC` gives the tables of `Deploys`, and
`TablesAssumption` says that they are these.

### Bounds, and why they are enough

- **Retries.** `clients` uses the 3 of production. The resource runs use one: a
  retried request then has a first, a repeated and a last attempt, and further
  attempts repeat the middle.
- **Program edits, work by hand, faults** (`MaxEdits`, `MaxHands`, `MaxFaults`):
  2 or 3 edits declare a resource, change it and change it back or remove it;
  2 faults let a retry fail after a lost answer, or lose one operation and
  interrupt the next. The exhausted bounds are also what "edits and faults are
  over" means in the liveness properties.
- **Ids, titles, labels, values.** Two titles show a rename and its reversal; two
  labels a declared and an unmanaged one; in `item` people also add fields
  without a label and a second field of one; five ids in `item_converge`, so that a POST
  never lacks one; three in `item`, where running out of them ends a behaviour.
- **Keys.** Two secrets are a rotation, one foreign secret the administrator's; two
  aliases and two teams where the question is whom a lookup touches.
- **Contract.** Three readers of one item: before, while and after a fetch; two versions,
  so that a later one could be mixed in; two ticks against an age of one; one failing
  request. Drafts have a label twice, no stamp, values that are no strings.
  Eleven settings: each transport that works, and each way to be wrong.
- **Monitor.** Thresholds 2 and 1 distinguish "reached" from "one short". Counters
  stop at their thresholds: the code compares them with nothing else. Of each
  history the last `AlertThreshold` results are kept. `monitor_params` has two
  monitors and a limit of 15 bound parameters in place of the 13 monitors and 100
  parameters of D1: eight parameters a monitor exceed the limit, one a monitor do
  not.
- **Site.** Two directories and a redirected host, two bodies; the site starts with one
  file and is edited twice (to another content and back), one interruption, one request at a time that starts over: what
  an earlier request leaves is in the cache, and its late `Put` is a state of the one
  request.
- **Images.** Three images: a first, a last and one between, with bases that are
  shared or not; five programs (default group, primed group, images outside,
  two registries with a tag to be resolved, no change detection); two checkouts,
  one edit, one failure.
- **Deploys.** Twenty-two proxies (rotations of keys, the modes of the sidecar, teams, labels
  with blanks at the ends and inside, no namespace of its own, each refusal), ten tenants,
  ten sites, eight monitors; any two edits among those of a family, in the order of the list for the three larger families (`Growing`); one
  run that breaks off at any step. The arguments are chosen, not enumerated.
- **Symmetry** (ids) is used in `item` only, which has no liveness.
- **Deadlock** is checked where the system must always go on: `workers`,
  `monitor_detects`, `monitor_params`. It is off elsewhere: those systems stop when the declared
  state is reached, the bounds are used up, or all calls have returned.

### Fairness

- `Httpx`: weak fairness of `Do`. Every client in the code is built with a
  timeout, so an attempt ends, and a wait is a timer.
- `Contract`: weak fairness of `Program`, the consumers and the fetches: requests
  carry a timeout and the event loop runs what is ready. None of the publisher.
- `OnePasswordItem`: weak fairness of `Provider`, which includes starting a run: an
  operation proceeds because its calls return, and somebody runs `pulumi up`
  while it has something to do.
- `LiteLLMKey`: as above; strong fairness of `Up` and of `StartRead`, since the two
  commands exclude each other and each is only enabled between the runs of the
  other. A team that runs `up` for ever and never `refresh` is not covered: the
  resource deleted by hand is only noticed by `refresh`.
- `UptimeMonitor`: weak fairness of each invocation: the cron trigger keeps
  firing, and the runtime runs what it started. Nothing is assumed of `Kill`,
  which stops with the other faults when `calm` is set.
- `DeployEngine`: weak fairness of `Step`: a run goes on while something is ready, and
  somebody repeats one that broke off.
- `EdgeSite`, `NixImages`: none; their properties are safety.

## 4. Proofs

Each theorem is for every value of the constants that satisfies the named
assumption of its module: any sets of ids, titles, labels, keys, calls, readers,
files and images, any programs, any number of retries, faults and edits. The
assumptions say which values are data of which kind, and that no two kinds meet
(`SettingsAssumption`, `ContractAssumption`, `ProgramsAssumption`, `NamesAssumption`,
`AccessAssumption`, `TablesAssumption`, `ArgsAssumption`), and of a proxy that its keys tell
whose they are and each provider has a variable (`ProxyAssumption`), that its lists are
lists and its references' Secrets have names (`ListsAssumption`); TLC evaluates each of
them in a run.

| theorem | says | needs, besides the assumptions |
|---|---|---|
| `HttpxProofs!TypeCorrect` | `TypeOK` | – |
| `HttpxProofs!AtMostOnceAlways` | a call that is not idempotent is applied once at most | – |
| `HttpxProofs!NothingSentAfterCancel` | `SilentAfterCancel`: a cancelled or returned call sends no further attempt | – |
| `HttpxProofs!ImplementsRemoteCall` | `Spec => Promise!Spec`, the refinement | – |
| `OnePasswordItemProofs!TypeCorrect` | `TypeOK` | – |
| `OnePasswordItemProofs!NeverTwoMade` | never two items of the provider's own under one title | no late requests |
| `OnePasswordItemProofs!HandWrittenSurvives` | `SeenUnmanagedSurvive`, about the last field of a label | – |
| `OnePasswordItemProofs!AdoptsOne` | `AdoptsAtMostOne` | – |
| `OnePasswordItemProofs!ItemExistsWhenPlain`, `ProgramKeepsItem` | the recorded item exists | one title, no lost answers, people only create |
| `OnePasswordItemProofs!InSyncWhenPlain`, `ProgramStaysInSync` | no diff means in sync | the same |
| `LiteLLMKeyProofs!TypeCorrect` | `TypeOK` | – |
| `LiteLLMKeyProofs!NoCredentialLeftBehind` | between commands each key of the provider is the recorded one or went unanswered | – |
| `LiteLLMKeyProofs!ForeignKeysAreKept` | the action property `ForeignKeysKept` | – |
| `LiteLLMKeyProofs!NoStaleCredentialUndisturbed`, `AloneHasNoStaleCredential` | what `Create` registers replaces every earlier key | one alias and team, no failed inspection, nothing late |
| `UptimeMonitorProofs!TypeCorrect` | `TypeOK`, no row counts failures and successes at once | – |
| `UptimeMonitorProofs!AlertsAreJustified` | the action property `AlertJustified` | invocations in series; all faults |
| `UptimeMonitorProofs!ReceiverIsInformed` | `Informed` | invocations in series; failures that are clean |
| `EdgeSiteProofs!FreshAlways` | between deployments a site answers what its program lists | cache off, or uploads first and a new version each time |
| `EdgeSiteProofs!AddedIsVisibleAlways` | an added file is visible: no 404 is remembered | programs that only add |
| `ContractProofs!CachesSoundAlways` | one promise of an item, no stack registered twice by one resolver, no failure kept | – |
| `ContractProofs!CredentialsAlways` | nothing is fetched with half a Connect configuration or over cleartext | – |
| `ContractProofs!ServedFreshAlways` | what a reader is handed is fresh then | – |
| `ContractProofs!ImplementsItemSnapshot` | the refinement of `ItemSnapshot` | – |
| `NixImagesProofs!BaseUploadedOnceAlways` | one push of a serial group at a time, a common base uploaded once | – |
| `NixImagesProofs!ImageOfTreeAlways` | what a finished run records and pushed is what its checkout holds | nobody edits or previews meanwhile (in the statement) |
| `DeploysProofs!SyncedWhenDone` | a run that gets through leaves exactly what its program declares | – |
| `DeploysProofs!NothingIsLost` | the action property `NothingLost` | – |
| `DeploysProofs!WorksInOrder` | the action property `InOrder` | – |
| `DeploysProofs!DeploymentIsRolled` | the action property `Rolled` | no Secret with a fixed name, no run that takes the Namespace away (in the statement) |
| `DeploysProofs!TenantsAreConnected` | `Connected` | – |
| `DeploysProofs!SitesAreGated` | `Gated`: decision and includes | no list of paths names a pattern twice |
| `DeploysProofs!PodsAreServed` | `PodsServed` | what `ProxiesApart` lists (section 6, Proxy) |
| `DeploysProofs!QuotasAdmit` | `QuotaAdmits` | edits go forward (`Growing`), and as long as a tenant has a LimitRange its defaults only become more (`DefaultsGrow`) |
| `DeploysProofs!GroupsAreServed` | `GroupsServed` | `ProxiesNamed`: no deployment has a public name of its own, which is finding 5, and groups of one name have one public name |
| `DeploysProofs!ReferencesAreRead` | `ReferencesRead` | `ReferencesApart`: no two calls choose one Secret, and no variable of a reference is given besides (section 6, Proxy) |

`HttpxProofs` and `UptimeMonitorProofs` restate the theorems of the parts about the
compositions the runs check (`ReaderCachesSound`, `ReaderHasCredentials`,
`ReaderServesFresh`, `ReaderImplementsSnapshot`; `SiteServesFresh`,
`SiteShowsWhatIsAdded`, `ImagesShareTheirBase`, `ImagesFollowTheTree`).

The arguments:

- **AtMostOnceAlways.** The bound on `effects` alone is not inductive: a request
  on the wire may still land. `AttemptInv` counts both against the attempts that
  were sent (`effects + wire <= Sent`), bounds the attempt by `Attempts`, and says
  that a call in `backoff` has an attempt left. A call that is not idempotent has
  one attempt.
- **ImplementsRemoteCall.** The mapping is the identity on `result` and `effects`.
  The step that needs care is `Once` with outcome `lost` on the last attempt, which
  applies the call and reports failure in one step; `AttemptInv` gives the guard
  `MayApply` from the attempts left.
- **TypeCorrect** of the resources. `TypeOK` is not inductive: an update builds its
  body from a state that must exist. `OpOK` adds what each `pc` may rely on (an
  operation runs under a command, an update works on the recorded object).
- **NeverTwoMade.** Between the lookup and the POST nothing may create or retitle an
  item of the provider's own. `TitlesOK` says that ids not handed out are not
  live, that a recorded item carries the recorded title, that GET and PUT keep
  the title of their target, and that when `pc = "post"` no item of the provider's
  own has the declared title. A rename by hand gives up the item: the ghost field
  `origin` then says that it is a person's. With a POST that lands late the conclusion
  is false.
- **AdoptsOne.** `AdoptInv` ties what was written to the item the state records, or to
  the target of the operation in progress, whose lookup found it alone.
- **InSyncWhenPlain.** `SyncInv(t)` is about every point of every operation on the one
  title `t` (`Plain(t)` says what may happen): declared values are in the recorded item
  only, which holds the fields its recorded hash stands for and carries their labels;
  and what a GET returned is what the PUT will find.
- **NoCredentialLeftBehind.** `LiveInv`: also while a command runs, each key the
  provider registered and was told of is the recorded one. `Generate` runs without
  a record (`OpOK`, from delete-before-replace), `Update` keeps the secret, and
  whatever is still on its way is in `unanswered`.
- **ForeignKeysAreKept.** `OwnInv`: a secret the program declares is only registered by the
  provider, a secret of an administrator only by him, once. `FoundInv`: what `Create` is
  about to delete is of the alias and the team that are declared.
- **NoStaleCredentialUndisturbed.** `StaleInv`: every live key of the provider is the
  recorded one, or there is no record; while `Create` clears, all of them are in what it
  found, and when it registers there is none.
- **AlertsAreJustified.** `CountInv`: each failure a row counts is among the last
  results of its monitor (`CountsFailures`), a run about to write holds what
  the table holds (`ReadIsCurrent`, where series is used), and a run is evaluated
  after its results were stored (`StoredFirst`).
- **ReceiverIsInformed.** `PostInv`: the receiver knows the recorded status, or a post
  that tells it is left, and what is left tells the recorded status. A run starts
  when the posts of the last are out.
- **FreshAlways.** `SiteInv` has four parts: `Types`; `CalmInv`, that a request which saw
  no deployment start has what Worker and bucket still hold; `GrewInv`, that
  as long as files are only added no body is ever of anything else than what is listed;
  and `OrderedInv`, that under an ordered setting whatever is cached under the version of
  the program, and whatever a request will put there, is what the program lists. An
  entry of an older version may hold anything.
- **Contract.** The promises, the cache, the readers, the references and the channel
  have an invariant each (`FetchInv`, `CacheInv`, `ReaderInv`, `RefsInv`, `ChannelInv`). The
  cache and the promises point at each other until a rejection is caught; a reader waits
  for a promise of its item that exists; and nobody asked under a channel that is
  refused. The refinement takes the version of what was resolved for the snapshot.
- **Images.** `PushInv`: a push that is under way is due, all it waits for, also through
  others, is done and stays so, and it uploads no base that one of them brought.
  `SettledComputes` proves what the recursive function computes, by the function it is
  equal to. `TreeInv` ties sidecar, derivations and what was built to the checkout of
  the run, and what is recorded as pushed to the registry.
- **Deploys.** `EngineInv` is about the engine alone. `Correct`, the set of names the
  run is done with and whose object is as the plan says, is closed: what it refers to and waits for is in
  it. What `Apply` and `DropFor` take down is `Upward` of the replaced name, which is
  outside every closed set (`UpwardAvoids`, `UpwardWithin`: the
  first level to meet the set would come from one that met it already). So the objects of `Correct` stay (`LiveInv`), every object was
  made from some program (`MadeInv`), objects of fixed names are of generation 1 and
  alone (`FixedInv`), and at the end only what is declared is left (`DoneInv`). `NextChanges` sums up
  what a step can do to objects; `NothingIsLost`, `WorksInOrder` and `DeploymentIsRolled` follow from it
  and from the shapes of the plans: which names a plan has and under which goals.
  `TenantsAreConnected` and `SitesAreGated` say what the objects of a policy or a site hold:
  the first of any object made from a program, the second of what `DoneInv` leaves. Whom an
  application lets through (`Admits`) follows from decision and includes together (`AdmitsIs`).
- **PodsAreServed.** `MadeInv` says which program each object came from, and the pods of
  one program may read Secrets that another one put. `RefsInv` ties them: what a live object
  refers to is live, and has the key that the program of the object gives it. An update in
  place keeps the key, a replacement takes a generation that nothing has and nothing
  mentions (`FreshIsNew`, which needs finitely many objects, `FiniteInv`), and what is dropped has
  no referrer. What the pods read is generated, and therefore all key. So configuration and
  Secrets are as if made with the Deployment, and what is left is about one program: a
  variable that is refused collides, and of those accepted each reads the key of its provider
  (`KeysFit`, `DatabaseUrlFits`).
- **QuotasAdmit.** Two objects, of two programs. `QuotaInv`: a quota is of a program up to
  the present one, and if that has a LimitRange, there is one, of a program in between. It is
  inductive because the quota is put after the LimitRange, and goes before it; a dropped
  LimitRange belonged to a quota that the present program has without it, or that is to go
  too. A quota that is accepted has its defaults in its own program (`QuotaForces`), and
  `DefaultsGrow` carries them to that of the LimitRange.
- **GroupsAreServed.** The configuration is that of the program (`ProxyDone`), the rest is about
  its generator. Clients ask for a group by one name (`ClientsAskFor`). The map keeps one chain
  for a name and `FallbacksAgree` makes it any group's (`FallbacksAre`). The
  group of a capability is in the list the plan is flattened to: `FlattenHas`, where the
  recursive function inside `FlattenSeq` is one that exists (`JoinsExist`, by the least
  length without one). It is alone with its name (`NamesApart`), so the entries of that name are its own.
- **ReferencesAreRead.** Both ends are part of one program, and `DoneIsSynced` makes the objects
  those of its plan. A variable belongs to one reference of one call (`CallsTell`), so `VariableIs`
  and `ItemIs` know what the CHOOSE in each merge picks, and the environment keeps it
  (`VariableReads`). The key is compared with what the operator does to a label, which
  `SyncedAs` says as a relation, without the operator that computes it: `Ends` gives the first and the last
  character that may stay, and `KeyFits` the piece between them. A OnePasswordItem is what has a name of two parts (`OwnNames`), and of one
  Secret there is one.

A run and a proof use the same definitions. Where a definition had a form the prover
cannot see through it has another of the same meaning: goals are put together with
`New`, `When` and `AllGoals` of `Resources` (functions by `[n \in ... |-> ...]`, where TLC's
`:>` and `@@` are opaque), and `Upward` is a union of levels, a recursive function of their
number, instead of a RECURSIVE operator.

Only model-checked:

- all liveness (`RunsConverge`, `AloneConverges`, `Detects`, `CallsReturn`, `ContractAllEnd`,
  `Converges`): fairness and ENABLED are beyond TLAPS;
- the instances in which TLC finds a violation (section 5).


## 5. Findings

1. `item_lost_put`, `item.go:693`. An item is made with one label; a second is added,
   and the PUT of the `Update` is applied while the answers of the attempt and of its
   retry are lost: `Update` fails and `managedLabels` stays. The label is dropped from the
   program again: `Diff` compares with the recorded hash, sees no change, and the label
   stays in the vault. The comment at `item.go:129` promises its removal. In this run every
   POST is answered (`AnsweredPosts`), so that the item is known from the start and
   adoption has no part in it.
2. `item_revert`, `item.go:341`. A title change creates the item of the new title;
   the deletion of the old one is interrupted; the program goes back. `Create` of
   the old title adopts the old item, which the engine then deletes as the
   pending generation: the recorded item is gone, against `item.go:338`.
3. `monitor_params`, `monitor-script.ts:141`. The INSERT binds eight parameters a
   monitor, so D1's cap of 100 allows 12 monitors, not the 100 that
   `monitor-script.ts:219` states. From 13 on each invocation throws before it
   reads the state, and no alert is ever raised.
4. `key_error_body`, `key.go:439`. On the proxy that answers 200 with an error body
   for a missing key (named at `key.go:342`), a `Delete` whose first answer was lost
   never succeeds again, which is what `key.go:433` set out to avoid.
5. `litellm_fallback`, `config.ts:362`. A model entry takes its public name from the
   deployment before the group; `buildFallbackMap` looks at the group only. A group
   whose name is given at its deployment is asked for by a name the map does not
   have, so its fallback never fires and nothing is refused, against
   `config.ts:123`.

## 6. Known limits of the code, and of the statements

The properties above are stated where the code can keep them. These are the
conditions under which it does not; dropping the condition from a statement lets
TLC break it:

- **Item.** A field a person writes between the GET and the PUT is overwritten
  (`item.go:687`; the comment at 690 speaks of the live item), hence
  `SeenUnmanagedSurvive` is about what the GET saw. A field without a label, and one that
  another field of its label follows, is lost whenever an item is merged (`item.go:515-519`),
  though the comment at `item.go:505` says that unmanaged fields survive: hence it is about the last
  field of a label. A POST that lands after the
  client gave up makes a duplicate (`item.go:648`), hence `AtMostOneMade` is without
  `late`. An item deleted by hand answers 404 to each `Update`, and the resource has no
  `Read` that would drop it (`item.go:682`), hence `RunsConverge` is without
  deletions by hand.
- **Key.** A key whose inspection failed survives `Create` (`key.go:232`), and a
  `/key/generate` that lands late is not cleared: hence `NoStaleCredential` excludes
  both. A secret whose registration went unanswered under one team is refused under
  another and found under the first only (`key.go:271`), so with two teams the runs
  do not settle.
- **Monitor.** Two overlapping invocations may both read the row before a transition
  and both post it (`monitor-script.ts:225`); ADR-020 assumes serial execution, and
  nothing in the Worker enforces it. When the batch is committed and its reply lost,
  the invocation returns without webhooks and no later one sees a transition
  (`monitor-script.ts:305`); the same holds for a post that fails and for a killed
  invocation: hence the clean failures of `Informed`. Results of an invocation whose
  evaluation was skipped are stored and not counted (`monitor-script.ts:233`), so
  "consecutive" is about the results that `monitor_state` reflects.
- **Site.** With the cache on, `SiteFreshWhenOrdered` asks for uploads before the Worker
  and a version that is never used again. The default version never changes
  (`worker-site.ts:538`), and a fingerprint comes back with a revert; with uploads that wait
  for the Worker, as `workersite/README.md` shows it, the new Worker caches the old
  object under its new version. What a Worker has put into the cache is not reliably
  purged.
- **Contract.** A stamp in the future counts as fresh; a blank configured token counts as
  given (`contract.ts:212`), so that things are asked for under it; the two resolvers do not know
  of each other's references, so that `getPlatformKubeconfig` with the stack name `config`
  and `getConfigStack` register one stack twice (`resolver.ts:77`, `resolver.ts:254`); the token is not in the key of the cache; the caches of contracts and stacks
  are per process.
- **Proxy.** Secrets with a fixed name (the inline and managed keys of the sidecar) take
  the Deployment down when they are replaced: `Rolled` excludes them. An `envVar` without
  `apiKey` needs a variable nobody checks for; a provider's variable named like a
  reserved one is not refused. Nor are two variables of providers that differ in case only
  (both are one key of the Secret), a reference to a Secret that is called like the
  component's own, and a database url of 127.0.0.1 without the sidecar: `ProxiesApart`, the
  hypothesis of `PodsAreServed`, leaves these three out. OnePasswordItems and the Deployment are not ordered,
  and two calls of `createOnePasswordSecretRefs` may choose one Secret name, which
  `ReferencesApart` leaves out.
- **Tenant.** A default and the quota key that needs it, dropped together, leave a
  window without the default (`tenant.ts:185`): `Growing` keeps such edits out.
  The slug of a grant is the same for `a-b` in `c` and for `a` in `b-c`.
- **AccessGate.** A list that names a path twice, or two patterns that come to one
  application name, is not refused (`access-gate.ts`), and only one of the two would be
  deployed: hence the hypothesis of `SitesAreGated`. Applications are named by the place of their domain and path, so
  that a list that is reordered changes each of them in place, and a run that breaks off in the
  middle leaves a path without one; nor does anything order the gate before the site at the
  first deployment. `Gated` is about the end of a run.
- **Images.** `ImageOfTree` is for runs during which nobody edits the checkout and no
  preview is taken from another one: the derivation is evaluated before the script
  builds, so that a build in between is recorded for another derivation, and a
  preview writes the same sidecar. After a push that failed late, a tag may hold a
  later image than the recorded digest. In resolve mode a digest stays until the tag
  is another. With `changeDetection: "none"` nothing is promised.
- **Engine.** A failed step has no effect; a constructor that throws registers nothing.
  When `createNamespace` goes off, the Namespace goes and with it all that is in it
  (`litellm-proxy.ts:375`), which the engine does not know: `KeepsNamespace` keeps such
  edits out of the runs, and `Rolled` excludes them by itself. A database or a bucket
  whose name is changed and, the deletion of the old one having broken off, changed back, asks for
  a name that is taken (`uptime-monitor.ts:267`, `worker-site.ts:520`): each run then fails at its creation, before
  it comes to deletions, and `Converges` is about programs of which no name is `Taken`.

Abstracted in the models: connection inputs (a Connect token that was rotated since it
was recorded, `item.go:140`), categories, types and urls of items, the order of fields of
different labels, durations and latencies, the decoding of several answers into
one value (`httpx.go:163`), wording and layout everywhere.

## 7. Plan

1. Every safety property of a run has its theorem. Proofs can still gain weaker hypotheses:
   `ProxiesNamed`, for a deployment with a public name that serves one group only, and the
   safety that the liveness properties rest on (a run that is not over has a step to take).
2. **LiteLLMTeam**, with the change of id taken back (`team.go:198`); **MatrixBotAccount**
   (the password change whose answer is lost, `botaccount.go:294`); **AtticCache** (the
   replacement that cannot finish, `cache.go:313`).
