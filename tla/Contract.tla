------------------------------ MODULE Contract ------------------------------
(***************************************************************************)
(* The contract reader and the resolvers on top of it (deploy-lib/         *)
(* contract.ts and resolver.ts) inside one run of a Pulumi program: the    *)
(* mode and the transport, the requests of a fetch, the promise of an item *)
(* that all its readers share, freshness, and the StackReferences of the   *)
(* stacks that have no contract.                                           *)
(*                                                                         *)
(* Actors: the consumers (Readers), the fetches that their calls start,    *)
(* the microtasks that follow the end of a fetch, the stack that publishes *)
(* the items, and the clock.                                               *)
(*                                                                         *)
(* Abstractions: the reason of a failure (timeout, refused connection,     *)
(* status, missing or locked op, ambiguous vault) is left out: it is one   *)
(* failure, and its wording is about nothing here.  The hooks that tests   *)
(* use to replace op and to clear the caches are not part of a run.        *)
(***************************************************************************)
EXTENDS ContractChannel

CONSTANTS
    Readers,
    Ask,             \* what each reader asks for: title, label, parsed
    PlatformStacks,  \* the stacks that calls without a contract ask for, through
    ConfigStacks,    \* getPlatformStackRef and through getConfigStack
    Titles,
    Settings,        \* the configurations of a stack
    Drafts,          \* what a publisher may put into an item
    Stamp, Current,  \* in a draft: the time and the version of publication
    NoItem,
    MaxVersions,     \* bound on what the publisher does
    MaxTime,
    MaxFaults        \* bound on requests that fail

ContractAssumption ==
    /\ \A r \in Readers : Ask[r].title \in Titles
    /\ {MaxVersions, MaxTime, MaxFaults} \subseteq Nat

VARIABLES
    setting,         \* the configuration of this stack, fixed for the run
    vault,           \* the items of the vault, in the order of their creation
    versions,        \* how often an item was published or removed
    now,
    itemCache,       \* the promise cached for each title, 0 for none
    fetches,         \* all promises of the run
    reader,          \* how far each consumer is, and what it got
    stackRefCache,        \* the keys in the cache of getPlatformStackRef
    configStackRefCache,  \* and in that of getConfigStack
    registered,           \* the StackReferences registered with the engine, by whom
    faults

world   == <<vault, versions, now>>
refs    == <<stackRefCache, configStackRefCache, registered>>
vars    == <<setting, world, itemCache, fetches, reader, refs, faults>>

channel == GetContractChannel(setting)

Pending == {"vault", "list", "item", "op"}     \* a request is out
Ids     == 1 .. MaxVersions

\* A StackReference, and which of the two resolvers registered it.
Reference(by, key) == [by |-> by, stack |-> key]
References ==
    {Reference("platform", k) : k \in PlatformStacks}
        \cup {Reference("config", k) : k \in ConfigStacks}

TypeOK ==
    /\ setting \in Settings
    /\ \A i \in DOMAIN vault : vault[i] = NoItem \/ vault[i].title \in Titles
    /\ versions \in 0 .. MaxVersions
    /\ now \in 0 .. MaxTime
    /\ itemCache \in [Titles -> 0 .. Len(fetches)]
    /\ \A p \in DOMAIN fetches :
          /\ fetches[p].title \in Titles
          /\ fetches[p].stage \in Pending \cup {"ok", "failed", "caught"}
    /\ reader \in [Readers -> [pc      : {"idle", "asked", "awaiting", "served", "failed"},
                               promise : 0 .. Len(fetches)]]
    /\ stackRefCache \subseteq PlatformStacks
    /\ configStackRefCache \subseteq ConfigStacks
    /\ \A k \in DOMAIN registered : registered[k] \in References
    /\ faults \in 0 .. MaxFaults

Init ==
    /\ setting \in Settings
    /\ vault = <<>> /\ versions = 0 /\ now = 0
    /\ itemCache = [t \in Titles |-> 0]
    /\ fetches = <<>>
    /\ reader = [r \in Readers |-> [pc |-> "idle", promise |-> 0]]
    /\ stackRefCache = {} /\ configStackRefCache = {} /\ registered = <<>>
    /\ faults = 0

-----------------------------------------------------------------------------
(* The consumers: resolver.ts, and readContract behind it *)

MoveTo(r, pc) == reader' = [reader EXCEPT ![r].pc = pc]

\* getPlatformStackRef.
GetPlatformStackRef(key) ==
    /\ IF key \in stackRefCache
       THEN UNCHANGED <<stackRefCache, registered>>
       ELSE /\ stackRefCache' = stackRefCache \cup {key}
            /\ registered' = Append(registered, Reference("platform", key))
    /\ UNCHANGED configStackRefCache

\* Mutant: the reference is looked for in the cache of the other resolver.
GetConfigStack_OtherCache(key) ==
    /\ IF key \in stackRefCache
       THEN UNCHANGED <<configStackRefCache, registered>>
       ELSE /\ configStackRefCache' = configStackRefCache \cup {key}
            /\ registered' = Append(registered, Reference("config", key))
    /\ UNCHANGED stackRefCache

\* The end of getConfigStack, which has a cache of its own: a stack that the
\* platform's accessors already refer to (their stackName is free) is registered
\* once more.
GetConfigStack(key) ==
    /\ IF key \in configStackRefCache
       THEN UNCHANGED <<configStackRefCache, registered>>
       ELSE /\ configStackRefCache' = configStackRefCache \cup {key}
            /\ registered' = Append(registered, Reference("config", key))
    /\ UNCHANGED stackRefCache

\* The call of a consumer where the stack has no contract.
GetStackRef ==
    \/ \E k \in PlatformStacks : GetPlatformStackRef(k)
    \/ \E k \in ConfigStacks : GetConfigStack(k)

\* getPlatformKubeconfig, getApiServerHost and getConfigStack decide the mode
\* again at every call.  A reference that lacks the output fails later, inside
\* the engine.
Resolve(r) ==
    /\ reader[r].pc = "idle"
    /\ \/ channel = NoChannel /\ MoveTo(r, "served") /\ GetStackRef
       \/ channel = ChannelError /\ MoveTo(r, "failed") /\ UNCHANGED refs
       \/ /\ channel \notin {NoChannel, ChannelError}
          /\ MoveTo(r, "asked") /\ UNCHANGED refs
    /\ UNCHANGED <<setting, world, itemCache, fetches, faults>>

FirstRequest ==
    IF channel.kind = "op" THEN "op"
    ELSE IF channel.vault = "id" THEN "list" ELSE "vault"

\* Mutant: only the fields of a finished fetch are cached.
ReadContractItem_CachesResults(r) ==
    LET t == Ask[r].title IN
    /\ reader[r].pc = "asked"
    /\ IF itemCache[t] # 0 /\ fetches[itemCache[t]].stage = "ok"
       THEN /\ reader' = [reader EXCEPT ![r] = [pc |-> "awaiting", promise |-> itemCache[t]]]
            /\ UNCHANGED <<fetches, itemCache>>
       ELSE /\ fetches' = Append(fetches, [title |-> t, stage |-> FirstRequest, item |-> NoItem])
            /\ itemCache' = [itemCache EXCEPT ![t] = Len(fetches')]
            /\ reader' = [reader EXCEPT ![r] = [pc |-> "awaiting", promise |-> Len(fetches')]]
    /\ UNCHANGED <<setting, world, refs, faults>>

\* readContractItemAsync up to its await: the apply runs once the token is
\* known, joins the cached promise or starts a fetch and caches its promise.
ReadContractItem(r) ==
    LET t == Ask[r].title IN
    /\ reader[r].pc = "asked"
    /\ IF itemCache[t] # 0
       THEN /\ reader' = [reader EXCEPT ![r] = [pc |-> "awaiting", promise |-> itemCache[t]]]
            /\ UNCHANGED <<fetches, itemCache>>
       ELSE /\ fetches' = Append(fetches, [title |-> t, stage |-> FirstRequest, item |-> NoItem])
            /\ itemCache' = [itemCache EXCEPT ![t] = Len(fetches')]
            /\ reader' = [reader EXCEPT ![r] = [pc |-> "awaiting", promise |-> Len(fetches')]]
    /\ UNCHANGED <<setting, world, refs, faults>>

\* Mutant: an item is judged once, when it is fetched.
Accepted_NotRechecked(r, item) ==
    LET parsed == ParseContractItem(item, Ask[r].title)
    IN  Project(parsed.fields, Ask[r].label, Ask[r].parsed)

\* What is done after the await, with the time of each reader.
Accepted(r, item) ==
    LET parsed == ParseContractItem(item, Ask[r].title)
    IN  /\ Fresh(channel, parsed.fields, now)
        /\ Project(parsed.fields, Ask[r].label, Ask[r].parsed)

\* The promise is settled, and the handler that was registered first has run.
AwaitEnds(r) ==
    /\ reader[r].pc = "awaiting"
    /\ LET f == fetches[reader[r].promise] IN
          \/ f.stage = "caught" /\ MoveTo(r, "failed")
          \/ f.stage = "ok" /\ MoveTo(r, IF Accepted(r, f.item) THEN "served" ELSE "failed")
    /\ UNCHANGED <<setting, world, itemCache, fetches, refs, faults>>

-----------------------------------------------------------------------------
(* A fetch: connectFetchItem and opFetchItem *)

Titled(t) == {i \in DOMAIN vault : vault[i] # NoItem /\ vault[i].title = t}

Turn(p, stage, item) ==
    /\ fetches' = [fetches EXCEPT ![p].stage = stage, ![p].item = item]
    /\ UNCHANGED <<setting, world, itemCache, reader, refs>>

\* fetchItemFields: the document arrives and is parsed.
Parse(p, item) ==
    Turn(p, IF ParseContractItem(item, fetches[p].title).ok THEN "ok" ELSE "failed", item)

VaultFound(p) ==
    /\ fetches[p].stage = "vault"
    /\ Turn(p, "list", NoItem)
    /\ UNCHANGED faults

\* Mutant: the fetch waits for the publisher.
ItemListed_Waits(p) ==
    LET found == Titled(fetches[p].title) IN
    /\ fetches[p].stage = "list"
    /\ Cardinality(found) = 1
    /\ \E i \in found : Turn(p, "item", i)
    /\ UNCHANGED faults

\* Exactly one item of the title.  What is remembered is its id.
ItemListed(p) ==
    LET found == Titled(fetches[p].title) IN
    /\ fetches[p].stage = "list"
    /\ IF Cardinality(found) = 1
       THEN \E i \in found : Turn(p, "item", i)
       ELSE Turn(p, "failed", NoItem)
    /\ UNCHANGED faults

\* The item may be gone, or carry another document by now.
ItemRead(p) ==
    /\ fetches[p].stage = "item"
    /\ LET i == fetches[p].item IN
       IF vault[i] = NoItem THEN Turn(p, "failed", NoItem) ELSE Parse(p, vault[i])
    /\ UNCHANGED faults

\* `op item get` looks up and reads in one.
OpExits(p) ==
    LET found == Titled(fetches[p].title) IN
    /\ fetches[p].stage = "op"
    /\ IF Cardinality(found) = 1
       THEN \E i \in found : Parse(p, vault[i])
       ELSE Turn(p, "failed", NoItem)
    /\ UNCHANGED faults

\* A request fails or runs into its timeout; an op that is locked, missing or
\* killed.
RequestFails(p) ==
    /\ fetches[p].stage \in Pending
    /\ faults < MaxFaults
    /\ faults' = faults + 1
    /\ Turn(p, "failed", NoItem)

\* Mutant: a rejected promise stays.
Catch_Keeps(p) ==
    /\ fetches[p].stage = "failed"
    /\ fetches' = [fetches EXCEPT ![p].stage = "caught"]
    /\ UNCHANGED <<setting, world, itemCache, reader, refs, faults>>

\* The handler registered with the fetch: it runs before any reader resumes,
\* and takes nothing but its own promise out of the cache.
Catch(p) ==
    /\ fetches[p].stage = "failed"
    /\ fetches' = [fetches EXCEPT ![p].stage = "caught"]
    /\ itemCache' = [t \in Titles |-> IF itemCache[t] = p THEN 0 ELSE itemCache[t]]
    /\ UNCHANGED <<setting, world, reader, refs, faults>>

-----------------------------------------------------------------------------
(* The publisher and the clock *)

\* A draft becomes a document: its version, and when it was published.
Fill(draft, t, version, time) ==
    [object  |-> draft.object,
     title   |-> t,
     version |-> version,
     fields  |-> [i \in DOMAIN draft.fields |->
                    [label |-> draft.fields[i].label,
                     value |-> CASE draft.fields[i].value = Stamp   -> time
                                 [] draft.fields[i].value = Current -> version
                                 [] OTHER                           -> draft.fields[i].value]]]

ByPublisher ==
    /\ versions < MaxVersions
    /\ versions' = versions + 1
    /\ UNCHANGED <<setting, now, itemCache, fetches, reader, refs, faults>>

\* A new item, or a new document in the one there is.
Publish(t) ==
    /\ ByPublisher
    /\ \E draft \in Drafts :
          LET document == Fill(draft, t, versions + 1, now) IN
          \/ vault' = Append(vault, document)
          \/ \E i \in Titled(t) : vault' = [vault EXCEPT ![i] = document]

Remove(t) ==
    /\ ByPublisher
    /\ \E i \in Titled(t) : vault' = [vault EXCEPT ![i] = NoItem]

Tick ==
    /\ now < MaxTime
    /\ now' = now + 1
    /\ UNCHANGED <<setting, vault, versions, itemCache, fetches, reader, refs, faults>>

-----------------------------------------------------------------------------

Consume(r) == Resolve(r) \/ ReadContractItem(r) \/ AwaitEnds(r)

Fetch(p) ==
    VaultFound(p) \/ ItemListed(p) \/ ItemRead(p) \/ OpExits(p) \/ RequestFails(p) \/ Catch(p)

Program == (\E r \in Readers : Consume(r)) \/ (\E p \in DOMAIN fetches : Fetch(p))

World == (\E t \in Titles : Publish(t) \/ Remove(t)) \/ Tick

Next == Program \/ World

Spec == Init /\ [][Next]_vars

\* Every request has a timeout, and the event loop runs what is ready.
FairSpec == Spec /\ WF_vars(Program)

-----------------------------------------------------------------------------
(* Properties *)

\* Nobody fetches an item while a fetch of it is under way: the readers of an
\* item share one promise, also those that come before it is settled.
OneFetch ==
    \A p, q \in DOMAIN fetches :
        /\ fetches[p].stage \in Pending /\ fetches[q].stage \in Pending
        /\ fetches[p].title = fetches[q].title
        => p = q

\* A failure is nobody's but of those who waited for it: once its handler has
\* run, a later reader starts over.
FailureNotKept ==
    \A t \in Titles : itemCache[t] # 0 => fetches[itemCache[t]].stage # "caught"

\* A reader that is served gets an item that is no older than the bound at
\* that moment, however long the item has been in the cache.
ContractServedFresh ==
    [][ \A r \in Readers :
            /\ reader[r].pc = "awaiting" /\ reader'[r].pc = "served"
            /\ channel.maxAgeHours # NoAge
            => LET fields == ParseContractItem(fetches[reader[r].promise].item, Ask[r].title).fields
               IN  /\ "producedAt" \in DOMAIN fields
                   /\ now - fields["producedAt"] <= channel.maxAgeHours ]_vars

\* Nothing is read, over either transport, with a Connect host and no token, with
\* a token and no host, or over cleartext, and op is used only where Connect is
\* not configured at all.  A token from the stack's configuration counts as given
\* here, also one that turns out blank: it is a secret nobody can look into yet.
ContractCredentials ==
    Len(fetches) > 0 =>
        /\ ConnectHost(setting) # "http"
        /\ ConnectHost(setting) # "unset" <=> HasToken(setting)
        /\ channel.kind = "op" => ~HasToken(setting)

\* Each of the two resolvers registers a stack once, in whatever order and how
\* often consumers call it: a StackReference is a resource, and the engine refuses
\* a second one of the same name.  (Nothing keeps the two resolvers from
\* registering the same stack, one each.)
StackRefsOnce ==
    \A k, l \in DOMAIN registered :
        registered[k].by = registered[l].by /\ registered[k].stack = registered[l].stack => k = l

\* The caches of a program hold what they should: one fetch of an item at a
\* time, no failure longer than its waiters, no stack twice from one resolver.
ContractCachesSound == TypeOK /\ OneFetch /\ FailureNotKept /\ StackRefsOnce

\* Every reader ends.
AllEnd == <>(\A r \in Readers : reader[r].pc \in {"served", "failed"})

\* The readers of an item that are served are served from one version of it.
ChosenVersion(t) ==
    LET done == {p \in DOMAIN fetches : fetches[p].title = t /\ fetches[p].stage = "ok"}
    IN  IF done = {} THEN 0 ELSE fetches[CHOOSE p \in done : TRUE].item.version

Answer(r) ==
    CASE reader[r].pc = "served" /\ reader[r].promise # 0 ->
            fetches[reader[r].promise].item.version
      [] reader[r].pc = "failed" -> -1
      [] OTHER -> 0

TitleAsked(r) == Ask[r].title

\* Without a contract no reader answers here: the stack it refers to does.
Snapshot == INSTANCE ItemSnapshot WITH
    Titles   <- Titles,
    Readers  <- Readers,
    Versions <- 1 .. MaxVersions,
    TitleOf  <- TitleAsked,
    None     <- 0,
    Failed   <- -1,
    chosen   <- [t \in Titles |-> ChosenVersion(t)],
    answer   <- [r \in Readers |-> Answer(r)]

\* Detailed reader implements the abstract one: one snapshot for everybody.
ContractOneSnapshot == Snapshot!Spec
=============================================================================
