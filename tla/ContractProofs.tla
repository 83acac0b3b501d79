--------------------------- MODULE ContractProofs ---------------------------
(***************************************************************************)
(* Theorems about the contract reader, for any readers, titles, settings,  *)
(* drafts and bounds: its caches, its credentials, the age of what it      *)
(* hands out, and that all readers of an item work with one version of it. *)
(***************************************************************************)
EXTENDS Contract, TLAPS

Stages == Pending \cup {"ok", "failed", "caught"}
Places == {"idle", "asked", "awaiting", "served", "failed"}

\* Everything a publisher may ever write.
Documents ==
    {Fill(draft, t, version, time) :
        draft \in Drafts, t \in Titles, version \in 1 .. MaxVersions, time \in 0 .. MaxTime}

Items   == Documents \cup {NoItem}
Fetches == [title : Titles, stage : Stages, item : Items \cup Nat]

RefTypes ==
    /\ stackRefCache \subseteq PlatformStacks
    /\ configStackRefCache \subseteq ConfigStacks
    /\ registered \in Seq(References)

Types ==
    /\ setting \in Settings
    /\ vault \in Seq(Items)
    /\ versions \in 0 .. MaxVersions
    /\ now \in 0 .. MaxTime
    /\ itemCache \in [Titles -> Nat]
    /\ fetches \in Seq(Fetches)
    /\ reader \in [Readers -> [pc : Places, promise : Nat]]
    /\ RefTypes
    /\ faults \in 0 .. MaxFaults

-----------------------------------------------------------------------------
(* What the operators return *)

LEMMA Filled ==
    ASSUME NEW d \in Documents
    PROVE  d.title \in Titles /\ d.version \in 1 .. MaxVersions
  BY DEF Documents, Fill

LEMMA FillIn ==
    ASSUME Types, ContractAssumption, NEW draft \in Drafts, NEW t \in Titles,
           versions < MaxVersions
    PROVE  Fill(draft, t, versions + 1, now) \in Documents
  <1>1. versions + 1 \in 1 .. MaxVersions /\ now \in 0 .. MaxTime
    BY DEF Types, ContractAssumption
  <1> QED BY <1>1 DEF Documents

\* A document that parses is what it was found under.
LEMMA Parsed ==
    ASSUME NEW item, NEW t, ParseContractItem(item, t).ok PROVE item.title = t
  BY DEF ParseContractItem, BadItem

LEMMA TitledItem ==
    ASSUME Types, NEW t, NEW i \in Titled(t)
    PROVE  i \in 1 .. Len(vault) /\ vault[i] \in Documents /\ vault[i].title = t
  BY DEF Types, Titled, Items

LEMMA FirstStage == FirstRequest \in {"vault", "list", "op"} /\ FirstRequest \in Pending
  BY DEF FirstRequest, Pending

LEMMA FetchTyped ==
    ASSUME Types, NEW p \in DOMAIN fetches
    PROVE  fetches[p] \in Fetches /\ fetches[p].title \in Titles /\ p \in Nat \ {0}
  <1>1. fetches[p] \in Fetches /\ p \in Nat \ {0}
    BY DEF Types
  <1> QED BY <1>1 DEF Fetches

-----------------------------------------------------------------------------
(* Types *)

LEMMA InitTypes == ASSUME ContractAssumption, Init PROVE Types
  BY DEF Init, Types, ContractAssumption, Places, RefTypes, StackRefsOnce

Turned(f, stage, item) == [f EXCEPT !.stage = stage, !.item = item]

LEMMA TurnedFetch ==
    ASSUME NEW f \in Fetches, NEW stage \in Stages, NEW item \in Items \cup Nat
    PROVE  /\ Turned(f, stage, item) \in Fetches
           /\ Turned(f, stage, item).title = f.title
           /\ Turned(f, stage, item).stage = stage
           /\ Turned(f, stage, item).item = item
  BY DEF Fetches, Turned

\* What a turn of a fetch leaves.
LEMMA TurnTypes ==
    ASSUME Types, NEW p \in DOMAIN fetches, NEW stage \in Stages,
           NEW item \in Items \cup Nat, Turn(p, stage, item)
    PROVE  /\ fetches' \in Seq(Fetches) /\ Len(fetches') = Len(fetches)
           /\ fetches'[p] \in Fetches /\ fetches'[p].title = fetches[p].title
           /\ fetches'[p].stage = stage /\ fetches'[p].item = item
           /\ \A q \in DOMAIN fetches : q # p => fetches'[q] = fetches[q]
  <1>1. fetches \in Seq(Fetches) /\ fetches[p] \in Fetches
    BY DEF Types
  <1> DEFINE f == Turned(fetches[p], stage, item)
  <1>3. fetches' = [fetches EXCEPT ![p] = f]
    BY DEF Turn, Turned
  <1>4. f \in Fetches /\ f.title = fetches[p].title /\ f.stage = stage /\ f.item = item
    BY <1>1, TurnedFetch
  <1> QED BY <1>1, <1>3, <1>4

-----------------------------------------------------------------------------
(* The invariant: the cache holds the fetch of a title that is under way or *)
(* ended well, and no other fetch of it has; a reader holds a fetch of what *)
(* it asked for.                                                            *)

FetchInv(p) ==
    /\ fetches[p].stage # "caught" => itemCache[fetches[p].title] = p
    /\ fetches[p].stage = "item" => fetches[p].item \in DOMAIN vault
    /\ fetches[p].stage = "ok" => fetches[p].item \in Documents

CacheInv(t) ==
    itemCache[t] # 0 =>
        /\ itemCache[t] \in DOMAIN fetches
        /\ fetches[itemCache[t]].title = t
        /\ fetches[itemCache[t]].stage # "caught"

ReaderInv(r) ==
    /\ reader[r].pc \in {"idle", "asked"} => reader[r].promise = 0
    /\ reader[r].pc = "awaiting" => reader[r].promise # 0
    /\ reader[r].promise # 0 =>
          /\ reader[r].promise \in DOMAIN fetches
          /\ fetches[reader[r].promise].title = Ask[r].title
    /\ reader[r].pc = "served" /\ reader[r].promise # 0 =>
          fetches[reader[r].promise].stage = "ok"
    /\ reader[r].pc = "asked" => channel \notin {NoChannel, ChannelError}

RefsInv ==
    /\ \A k \in DOMAIN registered :
          registered[k].stack \in IF registered[k].by = "platform" THEN stackRefCache
                                                                  ELSE configStackRefCache
    /\ StackRefsOnce

ChannelInv == Len(fetches) > 0 => channel \notin {NoChannel, ChannelError}

Inv ==
    /\ Types
    /\ \A p \in DOMAIN fetches : FetchInv(p)
    /\ \A t \in Titles : CacheInv(t)
    /\ \A r \in Readers : ReaderInv(r)
    /\ RefsInv
    /\ ChannelInv

LEMMA InitInv == ASSUME ContractAssumption, Init PROVE Inv
  <1>1. Types
    BY InitTypes
  <1>2. \A r \in Readers : ReaderInv(r)
    BY DEF Init, ReaderInv
  <1> QED BY <1>1, <1>2 DEF Init, Inv, CacheInv, RefsInv, ChannelInv, RefTypes, StackRefsOnce

\* What a request of a fetch comes to.
Turns(p) ==
    \E stage \in Pending \cup {"ok", "failed"}, item \in Items \cup Nat :
        /\ Turn(p, stage, item)
        /\ fetches[p].stage \in Pending
        /\ stage = "ok" => item \in Documents
        /\ stage = "item" => item \in DOMAIN vault

LEMMA EndTurns ==
    ASSUME NEW p, fetches[p].stage \in Pending, Turn(p, "failed", NoItem) PROVE Turns(p)
  BY DEF Turns, Items

LEMMA MoveTurns ==
    ASSUME NEW p, fetches[p].stage \in Pending, NEW i \in Nat, i \in DOMAIN vault,
           Turn(p, "item", i)
    PROVE  Turns(p)
  BY DEF Turns, Pending

\* Parsed or not, a document ends the fetch.
LEMMA ParseTurns ==
    ASSUME NEW p, fetches[p].stage \in Pending, NEW item \in Documents, Parse(p, item)
    PROVE  Turns(p)
  <1> DEFINE stage == IF ParseContractItem(item, fetches[p].title).ok THEN "ok" ELSE "failed"
  <1>1. Turn(p, stage, item)
    BY DEF Parse
  <1>2. stage \in {"ok", "failed"}
    OBVIOUS
  <1>3. item \in Items \cup Nat
    BY DEF Items
  <1> HIDE DEF stage
  <1>4. stage # "item" /\ stage \in Pending \cup {"ok", "failed"}
    BY <1>2
  <1> QED BY <1>1, <1>3, <1>4 DEF Turns

LEMMA FetchTurns ==
    ASSUME Inv, NEW p \in DOMAIN fetches, Fetch(p)
    PROVE  Catch(p) \/ Turns(p)
  <1>0. Types /\ FetchInv(p)
    BY DEF Inv
  <1>1. /\ Titled(fetches[p].title) \subseteq DOMAIN vault
        /\ DOMAIN vault \subseteq Nat
    BY <1>0 DEF Titled, Types
  <1>2. CASE VaultFound(p)
    <2>1. "list" \in Pending /\ fetches[p].stage \in Pending
      BY <1>2 DEF VaultFound, Pending
    <2> QED BY <1>2, <2>1 DEF VaultFound, Turns, Items
  <1>3. CASE ItemListed(p)
    <2>1. fetches[p].stage \in Pending
      BY <1>3 DEF ItemListed, Pending
    <2>2. \/ Turn(p, "failed", NoItem)
          \/ \E i \in Titled(fetches[p].title) : Turn(p, "item", i)
      BY <1>3 DEF ItemListed
    <2> QED BY <1>1, <2>1, <2>2, EndTurns, MoveTurns
  <1>4. CASE ItemRead(p)
    <2>1. fetches[p].stage \in Pending
      BY <1>4 DEF ItemRead, Pending
    <2>2. CASE Turn(p, "failed", NoItem)
      BY <2>1, <2>2, EndTurns
    <2>3. CASE vault[fetches[p].item] # NoItem /\ Parse(p, vault[fetches[p].item])
      <3>1. fetches[p].item \in DOMAIN vault
        BY <1>0, <1>4 DEF ItemRead, FetchInv
      <3>2. vault[fetches[p].item] \in Documents
        BY <1>0, <2>3, <3>1 DEF Types, Items
      <3> QED BY <2>1, <2>3, <3>2, ParseTurns
    <2> QED BY <1>4, <2>2, <2>3 DEF ItemRead
  <1>5. CASE OpExits(p)
    <2>1. fetches[p].stage \in Pending
      BY <1>5 DEF OpExits, Pending
    <2>2. \/ Turn(p, "failed", NoItem)
          \/ \E i \in Titled(fetches[p].title) : Parse(p, vault[i])
      BY <1>5 DEF OpExits
    <2> QED BY <1>0, <2>1, <2>2, EndTurns, TitledItem, ParseTurns
  <1>6. CASE RequestFails(p)
    BY <1>6, EndTurns DEF RequestFails
  <1> QED BY <1>2, <1>3, <1>4, <1>5, <1>6 DEF Fetch

-----------------------------------------------------------------------------
(* Every step keeps it *)

LEMMA SameChannel == ASSUME UNCHANGED setting PROVE channel' = channel
  BY DEF channel

\* An end or a turn of one fetch: the others, and the readers that are served,
\* keep theirs.
LEMMA TurnKeeps ==
    ASSUME Inv, NEW p \in DOMAIN fetches, Turns(p), faults' \in 0 .. MaxFaults
    PROVE  Inv'
  <1>1. PICK stage \in Pending \cup {"ok", "failed"}, item \in Items \cup Nat :
          /\ Turn(p, stage, item)
          /\ fetches[p].stage \in Pending
          /\ stage = "ok" => item \in Documents
          /\ stage = "item" => item \in DOMAIN vault
    BY DEF Turns
  <1>2. UNCHANGED <<setting, vault, versions, now, itemCache, reader, refs>>
    BY <1>1 DEF Turn, world, refs
  <1>3. stage \in Stages /\ stage # "caught" /\ fetches[p].stage \notin {"ok", "failed", "caught"}
    BY <1>1 DEF Stages, Pending
  <1>4. Types
    BY DEF Inv
  <1>5. /\ fetches' \in Seq(Fetches) /\ Len(fetches') = Len(fetches)
        /\ fetches'[p].title = fetches[p].title
        /\ fetches'[p].stage = stage /\ fetches'[p].item = item
        /\ \A q \in DOMAIN fetches : q # p => fetches'[q] = fetches[q]
    BY <1>1, <1>3, <1>4, TurnTypes
  <1>6. DOMAIN fetches' = DOMAIN fetches
    BY <1>4, <1>5 DEF Types
  <1>7. Types'
    BY <1>2, <1>4, <1>5 DEF Types, RefTypes, StackRefsOnce, refs
  <1>8. \A q \in DOMAIN fetches' : FetchInv(q)'
    BY <1>1, <1>2, <1>3, <1>5, <1>6 DEF Inv, FetchInv
  <1>9. \A t \in Titles : CacheInv(t)'
    BY <1>2, <1>3, <1>5, <1>6 DEF Inv, CacheInv
  <1>10. \A r \in Readers : ReaderInv(r)'
    BY <1>2, <1>3, <1>5, <1>6, SameChannel DEF Inv, ReaderInv
  <1>11. RefsInv' /\ ChannelInv'
    BY <1>2, <1>5, SameChannel DEF Inv, RefsInv, ChannelInv, RefTypes, StackRefsOnce, refs
  <1> QED BY <1>7, <1>8, <1>9, <1>10, <1>11 DEF Inv

LEMMA CatchKeeps == ASSUME Inv, NEW p \in DOMAIN fetches, Catch(p) PROVE Inv'
  <1>1. /\ fetches[p].stage = "failed"
        /\ fetches' = [fetches EXCEPT ![p].stage = "caught"]
        /\ itemCache' = [t \in Titles |-> IF itemCache[t] = p THEN 0 ELSE itemCache[t]]
        /\ UNCHANGED <<setting, vault, versions, now, reader, refs, faults>>
    BY DEF Catch, world, refs
  <1>2. Types /\ fetches[p] \in Fetches
    BY DEF Inv, Types
  <1> DEFINE f == [fetches[p] EXCEPT !.stage = "caught"]
  <1>3. "caught" \in Stages
    BY DEF Stages
  <1>4. f \in Fetches /\ f.title = fetches[p].title /\ f.stage = "caught"
    BY <1>2, <1>3 DEF Fetches
  <1>5. fetches' = [fetches EXCEPT ![p] = f]
    BY <1>1
  <1> HIDE DEF f
  <1>6. /\ fetches' \in Seq(Fetches) /\ Len(fetches') = Len(fetches)
        /\ DOMAIN fetches' = DOMAIN fetches
        /\ fetches'[p].title = fetches[p].title /\ fetches'[p].stage = "caught"
        /\ \A q \in DOMAIN fetches : q # p => fetches'[q] = fetches[q]
    BY <1>2, <1>4, <1>5 DEF Types
  <1>7. itemCache' \in [Titles -> Nat]
    BY <1>1, <1>2 DEF Types
  <1>8. Types'
    BY <1>1, <1>2, <1>6, <1>7 DEF Types, RefTypes, StackRefsOnce, refs
  <1>9. \A q \in DOMAIN fetches' : FetchInv(q)'
    <2> SUFFICES ASSUME NEW q \in DOMAIN fetches, q # p PROVE FetchInv(q)'
      BY <1>6 DEF FetchInv
    <2>1. fetches'[q] = fetches[q] /\ fetches[q].title \in Titles
      BY <1>2, <1>6, FetchTyped
    <2> QED BY <1>1, <2>1 DEF Inv, FetchInv
  <1>10. \A t \in Titles : CacheInv(t)'
    BY <1>1, <1>6 DEF Inv, CacheInv
  <1>11. \A r \in Readers : ReaderInv(r)'
    BY <1>1, <1>6, SameChannel DEF Inv, ReaderInv
  <1>12. RefsInv' /\ ChannelInv'
    BY <1>1, <1>6, SameChannel DEF Inv, RefsInv, ChannelInv, RefTypes, StackRefsOnce, refs
  <1> QED BY <1>8, <1>9, <1>10, <1>11, <1>12 DEF Inv

\* A reader joins the fetch of its title, or starts one where there is none.
LEMMA ReadKeeps ==
    ASSUME Inv, ContractAssumption, NEW r \in Readers, ReadContractItem(r) PROVE Inv'
  <1> DEFINE t == Ask[r].title
             f == [title |-> t, stage |-> FirstRequest, item |-> NoItem]
  <1>1. /\ reader[r].pc = "asked" /\ t \in Titles
        /\ UNCHANGED <<setting, vault, versions, now, refs, faults>>
    BY DEF ReadContractItem, world, refs, ContractAssumption
  <1>2. Types /\ CacheInv(t) /\ ReaderInv(r)
    BY <1>1 DEF Inv
  <1>3. channel \notin {NoChannel, ChannelError} /\ channel' = channel
    BY <1>1, <1>2, SameChannel DEF ReaderInv
  <1>4. CASE itemCache[t] # 0
    <2>1. /\ reader' = [reader EXCEPT ![r] = [pc |-> "awaiting", promise |-> itemCache[t]]]
          /\ UNCHANGED <<fetches, itemCache>>
      BY <1>4 DEF ReadContractItem
    <2>2. itemCache[t] \in Nat
      BY <1>1, <1>2 DEF Types
    <2>3. reader' \in [Readers -> [pc : Places, promise : Nat]]
      BY <1>2, <2>1, <2>2 DEF Types, Places
    <2>4. \A s \in Readers : ReaderInv(s)'
      <3>1. /\ reader'[r].pc = "awaiting" /\ reader'[r].promise = itemCache[t]
            /\ \A s \in Readers \ {r} : reader'[s] = reader[s]
        BY <1>2, <2>1 DEF Types
      <3>2. ReaderInv(r)'
        BY <1>2, <1>4, <2>1, <3>1 DEF ReaderInv, CacheInv
      <3>3. ASSUME NEW s \in Readers \ {r} PROVE ReaderInv(s)'
        BY <1>3, <2>1, <3>1 DEF Inv, ReaderInv
      <3> QED BY <3>2, <3>3
    <2> QED
      BY <1>1, <1>2, <1>3, <2>1, <2>3, <2>4
         DEF Inv, Types, FetchInv, CacheInv, RefsInv, ChannelInv, RefTypes, StackRefsOnce, refs
  <1>5. CASE itemCache[t] = 0
    <2>0. PICK n : n = Len(fetches) + 1
      OBVIOUS
    <2>1. /\ fetches' = Append(fetches, f)
          /\ itemCache' = [itemCache EXCEPT ![t] = Len(fetches')]
          /\ reader' = [reader EXCEPT ![r] = [pc |-> "awaiting", promise |-> Len(fetches')]]
      BY <1>5 DEF ReadContractItem
    <2>2. f \in Fetches
      BY <1>1, FirstStage DEF Fetches, Stages, Items
    <2>3. f.title = t /\ f.stage \in Pending
      BY FirstStage
    <2> HIDE DEF f
    <2>4. /\ fetches' \in Seq(Fetches) /\ Len(fetches') = n /\ n \in Nat \ {0}
          /\ DOMAIN fetches' = DOMAIN fetches \cup {n} /\ n \notin DOMAIN fetches
          /\ fetches'[n] = f /\ \A q \in DOMAIN fetches : fetches'[q] = fetches[q]
      BY <1>2, <2>0, <2>1, <2>2 DEF Types
    <2>5. /\ itemCache' \in [Titles -> Nat] /\ itemCache'[t] = n
          /\ \A u \in Titles \ {t} : itemCache'[u] = itemCache[u]
      BY <1>1, <1>2, <2>1, <2>4 DEF Types
    <2>6. /\ reader' \in [Readers -> [pc : Places, promise : Nat]]
          /\ reader'[r].pc = "awaiting" /\ reader'[r].promise = n
          /\ \A s \in Readers \ {r} : reader'[s] = reader[s]
      BY <1>2, <2>1, <2>4 DEF Types, Places
    <2> HIDE DEF t
    <2>7. f.stage \notin {"ok", "item", "caught"}
      BY FirstStage DEF f
    <2>8. \A q \in DOMAIN fetches' : FetchInv(q)'
      <3>1. FetchInv(n)'
        BY <2>3, <2>4, <2>5, <2>7 DEF FetchInv
      <3>2. ASSUME NEW q \in DOMAIN fetches PROVE FetchInv(q)'
        <4>1. fetches[q].title \in Titles /\ q # 0
          BY <1>2, FetchTyped
        <4> QED BY <1>1, <1>5, <2>4, <2>5, <4>1 DEF Inv, FetchInv
      <3>3. \A q \in DOMAIN fetches' : q = n \/ q \in DOMAIN fetches
        BY <2>4
      <3> QED BY <3>1, <3>2, <3>3
    <2>9. \A u \in Titles : CacheInv(u)'
      BY <2>3, <2>4, <2>5, <2>7 DEF Inv, CacheInv
    <2>10. \A s \in Readers : ReaderInv(s)'
      <3>1. ReaderInv(r)'
        BY <2>3, <2>4, <2>6 DEF ReaderInv, t
      <3>2. ASSUME NEW s \in Readers \ {r} PROVE ReaderInv(s)'
        BY <1>3, <2>4, <2>6 DEF Inv, ReaderInv
      <3> QED BY <3>1, <3>2
    <2> QED
      BY <1>1, <1>2, <1>3, <2>4, <2>5, <2>6, <2>8, <2>9, <2>10
         DEF Inv, Types, RefsInv, ChannelInv, RefTypes, StackRefsOnce, refs
  <1> QED BY <1>4, <1>5

\* Nothing but the state of one reader changes.
LEMMA MoveKeeps ==
    ASSUME Inv, NEW r \in Readers, NEW pc \in {"served", "failed", "asked"}, MoveTo(r, pc),
           UNCHANGED <<setting, world, itemCache, fetches, faults>>, RefsInv',
           RefTypes',
           pc = "asked" => reader[r].pc = "idle" /\ channel \notin {NoChannel, ChannelError},
           pc = "served" /\ reader[r].promise # 0 =>
              fetches[reader[r].promise].stage = "ok"
    PROVE  Inv'
  <1>1. Types /\ channel' = channel /\ UNCHANGED <<vault, versions, now>>
    BY SameChannel DEF Inv, world
  <1>2. pc \in Places
    BY DEF Places
  <1>3. reader[r] \in [pc : Places, promise : Nat]
    BY <1>1 DEF Types
  <1>4. /\ reader' \in [Readers -> [pc : Places, promise : Nat]]
        /\ reader'[r].pc = pc /\ reader'[r].promise = reader[r].promise
        /\ \A s \in Readers \ {r} : reader'[s] = reader[s]
    BY <1>1, <1>2, <1>3 DEF MoveTo, Types
  <1>5. Types'
    BY <1>1, <1>4 DEF Types
  <1>6. ReaderInv(r)'
    <2>1. ReaderInv(r)
      BY DEF Inv
    <2>2. pc # "idle" /\ pc # "awaiting"
      OBVIOUS
    <2> QED BY <1>1, <1>4, <2>1, <2>2 DEF ReaderInv
  <1>7. ASSUME NEW s \in Readers \ {r} PROVE ReaderInv(s)'
    BY <1>1, <1>4 DEF Inv, ReaderInv
  <1>8. /\ \A p \in DOMAIN fetches' : FetchInv(p)'
        /\ \A t \in Titles : CacheInv(t)'
        /\ ChannelInv'
    BY <1>1 DEF Inv, FetchInv, CacheInv, ChannelInv
  <1> QED BY <1>5, <1>6, <1>7, <1>8 DEF Inv

\* A stack is registered where the resolver's cache does not have it.
LEMMA RefKeeps ==
    ASSUME Inv, GetStackRef
    PROVE  RefsInv' /\ RefTypes'
  <1>0. RefTypes /\ RefsInv
    BY DEF Inv, Types
  <1>1. ASSUME NEW ref \in References, registered' = Append(registered, ref),
               ref.stack \notin IF ref.by = "platform" THEN stackRefCache ELSE configStackRefCache,
               stackRefCache' = IF ref.by = "platform" THEN stackRefCache \cup {ref.stack}
                                                      ELSE stackRefCache,
               configStackRefCache' = IF ref.by = "platform" THEN configStackRefCache
                                      ELSE configStackRefCache \cup {ref.stack}
        PROVE  RefsInv' /\ RefTypes'
    <2>1. PICK n : n = Len(registered) + 1
      OBVIOUS
    <2>2. /\ registered' \in Seq(References) /\ DOMAIN registered' = DOMAIN registered \cup {n}
          /\ n \notin DOMAIN registered /\ registered'[n] = ref
          /\ \A k \in DOMAIN registered : registered'[k] = registered[k]
      BY <1>0, <1>1, <2>1 DEF RefTypes
    <2>3. \/ ref.by = "platform" /\ ref.stack \in PlatformStacks
          \/ ref.by = "config" /\ ref.stack \in ConfigStacks
      BY DEF References, Reference
    <2>4. RefsInv'
      BY <1>0, <1>1, <2>2 DEF RefsInv, StackRefsOnce
    <2> QED BY <1>0, <1>1, <2>2, <2>3, <2>4 DEF RefTypes
  <1>2. CASE UNCHANGED refs
    BY <1>0, <1>2 DEF refs, RefsInv, StackRefsOnce, RefTypes
  <1>3. ASSUME NEW k \in PlatformStacks, GetPlatformStackRef(k) PROVE RefsInv' /\ RefTypes'
    <2>1. PICK ref \in References : ref = Reference("platform", k)
      BY DEF References
    <2> QED BY <1>1, <1>2, <1>3, <2>1 DEF GetPlatformStackRef, refs, Reference
  <1>4. ASSUME NEW k \in ConfigStacks, GetConfigStack(k) PROVE RefsInv' /\ RefTypes'
    <2>1. PICK ref \in References : ref = Reference("config", k)
      BY DEF References
    <2> QED BY <1>1, <1>2, <1>4, <2>1 DEF GetConfigStack, refs, Reference
  <1> QED BY <1>3, <1>4 DEF GetStackRef

LEMMA ResolveKeeps == ASSUME Inv, NEW r \in Readers, Resolve(r) PROVE Inv'
  <1>1. /\ reader[r].pc = "idle" /\ UNCHANGED <<setting, world, itemCache, fetches, faults>>
        /\ reader[r].promise = 0
    BY DEF Resolve, Inv, ReaderInv
  <1>2. UNCHANGED refs => RefsInv' /\ RefTypes'
    BY DEF refs, Inv, Types, RefTypes, RefsInv, StackRefsOnce
  <1>3. CASE MoveTo(r, "served") /\ GetStackRef
    BY <1>1, <1>3, RefKeeps, MoveKeeps
  <1>4. CASE MoveTo(r, "failed") /\ UNCHANGED refs
    BY <1>1, <1>2, <1>4, MoveKeeps
  <1>5. CASE channel \notin {NoChannel, ChannelError} /\ MoveTo(r, "asked") /\ UNCHANGED refs
    BY <1>1, <1>2, <1>5, MoveKeeps
  <1> QED BY <1>3, <1>4, <1>5 DEF Resolve

LEMMA AwaitKeeps == ASSUME Inv, NEW r \in Readers, AwaitEnds(r) PROVE Inv'
  <1>1. UNCHANGED <<setting, world, itemCache, fetches, faults>> /\ UNCHANGED refs
    BY DEF AwaitEnds
  <1>2. RefsInv' /\ RefTypes'
    BY <1>1 DEF refs, Inv, Types, RefTypes, RefsInv, StackRefsOnce
  <1>3. CASE MoveTo(r, "failed")
    BY <1>1, <1>2, <1>3, MoveKeeps
  <1>4. CASE MoveTo(r, "served") /\ fetches[reader[r].promise].stage = "ok"
    BY <1>1, <1>2, <1>4, MoveKeeps
  <1> QED BY <1>3, <1>4 DEF AwaitEnds

\* The publisher and the clock touch no promise, and no item loses its place.
LEMMA WorldKeeps ==
    ASSUME Inv, vault' \in Seq(Items), DOMAIN vault \subseteq DOMAIN vault',
           versions' \in 0 .. MaxVersions, now' \in 0 .. MaxTime,
           UNCHANGED <<setting, itemCache, fetches, reader, refs, faults>>
    PROVE  Inv'
  <1>1. Types'
    BY DEF Inv, Types, refs, RefTypes, StackRefsOnce
  <1>2. \A r \in Readers : ReaderInv(r)'
    BY SameChannel DEF Inv, ReaderInv
  <1>3. RefsInv' /\ ChannelInv'
    BY SameChannel DEF Inv, RefsInv, ChannelInv, refs, RefTypes, StackRefsOnce
  <1>4. (\A p \in DOMAIN fetches' : FetchInv(p)') /\ (\A t \in Titles : CacheInv(t)')
    BY DEF Inv, FetchInv, CacheInv
  <1> QED BY <1>1, <1>2, <1>3, <1>4 DEF Inv

LEMMA PublishKeeps ==
    ASSUME Inv, ContractAssumption, NEW t \in Titles, Publish(t) \/ Remove(t) PROVE Inv'
  <1>1. Types /\ versions < MaxVersions /\ versions' \in 0 .. MaxVersions /\ now' \in 0 .. MaxTime
    BY DEF Publish, Remove, ByPublisher, Inv, Types, ContractAssumption
  <1>2. \/ vault' \in {Append(vault, item) : item \in Items}
        \/ \E i \in DOMAIN vault, item \in Items : vault' = [vault EXCEPT ![i] = item]
    <2>1. CASE Publish(t)
      <3>1. PICK draft \in Drafts :
              LET document == Fill(draft, t, versions + 1, now) IN
              \/ vault' = Append(vault, document)
              \/ \E i \in Titled(t) : vault' = [vault EXCEPT ![i] = document]
        BY <2>1 DEF Publish
      <3>2. Fill(draft, t, versions + 1, now) \in Items
        BY <1>1, FillIn DEF Items
      <3> QED BY <3>1, <3>2 DEF Titled
    <2>2. CASE Remove(t)
      BY <2>2 DEF Remove, Titled, Items
    <2> QED BY <2>1, <2>2
  <1>3. vault' \in Seq(Items) /\ DOMAIN vault \subseteq DOMAIN vault'
    <2>1. vault \in Seq(Items)
      BY <1>1 DEF Types
    <2>2. ASSUME NEW item \in Items, vault' = Append(vault, item)
          PROVE  vault' \in Seq(Items) /\ DOMAIN vault \subseteq DOMAIN vault'
      BY <2>1, <2>2
    <2>3. ASSUME NEW i \in DOMAIN vault, NEW item \in Items, vault' = [vault EXCEPT ![i] = item]
          PROVE  vault' \in Seq(Items) /\ DOMAIN vault \subseteq DOMAIN vault'
      BY <2>1, <2>3
    <2> QED BY <1>2, <2>2, <2>3
  <1>4. UNCHANGED <<setting, itemCache, fetches, reader, refs, faults>>
    BY DEF Publish, Remove, ByPublisher
  <1> QED BY <1>1, <1>3, <1>4, WorldKeeps

LEMMA NextInv == ASSUME ContractAssumption PROVE Inv /\ [Next]_vars => Inv'
  <1> SUFFICES ASSUME Inv, [Next]_vars PROVE Inv'
    OBVIOUS
  <1>1. ASSUME NEW r \in Readers, Consume(r) PROVE Inv'
    BY <1>1, ResolveKeeps, ReadKeeps, AwaitKeeps DEF Consume
  <1>2. ASSUME NEW p \in DOMAIN fetches, Fetch(p) PROVE Inv'
    <2>1. faults' \in 0 .. MaxFaults
      <3>1. CASE RequestFails(p)
        BY <3>1 DEF RequestFails, Inv, Types, ContractAssumption
      <3>2. CASE UNCHANGED faults
        BY <3>2 DEF Inv, Types
      <3> QED
        BY <1>2, <3>1, <3>2 DEF Fetch, VaultFound, ItemListed, ItemRead, OpExits, Catch
    <2> QED BY <1>2, <2>1, FetchTurns, CatchKeeps, TurnKeeps
  <1>3. ASSUME NEW t \in Titles, Publish(t) \/ Remove(t) PROVE Inv'
    BY <1>3, PublishKeeps
  <1>4. CASE Tick
    <2>1. /\ now' \in 0 .. MaxTime
          /\ UNCHANGED <<setting, vault, versions, itemCache, fetches, reader, refs, faults>>
      BY <1>4 DEF Tick, Inv, Types, ContractAssumption
    <2>2. vault' \in Seq(Items) /\ versions' \in 0 .. MaxVersions
      BY <2>1 DEF Inv, Types
    <2> QED BY <2>1, <2>2, WorldKeeps
  <1>5. CASE UNCHANGED vars
    <2>1. UNCHANGED <<setting, vault, versions, now, itemCache, fetches, reader, refs, faults>>
      BY <1>5 DEF vars, world, refs
    <2>2. vault' \in Seq(Items) /\ versions' \in 0 .. MaxVersions /\ now' \in 0 .. MaxTime
      BY <2>1 DEF Inv, Types
    <2> QED BY <2>1, <2>2, WorldKeeps
  <1> QED BY <1>1, <1>2, <1>3, <1>4, <1>5 DEF Next, Program, World

LEMMA Invariance == ASSUME ContractAssumption PROVE Spec => []Inv
  <1>1. Init => Inv
    BY InitInv
  <1>2. Inv /\ [Next]_vars => Inv'
    BY NextInv
  <1> QED BY <1>1, <1>2, PTL DEF Spec

-----------------------------------------------------------------------------
(* The theorems *)

\* Readers of an item share one fetch of it, a failure is kept no longer than its
\* handler takes, and neither resolver registers a StackReference twice, however the
\* readers, the requests that fail and the publisher interleave.
THEOREM CachesSoundAlways == ASSUME ContractAssumption PROVE Spec => []ContractCachesSound
  <1>1. Inv => ContractCachesSound
    <2> SUFFICES ASSUME Inv PROVE ContractCachesSound
      OBVIOUS
    <2>1. Types
      BY DEF Inv
    <2>2. TypeOK
      <3>1. \A i \in DOMAIN vault : vault[i] = NoItem \/ vault[i].title \in Titles
        <4> SUFFICES ASSUME NEW i \in DOMAIN vault, vault[i] # NoItem
                     PROVE  vault[i].title \in Titles
          OBVIOUS
        <4>1. vault[i] \in Documents
          BY <2>1 DEF Types, Items
        <4> QED BY <4>1, Filled
      <3>2. itemCache \in [Titles -> 0 .. Len(fetches)]
        <4>1. \A t \in Titles : itemCache[t] \in 0 .. Len(fetches)
          BY <2>1 DEF Inv, CacheInv, Types
        <4> QED BY <2>1, <4>1 DEF Types
      <3>3. \A p \in DOMAIN fetches :
              /\ fetches[p].title \in Titles
              /\ fetches[p].stage \in Pending \cup {"ok", "failed", "caught"}
        BY <2>1, FetchTyped DEF Fetches, Stages
      <3>4. reader \in [Readers -> [pc      : {"idle", "asked", "awaiting", "served", "failed"},
                                    promise : 0 .. Len(fetches)]]
        <4>1. \A r \in Readers : reader[r] \in [pc : Places, promise : 0 .. Len(fetches)]
          <5> TAKE r \in Readers
          <5>1. reader[r] \in [pc : Places, promise : Nat]
            BY <2>1 DEF Types
          <5>2. reader[r].promise \in 0 .. Len(fetches)
            BY <2>1, <5>1 DEF Types, Inv, ReaderInv
          <5> QED BY <5>1, <5>2
        <4> QED BY <2>1, <4>1 DEF Types, Places
      <3> QED BY <2>1, <3>1, <3>2, <3>3, <3>4 DEF TypeOK, Types, RefTypes, Inv, RefsInv
    <2>3. OneFetch
      <3> SUFFICES ASSUME NEW p \in DOMAIN fetches, NEW q \in DOMAIN fetches,
                          fetches[p].stage \in Pending, fetches[q].stage \in Pending,
                          fetches[p].title = fetches[q].title
                   PROVE  p = q
        BY DEF OneFetch
      <3>1. fetches[p].stage # "caught" /\ fetches[q].stage # "caught"
        BY DEF Pending
      <3> QED BY <3>1 DEF Inv, FetchInv
    <2>4. FailureNotKept /\ StackRefsOnce
      BY DEF FailureNotKept, StackRefsOnce, Inv, CacheInv, RefsInv
    <2> QED BY <2>2, <2>3, <2>4 DEF ContractCachesSound
  <1> QED BY <1>1, Invariance, PTL

\* Nothing is ever read with a Connect host and no token, a token and no host, or
\* over cleartext.  A configured token counts as given, also when it is blank.
THEOREM CredentialsAlways == ASSUME ContractAssumption PROVE Spec => []ContractCredentials
  <1>1. Inv => ContractCredentials
    <2> SUFFICES ASSUME Inv, Len(fetches) > 0 PROVE ContractCredentials
      BY DEF ContractCredentials
    <2>1. channel \notin {NoChannel, ChannelError}
      BY DEF Inv, ChannelInv
    <2>2. /\ HasVault(setting) /\ ~Refused(setting)
          /\ channel.kind = IF ConnectHost(setting) = "unset" THEN "op" ELSE "connect"
      BY <2>1 DEF channel, GetContractChannel
    <2> QED BY <2>2 DEF Refused, ContractCredentials
  <1> QED BY <1>1, Invariance, PTL

\* Whoever is served is served with an item within the age that is allowed at that
\* moment, however long the item was in the cache.
THEOREM ServedFreshAlways == ASSUME ContractAssumption PROVE Spec => ContractServedFresh
  <1> DEFINE FreshOne(r) ==
        /\ reader[r].pc = "awaiting" /\ reader'[r].pc = "served"
        /\ channel.maxAgeHours # NoAge
        => LET fields == ParseContractItem(fetches[reader[r].promise].item, Ask[r].title).fields
           IN  /\ "producedAt" \in DOMAIN fields
               /\ now - fields["producedAt"] <= channel.maxAgeHours
  <1>1. Inv /\ [Next]_vars => \A r \in Readers : FreshOne(r)
    <2> SUFFICES ASSUME Inv, [Next]_vars, NEW r \in Readers,
                        reader[r].pc = "awaiting", reader'[r].pc = "served",
                        channel.maxAgeHours # NoAge
                 PROVE  FreshOne(r)
      OBVIOUS
    <2>1. reader \in [Readers -> [pc : Places, promise : Nat]]
      BY DEF Inv, Types
    <2>2. AwaitEnds(r)
      <3>1. reader' # reader
        OBVIOUS
      <3>2. PICK s \in Readers : Consume(s)
        BY <3>1 DEF Next, Program, World, Fetch, VaultFound, ItemListed, ItemRead, OpExits,
                    RequestFails, Parse, Turn, Catch, Publish, Remove, ByPublisher, Tick, vars
      <3>3. CASE Resolve(s)
        BY <2>1, <3>3 DEF Resolve, MoveTo
      <3>4. CASE ReadContractItem(s)
        BY <2>1, <3>4 DEF ReadContractItem
      <3>5. CASE AwaitEnds(s)
        BY <2>1, <3>5 DEF AwaitEnds, MoveTo
      <3> QED BY <3>2, <3>3, <3>4, <3>5 DEF Consume
    <2>3. Accepted(r, fetches[reader[r].promise].item)
      BY <2>1, <2>2 DEF AwaitEnds, MoveTo
    <2> QED BY <2>3 DEF Accepted, Fresh
  <1> QED BY <1>1, Invariance, PTL DEF Spec, ContractServedFresh


-----------------------------------------------------------------------------
(* The refinement: the fetch that ends well chooses the version of its item *)

DoneOf(t) == {p \in DOMAIN fetches : fetches[p].title = t /\ fetches[p].stage = "ok"}

chosenNow == [t \in Titles |-> ChosenVersion(t)]
answerNow == [r \in Readers |-> Answer(r)]

\* Only one fetch of a title ever ends well.
LEMMA OneDone ==
    ASSUME Inv, NEW t, NEW p \in DoneOf(t)
    PROVE  DoneOf(t) = {p}
  BY DEF Inv, FetchInv, DoneOf

LEMMA ChosenIs ==
    ASSUME Inv, NEW t, NEW p \in DoneOf(t)
    PROVE  ChosenVersion(t) = fetches[p].item.version
  <1>1. (CHOOSE q \in DoneOf(t) : TRUE) \in DoneOf(t)
    OBVIOUS
  <1>2. (CHOOSE q \in DoneOf(t) : TRUE) = p /\ DoneOf(t) # {}
    BY <1>1, OneDone
  <1> QED BY <1>2 DEF ChosenVersion, DoneOf

LEMMA ChosenNone == ASSUME NEW t, DoneOf(t) = {} PROVE ChosenVersion(t) = 0
  BY DEF ChosenVersion, DoneOf

LEMMA DoneVersion ==
    ASSUME Inv, NEW t, NEW p \in DoneOf(t) PROVE fetches[p].item.version \in 1 .. MaxVersions
  BY Filled DEF Inv, FetchInv, DoneOf

\* A title whose fetches are as they were has its version.
LEMMA ChosenSame ==
    ASSUME Inv, Inv', NEW t, DoneOf(t)' = DoneOf(t),
           \A p \in DoneOf(t) : fetches'[p] = fetches[p]
    PROVE  ChosenVersion(t)' = ChosenVersion(t)
  <1>1. CASE DoneOf(t) = {}
    BY <1>1, ChosenNone DEF ChosenVersion, DoneOf
  <1>2. ASSUME NEW p \in DoneOf(t) PROVE ChosenVersion(t)' = ChosenVersion(t)
    <2>1. ChosenVersion(t) = fetches[p].item.version
      BY ChosenIs
    <2>2. ChosenVersion(t)' = fetches'[p].item.version
      <3>1. p \in DoneOf(t)'
        OBVIOUS
      <3>2. (CHOOSE q \in DoneOf(t)' : TRUE) \in DoneOf(t)'
        BY <3>1
      <3>3. DoneOf(t)' = {p}
        BY OneDone
      <3>4. (CHOOSE q \in DoneOf(t)' : TRUE) = p /\ DoneOf(t)' # {}
        BY <3>2, <3>3
      <3> QED BY <3>4 DEF ChosenVersion, DoneOf
    <2> QED BY <2>1, <2>2
  <1> QED BY <1>1, <1>2

LEMMA AnswerSame ==
    ASSUME NEW r, reader'[r] = reader[r],
           reader[r].pc = "served" /\ reader[r].promise # 0 =>
              fetches'[reader[r].promise] = fetches[reader[r].promise]
    PROVE  Answer(r)' = Answer(r)
  BY DEF Answer

\* Nothing the abstract reader sees has changed.
Unseen ==
    /\ \A t \in Titles : ChosenVersion(t)' = ChosenVersion(t)
    /\ \A r \in Readers : Answer(r)' = Answer(r)

LEMMA UnseenStutters == ASSUME Unseen PROVE UNCHANGED <<chosenNow, answerNow>>
  BY DEF Unseen, chosenNow, answerNow

LEMMA FetchesKept ==
    ASSUME Inv, Inv', UNCHANGED fetches PROVE \A t : ChosenVersion(t)' = ChosenVersion(t)
  BY DEF ChosenVersion

\* A fetch that is in its course: none of its title has ended well.
LEMMA NotYet ==
    ASSUME Inv, NEW p \in DOMAIN fetches, fetches[p].stage \notin {"ok", "caught"}
    PROVE  DoneOf(fetches[p].title) = {}
  BY DEF Inv, FetchInv, DoneOf

\* The promises that are served do not change.
LEMMA ServedKept ==
    ASSUME Inv, NEW p \in DOMAIN fetches, fetches[p].stage # "ok", UNCHANGED reader,
           \A q \in DOMAIN fetches : q # p => fetches'[q] = fetches[q]
    PROVE  \A r \in Readers : Answer(r)' = Answer(r)
  <1> TAKE r \in Readers
  <1>1. reader[r].pc = "served" /\ reader[r].promise # 0 =>
           fetches'[reader[r].promise] = fetches[reader[r].promise]
    BY DEF Inv, ReaderInv
  <1> QED BY <1>1, AnswerSame

LEMMA TurnRefines ==
    ASSUME Inv, Inv', NEW p \in DOMAIN fetches, Turns(p) PROVE Snapshot!Next \/ Unseen
  <1>1. PICK stage \in Pending \cup {"ok", "failed"}, item \in Items \cup Nat :
          /\ Turn(p, stage, item)
          /\ fetches[p].stage \in Pending
          /\ stage = "ok" => item \in Documents
    BY DEF Turns
  <1>2. stage \in Stages /\ fetches[p].stage \notin {"ok", "failed", "caught"} /\ UNCHANGED reader
    BY <1>1 DEF Stages, Pending, Turn
  <1>3. Types
    BY DEF Inv
  <1>4. /\ Len(fetches') = Len(fetches) /\ fetches' \in Seq(Fetches)
        /\ fetches'[p].title = fetches[p].title
        /\ fetches'[p].stage = stage /\ fetches'[p].item = item
        /\ \A q \in DOMAIN fetches : q # p => fetches'[q] = fetches[q]
    BY <1>1, <1>2, <1>3, TurnTypes
  <1>5. DOMAIN fetches' = DOMAIN fetches
    BY <1>3, <1>4 DEF Types
  <1>6. \A r \in Readers : Answer(r)' = Answer(r)
    BY <1>2, <1>4, ServedKept
  <1>7. ASSUME NEW t, t # fetches[p].title \/ stage # "ok"
        PROVE  ChosenVersion(t)' = ChosenVersion(t)
    <2>1. DoneOf(t)' = DoneOf(t) /\ \A q \in DoneOf(t) : fetches'[q] = fetches[q]
      BY <1>2, <1>4, <1>5, <1>7 DEF DoneOf
    <2> QED BY <2>1, ChosenSame
  <1>8. CASE stage # "ok"
    BY <1>6, <1>7, <1>8 DEF Unseen
  <1>9. CASE stage = "ok"
    <2>1. PICK t \in Titles : t = fetches[p].title
      BY <1>3, FetchTyped
    <2>2. ChosenVersion(t) = 0
      BY <1>2, <2>1, NotYet, ChosenNone
    <2>3. p \in DoneOf(t)'
      BY <1>4, <1>5, <1>9, <2>1 DEF DoneOf
    <2>4. ChosenVersion(t)' = item.version
      <3>1. DoneOf(t)' = {p}
        BY <2>3 DEF Inv, FetchInv, DoneOf
      <3>2. (CHOOSE q \in DoneOf(t)' : TRUE) \in DoneOf(t)'
        BY <2>3
      <3> QED BY <1>4, <3>1, <3>2 DEF ChosenVersion, DoneOf
    <2>5. item.version \in 1 .. MaxVersions
      BY <1>1, <1>9, Filled
    <2>6. \A u \in Titles : u # t => ChosenVersion(u)' = ChosenVersion(u)
      BY <1>7, <2>1
    <2>7. chosenNow' = [chosenNow EXCEPT ![t] = item.version] /\ chosenNow[t] = 0
      BY <2>2, <2>4, <2>6 DEF chosenNow
    <2>8. UNCHANGED answerNow
      BY <1>6 DEF answerNow
    <2>9. Snapshot!Choose(t)
      BY <2>5, <2>7, <2>8 DEF Snapshot!Choose, chosenNow, answerNow
    <2> QED BY <2>9 DEF Snapshot!Next
  <1> QED BY <1>8, <1>9

LEMMA CatchRefines ==
    ASSUME Inv, Inv', NEW p \in DOMAIN fetches, Catch(p) PROVE Unseen
  <1>1. /\ fetches[p].stage = "failed" /\ UNCHANGED reader
        /\ fetches' = [fetches EXCEPT ![p] = [fetches[p] EXCEPT !.stage = "caught"]]
    BY DEF Catch
  <1>2. fetches \in Seq(Fetches) /\ fetches[p] \in Fetches
    BY DEF Inv, Types
  <1>3. [fetches[p] EXCEPT !.stage = "caught"].stage = "caught"
    BY <1>2 DEF Fetches
  <1>4. /\ DOMAIN fetches' = DOMAIN fetches /\ fetches'[p].stage = "caught"
        /\ \A q \in DOMAIN fetches : q # p => fetches'[q] = fetches[q]
    BY <1>1, <1>2, <1>3
  <1>5. \A r \in Readers : Answer(r)' = Answer(r)
    BY <1>1, <1>4, ServedKept
  <1>6. ASSUME NEW t PROVE ChosenVersion(t)' = ChosenVersion(t)
    <2>1. DoneOf(t)' = DoneOf(t) /\ \A q \in DoneOf(t) : fetches'[q] = fetches[q]
      BY <1>1, <1>4 DEF DoneOf
    <2> QED BY <2>1, ChosenSame
  <1> QED BY <1>5, <1>6 DEF Unseen

\* One reader moves: nobody else's answer does.
LEMMA MoveRefines ==
    ASSUME Inv, Inv', NEW r \in Readers, UNCHANGED fetches,
           \A s \in Readers \ {r} : reader'[s] = reader[s],
           \/ Answer(r)' = Answer(r)
           \/ Answer(r) = 0 /\ Answer(r)' = -1
           \/ Answer(r) = 0 /\ Answer(r)' = ChosenVersion(TitleAsked(r))
                            /\ ChosenVersion(TitleAsked(r)) # 0 /\ TitleAsked(r) \in Titles
    PROVE  Snapshot!Next \/ Unseen
  <1>1. \A t : ChosenVersion(t)' = ChosenVersion(t)
    BY FetchesKept
  <1>2. UNCHANGED chosenNow
    BY <1>1 DEF chosenNow
  <1>3. \A s \in Readers \ {r} : Answer(s)' = Answer(s)
    BY DEF Answer
  <1>4. answerNow' = [answerNow EXCEPT ![r] = Answer(r)'] /\ answerNow[r] = Answer(r)
    BY <1>3 DEF answerNow
  <1>5. CASE Answer(r)' = Answer(r)
    BY <1>1, <1>3, <1>5 DEF Unseen
  <1>6. CASE Answer(r) = 0 /\ Answer(r)' = -1
    <2>1. Snapshot!Refuse(r)
      BY <1>2, <1>4, <1>6 DEF Snapshot!Refuse, answerNow, chosenNow
    <2> QED BY <2>1 DEF Snapshot!Next
  <1>7. CASE Answer(r) = 0 /\ Answer(r)' = ChosenVersion(TitleAsked(r))
             /\ ChosenVersion(TitleAsked(r)) # 0 /\ TitleAsked(r) \in Titles
    <2>1. chosenNow[TitleAsked(r)] = ChosenVersion(TitleAsked(r))
      BY <1>7 DEF chosenNow
    <2>2. Snapshot!Serve(r)
      BY <1>2, <1>4, <1>7, <2>1 DEF Snapshot!Serve, answerNow, chosenNow
    <2> QED BY <2>2 DEF Snapshot!Next
  <1> QED BY <1>5, <1>6, <1>7

LEMMA ResolveRefines ==
    ASSUME Inv, Inv', NEW r \in Readers, Resolve(r) PROVE Snapshot!Next \/ Unseen
  <1>1. PICK pc \in {"served", "failed", "asked"} : MoveTo(r, pc)
    BY DEF Resolve
  <1>2. reader[r].pc = "idle" /\ reader[r].promise = 0 /\ UNCHANGED fetches
    BY DEF Resolve, Inv, ReaderInv
  <1>3. reader \in [Readers -> [pc : Places, promise : Nat]]
    BY DEF Inv, Types
  <1>4. /\ reader'[r].pc = pc /\ reader'[r].promise = 0
        /\ \A s \in Readers \ {r} : reader'[s] = reader[s]
    BY <1>1, <1>2, <1>3 DEF MoveTo
  <1>5. Answer(r) = 0
    BY <1>2 DEF Answer
  <1>6. Answer(r)' \in {0, -1}
    BY <1>4 DEF Answer
  <1> QED BY <1>2, <1>4, <1>5, <1>6, MoveRefines

LEMMA AwaitRefines ==
    ASSUME Inv, Inv', ContractAssumption, NEW r \in Readers, AwaitEnds(r)
    PROVE  Snapshot!Next \/ Unseen
  <1>1. PICK pc \in {"served", "failed"} : MoveTo(r, pc)
    BY DEF AwaitEnds
  <1>2. reader[r].pc = "awaiting" /\ UNCHANGED fetches /\ ReaderInv(r)
    BY DEF AwaitEnds, Inv
  <1>3. reader \in [Readers -> [pc : Places, promise : Nat]]
    BY DEF Inv, Types
  <1>4. /\ reader'[r].pc = pc /\ reader'[r].promise = reader[r].promise
        /\ \A s \in Readers \ {r} : reader'[s] = reader[s]
    BY <1>1, <1>3 DEF MoveTo
  <1>5. Answer(r) = 0
    BY <1>2 DEF Answer
  <1>6. CASE pc = "failed"
    <2>1. Answer(r)' = -1
      BY <1>4, <1>6 DEF Answer
    <2> QED BY <1>2, <1>4, <1>5, <2>1, MoveRefines
  <1>7. CASE pc = "served"
    <2>1. reader[r].promise # 0 /\ reader[r].promise \in DoneOf(Ask[r].title)
      <3>1. ReaderInv(r)'
        BY DEF Inv
      <3> QED BY <1>2, <1>4, <1>7, <3>1 DEF ReaderInv, DoneOf
    <2>2. Answer(r)' = fetches[reader[r].promise].item.version
      BY <1>2, <1>4, <1>7, <2>1 DEF Answer
    <2>3. ChosenVersion(Ask[r].title) = fetches[reader[r].promise].item.version
      BY <2>1, ChosenIs
    <2>4. ChosenVersion(Ask[r].title) \in 1 .. MaxVersions
      BY <2>1, <2>3, DoneVersion
    <2>5. TitleAsked(r) = Ask[r].title /\ TitleAsked(r) \in Titles
      BY DEF TitleAsked, ContractAssumption
    <2> QED BY <1>2, <1>4, <1>5, <2>2, <2>3, <2>4, <2>5, MoveRefines
  <1> QED BY <1>6, <1>7

\* A fetch that starts is nothing to the abstract reader.
LEMMA ReadRefines ==
    ASSUME Inv, Inv', NEW r \in Readers, ReadContractItem(r) PROVE Unseen
  <1>1. /\ reader[r].pc = "asked"
        /\ \/ UNCHANGED fetches
           \/ fetches' = Append(fetches, [title |-> Ask[r].title, stage |-> FirstRequest,
                                          item |-> NoItem])
        /\ \E promise : reader' = [reader EXCEPT ![r] = [pc |-> "awaiting", promise |-> promise]]
    BY DEF ReadContractItem
  <1>2. Types
    BY DEF Inv
  <1>3. \A q \in DOMAIN fetches : fetches'[q] = fetches[q]
    <2>1. fetches \in Seq(Fetches) /\ fetches' \in Seq(Fetches)
      BY DEF Inv, Types
    <2>2. ASSUME NEW f, fetches' = Append(fetches, f)
          PROVE  \A q \in DOMAIN fetches : fetches'[q] = fetches[q]
      BY <2>1, <2>2
    <2>3. CASE UNCHANGED fetches
      BY <2>3
    <2> QED BY <1>1, <2>2, <2>3
  <1>4. \A q \in DOMAIN fetches' \ DOMAIN fetches : fetches'[q].stage # "ok"
    <2>1. CASE fetches' = Append(fetches, [title |-> Ask[r].title, stage |-> FirstRequest,
                                           item |-> NoItem])
      <3>1. \A q \in DOMAIN fetches' \ DOMAIN fetches :
               fetches'[q] = [title |-> Ask[r].title, stage |-> FirstRequest, item |-> NoItem]
        BY <1>2, <2>1 DEF Types
      <3> QED BY <3>1, FirstStage
    <2> QED BY <1>1, <2>1
  <1>5. DOMAIN fetches \subseteq DOMAIN fetches'
    <2>1. fetches \in Seq(Fetches) /\ fetches' \in Seq(Fetches)
      BY DEF Inv, Types
    <2>2. ASSUME NEW f, fetches' = Append(fetches, f) PROVE DOMAIN fetches \subseteq DOMAIN fetches'
      BY <2>1, <2>2
    <2>3. CASE UNCHANGED fetches
      BY <2>3
    <2> QED BY <1>1, <2>2, <2>3
  <1>6. ASSUME NEW t PROVE ChosenVersion(t)' = ChosenVersion(t)
    <2>1. DoneOf(t)' = DoneOf(t) /\ \A q \in DoneOf(t) : fetches'[q] = fetches[q]
      BY <1>3, <1>4, <1>5 DEF DoneOf
    <2> QED BY <2>1, ChosenSame
  <1>7. ASSUME NEW s \in Readers PROVE Answer(s)' = Answer(s)
    <2>1. CASE s = r
      <3>1. reader'[r].pc = "awaiting"
        BY <1>1, <1>2 DEF Types
      <3> QED BY <1>1, <2>1, <3>1 DEF Answer
    <2>2. CASE s # r
      <3>1. reader'[s] = reader[s]
        BY <1>1, <1>2, <2>2 DEF Types
      <3>2. reader[s].promise # 0 => reader[s].promise \in DOMAIN fetches
        BY DEF Inv, ReaderInv
      <3> QED BY <1>3, <3>1, <3>2, AnswerSame
    <2> QED BY <2>1, <2>2
  <1> QED BY <1>6, <1>7 DEF Unseen

LEMMA RefinesStep ==
    ASSUME ContractAssumption, Inv, Inv', [Next]_vars
    PROVE  Snapshot!Next \/ UNCHANGED <<chosenNow, answerNow>>
  <1>1. ASSUME NEW r \in Readers, Consume(r) PROVE Snapshot!Next \/ Unseen
    BY <1>1, ResolveRefines, ReadRefines, AwaitRefines DEF Consume
  <1>2. ASSUME NEW p \in DOMAIN fetches, Fetch(p) PROVE Snapshot!Next \/ Unseen
    BY <1>2, FetchTurns, TurnRefines, CatchRefines
  <1>3. ASSUME World \/ UNCHANGED vars PROVE Unseen
    <2>1. UNCHANGED <<fetches, reader>>
      BY <1>3 DEF World, Publish, Remove, ByPublisher, Tick, vars
    <2>2. \A r \in Readers : Answer(r)' = Answer(r)
      BY <2>1 DEF Answer
    <2>3. \A t : ChosenVersion(t)' = ChosenVersion(t)
      BY <2>1, FetchesKept
    <2> QED BY <2>2, <2>3 DEF Unseen
  <1> QED BY <1>1, <1>2, <1>3, UnseenStutters DEF Next, Program

\* The contract reader implements the abstract one: all who are served with an
\* item are served from one version of it, whatever is published meanwhile.
THEOREM ImplementsItemSnapshot == ASSUME ContractAssumption PROVE Spec => ContractOneSnapshot
  <1>1. Init => Snapshot!Init
    BY DEF Init, Snapshot!Init, ChosenVersion, Answer
  <1>2. Inv /\ Inv' /\ [Next]_vars => [Snapshot!Next]_(Snapshot!vars)
    BY RefinesStep DEF Snapshot!vars, chosenNow, answerNow
  <1> QED BY <1>1, <1>2, Invariance, PTL DEF Spec, ContractOneSnapshot, Snapshot!Spec
=============================================================================
