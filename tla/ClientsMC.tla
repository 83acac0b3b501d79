----------------------------- MODULE ClientsMC -----------------------------
(***************************************************************************)
(* The two clients of remote services for TLC, in one run: a behaviour is   *)
(* one of the provider's HTTP client (Httpx, with a call of each kind) or  *)
(* one of the contract reader (Contract), as `client` says, and leaves the *)
(* variables of the other as they are.                                     *)
(***************************************************************************)
EXTENDS Httpx, TLC

CONSTANTS NoAge, NoLabel, Null, NonString, Garbage, Stamp, Current, NoItem

CONSTANTS r1, r2, r3

MCReaders == {r1, r2, r3}

\* Two consumers of the kubeconfig as it is and one of the API server, all
\* from the same item.
MCAsk ==
    r1 :> [title |-> "kubeconfig", label |-> "kubeconfig", parsed |-> FALSE]
    @@ r2 :> [title |-> "kubeconfig", label |-> "kubeconfig", parsed |-> TRUE]
    @@ r3 :> [title |-> "kubeconfig", label |-> "kubeconfig", parsed |-> FALSE]

\* What calls ask for where the stack has no contract: the platform's stack, and
\* the config stack, which one of the platform's calls names too.
MCPlatformStacks == {"k8s/prod", "config/prod"}
MCConfigStacks   == {"config/prod"}

MCTitles == {"kubeconfig"}

Plain == [vault |-> "id", host |-> "unset", envHost |-> "unset", token |-> "unset",
          envToken |-> "unset", maxAgeHours |-> NoAge]

\* Working channels of both transports, no channel, and every way to be wrong.
MCSettings ==
    { [Plain EXCEPT !.maxAgeHours = 1],
      [Plain EXCEPT !.vault = "name", !.host = "bare", !.envToken = "set", !.maxAgeHours = 1],
      [Plain EXCEPT !.envHost = "https", !.token = "set"],
      [Plain EXCEPT !.vault = "unset", !.host = "https", !.token = "set"],
      [Plain EXCEPT !.vault = "empty", !.host = "https", !.token = "set"] }
    \cup
    { [Plain EXCEPT !.host = "http", !.token = "set"],
      [Plain EXCEPT !.host = "https", !.envToken = "blank"],
      [Plain EXCEPT !.host = "blank", !.envHost = "https", !.envToken = "set"],
      [Plain EXCEPT !.token = "blank"],
      [Plain EXCEPT !.vault = "-name"] }
    \cup { [Plain EXCEPT !.maxAgeHours = 0] }

Field(l, v) == [label |-> l, value |-> v]

\* A good item with a field nobody can address and a label that occurs twice;
\* one without a stamp; one that is no item.
MCDrafts ==
    { [object |-> TRUE,
       fields |-> << Field("kubeconfig", Garbage), Field(NoLabel, NonString),
                     Field("producedAt", Stamp), Field("kubeconfig", Current) >>],
      [object |-> TRUE,
       fields |-> << Field("kubeconfig", Garbage), Field("producedAt", Null) >>],
      [object |-> TRUE,
       fields |-> << Field("kubeconfig", NonString) >>] }

-----------------------------------------------------------------------------

VARIABLES client, setting, vault, versions, now, itemCache, fetches, reader,
          stackRefCache, configStackRefCache, registered, faults

Reader == INSTANCE ContractProofs WITH
    Readers <- MCReaders, Ask <- MCAsk, Titles <- MCTitles,
    PlatformStacks <- MCPlatformStacks, ConfigStacks <- MCConfigStacks,
    Settings <- MCSettings, Drafts <- MCDrafts,
    MaxVersions <- 2, MaxTime <- 2, MaxFaults <- 1

ASSUME ContractConstants == Reader!ContractAssumption

contract == <<setting, vault, versions, now, itemCache, fetches, reader,
              stackRefCache, configStackRefCache, registered, faults>>
all      == <<vars, contract, client>>

InHttpx(A)    == client = "httpx" /\ A /\ UNCHANGED <<contract, client>>
InContract(A) == client = "contract" /\ A /\ UNCHANGED <<vars, client>>

MCInit ==
    /\ Init /\ Reader!Init /\ client \in {"httpx", "contract"}
    /\ client = "httpx" => setting = CHOOSE s \in MCSettings : TRUE

MCSpec ==
    /\ MCInit
    /\ [][InHttpx(Next) \/ InContract(Reader!Next)]_all
    /\ \A c \in Calls : WF_all(InHttpx(Do(c)))
    /\ WF_all(InContract(Reader!Program))

\* Returns of the HTTP client, and the properties of the contract reader.
CallsReturn            == client = "httpx" => Returns
ContractCachesSound    == Reader!ContractCachesSound
ContractCredentials    == Reader!ContractCredentials
ContractServedFresh    == Reader!ContractServedFresh
ContractOneSnapshot    == Reader!ContractOneSnapshot
ContractAllEnd         == client = "contract" => Reader!AllEnd
=============================================================================
