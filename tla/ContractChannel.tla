-------------------------- MODULE ContractChannel --------------------------
(***************************************************************************)
(* The pure parts of the contract reader (deploy-lib/contract.ts): which   *)
(* channel the configuration selects, what the parser makes of an item     *)
(* document, whether an item is fresh, and which field a consumer gets.    *)
(*                                                                         *)
(* A setting is a class of strings: "blank" is one that trims to nothing,   *)
(* "empty" one without a character.                                        *)
(* A document is what the two transports have in common; its fields are a  *)
(* sequence, because the parser reads them in order.                       *)
(***************************************************************************)
EXTENDS Integers, Sequences, FiniteSets

CONSTANTS
    NoAge,        \* contract:maxAgeHours is not set
    NoLabel,      \* a field without a label
    Null,         \* a field without a value
    NonString,    \* a value that is not a string
    Garbage       \* a string that is no date and no JSON

LOCAL F == INSTANCE FiniteSetsExt

-----------------------------------------------------------------------------
(* getContractChannel *)

NoChannel    == [kind |-> "none"]
ChannelError == [kind |-> "error"]

\* An empty string is as good as none.
HasVault(c) == c.vault \notin {"unset", "empty"}

Trim(setting) == IF setting = "blank" THEN "unset" ELSE setting

\* Stack configuration first, even when it is blank, then the environment.
ConnectHost(c) == Trim(IF c.host # "unset" THEN c.host ELSE c.envHost)

\* A configured token is a secret Output: it counts as set before anyone can
\* know that it is blank.
HasToken(c) == c.token # "unset" \/ Trim(c.envToken) # "unset"

BadAge(c) == c.maxAgeHours # NoAge /\ c.maxAgeHours <= 0

Refused(c) ==
    LET host == ConnectHost(c) IN
    \/ BadAge(c)
    \/ host = "unset" /\ ~HasToken(c) /\ c.vault = "-name"
    \/ host = "unset" /\ HasToken(c)
    \/ host = "http"
    \/ host # "unset" /\ ~HasToken(c)

\* Mutant: Connect is used when it is configured, op otherwise.
GetContractChannel_FallsBack(c) ==
    IF ~HasVault(c) THEN NoChannel
    ELSE IF BadAge(c) THEN ChannelError
    ELSE [kind        |-> IF ConnectHost(c) # "unset" /\ HasToken(c) THEN "connect" ELSE "op",
          vault       |-> c.vault,
          maxAgeHours |-> c.maxAgeHours]

\* A partial configuration is an error and never another transport.
GetContractChannel(c) ==
    IF ~HasVault(c) THEN NoChannel
    ELSE IF Refused(c) THEN ChannelError
    ELSE [kind        |-> IF ConnectHost(c) = "unset" THEN "op" ELSE "connect",
          vault       |-> c.vault,
          maxAgeHours |-> c.maxAgeHours]

-----------------------------------------------------------------------------
(* parseContractItem *)

BadItem == [ok |-> FALSE]

Addressable(entry) == entry.label # NoLabel /\ entry.value # Null

\* The last entry of a label wins.  A value that is not a string is an error,
\* but only under a label.
ParseContractItem(raw, title) ==
    LET entries == raw.fields
        kept    == {i \in DOMAIN entries : Addressable(entries[i])}
        At(l)   == {i \in kept : entries[i].label = l}
        labels  == {entries[i].label : i \in kept}
    IN  IF \/ ~raw.object \/ raw.title # title
           \/ \E i \in kept : entries[i].value = NonString
        THEN BadItem
        ELSE [ok |-> TRUE, fields |-> [l \in labels |-> entries[F!Max(At(l))].value]]

-----------------------------------------------------------------------------
(* assertFresh and the field accessors *)

\* A stamp in the future is fresh.
Fresh(channel, fields, now) ==
    \/ channel.maxAgeHours = NoAge
    \/ /\ "producedAt" \in DOMAIN fields
       /\ fields["producedAt"] # Garbage
       /\ now - fields["producedAt"] <= channel.maxAgeHours

RequireContractField(fields, label) == label \in DOMAIN fields

\* requireJsonContractField and apiServerHostFromContractFields parse what
\* they find; the plain accessor hands it on as it is.
Project(fields, label, parsed) ==
    /\ RequireContractField(fields, label)
    /\ parsed => fields[label] # Garbage
=============================================================================
