---------------------------- MODULE OpSecretRefs ----------------------------
(***************************************************************************)
(* References to 1Password in a configuration (pulumi-config/               *)
(* op-secret-helpers.ts): each becomes a OnePasswordItem that an operator  *)
(* in the cluster turns into a Secret, and an environment variable that    *)
(* reads a key of that Secret.                                             *)
(*                                                                         *)
(* A call is [configKey, items], items <<[key, ref]>>, ref Unset or        *)
(* [vault, item, section, field].  Names are sequences of characters as    *)
(* far as they are told apart: a word, "-", or a sign that is replaced.    *)
(* Truncation and blockRef are left out.                                   *)
(***************************************************************************)
EXTENDS Resources, Naturals, SequencesExt, FiniteSets

CONSTANTS
    Unset,           \* an optional argument that is not given
    DnsChar,         \* toLowerCase, and "-" for what DNS-1123 does not allow
    KeyChars,        \* what a Secret's key allows
    EnvVarNaming     \* the caller's names for the variables, on item keys

\* One "-" at most in a row, and none at the ends.
Dashes(name) ==
    LET collapsed == FoldLeft(LAMBDA kept, c : IF c = "-" /\ (kept = <<>> \/ Last(kept) = "-")
                                               THEN kept ELSE Append(kept, c), <<>>, name)
    IN  IF collapsed # <<>> /\ Last(collapsed) = "-" THEN Front(collapsed) ELSE collapsed

ToDNS1123Name(name) == Dashes([i \in DOMAIN name |-> DnsChar[name[i]]])

Replaced(name) == [i \in DOMAIN name |-> IF name[i] \in KeyChars THEN name[i] ELSE "-"]

\* A bug: the ends are replaced as well.
NormalizeSecretKeyName_Unstripped(name) == Replaced(name)

\* What a key does not allow is stripped from both ends, and replaced in between.
NormalizeSecretKeyName(name) ==
    LET valid == {i \in DOMAIN name : name[i] \in KeyChars}
    IN  IF valid = {} THEN <<>> ELSE Replaced(SubSeq(name, Min(valid), Max(valid)))

\* A section cannot be told from the key in the Secret.
ReferenceAccepted(ref) == ref.section = Unset /\ NormalizeSecretKeyName(ref.field) # <<>>

ParseOnePasswordItemReference(ref) ==
    [itemPath |-> <<ref.vault, ref.item>>, fieldName |-> NormalizeSecretKeyName(ref.field)]

Referring(call) == {i \in ToSet(call.items) : i.ref # Unset}

SecretName(call, item) ==
    ToDNS1123Name(call.configKey \o <<"-">> \o item.key \o <<"-">>
                  \o ParseOnePasswordItemReference(item.ref).fieldName)

Differ(items, name(_)) == \A i, j \in items : name(i) = name(j) => i = j

\* A bug: two items of one Secret go through.
CallAccepted_SharedSecret(call) ==
    LET items == Referring(call)
    IN  /\ \A i \in items : ReferenceAccepted(i.ref) /\ SecretName(call, i) # <<>>
        /\ Differ(items, LAMBDA i : EnvVarNaming[i.key])

\* No two items of a call with one Secret or one variable.
CallAccepted(call) ==
    LET items == Referring(call)
    IN  /\ \A i \in items : ReferenceAccepted(i.ref) /\ SecretName(call, i) # <<>>
        /\ Differ(items, LAMBDA i : SecretName(call, i))
        /\ Differ(items, LAMBDA i : EnvVarNaming[i.key])

CreateOnePasswordSecretRefs(call) ==
    [v \in {EnvVarNaming[i.key] : i \in Referring(call)} |->
        LET i == CHOOSE j \in Referring(call) : EnvVarNaming[j.key] = v
        IN  [secretName |-> SecretName(call, i),
             key        |-> ParseOnePasswordItemReference(i.ref).fieldName]]

\* A OnePasswordItem of another name is another one.
ItemGoals(call) ==
    [n \in {<<call.configKey, i.key>> : i \in Referring(call)} |->
        LET i == CHOOSE j \in Referring(call) : j.key = n[2]
        IN  Goal(SecretName(call, i), ParseOnePasswordItemReference(i.ref).itemPath, TRUE, {}, {})]

\* No variable from two calls.
MergeAccepted(calls) ==
    \A c, d \in DOMAIN calls :
        c # d => DOMAIN CreateOnePasswordSecretRefs(calls[c])
                     \cap DOMAIN CreateOnePasswordSecretRefs(calls[d]) = {}

MergeSecretRefEnvs(calls) ==
    AllGoals([c \in DOMAIN calls |-> CreateOnePasswordSecretRefs(calls[c])])

SecretRefsAccepted(calls) ==
    (\A c \in ToSet(calls) : CallAccepted(c)) /\ MergeAccepted(calls)

SecretRefGoals(calls) == AllGoals([c \in DOMAIN calls |-> ItemGoals(calls[c])])
=============================================================================
