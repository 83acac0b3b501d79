---------------------------- MODULE LiteLLMKeyMC ----------------------------
(***************************************************************************)
(* Two instances of LiteLLMKey for TLC.  The constants of the configuration *)
(* span both; `setting` says which one a behaviour is of:                  *)
(*   "shared"  an administrator, two aliases and teams, and every fault;   *)
(*   "alone"   one alias and no team, faults that end, and fairness.       *)
(***************************************************************************)
EXTENDS LiteLLMKey

CONSTANTS
    a1, c1           \* the alias of the one, the configuration of the other

\* What each instance narrows lies within the constants that span both.
ASSUME InstancesAssumption ==
    /\ a1 \in Aliases /\ c1 \in Configs /\ NoTeam \in Teams
    /\ {"dropped", "lost", "lostGenerate", "crash"} \subseteq FaultKinds

VARIABLE setting

Shared == INSTANCE LiteLLMKey WITH Configs <- {c1}, MaxEdits <- 2
Alone  == INSTANCE LiteLLMKey WITH Aliases <- {a1}, Teams <- {NoTeam},
                                   FaultKinds <- {"dropped", "lost", "lostGenerate", "crash"}

all == <<vars, setting>>

In(s, A) == setting = s /\ A /\ UNCHANGED setting

MCInit == Init /\ setting \in {"shared", "alone"}

MCSpec ==
    /\ MCInit
    /\ [][In("shared", Shared!Next) \/ In("alone", Alone!Next)]_all
    /\ WF_all(In("alone", Alone!Provider))
    /\ SF_all(In("alone", Alone!Up)) /\ SF_all(In("alone", Alone!StartRead))

\* NoStaleCredential, where it is promised.
AloneNoStaleCredential == setting = "alone" => NoStaleCredential

\* Converges, where the world leaves the resource alone in the end.
AloneConverges == setting = "alone" => Converges
=============================================================================
