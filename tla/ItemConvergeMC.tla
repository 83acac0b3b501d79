--------------------------- MODULE ItemConvergeMC ---------------------------
(***************************************************************************)
(* Two instances of OnePasswordItem for TLC.  The constants of the          *)
(* configuration span both; `setting` says which one a behaviour is of:    *)
(*   "converge" only the program writes, requests and answers are lost,    *)
(*              and somebody keeps running `pulumi up`;                    *)
(*   "program"  the program changes values and fields, a person makes an   *)
(*              item, and no request takes effect unanswered.              *)
(***************************************************************************)
EXTENDS OnePasswordItem

CONSTANTS
    v1,              \* the only value of the first
    t1               \* the only title of the second

\* What each instance narrows lies within the constants that span both.
ASSUME InstancesAssumption ==
    /\ v1 \in Values /\ t1 \in Titles /\ 2 <= MaxEdits /\ 2 <= MaxFaults
    /\ "create" \in HandKinds /\ {"dropped", "crash"} \subseteq FaultKinds

VARIABLE setting

Converge == INSTANCE OnePasswordItem WITH
    Values <- {v1}, HandKinds <- {}, MaxEdits <- 2, MaxHands <- 0
Program  == INSTANCE OnePasswordItem WITH
    Titles <- {t1}, HandKinds <- {"create"}, FaultKinds <- {"dropped", "crash"}, MaxFaults <- 2

all == <<vars, setting>>

In(s, A) == setting = s /\ A /\ UNCHANGED setting

MCInit == Init /\ setting \in {"converge", "program"}

MCSpec ==
    /\ MCInit
    /\ [][In("converge", Converge!Next) \/ In("program", Program!Next)]_all
    /\ WF_all(In("converge", Converge!Provider))

\* Converges of the one; RecordedItemExists and InSync of the other, where
\* nobody deletes or writes by hand.
RunsConverge              == setting = "converge" => Converge!Converges
ProgramRecordedItemExists == setting = "program" => RecordedItemExists
ProgramInSync             == setting = "program" => InSync
=============================================================================
