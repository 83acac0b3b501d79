---------------------------- MODULE ItemSnapshot ----------------------------
(***************************************************************************)
(* What the readers of one program may assume of a published item: all who *)
(* get an answer get it from one and the same version, however often the   *)
(* publisher replaces the item while the program runs, and a failure says  *)
(* nothing to the others.                                                  *)
(***************************************************************************)
CONSTANTS Readers, Titles, Versions, TitleOf(_), None, Failed

VARIABLES
    chosen,      \* the version of each item this program works with
    answer       \* what each reader got: None (nothing yet), Failed or a version

vars == <<chosen, answer>>

Init ==
    /\ chosen = [t \in Titles |-> None]
    /\ answer = [r \in Readers |-> None]

\* The version is chosen once and for all.
Choose(t) ==
    /\ chosen[t] = None
    /\ \E v \in Versions : chosen' = [chosen EXCEPT ![t] = v]
    /\ UNCHANGED answer

Serve(r) ==
    /\ answer[r] = None
    /\ chosen[TitleOf(r)] # None
    /\ answer' = [answer EXCEPT ![r] = chosen[TitleOf(r)]]
    /\ UNCHANGED chosen

Refuse(r) ==
    /\ answer[r] = None
    /\ answer' = [answer EXCEPT ![r] = Failed]
    /\ UNCHANGED chosen

Next ==
    \/ \E t \in Titles : Choose(t)
    \/ \E r \in Readers : Serve(r) \/ Refuse(r)

Spec == Init /\ [][Next]_vars
=============================================================================
