---------------------------- MODULE DeployEngine ----------------------------
(***************************************************************************)
(* External: what the Pulumi engine and its providers do with the resources *)
(* a program registers, as the components of packages/sector7 rely on it.  *)
(*                                                                         *)
(* A plan gives each logical name a goal:                                  *)
(*   key   the inputs whose change forces a replacement,                   *)
(*   data  the inputs that are updated in place,                           *)
(*   auto  a replacement is made beside what is there, which goes last:   *)
(*         create, roll, delete; otherwise it has to delete what is there  *)
(*         first, and everything that refers to it (litellm-proxy.ts:428), *)
(*   given a physical name is given, which is the key: while an older      *)
(*         generation of that name is still there, the create is refused,  *)
(*   refs  the resources whose outputs are among its inputs,               *)
(*   deps  those it only waits for (dependsOn, parent),                    *)
(*   bad   its inputs cannot be computed: an apply throws.                 *)
(*                                                                         *)
(* A run registers the plan and works on the resources whose needs are     *)
(* settled, in any order.  What left the plan, and what was replaced, goes *)
(* last.  A step may fail, and that ends the run where it is; the next run *)
(* starts from what the state file holds.                                  *)
(***************************************************************************)
EXTENDS Naturals, FiniteSets, Functions

CONSTANTS
    Programs,        \* everything an operator may deploy
    Plans,           \* the plan of each program that is accepted; for the others
                     \* a constructor throws, and nothing is registered
    Follows,         \* pairs of programs, the one before and after an edit
    MaxEdits,
    MaxFaults

VARIABLES
    program,
    plan,            \* of the run that is going on, or of the last one
    phase,           \* "idle", "up", "sweep", and "done" when a run got through
    settled,         \* the goals this run is done with
    live,            \* for each logical name, its generations that exist
    current,         \* and the one the state file records, 0 for none
    edits, faults

engine == <<plan, phase, settled, live, current>>
vars   == <<program, engine, edits, faults>>

Names == DOMAIN live
At(f, i) == IF i \in DOMAIN f THEN f[i] ELSE <<>>

Objects == UNION {{i} \X DOMAIN live[i] : i \in Names}
Object(o) == live[o[1]][o[2]]
Recorded(i) == i \in DOMAIN current
Now(i) == live[i][current[i]]

Needs(i) == (plan[i].refs \cup plan[i].deps) \cap DOMAIN plan

Wanted(i) ==
    [key |-> plan[i].key, data |-> plan[i].data,
     refs |-> {<<r, current[r]>> : r \in plan[i].refs \cap DOMAIN plan},
     deps |-> plan[i].deps \cap DOMAIN plan]

Ready(i) ==
    /\ phase = "up"
    /\ i \in DOMAIN plan \ settled
    /\ Needs(i) \subseteq settled
    /\ ~plan[i].bad

Replaces(i) == Recorded(i) /\ Now(i).key # plan[i].key

Init ==
    /\ program \in Programs
    /\ plan = <<>> /\ phase = "idle" /\ settled = {}
    /\ live = <<>> /\ current = <<>>
    /\ edits = 0 /\ faults = 0

Edit(p) ==
    /\ phase \in {"idle", "done"} /\ edits < MaxEdits
    /\ <<program, p>> \in Follows
    /\ program' = p /\ edits' = edits + 1 /\ phase' = "idle"
    /\ UNCHANGED <<plan, settled, live, current, faults>>

Start ==
    /\ phase = "idle" /\ program \in DOMAIN Plans
    /\ plan' = Plans[program] /\ phase' = "up" /\ settled' = {}
    /\ UNCHANGED <<program, live, current, edits, faults>>

Put(i, g, o) ==
    /\ live' = [k \in Names \cup {i} |->
                   IF k = i THEN [h \in DOMAIN At(live, i) \cup {g} |->
                                     IF h = g THEN o ELSE live[i][h]]
                            ELSE live[k]]
    /\ current' = [k \in DOMAIN current \cup {i} |-> IF k = i THEN g ELSE current[k]]

\* A generated name is one that nothing has, and that nothing still mentions.
Fresh(i) ==
    LET used == DOMAIN At(live, i)
                \cup {r[2] : r \in {s \in UNION {Object(o).refs : o \in Objects} : s[1] = i}}
    IN  CHOOSE g \in 1 .. Cardinality(used) + 1 : g \notin used

\* The name that i is to have is still that of an older generation, from before
\* the name was changed and changed back: the create is refused.
Taken(i) ==
    /\ plan[i].given
    /\ Recorded(i) => Replaces(i)
    /\ \E g \in DOMAIN At(live, i) : live[i][g].key = plan[i].key

\* What is as it should be is left alone; when this happens does not matter.
Same == {i \in DOMAIN plan : Ready(i) /\ Recorded(i) /\ Now(i) = Wanted(i)}

Keep ==
    /\ Same # {}
    /\ settled' = settled \cup Same
    /\ UNCHANGED <<program, plan, phase, live, current, edits, faults>>

(***************************************************************************)
(* One goal that is ready: created, updated in place, or replaced by a new *)
(* generation beside the old one.                                          *)
(***************************************************************************)
Apply(i) ==
    /\ Ready(i) /\ Same = {}
    /\ Replaces(i) => plan[i].auto
    /\ ~Taken(i)
    /\ Put(i, IF Recorded(i) /\ ~Replaces(i) THEN current[i]
              ELSE IF plan[i].auto THEN Fresh(i) ELSE 1, Wanted(i))
    /\ settled' = settled \cup {i}
    /\ UNCHANGED <<program, plan, phase, edits, faults>>

Drop(o) ==
    LET i    == o[1]
        rest == DOMAIN live[i] \ {o[2]}
    IN  /\ live' = [k \in IF rest = {} THEN Names \ {i} ELSE Names |->
                       IF k = i THEN Restrict(live[i], rest) ELSE live[k]]
        /\ current' = IF Recorded(i) /\ current[i] = o[2]
                      THEN Restrict(current, DOMAIN current \ {i}) ELSE current

Referrers(o) == {p \in Objects : o \in Object(p).refs}
Dependents(o) == {p \in Objects : o \in Object(p).refs \/ o[1] \in Object(p).deps}

(***************************************************************************)
(* A goal with a fixed name is replaced: first goes everything that refers *)
(* to the old one, then the old one.                                       *)
(***************************************************************************)
Upward(os) ==
    LET up[n \in Nat] ==
            IF n = 0 THEN os
            ELSE LET below == up[n - 1] IN below \cup UNION {Referrers(o) : o \in below}
    IN  UNION {up[n] : n \in 0 .. Cardinality(Objects)}

DropFor(i) ==
    /\ Ready(i) /\ Replaces(i) /\ ~plan[i].auto /\ Same = {}
    /\ \E o \in Upward({<<i, current[i]>>}) :
          /\ Referrers(o) = {}
          /\ Drop(o)
          /\ settled' = settled \ {o[1]}
    /\ UNCHANGED <<program, plan, phase, edits, faults>>

Sweep ==
    /\ phase = "up" /\ settled = DOMAIN plan
    /\ phase' = "sweep"
    /\ UNCHANGED <<program, plan, settled, live, current, edits, faults>>

Leftover == {o \in Objects : o[1] \notin DOMAIN plan \/ o[2] # current[o[1]]}

Delete(o) ==
    /\ phase = "sweep" /\ o \in Leftover
    /\ (Dependents(o) \cap Leftover) \ {o} = {}
    /\ Drop(o)
    /\ UNCHANGED <<program, plan, phase, settled, edits, faults>>

Finish ==
    /\ phase = "sweep" /\ Leftover = {}
    /\ phase' = "done"
    /\ UNCHANGED <<program, plan, settled, live, current, edits, faults>>

(* An apply throws, a create is refused, or a step fails: the run ends. *)
Throw ==
    /\ phase = "up"
    /\ \E i \in DOMAIN plan : (plan[i].bad \/ Taken(i)) /\ Needs(i) \subseteq settled
    /\ phase' = "idle"
    /\ UNCHANGED <<program, plan, settled, live, current, edits, faults>>

Fail ==
    /\ phase \in {"up", "sweep"} /\ faults < MaxFaults
    /\ phase' = "idle" /\ faults' = faults + 1
    /\ UNCHANGED <<program, plan, settled, live, current, edits>>

Step ==
    \/ Start \/ Keep \/ Sweep \/ Finish
    \/ \E i \in DOMAIN plan : Apply(i)
    \/ \E i \in DOMAIN plan : DropFor(i)
    \/ \E o \in Objects : Delete(o)

Next ==
    \/ \E p \in Programs : Edit(p)
    \/ Step
    \/ Throw
    \/ Fail

Spec     == Init /\ [][Next]_vars
FairSpec == Spec /\ WF_vars(Step)

\* What exists is what the plan of the last run says.
Synced ==
    /\ phase = "done"
    /\ Names = DOMAIN plan
    /\ \A i \in Names : /\ DOMAIN live[i] = {current[i]}
                        /\ Now(i) = Wanted(i)
=============================================================================
