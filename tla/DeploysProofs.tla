--------------------------- MODULE DeploysProofs ---------------------------
(***************************************************************************)
(* Theorems about Deploys, for any arguments of any of its components, and *)
(* any number of edits and faults: what a run keeps on its way, and in     *)
(* which order it works.                                                   *)
(***************************************************************************)
EXTENDS Deploys, FiniteSetTheorems, WellFoundedInduction, TLAPS

-----------------------------------------------------------------------------
(* What Upward computes *)

\* Every nonempty set of numbers has a least one: the induction of this module.
LEMMA LeastElement ==
    ASSUME NEW ns, ns \subseteq Nat, ns # {} PROVE \E m \in ns : \A k \in ns : m <= k
<1>1. PICK m \in ns : \A k \in ns : <<k, m>> \notin OpToRel(<, Nat)
  BY WFMin, NatLessThanWellFounded, Zenon
<1>2. \A k \in ns : ~(k < m)
  BY <1>1 DEF OpToRel
<1> QED BY <1>2

Above(below) == below \cup UNION {Referrers(o) : o \in below}

\* The objects that are reached from one of os in n steps, each to a referrer of
\* the object before, or to itself.
Reaches(os, n, path) ==
    /\ path[0] \in os
    /\ \A k \in 0 .. n - 1 : path[k + 1] \in {path[k]} \cup Referrers(path[k])

Rounds(os) ==
    [n \in Nat |-> {p \in os \cup Objects :
        \E path \in [0 .. n -> os \cup Objects] : Reaches(os, n, path) /\ path[n] = p}]

LEMMA RoundsRecur ==
    ASSUME NEW os
    PROVE  Rounds(os) = [n \in Nat |-> IF n = 0 THEN os ELSE Above(Rounds(os)[n - 1])]
<1> DEFINE all == os \cup Objects
<1>1. Rounds(os)[0] = os
  <2>1. ASSUME NEW p \in os PROVE p \in Rounds(os)[0]
    <3> DEFINE path == [k \in 0 .. 0 |-> p]
    <3>1. path \in [0 .. 0 -> all] /\ Reaches(os, 0, path) /\ path[0] = p
      BY DEF Reaches
    <3> QED BY <3>1 DEF Rounds
  <2> QED BY <2>1 DEF Rounds, Reaches
<1>2. ASSUME NEW n \in Nat, n # 0 PROVE Rounds(os)[n] = Above(Rounds(os)[n - 1])
  <2>0. /\ n - 1 \in Nat /\ n - 1 \in 0 .. n - 1 /\ (n - 1) + 1 = n /\ 0 \in 0 .. n - 1
        /\ \A k \in 0 .. (n - 1) - 1 : k \in 0 .. n - 1 /\ k + 1 \in 0 .. n - 1
    BY <1>2
  <2>9. \A o : Referrers(o) \subseteq Objects
    BY DEF Referrers
  <2>1. ASSUME NEW p \in Rounds(os)[n] PROVE p \in Above(Rounds(os)[n - 1])
    <3>1. PICK path \in [0 .. n -> all] : Reaches(os, n, path) /\ path[n] = p
      BY DEF Rounds
    <3> DEFINE short == [k \in 0 .. n - 1 |-> path[k]]
    <3>2. short \in [0 .. n - 1 -> all]
      OBVIOUS
    <3>3. Reaches(os, n - 1, short)
      BY <2>0, <3>1 DEF Reaches
    <3>4. path[n - 1] \in Rounds(os)[n - 1]
      BY <2>0, <3>2, <3>3 DEF Rounds
    <3>5. p \in {path[n - 1]} \cup Referrers(path[n - 1])
      BY <2>0, <3>1 DEF Reaches
    <3> QED BY <3>4, <3>5 DEF Above
  <2>2. ASSUME NEW p \in Above(Rounds(os)[n - 1]) PROVE p \in Rounds(os)[n]
    <3>1. PICK o \in Rounds(os)[n - 1] : p \in {o} \cup Referrers(o)
      BY <2>2 DEF Above
    <3>2. PICK path \in [0 .. n - 1 -> all] : Reaches(os, n - 1, path) /\ path[n - 1] = o
      BY <2>0, <3>1 DEF Rounds
    <3>3. o \in all /\ p \in all
      BY <2>0, <2>9, <3>1, <3>2
    <3> DEFINE long == [k \in 0 .. n |-> IF k = n THEN p ELSE path[k]]
    <3>4. long \in [0 .. n -> all] /\ long[n] = p
      BY <3>2, <3>3
    <3>5. Reaches(os, n, long)
      <4>1. long[0] \in os
        BY <1>2, <2>0, <3>2 DEF Reaches
      <4>2. ASSUME NEW k \in 0 .. n - 1 PROVE long[k + 1] \in {long[k]} \cup Referrers(long[k])
        <5>1. CASE k = n - 1
          BY <3>1, <3>2, <5>1
        <5>2. CASE k # n - 1
          <6>1. k \in 0 .. (n - 1) - 1 /\ k + 1 # n /\ k # n /\ k + 1 \in 0 .. n
            BY <5>2
          <6>2. path[k + 1] \in {path[k]} \cup Referrers(path[k])
            BY <3>2, <6>1 DEF Reaches
          <6> QED BY <6>1, <6>2
        <5> QED BY <5>1, <5>2
      <4> QED BY <4>1, <4>2 DEF Reaches
    <3> HIDE DEF long
    <3> QED BY <3>3, <3>4, <3>5 DEF Rounds
  <2> QED BY <2>1, <2>2
<1>3. Rounds(os) = [n \in Nat |-> Rounds(os)[n]]
  BY DEF Rounds
<1> QED BY <1>1, <1>2, <1>3

\* What is not reached stays out: a set whose objects refer to one another only,
\* and none of which is there at first, is left alone.
LEMMA UpwardAvoids ==
    ASSUME NEW os, NEW X, os \cap X = {},
           \A p \in Objects \cap X : Object(p).refs \subseteq X
    PROVE  Upward(os) \cap X = {}
<1> DEFINE up == CHOOSE up : up = [n \in Nat |-> IF n = 0 THEN os ELSE Above(up[n - 1])]
<1>1. up = [n \in Nat |-> IF n = 0 THEN os ELSE Above(up[n - 1])]
  BY RoundsRecur
<1>2. Upward(os) = UNION {up[n] : n \in 0 .. Cardinality(Objects)}
  BY DEF Upward, Above
<1> HIDE DEF up
<1>3. {n \in Nat : up[n] \cap X # {}} = {}
  <2> DEFINE ns == {n \in Nat : up[n] \cap X # {}}
  <2> SUFFICES ASSUME ns # {} PROVE FALSE
    OBVIOUS
  <2>1. PICK m \in ns : \A k \in ns : m <= k
    <3>1. ns \subseteq Nat
      OBVIOUS
    <3> HIDE DEF ns
    <3> QED BY <3>1, LeastElement
  <2>2. m # 0
    BY <1>1
  <2>3. m - 1 \in Nat /\ up[m - 1] \cap X = {}
    BY <2>1, <2>2
  <2>4. up[m] = Above(up[m - 1])
    BY <1>1, <2>2
  <2>5. Above(up[m - 1]) \cap X = {}
    BY <2>3 DEF Above, Referrers
  <2> QED BY <2>4, <2>5
<1>4. \A n \in 0 .. Cardinality(Objects) : n \in Nat
  OBVIOUS
<1> QED BY <1>2, <1>3, <1>4

-----------------------------------------------------------------------------
(* What a run leaves behind *)

\* A program that is accepted, of the component that is deployed.
OfFamily(q) == q \in DOMAIN Plans /\ q[1] = program[1]

PlanInv ==
    /\ program \in Programs
    /\ phase \in {"idle", "up", "sweep", "done"}
    /\ plan = <<>> \/ \E q : OfFamily(q) /\ plan = Plans[q]
    /\ phase # "idle" => OfFamily(program) /\ plan = Plans[program]
    /\ settled \subseteq DOMAIN plan
    /\ phase \in {"sweep", "done"} => settled = DOMAIN plan

\* The record names generations that exist, and no name is left without one.
LiveInv ==
    /\ DOMAIN current \subseteq Names
    /\ \A i \in DOMAIN current : current[i] \in DOMAIN live[i]
    /\ \A i \in Names : DOMAIN live[i] # {}

\* What exists was made from a goal of one of the component's programs.
MadeFrom(i, o, q) ==
    /\ OfFamily(q) /\ i \in DOMAIN Plans[q]
    /\ o.key = Plans[q][i].key /\ o.data = Plans[q][i].data
    /\ {r[1] : r \in o.refs} = Plans[q][i].refs \cap DOMAIN Plans[q]
    /\ o.deps = Plans[q][i].deps \cap DOMAIN Plans[q]

Made(i, o) == \E q : MadeFrom(i, o, q)

MadeInv == \A i \in Names : \A g \in DOMAIN live[i] : Made(i, live[i][g])

\* A name that no program of the component leaves to Pulumi has one generation,
\* which is recorded.
Fixed(i) == \A q : OfFamily(q) /\ i \in DOMAIN Plans[q] => ~Plans[q][i].auto

FixedInv == \A i \in Names : Fixed(i) => Recorded(i) /\ current[i] = 1 /\ DOMAIN live[i] = {1}

\* A set of goals that are as the plan wants them, with all they refer to.  What
\* is settled is among them; and so is what was, and lost an old generation to
\* the replacement of something else.
Correct(C) ==
    /\ settled \subseteq C /\ C \subseteq DOMAIN plan
    /\ \A i \in C : /\ Recorded(i) /\ Now(i) = Wanted(i) /\ ~plan[i].bad
                    /\ plan[i].refs \cap DOMAIN plan \subseteq C

SettledInv == \E C : Correct(C)

DoneInv == phase = "done" => Leftover = {}

EngineInv == PlanInv /\ LiveInv /\ MadeInv /\ FixedInv /\ SettledInv /\ DoneInv

LEMMA ObjectsAre ==
    ASSUME NEW o
    PROVE  /\ o \in Objects <=> \E i \in Names : \E g \in DOMAIN live[i] : o = <<i, g>>
           /\ o \in (Objects)' <=> \E i \in Names' : \E g \in DOMAIN live'[i] : o = <<i, g>>
  BY DEF Objects, Names

\* What putting and dropping a generation do.
PutAt(i, g, o) ==
    /\ DOMAIN live' = Names \cup {i}
    /\ \A k \in Names \ {i} : live'[k] = live[k]
    /\ DOMAIN live'[i] = (IF i \in Names THEN DOMAIN live[i] ELSE {}) \cup {g}
    /\ live'[i][g] = o
    /\ \A h \in DOMAIN live'[i] \ {g} : live'[i][h] = live[i][h]
    /\ DOMAIN current' = DOMAIN current \cup {i} /\ current'[i] = g
    /\ \A k \in DOMAIN current \ {i} : current'[k] = current[k]

LEMMA PutPuts == ASSUME NEW i, NEW g, NEW o, Put(i, g, o) PROVE PutAt(i, g, o)
  <1>1. DOMAIN At(live, i) = IF i \in Names THEN DOMAIN live[i] ELSE {}
    BY DEF At, Names
  <1> QED BY <1>1 DEF Put, PutAt, Names

DroppedAt(i, g) ==
    /\ i \in Names /\ g \in DOMAIN live[i]
    /\ DOMAIN live' = IF DOMAIN live[i] = {g} THEN Names \ {i} ELSE Names
    /\ \A k \in Names \ {i} : live'[k] = live[k]
    /\ i \in DOMAIN live' =>
          /\ DOMAIN live'[i] = DOMAIN live[i] \ {g}
          /\ \A h \in DOMAIN live'[i] : live'[i][h] = live[i][h]
    /\ DOMAIN current' = IF Recorded(i) /\ current[i] = g THEN DOMAIN current \ {i} ELSE DOMAIN current
    /\ \A k \in DOMAIN current' : current'[k] = current[k]

LEMMA DropDrops ==
    ASSUME NEW i \in Names, NEW g \in DOMAIN live[i], Drop(<<i, g>>)
    PROVE  DroppedAt(i, g)
  <1> DEFINE rest == DOMAIN live[i] \ {g}
  <1>1. /\ live' = [k \in IF rest = {} THEN Names \ {i} ELSE Names |->
                       IF k = i THEN Restrict(live[i], rest) ELSE live[k]]
        /\ current' = IF Recorded(i) /\ current[i] = g
                      THEN Restrict(current, DOMAIN current \ {i}) ELSE current
    BY DEF Drop
  <1>2. rest = {} <=> DOMAIN live[i] = {g}
    OBVIOUS
  <1> QED BY <1>1, <1>2 DEF DroppedAt, Restrict, Names

-----------------------------------------------------------------------------
(* The steps of a run *)

\* Edits stay within the component.
LEMMA FamilyKept ==
    ASSUME [Next]_vars
    PROVE  /\ program'[1] = program[1] /\ \A q : OfFamily(q)' <=> OfFamily(q)
           /\ \A i : Fixed(i)' <=> Fixed(i)
           /\ \A i, o : Made(i, o)' <=> Made(i, o)
           /\ program \in Programs => program' \in Programs
  <1>1. ASSUME NEW p \in Programs, Edit(p) PROVE program' \in Programs /\ program'[1] = program[1]
    <2>1. <<program, p>> \in FollowsOfAll /\ program' = p
      BY <1>1, TablesAssumption DEF Edit
    <2> QED BY <1>1, <2>1 DEF FollowsOfAll
  <1>2. ASSUME ~\E p \in Programs : Edit(p) PROVE program' = program
    BY <1>2 DEF Next, Step, Start, Keep, Sweep, Finish, Apply, DropFor, Delete, Throw, Fail, vars
  <1>3. program'[1] = program[1] /\ (program \in Programs => program' \in Programs)
    BY <1>1, <1>2
  <1> QED BY <1>3 DEF OfFamily, Fixed, Made, MadeFrom

\* One goal that is applied: where it is put.
LEMMA ApplyPuts ==
    ASSUME NEW i, Apply(i)
    PROVE  \E g : /\ PutAt(i, g, Wanted(i))
                  /\ Recorded(i) /\ ~Replaces(i) => g = current[i]
                  /\ ~(Recorded(i) /\ ~Replaces(i)) => g = IF plan[i].auto THEN Fresh(i) ELSE 1
  <1> DEFINE g == IF Recorded(i) /\ ~Replaces(i) THEN current[i]
                  ELSE IF plan[i].auto THEN Fresh(i) ELSE 1
  <1>1. Put(i, g, Wanted(i))
    BY DEF Apply
  <1> HIDE DEF g
  <1>2. PutAt(i, g, Wanted(i))
    BY <1>1, PutPuts
  <1> QED BY <1>2 DEF g

\* One object that a replacement takes down: it exists, and nothing refers to it.
LEMMA DropForDrops ==
    ASSUME LiveInv, NEW i, DropFor(i)
    PROVE  \E j \in Names : \E g \in DOMAIN live[j] :
              /\ DroppedAt(j, g) /\ <<j, g>> \in Upward({<<i, current[i]>>})
              /\ Referrers(<<j, g>>) = {}
              /\ settled' = settled \ {j}
  <1>1. PICK o \in Upward({<<i, current[i]>>}) :
           Referrers(o) = {} /\ Drop(o) /\ settled' = settled \ {o[1]}
    BY DEF DropFor
  <1>2. o \in Objects
    <2>1. ASSUME o \notin Objects PROVE FALSE
      <3>1. o # <<i, current[i]>>
        <4>1. i \in Names /\ current[i] \in DOMAIN live[i]
          BY DEF DropFor, Replaces, Recorded, LiveInv
        <4> QED BY <2>1, <4>1, ObjectsAre
      <3>2. {<<i, current[i]>>} \cap {o} = {} /\ Objects \cap {o} = {}
        BY <2>1, <3>1
      <3>3. Upward({<<i, current[i]>>}) \cap {o} = {}
        BY <3>2, UpwardAvoids
      <3> QED BY <1>1, <3>3
    <2> QED BY <2>1
  <1>3. PICK j \in Names : \E g \in DOMAIN live[j] : o = <<j, g>>
    BY <1>2, ObjectsAre
  <1>4. PICK g \in DOMAIN live[j] : o = <<j, g>>
    BY <1>3
  <1> QED BY <1>1, <1>4, DropDrops

LEMMA DeleteDrops ==
    ASSUME NEW o \in Objects, Delete(o)
    PROVE  \E j \in Names : \E g \in DOMAIN live[j] :
              /\ DroppedAt(j, g) /\ o = <<j, g>> /\ o \in Leftover
              /\ (Dependents(o) \cap Leftover) \ {o} = {}
  <1>1. PICK j \in Names : \E g \in DOMAIN live[j] : o = <<j, g>>
    BY ObjectsAre
  <1>2. PICK g \in DOMAIN live[j] : o = <<j, g>>
    BY <1>1
  <1> QED BY <1>2, DropDrops DEF Delete

LEMMA NextPlan == ASSUME PlanInv, [Next]_vars PROVE PlanInv'
  <1>1. /\ program' \in Programs /\ \A q : OfFamily(q)' <=> OfFamily(q)
    BY FamilyKept DEF PlanInv
  <1>2. CASE \E p \in Programs : Edit(p)
    BY <1>1, <1>2 DEF Edit, PlanInv
  <1>3. CASE Start
    <2>1. OfFamily(program)' /\ program' = program
      BY <1>1, <1>3 DEF Start, OfFamily
    <2> QED BY <1>1, <1>3, <2>1 DEF Start, PlanInv
  <1>4. CASE Keep
    <2>1. UNCHANGED <<program, plan, phase>> /\ settled' = settled \cup Same /\ phase = "up"
      BY <1>4 DEF Keep, Same, Ready
    <2> QED BY <1>1, <2>1 DEF PlanInv, Same
  <1>5. CASE \E i \in DOMAIN plan : Apply(i)
    <2>1. UNCHANGED <<program, plan, phase>> /\ settled' \subseteq DOMAIN plan /\ phase = "up"
      BY <1>5 DEF Apply, Ready, PlanInv
    <2> QED BY <1>1, <2>1 DEF PlanInv
  <1>6. CASE \E i \in DOMAIN plan : DropFor(i)
    <2>1. UNCHANGED <<program, plan, phase>> /\ settled' \subseteq settled /\ phase = "up"
      BY <1>6 DEF DropFor, Ready
    <2> QED BY <1>1, <2>1 DEF PlanInv
  <1>7. CASE \E o \in Objects : Delete(o)
    BY <1>1, <1>7 DEF PlanInv, Delete
  <1>8. CASE Sweep \/ Finish \/ Throw \/ Fail
    BY <1>1, <1>8 DEF PlanInv, Sweep, Finish, Throw, Fail
  <1>9. CASE UNCHANGED vars
    BY <1>1, <1>9 DEF PlanInv, vars, engine
  <1> QED BY <1>2, <1>3, <1>4, <1>5, <1>6, <1>7, <1>8, <1>9 DEF Next, Step

\* Putting and dropping, one part of the invariant at a time.
LEMMA PutLive == ASSUME LiveInv, NEW i, NEW g, NEW o, PutAt(i, g, o) PROVE LiveInv'
  BY DEF LiveInv, PutAt, Names

LEMMA DropLive ==
    ASSUME LiveInv, NEW i \in Names, NEW g \in DOMAIN live[i], DroppedAt(i, g) PROVE LiveInv'
  <1>1. \A k \in DOMAIN current' : k \in Names /\ current[k] \in DOMAIN live[k] /\ current'[k] = current[k]
    BY DEF LiveInv, DroppedAt
  <1>2. \A k \in DOMAIN current' : k = i => current[k] # g
    BY DEF DroppedAt, LiveInv, Recorded
  <1>3. ASSUME NEW k \in DOMAIN current' PROVE k \in DOMAIN live' /\ current'[k] \in DOMAIN live'[k]
    <2>1. CASE k = i
      BY <1>1, <1>2, <2>1 DEF DroppedAt
    <2>2. CASE k # i
      BY <1>1, <2>2 DEF DroppedAt
    <2> QED BY <2>1, <2>2
  <1>4. ASSUME NEW k \in DOMAIN live' PROVE DOMAIN live'[k] # {}
    <2>1. CASE k = i
      BY <2>1, <1>4 DEF DroppedAt, LiveInv
    <2>2. CASE k # i
      BY <1>4, <2>2 DEF DroppedAt, LiveInv
    <2> QED BY <2>1, <2>2
  <1> QED BY <1>3, <1>4 DEF LiveInv, Names

LEMMA PutMade ==
    ASSUME MadeInv, [Next]_vars, NEW i, NEW g, NEW o, PutAt(i, g, o), Made(i, o) PROVE MadeInv'
  <1>1. ASSUME NEW k \in DOMAIN live', NEW h \in DOMAIN live'[k] PROVE Made(k, live'[k][h])
    <2>1. CASE k = i /\ h = g
      BY <2>1 DEF PutAt
    <2>2. CASE k = i /\ h # g
      BY <1>1, <2>2 DEF PutAt, MadeInv
    <2>3. CASE k # i
      BY <1>1, <2>3 DEF PutAt, MadeInv
    <2> QED BY <2>1, <2>2, <2>3
  <1>2. program'[1] = program[1]
    BY FamilyKept
  <1>3. ASSUME NEW k \in DOMAIN live', NEW h \in DOMAIN live'[k] PROVE Made(k, live[k][h])'
    <2>1. PICK q : MadeFrom(k, live'[k][h], q)
      BY <1>1, <1>3 DEF Made
    <2>2. MadeFrom(k, live[k][h], q)'
      BY <1>2, <2>1 DEF MadeFrom, OfFamily
    <2> QED BY <2>2 DEF Made
  <1> QED BY <1>3 DEF MadeInv, Names

LEMMA DropMade ==
    ASSUME MadeInv, [Next]_vars, NEW i \in Names, NEW g \in DOMAIN live[i], DroppedAt(i, g)
    PROVE  MadeInv'
  <1>1. ASSUME NEW k \in DOMAIN live', NEW h \in DOMAIN live'[k] PROVE Made(k, live'[k][h])
    BY <1>1 DEF DroppedAt, MadeInv
  <1>2. program'[1] = program[1]
    BY FamilyKept
  <1>3. ASSUME NEW k \in DOMAIN live', NEW h \in DOMAIN live'[k] PROVE Made(k, live[k][h])'
    <2>1. PICK q : MadeFrom(k, live'[k][h], q)
      BY <1>1, <1>3 DEF Made
    <2>2. MadeFrom(k, live[k][h], q)'
      BY <1>2, <2>1 DEF MadeFrom, OfFamily
    <2> QED BY <2>2 DEF Made
  <1> QED BY <1>3 DEF MadeInv, Names

LEMMA PutFixed ==
    ASSUME FixedInv, [Next]_vars, NEW i, NEW g, NEW o, PutAt(i, g, o), Fixed(i) => g = 1
    PROVE  FixedInv'
  <1>1. \A k : Fixed(k)' <=> Fixed(k)
    BY FamilyKept
  <1>2. ASSUME NEW k \in DOMAIN live', Fixed(k)
        PROVE  k \in DOMAIN current' /\ current'[k] = 1 /\ DOMAIN live'[k] = {1}
    <2>1. CASE k = i
      BY <1>2, <2>1 DEF PutAt, FixedInv
    <2>2. CASE k # i
      BY <1>2, <2>2 DEF PutAt, FixedInv, Recorded
    <2> QED BY <2>1, <2>2
  <1> QED BY <1>1, <1>2 DEF FixedInv, Names, Recorded

LEMMA DropFixed ==
    ASSUME FixedInv, [Next]_vars, NEW i \in Names, NEW g \in DOMAIN live[i], DroppedAt(i, g)
    PROVE  FixedInv'
  <1>1. \A k : Fixed(k)' <=> Fixed(k)
    BY FamilyKept
  <1>2. ASSUME NEW k \in DOMAIN live', Fixed(k)
        PROVE  k \in DOMAIN current' /\ current'[k] = 1 /\ DOMAIN live'[k] = {1}
    BY <1>2 DEF DroppedAt, FixedInv, Recorded
  <1> QED BY <1>1, <1>2 DEF FixedInv, Names, Recorded

\* What refers to nothing that is dropped stays correct.
LEMMA DropCorrect ==
    ASSUME LiveInv, NEW C, Correct(C), UNCHANGED plan,
           NEW i \in Names, NEW g \in DOMAIN live[i], DroppedAt(i, g),
           \/ i \notin C
           \/ Recorded(i) /\ current[i] # g
           \/ Referrers(<<i, g>>) = {},
           settled' \subseteq settled,
           i \in settled' => Recorded(i) /\ current[i] # g
    PROVE  \E D : /\ D = IF Recorded(i) /\ current[i] = g THEN C \ {i} ELSE C
                  /\ Correct(D)'
  <1>0. PICK D : D = IF Recorded(i) /\ current[i] = g THEN C \ {i} ELSE C
    OBVIOUS
  <1>1. \A k \in D : k \in C /\ k \in DOMAIN current' /\ current'[k] = current[k]
    BY <1>0 DEF DroppedAt, Correct, Recorded
  <1>2. \A k \in D : live'[k][current'[k]] = live[k][current[k]] /\ live[k][current[k]] = Wanted(k)
    <2> SUFFICES ASSUME NEW k \in D
                 PROVE  live'[k][current'[k]] = live[k][current[k]] /\ Now(k) = Wanted(k)
      BY DEF Now
    <2>1. Now(k) = Wanted(k) /\ k \in Names /\ current[k] \in DOMAIN live[k]
      BY <1>1 DEF Correct, Recorded, LiveInv
    <2>2. CASE k = i
      <3>1. current[k] # g
        BY <1>0, <1>1, <2>2 DEF DroppedAt, Correct, Recorded
      <3> QED BY <1>1, <2>1, <2>2, <3>1 DEF DroppedAt
    <2>3. CASE k # i
      BY <1>1, <2>1, <2>3 DEF DroppedAt
    <2> QED BY <2>1, <2>2, <2>3
  <1>3. ASSUME NEW k \in D, NEW r \in plan[k].refs \cap DOMAIN plan PROVE r \in D
    <2>1. r \in C
      BY <1>1 DEF Correct
    <2>2. CASE r = i /\ Recorded(i) /\ current[i] = g
      <3>1. Referrers(<<i, g>>) = {}
        BY <2>1, <2>2
      <3>2. <<i, g>> \in live[k][current[k]].refs
        <4>1. <<r, current[r]>> \in {<<x, current[x]>> : x \in plan[k].refs \cap DOMAIN plan}
          OBVIOUS
        <4>2. <<r, current[r]>> \in Wanted(k).refs
          BY <4>1 DEF Wanted
        <4> QED BY <1>2, <2>2, <4>2
      <3>3. <<k, current[k]>> \in Objects
        BY <1>1, ObjectsAre DEF Correct, LiveInv, Recorded
      <3>4. <<k, current[k]>> \in Referrers(<<i, g>>)
        BY <3>2, <3>3 DEF Referrers, Object
      <3> QED BY <3>1, <3>4
    <2> QED BY <1>0, <2>1, <2>2
  <1>4. \A k \in D : Wanted(k)' = Wanted(k)
    <2> SUFFICES ASSUME NEW k \in D PROVE Wanted(k)' = Wanted(k)
      OBVIOUS
    <2>1. \A r \in plan[k].refs \cap DOMAIN plan : current'[r] = current[r]
      BY <1>1, <1>3
    <2> QED BY <2>1 DEF Wanted
  <1>5. settled' \subseteq D
    BY <1>0 DEF Correct
  <1>6. D \subseteq DOMAIN plan
    BY <1>0 DEF Correct
  <1>8. \A k \in D : ~plan[k].bad
    BY <1>1 DEF Correct
  <1>7. Correct(D)'
    BY <1>1, <1>2, <1>3, <1>4, <1>5, <1>6, <1>8 DEF Correct, Recorded, Now
  <1> QED BY <1>0, <1>7

LEMMA PutCorrect ==
    ASSUME LiveInv, NEW C, Correct(C), UNCHANGED plan,
           NEW i \in DOMAIN plan \ C, NEW g, PutAt(i, g, Wanted(i)),
           plan[i].refs \cap DOMAIN plan \subseteq C, ~plan[i].bad,
           settled' = settled \cup {i}
    PROVE  \E D : D = C \cup {i} /\ Correct(D)'
  <1>0. PICK D : D = C \cup {i}
    OBVIOUS
  <1>1. \A k \in C : k \in DOMAIN current' /\ current'[k] = current[k] /\ k # i
    BY DEF PutAt, Correct, Recorded
  <1>2. \A k \in D : k \in DOMAIN plan /\ plan[k].refs \cap DOMAIN plan \subseteq C
    BY <1>0 DEF Correct
  <1>3. \A k \in D : Wanted(k)' = Wanted(k)
    <2> SUFFICES ASSUME NEW k \in D PROVE Wanted(k)' = Wanted(k)
      OBVIOUS
    <2>1. \A r \in plan[k].refs \cap DOMAIN plan : current'[r] = current[r]
      BY <1>1, <1>2
    <2> QED BY <2>1 DEF Wanted
  <1>4. \A k \in C : live'[k][current'[k]] = Wanted(k)
    <2> SUFFICES ASSUME NEW k \in C PROVE live'[k][current'[k]] = Wanted(k)
      OBVIOUS
    <2>1. Now(k) = Wanted(k) /\ k \in Names
      BY DEF Correct, Recorded, LiveInv
    <2> QED BY <1>1, <2>1 DEF PutAt, Now
  <1>5. i \in DOMAIN current' /\ live'[i][current'[i]] = Wanted(i)
    BY DEF PutAt
  <1>6. settled' \subseteq D
    BY <1>0 DEF Correct
  <1>8. \A k \in D : ~plan[k].bad
    BY <1>0 DEF Correct
  <1>7. Correct(D)'
    BY <1>0, <1>1, <1>2, <1>3, <1>4, <1>5, <1>6, <1>8 DEF Correct, Recorded, Now
  <1> QED BY <1>0, <1>7

LEMMA WantedRefs ==
    ASSUME NEW i
    PROVE  /\ {r[1] : r \in Wanted(i).refs} = plan[i].refs \cap DOMAIN plan
           /\ \A r \in Wanted(i).refs : r = <<r[1], current[r[1]]>>
           /\ \A n \in plan[i].refs \cap DOMAIN plan : <<n, current[n]>> \in Wanted(i).refs
  <1>1. Wanted(i).refs = {<<n, current[n]>> : n \in plan[i].refs \cap DOMAIN plan}
    BY DEF Wanted
  <1>2. \A n \in plan[i].refs \cap DOMAIN plan : <<n, current[n]>> \in Wanted(i).refs
    BY <1>1
  <1>3. \A r \in Wanted(i).refs : r = <<r[1], current[r[1]]>> /\ r[1] \in plan[i].refs \cap DOMAIN plan
    BY <1>1
  <1>4. ASSUME NEW n \in plan[i].refs \cap DOMAIN plan PROVE n \in {r[1] : r \in Wanted(i).refs}
    <2>1. <<n, current[n]>>[1] = n /\ <<n, current[n]>> \in Wanted(i).refs
      BY <1>2
    <2> QED BY <2>1
  <1> QED BY <1>2, <1>3, <1>4

\* What is applied was not correct before, and what it refers to is.
LEMMA ApplyAnew ==
    ASSUME PlanInv, NEW C, Correct(C), NEW i \in DOMAIN plan, Apply(i)
    PROVE  /\ phase = "up" /\ OfFamily(program) /\ plan = Plans[program]
           /\ UNCHANGED <<program, plan, phase>> /\ settled' = settled \cup {i}
           /\ i \notin C /\ Needs(i) \subseteq settled
           /\ plan[i].refs \cap DOMAIN plan \subseteq Needs(i)
           /\ Replaces(i) => plan[i].auto
           /\ ~plan[i].bad /\ Made(i, Wanted(i))
  <1>1. /\ phase = "up" /\ OfFamily(program) /\ plan = Plans[program]
        /\ UNCHANGED <<program, plan, phase>> /\ settled' = settled \cup {i}
        /\ Needs(i) \subseteq settled /\ Ready(i) /\ Same = {}
        /\ Replaces(i) => plan[i].auto
    BY DEF Apply, Ready, PlanInv
  <1>2. i \notin C
    BY <1>1 DEF Same, Correct
  <1>3. plan[i].refs \cap DOMAIN plan \subseteq Needs(i)
    BY DEF Needs
  <1>4. Made(i, Wanted(i))
    <2>1. {r[1] : r \in Wanted(i).refs} = plan[i].refs \cap DOMAIN plan
      BY WantedRefs
    <2>2. MadeFrom(i, Wanted(i), program)
      BY <1>1, <2>1 DEF MadeFrom, Wanted
    <2> QED BY <2>2 DEF Made
  <1>5. ~plan[i].bad
    BY <1>1 DEF Ready
  <1> QED BY <1>1, <1>2, <1>3, <1>4, <1>5

\* At the end of a run the plan is correct, and what goes is not part of it.
LEMMA SweptCorrect ==
    ASSUME PlanInv, SettledInv, phase \in {"sweep", "done"} PROVE Correct(DOMAIN plan)
  BY DEF PlanInv, SettledInv, Correct

LEMMA NextSettled ==
    ASSUME PlanInv, LiveInv, SettledInv, [Next]_vars PROVE SettledInv'
  <1>0. PICK C : Correct(C)
    BY DEF SettledInv
  <1>1. ASSUME UNCHANGED <<plan, live, current>>, settled' \subseteq settled PROVE SettledInv'
    <2>1. Correct(C)'
      BY <1>0, <1>1 DEF Correct, Recorded, Now, Wanted
    <2> QED BY <2>1 DEF SettledInv
  <1>2. CASE Start
    <2>1. Correct({})'
      BY <1>2 DEF Start, Correct
    <2> QED BY <2>1 DEF SettledInv
  <1>3. CASE Keep
    <2>1. PICK D : D = C \cup Same
      OBVIOUS
    <2>2. \A i \in Same : /\ i \in DOMAIN plan /\ Recorded(i) /\ Now(i) = Wanted(i) /\ ~plan[i].bad
                          /\ plan[i].refs \cap DOMAIN plan \subseteq settled
      BY DEF Same, Ready, Needs
    <2>3. \A i \in C : /\ i \in DOMAIN plan /\ Recorded(i) /\ Now(i) = Wanted(i) /\ ~plan[i].bad
                       /\ plan[i].refs \cap DOMAIN plan \subseteq C
      BY <1>0 DEF Correct
    <2>4. settled \subseteq C /\ settled' = settled \cup Same /\ UNCHANGED <<plan, live, current>>
      BY <1>0, <1>3 DEF Keep, Correct
    <2>5. \A i : Wanted(i)' = Wanted(i) /\ Now(i)' = Now(i) /\ Recorded(i)' = Recorded(i)
      BY <2>4 DEF Recorded, Now, Wanted
    <2>6. Correct(D)'
      BY <2>1, <2>2, <2>3, <2>4, <2>5 DEF Correct
    <2> QED BY <2>6 DEF SettledInv
  <1>4. ASSUME NEW i \in DOMAIN plan, Apply(i) PROVE SettledInv'
    <2>1. /\ i \notin C /\ UNCHANGED plan /\ settled' = settled \cup {i} /\ ~plan[i].bad
          /\ plan[i].refs \cap DOMAIN plan \subseteq C
      BY <1>0, <1>4, ApplyAnew DEF Correct
    <2>2. PICK g : PutAt(i, g, Wanted(i))
      BY <1>4, ApplyPuts
    <2>3. PICK D : Correct(D)'
      BY <1>0, <2>1, <2>2, PutCorrect
    <2> QED BY <2>3 DEF SettledInv
  <1>5. ASSUME NEW i \in DOMAIN plan, DropFor(i) PROVE SettledInv'
    <2>1. PICK j \in Names : \E g \in DOMAIN live[j] :
              /\ DroppedAt(j, g) /\ Referrers(<<j, g>>) = {} /\ settled' = settled \ {j}
      BY <1>5, DropForDrops
    <2>2. UNCHANGED plan
      BY <1>5 DEF DropFor
    <2>3. PICK D : Correct(D)'
      BY <1>0, <2>1, <2>2, DropCorrect
    <2> QED BY <2>3 DEF SettledInv
  <1>6. ASSUME NEW o \in Objects, Delete(o) PROVE SettledInv'
    <2>1. PICK j \in Names : \E g \in DOMAIN live[j] :
              DroppedAt(j, g) /\ o = <<j, g>> /\ o \in Leftover
      BY <1>6, DeleteDrops
    <2>2. PICK g \in DOMAIN live[j] : DroppedAt(j, g) /\ o = <<j, g>> /\ o \in Leftover
      BY <2>1
    <2>3. UNCHANGED <<plan, settled>> /\ Correct(DOMAIN plan)
      BY <1>6, SweptCorrect DEF Delete
    <2>4. j \in DOMAIN plan => Recorded(j) /\ current[j] # g
      BY <2>2, <2>3 DEF Leftover, Correct
    <2>5. settled' \subseteq settled /\ (j \in settled' => j \in DOMAIN plan)
      BY <2>3 DEF PlanInv
    <2>6. PICK D : Correct(D)'
      BY <2>2, <2>3, <2>4, <2>5, DropCorrect
    <2> QED BY <2>6 DEF SettledInv
  <1>7. CASE \E p \in Programs : Edit(p)
    BY <1>1, <1>7 DEF Edit
  <1>8. CASE Sweep \/ Finish \/ Throw \/ Fail
    BY <1>1, <1>8 DEF Sweep, Finish, Throw, Fail
  <1>9. CASE UNCHANGED vars
    BY <1>1, <1>9 DEF vars, engine
  <1> QED BY <1>2, <1>3, <1>4, <1>5, <1>6, <1>7, <1>8, <1>9 DEF Next, Step

LEMMA NextObjects ==
    ASSUME PlanInv, LiveInv, MadeInv, FixedInv, SettledInv, [Next]_vars
    PROVE  LiveInv' /\ MadeInv' /\ FixedInv'
  <1>1. ASSUME UNCHANGED <<live, current>> PROVE LiveInv' /\ MadeInv' /\ FixedInv'
    <2>1. program'[1] = program[1] /\ \A i : Fixed(i)' <=> Fixed(i)
      BY FamilyKept
    <2>2. LiveInv' /\ FixedInv'
      BY <1>1, <2>1 DEF LiveInv, FixedInv, Names, Recorded
    <2>3. ASSUME NEW k \in Names, NEW g \in DOMAIN live[k] PROVE Made(k, live[k][g])'
      <3>1. PICK q : MadeFrom(k, live[k][g], q)
        BY DEF MadeInv, Made
      <3>2. MadeFrom(k, live[k][g], q)'
        BY <1>1, <2>1, <3>1 DEF MadeFrom, OfFamily
      <3> QED BY <3>2 DEF Made
    <2>4. MadeInv'
      BY <1>1, <2>3 DEF MadeInv, Names
    <2> QED BY <2>2, <2>4
  <1>2. ASSUME NEW i \in DOMAIN plan, Apply(i) PROVE LiveInv' /\ MadeInv' /\ FixedInv'
    <2>0. PICK C : Correct(C)
      BY DEF SettledInv
    <2>1. /\ Made(i, Wanted(i)) /\ OfFamily(program) /\ plan = Plans[program]
          /\ Replaces(i) => plan[i].auto
      BY <1>2, <2>0, ApplyAnew
    <2>2. PICK g : /\ PutAt(i, g, Wanted(i))
                   /\ Recorded(i) /\ ~Replaces(i) => g = current[i]
                   /\ ~(Recorded(i) /\ ~Replaces(i)) => g = IF plan[i].auto THEN Fresh(i) ELSE 1
      BY <1>2, ApplyPuts
    <2>3. Fixed(i) => g = 1
      BY <2>1, <2>2 DEF Fixed, FixedInv, LiveInv, Recorded
    <2> QED BY <2>1, <2>2, <2>3, PutLive, PutMade, PutFixed
  <1>3. ASSUME NEW i \in DOMAIN plan, DropFor(i) PROVE LiveInv' /\ MadeInv' /\ FixedInv'
    <2>1. PICK j \in Names : \E g \in DOMAIN live[j] : DroppedAt(j, g)
      BY <1>3, DropForDrops
    <2> QED BY <2>1, DropLive, DropMade, DropFixed
  <1>4. ASSUME NEW o \in Objects, Delete(o) PROVE LiveInv' /\ MadeInv' /\ FixedInv'
    <2>1. PICK j \in Names : \E g \in DOMAIN live[j] : DroppedAt(j, g)
      BY <1>4, DeleteDrops
    <2> QED BY <2>1, DropLive, DropMade, DropFixed
  <1>5. CASE \E p \in Programs : Edit(p)
    BY <1>1, <1>5 DEF Edit
  <1>6. CASE Start \/ Keep \/ Sweep \/ Finish \/ Throw \/ Fail
    BY <1>1, <1>6 DEF Start, Keep, Sweep, Finish, Throw, Fail
  <1>7. CASE UNCHANGED vars
    BY <1>1, <1>7 DEF vars, engine
  <1> QED BY <1>2, <1>3, <1>4, <1>5, <1>6, <1>7 DEF Next, Step

LEMMA InitEngine == Init => EngineInv
  <1> SUFFICES ASSUME Init PROVE EngineInv
    OBVIOUS
  <1>1. DOMAIN live = {} /\ DOMAIN current = {} /\ settled = {} /\ phase = "idle"
    BY DEF Init
  <1>2. PlanInv /\ LiveInv /\ MadeInv /\ FixedInv /\ DoneInv
    BY <1>1 DEF Init, PlanInv, LiveInv, MadeInv, FixedInv, DoneInv, Names
  <1>3. Correct({})
    BY <1>1 DEF Correct
  <1> QED BY <1>2, <1>3 DEF EngineInv, SettledInv

LEMMA NextEngine == EngineInv /\ [Next]_vars => EngineInv'
  <1> SUFFICES ASSUME EngineInv, [Next]_vars PROVE EngineInv'
    OBVIOUS
  <1>1. PlanInv' /\ LiveInv' /\ MadeInv' /\ FixedInv' /\ SettledInv'
    BY NextPlan, NextSettled, NextObjects DEF EngineInv
  <1>2. DoneInv'
    <2>1. CASE Finish \/ UNCHANGED vars
      BY <2>1 DEF Finish, EngineInv, DoneInv, Leftover, Objects, Names, vars, engine
    <2>2. CASE ~(Finish \/ UNCHANGED vars)
      <3>1. phase' # "done"
        BY <2>2 DEF Next, Step, Edit, Start, Keep, Apply, DropFor, Sweep, Delete, Throw, Fail,
                    Same, Ready
      <3> QED BY <3>1 DEF DoneInv
    <2> QED BY <2>1, <2>2
  <1> QED BY <1>1, <1>2 DEF EngineInv

LEMMA EngineAlways == Spec => []EngineInv
  BY InitEngine, NextEngine, PTL DEF Spec

-----------------------------------------------------------------------------
(* What the operators of a plan return *)

\* What has a name among the goals.
Has(goals, n, goal) == n \in DOMAIN goals /\ goals[n] = goal

LEMMA AllGoalsHave ==
    ASSUME NEW goals
    PROVE  /\ DOMAIN AllGoals(goals) = UNION {DOMAIN goals[k] : k \in DOMAIN goals}
           /\ \A n, goal : Has(AllGoals(goals), n, goal)
                           => \E k \in DOMAIN goals : Has(goals[k], n, goal)
  <1>1. DOMAIN AllGoals(goals) = UNION {DOMAIN goals[k] : k \in DOMAIN goals}
    BY DEF AllGoals
  <1>2. ASSUME NEW n, NEW goal, Has(AllGoals(goals), n, goal)
        PROVE  \E k \in DOMAIN goals : Has(goals[k], n, goal)
    <2> DEFINE k == CHOOSE k \in DOMAIN goals : n \in DOMAIN goals[k]
    <2>1. k \in DOMAIN goals /\ n \in DOMAIN goals[k]
      BY <1>1, <1>2 DEF Has
    <2>2. AllGoals(goals)[n] = goals[k][n]
      BY <1>2 DEF AllGoals, Has
    <2> QED BY <1>2, <2>1, <2>2 DEF Has
  <1> QED BY <1>1, <1>2

LEMMA TwoHave ==
    ASSUME NEW a, NEW b
    PROVE  /\ DOMAIN AllGoals(<<a, b>>) = DOMAIN a \cup DOMAIN b
           /\ \A n, goal : Has(AllGoals(<<a, b>>), n, goal) => Has(a, n, goal) \/ Has(b, n, goal)
  <1> DEFINE both == <<a, b>>
  <1>1. DOMAIN both = {1, 2} /\ both[1] = a /\ both[2] = b
    OBVIOUS
  <1> HIDE DEF both
  <1>2. UNION {DOMAIN both[k] : k \in DOMAIN both} = DOMAIN a \cup DOMAIN b
    BY <1>1
  <1>3. ASSUME NEW n, NEW goal, Has(AllGoals(both), n, goal) PROVE Has(a, n, goal) \/ Has(b, n, goal)
    BY <1>1, <1>3, AllGoalsHave
  <1>4. DOMAIN AllGoals(both) = DOMAIN a \cup DOMAIN b
    BY <1>2, AllGoalsHave
  <1> QED BY <1>3, <1>4 DEF both

LEMMA FourHave ==
    ASSUME NEW a, NEW b, NEW c, NEW d
    PROVE  /\ DOMAIN AllGoals(<<a, b, c, d>>)
                 = DOMAIN a \cup DOMAIN b \cup DOMAIN c \cup DOMAIN d
           /\ \A n, goal : Has(AllGoals(<<a, b, c, d>>), n, goal)
                 => Has(a, n, goal) \/ Has(b, n, goal) \/ Has(c, n, goal) \/ Has(d, n, goal)
  <1> DEFINE all == <<a, b, c, d>>
  <1>1. DOMAIN all = {1, 2, 3, 4} /\ all[1] = a /\ all[2] = b /\ all[3] = c /\ all[4] = d
    OBVIOUS
  <1> HIDE DEF all
  <1>2. UNION {DOMAIN all[k] : k \in DOMAIN all}
           = DOMAIN a \cup DOMAIN b \cup DOMAIN c \cup DOMAIN d
    BY <1>1
  <1>3. ASSUME NEW n, NEW goal, Has(AllGoals(all), n, goal)
        PROVE  Has(a, n, goal) \/ Has(b, n, goal) \/ Has(c, n, goal) \/ Has(d, n, goal)
    <2>1. PICK k \in DOMAIN all : Has(all[k], n, goal)
      BY <1>3, AllGoalsHave
    <2> QED BY <1>1, <2>1
  <1>4. DOMAIN AllGoals(all) = DOMAIN a \cup DOMAIN b \cup DOMAIN c \cup DOMAIN d
    BY <1>2, AllGoalsHave
  <1> QED BY <1>3, <1>4 DEF all

\* The same operators, in each of the components.
LEMMA SameWriting ==
    /\ \A goals : /\ T!AllGoals(goals) = AllGoals(goals)
                  /\ S!AllGoals(goals) = AllGoals(goals)
                  /\ M!AllGoals(goals) = AllGoals(goals)
                  /\ R!AllGoals(goals) = AllGoals(goals)
    /\ \A n, goal : /\ T!New(n, goal) = New(n, goal)
                    /\ S!New(n, goal) = New(n, goal)
                    /\ M!New(n, goal) = New(n, goal)
    /\ \A condition, goals : /\ T!When(condition, goals) = When(condition, goals)
                             /\ S!When(condition, goals) = When(condition, goals)
                             /\ M!When(condition, goals) = When(condition, goals)
    /\ \A key, data, auto, refs, deps :
          /\ T!Goal(key, data, auto, refs, deps) = Goal(key, data, auto, refs, deps)
          /\ S!Goal(key, data, auto, refs, deps) = Goal(key, data, auto, refs, deps)
          /\ M!Goal(key, data, auto, refs, deps) = Goal(key, data, auto, refs, deps)
          /\ R!Goal(key, data, auto, refs, deps) = Goal(key, data, auto, refs, deps)
    /\ \A data, refs, deps :
          /\ T!InPlace(data, refs, deps) = InPlace(data, refs, deps)
          /\ S!InPlace(data, refs, deps) = InPlace(data, refs, deps)
          /\ M!InPlace(data, refs, deps) = InPlace(data, refs, deps)
    /\ \A name : S!GivenName(name) = GivenName(name) /\ M!GivenName(name) = GivenName(name)
  BY DEF AllGoals, T!AllGoals, S!AllGoals, M!AllGoals, R!AllGoals, New, T!New, S!New, M!New,
         When, T!When, S!When, M!When, NoGoals, T!NoGoals, S!NoGoals, M!NoGoals,
         Goal, T!Goal, S!Goal, M!Goal, R!Goal, InPlace, T!InPlace, S!InPlace, M!InPlace,
         GivenName, S!GivenName, M!GivenName

LEMMA NewHas ==
    ASSUME NEW i, NEW made, NEW n, NEW goal, Has(New(i, made), n, goal)
    PROVE  n = i /\ goal = made
  BY DEF Has, New

LEMMA NewDomain == ASSUME NEW i, NEW made PROVE DOMAIN New(i, made) = {i}
  BY DEF New

LEMMA WhenHas ==
    ASSUME NEW condition, NEW goals, NEW n, NEW goal, Has(When(condition, goals), n, goal)
    PROVE  condition /\ Has(goals, n, goal)
  BY DEF Has, When, NoGoals

-----------------------------------------------------------------------------
(* The plan of a tenant *)

LEMMA TenantGoals ==
    ASSUME NEW args, NEW n, NEW goal, Has(T!TenantPlan(args), n, goal)
    PROVE  \/ \E e \in DOMAIN args.namespaces : Has(T!NamespaceGoals(args, args.namespaces[e]), n, goal)
           \/ \E g \in DOMAIN args.grants : Has(T!GrantGoal(args, args.grants[g]), n, goal)
  <1> DEFINE spaces == [e \in DOMAIN args.namespaces |-> T!NamespaceGoals(args, args.namespaces[e])]
             grants == [g \in DOMAIN args.grants |-> T!GrantGoal(args, args.grants[g])]
  <1>1. T!TenantPlan(args) = AllGoals(<<AllGoals(spaces), AllGoals(grants)>>)
    BY SameWriting DEF T!TenantPlan
  <1>2. Has(AllGoals(spaces), n, goal) \/ Has(AllGoals(grants), n, goal)
    BY <1>1, TwoHave
  <1>3. CASE Has(AllGoals(spaces), n, goal)
    <2>1. PICK e \in DOMAIN spaces : Has(spaces[e], n, goal)
      BY <1>3, AllGoalsHave
    <2> QED BY <2>1
  <1>4. CASE Has(AllGoals(grants), n, goal)
    <2>1. PICK g \in DOMAIN grants : Has(grants[g], n, goal)
      BY <1>4, AllGoalsHave
    <2> QED BY <2>1
  <1> QED BY <1>2, <1>3, <1>4

LEMMA NamespaceGoalsAre ==
    ASSUME NEW args, NEW entry, NEW n, NEW goal, Has(T!NamespaceGoals(args, entry), n, goal)
    PROVE  /\ goal.refs = {} /\ goal.auto = FALSE /\ n[1] # "grant"
           /\ n[1] = "netpol" => n = <<"netpol", entry.name>> /\ goal.data = T!NamespacePolicy(args)
  <1> DEFINE ns       == entry.name
             space    == New(<<"ns", ns>>, InPlace(args.id, {}, {}))
             deployer == New(<<"deployer", ns>>,
                             Goal(args.deployerRole, args.deployer, FALSE, {}, {<<"ns", ns>>}))
             limits   == T!LimitRangeGoal(args, ns)
             quota    == T!QuotaGoal(args, ns, T!QuotaOf(args, entry))
             policy   == T!PolicyGoal(args, ns)
  <1>1. T!NamespaceGoals(args, entry) = AllGoals(<<space, deployer, limits, quota, policy>>)
    BY SameWriting DEF T!NamespaceGoals
  <1>2. \/ Has(space, n, goal) \/ Has(deployer, n, goal) \/ Has(limits, n, goal)
        \/ Has(quota, n, goal) \/ Has(policy, n, goal)
    <2>1. PICK k \in DOMAIN <<space, deployer, limits, quota, policy>> :
              Has(<<space, deployer, limits, quota, policy>>[k], n, goal)
      BY <1>1, AllGoalsHave
    <2> HIDE DEF space, deployer, limits, quota, policy
    <2>2. k = 1 \/ k = 2 \/ k = 3 \/ k = 4 \/ k = 5
      BY <2>1
    <2> QED BY <2>1, <2>2
  <1>3. CASE Has(space, n, goal)
    BY <1>3, NewHas DEF InPlace, Goal
  <1>4. CASE Has(deployer, n, goal)
    BY <1>4, NewHas DEF Goal
  <1>5. CASE Has(limits, n, goal)
    BY <1>5, NewHas, WhenHas, SameWriting DEF T!LimitRangeGoal, InPlace, Goal
  <1>6. CASE Has(quota, n, goal)
    BY <1>6, NewHas, WhenHas, SameWriting DEF T!QuotaGoal, InPlace, Goal
  <1>7. CASE Has(policy, n, goal)
    BY <1>7, NewHas, WhenHas, SameWriting DEF T!PolicyGoal, InPlace, Goal
  <1> QED BY <1>2, <1>3, <1>4, <1>5, <1>6, <1>7

\* The name of a grant, and what it is a grant of.
GrantName(grant) == <<"grant", T!Slug(grant)>>
GrantKey(grant)  == [namespace |-> grant.namespace, role |-> grant.role]

LEMMA GrantGoalIs ==
    ASSUME NEW args, NEW grant
    PROVE  /\ \A n, goal : Has(T!GrantGoal(args, grant), n, goal) =>
                  /\ n = GrantName(grant) /\ goal.key = GrantKey(grant)
                  /\ goal.refs = {} /\ goal.auto = FALSE
           /\ DOMAIN T!GrantGoal(args, grant) = {GrantName(grant)}
  <1> DEFINE made == Goal(GrantKey(grant), args.deployer, FALSE, {}, {})
  <1>1. T!GrantGoal(args, grant) = New(GrantName(grant), made)
    BY SameWriting DEF T!GrantGoal, GrantName, GrantKey
  <1>2. made.key = GrantKey(grant) /\ made.refs = {} /\ made.auto = FALSE
    BY DEF Goal
  <1> HIDE DEF made
  <1>3. ASSUME NEW n, NEW goal, Has(T!GrantGoal(args, grant), n, goal)
        PROVE  n = GrantName(grant) /\ goal = made
    BY <1>1, <1>3, NewHas
  <1>4. DOMAIN T!GrantGoal(args, grant) = {GrantName(grant)}
    BY <1>1, NewDomain
  <1> QED BY <1>2, <1>3, <1>4

LEMMA GrantsAreGoals ==
    ASSUME NEW args, NEW g \in DOMAIN args.grants
    PROVE  GrantName(args.grants[g]) \in DOMAIN T!TenantPlan(args)
  <1> DEFINE spaces == AllGoals([e \in DOMAIN args.namespaces |-> T!NamespaceGoals(args, args.namespaces[e])])
             grants == [k \in DOMAIN args.grants |-> T!GrantGoal(args, args.grants[k])]
  <1>1. T!TenantPlan(args) = AllGoals(<<spaces, AllGoals(grants)>>)
    BY SameWriting DEF T!TenantPlan
  <1>2. g \in DOMAIN grants /\ grants[g] = T!GrantGoal(args, args.grants[g])
    OBVIOUS
  <1> HIDE DEF spaces, grants
  <1>3. GrantName(args.grants[g]) \in DOMAIN grants[g]
    <2>1. DOMAIN T!GrantGoal(args, args.grants[g]) = {GrantName(args.grants[g])}
      BY GrantGoalIs
    <2> QED BY <1>2, <2>1
  <1>4. GrantName(args.grants[g]) \in DOMAIN AllGoals(grants)
    BY <1>2, <1>3, AllGoalsHave
  <1>5. DOMAIN AllGoals(<<spaces, AllGoals(grants)>>) = DOMAIN spaces \cup DOMAIN AllGoals(grants)
    BY TwoHave
  <1> QED BY <1>1, <1>4, <1>5

-----------------------------------------------------------------------------
(* What a step does to the objects *)

\* A goal is put, at its own generation unless it is replaced.
Applied(i, g) ==
    /\ PutAt(i, g, Wanted(i)) /\ UNCHANGED <<program, plan>>
    /\ Recorded(i) => \/ Now(i).key = plan[i].key /\ g = current[i]
                      \/ Now(i).key # plan[i].key /\ plan[i].auto
    /\ \E C : Correct(C) /\ Needs(i) \subseteq C

\* An object is dropped for the replacement of one with a fixed name.
DroppedFor(i, j, g) ==
    /\ DroppedAt(j, g) /\ UNCHANGED <<program, plan>>
    /\ Recorded(i) /\ Now(i).key # plan[i].key /\ plan[i].auto = FALSE
    /\ <<j, g>> \in Upward({<<i, current[i]>>})

\* An object is dropped that the plan, which is through, has no place for, and
\* nothing that is to go depends on it.
Dropped(j, g) ==
    /\ DroppedAt(j, g) /\ UNCHANGED <<program, plan>>
    /\ j \in DOMAIN plan => Recorded(j) /\ current[j] # g
    /\ Correct(DOMAIN plan)
    /\ (Dependents(<<j, g>>) \cap Leftover) \ {<<j, g>>} = {}

Changes ==
    \/ \E i \in DOMAIN plan : \E g : Applied(i, g)
    \/ \E i \in DOMAIN plan : \E j \in Names : \E g \in DOMAIN live[j] : DroppedFor(i, j, g)
    \/ \E j \in Names : \E g \in DOMAIN live[j] : Dropped(j, g)

LEMMA NextChanges ==
    ASSUME EngineInv, [Next]_vars,
           \A q : OfFamily(q) => \A i \in DOMAIN Plans[q] : Plans[q][i].auto \in BOOLEAN
    PROVE  \/ UNCHANGED <<live, current>>
           \/ OfFamily(program) /\ plan = Plans[program] /\ Changes
  <1>1. ASSUME NEW i \in DOMAIN plan, Apply(i)
        PROVE  OfFamily(program) /\ plan = Plans[program] /\ Changes
    <2>1. PICK C : Correct(C)
      BY DEF EngineInv, SettledInv
    <2>2. /\ OfFamily(program) /\ plan = Plans[program] /\ UNCHANGED <<program, plan>>
          /\ Needs(i) \subseteq settled
      BY <1>1, <2>1, ApplyAnew DEF EngineInv
    <2>9. Replaces(i) => plan[i].auto
      BY <1>1 DEF Apply
    <2>3. PICK g : /\ PutAt(i, g, Wanted(i))
                   /\ Recorded(i) /\ ~Replaces(i) => g = current[i]
      BY <1>1, ApplyPuts
    <2>4. Needs(i) \subseteq C
      BY <2>1, <2>2 DEF Correct
    <2>5. Recorded(i) => \/ Now(i).key = plan[i].key /\ g = current[i]
                         \/ Now(i).key # plan[i].key /\ plan[i].auto
      BY <2>3, <2>9 DEF Replaces
    <2>6. Applied(i, g)
      BY <2>1, <2>2, <2>3, <2>4, <2>5 DEF Applied
    <2> QED BY <2>2, <2>6 DEF Changes
  <1>2. ASSUME NEW i \in DOMAIN plan, DropFor(i)
        PROVE  OfFamily(program) /\ plan = Plans[program] /\ Changes
    <2>1. /\ OfFamily(program) /\ plan = Plans[program] /\ UNCHANGED <<program, plan>>
          /\ Replaces(i) /\ ~plan[i].auto
      BY <1>2 DEF DropFor, Ready, EngineInv, PlanInv
    <2>2. PICK j \in Names : \E g \in DOMAIN live[j] :
              DroppedAt(j, g) /\ <<j, g>> \in Upward({<<i, current[i]>>})
      BY <1>2, DropForDrops DEF EngineInv
    <2>3. PICK g \in DOMAIN live[j] : DroppedFor(i, j, g)
      BY <2>1, <2>2 DEF DroppedFor, Replaces
    <2> QED BY <2>1, <2>3 DEF Changes
  <1>3. ASSUME NEW o \in Objects, Delete(o)
        PROVE  OfFamily(program) /\ plan = Plans[program] /\ Changes
    <2>1. /\ OfFamily(program) /\ plan = Plans[program] /\ UNCHANGED <<program, plan>>
          /\ Correct(DOMAIN plan)
      BY <1>3, SweptCorrect DEF Delete, EngineInv, PlanInv
    <2>2. PICK j \in Names : \E g \in DOMAIN live[j] :
              /\ DroppedAt(j, g) /\ o = <<j, g>> /\ o \in Leftover
              /\ (Dependents(o) \cap Leftover) \ {o} = {}
      BY <1>3, DeleteDrops
    <2>3. PICK g \in DOMAIN live[j] : Dropped(j, g)
      BY <2>1, <2>2 DEF Dropped, Leftover, Correct
    <2> QED BY <2>1, <2>3 DEF Changes
  <1>4. CASE (\E p \in Programs : Edit(p)) \/ Start \/ Keep \/ Sweep \/ Finish \/ Throw \/ Fail
             \/ UNCHANGED vars
    BY <1>4 DEF Edit, Start, Keep, Sweep, Finish, Throw, Fail, vars, engine
  <1> QED BY <1>1, <1>2, <1>3, <1>4 DEF Next, Step

\* What is reached from a name stays among the names that refer to it.
LEMMA UpwardWithin ==
    ASSUME MadeInv, NEW B,
           \A q : OfFamily(q) => \A n \in DOMAIN Plans[q] :
              n \in Names \ B => Plans[q][n].refs \cap B = {},
           NEW i \in B, NEW g, NEW j \in Names, NEW h \in DOMAIN live[j],
           <<j, h>> \in Upward({<<i, g>>})
    PROVE  j \in B
  <1> SUFFICES ASSUME j \notin B PROVE FALSE
    OBVIOUS
  <1> DEFINE all == Objects \cup UNION {Object(o).refs : o \in Objects}
             X   == {p \in all : p[1] \notin B}
  <1>1. {<<i, g>>} \cap X = {}
    OBVIOUS
  <1>2. ASSUME NEW p \in Objects \cap X PROVE Object(p).refs \subseteq X
    <2>1. PICK k \in Names : \E e \in DOMAIN live[k] : p = <<k, e>>
      BY <1>2, ObjectsAre
    <2>2. PICK e \in DOMAIN live[k] : p = <<k, e>>
      BY <2>1
    <2>3. k \notin B /\ Object(p) = live[k][e]
      BY <1>2, <2>2 DEF Object
    <2>4. PICK q : MadeFrom(k, live[k][e], q)
      BY <2>2 DEF MadeInv, Made
    <2>5. \A r \in Object(p).refs : r[1] \notin B
      <3>1. \A r \in Object(p).refs : r[1] \in {s[1] : s \in live[k][e].refs}
        BY <2>3
      <3> QED BY <2>3, <2>4, <3>1 DEF MadeFrom
    <2>6. Object(p).refs \subseteq all
      BY <1>2
    <2> QED BY <2>5, <2>6
  <1>3. <<j, h>> \in X
    BY ObjectsAre
  <1> HIDE DEF X
  <1>4. Upward({<<i, g>>}) \cap X = {}
    BY <1>1, <1>2, UpwardAvoids
  <1> QED BY <1>3, <1>4

LEMMA PlansAre ==
    ASSUME NEW q \in DOMAIN Plans
    PROVE  /\ q[1] = "tenant" => T!TenantAccepts(ArgsOf(q)) /\ Plans[q] = T!TenantPlan(ArgsOf(q))
           /\ q[1] = "site" => S!WorkerSiteAccepts(ArgsOf(q)) /\ Plans[q] = S!SitePlanOf(ArgsOf(q))
           /\ q[1] = "monitor" => M!MonitorAccepts(ArgsOf(q)) /\ Plans[q] = M!MonitorPlanOf(ArgsOf(q))
           /\ q[1] = "litellm" =>
                 /\ ProxyAccepts(ArgsOf(q))
                 /\ Plans[q] = AllGoals(<< LiteLLMPlan(ProxyArgs(ArgsOf(q))),
                                           R!SecretRefGoals(ArgsOf(q).opCalls) >>)
  <1>1. q \in DOMAIN PlansOfAll /\ Plans[q] = PlansOfAll[q]
    BY TablesAssumption
  <1>2. AcceptsOf(q) /\ Plans[q] = PlanOf(q)
    BY <1>1 DEF PlansOfAll
  <1> QED BY <1>2 DEF AcceptsOf, PlanOf

-----------------------------------------------------------------------------
(* The grants of a tenant *)

LEMMA TenantPlans ==
    ASSUME NEW q \in DOMAIN Plans, q[1] = "tenant", NEW i \in DOMAIN Plans[q]
    PROVE  /\ Plans[q][i].refs = {} /\ Plans[q][i].auto = FALSE
           /\ i[1] = "grant" => \E g \in GrantsOf(q) : i = GrantName(g) /\ Plans[q][i].key = GrantKey(g)
           /\ i[1] = "netpol" => /\ Plans[q][i].data = T!NamespacePolicy(ArgsOf(q))
                                 /\ \E ns \in T!TenantNamespaces(ArgsOf(q)) : i = <<"netpol", ns>>
  <1>0. PICK args, goal : args = ArgsOf(q) /\ goal = Plans[q][i]
    OBVIOUS
  <1>1. Has(T!TenantPlan(args), i, goal)
    BY <1>0, PlansAre DEF Has
  <1>2. ASSUME NEW e \in DOMAIN args.namespaces,
               Has(T!NamespaceGoals(args, args.namespaces[e]), i, goal)
        PROVE  /\ goal.refs = {} /\ goal.auto = FALSE /\ i[1] # "grant"
               /\ i[1] = "netpol" => /\ goal.data = T!NamespacePolicy(args)
                                     /\ \E ns \in T!TenantNamespaces(args) : i = <<"netpol", ns>>
    <2>1. PICK entry : entry = args.namespaces[e]
      OBVIOUS
    <2>2. entry.name \in T!TenantNamespaces(args)
      BY <2>1 DEF T!TenantNamespaces
    <2>3. Has(T!NamespaceGoals(args, entry), i, goal)
      BY <1>2, <2>1
    <2> QED BY <2>2, <2>3, NamespaceGoalsAre
  <1>3. ASSUME NEW g \in DOMAIN args.grants, Has(T!GrantGoal(args, args.grants[g]), i, goal)
        PROVE  /\ goal.refs = {} /\ goal.auto = FALSE /\ i[1] = "grant"
               /\ \E h \in GrantsOf(q) : i = GrantName(h) /\ goal.key = GrantKey(h)
    <2>1. PICK h : h = args.grants[g]
      OBVIOUS
    <2>2. h \in GrantsOf(q)
      BY <1>0, <2>1 DEF GrantsOf, ToSet
    <2>3. Has(T!GrantGoal(args, h), i, goal)
      BY <1>3, <2>1
    <2>4. i = GrantName(h) /\ goal.key = GrantKey(h) /\ goal.refs = {} /\ goal.auto = FALSE
      BY <2>3, GrantGoalIs
    <2> QED BY <2>2, <2>4 DEF GrantName
  <1>4. i[1] = "grant" => i[1] # "netpol"
    OBVIOUS
  <1> QED BY <1>0, <1>1, <1>2, <1>3, <1>4, TenantGoals

\* A declared grant has a goal of its own: its name and its key tell of each other.
LEMMA TenantGrants ==
    ASSUME NEW q \in DOMAIN Plans, q[1] = "tenant", NEW g \in GrantsOf(q)
    PROVE  /\ GrantName(g) \in DOMAIN Plans[q]
           /\ Plans[q][GrantName(g)].key = GrantKey(g)
  <1> DEFINE args == ArgsOf(q)
  <1>1. PICK n \in DOMAIN args.grants : args.grants[n] = g
    BY DEF GrantsOf, ToSet
  <1>2. GrantName(g) \in DOMAIN T!TenantPlan(args)
    BY <1>1, GrantsAreGoals
  <1>3. Plans[q] = T!TenantPlan(args) /\ T!TenantAccepts(args)
    BY PlansAre
  <1>4. PICK h \in GrantsOf(q) : GrantName(g) = GrantName(h) /\ Plans[q][GrantName(g)].key = GrantKey(h)
    BY <1>2, <1>3, TenantPlans DEF GrantName
  <1>5. PICK m \in DOMAIN args.grants : args.grants[m] = h
    BY <1>4 DEF GrantsOf, ToSet
  <1>6. T!Slug(args.grants[n]) = T!Slug(args.grants[m])
    BY <1>1, <1>4, <1>5 DEF GrantName
  <1>7. T!Distinct([k \in DOMAIN args.grants |-> T!Slug(args.grants[k])])
    BY <1>3 DEF T!TenantAccepts
  <1>8. n = m
    BY <1>6, <1>7 DEF T!Distinct
  <1> QED BY <1>1, <1>2, <1>3, <1>4, <1>5, <1>8

LEMMA SameKeySameName ==
    ASSUME NEW g, NEW h, g = GrantKey(h) PROVE GrantName(g) = GrantName(h) /\ GrantKey(g) = g
  BY DEF GrantKey, GrantName, T!Slug

LEMMA TenantFixed ==
    ASSUME program[1] = "tenant" PROVE \A i : Fixed(i)
  BY TenantPlans DEF Fixed, OfFamily

LEMMA GrantsStep == EngineInv /\ [Next]_vars => GrantsStay
  <1> SUFFICES ASSUME EngineInv, [Next]_vars, program[1] = "tenant",
                      NEW g \in GrantsOf(program) \cap GrantsOf(program'),
                      Granted(g)
               PROVE  Granted(g)'
    BY DEF GrantsStay, Deploying
  <1>1. PICK o \in Objects : o[1][1] = "grant" /\ Object(o).key = g
    BY DEF Granted
  <1>2. PICK n \in Names : \E e \in DOMAIN live[n] : o = <<n, e>>
    BY ObjectsAre
  <1>3. \A i \in Names : Recorded(i) /\ current[i] = 1 /\ DOMAIN live[i] = {1}
    BY TenantFixed DEF EngineInv, FixedInv
  <1>4. o = <<n, 1>> /\ n[1] = "grant" /\ live[n][1].key = g
    BY <1>1, <1>2, <1>3 DEF Object
  <1>5. n = GrantName(g) /\ GrantKey(g) = g
    <2>1. PICK q : MadeFrom(n, live[n][1], q)
      BY <1>3 DEF EngineInv, MadeInv, Made
    <2>2. PICK h \in GrantsOf(q) : n = GrantName(h) /\ Plans[q][n].key = GrantKey(h)
      BY <1>4, <2>1, TenantPlans DEF MadeFrom, OfFamily
    <2> QED BY <1>4, <2>1, <2>2, SameKeySameName DEF MadeFrom
  <1>6. ASSUME n \in DOMAIN live', 1 \in DOMAIN live'[n], live'[n][1].key = g PROVE Granted(g)'
    <2>1. <<n, 1>> \in (Objects)'
      BY <1>6, ObjectsAre DEF Names
    <2>2. (Object(<<n, 1>>).key = g)'
      BY <1>6 DEF Object
    <2> QED BY <1>4, <2>1, <2>2 DEF Granted
  <1>7. CASE UNCHANGED <<live, current>>
    BY <1>3, <1>4, <1>6, <1>7 DEF Names
  <1>8. ASSUME OfFamily(program), plan = Plans[program], Changes PROVE Granted(g)'
    <2>0. n \in DOMAIN plan /\ plan[n].key = g
      BY <1>5, <1>8, TenantGrants DEF OfFamily
    <2>1. ASSUME NEW i \in DOMAIN plan, NEW e, Applied(i, e) PROVE Granted(g)'
      <3>1. CASE i = n
        <4>1. e = 1 /\ Wanted(i).key = g
          BY <1>3, <1>4, <2>0, <2>1, <3>1 DEF Applied, Now, Wanted
        <4> QED BY <1>6, <2>1, <3>1, <4>1 DEF Applied, PutAt
      <3>2. CASE i # n
        BY <1>3, <1>4, <1>6, <2>1, <3>2 DEF Applied, PutAt
      <3> QED BY <3>1, <3>2
    <2>2. ASSUME NEW j \in Names, NEW e \in DOMAIN live[j], DroppedAt(j, e), j # n PROVE Granted(g)'
      BY <1>3, <1>4, <1>6, <2>2 DEF DroppedAt
    <2>3. ASSUME NEW i \in DOMAIN plan, NEW j \in Names, NEW e \in DOMAIN live[j], DroppedFor(i, j, e)
          PROVE  Granted(g)'
      <3>1. \A q : OfFamily(q) => \A k \in DOMAIN Plans[q] :
               k \in Names \ {i} => Plans[q][k].refs \cap {i} = {}
        BY TenantPlans DEF OfFamily
      <3>2. j \in {i}
        BY <2>3, <3>1, UpwardWithin DEF DroppedFor, EngineInv
      <3>3. i # n
        BY <1>3, <1>4, <2>0, <2>3 DEF DroppedFor, Now
      <3> QED BY <2>2, <2>3, <3>2, <3>3 DEF DroppedFor
    <2>4. ASSUME NEW j \in Names, NEW e \in DOMAIN live[j], Dropped(j, e) PROVE Granted(g)'
      <3>1. j # n
        BY <1>3, <2>0, <2>4 DEF Dropped
      <3> QED BY <2>2, <2>4, <3>1 DEF Dropped
    <2> QED BY <1>8, <2>1, <2>3, <2>4 DEF Changes
  <1>9. \A q : OfFamily(q) => \A i \in DOMAIN Plans[q] : Plans[q][i].auto \in BOOLEAN
    BY TenantPlans DEF OfFamily
  <1> QED BY <1>7, <1>8, <1>9, NextChanges

-----------------------------------------------------------------------------
(* The plan of a site *)

\* What is changed in place, and refers to no object of a bucket.
Plain(goal) == goal.key = "same" /\ goal.auto = FALSE /\ \A r \in goal.refs : r[1] # "asset"

SiteGoal(args, n, goal) ==
    \/ n \in {<<"idp">>, <<"worker">>, <<"token">>} /\ Plain(goal)
    \/ n[1] = "domain" /\ Plain(goal)
    \/ n = <<"bucket">> /\ goal.auto = TRUE /\ goal.refs = {}
    \/ \E d \in DOMAIN args.domains : \E p \in DOMAIN args.paths :
          n = S!AppName(d, p) /\ goal = S!AppGoal(args, d, p)
    \/ n = <<"purge">> /\ goal.deps = S!AssetNames(args) /\ Plain(goal)
    \/ \E f \in DOMAIN args.files : n = S!AssetName(args, f) /\ goal = S!AssetGoal(args, f)

AppsOf(args) ==
    AllGoals([d \in DOMAIN args.domains |->
        AllGoals([p \in DOMAIN args.paths |-> New(S!AppName(d, p), S!AppGoal(args, d, p))])])

LEMMA InPlaceIsPlain ==
    ASSUME NEW data, NEW refs, NEW deps, \A r \in refs : r[1] # "asset"
    PROVE  Plain(InPlace(data, refs, deps)) /\ InPlace(data, refs, deps).deps = deps
  BY DEF Plain, InPlace, Goal

LEMMA AppsHave ==
    ASSUME NEW args
    PROVE  /\ \A n, goal : Has(AppsOf(args), n, goal) =>
                 \E d \in DOMAIN args.domains : \E p \in DOMAIN args.paths :
                    n = S!AppName(d, p) /\ goal = S!AppGoal(args, d, p)
           /\ \A d \in DOMAIN args.domains : \A p \in DOMAIN args.paths :
                 S!AppName(d, p) \in DOMAIN AppsOf(args)
  <1> DEFINE row(d) == [p \in DOMAIN args.paths |-> New(S!AppName(d, p), S!AppGoal(args, d, p))]
             rows   == [d \in DOMAIN args.domains |-> AllGoals(row(d))]
  <1>1. AppsOf(args) = AllGoals(rows)
    BY DEF AppsOf
  <1>2. ASSUME NEW n, NEW goal, Has(AllGoals(rows), n, goal)
        PROVE  \E d \in DOMAIN args.domains : \E p \in DOMAIN args.paths :
                  n = S!AppName(d, p) /\ goal = S!AppGoal(args, d, p)
    <2>1. PICK d \in DOMAIN rows : Has(rows[d], n, goal)
      BY <1>2, AllGoalsHave
    <2>2. Has(AllGoals(row(d)), n, goal)
      BY <2>1
    <2>3. PICK p \in DOMAIN row(d) : Has(row(d)[p], n, goal)
      BY <2>2, AllGoalsHave
    <2>4. Has(New(S!AppName(d, p), S!AppGoal(args, d, p)), n, goal)
      BY <2>3
    <2>5. n = S!AppName(d, p) /\ goal = S!AppGoal(args, d, p)
      BY <2>4, NewHas
    <2> QED BY <2>1, <2>3, <2>5
  <1>3. ASSUME NEW d \in DOMAIN args.domains, NEW p \in DOMAIN args.paths
        PROVE  S!AppName(d, p) \in DOMAIN AllGoals(rows)
    <2>1. p \in DOMAIN row(d) /\ row(d)[p] = New(S!AppName(d, p), S!AppGoal(args, d, p))
      OBVIOUS
    <2>2. d \in DOMAIN rows /\ rows[d] = AllGoals(row(d))
      OBVIOUS
    <2> HIDE DEF row, rows
    <2>3. S!AppName(d, p) \in DOMAIN row(d)[p]
      <3>1. DOMAIN New(S!AppName(d, p), S!AppGoal(args, d, p)) = {S!AppName(d, p)}
        BY NewDomain
      <3> QED BY <2>1, <3>1
    <2>4. S!AppName(d, p) \in DOMAIN AllGoals(row(d))
      BY <2>1, <2>3, AllGoalsHave
    <2> QED BY <2>2, <2>4, AllGoalsHave
  <1> HIDE DEF rows
  <1> QED BY <1>1, <1>2, <1>3

LEMMA WorkerSiteHas ==
    ASSUME NEW args, NEW n, NEW goal, Has(S!WorkerSiteGoals(args), n, goal)
    PROVE  SiteGoal(args, n, goal)
  <1> DEFINE gate   == When(args.paths # <<>>, S!AccessGateGoals(args))
             bucket == S!BucketGoal(args)
             worker == S!WorkerGoal(args)
             routes == S!DomainGoals(args)
  <1>0. \A r \in S!BucketRefs(args) : r[1] # "asset"
    BY DEF S!BucketRefs
  <1>1. S!WorkerSiteGoals(args) = AllGoals(<<gate, bucket, worker, routes>>)
    BY SameWriting DEF S!WorkerSiteGoals
  <1>2. Has(gate, n, goal) \/ Has(bucket, n, goal) \/ Has(worker, n, goal) \/ Has(routes, n, goal)
    <2>1. Has(AllGoals(<<gate, bucket, worker, routes>>), n, goal)
      BY <1>1
    <2> HIDE DEF gate, bucket, worker, routes
    <2> QED BY <2>1, FourHave
  <1>3. CASE Has(gate, n, goal)
    <2> DEFINE idp == New(<<"idp">>, InPlace(args.githubOAuthConfig, {}, {}))
    <2>1. Has(S!AccessGateGoals(args), n, goal)
      BY <1>3, WhenHas
    <2>2. S!AccessGateGoals(args) = AllGoals(<<When(args.githubOAuthConfig # Unset, idp), AppsOf(args)>>)
      BY SameWriting DEF S!AccessGateGoals, AppsOf
    <2>3. Has(When(args.githubOAuthConfig # Unset, idp), n, goal) \/ Has(AppsOf(args), n, goal)
      <3>1. Has(AllGoals(<<When(args.githubOAuthConfig # Unset, idp), AppsOf(args)>>), n, goal)
        BY <2>1, <2>2
      <3> HIDE DEF idp
      <3> QED BY <3>1, TwoHave
    <2>4. CASE Has(When(args.githubOAuthConfig # Unset, idp), n, goal)
      <3>1. n = <<"idp">> /\ goal = InPlace(args.githubOAuthConfig, {}, {})
        BY <2>4, WhenHas, NewHas
      <3> QED BY <3>1, InPlaceIsPlain DEF SiteGoal
    <2>5. CASE Has(AppsOf(args), n, goal)
      BY <2>5, AppsHave DEF SiteGoal
    <2> QED BY <2>3, <2>4, <2>5
  <1>4. CASE Has(bucket, n, goal)
    <2>1. Has(New(<<"bucket">>, GivenName(args.r2Bucket.bucketName)), n, goal)
      BY <1>4, WhenHas, SameWriting DEF S!BucketGoal
    <2>2. n = <<"bucket">> /\ goal = GivenName(args.r2Bucket.bucketName)
      BY <2>1, NewHas
    <2> QED BY <2>2 DEF GivenName, Goal, SiteGoal
  <1>5. CASE Has(worker, n, goal)
    <2> DEFINE data == [bucket |-> args.r2Bucket, assets |-> args.staticAssets,
                        version |-> args.cacheKeyVersion]
    <2>1. Has(New(<<"worker">>, InPlace(data, S!BucketRefs(args), {})), n, goal)
      BY <1>5, SameWriting DEF S!WorkerGoal
    <2>2. n = <<"worker">> /\ goal = InPlace(data, S!BucketRefs(args), {})
      BY <2>1, NewHas
    <2> QED BY <1>0, <2>2, InPlaceIsPlain DEF SiteGoal
  <1>6. CASE Has(routes, n, goal)
    <2> DEFINE all == [d \in DOMAIN args.domains |->
                          New(<<"domain", d>>, InPlace(args.domains[d], {<<"worker">>}, {}))]
    <2>1. routes = AllGoals(all)
      BY SameWriting DEF S!DomainGoals
    <2>2. PICK d \in DOMAIN all : Has(all[d], n, goal)
      BY <1>6, <2>1, AllGoalsHave
    <2>3. Has(New(<<"domain", d>>, InPlace(args.domains[d], {<<"worker">>}, {})), n, goal)
      BY <2>2
    <2>4. n = <<"domain", d>> /\ goal = InPlace(args.domains[d], {<<"worker">>}, {})
      BY <2>3, NewHas
    <2>5. Plain(goal) /\ n[1] = "domain"
      BY <2>4, InPlaceIsPlain
    <2> QED BY <2>5 DEF SiteGoal
  <1> QED BY <1>2, <1>3, <1>4, <1>5, <1>6

LEMMA UploadHas ==
    ASSUME NEW args, NEW n, NEW goal,
           \/ Has(S!UploadAssets(args), n, goal)
           \/ Has(S!PurgeZoneCache(args), n, goal)
    PROVE  SiteGoal(args, n, goal)
  <1>0. \A r \in S!BucketRefs(args) : r[1] # "asset"
    BY DEF S!BucketRefs
  <1>1. CASE Has(S!PurgeZoneCache(args), n, goal)
    <2>1. Has(New(<<"purge">>, InPlace(args.trigger, {}, S!AssetNames(args))), n, goal)
      BY <1>1, SameWriting DEF S!PurgeZoneCache
    <2>2. n = <<"purge">> /\ goal = InPlace(args.trigger, {}, S!AssetNames(args))
      BY <2>1, NewHas
    <2> QED BY <2>2, InPlaceIsPlain DEF SiteGoal
  <1>2. CASE Has(S!UploadAssets(args), n, goal)
    <2> DEFINE made  == InPlace(args.r2Bucket.bucketName, S!BucketRefs(args), args.uploadOptsAfter)
               token == New(<<"token">>, made)
               all   == [f \in DOMAIN args.files |-> New(S!AssetName(args, f), S!AssetGoal(args, f))]
    <2>1. S!UploadAssets(args) = AllGoals(<<token, AllGoals(all)>>)
      BY SameWriting DEF S!UploadAssets
    <2>2. Has(token, n, goal) \/ Has(AllGoals(all), n, goal)
      BY <1>2, <2>1, TwoHave
    <2>3. CASE Has(token, n, goal)
      <3>1. n = <<"token">> /\ goal = made
        BY <2>3, NewHas
      <3> QED BY <1>0, <3>1, InPlaceIsPlain DEF SiteGoal
    <2>4. CASE Has(AllGoals(all), n, goal)
      <3>1. PICK f \in DOMAIN all : Has(all[f], n, goal)
        BY <2>4, AllGoalsHave
      <3>2. Has(New(S!AssetName(args, f), S!AssetGoal(args, f)), n, goal)
        BY <3>1
      <3>3. n = S!AssetName(args, f) /\ goal = S!AssetGoal(args, f)
        BY <3>2, NewHas
      <3> QED BY <3>1, <3>3 DEF SiteGoal
    <2> QED BY <2>2, <2>3, <2>4
  <1> QED BY <1>1, <1>2

LEMMA SiteGoals ==
    ASSUME NEW args, NEW n, NEW goal, Has(S!SitePlanOf(args), n, goal)
    PROVE  SiteGoal(args, n, goal)
  <1> DEFINE site == S!WorkerSiteGoals(args)
             load == AllGoals(<<S!UploadAssets(args), S!PurgeZoneCache(args)>>)
             rest == When(args.r2Bucket # Unset /\ args.files # <<>>, load)
  <1>1. S!SitePlanOf(args) = AllGoals(<<site, rest>>)
    BY SameWriting DEF S!SitePlanOf
  <1>2. Has(site, n, goal) \/ Has(rest, n, goal)
    <2>1. Has(AllGoals(<<site, rest>>), n, goal)
      BY <1>1
    <2> HIDE DEF site, rest
    <2> QED BY <2>1, TwoHave
  <1>3. CASE Has(rest, n, goal)
    <2>1. Has(load, n, goal)
      BY <1>3, WhenHas
    <2>2. Has(S!UploadAssets(args), n, goal) \/ Has(S!PurgeZoneCache(args), n, goal)
      BY <2>1, TwoHave
    <2> QED BY <2>2, UploadHas
  <1> QED BY <1>2, <1>3, WorkerSiteHas

LEMMA SiteGoalIs ==
    ASSUME NEW args, NEW i, NEW goal, SiteGoal(args, i, goal)
    PROVE  /\ goal.auto = IF i = <<"bucket">> THEN TRUE ELSE FALSE
           /\ \A r \in goal.refs : r[1] # "asset"
           /\ i # <<"bucket">> /\ i[1] # "asset" => goal.key = "same"
           /\ i[1] = "asset" => i = <<"asset", goal.key.key>> /\ i \in S!AssetNames(args)
           /\ i = <<"purge">> => goal.deps = S!AssetNames(args)
           /\ i[1] = "app" => \E d \in DOMAIN args.domains : \E p \in DOMAIN args.paths :
                                i = S!AppName(d, p) /\ goal = S!AppGoal(args, d, p)
  <1>8. /\ i = <<"bucket">> => i[1] = "bucket"
        /\ i = <<"purge">> => i[1] = "purge"
        /\ i \in {<<"idp">>, <<"worker">>, <<"token">>} => i[1] \in {"idp", "worker", "token"}
    OBVIOUS
  <1>2. CASE i \in {<<"idp">>, <<"worker">>, <<"token">>} /\ Plain(goal)
    <2>1. i[1] \in {"idp", "worker", "token"} /\ Plain(goal)
      BY <1>2, <1>8
    <2> QED BY <1>8, <2>1 DEF Plain
  <1>3. CASE i[1] = "domain" /\ Plain(goal)
    BY <1>3, <1>8 DEF Plain
  <1>4. CASE i = <<"bucket">> /\ goal.auto = TRUE /\ goal.refs = {}
    BY <1>4, <1>8
  <1>5. ASSUME NEW d \in DOMAIN args.domains, NEW p \in DOMAIN args.paths,
               i = S!AppName(d, p), goal = S!AppGoal(args, d, p)
        PROVE  /\ goal.auto = FALSE /\ goal.key = "same" /\ \A r \in goal.refs : r[1] # "asset"
               /\ i[1] = "app" /\ i # <<"bucket">> /\ i # <<"purge">>
    <2>1. PICK data, refs : goal = InPlace(data, refs, {}) /\ refs \subseteq {<<"idp">>}
      BY <1>5, SameWriting DEF S!AppGoal
    <2>2. Plain(goal)
      BY <2>1, InPlaceIsPlain
    <2>3. i[1] = "app"
      BY <1>5 DEF S!AppName
    <2> QED BY <1>8, <2>2, <2>3 DEF Plain
  <1>6. CASE i = <<"purge">> /\ goal.deps = S!AssetNames(args) /\ Plain(goal)
    BY <1>6 DEF Plain
  <1>7. ASSUME NEW f \in DOMAIN args.files, i = S!AssetName(args, f), goal = S!AssetGoal(args, f)
        PROVE  /\ i[1] = "asset" /\ i = <<"asset", goal.key.key>> /\ i \in S!AssetNames(args)
               /\ goal.auto = FALSE /\ \A r \in goal.refs : r[1] # "asset"
    <2>1. PICK file : file = args.files[f]
      OBVIOUS
    <2>2. goal = Goal([bucket |-> args.r2Bucket.bucketName, key |-> file.key], file.content, FALSE,
                      {<<"token">>} \cup S!BucketRefs(args), S!UploadDeps(args))
      BY <1>7, <2>1, SameWriting DEF S!AssetGoal
    <2>3. goal.key.key = file.key /\ goal.auto = FALSE /\ goal.refs = {<<"token">>} \cup S!BucketRefs(args)
      BY <2>2 DEF Goal
    <2>4. i = <<"asset", file.key>> /\ i \in S!AssetNames(args)
      BY <1>7, <2>1 DEF S!AssetName, S!AssetNames
    <2> QED BY <2>3, <2>4 DEF S!BucketRefs
  <1>9. CASE \E d \in DOMAIN args.domains : \E p \in DOMAIN args.paths :
                i = S!AppName(d, p) /\ goal = S!AppGoal(args, d, p)
    BY <1>5, <1>8, <1>9
  <1>10. CASE \E f \in DOMAIN args.files : i = S!AssetName(args, f) /\ goal = S!AssetGoal(args, f)
    BY <1>7, <1>8, <1>10
  <1> QED BY <1>2, <1>3, <1>4, <1>6, <1>9, <1>10 DEF SiteGoal

LEMMA SitePlans ==
    ASSUME NEW q \in DOMAIN Plans, q[1] = "site", NEW i \in DOMAIN Plans[q]
    PROVE  /\ Plans[q][i].auto = IF i = <<"bucket">> THEN TRUE ELSE FALSE
           /\ \A r \in Plans[q][i].refs : r[1] # "asset"
           /\ i # <<"bucket">> /\ i[1] # "asset" => Plans[q][i].key = "same"
           /\ i[1] = "asset" => /\ i = <<"asset", Plans[q][i].key.key>>
                                /\ i \in S!AssetNames(ArgsOf(q))
           /\ i = <<"purge">> => Plans[q][i].deps = S!AssetNames(ArgsOf(q))
           /\ i[1] = "app" => \E d \in DOMAIN ArgsOf(q).domains : \E p \in DOMAIN ArgsOf(q).paths :
                 i = S!AppName(d, p) /\ Plans[q][i] = S!AppGoal(ArgsOf(q), d, p)
  <1>0. PICK args, goal : args = ArgsOf(q) /\ goal = Plans[q][i]
    OBVIOUS
  <1>1. SiteGoal(args, i, goal)
    <2>1. Has(S!SitePlanOf(args), i, goal)
      BY <1>0, PlansAre DEF Has
    <2> QED BY <2>1, SiteGoals
  <1> QED BY <1>0, <1>1, SiteGoalIs

LEMMA SiteAuto ==
    ASSUME program[1] = "site"
    PROVE  /\ \A q : OfFamily(q) => \A i \in DOMAIN Plans[q] : Plans[q][i].auto \in BOOLEAN
           /\ \A i : i # <<"bucket">> => Fixed(i)
  <1>1. ASSUME NEW q, OfFamily(q), NEW i \in DOMAIN Plans[q]
        PROVE  Plans[q][i].auto = IF i = <<"bucket">> THEN TRUE ELSE FALSE
    BY <1>1, SitePlans DEF OfFamily
  <1> QED BY <1>1 DEF Fixed

LEMMA SiteObjects ==
    ASSUME program[1] = "site", MadeInv, NEW n \in Names, NEW g \in DOMAIN live[n],
           n # <<"bucket">>
    PROVE  IF n[1] = "asset" THEN n = <<"asset", live[n][g].key.key>>
                             ELSE live[n][g].key = "same"
  <1>1. PICK q : MadeFrom(n, live[n][g], q)
    BY DEF MadeInv, Made
  <1> QED BY <1>1, SitePlans DEF MadeFrom, OfFamily

LEMMA ObjectsStep == EngineInv /\ [Next]_vars => ObjectsStay
  <1> SUFFICES ASSUME EngineInv, [Next]_vars, program[1] = "site",
                      NEW o \in Objects \ (Objects)', o[1][1] = "asset",
                      NEW i \in DOMAIN plan, i[1] = "asset", Object(o).key = plan[i].key
               PROVE  FALSE
    BY DEF ObjectsStay, Deploying, IsAsset
  <1>1. PICK n \in Names : \E e \in DOMAIN live[n] : o = <<n, e>>
    BY ObjectsAre
  <1>2. PICK e \in DOMAIN live[n] : o = <<n, e>>
    BY <1>1
  <1>3. n[1] = "asset" /\ n # <<"bucket">> /\ live[n][e].key = plan[i].key
    BY <1>2 DEF Object
  <1>4. Recorded(n) /\ current[n] = 1 /\ e = 1
    BY <1>2, <1>3, SiteAuto DEF EngineInv, FixedInv
  <1>5. ASSUME n \in DOMAIN live', e \in DOMAIN live'[n] PROVE FALSE
    BY <1>2, <1>5, ObjectsAre DEF Names
  <1>6. OfFamily(program) /\ plan = Plans[program] /\ Changes
    BY <1>2, <1>5, NextChanges, SiteAuto DEF Names
  <1>7. n = i
    <2>1. n = <<"asset", live[n][e].key.key>>
      BY <1>3, SiteObjects DEF EngineInv
    <2>2. i = <<"asset", plan[i].key.key>>
      BY <1>6, SitePlans DEF OfFamily
    <2> QED BY <1>3, <2>1, <2>2
  <1>8. ASSUME NEW k \in DOMAIN plan, NEW g, Applied(k, g) PROVE FALSE
    BY <1>2, <1>5, <1>8 DEF Applied, PutAt, Names
  <1>9. ASSUME NEW j \in Names, NEW g \in DOMAIN live[j], DroppedAt(j, g) PROVE j = n
    BY <1>2, <1>5, <1>9 DEF DroppedAt
  <1>10. ASSUME NEW k \in DOMAIN plan, NEW j \in Names, NEW g \in DOMAIN live[j], DroppedFor(k, j, g)
         PROVE  FALSE
    <2>1. j = n
      BY <1>9, <1>10 DEF DroppedFor
    <2>2. k # <<"bucket">> /\ k \in Names /\ live[k][current[k]].key # plan[k].key
          /\ current[k] \in DOMAIN live[k]
      BY <1>6, <1>10, SitePlans DEF DroppedFor, OfFamily, Now, EngineInv, LiveInv, Recorded
    <2>3. k[1] = "asset"
      <3>1. k[1] # "asset" => live[k][current[k]].key = "same"
        BY <2>2, SiteObjects DEF EngineInv
      <3>2. k[1] # "asset" => plan[k].key = "same"
        BY <1>6, <2>2, SitePlans DEF OfFamily
      <3> QED BY <2>2, <3>1, <3>2
    <2>4. \A q : OfFamily(q) => \A m \in DOMAIN Plans[q] :
             m \in Names \ {k} => Plans[q][m].refs \cap {k} = {}
      <3>1. ASSUME NEW q, OfFamily(q), NEW m \in DOMAIN Plans[q] PROVE k \notin Plans[q][m].refs
        BY <2>3, <3>1, SitePlans DEF OfFamily
      <3> QED BY <3>1
    <2>5. j \in {k}
      BY <1>10, <2>4, UpwardWithin DEF DroppedFor, EngineInv
    <2> QED BY <1>3, <1>4, <1>7, <2>1, <2>2, <2>5
  <1>11. ASSUME NEW j \in Names, NEW g \in DOMAIN live[j], Dropped(j, g) PROVE FALSE
    <2>1. j = n
      BY <1>9, <1>11 DEF Dropped
    <2>2. g = 1
      BY <1>3, <2>1, SiteAuto DEF EngineInv, FixedInv
    <2> QED BY <1>4, <1>7, <1>11, <2>1, <2>2 DEF Dropped
  <1> QED BY <1>6, <1>8, <1>10, <1>11 DEF Changes

LEMMA PurgeStep == EngineInv /\ [Next]_vars => PurgeLast
  <1> SUFFICES ASSUME EngineInv, [Next]_vars, program[1] = "site", ~(Purges' \subseteq Purges),
                      NEW i \in DOMAIN plan, i[1] = "asset"
               PROVE  Exists(i) /\ Now(i) = Wanted(i)
    BY DEF PurgeLast, Deploying, IsAsset
  <1> DEFINE purge == <<"purge">>
  <1>0. /\ \A n \in Names : n = purge => Recorded(n) /\ current[n] = 1 /\ DOMAIN live[n] = {1}
        /\ purge # <<"bucket">>
    BY SiteAuto DEF EngineInv, FixedInv
  <1>1. purge \in DOMAIN live' /\ ~(purge \in Names /\ Now(purge)' = Now(purge))
    BY DEF Purges, Exists, Names
  <1>2. ASSUME UNCHANGED <<live, current>> PROVE FALSE
    BY <1>1, <1>2 DEF Now, Names
  <1>3. ASSUME NEW j \in Names, NEW g \in DOMAIN live[j], DroppedAt(j, g) PROVE FALSE
    <2>1. CASE j = purge
      BY <1>0, <1>1, <1>3, <2>1 DEF DroppedAt
    <2>2. CASE j # purge
      <3>1. purge \in Names /\ live'[purge] = live[purge]
        BY <1>1, <1>3, <2>2 DEF DroppedAt
      <3>2. current'[purge] = current[purge]
        BY <1>0, <1>3, <2>2, <3>1 DEF DroppedAt, Recorded
      <3> QED BY <1>1, <3>1, <3>2 DEF Now
    <2> QED BY <2>1, <2>2
  <1>4. ASSUME NEW k \in DOMAIN plan, NEW g, Applied(k, g), OfFamily(program), plan = Plans[program]
        PROVE  Exists(i) /\ Now(i) = Wanted(i)
    <2>1. k = purge
      <3>1. CASE k # purge
        <4>1. purge \in Names /\ live'[purge] = live[purge]
          BY <1>1, <1>4, <3>1 DEF Applied, PutAt
        <4>2. current'[purge] = current[purge]
          BY <1>0, <1>4, <3>1, <4>1 DEF Applied, PutAt, Recorded
        <4> QED BY <1>1, <4>1, <4>2 DEF Now
      <3> QED BY <3>1
    <2>2. i \in Needs(k)
      <3>1. plan[k].deps = S!AssetNames(ArgsOf(program))
        BY <1>4, <2>1, SitePlans DEF OfFamily
      <3>2. i \in S!AssetNames(ArgsOf(program))
        BY <1>4, SitePlans DEF OfFamily
      <3> QED BY <3>1, <3>2 DEF Needs
    <2>3. PICK C : Correct(C) /\ Needs(k) \subseteq C
      BY <1>4 DEF Applied
    <2>4. Recorded(i) /\ Now(i) = Wanted(i)
      BY <2>2, <2>3 DEF Correct
    <2> QED BY <2>4 DEF Recorded, Exists, EngineInv, LiveInv, Names
  <1> QED BY <1>2, <1>3, <1>4, NextChanges, SiteAuto DEF Changes, DroppedFor, Dropped

-----------------------------------------------------------------------------
(* The plan of a monitor *)

MonitorGoal(args, i, goal) ==
    \/ /\ i = <<"db">> /\ M!CreatesDb(args) /\ goal = GivenName(M!DbName(args))
    \/ i = <<"schema">> /\ goal = M!D1Query(args)
    \/ i = <<"worker">> /\ goal = M!MonitorWorker(args)
    \/ i = <<"cron">> /\ goal = InPlace("every minute", {<<"worker">>}, {})

LEMMA MonitorGoals ==
    ASSUME NEW args
    PROVE  /\ \A i, goal : Has(M!MonitorPlanOf(args), i, goal) => MonitorGoal(args, i, goal)
           /\ {<<"schema">>, <<"worker">>} \subseteq DOMAIN M!MonitorPlanOf(args)
           /\ M!CreatesDb(args) => <<"db">> \in DOMAIN M!MonitorPlanOf(args)
  <1> DEFINE own    == New(<<"db">>, GivenName(M!DbName(args)))
             db     == When(M!CreatesDb(args), own)
             schema == New(<<"schema">>, M!D1Query(args))
             worker == New(<<"worker">>, M!MonitorWorker(args))
             cron   == New(<<"cron">>, InPlace("every minute", {<<"worker">>}, {}))
  <1>1. M!MonitorPlanOf(args) = AllGoals(<<db, schema, worker, cron>>)
    BY SameWriting DEF M!MonitorPlanOf
  <1>2. /\ DOMAIN schema = {<<"schema">>} /\ DOMAIN worker = {<<"worker">>}
        /\ DOMAIN own = {<<"db">>}
    BY NewDomain
  <1>3. DOMAIN AllGoals(<<db, schema, worker, cron>>)
           = DOMAIN db \cup DOMAIN schema \cup DOMAIN worker \cup DOMAIN cron
    <2> HIDE DEF db, schema, worker, cron
    <2> QED BY FourHave
  <1>4. ASSUME NEW i, NEW goal, Has(AllGoals(<<db, schema, worker, cron>>), i, goal)
        PROVE  MonitorGoal(args, i, goal)
    <2>1. Has(db, i, goal) \/ Has(schema, i, goal) \/ Has(worker, i, goal) \/ Has(cron, i, goal)
      <3> HIDE DEF db, schema, worker, cron
      <3> QED BY <1>4, FourHave
    <2>2. CASE Has(db, i, goal)
      <3>1. M!CreatesDb(args) /\ Has(own, i, goal)
        BY <2>2, WhenHas
      <3>2. i = <<"db">> /\ goal = GivenName(M!DbName(args))
        BY <3>1, NewHas
      <3> QED BY <3>1, <3>2 DEF MonitorGoal
    <2>3. CASE Has(schema, i, goal)
      BY <2>3, NewHas DEF MonitorGoal
    <2>4. CASE Has(worker, i, goal)
      BY <2>4, NewHas DEF MonitorGoal
    <2>5. CASE Has(cron, i, goal)
      BY <2>5, NewHas DEF MonitorGoal
    <2> QED BY <2>1, <2>2, <2>3, <2>4, <2>5
  <1> HIDE DEF own, db, schema, worker, cron
  <1>5. {<<"schema">>, <<"worker">>} \subseteq DOMAIN AllGoals(<<db, schema, worker, cron>>)
    BY <1>2, <1>3
  <1>6. ASSUME M!CreatesDb(args)
        PROVE  <<"db">> \in DOMAIN AllGoals(<<db, schema, worker, cron>>)
    <2>1. db = own
      BY <1>6 DEF db, When
    <2>2. <<"db">> \in DOMAIN db
      BY <1>2, <2>1
    <2> QED BY <1>3, <2>2
  <1> QED BY <1>1, <1>4, <1>5, <1>6

LEMMA MonitorGoalIs ==
    ASSUME NEW args, NEW i, NEW goal, MonitorGoal(args, i, goal)
    PROVE  /\ i \in {<<"db">>, <<"schema">>, <<"worker">>, <<"cron">>}
           /\ goal.auto = IF i = <<"db">> THEN TRUE ELSE FALSE
           /\ <<"schema">> \notin goal.refs
           /\ i = <<"db">> => /\ goal.key = M!DbName(args) /\ goal.data = M!DbName(args)
                              /\ M!CreatesDb(args)
           /\ i = <<"schema">> => /\ goal.refs = M!DbRefs(args)
                                  /\ goal.key = [sql |-> args.d1Schema, database |-> args.d1DatabaseId]
           /\ i = <<"worker">> => /\ goal.refs = M!DbRefs(args) /\ <<"schema">> \in goal.deps
                                  /\ goal.data.database = args.d1DatabaseId
           /\ i \in {<<"worker">>, <<"cron">>} => goal.key = "same"
  <1>0. /\ <<"schema">> # <<"db">> /\ <<"worker">> # <<"db">> /\ <<"cron">> # <<"db">>
        /\ <<"schema">> # <<"worker">> /\ <<"cron">> # <<"worker">> /\ <<"cron">> # <<"schema">>
    OBVIOUS
  <1>1. M!DbRefs(args) \subseteq {<<"db">>}
    BY DEF M!DbRefs
  <1>2. CASE i = <<"db">> /\ M!CreatesDb(args) /\ goal = GivenName(M!DbName(args))
    BY <1>0, <1>2 DEF GivenName, Goal
  <1>3. CASE i = <<"schema">> /\ goal = M!D1Query(args)
    BY <1>0, <1>1, <1>3, SameWriting DEF M!D1Query, Goal
  <1>4. CASE i = <<"worker">> /\ goal = M!MonitorWorker(args)
    <2> DEFINE data == [monitors |-> args.monitors, api |-> args.enableReadApi,
                        webhook |-> args.webhookUrl, database |-> args.d1DatabaseId]
    <2>1. goal = InPlace(data, M!DbRefs(args), {<<"schema">>}) /\ data.database = args.d1DatabaseId
      BY <1>4, SameWriting DEF M!MonitorWorker
    <2> HIDE DEF data
    <2> QED BY <1>0, <1>1, <1>4, <2>1 DEF InPlace, Goal
  <1>5. CASE i = <<"cron">> /\ goal = InPlace("every minute", {<<"worker">>}, {})
    BY <1>0, <1>5 DEF InPlace, Goal
  <1> QED BY <1>2, <1>3, <1>4, <1>5 DEF MonitorGoal

LEMMA MonitorPlans ==
    ASSUME NEW q \in DOMAIN Plans, q[1] = "monitor"
    PROVE  /\ \A i \in DOMAIN Plans[q] : MonitorGoal(ArgsOf(q), i, Plans[q][i])
           /\ {<<"schema">>, <<"worker">>} \subseteq DOMAIN Plans[q]
           /\ M!CreatesDb(ArgsOf(q)) => <<"db">> \in DOMAIN Plans[q]
  <1>1. Plans[q] = M!MonitorPlanOf(ArgsOf(q))
    BY PlansAre
  <1>2. ASSUME NEW i \in DOMAIN Plans[q] PROVE Has(M!MonitorPlanOf(ArgsOf(q)), i, Plans[q][i])
    BY <1>1 DEF Has
  <1> QED BY <1>1, <1>2, MonitorGoals

LEMMA MonitorAuto ==
    ASSUME program[1] = "monitor"
    PROVE  /\ \A q : OfFamily(q) => \A i \in DOMAIN Plans[q] : Plans[q][i].auto \in BOOLEAN
           /\ \A i : i # <<"db">> => Fixed(i)
  <1>1. ASSUME NEW q, OfFamily(q), NEW i \in DOMAIN Plans[q]
        PROVE  Plans[q][i].auto = IF i = <<"db">> THEN TRUE ELSE FALSE
    <2>1. MonitorGoal(ArgsOf(q), i, Plans[q][i])
      BY <1>1, MonitorPlans DEF OfFamily
    <2> QED BY <2>1, MonitorGoalIs
  <1> QED BY <1>1 DEF Fixed

\* Only the query is ever taken down for its replacement.
LEMMA QueriesGiveWay ==
    ASSUME EngineInv, program[1] = "monitor", OfFamily(program), plan = Plans[program],
           NEW k \in DOMAIN plan, NEW j \in Names, NEW g \in DOMAIN live[j], DroppedFor(k, j, g)
    PROVE  j = <<"schema">>
  <1>1. MonitorGoal(ArgsOf(program), k, plan[k])
    BY MonitorPlans DEF OfFamily
  <1>2. k \in {<<"schema">>, <<"worker">>, <<"cron">>}
    BY <1>1, MonitorGoalIs DEF DroppedFor
  <1>3. k \notin {<<"worker">>, <<"cron">>}
    <2>1. SUFFICES ASSUME k \in {<<"worker">>, <<"cron">>} PROVE FALSE
      OBVIOUS
    <2>2. k \in Names /\ current[k] \in DOMAIN live[k] /\ Now(k).key # plan[k].key
      BY DEF DroppedFor, EngineInv, LiveInv, Recorded
    <2>3. PICK q : MadeFrom(k, Now(k), q)
      BY <2>2 DEF EngineInv, MadeInv, Made, Now
    <2>4. MonitorGoal(ArgsOf(q), k, Plans[q][k])
      BY <2>3, MonitorPlans DEF MadeFrom, OfFamily
    <2>5. Now(k).key = "same" /\ plan[k].key = "same"
      BY <1>1, <2>1, <2>3, <2>4, MonitorGoalIs DEF MadeFrom
    <2> QED BY <2>2, <2>5
  <1>4. k = <<"schema">>
    BY <1>2, <1>3
  <1>5. ASSUME NEW q, OfFamily(q), NEW m \in DOMAIN Plans[q] PROVE k \notin Plans[q][m].refs
    <2>1. MonitorGoal(ArgsOf(q), m, Plans[q][m])
      BY <1>5, MonitorPlans DEF OfFamily
    <2> QED BY <1>4, <2>1, MonitorGoalIs
  <1>6. \A q : OfFamily(q) => \A m \in DOMAIN Plans[q] :
           m \in Names \ {k} => Plans[q][m].refs \cap {k} = {}
    BY <1>5
  <1>7. j \in {k}
    BY <1>6, UpwardWithin DEF DroppedFor, EngineInv
  <1> QED BY <1>4, <1>7

\* A name is a sequence of words.
LEMMA StemAndSuffix ==
    ASSUME NEW args, NEW name, name \in Seq(STRING) \ {<<>>},
           name = IF args.d1DatabaseName # Unset THEN args.d1DatabaseName ELSE args.name
    PROVE  Append(Stem(args), "probe-results") = M!DbName(args)
  <1>1. CASE Last(name) = "probe-results"
    <2>1. Stem(args) = Front(name) /\ M!DbName(args) = name
      BY <1>1 DEF Stem, M!DbName, M!Last, Last
    <2>2. Front(name) = SubSeq(name, 1, Len(name) - 1) /\ name[Len(name)] = "probe-results"
      BY <1>1 DEF Front, Last
    <2>3. Append(SubSeq(name, 1, Len(name) - 1), name[Len(name)]) = name
      OBVIOUS
    <2> QED BY <2>1, <2>2, <2>3
  <1>2. CASE Last(name) # "probe-results"
    BY <1>2 DEF Stem, M!DbName, M!Last, Last
  <1> QED BY <1>1, <1>2

LEMMA RowsStep == EngineInv /\ [Next]_vars => RowsStay
  <1> DEFINE db == <<"db">>
  <1> SUFFICES ASSUME EngineInv, [Next]_vars, program[1] = "monitor", Recorded(db),
                      Now(db).data = Append(Stem(ArgsOf(program)), "probe-results"),
                      M!CreatesDb(ArgsOf(program))
               PROVE  Recorded(db)' /\ current'[db] = current[db]
    BY DEF RowsStay, Deploying
  <1>1. CASE UNCHANGED <<live, current>>
    BY <1>1 DEF Recorded
  <1>2. ASSUME OfFamily(program), plan = Plans[program], Changes
        PROVE  Recorded(db)' /\ current'[db] = current[db]
    <2>1. db \in DOMAIN plan /\ MonitorGoal(ArgsOf(program), db, plan[db])
      BY <1>2, MonitorPlans DEF OfFamily
    <2>2. plan[db].key = M!DbName(ArgsOf(program))
      BY <2>1, MonitorGoalIs
    <2>3. Append(Stem(ArgsOf(program)), "probe-results") = M!DbName(ArgsOf(program))
      <3>1. program \in {q \in ProgramsOfAll : q[1] = "monitor"}
        BY <1>2, TablesAssumption DEF OfFamily, PlansOfAll
      <3> QED BY <3>1, NamesAssumption, StemAndSuffix DEF IsName
    <2>4. Now(db).key = Now(db).data
      <3>1. PICK q : MadeFrom(db, Now(db), q)
        BY DEF EngineInv, LiveInv, MadeInv, Made, Now, Recorded
      <3>2. MonitorGoal(ArgsOf(q), db, Plans[q][db])
        BY <3>1, MonitorPlans DEF MadeFrom, OfFamily
      <3>3. Plans[q][db].key = M!DbName(ArgsOf(q)) /\ Plans[q][db].data = M!DbName(ArgsOf(q))
        BY <3>2, MonitorGoalIs
      <3> QED BY <3>1, <3>3 DEF MadeFrom
    <2>5. Now(db).key = plan[db].key
      BY <2>2, <2>3, <2>4
    <2>6. ASSUME NEW i \in DOMAIN plan, NEW g, Applied(i, g)
          PROVE  Recorded(db)' /\ current'[db] = current[db]
      <3>1. CASE i = db
        BY <2>5, <2>6, <3>1 DEF Applied, PutAt, Recorded
      <3>2. CASE i # db
        BY <2>6, <3>2 DEF Applied, PutAt, Recorded
      <3> QED BY <3>1, <3>2
    <2>7. ASSUME NEW i \in DOMAIN plan, NEW j \in Names, NEW g \in DOMAIN live[j], DroppedFor(i, j, g)
          PROVE  Recorded(db)' /\ current'[db] = current[db]
      <3>1. j = <<"schema">> /\ j # db
        BY <1>2, <2>7, QueriesGiveWay
      <3> QED BY <2>7, <3>1 DEF DroppedFor, DroppedAt, Recorded
    <2>8. ASSUME NEW j \in Names, NEW g \in DOMAIN live[j], Dropped(j, g)
          PROVE  Recorded(db)' /\ current'[db] = current[db]
      BY <2>1, <2>8 DEF Dropped, DroppedAt, Recorded
    <2> QED BY <1>2, <2>6, <2>7, <2>8 DEF Changes
  <1> QED BY <1>1, <1>2, NextChanges, MonitorAuto

LEMMA SchemaStep == EngineInv /\ [Next]_vars => SchemaFirst
  <1> DEFINE worker == <<"worker">>
             schema == <<"schema">>
  <1> SUFFICES ASSUME EngineInv, [Next]_vars, program[1] = "monitor", Exists(worker)',
                      Exists(worker) => DatabaseOf(Now(worker)) # DatabaseOf(Now(worker))'
               PROVE  /\ Exists(schema) /\ Now(schema).key.sql = ArgsOf(program).d1Schema
                      /\ [given |-> Now(schema).key.database, own |-> Now(schema).refs]
                            = DatabaseOf(Now(worker))'
    BY DEF SchemaFirst, Deploying
  <1>0. worker # <<"db">> /\ schema # <<"db">> /\ worker # schema
    OBVIOUS
  <1>1. ASSUME worker \in Names PROVE Recorded(worker) /\ current[worker] = 1 /\ DOMAIN live[worker] = {1}
    BY <1>0, <1>1, MonitorAuto DEF EngineInv, FixedInv
  <1>2. worker \in DOMAIN live' /\ ~(worker \in Names /\ Now(worker)' = Now(worker))
    BY DEF Exists, Names, DatabaseOf
  <1>3. ASSUME UNCHANGED <<live, current>> PROVE FALSE
    BY <1>2, <1>3 DEF Now, Names
  <1>4. ASSUME NEW j \in Names, NEW g \in DOMAIN live[j], DroppedAt(j, g) PROVE FALSE
    <2>1. CASE j = worker
      BY <1>1, <1>2, <1>4, <2>1 DEF DroppedAt
    <2>2. CASE j # worker
      <3>1. worker \in Names /\ live'[worker] = live[worker]
        BY <1>2, <1>4, <2>2 DEF DroppedAt
      <3>2. current'[worker] = current[worker]
        BY <1>1, <1>4, <2>2, <3>1 DEF DroppedAt, Recorded
      <3> QED BY <1>2, <3>1, <3>2 DEF Now
    <2> QED BY <2>1, <2>2
  <1>5. ASSUME NEW k \in DOMAIN plan, NEW g, Applied(k, g), OfFamily(program), plan = Plans[program]
        PROVE  /\ Exists(schema) /\ Now(schema).key.sql = ArgsOf(program).d1Schema
               /\ [given |-> Now(schema).key.database, own |-> Now(schema).refs]
                     = DatabaseOf(Now(worker))'
    <2>1. k = worker
      <3>1. CASE k # worker
        <4>1. worker \in Names /\ live'[worker] = live[worker]
          BY <1>2, <1>5, <3>1 DEF Applied, PutAt
        <4>2. current'[worker] = current[worker]
          BY <1>1, <1>5, <3>1, <4>1 DEF Applied, PutAt, Recorded
        <4> QED BY <1>2, <4>1, <4>2 DEF Now
      <3> QED BY <3>1
    <2>2. /\ schema \in DOMAIN plan /\ MonitorGoal(ArgsOf(program), schema, plan[schema])
          /\ MonitorGoal(ArgsOf(program), worker, plan[worker])
      BY <1>5, <2>1, MonitorPlans DEF OfFamily
    <2>3. schema \in Needs(worker)
      BY <2>2, MonitorGoalIs DEF Needs
    <2>4. PICK C : Correct(C) /\ Needs(k) \subseteq C
      BY <1>5 DEF Applied
    <2>5. Recorded(schema) /\ Now(schema) = Wanted(schema)
      BY <2>1, <2>3, <2>4 DEF Correct
    <2>6. (Now(worker))' = Wanted(worker)
      BY <1>5, <2>1 DEF Applied, PutAt, Now
    <2>7. PICK refs : /\ refs = M!DbRefs(ArgsOf(program)) /\ refs \subseteq {<<"db">>}
                      /\ plan[worker].refs = refs /\ plan[schema].refs = refs
      <3>1. M!DbRefs(ArgsOf(program)) \subseteq {<<"db">>}
        BY DEF M!DbRefs
      <3>2. plan[worker].refs = M!DbRefs(ArgsOf(program))
        BY <2>2, MonitorGoalIs
      <3>3. plan[schema].refs = M!DbRefs(ArgsOf(program))
        BY <2>2, MonitorGoalIs
      <3> QED BY <3>1, <3>2, <3>3
    <2>8. Wanted(schema).refs = Wanted(worker).refs
      BY <2>7 DEF Wanted
    <2>9. \A r \in Wanted(worker).refs : r[1] = <<"db">>
      <3>1. {r[1] : r \in Wanted(worker).refs} = plan[worker].refs \cap DOMAIN plan
        BY WantedRefs
      <3> QED BY <2>7, <3>1
    <2>10. DatabaseOf(Wanted(worker)) = [given |-> Wanted(worker).data.database,
                                         own   |-> Wanted(worker).refs]
      BY <2>9 DEF DatabaseOf
    <2>11. /\ Wanted(worker).data = plan[worker].data /\ Wanted(schema).key = plan[schema].key
           /\ plan[worker].data.database = ArgsOf(program).d1DatabaseId
           /\ plan[schema].key = [sql      |-> ArgsOf(program).d1Schema,
                                  database |-> ArgsOf(program).d1DatabaseId]
      BY <2>2, MonitorGoalIs DEF Wanted
    <2>12. (DatabaseOf(Now(worker)))' = DatabaseOf(Wanted(worker))
      BY <2>6 DEF DatabaseOf
    <2>13. Exists(schema)
      BY <2>5 DEF Recorded, Exists, EngineInv, LiveInv, Names
    <2>14. Now(schema).key.sql = ArgsOf(program).d1Schema
      BY <2>5, <2>11
    <2>15. Now(schema).key.database = Wanted(worker).data.database
      BY <2>5, <2>11
    <2> QED BY <2>5, <2>8, <2>10, <2>12, <2>13, <2>14, <2>15
  <1> QED BY <1>3, <1>4, <1>5, NextChanges, MonitorAuto DEF Changes, DroppedFor, Dropped

-----------------------------------------------------------------------------
(* The plan of a proxy *)

\* Google's service account with its key and its right to connect, and the Secret
\* made from them.
Account == {<<"service-account">>, <<"cloudsql-client">>, <<"service-account-key">>}

\* What has a name that the component gives it, or that somebody gave.
GivenNames == {<<"ns">>, <<"deployment">>, <<"service">>,
               <<"service-account">>, <<"cloudsql-client">>, <<"credentials">>}

ProxyGoal(i, goal) ==
    /\ goal.auto \in BOOLEAN
    /\ i \in {<<"ns">>, <<"deployment">>, <<"service">>} => goal.auto = FALSE /\ goal.key = "same"
    /\ goal.auto = FALSE => i \in GivenNames
    /\ i \in GivenNames => goal.auto = FALSE
    /\ i \notin Account \cup {<<"credentials">>} => goal.refs \cap Account = {}

LEMMA NamesDiffer ==
    /\ \A x, y : <<x>> = <<y>> => x = y
    /\ \A x, y, z : <<x, y>> # <<z>>
  OBVIOUS

LEMMA SidecarHas ==
    ASSUME NEW credentials, NEW i, NEW goal, Has(SidecarGoals(credentials, <<"ns">>), i, goal)
    PROVE  ProxyGoal(i, goal)
  <1>1. CASE Has(InlineKeyGoals(credentials, <<"ns">>), i, goal)
    <2>1. i = <<"credentials">> /\ goal = Named(credentials.value, {<<"ns">>}, {})
      BY <1>1, NewHas DEF InlineKeyGoals
    <2>2. goal.auto = FALSE
      BY <2>1 DEF Named, Goal
    <2> QED BY <2>1, <2>2, NamesDiffer DEF ProxyGoal, GivenNames, Account
  <1>2. CASE Has(ManagedKeyGoals(credentials, <<"ns">>), i, goal)
    <2> DEFINE account == Named(credentials.value, {}, {})
               right   == Named(credentials.value, {<<"service-account">>}, {})
               key     == AutoNamed("key", {<<"service-account">>}, {<<"cloudsql-client">>})
               secret  == Named(credentials.value, {<<"ns">>, <<"service-account-key">>},
                                {<<"cloudsql-client">>})
               a == New(<<"service-account">>, account)
               b == New(<<"cloudsql-client">>, right)
               c == New(<<"service-account-key">>, key)
               d == New(<<"credentials">>, secret)
    <2>1. Has(AllGoals(<<a, b, c, d>>), i, goal)
      BY <1>2 DEF ManagedKeyGoals
    <2>2. Has(a, i, goal) \/ Has(b, i, goal) \/ Has(c, i, goal) \/ Has(d, i, goal)
      <3> HIDE DEF a, b, c, d
      <3> QED BY <2>1, FourHave
    <2>3. \/ i = <<"service-account">> /\ goal = account
          \/ i = <<"cloudsql-client">> /\ goal = right
          \/ i = <<"service-account-key">> /\ goal = key
          \/ i = <<"credentials">> /\ goal = secret
      BY <2>2, NewHas
    <2>4. /\ account.auto = FALSE /\ right.auto = FALSE /\ secret.auto = FALSE /\ key.auto = TRUE
      BY DEF Named, AutoNamed, Goal
    <2> HIDE DEF account, right, key, secret
    <2> QED BY <2>3, <2>4, NamesDiffer DEF ProxyGoal, GivenNames, Account
  <1>3. CASE Has(NoGoals, i, goal)
    BY <1>3 DEF Has, NoGoals
  <1>4. \/ SidecarGoals(credentials, <<"ns">>) = InlineKeyGoals(credentials, <<"ns">>)
        \/ SidecarGoals(credentials, <<"ns">>) = ManagedKeyGoals(credentials, <<"ns">>)
        \/ SidecarGoals(credentials, <<"ns">>) = NoGoals
    BY DEF SidecarGoals
  <1> QED BY <1>1, <1>2, <1>3, <1>4

LEMMA EightHave ==
    ASSUME NEW a, NEW b, NEW c, NEW d, NEW e, NEW f, NEW g, NEW h
    PROVE  /\ DOMAIN f \cup DOMAIN g \subseteq DOMAIN AllGoals(<<a, b, c, d, e, f, g, h>>)
           /\ DOMAIN c \cup DOMAIN e \subseteq DOMAIN AllGoals(<<a, b, c, d, e, f, g, h>>)
           /\ \A n, goal : Has(AllGoals(<<a, b, c, d, e, f, g, h>>), n, goal)
                 => \/ Has(a, n, goal) \/ Has(b, n, goal) \/ Has(c, n, goal) \/ Has(d, n, goal)
                    \/ Has(e, n, goal) \/ Has(f, n, goal) \/ Has(g, n, goal) \/ Has(h, n, goal)
  <1> DEFINE all == <<a, b, c, d, e, f, g, h>>
  <1>1. /\ DOMAIN all = {1, 2, 3, 4, 5, 6, 7, 8}
        /\ all[1] = a /\ all[2] = b /\ all[3] = c /\ all[4] = d
        /\ all[5] = e /\ all[6] = f /\ all[7] = g /\ all[8] = h
    OBVIOUS
  <1> HIDE DEF all
  <1>2. /\ DOMAIN f \cup DOMAIN g \subseteq UNION {DOMAIN all[k] : k \in DOMAIN all}
        /\ DOMAIN c \cup DOMAIN e \subseteq UNION {DOMAIN all[k] : k \in DOMAIN all}
    BY <1>1
  <1>3. ASSUME NEW n, NEW goal, Has(AllGoals(all), n, goal)
        PROVE  \/ Has(a, n, goal) \/ Has(b, n, goal) \/ Has(c, n, goal) \/ Has(d, n, goal)
               \/ Has(e, n, goal) \/ Has(f, n, goal) \/ Has(g, n, goal) \/ Has(h, n, goal)
    <2>1. PICK k \in DOMAIN all : Has(all[k], n, goal)
      BY <1>3, AllGoalsHave
    <2> QED BY <1>1, <2>1
  <1>4. DOMAIN AllGoals(all) = UNION {DOMAIN all[k] : k \in DOMAIN all}
    BY AllGoalsHave
  <1> QED BY <1>2, <1>3, <1>4 DEF all

LEMMA ProxyHas ==
    ASSUME NEW args, NEW i, NEW goal, Has(LiteLLMPlan(args), i, goal)
    PROVE  ProxyGoal(i, goal)
  <1> DEFINE a == When(args.createNamespace, New(<<"ns">>, InPlace("namespace", {}, {})))
             b == When(args.cloudSql # Unset,
                       SidecarGoals(ResolveLiteLLMCloudSqlCredentials(args.cloudSql), <<"ns">>))
             c == New(<<"providers">>, ProviderSecret(args))
             d == New(<<"master-key">>, AutoNamed("password", {}, {}))
             e == New(<<"runtime">>, RuntimeSecret(args))
             f == New(<<"config">>, ConfigMap(args))
             g == New(<<"deployment">>, Deployment(args))
             h == New(<<"service">>, InPlace("service", {<<"ns">>}, {}))
  <1>1. Has(AllGoals(<<a, b, c, d, e, f, g, h>>), i, goal)
    BY DEF LiteLLMPlan
  <1>2. \/ Has(a, i, goal) \/ Has(b, i, goal) \/ Has(c, i, goal) \/ Has(d, i, goal)
        \/ Has(e, i, goal) \/ Has(f, i, goal) \/ Has(g, i, goal) \/ Has(h, i, goal)
    <2> HIDE DEF a, b, c, d, e, f, g, h
    <2> QED BY <1>1, EightHave
  <1>3. CASE Has(a, i, goal)
    <2>1. i = <<"ns">> /\ goal = InPlace("namespace", {}, {})
      BY <1>3, WhenHas, NewHas
    <2>2. goal.auto = FALSE /\ goal.key = "same" /\ goal.refs = {}
      BY <2>1 DEF InPlace, Goal
    <2> QED BY <2>1, <2>2, NamesDiffer DEF ProxyGoal, GivenNames, Account
  <1>4. CASE Has(b, i, goal)
    BY <1>4, WhenHas, SidecarHas
  <1>5. CASE Has(c, i, goal)
    <2>1. i = <<"providers">> /\ goal = ProviderSecret(args)
      BY <1>5, NewHas
    <2>2. goal.auto = TRUE /\ goal.refs = {<<"ns">>}
      BY <2>1 DEF ProviderSecret, AutoNamed, Goal
    <2> QED BY <2>1, <2>2, NamesDiffer DEF ProxyGoal, GivenNames, Account
  <1>6. CASE Has(d, i, goal)
    <2>1. i = <<"master-key">> /\ goal = AutoNamed("password", {}, {})
      BY <1>6, NewHas
    <2>2. goal.auto = TRUE /\ goal.refs = {}
      BY <2>1 DEF AutoNamed, Goal
    <2> QED BY <2>1, <2>2, NamesDiffer DEF ProxyGoal, GivenNames, Account
  <1>7. CASE Has(e, i, goal)
    <2>1. i = <<"runtime">> /\ goal = RuntimeSecret(args)
      BY <1>7, NewHas
    <2>2. goal.auto = TRUE /\ goal.refs \subseteq {<<"ns">>, <<"master-key">>}
      BY <2>1 DEF RuntimeSecret, AutoNamed, Goal
    <2> QED BY <2>1, <2>2, NamesDiffer DEF ProxyGoal, GivenNames, Account
  <1>8. CASE Has(f, i, goal)
    <2>1. i = <<"config">> /\ goal = ConfigMap(args)
      BY <1>8, NewHas
    <2>2. goal.auto = TRUE /\ goal.refs = {<<"ns">>}
      BY <2>1 DEF ConfigMap, Throwing, AutoNamed, Goal
    <2> QED BY <2>1, <2>2, NamesDiffer DEF ProxyGoal, GivenNames, Account
  <1>9. CASE Has(g, i, goal)
    <2>1. i = <<"deployment">> /\ goal = Deployment(args)
      BY <1>9, NewHas
    <2>2. goal.auto = FALSE /\ goal.key = "same" /\ goal.refs = {<<"ns">>} \cup SecretRefs(args)
      BY <2>1 DEF Deployment, Throwing, InPlace, Goal
    <2>3. SecretRefs(args) \subseteq {<<"providers">>, <<"runtime">>, <<"config">>, <<"credentials">>}
      BY DEF SecretRefs, CredentialRefs
    <2>4. {<<"ns">>, <<"providers">>, <<"runtime">>, <<"config">>, <<"credentials">>} \cap Account = {}
      BY NamesDiffer DEF Account
    <2>5. goal.refs \cap Account = {}
      BY <2>2, <2>3, <2>4
    <2> QED BY <2>1, <2>2, <2>5, NamesDiffer DEF ProxyGoal, GivenNames
  <1>10. CASE Has(h, i, goal)
    <2>1. i = <<"service">> /\ goal = InPlace("service", {<<"ns">>}, {})
      BY <1>10, NewHas
    <2>2. goal.auto = FALSE /\ goal.key = "same" /\ goal.refs = {<<"ns">>}
      BY <2>1 DEF InPlace, Goal
    <2> QED BY <2>1, <2>2, NamesDiffer DEF ProxyGoal, GivenNames, Account
  <1> QED BY <1>2, <1>3, <1>4, <1>5, <1>6, <1>7, <1>8, <1>9, <1>10

\* The OnePasswordItems of the references have names of two parts.
LEMMA ReferenceHas ==
    ASSUME NEW calls, NEW i, NEW goal, Has(R!SecretRefGoals(calls), i, goal)
    PROVE  /\ goal.auto = TRUE /\ goal.refs = {}
           /\ \E x, y : i = <<x, y>>
  <1> DEFINE all == [c \in DOMAIN calls |-> R!ItemGoals(calls[c])]
  <1>1. R!SecretRefGoals(calls) = AllGoals(all)
    BY SameWriting DEF R!SecretRefGoals
  <1>2. PICK c \in DOMAIN all : Has(all[c], i, goal)
    BY <1>1, AllGoalsHave
  <1>3. PICK call : Has(R!ItemGoals(call), i, goal)
    BY <1>2
  <1>4. PICK item \in R!Referring(call) : i = <<call.configKey, item.key>>
    BY <1>3 DEF Has, R!ItemGoals
  <1>5. PICK key, data : goal = Goal(key, data, TRUE, {}, {})
    BY <1>3, SameWriting DEF Has, R!ItemGoals
  <1> QED BY <1>4, <1>5 DEF Goal

LEMMA ProxyPlans ==
    ASSUME NEW q \in DOMAIN Plans, q[1] = "litellm", NEW i \in DOMAIN Plans[q]
    PROVE  ProxyGoal(i, Plans[q][i])
  <1>1. PICK own, refs : /\ own = LiteLLMPlan(ProxyArgs(ArgsOf(q)))
                         /\ refs = R!SecretRefGoals(ArgsOf(q).opCalls)
                         /\ Plans[q] = AllGoals(<<own, refs>>)
    BY PlansAre
  <1>2. Has(AllGoals(<<own, refs>>), i, Plans[q][i])
    BY <1>1 DEF Has
  <1>3. Has(own, i, Plans[q][i]) \/ Has(refs, i, Plans[q][i])
    BY <1>2, TwoHave
  <1>4. CASE Has(refs, i, Plans[q][i])
    <2>1. /\ Plans[q][i].auto = TRUE /\ Plans[q][i].refs = {}
          /\ \E x, y : i = <<x, y>>
      <3>1. PICK calls, goal : Has(R!SecretRefGoals(calls), i, goal) /\ goal = Plans[q][i]
        BY <1>1, <1>4
      <3>2. goal.auto = TRUE /\ goal.refs = {} /\ \E x, y : i = <<x, y>>
        BY <3>1, ReferenceHas
      <3> QED BY <3>1, <3>2
    <2> QED BY <2>1, NamesDiffer DEF ProxyGoal, GivenNames
  <1> QED BY <1>1, <1>3, <1>4, ProxyHas

LEMMA ProxyDeployment ==
    ASSUME NEW q \in DOMAIN Plans, q[1] = "litellm"
    PROVE  <<"deployment">> \in DOMAIN Plans[q]
  <1>1. PICK args, own, refs : /\ args = ProxyArgs(ArgsOf(q)) /\ own = LiteLLMPlan(args)
                               /\ Plans[q] = AllGoals(<<own, refs>>)
    BY PlansAre
  <1> DEFINE a == When(args.createNamespace, New(<<"ns">>, InPlace("namespace", {}, {})))
             b == When(args.cloudSql # Unset,
                       SidecarGoals(ResolveLiteLLMCloudSqlCredentials(args.cloudSql), <<"ns">>))
             c == New(<<"providers">>, ProviderSecret(args))
             d == New(<<"master-key">>, AutoNamed("password", {}, {}))
             e == New(<<"runtime">>, RuntimeSecret(args))
             f == New(<<"config">>, ConfigMap(args))
             g == New(<<"deployment">>, Deployment(args))
             h == New(<<"service">>, InPlace("service", {<<"ns">>}, {}))
  <1>2. LiteLLMPlan(args) = AllGoals(<<a, b, c, d, e, f, g, h>>)
    BY DEF LiteLLMPlan
  <1>3. DOMAIN g = {<<"deployment">>}
    BY NewDomain
  <1> HIDE DEF a, b, c, d, e, f, g, h
  <1>4. DOMAIN g \subseteq DOMAIN AllGoals(<<a, b, c, d, e, f, g, h>>)
    BY EightHave
  <1>5. <<"deployment">> \in DOMAIN own
    BY <1>1, <1>2, <1>3, <1>4
  <1>6. DOMAIN AllGoals(<<own, refs>>) = DOMAIN own \cup DOMAIN refs
    BY TwoHave
  <1> QED BY <1>1, <1>5, <1>6

LEMMA ProxyAuto ==
    ASSUME program[1] = "litellm"
    PROVE  /\ \A q : OfFamily(q) => \A i \in DOMAIN Plans[q] : Plans[q][i].auto \in BOOLEAN
           /\ Fixed(<<"deployment">>)
  BY ProxyPlans DEF ProxyGoal, Fixed, OfFamily

LEMMA RolledStep ==
    ASSUME EngineInv, [Next]_vars, program[1] = "litellm",
           Exists(<<"deployment">>), ~Exists(<<"credentials">>)
    PROVE  (Exists(<<"deployment">>))'
  <1> DEFINE pods == <<"deployment">>
  <1>1. /\ pods \in Names /\ Recorded(pods) /\ current[pods] = 1 /\ DOMAIN live[pods] = {1}
        /\ <<"credentials">> \notin Names
    BY ProxyAuto DEF Exists, EngineInv, FixedInv, Names
  <1>2. SUFFICES ASSUME pods \notin DOMAIN live' PROVE FALSE
    BY DEF Exists
  <1>3. OfFamily(program) /\ plan = Plans[program] /\ Changes
    BY <1>1, <1>2, NextChanges, ProxyAuto DEF Names
  <1>4. ASSUME NEW k \in DOMAIN plan, NEW g, Applied(k, g) PROVE FALSE
    BY <1>1, <1>2, <1>4 DEF Applied, PutAt
  <1>5. ASSUME NEW k \in DOMAIN plan, NEW j \in Names, NEW g \in DOMAIN live[j], DroppedFor(k, j, g)
        PROVE  FALSE
    <2>1. j = pods
      BY <1>1, <1>2, <1>5 DEF DroppedFor, DroppedAt
    <2>2. k \in Names /\ current[k] \in DOMAIN live[k] /\ Now(k).key # plan[k].key /\ plan[k].auto = FALSE
      BY <1>5 DEF DroppedFor, EngineInv, LiveInv, Recorded
    <2>3. ProxyGoal(k, plan[k])
      BY <1>3, ProxyPlans DEF OfFamily
    <2>4. PICK q : MadeFrom(k, Now(k), q)
      BY <2>2 DEF EngineInv, MadeInv, Made, Now
    <2>5. ProxyGoal(k, Plans[q][k]) /\ Plans[q][k].key = Now(k).key
      BY <2>4, ProxyPlans DEF MadeFrom, OfFamily
    <2>6. k \in Account
      BY <1>1, <2>2, <2>3, <2>5 DEF ProxyGoal, GivenNames, Account
    <2>7. ASSUME NEW p, OfFamily(p), NEW n \in DOMAIN Plans[p], n \in Names \ Account
          PROVE  Plans[p][n].refs \cap Account = {}
      <3>1. n # <<"credentials">>
        BY <1>1, <2>7
      <3> QED BY <2>7, <3>1, ProxyPlans DEF ProxyGoal, OfFamily
    <2>8. j \in Account
      BY <1>5, <2>6, <2>7, UpwardWithin DEF DroppedFor, EngineInv
    <2> QED BY <2>1, <2>8, NamesDiffer DEF Account
  <1>6. ASSUME NEW j \in Names, NEW g \in DOMAIN live[j], Dropped(j, g) PROVE FALSE
    <2>1. j = pods /\ g = 1
      BY <1>1, <1>2, <1>6 DEF Dropped, DroppedAt
    <2>2. pods \in DOMAIN plan
      BY <1>3, ProxyDeployment DEF OfFamily
    <2> QED BY <1>1, <1>6, <2>1, <2>2 DEF Dropped
  <1> QED BY <1>3, <1>4, <1>5, <1>6 DEF Changes

-----------------------------------------------------------------------------
(* A run that gets through *)

LEMMA DoneIsSynced ==
    ASSUME EngineInv, phase = "done"
    PROVE  OfFamily(program) /\ plan = Plans[program] /\ Synced
  <1>1. OfFamily(program) /\ plan = Plans[program] /\ Correct(DOMAIN plan) /\ Leftover = {}
    BY SweptCorrect DEF EngineInv, PlanInv, DoneInv
  <1>2. ASSUME NEW i \in Names, NEW g \in DOMAIN live[i] PROVE i \in DOMAIN plan /\ g = current[i]
    <2>1. <<i, g>> \in Objects
      BY ObjectsAre
    <2> QED BY <1>1, <2>1 DEF Leftover
  <1>3. ASSUME NEW i \in Names
        PROVE  i \in DOMAIN plan /\ DOMAIN live[i] = {current[i]} /\ Now(i) = Wanted(i)
    BY <1>1, <1>2 DEF EngineInv, LiveInv, Correct
  <1>4. DOMAIN plan \subseteq Names
    BY <1>1 DEF EngineInv, LiveInv, Correct, Recorded
  <1> QED BY <1>1, <1>3, <1>4 DEF Synced

LEMMA PolicyConnects ==
    ASSUME NEW args, NEW policy, policy = T!NamespacePolicy(args)
    PROVE  IF ~policy.deny THEN ~policy.l7
           ELSE /\ T!AllowDns \subseteq policy.egress
                /\ T!TenantNamespaces(args) \subseteq policy.peers \cap policy.ingress
                /\ \A s \in T!ResolveConsumes(args) : T!AllowPlatformService(s) \subseteq policy.egress
  <1>1. /\ policy.deny = (args.networkPolicy = "enforce") /\ policy.l7 = (args.networkPolicy = "enforce")
        /\ policy.ingress = T!TenantPeerEndpoints(args) /\ policy.peers = T!TenantPeerEndpoints(args)
        /\ policy.egress = T!AllowDns \cup UNION {T!AllowPlatformService(s) : s \in T!ResolveConsumes(args)}
    BY DEF T!NamespacePolicy
  <1>2. T!TenantNamespaces(args) \subseteq T!TenantPeerEndpoints(args)
    BY DEF T!TenantPeerEndpoints
  <1> QED BY <1>1, <1>2

LEMMA ConnectedWhenDone == EngineInv => Connected
  <1> SUFFICES ASSUME EngineInv, program[1] = "tenant", phase = "done",
                      NEW ns \in T!TenantNamespaces(ArgsOf(program)), Exists(<<"netpol", ns>>),
                      NEW policy, policy = Now(<<"netpol", ns>>).data
               PROVE  IF ~policy.deny THEN ~policy.l7
                      ELSE /\ T!AllowDns \subseteq policy.egress
                           /\ T!TenantNamespaces(ArgsOf(program)) \subseteq policy.peers \cap policy.ingress
                           /\ \A s \in T!ResolveConsumes(ArgsOf(program)) :
                                 T!AllowPlatformService(s) \subseteq policy.egress
    BY DEF Connected, Deploying
  <1> DEFINE i == <<"netpol", ns>>
  <1>1. OfFamily(program) /\ plan = Plans[program] /\ i \in DOMAIN plan /\ Now(i) = Wanted(i)
    BY DoneIsSynced DEF Synced, Exists, Names
  <1>2. Wanted(i).data = T!NamespacePolicy(ArgsOf(program))
    BY <1>1, TenantPlans DEF Wanted, OfFamily
  <1> QED BY <1>1, <1>2, PolicyConnects

\* The two lists of a gate name nothing twice.
PatternsOnce(args) ==
    \A p, k \in DOMAIN args.paths : args.paths[p].pattern = args.paths[k].pattern => p = k

LEMMA GateIncludes ==
    ASSUME NEW args, S!AccessGateAccepts(args), NEW p \in DOMAIN args.paths,
           args.paths[p].access \in {"bypass", "public", "github-org"},
           Unset # "idp"
    PROVE  LET includes == S!PolicyIncludes(args, args.paths[p])
           IN  IF args.paths[p].access = "github-org"
               THEN /\ {i.organization : i \in includes} = args.githubOrganizations
                    /\ \A i \in includes : i.provider # Unset
               ELSE includes = {S!Everyone}
  <1> DEFINE includes == S!PolicyIncludes(args, args.paths[p])
             provider == IF args.githubOAuthConfig # Unset THEN "idp" ELSE args.githubIdentityProviderId
  <1>1. CASE args.paths[p].access = "github-org"
    <2>1. includes = {[organization |-> o, provider |-> provider] : o \in args.githubOrganizations}
      BY <1>1 DEF S!PolicyIncludes
    <2>2. S!NeedsGithub(args)
      <3>1. args.paths[p] \in S!ToSet(args.paths)
        BY DEF S!ToSet
      <3> QED BY <1>1, <3>1 DEF S!NeedsGithub
    <2>3. provider # Unset
      BY <2>2 DEF S!AccessGateAccepts
    <2> HIDE DEF includes, provider
    <2>4. ASSUME NEW o \in args.githubOrganizations PROVE o \in {i.organization : i \in includes}
      <3>1. [organization |-> o, provider |-> provider] \in includes
        BY <2>1
      <3>2. [organization |-> o, provider |-> provider].organization = o
        OBVIOUS
      <3> QED BY <3>1, <3>2
    <2>5. ASSUME NEW i \in includes
          PROVE  i.organization \in args.githubOrganizations /\ i.provider # Unset
      BY <2>1, <2>3
    <2>6. {i.organization : i \in includes} = args.githubOrganizations
      BY <2>4, <2>5
    <2> QED BY <1>1, <2>5, <2>6 DEF includes
  <1>2. CASE args.paths[p].access # "github-org"
    BY <1>2 DEF S!PolicyIncludes
  <1> QED BY <1>1, <1>2

LEMMA DecisionIs ==
    /\ S!Decision["bypass"] = "bypass"
    /\ S!Decision["public"] = "allow"
    /\ S!Decision["github-org"] = "allow"
  BY DEF S!Decision

\* An application lets through whom the path is for.
LEMMA AdmitsIs ==
    ASSUME NEW args, S!AccessGateAccepts(args), NEW p \in DOMAIN args.paths,
           args.paths[p].access \in {"bypass", "public", "github-org"}, Unset # "idp",
           NEW app, app.includes = S!PolicyIncludes(args, args.paths[p]),
           app.decision = S!Decision[args.paths[p].access]
    PROVE  /\ Admits(app) = MeantFor(args, args.paths[p])
           /\ args.paths[p].access = "github-org" => \A i \in app.includes : i.provider # Unset
  <1>1. PICK path : path = args.paths[p]
    OBVIOUS
  <1>2. PICK access : access = path.access
    OBVIOUS
  <1>3. CASE access = "github-org"
    <2>1. app.decision = "allow"
      BY <1>1, <1>2, <1>3, DecisionIs
    <2>2. /\ {i.organization : i \in app.includes} = args.githubOrganizations
          /\ \A i \in app.includes : i.provider # Unset
      BY <1>1, <1>2, <1>3, GateIncludes
    <2> QED BY <1>1, <1>2, <1>3, <2>1, <2>2 DEF Admits, MeantFor
  <1>4. CASE access = "public"
    <2>1. app.decision = "allow" /\ app.includes = {S!Everyone}
      BY <1>1, <1>2, <1>4, DecisionIs DEF S!PolicyIncludes
    <2>2. {i.organization : i \in app.includes} = {"everyone"}
      BY <2>1 DEF S!Everyone
    <2> QED BY <1>1, <1>2, <1>4, <2>1, <2>2 DEF Admits, MeantFor
  <1>5. CASE access = "bypass"
    BY <1>1, <1>2, <1>5, DecisionIs DEF Admits, MeantFor
  <1> QED BY <1>1, <1>2, <1>3, <1>4, <1>5

LEMMA GatedPlan ==
    ASSUME NEW args, S!WorkerSiteAccepts(args), PatternsOnce(args),
           NEW d \in DOMAIN args.domains, NEW p \in DOMAIN args.paths,
           NEW k \in DOMAIN args.domains, NEW m \in DOMAIN args.paths,
           args.domains[k] = args.domains[d],
           args.paths[m].pattern = args.paths[p].pattern,
           args.paths # <<>>
    PROVE  k = d /\ m = p /\ S!AccessGateAccepts(args)
  <1>1. S!AccessGateAccepts(args)
    BY DEF S!WorkerSiteAccepts
  <1> QED BY <1>1 DEF S!AccessGateAccepts, S!DistinctItems, PatternsOnce

LEMMA AppGoalIs ==
    ASSUME NEW args, NEW d, NEW p
    PROVE  /\ S!AppGoal(args, d, p).data.domain = args.domains[d]
           /\ S!AppGoal(args, d, p).data.pattern = args.paths[p].pattern
           /\ S!AppGoal(args, d, p).data.includes = S!PolicyIncludes(args, args.paths[p])
           /\ S!AppGoal(args, d, p).data.decision = S!Decision[args.paths[p].access]
  <1> DEFINE data == [domain |-> args.domains[d], pattern |-> args.paths[p].pattern,
                      decision |-> S!Decision[args.paths[p].access],
                      includes |-> S!PolicyIncludes(args, args.paths[p])]
  <1>1. PICK refs : S!AppGoal(args, d, p) = InPlace(data, refs, {})
    BY SameWriting DEF S!AppGoal
  <1>2. S!AppGoal(args, d, p).data = data
    BY <1>1 DEF InPlace, Goal
  <1> QED BY <1>2

LEMMA FirstOfFour ==
    ASSUME NEW a, NEW b, NEW c, NEW d, NEW n \in DOMAIN a
    PROVE  n \in DOMAIN AllGoals(<<a, b, c, d>>)
  <1>1. PICK all : all = <<a, b, c, d>>
    OBVIOUS
  <1>2. DOMAIN AllGoals(all) = UNION {DOMAIN all[k] : k \in DOMAIN all}
    BY AllGoalsHave
  <1>3. 1 \in DOMAIN all /\ all[1] = a
    BY <1>1
  <1> QED BY <1>1, <1>2, <1>3

LEMMA SiteApps ==
    ASSUME NEW args, NEW k \in DOMAIN args.domains, NEW p \in DOMAIN args.paths
    PROVE  S!AppName(k, p) \in DOMAIN S!SitePlanOf(args)
  <1> DEFINE idp    == When(args.githubOAuthConfig # Unset,
                            New(<<"idp">>, InPlace(args.githubOAuthConfig, {}, {})))
             gate   == When(args.paths # <<>>, S!AccessGateGoals(args))
             bucket == S!BucketGoal(args)
             worker == S!WorkerGoal(args)
             routes == S!DomainGoals(args)
             site   == S!WorkerSiteGoals(args)
             rest   == When(args.r2Bucket # Unset /\ args.files # <<>>,
                            AllGoals(<<S!UploadAssets(args), S!PurgeZoneCache(args)>>))
  <1>1. S!AccessGateGoals(args) = AllGoals(<<idp, AppsOf(args)>>)
    BY SameWriting DEF S!AccessGateGoals, AppsOf
  <1>2. site = AllGoals(<<gate, bucket, worker, routes>>)
    BY SameWriting DEF S!WorkerSiteGoals
  <1>3. S!SitePlanOf(args) = AllGoals(<<site, rest>>)
    BY SameWriting DEF S!SitePlanOf
  <1>4. gate = S!AccessGateGoals(args)
    <2>1. args.paths # <<>>
      OBVIOUS
    <2> QED BY <2>1 DEF When
  <1>5. S!AppName(k, p) \in DOMAIN AppsOf(args)
    BY AppsHave
  <1> HIDE DEF idp, gate, bucket, worker, routes, site, rest
  <1>6. DOMAIN AllGoals(<<idp, AppsOf(args)>>) = DOMAIN idp \cup DOMAIN AppsOf(args)
    BY TwoHave
  <1>8. DOMAIN AllGoals(<<site, rest>>) = DOMAIN site \cup DOMAIN rest
    BY TwoHave
  <1>9. S!AppName(k, p) \in DOMAIN gate
    BY <1>1, <1>4, <1>5, <1>6
  <1>10. S!AppName(k, p) \in DOMAIN site
    BY <1>2, <1>9, FirstOfFour
  <1> QED BY <1>3, <1>8, <1>10

\* What Gated asks of a domain and a path.
OneApp(args, x, path) ==
    LET apps == {o \in Objects : /\ o[1][1] = "app"
                                 /\ Object(o).data.domain = x
                                 /\ Object(o).data.pattern = path.pattern}
    IN  /\ Cardinality(apps) = 1
        /\ \A o \in apps :
              /\ Admits(Object(o).data) = MeantFor(args, path)
              /\ path.access = "github-org" =>
                    \A i \in Object(o).data.includes : i.provider # Unset

\* No list of paths names a pattern twice: AccessGate makes an application for
\* each entry, and does not look for one it has made before.
PatternsAreListedOnce ==
    \A p \in {q \in ProgramsOfAll : q[1] = "site"} : PatternsOnce(ArgsOf(p))

LEMMA GatedWhenDone ==
    ASSUME PatternsAreListedOnce
    PROVE  EngineInv => Gated
  <1> SUFFICES ASSUME EngineInv, program[1] = "site", phase = "done",
                      NEW x \in ToSet(ArgsOf(program).domains),
                      NEW path \in ToSet(ArgsOf(program).paths)
               PROVE  OneApp(ArgsOf(program), x, path)
    BY DEF Gated, Deploying, OneApp
  <1>0. PICK args : args = ArgsOf(program)
    OBVIOUS
  <1> DEFINE apps == {o \in Objects : /\ o[1][1] = "app"
                                      /\ Object(o).data.domain = x
                                      /\ Object(o).data.pattern = path.pattern}
  <1>1. PICK d \in DOMAIN args.domains : args.domains[d] = x
    BY <1>0 DEF ToSet
  <1>2. PICK p \in DOMAIN args.paths : args.paths[p] = path
    BY <1>0 DEF ToSet
  <1>3. OfFamily(program) /\ plan = Plans[program] /\ Synced
    BY DoneIsSynced
  <1>4. S!WorkerSiteAccepts(args) /\ plan = S!SitePlanOf(args)
    BY <1>0, <1>3, PlansAre DEF OfFamily
  <1> DEFINE n == S!AppName(d, p)
             a == <<n, current[n]>>
  <1>5. n \in DOMAIN plan /\ n[1] = "app"
    BY <1>4, SiteApps DEF S!AppName
  <1>6. a \in Objects /\ Object(a) = Wanted(n)
    <2>1. n \in Names /\ DOMAIN live[n] = {current[n]} /\ Now(n) = Wanted(n)
      BY <1>3, <1>5 DEF Synced
    <2> HIDE DEF n
    <2> QED BY <2>1, ObjectsAre DEF Object, Now
  <1>7. ASSUME NEW i \in DOMAIN plan, i[1] = "app"
        PROVE  \E k \in DOMAIN args.domains : \E m \in DOMAIN args.paths :
                  i = S!AppName(k, m) /\ plan[i] = S!AppGoal(args, k, m)
    BY <1>0, <1>3, <1>7, SitePlans DEF OfFamily
  <1>8. args.paths # <<>>
    BY <1>2
  <1>9. PatternsOnce(args) /\ path.access \in {"bypass", "public", "github-org"}
    <2>1. program \in {q \in ProgramsOfAll : q[1] = "site"}
      BY <1>3, TablesAssumption DEF OfFamily, PlansOfAll
    <2> QED BY <1>0, <2>1, AccessAssumption DEF PatternsAreListedOnce
  <1>10. S!AccessGateAccepts(args)
    BY <1>4, <1>8 DEF S!WorkerSiteAccepts
  <1>11. plan[n] = S!AppGoal(args, d, p)
    <2>1. PICK k \in DOMAIN args.domains, m \in DOMAIN args.paths :
             n = S!AppName(k, m) /\ plan[n] = S!AppGoal(args, k, m)
      BY <1>5, <1>7
    <2>2. k = d /\ m = p
      BY <2>1 DEF S!AppName
    <2> QED BY <2>1, <2>2
  <1>12. Object(a).data = S!AppGoal(args, d, p).data
    BY <1>6, <1>11 DEF Wanted
  <1>13. a \in apps
    <2>1. a[1] = n
      OBVIOUS
    <2> HIDE DEF n, a
    <2> QED BY <1>1, <1>2, <1>5, <1>6, <1>12, <2>1, AppGoalIs
  <1>14. ASSUME NEW o \in apps PROVE o = a
    <2>1. PICK i \in Names : \E g \in DOMAIN live[i] : o = <<i, g>>
      BY ObjectsAre
    <2>2. PICK g \in DOMAIN live[i] : o = <<i, g>>
      BY <2>1
    <2>3. i \in DOMAIN plan /\ i[1] = "app" /\ g = current[i] /\ Object(o) = Wanted(i)
      BY <1>3, <2>2 DEF Synced, Object, Now
    <2>4. PICK k \in DOMAIN args.domains, m \in DOMAIN args.paths :
             i = S!AppName(k, m) /\ plan[i] = S!AppGoal(args, k, m)
      BY <1>7, <2>3
    <2>5. Object(o).data = S!AppGoal(args, k, m).data
      BY <2>3, <2>4 DEF Wanted
    <2>6. args.domains[k] = x /\ args.paths[m].pattern = path.pattern
      BY <2>5, AppGoalIs
    <2>7. k = d /\ m = p
      BY <1>1, <1>2, <1>4, <1>8, <1>9, <2>6, GatedPlan
    <2> QED BY <2>2, <2>3, <2>4, <2>7
  <1>15. apps = {a}
    BY <1>13, <1>14
  <1>16. Cardinality(apps) = 1
    BY <1>15, FS_Singleton
  <1>17. Object(a).data.includes = S!PolicyIncludes(args, args.paths[p])
    BY <1>12, AppGoalIs
  <1>18. Object(a).data.decision = S!Decision[path.access]
    BY <1>2, <1>12, AppGoalIs
  <1>19. /\ Admits(Object(a).data) = MeantFor(args, path)
         /\ path.access = "github-org" =>
               \A i \in Object(a).data.includes : i.provider # Unset
    <2> HIDE DEF a, apps
    <2>1. PICK app : app = Object(a).data
      OBVIOUS
    <2>2. app.includes = S!PolicyIncludes(args, path) /\ app.decision = S!Decision[path.access]
      BY <1>2, <1>17, <1>18, <2>1
    <2>3. path.access \in {"bypass", "public", "github-org"} /\ Unset # "idp"
      BY <1>9, AccessAssumption
    <2>4. /\ Admits(app) = MeantFor(args, args.paths[p])
          /\ args.paths[p].access = "github-org" => \A i \in app.includes : i.provider # Unset
      BY <1>2, <1>10, <2>2, <2>3, AdmitsIs
    <2> QED BY <1>2, <2>1, <2>4
  <1> HIDE DEF a, apps
  <1> QED BY <1>0, <1>14, <1>16, <1>19 DEF OneApp, apps

-----------------------------------------------------------------------------
(* What refers to what *)

\* A reference of something made from program q: it leads to an object with the
\* key q gives it.
Fits(r, q) ==
    /\ r = <<r[1], r[2]>> /\ r[1] \in Names /\ r[2] \in DOMAIN live[r[1]]
    /\ live[r[1]][r[2]].key = Plans[q][r[1]].key
    /\ ~Plans[q][r[1]].bad

Grown(i, o, q) ==
    /\ MadeFrom(i, o, q) /\ ~Plans[q][i].bad
    /\ \A r \in o.refs : Fits(r, q)

RefsInv == \A i \in Names : \A g \in DOMAIN live[i] : \E q : Grown(i, live[i][g], q)

FiniteInv == IsFiniteSet(Objects)

\* Every program of the component leaves the same names to Pulumi.
AutoIsFixed ==
    \A q, p : OfFamily(q) /\ OfFamily(p) =>
        \A i \in DOMAIN Plans[q] \cap DOMAIN Plans[p] : ~Plans[q][i].auto => ~Plans[p][i].auto

LEMMA RefsExist ==
    ASSUME RefsInv, NEW o \in Objects, NEW r \in Object(o).refs PROVE r \in Objects
  <1>1. PICK i \in Names : \E g \in DOMAIN live[i] : o = <<i, g>>
    BY ObjectsAre
  <1>2. PICK g \in DOMAIN live[i] : o = <<i, g>>
    BY <1>1
  <1>3. PICK q : Grown(i, live[i][g], q)
    BY DEF RefsInv
  <1>4. Fits(r, q)
    BY <1>2, <1>3 DEF Grown, Object
  <1> QED BY <1>4, ObjectsAre DEF Fits

LEMMA FreshIsNew ==
    ASSUME FiniteInv, RefsInv, NEW i, i \in Names => DOMAIN live[i] # {}
    PROVE  i \in Names => Fresh(i) \notin DOMAIN live[i]
  <1> DEFINE used == DOMAIN At(live, i)
                \cup {r[2] : r \in {s \in UNION {Object(o).refs : o \in Objects} : s[1] = i}}
             second == {o[2] : o \in Objects}
  <1> SUFFICES ASSUME i \in Names PROVE Fresh(i) \notin DOMAIN live[i]
    OBVIOUS
  <1>1. DOMAIN At(live, i) = DOMAIN live[i]
    BY DEF At, Names
  <1>2. used \subseteq second
    <2>1. ASSUME NEW g \in DOMAIN live[i] PROVE g \in second
      <3>1. <<i, g>> \in Objects
        BY ObjectsAre
      <3> QED BY <3>1
    <2>2. ASSUME NEW o \in Objects, NEW s \in Object(o).refs PROVE s[2] \in second
      BY RefsExist
    <2> QED BY <1>1, <2>1, <2>2
  <1>3. IsFiniteSet(second)
    <2> DEFINE f == [o \in Objects |-> o[2]]
    <2>1. f \in Surjection(Objects, second)
      BY DEF Surjection
    <2> QED BY <2>1, FS_Surjection DEF FiniteInv
  <1>4. IsFiniteSet(used) /\ Cardinality(used) \in Nat
    BY <1>2, <1>3, FS_Subset, FS_CardinalityType
  <1> DEFINE n == Cardinality(used)
  <1>5. \E g \in 1 .. n + 1 : g \notin used
    <2> HIDE DEF used
    <2> SUFFICES ASSUME 1 .. n + 1 \subseteq used PROVE FALSE
      OBVIOUS
    <2>1. Cardinality(1 .. n + 1) <= n
      BY <1>4, FS_Subset
    <2>2. Cardinality(1 .. n + 1) = n + 1
      BY <1>4, FS_Interval
    <2> QED BY <1>4, <2>1, <2>2
  <1>6. Fresh(i) = CHOOSE g \in 1 .. n + 1 : g \notin used
    BY DEF Fresh
  <1> HIDE DEF used, n
  <1>7. Fresh(i) \notin used
    BY <1>5, <1>6
  <1> QED BY <1>1, <1>7 DEF used

LEMMA PutFits ==
    ASSUME NEW i, NEW g, NEW o, PutAt(i, g, o), NEW r, NEW q, Fits(r, q),
           r = <<i, g>> => o.key = live[i][g].key
    PROVE  Fits(r, q)'
  <1>1. r[1] \in DOMAIN live' /\ r[2] \in DOMAIN live'[r[1]]
    BY DEF Fits, PutAt
  <1>2. live'[r[1]][r[2]].key = Plans[q][r[1]].key
    <2>1. CASE r[1] = i /\ r[2] = g
      BY <2>1 DEF Fits, PutAt
    <2>2. CASE r[1] = i /\ r[2] # g
      BY <1>1, <2>2 DEF Fits, PutAt
    <2>3. CASE r[1] # i
      BY <2>3 DEF Fits, PutAt
    <2> QED BY <2>1, <2>2, <2>3
  <1> QED BY <1>1, <1>2 DEF Fits, Names

LEMMA DropFits ==
    ASSUME NEW i \in Names, NEW g \in DOMAIN live[i], DroppedAt(i, g), NEW r, NEW q, Fits(r, q),
           r # <<i, g>>
    PROVE  Fits(r, q)'
  <1>1. r[1] \in DOMAIN live' /\ r[2] \in DOMAIN live'[r[1]]
    BY DEF Fits, DroppedAt
  <1>2. live'[r[1]][r[2]] = live[r[1]][r[2]]
    <2>1. CASE r[1] = i
      BY <1>1, <2>1 DEF DroppedAt
    <2>2. CASE r[1] # i
      BY <2>2 DEF Fits, DroppedAt
    <2> QED BY <2>1, <2>2
  <1> QED BY <1>1, <1>2 DEF Fits, Names

LEMMA GrownKept ==
    ASSUME [Next]_vars, NEW i, NEW o, NEW q, Grown(i, o, q), \A r \in o.refs : Fits(r, q)'
    PROVE  Grown(i, o, q)'
  <1>1. program'[1] = program[1]
    BY FamilyKept
  <1>2. MadeFrom(i, o, q)'
    BY <1>1 DEF Grown, MadeFrom, OfFamily
  <1> QED BY <1>2 DEF Grown

LEMMA PutRefs ==
    ASSUME RefsInv, [Next]_vars, NEW i, NEW g, NEW w, PutAt(i, g, w),
           i \in Names /\ g \in DOMAIN live[i] => live[i][g].key = w.key,
           NEW p, MadeFrom(i, w, p), ~Plans[p][i].bad, \A r \in w.refs : Fits(r, p)'
    PROVE  RefsInv'
  <1>1. ASSUME NEW k \in DOMAIN live', NEW h \in DOMAIN live'[k] PROVE \E q : Grown(k, live[k][h], q)'
    <2>0. PICK o : o = live'[k][h]
      OBVIOUS
    <2>1. CASE k = i /\ h = g
      <3>1. o = w
        BY <2>0, <2>1 DEF PutAt
      <3>2. program'[1] = program[1]
        BY FamilyKept
      <3>3. MadeFrom(k, w, p)'
        BY <2>1, <3>2 DEF MadeFrom, OfFamily
      <3> QED BY <2>0, <2>1, <3>1, <3>3 DEF Grown
    <2>2. CASE ~(k = i /\ h = g)
      <3>1. k \in Names /\ h \in DOMAIN live[k] /\ o = live[k][h]
        BY <1>1, <2>0, <2>2 DEF PutAt
      <3>2. PICK q : Grown(k, o, q)
        BY <3>1 DEF RefsInv
      <3>3. ASSUME NEW r \in o.refs PROVE Fits(r, q)'
        <4>1. Fits(r, q)
          BY <3>2 DEF Grown
        <4>2. r = <<i, g>> => w.key = live[i][g].key
          BY <4>1 DEF Fits
        <4> QED BY <4>1, <4>2, PutFits
      <3>4. Grown(k, o, q)'
        BY <3>2, <3>3, GrownKept
      <3> QED BY <2>0, <3>4
    <2> QED BY <2>1, <2>2
  <1> QED BY <1>1 DEF RefsInv, Names

LEMMA DropRefs ==
    ASSUME RefsInv, [Next]_vars, NEW i \in Names, NEW g \in DOMAIN live[i], DroppedAt(i, g),
           \A p \in Objects : p # <<i, g>> => <<i, g>> \notin Object(p).refs
    PROVE  RefsInv'
  <1>1. ASSUME NEW k \in DOMAIN live', NEW h \in DOMAIN live'[k] PROVE \E q : Grown(k, live[k][h], q)'
    <2>0. PICK o : o = live'[k][h]
      OBVIOUS
    <2>1. k \in Names /\ h \in DOMAIN live[k] /\ o = live[k][h] /\ <<k, h>> # <<i, g>>
      BY <1>1, <2>0 DEF DroppedAt
    <2>2. PICK q : Grown(k, o, q)
      BY <2>1 DEF RefsInv
    <2>3. <<k, h>> \in Objects /\ Object(<<k, h>>) = o
      BY <2>1, ObjectsAre DEF Object
    <2>4. ASSUME NEW r \in o.refs PROVE Fits(r, q)'
      <3>1. r # <<i, g>> /\ Fits(r, q)
        BY <2>1, <2>2, <2>3 DEF Grown
      <3> QED BY <3>1, DropFits
    <2>5. Grown(k, o, q)'
      BY <2>2, <2>4, GrownKept
    <2> QED BY <2>0, <2>5
  <1> QED BY <1>1 DEF RefsInv, Names

LEMMA PutFinite ==
    ASSUME FiniteInv, NEW i, NEW g, NEW w, PutAt(i, g, w) PROVE FiniteInv'
  <1>1. (Objects)' \subseteq Objects \cup {<<i, g>>}
    <2> SUFFICES ASSUME NEW o \in (Objects)' PROVE o \in Objects \cup {<<i, g>>}
      OBVIOUS
    <2>1. PICK k \in DOMAIN live' : \E h \in DOMAIN live'[k] : o = <<k, h>>
      BY ObjectsAre DEF Names
    <2>2. PICK h \in DOMAIN live'[k] : o = <<k, h>>
      BY <2>1
    <2>3. (k = i /\ h = g) \/ (k \in Names /\ h \in DOMAIN live[k])
      <3>1. CASE k = i
        BY <3>1 DEF PutAt
      <3>2. CASE k # i
        BY <3>2 DEF PutAt
      <3> QED BY <3>1, <3>2
    <2> QED BY <2>2, <2>3, ObjectsAre
  <1>2. IsFiniteSet(Objects \cup {<<i, g>>})
    BY FS_AddElement DEF FiniteInv
  <1> QED BY <1>1, <1>2, FS_Subset DEF FiniteInv

LEMMA DropFinite ==
    ASSUME FiniteInv, NEW i \in Names, NEW g \in DOMAIN live[i], DroppedAt(i, g) PROVE FiniteInv'
  <1>1. (Objects)' \subseteq Objects
    <2> SUFFICES ASSUME NEW o \in (Objects)' PROVE o \in Objects
      OBVIOUS
    <2>1. PICK k \in DOMAIN live' : \E h \in DOMAIN live'[k] : o = <<k, h>>
      BY ObjectsAre DEF Names
    <2>2. PICK h \in DOMAIN live'[k] : o = <<k, h>>
      BY <2>1
    <2>3. k \in Names /\ h \in DOMAIN live[k]
      BY DEF DroppedAt
    <2> QED BY <2>2, <2>3, ObjectsAre
  <1> QED BY <1>1, FS_Subset DEF FiniteInv

\* What is part of the plan, and as the plan wants it, fits what refers to it.
LEMMA CorrectFits ==
    ASSUME PlanInv, LiveInv, phase # "idle", NEW C, Correct(C), NEW i,
           plan[i].refs \cap DOMAIN plan \subseteq C, NEW r \in Wanted(i).refs
    PROVE  Fits(r, program) /\ r[1] \in C
  <1>1. PICK n \in plan[i].refs \cap DOMAIN plan : r = <<n, current[n]>>
    BY DEF Wanted
  <1>2. n \in C /\ Recorded(n) /\ Now(n) = Wanted(n) /\ ~plan[n].bad
    BY DEF Correct
  <1>3. n \in Names /\ current[n] \in DOMAIN live[n]
    BY <1>2 DEF LiveInv, Recorded
  <1>4. live[n][current[n]].key = plan[n].key
    BY <1>2 DEF Now, Wanted
  <1>5. plan = Plans[program]
    BY DEF PlanInv
  <1> QED BY <1>1, <1>2, <1>3, <1>4, <1>5 DEF Fits

\* Nothing that stays refers to what is deleted at the end of a run.
LEMMA DeletedUnread ==
    ASSUME PlanInv, SettledInv, NEW o \in Objects, Delete(o),
           NEW p \in Objects, p # o
    PROVE  o \notin Object(p).refs
  <1> SUFFICES ASSUME o \in Object(p).refs PROVE FALSE
    OBVIOUS
  <1>1. p \notin Leftover
    <2>1. p \in Dependents(o)
      BY DEF Dependents
    <2> QED BY <2>1 DEF Delete
  <1>2. PICK k \in Names : \E h \in DOMAIN live[k] : p = <<k, h>>
    BY ObjectsAre
  <1>3. PICK h \in DOMAIN live[k] : p = <<k, h>>
    BY <1>2
  <1>4. k \in DOMAIN plan /\ h = current[k]
    BY <1>1, <1>3 DEF Leftover
  <1>5. Correct(DOMAIN plan)
    BY SweptCorrect DEF Delete
  <1>6. Object(p) = Wanted(k)
    BY <1>3, <1>4, <1>5 DEF Object, Now, Correct
  <1>7. PICK n \in plan[k].refs \cap DOMAIN plan : o = <<n, current[n]>>
    BY <1>6 DEF Wanted
  <1>8. o \notin Leftover
    BY <1>7 DEF Leftover
  <1> QED BY <1>8 DEF Delete

\* Where a goal is put there was nothing, or what differs in its data only.
LEMMA ApplyFits ==
    ASSUME PlanInv, LiveInv, FixedInv, RefsInv, FiniteInv, AutoIsFixed,
           NEW i \in DOMAIN plan, Apply(i), NEW g,
           Recorded(i) /\ ~Replaces(i) => g = current[i],
           ~(Recorded(i) /\ ~Replaces(i)) => g = IF plan[i].auto THEN Fresh(i) ELSE 1,
           i \in Names, g \in DOMAIN live[i]
    PROVE  live[i][g].key = plan[i].key
  <1>1. CASE Recorded(i) /\ ~Replaces(i)
    BY <1>1 DEF Replaces, Now
  <1>2. CASE ~(Recorded(i) /\ ~Replaces(i)) /\ plan[i].auto
    BY <1>2, FreshIsNew DEF LiveInv
  <1>3. CASE ~(Recorded(i) /\ ~Replaces(i)) /\ ~plan[i].auto
    <2>1. OfFamily(program) /\ plan = Plans[program]
      BY DEF Apply, Ready, PlanInv
    <2>2. Fixed(i)
      BY <1>3, <2>1 DEF Fixed, AutoIsFixed
    <2>3. Recorded(i)
      BY <2>2 DEF FixedInv
    <2> QED BY <1>3, <2>3 DEF Apply
  <1> QED BY <1>1, <1>2, <1>3

LEMMA NextRefs ==
    ASSUME EngineInv, RefsInv, FiniteInv, AutoIsFixed, [Next]_vars
    PROVE  RefsInv' /\ FiniteInv'
  <1>1. ASSUME UNCHANGED live PROVE RefsInv' /\ FiniteInv'
    <2>1. ASSUME NEW k \in Names, NEW h \in DOMAIN live[k] PROVE \E q : Grown(k, live[k][h], q)'
      <3>0. PICK o : o = live[k][h]
        OBVIOUS
      <3>1. PICK q : Grown(k, o, q)
        BY <3>0 DEF RefsInv
      <3>2. \A r \in o.refs : Fits(r, q)'
        BY <1>1, <3>1 DEF Grown, Fits, Names
      <3>3. Grown(k, o, q)'
        BY <3>1, <3>2, GrownKept
      <3> QED BY <1>1, <3>0, <3>3
    <2> QED BY <1>1, <2>1 DEF RefsInv, FiniteInv, Objects, Names
  <1>2. ASSUME NEW i \in DOMAIN plan, Apply(i) PROVE RefsInv' /\ FiniteInv'
    <2>0. PICK C : Correct(C)
      BY DEF EngineInv, SettledInv
    <2>1. /\ phase = "up" /\ OfFamily(program) /\ plan = Plans[program] /\ i \notin C
          /\ plan[i].refs \cap DOMAIN plan \subseteq C /\ ~plan[i].bad
      BY <1>2, <2>0, ApplyAnew DEF EngineInv, Correct
    <2>2. PICK w : w = Wanted(i)
      OBVIOUS
    <2>3. PICK g : /\ PutAt(i, g, w)
                   /\ Recorded(i) /\ ~Replaces(i) => g = current[i]
                   /\ ~(Recorded(i) /\ ~Replaces(i)) => g = IF plan[i].auto THEN Fresh(i) ELSE 1
      BY <1>2, <2>2, ApplyPuts
    <2>4. i \in Names /\ g \in DOMAIN live[i] => live[i][g].key = w.key
      <3>1. i \in Names /\ g \in DOMAIN live[i] => live[i][g].key = plan[i].key
        BY <1>2, <2>3, ApplyFits DEF EngineInv
      <3> QED BY <2>2, <3>1 DEF Wanted
    <2>5. PICK p : p = program
      OBVIOUS
    <2>6. MadeFrom(i, w, p) /\ ~Plans[p][i].bad
      <3>1. {r[1] : r \in Wanted(i).refs} = plan[i].refs \cap DOMAIN plan
        BY WantedRefs
      <3> QED BY <2>1, <2>2, <2>5, <3>1 DEF MadeFrom, Wanted
    <2>7. ASSUME NEW r \in w.refs PROVE Fits(r, p)'
      <3>1. Fits(r, p) /\ r[1] \in C
        BY <2>0, <2>1, <2>2, <2>5, CorrectFits DEF EngineInv
      <3>2. r # <<i, g>>
        BY <2>1, <3>1
      <3> QED BY <2>3, <3>1, <3>2, PutFits
    <2> QED BY <2>3, <2>4, <2>6, <2>7, PutRefs, PutFinite
  <1>3. ASSUME NEW i \in DOMAIN plan, DropFor(i) PROVE RefsInv' /\ FiniteInv'
    <2>1. PICK j \in Names : \E g \in DOMAIN live[j] : DroppedAt(j, g) /\ Referrers(<<j, g>>) = {}
      BY <1>3, DropForDrops DEF EngineInv
    <2>2. PICK g \in DOMAIN live[j] : DroppedAt(j, g) /\ Referrers(<<j, g>>) = {}
      BY <2>1
    <2>3. \A p \in Objects : <<j, g>> \notin Object(p).refs
      BY <2>2 DEF Referrers
    <2> QED BY <2>2, <2>3, DropRefs, DropFinite
  <1>4. ASSUME NEW o \in Objects, Delete(o) PROVE RefsInv' /\ FiniteInv'
    <2>1. PICK j \in Names : \E g \in DOMAIN live[j] : DroppedAt(j, g) /\ o = <<j, g>>
      BY <1>4, DeleteDrops
    <2>2. PICK g \in DOMAIN live[j] : DroppedAt(j, g) /\ o = <<j, g>>
      BY <2>1
    <2>3. \A p \in Objects : p # <<j, g>> => <<j, g>> \notin Object(p).refs
      BY <1>4, <2>2, DeletedUnread DEF EngineInv
    <2> QED BY <2>2, <2>3, DropRefs, DropFinite
  <1>5. CASE \E p \in Programs : Edit(p)
    BY <1>1, <1>5 DEF Edit
  <1>6. CASE Start \/ Keep \/ Sweep \/ Finish \/ Throw \/ Fail
    BY <1>1, <1>6 DEF Start, Keep, Sweep, Finish, Throw, Fail
  <1>7. CASE UNCHANGED vars
    BY <1>1, <1>7 DEF vars, engine
  <1> QED BY <1>2, <1>3, <1>4, <1>5, <1>6, <1>7 DEF Next, Step

LEMMA InitRefs == Init => RefsInv /\ FiniteInv
  <1> SUFFICES ASSUME Init PROVE RefsInv /\ FiniteInv
    OBVIOUS
  <1>1. DOMAIN live = {}
    BY DEF Init
  <1>2. Objects = {}
    BY <1>1 DEF Objects, Names
  <1> QED BY <1>1, <1>2, FS_EmptySet DEF RefsInv, FiniteInv, Names

-----------------------------------------------------------------------------
(* What the pods of a proxy read *)

\* The goals the pods depend on, from the arguments.
ServingGoal(args, i, goal) ==
    /\ i = <<"providers">> => goal = ProviderSecret(args)
    /\ i = <<"runtime">> => goal = RuntimeSecret(args)
    /\ i = <<"config">> => goal = ConfigMap(args)
    /\ i = <<"deployment">> => goal = Deployment(args)

Serving == {<<"providers">>, <<"runtime">>, <<"config">>, <<"deployment">>}

LEMMA ElsewhereServes ==
    ASSUME NEW args, NEW i, NEW goal, i \notin Serving PROVE ServingGoal(args, i, goal)
  BY DEF ServingGoal, Serving

LEMMA SidecarServes ==
    ASSUME NEW credentials, NEW i, NEW goal, Has(SidecarGoals(credentials, <<"ns">>), i, goal)
    PROVE  i \notin Serving
  <1>1. CASE Has(InlineKeyGoals(credentials, <<"ns">>), i, goal)
    <2>1. i = <<"credentials">>
      BY <1>1, NewHas DEF InlineKeyGoals
    <2> QED BY <2>1, NamesDiffer DEF Serving
  <1>2. CASE Has(ManagedKeyGoals(credentials, <<"ns">>), i, goal)
    <2> DEFINE a == New(<<"service-account">>, Named(credentials.value, {}, {}))
               b == New(<<"cloudsql-client">>, Named(credentials.value, {<<"service-account">>}, {}))
               c == New(<<"service-account-key">>,
                        AutoNamed("key", {<<"service-account">>}, {<<"cloudsql-client">>}))
               d == New(<<"credentials">>,
                        Named(credentials.value, {<<"ns">>, <<"service-account-key">>},
                              {<<"cloudsql-client">>}))
    <2>1. Has(AllGoals(<<a, b, c, d>>), i, goal)
      BY <1>2 DEF ManagedKeyGoals
    <2>2. Has(a, i, goal) \/ Has(b, i, goal) \/ Has(c, i, goal) \/ Has(d, i, goal)
      <3> HIDE DEF a, b, c, d
      <3> QED BY <2>1, FourHave
    <2>3. i \in {<<"service-account">>, <<"cloudsql-client">>, <<"service-account-key">>,
                 <<"credentials">>}
      BY <2>2, NewHas
    <2> QED BY <2>3, NamesDiffer DEF Serving
  <1>3. CASE Has(NoGoals, i, goal)
    BY <1>3 DEF Has, NoGoals
  <1>4. \/ SidecarGoals(credentials, <<"ns">>) = InlineKeyGoals(credentials, <<"ns">>)
        \/ SidecarGoals(credentials, <<"ns">>) = ManagedKeyGoals(credentials, <<"ns">>)
        \/ SidecarGoals(credentials, <<"ns">>) = NoGoals
    BY DEF SidecarGoals
  <1> QED BY <1>1, <1>2, <1>3, <1>4

LEMMA ProxyServes ==
    ASSUME NEW args
    PROVE  /\ \A i, goal : Has(LiteLLMPlan(args), i, goal) => ServingGoal(args, i, goal)
           /\ Serving \subseteq DOMAIN LiteLLMPlan(args)
  <1> DEFINE a == When(args.createNamespace, New(<<"ns">>, InPlace("namespace", {}, {})))
             b == When(args.cloudSql # Unset,
                       SidecarGoals(ResolveLiteLLMCloudSqlCredentials(args.cloudSql), <<"ns">>))
             c == New(<<"providers">>, ProviderSecret(args))
             d == New(<<"master-key">>, AutoNamed("password", {}, {}))
             e == New(<<"runtime">>, RuntimeSecret(args))
             f == New(<<"config">>, ConfigMap(args))
             g == New(<<"deployment">>, Deployment(args))
             h == New(<<"service">>, InPlace("service", {<<"ns">>}, {}))
  <1>1. LiteLLMPlan(args) = AllGoals(<<a, b, c, d, e, f, g, h>>)
    BY DEF LiteLLMPlan
  <1>2. Serving \subseteq DOMAIN AllGoals(<<a, b, c, d, e, f, g, h>>)
    <2>1. /\ DOMAIN c = {<<"providers">>} /\ DOMAIN e = {<<"runtime">>}
          /\ DOMAIN f = {<<"config">>} /\ DOMAIN g = {<<"deployment">>}
      BY NewDomain
    <2> HIDE DEF a, b, c, d, e, f, g, h
    <2>2. /\ DOMAIN f \cup DOMAIN g \subseteq DOMAIN AllGoals(<<a, b, c, d, e, f, g, h>>)
          /\ DOMAIN c \cup DOMAIN e \subseteq DOMAIN AllGoals(<<a, b, c, d, e, f, g, h>>)
      BY EightHave
    <2> QED BY <2>1, <2>2 DEF Serving
  <1>3. ASSUME NEW i, NEW goal, Has(AllGoals(<<a, b, c, d, e, f, g, h>>), i, goal)
        PROVE  ServingGoal(args, i, goal)
    <2>1. \/ Has(a, i, goal) \/ Has(b, i, goal) \/ Has(c, i, goal) \/ Has(d, i, goal)
          \/ Has(e, i, goal) \/ Has(f, i, goal) \/ Has(g, i, goal) \/ Has(h, i, goal)
      <3> HIDE DEF a, b, c, d, e, f, g, h
      <3> QED BY <1>3, EightHave
    <2>2. CASE Has(a, i, goal) \/ Has(d, i, goal) \/ Has(h, i, goal)
      <3>1. i \in {<<"ns">>, <<"master-key">>, <<"service">>}
        BY <2>2, WhenHas, NewHas
      <3>2. i \notin Serving
        BY <3>1, NamesDiffer DEF Serving
      <3> QED BY <3>2, ElsewhereServes
    <2>3. CASE Has(b, i, goal)
      BY <2>3, WhenHas, SidecarServes, ElsewhereServes
    <2>4. CASE Has(c, i, goal)
      <3>1. i = <<"providers">> /\ goal = ProviderSecret(args)
        BY <2>4, NewHas
      <3> QED BY <3>1, NamesDiffer DEF ServingGoal
    <2>5. CASE Has(e, i, goal)
      <3>1. i = <<"runtime">> /\ goal = RuntimeSecret(args)
        BY <2>5, NewHas
      <3> QED BY <3>1, NamesDiffer DEF ServingGoal
    <2>6. CASE Has(f, i, goal)
      <3>1. i = <<"config">> /\ goal = ConfigMap(args)
        BY <2>6, NewHas
      <3> QED BY <3>1, NamesDiffer DEF ServingGoal
    <2>7. CASE Has(g, i, goal)
      <3>1. i = <<"deployment">> /\ goal = Deployment(args)
        BY <2>7, NewHas
      <3> QED BY <3>1, NamesDiffer DEF ServingGoal
    <2> QED BY <2>1, <2>2, <2>3, <2>4, <2>5, <2>6, <2>7
  <1> HIDE DEF a, b, c, d, e, f, g, h
  <1> QED BY <1>1, <1>2, <1>3

LEMMA ServingPlans ==
    ASSUME NEW q \in DOMAIN Plans, q[1] = "litellm"
    PROVE  /\ Serving \subseteq DOMAIN Plans[q]
           /\ \A i \in DOMAIN Plans[q] : ServingGoal(ProxyArgs(ArgsOf(q)), i, Plans[q][i])
  <1>1. PICK args, own, refs : /\ args = ProxyArgs(ArgsOf(q)) /\ own = LiteLLMPlan(args)
                               /\ refs = R!SecretRefGoals(ArgsOf(q).opCalls)
                               /\ Plans[q] = AllGoals(<<own, refs>>)
    BY PlansAre
  <1>2. ASSUME NEW i \in DOMAIN Plans[q] PROVE ServingGoal(args, i, Plans[q][i])
    <2>0. PICK goal : goal = Plans[q][i]
      OBVIOUS
    <2>1. Has(AllGoals(<<own, refs>>), i, goal)
      BY <1>1, <2>0 DEF Has
    <2>2. Has(own, i, goal) \/ Has(refs, i, goal)
      BY <2>1, TwoHave
    <2>3. CASE Has(refs, i, goal)
      <3>1. PICK calls : Has(R!SecretRefGoals(calls), i, goal)
        BY <1>1, <2>3
      <3>2. \E x, y : i = <<x, y>>
        BY <3>1, ReferenceHas
      <3>3. i \notin Serving
        BY <3>2, NamesDiffer DEF Serving
      <3> QED BY <2>0, <3>3, ElsewhereServes
    <2>4. CASE Has(own, i, goal)
      <3>1. Has(LiteLLMPlan(args), i, goal)
        BY <1>1, <2>4
      <3> QED BY <2>0, <3>1, ProxyServes
    <2> QED BY <2>2, <2>3, <2>4
  <1>3. DOMAIN AllGoals(<<own, refs>>) = DOMAIN own \cup DOMAIN refs
    BY TwoHave
  <1>4. Serving \subseteq DOMAIN own
    BY <1>1, ProxyServes
  <1> QED BY <1>1, <1>2, <1>3, <1>4

\* What is written in the parts of the goals.
LEMMA ServingParts ==
    ASSUME NEW args
    PROVE  /\ ProviderSecret(args).key = ProviderStringData(args)
           /\ ProviderSecret(args).data = ProviderStringData(args)
           /\ RuntimeSecret(args).key = RuntimeSecretData(args)
           /\ RuntimeSecret(args).data = RuntimeSecretData(args)
           /\ ConfigMap(args).key = ConfigMap(args).data
           /\ ~ConfigMap(args).bad =>
                 Generates(args) /\ ConfigMap(args).data = GenerateLiteLLMConfig(args)
           /\ Deployment(args).data.env = Env(args)
           /\ Deployment(args).data.sidecar = SidecarContainer(args)
           /\ Serving \ {<<"deployment">>} \subseteq Deployment(args).refs
           /\ ~Deployment(args).bad => EnvAccepted(args)
  <1>1. /\ ProviderSecret(args).key = ProviderStringData(args)
        /\ ProviderSecret(args).data = ProviderStringData(args)
    BY DEF ProviderSecret, AutoNamed, Goal
  <1>2. /\ RuntimeSecret(args).key = RuntimeSecretData(args)
        /\ RuntimeSecret(args).data = RuntimeSecretData(args)
    BY DEF RuntimeSecret, AutoNamed, Goal
  <1>3. /\ ConfigMap(args).key = ConfigMap(args).data
        /\ ConfigMap(args).bad = ~Generates(args)
        /\ ConfigMap(args).data = IF Generates(args) THEN GenerateLiteLLMConfig(args) ELSE Unset
    BY DEF ConfigMap, Throwing, AutoNamed, Goal
  <1>4. /\ Deployment(args).data = [env |-> Env(args), sidecar |-> SidecarContainer(args)]
        /\ Deployment(args).refs = {<<"ns">>} \cup SecretRefs(args)
        /\ Deployment(args).bad = ~EnvAccepted(args)
    BY DEF Deployment, Throwing, InPlace, Goal
  <1>5. Serving \ {<<"deployment">>} \subseteq SecretRefs(args)
    BY DEF SecretRefs, Serving
  <1>6. Deployment(args).data.env = Env(args) /\ Deployment(args).data.sidecar = SidecarContainer(args)
    BY <1>4
  <1> QED BY <1>1, <1>2, <1>3, <1>4, <1>5, <1>6

LEMMA OverGives ==
    ASSUME NEW a, NEW b, NEW n
    PROVE  /\ n \in DOMAIN Over(a, b) <=> (n \in DOMAIN a \/ n \in DOMAIN b)
           /\ n \in DOMAIN a => Over(a, b)[n] = a[n]
           /\ n \notin DOMAIN a /\ n \in DOMAIN b => Over(a, b)[n] = b[n]
  BY DEF Over

\* What a variable of the container is read from.
LEMMA EnvReads ==
    ASSUME NEW args, EnvAccepted(args)
    PROVE  /\ \A n \in ProviderEnvVars(args) :
                 /\ n \in DOMAIN Env(args)
                 /\ Env(args)[n].secret = <<"providers">> /\ Env(args)[n].key = Lower[n]
           /\ \A n \in DOMAIN Env(args) \ ProviderEnvVars(args) :
                 Env(args)[n].secret = <<"providers">> =>
                    n \in ResolvedRefs(args) /\ args.extraSecretRefEnv[n].secretName = <<"providers">>
  <1> DEFINE extra     == [n \in Resolved(args.extraEnv) |-> From(<<"none">>, args.extraEnv[n])]
             refs      == [n \in ResolvedRefs(args) |-> From(args.extraSecretRefEnv[n].secretName,
                                                             args.extraSecretRefEnv[n].key)]
             secret    == [n \in Resolved(args.extraSecretEnv) |-> From(<<"runtime">>, <<n>>)]
             providers == [n \in ProviderEnvVars(args) |-> From(<<"providers">>, Lower[n])]
             reserved  == [n \in ReservedRuntimeEnvVars |-> From(<<"runtime">>, <<n>>)]
  <1>1. Env(args) = Over(extra, Over(refs, Over(secret, Over(providers, reserved))))
    BY DEF Env
  <1>2. /\ DOMAIN extra \subseteq DOMAIN args.extraEnv /\ DOMAIN refs = ResolvedRefs(args)
        /\ DOMAIN secret \subseteq DOMAIN args.extraSecretEnv
        /\ DOMAIN providers = ProviderEnvVars(args)
    BY DEF Resolved
  <1>3. /\ \A n \in DOMAIN extra : extra[n].secret = <<"none">>
        /\ \A n \in DOMAIN refs : refs[n].secret = args.extraSecretRefEnv[n].secretName
        /\ \A n \in DOMAIN secret : secret[n].secret = <<"runtime">>
        /\ \A n \in DOMAIN reserved : reserved[n].secret = <<"runtime">>
        /\ \A n \in DOMAIN providers :
              providers[n].secret = <<"providers">> /\ providers[n].key = Lower[n]
    BY DEF From
  <1>4. (DOMAIN extra \cup DOMAIN secret \cup DOMAIN refs) \cap ProviderEnvVars(args) = {}
    BY <1>2 DEF EnvAccepted, ValidateExtraEnvNameCollisions, Disjoint
  <1>5. <<"none">> # <<"providers">> /\ <<"runtime">> # <<"providers">>
    BY NamesDiffer
  <1> HIDE DEF extra, refs, secret, providers, reserved
  <1> DEFINE last == Over(providers, reserved)
             some == Over(secret, last)
             most == Over(refs, some)
  <1>6. Env(args) = Over(extra, most)
    BY <1>1
  <1>7. ASSUME NEW n \in ProviderEnvVars(args) PROVE n \in DOMAIN Env(args) /\ Env(args)[n] = providers[n]
    <2>1. n \in DOMAIN providers /\ n \notin DOMAIN extra /\ n \notin DOMAIN secret /\ n \notin DOMAIN refs
      BY <1>2, <1>4
    <2>2. n \in DOMAIN last /\ last[n] = providers[n]
      BY <2>1, OverGives
    <2> HIDE DEF last
    <2>3. n \in DOMAIN some /\ some[n] = providers[n]
      BY <2>1, <2>2, OverGives
    <2> HIDE DEF some
    <2>4. n \in DOMAIN most /\ most[n] = providers[n]
      BY <2>1, <2>3, OverGives
    <2> HIDE DEF most
    <2> QED BY <1>6, <2>1, <2>4, OverGives
  <1>8. ASSUME NEW n \in DOMAIN Env(args), n \notin ProviderEnvVars(args)
        PROVE  \/ n \in DOMAIN extra /\ Env(args)[n] = extra[n]
               \/ n \in DOMAIN refs /\ Env(args)[n] = refs[n]
               \/ n \in DOMAIN secret /\ Env(args)[n] = secret[n]
               \/ n \in DOMAIN reserved /\ Env(args)[n] = reserved[n]
    <2>1. n \in DOMAIN last => n \in DOMAIN reserved /\ last[n] = reserved[n]
      BY <1>2, <1>8, OverGives
    <2> HIDE DEF last
    <2>2. n \in DOMAIN some => \/ n \in DOMAIN secret /\ some[n] = secret[n]
                               \/ n \in DOMAIN last /\ some[n] = last[n]
      BY OverGives
    <2> HIDE DEF some
    <2>3. n \in DOMAIN most => \/ n \in DOMAIN refs /\ most[n] = refs[n]
                               \/ n \in DOMAIN some /\ most[n] = some[n]
      BY OverGives
    <2> HIDE DEF most
    <2>4. \/ n \in DOMAIN extra /\ Env(args)[n] = extra[n]
          \/ n \in DOMAIN most /\ Env(args)[n] = most[n]
      BY <1>6, <1>8, OverGives
    <2> QED BY <2>1, <2>2, <2>3, <2>4
  <1>9. ASSUME NEW n \in DOMAIN Env(args), n \notin ProviderEnvVars(args),
               Env(args)[n].secret = <<"providers">>
        PROVE  n \in ResolvedRefs(args) /\ args.extraSecretRefEnv[n].secretName = <<"providers">>
    BY <1>2, <1>3, <1>5, <1>8, <1>9
  <1> QED BY <1>2, <1>3, <1>7, <1>9

\* In all that is left open: variables that differ differ in more than case, no
\* Secret of a reference has the name of the component's own, and a database
\* behind no sidecar is not at its address.
Apart(args) ==
    /\ \A m, n \in ProviderEnvVars(args) : Lower[m] = Lower[n] => m = n
    /\ \A n \in ResolvedRefs(args) : args.extraSecretRefEnv[n].secretName # <<"providers">>
    /\ args.databaseUrl.host # Local

\* What ProxyAssumption says of one proxy.
Labelled(args) ==
    /\ \A p \in WithKey(args) : args.providers[p].apiKey.of = p
    /\ \A p \in DOMAIN args.providers : UpperSnake[p] # Unset
    /\ "host" \in DOMAIN args.databaseUrl
    /\ args.cloudSql # Unset => SidecarContainer(args) # Unset

LEMMA DatabaseUrlFits ==
    ASSUME NEW args, EnvAccepted(args), Apart(args), Labelled(args)
    PROVE  (SidecarContainer(args) # Unset)
              <=> (RuntimeSecretData(args)["DATABASE_URL"].host = Local)
  <1> DEFINE extra == [n \in Resolved(args.extraSecretEnv) |-> args.extraSecretEnv[n]]
             key   == New("LITELLM_MASTER_KEY", Either(args.masterKey, "generated"))
             url   == New("DATABASE_URL", EffectiveDatabaseUrl(args))
  <1>1. RuntimeSecretData(args) = Over(extra, Over(key, url))
    BY DEF RuntimeSecretData
  <1>2. "DATABASE_URL" \notin DOMAIN extra
    BY DEF EnvAccepted, ValidateExtraEnvNameCollisions, Disjoint, ReservedRuntimeEnvVars, Resolved
  <1>3. DOMAIN key = {"LITELLM_MASTER_KEY"} /\ DOMAIN url = {"DATABASE_URL"}
        /\ url["DATABASE_URL"] = EffectiveDatabaseUrl(args)
    BY DEF New
  <1> HIDE DEF extra, key, url
  <1>4. "DATABASE_URL" \in DOMAIN Over(key, url) /\ Over(key, url)["DATABASE_URL"] = EffectiveDatabaseUrl(args)
    BY <1>3, OverGives
  <1>5. RuntimeSecretData(args)["DATABASE_URL"] = EffectiveDatabaseUrl(args)
    BY <1>1, <1>2, <1>4, OverGives
  <1>6. CASE args.cloudSql = Unset
    <2>1. SidecarContainer(args) = Unset /\ EffectiveDatabaseUrl(args) = args.databaseUrl
      BY <1>6 DEF SidecarContainer, EffectiveDatabaseUrl
    <2> QED BY <1>5, <2>1 DEF Apart
  <1>7. CASE args.cloudSql # Unset
    <2>1. EffectiveDatabaseUrl(args).host = Local
      BY <1>7 DEF EffectiveDatabaseUrl, RewriteDatabaseUrlForProxy, Labelled
    <2> QED BY <1>5, <1>7, <2>1 DEF Labelled
  <1> QED BY <1>6, <1>7

\* Of each entry of the model list: its variable holds the key of its own
\* provider, or none of the component's.
LEMMA KeysFit ==
    ASSUME NEW args, Generates(args), EnvAccepted(args), Apart(args), Labelled(args),
           NEW m \in ModelList(args), NEW secret, secret = ProviderStringData(args),
           NEW ours, ours = {k \in DOMAIN secret : secret[k].of = m.provider}
    PROVE  IF ours # {}
           THEN /\ m.apiKey \in DOMAIN Env(args)
                /\ Env(args)[m.apiKey].secret = <<"providers">> /\ Env(args)[m.apiKey].key \in ours
           ELSE m.apiKey \in DOMAIN Env(args) => Env(args)[m.apiKey].secret # <<"providers">>
  <1>1. PICK g \in ToSet(args.modelGroups) : \E id \in ToSet(g.deploymentIds) : m = ModelEntry(args, g, id)
    BY DEF ModelList
  <1>2. PICK id \in ToSet(g.deploymentIds) : m = ModelEntry(args, g, id)
    BY <1>1
  <1>3. m.provider = DeploymentById(args, id).provider /\ m.apiKey = EnvVarOf(args, m.provider)
    BY <1>2 DEF ModelEntry
  <1>4. m.apiKey # Unset
    BY <1>1, <1>2, <1>3 DEF Generates, UsedProvidersHaveKeys
  <1>5. m.provider \in DOMAIN args.providers
    <2> DEFINE ids == [d \in DOMAIN args.deployments |-> args.deployments[d].id]
    <2>1. id \in ToSet(ids) /\ \A d \in ToSet(args.deployments) : d.provider \in DOMAIN args.providers
      BY <1>1, <1>2 DEF Generates, ValidateLiteLLMConfig
    <2>2. PICK d \in DOMAIN args.deployments : args.deployments[d].id = id
      BY <2>1 DEF ToSet
    <2>3. DeploymentById(args, id) \in ToSet(args.deployments)
      BY <2>2 DEF DeploymentById, ToSet
    <2> QED BY <1>3, <2>1, <2>3
  <1>6. \A p \in WithKey(args) : p \in DOMAIN args.providers /\ EnvVarOf(args, p) # Unset
    BY DEF WithKey, EnvVarOf, GetProviderEnvVar, Labelled
  <1>7. \A p, r \in DOMAIN args.providers :
           EnvVarOf(args, p) = EnvVarOf(args, r) => p = r \/ EnvVarOf(args, p) = Unset
    BY DEF Generates, ValidateLiteLLMConfig
  <1>8. \A k \in DOMAIN secret : \E p \in WithKey(args) :
           Lower[EnvVarOf(args, p)] = k /\ secret[k].of = p
    <2>1. ASSUME NEW k \in DOMAIN secret PROVE \E p \in WithKey(args) :
                Lower[EnvVarOf(args, p)] = k /\ secret[k].of = p
      <3>1. \E p \in WithKey(args) : Lower[EnvVarOf(args, p)] = k
        BY DEF ProviderStringData, ProviderEnvVars
      <3> DEFINE p == CHOOSE p \in WithKey(args) : Lower[EnvVarOf(args, p)] = k
      <3>2. p \in WithKey(args) /\ Lower[EnvVarOf(args, p)] = k
        BY <3>1
      <3>3. secret[k] = args.providers[p].apiKey
        BY DEF ProviderStringData
      <3>4. secret[k].of = p
        BY <3>2, <3>3 DEF Labelled
      <3> QED BY <3>2, <3>4
    <2> QED BY <2>1
  <1>9. DOMAIN secret = {Lower[n] : n \in ProviderEnvVars(args)}
    BY DEF ProviderStringData
  <1>10. ASSUME m.provider \in WithKey(args)
         PROVE  m.apiKey \in ProviderEnvVars(args) /\ Lower[m.apiKey] \in ours
    <2>1. m.apiKey \in ProviderEnvVars(args)
      BY <1>3, <1>10 DEF ProviderEnvVars
    <2>2. Lower[m.apiKey] \in DOMAIN secret
      BY <1>9, <2>1
    <2>3. PICK p \in WithKey(args) : Lower[EnvVarOf(args, p)] = Lower[m.apiKey] /\ secret[Lower[m.apiKey]].of = p
      BY <1>8, <2>2
    <2>4. EnvVarOf(args, p) = m.apiKey
      BY <2>1, <2>3 DEF Apart, ProviderEnvVars
    <2>5. p = m.provider
      BY <1>3, <1>4, <1>5, <1>6, <1>7, <2>4
    <2> QED BY <2>1, <2>2, <2>3, <2>5
  <1>11. CASE ours # {}
    <2>1. PICK k \in DOMAIN secret : secret[k].of = m.provider
      BY <1>11
    <2>2. m.provider \in WithKey(args)
      BY <1>8, <2>1
    <2>3. m.apiKey \in ProviderEnvVars(args) /\ Lower[m.apiKey] \in ours
      BY <1>10, <2>2
    <2>4. /\ m.apiKey \in DOMAIN Env(args) /\ Env(args)[m.apiKey].secret = <<"providers">>
          /\ Env(args)[m.apiKey].key = Lower[m.apiKey]
      BY <2>3, EnvReads
    <2> QED BY <1>11, <2>3, <2>4
  <1>12. CASE ours = {}
    <2>1. m.apiKey \notin ProviderEnvVars(args)
      <3> SUFFICES ASSUME m.apiKey \in ProviderEnvVars(args) PROVE FALSE
        OBVIOUS
      <3>1. PICK p \in WithKey(args) : EnvVarOf(args, p) = m.apiKey
        BY DEF ProviderEnvVars
      <3>2. p = m.provider
        BY <1>3, <1>4, <1>5, <1>6, <1>7, <3>1
      <3> QED BY <1>10, <1>12, <3>1, <3>2
    <2>2. ASSUME m.apiKey \in DOMAIN Env(args), Env(args)[m.apiKey].secret = <<"providers">> PROVE FALSE
      <3>1. /\ m.apiKey \in ResolvedRefs(args)
            /\ args.extraSecretRefEnv[m.apiKey].secretName = <<"providers">>
        BY <2>1, <2>2, EnvReads
      <3> QED BY <3>1 DEF Apart
    <2> QED BY <1>12, <2>2
  <1> QED BY <1>11, <1>12

ProxiesApart ==
    \A q \in {p \in DOMAIN Plans : p[1] = "litellm"} : Apart(ProxyArgs(ArgsOf(q)))

LEMMA ProxyAutoFixed == ASSUME program[1] = "litellm" PROVE AutoIsFixed
  BY ProxyPlans DEF ProxyGoal, AutoIsFixed, OfFamily

\* What the pods read under a name is what their program has under it.
LEMMA ContentIs ==
    ASSUME RefsInv, program[1] = "litellm", Exists(<<"deployment">>),
           NEW q, Grown(<<"deployment">>, Pod, q),
           NEW i \in Serving, i # <<"deployment">>, i \in {r[1] : r \in Pod.refs}
    PROVE  Reads(i) /\ Content(i) = Plans[q][i].key
  <1>1. PICK r : r = CHOOSE x \in Pod.refs : x[1] = i
    OBVIOUS
  <1>2. r \in Pod.refs /\ r[1] = i
    BY <1>1
  <1>3. Fits(r, q)
    BY <1>2 DEF Grown
  <1>4. i \in Names /\ r[2] \in DOMAIN live[i] /\ live[i][r[2]].key = Plans[q][i].key
    BY <1>2, <1>3 DEF Fits
  <1>5. PICK o : o = live[i][r[2]]
    OBVIOUS
  <1>6. PICK p : Grown(i, o, p)
    BY <1>4, <1>5 DEF RefsInv
  <1>7. o.key = o.data
    <2>1. PICK args : ServingGoal(args, i, Plans[p][i])
      BY <1>6, ServingPlans DEF Grown, MadeFrom, OfFamily
    <2>2. \/ Plans[p][i] = ProviderSecret(args) \/ Plans[p][i] = RuntimeSecret(args)
          \/ Plans[p][i] = ConfigMap(args)
      BY <2>1 DEF ServingGoal, Serving
    <2>3. Plans[p][i].key = Plans[p][i].data
      BY <2>2, ServingParts
    <2> QED BY <1>6, <2>3 DEF Grown, MadeFrom
  <1>8. Content(i) = o.data
    BY <1>1, <1>5 DEF Content
  <1> QED BY <1>2, <1>4, <1>5, <1>7, <1>8 DEF Reads

LEMMA PodsFit ==
    ASSUME EngineInv, RefsInv, ProxiesApart, PodsExist PROVE KeysReachTheirModels /\ DatabaseRouted
  <1> DEFINE pods == <<"deployment">>
  <1>1. program[1] = "litellm" /\ Exists(pods) /\ pods \in Names
    BY DEF PodsExist, Deploying, Exists, Names
  <1>2. Recorded(pods) /\ current[pods] \in DOMAIN live[pods]
    BY <1>1, ProxyAuto DEF EngineInv, FixedInv
  <1>3. PICK q : Grown(pods, Pod, q)
    BY <1>1, <1>2 DEF RefsInv, Pod, Now
  <1>4. q \in DOMAIN Plans /\ q[1] = "litellm"
    BY <1>1, <1>3 DEF Grown, MadeFrom, OfFamily
  <1>5. PICK args : args = ProxyArgs(ArgsOf(q))
    OBVIOUS
  <1>6. /\ Serving \subseteq DOMAIN Plans[q]
        /\ Plans[q][<<"providers">>] = ProviderSecret(args)
        /\ Plans[q][<<"runtime">>] = RuntimeSecret(args)
        /\ Plans[q][<<"config">>] = ConfigMap(args)
        /\ Plans[q][pods] = Deployment(args)
    BY <1>4, <1>5, ServingPlans DEF ServingGoal, Serving
  <1>7. Apart(args) /\ Labelled(args)
    BY <1>4, <1>5, ProxyAssumption DEF ProxiesApart, Labelled
  <1>8. EnvAccepted(args) /\ Pod.data = Deployment(args).data
    BY <1>3, <1>6, ServingParts DEF Grown, MadeFrom
  <1>9. Pod.data.env = Env(args) /\ Pod.data.sidecar = SidecarContainer(args)
    BY <1>8, ServingParts
  <1>10. \A i \in Serving \ {pods} : i \in {r[1] : r \in Pod.refs}
    <2>1. {r[1] : r \in Pod.refs} = Deployment(args).refs \cap DOMAIN Plans[q]
      BY <1>3, <1>6 DEF Grown, MadeFrom
    <2> QED BY <1>6, <2>1, ServingParts
  <1>11. \A i \in Serving \ {pods} : Reads(i) /\ Content(i) = Plans[q][i].key
    BY <1>1, <1>3, <1>10, ContentIs
  <1>12. /\ <<"providers">> \in Serving \ {pods} /\ <<"runtime">> \in Serving \ {pods}
         /\ <<"config">> \in Serving \ {pods}
    BY NamesDiffer DEF Serving
  <1>13. /\ Reads(<<"providers">>) /\ Content(<<"providers">>) = ProviderStringData(args)
         /\ Reads(<<"runtime">>) /\ Content(<<"runtime">>) = RuntimeSecretData(args)
         /\ Reads(<<"config">>) /\ Content(<<"config">>) = ConfigMap(args).data
    BY <1>6, <1>11, <1>12, ServingParts
  <1>14. Generates(args) /\ Content(<<"config">>) = GenerateLiteLLMConfig(args)
    <2>1. <<"config">> \in {r[1] : r \in Pod.refs}
      BY <1>10, <1>12
    <2>2. PICK r \in Pod.refs : r[1] = <<"config">>
      BY <2>1
    <2>3. ~ConfigMap(args).bad
      BY <1>3, <1>6, <2>2 DEF Grown, Fits
    <2> QED BY <1>13, <2>3, ServingParts
  <1>15. Content(<<"config">>).modelList = ModelList(args)
    BY <1>14 DEF GenerateLiteLLMConfig
  <1>16. DatabaseRouted
    BY <1>7, <1>8, <1>9, <1>13, DatabaseUrlFits DEF DatabaseRouted
  <1>17. KeysReachTheirModels
    <2>1. ASSUME NEW m \in ModelList(args), NEW secret, secret = ProviderStringData(args),
                 NEW ours, ours = {k \in DOMAIN secret : secret[k].of = m.provider}
          PROVE  IF ours # {}
                 THEN /\ m.apiKey \in DOMAIN Env(args)
                      /\ Env(args)[m.apiKey].secret = <<"providers">>
                      /\ Env(args)[m.apiKey].key \in ours
                 ELSE m.apiKey \in DOMAIN Env(args) => Env(args)[m.apiKey].secret # <<"providers">>
      BY <1>7, <1>8, <1>14, <2>1, KeysFit
    <2>2. ASSUME NEW m \in Content(<<"config">>).modelList
          PROVE  LET secret == Content(<<"providers">>)
                     ours   == {k \in DOMAIN secret : secret[k].of = m.provider}
                     read   == Pod.data.env[m.apiKey]
                 IN  IF ours # {}
                     THEN /\ m.apiKey \in DOMAIN Pod.data.env
                          /\ read.secret = <<"providers">> /\ read.key \in ours
                     ELSE m.apiKey \in DOMAIN Pod.data.env => read.secret # <<"providers">>
      BY <1>9, <1>13, <1>15, <2>1, <2>2
    <2> QED BY <1>13, <2>2 DEF KeysReachTheirModels
  <1> QED BY <1>16, <1>17

LEMMA RefsAlways ==
    (program[1] = "litellm" => EngineInv /\ RefsInv /\ FiniteInv) /\ EngineInv /\ [Next]_vars
    => (program[1] = "litellm" => EngineInv /\ RefsInv /\ FiniteInv)'
  <1> SUFFICES ASSUME program[1] = "litellm" => EngineInv /\ RefsInv /\ FiniteInv, EngineInv,
                      [Next]_vars, program'[1] = "litellm"
               PROVE  EngineInv' /\ RefsInv' /\ FiniteInv'
    OBVIOUS
  <1>1. program[1] = "litellm"
    BY FamilyKept
  <1> QED BY <1>1, NextEngine, NextRefs, ProxyAutoFixed

-----------------------------------------------------------------------------
(* The envelope of a tenant *)

EnvelopeGoal(args, n, goal) ==
    /\ n[1] = "quota" =>
          \E entry \in ToSet(args.namespaces) :
             /\ n = <<"quota", entry.name>> /\ goal.key = "same"
             /\ T!QuotaOf(args, entry) # Unset
             /\ goal.data = T!Hard(T!QuotaOf(args, entry))
             /\ args.limits # Unset => <<"limits", entry.name>> \in goal.deps
    /\ n[1] = "limits" => args.limits # Unset /\ goal.key = "same" /\ goal.data = args.limits

\* The goals of a namespace that may be left out.
LEMMA EnvelopeIs ==
    ASSUME NEW args, NEW ns, NEW quota
    PROVE  /\ T!LimitRangeGoal(args, ns)
                 = When(args.limits # Unset,
                        New(<<"limits", ns>>, InPlace(args.limits, {}, {<<"ns", ns>>})))
           /\ T!QuotaGoal(args, ns, quota)
                 = When(quota # Unset,
                        New(<<"quota", ns>>, InPlace(T!Hard(quota), {},
                            {<<"ns", ns>>} \cup IF args.limits # Unset THEN {<<"limits", ns>>} ELSE {})))
           /\ T!PolicyGoal(args, ns)
                 = When(args.networkPolicy # "off",
                        New(<<"netpol", ns>>, InPlace(T!NamespacePolicy(args), {}, {<<"ns", ns>>})))
  BY DEF T!LimitRangeGoal, T!QuotaGoal, T!PolicyGoal, T!When, When, T!New, New, T!NoGoals, NoGoals,
         T!InPlace, InPlace, T!Goal, Goal

LEMMA EnvelopeGoalsAre ==
    ASSUME NEW args, NEW entry \in ToSet(args.namespaces), NEW n, NEW goal,
           Has(T!NamespaceGoals(args, entry), n, goal)
    PROVE  EnvelopeGoal(args, n, goal)
  <1> DEFINE ns       == entry.name
             space    == New(<<"ns", ns>>, InPlace(args.id, {}, {}))
             deployer == New(<<"deployer", ns>>,
                             Goal(args.deployerRole, args.deployer, FALSE, {}, {<<"ns", ns>>}))
             limits   == T!LimitRangeGoal(args, ns)
             quota    == T!QuotaGoal(args, ns, T!QuotaOf(args, entry))
             policy   == T!PolicyGoal(args, ns)
  <1>1. T!NamespaceGoals(args, entry) = AllGoals(<<space, deployer, limits, quota, policy>>)
    BY SameWriting DEF T!NamespaceGoals
  <1>2. \/ Has(space, n, goal) \/ Has(deployer, n, goal) \/ Has(limits, n, goal)
        \/ Has(quota, n, goal) \/ Has(policy, n, goal)
    <2>1. PICK k \in DOMAIN <<space, deployer, limits, quota, policy>> :
              Has(<<space, deployer, limits, quota, policy>>[k], n, goal)
      BY <1>1, AllGoalsHave
    <2> HIDE DEF space, deployer, limits, quota, policy
    <2>2. k = 1 \/ k = 2 \/ k = 3 \/ k = 4 \/ k = 5
      BY <2>1
    <2> QED BY <2>1, <2>2
  <1>3. CASE Has(space, n, goal) \/ Has(deployer, n, goal) \/ Has(policy, n, goal)
    <2> DEFINE given == New(<<"netpol", ns>>, InPlace(T!NamespacePolicy(args), {}, {<<"ns", ns>>}))
    <2>0. policy = When(args.networkPolicy # "off", given)
      BY EnvelopeIs
    <2>1. n \in {<<"ns", ns>>, <<"deployer", ns>>, <<"netpol", ns>>}
      <3>1. CASE Has(policy, n, goal)
        <4>1. Has(given, n, goal)
          <5> HIDE DEF given, policy
          <5> QED BY <2>0, <3>1, WhenHas
        <4> QED BY <4>1, NewHas
      <3>2. CASE Has(space, n, goal)
        BY <3>2, NewHas
      <3>3. CASE Has(deployer, n, goal)
        <4>1. PICK made : deployer = New(<<"deployer", ns>>, made)
          OBVIOUS
        <4> HIDE DEF deployer
        <4> QED BY <3>3, <4>1, NewHas
      <3> QED BY <1>3, <3>1, <3>2, <3>3
    <2> QED BY <2>1 DEF EnvelopeGoal
  <1>4. CASE Has(limits, n, goal)
    <2> DEFINE given == New(<<"limits", ns>>, InPlace(args.limits, {}, {<<"ns", ns>>}))
    <2>0. args.limits # Unset /\ Has(given, n, goal)
      <3>1. limits = When(args.limits # Unset, given)
        BY EnvelopeIs
      <3> HIDE DEF given, limits
      <3> QED BY <1>4, <3>1, WhenHas
    <2>1. /\ args.limits # Unset /\ n = <<"limits", ns>>
          /\ goal = InPlace(args.limits, {}, {<<"ns", ns>>})
      BY <2>0, NewHas
    <2>2. goal.key = "same" /\ goal.data = args.limits
      BY <2>1 DEF InPlace, Goal
    <2> QED BY <2>1, <2>2 DEF EnvelopeGoal
  <1>5. CASE Has(quota, n, goal)
    <2> DEFINE deps == {<<"ns", ns>>} \cup IF args.limits # Unset THEN {<<"limits", ns>>} ELSE {}
    <2> DEFINE given == New(<<"quota", ns>>, InPlace(T!Hard(T!QuotaOf(args, entry)), {}, deps))
    <2>0. T!QuotaOf(args, entry) # Unset /\ Has(given, n, goal)
      <3>1. quota = When(T!QuotaOf(args, entry) # Unset, given)
        BY DEF T!QuotaGoal, T!When, When, T!New, New, T!NoGoals, NoGoals, T!InPlace, InPlace, T!Goal, Goal
      <3> HIDE DEF given, quota
      <3> QED BY <1>5, <3>1, WhenHas
    <2>1. /\ T!QuotaOf(args, entry) # Unset /\ n = <<"quota", ns>>
          /\ goal = InPlace(T!Hard(T!QuotaOf(args, entry)), {}, deps)
      <3> HIDE DEF deps
      <3> QED BY <2>0, NewHas
    <2>2. args.limits # Unset => <<"limits", ns>> \in deps
      OBVIOUS
    <2> HIDE DEF deps
    <2>3. goal.key = "same" /\ goal.data = T!Hard(T!QuotaOf(args, entry)) /\ goal.deps = deps
      BY <2>1 DEF InPlace, Goal
    <2> QED BY <2>1, <2>2, <2>3 DEF EnvelopeGoal
  <1> QED BY <1>2, <1>3, <1>4, <1>5

LEMMA TenantEnvelopes ==
    ASSUME NEW q \in DOMAIN Plans, q[1] = "tenant", NEW i \in DOMAIN Plans[q]
    PROVE  EnvelopeGoal(ArgsOf(q), i, Plans[q][i])
  <1>0. PICK args, goal : args = ArgsOf(q) /\ goal = Plans[q][i]
    OBVIOUS
  <1>1. Has(T!TenantPlan(args), i, goal)
    BY <1>0, PlansAre DEF Has
  <1>2. ASSUME NEW e \in DOMAIN args.namespaces,
               Has(T!NamespaceGoals(args, args.namespaces[e]), i, goal)
        PROVE  EnvelopeGoal(args, i, goal)
    <2>1. PICK entry : entry = args.namespaces[e]
      OBVIOUS
    <2>2. entry \in ToSet(args.namespaces)
      BY <2>1 DEF ToSet
    <2>3. Has(T!NamespaceGoals(args, entry), i, goal)
      BY <1>2, <2>1
    <2> QED BY <2>2, <2>3, EnvelopeGoalsAre
  <1>3. ASSUME NEW g \in DOMAIN args.grants, Has(T!GrantGoal(args, args.grants[g]), i, goal)
        PROVE  EnvelopeGoal(args, i, goal)
    <2>1. PICK h : h = args.grants[g]
      OBVIOUS
    <2>2. Has(T!GrantGoal(args, h), i, goal)
      BY <1>3, <2>1
    <2>3. i = GrantName(h)
      BY <2>2, GrantGoalIs
    <2>4. i[1] = "grant"
      BY <2>3 DEF GrantName
    <2> QED BY <2>4 DEF EnvelopeGoal
  <1> QED BY <1>0, <1>1, <1>2, <1>3, TenantGoals

\* Each namespace has the LimitRange of its tenant.
LEMMA LimitsArePlanned ==
    ASSUME NEW q \in DOMAIN Plans, q[1] = "tenant", ArgsOf(q).limits # Unset,
           NEW entry \in ToSet(ArgsOf(q).namespaces)
    PROVE  <<"limits", entry.name>> \in DOMAIN Plans[q]
  <1>0. PICK args : args = ArgsOf(q)
    OBVIOUS
  <1>1. PICK ns : ns = entry.name
    OBVIOUS
  <1>2. PICK limits : limits = New(<<"limits", ns>>, InPlace(args.limits, {}, {<<"ns", ns>>}))
    OBVIOUS
  <1>3. PICK space, deployer, quota, policy :
           T!NamespaceGoals(args, entry) = AllGoals(<<space, deployer, limits, quota, policy>>)
    <2>1. T!LimitRangeGoal(args, ns) = limits
      BY <1>0, <1>2, EnvelopeIs DEF When
    <2> DEFINE a == New(<<"ns", ns>>, InPlace(args.id, {}, {}))
               b == New(<<"deployer", ns>>,
                        Goal(args.deployerRole, args.deployer, FALSE, {}, {<<"ns", ns>>}))
               d == T!QuotaGoal(args, ns, T!QuotaOf(args, entry))
               e == T!PolicyGoal(args, ns)
    <2>2. T!NamespaceGoals(args, entry) = AllGoals(<<a, b, T!LimitRangeGoal(args, ns), d, e>>)
      BY <1>1, SameWriting DEF T!NamespaceGoals
    <2> HIDE DEF a, b, d, e
    <2> QED BY <2>1, <2>2
  <1>4. <<"limits", ns>> \in DOMAIN T!NamespaceGoals(args, entry)
    <2>1. PICK all : all = <<space, deployer, limits, quota, policy>>
      OBVIOUS
    <2>2. 3 \in DOMAIN all /\ all[3] = limits
      BY <2>1
    <2>3. <<"limits", ns>> \in DOMAIN limits
      BY <1>2 DEF New
    <2>4. DOMAIN AllGoals(all) = UNION {DOMAIN all[k] : k \in DOMAIN all}
      BY AllGoalsHave
    <2> QED BY <1>3, <2>1, <2>2, <2>3, <2>4
  <1>5. PICK spaces : spaces = [e \in DOMAIN args.namespaces |-> T!NamespaceGoals(args, args.namespaces[e])]
    OBVIOUS
  <1>6. PICK grants : grants = AllGoals([k \in DOMAIN args.grants |-> T!GrantGoal(args, args.grants[k])])
    OBVIOUS
  <1>7. Plans[q] = AllGoals(<<AllGoals(spaces), grants>>)
    BY <1>0, <1>5, <1>6, PlansAre, SameWriting DEF T!TenantPlan
  <1>8. PICK e \in DOMAIN args.namespaces : args.namespaces[e] = entry
    BY <1>0 DEF ToSet
  <1>9. <<"limits", ns>> \in DOMAIN AllGoals(spaces)
    <2>1. e \in DOMAIN spaces /\ spaces[e] = T!NamespaceGoals(args, entry)
      BY <1>5, <1>8
    <2>2. DOMAIN AllGoals(spaces) = UNION {DOMAIN spaces[k] : k \in DOMAIN spaces}
      BY AllGoalsHave
    <2> QED BY <1>4, <2>1, <2>2
  <1>10. DOMAIN AllGoals(<<AllGoals(spaces), grants>>) = DOMAIN AllGoals(spaces) \cup DOMAIN grants
    BY TwoHave
  <1> QED BY <1>1, <1>7, <1>9, <1>10

\* A quota that is accepted forces what its program's LimitRange fills in.
LEMMA QuotaForces ==
    ASSUME NEW q \in DOMAIN Plans, q[1] = "tenant", NEW i \in DOMAIN Plans[q], i[1] = "quota"
    PROVE  /\ Plans[q][i].key = "same" /\ T!Defaulted(ArgsOf(q).limits, Plans[q][i].data)
           /\ ArgsOf(q).limits # Unset =>
                 /\ <<"limits", i[2]>> \in Plans[q][i].deps
                 /\ <<"limits", i[2]>> \in DOMAIN Plans[q]
  <1>0. PICK args : args = ArgsOf(q)
    OBVIOUS
  <1>1. PICK entry \in ToSet(args.namespaces) :
           /\ i = <<"quota", entry.name>> /\ Plans[q][i].key = "same"
           /\ T!QuotaOf(args, entry) # Unset
           /\ Plans[q][i].data = T!Hard(T!QuotaOf(args, entry))
           /\ args.limits # Unset => <<"limits", entry.name>> \in Plans[q][i].deps
    BY <1>0, TenantEnvelopes DEF EnvelopeGoal
  <1>2. T!EnvelopeAccepted(T!QuotaOf(args, entry), args.limits)
    BY <1>0, <1>1, PlansAre DEF T!TenantAccepts, ToSet, T!ToSet
  <1>3. T!Defaulted(args.limits, Plans[q][i].data)
    BY <1>1, <1>2 DEF T!EnvelopeAccepted
  <1>4. args.limits # Unset => <<"limits", entry.name>> \in DOMAIN Plans[q]
    BY <1>0, LimitsArePlanned
  <1> QED BY <1>0, <1>1, <1>3, <1>4

-----------------------------------------------------------------------------
(* What a quota forces has its defaults *)

LimitsOf(i) == <<"limits", i[2]>>

\* A quota is never ahead of the LimitRange it was accepted with, and both are
\* of programs up to the present one.
QuotaFrom(i, q) ==
    /\ MadeFrom(i, Now(i), q) /\ q[2] <= program[2]
    /\ ArgsOf(q).limits # Unset =>
          /\ LimitsOf(i) \in Names
          /\ \E p : /\ MadeFrom(LimitsOf(i), Now(LimitsOf(i)), p)
                    /\ q[2] <= p[2] /\ p[2] <= program[2]

QuotaInv == \A i \in Names : i[1] = "quota" => \E q : QuotaFrom(i, q)

LEMMA TenantPrograms ==
    ASSUME "tenant" \in Growing, NEW q \in Programs, q[1] = "tenant"
    PROVE  q = <<"tenant", q[2]>> /\ q[2] \in Nat
  <1>1. PICK f \in Families : q \in {<<f, n>> : n \in DOMAIN Args[f]}
    BY TablesAssumption DEF ProgramsOfAll
  <1>2. PICK n \in DOMAIN Args[f] : q = <<f, n>>
    BY <1>1
  <1> QED BY <1>2, ArgsAssumption

LEMMA PlannedPrograms == ASSUME NEW q \in DOMAIN Plans PROVE q \in Programs
  BY TablesAssumption DEF PlansOfAll

LEMMA ProgramGrows ==
    ASSUME "tenant" \in Growing, program \in Programs, program[1] = "tenant", [Next]_vars
    PROVE  program[2] \in Nat /\ program'[2] \in Nat /\ program[2] <= program'[2]
  <1>1. program'[1] = "tenant" /\ program' \in Programs
    BY FamilyKept
  <1>2. program[2] \in Nat /\ program'[2] \in Nat
    BY <1>1, TenantPrograms
  <1>3. ASSUME NEW p \in Programs, Edit(p) PROVE program[2] < program'[2]
    <2>1. <<program, p>> \in FollowsOfAll /\ program' = p
      BY <1>3, TablesAssumption DEF Edit
    <2> QED BY <2>1 DEF FollowsOfAll
  <1>4. ASSUME ~\E p \in Programs : Edit(p) PROVE program' = program
    BY <1>4 DEF Next, Step, Start, Keep, Sweep, Finish, Apply, DropFor, Delete, Throw, Fail, vars
  <1> QED BY <1>2, <1>3, <1>4

LEMMA WantedIsMade ==
    ASSUME OfFamily(program), plan = Plans[program], NEW i \in DOMAIN plan
    PROVE  MadeFrom(i, Wanted(i), program)
  BY WantedRefs DEF MadeFrom, Wanted

LEMMA MadeKept ==
    ASSUME [Next]_vars, NEW i, NEW q, MadeFrom(i, Now(i), q), Now(i)' = Now(i)
    PROVE  MadeFrom(i, Now(i), q)'
  BY FamilyKept DEF MadeFrom

LEMMA QuotaKept ==
    ASSUME "tenant" \in Growing, program \in Programs, program[1] = "tenant", [Next]_vars,
           NEW i, NEW q, QuotaFrom(i, q), Now(i)' = Now(i),
           ArgsOf(q).limits # Unset =>
              /\ LimitsOf(i) \in Names'
              /\ \/ Now(LimitsOf(i))' = Now(LimitsOf(i))
                 \/ MadeFrom(LimitsOf(i), Now(LimitsOf(i)), program)' /\ program' = program
    PROVE  QuotaFrom(i, q)'
  <1>1. program[2] \in Nat /\ program'[2] \in Nat /\ program[2] <= program'[2]
    BY ProgramGrows
  <1>2. q[2] \in Nat
    BY PlannedPrograms, TenantPrograms DEF QuotaFrom, MadeFrom, OfFamily
  <1>3. MadeFrom(i, Now(i), q)' /\ q[2] <= program'[2]
    BY <1>1, <1>2, MadeKept DEF QuotaFrom
  <1>4. ASSUME ArgsOf(q).limits # Unset
        PROVE  \E p : (MadeFrom(LimitsOf(i), Now(LimitsOf(i)), p))' /\ q[2] <= p[2] /\ p[2] <= program'[2]
    <2>1. CASE Now(LimitsOf(i))' = Now(LimitsOf(i))
      <3>1. PICK p : /\ MadeFrom(LimitsOf(i), Now(LimitsOf(i)), p)
                     /\ q[2] <= p[2] /\ p[2] <= program[2]
        BY <1>4 DEF QuotaFrom
      <3>2. p[2] \in Nat
        BY <3>1, PlannedPrograms, TenantPrograms DEF MadeFrom, OfFamily
      <3>3. (MadeFrom(LimitsOf(i), Now(LimitsOf(i)), p))'
        BY <2>1, <3>1, MadeKept
      <3> QED BY <1>1, <1>2, <3>1, <3>2, <3>3
    <2>2. CASE MadeFrom(LimitsOf(i), Now(LimitsOf(i)), program)' /\ program' = program
      <3>1. q[2] <= program[2]
        BY DEF QuotaFrom
      <3> QED BY <1>1, <2>2, <3>1
    <2> QED BY <1>4, <2>1, <2>2
  <1> QED BY <1>3, <1>4 DEF QuotaFrom

LEMMA EnvelopeKeys ==
    ASSUME program[1] = "tenant", NEW i, i[1] \in {"quota", "limits"}, NEW q, NEW o, MadeFrom(i, o, q)
    PROVE  o.key = "same" /\ q[1] = "tenant"
  BY TenantEnvelopes DEF EnvelopeGoal, MadeFrom, OfFamily

LEMMA QuotaStep ==
    ASSUME "tenant" \in Growing, program[1] = "tenant", EngineInv, QuotaInv, [Next]_vars
    PROVE  QuotaInv'
  <1> SUFFICES ASSUME NEW n \in Names', n[1] = "quota" PROVE \E q : QuotaFrom(n, q)'
    BY DEF QuotaInv
  <1> DEFINE lim == LimitsOf(n)
  <1>0. program \in Programs /\ lim # n /\ lim[1] = "limits"
    BY DEF EngineInv, PlanInv, LimitsOf
  <1> HIDE DEF lim
  <1>1. \A i \in Names : Recorded(i) /\ current[i] = 1 /\ DOMAIN live[i] = {1}
    BY TenantFixed DEF EngineInv, FixedInv
  <1>2. ASSUME n \in Names PROVE \E q : QuotaFrom(n, q)
    BY <1>2 DEF QuotaInv
  <1>3. ASSUME NEW q, QuotaFrom(n, q), Now(n)' = Now(n), lim \in Names => lim \in Names',
               lim \in Names => Now(lim)' = Now(lim)
        PROVE  QuotaFrom(n, q)'
    BY <1>0, <1>3, QuotaKept DEF lim, QuotaFrom
  <1>4. CASE UNCHANGED <<live, current>>
    <2>1. Names' = Names /\ \A i : Now(i)' = Now(i)
      BY <1>4 DEF Names, Now
    <2> QED BY <1>2, <1>3, <2>1
  <1>5. ASSUME OfFamily(program), plan = Plans[program], Changes PROVE \E q : QuotaFrom(n, q)'
    <2>1. ASSUME n \in DOMAIN plan, n \in Names, ArgsOf(program).limits # Unset
          PROVE  lim \in Needs(n)
      BY <1>5, <2>1, QuotaForces DEF OfFamily, LimitsOf, lim, Needs
    <2>2. \A i \in DOMAIN plan : MadeFrom(i, Wanted(i), program)
      BY <1>5, WantedIsMade
    <2>3. program[2] \in Nat
      BY <1>0, ProgramGrows
    <2>4. ASSUME NEW i \in DOMAIN plan, NEW e, Applied(i, e) PROVE \E q : QuotaFrom(n, q)'
      <3>1. /\ i \in Names' /\ Now(i)' = Wanted(i) /\ program' = program
            /\ \A k \in Names \ {i} : k \in Names' /\ Now(k)' = Now(k)
        BY <1>1, <2>4 DEF Applied, PutAt, Names, Now, Recorded
      <3>2. MadeFrom(i, Now(i), program)'
        BY <2>2, <3>1, FamilyKept DEF MadeFrom
      <3>3. CASE i = n
        <4>1. ASSUME ArgsOf(program).limits # Unset
              PROVE  lim \in Names' /\ MadeFrom(lim, Now(lim), program)'
          <5>1. lim \in Needs(n)
            BY <1>5, <3>3, <4>1, QuotaForces DEF OfFamily, LimitsOf, lim, Needs
          <5>2. lim \in DOMAIN plan /\ Recorded(lim) /\ Now(lim) = Wanted(lim)
            BY <2>4, <3>3, <5>1 DEF Applied, Correct, Needs
          <5>3. lim \in Names
            BY <5>2 DEF EngineInv, LiveInv, Recorded
          <5>4. lim \in Names' /\ Now(lim)' = Now(lim)
            BY <1>0, <3>1, <3>3, <5>3
          <5>5. MadeFrom(lim, Now(lim), program)
            BY <2>2, <5>2
          <5> QED BY <3>1, <5>4, <5>5, MadeKept, FamilyKept DEF MadeFrom
        <4>2. QuotaFrom(n, program)'
          BY <2>3, <3>1, <3>2, <3>3, <4>1 DEF QuotaFrom, lim
        <4> QED BY <3>1, <4>2
      <3>4. CASE i # n
        <4>1. n \in Names
          BY <2>4, <3>4 DEF Applied, PutAt, Names
        <4>2. PICK q : QuotaFrom(n, q)
          BY <1>2, <4>1
        <4>3. Now(n)' = Now(n)
          BY <3>1, <3>4, <4>1
        <4>4. CASE i = lim
          <5>1. MadeFrom(LimitsOf(n), Now(LimitsOf(n)), program)' /\ LimitsOf(n) \in Names'
            BY <3>1, <3>2, <4>4 DEF lim
          <5> QED BY <1>0, <3>1, <4>2, <4>3, <5>1, QuotaKept
        <4>5. CASE i # lim
          BY <1>3, <3>1, <4>2, <4>3, <4>5
        <4> QED BY <4>4, <4>5
      <3> QED BY <3>3, <3>4
    <2>5. ASSUME NEW j \in Names, NEW e \in DOMAIN live[j], DroppedAt(j, e), j # lim
          PROVE  \E q : QuotaFrom(n, q)'
      <3>1. n \in Names /\ n # j
        BY <1>1, <2>5 DEF DroppedAt, Names
      <3>2. \A k \in Names \ {j} : k \in Names' /\ Now(k)' = Now(k)
        BY <1>1, <2>5 DEF DroppedAt, Names, Now, Recorded
      <3> QED BY <1>2, <1>3, <2>5, <3>1, <3>2
    <2>6. ASSUME NEW i \in DOMAIN plan, NEW j \in Names, NEW e \in DOMAIN live[j], DroppedFor(i, j, e)
          PROVE  \E q : QuotaFrom(n, q)'
      <3>1. \A q : OfFamily(q) => \A k \in DOMAIN Plans[q] :
               k \in Names \ {i} => Plans[q][k].refs \cap {i} = {}
        BY TenantPlans DEF OfFamily
      <3>2. j = i
        <4>1. j \in {i}
          BY <2>6, <3>1, UpwardWithin DEF DroppedFor, EngineInv
        <4> QED BY <4>1
      <3>3. CASE j = lim
        <4>1. PICK q : MadeFrom(i, Now(i), q)
          BY <1>1, <3>2 DEF EngineInv, MadeInv, Made, Now
        <4>2. Now(i).key = "same"
          BY <1>0, <3>2, <3>3, <4>1, EnvelopeKeys
        <4>3. plan[i].key = "same"
          <5>1. MadeFrom(i, Wanted(i), program)
            BY <2>2
          <5>2. Wanted(i).key = "same"
            BY <1>0, <3>2, <3>3, <5>1, EnvelopeKeys
          <5> QED BY <5>2 DEF Wanted
        <4> QED BY <2>6, <4>2, <4>3 DEF DroppedFor
      <3> QED BY <2>5, <2>6, <3>3 DEF DroppedFor
    <2>7. ASSUME NEW j \in Names, NEW e \in DOMAIN live[j], Dropped(j, e)
          PROVE  \E q : QuotaFrom(n, q)'
      <3>1. DroppedAt(j, e) /\ program' = program /\ Correct(DOMAIN plan)
        BY <2>7 DEF Dropped
      <3>2. CASE j # lim
        BY <2>5, <3>1, <3>2
      <3>3. CASE j = lim
        <4>1. lim \notin DOMAIN plan /\ e = 1
          BY <1>1, <2>7, <3>3 DEF Dropped
        <4>2. n \in Names /\ Now(n)' = Now(n)
          BY <1>0, <1>1, <3>1, <3>3 DEF DroppedAt, Names, Now, Recorded
        <4>3. PICK q : QuotaFrom(n, q)
          BY <1>2, <4>2
        <4>4. CASE ArgsOf(q).limits = Unset
          BY <1>0, <4>2, <4>3, <4>4, QuotaKept
        <4>5. CASE ArgsOf(q).limits # Unset /\ n \in DOMAIN plan
          <5>1. ArgsOf(program).limits = Unset
            BY <2>1, <4>1, <4>2, <4>5 DEF Needs
          <5>2. Now(n) = Wanted(n)
            BY <3>1, <4>5 DEF Correct
          <5>3. MadeFrom(n, Now(n), program)
            BY <2>2, <4>5, <5>2
          <5>4. MadeFrom(n, Now(n), program)'
            BY <3>1, <4>2, <5>3, FamilyKept DEF MadeFrom
          <5>5. QuotaFrom(n, program)'
            BY <2>3, <3>1, <5>1, <5>4 DEF QuotaFrom
          <5> QED BY <3>1, <5>5
        <4>6. CASE ArgsOf(q).limits # Unset /\ n \notin DOMAIN plan
          <5>1. lim \in Now(n).deps
            BY <4>3, <4>6, QuotaForces, <1>0 DEF QuotaFrom, MadeFrom, OfFamily, LimitsOf, lim
          <5>2. <<n, 1>> \in Objects /\ Object(<<n, 1>>) = Now(n)
            BY <1>1, <4>2, ObjectsAre DEF Object, Now
          <5>3. <<n, 1>> \in Leftover /\ <<n, 1>> \in Dependents(<<lim, 1>>)
            BY <4>6, <5>1, <5>2 DEF Leftover, Dependents
          <5>4. <<n, 1>> # <<lim, 1>>
            BY <1>0
          <5>5. (Dependents(<<lim, 1>>) \cap Leftover) \ {<<lim, 1>>} = {}
            BY <2>7, <3>3, <4>1 DEF Dropped
          <5> QED BY <5>3, <5>4, <5>5
        <4> QED BY <4>4, <4>5, <4>6
      <3> QED BY <3>2, <3>3
    <2> QED BY <1>5, <2>4, <2>6, <2>7 DEF Changes
  <1>6. \A q : OfFamily(q) => \A i \in DOMAIN Plans[q] : Plans[q][i].auto \in BOOLEAN
    BY TenantPlans DEF OfFamily
  <1> QED BY <1>4, <1>5, <1>6, NextChanges

\* What an earlier program has a default for, a later one has: as long as a
\* tenant has a LimitRange, its defaults only become more.
DefaultsGrow ==
    \A q, p \in DOMAIN Plans :
        /\ q[1] = "tenant" /\ p[1] = "tenant" /\ q[2] < p[2]
        /\ ArgsOf(q).limits # Unset /\ ArgsOf(p).limits # Unset
        => \A field \in {"request", "limit"} : \A resource \in {"cpu", "memory"} :
              T!LimitRangeDefaults(ArgsOf(q).limits, field, resource)
                 => T!LimitRangeDefaults(ArgsOf(p).limits, field, resource)

LEMMA DefaultsKept ==
    ASSUME NEW limits, NEW later, NEW keys, T!Defaulted(limits, keys),
           \A field \in {"request", "limit"} : \A resource \in {"cpu", "memory"} :
              T!LimitRangeDefaults(limits, field, resource)
                 => T!LimitRangeDefaults(later, field, resource)
    PROVE  T!Defaulted(later, keys)
  <1>1. ASSUME NEW k \in keys, T!ForcedDeclaration(k) # Unset
        PROVE  T!LimitRangeDefaults(later, T!ForcedDeclaration(k).field, T!ForcedDeclaration(k).resource)
    <2>1. PICK d : d = T!ForcedDeclaration(k)
      OBVIOUS
    <2>2. d.field \in {"request", "limit"} /\ d.resource \in {"cpu", "memory"}
      BY <1>1, <2>1 DEF T!ForcedDeclaration
    <2>3. d \in {T!ForcedDeclaration(x) : x \in keys} \ {Unset}
      BY <1>1, <2>1
    <2>4. T!LimitRangeDefaults(limits, d.field, d.resource)
      BY <2>3 DEF T!Defaulted
    <2> QED BY <2>1, <2>2, <2>4
  <1>2. ASSUME NEW d \in {T!ForcedDeclaration(k) : k \in keys} \ {Unset}
        PROVE  T!LimitRangeDefaults(later, d.field, d.resource)
    BY <1>1, <1>2
  <1> QED BY <1>2 DEF T!Defaulted

LEMMA QuotasFit ==
    ASSUME "tenant" \in Growing, DefaultsGrow, EngineInv, program[1] = "tenant", QuotaInv
    PROVE  QuotaAdmits
  <1> SUFFICES ASSUME NEW n \in Names, n[1] = "quota"
               PROVE  T!Defaulted(LiveLimits(n[2]), Now(n).data)
    BY DEF QuotaAdmits, Names
  <1>1. PICK q : QuotaFrom(n, q)
    BY DEF QuotaInv
  <1>2. q \in DOMAIN Plans /\ q[1] = "tenant" /\ T!Defaulted(ArgsOf(q).limits, Now(n).data)
    BY <1>1, QuotaForces DEF QuotaFrom, MadeFrom, OfFamily
  <1>3. CASE ArgsOf(q).limits = Unset
    <2>1. \A field, resource : ~T!LimitRangeDefaults(ArgsOf(q).limits, field, resource)
      BY <1>3 DEF T!LimitRangeDefaults
    <2> QED BY <1>2, <2>1, DefaultsKept
  <1>4. CASE ArgsOf(q).limits # Unset
    <2>1. PICK p : /\ MadeFrom(LimitsOf(n), Now(LimitsOf(n)), p) /\ q[2] <= p[2]
      BY <1>1, <1>4 DEF QuotaFrom
    <2>2. p \in DOMAIN Plans /\ p[1] = "tenant" /\ LimitsOf(n) \in DOMAIN Plans[p]
      BY <2>1 DEF MadeFrom, OfFamily
    <2>3. ArgsOf(p).limits # Unset /\ Now(LimitsOf(n)).data = ArgsOf(p).limits
      <3>1. LimitsOf(n)[1] = "limits"
        BY DEF LimitsOf
      <3>2. EnvelopeGoal(ArgsOf(p), LimitsOf(n), Plans[p][LimitsOf(n)])
        BY <2>2, TenantEnvelopes
      <3> QED BY <2>1, <3>1, <3>2 DEF EnvelopeGoal, MadeFrom
    <2>4. LiveLimits(n[2]) = ArgsOf(p).limits
      BY <1>1, <1>4, <2>3 DEF LiveLimits, Exists, LimitsOf, QuotaFrom, Names
    <2>5. /\ q = <<"tenant", q[2]>> /\ q[2] \in Nat
          /\ p = <<"tenant", p[2]>> /\ p[2] \in Nat
      BY <1>2, <2>2, PlannedPrograms, TenantPrograms
    <2>6. CASE q = p
      BY <1>2, <2>4, <2>6
    <2>7. CASE q # p
      <3>1. q[2] < p[2]
        BY <2>1, <2>5, <2>7
      <3>2. \A field \in {"request", "limit"} : \A resource \in {"cpu", "memory"} :
               T!LimitRangeDefaults(ArgsOf(q).limits, field, resource)
                  => T!LimitRangeDefaults(ArgsOf(p).limits, field, resource)
        BY <1>2, <1>4, <2>2, <2>3, <3>1 DEF DefaultsGrow
      <3> QED BY <1>2, <2>4, <3>2, DefaultsKept
    <2> QED BY <2>6, <2>7
  <1> QED BY <1>3, <1>4

-----------------------------------------------------------------------------
(* The groups of a proxy *)

\* Some first lists are put together one after the other.
Joins(ss, n, h) ==
    /\ h = [i \in 1 .. n |-> h[i]]
    /\ \A i \in 1 .. n : h[i] = IF i = 1 THEN ss[i] ELSE h[i - 1] \o ss[i]

LEMMA JoinsExist ==
    ASSUME NEW ss, NEW len \in Nat, NEW n \in 1 .. len
    PROVE  \E h : Joins(ss, n, h)
  <1> DEFINE ns == {k \in 1 .. len : ~\E h : Joins(ss, k, h)}
  <1> SUFFICES ASSUME ns # {} PROVE FALSE
    OBVIOUS
  <1>1. PICK m \in ns : \A k \in ns : m <= k
    <2>1. ns \subseteq Nat
      OBVIOUS
    <2> HIDE DEF ns
    <2> QED BY <2>1, LeastElement
  <1>2. CASE m = 1
    <2> DEFINE h == [i \in 1 .. 1 |-> ss[1]]
    <2>1. h = [i \in 1 .. 1 |-> h[i]] /\ \A i \in 1 .. 1 : i = 1 /\ h[i] = ss[i]
      OBVIOUS
    <2> HIDE DEF h
    <2>2. Joins(ss, 1, h)
      BY <2>1 DEF Joins
    <2> QED BY <1>2, <2>2
  <1>3. CASE m # 1
    <2>1. m \in Nat /\ m > 1 /\ m - 1 \in 1 .. len /\ m - 1 \notin ns
      BY <1>1, <1>3
    <2>2. PICK h : Joins(ss, m - 1, h)
      BY <2>1
    <2> DEFINE long == [i \in 1 .. m |-> IF i = m THEN h[m - 1] \o ss[m] ELSE h[i]]
    <2>3. long = [i \in 1 .. m |-> long[i]]
      OBVIOUS
    <2>4. ASSUME NEW i \in 1 .. m PROVE long[i] = IF i = 1 THEN ss[i] ELSE long[i - 1] \o ss[i]
      <3>1. CASE i = m
        <4>1. m \in 1 .. m /\ m - 1 \in 1 .. m /\ m # 1 /\ m - 1 # m
          BY <2>1
        <4>2. long[m] = h[m - 1] \o ss[m] /\ long[m - 1] = h[m - 1]
          BY <4>1
        <4> HIDE DEF long
        <4> QED BY <3>1, <4>1, <4>2
      <3>2. CASE i # m
        <4>1. i \in 1 .. m - 1 /\ i # m /\ (i # 1 => i - 1 \in 1 .. m /\ i - 1 # m)
          BY <2>1, <3>2
        <4>2. h[i] = IF i = 1 THEN ss[i] ELSE h[i - 1] \o ss[i]
          BY <2>2, <4>1 DEF Joins
        <4> QED BY <4>1, <4>2
      <3> QED BY <3>1, <3>2
    <2> HIDE DEF long
    <2>5. Joins(ss, m, long)
      BY <2>3, <2>4 DEF Joins
    <2> QED BY <2>5
  <1> QED BY <1>2, <1>3

LEMMA JoinedFirst ==
    ASSUME NEW X, NEW a \in Seq(X), NEW b \in Seq(X), NEW j \in DOMAIN a
    PROVE  j \in DOMAIN (a \o b) /\ (a \o b)[j] = a[j]
  OBVIOUS

\* What is in one of the lists is in the list of them all.
LEMMA FlattenHas ==
    ASSUME NEW X, NEW ss \in Seq(Seq(X)), NEW t \in DOMAIN ss, NEW k \in DOMAIN ss[t]
    PROVE  ss[t][k] \in ToSet(FlattenSeq(ss))
  <1> DEFINE n == Len(ss)
             flatten == CHOOSE f : f = [i \in 1 .. n |-> IF i = 1 THEN ss[i] ELSE f[i - 1] \o ss[i]]
  <1>1. n \in Nat /\ n # 0 /\ DOMAIN ss = 1 .. n /\ t \in 1 .. n
    OBVIOUS
  <1>2. flatten = [i \in 1 .. n |-> IF i = 1 THEN ss[i] ELSE flatten[i - 1] \o ss[i]]
    <2>1. PICK h : Joins(ss, n, h)
      <3>1. n \in 1 .. n
        BY <1>1
      <3> QED BY <1>1, <3>1, JoinsExist
    <2>5. h = [i \in 1 .. n |-> IF i = 1 THEN ss[i] ELSE h[i - 1] \o ss[i]]
      BY <2>1 DEF Joins
    <2> QED BY <2>5
  <1>3. FlattenSeq(ss) = flatten[n]
    BY <1>1 DEF FlattenSeq
  <1> HIDE DEF flatten
  <1>4. \A i \in 1 .. n : flatten[i] \in Seq(X)
    <2> DEFINE ns == {i \in 1 .. n : flatten[i] \notin Seq(X)}
    <2> SUFFICES ASSUME ns # {} PROVE FALSE
      OBVIOUS
    <2>1. PICK m \in ns : \A i \in ns : m <= i
      <3>1. ns \subseteq Nat
        BY <1>1
      <3> HIDE DEF ns
      <3> QED BY <3>1, LeastElement
    <2>2. m \in 1 .. n /\ flatten[m] \notin Seq(X) /\ ss[m] \in Seq(X)
      BY <1>1, <2>1
    <2>3. CASE m = 1
      BY <1>2, <2>2, <2>3
    <2>4. CASE m # 1
      <3>1. m - 1 \in 1 .. n /\ m - 1 \notin ns
        BY <1>1, <2>1, <2>2, <2>4
      <3>2. PICK a, b : a = flatten[m - 1] /\ b = ss[m]
        OBVIOUS
      <3>3. a \in Seq(X) /\ b \in Seq(X)
        BY <2>2, <3>1, <3>2
      <3>4. flatten[m] = a \o b
        BY <1>2, <2>2, <2>4, <3>2
      <3>5. a \o b \in Seq(X)
        BY <3>3
      <3> QED BY <2>2, <3>4, <3>5
    <2> QED BY <2>3, <2>4
  <1> DEFINE Holds(s) == \E j \in DOMAIN s : s[j] = ss[t][k]
  <1>5. \A i \in 1 .. n : i >= t => Holds(flatten[i])
    <2> DEFINE ns == {i \in 1 .. n : i >= t /\ ~Holds(flatten[i])}
    <2> SUFFICES ASSUME ns # {} PROVE FALSE
      OBVIOUS
    <2>1. PICK m \in ns : \A i \in ns : m <= i
      <3>1. ns \subseteq Nat
        BY <1>1
      <3> HIDE DEF ns
      <3> QED BY <3>1, LeastElement
    <2>2. m \in 1 .. n /\ m >= t /\ ~Holds(flatten[m]) /\ ss[t] \in Seq(X) /\ ss[m] \in Seq(X)
      BY <1>1, <2>1
    <2>3. CASE m = 1
      <3>1. m = t /\ flatten[m] = ss[t]
        BY <1>1, <1>2, <2>2, <2>3
      <3> QED BY <2>2, <3>1
    <2>4. CASE m # 1
      <3>1. m - 1 \in 1 .. n
        BY <1>1, <2>2, <2>4
      <3>2. PICK a \in Seq(X) : a = flatten[m - 1]
        BY <1>4, <3>1
      <3>3. PICK b \in Seq(X) : b = ss[m]
        BY <2>2
      <3>4. flatten[m] = a \o b
        BY <1>2, <2>2, <2>4, <3>2, <3>3
      <3>5. CASE m = t
        <4>1. k \in DOMAIN b /\ b[k] = ss[t][k]
          BY <3>3, <3>5
        <4>2. Len(a) + k \in DOMAIN (a \o b) /\ (a \o b)[Len(a) + k] = b[k]
          BY <4>1
        <4>3. Holds(a \o b)
          BY <4>1, <4>2
        <4> QED BY <2>2, <3>4, <4>3
      <3>6. CASE m # t
        <4> HIDE DEF Holds
        <4>1. m - 1 >= t
          BY <1>1, <2>2, <3>6
        <4>6. m - 1 \notin ns
          BY <2>1, <2>2
        <4>2. Holds(a)
          BY <3>1, <3>2, <4>1, <4>6
        <4> USE DEF Holds
        <4>3. PICK j \in DOMAIN a : a[j] = ss[t][k]
          BY <4>2
        <4>4. j \in DOMAIN (a \o b) /\ (a \o b)[j] = a[j]
          BY <4>3, JoinedFirst
        <4>5. Holds(a \o b)
          BY <4>3, <4>4
        <4> QED BY <2>2, <3>4, <4>5
      <3> QED BY <3>5, <3>6
    <2> QED BY <2>3, <2>4
  <1>6. PICK j \in DOMAIN flatten[n] : flatten[n][j] = ss[t][k]
    <2> HIDE DEF Holds
    <2>1. n \in 1 .. n /\ n >= t
      BY <1>1
    <2>2. Holds(flatten[n])
      BY <1>5, <2>1
    <2> QED BY <2>2 DEF Holds
  <1> QED BY <1>3, <1>6 DEF ToSet

\* Every group is named at the group, and groups of one name have one public name.
GroupsNamed(args) ==
    /\ \A d \in ToSet(args.deployments) : d.teamPublicModelName = Unset
    /\ \A g, h \in ToSet(args.modelGroups) : g.name = h.name => PublicName(g) = PublicName(h)

GroupsListed(args) ==
    /\ IsList(args.modelGroups)
    /\ \A g \in ToSet(args.modelGroups) : IsList(g.deploymentIds) /\ IsList(g.fallbacks)

LEMMA ListIs ==
    ASSUME NEW s, IsList(s)
    PROVE  /\ DOMAIN s = 1 .. Len(s) /\ Len(s) \in Nat
           /\ s = <<>> <=> DOMAIN s = {}
           /\ \A k \in DOMAIN s : s[k] \in ToSet(s)
  <1>1. PICK X : s \in Seq(X)
    BY DEF IsList
  <1> QED BY <1>1 DEF ToSet

\* The entry of a model: its group, and the deployment that serves it.
LEMMA EntryIs ==
    ASSUME NEW args, ValidateLiteLLMConfig(args), GroupsNamed(args),
           NEW g \in ToSet(args.modelGroups), NEW id \in ToSet(g.deploymentIds)
    PROVE  /\ ModelEntry(args, g, id).modelName = g.name
           /\ ModelEntry(args, g, id).provider = DeploymentById(args, id).provider
           /\ ModelEntry(args, g, id).teamPublicModelName = g.teamPublicModelName
  <1>1. id \in ToSet([d \in DOMAIN args.deployments |-> args.deployments[d].id])
    BY DEF ValidateLiteLLMConfig
  <1>2. \E d \in DOMAIN args.deployments : args.deployments[d].id = id
    BY <1>1 DEF ToSet
  <1>3. DeploymentById(args, id) \in ToSet(args.deployments)
    BY <1>2 DEF DeploymentById, ToSet
  <1>4. DeploymentById(args, id).teamPublicModelName = Unset
    BY <1>3 DEF GroupsNamed
  <1> QED BY <1>4 DEF ModelEntry, Either

LEMMA ClientsAskFor ==
    ASSUME NEW args, ValidateLiteLLMConfig(args), GroupsNamed(args), GroupsListed(args),
           NEW g \in ToSet(args.modelGroups)
    PROVE  ClientNames(args, g) = {PublicName(g)}
  <1>1. ASSUME NEW id \in ToSet(g.deploymentIds)
        PROVE  /\ ModelEntry(args, g, id).modelName = g.name
               /\ ModelEntry(args, g, id).teamPublicModelName = g.teamPublicModelName
    BY <1>1, EntryIs
  <1>2. g.deploymentIds # <<>> /\ IsList(g.deploymentIds)
    BY DEF ValidateLiteLLMConfig, GroupsListed
  <1>3. PICK id : id \in ToSet(g.deploymentIds)
    BY <1>2, ListIs DEF ToSet
  <1>4. ASSUME NEW m \in {ModelEntry(args, g, i) : i \in ToSet(g.deploymentIds)}
        PROVE  Either(m.teamPublicModelName, m.modelName) = PublicName(g)
    BY <1>1, <1>4 DEF PublicName
  <1> QED BY <1>3, <1>4 DEF ClientNames

\* Of the groups of one name there is a last one, and it has their public name.
LEMMA PublicNameFound ==
    ASSUME NEW args, GroupsNamed(args), GroupsListed(args), NEW h \in ToSet(args.modelGroups)
    PROVE  PublicNameOf(args.modelGroups, h.name) = PublicName(h)
  <1>0. PICK groups : groups = args.modelGroups
    OBVIOUS
  <1>1. DOMAIN groups = 1 .. Len(groups) /\ Len(groups) \in Nat
    BY <1>0, ListIs DEF GroupsListed
  <1>2. PICK k \in DOMAIN groups : groups[k] = h
    BY <1>0 DEF ToSet
  <1> DEFINE IsLast(g) == groups[g].name = h.name /\ \A x \in DOMAIN groups : groups[x].name = h.name => x <= g
  <1>3. \E g \in DOMAIN groups : IsLast(g)
    <2> DEFINE ns == {n \in 0 .. Len(groups) : \E g \in DOMAIN groups : groups[g].name = h.name /\ n = Len(groups) - g}
    <2>1. Len(groups) - k \in ns
      BY <1>1, <1>2
    <2>2. ns \subseteq Nat
      BY <1>1
    <2>3. PICK m \in ns : \A n \in ns : m <= n
      <3> HIDE DEF ns
      <3> QED BY <2>1, <2>2, LeastElement
    <2>4. PICK g \in DOMAIN groups : groups[g].name = h.name /\ m = Len(groups) - g
      BY <2>3
    <2>5. ASSUME NEW x \in DOMAIN groups, groups[x].name = h.name PROVE x <= g
      <3>1. Len(groups) - x \in ns
        BY <1>1, <2>5
      <3>2. m <= Len(groups) - x
        BY <2>3, <3>1
      <3> HIDE DEF ns
      <3> QED BY <1>1, <2>4, <3>2
    <2> QED BY <2>4, <2>5
  <1>4. PICK g \in DOMAIN groups :
           /\ PublicNameOf(groups, h.name) = PublicName(groups[g]) /\ groups[g].name = h.name
    <2>1. PublicNameOf(groups, h.name) = PublicName(groups[CHOOSE g \in DOMAIN groups : IsLast(g)])
      BY DEF PublicNameOf
    <2> QED BY <1>3, <2>1
  <1>5. groups[g] \in ToSet(args.modelGroups)
    BY <1>0 DEF ToSet
  <1> QED BY <1>0, <1>4, <1>5 DEF GroupsNamed

LEMMA FallbacksAre ==
    ASSUME NEW args, Generates(args), GroupsNamed(args), GroupsListed(args),
           NEW g \in ToSet(args.modelGroups), NEW map, map = BuildFallbackMap(args.modelGroups)
    PROVE  IF g.fallbacks = <<>> THEN PublicName(g) \notin DOMAIN map
           ELSE /\ PublicName(g) \in DOMAIN map
                /\ Len(map[PublicName(g)]) = Len(g.fallbacks)
                /\ \A f \in DOMAIN g.fallbacks : \A h \in ToSet(args.modelGroups) :
                      h.name = g.fallbacks[f] => map[PublicName(g)][f] = PublicName(h)
  <1> DEFINE groups == ToSet(args.modelGroups)
             with   == {h \in groups : h.fallbacks # <<>>}
  <1>1. DOMAIN map = {PublicName(h) : h \in with}
    BY DEF BuildFallbackMap
  <1>2. \A n \in DOMAIN map :
           map[n] = Chain(args.modelGroups, CHOOSE h \in with : PublicName(h) = n)
    BY DEF BuildFallbackMap
  <1>3. ASSUME NEW h \in groups, PublicName(h) = PublicName(g)
        PROVE  Chain(args.modelGroups, h) = Chain(args.modelGroups, g)
    BY <1>3 DEF Generates, FallbacksAgree
  <1>4. ASSUME NEW h \in groups PROVE DOMAIN Chain(args.modelGroups, h) = DOMAIN h.fallbacks
    BY DEF Chain
  <1>5. ASSUME NEW h \in groups PROVE h.fallbacks = <<>> <=> DOMAIN h.fallbacks = {}
    BY ListIs DEF GroupsListed
  <1>6. CASE g.fallbacks = <<>>
    <2> SUFFICES ASSUME NEW h \in with, PublicName(h) = PublicName(g) PROVE FALSE
      BY <1>1, <1>6
    <2>1. DOMAIN h.fallbacks = DOMAIN g.fallbacks
      BY <1>3, <1>4
    <2> QED BY <1>5, <1>6, <2>1
  <1>7. CASE g.fallbacks # <<>>
    <2>1. PublicName(g) \in DOMAIN map
      BY <1>1, <1>7
    <2>2. PICK h \in with : PublicName(h) = PublicName(g) /\ map[PublicName(g)] = Chain(args.modelGroups, h)
      BY <1>2, <1>7, <2>1
    <2>3. map[PublicName(g)] = Chain(args.modelGroups, g)
      BY <1>3, <2>2
    <2>4. Len(Chain(args.modelGroups, g)) = Len(g.fallbacks)
      <3>1. DOMAIN g.fallbacks = 1 .. Len(g.fallbacks) /\ Len(g.fallbacks) \in Nat
        BY ListIs DEF GroupsListed
      <3>0. PICK f : f = g.fallbacks
        OBVIOUS
      <3>2. PICK n \in Nat : n = Len(g.fallbacks)
        BY <3>1
      <3>3. Chain(args.modelGroups, g) = [k \in 1 .. n |-> PublicNameOf(args.modelGroups, f[k])]
        BY <3>0, <3>1, <3>2 DEF Chain
      <3>4. Len([k \in 1 .. n |-> PublicNameOf(args.modelGroups, f[k])]) = n
        OBVIOUS
      <3> QED BY <3>2, <3>3, <3>4
    <2>5. ASSUME NEW f \in DOMAIN g.fallbacks, NEW k \in groups, k.name = g.fallbacks[f]
          PROVE  map[PublicName(g)][f] = PublicName(k)
      <3>1. Chain(args.modelGroups, g)[f] = PublicNameOf(args.modelGroups, k.name)
        BY <2>5 DEF Chain
      <3> QED BY <2>3, <3>1, PublicNameFound
    <2> QED BY <1>7, <2>1, <2>3, <2>4, <2>5
  <1> QED BY <1>6, <1>7

EntriesNamed(args, name) == {m \in ModelList(args) : m.modelName = name}

\* The model list of a proxy, by the name of a group.
LEMMA EntriesOf ==
    ASSUME NEW args, ValidateLiteLLMConfig(args), GroupsNamed(args), NEW g \in ToSet(args.modelGroups),
           \A h \in ToSet(args.modelGroups) : h.name = g.name => h = g,
           NEW entries, entries = EntriesNamed(args, g.name)
    PROVE  /\ \A m \in entries :
                 /\ m.teamPublicModelName = g.teamPublicModelName
                 /\ \E id \in ToSet(g.deploymentIds) : m.provider = DeploymentById(args, id).provider
           /\ \A id \in ToSet(g.deploymentIds) :
                 \E m \in entries : m.provider = DeploymentById(args, id).provider
  <1>1. ASSUME NEW m \in entries
        PROVE  \E id \in ToSet(g.deploymentIds) : m = ModelEntry(args, g, id)
    <2>0. m \in ModelList(args) /\ m.modelName = g.name
      BY <1>1 DEF EntriesNamed
    <2>1. PICK h \in ToSet(args.modelGroups) : m \in {ModelEntry(args, h, id) : id \in ToSet(h.deploymentIds)}
      BY <2>0 DEF ModelList
    <2>2. PICK id \in ToSet(h.deploymentIds) : m = ModelEntry(args, h, id)
      BY <2>1
    <2>3. h.name = g.name
      BY <2>0, <2>2, EntryIs
    <2> QED BY <2>2, <2>3
  <1>2. ASSUME NEW id \in ToSet(g.deploymentIds)
        PROVE  /\ ModelEntry(args, g, id) \in entries
               /\ ModelEntry(args, g, id).provider = DeploymentById(args, id).provider
               /\ ModelEntry(args, g, id).teamPublicModelName = g.teamPublicModelName
    <2>1. PICK m : m = ModelEntry(args, g, id)
      OBVIOUS
    <2>2. m \in ModelList(args)
      BY <2>1 DEF ModelList
    <2> QED BY <2>1, <2>2, EntryIs DEF EntriesNamed
  <1>3. ASSUME NEW m \in entries
        PROVE  /\ m.teamPublicModelName = g.teamPublicModelName
               /\ \E id \in ToSet(g.deploymentIds) : m.provider = DeploymentById(args, id).provider
    BY <1>1, <1>2
  <1>4. ASSUME NEW id \in ToSet(g.deploymentIds)
        PROVE  \E m \in entries : m.provider = DeploymentById(args, id).provider
    BY <1>2
  <1> QED BY <1>3, <1>4

\* The group of a capability is among those of the plan.
LEMMA CapabilityGroups ==
    ASSUME NEW teams, IsList(teams), \A t \in ToSet(teams) : IsList(t.capabilities),
           NEW team \in ToSet(teams), NEW c \in ToSet(team.capabilities)
    PROVE  \E g \in ToSet(BuildLiteLLMTeamScopedModelGroups(teams)) :
              /\ g.name = ToInternalModelGroupName(team.id, c.name)
              /\ g.deploymentIds = c.deploymentIds /\ g.teamPublicModelName = c.name
  <1> DEFINE ss == [t \in DOMAIN teams |-> TeamGroups(teams[t])]
             X  == UNION {ToSet(TeamGroups(t)) : t \in ToSet(teams)}
  <1>1. PICK t \in DOMAIN teams : teams[t] = team
    BY DEF ToSet
  <1>2. PICK k \in DOMAIN team.capabilities : team.capabilities[k] = c
    BY DEF ToSet
  <1>3. ASSUME NEW x \in ToSet(teams) PROVE TeamGroups(x) \in Seq(X)
    <2>1. DOMAIN x.capabilities = 1 .. Len(x.capabilities) /\ Len(x.capabilities) \in Nat
      BY ListIs
    <2>2. PICK n \in Nat : n = Len(x.capabilities)
      BY <2>1
    <2>3. PICK made : made = TeamGroups(x)
      OBVIOUS
    <2>4. made = [j \in 1 .. n |-> made[j]]
      BY <2>1, <2>2, <2>3 DEF TeamGroups
    <2>5. \A j \in 1 .. n : made[j] \in X
      <3>1. \A j \in 1 .. n : made[j] \in ToSet(made)
        BY <2>1, <2>2, <2>3 DEF TeamGroups, ToSet
      <3> QED BY <2>3, <3>1
    <2> HIDE DEF X
    <2>6. made \in Seq(X)
      BY <2>4, <2>5
    <2> QED BY <2>3, <2>6
  <1>4. ss \in Seq(Seq(X))
    <2>1. DOMAIN teams = 1 .. Len(teams) /\ Len(teams) \in Nat
      BY ListIs
    <2>2. PICK n \in Nat : n = Len(teams)
      BY <2>1
    <2>3. \A j \in 1 .. n : TeamGroups(teams[j]) \in Seq(X)
      <3> HIDE DEF X
      <3>1. \A j \in 1 .. n : teams[j] \in ToSet(teams)
        BY <2>1, <2>2 DEF ToSet
      <3> QED BY <1>3, <3>1
    <2>4. ss = [j \in 1 .. n |-> TeamGroups(teams[j])]
      BY <2>1, <2>2
    <2> HIDE DEF X, ss
    <2> QED BY <2>2, <2>3, <2>4
  <1>5. t \in DOMAIN ss /\ ss[t] = TeamGroups(team)
    BY <1>1
  <1>6. PICK capability : capability = team.capabilities[k]
    OBVIOUS
  <1>7. /\ k \in DOMAIN TeamGroups(team)
        /\ TeamGroups(team)[k].name = ToInternalModelGroupName(team.id, c.name)
        /\ TeamGroups(team)[k].deploymentIds = c.deploymentIds
        /\ TeamGroups(team)[k].teamPublicModelName = c.name
    BY <1>2 DEF TeamGroups
  <1>8. BuildLiteLLMTeamScopedModelGroups(teams) = FlattenSeq(ss)
    BY DEF BuildLiteLLMTeamScopedModelGroups
  <1> HIDE DEF ss, X
  <1>9. ss[t][k] \in ToSet(FlattenSeq(ss))
    BY <1>4, <1>5, <1>7, FlattenHas
  <1> QED BY <1>5, <1>7, <1>8, <1>9

\* Of groups that are accepted each has a name of its own.
LEMMA NamesApart ==
    ASSUME NEW teams, TeamsAccepted(teams),
           NEW g \in ToSet(BuildLiteLLMTeamScopedModelGroups(teams)),
           NEW h \in ToSet(BuildLiteLLMTeamScopedModelGroups(teams)), g.name = h.name
    PROVE  g = h
  <1>1. PICK gs : gs = BuildLiteLLMTeamScopedModelGroups(teams)
    OBVIOUS
  <1>2. Unique([k \in DOMAIN gs |-> gs[k].name])
    BY <1>1 DEF TeamsAccepted
  <1>3. PICK k \in DOMAIN gs, j \in DOMAIN gs : gs[k] = g /\ gs[j] = h
    BY <1>1 DEF ToSet
  <1> QED BY <1>2, <1>3 DEF Unique

\* What a run that got through has made of a proxy.
LEMMA ProxyDone ==
    ASSUME EngineInv, program[1] = "litellm", phase = "done"
    PROVE  LET args == ProxyArgs(ArgsOf(program))
           IN  /\ program \in DOMAIN Plans /\ Generates(args)
               /\ Now(<<"config">>).data = GenerateLiteLLMConfig(args)
               /\ EnvAccepted(args)
               /\ PodsExist /\ Pod.data.env = Env(args)
  <1>1. OfFamily(program) /\ plan = Plans[program] /\ Correct(DOMAIN plan)
    BY SweptCorrect DEF EngineInv, PlanInv
  <1>2. PICK args : args = ProxyArgs(ArgsOf(program))
    OBVIOUS
  <1>3. /\ <<"config">> \in DOMAIN plan /\ <<"deployment">> \in DOMAIN plan
        /\ plan[<<"config">>] = ConfigMap(args) /\ plan[<<"deployment">>] = Deployment(args)
    BY <1>1, <1>2, ServingPlans DEF OfFamily, Serving, ServingGoal
  <1>4. /\ Now(<<"config">>).data = ConfigMap(args).data /\ ~ConfigMap(args).bad
        /\ Now(<<"deployment">>).data = Deployment(args).data /\ ~Deployment(args).bad
    BY <1>1, <1>3 DEF Correct, Wanted
  <1>5. <<"deployment">> \in DOMAIN live
    BY <1>1, <1>3 DEF Correct, Recorded, EngineInv, LiveInv, Names
  <1> QED BY <1>1, <1>2, <1>4, <1>5, ServingParts DEF OfFamily, PodsExist, Deploying, Exists, Pod

\* The arguments of the proxy are those of the program but for two of them.
LEMMA ProxyArgsAre ==
    ASSUME NEW q \in DOMAIN Plans, q[1] = "litellm"
    PROVE  /\ ProxyArgs(ArgsOf(q)).deployments = ArgsOf(q).deployments
           /\ ArgsOf(q).teams # Unset =>
                 /\ ProxyArgs(ArgsOf(q)).modelGroups = BuildLiteLLMTeamScopedModelGroups(ArgsOf(q).teams)
                 /\ TeamsAccepted(ArgsOf(q).teams)
                 /\ IsList(ArgsOf(q).teams)
                 /\ \A t \in ToSet(ArgsOf(q).teams) : IsList(t.capabilities)
           /\ GroupsListed(ProxyArgs(ArgsOf(q)))
  <1>1. PICK args : args = ArgsOf(q)
    OBVIOUS
  <1>2. {"deployments", "modelGroups", "extraSecretRefEnv"} \subseteq DOMAIN args
    BY <1>1, ListsAssumption
  <1>3. /\ ProxyArgs(args).deployments = args.deployments
        /\ args.teams # Unset => ProxyArgs(args).modelGroups = BuildLiteLLMTeamScopedModelGroups(args.teams)
    BY <1>2 DEF ProxyArgs
  <1>4. args.teams # Unset => TeamsAccepted(args.teams)
    BY <1>1, PlansAre DEF ProxyAccepts
  <1>5. /\ args.teams # Unset => IsList(args.teams) /\ \A t \in ToSet(args.teams) : IsList(t.capabilities)
        /\ GroupsListed(ProxyArgs(args))
    BY <1>1, ListsAssumption DEF GroupsListed
  <1> QED BY <1>1, <1>3, <1>4, <1>5

ProxiesNamed ==
    \A q \in {p \in DOMAIN Plans : p[1] = "litellm"} : GroupsNamed(ProxyArgs(ArgsOf(q)))

LEMMA GroupsFit ==
    ASSUME ProxiesNamed, EngineInv, program[1] = "litellm", phase = "done"
    PROVE  GroupsServed
  <1>1. PICK args : args = ProxyArgs(ArgsOf(program))
    OBVIOUS
  <1>2. /\ program \in DOMAIN Plans /\ Generates(args)
        /\ Now(<<"config">>).data = GenerateLiteLLMConfig(args)
    BY <1>1, ProxyDone
  <1>3. GroupsNamed(args) /\ GroupsListed(args) /\ ValidateLiteLLMConfig(args)
    BY <1>1, <1>2, ProxyArgsAre DEF ProxiesNamed, Generates
  <1>4. PICK data : data = Now(<<"config">>).data
    OBVIOUS
  <1>5. data.modelList = ModelList(args) /\ data.fallbacks = BuildFallbackMap(args.modelGroups)
    BY <1>2, <1>4 DEF GenerateLiteLLMConfig
  <1>6. FallbacksFire
    <2>1. ASSUME NEW g \in ToSet(args.modelGroups), NEW name \in ClientNames(args, g),
                 NEW map, map = data.fallbacks
          PROVE  IF g.fallbacks = <<>> THEN name \notin DOMAIN map
                 ELSE /\ name \in DOMAIN map
                      /\ Len(map[name]) = Len(g.fallbacks)
                      /\ \A f \in DOMAIN g.fallbacks : \A h \in ToSet(args.modelGroups) :
                            h.name = g.fallbacks[f] => map[name][f] \in ClientNames(args, h)
      <3>1. name = PublicName(g)
        BY <1>3, ClientsAskFor
      <3>2. \A h \in ToSet(args.modelGroups) : ClientNames(args, h) = {PublicName(h)}
        BY <1>3, ClientsAskFor
      <3>3. map = BuildFallbackMap(args.modelGroups)
        BY <1>5, <2>1
      <3> QED BY <1>2, <1>3, <3>1, <3>2, <3>3, FallbacksAre
    <2> QED BY <1>1, <1>4, <2>1 DEF FallbacksFire
  <1>7. CapabilitiesServed
    <2> SUFFICES ASSUME ArgsOf(program).teams # Unset, NEW team \in ToSet(ArgsOf(program).teams),
                        NEW c \in ToSet(team.capabilities), NEW entries,
                        entries = {m \in data.modelList :
                                      m.modelName = ToInternalModelGroupName(team.id, c.name)}
                 PROVE  /\ {m.provider : m \in entries}
                            = {DeploymentById(ArgsOf(program), id).provider : id \in ToSet(c.deploymentIds)}
                        /\ \A m \in entries : m.teamPublicModelName = c.name
      BY <1>4 DEF CapabilitiesServed
    <2>1. PICK teams : teams = ArgsOf(program).teams
      OBVIOUS
    <2>2. /\ args.modelGroups = BuildLiteLLMTeamScopedModelGroups(teams) /\ TeamsAccepted(teams)
          /\ IsList(teams) /\ \A t \in ToSet(teams) : IsList(t.capabilities)
          /\ args.deployments = ArgsOf(program).deployments
      BY <1>1, <1>2, <2>1, ProxyArgsAre
    <2>3. PICK g \in ToSet(args.modelGroups) :
              /\ g.name = ToInternalModelGroupName(team.id, c.name)
              /\ g.deploymentIds = c.deploymentIds /\ g.teamPublicModelName = c.name
      BY <2>1, <2>2, CapabilityGroups
    <2>4. \A h \in ToSet(args.modelGroups) : h.name = g.name => h = g
      BY <2>2, NamesApart
    <2>5. entries = EntriesNamed(args, g.name)
      BY <1>5, <2>3 DEF EntriesNamed
    <2>6. /\ \A m \in entries :
                /\ m.teamPublicModelName = g.teamPublicModelName
                /\ \E id \in ToSet(g.deploymentIds) : m.provider = DeploymentById(args, id).provider
          /\ \A id \in ToSet(g.deploymentIds) :
                \E m \in entries : m.provider = DeploymentById(args, id).provider
      BY <1>3, <2>4, <2>5, EntriesOf
    <2>7. \A id : DeploymentById(args, id) = DeploymentById(ArgsOf(program), id)
      BY <2>2 DEF DeploymentById
    <2> QED BY <2>3, <2>6, <2>7
  <1> QED BY <1>6, <1>7 DEF GroupsServed

-----------------------------------------------------------------------------
(* What is read through a reference to 1Password *)

\* Of goals that agree on what they call by one name, any can be taken.
LEMMA AllGoalsGive ==
    ASSUME NEW goals, NEW k \in DOMAIN goals, NEW n \in DOMAIN goals[k],
           \A j \in DOMAIN goals : n \in DOMAIN goals[j] => j = k
    PROVE  n \in DOMAIN AllGoals(goals) /\ AllGoals(goals)[n] = goals[k][n]
  <1>1. n \in DOMAIN AllGoals(goals)
    BY AllGoalsHave
  <1>2. (CHOOSE j \in DOMAIN goals : n \in DOMAIN goals[j]) = k
    OBVIOUS
  <1> QED BY <1>1, <1>2 DEF AllGoals

\* What a call that is accepted tells apart.
LEMMA CallTells ==
    ASSUME NEW call, R!CallAccepted(call)
    PROVE  \A i, j \in R!Referring(call) :
              /\ R!SecretName(call, i) = R!SecretName(call, j) => i = j
              /\ EnvVarNaming[i.key] = EnvVarNaming[j.key] => i = j
  BY DEF R!CallAccepted, R!Differ

\* The calls of a proxy that is accepted, one by one, and one beside another.
LEMMA CallsTell ==
    ASSUME NEW calls, R!SecretRefsAccepted(calls)
    PROVE  /\ \A c \in DOMAIN calls : R!CallAccepted(calls[c])
           /\ \A c, d \in DOMAIN calls :
                 \A i \in R!Referring(calls[c]) : \A j \in R!Referring(calls[d]) :
                    EnvVarNaming[i.key] = EnvVarNaming[j.key] => c = d /\ i = j
  <1>1. ASSUME NEW c \in DOMAIN calls PROVE R!CallAccepted(calls[c])
    BY DEF R!SecretRefsAccepted, R!ToSet
  <1>2. ASSUME NEW c \in DOMAIN calls, NEW d \in DOMAIN calls,
               NEW i \in R!Referring(calls[c]), NEW j \in R!Referring(calls[d]),
               EnvVarNaming[i.key] = EnvVarNaming[j.key]
        PROVE  c = d /\ i = j
    <2>1. /\ EnvVarNaming[i.key] \in DOMAIN R!CreateOnePasswordSecretRefs(calls[c])
          /\ EnvVarNaming[j.key] \in DOMAIN R!CreateOnePasswordSecretRefs(calls[d])
      BY DEF R!CreateOnePasswordSecretRefs
    <2>2. c = d
      BY <1>2, <2>1 DEF R!SecretRefsAccepted, R!MergeAccepted
    <2> QED BY <1>1, <1>2, <2>2, CallTells
  <1> QED BY <1>1, <1>2

\* The variable of a reference, among those of all calls.
LEMMA VariableIs ==
    ASSUME NEW calls, R!SecretRefsAccepted(calls), NEW c \in DOMAIN calls,
           NEW i \in R!Referring(calls[c]), NEW v, v = EnvVarNaming[i.key],
           NEW merged, merged = R!MergeSecretRefEnvs(calls)
    PROVE  /\ v \in DOMAIN merged
           /\ merged[v].secretName = R!SecretName(calls[c], i)
           /\ merged[v].key = R!NormalizeSecretKeyName(i.ref.field)
  <1> DEFINE made == [d \in DOMAIN calls |-> R!CreateOnePasswordSecretRefs(calls[d])]
  <1>1. merged = AllGoals(made)
    BY SameWriting DEF R!MergeSecretRefEnvs
  <1>2. \A d \in DOMAIN calls : v \in DOMAIN made[d] => d = c
    BY CallsTell DEF R!CreateOnePasswordSecretRefs
  <1>3. v \in DOMAIN made[c]
    BY DEF R!CreateOnePasswordSecretRefs
  <1>4. (CHOOSE j \in R!Referring(calls[c]) : EnvVarNaming[j.key] = v) = i
    BY CallsTell
  <1>5. made[c][v] = [secretName |-> R!SecretName(calls[c], i),
                      key |-> R!ParseOnePasswordItemReference(i.ref).fieldName]
    BY <1>3, <1>4 DEF R!CreateOnePasswordSecretRefs
  <1>6. v \in DOMAIN AllGoals(made) /\ AllGoals(made)[v] = made[c][v]
    <2>1. c \in DOMAIN made /\ DOMAIN made = DOMAIN calls
      OBVIOUS
    <2> HIDE DEF made
    <2> QED BY <1>2, <1>3, <2>1, AllGoalsGive
  <1> QED BY <1>1, <1>5, <1>6 DEF R!ParseOnePasswordItemReference

ItemName(call, item) == <<call.configKey, item.key>>

\* The OnePasswordItem of a reference, among those of all calls.
LEMMA ItemIs ==
    ASSUME NEW calls, R!SecretRefsAccepted(calls), NEW c \in DOMAIN calls,
           NEW i \in R!Referring(calls[c]), NEW n, n = ItemName(calls[c], i),
           NEW goals, goals = R!SecretRefGoals(calls)
    PROVE  /\ n \in DOMAIN goals
           /\ goals[n].key = R!SecretName(calls[c], i)
           /\ goals[n].data = <<i.ref.vault, i.ref.item>>
  <1> DEFINE made == [d \in DOMAIN calls |-> R!ItemGoals(calls[d])]
  <1>1. goals = AllGoals(made)
    BY SameWriting DEF R!SecretRefGoals
  <1>2. ASSUME NEW d \in DOMAIN calls, n \in DOMAIN made[d] PROVE d = c
    <2>1. PICK j \in R!Referring(calls[d]) : n = <<calls[d].configKey, j.key>>
      BY <1>2 DEF R!ItemGoals
    <2>2. j.key = i.key
      BY <2>1 DEF ItemName
    <2> QED BY <2>2, CallsTell
  <1>3. n \in DOMAIN made[c] /\ n[2] = i.key
    BY DEF R!ItemGoals, ItemName
  <1>4. (CHOOSE j \in R!Referring(calls[c]) : j.key = n[2]) = i
    BY <1>3, CallsTell
  <1>5. made[c][n] = R!Goal(R!SecretName(calls[c], i),
                            R!ParseOnePasswordItemReference(i.ref).itemPath, TRUE, {}, {})
    BY <1>3, <1>4 DEF R!ItemGoals
  <1>6. n \in DOMAIN AllGoals(made) /\ AllGoals(made)[n] = made[c][n]
    <2>1. c \in DOMAIN made /\ DOMAIN made = DOMAIN calls
      OBVIOUS
    <2> HIDE DEF made
    <2> QED BY <1>2, <1>3, <2>1, AllGoalsGive
  <1> QED BY <1>1, <1>5, <1>6 DEF R!Goal, R!ParseOnePasswordItemReference

\* Every OnePasswordItem is that of a reference.
LEMMA ItemsAre ==
    ASSUME NEW calls, NEW n \in DOMAIN R!SecretRefGoals(calls)
    PROVE  \E c \in DOMAIN calls : \E i \in R!Referring(calls[c]) : n = ItemName(calls[c], i)
  <1> DEFINE made == [d \in DOMAIN calls |-> R!ItemGoals(calls[d])]
  <1>1. R!SecretRefGoals(calls) = AllGoals(made)
    BY SameWriting DEF R!SecretRefGoals
  <1>2. PICK c \in DOMAIN made : n \in DOMAIN made[c]
    <2> HIDE DEF made
    <2>1. n \in UNION {DOMAIN made[c] : c \in DOMAIN made}
      BY <1>1, AllGoalsHave
    <2> QED BY <2>1
  <1> QED BY <1>2 DEF R!ItemGoals, ItemName

LEMMA SidecarNames ==
    ASSUME NEW credentials, NEW i, NEW goal, Has(SidecarGoals(credentials, <<"ns">>), i, goal)
    PROVE  \E x : i = <<x>>
  <1>1. CASE Has(InlineKeyGoals(credentials, <<"ns">>), i, goal)
    BY <1>1, NewHas DEF InlineKeyGoals
  <1>2. CASE Has(ManagedKeyGoals(credentials, <<"ns">>), i, goal)
    <2> DEFINE a == New(<<"service-account">>, Named(credentials.value, {}, {}))
               b == New(<<"cloudsql-client">>, Named(credentials.value, {<<"service-account">>}, {}))
               c == New(<<"service-account-key">>,
                        AutoNamed("key", {<<"service-account">>}, {<<"cloudsql-client">>}))
               d == New(<<"credentials">>,
                        Named(credentials.value, {<<"ns">>, <<"service-account-key">>},
                              {<<"cloudsql-client">>}))
    <2>1. Has(AllGoals(<<a, b, c, d>>), i, goal)
      BY <1>2 DEF ManagedKeyGoals
    <2>2. Has(a, i, goal) \/ Has(b, i, goal) \/ Has(c, i, goal) \/ Has(d, i, goal)
      <3> HIDE DEF a, b, c, d
      <3> QED BY <2>1, FourHave
    <2> QED BY <2>2, NewHas
  <1>3. CASE Has(NoGoals, i, goal)
    BY <1>3 DEF Has, NoGoals
  <1> QED BY <1>1, <1>2, <1>3 DEF SidecarGoals

\* What the component itself makes has names of one part.
LEMMA OwnNames ==
    ASSUME NEW args, NEW i \in DOMAIN LiteLLMPlan(args) PROVE \E x : i = <<x>>
  <1> DEFINE a == When(args.createNamespace, New(<<"ns">>, InPlace("namespace", {}, {})))
             b == When(args.cloudSql # Unset,
                       SidecarGoals(ResolveLiteLLMCloudSqlCredentials(args.cloudSql), <<"ns">>))
             c == New(<<"providers">>, ProviderSecret(args))
             d == New(<<"master-key">>, AutoNamed("password", {}, {}))
             e == New(<<"runtime">>, RuntimeSecret(args))
             f == New(<<"config">>, ConfigMap(args))
             g == New(<<"deployment">>, Deployment(args))
             h == New(<<"service">>, InPlace("service", {<<"ns">>}, {}))
  <1>0. PICK goal : Has(AllGoals(<<a, b, c, d, e, f, g, h>>), i, goal)
    BY DEF LiteLLMPlan, Has
  <1>1. \/ Has(a, i, goal) \/ Has(b, i, goal) \/ Has(c, i, goal) \/ Has(d, i, goal)
        \/ Has(e, i, goal) \/ Has(f, i, goal) \/ Has(g, i, goal) \/ Has(h, i, goal)
    <2> HIDE DEF a, b, c, d, e, f, g, h
    <2> QED BY <1>0, EightHave
  <1>2. CASE Has(b, i, goal)
    BY <1>2, WhenHas, SidecarNames
  <1>3. CASE ~Has(b, i, goal)
    <2>1. \/ Has(a, i, goal) \/ Has(c, i, goal) \/ Has(d, i, goal)
          \/ Has(e, i, goal) \/ Has(f, i, goal) \/ Has(g, i, goal) \/ Has(h, i, goal)
      BY <1>1, <1>3
    <2>2. i \in {<<"ns">>, <<"providers">>, <<"master-key">>, <<"runtime">>, <<"config">>,
                 <<"deployment">>, <<"service">>}
      BY <2>1, WhenHas, NewHas
    <2> QED BY <2>2
  <1> QED BY <1>2, <1>3

\* Of a proxy that is deployed, what has a name of two parts is a OnePasswordItem.
ItemsFit(calls, goals) ==
    /\ \A n \in DOMAIN goals : Len(n) = 2 =>
          \E c \in DOMAIN calls : \E i \in R!Referring(calls[c]) : n = ItemName(calls[c], i)
    /\ \A c \in DOMAIN calls : \A i \in R!Referring(calls[c]) :
          /\ Len(ItemName(calls[c], i)) = 2
          /\ ItemName(calls[c], i) \in DOMAIN goals
          /\ goals[ItemName(calls[c], i)].key = R!SecretName(calls[c], i)
          /\ goals[ItemName(calls[c], i)].data = <<i.ref.vault, i.ref.item>>

LEMMA ProxyItems ==
    ASSUME NEW q \in DOMAIN Plans, q[1] = "litellm"
    PROVE  R!SecretRefsAccepted(ArgsOf(q).opCalls) /\ ItemsFit(ArgsOf(q).opCalls, Plans[q])
  <1>1. PICK calls : calls = ArgsOf(q).opCalls
    OBVIOUS
  <1>2. PICK args, own, refs : /\ args = ProxyArgs(ArgsOf(q)) /\ own = LiteLLMPlan(args)
                               /\ refs = R!SecretRefGoals(calls)
                               /\ Plans[q] = AllGoals(<<own, refs>>)
    BY <1>1, PlansAre
  <1>3. R!SecretRefsAccepted(calls)
    BY <1>1, PlansAre DEF ProxyAccepts
  <1>4. DOMAIN Plans[q] = DOMAIN own \cup DOMAIN refs
    BY <1>2, TwoHave
  <1>5. ASSUME NEW n \in DOMAIN own PROVE \E x : n = <<x>>
    BY <1>2, <1>5, OwnNames
  <1>6. \A x : Len(<<x>>) = 1
    OBVIOUS
  <1>7. ASSUME NEW n \in DOMAIN Plans[q], Len(n) = 2
        PROVE  \E c \in DOMAIN calls : \E i \in R!Referring(calls[c]) : n = ItemName(calls[c], i)
    <2>1. n \in DOMAIN refs
      BY <1>4, <1>5, <1>6, <1>7
    <2> QED BY <1>2, <2>1, ItemsAre
  <1>8. ASSUME NEW c \in DOMAIN calls, NEW i \in R!Referring(calls[c]), NEW n, n = ItemName(calls[c], i)
        PROVE  /\ Len(n) = 2 /\ n \in DOMAIN Plans[q]
               /\ Plans[q][n].key = R!SecretName(calls[c], i)
               /\ Plans[q][n].data = <<i.ref.vault, i.ref.item>>
    <2>1. /\ n \in DOMAIN refs
          /\ refs[n].key = R!SecretName(calls[c], i) /\ refs[n].data = <<i.ref.vault, i.ref.item>>
      BY <1>2, <1>3, <1>8, ItemIs
    <2>2. Len(n) = 2
      BY <1>8 DEF ItemName
    <2>3. PICK goal : goal = Plans[q][n]
      OBVIOUS
    <2>4. Has(AllGoals(<<own, refs>>), n, goal)
      BY <1>2, <1>4, <2>1, <2>3 DEF Has
    <2>5. Has(own, n, goal) \/ Has(refs, n, goal)
      BY <2>4, TwoHave
    <2>6. ~Has(own, n, goal)
      BY <1>5, <1>6, <2>2 DEF Has
    <2> QED BY <1>4, <2>1, <2>2, <2>3, <2>5, <2>6 DEF Has
  <1>9. ASSUME NEW c \in DOMAIN calls, NEW i \in R!Referring(calls[c])
        PROVE  /\ Len(ItemName(calls[c], i)) = 2 /\ ItemName(calls[c], i) \in DOMAIN Plans[q]
               /\ Plans[q][ItemName(calls[c], i)].key = R!SecretName(calls[c], i)
               /\ Plans[q][ItemName(calls[c], i)].data = <<i.ref.vault, i.ref.item>>
    BY <1>8
  <1> HIDE DEF ItemName
  <1>10. ItemsFit(calls, Plans[q])
    BY <1>7, <1>9 DEF ItemsFit
  <1> QED BY <1>1, <1>3, <1>10

\* No two calls choose one Secret, and no variable of a reference is given besides.
ReferencesApart ==
    \A q \in {p \in DOMAIN Plans : p[1] = "litellm"} :
        LET calls == ArgsOf(q).opCalls
        IN  \A c \in DOMAIN calls : \A i \in R!Referring(calls[c]) :
               /\ EnvVarNaming[i.key] \notin DOMAIN ArgsOf(q).extraSecretRefEnv
               /\ \A d \in DOMAIN calls : \A j \in R!Referring(calls[d]) :
                     R!SecretName(calls[c], i) = R!SecretName(calls[d], j) => c = d

\* What is left of a label keeps its first and its last character.
LEMMA Ends ==
    ASSUME NEW label, IsList(label), NEW valid, valid = {k \in DOMAIN label : label[k] \in KeyChars},
           valid # {}
    PROVE  \E lo, hi \in valid :
              lo = R!Min(valid) /\ hi = R!Max(valid) /\ \A k \in valid : lo <= k /\ k <= hi
  <1>1. Len(label) \in Nat /\ DOMAIN label = 1 .. Len(label)
    BY DEF IsList
  <1>2. PICK lo \in valid : \A k \in valid : lo <= k
    <2>1. valid \subseteq Nat
      BY <1>1
    <2> QED BY <2>1, LeastElement
  <1>3. PICK hi \in valid : \A k \in valid : k <= hi
    <2> DEFINE below == {Len(label) - k : k \in valid}
    <2>1. below \subseteq Nat /\ below # {}
      BY <1>1
    <2>2. PICK x \in below : \A y \in below : x <= y
      <3> HIDE DEF below
      <3> QED BY <2>1, LeastElement
    <2>4. PICK k \in valid : x = Len(label) - k
      OBVIOUS
    <2>5. ASSUME NEW h \in valid PROVE h <= k
      <3>1. x <= Len(label) - h
        BY <2>2
      <3> QED BY <1>1, <2>4, <3>1
    <2> QED BY <2>5
  <1>4. lo \in Nat /\ hi \in Nat /\ valid \subseteq Nat
    BY <1>1
  <1>5. R!Min(valid) = lo
    <2>1. \A x \in valid : (\A y \in valid : x <= y) => x = lo
      BY <1>2, <1>4
    <2> QED BY <1>2, <2>1 DEF R!Min
  <1>6. R!Max(valid) = hi
    <2>1. \A x \in valid : (\A y \in valid : x >= y) => x = hi
      BY <1>3, <1>4
    <2>2. \A y \in valid : hi >= y
      BY <1>3, <1>4
    <2> QED BY <2>1, <2>2 DEF R!Max
  <1> QED BY <1>2, <1>3, <1>5, <1>6

\* A key that is left is the one under which the field is synced.
LEMMA KeyFits ==
    ASSUME NEW label, IsList(label), NEW key, key = R!NormalizeSecretKeyName(label), key # <<>>
    PROVE  SyncedAs(label, key)
  <1> DEFINE valid == {k \in DOMAIN label : label[k] \in KeyChars}
  <1>1. Len(label) \in Nat /\ DOMAIN label = 1 .. Len(label)
    BY DEF IsList
  <1>2. valid # {} /\ key = R!Replaced(SubSeq(label, R!Min(valid), R!Max(valid)))
    BY DEF R!NormalizeSecretKeyName
  <1>3. PICK lo, hi \in valid :
           lo = R!Min(valid) /\ hi = R!Max(valid) /\ \A k \in valid : lo <= k /\ k <= hi
    <2> HIDE DEF valid
    <2>1. PICK set : set = valid
      OBVIOUS
    <2>2. set = {k \in DOMAIN label : label[k] \in KeyChars}
      BY <2>1 DEF valid
    <2> QED BY <1>2, <2>1, <2>2, Ends
  <1>4. PICK kept : kept = SubSeq(label, lo, hi)
    OBVIOUS
  <1>5. /\ lo \in 1 .. Len(label) /\ hi \in 1 .. Len(label) /\ lo <= hi
        /\ label[lo] \in KeyChars /\ label[hi] \in KeyChars
    BY <1>1, <1>3
  <1>13. lo \in Int /\ hi \in Int /\ 1 <= lo /\ lo <= hi /\ hi <= Len(label)
    BY <1>1, <1>5
  <1>6. PICK before \in Int, size \in Int, after \in Int :
           before = lo - 1 /\ size = hi - lo + 1 /\ after = Len(label) - hi
    <2>1. lo - 1 \in Int /\ hi - lo + 1 \in Int /\ Len(label) - hi \in Int
      BY <1>1, <1>13
    <2> QED BY <2>1, Zenon
  <1>7. /\ before \in 0 .. Len(label) /\ after \in 0 .. Len(label) /\ size \in Nat
        /\ before + size + after = Len(label) /\ before + 1 = lo /\ before + size = hi
    <2> HIDE DEF valid
    <2> QED BY <1>1, <1>13, <1>6
  <1>8. /\ Len(kept) = size /\ DOMAIN kept = 1 .. size
        /\ \A k \in 1 .. size : kept[k] = label[before + k]
    <2>1. PICK letters : label \in Seq(letters)
      BY DEF IsList
    <2>2. kept \in Seq(letters) /\ Len(kept) = size
      BY <1>1, <1>4, <1>5, <1>6, <2>1
    <2>3. ASSUME NEW k \in 1 .. size PROVE kept[k] = label[before + k]
      <3>1. kept[k] = label[lo + k - 1]
        BY <1>1, <1>4, <1>5, <1>6, <2>1
      <3>2. lo + k - 1 = before + k
        BY <1>5, <1>6
      <3> QED BY <3>1, <3>2
    <2> QED BY <2>2, <2>3
  <1>9. key = [k \in 1 .. size |-> IF kept[k] \in KeyChars THEN kept[k] ELSE "-"]
    BY <1>2, <1>3, <1>4, <1>8 DEF R!Replaced
  <1>10. Len(key) = size /\ DOMAIN key = 1 .. size
    BY <1>7, <1>9
  <1>11. ASSUME NEW k \in DOMAIN label, k <= before \/ k > before + size
         PROVE  label[k] \notin KeyChars
    <2>1. k \in Nat
      BY <1>1
    <2>2. k \in valid => lo <= k /\ k <= hi
      BY <1>3
    <2> HIDE DEF valid
    <2>3. k < lo \/ hi < k
      BY <1>6, <1>7, <1>11, <1>13, <2>1
    <2>4. k \notin valid
      BY <1>13, <2>1, <2>2, <2>3
    <2> QED BY <2>4 DEF valid
  <1>12. \A k \in DOMAIN key :
            key[k] = IF label[before + k] \in KeyChars THEN label[before + k] ELSE "-"
    BY <1>8, <1>9, <1>10
  <1> HIDE DEF valid
  <1> QED BY <1>5, <1>7, <1>10, <1>11, <1>12 DEF SyncedAs

ReadsField(env, call, item) ==
    /\ env[EnvVarNaming[item.key]].secret = R!SecretName(call, item)
    /\ env[EnvVarNaming[item.key]].key = R!NormalizeSecretKeyName(item.ref.field)

\* The environment gives the variable of a reference the field it refers to.
LEMMA VariableReads ==
    ASSUME ReferencesApart, NEW q \in DOMAIN Plans, q[1] = "litellm",
           EnvAccepted(ProxyArgs(ArgsOf(q))),
           NEW call \in ToSet(ArgsOf(q).opCalls), NEW i \in R!Referring(call)
    PROVE  ReadsField(Env(ProxyArgs(ArgsOf(q))), call, i)
  <1>1. PICK calls : calls = ArgsOf(q).opCalls
    OBVIOUS
  <1>2. PICK c \in DOMAIN calls : call = calls[c]
    BY <1>1 DEF ToSet
  <1>3. PICK v : v = EnvVarNaming[i.key]
    OBVIOUS
  <1>4. PICK args : args = ProxyArgs(ArgsOf(q))
    OBVIOUS
  <1>5. PICK given, merged : given = ArgsOf(q).extraSecretRefEnv /\ merged = R!MergeSecretRefEnvs(calls)
    OBVIOUS
  <1>6. args.extraSecretRefEnv = Over(given, merged)
    <2>1. {"deployments", "modelGroups", "extraSecretRefEnv"} \subseteq DOMAIN ArgsOf(q)
      BY ListsAssumption
    <2> QED BY <1>1, <1>4, <1>5, <2>1 DEF ProxyArgs
  <1>7. v \notin DOMAIN given
    BY <1>1, <1>2, <1>3, <1>5 DEF ReferencesApart
  <1>8. /\ v \in DOMAIN merged /\ merged[v].secretName = R!SecretName(calls[c], i)
        /\ merged[v].key = R!NormalizeSecretKeyName(i.ref.field)
    <2>1. R!SecretRefsAccepted(calls) /\ i \in R!Referring(calls[c])
      BY <1>1, <1>2, ProxyItems
    <2> QED BY <1>3, <1>5, <2>1, VariableIs
  <1>9. v \in DOMAIN args.extraSecretRefEnv /\ args.extraSecretRefEnv[v] = merged[v]
    BY <1>6, <1>7, <1>8, OverGives
  <1>10. R!SecretName(calls[c], i) # Unset
    BY <1>2, ListsAssumption
  <1>11. v \in ResolvedRefs(args)
    BY <1>8, <1>9, <1>10 DEF ResolvedRefs
  <1> DEFINE extra     == [n \in Resolved(args.extraEnv) |-> From(<<"none">>, args.extraEnv[n])]
             refs      == [n \in ResolvedRefs(args) |-> From(args.extraSecretRefEnv[n].secretName,
                                                             args.extraSecretRefEnv[n].key)]
             secret    == [n \in Resolved(args.extraSecretEnv) |-> From(<<"runtime">>, <<n>>)]
             providers == [n \in ProviderEnvVars(args) |-> From(<<"providers">>, Lower[n])]
             reserved  == [n \in ReservedRuntimeEnvVars |-> From(<<"runtime">>, <<n>>)]
             rest      == Over(secret, Over(providers, reserved))
  <1>12. Env(args) = Over(extra, Over(refs, rest))
    BY DEF Env
  <1>13. v \notin DOMAIN extra
    BY <1>4, <1>11 DEF EnvAccepted, ValidateExtraEnvNameCollisions, Disjoint, Resolved
  <1>14. v \in DOMAIN refs /\ refs[v] = From(merged[v].secretName, merged[v].key)
    BY <1>9, <1>11
  <1> HIDE DEF extra, refs, rest
  <1>15. v \in DOMAIN Over(refs, rest) /\ Over(refs, rest)[v] = refs[v]
    BY <1>14, OverGives
  <1>16. Env(args)[v] = refs[v]
    BY <1>12, <1>13, <1>15, OverGives
  <1> QED BY <1>2, <1>3, <1>4, <1>8, <1>14, <1>16 DEF From, ReadsField

\* What ReferencesRead asks of one reference.
ReadAndSynced(read, i) ==
    LET items == {o \in Objects : Len(o[1]) = 2 /\ Object(o).key = read.secret}
    IN  /\ read.key # <<>> /\ SyncedAs(i.ref.field, read.key)
        /\ {Object(o).data : o \in items} = {<<i.ref.vault, i.ref.item>>}
        /\ Cardinality(items) = 1

LEMMA ReferencesFit ==
    ASSUME ReferencesApart, EngineInv, program[1] = "litellm", phase = "done"
    PROVE  ReferencesRead
  <1> SUFFICES ASSUME NEW call \in ToSet(ArgsOf(program).opCalls), NEW i \in R!Referring(call),
                      NEW read, read = Pod.data.env[EnvVarNaming[i.key]]
               PROVE  ReadAndSynced(read, i)
    BY DEF ReferencesRead, ReadAndSynced
  <1> DEFINE items == {o \in Objects : Len(o[1]) = 2 /\ Object(o).key = read.secret}
  <1>1. PICK calls : calls = ArgsOf(program).opCalls
    OBVIOUS
  <1>2. PICK c \in DOMAIN calls : call = calls[c]
    BY <1>1 DEF ToSet
  <1>3. /\ program \in DOMAIN Plans /\ plan = Plans[program]
        /\ Names = DOMAIN plan
        /\ \A n \in Names : DOMAIN live[n] = {current[n]} /\ Now(n) = Wanted(n)
    BY DoneIsSynced DEF OfFamily, Synced
  <1>4. EnvAccepted(ProxyArgs(ArgsOf(program))) /\ Pod.data.env = Env(ProxyArgs(ArgsOf(program)))
    BY ProxyDone
  <1>5. read.secret = R!SecretName(calls[c], i) /\ read.key = R!NormalizeSecretKeyName(i.ref.field)
    <2>1. ReadsField(Env(ProxyArgs(ArgsOf(program))), call, i)
      BY <1>3, <1>4, VariableReads
    <2> QED BY <1>2, <1>4, <2>1 DEF ReadsField
  <1>14. read.key # <<>> /\ SyncedAs(i.ref.field, read.key)
    <2>1. R!SecretRefsAccepted(calls)
      BY <1>1, <1>3, ProxyItems
    <2>2. R!CallAccepted(calls[c])
      BY <2>1, CallsTell
    <2>3. R!ReferenceAccepted(i.ref)
      BY <1>2, <2>2 DEF R!CallAccepted
    <2>4. IsList(i.ref.field)
      BY <1>3, ListsAssumption
    <2> QED BY <1>5, <2>3, <2>4, KeyFits DEF R!ReferenceAccepted
  <1>6. PICK n : n = ItemName(calls[c], i)
    OBVIOUS
  <1>7. R!SecretRefsAccepted(calls) /\ ItemsFit(calls, plan)
    BY <1>1, <1>3, ProxyItems
  <1>8. /\ Len(n) = 2 /\ n \in Names
        /\ plan[n].key = read.secret /\ plan[n].data = <<i.ref.vault, i.ref.item>>
    BY <1>2, <1>3, <1>5, <1>6, <1>7 DEF ItemsFit
  <1>9. PICK own : own = <<n, current[n]>>
    OBVIOUS
  <1>10. own \in items /\ Object(own).data = <<i.ref.vault, i.ref.item>>
    <2>1. own[1] = n /\ own[2] = current[n] /\ Object(own) = Now(n)
      BY <1>9 DEF Object, Now
    <2>2. Object(own).key = read.secret /\ Object(own).data = <<i.ref.vault, i.ref.item>>
      BY <1>3, <1>8, <2>1 DEF Wanted
    <2>3. own \in Objects
      BY <1>3, <1>8, <1>9, ObjectsAre
    <2> QED BY <1>8, <2>1, <2>2, <2>3
  <1>11. ASSUME NEW o \in items PROVE o = own
    <2>1. PICK m, g : o = <<m, g>> /\ m \in Names /\ g \in DOMAIN live[m]
      BY ObjectsAre
    <2>2. Len(m) = 2 /\ Object(o).key = read.secret /\ g = current[m]
      BY <1>3, <2>1
    <2>3. plan[m].key = read.secret
      <3>1. Object(o) = Now(m)
        BY <2>1, <2>2 DEF Object, Now
      <3> QED BY <1>3, <2>1, <2>2, <3>1 DEF Wanted
    <2>4. PICK d \in DOMAIN calls : \E j \in R!Referring(calls[d]) : m = ItemName(calls[d], j)
      BY <1>3, <1>7, <2>1, <2>2 DEF ItemsFit
    <2>5. PICK j \in R!Referring(calls[d]) : m = ItemName(calls[d], j)
      BY <2>4
    <2>6. R!SecretName(calls[d], j) = R!SecretName(calls[c], i)
      BY <1>5, <1>7, <2>3, <2>5 DEF ItemsFit
    <2>7. c = d
      BY <1>1, <1>2, <1>3, <2>6 DEF ReferencesApart
    <2>8. R!CallAccepted(calls[c])
      BY <1>7, CallsTell
    <2>9. j = i
      BY <1>2, <2>6, <2>7, <2>8, CallTells
    <2> QED BY <1>6, <1>9, <2>1, <2>2, <2>5, <2>7, <2>9
  <1>12. items = {own}
    BY <1>10, <1>11
  <1>13. Cardinality(items) = 1
    BY <1>12, FS_Singleton
  <1>15. {Object(o).data : o \in items} = {<<i.ref.vault, i.ref.item>>}
    <2> HIDE DEF items
    <2> QED BY <1>10, <1>12
  <1> QED BY <1>13, <1>14, <1>15 DEF ReadAndSynced

-----------------------------------------------------------------------------
(* The properties of the runs *)

\* What the state file holds is exactly what the program declares when a run got
\* through, after any runs before it that broke off.
THEOREM SyncedWhenDone == Spec => [](phase = "done" => Synced)
  <1>1. EngineInv => (phase = "done" => Synced)
    BY DoneIsSynced
  <1> QED BY <1>1, EngineAlways, PTL

\* Grants that stay declared are not taken back (tenant.ts:231), objects still
\* to be served are not deleted (r2object.ts:307), and a monitor keeps its
\* database under either way to write its name (uptime-monitor.ts:258).
THEOREM NothingIsLost == Spec => NothingLost
  <1>1. EngineInv /\ [Next]_vars => [GrantsStay /\ ObjectsStay /\ RowsStay]_vars
    BY GrantsStep, ObjectsStep, RowsStep
  <1> QED BY <1>1, EngineAlways, PTL DEF Spec, NothingLost

\* The cache is purged after the uploads (r2object.ts:443), and a Worker is put
\* on a database after its schema (uptime-monitor.ts:334).
THEOREM WorksInOrder == Spec => InOrder
  <1>1. EngineInv /\ [Next]_vars => [PurgeLast /\ SchemaFirst]_vars
    BY PurgeStep, SchemaStep
  <1> QED BY <1>1, EngineAlways, PTL DEF Spec, InOrder

\* The Deployment of the proxy is never taken down, as long as no Secret with a
\* fixed name is among what it reads (litellm-proxy.ts:428) and no run takes its
\* Namespace away (litellm-proxy.ts:375).
THEOREM DeploymentIsRolled == Spec => Rolled
  <1>1. EngineInv /\ [Next]_vars
        => [Deploying("litellm") /\ Exists(<<"deployment">>) /\ ~Exists(<<"credentials">>) /\ NamespaceStays
            => (Exists(<<"deployment">>))']_vars
    <2> SUFFICES ASSUME EngineInv, [Next]_vars, Deploying("litellm"),
                        Exists(<<"deployment">>), ~Exists(<<"credentials">>)
                 PROVE  (Exists(<<"deployment">>))'
      OBVIOUS
    <2> QED BY RolledStep DEF Deploying
  <1> QED BY <1>1, EngineAlways, PTL DEF Spec, Rolled

\* A tenant that is deployed reaches what it consumes through its policies
\* (policies.ts:26).
THEOREM TenantsAreConnected == Spec => []Connected
  BY ConnectedWhenDone, EngineAlways, PTL

\* Each path of each domain of a site that is deployed has exactly one
\* application, whose decision and includes let through whom the path is for
\* (access-gate.ts:205).
THEOREM SitesAreGated ==
    ASSUME PatternsAreListedOnce PROVE Spec => []Gated
  BY GatedWhenDone, EngineAlways, PTL

\* What the pods of a proxy read belongs together, through every edit, rotation
\* of a key and run that breaks off (litellm-proxy.ts:428).
THEOREM PodsAreServed == ASSUME ProxiesApart PROVE Spec => []PodsServed
  <1> DEFINE Inv == program[1] = "litellm" => EngineInv /\ RefsInv /\ FiniteInv
  <1>1. Init => Inv
    BY InitEngine, InitRefs
  <1>2. Inv /\ EngineInv /\ [Next]_vars => Inv'
    BY RefsAlways
  <1>3. Inv /\ EngineInv => PodsServed
    <2> SUFFICES ASSUME Inv, EngineInv PROVE PodsServed
      OBVIOUS
    <2>1. CASE PodsExist
      BY <2>1, PodsFit DEF PodsServed, PodsExist, Deploying
    <2>2. CASE ~PodsExist
      BY <2>2 DEF PodsServed, KeysReachTheirModels, DatabaseRouted
    <2> QED BY <2>1, <2>2
  <1> HIDE DEF Inv
  <1> QED BY <1>1, <1>2, <1>3, EngineAlways, PTL DEF Spec

\* A quota never keeps the pods of its namespace from being admitted, as long as
\* the defaults of a tenant only become more: on the way from one program to the
\* next too, and when runs break off (tenant.ts:185).
THEOREM QuotasAdmit == ASSUME "tenant" \in Growing, DefaultsGrow PROVE Spec => []QuotaAdmits
  <1> DEFINE Inv == program[1] = "tenant" => QuotaInv
  <1>1. Init => Inv
    BY DEF Init, QuotaInv, Names
  <1>2. Inv /\ EngineInv /\ [Next]_vars => Inv'
    BY QuotaStep, FamilyKept
  <1>3. Inv /\ EngineInv => QuotaAdmits
    BY QuotasFit DEF QuotaAdmits, Deploying
  <1> HIDE DEF Inv
  <1> QED BY <1>1, <1>2, <1>3, EngineAlways, PTL DEF Spec

\* Who asks for a group by the name clients use gets the group, and its fallbacks,
\* as long as groups are named at the group (config.ts:117, team-plan.ts:45).
THEOREM GroupsAreServed == ASSUME ProxiesNamed PROVE Spec => []GroupsServed
  <1>1. EngineInv => GroupsServed
    <2>1. CASE program[1] = "litellm" /\ phase = "done"
      BY <2>1, GroupsFit
    <2>2. CASE ~(program[1] = "litellm" /\ phase = "done")
      BY <2>2 DEF GroupsServed, FallbacksFire, CapabilitiesServed, Deploying
    <2> QED BY <2>1, <2>2
  <1> QED BY <1>1, EngineAlways, PTL

\* A variable made from a reference reads the field it refers to, under the key
\* the operator gives it and through the one OnePasswordItem of its Secret
\* (op-secret-helpers.ts:79, :310).
THEOREM ReferencesAreRead == ASSUME ReferencesApart PROVE Spec => []ReferencesRead
  <1>1. EngineInv => ReferencesRead
    <2>1. CASE program[1] = "litellm" /\ phase = "done"
      BY <2>1, ReferencesFit
    <2>2. CASE ~(program[1] = "litellm" /\ phase = "done")
      BY <2>2 DEF ReferencesRead, Deploying
    <2> QED BY <2>1, <2>2
  <1> QED BY <1>1, EngineAlways, PTL
=============================================================================
