-------------------------- MODULE NixImagesProofs --------------------------
(***************************************************************************)
(* Proofs about NixImages, for programs of any number of images, any        *)
(* checkouts and bounds: that a base layer is uploaded once by a group, and *)
(* that what was pushed is what the checkout of the run holds.              *)
(***************************************************************************)
EXTENDS NixImages, WellFoundedInduction, TLAPS

-----------------------------------------------------------------------------
(* Least and greatest elements *)

\* Every nonempty set of numbers has a least one: the induction of this module.
LEMMA LeastElement ==
    ASSUME NEW T, T \subseteq Nat, T # {} PROVE \E m \in T : \A k \in T : m <= k
<1>1. PICK m \in T : \A k \in T : <<k, m>> \notin OpToRel(<, Nat)
  BY WFMin, NatLessThanWellFounded, Zenon
<1>2. \A k \in T : ~(k < m)
  BY <1>1 DEF OpToRel
<1> QED BY <1>2

LEMMA MinIsLeast ==
    ASSUME NEW T, T \subseteq Nat, T # {}
    PROVE  Min(T) \in T /\ \A k \in T : Min(T) <= k
<1>1. \E m \in T : \A k \in T : m <= k
  BY LeastElement
<1> QED BY <1>1 DEF Min

LEMMA MaxIsGreatest ==
    ASSUME NEW n \in Nat, NEW T, T \subseteq 1 .. n, T # {}
    PROVE  Max(T) \in T /\ \A k \in T : k <= Max(T)
<1> DEFINE Bounds == {b \in Nat : \A k \in T : k <= b}
<1>1. n \in Bounds
  OBVIOUS
<1>2. PICK b \in Bounds : \A c \in Bounds : b <= c
  BY <1>1, LeastElement
<1>3. b \in T
  <2>1. SUFFICES ASSUME b \notin T PROVE FALSE
    OBVIOUS
  <2>2. PICK k \in T : TRUE
    OBVIOUS
  <2>3. \A x \in T : x <= b - 1
    BY <2>1
  <2>4. b - 1 \in Bounds
    BY <2>2, <2>3
  <2> QED BY <1>2, <2>4
<1> QED BY <1>3 DEF Max

-----------------------------------------------------------------------------
(* The order of the pushes of a group *)

\* The images are numbered.
Numbered == Len(program) \in Nat /\ Images = 1 .. Len(program)

LEMMA RegisteredBefore ==
    ASSUME Numbered, NEW i \in Images
    PROVE  /\ Registered(i) \subseteq 1 .. Len(program) /\ Registered(i) \subseteq Images
           /\ Registered(i) \subseteq Nat
           /\ \A k \in Registered(i) : k < i
  BY DEF Numbered, Registered

\* Whom a push waits for, directly or through others.
Before(i) ==
    IF Registered(i) = {} THEN {}
    ELSE IF PushGroup(i).strategy = "primer" THEN {Min(Registered(i))} ELSE Registered(i)

\* Within a group, whoever came before one that came before came before.
LEMMA RegisteredTransitive ==
    ASSUME Numbered, NEW i \in Images, NEW k \in Registered(i)
    PROVE  /\ k \in Images /\ PushGroup(k) = PushGroup(i)
           /\ Registered(k) = {j \in Registered(i) : j < k}
  BY DEF Numbered, Registered

\* A push waits for one push, and through it for those the other waits for.
LEMMA BeforeUnfolds ==
    ASSUME Numbered, NEW i \in Images
    PROVE  /\ Dependencies(i) \subseteq Registered(i)
           /\ Before(i) = Dependencies(i) \cup UNION {Before(d) : d \in Dependencies(i)}
<1>1. CASE Registered(i) = {}
  <2>1. Dependencies(i) = {} /\ Before(i) = {}
    BY <1>1 DEF Before, Dependencies
  <2> QED BY <2>1
<1>2. CASE Registered(i) # {} /\ PushGroup(i).strategy = "primer"
  <2>1. Dependencies(i) = {Min(Registered(i))} /\ Before(i) = {Min(Registered(i))}
    BY <1>2 DEF Before, Dependencies
  <2>2. Min(Registered(i)) \in Registered(i) /\ \A k \in Registered(i) : Min(Registered(i)) <= k
    BY <1>2, RegisteredBefore, MinIsLeast
  <2>3. Registered(Min(Registered(i))) = {}
    BY <2>2, RegisteredTransitive, RegisteredBefore
  <2>4. Before(Min(Registered(i))) = {}
    BY <2>3 DEF Before
  <2> QED BY <2>1, <2>2, <2>4
<1>3. CASE Registered(i) # {} /\ PushGroup(i).strategy # "primer"
  <2> DEFINE k == Max(Registered(i))
  <2>1. Dependencies(i) = {k} /\ Before(i) = Registered(i)
    BY <1>3 DEF Before, Dependencies
  <2>2. k \in Registered(i) /\ \A j \in Registered(i) : j <= k
    BY <1>3, RegisteredBefore, MaxIsGreatest DEF Numbered
  <2>3. PushGroup(k) = PushGroup(i) /\ Registered(k) = {j \in Registered(i) : j < k}
    BY <2>2, RegisteredTransitive
  <2>4. Before(k) = Registered(k)
    BY <1>3, <2>3 DEF Before
  <2>5. Registered(i) = {k} \cup Registered(k)
    BY <2>2, <2>3, RegisteredBefore
  <2> QED BY <2>1, <2>2, <2>4, <2>5
<1> QED BY <1>1, <1>2, <1>3

\* What the recursive definition computes: a push is settled when it is done, and
\* all that it waits for are.
SettledMeans == \A i \in Images : Settled[i] <=> ~PushDue(i) /\ \A d \in Before(i) : ~PushDue(d)

LEMMA SettledComputes == Numbered => SettledMeans
<1> SUFFICES ASSUME Numbered PROVE SettledMeans
  OBVIOUS
<1> DEFINE done == [i \in Images |-> ~PushDue(i) /\ \A d \in Before(i) : ~PushDue(d)]
<1>1. done = [i \in Images |-> ~PushDue(i) /\ \A d \in Dependencies(i) : done[d]]
  <2>1. ASSUME NEW i \in Images
        PROVE  done[i] = (~PushDue(i) /\ \A d \in Dependencies(i) : done[d])
    <3>1. Dependencies(i) \subseteq Images
      BY BeforeUnfolds, RegisteredBefore
    <3>2. \A d \in Dependencies(i) :
              done[d] = (~PushDue(d) /\ \A e \in Before(d) : ~PushDue(e))
      BY <3>1
    <3>3. Before(i) = Dependencies(i) \cup UNION {Before(d) : d \in Dependencies(i)}
      BY BeforeUnfolds
    <3> HIDE DEF done
    <3>4. (\A d \in Before(i) : ~PushDue(d)) <=> \A d \in Dependencies(i) : done[d]
      BY <3>2, <3>3
    <3> QED BY <3>4 DEF done
  <2> QED BY <2>1
<1>2. Settled = [i \in Images |-> ~PushDue(i) /\ \A d \in Dependencies(i) : Settled[d]]
  <2> HIDE DEF done
  <2> QED BY <1>1 DEF Settled
<1>3. {i \in Images : Settled[i] # done[i]} = {}
  <2> DEFINE T == {i \in Images : Settled[i] # done[i]}
  <2>1. SUFFICES ASSUME T # {} PROVE FALSE
    OBVIOUS
  <2>2. PICK m \in T : \A k \in T : m <= k
    <3>1. T \subseteq Nat
      BY DEF Numbered
    <3> HIDE DEF T
    <3> QED BY <2>1, <3>1, LeastElement
  <2> HIDE DEF done
  <2>3. \A d \in Dependencies(m) : Settled[d] = done[d]
    <3>1. \A d \in Dependencies(m) : d \in Images /\ d < m
      BY BeforeUnfolds, RegisteredBefore
    <3> QED BY <2>2, <3>1 DEF Numbered
  <2>4. Settled[m] = done[m]
    BY <1>1, <1>2, <2>3
  <2> QED BY <2>4
<1>4. \A i \in Images : Settled[i] = done[i]
  BY <1>3
<1> QED BY <1>4 DEF SettledMeans

-----------------------------------------------------------------------------
(* The invariants *)

Shape ==
    /\ program \in Programs
    /\ trees \in [Roots -> Trees]
    /\ up \in [phase : {"idle", "up", "stopping"}, root : Roots \cup {None}, done : BOOLEAN]
    /\ up.phase # "idle" => up.root \in Roots
    /\ built = [i \in Images |-> built[i]] /\ pushed = [i \in Images |-> pushed[i]]
    /\ pushing \in [Images -> {"no", "upload", "manifest"}]

\* The registry has the base a push was recorded for.
BaseIsThere(i) == <<pushed[i].inputs.fullTag[1], pushed[i].inputs.storePath.base>> \in blobs

\* A push that is under way is due, those it waits for are done and stay so, and it
\* uploads no base that one of them brought.
PushInv ==
    /\ up.phase = "idle" => \A i \in Images : pushing[i] = "no"
    /\ \A i \in Images : pushing[i] # "no" =>
          /\ Builds(i) /\ PushDue(i) /\ ~BuildDue(i)
          /\ \A d \in Before(i) : ~PushDue(d)
    /\ \A i \in Images : pushing[i] = "manifest" => Base(i) \in blobs
    /\ \A i \in Images : pushing[i] = "upload" => \A d \in Dependencies(i) : Base(d) # Base(i)
    /\ \A i \in Images : Builds(i) /\ pushed[i] # None => BaseIsThere(i)

\* What is recorded as pushed was pushed and can be pulled.
PushedIsOut(i) ==
    /\ pushed[i].digest = pushed[i].inputs.storePath
    /\ <<pushed[i].inputs.fullTag[1], pushed[i].digest>> \in manifests

\* A run knows the derivations of its checkout, and a build is recorded for the
\* derivation it built.
TreeInv ==
    /\ up.phase # "idle" \/ up.done => \A i \in Images : drvPath[i] # None
    /\ up.done => up.phase = "idle" /\ \A i \in Images : ~PushDue(i)
    /\ steady /\ up.phase # "idle" =>
          \A i \in Images : /\ drvPath[i] = trees[up.root][program[i].attr]
                            /\ Builds(i) => sidecar[i] = up.root
    /\ steady => \A i \in Images : built[i] # None /\ built[i].inputs.drv # None =>
                                       built[i].out = built[i].inputs.drv
    /\ \A i \in Images : Builds(i) /\ pushed[i] # None => PushedIsOut(i)

LEMMA ShapeNumbers == ASSUME ProgramsAssumption, Shape PROVE Numbered
  BY DEF ProgramsAssumption, Shape, Numbered, Images

LEMMA InitInv == ASSUME ProgramsAssumption, Init PROVE Shape /\ PushInv /\ TreeInv
<1>1. Shape
  BY DEF Init, Shape, Idle
<1>2. up.phase = "idle" /\ up.done = FALSE
  BY DEF Init, Idle
<1>3. \A i \in Images : pushing[i] = "no" /\ pushed[i] = None /\ built[i] = None
  BY DEF Init
<1> QED BY <1>1, <1>2, <1>3 DEF PushInv, TreeInv

LEMMA NextShape == ASSUME ProgramsAssumption, Shape, PushInv, [Next]_vars PROVE Shape'
<1>1. CASE \E root \in Roots : BeginUp(root)
  BY <1>1 DEF Shape, BeginUp, recorded, Images
<1>2. ASSUME NEW i \in Images, Command(i) PROVE Shape'
  <2>1. CASE Build(i) \/ StartPush(i) \/ Upload(i) \/ PushManifest(i)
    BY <2>1 DEF Build, StartPush, Upload, PushManifest, Shape, Images, recorded
  <2>2. CASE BuildFails(i) \/ PushFails(i) \/ Resolve(i)
    <3>1. up.phase # "idle"
      BY <2>2 DEF BuildFails, PushFails, Resolve, Going, PushInv
    <3>2. UNCHANGED <<program, trees, built>> /\ up' \in {up, [up EXCEPT !.phase = "stopping"]}
      BY <2>2 DEF BuildFails, PushFails, Resolve, Stopping, recorded
    <3>3. /\ pushed' = [j \in Images |-> pushed'[j]]
          /\ pushing' \in [Images -> {"no", "upload", "manifest"}]
      BY <2>2 DEF BuildFails, PushFails, Resolve, Shape, recorded
    <3> QED BY <3>1, <3>2, <3>3 DEF Shape, Images
  <2> QED BY <1>2, <2>1, <2>2 DEF Command
<1>3. CASE EndUp
  BY <1>3 DEF Shape, EndUp, recorded, Images, Going
<1>4. CASE EditTree
  BY <1>4 DEF Shape, EditTree, recorded, Images
<1>5. CASE EditProgram
  <2>1. program' \in Programs /\ Images' = Images
    BY <1>5 DEF EditProgram, Images, Shape, ProgramsAssumption
  <2> QED BY <1>5, <2>1 DEF Shape, EditProgram, recorded
<1>6. CASE Preview
  BY <1>6 DEF Shape, Preview, recorded, Images
<1>7. CASE UNCHANGED vars
  BY <1>7 DEF Shape, vars, recorded, Images
<1> QED BY <1>1, <1>2, <1>3, <1>4, <1>5, <1>6, <1>7 DEF Next

-----------------------------------------------------------------------------
(* A base is uploaded once *)

\* Whether a push is due is a matter of its own record, within a run.
LEMMA DueKept ==
    ASSUME UNCHANGED <<program, drvPath>>, NEW i, built'[i] = built[i]
    PROVE  /\ Builds(i)' = Builds(i) /\ BuildDue(i)' = BuildDue(i) /\ Base(i)' = Base(i)
           /\ PushInputs(i)' = PushInputs(i)
           /\ pushed'[i] = pushed[i] => PushDue(i)' = PushDue(i)
  BY DEF Builds, BuildDue, RanFor, BuildInputs, Base, Store, PushInputs, FullTag, PushDue

LEMMA OrderKept ==
    ASSUME UNCHANGED program
    PROVE  /\ Images' = Images
           /\ \A i : Before(i)' = Before(i) /\ Dependencies(i)' = Dependencies(i)
  BY DEF Images, Before, Dependencies, Registered, PushGroup, DefaultPushGroupFor, Builds

LEMMA DependenciesBefore ==
    ASSUME Numbered, NEW i \in Images
    PROVE  /\ Dependencies(i) \subseteq Before(i) /\ Before(i) \subseteq Images
           /\ \A d \in Dependencies(i) : Builds(d)
<1>1. Before(i) \subseteq Images
  BY RegisteredBefore, MinIsLeast DEF Before
<1>2. \A d \in Dependencies(i) : Builds(d)
  BY BeforeUnfolds DEF Registered
<1> QED BY <1>1, <1>2, BeforeUnfolds

\* A step that changes the records of pushes and builds that were due only, and
\* lets no push begin.
LEMMA PushKept ==
    ASSUME Numbered, PushInv, UNCHANGED <<program, drvPath>>, blobs \subseteq blobs',
           \A i \in Images : pushing'[i] \in {"no", pushing[i]},
           up'.phase = "idle" => up.phase = "idle",
           \A i \in Images : built'[i] # built[i] => BuildDue(i),
           \A i \in Images : pushed'[i] # pushed[i] =>
               PushDue(i) /\ pushing'[i] = "no" /\ (Builds(i) => BaseIsThere(i)')
    PROVE  PushInv'
<1>1. /\ Images' = Images
      /\ \A i \in Images : Before(i)' = Before(i) /\ Dependencies(i)' = Dependencies(i)
  BY OrderKept
<1>2. ASSUME NEW i \in Images, ~PushDue(i) PROVE ~PushDue(i)' /\ Base(i)' = Base(i)
  <2>1. built'[i] = built[i] /\ pushed'[i] = pushed[i]
    BY <1>2 DEF PushDue
  <2> QED BY <1>2, <2>1, DueKept
<1>3. ASSUME NEW i \in Images, pushing'[i] # "no"
      PROVE  /\ Builds(i)' /\ PushDue(i)' /\ ~BuildDue(i)' /\ Base(i)' = Base(i)
             /\ pushing'[i] = pushing[i]
  <2>1. pushing'[i] = pushing[i] /\ built'[i] = built[i] /\ pushed'[i] = pushed[i]
    BY <1>3 DEF PushInv
  <2> QED BY <1>3, <2>1, DueKept DEF PushInv
<1>4. ASSUME NEW i \in Images, pushing'[i] # "no", NEW d \in Before(i)
      PROVE  ~PushDue(d)' /\ Base(d)' = Base(d)
  BY <1>2, <1>3, <1>4, DependenciesBefore DEF PushInv
<1>5. ASSUME NEW i \in Images, Builds(i)', pushed'[i] # None PROVE BaseIsThere(i)'
  <2>1. Builds(i)
    BY <1>5 DEF Builds
  <2>2. CASE pushed'[i] = pushed[i]
    BY <1>5, <2>1, <2>2 DEF PushInv, BaseIsThere
  <2> QED BY <2>1, <2>2
<1>6. up'.phase = "idle" => \A i \in Images : pushing'[i] = "no"
  BY DEF PushInv
<1>7. \A i \in Images : pushing'[i] = "manifest" => Base(i)' \in blobs'
  BY <1>3 DEF PushInv
<1>8. ASSUME NEW i \in Images, pushing'[i] = "upload", NEW d \in Dependencies(i)
      PROVE  Base(d)' # Base(i)'
  <2>1. Base(d)' = Base(d) /\ Base(i)' = Base(i) /\ pushing[i] = "upload"
    BY <1>3, <1>4, <1>8, DependenciesBefore
  <2> QED BY <1>8, <2>1 DEF PushInv
<1> QED BY <1>1, <1>3, <1>4, <1>5, <1>6, <1>7, <1>8 DEF PushInv

LEMMA NextPush ==
    ASSUME ProgramsAssumption, Shape, PushInv, [Next]_vars PROVE PushInv'
<1>0. Numbered
  BY ShapeNumbers
<1>1. CASE \E root \in Roots : BeginUp(root)
  <2>1. up.phase = "idle" /\ UNCHANGED <<program, pushed, pushing, blobs>>
    BY <1>1 DEF BeginUp, recorded, remote
  <2>2. Images' = Images /\ \A i \in Images : pushing'[i] = "no"
    BY <2>1 DEF PushInv, Images
  <2>3. \A i \in Images : Builds(i)' /\ pushed'[i] # None => BaseIsThere(i)'
    BY <2>1 DEF PushInv, Builds, BaseIsThere
  <2> QED BY <2>2, <2>3 DEF PushInv
<1>2. ASSUME NEW j \in Images, Command(j) PROVE PushInv'
  <2>1. CASE Build(j)
    BY <1>0, <2>1, PushKept DEF Build, remote, Shape
  <2>2. CASE StartPush(j)
    <3>1. UNCHANGED <<program, drvPath, built, pushed, blobs, up>>
      BY <2>2 DEF StartPush, recorded, remote
    <3>2. pushing' = [pushing EXCEPT ![j] = IF Base(j) \in blobs THEN "manifest" ELSE "upload"]
      BY <2>2 DEF StartPush
    <3>3. /\ Images' = Images
          /\ \A i : Before(i)' = Before(i) /\ Dependencies(i)' = Dependencies(i)
          /\ \A i : /\ Builds(i)' = Builds(i) /\ BuildDue(i)' = BuildDue(i)
                    /\ Base(i)' = Base(i) /\ PushDue(i)' = PushDue(i)
      BY <3>1, OrderKept, DueKept
    <3>4. Builds(j) /\ PushDue(j) /\ ~BuildDue(j) /\ up.phase # "idle"
      BY <2>2 DEF StartPush, Going
    <3>5. \A d \in Before(j) : ~PushDue(d)
      <4>1. \A d \in Dependencies(j) : Settled[d] /\ d \in Images
        BY <1>0, <2>2, DependenciesBefore DEF StartPush
      <4>2. \A d \in Dependencies(j) : ~PushDue(d) /\ \A e \in Before(d) : ~PushDue(e)
        BY <1>0, <4>1, SettledComputes DEF SettledMeans
      <4> QED BY <1>0, <4>2, BeforeUnfolds
    <3>6. ASSUME NEW d \in Dependencies(j), Base(j) \notin blobs PROVE Base(d) # Base(j)
      <4>1. Builds(d) /\ ~PushDue(d) /\ d \in Images
        BY <1>0, <3>5, DependenciesBefore
      <4>2. pushed[d] # None /\ pushed[d].inputs = PushInputs(d)
        BY <4>1 DEF PushDue, RanFor
      <4>3. <<pushed[d].inputs.fullTag[1], pushed[d].inputs.storePath.base>> = Base(d)
        BY <4>1, <4>2 DEF PushInputs, FullTag, Base, Store
      <4>4. Base(d) \in blobs
        BY <4>1, <4>2, <4>3 DEF PushInv, BaseIsThere
      <4> QED BY <3>6, <4>4
    <3>7. \A i \in Images : i # j => pushing'[i] = pushing[i]
      BY <3>2 DEF Shape
    <3>8. pushing'[j] = IF Base(j) \in blobs THEN "manifest" ELSE "upload"
      BY <3>2 DEF Shape
    <3>9. \A i \in Images : Builds(i)' /\ pushed'[i] # None => BaseIsThere(i)'
      BY <3>1, <3>3 DEF PushInv, BaseIsThere
    <3>10. ASSUME NEW i \in Images, pushing'[i] # "no"
           PROVE  /\ Builds(i) /\ PushDue(i) /\ ~BuildDue(i)
                  /\ \A d \in Before(i) : ~PushDue(d)
      BY <3>4, <3>5, <3>7, <3>10 DEF PushInv
    <3>11. ASSUME NEW i \in Images, pushing'[i] = "upload"
           PROVE  \A d \in Dependencies(i) : Base(d) # Base(i)
      BY <3>6, <3>7, <3>8, <3>11 DEF PushInv
    <3>12. \A i \in Images : pushing'[i] = "manifest" => Base(i) \in blobs
      BY <3>7, <3>8 DEF PushInv
    <3>13. \A i \in Images : \A d \in Before(i) : d \in Images
      BY <1>0, DependenciesBefore
    <3> QED
      BY <3>1, <3>3, <3>4, <3>9, <3>10, <3>11, <3>12, <3>13 DEF PushInv
  <2>3. CASE Upload(j)
    <3>1. UNCHANGED <<program, drvPath, built, pushed, up>> /\ blobs' = blobs \cup {Base(j)}
      BY <2>3 DEF Upload, recorded
    <3>2. /\ pushing[j] = "upload" /\ pushing'[j] = "manifest"
          /\ \A i \in Images : i # j => pushing'[i] = pushing[i]
      BY <2>3 DEF Upload, Shape
    <3>3. /\ Images' = Images
          /\ \A i : Before(i)' = Before(i) /\ Dependencies(i)' = Dependencies(i)
          /\ \A i : /\ Builds(i)' = Builds(i) /\ BuildDue(i)' = BuildDue(i)
                    /\ Base(i)' = Base(i) /\ PushDue(i)' = PushDue(i)
      BY <3>1, OrderKept, DueKept
    <3>4. \A i \in Images : Builds(i)' /\ pushed'[i] # None => BaseIsThere(i)'
      BY <3>1, <3>3 DEF PushInv, BaseIsThere
    <3>5. \A i \in Images : pushing'[i] = "manifest" => Base(i) \in blobs'
      BY <3>1, <3>2 DEF PushInv
    <3>6. up.phase # "idle"
      BY <3>2 DEF PushInv
    <3> QED BY <3>1, <3>2, <3>3, <3>4, <3>5, <3>6 DEF PushInv
  <2>4. CASE PushManifest(j)
    <3>1. /\ pushing[j] = "manifest" /\ pushing' = [pushing EXCEPT ![j] = "no"]
          /\ pushed' = [pushed EXCEPT ![j] = [inputs |-> PushInputs(j), digest |-> Store(j)]]
          /\ UNCHANGED <<program, drvPath, built, up, blobs>>
      BY <2>4 DEF PushManifest
    <3>2. PushDue(j) /\ Builds(j) /\ Base(j) \in blobs
      BY <3>1 DEF PushInv
    <3>3. /\ pushed'[j] = [inputs |-> PushInputs(j), digest |-> Store(j)]
          /\ \A i \in Images : i # j => pushed'[i] = pushed[i]
      BY <3>1 DEF Shape
    <3>4. BaseIsThere(j)'
      BY <3>1, <3>2, <3>3 DEF BaseIsThere, PushInputs, FullTag, Base, Store
    <3>5. \A i \in Images : pushing'[i] \in {"no", pushing[i]}
      BY <3>1 DEF Shape
    <3>6. pushing'[j] = "no"
      BY <3>1 DEF Shape
    <3> QED BY <1>0, <3>1, <3>2, <3>3, <3>4, <3>5, <3>6, PushKept
  <2>5. CASE PushFails(j)
    <3>1. /\ UNCHANGED <<program, drvPath, built, pushed, blobs>>
          /\ pushing' = [pushing EXCEPT ![j] = "no"] /\ up' = [up EXCEPT !.phase = "stopping"]
      BY <2>5 DEF PushFails, Stopping, recorded, remote
    <3>2. up'.phase # "idle" /\ \A i \in Images : pushing'[i] \in {"no", pushing[i]}
      BY <3>1 DEF Shape
    <3> QED BY <1>0, <3>1, <3>2, PushKept
  <2>6. CASE Resolve(j)
    <3>1. /\ UNCHANGED <<program, drvPath, built, pushing, blobs>>
          /\ up' \in {up, [up EXCEPT !.phase = "stopping"]} /\ up.phase # "idle"
          /\ PushDue(j) /\ ~Builds(j)
      BY <2>6 DEF Resolve, Stopping, Going, remote
    <3>2. up'.phase # "idle"
      BY <3>1 DEF Shape
    <3>3. \A i \in Images : pushed'[i] # pushed[i] => i = j
      BY <2>6 DEF Resolve, Shape
    <3>4. pushing[j] = "no"
      BY <3>1 DEF PushInv
    <3> QED BY <1>0, <3>1, <3>2, <3>3, <3>4, PushKept
  <2>7. CASE BuildFails(j)
    <3>1. /\ UNCHANGED <<program, drvPath, built, pushed, pushing, blobs>>
          /\ up' = [up EXCEPT !.phase = "stopping"]
      BY <2>7 DEF BuildFails, Stopping, recorded, remote
    <3>2. up'.phase # "idle"
      BY <3>1 DEF Shape
    <3> QED BY <1>0, <3>1, <3>2, PushKept
  <2> QED BY <1>2, <2>1, <2>2, <2>3, <2>4, <2>5, <2>6, <2>7 DEF Command
<1>3. CASE EndUp
  <2>1. /\ UNCHANGED <<program, drvPath, built, pushed, pushing, blobs>>
        /\ \A i \in Images : pushing[i] = "no"
    BY <1>3 DEF EndUp, recorded, remote
  <2>2. Images' = Images
    BY <2>1 DEF Images
  <2>3. \A i \in Images : Builds(i)' /\ pushed'[i] # None => BaseIsThere(i)'
    BY <2>1 DEF PushInv, Builds, BaseIsThere
  <2> QED BY <2>1, <2>2, <2>3 DEF PushInv
<1>4. CASE EditTree \/ Preview \/ UNCHANGED vars
  <2>1. UNCHANGED <<program, drvPath, built, pushed, pushing, blobs, up>>
    BY <1>4 DEF EditTree, Preview, vars, recorded, remote
  <2> QED BY <1>0, <2>1, PushKept
<1>5. CASE EditProgram
  <2>1. /\ UNCHANGED <<built, pushed, pushing, blobs>> /\ up.phase = "idle"
        /\ program' \in Programs /\ Len(program') = Len(program)
        /\ \A i \in Images : program'[i].mode = program[i].mode
    BY <1>5 DEF EditProgram, recorded, remote
  <2>2. Images' = Images
    BY <2>1 DEF Images, Shape, ProgramsAssumption
  <2>3. \A i \in Images : pushing'[i] = "no"
    BY <2>1 DEF PushInv
  <2>4. \A i \in Images : Builds(i)' /\ pushed'[i] # None => BaseIsThere(i)'
    BY <2>1 DEF PushInv, Builds, BaseIsThere
  <2> QED BY <2>2, <2>3, <2>4 DEF PushInv
<1> QED BY <1>1, <1>2, <1>3, <1>4, <1>5 DEF Next

\* The groups of the documentation are those of the code.
LEMMA GroupedTogether ==
    ASSUME NEW i, NEW j, Grouped(i, j)
    PROVE  PushGroup(i) = PushGroup(j) /\ PushGroup(j).kind # "off"
  BY DEF Grouped, PushGroup, DefaultPushGroupFor

\* One under way keeps those that come after it in a group waiting.
LEMMA OneAtATime ==
    ASSUME Numbered, PushInv, NEW i \in Images, NEW j \in Images, i \in Before(j)
    PROVE  "no" \in {pushing[i], pushing[j]}
  BY DEF PushInv

LEMMA BaseOnce == ASSUME ProgramsAssumption, Shape, PushInv PROVE BaseUploadedOnce
<1> SUFFICES ASSUME NEW i \in Images, NEW j \in Images, i < j, Builds(i), Builds(j),
                    Grouped(i, j)
             PROVE  IF program[i].pushGroup.strategy = "serial"
                    THEN "no" \in {pushing[i], pushing[j]}
                    ELSE LET first == Min({k \in 1..i : Builds(k) /\ Grouped(k, i)})
                         IN  {pushing[i], pushing[j]} = {"upload"} /\ Base(i) = Base(j)
                                => Base(first) # Base(i)
  BY DEF BaseUploadedOnce
<1>1. Numbered
  BY ShapeNumbers
<1>2. PushGroup(i) = PushGroup(j) /\ PushGroup(j).kind # "off"
  BY GroupedTogether
<1>3. i \in Registered(j) /\ i \in Nat /\ j \in Nat
  BY <1>1, <1>2 DEF Registered, Numbered
<1>4. CASE PushGroup(j).strategy # "primer"
  <2>1. i \in Before(j)
    BY <1>3, <1>4 DEF Before
  <2> QED BY <1>1, <2>1, OneAtATime
<1>5. CASE PushGroup(j).strategy = "primer"
  <2> DEFINE Group == {k \in 1..i : Builds(k) /\ Grouped(k, i)}
  <2>1. program[i].pushGroup.kind # "default" /\ PushGroup(i) = program[i].pushGroup
    BY <1>2, <1>5 DEF PushGroup, DefaultPushGroupFor
  <2>2. \A k \in 1 .. i : Grouped(k, i) <=> PushGroup(k) = PushGroup(i) /\ PushGroup(k).kind # "off"
    BY <1>2, <2>1 DEF Grouped, PushGroup, DefaultPushGroupFor
  <2>3. Group = {k \in Registered(j) : k <= i}
    BY <1>1, <1>2, <1>3, <2>2 DEF Registered, Numbered
  <2>4. Min(Registered(j)) \in Registered(j) /\ \A k \in Registered(j) : Min(Registered(j)) <= k
    BY <1>1, <1>3, RegisteredBefore, MinIsLeast
  <2>5. i \in Group /\ Group \subseteq Nat
    BY <1>3, <2>3
  <2>6. Min(Group) \in Group /\ \A k \in Group : Min(Group) <= k
    <3> HIDE DEF Group
    <3> QED BY <2>5, MinIsLeast
  <2>7. Min(Group) = Min(Registered(j))
    <3>1. Min(Registered(j)) \in Group /\ Min(Group) \in Registered(j)
      BY <1>3, <2>3, <2>4, <2>6
    <3> HIDE DEF Group
    <3>2. Min(Group) \in Nat /\ Min(Registered(j)) \in Nat
      BY <1>1, <2>4, <2>5, <2>6, RegisteredBefore
    <3> QED BY <2>4, <2>6, <3>1, <3>2
  <2>8. Dependencies(j) = {Min(Group)}
    BY <1>3, <1>5, <2>7 DEF Dependencies
  <2>9. ASSUME {pushing[i], pushing[j]} = {"upload"}, Base(i) = Base(j)
        PROVE  Base(Min(Group)) # Base(i)
    <3>1. pushing[j] = "upload"
      BY <2>9
    <3> QED BY <2>8, <2>9, <3>1 DEF PushInv
  <2>10. program[i].pushGroup.strategy # "serial"
    BY <1>2, <1>5, <2>1
  <2> QED BY <2>9, <2>10
<1> QED BY <1>4, <1>5

\* Of the pushes of a serial group one runs at a time; of those of a primed group no
\* two upload the base that the first image carries, in any program, for any number
\* of images, edits and faults (NixImagePushGroup).
THEOREM BaseUploadedOnceAlways == ASSUME ProgramsAssumption PROVE Spec => []BaseUploadedOnce
<1>1. Init => Shape /\ PushInv
  BY InitInv
<1>2. Shape /\ PushInv /\ [Next]_vars => (Shape /\ PushInv)'
  BY NextShape, NextPush
<1>3. Shape /\ PushInv => BaseUploadedOnce
  BY BaseOnce
<1> QED BY <1>1, <1>2, <1>3, PTL DEF Spec

-----------------------------------------------------------------------------
(* What was pushed is what the checkout holds *)

\* Once a push is done it stays done, unless a run begins or the program is edited.
LEMMA NotDueKept ==
    ASSUME UNCHANGED <<program, drvPath, built, pushed>>
    PROVE  Images' = Images /\ \A i : PushDue(i)' = PushDue(i) /\ Builds(i)' = Builds(i)
  BY DueKept DEF Images

LEMMA NextTree ==
    ASSUME ProgramsAssumption, Shape, PushInv, TreeInv, [Next]_vars PROVE TreeInv'
<1>1. ASSUME NEW root \in Roots, BeginUp(root) PROVE TreeInv'
  <2>1. /\ UNCHANGED <<program, trees, built, pushed, manifests, steady>>
        /\ up' = [phase |-> "up", root |-> root, done |-> FALSE]
        /\ drvPath' = [i \in Images |-> trees[root][program[i].attr]]
        /\ sidecar' = [i \in Images |-> IF Builds(i) THEN root ELSE None]
    BY <1>1 DEF BeginUp, recorded, remote
  <2>2. Images' = Images /\ \A i : Builds(i)' = Builds(i)
    BY <2>1 DEF Images, Builds
  <2>3. \A i \in Images : drvPath'[i] # None
    BY <2>1 DEF Shape, ProgramsAssumption, Images
  <2>4. \A i \in Images : Builds(i)' /\ pushed'[i] # None => PushedIsOut(i)'
    BY <2>1, <2>2 DEF TreeInv, PushedIsOut
  <2> QED BY <2>1, <2>2, <2>3, <2>4 DEF TreeInv
<1>2. ASSUME NEW j \in Images, Command(j) PROVE TreeInv'
  <2>0. up.phase # "idle" /\ ~up.done
    BY <1>2 DEF Command, Build, BuildFails, StartPush, Upload, PushManifest, PushFails, Resolve,
                Going, PushInv, TreeInv
  <2>1. CASE Build(j)
    <3>1. /\ built' = [built EXCEPT ![j] =
                [inputs |-> BuildInputs(j), out |-> trees[sidecar[j]][program[j].attr]]]
          /\ UNCHANGED <<program, trees, up, drvPath, sidecar, pushed, manifests, steady>>
      BY <2>1 DEF Build, remote
    <3>2. /\ built'[j] = [inputs |-> BuildInputs(j), out |-> trees[sidecar[j]][program[j].attr]]
          /\ \A i \in Images : i # j => built'[i] = built[i]
      BY <3>1 DEF Shape
    <3>3. Images' = Images /\ \A i : Builds(i)' = Builds(i)
      BY <3>1 DEF Images, Builds
    <3>4. steady /\ built'[j].inputs.drv # None => built'[j].out = built'[j].inputs.drv
      <4>1. steady => drvPath[j] = trees[sidecar[j]][program[j].attr]
        BY <2>0, <2>1 DEF TreeInv, Build, BuildDue
      <4> QED BY <3>2, <4>1 DEF BuildInputs
    <3>5. \A i \in Images : Builds(i)' /\ pushed'[i] # None => PushedIsOut(i)'
      BY <3>1, <3>3 DEF TreeInv, PushedIsOut
    <3> QED BY <2>0, <3>1, <3>2, <3>3, <3>4, <3>5 DEF TreeInv
  <2>2. CASE PushManifest(j)
    <3>1. /\ pushing[j] = "manifest" /\ Publish(j)
          /\ pushed' = [pushed EXCEPT ![j] = [inputs |-> PushInputs(j), digest |-> Store(j)]]
          /\ UNCHANGED <<program, trees, up, drvPath, sidecar, built, steady>>
      BY <2>2 DEF PushManifest
    <3>2. /\ pushed'[j] = [inputs |-> PushInputs(j), digest |-> Store(j)]
          /\ \A i \in Images : i # j => pushed'[i] = pushed[i]
      BY <3>1 DEF Shape
    <3>3. Images' = Images /\ \A i : Builds(i)' = Builds(i)
      BY <3>1 DEF Images, Builds
    <3>4. manifests' = manifests \cup {<<program[j].registry, Store(j)>>} /\ Builds(j)
      BY <3>1 DEF Publish, PushInv
    <3>5. PushedIsOut(j)'
      BY <3>2, <3>4 DEF PushedIsOut, PushInputs, FullTag, Store
    <3>6. \A i \in Images : i # j /\ Builds(i)' /\ pushed'[i] # None => PushedIsOut(i)'
      BY <3>2, <3>3, <3>4 DEF TreeInv, PushedIsOut
    <3> QED BY <2>0, <3>1, <3>3, <3>5, <3>6 DEF TreeInv
  <2>3. CASE Resolve(j)
    <3>1. /\ UNCHANGED <<program, trees, drvPath, sidecar, built, manifests, steady>> /\ ~Builds(j)
          /\ up' \in {up, [up EXCEPT !.phase = "stopping"]}
          /\ \A i \in Images : i # j => pushed'[i] = pushed[i]
      BY <2>3 DEF Resolve, Stopping, remote, Shape
    <3>2. up'.root = up.root /\ up'.phase # "idle" /\ ~up'.done
      BY <2>0, <3>1 DEF Shape
    <3>3. Images' = Images /\ \A i : Builds(i)' = Builds(i)
      BY <3>1 DEF Images, Builds
    <3>4. \A i \in Images : Builds(i)' /\ pushed'[i] # None => PushedIsOut(i)'
      BY <3>1, <3>3 DEF TreeInv, PushedIsOut
    <3> QED BY <2>0, <3>1, <3>2, <3>3, <3>4 DEF TreeInv
  <2>4. CASE StartPush(j) \/ Upload(j) \/ BuildFails(j) \/ PushFails(j)
    <3>1. /\ UNCHANGED <<program, trees, drvPath, sidecar, built, pushed, steady>>
          /\ up' \in {up, [up EXCEPT !.phase = "stopping"]}
          /\ manifests \subseteq manifests'
      BY <2>4 DEF StartPush, Upload, BuildFails, PushFails, Publish, Stopping, recorded, remote
    <3>2. up'.root = up.root /\ up'.phase # "idle" /\ ~up'.done
      BY <2>0, <3>1 DEF Shape
    <3>3. Images' = Images /\ \A i : Builds(i)' = Builds(i)
      BY <3>1 DEF Images, Builds
    <3>4. \A i \in Images : Builds(i)' /\ pushed'[i] # None => PushedIsOut(i)'
      BY <3>1, <3>3 DEF TreeInv, PushedIsOut
    <3> QED BY <2>0, <3>1, <3>2, <3>3, <3>4 DEF TreeInv
  <2> QED BY <1>2, <2>1, <2>2, <2>3, <2>4 DEF Command
<1>3. CASE EndUp
  <2>1. /\ UNCHANGED <<program, trees, drvPath, sidecar, built, pushed, manifests, steady>>
        /\ up.phase # "idle" /\ (Going => \A i \in Images : ~PushDue(i))
        /\ up' = [up EXCEPT !.phase = "idle", !.done = Going]
    BY <1>3 DEF EndUp, recorded, remote
  <2>2. up'.phase = "idle" /\ up'.done = Going
    BY <2>1 DEF Shape
  <2>3. Images' = Images /\ \A i : PushDue(i)' = PushDue(i) /\ Builds(i)' = Builds(i)
    BY <2>1, NotDueKept
  <2>4. \A i \in Images : Builds(i)' /\ pushed'[i] # None => PushedIsOut(i)'
    BY <2>1, <2>3 DEF TreeInv, PushedIsOut
  <2> QED BY <2>1, <2>2, <2>3, <2>4 DEF TreeInv
<1>4. CASE EditTree \/ Preview
  <2>1. UNCHANGED <<program, up, drvPath, built, pushed, manifests>>
    BY <1>4 DEF EditTree, Preview, recorded, remote
  <2>2. Images' = Images /\ \A i : PushDue(i)' = PushDue(i) /\ Builds(i)' = Builds(i)
    BY <2>1, NotDueKept
  <2>3. \A i \in Images : Builds(i)' /\ pushed'[i] # None => PushedIsOut(i)'
    BY <2>1, <2>2 DEF TreeInv, PushedIsOut
  <2>4. steady' => steady
    BY <1>4 DEF EditTree, Preview, Touches
  <2>5. ASSUME steady', up.phase # "idle"
        PROVE  trees'[up.root] = trees[up.root]
               /\ \A i \in Images : Builds(i) => sidecar'[i] = up.root
    <3>1. CASE EditTree
      <4>1. PICK root \in Roots, tree \in Trees :
                trees' = [trees EXCEPT ![root] = tree] /\ Touches(root = up.root)
        BY <3>1 DEF EditTree
      <4>2. root # up.root /\ sidecar' = sidecar
        BY <2>5, <3>1, <4>1 DEF Touches, EditTree
      <4>3. trees'[up.root] = trees[up.root]
        BY <2>5, <4>1, <4>2 DEF Shape
      <4> QED BY <2>4, <2>5, <4>2, <4>3 DEF TreeInv
    <3>2. CASE Preview
      BY <2>5, <3>2 DEF Preview, Touches
    <3> QED BY <1>4, <3>1, <3>2
  <2> QED BY <2>1, <2>2, <2>3, <2>4, <2>5 DEF TreeInv
<1>5. CASE EditProgram
  <2>1. /\ UNCHANGED <<drvPath, built, pushed, manifests, steady>> /\ up.phase = "idle"
        /\ program' \in Programs /\ Len(program') = Len(program)
        /\ \A i \in Images : program'[i].mode = program[i].mode
        /\ up' = [up EXCEPT !.done = FALSE]
    BY <1>5 DEF EditProgram, recorded, remote
  <2>2. Images' = Images
    BY <2>1 DEF Images, Shape, ProgramsAssumption
  <2>3. up'.phase = "idle" /\ ~up'.done
    BY <2>1 DEF Shape
  <2>4. \A i \in Images : Builds(i)' /\ pushed'[i] # None => PushedIsOut(i)'
    BY <2>1 DEF TreeInv, Builds, PushedIsOut
  <2> QED BY <2>1, <2>2, <2>3, <2>4 DEF TreeInv
<1>6. CASE UNCHANGED vars
  <2>1. UNCHANGED <<program, trees, up, drvPath, sidecar, built, pushed, manifests, steady>>
    BY <1>6 DEF vars, recorded, remote
  <2>2. Images' = Images /\ \A i : PushDue(i)' = PushDue(i) /\ Builds(i)' = Builds(i)
    BY <2>1, NotDueKept
  <2>3. \A i \in Images : Builds(i)' /\ pushed'[i] # None => PushedIsOut(i)'
    BY <2>1, <2>2 DEF TreeInv, PushedIsOut
  <2> QED BY <2>1, <2>2, <2>3 DEF TreeInv
<1> QED BY <1>1, <1>2, <1>3, <1>4, <1>5, <1>6 DEF Next

LEMMA TreeFollows == ASSUME TreeInv PROVE ImageOfTree
<1> SUFFICES ASSUME up.done, steady, NEW i \in Images, Builds(i),
                    program[i].changeDetection = "drv"
             PROVE  /\ pushed[i].digest = drvPath[i]
                    /\ <<program[i].registry, pushed[i].digest>> \in manifests
  BY DEF ImageOfTree
<1>1. ~PushDue(i) /\ drvPath[i] # None
  BY DEF TreeInv
<1>2. built[i] # None /\ built[i].inputs = BuildInputs(i)
  BY <1>1 DEF PushDue, BuildDue, RanFor
<1>3. pushed[i] # None /\ pushed[i].inputs = PushInputs(i)
  BY <1>1 DEF PushDue, RanFor
<1>4. built[i].inputs.drv = drvPath[i]
  BY <1>2 DEF BuildInputs
<1>5. built[i].out = drvPath[i]
  BY <1>1, <1>2, <1>4 DEF TreeInv
<1>6. pushed[i].inputs.storePath = built[i].out /\ pushed[i].inputs.fullTag[1] = program[i].registry
  BY <1>3 DEF PushInputs, FullTag
<1> QED BY <1>3, <1>5, <1>6 DEF TreeInv, PushedIsOut

\* A run that is through has pushed what its checkout holds, and it can be pulled,
\* whatever the runs before it left undone, from whichever checkout (NixOutput).
THEOREM ImageOfTreeAlways == ASSUME ProgramsAssumption PROVE Spec => []ImageOfTree
<1>1. Init => Shape /\ PushInv /\ TreeInv
  BY InitInv
<1>2. Shape /\ PushInv /\ TreeInv /\ [Next]_vars => (Shape /\ PushInv /\ TreeInv)'
  BY NextShape, NextPush, NextTree
<1>3. TreeInv => ImageOfTree
  BY TreeFollows
<1> QED BY <1>1, <1>2, <1>3, PTL DEF Spec
=============================================================================
