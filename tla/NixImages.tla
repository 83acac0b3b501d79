----------------------------- MODULE NixImages -----------------------------
(***************************************************************************)
(* The images of a program: NixImage builds each from a checkout through   *)
(* NixOutput and pushes it, NixImagePushGroup orders the pushes of images  *)
(* that may share a base layer.  Runs come from several checkouts and      *)
(* break off anywhere; checkouts are edited and previews taken meanwhile.  *)
(*                                                                         *)
(* External: Pulumi runs a Command again when its inputs changed, and      *)
(* skopeo asks for a blob before it uploads it.  A derivation is its       *)
(* content: a base layer and a top layer.                                  *)
(***************************************************************************)
EXTENDS Naturals, Sequences, FiniteSetsExt, TLC

CONSTANTS
    Programs,    \* sequences of images: attr, tag, registry (the url), key (the
                 \* Input it was passed as), mode, changeDetection, and pushGroup
                 \* [kind, id, strategy] of kind "default", "given" or "off"
    Roots,       \* the checkouts
    Trees,       \* what a checkout may hold: attribute -> [base, top]
    None,
    MaxEdits, MaxFaults

\* A program is a sequence, and every checkout evaluates its attributes.
ProgramsAssumption ==
    \A p \in Programs :
        /\ Len(p) \in Nat /\ DOMAIN p = 1 .. Len(p)
        /\ \A t \in Trees, i \in DOMAIN p : t[p[i].attr] # None

VARIABLES
    program, trees,
    up,          \* the run: its phase, its checkout, whether it got through
    drvPath,     \* image -> derivation evaluated when the program ran
    sidecar,     \* image -> the checkout its build script reads
    built,       \* image -> recorded inputs and store path of its build
    pushed,      \* image -> recorded inputs and digest of its push or resolve
    pushing,     \* image -> where its push is
    blobs, manifests, tags,                      \* the registries
    steady,      \* nobody has touched what a run was building, see Touches
    edits, faults

recorded == <<built, pushed>>
remote   == <<blobs, manifests, tags>>
vars == <<program, trees, up, drvPath, sidecar, recorded, pushing, remote, steady, edits, faults>>

Images == DOMAIN program
Builds(i) == program[i].mode = "build"

-----------------------------------------------------------------------------
(* Push groups *)

\* Mutant: the default group is not shared.
DefaultPushGroupFor_PerImage(i) == [kind |-> "default", id |-> i, strategy |-> "serial"]

DefaultPushGroupFor(i) == [kind |-> "default", id |-> program[i].key, strategy |-> "serial"]

PushGroup(i) ==
    IF program[i].pushGroup.kind = "default" THEN DefaultPushGroupFor(i) ELSE program[i].pushGroup

\* The pushes that were registered with the group of i before it.
Registered(i) ==
    {j \in 1..(i - 1) : Builds(j) /\ PushGroup(j).kind # "off" /\ PushGroup(j) = PushGroup(i)}

\* Mutant: what is registered later does not become the previous push.
Dependencies_First(i) == IF Registered(i) = {} THEN {} ELSE {Min(Registered(i))}

Dependencies(i) ==
    IF Registered(i) = {} THEN {}
    ELSE IF PushGroup(i).strategy = "primer" THEN {Min(Registered(i))} ELSE {Max(Registered(i))}

-----------------------------------------------------------------------------
(* What a Command runs for: its environment and triggers. *)

\* Mutant: the derivation is not among the triggers.
BuildInputs_NoDrv(i) == [attr |-> program[i].attr, tag |-> program[i].tag, drv |-> None]

BuildInputs(i) ==
    [attr |-> program[i].attr, tag |-> program[i].tag,
     drv  |-> IF program[i].changeDetection = "drv" THEN drvPath[i] ELSE None]

FullTag(i) == <<program[i].registry, program[i].attr, program[i].tag>>

PushInputs(i) ==
    [fullTag |-> FullTag(i), storePath |-> IF Builds(i) THEN built[i].out ELSE None]

RanFor(command, inputs) == command # None /\ command.inputs = inputs

BuildDue(i) == Builds(i) /\ ~RanFor(built[i], BuildInputs(i))
PushDue(i)  == ~(~BuildDue(i) /\ RanFor(pushed[i], PushInputs(i)))

\* A Command is registered when those it depends on are, each after its own.
Settled[i \in Images] ==
    /\ ~PushDue(i)
    /\ \A d \in Dependencies(i) : Settled[d]

Store(i) == built[i].out
Base(i)  == <<program[i].registry, Store(i).base>>

-----------------------------------------------------------------------------
(* A run *)

Idle == [phase |-> "idle", root |-> None, done |-> FALSE]

\* The derivation as the program finds it, and the sidecar for the script.  (A
\* program that was started for another checkout is refused and does nothing.)
BeginUp(root) ==
    /\ up.phase = "idle"
    /\ up' = [phase |-> "up", root |-> root, done |-> FALSE]
    /\ drvPath' = [i \in Images |-> trees[root][program[i].attr]]
    /\ sidecar' = [i \in Images |-> IF Builds(i) THEN root ELSE None]
    /\ UNCHANGED <<program, trees, recorded, pushing, remote, steady, edits, faults>>

Going == up.phase = "up"

\* The script reads the checkout when it runs.
Build(i) ==
    /\ Going /\ BuildDue(i)
    /\ built' = [built EXCEPT ![i] =
                    [inputs |-> BuildInputs(i), out |-> trees[sidecar[i]][program[i].attr]]]
    /\ UNCHANGED <<program, trees, up, drvPath, sidecar, pushed, pushing, remote, steady,
                   edits, faults>>

StartPush(i) ==
    /\ Going /\ Builds(i) /\ pushing[i] = "no"
    /\ PushDue(i) /\ ~BuildDue(i)
    /\ \A d \in Dependencies(i) : Settled[d]
    /\ pushing' = [pushing EXCEPT ![i] = IF Base(i) \in blobs THEN "manifest" ELSE "upload"]
    /\ UNCHANGED <<program, trees, up, drvPath, sidecar, recorded, remote, steady, edits, faults>>

Upload(i) ==
    /\ pushing[i] = "upload"
    /\ blobs' = blobs \cup {Base(i)}
    /\ pushing' = [pushing EXCEPT ![i] = "manifest"]
    /\ UNCHANGED <<program, trees, up, drvPath, sidecar, recorded, manifests, tags, steady,
                   edits, faults>>

Publish(i) ==
    /\ manifests' = manifests \cup {<<program[i].registry, Store(i)>>}
    /\ tags' = FullTag(i) :> Store(i) @@ tags

PushManifest(i) ==
    /\ pushing[i] = "manifest"
    /\ Publish(i)
    /\ pushed' = [pushed EXCEPT ![i] = [inputs |-> PushInputs(i), digest |-> Store(i)]]
    /\ pushing' = [pushing EXCEPT ![i] = "no"]
    /\ UNCHANGED <<program, trees, up, drvPath, sidecar, built, blobs, steady, edits, faults>>

\* A run that breaks off starts nothing more and lets the others finish.
Stopping == up' = [up EXCEPT !.phase = "stopping"]

Resolve(i) ==
    /\ Going /\ ~Builds(i) /\ PushDue(i)
    /\ IF FullTag(i) \in DOMAIN tags
       THEN /\ pushed' = [pushed EXCEPT ![i] =
                             [inputs |-> PushInputs(i), digest |-> tags[FullTag(i)]]]
            /\ UNCHANGED up
       ELSE Stopping /\ UNCHANGED pushed
    /\ UNCHANGED <<program, trees, drvPath, sidecar, built, pushing, remote, steady, edits, faults>>

Fault == faults < MaxFaults /\ faults' = faults + 1

\* A build or a push fails; a push perhaps when the registry already has it.
BuildFails(i) ==
    /\ Going /\ BuildDue(i) /\ Fault /\ Stopping
    /\ UNCHANGED <<program, trees, drvPath, sidecar, recorded, pushing, remote, steady, edits>>

PushFails(i) ==
    /\ pushing[i] # "no" /\ Fault /\ Stopping
    /\ pushing' = [pushing EXCEPT ![i] = "no"]
    /\ \/ UNCHANGED remote
       \/ pushing[i] = "manifest" /\ Publish(i) /\ UNCHANGED blobs
    /\ UNCHANGED <<program, trees, drvPath, sidecar, recorded, steady, edits>>

EndUp ==
    /\ up.phase # "idle"
    /\ \A i \in Images : pushing[i] = "no"
    /\ Going => \A i \in Images : ~PushDue(i)
    /\ up' = [up EXCEPT !.phase = "idle", !.done = Going]
    /\ UNCHANGED <<program, trees, drvPath, sidecar, recorded, pushing, remote, steady, edits,
                   faults>>

-----------------------------------------------------------------------------
(* The people around it *)

Edit == edits < MaxEdits /\ edits' = edits + 1

\* For the properties: `root` is touched while a run builds from another, or
\* from it, as `by` says.
Touches(disturbs) == steady' = (steady /\ ~(up.phase # "idle" /\ disturbs))

EditTree ==
    /\ Edit
    /\ \E root \in Roots : \E tree \in Trees \ {trees[root]} :
          /\ trees' = [trees EXCEPT ![root] = tree]
          /\ Touches(root = up.root)
    /\ UNCHANGED <<program, up, drvPath, sidecar, recorded, pushing, remote, faults>>

\* The same images, with other settings.
EditProgram ==
    /\ Edit /\ up.phase = "idle"
    /\ program' \in {p \in Programs : /\ p # program /\ Len(p) = Len(program)
                                      /\ \A i \in Images : p[i].mode = program[i].mode}
    /\ up' = [up EXCEPT !.done = FALSE]
    /\ UNCHANGED <<trees, drvPath, sidecar, recorded, pushing, remote, steady, faults>>

\* A preview takes no lock and writes the sidecars as well.
Preview ==
    /\ Edit
    /\ \E root \in Roots :
          /\ sidecar' = [i \in Images |-> IF Builds(i) THEN root ELSE None]
          /\ Touches(root # up.root)
    /\ UNCHANGED <<program, trees, up, drvPath, recorded, pushing, remote, faults>>

-----------------------------------------------------------------------------

Init ==
    /\ program \in Programs
    /\ trees \in [Roots -> Trees]
    /\ up = Idle
    /\ drvPath = [i \in Images |-> None] /\ sidecar = [i \in Images |-> None]
    /\ built = [i \in Images |-> None] /\ pushed = [i \in Images |-> None]
    /\ pushing = [i \in Images |-> "no"]
    /\ blobs = {} /\ manifests = {} /\ tags = <<>>
    /\ steady = TRUE
    /\ edits = 0 /\ faults = 0

Command(i) ==
    \/ Build(i) \/ BuildFails(i)
    \/ StartPush(i) \/ Upload(i) \/ PushManifest(i) \/ PushFails(i)
    \/ Resolve(i)

Next ==
    \/ \E root \in Roots : BeginUp(root)
    \/ \E i \in Images : Command(i)
    \/ EndUp
    \/ EditTree \/ EditProgram \/ Preview

Spec == Init /\ [][Next]_vars

-----------------------------------------------------------------------------
(* Properties *)

\* One group in the words of its documentation: the default one of a registry
\* that is passed as one Input, or one that was given to both (push-group.ts:53).
Grouped(i, j) ==
    /\ program[i].pushGroup = program[j].pushGroup
    /\ program[i].pushGroup.kind = "default" => program[i].key = program[j].key
    /\ program[i].pushGroup.kind # "off"

\* Of the pushes of a serial group one runs at a time; of those of a primed
\* group no two upload the base that the first image carries to its registry.
BaseUploadedOnce ==
    \A i, j \in Images :
        i < j /\ Builds(i) /\ Builds(j) /\ Grouped(i, j) =>
            IF program[i].pushGroup.strategy = "serial"
            THEN "no" \in {pushing[i], pushing[j]}
            ELSE LET first == Min({k \in 1..i : Builds(k) /\ Grouped(k, i)})
                 IN  {pushing[i], pushing[j]} = {"upload"} /\ Base(i) = Base(j)
                        => Base(first) # Base(i)

\* A run that is through has pushed, for each image whose derivation is
\* watched, what the checkout of the run holds, and its reference can be pulled,
\* whatever earlier runs from this or another checkout left undone
\* (nix-output.ts:95).
ImageOfTree ==
    up.done /\ steady =>
        \A i \in Images : Builds(i) /\ program[i].changeDetection = "drv" =>
            /\ pushed[i].digest = drvPath[i]
            /\ <<program[i].registry, pushed[i].digest>> \in manifests
=============================================================================
