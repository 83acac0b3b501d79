---------------------------- MODULE PulumiEngine ----------------------------
(***************************************************************************)
(* External: the step order of the Pulumi engine that calls the provider,  *)
(* as the provider's comments and its Diff results rely on it.             *)
(*                                                                         *)
(* One resource at a time.  `declared` says that the program declares it,  *)
(* `recorded` that the state file holds it, `diff` what Diff answered      *)
(* ("none", "update", "replace"), `dbr` the DeleteBeforeReplace it asked   *)
(* for, and `pending` the old generations still to be deleted.             *)
(***************************************************************************)

DiffKinds == {"none", "update", "replace"}

(***************************************************************************)
(* Create: a new resource, or the replacement of one that Diff did not ask *)
(* to delete first.                                                        *)
(***************************************************************************)
MayCreate(declared, recorded, diff, dbr) ==
    /\ declared
    /\ ~recorded \/ (diff = "replace" /\ ~dbr)

MayUpdate(declared, recorded, diff) ==
    declared /\ recorded /\ diff = "update"

(***************************************************************************)
(* Delete the recorded resource: it left the program, or its replacement   *)
(* must wait for its removal.                                              *)
(***************************************************************************)
MayDelete(declared, recorded, diff, dbr) ==
    /\ recorded
    /\ ~declared \/ (diff = "replace" /\ dbr)

(***************************************************************************)
(* Old generations go last, when the program's resource is up to date or   *)
(* gone from the program.                                                  *)
(***************************************************************************)
MayDeletePending(declared, recorded, diff, pending) ==
    /\ pending # {}
    /\ declared => recorded /\ diff = "none"
=============================================================================
