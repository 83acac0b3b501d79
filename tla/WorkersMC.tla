----------------------------- MODULE WorkersMC -----------------------------
(***************************************************************************)
(* What runs beside a Pulumi program for TLC, in one run: a behaviour is    *)
(* one of the uptime monitor with invocations in series (UptimeMonitor),   *)
(* of the site that a Worker serves (EdgeSite), or of the images that are  *)
(* pushed (NixImages), as `program` says, and leaves the variables of the  *)
(* others as they are.                                                     *)
(***************************************************************************)
EXTENDS UptimeMonitor, TLC

VARIABLES program, setting, site, worker, r2, purged, running, edge, req, grew, faults
VARIABLES images, trees, up, drvPath, sidecar, built, pushed, pushing,
          blobs, manifests, tags, steady, edits, breaks

CONSTANTS r1, Absent, None

-----------------------------------------------------------------------------

\* The urls of two directories, and a host that is redirected.
MCUrls == { [host |-> "site", dir |-> "", file |-> ""],
            [host |-> "site", dir |-> "docs", file |-> ""],
            [host |-> "www", dir |-> "", file |-> ""] }

MCFiles == { [dir |-> "", file |-> "index.html"], [dir |-> "docs", file |-> "index.html"] }

\* The site starts with one of the two.
MCFirstFiles == [f \in MCFiles |-> IF f.dir = "" THEN 1 ELSE Absent]

MCRedirectRules == << [fromHost |-> "www", toHost |-> "site"] >>

\* Without the cache in any order; with it in the order that keeps it right,
\* and as it comes by default, with a purge and without; and as the README of
\* the component shows it.
MCSettings ==
    { s \in [ttl : {"0", "long"}, version : {"default", "fingerprint", "serial"},
             first : {"worker", "uploads", "neither"}, purge : BOOLEAN] :
        \/ s.ttl = "0" /\ s.version = "default" /\ s.first # "uploads" /\ s.purge
        \/ s.ttl = "long" /\ s.version = "serial" /\ s.first = "uploads"
        \/ s.ttl = "long" /\ s.version = "default" /\ s.first = "neither"
        \/ s.ttl = "long" /\ s.version = "fingerprint" /\ s.first = "worker" /\ ~s.purge }

-----------------------------------------------------------------------------

Layers(base, top) == [base |-> base, top |-> top]

\* Three images whose bases are the same or not.
MCTrees ==
    { [api |-> Layers(1, 1), web |-> Layers(1, 1), job |-> Layers(1, 1)],
      [api |-> Layers(1, 1), web |-> Layers(2, 1), job |-> Layers(2, 1)],
      [api |-> Layers(2, 2), web |-> Layers(2, 1), job |-> Layers(1, 1)] }

Default            == [kind |-> "default", id |-> None, strategy |-> "serial"]
Off                == [kind |-> "off", id |-> None, strategy |-> "serial"]
Given(strategy)    == [kind |-> "given", id |-> "group", strategy |-> strategy]

MCImage(attr, changeDetection, pushGroup) ==
    [attr |-> attr, tag |-> "dev", registry |-> "reg", key |-> "reg", mode |-> "build",
     changeDetection |-> changeDetection, pushGroup |-> pushGroup]

Three(changeDetection, pushGroup) ==
    << MCImage("api", changeDetection, pushGroup), MCImage("web", "drv", pushGroup),
       MCImage("job", "drv", pushGroup) >>

\* The default group; a primed one, whose first image may be behind; images
\* outside of it; and a group over two registries with a tag to be resolved.
MCPrograms ==
    { Three("drv", Default), Three("drv", Given("primer")), Three("none", Given("primer")),
      [Three("drv", Default) EXCEPT ![2].pushGroup = Off, ![3].key = "derived"],
      [Three("drv", Given("serial")) EXCEPT
          ![2].attr = "api", ![2].mode = "resolve",
          ![3].tag = "v1", ![3].registry = "other", ![3].key = "other"] }

-----------------------------------------------------------------------------

Site == INSTANCE EdgeSiteProofs WITH
    Urls <- MCUrls, Files <- MCFiles, Bodies <- {1, 2}, Requests <- {r1},
    Settings <- MCSettings, RedirectRules <- MCRedirectRules,
    MaxEdits <- 3, MaxFaults <- 1

ASSUME SiteSettings == Site!SettingsAssumption

Nix == INSTANCE NixImagesProofs WITH
    Programs <- MCPrograms, Roots <- {"main", "worktree"}, Trees <- MCTrees,
    program <- images, faults <- breaks, MaxEdits <- 1, MaxFaults <- 1

ASSUME ImagePrograms == Nix!ProgramsAssumption

siteVars == <<setting, site, worker, r2, purged, running, edge, req, grew, faults>>
nixVars  == <<images, trees, up, drvPath, sidecar, built, pushed, pushing,
              blobs, manifests, tags, steady, edits, breaks>>
all      == <<program, vars, siteVars, nixVars>>

InMonitor(A) == program = "monitor" /\ A /\ UNCHANGED <<program, siteVars, nixVars>>
InSite(A)    == program = "site" /\ A /\ UNCHANGED <<program, vars, nixVars>>
InImages(A)  == program = "images" /\ A /\ UNCHANGED <<program, vars, siteVars>>

Some(S) == CHOOSE x \in S : TRUE

MCInit ==
    /\ Init /\ Site!Init /\ Nix!Init
    /\ program \in {"monitor", "site", "images"}
    /\ site.files = MCFirstFiles
    /\ program # "site" => setting = Some(MCSettings)
    /\ program # "images" => images = Some(MCPrograms) /\ trees = Some([{"main", "worktree"} -> MCTrees])

MCSpec == MCInit /\ [][InMonitor(Next) \/ InSite(Site!Next) \/ InImages(Nix!Next)]_all

SiteFreshWhenOrdered == Site!SiteFreshWhenOrdered
SiteAddedIsVisible   == Site!SiteAddedIsVisible
BaseUploadedOnce     == Nix!BaseUploadedOnce
ImageOfTree          == Nix!ImageOfTree
=============================================================================
