------------------------------ MODULE EdgeSite ------------------------------
(***************************************************************************)
(* A site served from R2: the Worker that WorkerSite deploys (workersite/  *)
(* worker-site-script.ts), its versioned entries in the edge cache, the    *)
(* objects that uploadAssets keeps in the bucket, the purge that follows   *)
(* them (r2/r2object.ts), and deployments that change all three one after  *)
(* the other while requests are in flight.                                 *)
(*                                                                         *)
(* Actors: the requests, the Pulumi run, the author of the site, and the   *)
(* edge cache, which forgets what it likes.                                *)
(*                                                                         *)
(* Abstractions: a body is a number; headers, the scheme and the query are *)
(* left out; the response is complete when R2 answers, and the cache is    *)
(* written behind it.                                                      *)
(***************************************************************************)
EXTENDS Naturals, FiniteSets, SequencesExt

CONSTANTS
    Urls,          \* records [host, dir, file]
    Files,         \* what the site has below its prefix: records [dir, file]
    Bodies,        \* contents of a file
    Absent,        \* no such object, or nothing cached; not a body
    Requests,
    Settings,      \* how a site is deployed, see Setting
    RedirectRules, \* a sequence of records [fromHost, toHost]
    MaxEdits, MaxFaults  \* numbers that bound the edits and the faults

Contents == [Files -> Bodies \cup {Absent}]

\* ttl: CACHE_TTL_SECONDS is 0 or not.  version: how cacheKeyVersion is chosen:
\* left at its default, a fingerprint of the files, or new at every change.
\* first: what the dependencies of the program order: the Worker before the
\* uploads, the uploads before the Worker, or neither.
Setting == [ttl     : {"0", "long"},
            version : {"default", "fingerprint", "serial"},
            first   : {"worker", "uploads", "neither"},
            purge   : BOOLEAN]

SettingsAssumption == Settings \subseteq Setting

VARIABLES
    setting,
    site,        \* the files the program lists, and how often it was edited
    worker,      \* the version and files the deployed script was made for
    r2,          \* the bucket
    purged,      \* the files the recorded purge was made for
    running,     \* a `pulumi up` is in progress
    edge,        \* the Cache API entries: url and version to body
    req,         \* the requests
    grew,        \* the program has added files and never changed one
    faults

deployed == <<worker, r2, purged, running>>
vars     == <<setting, site, deployed, edge, req, grew, faults>>

NoWorker == [version |-> <<>>]
NoFiles  == [f \in Files |-> Absent]

-----------------------------------------------------------------------------
(* The generated script *)

IndexFile == "index.html"

\* Steps 1 to 2.5: a directory stands for its index.
ObjectKey(u) == [dir |-> u.dir, file |-> IF u.file = "" THEN IndexFile ELSE u.file]

\* What a bucket or a program has there; a url may name no file at all.
Under(files, u) == IF ObjectKey(u) \in Files THEN files[ObjectKey(u)] ELSE Absent

Redirected(u) == \E i \in DOMAIN RedirectRules : RedirectRules[i].fromHost = u.host

CacheEnabled == setting.ttl # "0"

\* The url as it was asked for, under the version of the script.
CacheKey(u, version) == [url |-> u, version |-> version]

Idle == [pc |-> "idle"]

Update(r, rec) == req' = [req EXCEPT ![r] = rec]

\* A request arrives at a domain of the site.  `calm` marks, for the
\* properties only, a request that nothing is deployed under.
Arrive(r, u) ==
    /\ req[r] = Idle
    /\ worker # NoWorker
    /\ Update(r, [pc      |-> IF Redirected(u) THEN "redirected"
                              ELSE IF CacheEnabled THEN "match" ELSE "get",
                  url     |-> u,
                  version |-> worker.version,
                  calm    |-> ~running,
                  body    |-> Absent,
                  status  |-> 0])
    /\ UNCHANGED <<setting, site, deployed, edge, grew, faults>>

Match(r) ==
    /\ req[r].pc = "match"
    /\ LET hits == {e \in edge : e.key = CacheKey(req[r].url, req[r].version)} IN
       \/ hits = {} /\ Update(r, [req[r] EXCEPT !.pc = "get"])
       \/ \E e \in hits :
             Update(r, [req[r] EXCEPT !.pc = "done", !.status = 200, !.body = e.body])
    /\ UNCHANGED <<setting, site, deployed, edge, grew, faults>>

\* Mutant: what is missing is remembered as well.
Get_CachesMissing(r) ==
    /\ req[r].pc = "get"
    /\ LET object == Under(r2, req[r].url) IN
       Update(r, [req[r] EXCEPT !.pc = IF CacheEnabled THEN "put" ELSE "done",
                                !.status = IF object = Absent THEN 404 ELSE 200,
                                !.body = object])
    /\ UNCHANGED <<setting, site, deployed, edge, grew, faults>>

\* Steps 4 to 6; the response is on its way before the cache is written.
Get(r) ==
    /\ req[r].pc = "get"
    /\ LET object == Under(r2, req[r].url) IN
       Update(r, IF object = Absent
                 THEN [req[r] EXCEPT !.pc = "done", !.status = 404]
                 ELSE [req[r] EXCEPT !.pc = IF CacheEnabled THEN "put" ELSE "done",
                                     !.status = 200, !.body = object])
    /\ UNCHANGED <<setting, site, deployed, edge, grew, faults>>

\* R2 or the cache fails: the handler answers 500.
GetFails(r) ==
    /\ req[r].pc \in {"match", "get"}
    /\ faults < MaxFaults
    /\ faults' = faults + 1
    /\ Update(r, [req[r] EXCEPT !.pc = "done", !.status = 500])
    /\ UNCHANGED <<setting, site, deployed, edge, grew>>

\* Step 7, in waitUntil, at any later time.
Put(r) ==
    /\ req[r].pc = "put"
    /\ LET key == CacheKey(req[r].url, req[r].version) IN
       edge' = {e \in edge : e.key # key} \cup {[key |-> key, body |-> req[r].body]}
    /\ Update(r, [req[r] EXCEPT !.pc = "done"])
    /\ UNCHANGED <<setting, site, deployed, grew, faults>>

\* The client has its answer; another request may come.
Leave(r) ==
    /\ req[r].pc \in {"done", "redirected"}
    /\ Update(r, Idle)
    /\ UNCHANGED <<setting, site, deployed, edge, grew, faults>>

Evict ==
    /\ \E e \in edge : edge' = edge \ {e}
    /\ UNCHANGED <<setting, site, deployed, req, grew, faults>>

-----------------------------------------------------------------------------
(* Deployment *)

\* What the author passes as cacheKeyVersion.
CacheKeyVersion == CASE setting.version = "default"     -> <<"default">>
                     [] setting.version = "fingerprint" -> <<site.files>>
                     [] setting.version = "serial"      -> <<site.edits>>

WorkerDue  == worker.version # CacheKeyVersion
UploadsDue == {f \in Files : r2[f] # site.files[f]}
WritesDue  == {f \in UploadsDue : site.files[f] # Absent}
PurgeDue   == setting.purge /\ purged # site.files

\* A run waits for nobody: the program does not change under it.
BeginUp ==
    /\ ~running
    /\ WorkerDue \/ UploadsDue # {} \/ PurgeDue
    /\ running' = TRUE
    /\ req' = [r \in Requests |->
                 IF req[r] = Idle THEN Idle ELSE [req[r] EXCEPT !.calm = FALSE]]
    /\ UNCHANGED <<setting, site, worker, r2, purged, edge, grew, faults>>

\* Mutant: the Worker does not wait for the uploads.
DeployWorker_Unordered ==
    /\ running /\ WorkerDue
    /\ worker' = [version |-> CacheKeyVersion]
    /\ UNCHANGED <<setting, site, r2, purged, running, edge, req, grew, faults>>

\* The script with its bindings: TTL and version change with it.
DeployWorker ==
    /\ running /\ WorkerDue
    /\ setting.first = "uploads" => WritesDue = {}
    /\ worker' = [version |-> CacheKeyVersion]
    /\ UNCHANGED <<setting, site, r2, purged, running, edge, req, grew, faults>>

\* One R2Object per file, independent of each other.  Deletions come when the
\* rest of the run is done.
Upload(f) ==
    /\ running /\ f \in UploadsDue
    /\ setting.first = "worker" => ~WorkerDue
    /\ site.files[f] = Absent => ~WorkerDue /\ ~PurgeDue /\ WritesDue = {}
    /\ r2' = [r2 EXCEPT ![f] = site.files[f]]
    /\ UNCHANGED <<setting, site, worker, purged, running, edge, req, grew, faults>>

\* purgeZoneCache, placed after the uploads.  What a Worker has put into the
\* cache is not reliably purged.
Purge ==
    /\ running /\ PurgeDue
    /\ WritesDue = {}
    /\ edge' \in {{}, edge}
    /\ purged' = site.files
    /\ UNCHANGED <<setting, site, worker, r2, running, req, grew, faults>>

\* A step fails or the run is interrupted: what is done stays done.
Interrupt ==
    /\ running
    /\ faults < MaxFaults
    /\ faults' = faults + 1
    /\ running' = FALSE
    /\ UNCHANGED <<setting, site, worker, r2, purged, edge, req, grew>>

EndUp ==
    /\ running
    /\ ~WorkerDue /\ UploadsDue = {} /\ ~PurgeDue
    /\ running' = FALSE
    /\ UNCHANGED <<setting, site, worker, r2, purged, edge, req, grew, faults>>

EditSite ==
    /\ ~running
    /\ site.edits < MaxEdits
    /\ \E files \in Contents \ {site.files, NoFiles} :
          /\ site' = [files |-> files, edits |-> site.edits + 1]
          /\ grew' = (grew /\ \A f \in Files : site.files[f] \in {Absent, files[f]})
    /\ req' = [r \in Requests |->
                 IF req[r] = Idle THEN Idle ELSE [req[r] EXCEPT !.calm = FALSE]]
    /\ UNCHANGED <<setting, deployed, edge, faults>>

-----------------------------------------------------------------------------

Init ==
    /\ setting \in Settings
    /\ \E files \in Contents \ {NoFiles} : site = [files |-> files, edits |-> 1]
    /\ worker = NoWorker /\ r2 = NoFiles /\ purged = NoFiles /\ running = FALSE
    /\ edge = {}
    /\ req = [r \in Requests |-> Idle]
    /\ grew = TRUE
    /\ faults = 0

Serving(r) ==
    \/ \E u \in Urls : Arrive(r, u)
    \/ Match(r) \/ Get(r) \/ GetFails(r) \/ Put(r) \/ Leave(r)

Deploying ==
    \/ BeginUp \/ DeployWorker \/ (\E f \in Files : Upload(f)) \/ Purge
    \/ Interrupt \/ EndUp

Next == (\E r \in Requests : Serving(r)) \/ Deploying \/ EditSite \/ Evict

Spec == Init /\ [][Next]_vars

-----------------------------------------------------------------------------
(* Properties *)

\* Nothing is left to deploy.
Deployed == ~running /\ ~WorkerDue /\ UploadsDue = {} /\ ~PurgeDue

Answered(r) == req[r] # Idle /\ req[r].status \in {200, 404}

\* The request came and was answered while nothing was left to deploy.
AnsweredCalmly(r) == Answered(r) /\ req[r].calm /\ Deployed

\* A request that falls between two deployments is answered with the file as
\* the program lists it.  (A file it lists no more is deleted after the Worker
\* was deployed, and may stay in the cache.)
Current(r) ==
    LET listed == Under(site.files, req[r].url)
    IN  AnsweredCalmly(r) /\ listed # Absent => req[r].body = listed

\* So it is without the cache, and with it where the uploads come before the
\* Worker and no version is ever used again, whatever requests, puts and
\* evictions do in between.
SiteFreshWhenOrdered ==
    setting.ttl = "0" \/ (setting.version = "serial" /\ setting.first = "uploads") =>
        \A r \in Requests : Current(r)

\* As long as a program only adds files, no order and no version matters: that
\* a file was missing is not remembered.
SiteAddedIsVisible == grew => \A r \in Requests : Current(r)
=============================================================================
