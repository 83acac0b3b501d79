--------------------------- MODULE EdgeSiteProofs ---------------------------
(***************************************************************************)
(* Theorems about a site served from R2, for any urls, files, contents,    *)
(* redirects and bounds: which of the program's files a request between    *)
(* two deployments is answered with.                                       *)
(***************************************************************************)
EXTENDS EdgeSite, TLAPS

\* What cacheKeyVersion may be, and the states of a request.
Versions ==
    {<<"default">>} \cup {<<files>> : files \in Contents} \cup {<<n>> : n \in Nat}

Places   == {"redirected", "match", "get", "put", "done"}
Statuses == {0, 200, 404, 500}
Found    == Bodies \cup {Absent}

RequestStates ==
    [pc : Places, url : Urls, version : Versions,
     calm : BOOLEAN, body : Found, status : Statuses]

Entries == [key : [url : Urls, version : Versions], body : Found]

Types ==
    /\ setting \in Setting
    /\ site \in [files : Contents, edits : Nat \ {0}]
    /\ worker = NoWorker \/ worker \in [version : Versions]
    /\ r2 \in Contents
    /\ running \in BOOLEAN
    /\ edge \subseteq Entries
    /\ req \in [Requests -> {Idle} \cup RequestStates]

-----------------------------------------------------------------------------
(* What the operators return *)

LEMMA VersionTyped == ASSUME Types PROVE CacheKeyVersion \in Versions
  BY DEF CacheKeyVersion, Types, Versions, Setting

LEMMA UnderTyped ==
    ASSUME NEW files \in Contents, NEW u PROVE Under(files, u) \in Found
  BY DEF Under, Contents, Found

LEMMA Constants ==
    /\ "redirected" \in Places /\ "match" \in Places /\ "get" \in Places
    /\ "put" \in Places /\ "done" \in Places
    /\ 0 \in Statuses /\ 200 \in Statuses /\ 404 \in Statuses /\ 500 \in Statuses
    /\ Absent \in Found
  BY DEF Places, Statuses, Found

LEMMA NotIdle == \A q \in RequestStates : q # Idle /\ q.pc # "idle"
  BY DEF RequestStates, Places, Idle

LEMMA Pending ==
    ASSUME Types, NEW r \in Requests, req[r].pc # "idle" PROVE req[r] \in RequestStates
  BY DEF Types, Idle

\* A request keeps its url, the version it came under and whether it is calm.
Same(q, n) == n.url = q.url /\ n.version = q.version /\ n.calm = q.calm

-----------------------------------------------------------------------------
(* What a step of a request is: its new record q, and what becomes of the cache *)

Arrived(q) ==
    /\ q \in RequestStates
    /\ worker # NoWorker /\ q.version = worker.version
    /\ q.calm => ~running
    /\ q.status = 0
    /\ q.pc \in {"redirected", "match", "get"}
    /\ q.pc = "match" => CacheEnabled
    /\ edge' = edge

Hit(p, q) ==
    /\ p.pc = "match" /\ q.pc = "done" /\ q.status = 200
    /\ \E e \in edge : e.key.url = p.url /\ e.key.version = p.version /\ q.body = e.body
    /\ edge' = edge

Fetched(p, q) ==
    /\ p.pc = "get"
    /\ \/ q.pc = "done" /\ q.status = 404 /\ Under(r2, p.url) = Absent
       \/ /\ q.pc \in {"put", "done"} /\ q.status = 200
          /\ q.body = Under(r2, p.url) /\ q.body # Absent
    /\ edge' = edge

Missed(p, q) ==
    /\ q.pc = "get" /\ q.status = p.status /\ q.body = p.body
    /\ edge' = edge

Failed(q) == q.pc = "done" /\ q.status = 500 /\ edge' = edge

Stored(p, q) ==
    /\ p.pc = "put" /\ q.pc = "done" /\ q.status = p.status /\ q.body = p.body
    /\ \A e \in edge' \ edge :
          e = [key |-> [url |-> p.url, version |-> p.version], body |-> p.body]

Step(p, q) ==
    \/ q = Idle /\ edge' = edge
    \/ Arrived(q)
    \/ /\ p \in RequestStates /\ q \in RequestStates /\ Same(p, q)
       /\ Hit(p, q) \/ Fetched(p, q) \/ Missed(p, q) \/ Failed(q) \/ Stored(p, q)

LEMMA ArriveStep ==
    ASSUME Types, NEW r \in Requests, NEW u \in Urls, Arrive(r, u)
    PROVE  \E q : Update(r, q) /\ Step(req[r], q)
  <1> DEFINE place == IF Redirected(u) THEN "redirected"
                      ELSE IF CacheEnabled THEN "match" ELSE "get"
             q == [pc      |-> place,
                   url     |-> u,
                   version |-> worker.version,
                   calm    |-> ~running,
                   body    |-> Absent,
                   status  |-> 0]
  <1>1. place \in {"redirected", "match", "get"} /\ (place = "match" => CacheEnabled)
    OBVIOUS
  <1>2. place \in Places
    BY <1>1, Constants
  <1>3. worker # NoWorker /\ worker.version \in Versions /\ (~running) \in BOOLEAN
    <2>1. worker # NoWorker /\ worker.version \in Versions
      BY DEF Arrive, Types
    <2>2. (~running) \in BOOLEAN
      BY Zenon
    <2> QED BY <2>1, <2>2
  <1>4. Update(r, q) /\ edge' = edge
    BY DEF Arrive
  <1> HIDE DEF place
  <1>5. q \in RequestStates
    BY <1>2, <1>3, Constants DEF RequestStates
  <1>6. q.pc = place /\ q.version = worker.version /\ q.status = 0
    OBVIOUS
  <1>7. q.calm = ~running
    OBVIOUS
  <1> HIDE DEF q
  <1>8. q.calm => ~running
    BY <1>7, Zenon
  <1>9. Arrived(q)
    BY <1>1, <1>3, <1>4, <1>5, <1>6, <1>8 DEF Arrived
  <1> QED BY <1>4, <1>9 DEF Step

LEMMA MatchStep ==
    ASSUME Types, NEW r \in Requests, Match(r)
    PROVE  \E q : Update(r, q) /\ Step(req[r], q)
  <1>1. req[r] \in RequestStates /\ req[r].pc = "match" /\ edge' = edge
    BY Pending DEF Match, deployed
  <1>2. CASE Update(r, [req[r] EXCEPT !.pc = "get"])
    BY <1>1, <1>2, Constants DEF RequestStates, Same, Step, Missed
  <1>3. ASSUME NEW e \in edge, e.key = CacheKey(req[r].url, req[r].version),
               Update(r, [req[r] EXCEPT !.pc = "done", !.status = 200, !.body = e.body])
        PROVE  \E q : Update(r, q) /\ Step(req[r], q)
    <2>1. e.body \in Found /\ e.key.url = req[r].url /\ e.key.version = req[r].version
      BY <1>3 DEF Types, Entries, CacheKey
    <2>2. PICK q : q = [req[r] EXCEPT !.pc = "done", !.status = 200, !.body = e.body]
      OBVIOUS
    <2>3. /\ q \in RequestStates /\ Same(req[r], q)
          /\ q.pc = "done" /\ q.status = 200 /\ q.body = e.body
      BY <1>1, <2>1, <2>2, Constants DEF RequestStates, Same
    <2>4. Hit(req[r], q)
      BY <1>1, <2>1, <2>3 DEF Hit
    <2> QED BY <1>1, <1>3, <2>2, <2>3, <2>4 DEF Step
  <1> QED BY <1>2, <1>3 DEF Match

LEMMA GetStep ==
    ASSUME Types, NEW r \in Requests, Get(r)
    PROVE  \E q : Update(r, q) /\ Step(req[r], q)
  <1> DEFINE object == Under(r2, req[r].url)
             place  == IF CacheEnabled THEN "put" ELSE "done"
  <1>1. req[r] \in RequestStates /\ req[r].pc = "get" /\ edge' = edge
    BY Pending DEF Get
  <1>2. object \in Found
    BY UnderTyped DEF Types
  <1>3. CASE object = Absent
    <2>1. PICK q : q = [req[r] EXCEPT !.pc = "done", !.status = 404]
      OBVIOUS
    <2>2. Update(r, q)
      BY <1>3, <2>1 DEF Get
    <2>3. q \in RequestStates
      <3>1. "done" \in Places /\ 404 \in Statuses
        BY Constants
      <3> QED BY <1>1, <2>1, <3>1 DEF RequestStates
    <2>4. Same(req[r], q) /\ q.pc = "done" /\ q.status = 404
      BY <1>1, <2>1 DEF RequestStates, Same
    <2> QED BY <1>1, <1>3, <2>2, <2>3, <2>4 DEF Step, Fetched
  <1>4. CASE object # Absent
    <2>1. PICK q : q = [req[r] EXCEPT !.pc = place, !.status = 200, !.body = object]
      OBVIOUS
    <2>2. Update(r, q)
      BY <1>4, <2>1 DEF Get
    <2>3. place \in {"put", "done"} /\ place \in Places
      BY Constants
    <2> HIDE DEF place, object
    <2>4. /\ q \in RequestStates /\ Same(req[r], q)
          /\ q.pc = place /\ q.status = 200 /\ q.body = object
      BY <1>1, <1>2, <2>1, <2>3, Constants DEF RequestStates, Same
    <2> QED BY <1>1, <1>4, <2>2, <2>3, <2>4 DEF Step, Fetched, object
  <1> QED BY <1>3, <1>4

LEMMA FailStep ==
    ASSUME Types, NEW r \in Requests, GetFails(r)
    PROVE  \E q : Update(r, q) /\ Step(req[r], q)
  <1>1. req[r] \in RequestStates /\ edge' = edge
    BY Pending DEF GetFails
  <1>2. PICK q : q = [req[r] EXCEPT !.pc = "done", !.status = 500]
    OBVIOUS
  <1>3. q \in RequestStates
    <2>1. "done" \in Places /\ 500 \in Statuses
      BY Constants
    <2> QED BY <1>1, <1>2, <2>1 DEF RequestStates
  <1>4. Same(req[r], q) /\ q.pc = "done" /\ q.status = 500
    BY <1>1, <1>2 DEF RequestStates, Same
  <1> QED BY <1>1, <1>2, <1>3, <1>4 DEF GetFails, Step, Failed

LEMMA PutStep ==
    ASSUME Types, NEW r \in Requests, Put(r)
    PROVE  \E q : Update(r, q) /\ Step(req[r], q)
  <1>1. req[r] \in RequestStates /\ req[r].pc = "put"
    BY Pending DEF Put
  <1>2. PICK q : q = [req[r] EXCEPT !.pc = "done"]
    OBVIOUS
  <1>3. /\ q \in RequestStates /\ Same(req[r], q) /\ q.pc = "done"
        /\ q.status = req[r].status /\ q.body = req[r].body
    BY <1>1, <1>2, Constants DEF RequestStates, Same
  <1>4. \A e \in edge' \ edge :
          e = [key |-> [url |-> req[r].url, version |-> req[r].version], body |-> req[r].body]
    BY DEF Put, CacheKey
  <1> QED BY <1>1, <1>2, <1>3, <1>4 DEF Put, Step, Stored

LEMMA ServingStep ==
    ASSUME Types, NEW r \in Requests, Serving(r)
    PROVE  /\ UNCHANGED <<setting, site, deployed, grew>>
           /\ \E q : Update(r, q) /\ Step(req[r], q)
  <1>1. UNCHANGED <<setting, site, deployed, grew>>
    BY DEF Serving, Arrive, Match, Get, GetFails, Put, Leave
  <1>2. ASSUME Leave(r) PROVE \E q : Update(r, q) /\ Step(req[r], q)
    BY <1>2 DEF Leave, Step
  <1> QED BY <1>1, <1>2, ArriveStep, MatchStep, GetStep, FailStep, PutStep DEF Serving

-----------------------------------------------------------------------------
(* Types *)

LEMMA InitTypes == ASSUME SettingsAssumption, Init PROVE Types
  <1>1. r2 \in Contents /\ setting \in Setting
    BY DEF Init, Contents, NoFiles, SettingsAssumption
  <1>2. site \in [files : Contents, edits : Nat \ {0}]
    BY DEF Init
  <1>3. req \in [Requests -> {Idle} \cup RequestStates]
    BY DEF Init
  <1> QED BY <1>1, <1>2, <1>3 DEF Init, Types

LEMMA StepTypes ==
    ASSUME Types, NEW r \in Requests, NEW q, Update(r, q), Step(req[r], q),
           UNCHANGED <<setting, site, deployed>>
    PROVE  Types'
  <1>1. q \in {Idle} \cup RequestStates
    BY DEF Step, Arrived
  <1>2. req' \in [Requests -> {Idle} \cup RequestStates]
    BY <1>1 DEF Types, Update
  <1>3. edge' \subseteq Entries
    <2>1. ASSUME req[r] \in RequestStates, Stored(req[r], q), NEW e \in edge' \ edge
          PROVE  e \in Entries
      BY <2>1 DEF Stored, Entries, RequestStates
    <2> QED
      BY <2>1 DEF Types, Step, Arrived, Hit, Fetched, Missed, Failed
  <1> QED BY <1>2, <1>3 DEF Types, deployed

\* When a run begins or the site is edited, no request is calm any more.
NoneCalm == req' = [r \in Requests |->
                      IF req[r] = Idle THEN Idle ELSE [req[r] EXCEPT !.calm = FALSE]]

Disturbed(q, n) ==
    /\ q = Idle <=> n = Idle
    /\ n # Idle => /\ q \in RequestStates /\ n \in RequestStates /\ n.calm = FALSE
                   /\ n.pc = q.pc /\ n.url = q.url /\ n.version = q.version
                   /\ n.status = q.status /\ n.body = q.body

LEMMA CalmEnds ==
    ASSUME Types, NoneCalm
    PROVE  /\ req' \in [Requests -> {Idle} \cup RequestStates]
           /\ \A r \in Requests : Disturbed(req[r], req'[r])
  <1>1. ASSUME NEW r \in Requests, req[r] # Idle
        PROVE  req'[r] \in RequestStates /\ Disturbed(req[r], req'[r])
    <2>1. req[r] \in RequestStates /\ req'[r] = [req[r] EXCEPT !.calm = FALSE]
      BY <1>1 DEF Types, NoneCalm
    <2>2. req'[r] \in RequestStates
      BY <2>1 DEF RequestStates
    <2>3. /\ req'[r].calm = FALSE /\ req'[r].pc = req[r].pc /\ req'[r].url = req[r].url
          /\ req'[r].version = req[r].version /\ req'[r].status = req[r].status
          /\ req'[r].body = req[r].body
      BY <2>1 DEF RequestStates
    <2> QED BY <1>1, <2>1, <2>2, <2>3, NotIdle DEF Disturbed
  <1>2. ASSUME NEW r \in Requests, req[r] = Idle PROVE req'[r] = Idle
    BY <1>2 DEF NoneCalm
  <1> QED BY <1>1, <1>2 DEF NoneCalm, Disturbed

LEMMA NextTypes == Types /\ [Next]_vars => Types'
  <1> SUFFICES ASSUME Types, [Next]_vars PROVE Types'
    OBVIOUS
  <1>1. ASSUME NEW r \in Requests, Serving(r) PROVE Types'
    BY <1>1, ServingStep, StepTypes
  <1>2. CASE BeginUp
    <2>1. NoneCalm
      BY <1>2 DEF BeginUp, NoneCalm
    <2> QED BY <1>2, <2>1, CalmEnds DEF BeginUp, Types
  <1>3. CASE DeployWorker
    BY <1>3, VersionTyped DEF DeployWorker, Types
  <1>4. ASSUME NEW f \in Files, Upload(f) PROVE Types'
    <2>1. site.files[f] \in Bodies \cup {Absent}
      BY DEF Types, Contents
    <2>2. r2' \in Contents
      BY <1>4, <2>1 DEF Upload, Types, Contents
    <2> QED BY <1>4, <2>2 DEF Upload, Types
  <1>5. CASE Purge \/ Evict
    BY <1>5 DEF Purge, Evict, deployed, Types
  <1>6. CASE Interrupt \/ EndUp
    BY <1>6 DEF Interrupt, EndUp, Types
  <1>7. CASE EditSite
    <2>1. NoneCalm
      BY <1>7 DEF EditSite, NoneCalm
    <2>2. site' \in [files : Contents, edits : Nat \ {0}]
      BY <1>7 DEF EditSite, Types
    <2> QED BY <1>7, <2>1, <2>2, CalmEnds DEF EditSite, deployed, Types
  <1>8. CASE UNCHANGED vars
    BY <1>8 DEF vars, deployed, Types
  <1> QED BY <1>1, <1>2, <1>3, <1>4, <1>5, <1>6, <1>7, <1>8 DEF Next, Deploying

-----------------------------------------------------------------------------
(* A calm request is answered under the Worker and the bucket as they are, *)
(* or from the cache, and from the bucket alone without a cache.           *)

CalmRequest(q) ==
    q # Idle =>
        /\ q.pc = "match" => CacheEnabled
        /\ q.pc = "put" => q.status = 200
        /\ q.calm =>
              /\ ~running
              /\ q.version = worker.version
              /\ q.status = 404 => Under(r2, q.url) = Absent
              /\ ~CacheEnabled /\ q.status = 200 => q.body = Under(r2, q.url)

CalmInv == \A r \in Requests : CalmRequest(req[r])

LEMMA CalmStep ==
    ASSUME Types, CalmInv, NEW r \in Requests, NEW q, Update(r, q), Step(req[r], q),
           UNCHANGED <<setting, site, deployed>>
    PROVE  CalmInv'
  <1>1. CalmRequest(req[r])
    BY DEF CalmInv
  <1>2. CalmRequest(q)
    <2>1. CASE Arrived(q)
      BY <2>1 DEF Arrived, CalmRequest
    <2>2. CASE /\ req[r] \in RequestStates /\ q \in RequestStates /\ Same(req[r], q)
               /\ Hit(req[r], q) \/ Missed(req[r], q) \/ Failed(q) \/ Stored(req[r], q)
      BY <1>1, <2>2, NotIdle DEF Hit, Missed, Failed, Stored, Same, CalmRequest
    <2>3. CASE /\ req[r] \in RequestStates /\ q \in RequestStates /\ Same(req[r], q)
               /\ Fetched(req[r], q)
      BY <1>1, <2>3, NotIdle DEF Fetched, Same, CalmRequest
    <2> QED BY <2>1, <2>2, <2>3 DEF Step, CalmRequest
  <1>3. \A d \in Requests : req'[d] = IF d = r THEN q ELSE req[d]
    BY DEF Types, Update
  <1>4. \A d \in Requests : CalmRequest(IF d = r THEN q ELSE req[d])
    BY <1>2 DEF CalmInv
  <1> QED BY <1>3, <1>4 DEF CalmInv, CalmRequest, deployed, CacheEnabled, Under

\* Only a run changes the Worker and the bucket.
LEMMA CalmRun ==
    ASSUME Types, CalmInv, running, UNCHANGED <<setting, req>> PROVE CalmInv'
  <1> SUFFICES ASSUME NEW r \in Requests PROVE CalmRequest(req[r])'
    BY DEF CalmInv
  <1>1. CalmRequest(req[r])
    BY DEF CalmInv
  <1>2. req[r] # Idle => ~req[r].calm
    BY <1>1 DEF CalmRequest
  <1> QED BY <1>1, <1>2 DEF CalmRequest, CacheEnabled

LEMMA CalmOver ==
    ASSUME Types, CalmInv, NoneCalm, UNCHANGED setting PROVE CalmInv'
  <1> SUFFICES ASSUME NEW r \in Requests PROVE CalmRequest(req[r])'
    BY DEF CalmInv
  <1>1. CalmRequest(req[r]) /\ Disturbed(req[r], req'[r])
    BY CalmEnds DEF CalmInv
  <1>2. req'[r] # Idle => ~req'[r].calm
    BY <1>1 DEF Disturbed
  <1> QED BY <1>1, <1>2 DEF CalmRequest, CacheEnabled, Disturbed

LEMMA CalmSame ==
    ASSUME CalmInv, UNCHANGED <<setting, worker, r2, running, req>> PROVE CalmInv'
  BY DEF CalmInv, CalmRequest, CacheEnabled, Under

LEMMA NextCalm == Types /\ CalmInv /\ [Next]_vars => CalmInv'
  <1> SUFFICES ASSUME Types, CalmInv, [Next]_vars PROVE CalmInv'
    OBVIOUS
  <1>1. ASSUME NEW r \in Requests, Serving(r) PROVE CalmInv'
    BY <1>1, ServingStep, CalmStep
  <1>2. CASE BeginUp
    BY <1>2, CalmOver DEF BeginUp, NoneCalm
  <1>3. CASE DeployWorker
    BY <1>3, CalmRun DEF DeployWorker
  <1>4. ASSUME NEW f \in Files, Upload(f) PROVE CalmInv'
    BY <1>4, CalmRun DEF Upload
  <1>5. CASE Purge \/ Interrupt \/ EndUp
    BY <1>5, CalmRun DEF Purge, Interrupt, EndUp
  <1>6. CASE EditSite
    BY <1>6, CalmOver DEF EditSite, NoneCalm
  <1>7. CASE Evict \/ UNCHANGED vars
    BY <1>7, CalmSame DEF Evict, vars, deployed
  <1> QED BY <1>1, <1>2, <1>3, <1>4, <1>5, <1>6, <1>7 DEF Next, Deploying

-----------------------------------------------------------------------------
(* A program that only adds files: what is stored anywhere is what it lists *)

Listed(u, body) == body = Under(site.files, u) /\ body # Absent

GrewInv ==
    grew =>
      /\ \A f \in Files : r2[f] \in {Absent, site.files[f]}
      /\ \A e \in edge : Listed(e.key.url, e.body)
      /\ \A r \in Requests :
            req[r] # Idle /\ req[r].status = 200 => Listed(req[r].url, req[r].body)

LEMMA GrewStep ==
    ASSUME Types, CalmInv, GrewInv, NEW r \in Requests, NEW q, Update(r, q), Step(req[r], q),
           UNCHANGED <<setting, site, deployed, grew>>
    PROVE  GrewInv'
  <1> SUFFICES ASSUME grew PROVE GrewInv'
    BY DEF GrewInv
  <1> DEFINE Right(n) == n # Idle /\ n.status = 200 => Listed(n.url, n.body)
  <1>1. Right(req[r]) /\ CalmRequest(req[r])
    BY DEF GrewInv, CalmInv
  <1>2. Right(q)
    <2>1. CASE q = Idle \/ Arrived(q)
      BY <2>1 DEF Arrived
    <2>2. CASE /\ req[r] \in RequestStates /\ Same(req[r], q)
               /\ Missed(req[r], q) \/ Failed(q) \/ Stored(req[r], q)
      BY <1>1, <2>2, NotIdle DEF Missed, Failed, Stored, Same, CalmRequest
    <2>3. CASE Same(req[r], q) /\ Hit(req[r], q)
      BY <2>3 DEF Same, Hit, GrewInv
    <2>4. CASE Same(req[r], q) /\ Fetched(req[r], q)
      <3>1. Under(r2, req[r].url) \in {Absent, Under(site.files, req[r].url)}
        BY DEF Under, GrewInv
      <3> QED BY <2>4, <3>1 DEF Same, Fetched, Listed
    <2> QED BY <2>1, <2>2, <2>3, <2>4 DEF Step
  <1>3. \A e \in edge' : Listed(e.key.url, e.body)
    <2>1. CASE Stored(req[r], q) /\ req[r] \in RequestStates
      <3>1. Listed(req[r].url, req[r].body)
        BY <1>1, <2>1, NotIdle DEF Stored, CalmRequest
      <3>2. \A e \in edge' \ edge : e.key.url = req[r].url /\ e.body = req[r].body
        BY <2>1 DEF Stored
      <3> QED BY <3>1, <3>2 DEF GrewInv
    <2>2. CASE edge' = edge
      BY <2>2 DEF GrewInv
    <2> QED BY <2>1, <2>2 DEF Step, Arrived, Hit, Fetched, Missed, Failed
  <1>4. \A d \in Requests : req'[d] = IF d = r THEN q ELSE req[d]
    BY DEF Types, Update
  <1>5. \A d \in Requests : Right(IF d = r THEN q ELSE req[d])
    BY <1>2 DEF GrewInv
  <1>6. \A d \in Requests : Right(req'[d])
    BY <1>4, <1>5
  <1> QED BY <1>3, <1>6 DEF GrewInv, deployed, Listed, Under

LEMMA GrewSame ==
    ASSUME GrewInv, UNCHANGED <<site, req, grew>>, edge' \subseteq edge,
           \A f \in Files : r2'[f] \in {r2[f], site.files[f]}
    PROVE  GrewInv'
  BY DEF GrewInv, Listed, Under

\* A file that is listed stays as it is while the program only grows.
LEMMA GrewEdit ==
    ASSUME Types, GrewInv, EditSite PROVE GrewInv'
  <1> SUFFICES ASSUME grew' PROVE GrewInv'
    BY DEF GrewInv
  <1>1. /\ grew' = (grew /\ \A f \in Files : site.files[f] \in {Absent, site'.files[f]})
        /\ NoneCalm /\ edge' = edge /\ r2' = r2
    <2>1. PICK files \in Contents :
            /\ site' = [files |-> files, edits |-> site.edits + 1]
            /\ grew' = (grew /\ \A f \in Files : site.files[f] \in {Absent, files[f]})
      BY DEF EditSite
    <2>2. site'.files = files
      BY <2>1
    <2> QED BY <2>1, <2>2 DEF EditSite, NoneCalm, deployed
  <1>2. grew /\ \A f \in Files : site.files[f] \in {Absent, site'.files[f]}
    BY <1>1, Zenon
  <1>3. \A u, body : Listed(u, body) => body = Under(site'.files, u) /\ body # Absent
    BY <1>2 DEF Listed, Under
  <1>4. \A f \in Files : r2'[f] \in {Absent, site'.files[f]}
    BY <1>1, <1>2 DEF GrewInv
  <1>5. \A e \in edge' : Listed(e.key.url, e.body)'
    BY <1>1, <1>2, <1>3 DEF GrewInv, Listed
  <1>6. ASSUME NEW r \in Requests, req'[r] # Idle, req'[r].status = 200
        PROVE  Listed(req[r].url, req[r].body)'
    <2>1. Disturbed(req[r], req'[r])
      BY <1>1, CalmEnds
    <2>2. Listed(req[r].url, req[r].body)
      BY <1>2, <1>6, <2>1 DEF Disturbed, GrewInv
    <2> QED BY <1>3, <1>6, <2>1, <2>2 DEF Disturbed, Listed
  <1> QED BY <1>4, <1>5, <1>6 DEF GrewInv

LEMMA NextGrew == Types /\ CalmInv /\ GrewInv /\ [Next]_vars => GrewInv'
  <1> SUFFICES ASSUME Types, CalmInv, GrewInv, [Next]_vars PROVE GrewInv'
    OBVIOUS
  <1>1. ASSUME NEW r \in Requests, Serving(r) PROVE GrewInv'
    BY <1>1, ServingStep, GrewStep
  <1>2. CASE BeginUp
    <2>1. NoneCalm /\ UNCHANGED <<site, r2, edge, grew>>
      BY <1>2 DEF BeginUp, NoneCalm
    <2>2. \A r \in Requests : Disturbed(req[r], req'[r])
      BY <2>1, CalmEnds
    <2> QED BY <2>1, <2>2 DEF Disturbed, GrewInv, Listed, Under
  <1>3. CASE DeployWorker \/ Purge \/ Evict \/ Interrupt \/ EndUp \/ UNCHANGED vars
    BY <1>3, GrewSame DEF DeployWorker, Purge, Evict, Interrupt, EndUp, vars, deployed
  <1>4. ASSUME NEW f \in Files, Upload(f) PROVE GrewInv'
    <2>1. \A g \in Files : r2'[g] \in {r2[g], site.files[g]}
      BY <1>4 DEF Upload, Types, Contents
    <2> QED BY <1>4, <2>1, GrewSame DEF Upload
  <1>5. CASE EditSite
    BY <1>5, GrewEdit
  <1> QED BY <1>1, <1>2, <1>3, <1>4, <1>5 DEF Next, Deploying

-----------------------------------------------------------------------------
(* Versions that are never used again, and uploads before the Worker: what *)
(* is stored under the version of the program is what the program lists.   *)

Ordered == setting.version = "serial" /\ setting.first = "uploads"

Right(u, body) == LET listed == Under(site.files, u) IN listed # Absent => body = listed

\* A version that was given to a script at some time.
Given(v) == \E n \in 1 .. site.edits : v = <<n>>

OrderedInv ==
    Ordered =>
      /\ worker # NoWorker => Given(worker.version)
      /\ worker.version = <<site.edits>> => WritesDue = {}
      /\ \A e \in edge :
            /\ Given(e.key.version)
            /\ e.key.version = <<site.edits>> => Right(e.key.url, e.body)
      /\ \A r \in Requests :
            req[r] # Idle =>
              /\ Given(req[r].version)
              /\ req[r].version = <<site.edits>> =>
                    /\ worker.version = <<site.edits>>
                    /\ req[r].status = 200 => Right(req[r].url, req[r].body)

\* The bucket holds everything the program lists.
LEMMA Written ==
    ASSUME Types, WritesDue = {}, NEW u PROVE Right(u, Under(r2, u))
  BY DEF WritesDue, UploadsDue, Right, Under

\* An edit makes every version that was given an old one.
LEMMA GivenOld ==
    ASSUME Types, NEW v, Given(v), site'.edits = site.edits + 1
    PROVE  Given(v)' /\ v # <<site'.edits>>
  BY DEF Given, Types

LEMMA GivenNow == ASSUME Types PROVE Given(<<site.edits>>)
  BY DEF Given, Types

LEMMA OrderedStep ==
    ASSUME Types, CalmInv, OrderedInv, NEW r \in Requests, NEW q, Update(r, q),
           Step(req[r], q), UNCHANGED <<setting, site, deployed>>
    PROVE  OrderedInv'
  <1> SUFFICES ASSUME Ordered PROVE OrderedInv'
    BY DEF OrderedInv, Ordered
  <1> DEFINE Fine(n) == n # Idle =>
                          /\ Given(n.version)
                          /\ n.version = <<site.edits>> =>
                                /\ worker.version = <<site.edits>>
                                /\ n.status = 200 => Right(n.url, n.body)
  <1>1. Fine(req[r]) /\ CalmRequest(req[r])
    BY DEF OrderedInv, CalmInv
  <1>2. Fine(q)
    <2>1. CASE q = Idle \/ Arrived(q)
      BY <2>1 DEF Arrived, OrderedInv
    <2>2. CASE /\ req[r] \in RequestStates /\ Same(req[r], q)
               /\ Missed(req[r], q) \/ Failed(q) \/ Stored(req[r], q)
      BY <1>1, <2>2, NotIdle DEF Missed, Failed, Stored, Same
    <2>3. CASE req[r] \in RequestStates /\ Same(req[r], q) /\ Hit(req[r], q)
      BY <1>1, <2>3, NotIdle DEF Same, Hit, OrderedInv
    <2>4. CASE req[r] \in RequestStates /\ Same(req[r], q) /\ Fetched(req[r], q)
      BY <1>1, <2>4, NotIdle, Written DEF Same, Fetched, OrderedInv
    <2> QED BY <2>1, <2>2, <2>3, <2>4 DEF Step
  <1>3. \A e \in edge' : /\ Given(e.key.version)
                         /\ e.key.version = <<site.edits>> => Right(e.key.url, e.body)
    <2>1. CASE Stored(req[r], q) /\ req[r] \in RequestStates
      <3>1. /\ Given(req[r].version)
            /\ req[r].version = <<site.edits>> => Right(req[r].url, req[r].body)
        BY <1>1, <2>1, NotIdle DEF Stored, CalmRequest
      <3>2. \A e \in edge' \ edge :
               e.key.url = req[r].url /\ e.key.version = req[r].version /\ e.body = req[r].body
        BY <2>1 DEF Stored
      <3> QED BY <3>1, <3>2 DEF OrderedInv
    <2>2. CASE edge' = edge
      BY <2>2 DEF OrderedInv
    <2> QED BY <2>1, <2>2 DEF Step, Arrived, Hit, Fetched, Missed, Failed
  <1>4. \A d \in Requests : req'[d] = IF d = r THEN q ELSE req[d]
    BY DEF Types, Update
  <1>5. \A d \in Requests : Fine(IF d = r THEN q ELSE req[d])
    BY <1>2 DEF OrderedInv
  <1>6. \A d \in Requests : Fine(req'[d])
    BY <1>4, <1>5
  <1> QED
    BY <1>3, <1>6 DEF OrderedInv, deployed, Right, Under, Given, WritesDue, UploadsDue

LEMMA OrderedSame ==
    ASSUME OrderedInv, UNCHANGED <<setting, site, worker, req>>, edge' \subseteq edge,
           WritesDue' \subseteq WritesDue
    PROVE  OrderedInv'
  BY DEF OrderedInv, Ordered, Given, Right, Under

LEMMA OrderedEdit ==
    ASSUME Types, OrderedInv, EditSite PROVE OrderedInv'
  <1> SUFFICES ASSUME Ordered PROVE OrderedInv'
    BY DEF OrderedInv, Ordered, EditSite
  <1>1. PICK files \in Contents : site' = [files |-> files, edits |-> site.edits + 1]
    BY DEF EditSite
  <1>2. site'.edits = site.edits + 1
    BY <1>1
  <1>3. \A v : Given(v) => Given(v)' /\ v # <<site'.edits>>
    BY <1>2, GivenOld
  <1>4. NoneCalm /\ UNCHANGED <<worker, edge>>
    BY DEF EditSite, NoneCalm, deployed
  <1>5. /\ worker' # NoWorker => Given(worker.version)'
        /\ worker'.version # <<site'.edits>>
    <2>1. CASE worker = NoWorker
      BY <1>4, <2>1 DEF NoWorker
    <2>2. CASE worker # NoWorker
      BY <1>3, <1>4, <2>2 DEF OrderedInv
    <2> QED BY <2>1, <2>2
  <1>6. \A e \in edge' : Given(e.key.version)' /\ e.key.version # <<site'.edits>>
    BY <1>3, <1>4 DEF OrderedInv
  <1>7. ASSUME NEW r \in Requests, req'[r] # Idle
        PROVE  Given(req[r].version)' /\ req'[r].version # <<site'.edits>>
    <2>1. Disturbed(req[r], req'[r])
      BY <1>4, CalmEnds
    <2>2. req'[r].version = req[r].version /\ Given(req[r].version)
      BY <1>7, <2>1 DEF Disturbed, OrderedInv
    <2> QED BY <1>3, <2>2 DEF Given
  <1> QED BY <1>5, <1>6, <1>7 DEF OrderedInv

LEMMA NextOrdered == Types /\ CalmInv /\ OrderedInv /\ [Next]_vars => OrderedInv'
  <1> SUFFICES ASSUME Types, CalmInv, OrderedInv, [Next]_vars PROVE OrderedInv'
    OBVIOUS
  <1>1. ASSUME NEW r \in Requests, Serving(r) PROVE OrderedInv'
    BY <1>1, ServingStep, OrderedStep
  <1>2. CASE BeginUp
    <2>1. NoneCalm /\ UNCHANGED <<setting, site, worker, r2, edge>>
      BY <1>2 DEF BeginUp, NoneCalm
    <2>2. \A r \in Requests : Disturbed(req[r], req'[r])
      BY <2>1, CalmEnds
    <2> QED
      BY <2>1, <2>2
         DEF Disturbed, OrderedInv, Ordered, Given, Right, Under, WritesDue, UploadsDue
  <1>3. CASE DeployWorker
    <2>1. SUFFICES ASSUME Ordered PROVE OrderedInv'
      BY <1>3 DEF OrderedInv, Ordered, DeployWorker
    <2>2. worker' = [version |-> <<site.edits>>] /\ WritesDue = {}
      BY <1>3, <2>1 DEF DeployWorker, Ordered, CacheKeyVersion
    <2>3. worker'.version = <<site.edits>> /\ Given(<<site.edits>>)
      BY <2>2, GivenNow
    <2>4. UNCHANGED <<setting, site, r2, edge, req>>
      BY <1>3 DEF DeployWorker
    <2> QED
      BY <2>1, <2>2, <2>3, <2>4 DEF OrderedInv, Given, Right, Under, WritesDue, UploadsDue
  <1>4. ASSUME NEW f \in Files, Upload(f) PROVE OrderedInv'
    <2>1. WritesDue' \subseteq WritesDue
      BY <1>4 DEF Upload, Types, Contents, WritesDue, UploadsDue
    <2> QED BY <1>4, <2>1, OrderedSame DEF Upload
  <1>5. CASE Purge \/ Evict \/ Interrupt \/ EndUp \/ UNCHANGED vars
    <2>1. WritesDue' = WritesDue
      BY <1>5 DEF Purge, Evict, Interrupt, EndUp, vars, deployed, WritesDue, UploadsDue
    <2> QED BY <1>5, <2>1, OrderedSame DEF Purge, Evict, Interrupt, EndUp, vars, deployed
  <1>6. CASE EditSite
    BY <1>6, OrderedEdit
  <1> QED BY <1>1, <1>2, <1>3, <1>4, <1>5, <1>6 DEF Next, Deploying

-----------------------------------------------------------------------------

SiteInv == Types /\ CalmInv /\ GrewInv /\ OrderedInv

LEMMA InitInv == ASSUME SettingsAssumption, Init PROVE SiteInv
  <1>1. Types
    BY InitTypes
  <1>2. CalmInv /\ GrewInv /\ OrderedInv
    BY DEF Init, CalmInv, CalmRequest, GrewInv, OrderedInv, NoWorker, NoFiles
  <1> QED BY <1>1, <1>2 DEF SiteInv

LEMMA Invariance == ASSUME SettingsAssumption PROVE Spec => []SiteInv
  <1>1. Init => SiteInv
    BY InitInv
  <1>2. SiteInv /\ [Next]_vars => SiteInv'
    BY NextTypes, NextCalm, NextGrew, NextOrdered DEF SiteInv
  <1> QED BY <1>1, <1>2, PTL DEF Spec

\* When nothing is left to deploy, the bucket holds what the program lists.
LEMMA DeployedBucket ==
    ASSUME Deployed, NEW u PROVE Under(r2, u) = Under(site.files, u)
  BY DEF Deployed, UploadsDue, Under

LEMMA CalmAnswer ==
    ASSUME SiteInv, NEW r \in Requests, AnsweredCalmly(r)
    PROVE  /\ req[r] # Idle /\ req[r].version = worker.version
           /\ req[r].status = 404 => Under(site.files, req[r].url) = Absent
           /\ ~CacheEnabled /\ req[r].status = 200 =>
                 req[r].body = Under(site.files, req[r].url)
           /\ req[r].status \in {200, 404}
  BY DeployedBucket DEF AnsweredCalmly, Answered, SiteInv, CalmInv, CalmRequest

\* Whatever urls, files and bounds there are, and whatever requests, puts,
\* evictions, failures and interrupted runs do in between: without the cache, or
\* with the uploads before the Worker and a version that is new at every edit, a
\* request between two deployments is answered with the file the program lists.
THEOREM FreshAlways == ASSUME SettingsAssumption PROVE Spec => []SiteFreshWhenOrdered
  <1>1. SiteInv => SiteFreshWhenOrdered
    <2> SUFFICES ASSUME SiteInv, NEW r \in Requests, AnsweredCalmly(r),
                        setting.ttl = "0" \/ Ordered,
                        Under(site.files, req[r].url) # Absent
                 PROVE  req[r].body = Under(site.files, req[r].url)
      BY DEF SiteFreshWhenOrdered, Current, Ordered
    <2>1. CASE setting.ttl = "0"
      BY <2>1, CalmAnswer DEF CacheEnabled
    <2>2. CASE Ordered
      <3>1. worker.version = <<site.edits>>
        BY <2>2 DEF AnsweredCalmly, Deployed, WorkerDue, CacheKeyVersion, Ordered
      <3> QED BY <2>2, <3>1, CalmAnswer DEF SiteInv, OrderedInv, Right
    <2> QED BY <2>1, <2>2
  <1> QED BY <1>1, Invariance, PTL

\* As long as the program only adds files, so it is in every setting: neither the
\* bucket nor the cache holds anything but what the program lists, and a file that
\* was missing is not remembered as missing.
THEOREM AddedIsVisibleAlways == ASSUME SettingsAssumption PROVE Spec => []SiteAddedIsVisible
  <1>1. SiteInv => SiteAddedIsVisible
    BY CalmAnswer DEF SiteAddedIsVisible, Current, SiteInv, GrewInv, Listed
  <1> QED BY <1>1, Invariance, PTL
=============================================================================
