------------------------ MODULE WorkerTasksProofs ------------------------
(***************************************************************************)
(* Theorems about the worker: bundles and its disk, then its runtimes.     *)
(***************************************************************************)
EXTENDS WorkerTasks, TLAPS

-----------------------------------------------------------------------------
(* The invariant of bundles *)

IsMap(f) == f = [n \in DOMAIN f |-> f[n]]

\* What the trial extraction of _submit makes sure of.
AcceptedUnpack ==
  \A j \in Jobs : repository[j] # Absent =>
    Extractable(repository[j]) /\ repository[j].payload = repository[j].manifest

BundleInv ==
  /\ build = [files |-> build.files, manifest |-> build.manifest, payload |-> build.payload]
  /\ IsMap(build.manifest) /\ IsMap(build.payload)
  /\ \A b \in published : IsMap(b.manifest) /\ IsMap(b.payload)
  /\ repository = [j \in Jobs |-> repository[j]]
  /\ AcceptedUnpack

\* A repository keeps what it has accepted.
Kept == \A j \in Jobs : repository[j] # Absent => repository'[j] = repository[j]

LEMMA EmptyMap == IsMap(<< >>)
BY DEF IsMap

LEMMA NoBuildParts == NoBuild.manifest = << >> /\ NoBuild.payload = << >>
BY DEF NoBuild

LEMMA ExtendedIsMap == ASSUME NEW f, NEW n, NEW c PROVE IsMap(Extended(f, n, c))
BY DEF IsMap, Extended

LEMMA BundleInitInv == BundleInit => BundleInv
<1> SUFFICES ASSUME BundleInit PROVE BundleInv
  OBVIOUS
<1>1. build = NoBuild /\ published = {} /\ repository = [j \in Jobs |-> Absent]
  BY DEF BundleInit
<1>2. NoBuild = [files |-> NoBuild.files, manifest |-> NoBuild.manifest, payload |-> NoBuild.payload]
  BY DEF NoBuild
<1>3. AcceptedUnpack
  BY <1>1 DEF AcceptedUnpack
<1> QED
  BY <1>1, <1>2, <1>3, EmptyMap, NoBuildParts DEF BundleInv

\* Edits and the steps of a build leave the repository alone; what is archived is a map.
LEMMA BundleAuthor ==
  ASSUME BundleInv, NEW n \in Names, Edit(n) \/ Digest(n) \/ Archive(n) \/ ListFiles \/ Publish
  PROVE  BundleInv' /\ Kept
<1>1. repository' = repository
  BY DEF Edit, Digest, Archive, ListFiles, Publish
<1>2. Kept /\ AcceptedUnpack' /\ repository' = [j \in Jobs |-> repository'[j]]
  BY <1>1 DEF Kept, BundleInv, AcceptedUnpack
<1> DEFINE parts(b) == /\ b = [files |-> b.files, manifest |-> b.manifest, payload |-> b.payload]
                       /\ IsMap(b.manifest) /\ IsMap(b.payload)
<1>3. parts(NoBuild)
  BY EmptyMap, NoBuildParts DEF NoBuild
<1>4. parts(build) /\ \A b \in published : IsMap(b.manifest) /\ IsMap(b.payload)
  BY DEF BundleInv
<1>5. parts(build') /\ \A b \in published' : IsMap(b.manifest) /\ IsMap(b.payload)
  <2>1. CASE Edit(n)
    BY <1>4, <2>1 DEF Edit
  <2>2. CASE Digest(n)
    <3>1. published' = published
      BY <2>2 DEF Digest
    <3>2. \/ build' = NoBuild
          \/ build' = [build EXCEPT !.manifest = Extended(build.manifest, n, directory[n])]
      BY <2>2 DEF Digest
    <3> QED
      BY <1>3, <1>4, <3>1, <3>2, ExtendedIsMap
  <2>3. CASE Archive(n)
    <3>1. published' = published
      BY <2>3 DEF Archive
    <3>2. \/ build' = NoBuild
          \/ build' = [build EXCEPT !.payload = Extended(build.payload, n, directory[n])]
      BY <2>3 DEF Archive
    <3> QED
      BY <1>3, <1>4, <3>1, <3>2, ExtendedIsMap
  <2>4. CASE ListFiles
    <3>1. published' = published /\ build' = [NoBuild EXCEPT !.files = Present]
      BY <2>4 DEF ListFiles
    <3> QED
      BY <1>3, <1>4, <3>1
  <2>5. CASE Publish
    <3> DEFINE b == [manifest |-> build.manifest, payload |-> build.payload]
    <3>1. build' = NoBuild /\ published' \subseteq published \cup {b}
      BY <2>5 DEF Publish
    <3>2. IsMap(b.manifest) /\ IsMap(b.payload)
      BY <1>4
    <3> QED
      BY <1>3, <1>4, <3>1, <3>2
  <2> QED
    BY <2>1, <2>2, <2>3, <2>4, <2>5
<1>6. build' = [files |-> build'.files, manifest |-> build'.manifest, payload |-> build'.payload]
  BY <1>5
<1> HIDE DEF parts
<1>7. IsMap(build'.manifest) /\ IsMap(build'.payload)
  BY <1>5 DEF parts
<1> QED
  BY <1>2, <1>5, <1>6, <1>7 DEF BundleInv

\* The trial extraction compares every file, so that the two maps are one.
LEMMA BundleSubmit ==
  ASSUME BundleInv, NEW j \in Jobs, Submit(j)
  PROVE  BundleInv' /\ Kept
<1>1. PICK b \in Uploads : Extractable(b) /\ repository' = Saved(j, b)
  BY DEF Submit
<1>2. IsMap(b.payload) /\ IsMap(b.manifest)
  BY DEF Uploads, BundleInv
<1>3. DOMAIN b.payload = DOMAIN b.manifest /\ \A n \in DOMAIN b.manifest : b.payload[n] = b.manifest[n]
  BY <1>1 DEF Extractable, ValidArchive
<1>4. b.payload = b.manifest
  BY <1>2, <1>3 DEF IsMap
<1>5. repository[j] = Absent /\ repository' = [repository EXCEPT ![j] = b]
  BY <1>1 DEF Saved, Submit
<1>6. \A k \in Jobs : repository'[k] = IF k = j THEN b ELSE repository[k]
  BY <1>5 DEF BundleInv
<1>7. AcceptedUnpack' /\ Kept /\ repository' = [k \in Jobs |-> repository'[k]]
  BY <1>1, <1>4, <1>5, <1>6 DEF BundleInv, AcceptedUnpack, Kept
<1>8. build' = build /\ published' = published
  BY DEF Submit
<1> QED
  BY <1>7, <1>8 DEF BundleInv

LEMMA BundleStep == ASSUME BundleInv, BundleNext PROVE BundleInv' /\ Kept
<1>1. CASE ListFiles \/ Publish
  <2>1. EntryPoint \in Names
    BY BundleAssumption
  <2> QED
    BY <1>1, <2>1, BundleAuthor
<1>2. ASSUME NEW n \in Names, Edit(n) \/ Digest(n) \/ Archive(n) PROVE BundleInv' /\ Kept
  BY <1>2, BundleAuthor
<1>3. ASSUME NEW j \in Jobs, Submit(j) PROVE BundleInv' /\ Kept
  BY <1>3, BundleSubmit
<1> QED
  BY <1>1, <1>2, <1>3 DEF BundleNext

LEMMA BundleStutter == ASSUME BundleInv, UNCHANGED bundleVars PROVE BundleInv' /\ Kept
BY DEF bundleVars, BundleInv, AcceptedUnpack, Kept

-----------------------------------------------------------------------------
(* The invariant of the disk *)

Steps == {"none", "queued", "ok", "failed", "lost"} \cup Working

\* A deployment that has arrived is for a job the repository knows, and so is what
\* lies on the disk.
DiskInv ==
  /\ BundleInv
  /\ cached = [j \in Jobs |-> cached[j]] /\ root = [j \in Jobs |-> root[j]]
  /\ step \in [Requests -> Steps]
  /\ DiskIsWhole
  /\ \A j \in Jobs : root[j] # Absent => repository[j] # Absent
  /\ \A r \in Requests : step[r] # "none" => repository[Job(r)] # Absent

LEMMA JobType == ASSUME NEW r \in Requests PROVE TaskOf[r] \in Tasks /\ Job(r) \in Jobs
BY RequestAssumption DEF Tasks, Job

LEMMA DiskInitInv == Init => DiskInv
<1> SUFFICES ASSUME Init PROVE DiskInv
  OBVIOUS
<1>1. BundleInv
  BY BundleInitInv DEF Init
<1>2. step \in [Requests -> Steps] /\ \A r \in Requests : step[r] = "none"
  BY DEF Init, Volatile, Steps
<1> QED
  BY <1>1, <1>2 DEF Init, DiskInv, DiskIsWhole

\* A step that leaves repository, cache and files alone.
LEMMA DiskUntouched ==
  ASSUME DiskInv, UNCHANGED <<bundleVars, cached, root>>, step' \in [Requests -> Steps],
         \A r \in Requests : step'[r] # "none" => repository[Job(r)] # Absent
  PROVE  DiskInv'
<1>1. BundleInv' /\ repository' = repository
  BY BundleStutter DEF DiskInv, bundleVars
<1>2. \A r : Job(r)' = Job(r)
  BY DEF Job
<1>3. DiskIsWhole'
  BY <1>1 DEF DiskInv, DiskIsWhole
<1> QED
  BY <1>1, <1>2, <1>3 DEF DiskInv

LEMMA DiskBundle ==
  ASSUME DiskInv, BundleNext, UNCHANGED <<cached, root, step>>
  PROVE  DiskInv'
<1>1. BundleInv' /\ Kept
  BY BundleStep DEF DiskInv
<1>2. \A j \in Jobs : cached'[j] \in {Absent, repository'[j]}
  BY <1>1 DEF DiskInv, DiskIsWhole, Kept
<1>3. \A j \in Jobs : root'[j] # Absent => /\ root'[j] = repository'[j].manifest
                                          /\ repository'[j] # Absent
  BY <1>1 DEF DiskInv, DiskIsWhole, Kept
<1>4. \A r \in Requests : step'[r] # "none" => repository'[Job(r)] # Absent
  BY <1>1, JobType DEF DiskInv, Kept
<1>5. \A r : Job(r)' = Job(r)
  BY DEF Job
<1> QED
  BY <1>1, <1>2, <1>3, <1>4, <1>5 DEF DiskInv, DiskIsWhole

\* The archive gets its name whole.
LEMMA DiskPublish ==
  ASSUME DiskInv, NEW r \in Requests, PublishZip(r)
  PROVE  DiskInv'
<1> DEFINE j == Job(r)
<1>1. /\ step[r] = "publishing" /\ UNCHANGED <<bundleVars, root>>
      /\ cached' = IF cached[j] = Absent THEN [cached EXCEPT ![j] = repository[j]] ELSE cached
      /\ \E a \in {"extracting", "failed"} : step' = [step EXCEPT ![r] = a]
  BY DEF PublishZip
<1>2. BundleInv' /\ repository' = repository /\ j \in Jobs
  BY <1>1, BundleStutter, JobType DEF DiskInv, bundleVars
<1>3. \A k \in Jobs : cached'[k] \in {Absent, repository'[k]}
  BY <1>1, <1>2 DEF DiskInv, DiskIsWhole
<1>4. cached' = [k \in Jobs |-> cached'[k]]
  BY <1>1, <1>2 DEF DiskInv
<1>5. step' \in [Requests -> Steps]
  BY <1>1 DEF DiskInv, Steps, Working
<1>6. \A q \in Requests : step'[q] # "none" => step[q] # "none"
  BY <1>1 DEF DiskInv
<1>7. \A q : Job(q)' = Job(q)
  BY DEF Job
<1>8. DiskIsWhole'
  BY <1>1, <1>2, <1>3 DEF DiskInv, DiskIsWhole
<1> QED
  BY <1>1, <1>2, <1>4, <1>5, <1>6, <1>7, <1>8 DEF DiskInv

\* What is unpacked is what the manifest lists, because the job was accepted.
LEMMA DiskExtract ==
  ASSUME DiskInv, NEW r \in Requests, Extract(r)
  PROVE  DiskInv'
<1> DEFINE j == Job(r)
<1>1. /\ step[r] = "extracting" /\ UNCHANGED <<bundleVars, cached>>
      /\ root' = IF root[j] = Absent /\ Extractable(repository[j])
                 THEN [root EXCEPT ![j] = repository[j].payload] ELSE root
      /\ \E a \in {"building", "failed"} : step' = [step EXCEPT ![r] = a]
  BY DEF Extract
<1>2. BundleInv' /\ repository' = repository /\ j \in Jobs
  BY <1>1, BundleStutter, JobType DEF DiskInv, bundleVars
<1>3. repository[j] # Absent /\ repository[j].payload = repository[j].manifest
  BY <1>1, <1>2 DEF DiskInv, BundleInv, AcceptedUnpack
<1>4. \A k \in Jobs : root'[k] # Absent => /\ root'[k] = repository'[k].manifest
                                          /\ repository'[k] # Absent
  BY <1>1, <1>2, <1>3 DEF DiskInv, DiskIsWhole
<1>5. root' = [k \in Jobs |-> root'[k]]
  BY <1>1, <1>2 DEF DiskInv
<1>6. step' \in [Requests -> Steps]
  BY <1>1 DEF DiskInv, Steps, Working
<1>7. \A q \in Requests : step'[q] # "none" => step[q] # "none"
  BY <1>1 DEF DiskInv
<1>8. \A q : Job(q)' = Job(q)
  BY DEF Job
<1>9. DiskIsWhole'
  BY <1>1, <1>2, <1>4 DEF DiskInv, DiskIsWhole
<1> QED
  BY <1>1, <1>2, <1>4, <1>5, <1>6, <1>7, <1>8, <1>9 DEF DiskInv

\* The steps of handlers and runtimes that do not touch the disk.
LEMMA DiskOthers ==
  ASSUME DiskInv, NEW r \in Requests,
         \/ Arrives(r) \/ TakesLock(r) \/ Fetched(r) \/ FetchFails(r)
         \/ Build(r) \/ BuildFails(r) \/ Opened(r) \/ Connected(r) \/ StartFails(r)
         \/ StartUndone(r) /\ step[r] = "undoing"
  PROVE  DiskInv'
<1>1. UNCHANGED <<bundleVars, cached, root>>
  BY DEF Arrives, TakesLock, Fetched, FetchFails, Build, BuildFails, Opened, Connected,
         StartFails, StartUndone
<1>2. \E a \in Steps : step' = [step EXCEPT ![r] = a]
  BY DEF Arrives, TakesLock, Fetched, FetchFails, Build, BuildFails, Opened, Connected,
         StartFails, StartUndone, Steps, Working
<1>3. repository[Job(r)] # Absent
  BY DEF DiskInv, Arrives, TakesLock, Fetched, FetchFails, Build, BuildFails, Opened, Connected,
         StartFails
<1>4. step' \in [Requests -> Steps]
  BY <1>2 DEF DiskInv
<1>5. \A q \in Requests : step'[q] # "none" => repository[Job(q)] # Absent
  BY <1>2, <1>3 DEF DiskInv
<1> QED
  BY <1>1, <1>4, <1>5, DiskUntouched

LEMMA DiskCrash == ASSUME DiskInv, Crashes PROVE DiskInv'
<1>1. UNCHANGED <<bundleVars, cached, root>>
  BY DEF Crashes, CrashOf
<1>2. step' \in [Requests -> Steps]
  BY DEF Crashes, DiskInv, Steps
<1>3. \A q \in Requests : step'[q] # "none" => repository[Job(q)] # Absent
  BY DEF Crashes, DiskInv
<1> QED
  BY <1>1, <1>2, <1>3, DiskUntouched

-----------------------------------------------------------------------------
(* The invariant of runtimes *)

Resources == {"consumer", "source", "outputs", "inputs", "module"}
Callers == {"start", "stop", "restop", "fail", "end"}
States == {"none", "STARTING", "RUNNING", "STOPPING", "STOPPED", "FAILED"}

RuntimeTypes ==
  /\ step \in [Requests -> Steps]
  /\ current \in [Tasks -> Requests \cup {NoRequest}]
  /\ state \in [Requests -> States]
  /\ holds \in [Requests -> SUBSET Resources]
  /\ cleaning \in [Requests -> {"no", "busy", "done", "cut"}]
  /\ waiting \in [Requests -> SUBSET Callers]
  /\ stopped \subseteq Requests

Early == {"none", "queued", "fetching", "publishing", "extracting", "building"}

\* The lock: one request at most works.
OneDeploys == \A r, q \in Requests : step[r] \in Working /\ step[q] \in Working => r = q

\* The runtime in a task's entry was built for it, and its start goes on or succeeded.
EntrySound ==
  \A t \in Tasks : current[t] # NoRequest =>
    TaskOf[current[t]] = t /\ step[current[t]] \in {"opening", "connecting", "undoing", "ok"}

\* A runtime and the handler that starts it: nobody waits for a cleanup before the
\* start has ended, a runtime whose start has not ended is in the entry, and nobody but
\* the start itself waits for the cleanup of a runtime that was not started.
StartSound(r) ==
  /\ step[r] \in Early => state[r] = "none" /\ waiting[r] = {} /\ cleaning[r] = "no"
  /\ step[r] \in Early \cap Working => current[TaskOf[r]] = NoRequest
  /\ step[r] \in {"opening", "connecting"} =>
       /\ state[r] = "STARTING" /\ waiting[r] = {} /\ cleaning[r] = "no"
       /\ current[TaskOf[r]] = r
  /\ step[r] = "undoing" =>
       state[r] = "STARTING" /\ waiting[r] = {"start"} /\ current[TaskOf[r]] = r
  /\ "start" \in waiting[r] => step[r] = "undoing"
  /\ state[r] \in {"RUNNING", "STOPPING", "STOPPED"} \/ waiting[r] \ {"start"} # {} =>
       step[r] = "ok"

\* A task whose deployment was answered keeps a runtime that was started.
AnswerSound(r) ==
  step[r] = "ok" => current[TaskOf[r]] # NoRequest /\ step[current[TaskOf[r]]] = "ok"

\* Only a runtime in the entry holds anything that _cleanup reaches, and none after its
\* cleanup; a consumer that is being started, or did not start, is a source's, and no
\* runtime that was started has one.
HoldsSound(r) ==
  /\ InReach(r) # {} => current[TaskOf[r]] = r
  /\ cleaning[r] = "done" => InReach(r) = {}
  /\ "consumer" \in holds[r] =>
       step[r] \in {"opening", "undoing", "failed"} /\ TaskOf[r] \in SourceTasks
  /\ r \in stopped => cleaning[r] \in {"done", "cut"} /\ step[r] = "ok"

RuntimeInv ==
  /\ RuntimeTypes /\ OneDeploys /\ EntrySound
  /\ \A r \in Requests : StartSound(r) /\ AnswerSound(r) /\ HoldsSound(r)

LEMMA RuntimeInitInv == Init => RuntimeInv
BY RequestAssumption
   DEF Init, Volatile, RuntimeInv, RuntimeTypes, OneDeploys, EntrySound, StartSound, AnswerSound,
       HoldsSound, InReach, Steps, States, Working, Early

\* The runtime of an answered task has ended its start.
LEMMA EntryType ==
  ASSUME RuntimeTypes, NEW t \in Tasks, current[t] # NoRequest
  PROVE  current[t] \in Requests
BY DEF RuntimeTypes

\* Steps of a handler that has no runtime yet.
LEMMA HandlerStep ==
  ASSUME RuntimeInv, NEW r \in Requests, UNCHANGED runtimeVars, step[r] \in Early,
         NEW a \in {"queued", "fetching", "publishing", "extracting", "building", "failed", "ok"},
         step' = [step EXCEPT ![r] = a],
         a \in Working => step[r] \in Working \/ NobodyDeploys,
         a \in Working => current[TaskOf[r]] = NoRequest,
         a = "ok" => current[TaskOf[r]] # NoRequest /\ step[current[TaskOf[r]]] = "ok"
  PROVE  RuntimeInv'
<1>1. RuntimeTypes'
  BY DEF RuntimeInv, RuntimeTypes, runtimeVars, Steps, Working
<1>2. \A q \in Requests : step'[q] = IF q = r THEN a ELSE step[q]
  BY DEF RuntimeInv, RuntimeTypes
<1>3. OneDeploys'
  BY <1>2 DEF RuntimeInv, OneDeploys, NobodyDeploys
<1>4. EntrySound'
  BY <1>2 DEF RuntimeInv, EntrySound, RuntimeTypes, runtimeVars, Early
<1>5. ASSUME NEW q \in Requests PROVE StartSound(q)' /\ AnswerSound(q)' /\ HoldsSound(q)'
  <2>1. StartSound(q) /\ AnswerSound(q) /\ HoldsSound(q) /\ TaskOf[q] \in Tasks
    BY JobType DEF RuntimeInv
  <2>2. StartSound(q)'
    BY <1>2, <2>1 DEF StartSound, runtimeVars, Early, Working
  <2>3. AnswerSound(q)'
    BY <1>2, <2>1, EntryType DEF RuntimeInv, AnswerSound, runtimeVars, Early
  <2>4. HoldsSound(q)'
    BY <1>2, <2>1 DEF HoldsSound, InReach, runtimeVars, Early
  <2> QED
    BY <2>2, <2>3, <2>4
<1> QED
  BY <1>1, <1>3, <1>4, <1>5 DEF RuntimeInv

LEMMA RuntimeHandler ==
  ASSUME RuntimeInv, NEW r \in Requests,
         \/ Arrives(r) \/ TakesLock(r) \/ Fetched(r) \/ FetchFails(r) \/ PublishZip(r)
         \/ Extract(r) \/ BuildFails(r)
  PROVE  RuntimeInv'
<1>1. StartSound(r) /\ TaskOf[r] \in Tasks
  BY JobType DEF RuntimeInv
<1>2. CASE Arrives(r)
  BY <1>2, HandlerStep DEF Arrives, Early, Working
<1>3. CASE TakesLock(r)
  <2> DEFINE old == current[TaskOf[r]]
  <2>1. /\ step[r] = "queued" /\ NobodyDeploys /\ UNCHANGED runtimeVars
        /\ \E a \in {"ok", "failed", "fetching", "building"} :
             /\ step' = [step EXCEPT ![r] = a]
             /\ a \in Working => old = NoRequest
             /\ a = "ok" => old # NoRequest
    BY <1>3 DEF TakesLock, Working
  <2>2. old # NoRequest => step[old] = "ok"
    BY <1>1, <2>1, EntryType DEF RuntimeInv, EntrySound, NobodyDeploys, Working
  <2> QED
    BY <2>1, <2>2, HandlerStep DEF Early
<1>4. CASE Fetched(r)
  BY <1>1, <1>4, HandlerStep DEF Fetched, StartSound, Early, Working
<1>5. CASE FetchFails(r)
  BY <1>5, HandlerStep DEF FetchFails, Early, Working
<1>6. CASE PublishZip(r)
  <2>1. /\ step[r] = "publishing" /\ UNCHANGED runtimeVars
        /\ \E a \in {"extracting", "failed"} : step' = [step EXCEPT ![r] = a]
    BY <1>6 DEF PublishZip
  <2> QED
    BY <1>1, <2>1, HandlerStep DEF StartSound, Early, Working
<1>7. CASE Extract(r)
  <2>1. /\ step[r] = "extracting" /\ UNCHANGED runtimeVars
        /\ \E a \in {"building", "failed"} : step' = [step EXCEPT ![r] = a]
    BY <1>7 DEF Extract
  <2> QED
    BY <1>1, <2>1, HandlerStep DEF StartSound, Early, Working
<1>8. CASE BuildFails(r)
  BY <1>8, HandlerStep DEF BuildFails, Early, Working
<1> QED
  BY <1>2, <1>3, <1>4, <1>5, <1>6, <1>7, <1>8

\* The entry is free when a runtime is built: nobody of the task holds anything.
LEMMA RuntimeBuild ==
  ASSUME RuntimeInv, NEW r \in Requests, Build(r)
  PROVE  RuntimeInv'
<1> DEFINE t == TaskOf[r]
<1>1. /\ step[r] = "building" /\ StartSound(r) /\ HoldsSound(r) /\ t \in Tasks
  BY JobType DEF RuntimeInv, Build
<1>2. current[t] = NoRequest /\ state[r] = "none" /\ waiting[r] = {} /\ cleaning[r] = "no"
  BY <1>1 DEF StartSound, Early, Working
<1>3. \A q \in Requests : TaskOf[q] = t => InReach(q) = {} /\ step[q] # "ok"
  BY <1>2, RequestAssumption DEF RuntimeInv, HoldsSound, AnswerSound
<1>4. ~InputsTaken(r)
  BY <1>3 DEF InputsTaken, InReach
<1>5. /\ current' = [current EXCEPT ![t] = r]
      /\ state' = [state EXCEPT ![r] = "STARTING"]
      /\ holds' = [holds EXCEPT ![r] = {"module"} \cup Taken(t)]
      /\ \E a \in {"opening", "connecting"} :
           step' = [step EXCEPT ![r] = a] /\ (t \in SourceTasks => a = "opening")
      /\ waiting' = [waiting EXCEPT ![r] = {}]
      /\ cleaning' = cleaning /\ stopped' = stopped
  BY <1>4 DEF Build
<1>6. PICK a \in {"opening", "connecting"} :
        step' = [step EXCEPT ![r] = a] /\ (t \in SourceTasks => a = "opening")
  BY <1>5
<1>7. RuntimeTypes'
  BY <1>1, <1>5, <1>6 DEF RuntimeInv, RuntimeTypes, Steps, States, Working, Resources, Taken
<1>8. \A q \in Requests : /\ step'[q] = IF q = r THEN a ELSE step[q]
                          /\ state'[q] = IF q = r THEN "STARTING" ELSE state[q]
                          /\ waiting'[q] = waiting[q] /\ cleaning'[q] = cleaning[q]
                          /\ holds'[q] = IF q = r THEN {"module"} \cup Taken(t) ELSE holds[q]
  BY <1>2, <1>5, <1>6 DEF RuntimeInv, RuntimeTypes
<1>9. \A u \in Tasks : current'[u] = IF u = t THEN r ELSE current[u]
  BY <1>5 DEF RuntimeInv, RuntimeTypes
<1>10. OneDeploys'
  BY <1>1, <1>8 DEF RuntimeInv, OneDeploys, Working
<1>11. EntrySound'
  BY <1>1, <1>8, <1>9 DEF RuntimeInv, EntrySound, RuntimeTypes
<1>12. ASSUME NEW q \in Requests PROVE StartSound(q)' /\ AnswerSound(q)' /\ HoldsSound(q)'
  <2>1. StartSound(q) /\ AnswerSound(q) /\ HoldsSound(q) /\ TaskOf[q] \in Tasks
    BY JobType DEF RuntimeInv
  <2>2. q # r => step[q] \notin Working
    BY <1>1 DEF RuntimeInv, OneDeploys, Working
  <2>3. StartSound(q)'
    BY <1>2, <1>8, <1>9, <2>1, <2>2 DEF StartSound, Working, Early
  <2>4. AnswerSound(q)'
    BY <1>1, <1>3, <1>8, <1>9, <2>1, EntryType DEF RuntimeInv, AnswerSound
  <2>5. HoldsSound(q)'
    <3>1. q \notin stopped \/ q # r
      BY <1>1 DEF HoldsSound
    <3> QED
      BY <1>1, <1>2, <1>3, <1>5, <1>6, <1>8, <1>9, <2>1, <3>1 DEF HoldsSound, InReach, Taken
  <2> QED
    BY <2>3, <2>4, <2>5
<1> QED
  BY <1>7, <1>10, <1>11, <1>12 DEF RuntimeInv

\* The operator is open, the channels are connected, or a start fails.
LEMMA RuntimeStart ==
  ASSUME RuntimeInv, NEW r \in Requests, Opened(r) \/ Connected(r) \/ StartFails(r)
  PROVE  RuntimeInv'
<1>1. /\ step[r] \in {"opening", "connecting"} /\ StartSound(r) /\ HoldsSound(r)
      /\ TaskOf[r] \in Tasks
  BY JobType DEF RuntimeInv, Opened, Connected, StartFails
<1>2. /\ state[r] = "STARTING" /\ waiting[r] = {} /\ cleaning[r] = "no"
      /\ current[TaskOf[r]] = r
  BY <1>1 DEF StartSound
<1>3. UNCHANGED <<current, cleaning, stopped>>
  BY DEF Opened, Connected, StartFails
<1>4. PICK a \in {"connecting", "ok", "undoing"}, s \in {"STARTING", "RUNNING"},
           h \in SUBSET Resources, w \in {{}, {"start"}} :
        /\ step' = [step EXCEPT ![r] = a] /\ state' = [state EXCEPT ![r] = s]
        /\ holds' = [holds EXCEPT ![r] = h] /\ waiting' = [waiting EXCEPT ![r] = w]
        /\ a = "connecting" => s = "STARTING" /\ w = {}
        /\ a = "ok" => w = {}
        /\ a = "undoing" => s = "STARTING" /\ w = {"start"}
        /\ "consumer" \in h => a = "undoing" /\ "consumer" \in holds[r]
  <2>1. holds[r] \in SUBSET Resources
    BY DEF RuntimeInv, RuntimeTypes
  <2>2. CASE Opened(r)
    <3>1. /\ step' = [step EXCEPT ![r] = "connecting"]
          /\ holds' = [holds EXCEPT ![r] = (holds[r] \ {"consumer"}) \cup {"source"}]
          /\ state' = [state EXCEPT ![r] = "STARTING"] /\ waiting' = [waiting EXCEPT ![r] = {}]
      BY <1>2, <2>2 DEF Opened, RuntimeInv, RuntimeTypes
    <3> DEFINE h == (holds[r] \ {"consumer"}) \cup {"source"}
    <3>2. h \in SUBSET Resources /\ "consumer" \notin h
      BY <2>1 DEF Resources
    <3> HIDE DEF h
    <3> QED
      BY <3>1, <3>2 DEF h
  <2>3. CASE Connected(r)
    <3>1. /\ step' = [step EXCEPT ![r] = "ok"]
          /\ holds' = [holds EXCEPT ![r] = holds[r] \cup Outputs(TaskOf[r])]
          /\ state' = [state EXCEPT ![r] = "RUNNING"] /\ waiting' = [waiting EXCEPT ![r] = {}]
      BY <1>2, <2>3 DEF Connected, RuntimeInv, RuntimeTypes
    <3>2. Outputs(TaskOf[r]) \subseteq Resources \ {"consumer"}
      BY DEF Outputs, Resources
    <3>3. "consumer" \notin holds[r]
      BY <1>1, <2>3 DEF Connected, HoldsSound
    <3> DEFINE h == holds[r] \cup Outputs(TaskOf[r])
    <3>4. h \in SUBSET Resources /\ "consumer" \notin h
      BY <2>1, <3>2, <3>3
    <3> HIDE DEF h
    <3> QED
      BY <3>1, <3>4 DEF h
  <2>4. CASE StartFails(r)
    <3>1. PICK freed \in SUBSET {"consumer"} : holds' = [holds EXCEPT ![r] = holds[r] \ freed]
      BY <2>4 DEF StartFails
    <3>2. /\ step' = [step EXCEPT ![r] = "undoing"]
          /\ state' = [state EXCEPT ![r] = "STARTING"]
          /\ waiting' = [waiting EXCEPT ![r] = {"start"}]
      BY <1>2, <2>4 DEF StartFails, RuntimeInv, RuntimeTypes
    <3> QED
      BY <2>1, <3>1, <3>2
  <2> QED
    BY <2>2, <2>3, <2>4
<1>5. RuntimeTypes'
  BY <1>3, <1>4 DEF RuntimeInv, RuntimeTypes, Steps, States, Working, Callers
<1>6. \A q \in Requests : /\ step'[q] = IF q = r THEN a ELSE step[q]
                          /\ state'[q] = IF q = r THEN s ELSE state[q]
                          /\ waiting'[q] = IF q = r THEN w ELSE waiting[q]
                          /\ holds'[q] = IF q = r THEN h ELSE holds[q]
  BY <1>4 DEF RuntimeInv, RuntimeTypes
<1>7. OneDeploys'
  BY <1>1, <1>6 DEF RuntimeInv, OneDeploys, Working
<1>8. EntrySound'
  BY <1>3, <1>6 DEF RuntimeInv, EntrySound, RuntimeTypes
<1>9. ASSUME NEW q \in Requests PROVE StartSound(q)' /\ AnswerSound(q)' /\ HoldsSound(q)'
  <2>1. StartSound(q) /\ AnswerSound(q) /\ HoldsSound(q) /\ TaskOf[q] \in Tasks
    BY JobType DEF RuntimeInv
  <2>2. StartSound(q)'
    BY <1>2, <1>3, <1>4, <1>6, <2>1 DEF StartSound, Working, Early
  <2>3. AnswerSound(q)'
    BY <1>1, <1>2, <1>3, <1>6, <2>1, EntryType, RequestAssumption DEF RuntimeInv, AnswerSound
  <2>4. HoldsSound(q)'
    <3>1. r \notin stopped
      BY <1>1 DEF HoldsSound
    <3> QED
      BY <1>1, <1>2, <1>3, <1>4, <1>6, <2>1, <3>1 DEF HoldsSound, InReach
  <2> QED
    BY <2>2, <2>3, <2>4
<1> QED
  BY <1>5, <1>7, <1>8, <1>9 DEF RuntimeInv

\* Only a handler that undoes its start waits as "start".
LEMMA UndoneWasUndoing ==
  ASSUME RuntimeInv, NEW r \in Requests, StartUndone(r)
  PROVE  step[r] = "undoing"
BY DEF RuntimeInv, StartSound, StartUndone

\* The entry is cleared when everything has been given back.
LEMMA RuntimeUndone ==
  ASSUME RuntimeInv, NEW r \in Requests, StartUndone(r)
  PROVE  RuntimeInv'
<1> DEFINE t == TaskOf[r]
<1>1. /\ step[r] = "undoing" /\ StartSound(r) /\ HoldsSound(r) /\ t \in Tasks
  BY JobType, UndoneWasUndoing DEF RuntimeInv
<1>2. /\ waiting[r] = {"start"} /\ current[t] = r /\ cleaning[r] = "done" /\ InReach(r) = {}
  BY <1>1 DEF StartSound, HoldsSound, StartUndone
<1>3. /\ step' = [step EXCEPT ![r] = "failed"] /\ state' = [state EXCEPT ![r] = "FAILED"]
      /\ waiting' = [waiting EXCEPT ![r] = {}] /\ holds' = [holds EXCEPT ![r] = holds[r]]
      /\ current' = [current EXCEPT ![t] = NoRequest]
      /\ cleaning' = cleaning /\ stopped' = stopped
  <2>1. holds[r] \ {"module"} = holds[r]
    BY <1>2 DEF InReach
  <2> QED
    BY <1>2, <2>1 DEF StartUndone, RuntimeInv, RuntimeTypes
<1>4. RuntimeTypes'
  BY <1>3 DEF RuntimeInv, RuntimeTypes, Steps, States
<1>5. \A q \in Requests : /\ step'[q] = IF q = r THEN "failed" ELSE step[q]
                          /\ state'[q] = IF q = r THEN "FAILED" ELSE state[q]
                          /\ waiting'[q] = IF q = r THEN {} ELSE waiting[q]
                          /\ holds'[q] = holds[q]
  BY <1>2, <1>3 DEF RuntimeInv, RuntimeTypes
<1>6. \A u \in Tasks : current'[u] = IF u = t THEN NoRequest ELSE current[u]
  BY <1>3 DEF RuntimeInv, RuntimeTypes
<1>7. OneDeploys'
  BY <1>5 DEF RuntimeInv, OneDeploys, Working
<1>8. EntrySound'
  BY <1>5, <1>6 DEF RuntimeInv, EntrySound, RuntimeTypes
<1>9. ASSUME NEW q \in Requests PROVE StartSound(q)' /\ AnswerSound(q)' /\ HoldsSound(q)'
  <2>1. StartSound(q) /\ AnswerSound(q) /\ HoldsSound(q) /\ TaskOf[q] \in Tasks
    BY JobType DEF RuntimeInv
  <2>2. q # r => step[q] \notin Working
    BY <1>1 DEF RuntimeInv, OneDeploys, Working
  <2>3. StartSound(q)'
    BY <1>3, <1>5, <1>6, <2>1, <2>2 DEF StartSound, Working, Early
  <2>4. AnswerSound(q)'
    BY <1>1, <1>2, <1>5, <1>6, <2>1, EntryType DEF RuntimeInv, AnswerSound, EntrySound
  <2>5. HoldsSound(q)'
    BY <1>1, <1>2, <1>3, <1>5, <1>6, <2>1 DEF HoldsSound, InReach
  <2> QED
    BY <2>3, <2>4, <2>5
<1> QED
  BY <1>4, <1>7, <1>8, <1>9 DEF RuntimeInv

\* A step of a runtime that no handler is starting, or of a cleanup, to state s, callers
\* w, holdings h and cleanup c: handlers and entries stay, and nothing is taken.
Moves(r, s, w, h, c) ==
  /\ s \in States /\ w \subseteq Callers /\ h \subseteq holds[r]
  /\ c \in {"no", "busy", "done", "cut"}
  /\ UNCHANGED <<step, current>>
  /\ state' = [state EXCEPT ![r] = s] /\ waiting' = [waiting EXCEPT ![r] = w]
  /\ holds' = [holds EXCEPT ![r] = h] /\ cleaning' = [cleaning EXCEPT ![r] = c]
  /\ stopped' \subseteq stopped \cup {r}
  /\ (s = state[r] /\ w = waiting[r]) \/ step[r] = "ok"
  /\ "start" \in w => "start" \in waiting[r]
  /\ c = "done" => h \subseteq {"consumer"}
  /\ r \in stopped' => c \in {"done", "cut"} /\ step[r] = "ok"
  /\ step[r] \in Early \cup {"opening", "connecting"} => c = "no"

LEMMA RuntimeStep ==
  ASSUME RuntimeInv, NEW r \in Requests, NEW s, NEW w, NEW h, NEW c, Moves(r, s, w, h, c)
  PROVE  RuntimeInv'
<1>1. RuntimeTypes'
  BY DEF RuntimeInv, RuntimeTypes, Moves
<1>2. OneDeploys' /\ EntrySound'
  BY DEF RuntimeInv, OneDeploys, EntrySound, Moves
<1>3. \A q \in Requests : /\ state'[q] = IF q = r THEN s ELSE state[q]
                          /\ waiting'[q] = IF q = r THEN w ELSE waiting[q]
                          /\ holds'[q] = IF q = r THEN h ELSE holds[q]
                          /\ cleaning'[q] = IF q = r THEN c ELSE cleaning[q]
  BY DEF RuntimeInv, RuntimeTypes, Moves
<1>4. ASSUME NEW q \in Requests PROVE StartSound(q)' /\ AnswerSound(q)' /\ HoldsSound(q)'
  <2>1. StartSound(q) /\ AnswerSound(q) /\ HoldsSound(q)
    BY DEF RuntimeInv
  <2>2. StartSound(q)'
    BY <1>3, <2>1 DEF StartSound, Early, Moves
  <2>3. AnswerSound(q)'
    BY <2>1 DEF AnswerSound, Moves
  <2>4. HoldsSound(q)'
    BY <1>3, <2>1 DEF HoldsSound, InReach, Moves
  <2> QED
    BY <2>2, <2>3, <2>4
<1> QED
  BY <1>1, <1>2, <1>4 DEF RuntimeInv

\* A runtime that has left STARTING unless it FAILED, or for whose cleanup somebody else
\* waits, was started.
LEMMA StartOver ==
  ASSUME RuntimeInv, NEW r \in Requests,
         \/ state[r] \in {"RUNNING", "STOPPING", "STOPPED"}
         \/ waiting[r] \ {"start"} # {}
  PROVE  step[r] = "ok"
BY DEF RuntimeInv, StartSound

LEMMA RuntimeCleanup ==
  ASSUME RuntimeInv, NEW r \in Requests, CleanupStep(r) \/ Fails(r) \/ Ends(r)
  PROVE  RuntimeInv'
<1>1. /\ StartSound(r) /\ HoldsSound(r) /\ state[r] \in States
      /\ holds[r] \in SUBSET Resources
      /\ cleaning[r] \in {"no", "busy", "done", "cut"} /\ waiting[r] \in SUBSET Callers
  BY DEF RuntimeInv, RuntimeTypes
<1>2. /\ state = [state EXCEPT ![r] = state[r]] /\ holds = [holds EXCEPT ![r] = holds[r]]
      /\ cleaning = [cleaning EXCEPT ![r] = cleaning[r]]
      /\ waiting = [waiting EXCEPT ![r] = waiting[r]]
  BY DEF RuntimeInv, RuntimeTypes
<1>3. CASE Cleans(r)
  <2>1. /\ UNCHANGED <<step, current, state, holds, waiting, stopped>>
        /\ cleaning[r] = "no" /\ waiting[r] # {}
        /\ cleaning' = [cleaning EXCEPT ![r] = "busy"]
    BY <1>3 DEF Cleans
  <2>2. step[r] \notin Early \cup {"opening", "connecting"} /\ r \notin stopped
    BY <1>1, <2>1 DEF StartSound, HoldsSound
  <2> QED
    <3>1. Moves(r, state[r], waiting[r], holds[r], "busy")
      BY <1>1, <1>2, <2>1, <2>2 DEF Moves
    <3> QED
      BY <3>1, RuntimeStep
<1>4. CASE GivesBack(r)
  <2>1. /\ UNCHANGED <<step, current, state, waiting, stopped>> /\ cleaning[r] = "busy"
        /\ \E c \in {"busy", "done"}, h \in SUBSET holds[r] :
             /\ cleaning' = [cleaning EXCEPT ![r] = c] /\ holds' = [holds EXCEPT ![r] = h]
             /\ c = "done" => h \subseteq {"consumer"}
    <3>1. CASE InReach(r) = {}
      BY <1>2, <1>4, <3>1 DEF GivesBack, InReach
    <3>2. CASE InReach(r) # {}
      <4>1. cleaning' = cleaning /\ \E x \in InReach(r) : holds' = [holds EXCEPT ![r] = holds[r] \ {x}]
        BY <1>4, <3>2 DEF GivesBack
      <4> QED
        BY <1>2, <1>4, <4>1 DEF GivesBack
    <3> QED
      BY <3>1, <3>2
  <2>2. step[r] \notin Early \cup {"opening", "connecting"} /\ r \notin stopped
    BY <1>1, <2>1 DEF StartSound, HoldsSound
  <2> QED
    <3>1. PICK c \in {"busy", "done"}, h \in SUBSET holds[r] :
            /\ cleaning' = [cleaning EXCEPT ![r] = c] /\ holds' = [holds EXCEPT ![r] = h]
            /\ c = "done" => h \subseteq {"consumer"}
      BY <2>1
    <3>2. Moves(r, state[r], waiting[r], h, c)
      BY <1>1, <1>2, <2>1, <2>2, <3>1 DEF Moves
    <3> QED
      BY <3>2, RuntimeStep
<1>5. CASE Fails(r)
  <2>1. /\ UNCHANGED <<step, current, holds, cleaning, stopped>>
        /\ state[r] \in {"RUNNING", "STOPPING", "STOPPED"}
        /\ state' = [state EXCEPT ![r] = "FAILED"]
        /\ waiting' = [waiting EXCEPT ![r] = waiting[r] \cup {"fail"}]
    BY <1>5 DEF Fails
  <2>2. step[r] = "ok"
    BY <2>1, StartOver
  <2>3. waiting[r] \cup {"fail"} \in SUBSET Callers /\ "FAILED" \in States
    BY <1>1 DEF Callers, States
  <2> QED
    <3>1. Moves(r, "FAILED", waiting[r] \cup {"fail"}, holds[r], cleaning[r])
      BY <1>1, <1>2, <2>1, <2>2, <2>3 DEF Moves, HoldsSound, InReach, Early
    <3> QED
      BY <3>1, RuntimeStep
<1>6. CASE Ends(r)
  <2>1. /\ UNCHANGED <<step, current, state, holds, cleaning, stopped>> /\ state[r] = "RUNNING"
        /\ waiting' = [waiting EXCEPT ![r] = {"end"}]
    BY <1>6 DEF Ends
  <2>2. step[r] = "ok"
    BY <2>1, StartOver
  <2>3. {"end"} \in SUBSET Callers
    BY DEF Callers
  <2> QED
    <3>1. Moves(r, state[r], {"end"}, holds[r], cleaning[r])
      BY <1>1, <1>2, <2>1, <2>2, <2>3 DEF Moves, HoldsSound, InReach, Early
    <3> QED
      BY <3>1, RuntimeStep
<1>7. ASSUME NEW who \in {"stop", "restop", "fail", "end"}, Resumes(r, who) PROVE RuntimeInv'
  <2>1. /\ UNCHANGED <<step, current, holds, cleaning>> /\ stopped' \subseteq stopped \cup {r}
        /\ waiting[r] \ {"start"} # {} /\ cleaning[r] \in {"done", "cut"}
        /\ waiting' = [waiting EXCEPT ![r] = waiting[r] \ {who}]
        /\ \E s \in {state[r], "STOPPED"} : state' = [state EXCEPT ![r] = s]
    BY <1>7 DEF Resumes, Cleaned
  <2>2. step[r] = "ok"
    BY <2>1, StartOver
  <2>3. waiting[r] \ {who} \in SUBSET Callers /\ "STOPPED" \in States
    BY <1>1 DEF States
  <2> QED
    <3>1. PICK s \in {state[r], "STOPPED"} : state' = [state EXCEPT ![r] = s]
      BY <2>1
    <3> DEFINE w == waiting[r] \ {who}
    <3>2. /\ s \in States /\ w \subseteq Callers /\ w \subseteq waiting[r]
          /\ waiting' = [waiting EXCEPT ![r] = w]
      BY <1>1, <2>1, <2>3
    <3> HIDE DEF w
    <3>3. Moves(r, s, w, holds[r], cleaning[r])
      BY <1>1, <1>2, <2>1, <2>2, <3>1, <3>2 DEF Moves, HoldsSound, InReach, Early
    <3> QED
      BY <3>3, RuntimeStep
<1> QED
  BY <1>3, <1>4, <1>5, <1>6, <1>7 DEF CleanupStep

\* A stop finds a runtime that was started.
LEMMA RuntimeStop ==
  ASSUME RuntimeInv, NEW t \in Tasks, Stop(t)
  PROVE  RuntimeInv'
<1> DEFINE r == current[t]
<1>1. r \in Requests /\ r \notin stopped
  BY EntryType DEF Stop, RuntimeInv
<1>2. step[r] = "ok"
  BY DEF Stop, RuntimeInv, AnswerSound
<1>3. /\ HoldsSound(r) /\ state[r] \in States /\ holds[r] \in SUBSET Resources
      /\ cleaning[r] \in {"no", "busy", "done", "cut"} /\ waiting[r] \in SUBSET Callers
      /\ state = [state EXCEPT ![r] = state[r]] /\ holds = [holds EXCEPT ![r] = holds[r]]
      /\ cleaning = [cleaning EXCEPT ![r] = cleaning[r]]
  BY <1>1 DEF RuntimeInv, RuntimeTypes
<1>4. UNCHANGED <<step, current, holds, stopped>>
  BY DEF Stop
<1>5. PICK s \in States, w \in SUBSET Callers, c \in {cleaning[r], "cut"} :
        /\ state' = [state EXCEPT ![r] = s] /\ waiting' = [waiting EXCEPT ![r] = w]
        /\ cleaning' = [cleaning EXCEPT ![r] = c]
        /\ "start" \in w => "start" \in waiting[r]
  <2>1. CASE state[r] \in {"STOPPED", "FAILED"}
    <3>1. /\ waiting' = [waiting EXCEPT ![r] = waiting[r] \cup {"restop"}]
          /\ UNCHANGED <<state, cleaning>>
      BY <2>1 DEF Stop
    <3>2. waiting[r] \cup {"restop"} \in SUBSET Callers
      BY <1>3 DEF Callers
    <3> QED
      BY <1>3, <3>1, <3>2
  <2>2. CASE state[r] \notin {"STOPPED", "FAILED"}
    <3>1. /\ state' = [state EXCEPT ![r] = "STOPPING"]
          /\ waiting' = [waiting EXCEPT ![r] = (waiting[r] \ {"end"}) \cup {"stop"}]
          /\ \E c \in {cleaning[r], "cut"} : cleaning' = [cleaning EXCEPT ![r] = c]
      BY <2>2 DEF Stop
    <3>2. (waiting[r] \ {"end"}) \cup {"stop"} \in SUBSET Callers /\ "STOPPING" \in States
      BY <1>3 DEF Callers, States
    <3> QED
      BY <1>3, <3>1, <3>2
  <2> QED
    BY <2>1, <2>2
<1>6. c = "done" => holds[r] \subseteq {"consumer"}
  BY <1>3, <1>5 DEF HoldsSound, InReach
<1>7. Moves(r, s, w, holds[r], c)
  BY <1>1, <1>2, <1>3, <1>4, <1>5, <1>6 DEF Moves, Early
<1> QED
  BY <1>1, <1>7, RuntimeStep

LEMMA RuntimeCrash == ASSUME RuntimeInv, Crashes PROVE RuntimeInv'
<1>1. RuntimeTypes'
  BY DEF Crashes, RuntimeInv, RuntimeTypes, Steps, States
<1>2. \A r \in Requests : step'[r] \in {"none", "lost"}
  BY DEF Crashes
<1>3. OneDeploys' /\ EntrySound'
  BY <1>2, RequestAssumption DEF Crashes, OneDeploys, EntrySound, Working
<1>4. ASSUME NEW r \in Requests PROVE StartSound(r)' /\ AnswerSound(r)' /\ HoldsSound(r)'
  BY <1>2 DEF Crashes, StartSound, AnswerSound, HoldsSound, InReach, Early, Working
<1> QED
  BY <1>1, <1>3, <1>4 DEF RuntimeInv

LEMMA RuntimeStutter ==
  ASSUME RuntimeInv, UNCHANGED <<step, runtimeVars>>
  PROVE  RuntimeInv'
BY DEF runtimeVars, RuntimeInv, RuntimeTypes, OneDeploys, EntrySound, StartSound, AnswerSound,
       HoldsSound, InReach

-----------------------------------------------------------------------------
(* Theorems *)

\* Both invariants hold in every state: each action of Next keeps them.
LEMMA InvHolds == Spec => [](DiskInv /\ RuntimeInv)
<1>1. DiskInv /\ RuntimeInv /\ [Next]_vars => (DiskInv /\ RuntimeInv)'
  <2> SUFFICES ASSUME DiskInv, RuntimeInv, [Next]_vars PROVE DiskInv' /\ RuntimeInv'
    OBVIOUS
  <2>1. CASE BundleNext /\ UNCHANGED <<cached, root, step, runtimeVars, crashes>>
    BY <2>1, DiskBundle, RuntimeStutter
  <2>2. ASSUME NEW r \in Requests, Arrives(r) \/ DeployStep(r)
        PROVE  DiskInv' /\ RuntimeInv'
    <3>1. DiskInv'
      BY <2>2, DiskPublish, DiskExtract, DiskOthers, UndoneWasUndoing DEF DeployStep
    <3>2. RuntimeInv'
      BY <2>2, RuntimeHandler, RuntimeBuild, RuntimeStart, RuntimeUndone DEF DeployStep
    <3> QED
      BY <3>1, <3>2
  <2>3. ASSUME NEW r \in Requests, CleanupStep(r) \/ Fails(r) \/ Ends(r)
        PROVE  DiskInv' /\ RuntimeInv'
    <3>1. UNCHANGED <<bundleVars, cached, root, step>>
      BY <2>3 DEF CleanupStep, Cleans, GivesBack, Resumes, Fails, Ends
    <3>2. DiskInv'
      BY <3>1, DiskUntouched DEF DiskInv
    <3> QED
      BY <2>3, <3>2, RuntimeCleanup
  <2>4. ASSUME NEW t \in Tasks, Stop(t) PROVE DiskInv' /\ RuntimeInv'
    <3>1. UNCHANGED <<bundleVars, cached, root, step>>
      BY <2>4 DEF Stop
    <3>2. DiskInv'
      BY <3>1, DiskUntouched DEF DiskInv
    <3> QED
      BY <2>4, <3>2, RuntimeStop
  <2>5. CASE Crashes
    BY <2>5, DiskCrash, RuntimeCrash
  <2>6. CASE UNCHANGED vars
    <3>1. UNCHANGED <<bundleVars, cached, root, step, runtimeVars>>
      BY <2>6 DEF vars
    <3>2. DiskInv'
      BY <3>1, DiskUntouched DEF DiskInv
    <3> QED
      BY <3>1, <3>2, RuntimeStutter
  <2> QED
    BY <2>1, <2>2, <2>3, <2>4, <2>5, <2>6 DEF Next
<1> QED
  BY <1>1, DiskInitInv, RuntimeInitInv, PTL DEF Spec

\* What a step does to a deployment whose job was accepted, as far as the disk and the
\* bundle decide it.
BundleServes(r) ==
  /\ step[r] # "building" /\ step'[r] = "building" =>
       root'[Job(r)] = repository[Job(r)].manifest
  /\ step[r] \in {"publishing", "extracting"} => step'[r] # "failed"
  /\ step[r] = "queued" /\ current[TaskOf[r]] = NoRequest => step'[r] # "failed"

\* A step that leaves this deployment where it is, or answers or builds a later one.
LEMMA ServesOthers ==
  ASSUME NEW r \in Requests,
         \/ step'[r] = step[r]
         \/ step'[r] \notin {"building", "failed"}
         \/ step'[r] = "failed" /\ step[r] \in {"fetching", "building", "undoing"}
  PROVE  BundleServes(r)
BY DEF BundleServes

LEMMA StepServes ==
  ASSUME DiskInv, RuntimeInv, [Next]_vars, NEW r \in Requests
  PROVE  BundleServes(r)
<1> DEFINE j == Job(r)
<1>1. /\ step = [q \in Requests |-> step[q]] /\ root = [k \in Jobs |-> root[k]] /\ j \in Jobs
      /\ cached = [k \in Jobs |-> cached[k]]
  BY JobType DEF DiskInv
<1>2. /\ cached[j] \in {Absent, repository[j]}
      /\ root[j] # Absent => root[j] = repository[j].manifest
  BY <1>1 DEF DiskInv, DiskIsWhole
<1>3. step[r] # "none" => /\ repository[j] # Absent /\ Extractable(repository[j])
                          /\ repository[j].payload = repository[j].manifest
  BY <1>1 DEF DiskInv, BundleInv, AcceptedUnpack
<1>4. CASE step' = step
  BY <1>4, ServesOthers
<1>5. ASSUME NEW q \in Requests, Arrives(q) \/ DeployStep(q) PROVE BundleServes(r)
  <2>1. ASSUME q # r PROVE BundleServes(r)
    <3>1. \E a : step' = [step EXCEPT ![q] = a]
      BY <1>5 DEF Arrives, DeployStep, TakesLock, Fetched, FetchFails, PublishZip, Extract, Build,
                  BuildFails, Opened, Connected, StartFails, StartUndone
    <3> QED
      BY <1>1, <2>1, <3>1, ServesOthers
  <2>2. CASE TakesLock(r)
    <3>1. step[r] = "queued" /\ root' = root
      BY <2>2 DEF TakesLock
    <3>2. CASE current[TaskOf[r]] = NoRequest
      <4>1. step'[r] = IF cached[j] = Absent \/ root[j] = Absent THEN "fetching"
                       ELSE IF cached[j] = repository[j] THEN "building" ELSE "failed"
        BY <1>1, <2>2, <3>2 DEF TakesLock
      <4> QED
        BY <1>2, <3>1, <4>1 DEF BundleServes
    <3>3. CASE current[TaskOf[r]] # NoRequest
      <4>1. step'[r] \in {"ok", "failed"}
        BY <1>1, <2>2, <3>3 DEF TakesLock
      <4> QED
        BY <3>1, <3>3, <4>1 DEF BundleServes
    <3> QED
      BY <3>2, <3>3
  <2>3. CASE PublishZip(r)
    <3>1. /\ step[r] = "publishing"
          /\ cached' = IF cached[j] = Absent THEN [cached EXCEPT ![j] = repository[j]] ELSE cached
      BY <2>3 DEF PublishZip
    <3>2. cached'[j] = repository[j]
      BY <1>1, <1>2, <3>1
    <3>3. step'[r] = "extracting"
      BY <1>1, <2>3, <3>2 DEF PublishZip
    <3> QED
      BY <3>3, ServesOthers
  <2>4. CASE Extract(r)
    <3>1. /\ step[r] = "extracting"
          /\ root' = IF root[j] = Absent /\ Extractable(repository[j])
                     THEN [root EXCEPT ![j] = repository[j].payload] ELSE root
          /\ step' = [step EXCEPT ![r] =
                        IF root[j] # Absent \/ Extractable(repository[j]) THEN "building" ELSE "failed"]
      BY <2>4 DEF Extract
    <3>2. step'[r] = "building" /\ root'[j] = repository[j].manifest
      BY <1>1, <1>2, <1>3, <3>1
    <3> QED
      BY <3>1, <3>2 DEF BundleServes
  <2>5. CASE Arrives(r) \/ Fetched(r) \/ Opened(r) \/ Connected(r) \/ StartFails(r)
    <3>1. step'[r] \in {"queued", "publishing", "connecting", "ok", "undoing"}
      BY <1>1, <2>5 DEF Arrives, Fetched, Opened, Connected, StartFails
    <3> QED
      BY <3>1, ServesOthers
  <2>6. CASE FetchFails(r) \/ BuildFails(r)
    BY <1>1, <2>6, ServesOthers DEF FetchFails, BuildFails
  <2>7. CASE Build(r)
    <3>1. step'[r] \in {"undoing", "opening", "connecting"}
      BY <1>1, <2>7 DEF Build
    <3> QED
      BY <3>1, ServesOthers
  <2>8. CASE StartUndone(r)
    <3>1. step'[r] = "failed" /\ step[r] = "undoing"
      BY <1>1, <2>8, UndoneWasUndoing DEF StartUndone
    <3> QED
      BY <3>1, ServesOthers
  <2> QED
    BY <1>5, <2>1, <2>2, <2>3, <2>4, <2>5, <2>6, <2>7, <2>8 DEF DeployStep
<1>6. ASSUME NEW q \in Requests, CleanupStep(q) \/ Fails(q) \/ Ends(q) PROVE step' = step
  BY <1>6 DEF CleanupStep, Cleans, GivesBack, Resumes, Fails, Ends
<1>7. ASSUME NEW t \in Tasks, Stop(t) PROVE step' = step
  BY <1>7 DEF Stop
<1>8. CASE Crashes
  <2>1. step'[r] \in {"none", "lost"}
    BY <1>8 DEF Crashes
  <2> QED
    BY <2>1, ServesOthers
<1>9. UNCHANGED vars => step' = step
  BY DEF vars
<1> QED
  BY <1>4, <1>5, <1>6, <1>7, <1>8, <1>9 DEF Next

\* An accepted job is never failed by its files: whatever its author edited while they
\* were packed, and whatever crashes and earlier deployments left on the disk, its
\* deployments get to their runtimes with exactly the files submitted.
THEOREM AcceptedBundlesAreGood == Spec => AcceptedBundlesDeploy
<1>1. ASSUME DiskInv, RuntimeInv, [Next]_vars
      PROVE  \A r \in Requests :
               /\ step[r] # "building" /\ step'[r] = "building" =>
                    root'[Job(r)] = repository[Job(r)].manifest
               /\ step[r] \in {"publishing", "extracting"} => step'[r] # "failed"
               /\ step[r] = "queued" /\ current[TaskOf[r]] = NoRequest => step'[r] # "failed"
  BY <1>1, StepServes DEF BundleServes
<1> QED
  BY <1>1, InvHolds, PTL DEF Spec, AcceptedBundlesDeploy

\* Under the final names of a worker's disk is what was submitted, or nothing, after any
\* number of crashes and downloads that failed.
THEOREM DiskStaysWhole == Spec => []DiskIsWhole
<1>1. DiskInv => DiskIsWhole
  BY DEF DiskInv
<1> QED
  BY <1>1, InvHolds, PTL

\* Two runtimes of a task never hold anything at the same time, for any number of
\* requests, because whoever holds something is in the task's entry.
THEOREM OneRuntime == Spec => []OneRuntimePerTask
<1>1. RuntimeInv => OneRuntimePerTask
  <2> SUFFICES ASSUME RuntimeInv, NEW r \in Requests, NEW q \in Requests,
                      TaskOf[r] = TaskOf[q], r # q
               PROVE  InReach(r) = {} \/ InReach(q) = {}
    BY DEF OneRuntimePerTask
  <2>1. HoldsSound(r) /\ HoldsSound(q)
    BY DEF RuntimeInv
  <2> QED
    BY <2>1 DEF HoldsSound
<1> QED
  BY <1>1, InvHolds, PTL

\* A deployment that failed leaves nothing behind, whichever step of it failed, but a
\* consumer whose start raised.
THEOREM FailuresLeaveConsumerAtMost == Spec => []FailedDeployLeavesConsumerAtMost
<1>1. RuntimeInv => FailedDeployLeavesConsumerAtMost
  <2> SUFFICES ASSUME RuntimeInv, NEW r \in Requests, step[r] = "failed"
               PROVE  /\ current[TaskOf[r]] # r
                      /\ holds[r] \subseteq (IF TaskOf[r] \in SourceTasks THEN {"consumer"} ELSE {})
    BY DEF FailedDeployLeavesConsumerAtMost
  <2>1. current[TaskOf[r]] # r
    BY JobType, RequestAssumption DEF RuntimeInv, EntrySound
  <2>2. InReach(r) = {} /\ ("consumer" \in holds[r] => TaskOf[r] \in SourceTasks)
    BY <2>1 DEF RuntimeInv, HoldsSound
  <2> QED
    BY <2>1, <2>2 DEF InReach
<1> QED
  BY <1>1, InvHolds, PTL

\* A stop returns after the cleanup, whoever does it.
THEOREM StopsAreClean == Spec => []StopMeansClean
<1>1. RuntimeInv => StopMeansClean
  BY DEF RuntimeInv, RuntimeTypes, HoldsSound, InReach, StopMeansClean
<1> QED
  BY <1>1, InvHolds, PTL
=============================================================================
