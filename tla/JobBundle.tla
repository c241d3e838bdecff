----------------------------- MODULE JobBundle -----------------------------
(***************************************************************************)
(* A job bundle from the directory of its author to the repository of the  *)
(* job manager: `package` lists and digests the files, writes the archive  *)
(* and publishes it; `submit` uploads it, and the job manager verifies and *)
(* unpacks it before it keeps it.  The author may go on editing while the  *)
(* files are read.                                                         *)
(*                                                                         *)
(* A digest stands for the content it is computed from.  A bundle is its   *)
(* manifest (the digest of every file) and its payload (the files).        *)
(***************************************************************************)
EXTENDS Integers, FiniteSets, FiniteSetsExt

CONSTANTS
  Names,        \* relative paths of files a job may have
  EntryPoint,   \* job.yaml
  Contents,
  Length,       \* [Contents -> Nat], bytes
  MaxFiles, MaxFileSize, MaxTotalSize,
  Absent,       \* no such file, no such bundle
  Jobs,         \* submissions; every submission gets a job id of its own
  Directories,  \* what the author's directory may hold at first
  MaxEdits      \* bound on the author's edits during builds

ASSUME BundleAssumption ==
  /\ EntryPoint \in Names /\ Absent \notin Contents
  /\ Length \in [Contents -> Nat]
  /\ Directories \subseteq [Names -> Contents \cup {Absent}]
  /\ {MaxFiles, MaxFileSize, MaxTotalSize, MaxEdits} \subseteq Nat

VARIABLES
  directory,    \* the author's job directory
  build,        \* build_job_bundle under way: files listed, digested, archived
  edits,        \* edits made so far
  published,    \* bundles in the author's output directory
  repository    \* LocalArtifactRepository, one bundle per job

bundleVars == <<directory, build, edits, published, repository>>

NoBuild == [files |-> {}, manifest |-> << >>, payload |-> << >>]

BundleInit ==
  /\ directory \in Directories
  /\ build = NoBuild /\ edits = 0 /\ published = {}
  /\ repository = [j \in Jobs |-> Absent]

-----------------------------------------------------------------------------
(* The checks *)

Present == {n \in Names : directory[n] # Absent}

TotalLength(files) == MapThenSumSet(LAMBDA n : Length[files[n]], DOMAIN files)

\* The limits, the same when files are listed, archives verified and unpacked.
WithinLimits(files) ==
  /\ Cardinality(DOMAIN files) <= MaxFiles
  /\ \A n \in DOMAIN files : Length[files[n]] <= MaxFileSize
  /\ TotalLength(files) <= MaxTotalSize

\* ArtifactManifest: a function lists no path twice, so job.yaml is what is left.
WellFormedManifest(m) == EntryPoint \in DOMAIN m

\* _validate_archive compares names and sizes; contents are not read.
ValidArchive(b) ==
  /\ DOMAIN b.payload = DOMAIN b.manifest
  /\ WellFormedManifest(b.manifest)
  /\ WithinLimits(b.manifest)
  /\ \A n \in DOMAIN b.manifest : Length[b.payload[n]] = Length[b.manifest[n]]

\* extract_job_bundle compares the digest of every file as it is written.
Extractable(b) == ValidArchive(b) /\ \A n \in DOMAIN b.manifest : b.payload[n] = b.manifest[n]

-----------------------------------------------------------------------------
(* The author: edits, package *)

\* An edit matters only while a build has still to read the file.
Edit(n) ==
  /\ n \in build.files \ DOMAIN build.payload /\ edits < MaxEdits
  /\ edits' = edits + 1
  /\ \E c \in (Contents \cup {Absent}) \ {directory[n]} : directory' = [directory EXCEPT ![n] = c]
  /\ UNCHANGED <<build, published, repository>>

ListFiles ==
  /\ build = NoBuild /\ published = {} /\ Present # {}
  /\ WithinLimits([n \in Present |-> directory[n]])
  /\ build' = [NoBuild EXCEPT !.files = Present]
  /\ UNCHANGED <<directory, edits, published, repository>>

Extended(f, n, c) == [m \in DOMAIN f \cup {n} |-> IF m = n THEN c ELSE f[m]]

\* _build_manifest and the archive loop read one file after the other; a file
\* that is gone ends the build, and so does a directory without job.yaml.
Digest(n) ==
  /\ n \in build.files \ DOMAIN build.manifest
  /\ build' = IF directory[n] = Absent THEN NoBuild
              ELSE [build EXCEPT !.manifest = Extended(@, n, directory[n])]
  /\ UNCHANGED <<directory, edits, published, repository>>

Archive(n) ==
  /\ DOMAIN build.manifest = build.files /\ n \in build.files \ DOMAIN build.payload
  /\ build' = IF directory[n] = Absent \/ ~WellFormedManifest(build.manifest) THEN NoBuild
              ELSE [build EXCEPT !.payload = Extended(@, n, directory[n])]
  /\ UNCHANGED <<directory, edits, published, repository>>

\* The finished archive is checked like a foreign one and gets its final name;
\* what fails the check is deleted.
Publish ==
  /\ build # NoBuild /\ DOMAIN build.payload = build.files
  /\ LET b == [manifest |-> build.manifest, payload |-> build.payload] IN
     published' = IF ValidArchive(b) THEN published \cup {b} ELSE published
  /\ build' = NoBuild
  /\ UNCHANGED <<directory, edits, repository>>

-----------------------------------------------------------------------------
(* The job manager: submission up to submit_job *)

\* What the command line sends: bundles that it has verified.
Uploads == {b \in published : ValidArchive(b)}

\* LocalArtifactRepository.put: job ids are fresh, so nothing is there yet.
Saved(j, b) == [repository EXCEPT ![j] = b]

\* Mutant: an upload is verified, and unpacked on the workers only.
SubmitVerified(j) ==
  /\ repository[j] = Absent
  /\ \E b \in Uploads : ValidArchive(b) /\ repository' = Saved(j, b)
  /\ UNCHANGED <<directory, build, edits, published>>

\* The upload is verified and unpacked to read the graph, then saved under a new
\* job id; an upload that fails either check is answered 400 and leaves nothing.
Submit(j) ==
  /\ repository[j] = Absent
  /\ \E b \in Uploads : Extractable(b) /\ repository' = Saved(j, b)
  /\ UNCHANGED <<directory, build, edits, published>>

BundleNext ==
  \/ \E n \in Names : Edit(n) \/ Digest(n) \/ Archive(n)
  \/ ListFiles \/ Publish
  \/ \E j \in Jobs : Submit(j)

=============================================================================
