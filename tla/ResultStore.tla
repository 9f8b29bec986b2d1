---------------------------- MODULE ResultStore ----------------------------
(***************************************************************************)
(* The results tree and the emission path of the native runner:            *)
(* runners/longmemeval/emit.py (write_artifact_and_validate and the paths  *)
(* it derives), runners/longmemeval/artifact.py (write_artifact) and the   *)
(* part of scripts/validate_results.py that validate_file runs on one row. *)
(*                                                                         *)
(* A result is two things on disk: a row file, <dir>/<result_id>.json, and *)
(* beside it a bundle directory, <dir>/<result_id>/, with one file per     *)
(* component.  An emission writes the components one by one, then the row, *)
(* then validates what is on disk and, if that fails, unlinks the row and  *)
(* removes the bundle.  No lock protects the tree: a run is an operating   *)
(* system process, several may emit into one checkout, and any of them may *)
(* die between two steps or in the middle of writing a file.               *)
(*                                                                         *)
(* A file's content is the run that wrote it: two runs never write the     *)
(* same bundle, and a checksum identifies the bundle it was computed from. *)
(***************************************************************************)
EXTENDS Naturals, Sequences, FiniteSets

CONSTANTS
  Runs,          \* runner processes that reach the emission of a row
  Dirs,          \* partition directories whose three slugs are registered
  Unregistered,  \* the directory of a row whose slugs are not registered
  Dates,         \* run dates
  FlagIds,       \* ids that a user may give with --result-id
  NoFlag,        \* --result-id was not given
  Configs,       \* effective runner configurations (reader, judge, ...)
  Canonical,     \* those whose row meets the schema and cross-field rules
  Parts,         \* bundle components, in the order build_artifact lists them
  NoFile, Torn,  \* no such file; a file whose write was cut short
  NoDir          \* no such bundle directory

PartNames == {Parts[i] : i \in 1 .. Len(Parts)}

ASSUME RegisteredAssumption == Unregistered \notin Dirs
ASSUME ConfigAssumption == Canonical \subseteq Configs
ASSUME PartsAssumption ==
  /\ Parts \in Seq(PartNames)
  /\ Len(Parts) > 0
  /\ \A i, j \in 1 .. Len(Parts) : Parts[i] = Parts[j] => i = j
ASSUME SentinelAssumption ==
  /\ NoFile \notin Runs
  /\ Torn \notin Runs
  /\ NoFile # Torn
  /\ NoDir \notin [PartNames -> Runs \cup {NoFile, Torn}]
  /\ NoFlag \notin FlagIds

VARIABLES
  job,      \* what each run is asked to emit; fixed for the run's life
  pc,       \* how far each run is
  toRead,   \* the rows each run has listed and not yet read, in its check
  next,     \* the component each run writes next
  rows,     \* the row file at each path
  bundles,  \* the bundle directory at each path
  last      \* history: the last run that began to write at each path

vars == <<job, pc, toRead, next, rows, bundles, last>>

----------------------------------------------------------------------------
(* Names and paths *)

\* The derived id names the split, the engrava version and the date.  The
\* version is that of the installed package, the same for every run here.
DefaultResultId(date) == <<"lme-s_engrava", date>>

Ids == FlagIds \cup {DefaultResultId(d) : d \in Dates}

Job == [dir      : Dirs \cup {Unregistered},
        date     : Dates,
        resultId : FlagIds \cup {NoFlag},
        config   : Configs]

ResultId(e) == IF job[e].resultId = NoFlag
               THEN DefaultResultId(job[e].date)
               ELSE job[e].resultId

\* A path stands for the row file and for the bundle directory beside it.
Paths == Dirs \X Ids
PathOf(e) == <<job[e].dir, ResultId(e)>>

Valid(e) == job[e].config \in Canonical

----------------------------------------------------------------------------
(* The tree as the emitter and the validator read it *)

Whole(p) == rows[p] \in Runs

\* The bundle whose checksum the row of run e records.
BundleOf(e) == [n \in PartNames |-> e]
EmptyDir    == [n \in PartNames |-> NoFile]

\* iter_result_files: torn rows are files too.
RowFiles == {p \in Paths : rows[p] # NoFile}

Carries(p, id) == Whole(p) /\ ResultId(rows[p]) = id

\* A write that was cut short may have been cut inside a character.
MayNotDecode(p) ==
  \/ rows[p] = Torn
  \/ bundles[p] # NoDir /\ \E n \in PartNames : bundles[p][n] = Torn

\* The three slugs of the row and its id are the path's own.
LayoutAgrees(p) == PathOf(rows[p]) = p

\* The checksum over whatever files the sibling directory holds.
BundleMatches(p) == bundles[p] = BundleOf(rows[p])

\* Mutant: the schema and cross-field errors are dropped.
ValidatesWithoutRules(p) == Whole(p) /\ LayoutAgrees(p) /\ BundleMatches(p)

\* Mutant: the checksum is not compared.
ValidatesWithoutChecksum(p) == Whole(p) /\ Valid(rows[p]) /\ LayoutAgrees(p)

\* validate_file finds no error in the row at p.
Validates(p) ==
  /\ Whole(p)
  /\ Valid(rows[p])
  /\ LayoutAgrees(p)
  /\ BundleMatches(p)

----------------------------------------------------------------------------
(* The life of a run *)

Writing  == {"parts", "row", "validate", "unlink", "rmtree"}
InFlight == {"check", "read", "mkdir"} \cup Writing
Over     == {"done", "rejected", "refused", "unreadable", "raised", "crashed"}

TypeOK ==
  /\ job     \in [Runs -> Job]
  /\ pc      \in [Runs -> {"idle"} \cup InFlight \cup Over]
  /\ toRead  \in [Runs -> SUBSET Paths]
  /\ next    \in [Runs -> 1 .. Len(Parts)]
  /\ rows    \in [Paths -> Runs \cup {NoFile, Torn}]
  /\ bundles \in [Paths -> [PartNames -> Runs \cup {NoFile, Torn}] \cup {NoDir}]
  /\ last    \in [Paths -> Runs \cup {NoFile}]

Init ==
  /\ job \in [Runs -> Job]
  /\ pc = [e \in Runs |-> "idle"]
  /\ toRead = [e \in Runs |-> {}]
  /\ next = [e \in Runs |-> 1]
  /\ rows = [p \in Paths |-> NoFile]
  /\ bundles = [p \in Paths |-> NoDir]
  /\ last = [p \in Paths |-> NoFile]

Goto(e, from, to) ==
  /\ pc[e] = from
  /\ pc' = [pc EXCEPT ![e] = to]

\* build_result derives the artifact reference from the row's slugs and raises
\* for an unregistered one before anything is written.
BuildResult(e) ==
  /\ Goto(e, "idle", IF job[e].dir \in Dirs THEN "check" ELSE "refused")
  /\ UNCHANGED <<job, toRead, next, rows, bundles, last>>

\* Mutant: only the run's own partition directory is listed.
ListOwnDir(e) ==
  /\ Goto(e, "check", "read")
  /\ toRead' = [toRead EXCEPT ![e] =
                  {p \in RowFiles \ {PathOf(e)} : p[1] = job[e].dir}]
  /\ UNCHANGED <<job, next, rows, bundles, last>>

\* The rows are listed before the first is read; the run's own path is skipped.
ListRows(e) ==
  /\ Goto(e, "check", "read")
  /\ toRead' = [toRead EXCEPT ![e] = RowFiles \ {PathOf(e)}]
  /\ UNCHANGED <<job, next, rows, bundles, last>>

\* One listed row, as it is by now.  Text that is not JSON is passed over, but a
\* row unlinked meanwhile and bytes that are no UTF-8 make read_text raise what
\* the check does not catch.  The order of the listing is that of the names, which
\* stand for nothing here.
ReadRow(e, p) ==
  /\ p \in toRead[e]
  /\ \/ /\ rows[p] = Torn \/ (Whole(p) /\ ~Carries(p, ResultId(e)))
        /\ Goto(e, "read", "read")
        /\ toRead' = [toRead EXCEPT ![e] = @ \ {p}]
     \/ /\ Carries(p, ResultId(e))
        /\ Goto(e, "read", "refused")
        /\ toRead' = [toRead EXCEPT ![e] = {}]
     \/ /\ rows[p] \in {NoFile, Torn}
        /\ Goto(e, "read", "unreadable")
        /\ toRead' = [toRead EXCEPT ![e] = {}]
  /\ UNCHANGED <<job, next, rows, bundles, last>>

FinishCheck(e) ==
  /\ toRead[e] = {}
  /\ Goto(e, "read", "mkdir")
  /\ UNCHANGED <<job, toRead, next, rows, bundles, last>>

\* Mutant: exist_ok is forgotten.
MakeFreshArtifactDir(e) ==
  LET p == PathOf(e) IN
  /\ Goto(e, "mkdir", IF bundles[p] = NoDir THEN "parts" ELSE "raised")
  /\ bundles' = [bundles EXCEPT ![p] = IF @ = NoDir THEN EmptyDir ELSE @]
  /\ last' = [last EXCEPT ![p] = e]
  /\ UNCHANGED <<job, toRead, next, rows>>

\* mkdir(exist_ok): the files of an earlier emission stay.
MakeArtifactDir(e) ==
  LET p == PathOf(e) IN
  /\ Goto(e, "mkdir", "parts")
  /\ bundles' = [bundles EXCEPT ![p] = IF @ = NoDir THEN EmptyDir ELSE @]
  /\ last' = [last EXCEPT ![p] = e]
  /\ UNCHANGED <<job, toRead, next, rows>>

\* Mutant: a component that is already there is kept.
WriteMissingPart(e) ==
  LET p == PathOf(e) IN
  /\ Goto(e, "parts", IF next[e] = Len(Parts) THEN "row" ELSE "parts")
  /\ bundles[p] # NoDir
  /\ bundles' = [bundles EXCEPT ![p] = [@ EXCEPT ![Parts[next[e]]] =
                                          IF @ = NoFile THEN e ELSE @]]
  /\ next' = [next EXCEPT ![e] = IF @ = Len(Parts) THEN @ ELSE @ + 1]
  /\ UNCHANGED <<job, toRead, rows, last>>

\* Mutant: the loop over the components is one iteration too long.
WritePartTooFar(e) ==
  LET p == PathOf(e) IN
  /\ Goto(e, "parts", IF next[e] = Len(Parts) THEN "row" ELSE "parts")
  /\ bundles[p] # NoDir
  /\ bundles' = [bundles EXCEPT ![p] = [@ EXCEPT ![Parts[next[e]]] = e]]
  /\ next' = [next EXCEPT ![e] = @ + 1]
  /\ UNCHANGED <<job, toRead, rows, last>>

WritePart(e) ==
  LET p == PathOf(e) IN
  /\ Goto(e, "parts", IF next[e] = Len(Parts) THEN "row" ELSE "parts")
  /\ bundles[p] # NoDir
  /\ bundles' = [bundles EXCEPT ![p] = [@ EXCEPT ![Parts[next[e]]] = e]]
  /\ next' = [next EXCEPT ![e] = IF @ = Len(Parts) THEN @ ELSE @ + 1]
  /\ UNCHANGED <<job, toRead, rows, last>>

\* Another emission of the path removed the directory under the writer.
WritePartFails(e) ==
  /\ Goto(e, "parts", "raised")
  /\ bundles[PathOf(e)] = NoDir
  /\ UNCHANGED <<job, toRead, next, rows, bundles, last>>

WriteRow(e) ==
  /\ Goto(e, "row", "validate")
  /\ rows' = [rows EXCEPT ![PathOf(e)] = e]
  /\ UNCHANGED <<job, toRead, next, bundles, last>>

\* A row that another emission unlinked cannot be read back, and neither can what
\* one that died at this path cut inside a character: read_text raises, and nothing
\* is cleaned up.
ValidateFile(e) ==
  LET p == PathOf(e) IN
  /\ \/ /\ Goto(e, "validate", "raised")
        /\ rows[p] = NoFile \/ MayNotDecode(p)
     \/ /\ Goto(e, "validate", IF Validates(p) THEN "done" ELSE "unlink")
        /\ rows[p] # NoFile
  /\ UNCHANGED <<job, toRead, next, rows, bundles, last>>

\* Mutant: the clean-up forgets the bundle.
UnlinkRowOnly(e) ==
  /\ Goto(e, "unlink", "rejected")
  /\ rows' = [rows EXCEPT ![PathOf(e)] = NoFile]
  /\ UNCHANGED <<job, toRead, next, bundles, last>>

UnlinkRow(e) ==
  /\ Goto(e, "unlink", "rmtree")
  /\ rows' = [rows EXCEPT ![PathOf(e)] = NoFile]
  /\ UNCHANGED <<job, toRead, next, bundles, last>>

RemoveBundle(e) ==
  /\ Goto(e, "rmtree", "rejected")
  /\ bundles' = [bundles EXCEPT ![PathOf(e)] = NoDir]
  /\ UNCHANGED <<job, toRead, next, rows, last>>

----------------------------------------------------------------------------
(* The end of a run at any point: a signal, a full disk, a power failure *)

Crash(e) ==
  /\ pc[e] \in InFlight
  /\ pc' = [pc EXCEPT ![e] = "crashed"]
  /\ UNCHANGED <<job, toRead, next, rows, bundles, last>>

CrashWritingPart(e) ==
  LET p == PathOf(e) IN
  /\ Goto(e, "parts", "crashed")
  /\ bundles[p] # NoDir
  /\ bundles' = [bundles EXCEPT ![p] = [@ EXCEPT ![Parts[next[e]]] = Torn]]
  /\ UNCHANGED <<job, toRead, next, rows, last>>

CrashWritingRow(e) ==
  /\ Goto(e, "row", "crashed")
  /\ rows' = [rows EXCEPT ![PathOf(e)] = Torn]
  /\ UNCHANGED <<job, toRead, next, bundles, last>>

\* rmtree removes file by file.
CrashRemovingBundle(e) ==
  LET p == PathOf(e) IN
  /\ Goto(e, "rmtree", "crashed")
  /\ bundles[p] # NoDir
  /\ \E gone \in SUBSET PartNames :
       bundles' = [bundles EXCEPT ![p] =
                     [n \in PartNames |-> IF n \in gone THEN NoFile ELSE @[n]]]
  /\ UNCHANGED <<job, toRead, next, rows, last>>

----------------------------------------------------------------------------

Step(e) ==
  \/ BuildResult(e)
  \/ ListRows(e)
  \/ \E p \in toRead[e] : ReadRow(e, p)
  \/ FinishCheck(e)
  \/ MakeArtifactDir(e)
  \/ WritePart(e)
  \/ WritePartFails(e)
  \/ WriteRow(e)
  \/ ValidateFile(e)
  \/ UnlinkRow(e)
  \/ RemoveBundle(e)

Fail(e) ==
  \/ Crash(e)
  \/ CrashWritingPart(e)
  \/ CrashWritingRow(e)
  \/ CrashRemovingBundle(e)

Next == \E e \in Runs : Step(e) \/ Fail(e)

\* What the code permits: any runs, in any order.
Spec == Init /\ [][Next]_vars

\* A process that is not killed runs to its end.
FairSpec == Spec /\ \A e \in Runs : WF_vars(Step(e))

(***************************************************************************)
(* How the tool is used.  The code takes no lock, so what it guarantees    *)
(* depends on which runs are in flight together: never two on one path,    *)
(* never two with one result id, or one at a time.                         *)
(***************************************************************************)
PathExclusive ==
  \A e, f \in Runs :
    (pc[e] \in InFlight /\ pc[f] \in InFlight /\ PathOf(e) = PathOf(f)) => e = f

IdExclusive ==
  \A e, f \in Runs :
    (pc[e] \in InFlight /\ pc[f] \in InFlight /\ ResultId(e) = ResultId(f)) => e = f

Serial == \A e, f \in Runs : (pc[e] \in InFlight /\ pc[f] \in InFlight) => e = f

ExclusiveSpec == Init /\ [][Next /\ PathExclusive']_vars
IdExclusiveSpec == Init /\ [][Next /\ IdExclusive']_vars
SerialSpec    == Init /\ [][Next /\ Serial']_vars

----------------------------------------------------------------------------
(* Safety *)

(***************************************************************************)
(* When write_artifact_and_validate returns, the row at the path is the    *)
(* run's own and so is every component beside it, whatever an earlier      *)
(* crash left there; this stays so until a later run begins to write at    *)
(* the same path.                                                          *)
(***************************************************************************)
SuccessLeavesOwnResult ==
  \A e \in Runs :
    LET p == PathOf(e) IN
    (pc[e] = "done" /\ last[p] = e) =>
      Valid(e) /\ rows[p] = e /\ bundles[p] = BundleOf(e)

(***************************************************************************)
(* An emission that fails its validation leaves neither a row nor a bundle *)
(* behind at its path.                                                     *)
(***************************************************************************)
RejectionLeavesNothing ==
  \A e \in Runs :
    LET p == PathOf(e) IN
    (pc[e] = "rejected" /\ last[p] = e) => rows[p] = NoFile /\ bundles[p] = NoDir

(***************************************************************************)
(* What earlier and other runs left behind can stop a run only before it   *)
(* writes anything, in the check of the other rows, and only if some other *)
(* run was killed or had its row rejected.  Past the check a row that      *)
(* meets the rules is never rejected, and no emission fails on a missing   *)
(* directory or row, although a run died at any step on the same path.     *)
(***************************************************************************)
OnlyTheCheckIsStopped ==
  \A e \in Runs :
    /\ pc[e] # "raised"
    /\ Valid(e) => pc[e] \notin {"unlink", "rmtree", "rejected"}
    /\ pc[e] = "unreadable" =>
         \E f \in Runs \ {e} : pc[f] \in {"rmtree", "rejected", "crashed"}

(***************************************************************************)
(* The check before the write keeps result_id unique over the tree: two    *)
(* readable rows at different paths never carry the same id.               *)
(***************************************************************************)
UniqueResultIds ==
  \A p, q \in Paths :
    (Whole(p) /\ Whole(q) /\ ResultId(rows[p]) = ResultId(rows[q])) => p = q

(***************************************************************************)
(* results/README.md: "result_id is globally unique ... it is the stable   *)
(* render key and is collision-safe across configs, readers, and dates".   *)
(* A readable row is then never replaced by the row of a run that had      *)
(* another configuration.                                                  *)
(***************************************************************************)
KeyIsCollisionSafe ==
  [][\A p \in Paths :
       (Whole(p) /\ rows'[p] \in Runs) =>
         job[rows[p]].config = job[rows'[p]].config]_vars

----------------------------------------------------------------------------
(* Liveness *)

(***************************************************************************)
(* As long as no two runs work on one path, a run with a good row that     *)
(* starts to emit ends with its row published, unless the unique-id check  *)
(* refuses it or cannot read another's row, or it is killed.               *)
(***************************************************************************)
ValidRunFinishes ==
  []PathExclusive =>
    \A e \in Runs :
      (pc[e] = "check" /\ Valid(e)) ~> pc[e] \in {"done", "refused", "unreadable", "crashed"}

----------------------------------------------------------------------------
(* Refinement *)

\* The run whose result the validator accepts at a path.
Accepted(p) == IF Validates(p) THEN rows[p] ELSE NoFile

\* A run may publish until it has written its row, may withdraw until it ends.
Stage(e) == IF pc[e] \in {"idle", "check", "read", "mkdir", "parts", "row"} THEN "open"
            ELSE IF pc[e] \in {"validate", "unlink", "rmtree"} THEN "spent"
            ELSE "closed"

Entries   == [p \in Paths |-> Accepted(p)]
StageOf   == [e \in Runs |-> Stage(e)]
PathMap   == [e \in Runs |-> PathOf(e)]
SoundRuns == {e \in Runs : Valid(e)}

Registry == INSTANCE ResultRegistry WITH
  None <- NoFile, entry <- Entries, stage <- StageOf, path <- PathMap, sound <- SoundRuns

(***************************************************************************)
(* Whatever the interleaving of runs and crashes, the rows that the        *)
(* validator accepts behave as a registry: see ResultRegistry.             *)
(***************************************************************************)
ImplementsRegistry == Registry!Spec
============================================================================
