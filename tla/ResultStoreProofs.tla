------------------------- MODULE ResultStoreProofs -------------------------
(***************************************************************************)
(* Theorems about ResultStore, for any number of runs, directories, ids    *)
(* and bundle components.                                                  *)
(***************************************************************************)
EXTENDS ResultStore, TLAPS

\* A run that got past build_result has registered slugs.
PastBuild(stage) == stage \notin {"idle", "refused"}
RegisteredInFlight == \A e \in Runs : PastBuild(pc[e]) => job[e].dir \in Dirs

Typed == TypeOK /\ RegisteredInFlight

LEMMA PathTyping ==
  ASSUME NEW e \in Runs, job \in [Runs -> Job]
  PROVE  /\ ResultId(e) \in Ids
         /\ job[e].dir \in Dirs => PathOf(e) \in Paths
<1>1. ResultId(e) \in Ids
  BY DEF ResultId, Ids, Job, DefaultResultId
<1>2. QED  BY <1>1 DEF PathOf, Paths

LEMMA PartTyping ==
  ASSUME NEW i \in 1 .. Len(Parts)
  PROVE  Parts[i] \in PartNames
BY DEF PartNames

LEMMA NoPart == Len(Parts) \in Nat /\ 1 \in 1 .. Len(Parts)
BY PartsAssumption

\* The values of pc, which every action sets through Goto.
Stages == {"idle"} \cup InFlight \cup Over

LEMMA InitTyped == Init => Typed
<1> SUFFICES ASSUME Init PROVE Typed  OBVIOUS
<1>1. pc \in [Runs -> Stages] /\ RegisteredInFlight
  BY DEF Init, Stages, RegisteredInFlight, PastBuild
<1>2. next \in [Runs -> 1 .. Len(Parts)]
  BY NoPart DEF Init
<1>3. toRead \in [Runs -> SUBSET Paths]
  BY DEF Init
<1>4. QED  BY <1>1, <1>2, <1>3 DEF Init, Typed, TypeOK, Stages

LEMMA NextTyped == Typed /\ [Next]_vars => Typed'
<1> SUFFICES ASSUME Typed, [Next]_vars PROVE Typed'  OBVIOUS
<1> USE DEF Typed
<1>1. CASE UNCHANGED vars
  BY <1>1 DEF vars, TypeOK, RegisteredInFlight
<1>2. ASSUME NEW e \in Runs, Step(e) \/ Fail(e) PROVE Typed'
  <2> DEFINE p == PathOf(e)
  <2>1. job' = job /\ job \in [Runs -> Job]
    BY <1>2 DEF TypeOK, Step, Fail, BuildResult, ListRows, ReadRow, FinishCheck, MakeArtifactDir,
         WritePart, WritePartFails, WriteRow, ValidateFile, UnlinkRow, RemoveBundle,
         Crash, CrashWritingPart, CrashWritingRow, CrashRemovingBundle
  <2>2. pc' \in [Runs -> Stages] /\ RegisteredInFlight'
    <3>1. \E to \in Stages :
             /\ pc' = [pc EXCEPT ![e] = to]
             /\ PastBuild(to) => job[e].dir \in Dirs
      BY <1>2 DEF Step, Fail, BuildResult, ListRows, ReadRow, FinishCheck, MakeArtifactDir,
           WritePart, WritePartFails, WriteRow, ValidateFile, UnlinkRow, RemoveBundle,
           Crash, CrashWritingPart, CrashWritingRow, CrashRemovingBundle,
           Goto, Stages, InFlight, Writing, Over, RegisteredInFlight, PastBuild
    <3>2. pc \in [Runs -> Stages]
      BY DEF TypeOK, Stages
    <3>3. QED  BY <2>1, <3>1, <3>2 DEF RegisteredInFlight
  <2>3. next' \in [Runs -> 1 .. Len(Parts)]
    <3>1. \/ UNCHANGED next
          \/ next' = [next EXCEPT ![e] = IF next[e] = Len(Parts) THEN next[e] ELSE next[e] + 1]
      BY <1>2 DEF Step, Fail, BuildResult, ListRows, ReadRow, FinishCheck, MakeArtifactDir,
           WritePart, WritePartFails, WriteRow, ValidateFile, UnlinkRow, RemoveBundle,
           Crash, CrashWritingPart, CrashWritingRow, CrashRemovingBundle
    <3>2. next \in [Runs -> 1 .. Len(Parts)] /\ next[e] \in 1 .. Len(Parts)
      BY DEF TypeOK
    <3>3. (IF next[e] = Len(Parts) THEN next[e] ELSE next[e] + 1) \in 1 .. Len(Parts)
      BY <3>2, NoPart
    <3>4. QED  BY <3>1, <3>2, <3>3
  <2>4. Paths' = Paths
    BY DEF Paths, Ids, DefaultResultId
  <2>5. rows' \in [Paths -> Runs \cup {NoFile, Torn}]
    BY <1>2 DEF TypeOK, Step, Fail, BuildResult, ListRows, ReadRow, FinishCheck, MakeArtifactDir,
         WritePart, WritePartFails, WriteRow, ValidateFile, UnlinkRow, RemoveBundle,
         Crash, CrashWritingPart, CrashWritingRow, CrashRemovingBundle
  <2>6. last' \in [Paths -> Runs \cup {NoFile}]
    BY <1>2 DEF TypeOK, Step, Fail, BuildResult, ListRows, ReadRow, FinishCheck, MakeArtifactDir,
         WritePart, WritePartFails, WriteRow, ValidateFile, UnlinkRow, RemoveBundle,
         Crash, CrashWritingPart, CrashWritingRow, CrashRemovingBundle
  <2>7. bundles' \in [Paths -> [PartNames -> Runs \cup {NoFile, Torn}] \cup {NoDir}]
    <3> DEFINE Blob == Runs \cup {NoFile, Torn}
    <3>0. bundles \in [Paths -> [PartNames -> Blob] \cup {NoDir}] /\ next[e] \in 1 .. Len(Parts)
      BY DEF TypeOK
    <3>1. CASE UNCHANGED bundles
      BY <3>0, <3>1
    <3>2. ASSUME NEW b \in [PartNames -> Blob] \cup {NoDir}, bundles' = [bundles EXCEPT ![p] = b]
          PROVE  bundles' \in [Paths -> [PartNames -> Blob] \cup {NoDir}]
      BY <3>0, <3>2
    <3>3. CASE UNCHANGED bundles \/ \E b \in [PartNames -> Blob] \cup {NoDir} : bundles' = [bundles EXCEPT ![p] = b]
      BY <3>1, <3>2, <3>3
    <3>4. pc[e] \in InFlight => p \in Paths /\ bundles[p] \in [PartNames -> Blob] \cup {NoDir}
      BY <2>1, <3>0, PathTyping DEF RegisteredInFlight, PastBuild, InFlight, Writing
    <3>5. CASE MakeArtifactDir(e)
      <4> DEFINE b == IF bundles[p] = NoDir THEN EmptyDir ELSE bundles[p]
      <4>1. b \in [PartNames -> Blob] \cup {NoDir}
        BY <3>4, <3>5 DEF MakeArtifactDir, Goto, InFlight, EmptyDir
      <4>2. QED  BY <3>5, <3>2, <4>1 DEF MakeArtifactDir
    <3>6. CASE WritePart(e)
      <4> DEFINE b == [bundles[p] EXCEPT ![Parts[next[e]]] = e]
      <4>1. b \in [PartNames -> Blob]
        BY <3>0, <3>4, <3>6 DEF WritePart, Goto, InFlight, Writing
      <4>2. QED  BY <3>6, <3>2, <4>1 DEF WritePart
    <3>7. CASE CrashWritingPart(e)
      <4> DEFINE b == [bundles[p] EXCEPT ![Parts[next[e]]] = Torn]
      <4>1. b \in [PartNames -> Blob]
        BY <3>0, <3>4, <3>7 DEF CrashWritingPart, Goto, InFlight, Writing
      <4>2. QED  BY <3>7, <3>2, <4>1 DEF CrashWritingPart
    <3>8. CASE CrashRemovingBundle(e)
      <4>1. PICK gone \in SUBSET PartNames :
              bundles' = [bundles EXCEPT ![p] =
                            [n \in PartNames |-> IF n \in gone THEN NoFile ELSE bundles[p][n]]]
        BY <3>8 DEF CrashRemovingBundle
      <4>2. [n \in PartNames |-> IF n \in gone THEN NoFile ELSE bundles[p][n]] \in [PartNames -> Blob]
        BY <3>4, <3>8 DEF CrashRemovingBundle, Goto, InFlight, Writing
      <4>3. QED  BY <3>2, <4>1, <4>2
    <3>9. CASE RemoveBundle(e)
      BY <3>9, <3>2 DEF RemoveBundle
    <3>10. QED
      BY <1>2, <3>1, <3>5, <3>6, <3>7, <3>8, <3>9 DEF Step, Fail, BuildResult, ListRows, ReadRow, FinishCheck,
           WritePartFails, WriteRow, ValidateFile, UnlinkRow, Crash, CrashWritingRow
  <2>8. toRead' \in [Runs -> SUBSET Paths]
    <3>1. \E left \in SUBSET Paths : toRead' = [toRead EXCEPT ![e] = left] \/ toRead' = toRead
      BY <1>2 DEF TypeOK, Step, Fail, BuildResult, ListRows, ReadRow, FinishCheck, MakeArtifactDir,
         WritePart, WritePartFails, WriteRow, ValidateFile, UnlinkRow, RemoveBundle,
         Crash, CrashWritingPart, CrashWritingRow, CrashRemovingBundle, RowFiles
    <3>2. QED  BY <3>1 DEF TypeOK
  <2>9. QED
    BY <2>1, <2>2, <2>3, <2>4, <2>5, <2>6, <2>7, <2>8 DEF TypeOK, Stages
<1>3. QED  BY <1>1, <1>2 DEF Next

(***************************************************************************)
(* Every state that any interleaving of runs and crashes reaches is well   *)
(* typed: a bundle directory only ever holds the components build_artifact *)
(* lists, and only registered directories are written to.                  *)
(***************************************************************************)
THEOREM TypeCorrect == Spec => []TypeOK
<1>1. Typed => TypeOK  BY DEF Typed
<1>2. QED  BY <1>1, InitTyped, NextTyped, PTL DEF Spec

----------------------------------------------------------------------------
(* Runs that never share a path with another run in flight *)

(***************************************************************************)
(* What a run knows of its path while it writes, and after.  The run that  *)
(* last began to write there owns the path: an earlier run makes no claim  *)
(* any more, and none is made in flight because the path is exclusive.     *)
(***************************************************************************)
WritesInOrder(e) ==
  LET p == PathOf(e) IN
  /\ pc[e] \in {"idle", "check", "read", "mkdir"} => next[e] = 1
  /\ pc[e] \in Writing => last[p] = e
  /\ pc[e] = "parts" =>
       /\ bundles[p] # NoDir
       /\ \A i \in 1 .. Len(Parts) : i < next[e] => bundles[p][Parts[i]] = e
  /\ pc[e] \in {"row", "validate"} => bundles[p] = BundleOf(e)
  /\ pc[e] = "validate" => rows[p] = e

Outcome(e) ==
  LET p == PathOf(e) IN
  /\ pc[e] # "raised"
  /\ pc[e] \in {"unlink", "rmtree", "rejected"} => ~Valid(e)
  /\ pc[e] = "rmtree" => rows[p] = NoFile
  /\ (pc[e] = "done" /\ last[p] = e) =>
       Valid(e) /\ rows[p] = e /\ bundles[p] = BundleOf(e)
  /\ (pc[e] = "rejected" /\ last[p] = e) => rows[p] = NoFile /\ bundles[p] = NoDir

Ownership == \A e \in Runs : WritesInOrder(e) /\ Outcome(e)

ExclusiveInv == Typed /\ PathExclusive /\ Ownership

LEMMA JobFixed ==
  ASSUME job' = job
  PROVE  /\ Paths' = Paths
         /\ \A f \in Runs : PathOf(f)' = PathOf(f) /\ (Valid(f)' <=> Valid(f))
         /\ \A f \in Runs : ResultId(f)' = ResultId(f)
BY DEF PathOf, ResultId, Valid, Paths, Ids, DefaultResultId

LEMMA StepFixesJob ==
  ASSUME NEW e \in Runs, Step(e) \/ Fail(e)
  PROVE  job' = job
BY DEF Step, Fail, BuildResult, ListRows, ReadRow, FinishCheck, MakeArtifactDir,
   WritePart, WritePartFails, WriteRow, ValidateFile, UnlinkRow, RemoveBundle,
   Crash, CrashWritingPart, CrashWritingRow, CrashRemovingBundle

LEMMA InFlightPath ==
  ASSUME Typed, NEW e \in Runs, pc[e] \in InFlight
  PROVE  PathOf(e) \in Paths
BY PathTyping DEF Typed, TypeOK, RegisteredInFlight, PastBuild, InFlight, Writing

\* Nothing a run relies on changes when its own progress and its path do not.
LEMMA Undisturbed ==
  ASSUME NEW f \in Runs, WritesInOrder(f), Outcome(f), job' = job,
         pc'[f] = pc[f], next'[f] = next[f],
         rows'[PathOf(f)] = rows[PathOf(f)],
         bundles'[PathOf(f)] = bundles[PathOf(f)],
         last'[PathOf(f)] = last[PathOf(f)]
  PROVE  WritesInOrder(f)' /\ Outcome(f)'
BY JobFixed DEF WritesInOrder, Outcome, BundleOf, PathOf, ResultId, Valid

\* A run that another run has superseded at its path claims nothing there.
LEMMA Superseded ==
  ASSUME NEW f \in Runs, WritesInOrder(f), Outcome(f), job' = job,
         pc'[f] = pc[f], next'[f] = next[f],
         pc[f] \notin Writing,
         last'[PathOf(f)] # f
  PROVE  WritesInOrder(f)' /\ Outcome(f)'
BY JobFixed DEF WritesInOrder, Outcome, Writing, PathOf, ResultId, Valid

\* The effect of one run's step on the files of all the others.
LEMMA OthersKeepTheirs ==
  ASSUME ExclusiveInv, PathExclusive', NEW e \in Runs, Step(e) \/ Fail(e),
         NEW f \in Runs, f # e
  PROVE  WritesInOrder(f)' /\ Outcome(f)'
<1> DEFINE p == PathOf(e)
           q == PathOf(f)
<1>1. job' = job /\ PathOf(e)' = p /\ PathOf(f)' = q
  BY StepFixesJob, JobFixed
<1>2. pc'[f] = pc[f] /\ next'[f] = next[f]
  BY DEF Step, Fail, BuildResult, ListRows, ReadRow, FinishCheck, MakeArtifactDir,
     WritePart, WritePartFails, WriteRow, ValidateFile, UnlinkRow, RemoveBundle,
     Crash, CrashWritingPart, CrashWritingRow, CrashRemovingBundle, Goto,
     ExclusiveInv, Typed, TypeOK
<1>3. WritesInOrder(f) /\ Outcome(f) /\ WritesInOrder(e)
  BY DEF ExclusiveInv, Ownership
<1>4. CASE UNCHANGED <<rows, bundles, last>>
  BY <1>1, <1>2, <1>3, <1>4, Undisturbed
<1>5. ASSUME ~UNCHANGED <<rows, bundles, last>>
      PROVE  /\ pc[e] \in InFlight
             /\ pc[e] = "mkdir" \/ pc[e] \in Writing
             /\ pc[e] = "mkdir" => MakeArtifactDir(e)
             /\ pc[e] \in Writing => last' = last
             /\ \A r \in Paths : r # p => /\ rows'[r] = rows[r]
                                          /\ bundles'[r] = bundles[r]
                                          /\ last'[r] = last[r]
  BY <1>5 DEF Step, Fail, BuildResult, ListRows, ReadRow, FinishCheck, MakeArtifactDir,
     WritePart, WritePartFails, WriteRow, ValidateFile, UnlinkRow, RemoveBundle,
     Crash, CrashWritingPart, CrashWritingRow, CrashRemovingBundle, Goto,
     ExclusiveInv, Typed, TypeOK, InFlight, Writing
<1>6. ASSUME ~UNCHANGED <<rows, bundles, last>>, q # p
      PROVE  WritesInOrder(f)' /\ Outcome(f)'
  <2>1. CASE q \in Paths
    BY <1>1, <1>2, <1>3, <1>5, <1>6, <2>1, Undisturbed
  <2>2. CASE q \notin Paths
    <3>1. pc[f] \in {"idle", "refused"}
      BY <2>2, PathTyping DEF ExclusiveInv, Typed, TypeOK, RegisteredInFlight, PastBuild
    <3>2. QED
      BY <1>1, <1>2, <1>3, <3>1 DEF WritesInOrder, Outcome, Writing
  <2>3. QED  BY <2>1, <2>2
<1>7. ASSUME ~UNCHANGED <<rows, bundles, last>>, q = p
      PROVE  WritesInOrder(f)' /\ Outcome(f)'
  <2>1. p \in Paths /\ last \in [Paths -> Runs \cup {NoFile}]
    BY <1>5, <1>7, InFlightPath DEF ExclusiveInv, Typed, TypeOK
  <2>2. last'[p] = e
    BY <1>3, <1>5, <1>7, <2>1 DEF WritesInOrder, MakeArtifactDir
  <2>3. pc[f] \notin Writing
    <3>1. CASE pc[e] \in Writing
      BY <1>3, <1>7, <3>1 DEF WritesInOrder
    <3>2. CASE pc[e] = "mkdir"
      BY <1>5, <1>7, <3>2 DEF ExclusiveInv, PathExclusive, InFlight
    <3>3. QED  BY <1>5, <1>7, <3>1, <3>2
  <2>4. QED  BY <1>1, <1>2, <1>3, <1>7, <2>2, <2>3, Superseded
<1>8. QED  BY <1>4, <1>6, <1>7

\* What a run's own step does to its own claims, action by action.
LEMMA OwnStep ==
  ASSUME ExclusiveInv, NEW e \in Runs, Step(e) \/ Fail(e)
  PROVE  WritesInOrder(e)' /\ Outcome(e)'
<1> DEFINE p == PathOf(e)
<1>1. /\ job' = job /\ PathOf(e)' = p /\ (Valid(e)' <=> Valid(e))
      /\ BundleOf(e)' = BundleOf(e)
  BY StepFixesJob, JobFixed DEF BundleOf
<1>2. /\ WritesInOrder(e) /\ Outcome(e)
      /\ pc \in [Runs -> Stages] /\ next \in [Runs -> 1 .. Len(Parts)]
      /\ rows \in [Paths -> Runs \cup {NoFile, Torn}]
      /\ bundles \in [Paths -> [PartNames -> Runs \cup {NoFile, Torn}] \cup {NoDir}]
      /\ last \in [Paths -> Runs \cup {NoFile}]
  BY DEF ExclusiveInv, Ownership, Typed, TypeOK, Stages
<1>3. pc[e] \in InFlight => p \in Paths
  BY InFlightPath DEF ExclusiveInv
<1>4. CASE BuildResult(e)
  BY <1>1, <1>2, <1>4 DEF BuildResult, Goto, WritesInOrder, Outcome, Writing
<1>5. CASE ListRows(e) \/ (\E q \in toRead[e] : ReadRow(e, q)) \/ FinishCheck(e)
  <2>1. /\ pc[e] \in {"check", "read"} /\ next' = next
        /\ pc'[e] \in {"read", "refused", "unreadable", "mkdir"}
    BY <1>2, <1>5 DEF ListRows, ReadRow, FinishCheck, Goto
  <2>2. QED  BY <1>1, <1>2, <2>1 DEF WritesInOrder, Outcome, Writing
<1>6. CASE MakeArtifactDir(e)
  <2>1. p \in Paths /\ last'[p] = e /\ next'[e] = 1 /\ pc'[e] = "parts"
    BY <1>2, <1>3, <1>6 DEF MakeArtifactDir, Goto, InFlight, WritesInOrder
  <2>2. bundles'[p] # NoDir
    <3>1. EmptyDir # NoDir
      BY SentinelAssumption DEF EmptyDir
    <3>2. QED  BY <1>2, <1>6, <2>1, <3>1 DEF MakeArtifactDir
  <2>3. QED
    BY <1>1, <2>1, <2>2 DEF WritesInOrder, Outcome, Writing
<1>7. CASE WritePart(e)
  <2> DEFINE i == next[e]
  <2>1. /\ p \in Paths /\ pc[e] = "parts" /\ last'[p] = e /\ rows' = rows
        /\ i \in 1 .. Len(Parts) /\ Len(Parts) \in Nat
    BY <1>2, <1>3, <1>7, NoPart DEF WritePart, Goto, InFlight, Writing, WritesInOrder
  <2>2. /\ bundles[p] \in [PartNames -> Runs \cup {NoFile, Torn}]
        /\ bundles'[p] = [bundles[p] EXCEPT ![Parts[i]] = e]
    BY <1>2, <1>7, <2>1 DEF WritePart
  <2>3. ASSUME NEW j \in 1 .. Len(Parts), j < i \/ j = i
        PROVE  bundles'[p][Parts[j]] = e
    BY <1>2, <2>1, <2>2, <2>3, PartTyping DEF WritesInOrder
  <2>4. CASE i = Len(Parts)
    <3>1. bundles'[p] = BundleOf(e)
      <4>1. \A n \in PartNames : bundles'[p][n] = e
        BY <2>1, <2>3, <2>4 DEF PartNames
      <4>2. bundles'[p] \in [PartNames -> Runs \cup {NoFile, Torn}]
        BY <2>2
      <4>3. QED  BY <4>1, <4>2 DEF BundleOf
    <3>2. pc'[e] = "row"
      BY <1>2, <1>7, <2>4 DEF WritePart, Goto
    <3>3. QED
      BY <1>1, <1>2, <2>1, <3>1, <3>2 DEF WritesInOrder, Outcome, Writing
  <2>5. CASE i # Len(Parts)
    <3>1. pc'[e] = "parts" /\ next'[e] = i + 1
      BY <1>2, <1>7, <2>5 DEF WritePart, Goto
    <3>2. bundles'[p] # NoDir
      BY <2>2, SentinelAssumption, PartTyping, <2>1
    <3>3. \A j \in 1 .. Len(Parts) : j < i + 1 => bundles'[p][Parts[j]] = e
      BY <2>1, <2>3
    <3>4. QED
      BY <1>1, <2>1, <3>1, <3>2, <3>3 DEF WritesInOrder, Outcome, Writing
  <2>6. QED  BY <2>4, <2>5
<1>8. CASE WritePartFails(e)
  BY <1>2, <1>8 DEF WritePartFails, Goto, WritesInOrder
<1>9. CASE WriteRow(e)
  <2>1. p \in Paths /\ rows'[p] = e /\ pc'[e] = "validate" /\ pc[e] = "row"
    BY <1>2, <1>3, <1>9 DEF WriteRow, Goto, InFlight, Writing
  <2>2. QED
    BY <1>1, <1>2, <1>9, <2>1 DEF WriteRow, WritesInOrder, Outcome, Writing
<1>10. CASE ValidateFile(e)
  <2>1. p \in Paths /\ rows[p] = e /\ bundles[p] = BundleOf(e) /\ last[p] = e
    BY <1>2, <1>3, <1>10 DEF ValidateFile, Goto, InFlight, Writing, WritesInOrder
  <2>2. Validates(p) <=> Valid(e)
    BY <2>1 DEF Validates, LayoutAgrees, BundleMatches, Whole
  <2>3. pc'[e] = (IF Valid(e) THEN "done" ELSE "unlink")
    <3>1. rows[p] # NoFile /\ ~MayNotDecode(p)
      BY <2>1, SentinelAssumption DEF MayNotDecode, BundleOf
    <3>2. QED  BY <1>2, <1>10, <2>1, <2>2, <3>1 DEF ValidateFile, Goto
  <2>4. QED
    BY <1>1, <1>10, <2>1, <2>3 DEF ValidateFile, WritesInOrder, Outcome, Writing
<1>11. CASE UnlinkRow(e)
  <2>1. p \in Paths /\ rows'[p] = NoFile /\ pc'[e] = "rmtree" /\ pc[e] = "unlink"
    BY <1>2, <1>3, <1>11 DEF UnlinkRow, Goto, InFlight, Writing
  <2>2. QED
    BY <1>1, <1>2, <1>11, <2>1 DEF UnlinkRow, WritesInOrder, Outcome, Writing
<1>12. CASE RemoveBundle(e)
  <2>1. p \in Paths /\ bundles'[p] = NoDir /\ pc'[e] = "rejected" /\ pc[e] = "rmtree"
    BY <1>2, <1>3, <1>12 DEF RemoveBundle, Goto, InFlight, Writing
  <2>2. QED
    BY <1>1, <1>2, <1>12, <2>1 DEF RemoveBundle, WritesInOrder, Outcome, Writing
<1>13. CASE Fail(e)
  <2>1. pc'[e] = "crashed"
    BY <1>2, <1>13 DEF Fail, Crash, CrashWritingPart, CrashWritingRow, CrashRemovingBundle, Goto
  <2>2. QED  BY <2>1 DEF WritesInOrder, Outcome, Writing
<1>14. QED
  BY <1>4, <1>5, <1>6, <1>7, <1>8, <1>9, <1>10, <1>11, <1>12, <1>13 DEF Step

LEMMA InitExclusive == Init => ExclusiveInv
<1> SUFFICES ASSUME Init PROVE ExclusiveInv  OBVIOUS
<1>1. Typed
  BY InitTyped
<1>2. PathExclusive
  BY DEF Init, PathExclusive, InFlight, Writing
<1>3. Ownership
  BY DEF Init, Ownership, WritesInOrder, Outcome, Writing
<1>4. QED  BY <1>1, <1>2, <1>3 DEF ExclusiveInv

LEMMA NextExclusive == ExclusiveInv /\ [Next /\ PathExclusive']_vars => ExclusiveInv'
<1> SUFFICES ASSUME ExclusiveInv, [Next /\ PathExclusive']_vars PROVE ExclusiveInv'
  OBVIOUS
<1>1. CASE UNCHANGED vars
  <2>1. Typed'
    BY <1>1, NextTyped DEF ExclusiveInv
  <2>2. PathExclusive'
    BY <1>1, JobFixed DEF vars, ExclusiveInv, PathExclusive
  <2>3. Ownership'
    BY <1>1, Undisturbed DEF vars, ExclusiveInv, Ownership
  <2>4. QED  BY <2>1, <2>2, <2>3 DEF ExclusiveInv
<1>2. ASSUME NEW e \in Runs, Step(e) \/ Fail(e), PathExclusive' PROVE ExclusiveInv'
  <2>1. Typed'
    BY <1>2, NextTyped DEF ExclusiveInv, Next
  <2>2. Ownership'
    BY <1>2, OwnStep, OthersKeepTheirs DEF Ownership
  <2>3. QED  BY <1>2, <2>1, <2>2 DEF ExclusiveInv
<1>3. QED  BY <1>1, <1>2 DEF Next

LEMMA ExclusiveInvariant == ExclusiveSpec => []ExclusiveInv
BY InitExclusive, NextExclusive, PTL DEF ExclusiveSpec

(***************************************************************************)
(* While no two runs in flight share a path, write_artifact_and_validate   *)
(* returns only when the row and every component beside it are the run's   *)
(* own, whatever debris it found, and they stay so until a later run       *)
(* begins to write there.                                                  *)
(***************************************************************************)
THEOREM SuccessIsOwn == ExclusiveSpec => []SuccessLeavesOwnResult
<1>1. ExclusiveInv => SuccessLeavesOwnResult
  BY DEF ExclusiveInv, Ownership, Outcome, SuccessLeavesOwnResult
<1>2. QED  BY <1>1, ExclusiveInvariant, PTL

(***************************************************************************)
(* Under the same use, the clean-up after a failed validation leaves       *)
(* neither the row nor a component behind.                                 *)
(***************************************************************************)
THEOREM RejectionIsClean == ExclusiveSpec => []RejectionLeavesNothing
<1>1. ExclusiveInv => RejectionLeavesNothing
  BY DEF ExclusiveInv, Ownership, Outcome, RejectionLeavesNothing
<1>2. QED  BY <1>1, ExclusiveInvariant, PTL

\* A run that may have left a torn row at its path, or taken a row away there.
Withdrew == {"rmtree", "rejected", "crashed"}
Culprit(p) == \E f \in Runs : PathOf(f) = p /\ pc[f] \in Withdrew

\* A row that a check cannot read is owed to another run.
Blame ==
  /\ \A p \in Paths : rows[p] = Torn => Culprit(p)
  /\ \A e \in Runs : pc[e] = "read" =>
       \A p \in toRead[e] : p # PathOf(e) /\ (rows[p] = NoFile => Culprit(p))
  /\ \A e \in Runs : pc[e] = "unreadable" => \E f \in Runs \ {e} : pc[f] \in Withdrew

LEMMA WithdrewStays ==
  ASSUME Typed, NEW e \in Runs, Step(e) \/ Fail(e), NEW f \in Runs, pc[f] \in Withdrew
  PROVE  pc'[f] \in Withdrew
BY DEF Step, Fail, BuildResult, ListRows, ReadRow, FinishCheck, MakeArtifactDir,
   WritePart, WritePartFails, WriteRow, ValidateFile, UnlinkRow, RemoveBundle,
   Crash, CrashWritingPart, CrashWritingRow, CrashRemovingBundle, Goto,
   Typed, TypeOK, Withdrew, InFlight, Writing

LEMMA BlameKept ==
  ASSUME Typed, Blame, NEW e \in Runs, Step(e) \/ Fail(e)
  PROVE  Blame'
<1>1. /\ job' = job /\ Paths' = Paths
      /\ \A f \in Runs : PathOf(f)' = PathOf(f)
  BY StepFixesJob, JobFixed
<1>2. /\ rows \in [Paths -> Runs \cup {NoFile, Torn}] /\ pc \in [Runs -> Stages]
      /\ toRead \in [Runs -> SUBSET Paths]
  BY DEF Typed, TypeOK, Stages
<1>3. ASSUME NEW p \in Paths, Culprit(p) PROVE Culprit(p)'
  BY <1>1, <1>3, WithdrewStays DEF Culprit
<1>4. ASSUME NEW p \in Paths, rows'[p] # rows[p], rows'[p] \in {NoFile, Torn}
      PROVE  Culprit(p)'
  <2>1. PathOf(e) = p /\ pc'[e] \in {"rmtree", "crashed"}
    BY <1>2, <1>4, SentinelAssumption DEF Step, Fail, BuildResult, ListRows, ReadRow,
       FinishCheck, MakeArtifactDir, WritePart, WritePartFails, WriteRow, ValidateFile,
       UnlinkRow, RemoveBundle, Crash, CrashWritingPart, CrashWritingRow,
       CrashRemovingBundle, Goto
  <2>2. QED  BY <1>1, <2>1 DEF Culprit, Withdrew
<1>5. ASSUME NEW p \in Paths, rows'[p] = Torn PROVE Culprit(p)'
  BY <1>3, <1>4, <1>5 DEF Blame
<1>6. ASSUME NEW f \in Runs, pc'[f] = "read", NEW p \in toRead'[f]
      PROVE  p # PathOf(f) /\ (rows'[p] = NoFile => Culprit(p)')
  <2>1. CASE ListRows(e) /\ f = e
    BY <1>2, <1>6, <2>1 DEF ListRows, RowFiles
  <2>2. CASE ~(ListRows(e) /\ f = e)
    <3>1. pc[f] = "read" /\ p \in toRead[f]
      BY <1>2, <1>6, <2>2 DEF Step, Fail, BuildResult, ListRows, ReadRow, FinishCheck,
         MakeArtifactDir, WritePart, WritePartFails, WriteRow, ValidateFile, UnlinkRow,
         RemoveBundle, Crash, CrashWritingPart, CrashWritingRow, CrashRemovingBundle, Goto
    <3>2. p \in Paths
      BY <1>2, <3>1
    <3>3. QED  BY <1>3, <1>4, <3>1, <3>2 DEF Blame
  <2>3. QED  BY <2>1, <2>2
<1>7. ASSUME NEW f \in Runs, pc'[f] = "unreadable"
      PROVE  \E g \in Runs \ {f} : pc'[g] \in Withdrew
  <2>1. CASE pc[f] = "unreadable"
    BY <2>1, WithdrewStays DEF Blame
  <2>2. CASE pc[f] # "unreadable"
    <3>1. f = e /\ pc[e] = "read" /\ \E p \in toRead[e] : rows[p] \in {NoFile, Torn}
      BY <1>2, <1>7, <2>2 DEF Step, Fail, BuildResult, ListRows, ReadRow, FinishCheck,
         MakeArtifactDir, WritePart, WritePartFails, WriteRow, ValidateFile, UnlinkRow,
         RemoveBundle, Crash, CrashWritingPart, CrashWritingRow, CrashRemovingBundle, Goto
    <3>2. PICK p \in toRead[e] : rows[p] \in {NoFile, Torn}
      BY <3>1
    <3>3. p \in Paths /\ p # PathOf(e) /\ Culprit(p)
      BY <1>2, <3>1, <3>2 DEF Blame
    <3>4. PICK g \in Runs : PathOf(g) = p /\ pc[g] \in Withdrew
      BY <3>3 DEF Culprit
    <3>5. QED  BY <3>1, <3>3, <3>4, WithdrewStays
  <2>3. QED  BY <2>1, <2>2
<1>8. QED  BY <1>1, <1>5, <1>6, <1>7 DEF Blame, PathOf, ResultId

LEMMA BlameInvariant == Spec => [](Typed /\ Blame)
<1>1. Init => Typed /\ Blame
  <2>1. ASSUME Init PROVE Blame
    BY <2>1, SentinelAssumption DEF Init, Blame
  <2>2. QED  BY <2>1, InitTyped
<1>2. Typed /\ Blame /\ [Next]_vars => (Typed /\ Blame)'
  <2> SUFFICES ASSUME Typed, Blame, [Next]_vars PROVE Blame'
    BY NextTyped
  <2>1. CASE UNCHANGED vars
    BY <2>1, JobFixed DEF vars, Blame, Culprit, PathOf, ResultId
  <2>2. CASE Next
    BY <2>2, BlameKept DEF Next
  <2>3. QED  BY <2>1, <2>2
<1>3. QED  BY <1>1, <1>2, PTL DEF Spec

(***************************************************************************)
(* Under the same use, past the check a run whose row meets the rules is   *)
(* never rejected and no run fails on a missing directory or row, whatever *)
(* step earlier runs on the path died at; a check that raises met the row  *)
(* of another run that was killed or that withdrew it.                     *)
(***************************************************************************)
THEOREM DebrisStopsOnlyTheCheck == ExclusiveSpec => []OnlyTheCheckIsStopped
<1>1. ExclusiveInv /\ Blame => OnlyTheCheckIsStopped
  BY DEF ExclusiveInv, Ownership, Outcome, Blame, Withdrew, OnlyTheCheckIsStopped
<1>2. ExclusiveSpec => Spec
  <2>1. [Next /\ PathExclusive']_vars => [Next]_vars
    OBVIOUS
  <2>2. QED  BY <2>1, PTL DEF ExclusiveSpec, Spec
<1>3. QED  BY <1>1, <1>2, ExclusiveInvariant, BlameInvariant, PTL

----------------------------------------------------------------------------
(* Runs that share no result id while they are in flight *)

RowsAtHome == \A p \in Paths : Whole(p) => PathOf(rows[p]) = p

\* The other rows with the run's id that its check has not come across.
Missed(e) == {p \in Paths \ {PathOf(e)} : Carries(p, ResultId(e))}

\* What the check found still holds when the row is written.
Checked ==
  \A e \in Runs :
    /\ pc[e] = "read" => Missed(e) \subseteq toRead[e]
    /\ pc[e] \in {"mkdir", "parts", "row"} => Missed(e) = {}

UniqueInv == Typed /\ IdExclusive /\ RowsAtHome /\ UniqueResultIds /\ Checked

\* The row file that each step may write.
LEMMA RowEffect ==
  ASSUME Typed, NEW e \in Runs, Step(e) \/ Fail(e)
  PROVE  \/ rows' = rows
         \/ /\ pc[e] = "row"
            /\ PathOf(e) \in Paths
            /\ \/ pc'[e] = "validate" /\ rows' = [rows EXCEPT ![PathOf(e)] = e]
               \/ pc'[e] = "crashed" /\ rows' = [rows EXCEPT ![PathOf(e)] = Torn]
         \/ pc[e] = "unlink" /\ rows' = [rows EXCEPT ![PathOf(e)] = NoFile]
BY InFlightPath DEF Step, Fail, BuildResult, ListRows, ReadRow, FinishCheck, MakeArtifactDir,
   WritePart, WritePartFails, WriteRow, ValidateFile, UnlinkRow, RemoveBundle,
   Crash, CrashWritingPart, CrashWritingRow, CrashRemovingBundle, Goto,
   Typed, TypeOK, InFlight, Writing

LEMMA RowsStayAtHome ==
  ASSUME Typed, RowsAtHome, NEW e \in Runs, Step(e) \/ Fail(e)
  PROVE  RowsAtHome'
<1>1. /\ job' = job /\ Paths' = Paths
      /\ \A f \in Runs : PathOf(f)' = PathOf(f)
  BY StepFixesJob, JobFixed
<1>2. rows \in [Paths -> Runs \cup {NoFile, Torn}]
  BY DEF Typed, TypeOK
<1>3. \A p \in Paths : \/ rows'[p] = rows[p]
                       \/ rows'[p] \in {NoFile, Torn}
                       \/ rows'[p] = e /\ p = PathOf(e)
  BY <1>2, RowEffect
<1>4. QED
  BY <1>1, <1>3, SentinelAssumption DEF RowsAtHome, Whole

LEMMA NextUnique == UniqueInv /\ [Next /\ IdExclusive']_vars => UniqueInv'
<1> SUFFICES ASSUME UniqueInv, [Next /\ IdExclusive']_vars PROVE UniqueInv'
  OBVIOUS
<1>1. CASE UNCHANGED vars
  <2>1. Typed'
    BY <1>1, NextTyped DEF UniqueInv
  <2>2. /\ Paths' = Paths /\ \A f \in Runs : PathOf(f)' = PathOf(f)
        /\ \A f \in Runs : ResultId(f)' = ResultId(f)
        /\ rows' = rows /\ pc' = pc /\ toRead' = toRead
    BY <1>1, JobFixed DEF vars
  <2>3. QED
    BY <2>1, <2>2 DEF UniqueInv, IdExclusive, RowsAtHome, UniqueResultIds, Checked, Missed, Carries, Whole
<1>2. ASSUME NEW e \in Runs, Step(e) \/ Fail(e), IdExclusive' PROVE UniqueInv'
  <2>0. Typed /\ IdExclusive /\ RowsAtHome /\ UniqueResultIds /\ Checked
    BY DEF UniqueInv
  <2>1. Typed'
    BY <1>2, <2>0, NextTyped DEF Next
  <2>2. RowsAtHome'
    BY <1>2, <2>0, RowsStayAtHome
  <2>3. /\ Paths' = Paths /\ \A f \in Runs : PathOf(f)' = PathOf(f)
        /\ \A f \in Runs : ResultId(f)' = ResultId(f)
    BY <1>2, StepFixesJob, JobFixed
  <2>4. rows \in [Paths -> Runs \cup {NoFile, Torn}] /\ pc \in [Runs -> Stages]
    BY <2>0 DEF Typed, TypeOK, Stages
  <2>5. UniqueResultIds'
    <3>1. SUFFICES ASSUME NEW p \in Paths, NEW q \in Paths, rows'[p] \in Runs, rows'[q] \in Runs,
                          ResultId(rows'[p]) = ResultId(rows'[q])
                   PROVE  p = q
      BY <2>3 DEF UniqueResultIds, Whole
    <3>2. CASE pc[e] = "row" /\ rows' = [rows EXCEPT ![PathOf(e)] = e]
      <4>1. Missed(e) = {}
        BY <2>0, <3>2 DEF Checked
      <4>2. CASE p = PathOf(e) \/ q = PathOf(e)
        BY <2>4, <3>1, <3>2, <4>1, <4>2 DEF Missed, Carries, Whole
      <4>3. CASE p # PathOf(e) /\ q # PathOf(e)
        BY <2>0, <2>4, <3>1, <3>2, <4>3 DEF UniqueResultIds, Whole
      <4>4. QED  BY <4>2, <4>3
    <3>3. CASE \A r \in Paths : rows'[r] = rows[r] \/ rows'[r] \in {NoFile, Torn}
      BY <2>0, <3>1, <3>3, SentinelAssumption DEF UniqueResultIds, Whole
    <3>4. QED
      BY <1>2, <2>0, <2>4, <3>2, <3>3, RowEffect
  <2>6. Checked'
    <3>1. SUFFICES ASSUME NEW f \in Runs, pc'[f] \in {"read", "mkdir", "parts", "row"},
                          NEW p \in Paths, p # PathOf(f), rows'[p] \in Runs,
                          ResultId(rows'[p]) = ResultId(f)
                   PROVE  pc'[f] = "read" /\ p \in toRead'[f]
      BY <2>3 DEF Checked, Missed, Carries, Whole
    <3>2. pc'[f] \in InFlight
      BY <3>1 DEF InFlight, Writing
    <3>3. CASE f = e
      <4>1. rows' = rows
        BY <1>2, <2>4, <3>1, <3>3 DEF Step, Fail, BuildResult, ListRows, ReadRow, FinishCheck,
           MakeArtifactDir, WritePart, WritePartFails, WriteRow, ValidateFile, UnlinkRow,
           RemoveBundle, Crash, CrashWritingPart, CrashWritingRow, CrashRemovingBundle, Goto
      <4>2. p \in Missed(e)
        BY <3>1, <3>3, <4>1 DEF Missed, Carries, Whole
      <4>3. CASE ListRows(e)
        BY <2>0, <2>4, <3>1, <3>3, <4>1, <4>3, SentinelAssumption DEF ListRows,
           Goto, RowFiles, Typed, TypeOK
      <4>4. ASSUME NEW q \in toRead[e], ReadRow(e, q) PROVE pc'[f] = "read" /\ p \in toRead'[f]
        <5>1. pc[e] = "read" /\ p \in toRead[e]
          BY <2>0, <4>2, <4>4 DEF ReadRow, Goto, Checked
        <5>2. rows[q] = Torn \/ ~Carries(q, ResultId(e))
          BY <2>4, <3>1, <3>3, <4>4 DEF ReadRow, Goto
        <5>3. q # p
          BY <4>2, <5>2, SentinelAssumption DEF Missed, Carries, Whole
        <5>4. QED  BY <2>0, <2>4, <3>1, <3>3, <4>4, <5>1, <5>3 DEF ReadRow, Goto, Typed, TypeOK
      <4>5. CASE ~ListRows(e) /\ \A q \in toRead[e] : ~ReadRow(e, q)
        <5>1. Missed(e) = {}
          BY <1>2, <2>0, <2>4, <3>1, <3>3, <4>5 DEF Step, Fail, BuildResult, FinishCheck,
             MakeArtifactDir, WritePart, WritePartFails, WriteRow, ValidateFile, UnlinkRow,
             RemoveBundle, Crash, CrashWritingPart, CrashWritingRow, CrashRemovingBundle, Goto,
             Checked
        <5>2. QED  BY <4>2, <5>1
      <4>6. QED  BY <4>3, <4>4, <4>5
    <3>4. CASE f # e
      <4>1. pc'[f] = pc[f] /\ toRead'[f] = toRead[f]
        BY <1>2, <2>0, <2>4, <3>4 DEF Step, Fail, BuildResult, ListRows, ReadRow, FinishCheck,
           MakeArtifactDir, WritePart, WritePartFails, WriteRow, ValidateFile, UnlinkRow,
           RemoveBundle, Crash, CrashWritingPart, CrashWritingRow, CrashRemovingBundle, Goto,
           Typed, TypeOK
      <4>2. p \in Missed(f) => pc[f] = "read" /\ p \in toRead[f]
        BY <2>0, <3>1, <4>1 DEF Checked
      <4>3. rows'[p] = rows[p]
        <5>1. SUFFICES ASSUME rows'[p] # rows[p] PROVE FALSE
          OBVIOUS
        <5>2. rows'[p] = e /\ pc'[e] = "validate"
          BY <1>2, <2>0, <2>4, <3>1, <5>1, RowEffect, SentinelAssumption
        <5>3. QED  BY <1>2, <2>3, <3>1, <3>2, <3>4, <5>2 DEF IdExclusive, InFlight, Writing
      <4>4. QED  BY <3>1, <4>1, <4>2, <4>3 DEF Missed, Carries, Whole
    <3>5. QED  BY <3>3, <3>4
  <2>7. QED  BY <1>2, <2>1, <2>2, <2>5, <2>6 DEF UniqueInv
<1>3. QED  BY <1>1, <1>2 DEF Next

LEMMA InitUnique == Init => UniqueInv
<1> SUFFICES ASSUME Init PROVE UniqueInv  OBVIOUS
<1>1. Typed
  BY InitTyped
<1>2. IdExclusive /\ Checked
  BY DEF Init, IdExclusive, Checked, InFlight, Writing
<1>3. \A p \in Paths : ~Whole(p)
  BY SentinelAssumption DEF Init, Whole
<1>4. QED  BY <1>1, <1>2, <1>3 DEF UniqueInv, RowsAtHome, UniqueResultIds

(***************************************************************************)
(* When no two emissions in flight have one result_id, and each may die at *)
(* any step, the check before the first write keeps every readable row's   *)
(* result_id unique over the whole tree.                                   *)
(***************************************************************************)
THEOREM ResultIdsAreUnique == IdExclusiveSpec => []UniqueResultIds
<1>1. UniqueInv => UniqueResultIds
  BY DEF UniqueInv
<1>2. QED  BY <1>1, InitUnique, NextUnique, PTL DEF IdExclusiveSpec

----------------------------------------------------------------------------
(* Any runs, in any order: the accepted rows are a registry *)

\* A run's row is on disk only once the run has written it.
WrittenOnce == \A p \in Paths : Whole(p) => Stage(rows[p]) # "open"

RegistryInv == Typed /\ RowsAtHome /\ WrittenOnce

\* Every step moves at most its own run, and never back.
LEMMA StageEffect ==
  ASSUME Typed, NEW e \in Runs, Step(e) \/ Fail(e)
  PROVE  /\ \A f \in Runs : f # e => Stage(f)' = Stage(f)
         /\ Stage(e) # "closed"
         /\ \/ Stage(e)' = Stage(e)
            \/ Stage(e)' = "closed"
            \/ Stage(e) = "open" /\ Stage(e)' = "spent"
<1>1. pc \in [Runs -> Stages]
  BY DEF Typed, TypeOK, Stages
<1>2. \E to \in Stages : pc' = [pc EXCEPT ![e] = to]
  BY DEF Step, Fail, BuildResult, ListRows, ReadRow, FinishCheck, MakeArtifactDir,
     WritePart, WritePartFails, WriteRow, ValidateFile, UnlinkRow, RemoveBundle,
     Crash, CrashWritingPart, CrashWritingRow, CrashRemovingBundle, Goto,
     Stages, InFlight, Writing, Over
<1>3. \A f \in Runs : f # e => Stage(f)' = Stage(f)
  BY <1>1, <1>2 DEF Stage
<1>4. CASE Step(e)
  BY <1>1, <1>4 DEF Step, BuildResult, ListRows, ReadRow, FinishCheck, MakeArtifactDir,
     WritePart, WritePartFails, WriteRow, ValidateFile, UnlinkRow, RemoveBundle,
     Goto, Stage
<1>5. CASE Fail(e)
  <2>1. pc'[e] = "crashed"
    BY <1>1, <1>5 DEF Fail, Crash, CrashWritingPart, CrashWritingRow, CrashRemovingBundle, Goto
  <2>2. Stage(e) # "closed"
    BY <1>1, <1>5 DEF Fail, Crash, CrashWritingPart, CrashWritingRow, CrashRemovingBundle, Goto,
       Stage, InFlight, Writing
  <2>3. QED  BY <1>3, <2>1, <2>2 DEF Stage
<1>6. QED  BY <1>3, <1>4, <1>5

LEMMA InitRegistry == Init => RegistryInv
<1> SUFFICES ASSUME Init PROVE RegistryInv  OBVIOUS
<1>1. \A p \in Paths : ~Whole(p)
  BY SentinelAssumption DEF Init, Whole
<1>2. QED  BY <1>1, InitTyped DEF RegistryInv, RowsAtHome, WrittenOnce

LEMMA NextRegistry == RegistryInv /\ [Next]_vars => RegistryInv'
<1> SUFFICES ASSUME RegistryInv, [Next]_vars PROVE RegistryInv'  OBVIOUS
<1>1. CASE UNCHANGED vars
  <2>1. Typed'
    BY <1>1, NextTyped DEF RegistryInv
  <2>2. /\ Paths' = Paths /\ \A f \in Runs : PathOf(f)' = PathOf(f)
        /\ rows' = rows /\ pc' = pc
    BY <1>1, JobFixed DEF vars
  <2>3. QED  BY <2>1, <2>2 DEF RegistryInv, RowsAtHome, WrittenOnce, Whole, Stage
<1>2. ASSUME NEW e \in Runs, Step(e) \/ Fail(e) PROVE RegistryInv'
  <2>1. Typed' /\ RowsAtHome' /\ Typed
    BY <1>2, NextTyped, RowsStayAtHome DEF Next, RegistryInv
  <2>2. Paths' = Paths
    BY <1>2, StepFixesJob, JobFixed
  <2>3. WrittenOnce'
    <3>1. SUFFICES ASSUME NEW p \in Paths, NEW g \in Runs, rows'[p] = g
                   PROVE  Stage(g)' # "open"
      <4>1. \A p \in Paths, g \in Runs : rows'[p] = g => Stage(g)' # "open"
        BY <3>1
      <4>2. SUFFICES ASSUME NEW p \in Paths, rows'[p] \in Runs
                     PROVE  (Stage(rows[p]))' # "open"
        BY <2>2 DEF WrittenOnce, Whole
      <4>3. PICK g \in Runs : rows'[p] = g
        BY <4>2
      <4>4. QED  BY <4>1, <4>3 DEF Stage
    <3>2. CASE rows'[p] = rows[p]
      <4>1. Stage(g) # "open"
        BY <3>1, <3>2 DEF RegistryInv, WrittenOnce, Whole
      <4>2. QED
        BY <1>2, <2>1, <4>1, StageEffect
    <3>3. CASE rows'[p] # rows[p]
      <4>1. pc[e] = "row" /\ pc'[e] = "validate" /\ g = e
        BY <1>2, <2>1, <3>1, <3>3, RowEffect, SentinelAssumption DEF Typed, TypeOK
      <4>2. QED  BY <4>1 DEF Stage
    <3>4. QED  BY <3>2, <3>3
  <2>4. QED  BY <2>1, <2>3 DEF RegistryInv
<1>3. QED  BY <1>1, <1>2 DEF Next

\* A step other than writing the row can only spoil what stands at its path.
LEMMA OnlyWithdraws ==
  ASSUME RegistryInv, NEW e \in Runs, Step(e) \/ Fail(e), ~WriteRow(e),
         NEW p \in Paths, Validates(p)'
  PROVE  Validates(p) /\ rows'[p] = rows[p]
<1> DEFINE g == rows'[p]
<1>1. /\ job' = job /\ Paths' = Paths
      /\ \A f \in Runs : PathOf(f)' = PathOf(f) /\ (Valid(f)' <=> Valid(f))
  BY StepFixesJob, JobFixed
<1>2. /\ rows \in [Paths -> Runs \cup {NoFile, Torn}]
      /\ bundles \in [Paths -> [PartNames -> Runs \cup {NoFile, Torn}] \cup {NoDir}]
      /\ pc \in [Runs -> Stages] /\ next \in [Runs -> 1 .. Len(Parts)]
  BY DEF RegistryInv, Typed, TypeOK, Stages
<1>3. /\ g \in Runs /\ Valid(g) /\ PathOf(g) = p
      /\ bundles'[p] = [n \in PartNames |-> g]
  BY <1>1 DEF Validates, LayoutAgrees, BundleMatches, Whole, BundleOf
<1>4. rows'[p] = rows[p]
  BY <1>2, <1>3, RowEffect, SentinelAssumption DEF RegistryInv, Step, Fail, BuildResult,
     ListRows, ReadRow, FinishCheck, MakeArtifactDir, WritePart, WritePartFails, ValidateFile, UnlinkRow,
     RemoveBundle, Crash, CrashWritingPart, CrashWritingRow, CrashRemovingBundle, Goto
<1>5. Stage(g) # "open" /\ Whole(p)
  BY <1>3, <1>4 DEF RegistryInv, WrittenOnce, Whole
<1>6. bundles[p] = [n \in PartNames |-> g]
  <2>1. CASE bundles'[p] = bundles[p]
    BY <1>3, <2>1
  <2>2. CASE MakeArtifactDir(e)
    <3>1. Parts[1] \in PartNames
      BY NoPart, PartTyping
    <3>2. EmptyDir[Parts[1]] # g
      BY <1>3, <3>1, SentinelAssumption DEF EmptyDir
    <3>3. bundles'[p] # EmptyDir
      BY <1>3, <3>1, <3>2
    <3>4. QED  BY <1>2, <1>3, <2>2, <3>3 DEF MakeArtifactDir
  <2>3. CASE WritePart(e) /\ bundles'[p] # bundles[p]
    <3> DEFINE n == Parts[next[e]]
    <3>1. n \in PartNames /\ p = PathOf(e) /\ pc[e] = "parts"
      BY <1>2, <2>3, PartTyping DEF WritePart, Goto
    <3>2. bundles[p] \in [PartNames -> Runs \cup {NoFile, Torn}] /\ bundles'[p][n] = e
      BY <1>2, <2>3, <3>1 DEF WritePart
    <3>3. g = e
      BY <1>3, <3>1, <3>2
    <3>4. QED  BY <1>5, <3>1, <3>3 DEF Stage
  <2>4. CASE CrashWritingPart(e) /\ bundles'[p] # bundles[p]
    <3> DEFINE n == Parts[next[e]]
    <3>1. n \in PartNames /\ p = PathOf(e)
      BY <1>2, <2>4, PartTyping DEF CrashWritingPart
    <3>2. bundles[p] \in [PartNames -> Runs \cup {NoFile, Torn}] /\ bundles'[p][n] = Torn
      BY <1>2, <2>4, <3>1 DEF CrashWritingPart
    <3>3. QED  BY <1>3, <3>1, <3>2, SentinelAssumption
  <2>5. CASE CrashRemovingBundle(e) /\ bundles'[p] # bundles[p]
    <3>1. p = PathOf(e)
      BY <1>2, <2>5 DEF CrashRemovingBundle
    <3>2. bundles[p] \in [PartNames -> Runs \cup {NoFile, Torn}]
      BY <1>2, <2>5, <3>1 DEF CrashRemovingBundle
    <3>3. \A n \in PartNames : bundles'[p][n] \in {NoFile, bundles[p][n]}
      BY <1>2, <2>5, <3>1 DEF CrashRemovingBundle
    <3>4. \A n \in PartNames : bundles[p][n] = g
      BY <1>3, <3>3, SentinelAssumption
    <3>5. QED  BY <3>2, <3>4
  <2>6. CASE RemoveBundle(e) /\ bundles'[p] # bundles[p]
    <3>1. bundles'[p] = NoDir
      BY <1>2, <2>6 DEF RemoveBundle
    <3>2. bundles'[p] \in [PartNames -> Runs \cup {NoFile, Torn}]
      BY <1>3
    <3>3. QED  BY <3>1, <3>2, SentinelAssumption
  <2>7. QED
    BY <2>1, <2>2, <2>3, <2>4, <2>5, <2>6 DEF Step, Fail, BuildResult, ListRows, ReadRow, FinishCheck,
       WritePartFails, WriteRow, ValidateFile, UnlinkRow, Crash, CrashWritingRow
<1>7. QED
  BY <1>3, <1>4, <1>5, <1>6 DEF Validates, LayoutAgrees, BundleMatches, BundleOf

\* Steps of e leave every other path's files alone.
LEMMA OtherPaths ==
  ASSUME Typed, NEW e \in Runs, Step(e) \/ Fail(e), NEW p \in Paths, p # PathOf(e)
  PROVE  Accepted(p)' = Accepted(p)
<1>1. rows'[p] = rows[p] /\ bundles'[p] = bundles[p]
  BY DEF Step, Fail, BuildResult, ListRows, ReadRow, FinishCheck, MakeArtifactDir,
     WritePart, WritePartFails, WriteRow, ValidateFile, UnlinkRow, RemoveBundle,
     Crash, CrashWritingPart, CrashWritingRow, CrashRemovingBundle, Typed, TypeOK
<1>2. \A f \in Runs : PathOf(f)' = PathOf(f) /\ (Valid(f)' <=> Valid(f))
  BY StepFixesJob, JobFixed
<1>3. Validates(p)' <=> Validates(p)
  BY <1>1, <1>2 DEF Validates, LayoutAgrees, BundleMatches, Whole, BundleOf
<1>4. QED  BY <1>1, <1>3 DEF Accepted

LEMMA RegistryStep ==
  ASSUME RegistryInv, NEW e \in Runs, Step(e) \/ Fail(e)
  PROVE  Registry!Next \/ UNCHANGED <<Entries, StageOf, PathMap, SoundRuns>>
<1>0. PICK p : p = PathOf(e)
  OBVIOUS
<1>1. UNCHANGED <<PathMap, SoundRuns>> /\ Paths' = Paths
  BY StepFixesJob, JobFixed DEF PathMap, SoundRuns
<1>2. /\ StageOf' = [StageOf EXCEPT ![e] = Stage(e)']
      /\ StageOf[e] = Stage(e) /\ PathMap[e] = p
  BY <1>0, StageEffect DEF RegistryInv, StageOf, PathMap
<1>3. Entries' = [Entries EXCEPT ![p] = Accepted(p)']
  <2>1. \A q \in Paths : q # p => Accepted(q)' = Accepted(q)
    BY <1>0, OtherPaths DEF RegistryInv
  <2>2. QED  BY <1>1, <2>1 DEF Entries
<1>4. /\ Stage(e) # "closed"
      /\ \/ Stage(e)' = Stage(e)
         \/ Stage(e)' = "closed"
         \/ Stage(e) = "open" /\ Stage(e)' = "spent"
  BY StageEffect DEF RegistryInv
<1>5. ASSUME Entries' \in {Entries, [Entries EXCEPT ![p] = NoFile]}
      PROVE  Registry!Next \/ UNCHANGED <<Entries, StageOf, PathMap, SoundRuns>>
  <2>1. CASE Stage(e)' # Stage(e)
    <3>1. Registry!Advance(e)
      BY <1>1, <1>2, <1>4, <1>5, <2>1 DEF Registry!Advance, Registry!Withdrawn
    <3>2. QED  BY <3>1 DEF Registry!Next
  <2>2. CASE Stage(e)' = Stage(e) /\ Entries' # Entries
    <3>1. StageOf' = StageOf
      BY <1>2, <2>2 DEF StageOf
    <3>2. Registry!Withdraw(e)
      BY <1>1, <1>2, <1>4, <1>5, <2>2, <3>1 DEF Registry!Withdraw, Registry!Withdrawn
    <3>3. QED  BY <3>2 DEF Registry!Next
  <2>3. CASE Stage(e)' = Stage(e) /\ Entries' = Entries
    BY <1>1, <1>2, <2>3 DEF StageOf
  <2>4. QED  BY <2>1, <2>2, <2>3
<1>6. CASE ~WriteRow(e)
  <2>1. CASE p \in Paths
    <3>1. Accepted(p)' \in {Accepted(p), NoFile}
      BY <1>6, <2>1, OnlyWithdraws DEF Accepted
    <3>2. QED  BY <1>3, <1>5, <2>1, <3>1 DEF Entries
  <2>2. CASE p \notin Paths
    BY <1>3, <1>5, <2>2 DEF Entries
  <2>3. QED  BY <2>1, <2>2
<1>7. CASE WriteRow(e)
  <2>1. /\ p \in Paths /\ rows'[p] = e /\ bundles' = bundles
        /\ Stage(e) = "open" /\ Stage(e)' = "spent"
    BY <1>0, <1>7, InFlightPath DEF WriteRow, Goto, RegistryInv, Typed, TypeOK, InFlight, Writing, Stage
  <2>2. /\ \A f \in Runs : PathOf(f)' = PathOf(f) /\ (Valid(f)' <=> Valid(f))
    BY StepFixesJob, JobFixed
  <2>3. CASE Validates(p)'
    <3>1. Valid(e) /\ bundles[p] = [n \in PartNames |-> e]
      BY <2>1, <2>2, <2>3 DEF Validates, LayoutAgrees, BundleMatches, BundleOf
    <3>2. ~Validates(p)
      <4>1. SUFFICES ASSUME Validates(p) PROVE FALSE
        OBVIOUS
      <4>2. rows[p] \in Runs /\ bundles[p] = [n \in PartNames |-> rows[p]]
        BY <4>1 DEF Validates, LayoutAgrees, BundleMatches, Whole, BundleOf
      <4>3. rows[p] = e
        BY <3>1, <4>2, NoPart, PartTyping
      <4>4. QED  BY <2>1, <4>2, <4>3 DEF RegistryInv, WrittenOnce, Whole
    <3>3. Accepted(p) = NoFile /\ Accepted(p)' = e
      BY <2>1, <2>3, <3>2 DEF Accepted
    <3>4. Registry!Publish(e)
      BY <1>1, <1>2, <1>3, <2>1, <3>1, <3>3 DEF Registry!Publish, Entries, SoundRuns
    <3>5. QED  BY <3>4 DEF Registry!Next
  <2>4. CASE ~Validates(p)'
    <3>1. Accepted(p)' = NoFile
      BY <2>4 DEF Accepted
    <3>2. QED  BY <1>3, <1>5, <3>1
  <2>5. QED  BY <2>3, <2>4
<1>8. QED  BY <1>6, <1>7

LEMMA RegistryInit == Init => Registry!Init
<1> SUFFICES ASSUME Init PROVE Registry!Init  OBVIOUS
<1>1. \A p \in Paths : Accepted(p) = NoFile
  BY SentinelAssumption DEF Init, Accepted, Validates, LayoutAgrees, BundleMatches, Whole
<1>2. QED  BY <1>1 DEF Init, Registry!Init, Entries, StageOf, Stage

(***************************************************************************)
(* With any runs in flight together on any paths, and any of them dying at *)
(* any step, the rows the validator accepts are a registry of results:     *)
(* each appears whole, in one step, by the run whose bundle lies beside    *)
(* it, at most once per run, and gives way only by being withdrawn.        *)
(***************************************************************************)
THEOREM StoreImplementsRegistry == Spec => ImplementsRegistry
<1>1. RegistryInv /\ [Next]_vars
        => [Registry!Next]_<<Entries, StageOf, PathMap, SoundRuns>>
  <2> SUFFICES ASSUME RegistryInv, [Next]_vars
               PROVE  [Registry!Next]_<<Entries, StageOf, PathMap, SoundRuns>>
    OBVIOUS
  <2>1. CASE UNCHANGED vars
    BY <2>1 DEF vars, Entries, StageOf, PathMap, SoundRuns, Accepted, Stage, PathOf, ResultId,
       Valid, Validates, LayoutAgrees, BundleMatches, Whole, BundleOf, Paths, Ids, DefaultResultId
  <2>2. CASE Next
    BY <2>2, RegistryStep DEF Next
  <2>3. QED  BY <2>1, <2>2
<1>2. QED
  BY <1>1, RegistryInit, InitRegistry, NextRegistry, PTL DEF Spec, ImplementsRegistry, Registry!Spec
============================================================================
