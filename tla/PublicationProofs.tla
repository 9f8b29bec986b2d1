------------------------- MODULE PublicationProofs -------------------------
(***************************************************************************)
(* The sweep over the tree, for any number of runs, directories, ids and   *)
(* bundle components.                                                      *)
(***************************************************************************)
EXTENDS Publication, ResultStoreProofs

\* What stands at a path is the work of the run that last began to write
\* there, and a path where none did is empty.
Wrote == Writing \cup {"done", "rejected", "raised", "crashed"}

Traces ==
  \A p \in Paths :
    /\ last[p] = NoFile => rows[p] = NoFile /\ bundles[p] = NoDir
    /\ last[p] # NoFile => PathOf(last[p]) = p /\ pc[last[p]] \in Wrote

SweepInv == ExclusiveInv /\ UniqueInv /\ Traces

LEMMA InitTraces == Init => Traces
BY DEF Init, Traces

\* A run that begins or goes on to write has begun before it goes on.
LEMMA ProgressEffect ==
  ASSUME Typed, NEW e \in Runs, Step(e) \/ Fail(e)
  PROVE  /\ \A f \in Runs : f # e => pc'[f] = pc[f]
         /\ pc[e] \in {"idle"} \cup InFlight
         /\ pc[e] \in Writing => pc'[e] \in Wrote /\ last' = last
         /\ \/ UNCHANGED <<rows, bundles, last>>
            \/ pc[e] \in Writing
            \/ /\ pc[e] = "mkdir" /\ pc'[e] = "parts" /\ rows' = rows
               /\ last' = [last EXCEPT ![PathOf(e)] = e]
BY DEF Step, Fail, BuildResult, ListRows, ReadRow, FinishCheck, MakeArtifactDir,
   WritePart, WritePartFails, WriteRow, ValidateFile, UnlinkRow, RemoveBundle,
   Crash, CrashWritingPart, CrashWritingRow, CrashRemovingBundle, Goto,
   Typed, TypeOK, InFlight, Writing, Wrote

LEMMA ElsewhereUnchanged ==
  ASSUME Typed, NEW e \in Runs, Step(e) \/ Fail(e), NEW r \in Paths, r # PathOf(e)
  PROVE  rows'[r] = rows[r] /\ bundles'[r] = bundles[r] /\ last'[r] = last[r]
BY DEF Step, Fail, BuildResult, ListRows, ReadRow, FinishCheck, MakeArtifactDir,
   WritePart, WritePartFails, WriteRow, ValidateFile, UnlinkRow, RemoveBundle,
   Crash, CrashWritingPart, CrashWritingRow, CrashRemovingBundle, Goto, Typed, TypeOK

LEMMA TracesKept ==
  ASSUME ExclusiveInv, Traces, NEW e \in Runs, Step(e) \/ Fail(e)
  PROVE  Traces'
<1> DEFINE p == PathOf(e)
<1>1. /\ job' = job /\ Paths' = Paths
      /\ \A f \in Runs : PathOf(f)' = PathOf(f)
  BY StepFixesJob, JobFixed
<1>2. /\ Typed /\ last \in [Paths -> Runs \cup {NoFile}]
      /\ pc[e] \in Writing => p \in Paths /\ last[p] = e
      /\ pc[e] = "mkdir" => p \in Paths
  BY InFlightPath DEF ExclusiveInv, Ownership, WritesInOrder, Typed, TypeOK, InFlight
<1>3. SUFFICES ASSUME NEW r \in Paths
               PROVE  /\ last'[r] = NoFile => rows'[r] = NoFile /\ bundles'[r] = NoDir
                      /\ last'[r] # NoFile => PathOf(last'[r]) = r /\ pc'[last'[r]] \in Wrote
  BY <1>1 DEF Traces, PathOf, ResultId
<1>4. /\ last[r] = NoFile => rows[r] = NoFile /\ bundles[r] = NoDir
      /\ last[r] # NoFile => PathOf(last[r]) = r /\ pc[last[r]] \in Wrote /\ last[r] \in Runs
  BY <1>2 DEF Traces
<1>5. CASE r # p
  <2>1. rows'[r] = rows[r] /\ bundles'[r] = bundles[r] /\ last'[r] = last[r]
    BY <1>2, <1>5, ElsewhereUnchanged
  <2>2. last[r] # NoFile => pc'[last[r]] = pc[last[r]]
    BY <1>2, <1>4, <1>5, ProgressEffect
  <2>3. QED  BY <1>4, <2>1, <2>2
<1>6. CASE r = p /\ pc[e] \in Writing
  BY <1>2, <1>6, ProgressEffect, SentinelAssumption
<1>7. CASE r = p /\ pc[e] = "mkdir" /\ last' = [last EXCEPT ![p] = e] /\ pc'[e] = "parts"
  BY <1>2, <1>7, SentinelAssumption DEF Wrote, Writing
<1>8. CASE r = p /\ pc[e] \notin Writing /\ UNCHANGED <<rows, bundles, last>>
  <2>1. pc[e] \in {"idle"} \cup InFlight
    BY <1>2, ProgressEffect
  <2>2. pc[e] \notin Wrote
    BY <1>8, <2>1 DEF InFlight, Wrote, Writing
  <2>3. last[r] # NoFile => pc'[last[r]] = pc[last[r]]
    BY <1>2, <1>4, <2>2, ProgressEffect
  <2>4. QED  BY <1>4, <1>8, <2>3
<1>9. QED
  BY <1>2, <1>5, <1>6, <1>7, <1>8, ProgressEffect

LEMMA SweepInvariant == IdExclusiveSpec => []SweepInv
<1>1. Init => SweepInv
  BY InitExclusive, InitUnique, InitTraces DEF SweepInv
<1>2. SweepInv /\ [Next /\ IdExclusive']_vars => SweepInv'
  <2> SUFFICES ASSUME SweepInv, [Next /\ IdExclusive']_vars PROVE SweepInv'
    OBVIOUS
  <2>1. IdExclusive => PathExclusive
    BY DEF IdExclusive, PathExclusive, PathOf
  <2>2. IdExclusive' => PathExclusive'
    BY DEF IdExclusive, PathExclusive, PathOf
  <2>3. [Next /\ PathExclusive']_vars
    BY <2>2
  <2>4. ExclusiveInv' /\ UniqueInv'
    BY <2>3, NextExclusive, NextUnique DEF SweepInv
  <2>5. Traces'
    <3>1. CASE UNCHANGED vars
      BY <3>1, JobFixed DEF vars, SweepInv, Traces, PathOf, ResultId
    <3>2. CASE Next
      BY <3>2, TracesKept DEF Next, SweepInv
    <3>3. QED  BY <3>1, <3>2
  <2>6. QED  BY <2>4, <2>5 DEF SweepInv
<1>3. QED  BY <1>1, <1>2, PTL DEF IdExclusiveSpec

(***************************************************************************)
(* When no two emissions in flight have one result_id and none was killed, *)
(* the sweep of validate_results.py finds no stray, invalid or duplicate   *)
(* row once every emission is over.                                        *)
(***************************************************************************)
THEOREM SweepAgreesWithEmission == IdExclusiveSpec => []CompletedRunsSweepClean
<1>1. SweepInv => CompletedRunsSweepClean
  <2> SUFFICES ASSUME SweepInv,
                      \A e \in Runs : pc[e] \in {"idle", "done", "refused", "unreadable", "rejected"}
               PROVE  ~SweepFails
    BY DEF CompletedRunsSweepClean
  <2>1. ASSUME NEW p \in Paths
        PROVE  \/ rows[p] = NoFile /\ bundles[p] = NoDir
               \/ Validates(p)
    <3>1. last[p] \in Runs \cup {NoFile}
      BY DEF SweepInv, UniqueInv, Typed, TypeOK
    <3>2. CASE last[p] = NoFile
      BY <3>2 DEF SweepInv, Traces
    <3>3. ASSUME NEW e \in Runs, last[p] = e
          PROVE  \/ rows[p] = NoFile /\ bundles[p] = NoDir
                 \/ Validates(p)
      <4>1. PathOf(e) = p /\ pc[e] \in {"done", "rejected"}
        BY <3>3, SentinelAssumption DEF SweepInv, Traces, Wrote, Writing
      <4>2. CASE pc[e] = "rejected"
        BY <3>3, <4>1, <4>2 DEF SweepInv, ExclusiveInv, Ownership, Outcome
      <4>3. CASE pc[e] = "done"
        <5>1. Valid(e) /\ rows[p] = e /\ bundles[p] = BundleOf(e)
          BY <3>3, <4>1, <4>3 DEF SweepInv, ExclusiveInv, Ownership, Outcome
        <5>2. QED
          BY <4>1, <5>1 DEF Validates, Whole, LayoutAgrees, BundleMatches
      <4>4. QED  BY <4>1, <4>2, <4>3
    <3>4. QED  BY <3>1, <3>2, <3>3
  <2>2. \A p \in RowFiles : Validates(p)
    BY <2>1 DEF RowFiles
  <2>3. Strays = {}
    <3>1. ASSUME NEW p \in Paths, HoldsJson(p) PROVE p \in RowFiles
      BY <2>1, <3>1, SentinelAssumption DEF HoldsJson, RowFiles, Validates, Whole
    <3>2. QED  BY <3>1 DEF Strays
  <2>4. \A p \in Paths : ~Duplicated(p)
    BY DEF SweepInv, UniqueInv, UniqueResultIds, Duplicated
  <2>5. QED  BY <2>2, <2>3, <2>4 DEF SweepFails, RowFiles
<1>2. QED  BY <1>1, SweepInvariant, PTL
============================================================================
