---------------------------- MODULE Publication ----------------------------
(***************************************************************************)
(* main of scripts/validate_results.py, the sweep over the whole tree that *)
(* stands between the emissions and the leaderboard.  It reads what the    *)
(* runs of ResultStore leave behind; rows and files that people commit by  *)
(* hand are not modelled, nor is a sweep that runs beside an emission.     *)
(***************************************************************************)
EXTENDS ResultStore

CONSTANT
  JsonParts   \* the components that are .json files, not .jsonl

ASSUME JsonAssumption == JsonParts \subseteq PartNames

\* Unreadable rows have no id here; validate_file reports them.
Duplicated(p) ==
  \E q \in Paths \ {p} : Whole(p) /\ Whole(q) /\ ResultId(rows[p]) = ResultId(rows[q])

HoldsJson(p) == bundles[p] # NoDir /\ \E n \in JsonParts : bundles[p][n] # NoFile

\* Mutant: the row beside a bundle is looked up under a name without its dots.
StraysByMangledName == {p \in Paths : HoldsJson(p)}

\* A component that is .json is a stray unless a row file lies beside it.
Strays == {p \in Paths : HoldsJson(p)} \ RowFiles

SweepFails == Strays # {} \/ \E p \in RowFiles : ~Validates(p) \/ Duplicated(p)

(***************************************************************************)
(* The gate agrees with the emitter: as long as no two runs of one id are  *)
(* in flight together and none is killed, whatever was emitted, replaced,  *)
(* refused or rejected, in whatever order, the sweep over the tree finds   *)
(* nothing to complain about.                                              *)
(***************************************************************************)
CompletedRunsSweepClean ==
  (\A e \in Runs : pc[e] \in {"idle", "done", "refused", "unreadable", "rejected"}) => ~SweepFails
============================================================================
