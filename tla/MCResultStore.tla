--------------------------- MODULE MCResultStore ---------------------------
(* Instances of ResultStore and Publication for TLC: the values a .cfg cannot write. *)
EXTENDS Publication, TLC

LOCAL INSTANCE SequencesExt

MCParts == <<"hypotheses", "config">>

RunSymmetry == Permutations(Runs)

(***************************************************************************)
(* Liveness is checked without SYMMETRY, so it starts from chosen jobs.    *)
(* Runs are alike and a run's job never changes: one assignment of jobs    *)
(* stands for its permutations, and one directory for the other.  Either   *)
(* all runs work on one path, or the last is a good run on another one     *)
(* that reads what the others leave.  Jobs with unregistered slugs, which  *)
(* end in the first step, are left to the other runs of TLC.               *)
(***************************************************************************)
RunOrder    == SetToSeq(Runs)
ConfigOrder == SetToSeq(Configs)
FirstDir    == CHOOSE d \in Dirs : TRUE

Place(config) == CHOOSE i \in DOMAIN ConfigOrder : ConfigOrder[i] = config

Alike(e, f) ==
  /\ job[e].dir = FirstDir /\ job[f].dir = FirstDir
  /\ Place(job[e].config) <= Place(job[f].config)

ChosenInit ==
  LET n == Len(RunOrder)  other == RunOrder[n] IN
  /\ Init
  /\ \A i \in 1 .. n - 2 : Alike(RunOrder[i], RunOrder[i + 1])
  /\ ~Alike(RunOrder[n - 1], other) =>
       job[other].dir \in Dirs \ {FirstDir} /\ Valid(other)

ChosenFairSpec == ChosenInit /\ [][Next]_vars /\ \A e \in Runs : WF_vars(Step(e))
============================================================================
