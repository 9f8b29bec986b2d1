---------------------------- MODULE RetrievalDiff ----------------------------
(***************************************************************************)
(* runners/retrieval_diff.py: how two retrieval logs are compared.  A log  *)
(* maps question ids to the keys of what was retrieved, best first.        *)
(***************************************************************************)
EXTENDS Naturals, Sequences, FiniteSets

CONSTANTS
  GreenPercent,   \* _GREEN_MATERIAL_FRACTION, 10 in the code
  YellowPercent   \* _YELLOW_CHANGED_FRACTION, 15 in the code

ASSUME PercentAssumption == GreenPercent \in 0..100 /\ YellowPercent \in 0..100

ItemsOf(ranked) == {ranked[i] : i \in DOMAIN ranked}

Differing(s, t) == (s \ t) \cup (t \ s)

Body(ranked) == SubSeq(ranked, 1, Len(ranked) - 1)

(* One item out and one in at the last rank, under a body of the same ids. *)
AtBoundary(candidate, baseline) ==
  /\ Len(candidate) = Len(baseline) /\ Len(candidate) >= 2
  /\ Cardinality(Differing(ItemsOf(candidate), ItemsOf(baseline))) <= 2
  /\ ItemsOf(Body(candidate)) = ItemsOf(Body(baseline))

Classify(candidate, baseline) ==
  IF candidate = baseline THEN "identical"
  ELSE IF ItemsOf(candidate) = ItemsOf(baseline) THEN "reordered"
  ELSE IF AtBoundary(candidate, baseline) THEN "boundary"
  ELSE "changed"

\* Mutant: a question that the candidate has not answered is passed over.
OnlyInCandidate(candidate, baseline) == DOMAIN candidate \ DOMAIN baseline

(* Questions that are in one log only. *)
Missing(candidate, baseline) == Differing(DOMAIN candidate, DOMAIN baseline)

Classified(class, candidate, baseline) ==
  {id \in DOMAIN candidate \cap DOMAIN baseline : Classify(candidate[id], baseline[id]) = class}

(* Fractions are of the union, so that disjoint logs never look mild. *)
AtMost(percent, questions, candidate, baseline) ==
  100 * Cardinality(questions)
    <= percent * Cardinality(DOMAIN candidate \cup DOMAIN baseline)

Verdict(candidate, baseline) ==
  LET changed == Classified("changed", candidate, baseline)
      boundary == Classified("boundary", candidate, baseline)
  IN  IF Missing(candidate, baseline) # {} THEN "RED"
      ELSE IF changed = {} /\ AtMost(GreenPercent, boundary, candidate, baseline) THEN "GREEN"
      ELSE IF AtMost(YellowPercent, changed, candidate, baseline) THEN "YELLOW"
      ELSE "RED"
=============================================================================
