--------------------------- MODULE ResultRegistry ---------------------------
(***************************************************************************)
(* What the results tree promises to whoever validates it: at each path    *)
(* there is at most one result, it appears in one step, whole, put there   *)
(* by a sound run that has not published before, and it is never turned    *)
(* into the result of another run without having been withdrawn first.     *)
(* Only a run that is still going on at the path withdraws it.             *)
(***************************************************************************)
CONSTANTS Runs, Paths, None

VARIABLES
  entry,  \* the result that stands at each path
  stage,  \* whether a run may still publish, may only withdraw, or is over
  path,   \* where a run publishes
  sound   \* the runs whose row meets the rules

Stages == {"open", "spent", "closed"}

Init ==
  /\ entry = [p \in Paths |-> None]
  /\ stage = [e \in Runs |-> "open"]

Publish(e) ==
  /\ stage[e] = "open"
  /\ e \in sound
  /\ path[e] \in Paths
  /\ entry[path[e]] = None
  /\ entry' = [entry EXCEPT ![path[e]] = e]
  /\ stage' = [stage EXCEPT ![e] = "spent"]
  /\ UNCHANGED <<path, sound>>

Withdrawn(e) == [entry EXCEPT ![path[e]] = None]

Withdraw(e) ==
  /\ stage[e] # "closed"
  /\ entry' = Withdrawn(e)
  /\ UNCHANGED <<stage, path, sound>>

Advance(e) ==
  /\ \/ stage[e] = "open"  /\ stage' = [stage EXCEPT ![e] = "spent"]
     \/ stage[e] # "closed" /\ stage' = [stage EXCEPT ![e] = "closed"]
  /\ entry' \in {entry, Withdrawn(e)}
  /\ UNCHANGED <<path, sound>>

Next == \E e \in Runs : Publish(e) \/ Withdraw(e) \/ Advance(e)

Spec == Init /\ [][Next]_<<entry, stage, path, sound>>
============================================================================
