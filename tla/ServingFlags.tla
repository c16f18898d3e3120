----------------------------- MODULE ServingFlags -----------------------------
(***************************************************************************)
(* What the readers of table model_versions can rely on while the registry *)
(* works.  A model is in production, the shadow candidate of its group, or *)
(* not in use.  Production is taken from a whole group at once, given to   *)
(* any models later, and not to one of a group only; a group never has two *)
(* candidates, and no model in production is one.                          *)
(*                                                                         *)
(* ModelRegistry implements this specification, and DailyPrediction runs   *)
(* beside it.                                                              *)
(***************************************************************************)
CONSTANTS
  Models,
  GroupOf    \* the asset class and horizon of each model

VARIABLE flags

Stages == {"none", "production", "candidate"}

\* Of models of one group, one at most is a candidate.
OneOfEach(models) == \A m, k \in models : GroupOf[m] = GroupOf[k] => m = k

Candidates(f) == {m \in Models : f[m] = "candidate"}
Producing(f) == {m \in Models : f[m] = "production"}

Flags == {f \in [Models -> Stages] : OneOfEach(Candidates(f))}

FlagsInit == flags = [m \in Models |-> "none"]

\* The production models of a group are demoted, at once.
Demote(group) ==
  flags' = [m \in Models |->
              IF GroupOf[m] = group /\ flags[m] = "production" THEN "none" ELSE flags[m]]

\* A run saves what it wants in production; what is there already stays.
Promote(wanted) ==
  flags' = [m \in Models |-> IF m \in wanted THEN "production" ELSE flags[m]]

\* The candidates are chosen anew among the others.
Choose(winners) ==
  /\ winners \cap Producing(flags) = {} /\ OneOfEach(winners)
  /\ flags' = [m \in Models |->
                 IF m \in winners THEN "candidate"
                 ELSE IF flags[m] = "production" THEN "production" ELSE "none"]

FlagsNext ==
  \/ \E m \in Models : Demote(GroupOf[m])
  \/ \E S \in SUBSET Models : Promote(S) \/ Choose(S)

FlagsSpec == FlagsInit /\ [][FlagsNext]_flags
=============================================================================
