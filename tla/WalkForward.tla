----------------------------- MODULE WalkForward -----------------------------
(***************************************************************************)
(* The purged walk-forward folds every training run and study is judged    *)
(* on, and the narrower periods some of them cut out of a fold.            *)
(***************************************************************************)
EXTENDS TrainingDataset, Sequences

CONSTANTS
  YearLength, Embargo, \* days of a year, and between a label and the next period
  RecentYears,         \* look-back of the recency variants
  MinFit, MinSelection \* rows the inner split of a training period needs (500, 100)

ASSUME FoldConstants ==
  /\ YearLength \in Nat \ {0} /\ Embargo \in Nat /\ RecentYears \in Nat
  /\ MinFit \in Nat \ {0} /\ MinSelection \in Nat \ {0}

Latest(days) == CHOOSE d \in days : \A e \in days : d >= e

YearStart(year) == year * YearLength
YearOf(at) == at \div YearLength

\* Mutant: a label ends its horizon after the snapshot, as if no day were missing.
EndsOnSchedule(row) == row.at + row.horizon

LabelEnd(row) == row.end

\* The purge: no label ends inside the embargo before `start`.
Purged(row, start) == LabelEnd(row) < start - Embargo

Fold(rows, year) ==
  [train |-> {r \in rows : Purged(r, YearStart(year - 1))},
   validation |-> {r \in rows : r.at >= YearStart(year - 1) /\ Purged(r, YearStart(year))},
   test |-> {r \in rows : r.at >= YearStart(year) /\ r.at < YearStart(year + 1)}]

Complete(fold) == fold.train # {} /\ fold.validation # {} /\ fold.test # {}

\* purged_walk_forward_splits: incomplete folds are left out without a word.
Kept(rows, year) == IF Complete(Fold(rows, year)) THEN <<year>> ELSE <<>>

\* The test years in order: 2023 to 2025, and 2026 where it is asked for as a
\* locked check.  Year 0 is 2020.
FoldYears(rows, locked) ==
  Kept(rows, 3) \o Kept(rows, 4) \o Kept(rows, 5) \o (IF locked THEN Kept(rows, 6) ELSE <<>>)

-----------------------------------------------------------------------------
\* recent_training_index
Recent(train) ==
  LET cutoff == Latest({r.at : r \in train}) - RecentYears * YearLength
  IN  {r \in train : r.at >= cutoff}

\* The final training year is held out of the candidates' fit.
InnerYear(train) == YearStart(YearOf(Latest({r.at : r \in train})))
InnerFit(train) == {r \in train : Purged(r, InnerYear(train))}
InnerSelection(train) == {r \in train : r.at >= InnerYear(train)}
InnerYearUsable(train) ==
  Cardinality(InnerFit(train)) >= MinFit /\ Cardinality(InnerSelection(train)) >= MinSelection

\* The last third of the validation dates chooses between calibrators that
\* were fitted on what ended before it.
Dates(rows) == {r.at : r \in rows}
SelectionStart(validation) ==
  LET dates == Dates(validation)
      Rank(d) == Cardinality({e \in dates : e < d})
  IN  CHOOSE d \in dates : Rank(d) = (Cardinality(dates) * 67) \div 100
CalibrationFit(validation) == {r \in validation : Purged(r, SelectionStart(validation))}
CalibrationSelection(validation) == {r \in validation : r.at >= SelectionStart(validation)}
CalibrationUsable(validation) ==
  /\ Cardinality(Dates(validation)) >= 4
  /\ CalibrationFit(validation) # {} /\ CalibrationSelection(validation) # {}

-----------------------------------------------------------------------------
PartNames == {"train", "recent", "innerFit", "innerSelection", "validation",
              "calibrationFit", "calibrationSelection", "both", "test", "all"}

\* The rows of a period of a fold.
PartOf(rows, year, part) ==
  LET fold == Fold(rows, year)
  IN  CASE part = "train" -> fold.train
        [] part = "recent" -> Recent(fold.train)
        [] part = "innerFit" -> InnerFit(fold.train)
        [] part = "innerSelection" -> InnerSelection(fold.train)
        [] part = "validation" -> fold.validation
        [] part = "calibrationFit" -> CalibrationFit(fold.validation)
        [] part = "calibrationSelection" -> CalibrationSelection(fold.validation)
        [] part = "both" -> fold.train \cup fold.validation
        [] part = "test" -> fold.test
        [] part = "all" -> rows

\* A split that is too small raises.
PartUsable(rows, year, part) ==
  CASE part \in {"innerFit", "innerSelection"} -> InnerYearUsable(Fold(rows, year).train)
    [] part \in {"calibrationFit", "calibrationSelection"} ->
         CalibrationUsable(Fold(rows, year).validation)
    [] OTHER -> TRUE
=============================================================================
