--------------------------- MODULE PriceBarWriter ---------------------------
(***************************************************************************)
(* What PriceBarWriter.UpsertAsync and an Entity Framework context do to   *)
(* one row of price_bars.                                                  *)
(*                                                                         *)
(* A row is abstracted to its finality flag and a version of its market    *)
(* data (open, high, low, close, volumes, counts), which the writer copies *)
(* as a group.  The context keeps, for every row it has loaded or written, *)
(* the values it last saw (orig) beside the values the program now wants   *)
(* (cur), and SaveChanges writes only the columns that differ between the  *)
(* two: no concurrency token guards the row.                               *)
(***************************************************************************)
CONSTANTS
  Versions,   \* versions of a candle's market data
  None        \* no row (in the table, in the context, in a response)

Row == [final : BOOLEAN, ver : Versions]
MaybeRow == Row \cup {None}

\* Mutants of the guard: dropped; blind to the candidate's own finality.
GuardDropped(candidate, entity) == FALSE
GuardIgnoresCandidate(candidate, entity) == entity # None /\ entity.final

(***************************************************************************)
(* The guard of the update branch: a candle still open never replaces an   *)
(* entity the context believes final.                                      *)
(***************************************************************************)
Skipped(candidate, entity) ==
  entity # None /\ entity.final /\ ~candidate.final

\* The entity after the loop body, with None for a bar the batch lacks.
Applied(candidate, entity) ==
  IF candidate = None THEN entity
  ELSE IF Skipped(candidate, entity) THEN entity
  ELSE candidate

(***************************************************************************)
(* A query that tracks its results: a row the context already tracks keeps *)
(* the values the context has (identity resolution), only a row new to it  *)
(* is read from the table.                                                 *)
(***************************************************************************)
Tracked(entity, stored) == IF entity = None THEN stored ELSE entity

\* An INSERT of a key another transaction has inserted since the query.
InsertConflict(orig, cur, stored) ==
  orig = None /\ cur # None /\ stored # None

\* One column of an UPDATE: written only when the context changed it.
Column(before, after, stored) == IF after # before THEN after ELSE stored

\* Mutant: SaveChanges writes every column of a tracked entity.
WrittenWhole(orig, cur, stored) == IF cur = None THEN stored ELSE cur

\* The row after SaveChanges.
Written(orig, cur, stored) ==
  IF cur = None THEN stored
  ELSE IF orig = None THEN cur
  ELSE [final |-> Column(orig.final, cur.final, stored.final),
        ver   |-> Column(orig.ver, cur.ver, stored.ver)]
=============================================================================
