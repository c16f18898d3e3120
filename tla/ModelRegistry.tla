---------------------------- MODULE ModelRegistry ----------------------------
(***************************************************************************)
(* ModelPromotionJob: the hourly scan of the model directory into table    *)
(* model_versions.  A run registers the bundles it finds, oldest manifest  *)
(* first, hands the production flag over inside an asset class and         *)
(* horizon, and then chooses one shadow candidate among the models that    *)
(* are not in production.                                                  *)
(*                                                                         *)
(* Two kinds of write interleave in a run: ExecuteUpdate changes the table *)
(* at once and leaves the tracked entities as they were; everything else   *)
(* waits in the context for SaveChanges.  Bundles appear on disk while the *)
(* job reads.  Models are numbered in the order of their manifests' write  *)
(* times, which is also their TrainedAt.                                   *)
(***************************************************************************)
EXTENDS Integers

CONSTANTS
  N,         \* bound: how many model versions are ever published
  GroupOf,   \* asset class and horizon of each model
  Eligible,  \* models whose manifest says productionEligible
  Loadable,  \* models whose ONNX files can be loaded
  None,      \* no row
  MaxFaults  \* bound: errors, cancellations and crashes, together

Models == 1..N

ASSUME RegistryBounds ==
  /\ N \in Nat \ {0} /\ MaxFaults \in Nat
  /\ GroupOf \in [Models -> {GroupOf[m] : m \in Models}]
  /\ Eligible \subseteq Models /\ Loadable \subseteq Models

Row == [production : BOOLEAN, shadow : BOOLEAN]
MaybeRow == Row \cup {None}

ASSUME NoneIsNoVersion == None \notin Row

VARIABLES
  disk,      \* each bundle's directory: "absent", "torn" or "bundle"
  db,        \* table model_versions
  pc,        \* the run: "idle", "scan" or "normalise"
  todo,      \* manifests of the run's scan, not processed yet
  orig, cur, \* the run's context: rows as last seen, rows as wanted
  last,      \* outcome of the latest run
  faults     \* faults so far (bounded by MaxFaults)

context == <<orig, cur>>
vars == <<disk, db, pc, todo, context, last, faults>>

Blank == [m \in Models |-> None]

Init ==
  /\ disk = [m \in Models |-> "absent"] /\ db = Blank
  /\ pc = "idle" /\ todo = {} /\ orig = Blank /\ cur = Blank
  /\ last = "none" /\ faults = 0

-----------------------------------------------------------------------------
(* The model directory. *)

(***************************************************************************)
(* The training pipeline exports every ONNX file before it writes the      *)
(* manifest.  The smoke load that follows raises without touching the      *)
(* directory, so a bundle that cannot be loaded stays there.               *)
(***************************************************************************)
Publish(m) ==
  /\ disk[m] = "absent" /\ disk' = [disk EXCEPT ![m] = "bundle"]
  /\ UNCHANGED <<db, pc, todo, context, last, faults>>

\* A deployment copies files in any order: the manifest, then the rest.
CopyManifest(m) ==
  /\ disk[m] = "absent" /\ disk' = [disk EXCEPT ![m] = "torn"]
  /\ UNCHANGED <<db, pc, todo, context, last, faults>>

CopyRest(m) ==
  /\ disk[m] = "torn" /\ disk' = [disk EXCEPT ![m] = "bundle"]
  /\ UNCHANGED <<db, pc, todo, context, last, faults>>

-----------------------------------------------------------------------------
(* The job. *)

\* EnumerateFiles and OrderBy: the scan is fixed when the loop starts.
Start ==
  /\ pc = "idle" /\ pc' = "scan"
  /\ todo' = {m \in Models : disk[m] # "absent"}
  /\ UNCHANGED <<disk, db, context, last, faults>>

Unregistered == [production |-> FALSE, shadow |-> FALSE]
Existing(m) == IF db[m] = None THEN Unregistered ELSE db[m]

\* Mutant: the newest manifest first.
NewestFirst(m) == m \in todo /\ \A k \in todo : k <= m

\* The manifest to process next.
NextInScan(m) == m \in todo /\ \A k \in todo : m <= k

ChecksumMatches(m) == disk[m] = "bundle"

\* Mutant: productionEligible is not consulted.
AnyModelPromotes(m) == ~Existing(m).production

Promotable(m) == m \in Eligible /\ ~Existing(m).production

\* Registered, or found again; no change of hands.
Register(m) ==
  /\ pc = "scan" /\ NextInScan(m) /\ ChecksumMatches(m) /\ ~Promotable(m)
  /\ todo' = todo \ {m}
  /\ orig' = [orig EXCEPT ![m] = db[m]]
  /\ cur' = [cur EXCEPT ![m] = Existing(m)]
  /\ UNCHANGED <<disk, db, pc, last, faults>>

\* Mutant: the demotion without its asset class and horizon.
DemotedAnywhere(k, m) == db[k] # None /\ db[k].production

\* ExecuteUpdate demotes in the table; the promotion waits in the context.
Demoted(k, m) == db[k] # None /\ GroupOf[k] = GroupOf[m] /\ db[k].production

Promote(m) ==
  /\ pc = "scan" /\ NextInScan(m) /\ ChecksumMatches(m) /\ Promotable(m)
  /\ todo' = todo \ {m}
  /\ db' = [k \in Models |->
              IF Demoted(k, m) THEN [production |-> FALSE, shadow |-> db[k].shadow]
                               ELSE db[k]]
  /\ orig' = [orig EXCEPT ![m] = db[m]]
  /\ cur' = [cur EXCEPT ![m] = [production |-> TRUE, shadow |-> FALSE]]
  /\ UNCHANGED <<disk, pc, last, faults>>

\* Mutant: the list of manifests outlives the run.
EndRunKeepsScan(outcome) ==
  /\ pc' = "idle" /\ UNCHANGED todo /\ orig' = Blank /\ cur' = Blank /\ last' = outcome

EndRun(outcome) ==
  /\ pc' = "idle" /\ todo' = {} /\ orig' = Blank /\ cur' = Blank /\ last' = outcome

\* The checksum of a bundle still being copied: the exception ends the run.
Mismatch(m) ==
  /\ pc = "scan" /\ NextInScan(m) /\ ~ChecksumMatches(m)
  /\ EndRun("failed")
  /\ UNCHANGED <<disk, db, faults>>

\* Mutant: a context that does not track the rows it has read.
SavedUntracked(k) == IF cur[k] # None /\ orig[k] = None THEN cur[k] ELSE db[k]

\* One row after SaveChanges: inserted, or the columns the context changed.
Changed(before, after, stored) == IF after # before THEN after ELSE stored
Saved(k) ==
  IF cur[k] = None THEN db[k]
  ELSE IF orig[k] = None THEN cur[k]
  ELSE [production |-> Changed(orig[k].production, cur[k].production, db[k].production),
        shadow     |-> Changed(orig[k].shadow, cur[k].shadow, db[k].shadow)]

Commit ==
  /\ pc = "scan" /\ todo = {} /\ pc' = "normalise"
  /\ db' = [k \in Models |-> Saved(k)] /\ orig' = cur
  /\ UNCHANGED <<disk, todo, cur, last, faults>>

(***************************************************************************)
(* The rows out of production according to the table, each with the values *)
(* of its tracked entity where there is one, and the newest of a group.    *)
(***************************************************************************)
Shadows == {k \in Models : db[k] # None /\ ~db[k].production}
TrackedShadow(k) == IF cur[k] = None THEN db[k].shadow ELSE cur[k].shadow

\* Mutants: the oldest model wins; a winner does not unseat the previous one.
OldestWins(k) == \A j \in Shadows : GroupOf[j] = GroupOf[k] => k <= j
WinnerIsAdded(k) ==
  TrackedShadow(k) \/ \A j \in Shadows : GroupOf[j] = GroupOf[k] => j <= k

Winner(k) == \A j \in Shadows : GroupOf[j] = GroupOf[k] => j <= k

Normalise ==
  /\ pc = "normalise"
  /\ db' = [k \in Models |->
              IF k \in Shadows
                THEN [production |-> FALSE,
                      shadow |-> Changed(TrackedShadow(k), Winner(k), db[k].shadow)]
                ELSE db[k]]
  /\ EndRun("succeeded")
  /\ UNCHANGED <<disk, faults>>

\* An error, a cancellation or a crash: the context is gone, the table stays.
Fail ==
  /\ pc # "idle" /\ faults < MaxFaults /\ faults' = faults + 1
  /\ EndRun("failed")
  /\ UNCHANGED <<disk, db>>
-----------------------------------------------------------------------------
Process(m) == Register(m) \/ Promote(m) \/ Mismatch(m)
JobStep == Start \/ Commit \/ Normalise \/ \E m \in Models : Process(m)
DiskStep == \E m \in Models : Publish(m) \/ CopyManifest(m) \/ CopyRest(m)
Next == JobStep \/ DiskStep \/ Fail

Spec == Init /\ [][Next]_vars

(***************************************************************************)
(* Quartz fires the job every hour and a copy that has begun is finished.  *)
(***************************************************************************)
FairSpec == Spec /\ WF_vars(JobStep) /\ \A m \in Models : WF_vars(CopyRest(m))
-----------------------------------------------------------------------------
TypeOK ==
  /\ disk \in [Models -> {"absent", "torn", "bundle"}]
  /\ db \in [Models -> MaybeRow] /\ orig \in [Models -> MaybeRow] /\ cur \in [Models -> MaybeRow]
  /\ pc \in {"idle", "scan", "normalise"} /\ todo \subseteq Models
  /\ todo # {} => pc = "scan"
  /\ last \in {"none", "succeeded", "failed"} /\ faults \in 0..MaxFaults

Serves(m) == db[m] # None /\ db[m].production
IsCandidate(m) == db[m] # None /\ db[m].shadow

(***************************************************************************)
(* DailyPredictionJob takes every production model and every shadow        *)
(* candidate it finds, whenever it looks.  In every state, between the two *)
(* saves of a run and after a run that died included, a group has at most  *)
(* one candidate, and a model in production is none.                       *)
(***************************************************************************)
OneCandidate ==
  /\ \A m \in Models : IsCandidate(m) => ~Serves(m)
  /\ \A m, k \in Models : IsCandidate(m) /\ IsCandidate(k) /\ GroupOf[m] = GroupOf[k] => m = k

(***************************************************************************)
(* Each step of the job, seen through the flags of the table alone, is a   *)
(* step the readers of model_versions rely on: the two kinds of write, the *)
(* entities that have grown stale and a run that dies add nothing to it.   *)
(***************************************************************************)
StageOf(m) ==
  IF Serves(m) THEN "production" ELSE IF IsCandidate(m) THEN "candidate" ELSE "none"
Serving == INSTANCE ServingFlags WITH flags <- [m \in Models |-> StageOf(m)]
ImplementsServing == Serving!FlagsSpec

(***************************************************************************)
(* "The newest newly discovered shadow bundle wins deterministically": a   *)
(* run that ends normally leaves the newest model out of production as the *)
(* candidate of its group, whatever order the bundles arrived in.          *)
(***************************************************************************)
NewestIsCandidate ==
  pc = "idle" /\ last = "succeeded" =>
    \A m \in Shadows : (\A k \in Shadows : GroupOf[k] = GroupOf[m] => k <= m) => IsCandidate(m)

(***************************************************************************)
(* After a run that ends normally the newest eligible model of a group is  *)
(* in production, although a run also promotes the older ones again.       *)
(***************************************************************************)
NewestEligibleServes ==
  pc = "idle" /\ last = "succeeded" =>
    \A m \in Eligible :
      db[m] # None /\ (\A k \in Eligible : db[k] # None /\ GroupOf[k] = GroupOf[m] => k <= m)
        => Serves(m)

(***************************************************************************)
(* A demotion is committed before the promotion that justifies it.  A run  *)
(* that dies in between leaves a group without a production model, but not *)
(* for good: once an eligible bundle is there, the group gets a production *)
(* model and in the end keeps one.                                         *)
(***************************************************************************)
GroupIsServed ==
  \A m \in Eligible :
    disk[m] = "bundle" ~> [](\E k \in Models : GroupOf[k] = GroupOf[m] /\ Serves(k))

(***************************************************************************)
(* The production gates of docs/model-governance.md that the job sees: the *)
(* manifest allows production and the checksum has been verified.          *)
(***************************************************************************)
GatesRespected == \A m \in Models : Serves(m) => m \in Eligible /\ ChecksumMatches(m)

(***************************************************************************)
(* The gate "ONNX files can be loaded": no model in production fails to.   *)
(***************************************************************************)
ProductionModelsLoad == \A m \in Models : Serves(m) => m \in Loadable
-----------------------------------------------------------------------------
(***************************************************************************)
(* The inductive strengthening: what the context knows of the shadow flags *)
(* is what the table holds, although it may be wrong about production.     *)
(***************************************************************************)
\* A row read into the context, before the first save.
ScannedInv(m) ==
  /\ orig[m] = None => cur[m] = None \/ (db[m] = None /\ ~cur[m].shadow)
  /\ orig[m] # None =>
       /\ cur[m] # None /\ db[m] # None /\ orig[m].shadow = db[m].shadow
       /\ cur[m].production # orig[m].production => cur[m].production /\ ~cur[m].shadow
       /\ cur[m].shadow # orig[m].shadow =>
            ~cur[m].shadow /\ cur[m].production /\ ~orig[m].production
  /\ cur[m] # None /\ cur[m].production => ~cur[m].shadow

\* After it: the context and the table agree on the candidates.
SavedInv(m) == cur[m] # None => db[m] # None /\ cur[m].shadow = db[m].shadow

ContextInv ==
  /\ pc = "idle" => orig = Blank /\ cur = Blank
  /\ pc = "scan" => \A m \in Models : ScannedInv(m)
  /\ pc = "normalise" => \A m \in Models : SavedInv(m)

IInv == TypeOK /\ OneCandidate /\ ContextInv
=============================================================================
