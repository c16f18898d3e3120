-------------------------- MODULE BundlePublication --------------------------
(***************************************************************************)
(* The last part of train_and_evaluate: the final models are fitted on all *)
(* rows and the bundle is written, file by file, in a directory of its own *)
(* that the worker's registry scans.  An older bundle is never written     *)
(* again, so one directory is kept.                                        *)
(***************************************************************************)
EXTENDS Integers, Sequences

VARIABLE bundle  \* the newest artifact directory

\* The ensemble's files count as one.
Exports == {"direction", "p10", "p50", "p90", "risk"}

\* Mutant: the manifest goes out before the risk model.
ManifestBeforeRisk == <<"direction", "p10", "p50", "p90", "sha256", "manifest", "risk", "schema", "metrics">>

\* In the order of the code; the hash is computed, the rest is written.
WriteOrder == <<"direction", "p10", "p50", "p90", "risk", "sha256", "manifest", "schema", "metrics">>

NoBundle == [class |-> "none", eligible |-> FALSE, written |-> 0, torn |-> FALSE, hashed |-> {},
             stage |-> "idle"]

Publishing == bundle.stage = "writing"

BundleInit == bundle = NoBundle

\* The directory, named by the second, is created.  The gate on the scenario
\* outputs alone decides, and only the crypto command allows production.
OpenBundle(class, scenario) ==
  /\ ~Publishing
  /\ bundle' = [NoBundle EXCEPT !.class = class, !.eligible = scenario /\ class = "crypto",
                                  !.stage = "writing"]

Whole == {WriteOrder[i] : i \in 1..bundle.written}
NextFile == WriteOrder[bundle.written + 1]
AllWritten == bundle.written = Len(WriteOrder)

TakeHash ==
  /\ Publishing /\ ~AllWritten /\ NextFile = "sha256"
  /\ bundle' = [bundle EXCEPT !.hashed = Whole \cap Exports, !.written = @ + 1]

BeginFile ==
  /\ Publishing /\ ~AllWritten /\ NextFile # "sha256" /\ ~bundle.torn
  /\ bundle' = [bundle EXCEPT !.torn = TRUE]

EndFile ==
  /\ Publishing /\ bundle.torn
  /\ bundle' = [bundle EXCEPT !.written = @ + 1, !.torn = FALSE]

\* Every ONNX file is loaded; one that does not load raises, and stays.
SmokeLoad(loads) ==
  /\ Publishing /\ AllWritten
  /\ bundle' = [bundle EXCEPT !.stage = IF loads THEN "reported" ELSE "abandoned"]

PublicationKilled == Publishing /\ bundle' = [bundle EXCEPT !.stage = "abandoned"]

BundleStep == TakeHash \/ BeginFile \/ EndFile \/ \E loads \in BOOLEAN : SmokeLoad(loads)

-----------------------------------------------------------------------------
(***************************************************************************)
(* What the registry accepts is a whole bundle: once the manifest can be   *)
(* parsed every model file is complete, and the hash in the manifest       *)
(* covers them all, wherever the training was killed.                      *)
(***************************************************************************)
BundleIsWhole == "manifest" \in Whole => Exports \subseteq Whole /\ bundle.hashed = Exports
=============================================================================
