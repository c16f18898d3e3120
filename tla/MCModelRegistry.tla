-------------------------- MODULE MCModelRegistry ---------------------------
(* Instances of ModelRegistry for TLC: models, groups and manifests. *)
EXTENDS ModelRegistry
CONSTANTS Crypto30, Crypto90

\* Four generations in one group and a model of another horizon between them.
Generations == <<Crypto30, Crypto30, Crypto90, Crypto30, Crypto30>>
OneHorizon == <<Crypto30, Crypto30>>
=============================================================================
