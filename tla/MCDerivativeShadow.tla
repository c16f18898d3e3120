------------------------- MODULE MCDerivativeShadow --------------------------
(* Instances of DerivativeShadow for TLC. *)
EXTENDS DerivativeShadow
CONSTANTS A1, A2
OneAsset == {A1}
TwoAssets == {A1, A2}
Exact == {0}
Fast == {-1, 0, 1, 4}
=============================================================================
