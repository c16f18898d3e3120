-------------------------- MODULE MCSpotIngestion ---------------------------
(* Instances of SpotIngestion for TLC: the asset catalogs of the runs. *)
EXTENDS SpotIngestion
CONSTANTS BTC, ETH
OneAsset == <<BTC>>
TwoAssets == <<BTC, ETH>>
=============================================================================
