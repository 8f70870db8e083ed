------------------------------ MODULE MCRelease ------------------------------
(* Values of Release's constants for TLC. *)
EXTENDS Release

ArtifactsMC == <<"layer", "compactor">>
TargetsMC == <<"arm64">>
=============================================================================
