------------------------------ MODULE MCBuild ------------------------------
(* Instances of Build for TLC.                                             *)
EXTENDS Build

MCVersions    == {"v1", "v2", "bad", "dud"}
MCBroken      == {"bad"}
MCUnlowerable == {"dud"}
MCOptions     == {[field |-> "bn254", views |-> FALSE], [field |-> "other", views |-> TRUE]}
=============================================================================
