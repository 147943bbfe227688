------------------------------ MODULE MCDeploy ------------------------------
(* Deploy on small instances. *)
EXTENDS DeployProperties

AllOps   == {"deploy", "rollback", "remove"}
NoRemove == {"deploy", "rollback"}
AllModes == {"bluegreen", "inplace", "internal"}
Exposed  == {"bluegreen", "inplace"}
OnlyBlueGreen == {"bluegreen"}
OnlyInPlace == {"inplace"}
=============================================================================
