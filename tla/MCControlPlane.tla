---------------------------- MODULE MCControlPlane ----------------------------
(* The control plane with two posts at once, two logins and a test meet.    *)
EXTENDS ControlPlane

RoleSets == {{"appearance"}}
================================================================================
