---------------------------- MODULE MCDashboard ----------------------------
(* Instances of Dashboard for TLC; the cfg files give the constants.       *)
EXTENDS Dashboard
=============================================================================
