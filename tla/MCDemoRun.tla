----------------------------- MODULE MCDemoRun -----------------------------
(* Instances of DemoRun for TLC; the cfg files give the constants.         *)
EXTENDS DemoRun
=============================================================================
