---------------------------- MODULE MCWebConsole ----------------------------
(* Values for TLC; those of the editor are in MCCloudConfigEditor. *)
EXTENDS WebConsole, MCCloudConfigEditor

TwoSavers == Permutations(Savers)
=============================================================================
