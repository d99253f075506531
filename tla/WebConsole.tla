----------------------------- MODULE WebConsole -----------------------------
(***************************************************************************)
(* Three more things the web processes do for the operator and for PXE     *)
(* clients: finding the row of a client (MachineIdentity), keeping the     *)
(* seed files beside the rows (GuestSeeds), and editing the text of a seed *)
(* (CloudConfigEditor).  The editor changes a text before it is saved, and *)
(* rows of a machine are found before a seed is served; no step of one     *)
(* reads what another writes.  So one of them moves in a behaviour, the    *)
(* one named by focus.                                                     *)
(***************************************************************************)
EXTENDS MachineIdentity, GuestSeeds, CloudConfigEditor

VARIABLE focus   \* what moves

consoleVars == <<focus, idVars, seedVars, editorVars>>

Init ==
    /\ focus \in {"identity", "seeds", "editor"}
    /\ IdentityInit /\ SeedInit
    /\ EditorInit /\ (focus # "editor" => seed = Blank)

Identity ==
    /\ focus = "identity" /\ IdentityNext
    /\ UNCHANGED <<focus, seedVars, editorVars>>

SeedStore ==
    /\ focus = "seeds" /\ SeedNext
    /\ UNCHANGED <<focus, idVars, editorVars>>

Editor ==
    /\ focus = "editor" /\ EditorNext
    /\ UNCHANGED <<focus, idVars, seedVars>>

Next == Identity \/ SeedStore \/ Editor

Spec == Init /\ [][Next]_consoleVars
-----------------------------------------------------------------------------
\* Type correctness.
TypeOK ==
    /\ focus \in {"identity", "seeds", "editor"}
    /\ IdentityTypeOK /\ SeedTypeOK /\ EditorTypeOK
=============================================================================
