--------------------------- MODULE MCBootMenuTree ---------------------------
(* Model values for checking BootMenuTree. *)
EXTENDS BootMenuTree, TLC

\* The default folders; operators type the name of one of them.
DefaultFolders == <<"Windows", "Linux", "Tools">>
FolderNames == {"Linux"}
=============================================================================
