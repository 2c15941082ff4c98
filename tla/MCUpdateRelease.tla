--------------------------- MODULE MCUpdateRelease ---------------------------
(* Two of the directories: the frontend, which tells its version, and the  *)
(* scripts, which hold the updater.                                        *)
EXTENDS UpdateRelease

MCDirectories == <<"frontend", "scripts">>
=============================================================================
