----------------------------- MODULE MCFileCache -----------------------------
(* FileCache on a small instance: a manifest at the root, and a file lately  *)
(* changed in a directory.                                                   *)
EXTENDS FileCache

Manifest == <<"m">>
Lately == <<"d", "f">>
MCFiles == {Manifest, Lately}
MCDirs == {<<"d">>}
MCContents == {<<1>>, <<2>>, <<1, 2>>}
MCManifests == {Manifest}
MCRecent == <<Lately>>
=============================================================================
