--------------------------- MODULE MCLandingSync ---------------------------
(***************************************************************************)
(* Instances of LandingSync.  Two folders: "load" holds two files, one of  *)
(* which the iop environment also publishes under the same file name.      *)
(***************************************************************************)
EXTENDS LandingSync

MCFiles == {"a", "b", "c"}
MCFolders == {"load", "prices"}
MCFolderOf == [f \in MCFiles |-> IF f = "c" THEN "prices" ELSE "load"]
MCAllWanted == [d \in MCFolders |-> {}]
MCTmpNames == {"tmp_1", "tmp_2"}
MCTmpNameOf == [f \in MCFiles |-> IF f = "b" THEN "tmp_2" ELSE "tmp_1"]

\* Twins: two files with the same name in two folders, so with one temporary
\* path between them.
MCTwins == {"a", "c"}
MCTwinFolderOf == [f \in MCTwins |-> IF f = "c" THEN "prices" ELSE "load"]
MCTwinTmpNameOf == [f \in MCTwins |-> "tmp_1"]
MCTwinWanted == [d \in MCFolders |-> {f \in MCTwins : MCTwinFolderOf[f] = d}]

\* One file.
MCOne == {"a"}
MCOneFolder == {"load"}
MCOneFolderOf == [f \in MCOne |-> "load"]
MCOneWanted == [d \in MCOneFolder |-> {}]
MCOneTmpNameOf == [f \in MCOne |-> "tmp_1"]
=============================================================================
