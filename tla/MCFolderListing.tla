-------------------------- MODULE MCFolderListing --------------------------
(* Instances of FolderListing for TLC.                                     *)
EXTENDS FolderListing, TLC

CONSTANTS top, sub

\* A directory of four names, the third of which is a folder of the same kind: it
\* may be on the first page or on the second.
OneFolder == (top :> (3 :> sub)) @@ (sub :> <<>>)
=============================================================================
