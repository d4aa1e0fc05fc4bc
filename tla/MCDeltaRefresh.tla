--------------------------- MODULE MCDeltaRefresh ---------------------------
(* Instances of DeltaRefresh for TLC.                                      *)
EXTENDS DeltaRefresh, TLC

CONSTANTS A, ADay, B, R, a, b1, b2, b3, r, std

\* A is a folder with a directory per day, B a flat one, R a file in the root; the
\* path of B contains the name of A.
UnderAll ==
    (A :> {a}) @@ (ADay :> {a}) @@ (B :> {b1, b2}) @@ (R :> {r})
LogAll == [f \in Files |-> IF f = r THEN None ELSE std]
FolderAll == (a :> A) @@ (r :> R) @@ [f \in {b1, b2} |-> B]
DirAll == (a :> ADay) @@ (r :> R) @@ [f \in {b1, b2} |-> B]
NameAll == (A :> {A, B}) @@ (B :> {B}) @@ (R :> {R})
InitialAll == (a :> 0) @@ (b1 :> 1) @@ (b2 :> 2) @@ (r :> 3)

\* Two flat folders, the second empty at the start.
UnderFlat == (A :> {a}) @@ (B :> {b1, b2, b3})
NameFlat == (A :> {A, B}) @@ (B :> {B})
FolderFlat == (a :> A) @@ [f \in {b1, b2, b3} |-> B]
InitialFlat == (a :> 1) @@ [f \in {b1, b2, b3} |-> 0]
=============================================================================
