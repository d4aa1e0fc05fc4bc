---------------------------- MODULE ReliableCopy ----------------------------
(***************************************************************************)
(* What one stage of the pipeline promises the next one.                   *)
(*                                                                         *)
(* Every stage copies items from a source it does not control into a store *)
(* of its own and acknowledges what it has copied in a database: the       *)
(* landing synchroniser copies ENTSO-E files into S3 and acknowledges them *)
(* in landing_files_registry, the staging job copies S3 objects into       *)
(* Iceberg tables and acknowledges them in lakehouse_ingestion_registry.   *)
(* Versions of an item are numbered; 0 is "none yet".                      *)
(*                                                                         *)
(* The promise: a copy is never newer than its source and never goes back, *)
(* and an acknowledgement never names a version newer than the copy.  An   *)
(* acknowledgement may lag behind, or be withdrawn, but it never lies.     *)
(***************************************************************************)
EXTENDS Naturals

CONSTANT Items

VARIABLES source, copy, ack

vars == <<source, copy, ack>>

Versions == [Items -> Nat]

Init ==
    /\ source \in Versions
    /\ copy = [i \in Items |-> 0]
    /\ ack = [i \in Items |-> 0]

\* The producer publishes newer versions.
Publish ==
    /\ source' \in Versions
    /\ \A i \in Items : source[i] <= source'[i]
    /\ UNCHANGED <<copy, ack>>

\* Copies are brought forward, never beyond their sources.
Transfer ==
    /\ copy' \in Versions
    /\ \A i \in Items : copy[i] <= copy'[i] /\ copy'[i] <= source[i]
    /\ UNCHANGED <<source, ack>>

\* Acknowledgements are written; each names something already copied.
Acknowledge ==
    /\ ack' \in Versions
    /\ \A i \in Items : ack'[i] <= copy[i]
    /\ UNCHANGED <<source, copy>>

Next == Publish \/ Transfer \/ Acknowledge

Spec == Init /\ [][Next]_vars

\* An acknowledged version has been copied, and a copy has a source.
NothingUnfounded ==
    \A i \in Items : ack[i] <= copy[i] /\ copy[i] <= source[i]
=============================================================================
