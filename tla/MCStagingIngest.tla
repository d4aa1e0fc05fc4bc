-------------------------- MODULE MCStagingIngest --------------------------
(***************************************************************************)
(* Instances of StagingIngest.                                             *)
(***************************************************************************)
EXTENDS StagingIngest

MCKeys == {"may", "june", "prices", "log"}

\* Files of two contracts, and one that no contract covers.
MCFiles == {"may", "prices", "log"}
MCContracts == {"load_r3", "prices_r3"}
MCContractOf == [f \in MCFiles |-> CASE f = "may" -> "load_r3"
                                     [] f = "prices" -> "prices_r3"
                                     [] f = "log" -> None]
MCKeyOf == [f \in MCFiles |-> f]

\* One file.
MCOne == {"may"}
MCOneContractOf == [f \in MCOne |-> "load_r3"]
MCOneKeyOf == [f \in MCOne |-> f]
=============================================================================
