--------------------------- MODULE MCTransferStore --------------------------
(***************************************************************************)
(* A small instance of TransferStore for TLC: symmetry over the job ids,   *)
(* and evidence only while at most two rows of one session are in use.     *)
(***************************************************************************)
EXTENDS TransferStore, TLC

Symmetry == Permutations(JobIds)

InUse == {j \in JobIds : Present(j)}

Scope ==
    \/ \A j \in JobIds, f \in Files : ledger[j][f] = NoEvidence
    \/ /\ Cardinality(InUse) <= 2
       /\ \A j \in InUse : rows[j].identity = "sessionA" /\ rows[j].digest = "d1"

MCSpec == StoreInit /\ [][StoreNext /\ Scope']_storeVars

=============================================================================
