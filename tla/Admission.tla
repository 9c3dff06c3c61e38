------------------------------ MODULE Admission ------------------------------
(***************************************************************************)
(* What the admission service promises: operations that happen one at a    *)
(* time, each allowed by the documents as they are at that moment, each    *)
(* with its audit event.  AdmissionStore shows that the transactions       *)
(* implement this.                                                         *)
(***************************************************************************)
EXTENDS AdmissionDocuments

Init == NoDocuments

Perform(op) == Allowed(Store, op) /\ Writes(Store, op)

Next == \E op \in Operations : Perform(op)

Spec == Init /\ [][Next]_documents
=============================================================================
