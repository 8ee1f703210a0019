-------------------------- MODULE MCFirestoreRules --------------------------
(* The Firestore rule store with one or two instances, for TLC.            *)
EXTENDS FirestoreRules

CONSTANTS x1, x2, i1
=============================================================================
