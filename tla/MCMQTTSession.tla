--------------------------- MODULE MCMQTTSession ---------------------------
(* Instances of MQTTSession for TLC. *)
EXTENDS MQTTSession, TLC

\* The heap cells are interchangeable: no definition chooses among them.
PubSymmetry == Permutations(Pubs)
=============================================================================
