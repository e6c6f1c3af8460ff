-------------------------- MODULE MCResidentQueue --------------------------
(* Small instances of ResidentQueue for TLC.                               *)
EXTENDS ResidentQueue, TLC

ProducerSymmetry == Permutations(Producers)

\* Bound: the appends that two producers start together.
CONSTANT MaxTogether

MCNext == Next /\ \A p, q \in Producers : p # q => sent'[p] + sent'[q] <= MaxTogether
MCSpec == Init /\ [][MCNext]_vars
=============================================================================
