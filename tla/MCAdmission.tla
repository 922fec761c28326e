---------------------------- MODULE MCAdmission ----------------------------
(* Interchangeable clients of one setup, whose keeper all instances share.  *)
EXTENDS Admission, TLC

MCSetupOf == [k \in Classes |-> CHOOSE e \in Setups : TRUE]

Symmetry == Permutations(Clients)
=============================================================================
