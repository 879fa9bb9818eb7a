---------------------------- MODULE MCAttestation ---------------------------
(* Attestation on small sets.                                               *)
EXTENDS Attestation, TLC

\* The commands that change what a quote is made of.
ServedBeside == {"all", "provision_aik"}

Symmetry == Permutations(Secrets) \cup Permutations(Keys)
              \cup Permutations(Tags) \cup Permutations(Requests)
=============================================================================
