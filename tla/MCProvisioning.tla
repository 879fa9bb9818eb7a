--------------------------- MODULE MCProvisioning ---------------------------
(* Provisioning on small sets of secrets, owner passwords, keys and tags.   *)
EXTENDS Provisioning

EveryCommand == Commands
=============================================================================
