------------------------- MODULE MCDossierLifecycle -------------------------
(* Small instances of DossierLifecycle. *)
EXTENDS DossierLifecycle

CONSTANT r1

OneRequest == {r1}

AllTypes == DossierTypes
BothVersions == {1, 2}

(* The operations clients may call. *)
AllOps ==
  {"updateStatus", "confirmPurchase", "upgradeToDdp", "update", "restore",
   "permanentlyDelete"}
=============================================================================
