--------------------------- MODULE MCRemediation ---------------------------
(* Small instances of Remediation for TLC. *)
EXTENDS RemediationInv
============================================================================
