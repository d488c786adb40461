----------------------------- MODULE MCDiscovery -----------------------------
(* Small instances of Discovery.                                           *)
EXTENDS Discovery

CONSTANTS a1, a2
=============================================================================
