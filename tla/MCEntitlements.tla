--------------------------- MODULE MCEntitlements ---------------------------
(* Small instances of Entitlements for TLC. *)
EXTENDS Entitlements, TLC

\* Handlers are interchangeable, and so are checkouts.
EntitlementsSymmetry == Permutations(Handlers) \cup Permutations(Checkouts)
==============================================================================
