-------------------------- MODULE MCReferralLedger --------------------------
(* Small instances of ReferralLedger for TLC. *)
EXTENDS ReferralLedger, TLC

\* Commissions of 2, 3 and 0, booked in any order: a request of 3 splits the
\* second one, and a request that comes to the third one fails.
MCAmount == (1 :> 2) @@ (2 :> 3) @@ (3 :> 0)
=============================================================================
