---------------------------- MODULE MCDeliveries ----------------------------
EXTENDS Deliveries, TLC

CONSTANTS u1, u2

MCRank == u1 :> 1 @@ u2 :> 2
=============================================================================
