-------------------------------- MODULE Purse --------------------------------
(***************************************************************************)
(* What the referral programme promises about an owner's money: payouts    *)
(* are promised out of what is there, each asked for once, and never taken *)
(* back.  A refund after a payout may leave the purse in debt; then nothing *)
(* is promised until it has been earned again.                             *)
(***************************************************************************)
EXTENDS Integers, Functions

CONSTANTS Keys,     \* idempotency keys of payout requests
          Amounts,  \* amounts of commissions and payouts
          Minimum   \* the smallest payout

VARIABLES earned,   \* sum of all commissions
          reversed, \* sum of the commissions that were refunded
          promised  \* amount of the payout of each key, 0 if there is none

purseVars == <<earned, reversed, promised>>

Balance == earned - reversed - SumFunction(promised)

Init == earned = 0 /\ reversed = 0 /\ promised = [k \in Keys |-> 0]

Earn(amount) ==
  /\ earned' = earned + amount
  /\ UNCHANGED <<reversed, promised>>

Refund(amount) ==
  /\ reversed + amount <= earned
  /\ reversed' = reversed + amount
  /\ UNCHANGED <<earned, promised>>

Promise(k, amount) ==
  /\ promised[k] = 0
  /\ Minimum <= amount /\ amount <= Balance
  /\ promised' = [promised EXCEPT ![k] = amount]
  /\ UNCHANGED <<earned, reversed>>

Next == \E amount \in Amounts :
          Earn(amount) \/ Refund(amount) \/ \E k \in Keys : Promise(k, amount)

Spec == Init /\ [][Next]_purseVars
==============================================================================
