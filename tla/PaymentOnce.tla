----------------------------- MODULE PaymentOnce -----------------------------
(***************************************************************************)
(* What the shop promises about a paid checkout, without saying how: its   *)
(* purchase, its entitlement and its commission are booked together, once, *)
(* and the customer is told at most once, never before.  Only the deletion *)
(* of the customer's account takes the books away, and then for good.      *)
(***************************************************************************)
EXTENDS Naturals

CONSTANTS Checkouts,  \* Stripe checkout sessions
          Ids         \* ids of entitlements

VARIABLES
  paid,          \* checkouts whose payment Stripe has taken
  granted,       \* checkouts that have ever been booked
  purchases,     \* the books: purchases,
  entitlements,  \*   entitlements <<checkout, id>>,
  commissions,   \*   commissions of a referral program
  told           \* confirmations sent per checkout

payVars == <<paid, granted, purchases, entitlements, commissions, told>>

Init ==
  /\ paid = {} /\ granted = {} /\ purchases = {} /\ entitlements = {}
  /\ commissions = {} /\ told = [c \in Checkouts |-> 0]

Pay(c) ==
  /\ paid' = paid \cup {c}
  /\ UNCHANGED <<granted, purchases, entitlements, commissions, told>>

Grant(c) ==
  /\ c \in paid \ granted
  /\ granted' = granted \cup {c}
  /\ purchases' = purchases \cup {c}
  /\ \E id \in Ids : entitlements' = entitlements \cup {<<c, id>>}
  /\ commissions' \in {commissions, commissions \cup {c}}
  /\ UNCHANGED <<paid, told>>

Confirm(c) ==
  /\ c \in granted /\ told[c] = 0
  /\ told' = [told EXCEPT ![c] = 1]
  /\ UNCHANGED <<paid, granted, purchases, entitlements, commissions>>

Erase ==
  /\ commissions = {}
  /\ purchases' = {} /\ entitlements' = {}
  /\ UNCHANGED <<paid, granted, commissions, told>>

Next == Erase \/ \E c \in Checkouts : Pay(c) \/ Grant(c) \/ Confirm(c)

Spec == Init /\ [][Next]_payVars
==============================================================================
