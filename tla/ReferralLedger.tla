--------------------------- MODULE ReferralLedger ---------------------------
(***************************************************************************)
(* Commissions, refunds and payouts of ONE referral program                *)
(* (app/referrals/service.py, the payout endpoints of app/admin/router.py  *)
(* and app/referrals/router.py, Stripe's events in app/payments/stripe.py).*)
(* Whoever adds a commission or a reversal refers to the program's row,    *)
(* and so waits for a payout request, which locks it FOR UPDATE until its  *)
(* commit.  Approving and paying a payout lock nothing when they look.     *)
(***************************************************************************)
EXTENDS Integers, Sequences, FiniteSets, Functions

CONSTANTS
  Charges,     \* captured payments of referred users
  Refundable,  \* the ones that may be refunded or disputed
  Amount,      \* the commission of each, in some unit of money
  Keys,        \* idempotency keys of payout requests
  Requests,    \* amounts that may be asked for
  MinPayout,
  Refs, NoRef, \* references of external transfers
  Handlers,    \* requests handled at the same time
  MaxEvents    \* bound: refund and dispute events

ASSUME LedgerAssumption ==
  /\ Amount \in [Charges -> Nat]  \* 0 for a program whose rate is 0, or by rounding down
  /\ Refundable \subseteq Charges
  /\ IsFiniteSet(Keys)  \* of at most 128 characters
  /\ Requests \subseteq Nat /\ MinPayout \in Nat \ {0}
  /\ NoRef \notin Refs /\ MaxEvents \in Nat

Kinds == {"charge.refunded", "charge.dispute.created"}
Events == Refundable \X Kinds

VARIABLES
  ledger,    \* earned commissions: the charge of each, by id
  reversals, \* ids with a reversal
  payouts,   \* payouts, by id
  alloc,     \* allocations of commissions to payouts
  events,    \* refund and dispute events of Stripe
  acked,     \* events answered with success
  tx         \* the transaction of each handler

rows == <<ledger, reversals, payouts, alloc>>
stripe == <<events, acked>>
vars == <<rows, stripe, tx>>

Idle == [pc |-> "idle"]
At(h, step) == tx[h].pc = step
Becomes(h, local) == tx' = [tx EXCEPT ![h] = local]
Ends(h) == Becomes(h, Idle)

Ids == DOMAIN ledger
AmountOf(i) == Amount[ledger[i]]
Total(ids) == SumFunction([i \in ids |-> AmountOf(i)])

-------------------------------------------------------------------------------
(* Balances. *)

\* Nobody else holds the program's row for a payout.
LockFree == \A h \in Handlers : ~At(h, "commit")

\* Allocations count from the request on: no code makes a payout fail.
AmountIn(allocations) == SumFunction([a \in allocations |-> a.amount])
Allocated == AmountIn(alloc)

\* balances(): what may be asked for, never shown below zero.
MutAvailable == Total(Ids) - Allocated
Available == Total(Ids) - Total(reversals) - Allocated

(* request_payout: commissions without an allocation, the oldest first, each *)
(* in full until the last one.                                               *)
MutUnused == {i \in Ids : \A a \in alloc :
                a.commission = i => payouts[a.payout].status = "paid"}
Unused == {i \in Ids : \A a \in alloc : a.commission # i}
Older(i) == Total({j \in Unused : j < i})
SmallerOf(m, n) == IF n <= m THEN n ELSE m
MutTakes(amount) ==
  {[commission |-> i, amount |-> AmountOf(i)] :
     i \in {j \in Unused : Older(j) < amount}}
Takes(amount) ==
  {[commission |-> i, amount |-> SmallerOf(AmountOf(i), amount - Older(i))] :
     i \in {j \in Unused : Older(j) < amount}}

\* The table of allocations refuses an amount of 0 (its CHECK): a request that
\* comes to a commission of 0 fails, and so does every later one.
Storable(takes) == \A a \in takes : a.amount # 0

\* The key of an earlier request, whatever became of its payout; the unique key
\* of the table says the same and, behind the lock, never has to.  (The mutant
\* keeps keys unique among open requests only.)
MutKeyUsed(k) == \E p \in DOMAIN payouts :
                   payouts[p].key = k /\ payouts[p].status = "requested"
KeyUsed(k) == \E p \in DOMAIN payouts : payouts[p].key = k

-------------------------------------------------------------------------------
Init ==
  /\ ledger = <<>> /\ reversals = {} /\ payouts = <<>> /\ alloc = {}
  /\ events = {} /\ acked = {}
  /\ tx = [h \in Handlers |-> Idle]

(* create_commission_for_purchase, in the transaction that books the charge. *)
CreateCommission(c) ==
  /\ \A i \in Ids : ledger[i] # c
  /\ LockFree
  /\ ledger' = Append(ledger, c)
  /\ UNCHANGED <<reversals, payouts, alloc, stripe, tx>>

(* The charge is refunded or disputed at Stripe, booked here or not yet.     *)
StripeEvent(e) ==
  /\ Cardinality(events) < MaxEvents
  /\ events' = events \cup {e}
  /\ UNCHANGED <<rows, acked, tx>>

\* reverse_commission: the original keeps its status, so only the unique key
\* of the reversal stops a second one.
MutReversible(i) == i \notin reversals /\ i \in Unused
Reversible(i) == i \notin reversals

(* process_checkout_completed with a refund or a dispute, or with one that   *)
(* Stripe delivers again.  Without a purchase there is nothing to do; what   *)
(* cannot be reversed is answered with an error, and comes again.            *)
HandleRefund(e) ==
  /\ e \in events
  /\ LET ids == {i \in Ids : ledger[i] = e[1]} IN
     \/ /\ ids = {}
        /\ acked' = acked \cup {e}
        /\ UNCHANGED reversals
     \/ \E i \in ids :
          /\ LockFree /\ Reversible(i)
          /\ reversals' = reversals \cup {i}
          /\ acked' = acked \cup {e}
  /\ UNCHANGED <<ledger, payouts, alloc, events, tx>>

(* A payout is asked for: by the owner, by an admin, or again by a client    *)
(* that lost the answer.                                                     *)
RequestPayout(h, k, amount) ==
  /\ At(h, "idle") /\ amount >= MinPayout
  /\ Becomes(h, [pc |-> "request", key |-> k, amount |-> amount])
  /\ UNCHANGED <<rows, stripe>>

(* The program's row is locked.  A known key is answered with its payout;    *)
(* too large an amount, or one that cannot be allocated, is refused.         *)
LockProgram(h) ==
  LET t == tx[h]
      takes == Takes(t.amount) IN
  /\ At(h, "request") /\ LockFree
  /\ IF \/ KeyUsed(t.key)
        \/ t.amount > Available
        \/ t.amount > Total(Unused) \/ ~Storable(takes)
     THEN Ends(h)
     ELSE Becomes(h, [pc |-> "commit", key |-> t.key, amount |-> t.amount,
                      takes |-> takes])
  /\ UNCHANGED <<rows, stripe>>

CommitPayout(h) ==
  /\ At(h, "commit")
  /\ payouts' = Append(payouts, [key |-> tx[h].key, amount |-> tx[h].amount,
                                 status |-> "requested", ref |-> NoRef])
  /\ alloc' = alloc \cup {[payout |-> Len(payouts) + 1,
                           commission |-> a.commission, amount |-> a.amount] :
                            a \in tx[h].takes}
  /\ Ends(h)
  /\ UNCHANGED <<ledger, reversals, stripe>>

(* approve_referral_payout and pay_referral_payout look at the status ...    *)
LoadRequested(h, p) ==
  /\ At(h, "idle") /\ payouts[p].status = "requested"
  /\ Becomes(h, [pc |-> "approve", payout |-> p])
  /\ UNCHANGED <<rows, stripe>>

LoadApproved(h, p, r) ==
  /\ At(h, "idle") /\ payouts[p].status = "approved"
  /\ Becomes(h, [pc |-> "pay", payout |-> p, ref |-> r])
  /\ UNCHANGED <<rows, stripe>>

(* ... and write the next one, whatever it is by then.                       *)
CommitApprove(h) ==
  /\ At(h, "approve")
  /\ payouts' = [payouts EXCEPT ![tx[h].payout].status = "approved"]
  /\ Ends(h)
  /\ UNCHANGED <<ledger, reversals, alloc, stripe>>

\* The reference of a transfer is unique.
RefUsed(p, r) == \E q \in DOMAIN payouts : q # p /\ payouts[q].ref = r

CommitPay(h) ==
  LET p == tx[h].payout
      r == tx[h].ref IN
  /\ At(h, "pay")
  /\ payouts' = IF RefUsed(p, r) THEN payouts
                ELSE [payouts EXCEPT ![p].status = "paid", ![p].ref = r]
  /\ Ends(h)
  /\ UNCHANGED <<ledger, reversals, alloc, stripe>>

(* The handler dies or loses its connection: its transaction is rolled back. *)
Crash(h) ==
  /\ ~At(h, "idle") /\ Ends(h)
  /\ UNCHANGED <<rows, stripe>>

Advance(h) ==
  LockProgram(h) \/ CommitPayout(h) \/ CommitApprove(h) \/ CommitPay(h)

Begin(h) ==
  \/ \E k \in Keys, amount \in Requests : RequestPayout(h, k, amount)
  \/ \E p \in DOMAIN payouts : LoadRequested(h, p)
                               \/ \E r \in Refs : LoadApproved(h, p, r)

Next ==
  \/ \E c \in Charges : CreateCommission(c)
  \/ \E e \in Events : StripeEvent(e) \/ HandleRefund(e)
  \/ \E h \in Handlers : Begin(h) \/ Advance(h) \/ Crash(h)

Spec == Init /\ [][Next]_vars

\* Stripe repeats an event until it is answered with success; a handler that
\* has the lock gives it back.
FairSpec ==
  /\ Spec
  /\ \A h \in Handlers : WF_vars(Advance(h))
  /\ \A e \in Events : SF_vars(e \notin acked /\ HandleRefund(e))
-------------------------------------------------------------------------------
(* Properties. *)

TypeOK ==
  /\ ledger \in Seq(Charges) /\ reversals \subseteq Ids
  /\ payouts \in Seq([key : Keys, amount : Nat, ref : Refs \cup {NoRef},
                      status : {"requested", "approved", "paid"}])
  /\ \A a \in alloc : /\ a.payout \in DOMAIN payouts /\ a.commission \in Ids
                     /\ a.amount \in Nat \ {0}
  /\ events \subseteq Events /\ acked \subseteq events
  /\ \A h \in Handlers :
       \/ tx[h] = Idle
       \/ At(h, "request") /\ tx[h].key \in Keys /\ tx[h].amount \in Requests
       \/ At(h, "commit") /\ tx[h].key \in Keys /\ tx[h].amount \in Requests
          /\ \A a \in tx[h].takes : a.commission \in Ids /\ a.amount \in Nat \ {0}
       \/ At(h, "approve") /\ tx[h].payout \in DOMAIN payouts
       \/ At(h, "pay") /\ tx[h].payout \in DOMAIN payouts /\ tx[h].ref \in Refs

PayoutOf(k) == {p \in DOMAIN payouts : payouts[p].key = k}

(* Payouts come out of the balance only, each key is good for one, and a     *)
(* charge is refunded once.                                                  *)
OwnersPurse == INSTANCE Purse
  WITH Amounts <- {Amount[c] : c \in Charges} \cup Requests,
       Minimum <- MinPayout,
       earned <- Total(Ids), reversed <- Total(reversals),
       promised <- [k \in Keys |-> SumFunction([p \in PayoutOf(k) |-> payouts[p].amount])]
PurseKept == OwnersPurse!Spec

(* A payout is made up of commissions exactly ("Requests reserve exact       *)
(* commission amounts", docs/REFERRALS.md).                                  *)
ExactAllocation ==
  \A p \in DOMAIN payouts :
    payouts[p].amount = AmountIn({a \in alloc : a.payout = p})

(* No commission is allocated twice, nor beyond its amount, although         *)
(* requests run at the same time.                                            *)
AllocatedOnce ==
  /\ \A a, b \in alloc : a.commission = b.commission => a = b
  /\ \A a \in alloc : a.amount <= AmountOf(a.commission)

(* A request that is repeated does not make a second payout.                 *)
OnePayoutPerKey ==
  \A p, q \in DOMAIN payouts : payouts[p].key = payouts[q].key => p = q

(* A refund or dispute of a booked charge reverses its commission in the     *)
(* end, payout or not.                                                       *)
RefundsArrive ==
  \A c \in Refundable :
    (/\ \E i \in Ids : ledger[i] = c
     /\ \E k \in Kinds : <<c, k>> \in events \ acked)
      ~> \E i \in reversals : ledger[i] = c

-------------------------------------------------------------------------------
(* The inductive invariant behind AllocatedOnce and OnePayoutPerKey: one     *)
(* handler at a time is about to commit a payout, of a key without payout,   *)
(* out of commissions without allocation.                                    *)
FreshTakes(takes) ==
  /\ \A a, b \in takes : a.commission = b.commission => a = b
  /\ \A a \in takes : /\ a.commission \in Unused
                      /\ a.amount <= AmountOf(a.commission)

LedgerInv ==
  /\ \A h, q \in Handlers : At(h, "commit") /\ At(q, "commit") => h = q
  /\ \A h \in Handlers : At(h, "commit") =>
       ~KeyUsed(tx[h].key) /\ FreshTakes(tx[h].takes)
  /\ AllocatedOnce
  /\ OnePayoutPerKey
=============================================================================
