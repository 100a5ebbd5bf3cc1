------------------------ MODULE ReferralLedgerProofs ------------------------
(***************************************************************************)
(* Proofs about ReferralLedger for any commissions, keys and requests.     *)
(***************************************************************************)
EXTENDS ReferralLedger, FiniteSetTheorems, WellFoundedInduction, TLAPS

Payout == [key : Keys, amount : Requests, ref : Refs \cup {NoRef},
           status : {"requested", "approved", "paid"}]

(* The part of the types that the invariant needs.                           *)
Parts(t, n) ==
  /\ t.pc \in {"request", "commit"} => t.key \in Keys /\ t.amount \in Requests
  /\ t.pc \in {"approve", "pay"} => t.payout \in 1..n
  /\ t.pc = "pay" => t.ref \in Refs

LedgerTypes ==
  /\ ledger \in Seq(Charges) /\ payouts \in Seq(Payout)
  /\ \A a \in alloc : a.commission \in Ids
  /\ tx = [h \in Handlers |-> tx[h]]
  /\ \A h \in Handlers : Parts(tx[h], Len(payouts))

IInv == LedgerTypes /\ LedgerInv

LEMMA InitInv == Init => IInv
<1> SUFFICES ASSUME Init PROVE IInv
  OBVIOUS
<1>1. \A h \in Handlers : tx[h].pc = "idle"
  BY DEF Init, Idle
<1>2. LedgerTypes
  BY <1>1 DEF Init, LedgerTypes, Parts
<1>3. LedgerInv
  BY <1>1 DEF Init, LedgerInv, At, AllocatedOnce, OnePayoutPerKey
<1> QED
  BY <1>2, <1>3 DEF IInv

(* A handler's step sets its own local state only.                           *)
LEMMA Others ==
  ASSUME LedgerTypes, NEW h \in Handlers, NEW local, Becomes(h, local)
  PROVE  /\ tx' = [q \in Handlers |-> tx'[q]]
         /\ \A q \in Handlers : tx'[q] = IF q = h THEN local ELSE tx[q]
BY DEF LedgerTypes, Becomes

(* A step that leaves the rows alone, and brings nobody to a commit.         *)
LEMMA NoCommit ==
  ASSUME IInv, UNCHANGED rows, NEW h \in Handlers, NEW local,
         Becomes(h, local), local.pc # "commit", Parts(local, Len(payouts))
  PROVE  IInv'
<1>1. /\ tx' = [q \in Handlers |-> tx'[q]]
      /\ \A q \in Handlers : tx'[q] = IF q = h THEN local ELSE tx[q]
  BY Others DEF IInv
<1>2. UNCHANGED <<ledger, payouts, alloc>>
  BY DEF rows
<1>3. LedgerTypes'
  <2>1. \A q \in Handlers : Parts(tx'[q], Len(payouts))
    BY <1>1 DEF IInv, LedgerTypes
  <2>2. \A q \in Handlers : Parts(tx'[q], Len(payouts'))
    BY <1>2, <2>1
  <2> QED
    BY <1>1, <1>2, <2>2 DEF IInv, LedgerTypes, Ids
<1>4. \A q \in Handlers : tx'[q].pc = "commit" => tx[q].pc = "commit" /\ tx'[q] = tx[q]
  BY <1>1
<1>5. LedgerInv'
  <2>1. \A q, r \in Handlers : At(q, "commit")' /\ At(r, "commit")' => q = r
    BY <1>4 DEF IInv, LedgerInv, At
  <2>2. Ids' = Ids /\ Unused' = Unused
    BY <1>2 DEF Ids, Unused
  <2>3. \A i : AmountOf(i)' = AmountOf(i)
    BY <1>2 DEF AmountOf
  <2>4. \A q \in Handlers : At(q, "commit")' =>
          (~KeyUsed(tx[q].key) /\ FreshTakes(tx[q].takes))'
    <3> SUFFICES ASSUME NEW q \in Handlers, tx'[q].pc = "commit"
                 PROVE  (~KeyUsed(tx[q].key) /\ FreshTakes(tx[q].takes))'
      BY DEF At
    <3>1. ~KeyUsed(tx[q].key) /\ FreshTakes(tx[q].takes) /\ tx'[q] = tx[q]
      BY <1>4 DEF IInv, LedgerInv, At
    <3> QED
      BY <1>2, <2>2, <2>3, <3>1 DEF KeyUsed, FreshTakes
  <2>5. AllocatedOnce' /\ OnePayoutPerKey'
    BY <1>2, <2>3 DEF IInv, LedgerInv, AllocatedOnce, OnePayoutPerKey
  <2> QED
    BY <2>1, <2>4, <2>5 DEF LedgerInv
<1> QED
  BY <1>3, <1>5 DEF IInv

LEMMA IdleParts == Idle.pc # "commit" /\ \A n : Parts(Idle, n)
BY DEF Idle, Parts

LEMMA EndsInv ==
  ASSUME IInv, UNCHANGED rows, NEW h \in Handlers, Ends(h)
  PROVE  IInv'
BY NoCommit, IdleParts DEF Ends

(* Refunds and Stripe's events change nothing the invariant speaks of.       *)
LEMMA QuietInv ==
  ASSUME IInv, UNCHANGED <<ledger, payouts, alloc, tx>>
  PROVE  IInv'
<1>1. Ids' = Ids /\ Unused' = Unused
  BY DEF Ids, Unused
<1>2. \A i : AmountOf(i)' = AmountOf(i)
  BY DEF AmountOf
<1>3. LedgerTypes'
  BY <1>1 DEF IInv, LedgerTypes
<1>4. LedgerInv'
  BY <1>1, <1>2 DEF IInv, LedgerInv, At, KeyUsed, FreshTakes, AllocatedOnce,
     OnePayoutPerKey
<1> QED
  BY <1>3, <1>4 DEF IInv

(* A new commission waits for whoever is about to commit a payout.           *)
LEMMA CreateInv ==
  ASSUME IInv, NEW c \in Charges, CreateCommission(c)
  PROVE  IInv'
<1>1. /\ ledger \in Seq(Charges) /\ ledger' = Append(ledger, c)
      /\ UNCHANGED <<payouts, alloc, tx>>
  BY DEF CreateCommission, IInv, LedgerTypes
<1>2. /\ ledger' \in Seq(Charges) /\ Ids \subseteq Ids'
      /\ \A i \in Ids : ledger'[i] = ledger[i]
  BY <1>1 DEF Ids
<1>3. \A i \in Ids : AmountOf(i)' = AmountOf(i)
  BY <1>2 DEF AmountOf
<1>4. \A h \in Handlers : ~At(h, "commit")'
  BY <1>1 DEF CreateCommission, LockFree, At
<1>5. LedgerTypes'
  BY <1>1, <1>2 DEF IInv, LedgerTypes
<1>6. AllocatedOnce' /\ OnePayoutPerKey'
  BY <1>1, <1>3 DEF IInv, LedgerInv, LedgerTypes, AllocatedOnce, OnePayoutPerKey
<1> QED
  BY <1>4, <1>5, <1>6 DEF IInv, LedgerInv

(* What request_payout takes: unused commissions, none beyond its amount.    *)
LEMMA TakesFresh == IInv => \A amount : FreshTakes(Takes(amount))
<1> SUFFICES ASSUME IInv, NEW amount PROVE FreshTakes(Takes(amount))
  OBVIOUS
<1>1. \A i \in Ids : AmountOf(i) \in Nat
  BY LedgerAssumption DEF IInv, LedgerTypes, Ids, AmountOf
<1>2. \A n : \A m \in Nat : SmallerOf(m, n) <= m
  BY DEF SmallerOf
<1>3. \A a \in Takes(amount) :
        \E i \in Unused : a = [commission |-> i,
                              amount |-> SmallerOf(AmountOf(i), amount - Older(i))]
  BY DEF Takes
<1>4. Unused \subseteq Ids
  BY DEF Unused
<1>5. \A a \in Takes(amount) :
        /\ a = [commission |-> a.commission,
                amount |-> SmallerOf(AmountOf(a.commission),
                                     amount - Older(a.commission))]
        /\ a.commission \in Unused
  BY <1>3
<1>6. \A a \in Takes(amount) : a.amount <= AmountOf(a.commission)
  BY <1>1, <1>2, <1>4, <1>5
<1>7. \A a, b \in Takes(amount) : a.commission = b.commission => a = b
  BY <1>5
<1> QED
  BY <1>5, <1>6, <1>7 DEF FreshTakes

LEMMA LockInv ==
  ASSUME IInv, NEW h \in Handlers, LockProgram(h)
  PROVE  IInv'
<1>1. UNCHANGED <<ledger, payouts, alloc>> /\ UNCHANGED rows
  BY DEF LockProgram, rows
<1>2. CASE Ends(h)
  BY <1>1, <1>2, EndsInv
<1>3. CASE ~Ends(h)
  <2> DEFINE local == [pc |-> "commit", key |-> tx[h].key, amount |-> tx[h].amount,
                       takes |-> Takes(tx[h].amount)]
  <2>1. /\ At(h, "request") /\ LockFree /\ ~KeyUsed(tx[h].key)
        /\ Becomes(h, local)
    BY <1>3 DEF LockProgram
  <2>2. /\ tx' = [q \in Handlers |-> tx'[q]]
        /\ \A q \in Handlers : tx'[q] = IF q = h THEN local ELSE tx[q]
    BY <2>1, Others DEF IInv
  <2>3. Parts(local, Len(payouts))
    BY <2>1 DEF IInv, LedgerTypes, Parts, At
  <2>4. FreshTakes(local.takes) /\ ~KeyUsed(local.key) /\ local.pc = "commit"
    BY <2>1, TakesFresh
  <2> HIDE DEF local
  <2>5. LedgerTypes'
    <3>1. \A q \in Handlers : Parts(tx'[q], Len(payouts))
      BY <2>2, <2>3 DEF IInv, LedgerTypes
    <3>2. \A q \in Handlers : Parts(tx'[q], Len(payouts'))
      BY <1>1, <3>1
    <3> QED
      BY <1>1, <2>2, <3>2 DEF IInv, LedgerTypes, Ids
  <2>6. \A q \in Handlers : tx'[q].pc = "commit" => q = h
    BY <2>1, <2>2 DEF LockFree, At
  <2>7. \A q \in Handlers : At(q, "commit")' =>
          (~KeyUsed(tx[q].key) /\ FreshTakes(tx[q].takes))'
    <3>1. tx'[h] = local /\ Ids' = Ids /\ Unused' = Unused
      BY <1>1, <2>2 DEF Ids, Unused
    <3>2. \A i : AmountOf(i)' = AmountOf(i)
      BY <1>1 DEF AmountOf
    <3>3. (~KeyUsed(tx[h].key) /\ FreshTakes(tx[h].takes))'
      BY <1>1, <2>4, <3>1, <3>2 DEF KeyUsed, FreshTakes
    <3> SUFFICES ASSUME NEW q \in Handlers, tx'[q].pc = "commit"
                 PROVE  (~KeyUsed(tx[q].key) /\ FreshTakes(tx[q].takes))'
      BY DEF At
    <3> QED
      BY <2>6, <3>3
  <2>8. AllocatedOnce' /\ OnePayoutPerKey'
    BY <1>1 DEF IInv, LedgerInv, AllocatedOnce, OnePayoutPerKey, AmountOf
  <2>9. \A q, r \in Handlers : At(q, "commit")' /\ At(r, "commit")' => q = r
    BY <2>6 DEF At
  <2> QED
    BY <2>5, <2>7, <2>8, <2>9 DEF IInv, LedgerInv
<1> QED
  BY <1>2, <1>3

(* The commit: the key and the commissions it takes have been nobody's.      *)
LEMMA CommitInv ==
  ASSUME IInv, NEW h \in Handlers, CommitPayout(h)
  PROVE  IInv'
<1> DEFINE row == [key |-> tx[h].key, amount |-> tx[h].amount,
                   status |-> "requested", ref |-> NoRef]
           new == {[payout |-> Len(payouts) + 1, commission |-> a.commission,
                    amount |-> a.amount] : a \in tx[h].takes}
<1>1. /\ tx[h].pc = "commit" /\ payouts' = Append(payouts, row)
      /\ alloc' = alloc \cup new /\ Becomes(h, Idle) /\ UNCHANGED ledger
  BY DEF CommitPayout, At, Ends
<1>2. ~KeyUsed(tx[h].key) /\ FreshTakes(tx[h].takes)
  BY <1>1 DEF IInv, LedgerInv, At
<1>3. row \in Payout /\ payouts \in Seq(Payout)
  BY <1>1 DEF IInv, LedgerTypes, Parts, Payout
<1>4. row.key = tx[h].key
  OBVIOUS
<1>5. \A b \in new : \E a \in tx[h].takes : b.commission = a.commission
                                            /\ b.amount = a.amount
  OBVIOUS
<1>6. \A a, b \in new : a.commission = b.commission => a = b
  BY <1>2 DEF FreshTakes
<1> HIDE DEF row, new
<1>7. /\ payouts' \in Seq(Payout) /\ Len(payouts') = Len(payouts) + 1
      /\ \A p \in DOMAIN payouts : payouts'[p] = payouts[p]
      /\ payouts'[Len(payouts) + 1] = row
      /\ DOMAIN payouts' = DOMAIN payouts \cup {Len(payouts) + 1}
  BY <1>1, <1>3
<1>8. /\ tx' = [q \in Handlers |-> tx'[q]]
      /\ \A q \in Handlers : tx'[q] = IF q = h THEN Idle ELSE tx[q]
  BY <1>1, Others DEF IInv
<1>9. \A q \in Handlers : tx'[q].pc # "commit"
  BY <1>1, <1>8 DEF IInv, LedgerInv, At, Idle
<1>10. \A b \in new : b.commission \in Unused /\ b.amount <= AmountOf(b.commission)
  BY <1>2, <1>5 DEF FreshTakes
<1>11. LedgerTypes'
  <2>1. \A a \in alloc' : a.commission \in Ids'
    BY <1>1, <1>10 DEF IInv, LedgerTypes, Ids, Unused
  <2>2. \A q \in Handlers : Parts(tx'[q], Len(payouts'))
    <3>1. \A t : Parts(t, Len(payouts)) => Parts(t, Len(payouts) + 1)
      BY <1>3 DEF Parts
    <3> QED
      BY <1>7, <1>8, <3>1, IdleParts DEF IInv, LedgerTypes
  <2> QED
    BY <1>1, <1>7, <1>8, <2>1, <2>2 DEF IInv, LedgerTypes
<1>12. AllocatedOnce'
  <2>1. \A a \in alloc, b \in new : a.commission # b.commission
    BY <1>10 DEF Unused
  <2>2. \A i : AmountOf(i)' = AmountOf(i)
    BY <1>1 DEF AmountOf
  <2> QED
    BY <1>1, <1>6, <1>10, <2>1, <2>2 DEF IInv, LedgerInv, AllocatedOnce
<1>13. OnePayoutPerKey'
  <2>1. \A p \in DOMAIN payouts : payouts'[p].key # row.key
    BY <1>2, <1>4, <1>7 DEF KeyUsed
  <2> QED
    BY <1>7, <2>1 DEF IInv, LedgerInv, OnePayoutPerKey
<1> QED
  BY <1>9, <1>11, <1>12, <1>13 DEF IInv, LedgerInv, At

(* Approving or paying a payout leaves its key, whatever status it writes.   *)
LEMMA StatusInv ==
  ASSUME IInv, NEW h \in Handlers, CommitApprove(h) \/ CommitPay(h)
  PROVE  IInv'
<1> DEFINE p == tx[h].payout
<1>1. /\ Becomes(h, Idle) /\ UNCHANGED <<ledger, alloc>>
      /\ payouts \in Seq(Payout) /\ p \in DOMAIN payouts
  <2>1. tx[h].pc \in {"approve", "pay"} /\ Becomes(h, Idle)
        /\ UNCHANGED <<ledger, alloc>>
    BY DEF CommitApprove, CommitPay, Ends, At
  <2>2. payouts \in Seq(Payout) /\ p \in 1..Len(payouts)
    BY <2>1 DEF IInv, LedgerTypes, Parts
  <2> QED
    BY <2>1, <2>2
<1>2. /\ payouts' \in Seq(Payout) /\ Len(payouts') = Len(payouts)
      /\ \A q \in DOMAIN payouts : payouts'[q].key = payouts[q].key
  <2>0. \A row \in Payout : /\ [row EXCEPT !.status = "approved"] \in Payout
                             /\ [row EXCEPT !.status = "approved"].key = row.key
    BY DEF Payout
  <2>1. \A row \in Payout, r \in Refs :
           /\ [row EXCEPT !.status = "paid", !.ref = r] \in Payout
           /\ [row EXCEPT !.status = "paid", !.ref = r].key = row.key
    BY DEF Payout
  <2>2. payouts[p] \in Payout
    BY <1>1
  <2>3. CASE CommitApprove(h)
    <3> DEFINE new == [payouts[p] EXCEPT !.status = "approved"]
    <3>1. payouts' = [payouts EXCEPT ![p] = new] /\ new \in Payout
          /\ new.key = payouts[p].key
      BY <2>0, <2>2, <2>3 DEF CommitApprove
    <3> HIDE DEF new, p
    <3> QED
      BY <1>1, <3>1
  <2>4. CASE CommitPay(h) /\ payouts' # payouts
    <3> DEFINE new == [payouts[p] EXCEPT !.status = "paid", !.ref = tx[h].ref]
    <3>1. tx[h].ref \in Refs
      BY <2>4 DEF CommitPay, At, IInv, LedgerTypes, Parts
    <3>2. payouts' = [payouts EXCEPT ![p] = new] /\ new \in Payout
          /\ new.key = payouts[p].key
      BY <2>1, <2>2, <2>4, <3>1 DEF CommitPay
    <3> HIDE DEF new, p
    <3> QED
      BY <1>1, <3>2
  <2> QED
    BY <1>1, <2>3, <2>4
<1>3. /\ tx' = [q \in Handlers |-> tx'[q]]
      /\ \A q \in Handlers : tx'[q] = IF q = h THEN Idle ELSE tx[q]
  BY <1>1, Others DEF IInv
<1>4. DOMAIN payouts' = DOMAIN payouts
  BY <1>1, <1>2
<1> HIDE DEF p
<1>5. LedgerTypes'
  <2>1. \A q \in Handlers : Parts(tx'[q], Len(payouts))
    BY <1>3, IdleParts DEF IInv, LedgerTypes
  <2>2. \A q \in Handlers : Parts(tx'[q], Len(payouts'))
    BY <1>2, <2>1
  <2> QED
    BY <1>1, <1>2, <1>3, <2>2 DEF IInv, LedgerTypes, Ids
<1>6. \A q \in Handlers : tx'[q].pc = "commit" => tx[q].pc = "commit" /\ tx'[q] = tx[q]
  BY <1>3 DEF Idle
<1>7. \A q \in Handlers : At(q, "commit")' =>
        (~KeyUsed(tx[q].key) /\ FreshTakes(tx[q].takes))'
  <2>1. Ids' = Ids /\ Unused' = Unused
    BY <1>1 DEF Ids, Unused
  <2>2. \A i : AmountOf(i)' = AmountOf(i)
    BY <1>1 DEF AmountOf
  <2> SUFFICES ASSUME NEW q \in Handlers, tx'[q].pc = "commit"
               PROVE  (~KeyUsed(tx[q].key) /\ FreshTakes(tx[q].takes))'
    BY DEF At
  <2>3. ~KeyUsed(tx[q].key) /\ FreshTakes(tx[q].takes) /\ tx'[q] = tx[q]
    BY <1>6 DEF IInv, LedgerInv, At
  <2> QED
    BY <1>2, <1>4, <2>1, <2>2, <2>3 DEF KeyUsed, FreshTakes
<1>8. AllocatedOnce' /\ OnePayoutPerKey'
  BY <1>1, <1>2, <1>4 DEF IInv, LedgerInv, AllocatedOnce, OnePayoutPerKey, AmountOf
<1>9. \A q, r \in Handlers : At(q, "commit")' /\ At(r, "commit")' => q = r
  BY <1>6 DEF IInv, LedgerInv, At
<1> QED
  BY <1>5, <1>7, <1>8, <1>9 DEF IInv, LedgerInv

LEMMA BeginInv ==
  ASSUME IInv, NEW h \in Handlers, Begin(h)
  PROVE  IInv'
<1>1. ASSUME NEW k \in Keys, NEW amount \in Requests, RequestPayout(h, k, amount)
      PROVE  IInv'
  <2> DEFINE local == [pc |-> "request", key |-> k, amount |-> amount]
  <2>1. Parts(local, Len(payouts)) /\ local.pc # "commit"
    BY DEF Parts
  <2> QED
    BY <1>1, <2>1, NoCommit DEF RequestPayout
<1>2. ASSUME NEW p \in DOMAIN payouts, LoadRequested(h, p) PROVE IInv'
  <2> DEFINE local == [pc |-> "approve", payout |-> p]
  <2>1. Parts(local, Len(payouts)) /\ local.pc # "commit"
    BY DEF Parts, IInv, LedgerTypes
  <2> QED
    BY <1>2, <2>1, NoCommit DEF LoadRequested
<1>3. ASSUME NEW p \in DOMAIN payouts, NEW r \in Refs, LoadApproved(h, p, r)
      PROVE  IInv'
  <2> DEFINE local == [pc |-> "pay", payout |-> p, ref |-> r]
  <2>1. Parts(local, Len(payouts)) /\ local.pc # "commit"
    BY DEF Parts, IInv, LedgerTypes
  <2> QED
    BY <1>3, <2>1, NoCommit DEF LoadApproved
<1> QED
  BY <1>1, <1>2, <1>3 DEF Begin

LEMMA StepInv == IInv /\ [Next]_vars => IInv'
<1> SUFFICES ASSUME IInv, [Next]_vars PROVE IInv'
  OBVIOUS
<1>1. CASE UNCHANGED vars
  BY <1>1, QuietInv DEF vars, rows
<1>2. ASSUME NEW e \in Events, StripeEvent(e) \/ HandleRefund(e) PROVE IInv'
  BY <1>2, QuietInv DEF StripeEvent, HandleRefund, rows
<1>3. ASSUME NEW h \in Handlers, Begin(h) \/ Advance(h) \/ Crash(h) PROVE IInv'
  BY <1>3, BeginInv, LockInv, CommitInv, StatusInv, EndsInv DEF Advance, Crash
<1> QED
  BY <1>1, <1>2, <1>3, CreateInv DEF Next

(* One handler at a time is about to commit a payout, with a fresh key and   *)
(* fresh commissions, for any number of concurrent requests.                 *)
THEOREM LedgerInvariant == Spec => []LedgerInv
<1>1. IInv => LedgerInv
  BY DEF IInv
<1> QED
  BY InitInv, StepInv, <1>1, PTL DEF Spec

(* No commission is promised twice or beyond its amount.                     *)
THEOREM NoDoublePromise == Spec => []AllocatedOnce
<1>1. LedgerInv => AllocatedOnce
  BY DEF LedgerInv
<1> QED
  BY LedgerInvariant, <1>1, PTL

(* A repeated request makes no second payout.                                *)
THEOREM RequestIsIdempotent == Spec => []OnePayoutPerKey
<1>1. LedgerInv => OnePayoutPerKey
  BY DEF LedgerInv
<1> QED
  BY LedgerInvariant, <1>1, PTL
-----------------------------------------------------------------------------
(***************************************************************************)
(* Sums.  SumFunctionOnSet is a fold that takes the elements of a set in   *)
(* some order; what it adds up to does not depend on the order.            *)
(***************************************************************************)

LEMMA Least ==
  ASSUME NEW S, S \subseteq Nat, S # {}
  PROVE  \E m \in S : \A n \in S : m <= n
<1> DEFINE R == OpToRel(<, Nat)
<1>1. \E m \in S : \A n \in S : <<n, m>> \notin R
  <2>1. IsWellFoundedOn(R, Nat)
    BY NatLessThanWellFounded
  <2> HIDE DEF R
  <2> QED
    BY <2>1, WFMin
<1>2. \A m, n \in Nat : n < m => <<n, m>> \in R
  BY DEF OpToRel
<1> HIDE DEF R
<1>3. PICK m \in S : \A n \in S : <<n, m>> \notin R
  BY <1>1
<1>4. ASSUME NEW n \in S PROVE m <= n
  <2>1. m \in Nat /\ n \in Nat /\ <<n, m>> \notin R
    BY <1>3
  <2>2. ~(n < m)
    BY <1>2, <2>1
  <2> QED
    BY <2>1, <2>2
<1> QED
  BY <1>4

(* Induction, over a set of numbers instead of a predicate.                *)
LEMMA Counting ==
  ASSUME NEW G, 0 \in G, \A n \in Nat : n \in G => n + 1 \in G
  PROVE  \A n \in Nat : n \in G
<1> SUFFICES ASSUME Nat \ G # {} PROVE FALSE
  OBVIOUS
<1>1. PICK m \in Nat \ G : \A n \in Nat \ G : m <= n
  BY Least
<1>2. m \in Nat /\ m # 0
  BY <1>1
<1>3. m - 1 \in Nat /\ (m - 1) + 1 = m /\ ~(m <= m - 1)
  BY <1>2
<1>4. m - 1 \in G
  BY <1>1, <1>3
<1> QED
  BY <1>1, <1>3, <1>4

LEMMA Removing ==
  ASSUME NEW s, IsFiniteSet(s), NEW x \in s
  PROVE  /\ IsFiniteSet(s \ {x}) /\ Cardinality(s) \in Nat /\ Cardinality(s \ {x}) \in Nat
         /\ Cardinality(s \ {x}) + 1 = Cardinality(s)
<1>1. IsFiniteSet(s \ {x}) /\ Cardinality(s \ {x}) = Cardinality(s) - 1 /\ Cardinality(s) \in Nat
  BY FS_RemoveElement, FS_CardinalityType
<1>2. Cardinality(s \ {x}) \in Nat
  BY <1>1, FS_CardinalityType
<1> QED
  BY <1>1, <1>2

(* Induction over the subsets of a finite set.                             *)
LEMMA Adding ==
  ASSUME NEW S, IsFiniteSet(S), NEW G, {} \in G,
         \A s \in SUBSET S : \A x \in S \ s : s \in G => s \cup {x} \in G
  PROVE  S \in G
<1> DEFINE N == {n \in Nat : \A s \in SUBSET S : Cardinality(s) = n => s \in G}
<1>1. \A s \in SUBSET S : IsFiniteSet(s) /\ Cardinality(s) \in Nat
  BY FS_Subset, FS_CardinalityType
<1>2. 0 \in N
  <2>1. \A s \in SUBSET S : Cardinality(s) = 0 => s = {}
    BY <1>1, FS_EmptySet
  <2> QED
    BY <2>1
<1>3. ASSUME NEW n \in Nat, n \in N PROVE n + 1 \in N
  <2> SUFFICES ASSUME NEW s \in SUBSET S, Cardinality(s) = n + 1 PROVE s \in G
    OBVIOUS
  <2>1. s # {}
    BY FS_EmptySet
  <2>2. PICK x \in s : TRUE
    BY <2>1
  <2>3. Cardinality(s \ {x}) = n
    <3>1. Cardinality(s \ {x}) + 1 = n + 1 /\ Cardinality(s \ {x}) \in Nat
      BY <1>1, Removing
    <3> QED
      BY <3>1
  <2>4. s \ {x} \in G /\ s = (s \ {x}) \cup {x}
    BY <1>3, <2>3
  <2> QED
    BY <2>4
<1> HIDE DEF N
<1>4. Cardinality(S) \in N
  BY <1>1, <1>2, <1>3, Counting
<1> QED
  BY <1>4 DEF N

Pick(s) == CHOOSE x \in s : TRUE
Summed(f, it, s) == IF s = {} THEN 0 ELSE f[Pick(s)] + it[s \ {Pick(s)}]
Sums(f, S, it) == it = [s \in SUBSET S |-> Summed(f, it, s)]

LEMMA PickIn == ASSUME NEW s, s # {} PROVE Pick(s) \in s
BY DEF Pick

(* The recursion of the fold has a solution ...                            *)
LEMMA SumsExist ==
  ASSUME NEW f, NEW S, IsFiniteSet(S)
  PROVE  \E it : Sums(f, S, it)
<1> DEFINE Upto(n) == {s \in SUBSET S : Cardinality(s) <= n}
           Part(n, it) == it = [s \in Upto(n) |-> Summed(f, it, s)]
           G == {n \in Nat : \E it : Part(n, it)}
<1>1. \A s \in SUBSET S : IsFiniteSet(s) /\ Cardinality(s) \in Nat
  BY FS_Subset, FS_CardinalityType
<1>2. 0 \in G
  <2> DEFINE it == [s \in Upto(0) |-> 0]
  <2>1. \A s \in Upto(0) : s = {}
    BY <1>1, FS_EmptySet
  <2>2. Part(0, it)
    BY <2>1 DEF Summed
  <2> QED
    BY <2>2
<1>3. ASSUME NEW n \in Nat, n \in G PROVE n + 1 \in G
  <2>1. PICK it : Part(n, it)
    BY <1>3
  <2> DEFINE next == [s \in Upto(n + 1) |-> Summed(f, it, s)]
  <2>2. ASSUME NEW s \in Upto(n + 1), s # {}
        PROVE  s \ {Pick(s)} \in Upto(n) /\ s \ {Pick(s)} \in Upto(n + 1)
    <3>1. Pick(s) \in s
      BY <2>2, PickIn
    <3>2. Cardinality(s \ {Pick(s)}) + 1 = Cardinality(s) /\ Cardinality(s \ {Pick(s)}) \in Nat
          /\ Cardinality(s) <= n + 1
      BY <1>1, <3>1, Removing
    <3> QED
      BY <3>2
  <2>3. \A s \in Upto(n) : s \in Upto(n + 1) /\ it[s] = Summed(f, it, s)
    BY <1>1, <2>1
  <2>4. \A s \in Upto(n) : next[s] = it[s]
    BY <2>3
  <2> HIDE DEF Upto
  <2>5. \A s \in Upto(n + 1) : Summed(f, next, s) = Summed(f, it, s)
    BY <2>2, <2>4 DEF Summed
  <2>6. Part(n + 1, next)
    BY <2>5
  <2> HIDE DEF next
  <2> QED
    BY <2>6
<1> HIDE DEF G
<1>4. Cardinality(S) \in G
  BY <1>1, <1>2, <1>3, Counting
<1>5. PICK it : Part(Cardinality(S), it)
  BY <1>4 DEF G
<1>6. \A s \in SUBSET S : Cardinality(s) <= Cardinality(S)
  BY FS_Subset
<1>7. Upto(Cardinality(S)) = SUBSET S
  BY <1>6
<1>8. Sums(f, S, it)
  BY <1>5, <1>7 DEF Sums
<1> QED
  BY <1>8

(* ... and only one, also when a set is summed as a part of another.       *)
LEMMA SumsAgree ==
  ASSUME NEW f, NEW S, IsFiniteSet(S), NEW T, T \subseteq S,
         NEW a, Sums(f, S, a), NEW b, Sums(f, T, b)
  PROVE  a[T] = b[T]
<1> DEFINE G == {n \in Nat : \A s \in SUBSET T : Cardinality(s) <= n => a[s] = b[s]}
<1>1. \A s \in SUBSET T : IsFiniteSet(s) /\ Cardinality(s) \in Nat
  BY FS_Subset, FS_CardinalityType
<1>2. \A s \in SUBSET T : a[s] = Summed(f, a, s) /\ b[s] = Summed(f, b, s)
  <2>1. \A s \in SUBSET S : a[s] = Summed(f, a, s)
    BY DEF Sums
  <2>2. \A s \in SUBSET T : b[s] = Summed(f, b, s) /\ s \in SUBSET S
    BY DEF Sums
  <2> QED
    BY <2>1, <2>2
<1>3. 0 \in G
  <2>1. \A s \in SUBSET T : Cardinality(s) <= 0 => s = {}
    BY <1>1, FS_EmptySet
  <2> QED
    BY <1>2, <2>1 DEF Summed
<1>4. ASSUME NEW n \in Nat, n \in G PROVE n + 1 \in G
  <2> SUFFICES ASSUME NEW s \in SUBSET T, Cardinality(s) <= n + 1 PROVE a[s] = b[s]
    OBVIOUS
  <2>1. CASE s = {}
    BY <1>2, <2>1 DEF Summed
  <2>2. CASE s # {}
    <3>1. Pick(s) \in s
      BY <2>2, PickIn
    <3>2. Cardinality(s \ {Pick(s)}) + 1 = Cardinality(s) /\ Cardinality(s \ {Pick(s)}) \in Nat
      BY <1>1, <3>1, Removing
    <3>3. s \ {Pick(s)} \in SUBSET T /\ Cardinality(s \ {Pick(s)}) <= n
      BY <3>2
    <3>4. a[s \ {Pick(s)}] = b[s \ {Pick(s)}]
      BY <1>4, <3>3
    <3> QED
      BY <1>2, <2>2, <3>4 DEF Summed
  <2> QED
    BY <2>1, <2>2
<1> HIDE DEF G
<1>5. Cardinality(T) \in G
  BY <1>1, <1>3, <1>4, Counting
<1> QED
  BY <1>1, <1>5 DEF G

LEMMA FoldSums ==
  ASSUME NEW f, NEW S, IsFiniteSet(S)
  PROVE  \E it : Sums(f, S, it) /\ SumFunctionOnSet(f, S) = it[S]
<1> DEFINE it == CHOOSE it : Sums(f, S, it)
<1>1. Sums(f, S, it)
  BY SumsExist, Zenon
<1>2. SumFunctionOnSet(f, S) = it[S]
  BY Zenon DEF SumFunctionOnSet, FoldFunctionOnSet, MapThenFoldSet, Sums, Summed, Pick
<1> QED
  BY <1>1, <1>2, Zenon

LEMMA SumStep ==
  ASSUME NEW f, NEW S, IsFiniteSet(S)
  PROVE  /\ S = {} => SumFunctionOnSet(f, S) = 0
         /\ S # {} => SumFunctionOnSet(f, S) = f[Pick(S)] + SumFunctionOnSet(f, S \ {Pick(S)})
<1>1. PICK it : Sums(f, S, it) /\ SumFunctionOnSet(f, S) = it[S]
  BY FoldSums
<1>2. it[S] = Summed(f, it, S)
  BY <1>1 DEF Sums
<1>3. CASE S = {}
  BY <1>1, <1>2, <1>3 DEF Summed
<1>4. CASE S # {}
  <2> DEFINE T == S \ {Pick(S)}
  <2>1. T \subseteq S /\ IsFiniteSet(T)
    BY FS_Subset
  <2>2. PICK jt : Sums(f, T, jt) /\ SumFunctionOnSet(f, T) = jt[T]
    BY <2>1, FoldSums
  <2>3. it[T] = jt[T]
    BY <1>1, <2>1, <2>2, SumsAgree
  <2> QED
    BY <1>1, <1>2, <1>4, <2>2, <2>3 DEF Summed
<1> QED
  BY <1>3, <1>4

(* Any element can be taken out of a sum first.                            *)
LEMMA SumRemove ==
  ASSUME NEW f, NEW S, IsFiniteSet(S), \A x \in S : f[x] \in Nat
  PROVE  /\ SumFunctionOnSet(f, S) \in Nat
         /\ \A y \in S : SumFunctionOnSet(f, S) = f[y] + SumFunctionOnSet(f, S \ {y})
<1> DEFINE Good(s) == /\ SumFunctionOnSet(f, s) \in Nat
                      /\ \A y \in s : SumFunctionOnSet(f, s) = f[y] + SumFunctionOnSet(f, s \ {y})
           G == {n \in Nat : \A s \in SUBSET S : Cardinality(s) <= n => Good(s)}
<1>1. \A s \in SUBSET S : IsFiniteSet(s) /\ Cardinality(s) \in Nat
  BY FS_Subset, FS_CardinalityType
<1>0. Good({})
  <2>1. SumFunctionOnSet(f, {}) = 0
    BY FS_EmptySet, SumStep
  <2> QED
    BY <2>1
<1>2. 0 \in G
  <2>1. \A s \in SUBSET S : Cardinality(s) <= 0 => s = {}
    BY <1>1, FS_EmptySet
  <2> HIDE DEF Good
  <2> QED
    BY <1>0, <2>1
<1>3. ASSUME NEW n \in Nat, n \in G PROVE n + 1 \in G
  <2> SUFFICES ASSUME NEW s \in SUBSET S, Cardinality(s) <= n + 1 PROVE Good(s)
    OBVIOUS
  <2>1. ASSUME NEW u \in SUBSET s, NEW x \in s, x \notin u PROVE Good(u) /\ SumFunctionOnSet(f, u) \in Nat
    <3>1. u \subseteq s \ {x} /\ IsFiniteSet(s \ {x}) /\ u \in SUBSET S
      BY <1>1, <2>1, Removing
    <3>2. Cardinality(u) <= Cardinality(s \ {x}) /\ Cardinality(s \ {x}) + 1 = Cardinality(s)
          /\ Cardinality(s \ {x}) \in Nat
      BY <1>1, <3>1, Removing, FS_Subset
    <3>3. Cardinality(u) <= n
      BY <1>1, <3>1, <3>2
    <3> QED
      BY <1>3, <3>1, <3>3
  <2>2. CASE s = {}
    BY <1>0, <2>2
  <2>3. CASE s # {}
    <3> DEFINE c == Pick(s)
    <3>1. c \in s /\ f[c] \in Nat
      BY <2>3, PickIn
    <3>2. SumFunctionOnSet(f, s) = f[c] + SumFunctionOnSet(f, s \ {c})
      BY <1>1, <2>3, SumStep
    <3> HIDE DEF c
    <3>3. SumFunctionOnSet(f, s \ {c}) \in Nat
      BY <2>1, <3>1
    <3>4. ASSUME NEW y \in s
          PROVE  SumFunctionOnSet(f, s) = f[y] + SumFunctionOnSet(f, s \ {y})
      <4>1. CASE y = c
        BY <3>2, <4>1
      <4>2. CASE y # c
        <5>1. SumFunctionOnSet(f, s \ {c}) = f[y] + SumFunctionOnSet(f, (s \ {c}) \ {y})
          <6>1. s \ {c} \in SUBSET s /\ c \notin s \ {c} /\ y \in s \ {c}
            BY <4>2
          <6>2. Good(s \ {c})
            BY <2>1, <3>1, <6>1
          <6> QED
            BY <6>1, <6>2
        <5>2. SumFunctionOnSet(f, s \ {y}) = f[c] + SumFunctionOnSet(f, (s \ {y}) \ {c})
          <6>1. s \ {y} \in SUBSET s /\ y \notin s \ {y} /\ c \in s \ {y}
            BY <3>1, <4>2
          <6>2. Good(s \ {y})
            BY <2>1, <6>1
          <6> QED
            BY <6>1, <6>2
        <5> DEFINE rest == SumFunctionOnSet(f, (s \ {y}) \ {c})
        <5>3. SumFunctionOnSet(f, s \ {c}) = f[y] + rest /\ SumFunctionOnSet(f, s \ {y}) = f[c] + rest
          <6>1. (s \ {c}) \ {y} = (s \ {y}) \ {c}
            OBVIOUS
          <6> QED
            BY <5>1, <5>2, <6>1
        <5>4. rest \in Nat /\ f[y] \in Nat
          <6>1. (s \ {y}) \ {c} \in SUBSET s /\ c \notin (s \ {y}) \ {c}
            OBVIOUS
          <6> QED
            BY <2>1, <3>1, <6>1
        <5> HIDE DEF rest
        <5> QED
          BY <3>1, <3>2, <5>3, <5>4
      <4> QED
        BY <4>1, <4>2
    <3> QED
      BY <3>1, <3>2, <3>3, <3>4
  <2> QED
    BY <2>2, <2>3
<1> HIDE DEF G
<1>4. Cardinality(S) \in G
  BY <1>1, <1>2, <1>3, Counting
<1> QED
  BY <1>1, <1>4 DEF G

LEMMA SumEmpty == ASSUME NEW f PROVE SumFunctionOnSet(f, {}) = 0
BY FS_EmptySet, SumStep

LEMMA SumNat ==
  ASSUME NEW f, NEW S, IsFiniteSet(S), \A x \in S : f[x] \in Nat
  PROVE  SumFunctionOnSet(f, S) \in Nat
BY SumRemove

LEMMA SumAdd ==
  ASSUME NEW f, NEW S, IsFiniteSet(S), NEW y, y \notin S, \A x \in S \cup {y} : f[x] \in Nat
  PROVE  SumFunctionOnSet(f, S \cup {y}) = SumFunctionOnSet(f, S) + f[y]
<1> DEFINE T == S \cup {y}
<1>1. IsFiniteSet(T) /\ y \in T /\ T \ {y} = S
  BY FS_AddElement
<1>2. SumFunctionOnSet(f, T) = f[y] + SumFunctionOnSet(f, T \ {y})
  BY <1>1, SumRemove
<1>3. SumFunctionOnSet(f, S) \in Nat /\ f[y] \in Nat
  BY SumNat
<1>4. SumFunctionOnSet(f, T) = f[y] + SumFunctionOnSet(f, S)
  BY <1>1, <1>2
<1> HIDE DEF T
<1>5. SumFunctionOnSet(f, T) = SumFunctionOnSet(f, S) + f[y]
  BY <1>3, <1>4
<1> QED
  BY <1>5 DEF T

LEMMA SumUnion ==
  ASSUME NEW f, NEW A, IsFiniteSet(A), NEW B, IsFiniteSet(B), A \cap B = {},
         \A x \in A \cup B : f[x] \in Nat
  PROVE  SumFunctionOnSet(f, A \cup B) = SumFunctionOnSet(f, A) + SumFunctionOnSet(f, B)
<1> DEFINE G == {b \in SUBSET B : SumFunctionOnSet(f, A \cup b)
                                  = SumFunctionOnSet(f, A) + SumFunctionOnSet(f, b)}
<1>1. SumFunctionOnSet(f, A) \in Nat
  BY SumNat
<1>2. {} \in G
  <2>1. A \cup {} = A /\ SumFunctionOnSet(f, {}) = 0
    BY SumEmpty
  <2> QED
    BY <1>1, <2>1
<1>3. ASSUME NEW b \in SUBSET B, NEW x \in B \ b, b \in G PROVE b \cup {x} \in G
  <2>1. IsFiniteSet(b) /\ IsFiniteSet(A \cup b) /\ x \notin A \cup b
        /\ A \cup (b \cup {x}) = (A \cup b) \cup {x}
    <3>1. IsFiniteSet(b)
      BY FS_Subset
    <3> QED
      BY <3>1, FS_Union
  <2>2. SumFunctionOnSet(f, (A \cup b) \cup {x}) = SumFunctionOnSet(f, A \cup b) + f[x]
    BY <2>1, SumAdd
  <2>3. SumFunctionOnSet(f, b \cup {x}) = SumFunctionOnSet(f, b) + f[x]
    BY <2>1, SumAdd
  <2>4. SumFunctionOnSet(f, b) \in Nat /\ f[x] \in Nat
    BY <2>1, SumNat
  <2>5. SumFunctionOnSet(f, A \cup b) = SumFunctionOnSet(f, A) + SumFunctionOnSet(f, b)
    BY <1>3
  <2>6. SumFunctionOnSet(f, A \cup (b \cup {x})) = SumFunctionOnSet(f, A \cup b) + f[x]
    BY <2>1, <2>2
  <2>7. SumFunctionOnSet(f, A \cup (b \cup {x}))
          = SumFunctionOnSet(f, A) + SumFunctionOnSet(f, b \cup {x})
    BY <1>1, <2>3, <2>4, <2>5, <2>6
  <2> QED
    BY <2>7
<1> HIDE DEF G
<1>4. B \in G
  BY <1>2, <1>3, Adding
<1> QED
  BY <1>4 DEF G

(* A part adds up to no more than the whole.                               *)
LEMMA SumPart ==
  ASSUME NEW f, NEW S, IsFiniteSet(S), NEW T, T \subseteq S, \A x \in S : f[x] \in Nat
  PROVE  SumFunctionOnSet(f, T) <= SumFunctionOnSet(f, S)
<1>1. IsFiniteSet(T) /\ IsFiniteSet(S \ T) /\ T \cap (S \ T) = {} /\ T \cup (S \ T) = S
  BY FS_Subset
<1>2. SumFunctionOnSet(f, T \cup (S \ T)) = SumFunctionOnSet(f, T) + SumFunctionOnSet(f, S \ T)
  BY <1>1, SumUnion
<1>3. SumFunctionOnSet(f, T) \in Nat /\ SumFunctionOnSet(f, S \ T) \in Nat
  BY <1>1, SumNat
<1>4. SumFunctionOnSet(f, S) = SumFunctionOnSet(f, T) + SumFunctionOnSet(f, S \ T)
  BY <1>1, <1>2
<1> QED
  BY <1>3, <1>4

(* The sum over another set with the same values.                          *)
ImageOf(h, S) == {h[x] : x \in S}

LEMMA SumImage ==
  ASSUME NEW S, IsFiniteSet(S), NEW f, \A x \in S : f[x] \in Nat, NEW h, NEW g,
         \A x \in S : g[h[x]] = f[x],
         \A x, y \in S : h[x] = h[y] => x = y
  PROVE  /\ IsFiniteSet(ImageOf(h, S))
         /\ SumFunctionOnSet(g, ImageOf(h, S)) = SumFunctionOnSet(f, S)
<1> DEFINE Image(s) == {h[x] : x \in s}
           G == {s \in SUBSET S : /\ IsFiniteSet(Image(s))
                                  /\ SumFunctionOnSet(g, Image(s)) = SumFunctionOnSet(f, s)}
<1>1. {} \in G
  <2>1. Image({}) = {}
    OBVIOUS
  <2> QED
    BY <2>1, SumEmpty, FS_EmptySet
<1>2. ASSUME NEW s \in SUBSET S, NEW x \in S \ s, s \in G PROVE s \cup {x} \in G
  <2>1. IsFiniteSet(s) /\ IsFiniteSet(Image(s))
        /\ SumFunctionOnSet(g, Image(s)) = SumFunctionOnSet(f, s)
    BY <1>2, FS_Subset
  <2>2. Image(s \cup {x}) = Image(s) \cup {h[x]} /\ h[x] \notin Image(s)
    OBVIOUS
  <2>3. \A v \in Image(s) \cup {h[x]} : g[v] \in Nat
    OBVIOUS
  <2>4. g[h[x]] = f[x]
    OBVIOUS
  <2> HIDE DEF Image
  <2>5. SumFunctionOnSet(g, Image(s) \cup {h[x]}) = SumFunctionOnSet(g, Image(s)) + g[h[x]]
    BY <2>1, <2>2, <2>3, SumAdd
  <2>6. SumFunctionOnSet(f, s \cup {x}) = SumFunctionOnSet(f, s) + f[x]
    BY <2>1, SumAdd
  <2>7. IsFiniteSet(Image(s) \cup {h[x]})
    BY <2>1, FS_AddElement
  <2> QED
    BY <2>1, <2>2, <2>4, <2>5, <2>6, <2>7
<1> HIDE DEF G
<1>3. S \in G
  BY <1>1, <1>2, Adding
<1> QED
  BY <1>3 DEF G, ImageOf

LEMMA SumSame ==
  ASSUME NEW S, IsFiniteSet(S), NEW f, NEW g, \A x \in S : f[x] \in Nat /\ g[x] = f[x]
  PROVE  SumFunctionOnSet(g, S) = SumFunctionOnSet(f, S)
<1> DEFINE h == [x \in S |-> x]
<1>1. /\ \A x \in S : g[h[x]] = f[x]
      /\ \A x, y \in S : h[x] = h[y] => x = y
      /\ ImageOf(h, S) = S
  BY DEF ImageOf
<1> HIDE DEF h
<1>2. SumFunctionOnSet(g, ImageOf(h, S)) = SumFunctionOnSet(f, S)
  BY <1>1, SumImage
<1> QED
  BY <1>1, <1>2
-----------------------------------------------------------------------------
(***************************************************************************)
(* Money.                                                                  *)
(*                                                                         *)
(* Whoever is about to commit a payout has taken commissions that add up   *)
(* to it exactly, and the balance still covers it: the lock keeps refunds  *)
(* and other payouts away until the commit.  What is allocated is what has *)
(* been promised, key by key.                                              *)
(***************************************************************************)

Promised == [k \in Keys |-> SumFunction([p \in PayoutOf(k) |-> payouts[p].amount])]

Covered(t) ==
  /\ IsFiniteSet(t.takes)
  /\ \A a \in t.takes : a.commission \in Ids /\ a.amount \in Nat \ {0}
  /\ AmountIn(t.takes) = t.amount
  /\ t.amount <= Available

Funded(t) ==
  /\ t = Idle \/ t.pc \in {"request", "commit", "approve", "pay"}
  /\ t.pc \in {"request", "commit"} => t.amount >= MinPayout
  /\ t.pc = "commit" => Covered(t)

Booked ==
  /\ reversals \subseteq Ids /\ IsFiniteSet(alloc)
  /\ \A a \in alloc : a.payout \in DOMAIN payouts /\ a.amount \in Nat \ {0}
  /\ events \subseteq Events /\ acked \subseteq events

MoneyInv ==
  /\ Booked
  /\ \A h \in Handlers : Funded(tx[h])
  /\ ExactAllocation
  /\ Allocated = SumFunction(Promised)

(* What the commissions of a ledger are worth.                             *)
WorthOf(l) == [i \in DOMAIN l |-> Amount[l[i]]]
Worth == WorthOf(ledger)

LEMMA WorthIs ==
  ASSUME NEW l \in Seq(Charges)
  PROVE  /\ IsFiniteSet(DOMAIN l) /\ \A i \in DOMAIN l : WorthOf(l)[i] = Amount[l[i]] /\ WorthOf(l)[i] \in Nat
         /\ \A ids \in SUBSET DOMAIN l :
              /\ IsFiniteSet(ids)
              /\ SumFunction([i \in ids |-> Amount[l[i]]]) = SumFunctionOnSet(WorthOf(l), ids)
              /\ SumFunctionOnSet(WorthOf(l), ids) \in Nat
<1>1. DOMAIN l = 1..Len(l) /\ Len(l) \in Nat
  OBVIOUS
<1>2. IsFiniteSet(DOMAIN l)
  BY <1>1, FS_Interval
<1>3. \A i \in DOMAIN l : WorthOf(l)[i] = Amount[l[i]] /\ WorthOf(l)[i] \in Nat
  <2> SUFFICES ASSUME NEW i \in DOMAIN l PROVE Amount[l[i]] \in Nat
    BY DEF WorthOf
  <2>1. l[i] \in Charges
    BY <1>1
  <2> QED
    BY <2>1, LedgerAssumption
<1>4. ASSUME NEW ids \in SUBSET DOMAIN l
      PROVE  /\ IsFiniteSet(ids)
             /\ SumFunction([i \in ids |-> Amount[l[i]]]) = SumFunctionOnSet(WorthOf(l), ids)
             /\ SumFunctionOnSet(WorthOf(l), ids) \in Nat
  <2> DEFINE f == [i \in ids |-> Amount[l[i]]]
             w == WorthOf(l)
  <2>1. IsFiniteSet(ids)
    BY <1>2, FS_Subset
  <2>2. \A i \in ids : w[i] \in Nat /\ f[i] = w[i]
    BY <1>3
  <2>3. SumFunction(f) = SumFunctionOnSet(f, ids)
    BY DEF SumFunction
  <2> HIDE DEF f, w
  <2>4. SumFunctionOnSet(f, ids) = SumFunctionOnSet(w, ids)
    BY <2>1, <2>2, SumSame
  <2>5. SumFunctionOnSet(w, ids) \in Nat
    BY <2>1, <2>2, SumNat
  <2> QED
    BY <2>1, <2>3, <2>4, <2>5 DEF f, w
<1> QED
  BY <1>2, <1>3, <1>4

LEMMA TotalIs ==
  ASSUME ledger \in Seq(Charges)
  PROVE  /\ IsFiniteSet(Ids) /\ \A i \in Ids : Worth[i] = AmountOf(i) /\ Worth[i] \in Nat
         /\ \A ids \in SUBSET Ids :
              /\ IsFiniteSet(ids) /\ Total(ids) \in Nat
              /\ Total(ids) = SumFunctionOnSet(Worth, ids)
<1>1. \A ids : Total(ids) = SumFunction([i \in ids |-> Amount[ledger[i]]])
  BY DEF Total, AmountOf
<1>2. \A i : AmountOf(i) = Amount[ledger[i]]
  BY DEF AmountOf
<1> QED
  BY <1>1, <1>2, WorthIs DEF Ids, Worth

LEMMA AmountIs ==
  ASSUME NEW A, IsFiniteSet(A), \A a \in A : a.amount \in Nat, NEW B, B \subseteq A
  PROVE  /\ IsFiniteSet(B) /\ AmountIn(B) \in Nat
         /\ AmountIn(B) = SumFunctionOnSet([a \in A |-> a.amount], B)
<1> DEFINE f == [a \in A |-> a.amount]
           g == [b \in B |-> b.amount]
<1>1. IsFiniteSet(B)
  BY FS_Subset
<1>2. \A b \in B : f[b] \in Nat /\ g[b] = f[b]
  OBVIOUS
<1>3. AmountIn(B) = SumFunctionOnSet(g, B)
  BY DEF AmountIn, SumFunction
<1> HIDE DEF f, g
<1>4. AmountIn(B) = SumFunctionOnSet(f, B)
  BY <1>1, <1>2, <1>3, SumSame
<1> QED
  BY <1>1, <1>2, <1>4, SumNat DEF f

LEMMA AmountUnion ==
  ASSUME NEW A, IsFiniteSet(A), NEW B, IsFiniteSet(B), A \cap B = {},
         \A a \in A \cup B : a.amount \in Nat
  PROVE  AmountIn(A \cup B) = AmountIn(A) + AmountIn(B)
<1> DEFINE C == A \cup B
           f == [a \in C |-> a.amount]
<1>1. IsFiniteSet(C) /\ A \subseteq C /\ B \subseteq C /\ C \subseteq C
  BY FS_Union
<1>2. \A a \in A \cup B : f[a] \in Nat
  OBVIOUS
<1>3. \A a \in C : a.amount \in Nat
  OBVIOUS
<1>4. AmountIn(A) = SumFunctionOnSet(f, A) /\ AmountIn(B) = SumFunctionOnSet(f, B)
      /\ AmountIn(C) = SumFunctionOnSet(f, C)
  <2> HIDE DEF C
  <2> QED
    BY <1>1, <1>3, AmountIs
<1>5. C = A \cup B
  OBVIOUS
<1> HIDE DEF f, C
<1>6. SumFunctionOnSet(f, A \cup B) = SumFunctionOnSet(f, A) + SumFunctionOnSet(f, B)
  BY <1>2, SumUnion
<1> QED
  BY <1>4, <1>5, <1>6

(* Commissions that come before another in the ledger.                     *)
LEMMA OlderIs ==
  ASSUME ledger \in Seq(Charges), NEW i \in Unused
  PROVE  Older(i) = SumFunctionOnSet(Worth, {j \in Unused : j < i}) /\ Older(i) \in Nat
<1>1. {j \in Unused : j < i} \subseteq Ids
  BY DEF Unused
<1> DEFINE S == {j \in Unused : j < i}
<1>2. IsFiniteSet(S) /\ Total(S) = SumFunctionOnSet(Worth, S) /\ Older(i) = Total(S)
  BY <1>1, TotalIs DEF Older
<1>3. \A j \in S : Worth[j] \in Nat
  BY <1>1, TotalIs
<1> HIDE DEF S
<1>4. SumFunctionOnSet(Worth, S) \in Nat
  BY <1>2, <1>3, SumNat
<1> QED
  BY <1>2, <1>4 DEF S

Upto(S, k) == {j \in S : j <= k}

LEMMA UptoEnds ==
  ASSUME NEW n \in Nat, NEW S, S \subseteq 1..n
  PROVE  Upto(S, 0) = {} /\ Upto(S, n) = S
<1>1. \A j \in S : j <= n /\ ~(j <= 0)
  OBVIOUS
<1>2. Upto(S, 0) = {}
  BY <1>1 DEF Upto
<1>3. Upto(S, n) = S
  BY <1>1 DEF Upto
<1> QED
  BY <1>2, <1>3

LEMMA UptoNext ==
  ASSUME NEW n \in Nat, NEW S, S \subseteq 1..n, NEW k \in Nat
  PROVE  /\ Upto(S, k) \subseteq S /\ Upto(S, k) = {j \in S : j < k + 1}
         /\ k + 1 \notin S => Upto(S, k + 1) = Upto(S, k)
         /\ k + 1 \in S => /\ Upto(S, k + 1) = Upto(S, k) \cup {k + 1}
                           /\ k + 1 \notin Upto(S, k)
<1>1. \A j \in S : j \in Nat /\ 1 <= j /\ j <= n /\ ~(j <= 0)
  OBVIOUS
<1>2. \A j \in S : j <= k + 1 <=> j <= k \/ j = k + 1
  BY <1>1
<1>3. \A j \in S : j < k + 1 <=> j <= k
  BY <1>1
<1>4. Upto(S, k) \subseteq S
  BY DEF Upto
<1>5. k + 1 \notin S => Upto(S, k + 1) = Upto(S, k)
  BY <1>1, <1>2 DEF Upto
<1>6. k + 1 \in S => Upto(S, k + 1) = Upto(S, k) \cup {k + 1} /\ k + 1 \notin Upto(S, k)
  <2> SUFFICES ASSUME k + 1 \in S
               PROVE  Upto(S, k + 1) = Upto(S, k) \cup {k + 1} /\ k + 1 \notin Upto(S, k)
    OBVIOUS
  <2>1. \A j : j \in Upto(S, k + 1) <=> j \in Upto(S, k) \/ j = k + 1
    BY <1>1, <1>2 DEF Upto
  <2>2. ~(k + 1 <= k)
    OBVIOUS
  <2> QED
    BY <2>1, <2>2 DEF Upto
<1>7. Upto(S, k) = {j \in S : j < k + 1}
  BY <1>3 DEF Upto
<1> QED
  BY <1>4, <1>5, <1>6, <1>7

(* From the oldest on, each in full until the amount is reached: what a    *)
(* request takes adds up to what was asked for.                            *)
LEMMA TakesAddUp ==
  ASSUME ledger \in Seq(Charges), NEW amount \in Nat, amount <= Total(Unused)
  PROVE  /\ IsFiniteSet(Takes(amount)) /\ AmountIn(Takes(amount)) = amount
         /\ \A a \in Takes(amount) : a.commission \in Ids /\ a.amount \in Nat
<1> DEFINE Chosen == {j \in Unused : Older(j) < amount}
           part == [i \in Chosen |-> SmallerOf(AmountOf(i), amount - Older(i))]
           G == {k \in Nat : SumFunctionOnSet(part, Upto(Chosen, k))
                               = SmallerOf(amount, SumFunctionOnSet(Worth, Upto(Unused, k)))}
<1>1. Unused \subseteq Ids /\ Chosen \subseteq Unused /\ Ids = 1..Len(ledger) /\ Len(ledger) \in Nat
      /\ Unused \subseteq 1..Len(ledger) /\ Chosen \subseteq 1..Len(ledger)
  BY DEF Unused, Ids
<1>2. /\ IsFiniteSet(Unused) /\ IsFiniteSet(Chosen)
      /\ \A i \in Unused : i \in Nat /\ Worth[i] = AmountOf(i) /\ Worth[i] \in Nat
  <2>1. IsFiniteSet(Unused) /\ \A i \in Ids : Worth[i] = AmountOf(i) /\ Worth[i] \in Nat
    BY <1>1, TotalIs
  <2>2. IsFiniteSet(Chosen)
    BY <1>1, <2>1, FS_Subset
  <2> QED
    BY <1>1, <2>1, <2>2
<1>3. \A i \in Chosen : part[i] \in Nat
  <2> SUFFICES ASSUME NEW i \in Chosen PROVE SmallerOf(AmountOf(i), amount - Older(i)) \in Nat
    OBVIOUS
  <2>1. i \in Unused /\ Older(i) < amount
    OBVIOUS
  <2>2. AmountOf(i) \in Nat /\ Older(i) \in Nat
    BY <1>2, <2>1, OlderIs
  <2> QED
    BY <2>1, <2>2 DEF SmallerOf
<1>4. 0 \in G
  <2> HIDE DEF Chosen, part
  <2>1. Upto(Unused, 0) = {} /\ Upto(Chosen, 0) = {}
    BY <1>1, UptoEnds
  <2>2. SumFunctionOnSet(part, Upto(Chosen, 0)) = 0 /\ SumFunctionOnSet(Worth, Upto(Unused, 0)) = 0
    BY <2>1, SumEmpty
  <2>3. SmallerOf(amount, 0) = 0
    BY DEF SmallerOf
  <2> QED
    BY <2>2, <2>3
<1>5. ASSUME NEW k \in Nat, k \in G PROVE k + 1 \in G
  <2>1. SumFunctionOnSet(part, Upto(Chosen, k)) = SmallerOf(amount, SumFunctionOnSet(Worth, Upto(Unused, k)))
    BY <1>5
  <2>2. CASE k + 1 \notin Unused
    <3>1. Upto(Unused, k + 1) = Upto(Unused, k) /\ Upto(Chosen, k + 1) = Upto(Chosen, k)
      <4> HIDE DEF Chosen, part, G
      <4>1. k + 1 \notin Chosen
        BY <1>1, <2>2
      <4>2. Upto(Chosen, k + 1) = Upto(Chosen, k)
        BY <1>1, <4>1, UptoNext
      <4>3. Upto(Unused, k + 1) = Upto(Unused, k)
        BY <1>1, <2>2, UptoNext
      <4> QED
        BY <4>2, <4>3
    <3> HIDE DEF part, Chosen
    <3> QED
      BY <2>1, <3>1
  <2>3. CASE k + 1 \in Unused
    <3>1. Upto(Unused, k + 1) = Upto(Unused, k) \cup {k + 1} /\ k + 1 \notin Upto(Unused, k)
          /\ Upto(Unused, k) = {j \in Unused : j < k + 1} /\ Upto(Unused, k) \subseteq Unused
      <4> HIDE DEF Chosen, part, G
      <4>1. Len(ledger) \in Nat /\ Unused \subseteq 1..Len(ledger)
        BY <1>1
      <4> QED
        BY <2>3, <4>1, UptoNext
    <3>2. Older(k + 1) = SumFunctionOnSet(Worth, Upto(Unused, k)) /\ Older(k + 1) \in Nat
      BY <2>3, <3>1, OlderIs
    <3>3. IsFiniteSet(Upto(Unused, k)) /\ \A x \in Upto(Unused, k) \cup {k + 1} : Worth[x] \in Nat
      BY <1>2, <2>3, <3>1, FS_Subset
    <3>4. SumFunctionOnSet(Worth, Upto(Unused, k + 1)) = Older(k + 1) + Worth[k + 1]
      <4>1. SumFunctionOnSet(Worth, Upto(Unused, k) \cup {k + 1})
              = SumFunctionOnSet(Worth, Upto(Unused, k)) + Worth[k + 1]
        <5> HIDE DEF Chosen, part, G
        <5> QED
          BY <3>1, <3>3, SumAdd
      <4> QED
        BY <3>1, <3>2, <4>1
    <3>5. Worth[k + 1] = AmountOf(k + 1) /\ Worth[k + 1] \in Nat
      BY <1>2, <2>3
    <3>6. CASE Older(k + 1) < amount
      <4>1. k + 1 \in Chosen /\ part[k + 1] = SmallerOf(Worth[k + 1], amount - Older(k + 1))
        BY <2>3, <3>5, <3>6
      <4>2. Upto(Chosen, k + 1) = Upto(Chosen, k) \cup {k + 1} /\ k + 1 \notin Upto(Chosen, k) /\ Upto(Chosen, k) \subseteq Chosen
        <5> HIDE DEF Chosen, part, G
        <5> QED
          BY <1>1, <4>1, UptoNext
      <4>3. IsFiniteSet(Upto(Chosen, k)) /\ \A x \in Upto(Chosen, k) \cup {k + 1} : part[x] \in Nat
        BY <1>2, <1>3, <4>1, <4>2, FS_Subset
      <4> HIDE DEF Chosen, part, G
      <4>4. SumFunctionOnSet(part, Upto(Chosen, k + 1)) = SumFunctionOnSet(part, Upto(Chosen, k)) + part[k + 1]
        BY <4>2, <4>3, SumAdd
      <4>5. SumFunctionOnSet(part, Upto(Chosen, k)) = Older(k + 1)
        BY <2>1, <3>2, <3>6 DEF SmallerOf
      <4>6. SumFunctionOnSet(part, Upto(Chosen, k + 1))
              = SmallerOf(amount, SumFunctionOnSet(Worth, Upto(Unused, k + 1)))
        BY <3>2, <3>4, <3>5, <3>6, <4>1, <4>4, <4>5 DEF SmallerOf
      <4> QED
        BY <4>6 DEF G
    <3>7. CASE ~(Older(k + 1) < amount)
      <4>1. k + 1 \notin Chosen
        BY <3>7
      <4>2. Upto(Chosen, k + 1) = Upto(Chosen, k)
        <5> HIDE DEF Chosen, part, G
        <5> QED
          BY <1>1, <4>1, UptoNext
      <4> HIDE DEF Chosen, part, G
      <4>3. SumFunctionOnSet(part, Upto(Chosen, k + 1))
              = SmallerOf(amount, SumFunctionOnSet(Worth, Upto(Unused, k + 1)))
        BY <2>1, <3>2, <3>4, <3>5, <3>7, <4>2 DEF SmallerOf
      <4> QED
        BY <4>3 DEF G
    <3> QED
      BY <3>6, <3>7
  <2> QED
    BY <2>2, <2>3
<1> HIDE DEF G
<1>6. Len(ledger) \in G
  BY <1>1, <1>4, <1>5, Counting
<1>7. Upto(Unused, Len(ledger)) = Unused /\ Upto(Chosen, Len(ledger)) = Chosen
  <2> HIDE DEF Chosen, part
  <2>1. Upto(Unused, Len(ledger)) = Unused
    BY <1>1, UptoEnds
  <2>2. Upto(Chosen, Len(ledger)) = Chosen
    BY <1>1, UptoEnds
  <2> QED
    BY <2>1, <2>2
<1>8. SumFunctionOnSet(part, Chosen) = amount
  <2>1. SumFunctionOnSet(part, Upto(Chosen, Len(ledger)))
          = SmallerOf(amount, SumFunctionOnSet(Worth, Upto(Unused, Len(ledger))))
    BY <1>6 DEF G
  <2>2. Total(Unused) = SumFunctionOnSet(Worth, Unused)
    BY <1>1, TotalIs
  <2>3. SumFunctionOnSet(Worth, Unused) \in Nat
    BY <1>2, SumNat
  <2> HIDE DEF part, Chosen
  <2> QED
    BY <1>7, <2>1, <2>2, <2>3 DEF SmallerOf
<1> DEFINE h == [i \in Chosen |-> [commission |-> i, amount |-> part[i]]]
           g == [a \in Takes(amount) |-> a.amount]
<1>9. Takes(amount) = ImageOf(h, Chosen)
  BY DEF Takes, ImageOf
<1>10. \A i \in Chosen : h[i].commission = i /\ h[i].amount = part[i]
  OBVIOUS
<1>11. \A i \in Chosen : g[h[i]] = part[i]
  BY <1>9, <1>10 DEF ImageOf
<1>12. \A i, j \in Chosen : h[i] = h[j] => i = j
  BY <1>10
<1>13. \A a \in Takes(amount) : a.commission \in Ids /\ a.amount \in Nat
  BY <1>1, <1>3, <1>9, <1>10 DEF ImageOf
<1>14. AmountIn(Takes(amount)) = SumFunctionOnSet(g, Takes(amount))
  BY DEF AmountIn, SumFunction
<1> HIDE DEF Chosen, part, h, g, G
<1>15. \A i \in Chosen : part[i] \in Nat
  BY <1>3
<1>16. IsFiniteSet(Takes(amount)) /\ SumFunctionOnSet(g, Takes(amount)) = SumFunctionOnSet(part, Chosen)
  <2>1. IsFiniteSet(ImageOf(h, Chosen))
        /\ SumFunctionOnSet(g, ImageOf(h, Chosen)) = SumFunctionOnSet(part, Chosen)
    <3>1. IsFiniteSet(Chosen)
      BY <1>2
    <3> QED
      BY <3>1, <1>11, <1>12, <1>15, SumImage
  <2> QED
    BY <1>9, <2>1
<1> QED
  BY <1>8, <1>13, <1>14, <1>16

LEMMA PromisedIs ==
  ASSUME NEW rs \in Seq(Payout), NEW S, S \subseteq DOMAIN rs
  PROVE  SumFunction([p \in S |-> rs[p].amount]) \in Nat
<1> DEFINE f == [p \in S |-> rs[p].amount]
<1>1. DOMAIN rs = 1..Len(rs) /\ Len(rs) \in Nat
  OBVIOUS
<1>2. IsFiniteSet(S)
  <2>1. IsFiniteSet(1..Len(rs))
    BY <1>1, FS_Interval
  <2> QED
    BY <1>1, <2>1, FS_Subset
<1>3. \A p \in S : f[p] \in Nat
  <2> SUFFICES ASSUME NEW p \in S PROVE rs[p].amount \in Nat
    OBVIOUS
  <2>1. rs[p] \in Payout
    BY <1>1
  <2> QED
    BY <2>1, LedgerAssumption DEF Payout
<1>4. SumFunction(f) = SumFunctionOnSet(f, S)
  BY DEF SumFunction
<1> HIDE DEF f
<1>5. SumFunctionOnSet(f, S) \in Nat
  BY <1>2, <1>3, SumNat
<1> QED
  BY <1>4, <1>5 DEF f

(* What a step leaves of the sums when it leaves the rows they are of.     *)
LEMMA SameBalance ==
  ASSUME UNCHANGED <<ledger, reversals, alloc>>
  PROVE  Ids' = Ids /\ Unused' = Unused /\ Allocated' = Allocated /\ Available' = Available
<1>1. Ids' = Ids /\ Allocated' = Allocated
  BY DEF Ids, Allocated, AmountIn
<1>2. Unused' = Unused
  BY <1>1 DEF Unused
<1>3. Total(Ids)' = Total(Ids) /\ Total(reversals)' = Total(reversals)
  BY <1>1 DEF Total, AmountOf
<1> QED
  BY <1>1, <1>2, <1>3 DEF Available

SameAmounts ==
  /\ DOMAIN payouts' = DOMAIN payouts
  /\ \A p \in DOMAIN payouts : payouts'[p].key = payouts[p].key /\ payouts'[p].amount = payouts[p].amount

LEMMA SamePromises ==
  ASSUME SameAmounts
  PROVE  Promised' = Promised
<1>1. \A k : PayoutOf(k)' = PayoutOf(k) /\ PayoutOf(k) \subseteq DOMAIN payouts
  BY DEF PayoutOf, SameAmounts
<1>2. \A k : [p \in PayoutOf(k) |-> payouts[p].amount]' = [p \in PayoutOf(k) |-> payouts[p].amount]
  BY <1>1 DEF SameAmounts
<1>3. \A k : SumFunction([p \in PayoutOf(k) |-> payouts[p].amount]') = SumFunction([p \in PayoutOf(k) |-> payouts[p].amount])
  BY <1>2
<1> QED
  BY <1>3 DEF Promised

(* A handler goes on, and no sum changes.                                  *)
LEMMA HandlerMoney ==
  ASSUME IInv, MoneyInv, UNCHANGED <<ledger, reversals, alloc, events, acked>>, SameAmounts,
         NEW h \in Handlers, NEW local, Becomes(h, local), Funded(local)
  PROVE  MoneyInv'
<1>1. Ids' = Ids /\ Allocated' = Allocated /\ Available' = Available /\ Promised' = Promised
  BY SameBalance, SamePromises
<1>2. Booked'
  BY <1>1 DEF MoneyInv, Booked, SameAmounts
<1>3. \A q \in Handlers : Funded(tx[q])'
  <2> SUFFICES ASSUME NEW q \in Handlers PROVE Funded(tx[q])'
    OBVIOUS
  <2>1. Funded(tx'[q])
    BY Others DEF IInv, MoneyInv
  <2>2. Covered(tx'[q]) => Covered(tx[q])'
    BY <1>1 DEF Covered, AmountIn
  <2> QED
    BY <2>1, <2>2 DEF Funded
<1>4. ExactAllocation'
  <2>1. ExactAllocation
    BY DEF MoneyInv
  <2>2. \A p \in DOMAIN payouts : payouts'[p].amount = AmountIn({a \in alloc : a.payout = p})
    BY <2>1 DEF ExactAllocation, SameAmounts
  <2> QED
    BY <2>2 DEF ExactAllocation, SameAmounts, AmountIn
<1> QED
  BY <1>1, <1>2, <1>3, <1>4 DEF MoneyInv

LEMMA IdleFunded == Funded(Idle)
BY DEF Funded, Idle

LEMMA EndsMoney ==
  ASSUME IInv, MoneyInv, UNCHANGED <<rows, stripe>>, NEW h \in Handlers, Ends(h)
  PROVE  MoneyInv'
<1>1. UNCHANGED <<ledger, reversals, alloc, events, acked>> /\ SameAmounts /\ Becomes(h, Idle)
  BY DEF rows, stripe, SameAmounts, Ends
<1> QED
  BY <1>1, IdleFunded, HandlerMoney

LEMMA LockMoney ==
  ASSUME IInv, MoneyInv, NEW h \in Handlers, LockProgram(h)
  PROVE  MoneyInv'
<1>1. UNCHANGED <<rows, stripe>>
  BY DEF LockProgram
<1>2. CASE Ends(h)
  BY <1>1, <1>2, EndsMoney
<1>3. CASE ~Ends(h)
  <2> DEFINE amount == tx[h].amount
             local == [pc |-> "commit", key |-> tx[h].key, amount |-> amount,
                       takes |-> Takes(amount)]
  <2>1. /\ At(h, "request") /\ ~(amount > Available) /\ ~(amount > Total(Unused))
        /\ Becomes(h, local)
    BY <1>3 DEF LockProgram
  <2>2. amount \in Requests /\ amount \in Nat /\ amount >= MinPayout /\ ledger \in Seq(Charges)
    BY <2>1, LedgerAssumption DEF IInv, LedgerTypes, Parts, MoneyInv, Funded, At
  <2>3. Total(Unused) \in Nat /\ Total(Ids) \in Nat /\ Total(reversals) \in Nat /\ Allocated \in Nat
    <3>1. Unused \subseteq Ids /\ reversals \subseteq Ids /\ IsFiniteSet(alloc)
          /\ \A a \in alloc : a.amount \in Nat
      BY DEF Unused, MoneyInv, Booked
    <3> QED
      BY <2>2, <3>1, TotalIs, AmountIs DEF Allocated
  <2>4. amount <= Available /\ amount <= Total(Unused)
    BY <2>1, <2>2, <2>3 DEF Available
  <2>5. /\ IsFiniteSet(Takes(amount)) /\ AmountIn(Takes(amount)) = amount
        /\ \A a \in Takes(amount) : a.commission \in Ids /\ a.amount \in Nat \ {0}
    <3>1. Storable(Takes(amount))
      BY <1>3 DEF LockProgram
    <3> QED
      BY <2>2, <2>4, <3>1, TakesAddUp DEF Storable
  <2>6. local.pc = "commit" /\ local.amount = amount /\ local.takes = Takes(amount)
    OBVIOUS
  <2> HIDE DEF local, amount
  <2>7. Funded(local)
    BY <2>2, <2>4, <2>5, <2>6 DEF Funded, Covered
  <2>8. UNCHANGED <<ledger, reversals, alloc, events, acked>> /\ SameAmounts
    BY <1>1 DEF rows, stripe, SameAmounts
  <2> QED
    BY <2>1, <2>7, <2>8, HandlerMoney
<1> QED
  BY <1>2, <1>3

LEMMA BeginMoney ==
  ASSUME IInv, MoneyInv, NEW h \in Handlers, Begin(h)
  PROVE  MoneyInv'
<1>1. UNCHANGED <<ledger, reversals, alloc, events, acked>> /\ SameAmounts
  BY DEF Begin, RequestPayout, LoadRequested, LoadApproved, rows, stripe, SameAmounts
<1>2. ASSUME NEW k \in Keys, NEW amount \in Requests, RequestPayout(h, k, amount)
      PROVE  MoneyInv'
  <2> DEFINE local == [pc |-> "request", key |-> k, amount |-> amount]
  <2>1. Funded(local) /\ Becomes(h, local)
    BY <1>2 DEF RequestPayout, Funded
  <2> HIDE DEF local
  <2> QED
    BY <1>1, <2>1, HandlerMoney
<1>3. ASSUME NEW p \in DOMAIN payouts, LoadRequested(h, p) PROVE MoneyInv'
  <2> DEFINE local == [pc |-> "approve", payout |-> p]
  <2>1. Funded(local) /\ Becomes(h, local)
    BY <1>3 DEF LoadRequested, Funded
  <2> HIDE DEF local
  <2> QED
    BY <1>1, <2>1, HandlerMoney
<1>4. ASSUME NEW p \in DOMAIN payouts, NEW r \in Refs, LoadApproved(h, p, r) PROVE MoneyInv'
  <2> DEFINE local == [pc |-> "pay", payout |-> p, ref |-> r]
  <2>1. Funded(local) /\ Becomes(h, local)
    BY <1>4 DEF LoadApproved, Funded
  <2> HIDE DEF local
  <2> QED
    BY <1>1, <2>1, HandlerMoney
<1> QED
  BY <1>2, <1>3, <1>4 DEF Begin

LEMMA StatusKeepsAmounts ==
  ASSUME IInv, NEW h \in Handlers, CommitApprove(h) \/ CommitPay(h)
  PROVE  SameAmounts
<1> DEFINE p == tx[h].payout
<1>1. payouts \in Seq(Payout) /\ p \in DOMAIN payouts /\ payouts[p] \in Payout
  <2>1. payouts \in Seq(Payout) /\ p \in 1..Len(payouts)
    BY DEF CommitApprove, CommitPay, At, IInv, LedgerTypes, Parts
  <2> QED
    BY <2>1
<1>2. CASE CommitApprove(h)
  <2> DEFINE new == [payouts[p] EXCEPT !.status = "approved"]
  <2>1. payouts' = [payouts EXCEPT ![p] = new]
    BY <1>2 DEF CommitApprove
  <2>2. new.key = payouts[p].key /\ new.amount = payouts[p].amount
    BY <1>1 DEF Payout
  <2> HIDE DEF new, p
  <2> QED
    BY <1>1, <2>1, <2>2 DEF SameAmounts
<1>3. CASE CommitPay(h) /\ payouts' # payouts
  <2> DEFINE new == [payouts[p] EXCEPT !.status = "paid", !.ref = tx[h].ref]
  <2>1. payouts' = [payouts EXCEPT ![p] = new]
    BY <1>3 DEF CommitPay
  <2>2. new.key = payouts[p].key /\ new.amount = payouts[p].amount
    BY <1>1 DEF Payout
  <2> HIDE DEF new, p
  <2> QED
    BY <1>1, <2>1, <2>2 DEF SameAmounts
<1>4. CASE payouts' = payouts
  BY <1>4 DEF SameAmounts
<1> QED
  BY <1>2, <1>3, <1>4

LEMMA StatusMoney ==
  ASSUME IInv, MoneyInv, NEW h \in Handlers, CommitApprove(h) \/ CommitPay(h)
  PROVE  MoneyInv'
<1>1. UNCHANGED <<ledger, reversals, alloc, events, acked>> /\ Becomes(h, Idle)
  BY DEF CommitApprove, CommitPay, Ends, stripe
<1>2. SameAmounts
  BY StatusKeepsAmounts
<1> QED
  BY <1>1, <1>2, IdleFunded, HandlerMoney

(* While the lock is free nobody relies on the balance.                    *)
LEMMA FreeMoney ==
  ASSUME IInv, MoneyInv, UNCHANGED <<payouts, alloc, tx>>, LockFree \/ UNCHANGED <<ledger, reversals>>,
         Booked'
  PROVE  MoneyInv'
<1>1. Allocated' = Allocated
  BY DEF Allocated, AmountIn
<1>2. Promised' = Promised
  BY SamePromises DEF SameAmounts
<1>3. ExactAllocation'
  BY DEF MoneyInv, ExactAllocation, AmountIn
<1>4. \A h \in Handlers : Funded(tx[h])'
  <2> SUFFICES ASSUME NEW h \in Handlers PROVE Funded(tx[h])'
    OBVIOUS
  <2>1. Funded(tx[h]) /\ tx'[h] = tx[h]
    BY DEF MoneyInv
  <2>2. CASE LockFree
    BY <2>1, <2>2 DEF Funded, LockFree, At
  <2>3. CASE UNCHANGED <<ledger, reversals>>
    <3>1. Ids' = Ids /\ Available' = Available
      BY <2>3, SameBalance
    <3>2. Covered(tx[h]) => Covered(tx[h])'
      BY <2>1, <3>1 DEF Covered, AmountIn
    <3> QED
      BY <2>1, <3>2 DEF Funded
  <2> QED
    BY <2>2, <2>3
<1> QED
  BY <1>1, <1>2, <1>3, <1>4 DEF MoneyInv

LEMMA CreateMoney ==
  ASSUME IInv, MoneyInv, NEW c \in Charges, CreateCommission(c)
  PROVE  MoneyInv'
<1>1. ledger \in Seq(Charges) /\ ledger' = Append(ledger, c) /\ LockFree
      /\ UNCHANGED <<reversals, payouts, alloc, tx, events, acked>>
  BY DEF CreateCommission, IInv, LedgerTypes, stripe
<1>2. Ids \subseteq Ids'
  BY <1>1 DEF Ids
<1>3. Booked'
  BY <1>1, <1>2 DEF MoneyInv, Booked
<1> QED
  BY <1>1, <1>3, FreeMoney

LEMMA EventMoney ==
  ASSUME IInv, MoneyInv, NEW e \in Events, StripeEvent(e) \/ HandleRefund(e)
  PROVE  MoneyInv'
<1>1. UNCHANGED <<ledger, payouts, alloc, tx>> /\ (LockFree \/ UNCHANGED reversals)
  BY DEF StripeEvent, HandleRefund, rows
<1>2. reversals' \subseteq Ids
  BY DEF StripeEvent, HandleRefund, rows, MoneyInv, Booked
<1>3. events' \subseteq Events /\ acked' \subseteq events'
  BY DEF StripeEvent, HandleRefund, MoneyInv, Booked
<1>4. Booked'
  BY <1>1, <1>2, <1>3 DEF MoneyInv, Booked, Ids
<1> QED
  BY <1>1, <1>4, FreeMoney

(* A payout adds its own allocations to those there are, and its amount to *)
(* what was promised.                                                      *)
LEMMA SumSingle ==
  ASSUME NEW f, NEW x, f[x] \in Nat
  PROVE  SumFunctionOnSet(f, {x}) = f[x]
<1>1. SumFunctionOnSet(f, {} \cup {x}) = SumFunctionOnSet(f, {}) + f[x]
  BY SumAdd, FS_EmptySet
<1>2. SumFunctionOnSet(f, {}) = 0 /\ {} \cup {x} = {x}
  BY SumEmpty
<1> QED
  BY <1>1, <1>2

(* Adding to one place of a function adds to its sum.                      *)
LEMMA SumAddAt ==
  ASSUME NEW S, IsFiniteSet(S), NEW f \in [S -> Nat], NEW k \in S, NEW n \in Nat, f[k] = 0
  PROVE  SumFunction([f EXCEPT ![k] = n]) = SumFunction(f) + n
<1> DEFINE g == [f EXCEPT ![k] = n]
           T == S \ {k}
<1>1. DOMAIN f = S /\ DOMAIN g = S /\ g[k] = n /\ \A x \in T : g[x] = f[x] /\ f[x] \in Nat
  OBVIOUS
<1>2. \A x \in S : g[x] \in Nat /\ f[x] \in Nat
  OBVIOUS
<1>3. IsFiniteSet(T)
  BY FS_Subset
<1> HIDE DEF g
<1>4. SumFunctionOnSet(g, S) = g[k] + SumFunctionOnSet(g, S \ {k})
  BY <1>2, SumRemove
<1>5. SumFunctionOnSet(f, S) = f[k] + SumFunctionOnSet(f, S \ {k})
  BY <1>2, SumRemove
<1>6. SumFunctionOnSet(g, T) = SumFunctionOnSet(f, T) /\ SumFunctionOnSet(f, T) \in Nat
  <2> HIDE DEF T
  <2> QED
    BY <1>1, <1>3, SumSame, SumNat
<1>7. SumFunctionOnSet(g, S) = SumFunctionOnSet(f, S) + n
  BY <1>1, <1>4, <1>5, <1>6
<1>8. SumFunction(g) = SumFunction(f) + n
  BY <1>1, <1>7 DEF SumFunction
<1> QED
  BY <1>8 DEF g

NewAllocations(n, takes) ==
  {[payout |-> n, commission |-> a.commission, amount |-> a.amount] : a \in takes}

LEMMA NewAmounts ==
  ASSUME NEW n, NEW takes, IsFiniteSet(takes), \A a \in takes : a.amount \in Nat \ {0},
         \A a, b \in takes : a.commission = b.commission => a = b
  PROVE  /\ IsFiniteSet(NewAllocations(n, takes))
         /\ AmountIn(NewAllocations(n, takes)) = AmountIn(takes)
         /\ \A b \in NewAllocations(n, takes) : b.payout = n /\ b.amount \in Nat \ {0}
<1> DEFINE N == NewAllocations(n, takes)
           h == [a \in takes |-> [payout |-> n, commission |-> a.commission, amount |-> a.amount]]
           f == [a \in takes |-> a.amount]
           g == [b \in N |-> b.amount]
<1>1. N = ImageOf(h, takes)
  BY DEF NewAllocations, ImageOf
<1>2. \A a \in takes : h[a] \in N /\ h[a].amount = a.amount /\ h[a].commission = a.commission /\ h[a].payout = n
  BY <1>1 DEF ImageOf
<1>3. \A a \in takes : g[h[a]] = f[a] /\ f[a] \in Nat
  BY <1>2
<1>4. \A a, b \in takes : h[a] = h[b] => a = b
  BY <1>2
<1>5. \A b \in N : \E a \in takes : b = h[a]
  BY <1>1 DEF ImageOf
<1>6. \A b \in N : b.payout = n /\ b.amount \in Nat \ {0}
  <2> HIDE DEF h, N
  <2> QED
    BY <1>2, <1>5
<1>7. AmountIn(N) = SumFunctionOnSet(g, N) /\ AmountIn(takes) = SumFunctionOnSet(f, takes)
  BY DEF AmountIn, SumFunction
<1> HIDE DEF h, f, g, N
<1>8. IsFiniteSet(ImageOf(h, takes)) /\ SumFunctionOnSet(g, ImageOf(h, takes)) = SumFunctionOnSet(f, takes)
  BY <1>3, <1>4, SumImage
<1>9. IsFiniteSet(N) /\ AmountIn(N) = AmountIn(takes)
  BY <1>1, <1>7, <1>8
<1> QED
  BY <1>6, <1>9 DEF N

(* What a payout adds: the rest is as it was.                              *)
LEMMA CommitRows ==
  ASSUME IInv, MoneyInv, NEW h \in Handlers, CommitPayout(h)
  PROVE  /\ At(h, "commit") /\ tx[h].key \in Keys /\ tx[h].amount \in Requests /\ tx[h].amount \in Nat
         /\ tx[h].amount >= MinPayout /\ Covered(tx[h]) /\ ~KeyUsed(tx[h].key)
         /\ FreshTakes(tx[h].takes) /\ Becomes(h, Idle)
         /\ UNCHANGED <<ledger, reversals, events, acked>>
         /\ payouts \in Seq(Payout) /\ payouts' \in Seq(Payout)
         /\ DOMAIN payouts' = DOMAIN payouts \cup {Len(payouts) + 1}
         /\ Len(payouts) + 1 \notin DOMAIN payouts
         /\ \A p \in DOMAIN payouts : payouts'[p] = payouts[p]
         /\ payouts'[Len(payouts) + 1].key = tx[h].key
         /\ payouts'[Len(payouts) + 1].amount = tx[h].amount
         /\ alloc' = alloc \cup NewAllocations(Len(payouts) + 1, tx[h].takes)
<1> DEFINE row == [key |-> tx[h].key, amount |-> tx[h].amount,
                   status |-> "requested", ref |-> NoRef]
<1>1. /\ tx[h].pc = "commit" /\ payouts' = Append(payouts, row) /\ Becomes(h, Idle)
      /\ alloc' = alloc \cup NewAllocations(Len(payouts) + 1, tx[h].takes)
      /\ UNCHANGED <<ledger, reversals, events, acked>>
  BY DEF CommitPayout, At, Ends, NewAllocations, stripe
<1>2. ~KeyUsed(tx[h].key) /\ FreshTakes(tx[h].takes)
  BY <1>1 DEF IInv, LedgerInv, At
<1>3. tx[h].key \in Keys /\ tx[h].amount \in Requests /\ tx[h].amount \in Nat /\ payouts \in Seq(Payout)
  BY <1>1, LedgerAssumption DEF IInv, LedgerTypes, Parts
<1>4. tx[h].amount >= MinPayout /\ Covered(tx[h])
  BY <1>1 DEF MoneyInv, Funded
<1>5. row \in Payout /\ row.key = tx[h].key /\ row.amount = tx[h].amount
  BY <1>3 DEF Payout
<1> HIDE DEF row
<1>6. /\ payouts' \in Seq(Payout) /\ Len(payouts) \in Nat
      /\ DOMAIN payouts' = DOMAIN payouts \cup {Len(payouts) + 1}
      /\ \A p \in DOMAIN payouts : payouts'[p] = payouts[p]
      /\ payouts'[Len(payouts) + 1] = row
      /\ DOMAIN payouts = 1..Len(payouts)
  BY <1>1, <1>3, <1>5
<1> QED
  BY <1>1, <1>2, <1>3, <1>4, <1>5, <1>6 DEF At

(* The payout's key is promised its amount, every other key what it was.   *)
LEMMA CommitPromises ==
  ASSUME IInv, MoneyInv, NEW h \in Handlers, CommitPayout(h)
  PROVE  /\ Promised \in [Keys -> Nat] /\ Promised[tx[h].key] = 0
         /\ Promised' = [Promised EXCEPT ![tx[h].key] = tx[h].amount]
<1>0. PICK key, amount, n : key = tx[h].key /\ amount = tx[h].amount /\ n = Len(payouts) + 1
  OBVIOUS
<1>1. /\ key \in Keys /\ amount \in Nat /\ ~KeyUsed(key)
      /\ payouts \in Seq(Payout) /\ payouts' \in Seq(Payout)
      /\ DOMAIN payouts' = DOMAIN payouts \cup {n} /\ n \notin DOMAIN payouts
      /\ \A p \in DOMAIN payouts : payouts'[p] = payouts[p]
      /\ payouts'[n].key = key /\ payouts'[n].amount = amount
  BY <1>0, CommitRows
<1>2. \A k : PayoutOf(k) \subseteq DOMAIN payouts
  BY DEF PayoutOf
<1>3. \A k \in Keys : SumFunction([p \in PayoutOf(k) |-> payouts[p].amount]) \in Nat
  BY <1>1, <1>2, PromisedIs
<1>4. Promised \in [Keys -> Nat]
  BY <1>3 DEF Promised
<1>5. Promised[key] = 0
  <2>1. PayoutOf(key) = {}
    BY <1>1 DEF PayoutOf, KeyUsed
  <2>2. SumFunction([p \in {} |-> payouts[p].amount]) = 0
    BY SumEmpty DEF SumFunction
  <2> QED
    BY <1>1, <2>1, <2>2 DEF Promised
<1>6. Promised'[key] = amount
  <2> DEFINE f == [p \in {n} |-> payouts'[p].amount]
  <2>1. PayoutOf(key)' = {n}
    <3>1. \A p \in DOMAIN payouts : payouts'[p].key # key
      BY <1>1 DEF KeyUsed
    <3>2. \A p \in DOMAIN payouts' : payouts'[p].key = key <=> p = n
      BY <1>1, <3>1
    <3>3. {p \in DOMAIN payouts' : payouts'[p].key = key} = {n}
      BY <1>1, <3>2
    <3>4. PayoutOf(key)' = {p \in DOMAIN payouts' : payouts'[p].key = key}
      BY DEF PayoutOf
    <3> QED
      BY <3>3, <3>4
  <2>2. f[n] = amount /\ SumFunction(f) = SumFunctionOnSet(f, {n})
    BY <1>1 DEF SumFunction
  <2>3. Promised'[key] = SumFunction(f)
    <3>1. [p \in PayoutOf(key) |-> payouts[p].amount]' = f
      BY <2>1
    <3>2. SumFunction([p \in PayoutOf(key) |-> payouts[p].amount]') = SumFunction(f)
      BY <3>1
    <3> QED
      BY <1>1, <3>2 DEF Promised
  <2> HIDE DEF f
  <2>4. SumFunctionOnSet(f, {n}) = f[n]
    BY <1>1, <2>2, SumSingle
  <2> QED
    BY <2>2, <2>3, <2>4
<1>7. ASSUME NEW k \in Keys, k # key PROVE Promised'[k] = Promised[k]
  <2>1. PayoutOf(k)' = PayoutOf(k)
    BY <1>1, <1>7 DEF PayoutOf
  <2>2. [p \in PayoutOf(k) |-> payouts[p].amount]' = [p \in PayoutOf(k) |-> payouts[p].amount]
    BY <1>1, <1>2, <2>1
  <2>3. SumFunction([p \in PayoutOf(k) |-> payouts[p].amount]') = SumFunction([p \in PayoutOf(k) |-> payouts[p].amount])
    BY <2>2
  <2> QED
    BY <2>3 DEF Promised
<1>8. Promised' = [k \in Keys |-> Promised'[k]]
  BY DEF Promised
<1>9. Promised' = [Promised EXCEPT ![key] = amount]
  BY <1>1, <1>4, <1>6, <1>7, <1>8
<1> QED
  BY <1>0, <1>4, <1>5, <1>9

LEMMA CommitMoney ==
  ASSUME IInv, MoneyInv, NEW h \in Handlers, CommitPayout(h)
  PROVE  MoneyInv'
<1> DEFINE n == Len(payouts) + 1
           takes == tx[h].takes
           amount == tx[h].amount
           new == NewAllocations(n, takes)
<1>1. /\ At(h, "commit") /\ tx[h].key \in Keys /\ amount \in Nat
      /\ Covered(tx[h]) /\ FreshTakes(takes) /\ Becomes(h, Idle)
      /\ UNCHANGED <<ledger, reversals, events, acked>>
      /\ DOMAIN payouts' = DOMAIN payouts \cup {n} /\ n \notin DOMAIN payouts
      /\ \A p \in DOMAIN payouts : payouts'[p] = payouts[p]
      /\ payouts'[n].amount = amount
      /\ alloc' = alloc \cup new
  BY CommitRows
<1>2. /\ IsFiniteSet(new) /\ AmountIn(new) = amount
      /\ \A b \in new : b.payout = n /\ b.amount \in Nat \ {0}
  <2>1. IsFiniteSet(takes) /\ AmountIn(takes) = amount /\ \A a \in takes : a.amount \in Nat \ {0}
    BY <1>1 DEF Covered
  <2>2. \A a, b \in takes : a.commission = b.commission => a = b
    BY <1>1 DEF FreshTakes
  <2> HIDE DEF takes, n, amount
  <2>3. AmountIn(NewAllocations(n, takes)) = AmountIn(takes) /\ IsFiniteSet(NewAllocations(n, takes))
        /\ \A b \in NewAllocations(n, takes) : b.payout = n /\ b.amount \in Nat \ {0}
    BY <2>1, <2>2, NewAmounts
  <2> QED
    BY <2>1, <2>3
<1>3. IsFiniteSet(alloc) /\ \A a \in alloc : a.payout \in DOMAIN payouts /\ a.amount \in Nat \ {0}
  BY DEF MoneyInv, Booked
<1> HIDE DEF new, n, takes, amount
<1>4. alloc \cap new = {}
  BY <1>1, <1>2, <1>3
<1>5. Booked'
  <2>1. IsFiniteSet(alloc')
    BY <1>1, <1>2, <1>3, FS_Union
  <2>2. \A a \in alloc' : a.payout \in DOMAIN payouts' /\ a.amount \in Nat \ {0}
    BY <1>1, <1>2, <1>3
  <2> QED
    BY <1>1, <2>1, <2>2 DEF MoneyInv, Booked, Ids
<1>6. \A q \in Handlers : Funded(tx[q])'
  <2> SUFFICES ASSUME NEW q \in Handlers PROVE Funded(tx[q])'
    OBVIOUS
  <2>1. CASE q = h
    <3>1. tx'[q] = Idle
      BY <1>1, <2>1, Others DEF IInv
    <3> QED
      BY <3>1 DEF Funded, Idle
  <2>2. CASE q # h
    <3>1. tx'[q] = tx[q] /\ tx[q].pc # "commit" /\ Funded(tx[q])
      BY <1>1, <2>2, Others DEF IInv, LedgerInv, At, MoneyInv
    <3> QED
      BY <3>1 DEF Funded
  <2> QED
    BY <2>1, <2>2
<1>7. ExactAllocation'
  <2> SUFFICES ASSUME NEW p \in DOMAIN payouts'
               PROVE  payouts'[p].amount = AmountIn({a \in alloc' : a.payout = p})
    BY DEF ExactAllocation, AmountIn
  <2>1. CASE p \in DOMAIN payouts
    <3>1. {a \in alloc' : a.payout = p} = {a \in alloc : a.payout = p}
      BY <1>1, <1>2, <2>1
    <3>2. payouts[p].amount = AmountIn({a \in alloc : a.payout = p})
      BY <2>1 DEF MoneyInv, ExactAllocation
    <3> QED
      BY <1>1, <2>1, <3>1, <3>2
  <2>2. CASE p = n
    <3>1. {a \in alloc' : a.payout = p} = new
      BY <1>1, <1>2, <1>3, <2>2
    <3> QED
      BY <1>1, <1>2, <2>2, <3>1
  <2> QED
    BY <1>1, <2>1, <2>2
<1>8. Allocated' = SumFunction(Promised)'
  <2>1. Allocated' = Allocated + amount
    <3>1. AmountIn(alloc \cup new) = AmountIn(alloc) + AmountIn(new)
      BY <1>2, <1>3, <1>4, AmountUnion
    <3>2. Allocated' = AmountIn(alloc')
      BY DEF Allocated, AmountIn
    <3> QED
      BY <1>1, <1>2, <3>1, <3>2 DEF Allocated
  <2>2. SumFunction(Promised') = SumFunction(Promised) + amount
    <3>1. /\ Promised \in [Keys -> Nat] /\ Promised[tx[h].key] = 0
          /\ Promised' = [Promised EXCEPT ![tx[h].key] = amount]
      BY CommitPromises DEF amount
    <3>2. IsFiniteSet(Keys)
      BY LedgerAssumption
    <3> QED
      BY <1>1, <3>1, <3>2, SumAddAt
  <2> QED
    BY <2>1, <2>2 DEF MoneyInv
<1> QED
  BY <1>5, <1>6, <1>7, <1>8 DEF MoneyInv

LEMMA MoneyInit == Init => MoneyInv
<1> SUFFICES ASSUME Init PROVE MoneyInv
  OBVIOUS
<1>1. payouts = <<>> /\ alloc = {} /\ \A h \in Handlers : tx[h] = Idle
  BY DEF Init
<1>2. Booked
  BY <1>1, FS_EmptySet DEF Init, Booked, Ids
<1>3. ExactAllocation
  BY <1>1 DEF ExactAllocation
<1>4. Allocated = 0
  BY <1>1, SumEmpty DEF Allocated, AmountIn, SumFunction
<1>5. SumFunction(Promised) = 0
  <2>1. \A k : PayoutOf(k) = {}
    BY <1>1 DEF PayoutOf
  <2>2. SumFunction([p \in {} |-> payouts[p].amount]) = 0
    BY SumEmpty DEF SumFunction
  <2>3. Promised = [k \in Keys |-> 0]
    BY <2>1, <2>2 DEF Promised
  <2> DEFINE G == {s \in SUBSET Keys : SumFunctionOnSet(Promised, s) = 0}
  <2>4. {} \in G
    BY SumEmpty
  <2>5. ASSUME NEW s \in SUBSET Keys, NEW x \in Keys \ s, s \in G PROVE s \cup {x} \in G
    <3>1. IsFiniteSet(s) /\ \A k \in s \cup {x} : Promised[k] = 0
      BY <2>3, FS_Subset, LedgerAssumption
    <3>2. SumFunctionOnSet(Promised, s \cup {x}) = SumFunctionOnSet(Promised, s) + Promised[x]
      BY <3>1, SumAdd
    <3> QED
      BY <2>5, <3>1, <3>2
  <2> HIDE DEF G
  <2>6. Keys \in G
    BY <2>4, <2>5, Adding, LedgerAssumption
  <2> QED
    BY <2>3, <2>6 DEF G, SumFunction
<1> QED
  BY <1>1, <1>2, <1>3, <1>4, <1>5, IdleFunded DEF MoneyInv

LEMMA MoneyStep == IInv /\ MoneyInv /\ [Next]_vars => MoneyInv'
<1> SUFFICES ASSUME IInv, MoneyInv, [Next]_vars PROVE MoneyInv'
  OBVIOUS
<1>1. CASE UNCHANGED vars
  <2>1. UNCHANGED <<payouts, alloc, tx, ledger, reversals, events, acked>>
    BY <1>1 DEF vars, rows, stripe
  <2>2. Booked'
    BY <2>1 DEF MoneyInv, Booked, Ids
  <2> QED
    BY <2>1, <2>2, FreeMoney
<1>2. ASSUME NEW h \in Handlers, Begin(h) \/ Advance(h) \/ Crash(h) PROVE MoneyInv'
  BY <1>2, BeginMoney, LockMoney, CommitMoney, StatusMoney, EndsMoney DEF Advance, Crash
<1> QED
  BY <1>1, <1>2, CreateMoney, EventMoney DEF Next

LEMMA MoneyInvariant == Spec => [](IInv /\ MoneyInv)
BY InitInv, StepInv, MoneyInit, MoneyStep, PTL DEF Spec

(* ExactAllocation for every program: with any commissions and requests,   *)
(* refunds and crashes in between, the allocations of a payout add up to   *)
(* its amount.                                                             *)
THEOREM PayoutsAreExact == Spec => []ExactAllocation
<1>1. IInv /\ MoneyInv => ExactAllocation
  BY DEF MoneyInv
<1> QED
  BY <1>1, MoneyInvariant, PTL

(* TypeOK: every allocation refers to a payout and a commission there are, *)
(* and is of a positive amount.                                            *)
THEOREM TypeCorrect == Spec => []TypeOK
<1>1. IInv /\ MoneyInv => TypeOK
  <2> SUFFICES ASSUME IInv, MoneyInv PROVE TypeOK
    OBVIOUS
  <2>1. /\ ledger \in Seq(Charges) /\ payouts \in Seq(Payout)
        /\ \A a \in alloc : a.commission \in Ids
        /\ \A h \in Handlers : Parts(tx[h], Len(payouts)) /\ Funded(tx[h])
    BY DEF IInv, LedgerTypes, MoneyInv
  <2>2. reversals \subseteq Ids /\ events \subseteq Events /\ acked \subseteq events
        /\ \A a \in alloc : a.payout \in DOMAIN payouts /\ a.amount \in Nat \ {0}
    BY DEF MoneyInv, Booked
  <2>3. payouts \in Seq([key : Keys, amount : Nat, ref : Refs \cup {NoRef},
                         status : {"requested", "approved", "paid"}])
    <3>1. Payout \subseteq [key : Keys, amount : Nat, ref : Refs \cup {NoRef},
                            status : {"requested", "approved", "paid"}]
      BY LedgerAssumption DEF Payout
    <3>2. \A S, T : S \subseteq T => Seq(S) \subseteq Seq(T)
      OBVIOUS
    <3> QED
      BY <2>1, <3>1, <3>2
  <2>4. 1..Len(payouts) = DOMAIN payouts
    BY <2>1
  <2>5. ASSUME NEW h \in Handlers
        PROVE  \/ tx[h] = Idle
               \/ At(h, "request") /\ tx[h].key \in Keys /\ tx[h].amount \in Requests
               \/ At(h, "commit") /\ tx[h].key \in Keys /\ tx[h].amount \in Requests
                  /\ \A a \in tx[h].takes : a.commission \in Ids /\ a.amount \in Nat \ {0}
               \/ At(h, "approve") /\ tx[h].payout \in DOMAIN payouts
               \/ At(h, "pay") /\ tx[h].payout \in DOMAIN payouts /\ tx[h].ref \in Refs
    BY <2>1, <2>4 DEF Parts, Funded, Covered, At
  <2> QED
    BY <2>1, <2>2, <2>3, <2>5 DEF TypeOK
<1> QED
  BY <1>1, MoneyInvariant, PTL

-----------------------------------------------------------------------------
(***************************************************************************)
(* The purse.                                                              *)
(***************************************************************************)

LEMMA PurseSum == \A f : OwnersPurse!SumFunction(f) = SumFunction(f)
BY Zenon DEF OwnersPurse!SumFunction, OwnersPurse!SumFunctionOnSet, OwnersPurse!FoldFunctionOnSet,
   OwnersPurse!MapThenFoldSet, SumFunction, SumFunctionOnSet, FoldFunctionOnSet, MapThenFoldSet

LEMMA PurseIs ==
  /\ OwnersPurse!purseVars = <<Total(Ids), Total(reversals), Promised>>
  /\ OwnersPurse!Balance = Total(Ids) - Total(reversals) - SumFunction(Promised)
BY PurseSum DEF OwnersPurse!purseVars, OwnersPurse!Balance, Promised

LEMMA PurseInit == Init => OwnersPurse!Init
<1> SUFFICES ASSUME Init PROVE OwnersPurse!Init
  OBVIOUS
<1>1. Ids = {} /\ reversals = {} /\ payouts = <<>>
  BY DEF Init, Ids
<1>2. Total({}) = 0 /\ SumFunction([p \in {} |-> payouts[p].amount]) = 0
  BY SumEmpty DEF Total, SumFunction
<1>3. \A k : PayoutOf(k) = {}
  BY <1>1 DEF PayoutOf
<1> QED
  BY <1>1, <1>2, <1>3 DEF OwnersPurse!Init

LEMMA PurseStutters ==
  ASSUME UNCHANGED <<ledger, reversals>>, SameAmounts
  PROVE  UNCHANGED OwnersPurse!purseVars
<1>1. Total(Ids)' = Total(Ids) /\ Total(reversals)' = Total(reversals)
  BY DEF Total, AmountOf, Ids
<1>2. Promised' = Promised
  BY SamePromises
<1> QED
  BY <1>1, <1>2 DEF OwnersPurse!purseVars, Promised

(* A commission earns its amount, and what was refunded stays.             *)
WorthIn(l, ids) == SumFunction([i \in ids |-> Amount[l[i]]])

LEMMA MoreWorth ==
  ASSUME NEW l \in Seq(Charges), NEW c \in Charges, NEW m, m = Append(l, c)
  PROVE  /\ WorthIn(m, DOMAIN m) = WorthIn(l, DOMAIN l) + Amount[c]
         /\ \A ids \in SUBSET DOMAIN l : WorthIn(m, ids) = WorthIn(l, ids)
<1> DEFINE n == Len(l) + 1
<1>1. /\ m \in Seq(Charges) /\ DOMAIN m = DOMAIN l \cup {n} /\ n \notin DOMAIN l
      /\ m[n] = c /\ \A i \in DOMAIN l : m[i] = l[i]
  OBVIOUS
<1> HIDE DEF n
<1>2. ASSUME NEW ids \in SUBSET DOMAIN l
      PROVE  /\ SumFunction([i \in ids |-> Amount[m[i]]]) = SumFunction([i \in ids |-> Amount[l[i]]])
             /\ SumFunctionOnSet(WorthOf(m), ids) = SumFunction([i \in ids |-> Amount[l[i]]])
  <2>1. [i \in ids |-> Amount[m[i]]] = [i \in ids |-> Amount[l[i]]]
    BY <1>1
  <2>2. SumFunction([i \in ids |-> Amount[m[i]]]) = SumFunction([i \in ids |-> Amount[l[i]]])
    BY <2>1
  <2>3. SumFunction([i \in ids |-> Amount[m[i]]]) = SumFunctionOnSet(WorthOf(m), ids)
    <3>1. m \in Seq(Charges) /\ ids \in SUBSET DOMAIN m
      BY <1>1
    <3> QED
      BY <3>1, WorthIs
  <2> QED
    BY <2>2, <2>3
<1>3. IsFiniteSet(DOMAIN l)
  BY WorthIs
<1>4. \A i \in DOMAIN l \cup {n} : WorthOf(m)[i] \in Nat
  BY <1>1, WorthIs
<1>5. WorthOf(m)[n] = Amount[c]
  <2>1. n \in DOMAIN m /\ Amount[m[n]] = Amount[c]
    BY <1>1
  <2> QED
    BY <2>1 DEF WorthOf
<1>6. SumFunctionOnSet(WorthOf(m), DOMAIN l \cup {n}) = SumFunctionOnSet(WorthOf(m), DOMAIN l) + Amount[c]
  BY <1>1, <1>3, <1>4, <1>5, SumAdd
<1>7. SumFunction([i \in DOMAIN m |-> Amount[m[i]]]) = SumFunctionOnSet(WorthOf(m), DOMAIN m)
  <2>1. m \in Seq(Charges) /\ DOMAIN m \in SUBSET DOMAIN m
    BY <1>1
  <2> QED
    BY <2>1, WorthIs
<1>8. SumFunctionOnSet(WorthOf(m), DOMAIN l) = SumFunction([i \in DOMAIN l |-> Amount[l[i]]])
  BY <1>2
<1> QED
  BY <1>1, <1>2, <1>6, <1>7, <1>8 DEF WorthIn

LEMMA PurseEarns ==
  ASSUME IInv, MoneyInv, NEW c \in Charges, CreateCommission(c)
  PROVE  OwnersPurse!Earn(Amount[c])
<1>1. ledger \in Seq(Charges) /\ ledger' = Append(ledger, c)
      /\ UNCHANGED <<reversals, payouts>> /\ reversals \in SUBSET DOMAIN ledger
  BY DEF CreateCommission, IInv, LedgerTypes, MoneyInv, Booked, Ids
<1>2. /\ Total(Ids)' = WorthIn(ledger', DOMAIN ledger') /\ Total(Ids) = WorthIn(ledger, DOMAIN ledger)
      /\ Total(reversals)' = WorthIn(ledger', reversals') /\ Total(reversals) = WorthIn(ledger, reversals)
  BY DEF Total, AmountOf, Ids, WorthIn
<1>3. /\ WorthIn(ledger', DOMAIN ledger') = WorthIn(ledger, DOMAIN ledger) + Amount[c]
      /\ \A ids \in SUBSET DOMAIN ledger : WorthIn(ledger', ids) = WorthIn(ledger, ids)
  BY <1>1, MoreWorth
<1>4. Total(Ids)' = Total(Ids) + Amount[c]
  BY <1>2, <1>3
<1>5. Total(reversals)' = Total(reversals)
  BY <1>1, <1>2, <1>3
<1>6. Promised' = Promised
  BY <1>1, SamePromises DEF SameAmounts
<1> QED
  BY <1>4, <1>5, <1>6 DEF OwnersPurse!Earn, Promised

(* A reversal refunds what its commission earned, once.                    *)
LEMMA PurseRefunds ==
  ASSUME IInv, MoneyInv, NEW e \in Events, HandleRefund(e)
  PROVE  UNCHANGED OwnersPurse!purseVars \/ OwnersPurse!Refund(Amount[e[1]])
<1>1. UNCHANGED <<ledger, payouts>> /\ ledger \in Seq(Charges) /\ reversals \subseteq Ids
  BY DEF HandleRefund, IInv, LedgerTypes, MoneyInv, Booked
<1>2. CASE UNCHANGED reversals
  BY <1>1, <1>2, PurseStutters DEF SameAmounts
<1>3. CASE ~UNCHANGED reversals
  <2>1. PICK i \in Ids : ledger[i] = e[1] /\ i \notin reversals /\ reversals' = reversals \cup {i}
    BY <1>3 DEF HandleRefund, Reversible
  <2> DEFINE R == reversals \cup {i}
  <2>2. Ids' = Ids /\ R \subseteq Ids /\ Ids \subseteq Ids
    BY <1>1, <2>1 DEF Ids
  <2>3. IsFiniteSet(reversals) /\ IsFiniteSet(Ids) /\ \A j \in Ids : Worth[j] = AmountOf(j) /\ Worth[j] \in Nat
    BY <1>1, TotalIs
  <2>4. /\ Total(R) = SumFunctionOnSet(Worth, R)
        /\ Total(reversals) = SumFunctionOnSet(Worth, reversals)
        /\ Total(Ids) = SumFunctionOnSet(Worth, Ids)
    BY <1>1, <2>2, TotalIs
  <2>5. SumFunctionOnSet(Worth, reversals \cup {i}) = SumFunctionOnSet(Worth, reversals) + Worth[i]
    BY <2>1, <2>2, <2>3, SumAdd
  <2>6. SumFunctionOnSet(Worth, R) <= SumFunctionOnSet(Worth, Ids)
    <3> HIDE DEF R
    <3> QED
      BY <2>2, <2>3, SumPart
  <2>7. Worth[i] = Amount[e[1]]
    BY <2>1, <2>3 DEF AmountOf
  <2>8. Total(reversals)' = Total(R) /\ Total(Ids)' = Total(Ids)
    <3>1. Total(reversals)' = SumFunction([j \in R |-> Amount[ledger[j]]])
      BY <1>1, <2>1 DEF Total, AmountOf
    <3>2. Total(R) = SumFunction([j \in R |-> Amount[ledger[j]]])
      BY DEF Total, AmountOf
    <3>3. Total(Ids)' = Total(Ids)
      BY <1>1, <2>2 DEF Total, AmountOf
    <3> QED
      BY <3>1, <3>2, <3>3
  <2>9. Promised' = Promised
    BY <1>1, SamePromises DEF SameAmounts
  <2>10. Total(reversals) + Amount[e[1]] <= Total(Ids) /\ Total(reversals)' = Total(reversals) + Amount[e[1]]
    BY <2>4, <2>5, <2>6, <2>7, <2>8
  <2> QED
    BY <2>8, <2>9, <2>10 DEF OwnersPurse!Refund, Promised
<1> QED
  BY <1>2, <1>3

(* A payout is promised out of the balance, to a key that had none.        *)
LEMMA PursePromises ==
  ASSUME IInv, MoneyInv, NEW h \in Handlers, CommitPayout(h)
  PROVE  OwnersPurse!Promise(tx[h].key, tx[h].amount)
<1>1. /\ Promised \in [Keys -> Nat] /\ Promised[tx[h].key] = 0
      /\ Promised' = [Promised EXCEPT ![tx[h].key] = tx[h].amount]
  BY CommitPromises
<1>2. /\ tx[h].amount >= MinPayout /\ tx[h].amount <= Available /\ tx[h].amount \in Nat
      /\ UNCHANGED <<ledger, reversals>>
  BY CommitRows DEF Covered
<1>3. Available = OwnersPurse!Balance
  BY PurseIs DEF MoneyInv, Available
<1>4. Total(Ids)' = Total(Ids) /\ Total(reversals)' = Total(reversals)
  BY <1>2 DEF Total, AmountOf, Ids
<1>5. MinPayout <= tx[h].amount
  BY <1>2, LedgerAssumption
<1> QED
  BY <1>1, <1>2, <1>3, <1>4, <1>5 DEF OwnersPurse!Promise, Promised

LEMMA PurseStep == IInv /\ MoneyInv /\ [Next]_vars => [OwnersPurse!Next]_(OwnersPurse!purseVars)
<1> SUFFICES ASSUME IInv, MoneyInv, [Next]_vars
             PROVE  [OwnersPurse!Next]_(OwnersPurse!purseVars)
  OBVIOUS
<1>1. CASE UNCHANGED vars
  BY <1>1, PurseStutters DEF vars, rows, SameAmounts
<1>2. ASSUME NEW c \in Charges, CreateCommission(c)
      PROVE  OwnersPurse!Next
  BY <1>2, PurseEarns DEF OwnersPurse!Next
<1>3. ASSUME NEW e \in Events, StripeEvent(e)
      PROVE  UNCHANGED OwnersPurse!purseVars
  BY <1>3, PurseStutters DEF StripeEvent, rows, SameAmounts
<1>4. ASSUME NEW e \in Events, HandleRefund(e)
      PROVE  [OwnersPurse!Next]_(OwnersPurse!purseVars)
  <2>1. e[1] \in Charges
    BY LedgerAssumption DEF Events
  <2> QED
    BY <1>4, <2>1, PurseRefunds DEF OwnersPurse!Next
<1>5. ASSUME NEW h \in Handlers, CommitPayout(h)
      PROVE  OwnersPurse!Next
  <2>1. tx[h].key \in Keys /\ tx[h].amount \in Requests
    BY <1>5, CommitRows
  <2> QED
    BY <1>5, <2>1, PursePromises DEF OwnersPurse!Next
<1>6. ASSUME NEW h \in Handlers, CommitApprove(h) \/ CommitPay(h)
      PROVE  UNCHANGED OwnersPurse!purseVars
  <2>1. UNCHANGED <<ledger, reversals>>
    BY <1>6 DEF CommitApprove, CommitPay
  <2> QED
    BY <1>6, <2>1, StatusKeepsAmounts, PurseStutters
<1>7. ASSUME NEW h \in Handlers, Begin(h) \/ LockProgram(h) \/ Crash(h)
      PROVE  UNCHANGED OwnersPurse!purseVars
  <2>1. UNCHANGED rows
    BY <1>7 DEF Begin, RequestPayout, LoadRequested, LoadApproved, LockProgram, Crash
  <2> QED
    BY <2>1, PurseStutters DEF rows, SameAmounts
<1> QED
  BY <1>1, <1>2, <1>3, <1>4, <1>5, <1>6, <1>7 DEF Next, Advance

(* PurseKept: whatever requests, refunds and crashes interleave, the       *)
(* ledger is a purse that is never promised beyond its balance, and gives  *)
(* one promise to each key.                                                *)
THEOREM ImplementsPurse == Spec => PurseKept
<1>1. IInv /\ MoneyInv /\ [Next]_vars => [OwnersPurse!Next]_(OwnersPurse!purseVars)
  BY PurseStep
<1> QED
  BY <1>1, PurseInit, MoneyInvariant, PTL DEF Spec, PurseKept, OwnersPurse!Spec
=============================================================================
