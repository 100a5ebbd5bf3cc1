------------------------- MODULE EntitlementsProofs -------------------------
(***************************************************************************)
(* Proofs about Entitlements for any sets of checkouts and handlers, any   *)
(* season, and any bounds on time, accounts, entitlements and faults.      *)
(***************************************************************************)
EXTENDS Entitlements, TLAPS

(***************************************************************************)
(* Type correctness.                                                       *)
(***************************************************************************)

(* The types alone are not inductive: whoever books or confirms has a        *)
(* checkout, and whoever asks for a trial an account.                        *)
HasIt(local) ==
  /\ local.pc \in {"insert", "read", "commit", "notify"}
       => local.checkout \in Checkouts
  /\ local.pc = "trial" => local.account \in Accounts
HasParts == \A h \in Handlers : HasIt(tx[h])

TypeInv == TypeOK /\ HasParts

LEMMA IdleType == Idle \in Tx
BY EntitlementsAssumption DEF Idle, Tx, Steps, Times

LEMMA TypeInit == Init => TypeInv
<1> SUFFICES ASSUME Init PROVE TypeInv
  OBVIOUS
<1>1. tx \in [Handlers -> Tx] /\ HasParts
  BY IdleType DEF Init, HasParts, HasIt, Idle
<1>2. /\ clock \in Times /\ account \in Accounts /\ accounts \in Accounts
      /\ lastId \in 0..MaxRows /\ faults \in 0..MaxFaults
  BY EntitlementsAssumption DEF Init, Times, Accounts
<1>3. /\ buyer \in [Checkouts -> Accounts \cup {NoAccount}]
      /\ plan \in [Checkouts -> Plans]
      /\ told \in [Checkouts -> Nat] /\ trials \in [Accounts -> Nat]
      /\ notices \in [Ids -> Nat]
  BY DEF Init, Plans
<1>4. /\ paid = {} /\ purchases = {} /\ subs = {} /\ commissions = {}
      /\ granted = {} /\ trialUsed \in BOOLEAN
  BY DEF Init
<1> QED
  BY <1>1, <1>2, <1>3, <1>4 DEF TypeInv, TypeOK

(* A handler that takes a well-typed local state leaves the others alone.    *)
LEMMA BecomesType ==
  ASSUME TypeInv, NEW h \in Handlers, NEW local \in Tx, HasIt(local),
         Becomes(h, local)
  PROVE  tx' \in [Handlers -> Tx] /\ HasParts'
<1>1. tx' = [tx EXCEPT ![h] = local] /\ tx \in [Handlers -> Tx]
  BY DEF Becomes, TypeInv, TypeOK
<1>2. \A q \in Handlers : tx'[q] = IF q = h THEN local ELSE tx[q]
  BY <1>1
<1>3. tx' \in [Handlers -> Tx]
  BY <1>1
<1>4. \A q \in Handlers : HasIt(tx'[q])
  BY <1>2 DEF TypeInv, HasParts
<1> QED
  BY <1>3, <1>4 DEF HasParts, HasIt

LEMMA EndsType ==
  ASSUME TypeInv, NEW h \in Handlers, Ends(h)
  PROVE  tx' \in [Handlers -> Tx] /\ HasParts'
<1>1. HasIt(Idle)
  BY DEF HasIt, Idle
<1> QED
  BY <1>1, IdleType, BecomesType DEF Ends

(* Rows keep their type when they are marked, and new ones have it.          *)
LEMMA MarkedType ==
  ASSUME TypeOK, NEW ids, NEW st \in {"superseded", "expired", "revoked"}
  PROVE  \A s \in Marked(ids, st) : s \in Entitlement
<1> SUFFICES ASSUME NEW s \in subs
             PROVE  (IF s.id \in ids THEN [s EXCEPT !.status = st] ELSE s)
                      \in Entitlement
  BY DEF Marked
<1>1. s \in Entitlement
  BY DEF TypeOK
<1> QED
  BY <1>1 DEF Entitlement

LEMMA NewRowType ==
  ASSUME TypeOK, lastId < MaxRows, NEW now \in Times,
         NEW kind \in Plans \cup {"trial", "admin_lifetime"},
         NEW c \in Checkouts \cup {NoCheckout}
  PROVE  NewRow(kind, c, now) \in Entitlement
<1>1. lastId + 1 \in Ids
  BY EntitlementsAssumption DEF TypeOK, Ids
<1>2. now \in Nat
  BY EntitlementsAssumption DEF Times
<1>3. /\ SeasonWindow(now)[1] \in Nat /\ SeasonWindow(now)[2] \in Nat
  BY <1>2, EntitlementsAssumption DEF SeasonWindow
<1>4. /\ EntitlementDates(kind, now)[1] \in Nat
      /\ EntitlementDates(kind, now)[2] \in Nat \cup {Never}
  <2>1. CASE kind = "season"
    BY <1>3, <2>1 DEF EntitlementDates
  <2>2. CASE kind = "trial"
    BY <1>2, <2>2, EntitlementsAssumption DEF EntitlementDates
  <2>3. CASE kind \notin {"season", "trial"}
    BY <1>2, <2>3 DEF EntitlementDates
  <2> QED
    BY <2>1, <2>2, <2>3
<1> QED
  BY <1>1, <1>4 DEF NewRow, Entitlement, Plans

LEMMA IdsOfType ==
  ASSUME TypeOK, NEW rows \in SUBSET subs
  PROVE  IdsOf(rows) \in SUBSET Ids
BY DEF IdsOf, TypeOK, Entitlement

(* What a step leaves to prove once the local states are settled.            *)
LEMMA TxFacts ==
  ASSUME TypeInv, NEW h \in Handlers
  PROVE  /\ tx[h] \in Tx /\ tx[h].now \in Times
         /\ tx[h].old \in SUBSET Ids /\ tx[h].todo \in SUBSET Ids
         /\ HasIt(tx[h])
BY DEF TypeInv, TypeOK, HasParts, HasIt, HasIt, Tx

LEMMA TypePayment ==
  ASSUME TypeInv, NEW h \in Handlers,
         \/ \E c \in Checkouts : PayLookup(h, c)
         \/ InsertPurchase(h) \/ ReadCurrent(h) \/ Notify(h)
  PROVE  TypeInv'
<1>0. tx[h] \in Tx /\ HasIt(tx[h]) /\ TypeOK
  BY TxFacts DEF TypeInv
<1>1. ASSUME NEW c \in Checkouts, PayLookup(h, c) PROVE TypeInv'
  <2> DEFINE local == [Idle EXCEPT !.pc = "insert", !.checkout = c,
                                   !.account = account]
  <2>1. local \in Tx /\ HasIt(local)
    BY IdleType, <1>0 DEF Tx, Steps, TypeOK, HasIt
  <2>2. tx' \in [Handlers -> Tx] /\ HasParts'
    BY <2>1, <1>1, BecomesType DEF PayLookup
  <2> QED
    BY <1>1, <2>2, <1>0 DEF PayLookup, TypeInv, TypeOK, user, stripe, books, history
<1>2. ASSUME InsertPurchase(h) PROVE TypeInv'
  <2> DEFINE local == [tx[h] EXCEPT !.pc = "read"]
  <2>1. local \in Tx /\ HasIt(local)
    BY <1>0, <1>2 DEF Tx, Steps, HasIt, InsertPurchase, At
  <2>2. Ends(h) \/ Becomes(h, local)
    BY <1>2 DEF InsertPurchase
  <2>3. tx' \in [Handlers -> Tx] /\ HasParts'
    BY <2>1, <2>2, BecomesType, EndsType
  <2> QED
    BY <1>2, <2>3, <1>0 DEF InsertPurchase, TypeInv, TypeOK, user, stripe, books, history
<1>3. ASSUME ReadCurrent(h) PROVE TypeInv'
  <2> DEFINE ids == IdsOf(Superseded(plan[tx[h].checkout], clock))
             local == [tx[h] EXCEPT !.pc = "commit", !.now = clock, !.old = ids]
  <2>1. Superseded(plan[tx[h].checkout], clock) \in SUBSET subs
    BY DEF Superseded, Current
  <2>2. ids \in SUBSET Ids
    BY <2>1, IdsOfType, <1>0
  <2> HIDE DEF ids
  <2>3. local \in Tx /\ HasIt(local)
    BY <1>0, <1>3, <2>2 DEF Tx, Steps, HasIt, ReadCurrent, At, TypeOK
  <2>4. tx' \in [Handlers -> Tx] /\ HasParts'
    BY <2>3, <1>3, BecomesType DEF ReadCurrent, ids
  <2> QED
    BY <1>3, <2>4, <1>0 DEF ReadCurrent, TypeInv, TypeOK, user, stripe, books, history
<1>4. ASSUME Notify(h) PROVE TypeInv'
  <2>1. tx' \in [Handlers -> Tx] /\ HasParts'
    BY <1>4, EndsType DEF Notify
  <2>2. tx[h].checkout \in Checkouts
    BY <1>0, <1>4 DEF Notify, At, HasIt
  <2>3. told' \in [Checkouts -> Nat] /\ faults' \in 0..MaxFaults
    BY <1>0, <1>4, <2>2, EntitlementsAssumption DEF Notify, TypeOK
  <2> QED
    BY <1>4, <2>1, <2>3, <1>0 DEF Notify, TypeInv, TypeOK, user, stripe, books
<1> QED
  BY <1>1, <1>2, <1>3, <1>4

LEMMA TypeCommitPurchase ==
  ASSUME TypeInv, NEW h \in Handlers, CommitPurchase(h)
  PROVE  TypeInv'
<1>0. /\ tx[h].now \in Times /\ HasIt(tx[h]) /\ TypeOK
      /\ lastId < MaxRows /\ At(h, "commit")
  BY TxFacts DEF TypeInv, CommitPurchase
<1>1. tx[h].checkout \in Checkouts
  BY <1>0 DEF HasIt, At
<1> DEFINE c == tx[h].checkout
           local == [Idle EXCEPT !.pc = "notify", !.checkout = c]
<1>2. local \in Tx /\ HasIt(local)
  BY IdleType, <1>1 DEF Tx, Steps, HasIt
<1>3. tx' \in [Handlers -> Tx] /\ HasParts'
  BY <1>2, BecomesType DEF CommitPurchase
<1>4. plan[c] \in Plans
  BY <1>0, <1>1 DEF TypeOK
<1>5. NewRow(plan[c], c, tx[h].now) \in Entitlement
  BY <1>0, <1>1, <1>4, NewRowType
<1>6. \A s \in Marked(tx[h].old, "superseded") : s \in Entitlement
  BY <1>0, MarkedType
<1>7. \A s \in subs' : s \in Entitlement
  BY <1>5, <1>6 DEF CommitPurchase, Booked
<1>8. /\ lastId' \in 0..MaxRows
      /\ purchases' \in SUBSET Checkouts /\ commissions' \in SUBSET Checkouts
      /\ granted' \in SUBSET Checkouts
  BY <1>0, <1>1, EntitlementsAssumption DEF CommitPurchase, TypeOK
<1> QED
  BY <1>3, <1>7, <1>8, <1>0 DEF CommitPurchase, TypeInv, TypeOK, user, stripe

LEMMA TypeTrial ==
  ASSUME TypeInv, NEW h \in Handlers,
         StartTrial(h) \/ LockTrial(h) \/ CommitTrial(h)
  PROVE  TypeInv'
<1>0. tx[h] \in Tx /\ tx[h].now \in Times /\ TypeOK
  BY TxFacts DEF TypeInv
<1>1. ASSUME StartTrial(h) PROVE TypeInv'
  <2> DEFINE local == [Idle EXCEPT !.pc = "trial", !.account = account,
                                   !.marker = trialUsed]
  <2>1. local \in Tx /\ HasIt(local)
    BY IdleType, <1>0, <1>1 DEF Tx, Steps, TypeOK, HasIt, StartTrial
  <2>2. tx' \in [Handlers -> Tx] /\ HasParts'
    BY <2>1, <1>1, BecomesType DEF StartTrial
  <2> QED
    BY <1>1, <2>2, <1>0 DEF StartTrial, TypeInv, TypeOK, user, stripe, books, history
<1>2. ASSUME LockTrial(h) PROVE TypeInv'
  <2> DEFINE local == [tx[h] EXCEPT !.pc = "trialCommit", !.now = clock]
  <2>1. local \in Tx /\ HasIt(local)
    BY <1>0 DEF Tx, Steps, HasIt, TypeOK
  <2>2. Ends(h) \/ Becomes(h, local)
    BY <1>2 DEF LockTrial
  <2>3. tx' \in [Handlers -> Tx] /\ HasParts'
    BY <2>1, <2>2, BecomesType, EndsType
  <2>4. trialUsed' \in BOOLEAN
    BY <1>0, <1>2 DEF LockTrial, TypeOK
  <2> QED
    BY <1>2, <2>3, <2>4, <1>0 DEF LockTrial, TypeInv, TypeOK, stripe, books, history
<1>3. ASSUME CommitTrial(h) PROVE TypeInv'
  <2>1. tx' \in [Handlers -> Tx] /\ HasParts'
    BY <1>3, EndsType DEF CommitTrial
  <2>2. NewRow("trial", NoCheckout, tx[h].now) \in Entitlement
    BY <1>0, <1>3, NewRowType DEF CommitTrial
  <2>3. \A s \in subs' : s \in Entitlement
    BY <1>0, <1>3, <2>2 DEF CommitTrial, TypeOK
  <2>4. lastId' \in 0..MaxRows
    BY <1>0, <1>3, EntitlementsAssumption DEF CommitTrial, TypeOK
  <2>5. trials' \in [Accounts -> Nat]
    <3>1. trials' = [trials EXCEPT ![account] = trials[account] + 1]
      BY <1>3 DEF CommitTrial
    <3>2. trials \in [Accounts -> Nat]
      BY <1>0 DEF TypeOK
    <3>3. ASSUME NEW a \in Accounts PROVE trials'[a] \in Nat
      <4>1. CASE a = account
        BY <3>1, <3>2, <4>1
      <4>2. CASE a # account
        BY <3>1, <3>2, <4>2
      <4> QED
        BY <4>1, <4>2
    <3>4. trials' = [a \in Accounts |-> trials'[a]]
      BY <3>1, <3>2
    <3> QED
      BY <3>3, <3>4
  <2> QED
    BY <1>3, <2>1, <2>3, <2>4, <2>5, <1>0 DEF CommitTrial, TypeInv, TypeOK, stripe
<1> QED
  BY <1>1, <1>2, <1>3

LEMMA TypeGrantReset ==
  ASSUME TypeInv, NEW h \in Handlers,
         ReadGrant(h) \/ CommitGrant(h) \/ ReadReset(h) \/ CommitReset(h)
  PROVE  TypeInv'
<1>0. tx[h] \in Tx /\ tx[h].now \in Times /\ TypeOK
  BY TxFacts DEF TypeInv
<1>1. ASSUME ReadGrant(h) PROVE TypeInv'
  <2> DEFINE local == [Idle EXCEPT !.pc = "grant", !.account = account,
                                   !.now = clock]
  <2>1. local \in Tx /\ HasIt(local)
    BY IdleType, <1>0 DEF Tx, Steps, TypeOK, HasIt
  <2>2. tx' \in [Handlers -> Tx] /\ HasParts'
    BY <2>1, <1>1, BecomesType DEF ReadGrant
  <2> QED
    BY <1>1, <2>2, <1>0 DEF ReadGrant, TypeInv, TypeOK, user, stripe, books, history
<1>2. ASSUME CommitGrant(h) PROVE TypeInv'
  <2>1. tx' \in [Handlers -> Tx] /\ HasParts'
    BY <1>2, EndsType DEF CommitGrant
  <2>2. NewRow("admin_lifetime", NoCheckout, tx[h].now) \in Entitlement
    BY <1>0, <1>2, NewRowType DEF CommitGrant
  <2>3. (\A s \in subs' : s \in Entitlement) /\ lastId' \in 0..MaxRows
    BY <1>0, <1>2, <2>2, EntitlementsAssumption DEF CommitGrant, TypeOK
  <2> QED
    BY <1>2, <2>1, <2>3, <1>0 DEF CommitGrant, TypeInv, TypeOK, user, stripe, history
<1>3. ASSUME ReadReset(h) PROVE TypeInv'
  <2> DEFINE ids == IdsOf(Effective)
             local == [Idle EXCEPT !.pc = "reset", !.old = ids]
  <2>1. ids \in SUBSET Ids
    BY <1>0, IdsOfType DEF Effective, Current
  <2> HIDE DEF ids
  <2>2. local \in Tx /\ HasIt(local)
    BY IdleType, <2>1 DEF Tx, Steps, HasIt
  <2>3. tx' \in [Handlers -> Tx] /\ HasParts'
    BY <2>2, <1>3, BecomesType DEF ReadReset, ids
  <2> QED
    BY <1>3, <2>3, <1>0 DEF ReadReset, TypeInv, TypeOK, user, stripe, books, history
<1>4. ASSUME CommitReset(h) PROVE TypeInv'
  <2>1. tx' \in [Handlers -> Tx] /\ HasParts'
    BY <1>4, EndsType DEF CommitReset
  <2>2. \A s \in subs' : s \in Entitlement
    BY <1>0, <1>4, MarkedType DEF CommitReset
  <2> QED
    BY <1>4, <2>1, <2>2, <1>0 DEF CommitReset, TypeInv, TypeOK, user, stripe, history
<1> QED
  BY <1>1, <1>2, <1>3, <1>4

LEMMA TypeExpiry ==
  ASSUME TypeInv, NEW h \in Handlers,
         SelectEnded(h) \/ FlushEnded(h) \/ Notice(h) \/ CommitEnded(h)
  PROVE  TypeInv'
<1>0. /\ tx[h] \in Tx /\ HasIt(tx[h]) /\ TypeOK
      /\ tx[h].old \in SUBSET Ids /\ tx[h].todo \in SUBSET Ids
  BY TxFacts DEF TypeInv
<1>1. ASSUME SelectEnded(h) PROVE TypeInv'
  <2> DEFINE ids == IdsOf(Ended)
             local == [Idle EXCEPT !.pc = "expire", !.old = ids]
  <2>1. ids \in SUBSET Ids
    BY <1>0, IdsOfType DEF Ended
  <2> HIDE DEF ids
  <2>2. local \in Tx /\ HasIt(local)
    BY IdleType, <2>1 DEF Tx, Steps, HasIt
  <2>3. tx' \in [Handlers -> Tx] /\ HasParts'
    BY <2>2, <1>1, BecomesType DEF SelectEnded, ids
  <2> QED
    BY <1>1, <2>3, <1>0 DEF SelectEnded, TypeInv, TypeOK, user, stripe, books, history
<1>2. ASSUME FlushEnded(h) PROVE TypeInv'
  <2> DEFINE local == [tx[h] EXCEPT !.pc = "notices", !.todo = tx[h].old]
  <2>1. local \in Tx /\ HasIt(local)
    BY <1>0 DEF Tx, Steps, HasIt
  <2>2. Ends(h) \/ Becomes(h, local)
    BY <1>2 DEF FlushEnded
  <2>3. tx' \in [Handlers -> Tx] /\ HasParts'
    BY <2>1, <2>2, BecomesType, EndsType
  <2> QED
    BY <1>2, <2>3, <1>0 DEF FlushEnded, TypeInv, TypeOK, user, stripe, books, history
<1>3. ASSUME Notice(h) PROVE TypeInv'
  <2>1. PICK i \in tx[h].todo :
          /\ Becomes(h, [tx[h] EXCEPT !.todo = @ \ {i}])
          /\ \/ notices' = [notices EXCEPT ![i] = @ + 1] /\ UNCHANGED faults
             \/ /\ faults < MaxFaults /\ faults' = faults + 1
                /\ UNCHANGED notices
    BY <1>3 DEF Notice
  <2> DEFINE rest == tx[h].todo \ {i}
             local == [tx[h] EXCEPT !.todo = rest]
  <2>2. rest \in SUBSET Ids
    BY <1>0
  <2>3. local \in Tx /\ HasIt(local)
    BY <1>0, <1>3, <2>2 DEF Tx, Steps, HasIt, Notice, At
  <2>4. Becomes(h, local)
    BY <2>1
  <2>5. tx' \in [Handlers -> Tx] /\ HasParts'
    BY <2>3, <2>4, BecomesType
  <2>6. notices' \in [Ids -> Nat] /\ faults' \in 0..MaxFaults
    BY <1>0, <2>1, EntitlementsAssumption DEF TypeOK
  <2> QED
    BY <1>3, <2>5, <2>6, <1>0 DEF Notice, TypeInv, TypeOK, user, stripe, books
<1>4. ASSUME CommitEnded(h) PROVE TypeInv'
  <2>1. tx' \in [Handlers -> Tx] /\ HasParts'
    BY <1>4, EndsType DEF CommitEnded
  <2>2. \A s \in subs' : s \in Entitlement
    BY <1>0, <1>4, MarkedType DEF CommitEnded
  <2> QED
    BY <1>4, <2>1, <2>2, <1>0 DEF CommitEnded, TypeInv, TypeOK, user, stripe, history
<1> QED
  BY <1>1, <1>2, <1>3, <1>4

LEMMA TypeOutside ==
  ASSUME TypeInv,
         \/ \E c \in Checkouts : CreateCheckout(c) \/ Pay(c)
         \/ DeleteAccount \/ CreateAccount \/ Tick
         \/ \E h \in Handlers : Crash(h)
  PROVE  TypeInv'
<1>0. TypeOK
  BY DEF TypeInv
<1>1. ASSUME NEW c \in Checkouts, CreateCheckout(c) PROVE TypeInv'
  <2>1. /\ buyer' \in [Checkouts -> Accounts \cup {NoAccount}]
        /\ plan' \in [Checkouts -> Plans]
    BY <1>0, <1>1 DEF CreateCheckout, TypeOK
  <2> QED
    BY <1>1, <2>1 DEF CreateCheckout, TypeInv, TypeOK, HasParts, HasIt, user, books, history
<1>2. ASSUME NEW c \in Checkouts, Pay(c) PROVE TypeInv'
  BY <1>2 DEF Pay, TypeInv, TypeOK, HasParts, HasIt, user, books, history
<1>3. ASSUME DeleteAccount PROVE TypeInv'
  BY <1>3 DEF DeleteAccount, TypeInv, TypeOK, HasParts, HasIt, stripe, history
<1>4. ASSUME CreateAccount PROVE TypeInv'
  <2>1. accounts' \in Accounts /\ account' \in Accounts
    BY <1>0, <1>4, EntitlementsAssumption DEF CreateAccount, TypeOK, Accounts
  <2> QED
    BY <1>4, <2>1 DEF CreateAccount, TypeInv, TypeOK, HasParts, HasIt, stripe, books, history
<1>5. ASSUME Tick PROVE TypeInv'
  <2>1. clock' \in Times
    BY <1>0, <1>5, EntitlementsAssumption DEF Tick, TypeOK, Times
  <2> QED
    BY <1>5, <2>1 DEF Tick, TypeInv, TypeOK, HasParts, HasIt, user, stripe, books, history
<1>6. ASSUME NEW h \in Handlers, Crash(h) PROVE TypeInv'
  <2>1. tx' \in [Handlers -> Tx] /\ HasParts'
    BY <1>6, EndsType DEF Crash
  <2>2. faults' \in 0..MaxFaults
    BY <1>0, <1>6, EntitlementsAssumption DEF Crash, TypeOK
  <2> QED
    BY <1>0, <1>6, <2>1, <2>2 DEF Crash, TypeInv, TypeOK, user, stripe, books, history
<1> QED
  BY <1>1, <1>2, <1>3, <1>4, <1>5, <1>6

LEMMA TypeStep == TypeInv /\ [Next]_vars => TypeInv'
<1> SUFFICES ASSUME TypeInv, [Next]_vars PROVE TypeInv'
  OBVIOUS
<1>1. CASE UNCHANGED vars
  BY <1>1 DEF vars, user, stripe, books, history, TypeInv, TypeOK, HasParts, HasIt
<1>2. CASE Next
  BY <1>2, TypePayment, TypeCommitPurchase, TypeTrial, TypeGrantReset,
     TypeExpiry, TypeOutside DEF Next, Begin, Advance
<1> QED
  BY <1>1, <1>2

(* Every reachable state of the payment and subscription tables and of the   *)
(* transactions on them is well typed.                                       *)
THEOREM TypeCorrect == Spec => []TypeOK
<1>1. Init => TypeInv
  BY TypeInit
<1>2. TypeInv => TypeOK
  BY DEF TypeInv
<1> QED
  BY <1>1, TypeStep, <1>2, PTL DEF Spec

(***************************************************************************)
(* One trial per account.                                                  *)
(***************************************************************************)

(* Marking entitlements changes neither what they are nor who paid them.     *)
LEMMA MarkedSame ==
  ASSUME TypeOK, NEW ids, NEW st
  PROVE  /\ \A s \in Marked(ids, st) : \E t \in subs :
              s.kind = t.kind /\ s.checkout = t.checkout /\ s.id = t.id
         /\ \A t \in subs : \E s \in Marked(ids, st) :
              s.kind = t.kind /\ s.checkout = t.checkout /\ s.id = t.id
<1> DEFINE mark(t) == IF t.id \in ids THEN [t EXCEPT !.status = st] ELSE t
<1>1. \A t \in subs : /\ mark(t).kind = t.kind
                      /\ mark(t).checkout = t.checkout /\ mark(t).id = t.id
  BY DEF TypeOK, Entitlement
<1>2. Marked(ids, st) = {mark(t) : t \in subs}
  BY DEF Marked
<1> HIDE DEF mark
<1> QED
  BY <1>1, <1>2

(* Whose next step is not the commit of a trial adds nobody to Trialling.    *)
LEMMA TriallingFrame ==
  ASSUME TypeInv, NEW h \in Handlers, NEW local,
         Becomes(h, local), local.pc # "trialCommit"
  PROVE  Trialling' \subseteq Trialling
BY DEF Becomes, TypeInv, TypeOK, Trialling, At

LEMMA TriallingEnds ==
  ASSUME TypeInv, NEW h \in Handlers, Ends(h)
  PROVE  Trialling' \subseteq Trialling \ {h}
<1>1. Idle.pc = "idle"
  BY DEF Idle
<1> QED
  BY <1>1 DEF Ends, Becomes, TypeInv, TypeOK, Trialling, At

LEMMA TrialFrame ==
  ASSUME TrialInv, UNCHANGED <<account, accounts, trials>>,
         (PreviousTrials = {}) <=> (PreviousTrials' = {}),
         Trialling' \subseteq Trialling
  PROVE  TrialInv'
BY DEF TrialInv, LatestAccount, OneTrial

(* The steps of all transactions but the trial's.                            *)
LEMMA TrialOthers ==
  ASSUME TypeInv, TrialInv, NEW h \in Handlers,
         Begin(h) \/ Advance(h) \/ Crash(h), ~LockTrial(h), ~CommitTrial(h)
  PROVE  TrialInv'
<1>0. TypeOK
  BY DEF TypeInv
<1>1. ASSUME Begin(h) \/ InsertPurchase(h) \/ ReadCurrent(h) \/ Notify(h)
               \/ FlushEnded(h) \/ Notice(h) \/ Crash(h)
      PROVE  TrialInv'
  <2>1. UNCHANGED <<account, accounts, trials, subs>>
    BY <1>1 DEF Begin, PayLookup, StartTrial, ReadGrant, SelectEnded, ReadReset,
                InsertPurchase, ReadCurrent, Notify, FlushEnded, Notice, Crash,
                user, books, history
  <2>3. Trialling' \subseteq Trialling
    <3>0. tx \in [Handlers -> Tx]
      BY <1>0 DEF TypeOK
    <3>1. CASE \E c \in Checkouts : PayLookup(h, c)
      BY <3>0, <3>1 DEF PayLookup, Becomes, Trialling, At, Idle
    <3>2. CASE StartTrial(h) \/ ReadGrant(h) \/ SelectEnded(h) \/ ReadReset(h)
      BY <3>0, <3>2 DEF StartTrial, ReadGrant, SelectEnded, ReadReset, Becomes,
                        Trialling, At, Idle
    <3>3. CASE InsertPurchase(h)
      BY <3>0, <3>3 DEF InsertPurchase, Ends, Becomes, Trialling, At, Idle, Tx
    <3>4. CASE ReadCurrent(h)
      BY <3>0, <3>4 DEF ReadCurrent, Becomes, Trialling, At, Tx
    <3>5. CASE Notify(h) \/ Crash(h)
      BY <3>5, TriallingEnds DEF Notify, Crash
    <3>6. CASE FlushEnded(h)
      <4> DEFINE local == [tx[h] EXCEPT !.pc = "notices", !.todo = tx[h].old]
      <4>1. Ends(h) \/ Becomes(h, local)
        BY <3>6 DEF FlushEnded
      <4>2. local.pc = "notices"
        BY TxFacts DEF Tx
      <4> HIDE DEF local
      <4> QED
        BY <4>1, <4>2, TriallingFrame, TriallingEnds
    <3>7. CASE Notice(h)
      BY <3>0, <3>7 DEF Notice, Becomes, Trialling, At, Tx
    <3> QED
      BY <1>1, <3>1, <3>2, <3>3, <3>4, <3>5, <3>6, <3>7 DEF Begin
  <2>4. (PreviousTrials = {}) <=> (PreviousTrials' = {})
    BY <2>1 DEF PreviousTrials
  <2> QED
    BY <2>1, <2>3, <2>4, TrialFrame
<1>2. ASSUME CommitPurchase(h) PROVE TrialInv'
  <2> DEFINE c == tx[h].checkout
             new == NewRow(plan[c], c, tx[h].now)
  <2>1. UNCHANGED <<account, accounts, trials>>
    BY <1>2 DEF CommitPurchase, user
  <2>2. Becomes(h, [Idle EXCEPT !.pc = "notify", !.checkout = c])
    BY <1>2 DEF CommitPurchase
  <2>3. Trialling' \subseteq Trialling
    BY <2>2, TriallingFrame DEF Idle
  <2>4. new.kind # "trial"
    <3>1. c \in Checkouts
      BY <1>2, TxFacts DEF CommitPurchase, At, HasIt
    <3>2. plan[c] \in Plans
      BY <1>0, <3>1 DEF TypeOK
    <3>3. new.kind = plan[c]
      BY DEF NewRow
    <3> QED
      BY <3>2, <3>3 DEF Plans
  <2>5. subs' = Marked(tx[h].old, "superseded") \cup {new}
    BY <1>2 DEF CommitPurchase, Booked
  <2> HIDE DEF new
  <2>6. (PreviousTrials = {}) <=> (PreviousTrials' = {})
    BY <1>0, <2>4, <2>5, MarkedSame DEF PreviousTrials
  <2> QED
    BY <2>1, <2>3, <2>6, TrialFrame
<1>3. ASSUME CommitGrant(h) PROVE TrialInv'
  <2> DEFINE new == NewRow("admin_lifetime", NoCheckout, tx[h].now)
  <2>1. UNCHANGED <<account, accounts, trials>>
    BY <1>3 DEF CommitGrant, user, history
  <2>2. Trialling' \subseteq Trialling
    BY <1>3, TriallingEnds DEF CommitGrant
  <2>3. new.kind # "trial"
    BY DEF NewRow
  <2>4. subs' = subs \cup {new} \/ subs' = subs
    BY <1>3 DEF CommitGrant
  <2> HIDE DEF new
  <2>5. (PreviousTrials = {}) <=> (PreviousTrials' = {})
    BY <2>3, <2>4 DEF PreviousTrials
  <2> QED
    BY <2>1, <2>2, <2>5, TrialFrame
<1>4. ASSUME CommitEnded(h) \/ CommitReset(h) PROVE TrialInv'
  <2>1. UNCHANGED <<account, accounts, trials>>
    BY <1>4 DEF CommitEnded, CommitReset, user, history
  <2>2. Trialling' \subseteq Trialling
    BY <1>4, TriallingEnds DEF CommitEnded, CommitReset
  <2>3. \E st : subs' = Marked(tx[h].old, st)
    BY <1>4 DEF CommitEnded, CommitReset
  <2>4. (PreviousTrials = {}) <=> (PreviousTrials' = {})
    BY <1>0, <2>3, MarkedSame DEF PreviousTrials
  <2> QED
    BY <2>1, <2>2, <2>4, TrialFrame
<1> QED
  BY <1>1, <1>2, <1>3, <1>4 DEF Advance

(* The trial: the wait for the user's row makes the transaction the only one *)
(* past the test, and its commit is the account's first trial.               *)
LEMMA TrialSteps ==
  ASSUME TypeInv, TrialInv, NEW h \in Handlers, LockTrial(h) \/ CommitTrial(h)
  PROVE  TrialInv'
<1>0. /\ TypeOK /\ tx \in [Handlers -> Tx] /\ account \in Accounts \cup {NoAccount}
      /\ trials \in [Accounts -> Nat] /\ NoAccount \notin Accounts
  BY DEF TypeInv, TypeOK, Accounts, NoAccount
<1>1. ASSUME LockTrial(h) PROVE TrialInv'
  <2>1. UNCHANGED <<account, accounts, trials, subs>>
    BY <1>1 DEF LockTrial, books, history
  <2>2. PreviousTrials' = PreviousTrials
    BY <2>1 DEF PreviousTrials
  <2>3. CASE Ends(h)
    BY <2>1, <2>2, <2>3, TriallingEnds, TrialFrame
  <2>4. CASE ~Ends(h)
    <3>1. /\ account = tx[h].account /\ PreviousTrials = {} /\ Trialling = {}
          /\ Becomes(h, [tx[h] EXCEPT !.pc = "trialCommit", !.now = clock])
      BY <1>1, <2>4 DEF LockTrial
    <3>2. \A q \in Handlers \ {h} : tx'[q] = tx[q]
      BY <1>0, <3>1 DEF Becomes
    <3>3. Trialling' \subseteq {h}
      BY <3>1, <3>2 DEF Trialling, At
    <3>4. CASE account # NoAccount
      BY <2>1, <2>2, <3>1, <3>3, <3>4 DEF TrialInv, LatestAccount, OneTrial
    <3>5. account # NoAccount
      BY <1>0, <1>1, <3>1, TxFacts DEF LockTrial, At, HasIt
    <3> QED
      BY <3>4, <3>5
  <2> QED
    BY <2>3, <2>4
<1>2. ASSUME CommitTrial(h) PROVE TrialInv'
  <2> DEFINE new == NewRow("trial", NoCheckout, tx[h].now)
  <2>1. /\ h \in Trialling /\ Ends(h) /\ subs' = subs \cup {new}
        /\ trials' = [trials EXCEPT ![account] = trials[account] + 1]
        /\ UNCHANGED <<account, accounts>>
    BY <1>2 DEF CommitTrial, Trialling
  <2>2. account # NoAccount /\ PreviousTrials = {} /\ \A q \in Trialling : q = h
    BY <2>1 DEF TrialInv
  <2>3. account \in Accounts /\ trials[account] = 0 /\ account = accounts
    BY <1>0, <2>2 DEF TrialInv, LatestAccount
  <2>4. Trialling' = {}
    BY <2>1, <2>2, TriallingEnds
  <2>5. new.kind = "trial"
    BY DEF NewRow
  <2>6. PreviousTrials' # {}
    BY <2>1, <2>5 DEF PreviousTrials
  <2>7. \A a \in Accounts : trials'[a] = IF a = account THEN 1 ELSE trials[a]
    BY <1>0, <2>1, <2>3
  <2>8. \A a \in Accounts : trials'[a] <= 1 /\ (a > accounts' => trials'[a] = 0)
    <3> SUFFICES ASSUME NEW a \in Accounts
                 PROVE  trials'[a] <= 1 /\ (a > accounts' => trials'[a] = 0)
      OBVIOUS
    <3>1. a \in Nat
      BY DEF Accounts
    <3>2. (a > accounts => trials[a] = 0) /\ trials[a] <= 1
      BY DEF TrialInv, OneTrial
    <3> QED
      BY <2>1, <2>3, <2>7, <3>1, <3>2 DEF Accounts
  <2> QED
    BY <2>1, <2>2, <2>3, <2>4, <2>6, <2>8 DEF TrialInv, LatestAccount, OneTrial
<1> QED
  BY <1>1, <1>2

LEMMA TrialOutside ==
  ASSUME TypeInv, TrialInv,
         \/ \E c \in Checkouts : CreateCheckout(c) \/ Pay(c)
         \/ DeleteAccount \/ CreateAccount \/ Tick
  PROVE  TrialInv'
<1>0. /\ TypeOK /\ account \in Accounts \cup {NoAccount} /\ accounts \in Accounts
      /\ trials \in [Accounts -> Nat] /\ Accounts \subseteq Nat
  BY DEF TypeInv, TypeOK, Accounts
<1>1. ASSUME (\E c \in Checkouts : CreateCheckout(c) \/ Pay(c)) \/ Tick
      PROVE  TrialInv'
  BY <1>1, TrialFrame
     DEF CreateCheckout, Pay, Tick, user, books, history, PreviousTrials,
         Trialling, At
<1>2. ASSUME DeleteAccount PROVE TrialInv'
  <2>1. /\ account' = NoAccount /\ Trialling = {} /\ Trialling' = Trialling
        /\ UNCHANGED <<accounts, trials>>
    BY <1>2 DEF DeleteAccount, MayDelete, Trialling, At, history
  <2> QED
    BY <2>1 DEF TrialInv, LatestAccount, OneTrial
<1>3. ASSUME CreateAccount PROVE TrialInv'
  <2>1. /\ account = NoAccount /\ account' = accounts + 1
        /\ accounts' = accounts + 1 /\ accounts < MaxAccounts
        /\ UNCHANGED <<trials, subs>> /\ Trialling' = Trialling
    BY <1>3 DEF CreateAccount, Trialling, At, books, history
  <2>2. Trialling = {}
    BY <2>1 DEF TrialInv
  <2>3. accounts + 1 \in Accounts /\ accounts + 1 > accounts
    BY <1>0, <2>1, EntitlementsAssumption DEF Accounts
  <2>4. trials[accounts + 1] = 0
    BY <2>3 DEF TrialInv
  <2>5. \A a \in Accounts : a > accounts + 1 => trials[a] = 0
    BY <1>0 DEF TrialInv
  <2> QED
    BY <1>0, <2>1, <2>2, <2>3, <2>4, <2>5 DEF TrialInv, LatestAccount, OneTrial
<1> QED
  BY <1>1, <1>2, <1>3

LEMMA TrialStep == TypeInv /\ TrialInv /\ [Next]_vars => TrialInv'
<1> SUFFICES ASSUME TypeInv, TrialInv, [Next]_vars PROVE TrialInv'
  OBVIOUS
<1>1. CASE UNCHANGED vars
  BY <1>1, TrialFrame
     DEF vars, user, books, history, PreviousTrials, Trialling, At
<1>2. CASE Next
  BY <1>2, TrialOthers, TrialSteps, TrialOutside DEF Next
<1> QED
  BY <1>1, <1>2

LEMMA TrialInit == Init => TrialInv
<1> SUFFICES ASSUME Init PROVE TrialInv
  OBVIOUS
<1>1. Trialling = {}
  BY DEF Init, Trialling, At, Idle
<1>2. account = 1 /\ accounts = 1 /\ \A a \in Accounts : trials[a] = 0
  BY DEF Init
<1>3. 1 \in Accounts
  BY EntitlementsAssumption DEF Accounts
<1> QED
  BY <1>1, <1>2, <1>3 DEF TrialInv, LatestAccount, OneTrial

(* At most one trial per account, for any number of concurrent callbacks.    *)
THEOREM TrialOnce == Spec => []OneTrial
<1>1. Init => TypeInv /\ TrialInv
  BY TypeInit, TrialInit
<1>2. TypeInv /\ TrialInv /\ [Next]_vars => (TypeInv /\ TrialInv)'
  BY TypeStep, TrialStep
<1>3. TrialInv => OneTrial
  BY DEF TrialInv
<1> QED
  BY <1>1, <1>2, <1>3, PTL DEF Spec

(***************************************************************************)
(* Every checkout is booked and confirmed once.                            *)
(***************************************************************************)

(* A step of a handler outside of the payment leaves all of that alone.      *)
LEMMA BooksFrame ==
  ASSUME BooksInv,
         UNCHANGED <<account, accounts, buyer, paid, purchases, granted, told>>,
         \A h \in Handlers :
            tx'[h] = tx[h]
            \/ tx'[h].pc \notin {"insert", "read", "commit", "notify"}
  PROVE  BooksInv'
<1> DEFINE Paying == {"insert", "read", "commit", "notify"}
<1>1. \A h \in Handlers : tx'[h].pc \in Paying => tx'[h] = tx[h]
  OBVIOUS
<1>2. \A h \in Booking' : h \in Booking /\ tx'[h] = tx[h]
  BY <1>1 DEF Booking
<1>3. \A h \in Handlers : /\ At(h, "insert")' => At(h, "insert") /\ tx'[h] = tx[h]
                         /\ At(h, "notify")' => At(h, "notify") /\ tx'[h] = tx[h]
  BY <1>1 DEF At
<1>4. \A h \in Booking' :
         /\ tx'[h].checkout \in paid' \ granted'
         /\ buyer'[tx'[h].checkout] = account'
         /\ \A q \in Booking' : tx'[q].checkout = tx'[h].checkout => q = h
  BY <1>2 DEF BooksInv
<1>5. \A h \in Handlers : At(h, "notify")' =>
        /\ tx'[h].checkout \in granted' /\ told'[tx'[h].checkout] = 0
        /\ \A q \in Handlers :
             At(q, "notify")' /\ tx'[q].checkout = tx'[h].checkout => q = h
  BY <1>3 DEF BooksInv, At
<1>6. \A h \in Handlers : At(h, "insert")' => tx'[h].checkout \in paid'
  BY <1>3 DEF BooksInv, At
<1> QED
  BY <1>4, <1>5, <1>6 DEF BooksInv, LatestAccount

LEMMA BooksOthers ==
  ASSUME TypeInv, BooksInv, NEW h \in Handlers,
         \/ StartTrial(h) \/ LockTrial(h) \/ CommitTrial(h)
         \/ ReadGrant(h) \/ CommitGrant(h) \/ SelectEnded(h) \/ FlushEnded(h)
         \/ Notice(h) \/ CommitEnded(h) \/ ReadReset(h) \/ CommitReset(h)
         \/ Crash(h)
  PROVE  BooksInv'
<1>0. tx \in [Handlers -> Tx] /\ tx[h] \in Tx
  BY DEF TypeInv, TypeOK
<1>1. UNCHANGED <<account, accounts, buyer, paid, purchases, granted, told>>
  BY DEF StartTrial, LockTrial, CommitTrial, ReadGrant, CommitGrant, SelectEnded,
         FlushEnded, Notice, CommitEnded, ReadReset, CommitReset, Crash,
         user, stripe, books, history
<1> DEFINE Paying == {"insert", "read", "commit", "notify"}
<1>2. \A local : Becomes(h, local) /\ local.pc \notin Paying =>
        \A q \in Handlers : tx'[q] = tx[q] \/ tx'[q].pc \notin Paying
  BY <1>0 DEF Becomes
<1>3. Ends(h) => \A q \in Handlers : tx'[q] = tx[q] \/ tx'[q].pc \notin Paying
  BY <1>2 DEF Ends, Idle
<1>4. \A q \in Handlers : tx'[q] = tx[q] \/ tx'[q].pc \notin Paying
  <2>1. CASE StartTrial(h) \/ ReadGrant(h) \/ SelectEnded(h) \/ ReadReset(h)
    BY <1>0, <2>1 DEF StartTrial, ReadGrant, SelectEnded, ReadReset, Becomes, Idle
  <2>2. CASE LockTrial(h)
    BY <1>0, <1>3, <2>2, ZenonT(40) DEF LockTrial, Becomes, Tx
  <2>3. CASE CommitTrial(h) \/ CommitGrant(h) \/ CommitEnded(h)
               \/ CommitReset(h) \/ Crash(h)
    BY <1>3, <2>3 DEF CommitTrial, CommitGrant, CommitEnded, CommitReset, Crash
  <2>4. CASE FlushEnded(h)
    <3> DEFINE local == [tx[h] EXCEPT !.pc = "notices", !.todo = tx[h].old]
    <3>1. Ends(h) \/ Becomes(h, local)
      BY <2>4 DEF FlushEnded
    <3>2. local.pc = "notices"
      BY <1>0 DEF Tx
    <3> HIDE DEF local
    <3> QED
      BY <1>2, <1>3, <3>1, <3>2
  <2>5. CASE Notice(h)
    BY <1>0, <2>5 DEF Notice, At, Becomes, Tx
  <2> QED
    BY <2>1, <2>2, <2>3, <2>4, <2>5
<1> QED
  BY <1>1, <1>4, BooksFrame

(* Webhook and return page: of those that look a checkout up at once, the    *)
(* unique key lets one insert at a time, and none after a commit.            *)
LEMMA BooksPayment ==
  ASSUME TypeInv, BooksInv, NEW h \in Handlers,
         \/ \E c \in Checkouts : PayLookup(h, c)
         \/ InsertPurchase(h) \/ ReadCurrent(h)
  PROVE  BooksInv'
<1>0. tx \in [Handlers -> Tx] /\ tx[h] \in Tx /\ HasIt(tx[h])
  BY TxFacts DEF TypeInv, TypeOK
<1>u. UNCHANGED <<account, accounts, buyer, paid, purchases, granted, told>>
  BY DEF PayLookup, InsertPurchase, ReadCurrent, user, stripe, books, history
<1>i. \A q \in Handlers : At(q, "insert") => tx[q].checkout \in paid
  BY DEF BooksInv
<1>1. ASSUME NEW c \in Checkouts, PayLookup(h, c) PROVE BooksInv'
  <2>1. /\ tx'[h].pc = "insert" /\ tx'[h].checkout = c /\ c \in paid
        /\ \A q \in Handlers \ {h} : tx'[q] = tx[q]
    BY <1>0, <1>1 DEF PayLookup, Bookable, Becomes, Idle
  <2>2. Booking' = Booking \ {h} /\ \A q \in Booking' : tx'[q] = tx[q]
    BY <2>1 DEF Booking
  <2>3. \A q \in Handlers : At(q, "notify")' => At(q, "notify") /\ tx'[q] = tx[q]
    BY <2>1 DEF At
  <2>4. \A q \in Handlers : At(q, "insert")' => tx'[q].checkout \in paid'
    BY <1>u, <2>1 DEF At, BooksInv
  <2>5. \A q \in Booking' :
           /\ tx'[q].checkout \in paid' \ granted'
           /\ buyer'[tx'[q].checkout] = account'
           /\ \A p \in Booking' : tx'[p].checkout = tx'[q].checkout => p = q
    BY <1>u, <2>2 DEF BooksInv
  <2>6. \A q \in Handlers : At(q, "notify")' =>
          /\ tx'[q].checkout \in granted' /\ told'[tx'[q].checkout] = 0
          /\ \A p \in Handlers :
               At(p, "notify")' /\ tx'[p].checkout = tx'[q].checkout => p = q
    BY <1>u, <2>3 DEF BooksInv
  <2> QED
    BY <1>u, <2>4, <2>5, <2>6 DEF BooksInv, LatestAccount
<1>2. ASSUME InsertPurchase(h) PROVE BooksInv'
  <2>1. CASE Ends(h)
    <3>1. \A q \in Handlers : tx'[q] = tx[q] \/ tx'[q].pc = "idle"
      BY <1>0, <2>1 DEF Ends, Becomes, Idle
    <3> QED
      BY <1>u, <3>1, BooksFrame
  <2>2. CASE ~Ends(h)
    <3> DEFINE c == tx[h].checkout
    <3>1. /\ At(h, "insert") /\ KeyFree(c) /\ ~Violates(c)
          /\ Becomes(h, [tx[h] EXCEPT !.pc = "read"])
      BY <1>2, <2>2 DEF InsertPurchase
    <3>2. /\ tx'[h].pc = "read" /\ tx'[h].checkout = c
          /\ \A q \in Handlers \ {h} : tx'[q] = tx[q]
      BY <1>0, <3>1 DEF Becomes, Tx
    <3>3. c \in paid \ granted /\ buyer[c] = account
      BY <3>1 DEF BooksInv, Violates
    <3>4. Booking' = Booking \cup {h}
      BY <3>1, <3>2 DEF Booking, At
    <3>5. \A q \in Booking \ {h} : tx'[q] = tx[q] /\ tx[q].checkout # c
      BY <3>1, <3>2 DEF KeyFree, Booking
    <3>6. \A q \in Handlers : tx'[q].pc \in {"insert", "notify"} => tx'[q] = tx[q]
      BY <3>2 DEF At
    <3> HIDE DEF c
    <3>7. \A q \in Booking' :
             /\ tx'[q].checkout \in paid' \ granted'
             /\ buyer'[tx'[q].checkout] = account'
             /\ \A p \in Booking' : tx'[p].checkout = tx'[q].checkout => p = q
      BY <1>u, <3>2, <3>3, <3>4, <3>5 DEF BooksInv
    <3>8. \A q \in Handlers : At(q, "notify")' =>
            /\ tx'[q].checkout \in granted' /\ told'[tx'[q].checkout] = 0
            /\ \A p \in Handlers :
                 At(p, "notify")' /\ tx'[p].checkout = tx'[q].checkout => p = q
      BY <1>u, <3>6 DEF BooksInv, At
    <3>9. \A q \in Handlers : At(q, "insert")' => tx'[q].checkout \in paid'
      <4> SUFFICES ASSUME NEW q \in Handlers, At(q, "insert")'
                   PROVE  tx'[q].checkout \in paid'
        OBVIOUS
      <4>1. At(q, "insert") /\ tx'[q] = tx[q]
        BY <3>6 DEF At
      <4>2. tx[q].checkout \in paid
        BY <4>1, <1>i
      <4> QED
        BY <1>u, <4>1, <4>2
    <3> QED
      BY <1>u, <3>7, <3>8, <3>9 DEF BooksInv, LatestAccount
  <2> QED
    BY <2>1, <2>2
<1>3. ASSUME ReadCurrent(h) PROVE BooksInv'
  <2>1. /\ tx'[h].pc = "commit" /\ tx'[h].checkout = tx[h].checkout
        /\ tx[h].pc = "read" /\ \A q \in Handlers \ {h} : tx'[q] = tx[q]
    BY <1>0, <1>3 DEF ReadCurrent, At, Becomes, Tx
  <2>2. Booking' = Booking /\ \A q \in Handlers : tx'[q].checkout = tx[q].checkout
    BY <2>1 DEF Booking
  <2>3. \A q \in Handlers : tx'[q].pc \in {"insert", "notify"} => tx'[q] = tx[q]
    BY <2>1 DEF At
  <2>4. \A q \in Booking' :
           /\ tx'[q].checkout \in paid' \ granted'
           /\ buyer'[tx'[q].checkout] = account'
           /\ \A p \in Booking' : tx'[p].checkout = tx'[q].checkout => p = q
    <3>1. Booking \subseteq Handlers
      BY DEF Booking
    <3> QED
      BY <1>u, <2>2, <3>1 DEF BooksInv
  <2>5. \A q \in Handlers : At(q, "notify")' =>
          /\ tx'[q].checkout \in granted' /\ told'[tx'[q].checkout] = 0
          /\ \A p \in Handlers :
               At(p, "notify")' /\ tx'[p].checkout = tx'[q].checkout => p = q
    BY <1>u, <2>3 DEF BooksInv, At
  <2>6. \A q \in Handlers : At(q, "insert")' => tx'[q].checkout \in paid'
    <3> SUFFICES ASSUME NEW q \in Handlers, At(q, "insert")'
                 PROVE  tx'[q].checkout \in paid'
      OBVIOUS
    <3>1. At(q, "insert") /\ tx'[q] = tx[q]
      BY <2>3 DEF At
    <3>2. tx[q].checkout \in paid
      BY <3>1, <1>i
    <3> QED
      BY <1>u, <3>1, <3>2
  <2> QED
    BY <1>u, <2>4, <2>5, <2>6 DEF BooksInv, LatestAccount
<1> QED
  BY <1>1, <1>2, <1>3

(* The commit: nobody else books this checkout or is about to confirm it.    *)
LEMMA BooksCommit ==
  ASSUME TypeInv, BooksInv, NEW h \in Handlers, CommitPurchase(h)
  PROVE  BooksInv'
<1> DEFINE c == tx[h].checkout
<1>0. /\ tx \in [Handlers -> Tx] /\ told \in [Checkouts -> Nat]
      /\ tx[h].pc = "commit" /\ c \in Checkouts
  BY TxFacts DEF TypeInv, TypeOK, CommitPurchase, At, HasIt
<1>1. h \in Booking
  BY <1>0 DEF Booking
<1>2. /\ c \in paid \ granted /\ buyer[c] = account
      /\ \A q \in Booking : tx[q].checkout = c => q = h
  BY <1>1 DEF BooksInv
<1>3. told[c] = 0
  BY <1>0, <1>2 DEF BooksInv
<1>4. /\ tx'[h].pc = "notify" /\ tx'[h].checkout = c
      /\ \A q \in Handlers \ {h} : tx'[q] = tx[q]
  BY <1>0 DEF CommitPurchase, Becomes, Idle
<1>5. /\ purchases' = purchases \cup {c} /\ granted' = granted \cup {c}
      /\ UNCHANGED <<account, accounts, buyer, paid, told>>
  BY DEF CommitPurchase, user, stripe
<1> HIDE DEF c
<1>6. Booking' = Booking \ {h}
  BY <1>4 DEF Booking
<1>7. \A q \in Booking' :
         /\ tx'[q].checkout \in paid' \ granted'
         /\ buyer'[tx'[q].checkout] = account'
         /\ \A p \in Booking' : tx'[p].checkout = tx'[q].checkout => p = q
  <2>1. \A q \in Booking' : q \in Booking /\ tx'[q] = tx[q] /\ tx[q].checkout # c
    BY <1>2, <1>4, <1>6 DEF Booking
  <2> QED
    BY <1>5, <2>1 DEF BooksInv
<1>8. \A q \in Handlers : At(q, "notify")' =>
        /\ tx'[q].checkout \in granted' /\ told'[tx'[q].checkout] = 0
        /\ \A p \in Handlers :
             At(p, "notify")' /\ tx'[p].checkout = tx'[q].checkout => p = q
  <2>1. \A q \in Handlers \ {h} : tx[q].pc = "notify" =>
          /\ tx[q].checkout \in granted /\ told[tx[q].checkout] = 0
          /\ tx[q].checkout # c
    BY <1>2 DEF BooksInv, At
  <2>2. \A q, p \in Handlers \ {h} :
          tx[q].pc = "notify" /\ tx[p].pc = "notify"
            /\ tx[p].checkout = tx[q].checkout => p = q
    BY DEF BooksInv, At
  <2> QED
    BY <1>3, <1>4, <1>5, <2>1, <2>2 DEF At
<1>9. \A q \in Handlers : At(q, "insert")' => tx'[q].checkout \in paid'
  <2>1. \A q \in Handlers : tx[q].pc = "insert" => tx[q].checkout \in paid
    BY DEF BooksInv, At
  <2> QED
    BY <1>4, <1>5, <2>1 DEF At
<1>10. /\ \A d \in granted' : d \in purchases' \/ buyer'[d] # account'
       /\ granted' \subseteq paid'
       /\ \A d \in Checkouts : told'[d] > 0 => d \in granted'
  BY <1>2, <1>5 DEF BooksInv
<1> QED
  BY <1>5, <1>7, <1>8, <1>9, <1>10 DEF BooksInv, LatestAccount

(* The confirmation: whoever else confirms, confirms another checkout.       *)
LEMMA BooksNotify ==
  ASSUME TypeInv, BooksInv, NEW h \in Handlers, Notify(h)
  PROVE  BooksInv'
<1> DEFINE c == tx[h].checkout
<1>0. /\ tx \in [Handlers -> Tx] /\ told \in [Checkouts -> Nat]
      /\ tx[h].pc = "notify" /\ c \in Checkouts
  BY TxFacts DEF TypeInv, TypeOK, Notify, At, HasIt
<1>1. /\ c \in granted
      /\ \A q \in Handlers : tx[q].pc = "notify" /\ tx[q].checkout = c => q = h
  BY <1>0 DEF BooksInv, At
<1>2. tx'[h].pc = "idle" /\ \A q \in Handlers \ {h} : tx'[q] = tx[q]
  BY <1>0 DEF Notify, Ends, Becomes, Idle
<1>3. UNCHANGED <<account, accounts, buyer, paid, purchases, granted>>
  BY DEF Notify, user, stripe, books
<1>4. \A d \in Checkouts \ {c} : told'[d] = told[d]
  BY <1>0 DEF Notify
<1> HIDE DEF c
<1>5. \A q \in Booking' : q \in Booking /\ tx'[q] = tx[q]
  BY <1>2 DEF Booking
<1>6. \A q \in Booking' :
         /\ tx'[q].checkout \in paid' \ granted'
         /\ buyer'[tx'[q].checkout] = account'
         /\ \A p \in Booking' : tx'[p].checkout = tx'[q].checkout => p = q
  BY <1>3, <1>5 DEF BooksInv
<1>7. \A q \in Handlers : At(q, "notify")' =>
        /\ tx'[q].checkout \in granted' /\ told'[tx'[q].checkout] = 0
        /\ \A p \in Handlers :
             At(p, "notify")' /\ tx'[p].checkout = tx'[q].checkout => p = q
  <2>1. \A q \in Handlers \ {h} : tx[q].pc = "notify" =>
          /\ tx[q].checkout \in granted /\ told[tx[q].checkout] = 0
          /\ tx[q].checkout \in Checkouts \ {c}
    BY <1>1 DEF BooksInv, At, TypeInv, TypeOK
  <2>2. \A q, p \in Handlers \ {h} :
          tx[q].pc = "notify" /\ tx[p].pc = "notify"
            /\ tx[p].checkout = tx[q].checkout => p = q
    BY DEF BooksInv, At
  <2> QED
    BY <1>2, <1>3, <1>4, <2>1, <2>2 DEF At
<1>8. \A q \in Handlers : At(q, "insert")' => tx'[q].checkout \in paid'
  <2>1. \A q \in Handlers : tx[q].pc = "insert" => tx[q].checkout \in paid
    BY DEF BooksInv, At
  <2> QED
    BY <1>2, <1>3, <2>1 DEF At
<1>9. \A d \in Checkouts : told'[d] > 0 => d \in granted'
  BY <1>1, <1>3, <1>4 DEF BooksInv
<1> QED
  BY <1>3, <1>6, <1>7, <1>8, <1>9 DEF BooksInv, LatestAccount

(* Customer, deletion and registration: an account that comes back has never *)
(* bought anything.                                                          *)
LEMMA BooksOutside ==
  ASSUME TypeInv, BooksInv,
         \/ \E c \in Checkouts : CreateCheckout(c) \/ Pay(c)
         \/ DeleteAccount \/ CreateAccount \/ Tick
  PROVE  BooksInv'
<1>0. /\ accounts \in Accounts /\ account \in Accounts \cup {NoAccount}
      /\ buyer \in [Checkouts -> Accounts \cup {NoAccount}]
      /\ paid \in SUBSET Checkouts
  BY DEF TypeInv, TypeOK
<1>u. UNCHANGED <<tx, granted, told>>
  BY DEF CreateCheckout, Pay, DeleteAccount, CreateAccount, Tick, history
<1>b. Booking' = Booking
  BY <1>u DEF Booking
<1>1. ASSUME NEW c \in Checkouts, CreateCheckout(c) PROVE BooksInv'
  <2>1. /\ c \notin paid /\ account # NoAccount
        /\ buyer' = [buyer EXCEPT ![c] = account]
        /\ UNCHANGED <<account, accounts, paid, purchases>>
    BY <1>1 DEF CreateCheckout, BooksInv, user, books
  <2>2. \A d \in paid : buyer'[d] = buyer[d]
    BY <1>0, <2>1
  <2>3. account = accounts
    BY <2>1 DEF BooksInv, LatestAccount
  <2>4. \A d \in Checkouts : buyer'[d] <= accounts'
    <3>1. \A d \in Checkouts : buyer'[d] = buyer[d] \/ buyer'[d] = accounts
      BY <1>0, <2>1, <2>3
    <3>2. accounts \in Int
      BY <1>0, EntitlementsAssumption DEF Accounts
    <3> QED
      BY <2>1, <3>1, <3>2 DEF BooksInv
  <2>5. \A q \in Booking' :
           /\ tx'[q].checkout \in paid' \ granted'
           /\ buyer'[tx'[q].checkout] = account'
           /\ \A p \in Booking' : tx'[p].checkout = tx'[q].checkout => p = q
    BY <1>u, <1>b, <2>1, <2>2 DEF BooksInv
  <2> QED
    BY <1>u, <2>1, <2>2, <2>4, <2>5 DEF BooksInv, LatestAccount, At
<1>2. ASSUME NEW c \in Checkouts, Pay(c) PROVE BooksInv'
  <2>1. /\ buyer[c] # NoAccount /\ paid' = paid \cup {c}
        /\ UNCHANGED <<account, accounts, buyer, purchases>>
    BY <1>2 DEF Pay, user, books
  <2> QED
    BY <1>u, <1>b, <2>1 DEF BooksInv, LatestAccount, At
<1>3. ASSUME DeleteAccount PROVE BooksInv'
  <2>1. /\ Booking = {} /\ account' = NoAccount
        /\ UNCHANGED <<accounts, buyer, paid>>
    BY <1>3 DEF DeleteAccount, MayDelete, stripe
  <2>2. \A d \in granted' : buyer'[d] # account'
    BY <1>u, <2>1 DEF BooksInv
  <2> QED
    BY <1>u, <1>b, <2>1, <2>2 DEF BooksInv, LatestAccount, At
<1>4. ASSUME CreateAccount PROVE BooksInv'
  <2>1. /\ account = NoAccount /\ accounts' = accounts + 1
        /\ account' = accounts + 1 /\ UNCHANGED <<buyer, paid, purchases>>
    BY <1>4 DEF CreateAccount, stripe, books
  <2>2. Booking = {}
    BY <2>1 DEF BooksInv
  <2>3. \A d \in Checkouts : buyer[d] <= accounts /\ buyer[d] \in Int
    BY <1>0, EntitlementsAssumption DEF BooksInv, Accounts, NoAccount
  <2>4. accounts \in Int
    BY <1>0, EntitlementsAssumption DEF Accounts
  <2>5. \A d \in Checkouts : buyer'[d] <= accounts' /\ buyer'[d] # account'
    BY <2>1, <2>3, <2>4
  <2>6. granted' \subseteq paid' /\ paid' \subseteq Checkouts
    BY <1>0, <1>u, <2>1 DEF BooksInv
  <2> QED
    BY <1>u, <1>b, <2>1, <2>2, <2>5, <2>6 DEF BooksInv, LatestAccount, At
<1>5. ASSUME Tick PROVE BooksInv'
  <2>1. UNCHANGED <<account, accounts, buyer, paid, purchases, granted, told, tx>>
    BY <1>5 DEF Tick, user, stripe, books, history
  <2> QED
    BY <2>1, BooksFrame
<1> QED
  BY <1>1, <1>2, <1>3, <1>4, <1>5

LEMMA BooksStep == TypeInv /\ BooksInv /\ [Next]_vars => BooksInv'
<1> SUFFICES ASSUME TypeInv, BooksInv, [Next]_vars PROVE BooksInv'
  OBVIOUS
<1>1. CASE UNCHANGED vars
  BY <1>1, BooksFrame DEF vars, user, stripe, books, history
<1>2. CASE Next
  <2>1. ASSUME NEW h \in Handlers, Begin(h) \/ Advance(h) \/ Crash(h)
        PROVE  BooksInv'
    BY <2>1, BooksOthers, BooksPayment, BooksCommit, BooksNotify
       DEF Begin, Advance
  <2> QED
    BY <1>2, <2>1, BooksOutside DEF Next
<1> QED
  BY <1>1, <1>2

LEMMA BooksInit == Init => BooksInv
<1> SUFFICES ASSUME Init PROVE BooksInv
  OBVIOUS
<1>1. \A h \in Handlers : tx[h].pc = "idle"
  BY DEF Init, Idle
<1>2. Booking = {}
  BY <1>1 DEF Booking
<1> QED
  BY <1>1, <1>2 DEF Init, BooksInv, LatestAccount, At, NoAccount

(* The two inductive invariants, which the runs check as well.               *)
THEOREM EntitlementsInvariant == Spec => []EntitlementsInv
<1>1. Init => TypeInv /\ EntitlementsInv
  BY TypeInit, TrialInit, BooksInit DEF EntitlementsInv
<1>2. TypeInv /\ EntitlementsInv /\ [Next]_vars => (TypeInv /\ EntitlementsInv)'
  BY TypeStep, TrialStep, BooksStep DEF EntitlementsInv
<1> QED
  BY <1>1, <1>2, PTL DEF Spec

(***************************************************************************)
(* Entitlements implements PaymentOnce.                                    *)
(***************************************************************************)

(* What PaymentOnce sees of the entitlements.                                *)
Books == {<<s.checkout, s.id>> : s \in Bought}

(* Marking rows superseded, expired or revoked changes nothing in the books. *)
LEMMA MarkedBooks ==
  ASSUME TypeOK, NEW ids, NEW st \in {"superseded", "expired", "revoked"}
  PROVE  {<<s.checkout, s.id>> : s \in {r \in Marked(ids, st) :
                                          r.checkout # NoCheckout}} = Books
<1> DEFINE mark(s) == IF s.id \in ids THEN [s EXCEPT !.status = st] ELSE s
<1>1. \A s \in subs : /\ mark(s).checkout = s.checkout /\ mark(s).id = s.id
                      /\ mark(s) \in Marked(ids, st)
  BY DEF TypeOK, Entitlement, Marked
<1>2. \A r \in Marked(ids, st) : \E s \in subs : r = mark(s)
  BY DEF Marked
<1> HIDE DEF mark
<1> QED
  BY <1>1, <1>2 DEF Books, Bought

(* A step that adds or marks rows that were not bought is none of the shop.  *)
LEMMA RefineOthers ==
  ASSUME TypeInv, NEW h \in Handlers,
         \/ \E c \in Checkouts : PayLookup(h, c)
         \/ InsertPurchase(h) \/ ReadCurrent(h)
         \/ StartTrial(h) \/ LockTrial(h) \/ CommitTrial(h)
         \/ ReadGrant(h) \/ CommitGrant(h) \/ SelectEnded(h) \/ FlushEnded(h)
         \/ Notice(h) \/ CommitEnded(h) \/ ReadReset(h) \/ CommitReset(h)
         \/ Crash(h)
  PROVE  UNCHANGED <<paid, granted, purchases, Books, commissions, told>>
<1>0. TypeOK
  BY DEF TypeInv
<1>1. UNCHANGED <<paid, granted, purchases, commissions, told>>
  BY DEF PayLookup, InsertPurchase, ReadCurrent, StartTrial, LockTrial,
         CommitTrial, ReadGrant, CommitGrant, SelectEnded, FlushEnded, Notice,
         CommitEnded, ReadReset, CommitReset, Crash, stripe, books, history
<1>2. Books' = Books
  <2>1. CASE subs' = subs
    BY <2>1 DEF Books, Bought
  <2>2. ASSUME NEW row, row.checkout = NoCheckout, subs' = subs \cup {row}
        PROVE  Books' = Books
    BY <2>2 DEF Books, Bought
  <2>3. CASE CommitTrial(h) \/ CommitGrant(h)
    <3>1. \A kind, now : NewRow(kind, NoCheckout, now).checkout = NoCheckout
      BY DEF NewRow
    <3> QED
      BY <2>1, <2>2, <2>3, <3>1 DEF CommitTrial, CommitGrant
  <2>4. ASSUME NEW st \in {"superseded", "expired", "revoked"},
               subs' = Marked(tx[h].old, st)
        PROVE  Books' = Books
    BY <1>0, <2>4, MarkedBooks DEF Books, Bought
  <2>5. CASE CommitEnded(h) \/ CommitReset(h)
    BY <2>4, <2>5 DEF CommitEnded, CommitReset
  <2>6. CASE \/ \E c \in Checkouts : PayLookup(h, c)
             \/ InsertPurchase(h) \/ ReadCurrent(h) \/ StartTrial(h)
             \/ LockTrial(h) \/ ReadGrant(h) \/ SelectEnded(h) \/ FlushEnded(h)
             \/ Notice(h) \/ ReadReset(h) \/ Crash(h)
    BY <2>1, <2>6 DEF PayLookup, InsertPurchase, ReadCurrent, StartTrial,
         LockTrial, ReadGrant, SelectEnded, FlushEnded, Notice, ReadReset, Crash,
         books
  <2> QED
    BY <2>3, <2>5, <2>6
<1> QED
  BY <1>1, <1>2

LEMMA RefineCommit ==
  ASSUME TypeInv, BooksInv, NEW h \in Handlers, CommitPurchase(h)
  PROVE  \E c \in Checkouts : Payment!Grant(c)
<1> DEFINE c == tx[h].checkout
           row == NewRow(plan[c], c, tx[h].now)
<1>0. TypeOK /\ c \in Checkouts /\ h \in Booking
  BY TxFacts DEF TypeInv, CommitPurchase, At, HasIt, Booking
<1>1. c \in paid \ granted
  BY <1>0 DEF BooksInv
<1>2. /\ granted' = granted \cup {c} /\ purchases' = purchases \cup {c}
      /\ commissions' \in {commissions, commissions \cup {c}}
      /\ UNCHANGED <<paid, told>>
  BY DEF CommitPurchase, stripe
<1>3. row.checkout = c /\ row.id = lastId + 1
  BY DEF NewRow
<1>4. lastId + 1 \in Ids
  BY <1>0, EntitlementsAssumption, SMTT(30) DEF CommitPurchase, TypeOK, Ids
<1>5. c # NoCheckout
  BY <1>0, EntitlementsAssumption
<1>6. subs' = Marked(tx[h].old, "superseded") \cup {row}
  BY DEF CommitPurchase, Booked
<1> HIDE DEF row, c
<1>7. Books' = Books \cup {<<c, lastId + 1>>}
  <2> DEFINE kept == Marked(tx[h].old, "superseded")
  <2>1. {<<s.checkout, s.id>> : s \in {r \in kept : r.checkout # NoCheckout}}
          = Books
    BY <1>0, MarkedBooks
  <2> HIDE DEF kept
  <2>2. Books' = {<<s.checkout, s.id>> :
                    s \in {r \in kept : r.checkout # NoCheckout}}
                 \cup {<<row.checkout, row.id>>}
    BY <1>3, <1>5, <1>6 DEF Books, Bought, kept
  <2> QED
    BY <1>3, <2>1, <2>2
<1>8. Payment!Grant(c)
  BY <1>1, <1>2, <1>4, <1>7 DEF Payment!Grant, Books
<1> QED
  BY <1>0, <1>8 DEF Payment!Grant

LEMMA RefineNotify ==
  ASSUME TypeInv, BooksInv, NEW h \in Handlers, Notify(h)
  PROVE  \/ \E c \in Checkouts : Payment!Confirm(c)
         \/ UNCHANGED <<paid, granted, purchases, Books, commissions, told>>
<1> DEFINE c == tx[h].checkout
<1>0. c \in Checkouts /\ At(h, "notify")
  BY TxFacts DEF TypeInv, Notify, At, HasIt
<1>1. c \in granted /\ told[c] = 0
  BY <1>0 DEF BooksInv
<1>2. /\ told' = [told EXCEPT ![c] = told[c] + 1] \/ told' = told
      /\ UNCHANGED <<paid, granted, purchases, subs, commissions>>
  BY DEF Notify, stripe, books
<1>3. Books' = Books
  BY <1>2 DEF Books, Bought
<1> HIDE DEF c
<1>4. CASE told' = [told EXCEPT ![c] = told[c] + 1]
  <2>1. told' = [told EXCEPT ![c] = 1]
    BY <1>1, <1>4
  <2>2. Payment!Confirm(c)
    BY <1>1, <1>2, <1>3, <2>1 DEF Payment!Confirm, Books
  <2> QED
    BY <1>0, <2>2
<1>5. CASE told' = told
  BY <1>2, <1>3, <1>5
<1> QED
  BY <1>2, <1>4, <1>5

LEMMA RefineOutside ==
  ASSUME \/ \E c \in Checkouts : CreateCheckout(c) \/ Pay(c)
         \/ DeleteAccount \/ CreateAccount \/ Tick
  PROVE  \/ Payment!Erase \/ \E c \in Checkouts : Payment!Pay(c)
         \/ UNCHANGED <<paid, granted, purchases, Books, commissions, told>>
<1>1. ASSUME NEW c \in Checkouts, Pay(c) PROVE Payment!Pay(c)
  <2>1. Books' = Books
    BY <1>1 DEF Pay, books, Books, Bought
  <2> QED
    BY <1>1, <2>1 DEF Pay, Payment!Pay, books, history, Books
<1>2. ASSUME DeleteAccount PROVE Payment!Erase
  <2>1. Books' = {}
    BY <1>2 DEF DeleteAccount, Books, Bought
  <2> QED
    BY <1>2, <2>1 DEF DeleteAccount, MayDelete, Payment!Erase, stripe, history, Books
<1>3. CASE (\E c \in Checkouts : CreateCheckout(c)) \/ CreateAccount \/ Tick
  <2>1. UNCHANGED <<paid, granted, purchases, subs, commissions, told>>
    BY <1>3 DEF CreateCheckout, CreateAccount, Tick, stripe, books, history
  <2> QED
    BY <2>1 DEF Books, Bought
<1> QED
  BY <1>1, <1>2, <1>3

LEMMA RefineInit == Init => Payment!Init
<1> SUFFICES ASSUME Init PROVE Payment!Init
  OBVIOUS
<1>1. {<<s.checkout, s.id>> : s \in Bought} = {}
  BY DEF Init, Bought
<1> QED
  BY <1>1 DEF Init, Payment!Init

LEMMA RefineStep ==
  TypeInv /\ BooksInv /\ [Next]_vars => [Payment!Next]_(Payment!payVars)
<1> SUFFICES ASSUME TypeInv, BooksInv, [Next]_vars
             PROVE  \/ Payment!Next
                    \/ UNCHANGED <<paid, granted, purchases, Books, commissions, told>>
  BY DEF Payment!payVars, Books
<1>1. CASE UNCHANGED vars
  BY <1>1 DEF vars, stripe, books, history, Books, Bought
<1>2. CASE Next
  <2>1. ASSUME NEW h \in Handlers, Begin(h) \/ Advance(h) \/ Crash(h)
        PROVE  \/ Payment!Next
               \/ UNCHANGED <<paid, granted, purchases, Books, commissions, told>>
    BY <2>1, RefineOthers, RefineCommit, RefineNotify
       DEF Begin, Advance, Payment!Next
  <2> QED
    BY <1>2, <2>1, RefineOutside DEF Next, Payment!Next
<1> QED
  BY <1>1, <1>2

(* Whatever the races: a checkout is booked and confirmed at most once, as a *)
(* whole, and its books stay.                                                *)
THEOREM ImplementsPayment == Spec => BooksOnce
<1>1. Init => TypeInv /\ BooksInv /\ Payment!Init
  BY TypeInit, BooksInit, RefineInit
<1>2. TypeInv /\ BooksInv /\ [Next]_vars => (TypeInv /\ BooksInv)'
  BY TypeStep, BooksStep
<1> QED
  BY <1>1, <1>2, RefineStep, PTL DEF Spec, BooksOnce, Payment!Spec

(* The purchase behind a commission stays: only the deletion of the account  *)
(* takes purchases away, and a commission forbids it.                        *)
THEOREM CommissionsStay == Spec => []CommissionKept
<1>1. Init => CommissionKept
  BY DEF Init, CommissionKept
<1>2. CommissionKept /\ [Next]_vars => CommissionKept'
  <2> SUFFICES ASSUME CommissionKept, [Next]_vars PROVE CommissionKept'
    OBVIOUS
  <2>1. CASE UNCHANGED <<purchases, commissions>>
    BY <2>1 DEF CommissionKept
  <2>2. ASSUME NEW h \in Handlers, CommitPurchase(h) PROVE CommissionKept'
    BY <2>2 DEF CommitPurchase, CommissionKept
  <2>3. CASE DeleteAccount
    BY <2>3 DEF DeleteAccount, MayDelete, CommissionKept
  <2>4. ASSUME NEW h \in Handlers, Begin(h) \/ Advance(h) \/ Crash(h),
               ~CommitPurchase(h)
        PROVE  UNCHANGED <<purchases, commissions>>
    BY <2>4 DEF Begin, Advance, PayLookup, InsertPurchase, ReadCurrent, Notify,
         StartTrial, LockTrial, CommitTrial, ReadGrant, CommitGrant,
         SelectEnded, FlushEnded, Notice, CommitEnded, ReadReset, CommitReset,
         Crash, books
  <2>5. ASSUME \/ \E c \in Checkouts : CreateCheckout(c) \/ Pay(c)
               \/ CreateAccount \/ Tick
        PROVE  UNCHANGED <<purchases, commissions>>
    BY <2>5 DEF CreateCheckout, Pay, CreateAccount, Tick, books
  <2> QED
    BY <2>1, <2>2, <2>3, <2>4, <2>5 DEF Next, vars, books
<1> QED
  BY <1>1, <1>2, PTL DEF Spec

(***************************************************************************)
(* Whoever has bought a season keeps access.                               *)
(*                                                                         *)
(* A season that was superseded lives on in its successor: a later row, in *)
(* force, without end or ending with it.  For this a purchase that is still*)
(* to be committed must not have read its time before a season existed     *)
(* that it would then supersede.                                           *)
(***************************************************************************)

\* A season is this year's, or the next one's and bought after this year's end.
Window(s) ==
  \/ s.starts = SeasonStart /\ s.ends = SeasonEnd
  \/ s.starts = SeasonStart + Year /\ s.ends = SeasonEnd + Year /\ SeasonEnd < clock

Sold ==
  \A s \in subs : /\ s.id <= lastId
                  /\ s.kind = "season" => Window(s)
                  /\ \A r \in subs : r.id = s.id => r = s

Succeeds(r, s) ==
  /\ s.id <= r.id /\ (r = s \/ r.starts <= clock)
  /\ r.ends \in {Never, s.ends} /\ r.status \in {"active", "revoked"}

Lasting == \A s \in subs : s.kind = "season" /\ clock < s.ends => \E r \in subs : Succeeds(r, s)

\* What a transaction has read is still so.
Reads(v) ==
  /\ \A i \in v.old : i <= lastId
  /\ v.pc = "commit" =>
       /\ v.now <= clock
       /\ v.old # {} => EntitlementDates(plan[v.checkout], v.now)[1] <= v.now
       /\ \A i \in v.old : \A s \in subs :
            s.kind = "season" /\ s.id <= i /\ SeasonEnd < s.ends => SeasonEnd < v.now
  /\ v.pc \in {"expire", "notices"} =>
       \A s \in subs : s.id \in v.old => s.ends # Never /\ s.ends <= clock

ReadsHold == \A h \in Handlers : Reads(tx[h])

AccessInv == Sold /\ Lasting /\ ReadsHold

LEMMA RowTypes ==
  ASSUME TypeInv, NEW s \in subs
  PROVE  /\ s.id \in Nat /\ s.starts \in Nat /\ s.ends \in Nat \cup {Never} /\ s.ends \in Int
         /\ clock \in Nat /\ lastId \in Nat /\ Never \notin Nat
         /\ s.status \in {"active", "superseded", "expired", "revoked"}
<1>1. s \in Entitlement /\ clock \in Times /\ lastId \in 0..MaxRows
  BY DEF TypeInv, TypeOK
<1>2. s.id \in Ids /\ s.starts \in Nat /\ s.ends \in Nat \cup {Never}
  BY <1>1 DEF Entitlement
<1>3. s.status \in {"active", "superseded", "expired", "revoked"}
  BY <1>1 DEF Entitlement
<1>4. clock \in Nat /\ lastId \in Nat /\ s.id \in Nat
  BY <1>1, <1>2, EntitlementsAssumption DEF Times, Ids
<1> QED
  BY <1>2, <1>3, <1>4 DEF Never

Mark(t, ids, st) == IF t.id \in ids THEN [t EXCEPT !.status = st] ELSE t

LEMMA MarkedRows ==
  ASSUME TypeInv, NEW ids, NEW st
  PROVE  /\ Marked(ids, st) = {Mark(t, ids, st) : t \in subs}
         /\ \A t \in subs : LET s == Mark(t, ids, st) IN
              /\ s.id = t.id /\ s.kind = t.kind /\ s.starts = t.starts /\ s.ends = t.ends
              /\ t.id \in ids => s.status = st
              /\ t.id \notin ids => s = t
<1>1. \A t \in subs : t \in Entitlement
  BY DEF TypeInv, TypeOK
<1>2. \A t \in subs : Mark(t, ids, st) = IF t.id \in ids THEN [t EXCEPT !.status = st] ELSE t
  BY DEF Mark
<1>3. \A t \in subs :
        /\ Mark(t, ids, st).id = t.id /\ Mark(t, ids, st).kind = t.kind
        /\ Mark(t, ids, st).starts = t.starts /\ Mark(t, ids, st).ends = t.ends
        /\ t.id \in ids => Mark(t, ids, st).status = st
        /\ t.id \notin ids => Mark(t, ids, st) = t
  BY <1>1, <1>2 DEF Entitlement
<1> QED
  BY <1>3 DEF Marked, Mark

(* Steps that neither write rows nor move time.                            *)
LEMMA AccessFrame ==
  ASSUME TypeInv, AccessInv, NEW h \in Handlers, NEW v, Becomes(h, v), Reads(v),
         UNCHANGED <<clock, subs, lastId, plan>>
  PROVE  AccessInv'
<1>1. \A q \in Handlers : tx'[q] = IF q = h THEN v ELSE tx[q]
  BY DEF Becomes, TypeInv, TypeOK
<1>2. Sold' /\ Lasting'
  BY DEF AccessInv, Sold, Window, Lasting, Succeeds
<1>3. \A q \in Handlers : Reads(tx'[q])
  BY <1>1 DEF AccessInv, ReadsHold
<1>4. ReadsHold'
  BY <1>3 DEF ReadsHold, Reads, EntitlementDates, SeasonWindow
<1> QED
  BY <1>2, <1>4 DEF AccessInv

LEMMA IdleReads == Reads(Idle)
BY DEF Reads, Idle

LEMMA AccessEnds ==
  ASSUME TypeInv, AccessInv, NEW h \in Handlers, Ends(h), UNCHANGED <<clock, subs, lastId, plan>>
  PROVE  AccessInv'
BY IdleReads, AccessFrame DEF Ends

(* A step that changes what it has read to nothing, or keeps it.           *)
LEMMA ReadsKept ==
  ASSUME TypeInv, AccessInv, NEW h \in Handlers, NEW v,
         \/ v.old = {} /\ v.pc # "commit"
         \/ v.old = tx[h].old /\ v.pc \notin {"commit", "expire", "notices"}
         \/ v.old = tx[h].old /\ v.pc \in {"expire", "notices"} /\ tx[h].pc \in {"expire", "notices"}
  PROVE  Reads(v)
BY DEF AccessInv, ReadsHold, Reads

LEMMA AccessQuiet ==
  ASSUME TypeInv, AccessInv, NEW h \in Handlers,
         \/ \E c \in Checkouts : PayLookup(h, c)
         \/ StartTrial(h) \/ InsertPurchase(h) \/ Notify(h) \/ LockTrial(h)
         \/ ReadGrant(h) \/ FlushEnded(h) \/ Notice(h) \/ Crash(h)
  PROVE  AccessInv'
<1>0. UNCHANGED <<clock, subs, lastId, plan>>
  BY DEF PayLookup, StartTrial, InsertPurchase, Notify, LockTrial, ReadGrant, FlushEnded, Notice,
         Crash, stripe, books, user
<1>1. tx[h] \in Tx
  BY TxFacts
<1> DEFINE Local(v) == Becomes(h, v) /\ Reads(v)
<1>2. ASSUME NEW c \in Checkouts, PayLookup(h, c) PROVE \E v : Local(v)
  <2> DEFINE v == [Idle EXCEPT !.pc = "insert", !.checkout = c, !.account = account]
  <2>1. v.old = {} /\ v.pc = "insert"
    BY DEF Idle
  <2>2. Becomes(h, v)
    BY <1>2 DEF PayLookup
  <2> QED
    BY <2>1, <2>2, ReadsKept
<1>3. ASSUME StartTrial(h) PROVE \E v : Local(v)
  <2> DEFINE v == [Idle EXCEPT !.pc = "trial", !.account = account, !.marker = trialUsed]
  <2>1. v.old = {} /\ v.pc = "trial"
    BY DEF Idle
  <2>2. Becomes(h, v)
    BY <1>3 DEF StartTrial
  <2> QED
    BY <2>1, <2>2, ReadsKept
<1>4. ASSUME InsertPurchase(h), ~Ends(h) PROVE \E v : Local(v)
  <2> DEFINE v == [tx[h] EXCEPT !.pc = "read"]
  <2>1. v.old = tx[h].old /\ v.pc = "read"
    BY <1>1 DEF Tx
  <2>2. Becomes(h, v)
    BY <1>4 DEF InsertPurchase
  <2> QED
    BY <2>1, <2>2, ReadsKept
<1>5. ASSUME LockTrial(h), ~Ends(h) PROVE \E v : Local(v)
  <2> DEFINE v == [tx[h] EXCEPT !.pc = "trialCommit", !.now = clock]
  <2>1. v.old = tx[h].old /\ v.pc = "trialCommit"
    BY <1>1 DEF Tx
  <2>2. Becomes(h, v)
    BY <1>5 DEF LockTrial
  <2> QED
    BY <2>1, <2>2, ReadsKept
<1>6. ASSUME ReadGrant(h) PROVE \E v : Local(v)
  <2> DEFINE v == [Idle EXCEPT !.pc = "grant", !.account = account, !.now = clock]
  <2>1. v.old = {} /\ v.pc = "grant"
    BY DEF Idle
  <2>2. Becomes(h, v)
    BY <1>6 DEF ReadGrant
  <2> QED
    BY <2>1, <2>2, ReadsKept
<1>7. ASSUME FlushEnded(h), ~Ends(h) PROVE \E v : Local(v)
  <2> DEFINE v == [tx[h] EXCEPT !.pc = "notices", !.todo = tx[h].old]
  <2>1. v.old = tx[h].old /\ v.pc = "notices" /\ tx[h].pc = "expire"
    BY <1>1, <1>7 DEF Tx, FlushEnded, At
  <2>2. Becomes(h, v)
    BY <1>7 DEF FlushEnded
  <2> QED
    BY <2>1, <2>2, ReadsKept
<1>8. ASSUME Notice(h) PROVE \E v : Local(v)
  <2>1. PICK i \in tx[h].todo : Becomes(h, [tx[h] EXCEPT !.todo = @ \ {i}])
    BY <1>8 DEF Notice
  <2> DEFINE v == [tx[h] EXCEPT !.todo = @ \ {i}]
  <2>2. v.old = tx[h].old /\ v.pc = "notices" /\ tx[h].pc = "notices"
    BY <1>1, <1>8 DEF Tx, Notice, At
  <2>3. Becomes(h, v)
    BY <2>1
  <2> QED
    BY <2>2, <2>3, ReadsKept
<1>9. Notify(h) \/ Crash(h) => Ends(h)
  BY DEF Notify, Crash
<1>10. Ends(h) \/ \E v : Local(v)
  BY <1>2, <1>3, <1>4, <1>5, <1>6, <1>7, <1>8, <1>9
<1> QED
  BY <1>0, <1>10, AccessEnds, AccessFrame

(* Time, sales and deletion.                                               *)
LEMMA AccessOutside ==
  ASSUME TypeInv, BooksInv, AccessInv,
         \/ \E c \in Checkouts : CreateCheckout(c) \/ Pay(c)
         \/ DeleteAccount \/ CreateAccount \/ Tick
  PROVE  AccessInv'
<1>0. /\ clock \in Nat /\ plan \in [Checkouts -> Plans]
      /\ \A s \in subs : s.ends \in Int /\ s.starts \in Int
  BY RowTypes, EntitlementsAssumption DEF TypeInv, TypeOK, Times
<1>1. ASSUME NEW c \in Checkouts, CreateCheckout(c) PROVE AccessInv'
  <2>1. UNCHANGED <<clock, subs, lastId, tx>> /\ buyer[c] = NoAccount
    BY <1>1 DEF CreateCheckout, books
  <2>2. PICK p : plan' = [plan EXCEPT ![c] = p]
    BY <1>1 DEF CreateCheckout
  <2>3. ASSUME NEW h \in Handlers, tx[h].pc = "commit" PROVE plan'[tx[h].checkout] = plan[tx[h].checkout]
    <3>1. tx[h].checkout \in paid
      BY <2>3 DEF BooksInv, Booking
    <3>2. tx[h].checkout # c
      BY <2>1, <3>1 DEF BooksInv
    <3> QED
      BY <1>0, <2>2, <3>2
  <2>4. Sold' /\ Lasting'
    BY <2>1 DEF AccessInv, Sold, Window, Lasting, Succeeds
  <2>5. ReadsHold'
    BY <2>1, <2>3 DEF AccessInv, ReadsHold, Reads, EntitlementDates, SeasonWindow
  <2> QED
    BY <2>4, <2>5 DEF AccessInv
<1>2. CASE (\E c \in Checkouts : Pay(c)) \/ CreateAccount
  <2>1. UNCHANGED <<clock, subs, lastId, tx, plan>>
    BY <1>2 DEF Pay, CreateAccount, books, stripe
  <2> QED
    BY <2>1 DEF AccessInv, Sold, Window, Lasting, Succeeds, ReadsHold, Reads, EntitlementDates,
                SeasonWindow
<1>3. CASE DeleteAccount
  <2>1. UNCHANGED <<clock, lastId, tx, plan>> /\ subs' = {}
    BY <1>3 DEF DeleteAccount, stripe
  <2> QED
    BY <2>1 DEF AccessInv, Sold, Window, Lasting, Succeeds, ReadsHold, Reads, EntitlementDates,
                SeasonWindow
<1>4. CASE Tick
  <2>1. UNCHANGED <<subs, lastId, tx, plan>> /\ clock' = clock + 1
    BY <1>4 DEF Tick, books, stripe
  <2>2. Sold'
    BY <1>0, <2>1, EntitlementsAssumption DEF AccessInv, Sold, Window
  <2>3. \A r, s \in subs : Succeeds(r, s) => Succeeds(r, s)'
    BY <1>0, <2>1 DEF Succeeds
  <2>4. ASSUME NEW s \in subs, s.kind = "season", clock' < s.ends PROVE \E r \in subs : Succeeds(r, s)'
    <3>1. clock < s.ends
      BY <1>0, <2>1, <2>4
    <3>2. PICK r \in subs : Succeeds(r, s)
      BY <2>4, <3>1 DEF AccessInv, Lasting
    <3> QED
      BY <2>3, <3>2
  <2>5. Lasting'
    BY <2>1, <2>4 DEF Lasting
  <2>6. \A h \in Handlers : tx[h].now \in Int
    <3>1. \A h \in Handlers : tx[h].now \in Times
      BY TxFacts
    <3> QED
      BY <3>1 DEF Times
  <2>7. ASSUME NEW h \in Handlers PROVE Reads(tx[h])'
    <3>1. Reads(tx[h])
      BY DEF AccessInv, ReadsHold
    <3>2. tx[h].now <= clock => tx[h].now <= clock'
      BY <1>0, <2>1, <2>6
    <3>3. \A s \in subs : s.ends <= clock => s.ends <= clock'
      BY <1>0, <2>1
    <3> QED
      BY <2>1, <3>1, <3>2, <3>3 DEF Reads, EntitlementDates, SeasonWindow
  <2>8. ReadsHold'
    BY <2>1, <2>7 DEF ReadsHold
  <2> QED
    BY <2>2, <2>5, <2>8 DEF AccessInv
<1> QED
  BY <1>1, <1>2, <1>3, <1>4

(* What the transactions read before they write.                           *)
LEMMA AccessReads ==
  ASSUME TypeInv, AccessInv, NEW h \in Handlers,
         ReadCurrent(h) \/ SelectEnded(h) \/ ReadReset(h)
  PROVE  AccessInv'
<1>0. UNCHANGED <<clock, subs, lastId, plan>>
  BY DEF ReadCurrent, SelectEnded, ReadReset, stripe, books
<1>1. tx[h] \in Tx
  BY TxFacts
<1>2. \A s \in subs : s.id <= lastId
  BY DEF AccessInv, Sold
<1>3. ASSUME ReadCurrent(h) PROVE AccessInv'
  <2> DEFINE rows == Superseded(plan[tx[h].checkout], clock)
             ids == IdsOf(rows)
             v == [tx[h] EXCEPT !.pc = "commit", !.now = clock, !.old = ids]
  <2>1. rows \subseteq subs
    BY DEF Superseded, Current
  <2>2. rows # {} => EntitlementDates(plan[tx[h].checkout], clock)[1] <= clock
    BY DEF Superseded
  <2> HIDE DEF rows
  <2>3. \A i \in ids : \E s \in rows : s.id = i
    BY DEF IdsOf
  <2>4. (\A i \in ids : i <= lastId) /\ (ids # {} => rows # {})
    BY <1>2, <2>1, <2>3
  <2>5. ASSUME NEW s \in subs, s.kind = "season", SeasonEnd < s.ends PROVE SeasonEnd < clock
    <3>1. Window(s)
      BY <2>5 DEF AccessInv, Sold
    <3> QED
      BY <2>5, <3>1, EntitlementsAssumption DEF Window
  <2>6. clock <= clock
    BY EntitlementsAssumption DEF TypeInv, TypeOK, Times
  <2>7. Becomes(h, v)
    BY <1>3 DEF ReadCurrent, rows
  <2> HIDE DEF ids
  <2>8. v.pc = "commit" /\ v.now = clock /\ v.old = ids /\ v.checkout = tx[h].checkout
    BY <1>1 DEF Tx
  <2> HIDE DEF v
  <2>9. Reads(v)
    BY <2>2, <2>4, <2>5, <2>6, <2>8 DEF Reads
  <2> QED
    BY <1>0, <2>7, <2>9, AccessFrame
<1>4. ASSUME SelectEnded(h) PROVE AccessInv'
  <2> DEFINE ids == IdsOf(Ended)
             v == [Idle EXCEPT !.pc = "expire", !.old = ids]
  <2>1. \A i \in ids : \E s \in Ended : s.id = i
    BY DEF IdsOf
  <2>2. Ended \subseteq subs /\ \A s \in Ended : s.ends # Never /\ s.ends <= clock
    BY DEF Ended
  <2>3. Becomes(h, v)
    BY <1>4 DEF SelectEnded
  <2> HIDE DEF ids
  <2>4. v.pc = "expire" /\ v.old = ids
    BY DEF Idle
  <2> HIDE DEF v
  <2>5. \A i \in ids : i <= lastId
    BY <1>2, <2>1, <2>2
  <2>6. ASSUME NEW s \in subs, s.id \in ids PROVE s.ends # Never /\ s.ends <= clock
    <3>1. PICK t \in Ended : t.id = s.id
      BY <2>1, <2>6
    <3>2. t = s
      BY <2>2, <3>1 DEF AccessInv, Sold
    <3> QED
      BY <2>2, <3>2
  <2>7. Reads(v)
    BY <2>4, <2>5, <2>6 DEF Reads
  <2> QED
    BY <1>0, <2>3, <2>7, AccessFrame
<1>5. ASSUME ReadReset(h) PROVE AccessInv'
  <2> DEFINE ids == IdsOf(Effective)
             v == [Idle EXCEPT !.pc = "reset", !.old = ids]
  <2>1. \A i \in ids : \E s \in Effective : s.id = i
    BY DEF IdsOf
  <2>2. Effective \subseteq subs
    BY DEF Effective, Current
  <2>3. Becomes(h, v)
    BY <1>5 DEF ReadReset
  <2> HIDE DEF ids
  <2>4. v.pc = "reset" /\ v.old = ids
    BY DEF Idle
  <2> HIDE DEF v
  <2>5. \A i \in ids : i <= lastId
    BY <1>2, <2>1, <2>2
  <2>6. Reads(v)
    BY <2>4, <2>5 DEF Reads
  <2> QED
    BY <1>0, <2>3, <2>6, AccessFrame
<1> QED
  BY <1>3, <1>4, <1>5

\* Whoever carried a season on is revoked, or a new row takes over.
Relieved(ids, st, X) ==
  \A s, r \in subs :
    s.kind = "season" /\ clock < s.ends /\ s.id <= r.id /\ r.id \in ids
      /\ r.ends \in {Never, s.ends}
    => \/ st = "revoked"
       \/ \E n \in X : n.starts <= clock /\ n.ends \in {Never, s.ends}

(* A step that marks rows and perhaps adds one: whatever was to carry a      *)
(* season on has a successor itself.                                         *)
LEMMA AccessRows ==
  ASSUME TypeInv, AccessInv, NEW h \in Handlers, NEW v, Becomes(h, v), v.old = {}, v.pc \notin {"commit"},
         NEW ids, NEW st \in {"superseded", "expired", "revoked"},
         NEW X, subs' = Marked(ids, st) \cup X, lastId' \in Int, lastId <= lastId',
         \A n \in X : /\ n.id = lastId + 1 /\ n.id = lastId' /\ n.status = "active"
                      /\ n.kind = "season" => Window(n)
                      /\ \A m \in X : m = n,
         UNCHANGED <<clock, plan>>,
         Relieved(ids, st, X)
  PROVE  AccessInv'
<1> DEFINE mark(t) == Mark(t, ids, st)
<1>0. /\ lastId \in Nat /\ clock \in Nat
      /\ \A s \in subs : s.id \in Nat
  <2>1. lastId \in 0..MaxRows /\ clock \in 0..MaxTime
    BY DEF TypeInv, TypeOK, Times
  <2> QED
    BY <2>1, RowTypes
<1>1. \A t \in subs : /\ mark(t) \in subs'
                      /\ mark(t).id = t.id /\ mark(t).kind = t.kind
                      /\ mark(t).starts = t.starts /\ mark(t).ends = t.ends
                      /\ t.id \in ids => mark(t).status = st
                      /\ t.id \notin ids => mark(t) = t
  BY MarkedRows
<1>2. \A s \in subs' : s \in X \/ \E t \in subs : s = mark(t)
  BY MarkedRows
<1>m. \A n \in X : n \in subs'
  OBVIOUS
<1> HIDE DEF mark
<1>3. \A s \in subs : /\ s.id <= lastId
                      /\ s.kind = "season" => Window(s)
                      /\ \A r \in subs : r.id = s.id => r = s
  BY DEF AccessInv, Sold
<1>4. \A s \in subs' : s.id \in Int /\ s.id <= lastId'
  BY <1>0, <1>1, <1>2, <1>3
<1>5. \A s \in subs' : s.kind = "season" => Window(s)
  <2>1. \A t \in subs : Window(t) => Window(mark(t))
    BY <1>1 DEF Window
  <2> QED
    BY <1>1, <1>2, <1>3, <2>1
<1>6. \A s, r \in subs' : r.id = s.id => r = s
  <2>1. \A t \in subs : \A n \in X : n.id # mark(t).id
    BY <1>0, <1>1, <1>3
  <2>2. \A t, u \in subs : mark(t).id = mark(u).id => t = u
    BY <1>1, <1>3
  <2> QED
    BY <1>2, <2>1, <2>2
<1>7. Sold'
  BY <1>4, <1>5, <1>6 DEF Sold, Window
<1>8. ASSUME NEW s \in subs', s.kind = "season", clock < s.ends PROVE \E r \in subs' : Succeeds(r, s)
  <2>1. CASE s \in X
    <3>1. s.id <= s.id
      BY <1>0, <2>1
    <3> QED
      BY <2>1, <3>1 DEF Succeeds
  <2>2. ASSUME NEW t \in subs, s = mark(t) PROVE \E r \in subs' : Succeeds(r, s)
    <3>0. t.kind = "season" /\ clock < t.ends /\ s.id = t.id /\ s.ends = t.ends
      BY <1>1, <1>8, <2>2
    <3>1. PICK r \in subs : Succeeds(r, t)
      BY <3>0 DEF AccessInv, Lasting
    <3>2. /\ t.id <= r.id /\ (r = t \/ r.starts <= clock)
          /\ r.ends \in {Never, t.ends} /\ r.status \in {"active", "revoked"}
      BY <3>1 DEF Succeeds
    <3>3. /\ s.id <= mark(r).id /\ (mark(r) = s \/ mark(r).starts <= clock)
          /\ mark(r).ends \in {Never, s.ends}
      BY <1>1, <2>2, <3>0, <3>2
    <3>4. CASE r.id \notin ids
      <4>1. Succeeds(mark(r), s)
        BY <1>1, <3>2, <3>3, <3>4 DEF Succeeds
      <4> QED
        BY <1>1, <4>1
    <3>5. CASE r.id \in ids /\ st = "revoked"
      <4>1. Succeeds(mark(r), s)
        BY <1>1, <3>3, <3>5 DEF Succeeds
      <4> QED
        BY <1>1, <4>1
    <3>6. CASE r.id \in ids /\ st # "revoked"
      <4>1. PICK n \in X : n.starts <= clock /\ n.ends \in {Never, t.ends}
        BY <3>0, <3>2, <3>6 DEF Relieved
      <4>2. s.id <= n.id
        BY <1>0, <1>3, <3>0
      <4>3. Succeeds(n, s)
        BY <3>0, <4>1, <4>2 DEF Succeeds
      <4> QED
        BY <1>m, <4>3
    <3> QED
      BY <3>4, <3>5, <3>6
  <2> QED
    BY <1>2, <2>1, <2>2
<1>9. Lasting'
  BY <1>8 DEF Lasting, Succeeds
<1>10. \A q \in Handlers : tx'[q] = IF q = h THEN v ELSE tx[q]
  BY DEF Becomes, TypeInv, TypeOK
<1>11. ASSUME NEW q \in Handlers PROVE Reads(tx[q])' \/ q = h
  <2> DEFINE w == tx[q]
  <2>1. Reads(w) /\ w.old \in SUBSET Ids
    BY TxFacts DEF AccessInv, ReadsHold
  <2>2. \A i \in w.old : i \in Nat
    BY <2>1, EntitlementsAssumption DEF Ids
  <2>3. (q # h) => tx'[q] = w
    BY <1>10
  <2> HIDE DEF w
  <2>4. \A i \in w.old : i <= lastId
    BY <2>1 DEF Reads
  <2>5. \A i \in w.old : i <= lastId'
    BY <1>0, <2>2, <2>4
  <2>6. \A n \in X : \A i \in w.old : n.id # i /\ ~(n.id <= i)
    BY <1>0, <2>2, <2>4
  <2>7. w.pc = "commit" =>
          /\ w.now <= clock
          /\ w.old # {} => EntitlementDates(plan[w.checkout], w.now)[1] <= w.now
          /\ \A i \in w.old : \A s \in subs' :
               s.kind = "season" /\ s.id <= i /\ SeasonEnd < s.ends => SeasonEnd < w.now
    BY <1>1, <1>2, <2>1, <2>6 DEF Reads
  <2>8. w.pc \in {"expire", "notices"} =>
          \A s \in subs' : s.id \in w.old => s.ends # Never /\ s.ends <= clock
    BY <1>1, <1>2, <2>1, <2>6 DEF Reads
  <2>9. ASSUME q # h PROVE Reads(tx[q])'
    BY <2>3, <2>5, <2>7, <2>8, <2>9 DEF Reads, EntitlementDates, SeasonWindow
  <2> QED
    BY <2>9
<1>12. Reads(tx[h])'
  BY <1>10 DEF Reads
<1>13. ReadsHold'
  BY <1>11, <1>12 DEF ReadsHold
<1> QED
  BY <1>7, <1>9, <1>13 DEF AccessInv

LEMMA MarkNone == Marked({}, "expired") = subs
BY DEF Marked

LEMMA AccessCommitPurchase ==
  ASSUME TypeInv, AccessInv, NEW h \in Handlers, CommitPurchase(h)
  PROVE  AccessInv'
<1> DEFINE c == tx[h].checkout
           now == tx[h].now
           ids == tx[h].old
           kind == plan[c]
           n == NewRow(kind, c, now)
           v == [Idle EXCEPT !.pc = "notify", !.checkout = c]
           X == {n}
<1>1. /\ subs' = Marked(ids, "superseded") \cup X /\ lastId' = lastId + 1
      /\ Becomes(h, v) /\ UNCHANGED <<clock, plan>>
  BY DEF CommitPurchase, Booked, stripe
<1>2. v.old = {} /\ v.pc \notin {"commit"}
  BY DEF Idle
<1>3. /\ n.id = lastId + 1 /\ n.status = "active" /\ n.kind = kind
      /\ n.starts = EntitlementDates(kind, now)[1] /\ n.ends = EntitlementDates(kind, now)[2]
  BY DEF NewRow
<1>4. kind \in Plans
  BY TxFacts DEF CommitPurchase, At, HasIt, TypeInv, TypeOK
<1>5. /\ lastId \in Int /\ clock \in Int /\ now \in Int
      /\ \A s \in subs : s.id \in Int /\ s.ends \in Int
  <2>1. lastId \in 0..MaxRows /\ clock \in 0..MaxTime /\ now \in 0..MaxTime
    BY TxFacts DEF TypeInv, TypeOK, Times
  <2> QED
    BY <2>1, RowTypes
<1>6. /\ now <= clock
      /\ ids # {} => EntitlementDates(kind, now)[1] <= now
      /\ \A i \in ids : \A s \in subs :
           s.kind = "season" /\ s.id <= i /\ SeasonEnd < s.ends => SeasonEnd < now
  BY DEF CommitPurchase, At, AccessInv, ReadsHold, Reads
<1>7. EntitlementDates(kind, now)[1] \in Int
  BY <1>4, <1>5, EntitlementsAssumption DEF EntitlementDates, SeasonWindow, Plans
<1> HIDE DEF n, v, now, ids, c, kind
<1>8. n.kind = "season" => Window(n)
  BY <1>3, <1>5, <1>6, EntitlementsAssumption DEF EntitlementDates, SeasonWindow, Window
<1>9. ASSUME NEW s \in subs, NEW r \in subs, s.kind = "season", clock < s.ends, s.id <= r.id, r.id \in ids
      PROVE  n.starts <= clock /\ n.ends \in {Never, s.ends}
  <2>1. n.starts <= clock
    BY <1>3, <1>5, <1>6, <1>7, <1>9
  <2>2. CASE kind = "lifetime"
    BY <1>3, <2>1, <2>2 DEF EntitlementDates
  <2>3. CASE kind = "season"
    <3>1. n.ends = IF now > SeasonEnd THEN SeasonEnd + Year ELSE SeasonEnd
      BY <1>3, <2>3 DEF EntitlementDates, SeasonWindow
    <3>2. s.ends = SeasonEnd \/ s.ends = SeasonEnd + Year
      BY <1>9 DEF AccessInv, Sold, Window
    <3>3. CASE s.ends = SeasonEnd
      BY <1>5, <1>6, <1>9, <2>1, <3>1, <3>3, EntitlementsAssumption
    <3>4. CASE s.ends = SeasonEnd + Year
      <4>1. SeasonEnd < s.ends
        BY <3>4, EntitlementsAssumption
      <4>2. SeasonEnd < now
        BY <1>6, <1>9, <4>1
      <4> QED
        BY <1>5, <2>1, <3>1, <3>4, <4>2, EntitlementsAssumption
    <3> QED
      BY <3>2, <3>3, <3>4
  <2> QED
    BY <1>4, <2>1, <2>2, <2>3 DEF Plans
<1>10. \A m \in X : /\ m.id = lastId + 1 /\ m.id = lastId' /\ m.status = "active"
                    /\ m.kind = "season" => Window(m)
                    /\ \A k \in X : k = m
  BY <1>1, <1>3, <1>8
<1>11. Relieved(ids, "superseded", X)
  BY <1>9 DEF Relieved
<1>12. lastId' \in Int /\ lastId <= lastId'
  BY <1>1, <1>5
<1> HIDE DEF X
<1> QED
  BY <1>1, <1>2, <1>10, <1>11, <1>12, AccessRows

(* Rows that were not bought take the place of none.                       *)
LEMMA AccessAdds ==
  ASSUME TypeInv, AccessInv, NEW h \in Handlers, NEW n, NEW v, Becomes(h, v), v.old = {}, v.pc \notin {"commit"},
         subs' = subs \cup {n}, lastId' = lastId + 1,
         n.id = lastId + 1, n.status = "active", n.kind # "season", UNCHANGED <<clock, plan>>
  PROVE  AccessInv'
<1>1. lastId' \in Int /\ lastId <= lastId'
  <2>1. lastId \in 0..MaxRows
    BY DEF TypeInv, TypeOK
  <2> QED
    BY <2>1
<1> DEFINE X == {n}
           ids == {}
<1>2. subs' = Marked(ids, "expired") \cup X
  BY MarkNone
<1>3. \A m \in X : /\ m.id = lastId + 1 /\ m.id = lastId' /\ m.status = "active"
                   /\ m.kind = "season" => Window(m)
                   /\ \A k \in X : k = m
  OBVIOUS
<1>4. Relieved(ids, "expired", X)
  BY DEF Relieved
<1> HIDE DEF X, ids
<1> QED
  BY <1>1, <1>2, <1>3, <1>4, AccessRows

LEMMA AccessMarks ==
  ASSUME TypeInv, AccessInv, NEW h \in Handlers, NEW st \in {"expired", "revoked"},
         subs' = Marked(tx[h].old, st), Ends(h), UNCHANGED <<clock, plan, lastId>>,
         st = "expired" => tx[h].pc = "notices"
  PROVE  AccessInv'
<1>1. lastId' \in Int /\ lastId <= lastId'
  <2>1. lastId \in 0..MaxRows
    BY DEF TypeInv, TypeOK
  <2> QED
    BY <2>1
<1>0. clock \in Int /\ (\A s \in subs : s.ends \in Int)
  BY RowTypes, EntitlementsAssumption DEF TypeInv, TypeOK, Times
<1> DEFINE X == {}
           ids == tx[h].old
           v == Idle
<1>2. subs' = Marked(ids, st) \cup X /\ Becomes(h, v) /\ v.old = {} /\ v.pc \notin {"commit"}
  BY DEF Ends, Idle
<1>3. \A m \in X : /\ m.id = lastId + 1 /\ m.id = lastId' /\ m.status = "active"
                   /\ m.kind = "season" => Window(m)
                   /\ \A k \in X : k = m
  OBVIOUS
<1>4. st = "expired" => \A r \in subs : r.id \in ids => r.ends # Never /\ r.ends <= clock
  BY DEF AccessInv, ReadsHold, Reads
<1>5. ASSUME NEW s \in subs, NEW r \in subs, clock < s.ends, r.id \in ids, r.ends \in {Never, s.ends}
      PROVE  st = "revoked"
  BY <1>0, <1>4, <1>5
<1>6. Relieved(ids, st, X)
  BY <1>5 DEF Relieved
<1>7. st \in {"superseded", "expired", "revoked"} /\ UNCHANGED <<clock, plan>>
  OBVIOUS
<1> HIDE DEF X, ids, v
<1> QED
  BY <1>1, <1>2, <1>3, <1>6, <1>7, AccessRows

LEMMA AccessCommits ==
  ASSUME TypeInv, AccessInv, NEW h \in Handlers,
         CommitTrial(h) \/ CommitGrant(h) \/ CommitEnded(h) \/ CommitReset(h)
  PROVE  AccessInv'
<1>1. Idle.old = {} /\ Idle.pc \notin {"commit"}
  BY DEF Idle
<1>2. ASSUME NEW kind \in {"trial", "admin_lifetime"},
             subs' = subs \cup {NewRow(kind, NoCheckout, tx[h].now)}, lastId' = lastId + 1,
             Ends(h), UNCHANGED <<clock, plan>>
      PROVE  AccessInv'
  <2> DEFINE n == NewRow(kind, NoCheckout, tx[h].now)
             v == Idle
  <2>1. n.id = lastId + 1 /\ n.status = "active" /\ n.kind # "season"
    BY DEF NewRow
  <2>2. Becomes(h, v) /\ v.old = {} /\ v.pc \notin {"commit"} /\ subs' = subs \cup {n}
    BY <1>1, <1>2 DEF Ends
  <2> HIDE DEF n, v
  <2> QED
    BY <1>2, <2>1, <2>2, AccessAdds
<1>3. CASE CommitTrial(h)
  BY <1>2, <1>3 DEF CommitTrial, stripe
<1>4. CASE CommitGrant(h)
  <2>1. Ends(h) /\ UNCHANGED <<clock, plan>>
    BY <1>4 DEF CommitGrant, stripe
  <2>2. CASE account = tx[h].account
    BY <1>2, <1>4, <2>1, <2>2 DEF CommitGrant
  <2>3. CASE account # tx[h].account
    BY <1>4, <2>1, <2>3, AccessEnds DEF CommitGrant
  <2> QED
    BY <2>2, <2>3
<1>5. CASE CommitEnded(h)
  BY <1>5, AccessMarks DEF CommitEnded, stripe, At
<1>6. CASE CommitReset(h)
  BY <1>6, AccessMarks DEF CommitReset, stripe
<1> QED
  BY <1>3, <1>4, <1>5, <1>6

LEMMA AccessStep == TypeInv /\ BooksInv /\ AccessInv /\ [Next]_vars => AccessInv'
<1> SUFFICES ASSUME TypeInv, BooksInv, AccessInv, [Next]_vars PROVE AccessInv'
  OBVIOUS
<1>1. CASE UNCHANGED vars
  BY <1>1 DEF vars, stripe, books, AccessInv, Sold, Window, Lasting, Succeeds, ReadsHold, Reads,
              EntitlementDates, SeasonWindow
<1>2. CASE Next
  <2>1. ASSUME NEW h \in Handlers, Begin(h) \/ Advance(h) \/ Crash(h) PROVE AccessInv'
    BY <2>1, AccessQuiet, AccessReads, AccessCommitPurchase, AccessCommits DEF Begin, Advance
  <2> QED
    BY <1>2, <2>1, AccessOutside DEF Next
<1> QED
  BY <1>1, <1>2

LEMMA AccessInit == Init => AccessInv
<1> SUFFICES ASSUME Init PROVE AccessInv
  OBVIOUS
<1>1. ReadsHold
  BY IdleReads DEF Init, ReadsHold
<1> QED
  BY <1>1 DEF Init, AccessInv, Sold, Lasting

(* A bought season gives access until it ends, by itself or by what took its *)
(* place, unless a developer revoked it: neither the expiry, which marks     *)
(* what it read a while ago, nor rival purchases leave a gap.                *)
THEOREM SeasonKeepsAccess == Spec => []SeasonGivesAccess
<1>1. Init => TypeInv /\ BooksInv /\ AccessInv
  BY TypeInit, BooksInit, AccessInit
<1>2. TypeInv /\ BooksInv /\ AccessInv /\ [Next]_vars => (TypeInv /\ BooksInv /\ AccessInv)'
  BY TypeStep, BooksStep, AccessStep
<1>3. TypeInv /\ AccessInv => SeasonGivesAccess
  <2> SUFFICES ASSUME TypeInv, AccessInv, NEW s \in subs, s.kind = "season", Covers(s, clock)
               PROVE  HasAccess
    BY DEF SeasonGivesAccess, Bought
  <2>1. \A t \in subs : t.ends \in Int /\ t.starts \in Int /\ clock \in Int
    BY RowTypes
  <2>2. clock < s.ends
    <3>1. Window(s)
      BY DEF AccessInv, Sold
    <3> QED
      BY <2>1, <3>1, EntitlementsAssumption DEF Window, Covers, Never
  <2>3. PICK r \in subs : Succeeds(r, s)
    BY <2>2 DEF AccessInv, Lasting
  <2>4. r.starts <= clock /\ (r.ends = Never \/ r.ends > clock)
    BY <2>1, <2>2, <2>3 DEF Succeeds, Covers
  <2> QED
    BY <2>3, <2>4 DEF Succeeds, HasAccess, Current, Covers
<1> QED
  BY <1>1, <1>2, <1>3, PTL DEF Spec

(* Purchases do not cancel each other out: each commits a row in force with  *)
(* what it supersedes.                                                       *)
THEOREM PurchaseRemains == Spec => []SupersededByPurchase
<1>1. Init => TypeInv /\ SupersededByPurchase
  BY TypeInit DEF Init, SupersededByPurchase
<1>2. TypeInv /\ SupersededByPurchase /\ [Next]_vars => SupersededByPurchase'
  <2> SUFFICES ASSUME TypeInv, SupersededByPurchase, [Next]_vars PROVE SupersededByPurchase'
    OBVIOUS
  <2>1. CASE UNCHANGED subs
    BY <2>1 DEF SupersededByPurchase, Bought
  <2>2. ASSUME NEW h \in Handlers, CommitPurchase(h) PROVE SupersededByPurchase'
    <3> DEFINE n == NewRow(plan[tx[h].checkout], tx[h].checkout, tx[h].now)
    <3>1. n \in subs' /\ n.status = "active" /\ n.checkout = tx[h].checkout
      BY <2>2 DEF CommitPurchase, Booked, NewRow
    <3>2. tx[h].checkout # NoCheckout
      BY <2>2, TxFacts, EntitlementsAssumption DEF CommitPurchase, At, HasIt
    <3> HIDE DEF n
    <3> QED
      BY <3>1, <3>2 DEF SupersededByPurchase, Bought
  <2>3. ASSUME NEW n, n.status = "active", subs' = subs \cup {n} PROVE SupersededByPurchase'
    BY <2>3 DEF SupersededByPurchase, Bought
  <2>4. ASSUME NEW h \in Handlers, CommitTrial(h) \/ CommitGrant(h), subs' # subs
        PROVE  SupersededByPurchase'
    <3>1. \A kind, now : NewRow(kind, NoCheckout, now).status = "active"
      BY DEF NewRow
    <3> QED
      BY <2>3, <2>4, <3>1 DEF CommitTrial, CommitGrant
  <2>5. ASSUME NEW h \in Handlers, NEW st \in {"expired", "revoked"}, subs' = Marked(tx[h].old, st)
        PROVE  SupersededByPurchase'
    <3> DEFINE mark(t) == Mark(t, tx[h].old, st)
    <3>1. \A t \in subs : /\ mark(t) \in subs' /\ mark(t).checkout = t.checkout
                          /\ mark(t) = t \/ mark(t).status = st
      <4>1. \A t \in subs : t \in Entitlement
        BY DEF TypeInv, TypeOK
      <4>2. \A t \in subs : mark(t) \in subs'
        BY <2>5, MarkedRows
      <4> QED
        BY <4>1, <4>2 DEF Mark, Entitlement
    <3>2. \A s \in subs' : \E t \in subs : s = mark(t)
      BY <2>5, MarkedRows
    <3> HIDE DEF mark
    <3> QED
      BY <3>1, <3>2 DEF SupersededByPurchase, Bought
  <2>6. ASSUME NEW h \in Handlers, CommitEnded(h) \/ CommitReset(h) PROVE SupersededByPurchase'
    BY <2>5, <2>6 DEF CommitEnded, CommitReset
  <2>7. CASE DeleteAccount
    BY <2>7 DEF DeleteAccount, SupersededByPurchase
  <2>8. ASSUME NEW h \in Handlers, Begin(h) \/ Advance(h) \/ Crash(h) PROVE SupersededByPurchase'
    <3>1. CASE \/ CommitPurchase(h) \/ CommitTrial(h) \/ CommitGrant(h)
               \/ CommitEnded(h) \/ CommitReset(h)
      BY <2>1, <2>2, <2>4, <2>6, <3>1
    <3>2. CASE ~(\/ CommitPurchase(h) \/ CommitTrial(h) \/ CommitGrant(h)
                 \/ CommitEnded(h) \/ CommitReset(h))
      <4>1. UNCHANGED subs
        BY <2>8, <3>2 DEF Begin, Advance, PayLookup, InsertPurchase, ReadCurrent, Notify, StartTrial,
             LockTrial, ReadGrant, SelectEnded, FlushEnded, Notice, ReadReset, Crash, books
      <4> QED
        BY <2>1, <4>1
    <3> QED
      BY <3>1, <3>2
  <2>9. CASE (\E c \in Checkouts : CreateCheckout(c) \/ Pay(c)) \/ CreateAccount \/ Tick
    <3>1. UNCHANGED subs
      BY <2>9 DEF CreateCheckout, Pay, CreateAccount, Tick, books
    <3> QED
      BY <2>1, <3>1
  <2>10. CASE UNCHANGED vars
    BY <2>1, <2>10 DEF vars, books
  <2> QED
    BY <2>7, <2>8, <2>9, <2>10 DEF Next
<1> QED
  BY <1>1, <1>2, TypeStep, PTL DEF Spec
=============================================================================
