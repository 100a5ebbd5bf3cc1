---------------------------- MODULE Entitlements ----------------------------
(***************************************************************************)
(* Payments and subscriptions of ONE Telegram user                         *)
(* (app/payments/stripe.py, app/subscriptions/service.py, app/main.py).    *)
(* Stripe's webhook, retried until it succeeds, and the customer's return  *)
(* page book the same checkout; the bot grants trials and the lifetime     *)
(* access of admins; the worker expires what has ended.  They all run as   *)
(* concurrent PostgreSQL transactions at READ COMMITTED.                   *)
(*                                                                         *)
(* A transaction keeps what it has read in its handler and changes the     *)
(* tables in the action that commits it.  The locks it holds before decide *)
(* who waits: a purchase row holds its unique checkout id and the user's   *)
(* row (FOR KEY SHARE), a trial the user's row (FOR UPDATE), a flushed     *)
(* expiry its entitlement rows.                                            *)
(***************************************************************************)
EXTENDS Integers, FiniteSets

CONSTANTS
  Checkouts,    \* Stripe checkout sessions
  NoCheckout,   \* an entitlement that was not bought
  Handlers,     \* requests and jobs that run at the same time
  SeasonStart, SeasonEnd, Year,   \* this year's season; length of a year
  TrialLength,
  IsAdmin,      \* the user's name is that of an active admin
  IsDeveloper,  \* the user may reset a subscription
  IsReferred,   \* the user is attributed to a referral program
  MaxTime,      \* bound: clock
  MaxAccounts,  \* bound: user rows the Telegram user ever has
  MaxRows,      \* bound: entitlements ever inserted
  MaxFaults     \* bound: crashes and failed messages

ASSUME EntitlementsAssumption ==
  /\ NoCheckout \notin Checkouts
  /\ SeasonStart \in Nat /\ SeasonEnd \in Nat /\ Year \in Nat
  /\ SeasonStart < SeasonEnd /\ SeasonEnd < Year
  /\ TrialLength \in Nat \ {0}
  /\ IsAdmin \in BOOLEAN /\ IsDeveloper \in BOOLEAN /\ IsReferred \in BOOLEAN
  /\ MaxTime \in Nat /\ MaxTime < SeasonEnd + Year
  /\ MaxAccounts \in Nat \ {0} /\ MaxRows \in Nat /\ MaxFaults \in Nat

Never == -1      \* an entitlement without end
NoAccount == 0
Accounts == 1..MaxAccounts
Times == 0..MaxTime
Ids == 1..MaxRows
Plans == {"season", "lifetime"}

Entitlement ==
  [id : Ids, kind : Plans \cup {"trial", "admin_lifetime"},
   checkout : Checkouts \cup {NoCheckout},
   starts : Nat, ends : Nat \cup {Never},
   status : {"active", "superseded", "expired", "revoked"}]

VARIABLES
  clock,
  account,     \* id of the user's row, or NoAccount after its deletion
  accounts,    \* user rows so far
  trialUsed,   \* users.trial_used_at is set
  buyer,       \* the account a checkout was created for, or NoAccount
  plan,        \* the plan it was created for
  paid,        \* checkouts Stripe reports as paid
  purchases,   \* committed purchases, by checkout
  subs,        \* committed entitlements
  lastId,      \* the sequence behind their ids
  commissions, \* committed commissions, by checkout
  tx,          \* the transaction of each handler
  granted,     \* checkouts ever booked (history)
  told,        \* confirmations per checkout (history)
  trials,      \* trials per account (history)
  notices,     \* expiry notices per entitlement (history)
  faults

user == <<account, accounts, trialUsed>>
stripe == <<buyer, plan, paid>>
books == <<purchases, subs, lastId, commissions>>
history == <<granted, told, trials, notices>>
vars == <<clock, user, stripe, books, tx, history, faults>>

Steps == {"idle", "insert", "read", "commit", "notify", "trial", "trialCommit",
          "grant", "expire", "notices", "reset"}

Tx == [pc       : Steps,
       checkout : Checkouts \cup {NoCheckout},
       account  : Accounts \cup {NoAccount},  \* the user as loaded
       marker   : BOOLEAN,                    \* its trial marker as loaded
       now      : Times,                      \* datetime.now() of its rows
       old      : SUBSET Ids,                 \* entitlements it will mark
       todo     : SUBSET Ids]                 \* notices still to be sent

Idle == [pc |-> "idle", checkout |-> NoCheckout, account |-> NoAccount,
         marker |-> FALSE, now |-> 0, old |-> {}, todo |-> {}]

At(h, step) == tx[h].pc = step
Becomes(h, local) == tx' = [tx EXCEPT ![h] = local]
Ends(h) == Becomes(h, Idle)

-------------------------------------------------------------------------------
(* Dates and rows. *)

\* The season a purchase made now is for: this year's, or the next one's.
SeasonWindow(now) == IF now > SeasonEnd
                     THEN <<SeasonStart + Year, SeasonEnd + Year>>
                     ELSE <<SeasonStart, SeasonEnd>>

EntitlementDates(kind, now) ==
  CASE kind = "season" -> SeasonWindow(now)
    [] kind = "trial"  -> <<now, now + TrialLength>>
    [] OTHER           -> <<now, Never>>

NewRow(kind, c, now) ==
  [id |-> lastId + 1, kind |-> kind, checkout |-> c,
   starts |-> EntitlementDates(kind, now)[1],
   ends |-> EntitlementDates(kind, now)[2], status |-> "active"]

Covers(s, t) == s.starts <= t /\ (s.ends = Never \/ s.ends > t)
Current(t) == {s \in subs : s.status = "active" /\ Covers(s, t)}

\* get_effective_subscription prefers rows without end, then the latest start,
\* then the latest id.
Preferred(s, t) ==
  \/ s.ends = Never /\ t.ends # Never
  \/ (s.ends = Never) = (t.ends = Never) /\ s.starts > t.starts
  \/ (s.ends = Never) = (t.ends = Never) /\ s.starts = t.starts /\ s.id >= t.id
Effective == {s \in Current(clock) : \A t \in Current(clock) : Preferred(s, t)}

\* What a purchase of this kind, made now, takes the place of.
Superseded(kind, now) ==
  IF EntitlementDates(kind, now)[1] <= now THEN Current(now) ELSE {}

\* What the worker takes for ended.
MutEnded == {s \in subs : s.status = "active" /\ s.ends # Never
                                              /\ s.ends <= clock + 1}
Ended == {s \in subs : s.status = "active" /\ s.ends # Never
                                           /\ s.ends <= clock}

IdsOf(rows) == {s.id : s \in rows}
Marked(ids, status) ==
  {IF s.id \in ids THEN [s EXCEPT !.status = status] ELSE s : s \in subs}

\* Trials this account has had, whatever became of them.
MutPreviousTrials == {}
PreviousTrials == {s \in subs : s.kind = "trial"}

-------------------------------------------------------------------------------
(* Locks. *)

\* Handlers with a purchase row, and handlers that hold the user FOR UPDATE.
Booking == {h \in Handlers : tx[h].pc \in {"read", "commit"}}
Trialling == {h \in Handlers : At(h, "trialCommit")}

\* Entitlement rows that only h may update.
RowsFree(h) ==
  \A q \in Handlers \ {h} : At(q, "notices") => tx[q].old \cap tx[h].old = {}

\* The unique key on the checkout: nobody is inserting it.
MutKeyFree(c) == TRUE
KeyFree(c) == \A q \in Booking : tx[q].checkout # c

\* An insert meets a committed purchase, or a user that is gone.
Violates(c) == c \in purchases \/ buyer[c] # account

\* Deleting the user waits for whoever holds the row or one that refers to it;
\* a commission forbids it.
MutMayDelete == Booking = {} /\ Trialling = {}
MayDelete ==
  /\ Booking = {} /\ Trialling = {} /\ \A h \in Handlers : ~At(h, "notices")
  /\ commissions = {}
-------------------------------------------------------------------------------
Init ==
  /\ clock = 0
  /\ account = 1 /\ accounts = 1 /\ trialUsed = FALSE
  /\ buyer = [c \in Checkouts |-> NoAccount]
  /\ plan = [c \in Checkouts |-> "season"]
  /\ paid = {} /\ purchases = {} /\ subs = {} /\ lastId = 0 /\ commissions = {}
  /\ tx = [h \in Handlers |-> Idle]
  /\ granted = {} /\ told = [c \in Checkouts |-> 0]
  /\ trials = [a \in Accounts |-> 0] /\ notices = [i \in Ids |-> 0]
  /\ faults = 0

(* create_checkout_session: Stripe keeps user and plan as metadata.          *)
CreateCheckout(c) ==
  /\ account # NoAccount /\ buyer[c] = NoAccount
  /\ buyer' = [buyer EXCEPT ![c] = account]
  /\ \E p \in Plans : plan' = [plan EXCEPT ![c] = p]
  /\ UNCHANGED <<clock, user, paid, books, tx, history, faults>>

(* The customer pays at Stripe.                                              *)
Pay(c) ==
  /\ buyer[c] # NoAccount /\ c \notin paid
  /\ paid' = paid \cup {c}
  /\ UNCHANGED <<clock, user, buyer, plan, books, tx, history, faults>>

\* The checkout is paid, not booked yet, and its metadata fit the user.
MutBookable(c) == c \in paid \ purchases /\ buyer[c] = account
                                         /\ Current(clock) = {}
Bookable(c) == c \in paid \ purchases /\ buyer[c] = account

(* process_paid_checkout, for a webhook or a return page.  A checkout that   *)
(* is booked, or whose user is gone, changes nothing.                        *)
PayLookup(h, c) ==
  /\ At(h, "idle") /\ Bookable(c)
  /\ Becomes(h, [Idle EXCEPT !.pc = "insert", !.checkout = c,
                             !.account = account])
  /\ UNCHANGED <<clock, user, stripe, books, history, faults>>

(* The purchase is flushed: it waits for a rival's insert and for a trial,   *)
(* and fails if the rival committed or the user was deleted.                 *)
InsertPurchase(h) ==
  /\ At(h, "insert")
  /\ KeyFree(tx[h].checkout) /\ Trialling = {}
  /\ IF Violates(tx[h].checkout) THEN Ends(h)
     ELSE Becomes(h, [tx[h] EXCEPT !.pc = "read"])
  /\ UNCHANGED <<clock, user, stripe, books, history, faults>>

(* activate_subscription reads what the new entitlement supersedes.          *)
ReadCurrent(h) ==
  /\ At(h, "read")
  /\ Becomes(h, [tx[h] EXCEPT
                   !.pc = "commit", !.now = clock,
                   !.old = IdsOf(Superseded(plan[tx[h].checkout], clock))])
  /\ UNCHANGED <<clock, user, stripe, books, history, faults>>

\* The entitlements after a purchase: the new row, the ones read superseded.
MutBooked(h) ==
  LET new == NewRow(plan[tx[h].checkout], tx[h].checkout, tx[h].now) IN
  {IF Covers(s, tx[h].now) THEN [s EXCEPT !.status = "superseded"] ELSE s :
     s \in subs \cup {new}}
Booked(h) ==
  Marked(tx[h].old, "superseded")
    \cup {NewRow(plan[tx[h].checkout], tx[h].checkout, tx[h].now)}

(* Entitlement and commission are flushed and everything is committed.       *)
CommitPurchase(h) ==
  LET c == tx[h].checkout IN
  /\ At(h, "commit")
  /\ RowsFree(h) /\ lastId < MaxRows
  /\ purchases' = purchases \cup {c}
  /\ subs' = Booked(h)
  /\ lastId' = lastId + 1
  /\ commissions' = IF IsReferred THEN commissions \cup {c} ELSE commissions
  /\ granted' = granted \cup {c}
  /\ Becomes(h, [Idle EXCEPT !.pc = "notify", !.checkout = c])
  /\ UNCHANGED <<clock, user, stripe, told, trials, notices, faults>>

(* notify_payment_confirmation, after the commit; a failed call is not       *)
(* repeated, for the retried webhook finds a duplicate.                      *)
Notify(h) ==
  /\ At(h, "notify")
  /\ \/ /\ told' = [told EXCEPT ![tx[h].checkout] = @ + 1]
        /\ UNCHANGED faults
     \/ /\ faults < MaxFaults
        /\ faults' = faults + 1
        /\ UNCHANGED told
  /\ Ends(h)
  /\ UNCHANGED <<clock, user, stripe, books, granted, trials, notices>>

(* The trial callback has loaded the user.                                   *)
StartTrial(h) ==
  /\ At(h, "idle") /\ account # NoAccount
  /\ Becomes(h, [Idle EXCEPT !.pc = "trial", !.account = account,
                             !.marker = trialUsed])
  /\ UNCHANGED <<clock, user, stripe, books, history, faults>>

(* activate_trial has waited for the user's row.  The session keeps the      *)
(* attributes it loaded before, so the marker may be out of date; the query  *)
(* for an earlier trial is not, and then repairs the marker.                 *)
LockTrial(h) ==
  /\ At(h, "trial")
  /\ Booking = {} /\ Trialling = {}
  /\ IF account # tx[h].account \/ tx[h].marker \/ PreviousTrials # {}
     THEN /\ Ends(h)
          /\ trialUsed' = (trialUsed \/ (account = tx[h].account
                                         /\ PreviousTrials # {}))
     ELSE /\ Becomes(h, [tx[h] EXCEPT !.pc = "trialCommit", !.now = clock])
          /\ UNCHANGED trialUsed
  /\ UNCHANGED <<clock, account, accounts, stripe, books, history, faults>>

CommitTrial(h) ==
  /\ At(h, "trialCommit") /\ lastId < MaxRows
  /\ subs' = subs \cup {NewRow("trial", NoCheckout, tx[h].now)}
  /\ lastId' = lastId + 1
  /\ trialUsed' = TRUE
  /\ trials' = [trials EXCEPT ![account] = @ + 1]
  /\ Ends(h)
  /\ UNCHANGED <<clock, account, accounts, stripe, purchases, commissions,
                 granted, told, notices, faults>>

\* Bound: grants leave ids for whatever else may be booked.
RoomForGrant ==
  lastId + Cardinality({h \in Handlers : At(h, "grant")})
    + Cardinality(Checkouts \ granted) + MaxAccounts < MaxRows

(* grant_admin_lifetime_if_authorized finds no grant in force ...            *)
ReadGrant(h) ==
  /\ At(h, "idle") /\ IsAdmin /\ account # NoAccount /\ RoomForGrant
  /\ \A s \in subs : s.kind = "admin_lifetime" => s.status # "active"
  /\ Becomes(h, [Idle EXCEPT !.pc = "grant", !.account = account,
                             !.now = clock])
  /\ UNCHANGED <<clock, user, stripe, books, history, faults>>

(* ... and inserts one, unless the user is gone.                             *)
CommitGrant(h) ==
  /\ At(h, "grant") /\ Trialling = {} /\ lastId < MaxRows
  /\ IF account = tx[h].account
     THEN /\ subs' = subs \cup
                       {NewRow("admin_lifetime", NoCheckout, tx[h].now)}
          /\ lastId' = lastId + 1
     ELSE UNCHANGED <<subs, lastId>>
  /\ Ends(h)
  /\ UNCHANGED <<clock, user, stripe, purchases, commissions, history, faults>>

(* expire_subscriptions: the cron of the worker, every minute, whether or    *)
(* not the previous one has ended.                                           *)
SelectEnded(h) ==
  /\ At(h, "idle") /\ Ended # {}
  /\ Becomes(h, [Idle EXCEPT !.pc = "expire", !.old = IdsOf(Ended)])
  /\ UNCHANGED <<clock, user, stripe, books, history, faults>>

(* The flush waits for the rows and fails if they are gone.                  *)
FlushEnded(h) ==
  /\ At(h, "expire") /\ RowsFree(h)
  /\ IF tx[h].old \subseteq IdsOf(subs)
     THEN Becomes(h, [tx[h] EXCEPT !.pc = "notices", !.todo = tx[h].old])
     ELSE Ends(h)
  /\ UNCHANGED <<clock, user, stripe, books, history, faults>>

(* One expiry notice; a failure is logged.                                   *)
Notice(h) ==
  /\ At(h, "notices")
  /\ \E i \in tx[h].todo :
       /\ Becomes(h, [tx[h] EXCEPT !.todo = @ \ {i}])
       /\ \/ /\ notices' = [notices EXCEPT ![i] = @ + 1]
             /\ UNCHANGED faults
          \/ /\ faults < MaxFaults
             /\ faults' = faults + 1
             /\ UNCHANGED notices
  /\ UNCHANGED <<clock, user, stripe, books, granted, told, trials>>

CommitEnded(h) ==
  /\ At(h, "notices") /\ tx[h].todo = {}
  /\ subs' = Marked(tx[h].old, "expired")
  /\ Ends(h)
  /\ UNCHANGED <<clock, user, stripe, purchases, lastId, commissions, history,
                 faults>>

(* reset_current_subscription, for developers.                               *)
ReadReset(h) ==
  /\ At(h, "idle") /\ IsDeveloper /\ Effective # {}
  /\ Becomes(h, [Idle EXCEPT !.pc = "reset", !.old = IdsOf(Effective)])
  /\ UNCHANGED <<clock, user, stripe, books, history, faults>>

CommitReset(h) ==
  /\ At(h, "reset") /\ RowsFree(h)
  /\ subs' = Marked(tx[h].old, "revoked")
  /\ Ends(h)
  /\ UNCHANGED <<clock, user, stripe, purchases, lastId, commissions, history,
                 faults>>

(* The user deletes the account; purchases and entitlements go with it.      *)
DeleteAccount ==
  /\ account # NoAccount /\ MayDelete
  /\ account' = NoAccount /\ trialUsed' = FALSE
  /\ purchases' = {} /\ subs' = {}
  /\ UNCHANGED <<clock, accounts, stripe, lastId, commissions, tx, history,
                 faults>>

(* /start creates a new row for the same Telegram user.                      *)
CreateAccount ==
  /\ account = NoAccount /\ accounts < MaxAccounts
  /\ accounts' = accounts + 1
  /\ account' = accounts + 1
  /\ UNCHANGED <<clock, trialUsed, stripe, books, tx, history, faults>>

Tick ==
  /\ clock < MaxTime
  /\ clock' = clock + 1
  /\ UNCHANGED <<user, stripe, books, tx, history, faults>>

(* The process dies, or a call inside the transaction fails.                 *)
Crash(h) ==
  /\ ~At(h, "idle") /\ faults < MaxFaults
  /\ faults' = faults + 1
  /\ Ends(h)
  /\ UNCHANGED <<clock, user, stripe, books, history>>

\* What a handler does next once it has started.
Advance(h) ==
  \/ InsertPurchase(h) \/ ReadCurrent(h) \/ CommitPurchase(h) \/ Notify(h)
  \/ LockTrial(h) \/ CommitTrial(h) \/ CommitGrant(h)
  \/ FlushEnded(h) \/ Notice(h) \/ CommitEnded(h) \/ CommitReset(h)

Begin(h) ==
  \/ \E c \in Checkouts : PayLookup(h, c)
  \/ StartTrial(h) \/ ReadGrant(h) \/ SelectEnded(h) \/ ReadReset(h)

Next ==
  \/ \E h \in Handlers : Begin(h) \/ Advance(h) \/ Crash(h)
  \/ \E c \in Checkouts : CreateCheckout(c) \/ Pay(c)
  \/ DeleteAccount \/ CreateAccount \/ Tick

Spec == Init /\ [][Next]_vars

\* A transaction goes on until it ends or dies, and Stripe repeats its webhook
\* until it succeeds, whatever else is being handled.
FairSpec ==
  /\ Spec
  /\ \A h \in Handlers : WF_vars(Advance(h))
  /\ \A c \in Checkouts : SF_vars(\E h \in Handlers : PayLookup(h, c))
-------------------------------------------------------------------------------
(* Properties. *)

(* Every variable stays in its type; an entitlement has the fields of its    *)
(* table.                                                                    *)
TypeOK ==
  /\ clock \in Times
  /\ account \in Accounts \cup {NoAccount} /\ accounts \in Accounts
  /\ trialUsed \in BOOLEAN
  /\ buyer \in [Checkouts -> Accounts \cup {NoAccount}]
  /\ plan \in [Checkouts -> Plans]
  /\ paid \in SUBSET Checkouts /\ purchases \in SUBSET Checkouts
  /\ \A s \in subs : s \in Entitlement
  /\ lastId \in 0..MaxRows
  /\ commissions \in SUBSET Checkouts
  /\ tx \in [Handlers -> Tx]
  /\ granted \in SUBSET Checkouts
  /\ told \in [Checkouts -> Nat] /\ trials \in [Accounts -> Nat]
  /\ notices \in [Ids -> Nat]
  /\ faults \in 0..MaxFaults

Bought == {s \in subs : s.checkout # NoCheckout}

(* However often webhook and return page process a checkout, it is booked    *)
(* and confirmed once ("share one transactional idempotency gate, so retries *)
(* cannot duplicate a purchase or extend access twice", DOCUMENTATION.md).   *)
Payment == INSTANCE PaymentOnce
             WITH entitlements <- {<<s.checkout, s.id>> : s \in Bought}
BooksOnce == Payment!Spec

(* Whoever has bought a season has access as long as it lasts, whatever was  *)
(* bought, tried, granted or expired around it, unless a developer reset it. *)
HasAccess == Current(clock) # {} \/ \E s \in subs : s.status = "revoked"
SeasonGivesAccess ==
  \A s \in Bought : s.kind = "season" /\ Covers(s, clock) => HasAccess

(* Two purchases never supersede one another: whatever was superseded, some  *)
(* purchased entitlement was not.                                            *)
SupersededByPurchase ==
  (\E s \in subs : s.status = "superseded")
    => \E s \in Bought : s.status # "superseded"

(* One trial per account, even if callbacks come together and each has       *)
(* loaded the user before the other one's commit.                            *)
OneTrial == \A a \in Accounts : trials[a] <= 1

(* The purchase behind a commission stays on record: an account whose        *)
(* payment somebody has earned on cannot be deleted, not even while the      *)
(* payment is being booked.                                                  *)
CommissionKept == commissions \subseteq purchases

(* A paid checkout is booked in the end, as long as its account exists: no   *)
(* race between webhook, return page, trial and expiry leaves it behind.     *)
PaidIsBooked ==
  \A c \in Checkouts :
    c \in paid ~> (c \in granted \/ buyer[c] # account)
-------------------------------------------------------------------------------
(* The inductive invariants behind OneTrial and BooksOnce.                   *)

\* The user's row is the latest one created, or gone.
LatestAccount == account \in {accounts, NoAccount}

(* A transaction past the test for earlier trials has the user's row alone,  *)
(* and the account has had no trial.                                         *)
TrialInv ==
  /\ LatestAccount
  /\ \A a \in Accounts : a > accounts => trials[a] = 0
  /\ account # NoAccount /\ trials[account] > 0 => PreviousTrials # {}
  /\ \A h \in Trialling : /\ account # NoAccount /\ PreviousTrials = {}
                         /\ \A q \in Trialling : q = h
  /\ OneTrial

(* A transaction with a purchase row is alone with a checkout that was never *)
(* booked; one about to confirm is alone with one that was, and not told.    *)
BooksInv ==
  /\ LatestAccount
  /\ \A c \in Checkouts : buyer[c] <= accounts
  /\ \A c \in paid : buyer[c] # NoAccount
  /\ granted \subseteq paid
  /\ \A c \in granted : c \in purchases \/ buyer[c] # account
  /\ \A c \in Checkouts : told[c] > 0 => c \in granted
  /\ \A h \in Handlers : At(h, "insert") => tx[h].checkout \in paid
  /\ \A h \in Booking : /\ tx[h].checkout \in paid \ granted
                       /\ buyer[tx[h].checkout] = account
                       /\ \A q \in Booking :
                            tx[q].checkout = tx[h].checkout => q = h
  /\ \A h \in Handlers : At(h, "notify") =>
       /\ tx[h].checkout \in granted /\ told[tx[h].checkout] = 0
       /\ \A q \in Handlers :
            At(q, "notify") /\ tx[q].checkout = tx[h].checkout => q = h

EntitlementsInv == TrialInv /\ BooksInv
=============================================================================
