# Verification of the CROUS apartment monitor

TLA+ modules for the parts of this repository where the order of steps, a
failure or a second process can make the result wrong, the TLC configurations
that check them on small instances, and TLAPS proofs for every value of the
constants.  Paths are relative to the repository; `service.py:248` names a line
of the file the section is about.

## 1. Inventory

Processes: `app` (FastAPI: Telegram and Stripe webhooks, payment return pages),
`worker` (ARQ: cron jobs and search jobs), `api` and `admin` routers, a
notification bot, a referral bot, a Discord bot, a Next.js web app.  They share
PostgreSQL (READ COMMITTED, one session per handler or job) and Redis (job
queue, per-search lease, bot dialogue state).  Telegram, Stripe and the CROUS
site are called in the middle of database transactions, so nearly every
operation has a point where it has told the world something it has not
committed, or the reverse.

| Component | State | Operations | What is hard | What makes it correct |
|---|---|---|---|---|
| Search synchronisation `app/monitoring` | lease key, display groups, message rows, availability rows, the chat | `synchronize_search`, `recover_incomplete_groups`, `_cleanup_group`, `apply_snapshot` | three kinds of state that cannot be committed together; crashes; refused deletions; leases that run out | the displayed list is complete, replaced at once, tracked by rows, and converges |
| Favourites `app/favourites` | favourites, availability state and sequence, outbox events | `add_favorite`, `remove_favorite`, `record_completed_snapshot_transitions`, `dispatch_pending_transitions` | runs of several searches dispatch one outbox; SKIP LOCKED; send before commit | one message per change, none lost, overtaking only across locked rows |
| Payments `app/payments`, `app/main.py` | purchases, checkout sessions at Stripe | webhook, success return, cancel return, refund | webhook, return page and Stripe's retries race | one purchase, one entitlement, one commission, one confirmation per checkout |
| Entitlements `app/subscriptions` | user subscriptions, trial marker | activate, trial, admin grant, expire, reset | concurrent purchases, supersession, boundaries of the season | who has paid has access; one trial |
| Worker `app/workers/tasks.py` | job ids, retry counts, last-check times, delivery rows | scheduling by slot, retries, notices, statistics, menus, digests | jobs of one search overlap; commit after sending; redelivery | every due search is checked in time; every message is accounted for |
| Referrals `app/referrals` | attributions, commissions, reversals, payouts, allocations | first touch, bind owner, commission, reversal, payout request and handling, login tokens | concurrent requests; refunds after payouts | no cent is promised twice |
| Admin `app/admin` | admins, sessions, refresh tokens | login, rotation, logout, edit admin | write skew, token replay | unrotated sessions per login bounded by late requests; a superadmin remains |
| Bot conversation `app/bot` | navigation message and version, dialogue state | ~80 callbacks and inputs | concurrent updates of one user, stale keyboards | one active screen; no stale action |
| Restaurants, reports, login limiter | saved restaurants, reports, attempts | save, choose, remove; report; sign in | limits looked at first and changed later | how far each limit holds |
| Searches, filters, CROUS client, notification bot, Discord, web app | | | little that depends on order | see Not modelled |

Interaction: the worker's job or a manual check takes the lease and runs the
engine; the engine's commit that activates a list also records the transitions of
the owner's favourites, and the same run then dispatches the outbox.  Payments
create entitlements and commissions in one transaction; entitlements set the
interval of the scheduler and gate filters and manual checks in the bot.
Commissions feed the balances from which payouts are requested and paid in the
admin panel.

`PROJECT.json` lists every component with its state of modelling, and every
hazard at its line.

## 2. Plan

| Step | Modules | Composes / abstracts | Properties | Proofs |
|---|---|---|---|---|
| 1 (done) | `SearchSync` | implements `ListDisplay` | complete display, tracked cards, convergence | safety and refinement, all constants |
| 2 (done) | `FavouriteOutbox` | uses the runs of step 1 as one process per search | one message per change, never of a removed favourite | types, all invariants |
| 3 (done) | `Entitlements` with payments | implements `PaymentOnce` | one grant per checkout, access while paid, one trial | types, refinement, trial, commissions, season access, supersession |
| 4 (done) | `ReferralLedger` | implements `Purse`; commissions of step 3 | payouts within the balance, exact allocations, one payout per key, one reversal | `LedgerInv`, allocations, exact sums, idempotency, refinement |
| 5 (done) | `Conversation`, `Screens` | redrawn by the runs of step 1 | one live navigation message, the chosen place is the one shown | types, all five |
| 6 (done) | `SyncJobs` | starts the runs of step 1 and grants them the lease | searches checked in time, one job per slot, runs alone, errors counted | types, all four |
| 7 (done) | `Deliveries` | the worker's other jobs | messages accounted for, menus arrive | types, messages, no circle of waits |
| 8 (done) | `AdminAccounts` | | a superadmin remains, one unrotated session per login | all of them |
| 9 (done) | `UserLimits` | | limits and cooldowns under concurrency | all of them |

Every safety property of the runs is proved; what is left to TLC is liveness
(section 16).

Modules that carry theorems use no RECURSIVE operator; every constant has a
named assumption; every operation is one action.  The type invariant of a module
is proved (`TypeCorrect`, `DeliveriesTyped`, `JobsTyped`) and, where the run has
other properties to check, not checked by a run again.

The runs, with the properties TLC checks in each:

| Run | Module | Properties |
|---|---|---|
| `search_safety` | `SearchSync` | `ActiveListOnScreen`, `AvailabilityMatchesDisplay`, `StrayCardsExplained` |
| `search_progress` | `SearchSync` | `ImplementsDisplay`, `Converges` |
| `search_lease` | `SearchSync` | violates `ActiveListOnScreen`, a finding |
| `outbox_safety` | `FavouriteOutbox` | `TypeOK`, `OneMessagePerEvent`, `SentWasDelivered`, `OutboxMatchesStates`, `NewsInOrder`, `NoNewsOfRemoved` |
| `entitlements_safety` | `Entitlements` | `SeasonGivesAccess`, `SupersededByPurchase`, `OneTrial`, `BooksOnce` |
| `entitlements_access` | `Entitlements` | `CommissionKept`, `PaidIsBooked` |
| `ledger_safety` | `ReferralLedger` | `ExactAllocation`, `AllocatedOnce`, `OnePayoutPerKey`, `PurseKept`, `RefundsArrive` |
| `conv_safety` | `Conversation` | `KeyboardCurrent`, `Usable`, `StraysExplained`, `ChosenAsShown`, `RefreshesMainMenu` |
| `jobs` | `SyncJobs` | `CheckedInTime`, `OneJobPerSlot`, `RunsAlone`, `ErrorsTellFailures` |
| `deliveries` | `Deliveries` | `MessagesAccounted`, `MenusArrive` |
| `admin` | `AdminAccounts` | `SuperadminRemains`, `OneSessionPerLogin`, `OwnRoleKept` |
| `limits` | `UserLimits` | `SavedWithinLimit`, `PrimaryIsSaved`, `ReportsSpaced`, `LoginsLimited` |

Each property of a passing run has a mutant in its module, a variant of one
definition with a plausible mistake (`Mut...`), for which the run fails.

## 3. SearchSync: the synchronisation engine

One saved search, any number of executions (`Runs`): worker jobs and manual
checks.  Another search shares with it only the favourites outbox and the
listings table, see below.

| Model | Code |
|---|---|
| `lock` | the Redis key `SET NX EX`, `app/monitoring/locks.py` |
| `created`, `status`, `fp` | rows of `search_display_groups` (committed) |
| `rows` | rows of `search_display_messages` (committed) |
| `available` | available `search_listings` (committed) |
| `chat` | messages visible in Telegram |
| `run[r]` | program counter, values read and changes not committed by an execution |
| `offers`, `criteria`, `enabled` | the provider's answer per criteria; the search's bounds and filters; `is_active` and not blocked |
| `Acquire`, `Release`, `ExpireLease` | `SearchLock` and the key's TTL |
| `Fetch`, `Recover`, `Unchanged`, `Begin` | `synchronize_search` up to the commit of the pending group |
| `SendCard`, `SendFails`, `RecordCard` | the sending loop with its commit per card |
| `Undo`, `CommitFailed` | its except branch |
| `Activate`, `Cleanup`, `Complete` | activation, deletion of the replaced list, last commit |
| `Abort`, `Crash` | exceptions outside the loop; the death of the process |

The result list stands for its fingerprint.  `CleanGroup` is one step for the
delete calls of a group: each call deletes, fails transiently (row kept) or is
refused (row dropped, card left, counted in `strays`); a crash in the middle is a
crash after the step in which the remaining calls failed.  A database error while
a row is recorded has the effect of `Crash` followed by `ExpireLease`.  Not
modelled: the photo-to-text fallback inside one send (`app/bot/cards.py`), the
deletion of the account while its cards are on screen, the refresh of the main
screen after a run.

`ListDisplay` is the promise to the owner: at any moment one complete list is in
force, all its cards are in the chat, and a newer list replaces it in one step.

| Run | Instance | Shows |
|---|---|---|
| `search_safety` | 2 runs, 2 listings, 6 groups, 2 environment changes, 2 stray events, 1 failure; the lease outlives runs | the active list is complete in the chat, availability is that list, stray cards are explained |
| `search_progress` | 1 listing, 2 criteria, 5 groups | refinement of `ListDisplay`; convergence |
| `search_lease` | leases expire under living runs, no faults at all | violates `ActiveListOnScreen`: see findings |

Bounds.  Two runs are all the lease can bring to the same state; a third would
wait.  Six groups allow an active, a retiring and a failed group to exist at once
and be followed by another full replacement after two environment changes and
the faults.  Two stray events let a second crash hit the recovery from the first.
A run that cannot create another group stops at `Begin`, hence no deadlock check.
In `search_progress` the groups suffice for every change and fault to be followed
by a complete display, so `Converges` is not helped by the bound.

Fairness.  `WF(Advance(r))`: a run that has started goes on until it ends or dies
(it never waits for another run).  `WF(\E r: Acquire(r))`: the worker's cron
enqueues due searches every minute.  `WF(ExpireLease)`: Redis drops a key after
its TTL.  The environment is not fair, so the property speaks of the time after
its last change.

Findings.  The lease TTL is fixed and never renewed.  A run that takes longer is
overtaken: the next run's recovery deletes the cards of its pending group, and the
first run then activates that group (`search_lease`).  That nobody removes
another's lease is proved for such leases too (`LeaseIsOwn`), and `SyncJobs` says
when leases do outlive runs (`RunsAlone`).

## 4. SearchSyncProofs

Proved for all constants that satisfy `SyncAssumption`:

- `TypeCorrect`: type correctness.
- `LeaseIsOwn`: a step of a run removes or replaces only its own lease.  No
  assumption on leases: the token comparison alone gives it.
- Under `~LeaseMayExpire` (runs end within their lease, the assumption the run
  `search_lease` shows to be needed): `SyncInvariant`, and from it `OneActive`,
  `ActiveOnScreen`, `AvailabilityMatches`, `NoOrphanRows`, and `Implements`, the
  refinement of `ListDisplay`.

The argument.  None of the promised invariants is inductive: that the active list
stays complete depends on what every run will do with the cards and rows it has
in its hands.  `SyncInv` says so for the one run that can be under way:
`LeaseOwnerRuns` (who has local state holds the lease), `CleansIncomplete` (what
it will delete or retire belongs to incomplete groups, and a group is retired
only with its last row), `FoundActive` (the active group is still the one it
found), `CardsDone` (a card not to be sent any more is in the chat and recorded).
With these, activation meets a complete group, and no cleanup reaches the active
one.  `IInv` adds types, and that a run past `Begin` has a group.  `LargestGroup`
shows that `Max` of a non-empty set of groups is in it, by well-foundedness of
strict inclusion on finite sets.

- `StraysExplained`: `StrayCardsExplained`, without any assumption on leases.  The
  argument does not need runs to exclude each other, only that they work on
  different groups: `GroupsInv` says that every row is of a group that exists
  (`Known`) and that two runs in their sending loops have two pending groups, whose
  cards still to be recorded are new (`OwnGroups`).  `StraysInv` then counts the
  cards of the chat that neither a row nor a run's hand accounts for
  (`Unrecorded`); a row that a run has dropped and not committed counts as gone,
  so that the card is a stray one from the refused call on, whether the run
  commits or dies.

Model-checked only: `Converges` (liveness).

## 5. FavouriteOutbox: news about saved listings

One run per user's search (the lease of `SearchSync` serialises the runs of one
search, and a user has one search).  `Apply` and `CommitSnapshot` are
`apply_snapshot` with `record_completed_snapshot_transitions` and the commit of
the run; `Select`, `LockEvent`, `Fetch`, `Deliver`, `CommitDispatch` are
`dispatch_pending_transitions` and the commit after it.  Row locks are explicit
because they decide who gets an event: the statement sorts the events that are
pending when it begins and comes to them one by one; of each, `FOR UPDATE SKIP
LOCKED` on the join takes event, user and listing, stops at one that is locked at
that moment, and keeps what it has locked before; an event that was sent meanwhile
is locked and not returned, a deleted one is not there.  `apply_snapshot` updates
the listings it sees; a new event or favourite refers to its user and listing,
which conflicts with `FOR UPDATE`; deleting a favourite cascades to its events.
`busy` are rows locked by other parts of the program (reports, trials) or by a
snapshot that is still being written; `MaxFailures` bounds them too.  `attempted`,
`passed` and `deliveries` are history.  `Crash` also stands for exceptions that end
a run.

| Run | Instance | Shows |
|---|---|---|
| `outbox_safety` | 2 users, 1 listing, 2 changes per favourite, 1 fault, 1 failure or row locked elsewhere | invariants on states, outbox, messages and their order; no news of a removed favourite |

One listing is enough for the lock conflicts (two users meet on its row), two
events per favourite for an order to be wrong.  `NewsInOrder` is what the locks
give, and no more: news of one favourite can overtake each other.  A dispatch that
finds the first event locked (another dispatch still holds the listing) passes
over it; if the other one commits before the statement comes to the second event,
the second is sent first, and the user reads "disappeared" before the "appeared"
it followed.  The property says that this is the only way.  No fairness is
assumed and no liveness claimed, for none holds: only a run that changed a list
dispatches, so an event that was passed over or failed is retried when some list
changes next, which may be never (favourites/service.py:132).

`FavouriteOutboxProofs` proves `TypeCorrect`, `ToldOnce` (`OneMessagePerEvent`),
`NothingLost` (`SentWasDelivered`), `OutboxTellsStates` (`OutboxMatchesStates`),
`NewsAreInOrder` (`NewsInOrder`) and `RemovedIsSilent` (`NoNewsOfRemoved`) for all
constants that satisfy `OutboxAssumption`, that is for any users, listings and
number of changes, faults and failures.  The argument is about the row locks.
No row is held by two dispatches (`Apart`), and a dispatch holds the events it
delivers (`Holding`), so nobody else sends them before its commit.  `InTurn` is the
order: of the events that were pending when the statement began, the older ones of
a favourite have been obtained, passed over or tried when it comes to a newer one,
and what is written meanwhile has a higher number.
`Counts` gives each message to a fault or to the one transaction that is about
to say so, `Numbered` and `Distinct` tie the numbers of a favourite's events to its
state.  `NewsInOrder` is inductive only with all of them (`IInv`).

## 6. Entitlements: payments and subscriptions of one user

One Telegram user with any number of checkouts, and `Handlers`: the Stripe
webhook and its repetitions, the return page, callbacks of the bot, ticks of the
worker.  Another user shares no row with this one.  Each handler is a database
transaction at READ COMMITTED.

| Model | Code |
|---|---|
| `account`, `accounts`, `trialUsed` | the user's row, its successors after a deletion, `trial_used_at` |
| `buyer`, `plan`, `paid` | metadata of the checkout sessions and their state at Stripe |
| `purchases`, `subs`, `lastId`, `commissions` | committed rows of `purchases`, `user_subscriptions`, its sequence, `referral_commissions` |
| `tx[h]` | what transaction `h` has read and not yet committed, and where it is |
| `granted`, `told`, `trials`, `notices` | history: booked, confirmed, tried, notified |
| `PayLookup`, `InsertPurchase`, `ReadCurrent`, `CommitPurchase`, `Notify` | `process_paid_checkout`, `activate_subscription`, the commit and `notify_payment_confirmation` of webhook and return page |
| `StartTrial`, `LockTrial`, `CommitTrial` | the trial callback and `activate_trial` |
| `ReadGrant`, `CommitGrant` | `grant_admin_lifetime_if_authorized` |
| `SelectEnded`, `FlushEnded`, `Notice`, `CommitEnded` | `expire_subscriptions` and the notices of `enqueue_active_searches` |
| `ReadReset`, `CommitReset` | `reset_current_subscription` |
| `DeleteAccount`, `CreateAccount` | `delete-yes` and `get_or_create_user` |

Locks.  Three facts of PostgreSQL decide who waits for whom.  An inserted purchase
holds the unique key of its checkout, so a rival's insert waits and then fails
(`KeyFree`, `Violates`), and it refers to the user's row, which keeps a trial's
`FOR UPDATE` and the deletion waiting.  Flushed updates hold their entitlement
rows (`RowsFree`).  A commission's foreign key is RESTRICT, so an account with
commissions cannot be deleted (`MayDelete`).  `activate_trial` reads the marker
from the object the session has already loaded (no `populate_existing`), so it may
be stale after waiting; the query for an earlier trial is not, and it is what
makes `OneTrial` true: without it TLC finds two trials.  A flush and a commit
with nothing observable between them are one step.  `event_id` needs no key of its
own, for a checkout completes in one event.

Time is discrete; season and year are constants, `now > end` in `season_window`
decides for the next year.

| Run | Instance | Shows |
|---|---|---|
| `entitlements_safety` | 2 checkouts, 2 handlers, 4 instants, 3 entitlements, 1 fault, no admin | booked and confirmed once, a season gives access, an access ends early only for a purchase, one trial |
| `entitlements_access` | an admin, developer and referred customer, 1 checkout, 2 accounts, no fault, fair | supersession beside grants and resets, commissions keep their purchases, `PaidIsBooked` |

Bounds.  Two handlers are two rivals for each lock, and a third only waits with
them.  Two checkouts of one user allow every order of season and lifetime.  Four
instants reach the time before, in and after the season, and the purchase that is
for next year's.  Three entitlements are two purchases and one trial; where
grants repeat, they leave room for purchases and trials (`RoomForGrant`), so the
bound never keeps a checkout from being booked.  Handlers stop at the bound on
entitlements, time and accounts, hence no deadlock check.

Fairness.  `WF(Advance(h))`: a transaction goes on until it ends or dies (waits
are for transactions that themselves go on).  `SF(PayLookup)` for each checkout:
Stripe repeats a webhook until it succeeds, and a free handler is found for it
again and again: strong, because other requests may occupy the handlers in
between.

In the model, without a run of their own: a season bought by the owner of
lifetime access supersedes it (subscriptions/service.py:251), and access ends with
the season, while DOCUMENTATION.md:21 of the repository has lifetime access last;
two scheduler runs that overlap send the notice of an expiry twice, while
README.md:97 speaks of one; deleting the account forgets the
trial of the Telegram user (`DeleteAccount`, README.md:21 of the repository says
once per Telegram account); two handlers of one admin may each insert a lifetime
grant, and nothing promises otherwise.

Not modelled: signatures, metadata and price checks that refuse a checkout before
anything is written, refunds and disputes (see `ReferralLedger`), cancel page, the
refresh of the main screen after a confirmation, operational notifications.

## 7. EntitlementsProofs

Proved for all constants that satisfy `EntitlementsAssumption`, that is for any
season, any checkouts and any number of concurrent handlers:

- `TypeCorrect`: type correctness, with the addition that who books or confirms
  has a checkout and who asks for a trial an account (`HasParts`).
- `TrialOnce`: `OneTrial`.  `TrialInv` adds that a transaction past the test for
  earlier trials holds the user's row alone and that the row had no trial, and
  that an account with a trial keeps a trial entitlement.
- `EntitlementsInvariant`: `TrialInv` and `BooksInv` together.
- `ImplementsPayment`: the refinement `BooksOnce`.  `BooksInv` says that a
  transaction with a purchase row is alone with a checkout that was never booked,
  that a booked checkout stays in the books unless its account is gone (a new
  account is never the buyer of an old checkout), and that one about to confirm
  is alone with a booked, unconfirmed checkout.  Then `CommitPurchase` is `Grant`,
  `Notify` is `Confirm` or nothing, `DeleteAccount` is `Erase`, and marking rows
  leaves the books alone (`MarkedBooks`).
- `CommissionsStay`: `CommissionKept`.

- `SeasonKeepsAccess`: `SeasonGivesAccess`.  A season that has been bought and has not
  ended has a later entitlement that lasts as long, and is active or taken back by
  an admin (`Lasting`).  That a marking of rows keeps this depends on what the
  transaction read some steps before, so `ReadsHold` says what of it is still
  true at the commit: the entitlements it will supersede are none of a season
  that outlasts its own, and those it will expire have ended.  `Sold` says which
  seasons there are and that identifiers are unique.
- `PurchaseRemains`: `SupersededByPurchase`.

Model-checked only: `PaidIsBooked` (liveness).

## 8. ReferralLedger: commissions and payouts of one program

Any number of `Handlers`: owners and admins that ask for payouts, admins that
approve and pay them, Stripe's events.  Another program shares nothing with this
one but the name space of idempotency keys.

| Model | Code |
|---|---|
| `ledger`, `reversals` | earned rows of `referral_commissions`, and the originals of its reversal rows |
| `payouts`, `alloc` | `referral_payouts`, `referral_payout_allocations` |
| `tx[h]` | where request `h` is, and what it is about to commit |
| `events`, `acked` | refunds and disputes at Stripe, and those it need not repeat |
| `CreateCommission` | `create_commission_for_purchase` in the transaction that books the charge |
| `HandleRefund` | the refund branch of `process_checkout_completed`, `reverse_commission` |
| `RequestPayout`, `LockProgram`, `CommitPayout` | `payout_request` and `admin_request_payout` with `request_payout` |
| `LoadRequested`, `CommitApprove`, `LoadApproved`, `CommitPay` | `approve_referral_payout`, `pay_referral_payout` |

Locks.  `request_payout` locks the program's row `FOR UPDATE` until its commit.
Inserting a commission or a reversal takes `FOR KEY SHARE` on the same row, so it
waits (`LockFree`), and balance and allocation are computed on rows that stay.
Everything between the lock and the commit is in `LockProgram`; `CommitPayout`
makes it visible.  Approval and payment lock nothing when they read, so they are
two steps with anything between them.

Amounts are small numbers in some unit; a commission is given by its charge
(rate and price are constants of a charge).  It may be zero: a rate of 0 passes
(service.py:66, models.py:467), and the division by 10000 rounds down
(service.py:195).  `Takes` comes to such a commission like to any other while
something remains, and `Storable` is the table's check that an allocation is
positive (models.py:586).  `Available` may be negative, where the code shows zero: requests
compare only positive amounts with it.  The statuses `processing`, `failed` and
`cancelled` are written by no code.  Stale events, like a refund of a charge that
is not booked yet, are in `Events`.

`Purse` is the promise in money: promises come out of the balance, once for each
key; a refund may put the purse into debt and is never larger than what was
earned.

| Run | Instance | Shows |
|---|---|---|
| `ledger_safety` | commissions of 2, 3 and 0, requests of 2 and 3, 2 keys, 2 handlers, a refund and a dispute of the charge with 3, fair | allocations add up and do not overlap, one payout per key, refinement of `Purse`, `RefundsArrive` |

Bounds.  Commissions of 2 and 3 let a payout take one in full and one in part, or
leave one for the other payout; the one of 0 lies before, between or behind them,
whichever charge is booked first; one charge of the larger amount is `Refundable`
and gets both kinds of events; two handlers are the rivals for the lock, two keys the
different requests and one key the repeated one.  Nothing starts once
charges and keys are used up and everything is paid, hence no deadlock check.

Fairness.  `WF(Advance(h))`: a handler with the lock goes on.  `SF` for an event
not answered with success: Stripe repeats it, and the program's row is free again
and again.

In the model, without a run of their own: a commission of zero has no
allocation the table accepts, so a request that reaches it while something
remains to be allocated fails with an `IntegrityError`, and so does every later one that
comes that far, for the commission stays unused (`LockProgram` with
`~Storable`; service.py:347); what is left of a commission after a
payout of a part of it counts as used (`Unused`, service.py:330) but also as
available (`Available`, service.py:291), so it is shown and a request for it
finds nothing to allocate, although docs/REFERRALS.md:9 of the repository makes
withdrawals available from EUR 5.00; a refund that arrives before its
checkout is acknowledged and changes nothing (`HandleRefund`, stripe.py:246); a
second event about a reversed charge is answered with an error for as long as
Stripe repeats it, for the test at service.py:227 reads a status nobody writes
and the unique key raises an `IntegrityError`; of two admins who record a
transfer for one payout the second overwrites the first (`CommitPay`), and an
approval may set a paid payout back to approved (`CommitApprove`,
router.py:803).

Not modelled: attribution, owner binding and login tokens; deactivation
and deletion of a program, which payouts and commissions do not look at after
the handler's start.

## 9. ReferralLedgerProofs

Proved for all constants that satisfy `LedgerAssumption`: `TypeCorrect`,
`LedgerInvariant`, and from it `NoDoublePromise` (`AllocatedOnce`) and
`RequestIsIdempotent` (`OnePayoutPerKey`); `PayoutsAreExact` (`ExactAllocation`) and
`ImplementsPurse` (`PurseKept`).  The assumption says of the keys that they are
finitely many: the code keeps them in a column of 128 characters (`models.py:577`).

The argument.  A payout is computed in one step and committed in another, so the
two results need that what was computed is still true at the commit.  `LedgerInv`
says that one handler at a time is between the two, that its key has no payout
and that what it takes is fresh: commissions of nobody, each once, none beyond its
amount.  Commissions and refunds may not come in between (`LockFree`); approvals
and payments may, and leave keys and allocations alone (`StatusInv`).  `IInv`
adds the types that the argument needs.

The amounts.  Sums are folds of the community modules, defined by an arbitrary
choice of the next element.  `SumsAgree` shows by a least counterexample that the
choice does not matter, and with it what a sum does when one element is added or
a part of the set taken away.  `TakesAddUp` says of the loop that allocates the
commissions that what it takes adds up to the amount asked for, if they
suffice.  `MoneyInv` carries this from the computation to the commit:
what a handler is about to commit adds up and is still within the balance
(`Funded`), for the lock keeps refunds and other payouts away; every payout is
covered exactly; and all that is allocated is all that was promised, key by key
(`Promised`), which is the state of `Purse`.

Model-checked only: `RefundsArrive` (liveness).

## 10. Conversation and Screens: the bot's dialogue with one user

`Screens` holds the constant tables: which buttons each screen carries
(`Keyboard`, one operator for each keyboard function or renderer) and, for the
requests whose answer depends on nothing the model keeps, what becomes of the
dialogue and the screen they lead to (`Pages`, one operator for each part of the
menu).
`Conversation` is the machine.  aiogram handles each update in a task of its own
(`Handlers`), with a database session of its own, at READ COMMITTED; two users
share nothing here.

| Model | Code |
|---|---|
| `row` | the user's row: active navigation message, its version and screen |
| `search` | area of the user's latest search |
| `talk` | two keys of Redis: FSM state, and data (`places` offered, `place` chosen) |
| `chat` | navigation messages on the user's screen, each with the version in its buttons and the places it offers |
| `task[h]` | where handler `h` is, the row as it loaded it (`base`) and as it has changed it (`user`) |
| `sync` | the row a search run loaded at its start |
| `unsaved`, `raced` | history: screens drawn without a commit; two updates of `PicksPlace` handled at once |
| `Receive` | `user_for`, `get_or_create_user`, `current` |
| `Decide` | what the handler reads first (`get_data`, `latest_search`), and the branch it takes: one set of possible answers per request (`Answers`) |
| `Redis` | the next of the branch's operations (`task[h].ops`): `set_state`, `set_data({})`, the get and the set of `update_data` |
| `RenderFilters` | `render_filters`, which looks for the search after the dialogue was reset |
| `Erase`, `Show` | `remove_active_navigation` and the rest of `render_text_screen`; twice for `/list` |
| `Commit` | the commit that ends the handler, or its return without one |
| `DeleteAccount` | `delete-yes` |
| `Abort` | an exception or the death of the process, with the rollback |
| `SyncBegins`, `SyncEnds` | `synchronize_search` and `refresh_visible_main_screen` |
| `UserDeletes` | the user removes a message |

Four facts decide the interleavings.  SQLAlchemy writes only the columns that
differ from what the session loaded (`Saved`), so of two overlapping updates the
later commit wins column by column, and a column both leave equal keeps the
earlier one's value.  An update of a deleted row, or of its successor, fails
(`Commit` then writes nothing).  A second insert of the same user waits for the
first and fails, so it is never received.  Redis is written at once and keeps
what it got whatever happens to the transaction.

Every operation in Redis is a step of its own.  `clear` is `set_state(None)` and
then `set_data({})`; `update_data` reads the data and writes all of it back with
one entry changed (`Written`); a place stores `place` and then enters
`radius_selection`; `present_places` enters its state after its screen is sent.
Other updates run in between, so the dialogue may wait for a radius with no place
chosen (another update's `clear` came between the two), and a handler may write
back data that was forgotten or replaced meanwhile.  The restaurant lookups do
this too: `present_restaurants` calls `update_data` for results the model leaves
out, and writes back the places it has read (main.py:1680).

Reading `talk.state` to find the handler of a message and loading the user's row
are one step (`Receive`); of what a branch reads before it acts, no answer depends
on both Redis and the database.

| Run | Instance | Shows |
|---|---|---|
| `conv_safety` | 2 handlers, 2 places of which 1 with usable bounds, lists of one or two places, 4 messages, 2 accounts, 1 trouble | the five properties below |

`KeyboardCurrent`: the buttons of the message the row names are obeyed.
`Usable`: without failures that message is in the chat once nothing is being
handled; overlapping handlers never delete the one that wins.
`StraysExplained`: at most one stray menu per overlap, failure or screen without
a commit.  `ChosenAsShown`: a pressed place, and the area saved after its radius,
is the one the button showed, though the handler looks it up by an index in
Redis.  `RefreshesMainMenu`: a search run never turns another screen into the
main menu.

Bounds.  Every command, button and input is tried alone (`Untried` is empty);
`Overlapping` names the six that run at the same time: a place lookup, a choice
and a restaurant lookup (the data in Redis), `/start` and `/set_position` (screens
and resets) and the deletion of the account.  The other requests have the shape of
one of these.  `MaxTroubles = 1`: one overlap, or one failure, or one message
removed by the user; an overlap together with a failure is not explored.  Four
messages lead from a new user to a chosen place, and from a deleted account to the
first screen of the next one.  The user who is there from the beginning may have a
dialogue that waits for a price or a restaurant's city, which the deletion of an
account and `/language` leave behind; otherwise four messages would not reach the
answers to both.  Two million distinct states.  The
bound on messages stops the machine, hence no deadlock check.  No fairness is assumed and no liveness claimed: whether a user gets an
answer depends on the user.

`ChosenAsShown` excludes runs in which two updates of `PicksPlace` overlapped
(`raced`): those on the way to a place, from the button that asks for a city to the
radius, and the two restaurant lookups.  Updates that only reset the dialogue or
change its state may overlap with them at every step.
- Two city names sent at once leave the places of one lookup in Redis and the
  screen of the other in the chat; a press then means another place than it shows.
- The button for a city belongs to them: if it overlaps a city name, the dialogue
  waits for another name while the places of the first are on screen, and when the
  second lookup stores its places and dies before its screen, a press on the first
  screen means one of the second's.
- So does a restaurant lookup: between its get and its set a city lookup stores its
  places and draws them, then the older ones are written back.  The instance of the
  run is too small for this one (it takes an earlier lookup and several overlaps);
  with five overlaps TLC finds it as soon as restaurants are left out of
  `PicksPlace`.

`RefreshesMainMenu` excludes runs with an overlap: the stored screen may then be that of one message and the stored identifier that of another,
so a search run may replace, say, the location screen with the main menu, although
its documentation speaks of a visible main menu (services.py:155).  Without either
exception the run fails.

In the model, without a run of their own: a price or surface text without a search
draws the filters page and returns without a commit (main.py:1656, 1761), so its
buttons are outdated at once; this is reached when the account is deleted or the
search never existed while the dialogue waits (`saves`, `unsaved`).  The
deletion of the account leaves the dialogue's places in Redis, while
app/locales/en.ftl:31 says that it removes the search area.

Not modelled: filter values, whether the search is active, and the plan
(an answer that depends on the plan is any of its answers, see section 6); data
of restaurants and reports; the developer's test-reset; temporary messages that
are not navigation; the keyboard of accommodation cards (`FavouriteOutbox`).

## 11. ConversationProofs

Proved for all constants that satisfy `ConversationAssumption` and
`RowAssumption`, that is for any number of concurrent handlers, any places and
any bounds: `TypeCorrect` and the five properties of the run:
`KeyboardStaysCurrent` (`KeyboardCurrent`), `OnlyMainIsRefreshed`
(`RefreshesMainMenu`), `MenuRemains` (`Usable`), `StraysArePaid` (`StraysExplained`) and `PressesMeanWhatTheyShow` (`ChosenAsShown`).

`KeyboardCurrent` speaks of the committed row only, but a row is
written back from copies, column by column.  `IInv` says the same of every copy,
of the row, of the handlers' and of the search run's (`Keyed`), and that drawing a
screen raises both the message and the version of a copy above those it was
loaded with (`Held`): so a commit writes both columns or neither
(`CommitKeyed`), and both come from one copy.  A message never changes its
version (`Steady`): a run's refresh stamps it with the version of its own copy,
which is the one the message has (`KeepSyncEnds`).  That the tables lead only to
screens with a keyboard is proved from the tables (`KnownScreens`, `PageTypes`).

`RefreshesMainMenu`: until updates overlap, every copy of the row knows what its
message shows (`Pictured`), and a run that refreshes has loaded `main`
(`MenuInv`).

`Usable`: a handler that has drawn is the only one with its message
(`OwnMessages`), and what it drew stays in the chat until it commits.  Whoever
deletes the message of the row has loaded that row's account and is about to
commit another message (`Replaced`); when the first of several such handlers
commits, the row names a message that is there (`UsableInv`).

`StraysExplained`: each failure, overlap and screen drawn without a commit pays for
one message, and each handler under way may still leave one (`Even`).  A single
update would break this account, so while nothing else has touched what
the handlers loaded they are one ahead (`Ahead`, `Fresh`): the message they
replace is one that they delete.

`ChosenAsShown`: unless `raced`, one handler at a time is on the way to a place or
writes the data back (`OneChoosing`), the message the row names shows the places
that Redis holds, if it still holds any (`FrontInv`), and so does the message a
handler is about to put in its place, once it has stored them (`Drawn`).  A press
that has been checked against the row keeps its meaning (`Asks`): whoever could
change the places would be in `PicksPlace` too, and all that others do to them is to
empty them (`Recedes`).  What a handler still has to do in Redis is one of a few
sequences (`Orderly`), in which a set follows its get, and what its get has read is
not newer than the message of the row (`Writes`), so writing it back restores at
most what that message shows.  `AnswerEffects` sorts the answers of all requests by
what they do to the dialogue.

## 12. SyncJobs: the scheduler of searches

The cron job of every minute, arq's queue and the jobs of `sync_search`, with time.
What a run does to the list on display is in `SearchSync`; here it ends well,
fails or dies.

| Model | Code |
|---|---|
| `selected`, `SelectDue`, `EnqueueSelected` | `enqueue_active_searches`: the query, and the jobs enqueued after its commit with `_job_id` `crous-sync:<search>:<slot>` |
| `SlotNumber`, `Epoch` | `int(now.timestamp() // interval)`: slots count from 1970, the clock of the model starts at `Epoch` |
| `jobs`, `Known` | arq's queue; an identifier is known while its job waits or runs (`keep_result = 0`) |
| `lease`, `LeaseFree`, `Released` | the key of `SearchLock` and its TTL |
| `run[r]` | an execution, the error count its session has loaded, the time it writes as `last_checked_at` |
| `SkipJob`, `StartJob`, `Fetch`, `Succeed`, `Finish` | `sync_search` and the commits of `synchronize_search` |
| `Fails`, `DeliveryFails`, `RecordFailure`, `Defer` | the except branches of engine and job, `_record_failure`, `Retry` |
| `Crash` | a deployment or the death of the worker; `Redelivery` is arq's mark of a job in progress |
| `ToggleMonitoring`, `SaveSearch`, `ChangePlan` | what the owner does meanwhile |

The run `jobs`: 1 search, 2 executions, cron period 2, intervals 6 and 4, lease
4, runs of at most 1, 2 tries, redelivery after 5, instants up to 15, 1 change, 2
failures, 1 crash.  Two executions are the two that can meet on a lease; another
search has its own identifiers, lease and errors.  Fifteen instants are two free
intervals after a crash and its wait.  A unit is half a minute: cron period, lease
and premium interval are the code's defaults; the free interval (an hour) and
arq's redelivery (some minutes) are shortened, in their order.  The machine ends
with time, hence no deadlock check.

The model leaves out the checks a user starts in the bot ("check now", the first
check of a saved search: main.py:121, 1477).  They run outside the queue and take
the same lease, so a job that meets one is skipped (`busy`), and its slot is lost;
they also write `last_checked_at` and `consecutive_errors`.  The statements of this
section are about searches that nobody checks by hand at the same time.

`CheckedInTime` is a bound on how late a check may be (`Lateness`): the interval,
rounded up to the next minute (`Tick - 1`), the wait and the run of the job
(`RunTime` each), and for every crash the longer of lease and interval, rounded
up again, and the wait of the job that is lost.  It is tight in this instance,
with a crash and without: TLC refutes any smaller number.  It assumes that
time passes only while nobody in the queue is late (`PassTime`), the load the
worker is meant for.  `OneJobPerSlot` and `RunsAlone` say that retries,
redeliveries and new selections of a slot do not double one another.
`ErrorsTellFailures`: `consecutive_errors` is at most twice the failed runs since
the last success.  Twice, for a failed card is counted by the engine and by the
job, so a search reaches a given count after half as many such failures.  In
practice a premium search is checked later than its interval says: its
`last_checked_at` lies seconds after a tick, so the tick one interval later does
not select it: every three minutes, where README.md:94 of the repository says two.

`WorkerProofs` proves, for all constants that satisfy `SyncJobsAssumption`,
`JobsAreOnce` (`OneJobPerSlot`), `SearchRunsAlone` (`RunsAlone` if
`RunTime < LeaseTime`; with equality the lease may be taken in the instant the
run ends) and, under the same condition, `ErrorsAreFailures` (`ErrorsTellFailures`).
The first rests on the two ways back into the queue, retry and
redelivery, which each take the job out of its run in the same step, while a new
selection adds unknown identifiers only; the second that the lease of a search under
way is the one its run set (`Leased`) and that time waits for the run (`OnTime`).
The third needs the second: a run counts on from what its session loaded, so that
it must have loaded at least the errors there are (`Reckoned`), which two runs at
a time would not.

`ChecksAreInTime` proves `CheckedInTime` for runs shorter than the lease and than
both intervals, on top of `JobsTyped`.  It needs two things said of numbers.
`SlotsAssumption`: slots of the two plans are different numbers.  They count from
1970 by intervals of an hour and of two minutes, so today's are some 0.5 and some
14 million; without it a change of plan could give a search an identifier that a
deferred retry still holds (the reason `Epoch` is in the model: counted from the
start of a short run, the numbers would collide).  `DelaysAssumption`: the delays
of retries are numbers; they are powers of two, of which the provers know nothing.
TLC evaluates both in the run.

The argument has two invariants.  `Orderly` is about the clock: nothing waits
longer than `RunTime` after it could be run (`Prompt`), no identifier belongs to a
slot that is yet to come (`SlotsPast`) and what is queued beside a run can be run
at once or is of a slot from before the run (`Followers`), a lease is that of its
run (`LeasesHeld`) or ends by itself (`LeasesEnd`).  `InTime` says where an active
search without a run is on its way to the next one: in the queue with a job that
will be run (`Queued`), read as due (`Picked`), or there is a minute ahead, no
later than `DueBy`, at which it will be due, with a free lease and an identifier
that no deferred retry holds (`Waiting`).  A step that takes one of these away
gives another: a job that is skipped found its search paused or its lease taken,
a run that fails leaves an earlier slot behind, and a stop of the worker moves
`DueBy` by what it costs (`StopCost`).  TLC checked both as invariants of small
instances before they were proved.

What the theorem takes from the model and not from the code is `PassTime`: that
the worker keeps up with its queue.

## 13. Deliveries: menus, statistics, digests

Three jobs of one shape: select the recipients, and for each reserve a row under
a unique key and send a message; commit once, at the end.  A behaviour is about
one kind of job, with several of them side by side.

| Model | Code |
|---|---|
| `kind`, `TickMenus`, `TickStatistics`, `TickDigest` | `enqueue_daily_notifications` and the cron job of `send_unsubscribed_digest` |
| `queue`, `Begin`, `SlotOf`, `Selected`, `DueMenus` | the queue; the queries of `deliver_restaurant_menus` (`due_deliveries`), `send_housing_statistics`, `send_unsubscribed_digest` |
| `rows` | `restaurant_deliveries`, `housing_statistic_deliveries`, `unsubscribed_digest_deliveries` |
| `job[j].wrote` | rows inserted and not committed |
| `Waits`, `Refused`, `InsertRefused`, `Abort` | the unique and foreign keys; the digest's savepoint; the other jobs end |
| `Recheck`, `Send`, `SendFails`, `Commit` | the rest of the loops, and the commit |
| `Stop` | arq's time limit, a deadlock, the death of the worker |
| `sent`, `lost` | history: messages delivered, and those whose row was rolled back |

The run `deliveries`: 2 users, 2 jobs, the hours 20 and 24, menu hour 10, digest
interval 10, 2 troubles.  Two jobs are two rivals for each key, two users the
order in which they take them; the two hours reach a second day and a second
period; two troubles are a rollback and its repetition, or a change by a user
between query and insert.  After the last hour nothing is asked for, hence no
deadlock check.  Fairness: the cron job of every minute, a worker that takes what
is in its queue (strong: its executions are busy and free again), jobs that go on
until they end.

`MessagesAccounted`: the messages of a key are the ones whose transaction was
rolled back, and at most one more, which its row tells.  `MenusArrive`: a due
menu does not stay due.  It needs recipients in one order (`ranked`): the queries
have no ORDER BY, and two jobs that meet the users in opposite orders wait for
each other, so that one is ended by the database.

`WorkerProofs` also proves `DeliveriesTyped` (types) and `EveryMessageAccounted`
(`MessagesAccounted`) for all constants.  The invariant says who can write what:
one transaction holds a key (`OneHolder`), a held key has no committed row
(`RowsFree`), a row is written for the user the job is at and none for those to
come (`JobOk`).  Then a commit turns what was recorded in flight into a row, and
a rollback into a loss.  `NoDeadlock` is what `MenusArrive` needs `ranked` for: if
recipients come in one order, then in any set of jobs one waits for none of the
others, however many jobs and users there are.  A transaction climbs (`Climbs`):
what it has written ranks below the user it is at, who ranks below those to come,
so that whoever waits ranks below the one waited for, and ranks (different ones,
with an upper bound, as for any finite set of users) do not rise for ever.
Without an order it is false, as above.  Model-checked only: `MenusArrive`
(liveness).

In the model, without a run of their own: the digest's hours 0, 10 and 20 and its
periods of ten hours since 1970 do not agree, so the digest of 20:10 and the one
of 00:10 may fall into one period and the second is not sent; a menu that failed
is not tried again on its day; one refused insert, or arq's limit of 300 s, rolls
back the rows of users who already have their message and get it again; an
opt-out after the query is not seen.

## 14. AdminAccounts: accounts and sessions of the panel

| Model | Code |
|---|---|
| `role`, `active` | the table of administrators |
| `session` | `admin_sessions`, with the login each was rotated from |
| `call[c]` | a request: what it has read, and the columns its statement will name |
| `Login`, `CommitLogin`, `Refresh`, `CommitRefresh`, `Logout`, `CommitLogout`, `Expire` | login, `rotate_session`, `logout`, `expires_at` |
| `Admitted`, `Superadmin` | `resolve_principal`, `superadmin_principal` |
| `Update`, `Count`, `CountRefuses`, `Create`, `Write` | `update_admin`, `create_admin` |
| `CommandLine` | `app/admin/cli.py` |
| `raced`, `late` | history: overlapping changes of accounts; per login, the refreshes and logouts whose session had ended since they read it |

No row is locked between reading and writing.  The run `admin`: 2 administrators,
3 sessions, 2 requests at a time.  Two administrators are the last two
superadmins; two requests are what can overlap about one row; three sessions are
a login and its rotation, and two rotations of the same session or a second
login.  Deadlock is checked: the command line can always be used.

`SuperadminRemains`, `OneSessionPerLogin` and `OwnRoleKept` hold with the stated
exceptions, which are needed: two removals that overlap can leave no superadmin,
although router.py:374 says "The last active superadmin cannot be changed or
deactivated".  `OneSessionPerLogin` says what overlap costs a login: all its
sessions have been rotated but one, the live one or the one whose end left none
alive, and each request that its session's end overtook adds at most one.  Two
refreshes at once with one token both succeed and leave two live sessions; a
refresh under way when its session is logged out makes a live one; and `logout`
sets `revoked_at` and answers 204 whatever became of its session since it read it
(router.py:257-261), so a logout that a refresh overtakes ends the rotated session
and leaves the new one alive.  `late` counts these requests and nothing else: a
token used again after its session ended, with no other request under way, is
refused, which is what the run's mutant breaks.

`AdminAccountsProofs` proves all three, and `TypeCorrect`, for any
administrators, sessions and requests.  `SomeoneAdministers`: a request past its
count has seen another superadmin, and whoever removes that one before it commits
makes the behaviour `raced`.  `LoginHasOneSession`: every refresh and logout under
way read its session as live; when it commits, either the session still is, and
the set of sessions that are not rotated swaps one for another, or the request is
counted for the one it adds.
`RoleIsOthers`: a statement about its own author's row names no role.

In the model, without a run of their own: the sessions of a deactivated
administrator live again after the reactivation, and a new password ends none; a
superadmin who is inactive cannot be demoted while only one is active, for the
count does not ask whether the target is active.

## 15. UserLimits: restaurants, reports, sign-ins

Three limits that are looked at first and changed later; a behaviour is about one.

| Model | Code |
|---|---|
| `saved`, `primary` | `favorite_restaurants`, `primary_restaurant_id` |
| `Save`, `Insert`, `CommitSave` | `save_favorite`: the count, the insert, the commit of the handler |
| `Load`, `SetPrimary`, `Remove`, `RefersTo` | `set_primary`, `remove_favorite`; the foreign key with ON DELETE SET NULL |
| `Report`, `Unlocked`, `WriteReport`, `CommitReport` | `create_report` under the lock of the user's row |
| `Attempt`, `Expired`, `Pruned`, `Allowed` | `LoginRateLimiter.allow` |
| `accepted` | history: attempts let through |

The run `limits`: 5 restaurants, a limit of 2, 3 updates at a time; a cooldown of
2; 2 attempts in a window of 3; 8 instants.  Five restaurants let every update
exceed the limit, which is where the bound of `SavedWithinLimit` is met: the
limit and one for every other update.  The message a refused user gets says "You
can save up to 4 restaurants" (app/locales/en.ftl:123); with updates handled at the
same time it is not true, and `SavedWithinLimit` is the bound that is.  `LoginsLimited`
is about one key of the limiter.  The key is the client's address as the header
X-Forwarded-For gives it (admin/router.py:192), so it bounds the attempts under one
such value and not those on one account.  Eight instants are two windows and more.
Time is bounded, hence no deadlock check.

`UserLimitsProofs` proves `TypeCorrect`, `LimitHolds`, `PrimaryExists`, `ReportsApart` and
`SignInsLimited` (`LoginsLimited`) for any
limits and any number of updates.  `LimitHolds` counts an update that has looked
as an addition already made (`Counted`); `PrimaryExists` that a loaded favourite
which is still a row is saved (`RowsSaved`); `ReportsApart` that a report about to
be committed is alone and late enough (`ReportNext`).  `SignInsLimited`: the
limiter's deque is the end of the history, and what it has dropped had expired
(`Remembered`); so an attempt and the one a whole limit before it are a window
apart (`WindowApart`), and the attempts of any window are within the limit
(`CountsWindow`).

In the model, without a run of its own: `remove_favorite` takes back the choice it
saw when it loaded the subscription, so it may undo a choice made meanwhile.

## 16. Not modelled

- Snapshot canonicalisation, search bounds, range parsing, matching: pure
  functions of one input, with strings and decimals; the unit tests reach them,
  and no step of another process comes between.  `SearchSync` lets a list stand
  for its fingerprint.
- CROUS client and discovery, geocoding, the restaurants' client: HTTP requests and
  parsing of services outside the repository.  Paging ends at an empty or last
  page; what a provider that changes between two pages may answer is not known.
  Their results are inputs of the models, chosen freely.
- Rendering of cards and lists, images, the photo-to-text fallback.
- Administration statistics: aggregating queries without state of their own.
- Referral attribution, owner binding, login tokens; program settings: single
  inserts and updates under unique keys.
- Notification bot (registration of a chat, an alert sent to all chats in one
  loop), Discord adapter (its reports go through `create_report`).
- The web app, whose state is the server's; deployment; configuration, logging,
  i18n; migrations.
- The choice of delivery time, the developer's test-reset, temporary messages.

Checked by TLC only: liveness (`Converges`, `PaidIsBooked`, `RefundsArrive`,
`MenusArrive`), which is out of the provers' reach.  Every safety property of a
passing run is a theorem.
