----------------------------- MODULE Deliveries -----------------------------
(***************************************************************************)
(* The worker's periodic messages: restaurant menus (every minute, once    *)
(* per user and day), the daily statistic of each search (at 20:00) and    *)
(* the digest for users without subscription (three times a day, once per  *)
(* user and period); app/workers/tasks.py and the functions it calls in    *)
(* app/restaurants/service.py.                                             *)
(*                                                                         *)
(* Each job is one transaction.  For each recipient it reserves a row      *)
(* under a unique key and sends a message, and it commits once, after the  *)
(* last recipient.  The three jobs share no row, so a behaviour is about   *)
(* one of them, its kind.                                                  *)
(*                                                                         *)
(* SyncJobs is about the worker's other job; the names here differ from    *)
(* the names there, so that WorkerProofs can extend both.                  *)
(***************************************************************************)
EXTENDS Integers, FiniteSets

CONSTANTS Users, NoUser,
          Rank,            \* an order in which a query may return the users
          Jobs,            \* transactions side by side
          Kinds,           \* of "menu", "statistic" and "digest"
          Instants,        \* the hours, counted from the epoch, at which things happen
          MenuHour,        \* delivery_time
          DigestInterval,  \* unsubscribed_digest_interval_hours
          MaxTroubles      \* bound on changes by users, failed calls and stopped jobs

ASSUME DeliveriesAssumption ==
  /\ NoUser \notin Users /\ Rank \in [Users -> Nat]
  /\ Kinds \subseteq {"menu", "statistic", "digest"}
  /\ Instants \subseteq Nat /\ Instants # {} /\ IsFiniteSet(Instants)
  /\ MenuHour \in 0..23 /\ DigestInterval \in Nat \ {0} /\ MaxTroubles \in Nat
  /\ MaxTroubles \in Nat

\* The day, or the period of the digest, that an hour belongs to.
SlotAt(k, t) == IF k = "digest" THEN t \div DigestInterval ELSE t \div 24

Slots == {SlotAt(k, t) : k \in Kinds, t \in Instants}
Keys == Users \X Slots  \* the unique keys of the table

VARIABLES
  kind,     \* the job this behaviour is about
  ranked,   \* the database returns users by Rank; otherwise in any order
  hour,     \* counted from the epoch
  begun,    \* its cron job of this hour has begun
  queue,    \* jobs in the queue, by the day or period they were enqueued in
  members,  \* users with an account
  saved,    \* users who have a restaurant as primary favourite
  wants,    \* delivery enabled, or search active, or digest not refused
  priority, \* users with priority monitoring
  rows,     \* committed rows: for each key a status or "none"
  job,      \* the transactions
  sent,     \* history: messages delivered for each key
  lost,     \* history: of these, the ones whose transaction was rolled back
  troubles  \* what the bound counts

people == <<members, saved, wants, priority>>
deliveryVars == <<kind, ranked, hour, begun, queue, people, rows, job, sent, lost, troubles>>

Status == {"none", "reserved", "sent", "failed", "skipped"}
NoRows == [u \in Users |-> "none"]
NoTransaction == [pc |-> "idle", slot |-> 0, todo |-> {}, at |-> NoUser, wrote |-> NoRows]
Working == [pc : {"next", "insert", "reserved", "send"}, slot : Slots,
            todo : SUBSET Users, at : Users \cup {NoUser}, wrote : [Users -> Status]]

DeliveriesTypeOK ==
  /\ kind \in Kinds /\ ranked \in BOOLEAN /\ hour \in Instants /\ begun \in BOOLEAN
  /\ queue \subseteq Slots
  /\ {members, saved, wants, priority} \subseteq SUBSET Users
  /\ rows \in [Keys -> Status]
  /\ job \in [Jobs -> {NoTransaction} \cup Working]
  /\ sent \in [Keys -> Nat] /\ lost \in [Keys -> Nat]
  /\ troubles \in 0..MaxTroubles

DeliveriesInit ==
  /\ kind \in Kinds /\ ranked \in BOOLEAN
  /\ hour \in {t \in Instants : \A s \in Instants : t <= s}
  /\ begun = FALSE /\ queue = {}
  /\ members = Users /\ saved = Users /\ wants = Users /\ priority = {}
  /\ rows = [x \in Keys |-> "none"]
  /\ job = [j \in Jobs |-> NoTransaction]
  /\ sent = [x \in Keys |-> 0] /\ lost = [x \in Keys |-> 0]
  /\ troubles = 0

Trouble == troubles < MaxTroubles /\ troubles' = troubles + 1

-----------------------------------------------------------------------------
(* The cron jobs.                                                          *)

\* enqueue_daily_notifications, every minute: a menu job for this minute.
TickMenus ==
  /\ kind = "menu"
  /\ queue' = queue \cup {SlotAt(kind, hour)}
  /\ UNCHANGED <<kind, ranked, hour, begun, people, rows, job, sent, lost, troubles>>

\* The same at 20:00: the statistic of this day, once.
TickStatistics ==
  /\ kind = "statistic" /\ hour % 24 = 20 /\ ~begun
  /\ begun' = TRUE
  /\ queue' = queue \cup {SlotAt(kind, hour)}
  /\ UNCHANGED <<kind, ranked, hour, people, rows, job, sent, lost, troubles>>

\* The cron job of the digest itself.
TickDigest ==
  /\ kind = "digest" /\ hour % 24 \in {0, 10, 20} /\ ~begun
  /\ begun' = TRUE
  /\ queue' = queue \cup {SlotAt(kind, hour)}
  /\ UNCHANGED <<kind, ranked, hour, people, rows, job, sent, lost, troubles>>

-----------------------------------------------------------------------------
(* A job.                                                                  *)

\* Menus whose time has come and that have no row yet (due_deliveries).
DueMenus(day) ==
  IF hour % 24 >= MenuHour
  THEN {u \in members \cap saved \cap wants : rows[<<u, day>>] = "none"}
  ELSE {}

\* Mutant: only in the hour itself.
MutSelected(slot) ==
  IF kind = "menu" THEN IF hour % 24 = MenuHour THEN DueMenus(slot) ELSE {} ELSE members \cap wants

Selected(slot) == IF kind = "menu" THEN DueMenus(slot) ELSE members \cap wants

\* Menus and digests take the day or the period from the clock when they begin,
\* a statistic is for the day it was asked for.
SlotOf(q) == IF kind = "statistic" THEN q ELSE SlotAt(kind, hour)

Begin(j, q) ==
  /\ job[j] = NoTransaction
  /\ queue' = queue \ {q}
  /\ job' = [job EXCEPT ![j] =
       [pc |-> "next", slot |-> SlotOf(q), todo |-> Selected(SlotOf(q)), at |-> NoUser, wrote |-> NoRows]]
  /\ UNCHANGED <<kind, ranked, hour, begun, people, rows, sent, lost, troubles>>

KeyOf(j, u) == <<u, job[j].slot>>

Done(j) == [job[j] EXCEPT !.pc = "next", !.at = NoUser]
Wrote(j, status) == [Done(j) EXCEPT !.wrote[job[j].at] = status]

\* The test before the insert: a row of the day, or a subscription.
Passed(j, u) == IF kind = "digest" THEN u \in priority ELSE rows[KeyOf(j, u)] # "none"

\* The next recipient; the queries have no ORDER BY.
Take(j, u) ==
  /\ job[j].pc = "next" /\ u \in job[j].todo
  /\ ranked => \A v \in job[j].todo : Rank[u] <= Rank[v]
  /\ job' = [job EXCEPT ![j].todo = @ \ {u},
                        ![j].pc = IF Passed(j, u) THEN "next" ELSE "insert",
                        ![j].at = IF Passed(j, u) THEN NoUser ELSE u]
  /\ UNCHANGED <<kind, ranked, hour, begun, queue, people, rows, sent, lost, troubles>>

\* Another transaction has inserted the key and not yet ended: an insert waits.
HeldBy(k, x) == job[k].pc # "idle" /\ x[2] = job[k].slot /\ job[k].wrote[x[1]] # "none"
\* Mutant: a key that is not unique.
MutWaits(j, k) == FALSE
Waits(j, k) == job[j].pc = "insert" /\ HeldBy(k, KeyOf(j, job[j].at))

\* What the row refers to is gone, or the key is taken.
Refused(j) ==
  LET u == job[j].at IN
  \/ rows[KeyOf(j, u)] # "none"
  \/ u \notin members
  \/ kind = "menu" /\ u \notin saved

Insert(j) ==
  /\ job[j].pc = "insert" /\ ~Refused(j)
  /\ \A k \in Jobs \ {j} : ~Waits(j, k)
  /\ job' = [job EXCEPT ![j].wrote[job[j].at] = "reserved",
                        ![j].pc = IF kind = "digest" THEN "reserved" ELSE "send"]
  /\ UNCHANGED <<kind, ranked, hour, begun, queue, people, rows, sent, lost, troubles>>

\* The digest inserts under a savepoint and goes on with the next user.
InsertRefused(j) ==
  /\ job[j].pc = "insert" /\ kind = "digest" /\ Refused(j)
  /\ job' = [job EXCEPT ![j] = Done(j)]
  /\ UNCHANGED <<kind, ranked, hour, begun, queue, people, rows, sent, lost, troubles>>

\* The digest looks at the subscription again; the refusal it has loaded before.
Recheck(j) ==
  /\ job[j].pc = "reserved"
  /\ job' = [job EXCEPT ![j] = IF job[j].at \in priority THEN Wrote(j, "skipped")
                                                        ELSE [job[j] EXCEPT !.pc = "send"]]
  /\ UNCHANGED <<kind, ranked, hour, begun, queue, people, rows, sent, lost, troubles>>

Send(j) ==
  /\ job[j].pc = "send"
  /\ sent' = [sent EXCEPT ![KeyOf(j, job[j].at)] = @ + 1]
  /\ job' = [job EXCEPT ![j] = Wrote(j, "sent")]
  /\ UNCHANGED <<kind, ranked, hour, begun, queue, people, rows, lost, troubles>>

\* Telegram, or the menu's source, fails: the row says so, or is left as it is.
SendFails(j) ==
  /\ job[j].pc = "send"
  /\ Trouble
  /\ job' = [job EXCEPT ![j] = Wrote(j, "failed")]
  /\ UNCHANGED <<kind, ranked, hour, begun, queue, people, rows, sent, lost>>

Commit(j) ==
  /\ job[j].pc = "next" /\ job[j].todo = {}
  /\ rows' = [x \in Keys |-> IF HeldBy(j, x) THEN job[j].wrote[x[1]] ELSE rows[x]]
  /\ job' = [job EXCEPT ![j] = NoTransaction]
  /\ UNCHANGED <<kind, ranked, hour, begun, queue, people, sent, lost, troubles>>

\* The transaction is rolled back: the rows are gone, the messages are not.
RolledBack(j) ==
  /\ lost' = [x \in Keys |-> IF HeldBy(j, x) /\ job[j].wrote[x[1]] = "sent" THEN lost[x] + 1 ELSE lost[x]]
  /\ job' = [job EXCEPT ![j] = NoTransaction]

\* An insert that fails outside a savepoint ends the job; the queue does not
\* repeat it.
Abort(j) ==
  /\ job[j].pc = "insert" /\ kind # "digest" /\ Refused(j)
  /\ RolledBack(j)
  /\ UNCHANGED <<kind, ranked, hour, begun, queue, people, rows, sent, troubles>>

\* The queue's time limit, a failing database (one of two transactions that wait
\* for one another), or the end of the process, after which the queue gives the
\* job out again.
Stop(j) ==
  /\ job[j].pc # "idle"
  /\ Trouble
  /\ RolledBack(j)
  /\ \/ UNCHANGED queue
     \/ queue' = queue \cup {job[j].slot}
  /\ UNCHANGED <<kind, ranked, hour, begun, people, rows, sent>>

-----------------------------------------------------------------------------
(* The users, and time.                                                    *)

Free(u) == \A j \in Jobs : job[j].wrote[u] = "none"

\* Delivery on or off, monitoring paused or resumed, the digest refused.
ChangeWish(u) ==
  /\ Trouble
  /\ u \in members
  /\ kind = "digest" => u \in wants
  /\ wants' = IF u \in wants THEN wants \ {u} ELSE wants \cup {u}
  /\ UNCHANGED <<kind, ranked, hour, begun, queue, members, saved, priority, rows, job, sent, lost>>

\* remove_favorite; it waits for a delivery that refers to the favourite.
RemoveFavorite(u) ==
  /\ Trouble
  /\ u \in members \cap saved
  /\ kind = "menu" => Free(u)
  /\ saved' = saved \ {u}
  /\ UNCHANGED <<kind, ranked, hour, begun, queue, members, wants, priority, rows, job, sent, lost>>

\* A subscription begins or ends.
ChangePriority(u) ==
  /\ Trouble
  /\ u \in members
  /\ priority' = IF u \in priority THEN priority \ {u} ELSE priority \cup {u}
  /\ UNCHANGED <<kind, ranked, hour, begun, queue, members, saved, wants, rows, job, sent, lost>>

\* delete-yes: the rows go with the account; rows in flight keep it waiting.
DeleteAccount(u) ==
  /\ Trouble
  /\ u \in members /\ Free(u)
  /\ members' = members \ {u}
  /\ rows' = [x \in Keys |-> IF x[1] = u THEN "none" ELSE rows[x]]
  /\ UNCHANGED <<kind, ranked, hour, begun, queue, saved, wants, priority, job, sent, lost>>

PassHours ==
  /\ hour' \in {t \in Instants : t > hour /\ \A s \in Instants : s > hour => t <= s}
  /\ begun' = FALSE
  /\ UNCHANGED <<kind, ranked, queue, people, rows, job, sent, lost, troubles>>

Advance(j) ==
  \/ \E u \in Users : Take(j, u)
  \/ Insert(j) \/ InsertRefused(j) \/ Recheck(j) \/ Send(j) \/ SendFails(j) \/ Commit(j) \/ Abort(j)

DeliveriesNext ==
  \/ TickMenus \/ TickStatistics \/ TickDigest \/ PassHours
  \/ \E j \in Jobs : Advance(j) \/ Stop(j) \/ \E q \in queue : Begin(j, q)
  \/ \E u \in Users : RemoveFavorite(u) \/ ChangePriority(u) \/ DeleteAccount(u) \/ ChangeWish(u)

DeliveriesSpec == DeliveriesInit /\ [][DeliveriesNext]_deliveryVars

\* The cron job of every minute, a worker that takes what is in its queue, and
\* jobs that go on until they end.
DeliveriesFairSpec ==
  /\ DeliveriesSpec
  /\ WF_deliveryVars(TickMenus)
  /\ \A q \in Slots : SF_deliveryVars(\E j \in Jobs : q \in queue /\ Begin(j, q))
  /\ \A j \in Jobs : WF_deliveryVars(Advance(j))

-----------------------------------------------------------------------------
(* Properties.                                                             *)

\* Every message is accounted for: those of a key are the ones whose transaction
\* was rolled back, and at most one more, which the row of the key or the
\* transaction that holds it says is sent.  So a menu or digest is repeated only
\* after a rollback, and a row that says sent tells the truth (commit at the end
\* of deliver_restaurant_menus, send_housing_statistics, send_unsubscribed_digest).
Recorded(x) == rows[x] = "sent" \/ \E j \in Jobs : HeldBy(j, x) /\ job[j].wrote[x[1]] = "sent"
MessagesAccounted ==
  \A x \in Keys :
    x[1] \in members => sent[x] = lost[x] + (IF Recorded(x) THEN 1 ELSE 0)

\* A menu that is due does not stay due: it gets a row, sent or failed, or the
\* user or the day changes (deliver_restaurant_menus, every minute).  This needs
\* jobs that meet the users in one order: otherwise two jobs at a time can end
\* one another for ever.
MenusArrive ==
  \A u \in Users : []<>(ranked /\ kind = "menu" => u \notin DueMenus(SlotAt(kind, hour)))
=============================================================================
