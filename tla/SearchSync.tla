------------------------------ MODULE SearchSync ------------------------------
(***************************************************************************)
(* Synchronisation of ONE saved search (app/monitoring/service.py): worker *)
(* jobs and manual checks run synchronize_search under a Redis lease       *)
(* (app/monitoring/locks.py), rewrite the cards in the owner's Telegram    *)
(* chat and keep a record of them in PostgreSQL.  A Telegram call takes    *)
(* effect at once and is never undone; a database change counts when the   *)
(* run's session commits it.                                               *)
(*                                                                         *)
(* A card is a pair <<group, item>>.  The fingerprint of a result list     *)
(* determines the list, so the list itself stands for it.  Operators named *)
(* Mut... are faulty variants of the operator that follows them; no        *)
(* specification uses them.                                                *)
(***************************************************************************)
EXTENDS Integers, FiniteSets, FiniteSetsExt

CONSTANTS
  Listings,        \* accommodations the provider may return
  Criteria,        \* bounds and filters the owner may choose
  EmptyNotice,     \* the "no listings" message of an empty result
  NoList,          \* value of the displayed list before the first one
  Runs,            \* concurrent executions: worker jobs and manual checks
  NoRun,           \* the lease key does not exist
  MaxGroups,       \* bound: display groups ever created
  MaxChanges,      \* bound: changes at the provider, of criteria, pauses
  MaxStrays,       \* bound: crashes, refused deletions, lost send answers
  MaxFailures,     \* bound: calls that fail cleanly and are retried
  LeaseMayExpire   \* TRUE: a run can outlive the lease it never renews

ASSUME SyncAssumption ==
  /\ IsFiniteSet(Listings) /\ Criteria # {}
  /\ EmptyNotice \notin Listings /\ NoList \notin Listings \cup {EmptyNotice}
  /\ \A list \in SUBSET Listings : NoList # list
  /\ NoRun \notin Runs
  /\ MaxGroups \in Nat /\ MaxChanges \in Nat
  /\ MaxStrays \in Nat /\ MaxFailures \in Nat
  /\ LeaseMayExpire \in BOOLEAN

Groups == 1..MaxGroups
NoGroup == 0
Items == Listings \cup {EmptyNotice}
Cards == Groups \X Items
NoItem == NoList
Status == {"absent", "pending", "active", "retiring", "failed", "retired"}
Incomplete == {"pending", "failed", "retiring"}

VARIABLES
  offers,    \* what the provider would return now, filtered, per criteria
  criteria,  \* the search's bounds and filters
  enabled,   \* search.is_active and the owner is not blocked
  changes,   \* how often the environment has changed the three above
  lock,      \* owner of the lease key, or NoRun
  run,       \* per execution: program counter and local (uncommitted) state
  created,   \* display groups created so far; ids are 1..created
  status,    \* committed status of each group
  fp,        \* committed fingerprint of each group
  rows,      \* committed SearchDisplayMessage rows
  available, \* committed SearchListing rows that are currently available
  chat,      \* cards visible in the Telegram chat
  strays,    \* events so far that may leave a visible card without a row
  failures   \* clean failures so far

environment == <<offers, criteria, enabled, changes>>
database == <<created, status, fp, rows, available>>
faults == <<strays, failures>>
vars == <<environment, lock, run, database, chat, faults>>

-------------------------------------------------------------------------------
(* Local state of a run. *)

Steps == {"idle", "fetch", "recover", "send", "record", "undo", "undone",
          "activate", "cleanup", "cleaned", "release"}

Run == [pc      : Steps,
        criteria: Criteria,                   \* read when the run started
        snap    : SUBSET Listings,            \* the list fetched
        active  : Groups \cup {NoGroup},      \* group found active
        pending : Groups \cup {NoGroup},      \* group being displayed
        todo    : SUBSET Items,               \* cards still to be sent
        sent    : Items \cup {NoItem},        \* sent, its row not committed
        work    : SUBSET Groups,              \* groups still to clean
        dropped : SUBSET Cards,               \* rows deleted, not committed
        retired : SUBSET Groups]              \* groups retired, not committed

\* A run without local state; what it would read as criteria is irrelevant.
Idle == [pc |-> "idle", criteria |-> CHOOSE c \in Criteria : TRUE,
         snap |-> {}, active |-> NoGroup, pending |-> NoGroup, todo |-> {},
         sent |-> NoItem, work |-> {}, dropped |-> {}, retired |-> {}]

At(r, step) == run[r].pc = step
Becomes(r, local) == run' = [run EXCEPT ![r] = local]

\* The run's session is finished (or rolled back); only the lease is left.
Leaving == [Idle EXCEPT !.pc = "release"]

-------------------------------------------------------------------------------
(* Groups, rows and cards. *)

ItemsOf(list) == IF list = {} THEN {EmptyNotice} ELSE list
CardsOf(g) == {g} \X ItemsOf(fp[g])
RowsOf(g) == {m \in rows : m[1] = g}

ActiveGroups == {g \in Groups : status[g] = "active"}

\* _active_group: the active group with the largest id.
ActiveGroup == IF ActiveGroups = {} THEN NoGroup ELSE Max(ActiveGroups)

\* The groups recover_incomplete_groups selects.
MutIgnoresRetiring == {g \in Groups : status[g] \in {"pending", "failed"}}
MutTakesActive == {g \in Groups : status[g] \in Incomplete \cup {"active"}}
IncompleteGroups == {g \in Groups : status[g] \in Incomplete}

\* What the next commit of run r makes of the rows and statuses it has cleaned.
KeptRows(r) == rows \ run[r].dropped
Retire(r) == [g \in Groups |-> IF g \in run[r].retired THEN "retired"
                               ELSE status[g]]

\* A cleaned group is retired only if no row of it had to be kept.
RetireCleaned(r, g, kept) ==
  IF kept = {} THEN run[r].retired \cup {g} ELSE run[r].retired

\* _cleanup_group: one delete call per recorded card of g.  Telegram removes
\* the cards in gone; for those in kept the call failed transiently and the row
\* stays (the card may be gone all the same); any other row is dropped because
\* Telegram refused, and a card that was still visible is then left alone.
CleanGroup(r, g, next) ==
  \E gone \in SUBSET RowsOf(g) : \E kept \in SUBSET RowsOf(g) :
    /\ chat' = chat \ gone
    /\ strays' = strays
                 + Cardinality((RowsOf(g) \cap chat) \ (gone \cup kept))
    /\ failures' = failures + Cardinality(kept)
    /\ strays' <= MaxStrays /\ failures' <= MaxFailures
    /\ Becomes(r, [run[r] EXCEPT !.pc = next,
                                 !.work = @ \ {g},
                                 !.dropped = @ \cup (RowsOf(g) \ kept),
                                 !.retired = RetireCleaned(r, g, kept)])

-------------------------------------------------------------------------------
Init ==
  /\ offers \in [Criteria -> SUBSET Listings]
  /\ criteria \in Criteria
  /\ enabled = TRUE
  /\ changes = 0
  /\ lock = NoRun
  /\ run = [r \in Runs |-> Idle]
  /\ created = 0
  /\ status = [g \in Groups |-> "absent"]
  /\ fp = [g \in Groups |-> {}]
  /\ rows = {} /\ chat = {} /\ available = {}
  /\ strays = 0 /\ failures = 0

(* SearchLock.__aenter__, then synchronize_search reads the search and its   *)
(* owner once.  A run that finds the key, or an inactive search, returns     *)
(* without a trace.                                                          *)
Acquire(r) ==
  /\ At(r, "idle")
  /\ lock = NoRun
  /\ enabled
  /\ lock' = r
  /\ Becomes(r, [run[r] EXCEPT !.pc = "fetch", !.criteria = criteria])
  /\ UNCHANGED <<environment, database, chat, faults>>

(* crous.search answered for the criteria read before;                       *)
(* recover_incomplete_groups selects its groups.                             *)
Fetch(r) ==
  /\ At(r, "fetch")
  /\ Becomes(r, [run[r] EXCEPT !.pc = "recover",
                               !.snap = offers[run[r].criteria],
                               !.work = IncompleteGroups])
  /\ UNCHANGED <<environment, lock, database, chat, faults>>

(* recover_incomplete_groups cleans one group left by an earlier run.        *)
Recover(r) ==
  /\ At(r, "recover")
  /\ \E g \in run[r].work : CleanGroup(r, g, "recover")
  /\ UNCHANGED <<environment, lock, database>>

Recovered(r) == At(r, "recover") /\ run[r].work = {}

(* The active group already shows this list: commit and return "unchanged". *)
Unchanged(r) ==
  /\ Recovered(r)
  /\ ActiveGroup # NoGroup /\ fp[ActiveGroup] = run[r].snap
  /\ rows' = KeptRows(r)
  /\ status' = Retire(r)
  /\ available' = run[r].snap
  /\ Becomes(r, Leaving)
  /\ UNCHANGED <<environment, lock, created, fp, chat, faults>>

(* A new list: the pending group is committed together with the recovery.    *)
Begin(r) ==
  /\ Recovered(r)
  /\ ActiveGroup # NoGroup => fp[ActiveGroup] # run[r].snap
  /\ created < MaxGroups
  /\ created' = created + 1
  /\ rows' = KeptRows(r)
  /\ status' = [Retire(r) EXCEPT ![created'] = "pending"]
  /\ fp' = [fp EXCEPT ![created'] = run[r].snap]
  /\ Becomes(r, [run[r] EXCEPT !.pc = "send",
                               !.pending = created', !.active = ActiveGroup,
                               !.todo = ItemsOf(run[r].snap),
                               !.dropped = {}, !.retired = {}])
  /\ UNCHANGED <<environment, lock, available, chat, faults>>

(* Telegram accepts the next card; its row is not committed yet.             *)
SendCard(r) ==
  /\ At(r, "send")
  /\ \E i \in run[r].todo :
       /\ chat' = chat \cup {<<run[r].pending, i>>}
       /\ Becomes(r, [run[r] EXCEPT !.pc = "record", !.sent = i,
                                    !.todo = @ \ {i}])
  /\ UNCHANGED <<environment, lock, database, faults>>

(* The send raises: no card, or a card whose answer was lost on the way.     *)
SendFails(r) ==
  /\ At(r, "send")
  /\ \/ /\ failures < MaxFailures
        /\ failures' = failures + 1
        /\ UNCHANGED <<chat, strays>>
     \/ /\ strays < MaxStrays
        /\ strays' = strays + 1
        /\ \E i \in run[r].todo : chat' = chat \cup {<<run[r].pending, i>>}
        /\ UNCHANGED failures
  /\ Becomes(r, [run[r] EXCEPT !.pc = "undo"])
  /\ UNCHANGED <<environment, lock, database>>

\* The row of the card just sent; what the run does after recording it.
MutRecorded(r) == IF run[r].todo # {} THEN rows
                  ELSE rows \cup CardsOf(run[r].pending)
Recorded(r) == rows \cup {<<run[r].pending, run[r].sent>>}

MutAfterCard(r) == "activate"
AfterCard(r) == IF run[r].todo = {} THEN "activate" ELSE "send"

(* The row of the card is committed, one commit per card.                    *)
RecordCard(r) ==
  /\ At(r, "record")
  /\ rows' = Recorded(r)
  /\ Becomes(r, [run[r] EXCEPT !.pc = AfterCard(r), !.sent = NoItem])
  /\ UNCHANGED <<environment, lock, created, status, fp, available, chat,
                 faults>>

(* After a failed send the cards of the pending group are deleted ...        *)
Undo(r) ==
  /\ At(r, "undo")
  /\ CleanGroup(r, run[r].pending, "undone")
  /\ UNCHANGED <<environment, lock, database>>

(* ... and the group is committed as failed, whatever the cleanup achieved.  *)
CommitFailed(r) ==
  /\ At(r, "undone")
  /\ rows' = KeptRows(r)
  /\ status' = [status EXCEPT ![run[r].pending] = "failed"]
  /\ Becomes(r, Leaving)
  /\ UNCHANGED <<environment, lock, created, fp, available, chat, faults>>

\* The new group becomes active in the commit that retires the one found.
MutRetiresNew(r) ==
  [status EXCEPT ![run[r].pending] =
                   IF run[r].active = NoGroup THEN "active" ELSE "retiring"]
Activated(r) ==
  [g \in Groups |-> IF g = run[r].active THEN "retiring"
                    ELSE IF g = run[r].pending THEN "active" ELSE status[g]]

(* One commit: the availability rows, the new group active, the group found *)
(* active at the start of the run retiring.                                  *)
Activate(r) ==
  /\ At(r, "activate")
  /\ available' = run[r].snap
  /\ status' = Activated(r)
  /\ Becomes(r, [run[r] EXCEPT !.pc = "cleanup"])
  /\ UNCHANGED <<environment, lock, created, fp, rows, chat, faults>>

(* The replaced list is deleted from the chat, if there was one.             *)
Cleanup(r) ==
  /\ At(r, "cleanup")
  /\ run[r].active # NoGroup
  /\ CleanGroup(r, run[r].active, "cleaned")
  /\ UNCHANGED <<environment, lock, database>>

(* The last commit of a run that changed the list.                           *)
Complete(r) ==
  /\ At(r, "cleaned") \/ (At(r, "cleanup") /\ run[r].active = NoGroup)
  /\ rows' = KeptRows(r)
  /\ status' = Retire(r)
  /\ Becomes(r, Leaving)
  /\ UNCHANGED <<environment, lock, created, fp, available, chat, faults>>

\* SearchLock.__aexit__ compares the token before it deletes the key.
Released(r) == IF lock = r THEN NoRun ELSE lock

Release(r) ==
  /\ At(r, "release")
  /\ lock' = Released(r)
  /\ Becomes(r, Idle)
  /\ UNCHANGED <<environment, database, chat, faults>>

(* An exception outside the sending loop (provider unavailable, a unique key *)
(* lost to another search's new listing, a database error): the session      *)
(* rolls back, the lease is still given back.                                *)
Abort(r) ==
  /\ run[r].pc \in {"fetch", "recover", "activate", "cleanup", "cleaned"}
  /\ failures < MaxFailures
  /\ failures' = failures + 1
  /\ Becomes(r, Leaving)
  /\ UNCHANGED <<environment, lock, database, chat, strays>>

(* The process dies: the session is lost and the key stays behind.           *)
Crash(r) ==
  /\ ~At(r, "idle")
  /\ strays < MaxStrays
  /\ strays' = strays + 1
  /\ Becomes(r, Idle)
  /\ UNCHANGED <<environment, lock, database, chat, failures>>

(* Redis removes the key when its TTL is over: always long after its owner   *)
(* died, and under a living owner if the run can take longer than the TTL.   *)
ExpireLease ==
  /\ lock \in Runs
  /\ LeaseMayExpire \/ At(lock, "idle")
  /\ lock' = NoRun
  /\ UNCHANGED <<environment, run, database, chat, faults>>

(* Accommodations appear and disappear at the provider.                      *)
ProviderChanges ==
  /\ changes < MaxChanges
  /\ changes' = changes + 1
  /\ \E c \in Criteria : \E list \in (SUBSET Listings) \ {offers[c]} :
       offers' = [offers EXCEPT ![c] = list]
  /\ UNCHANGED <<criteria, enabled, lock, run, database, chat, faults>>

(* The owner edits a filter, or moves the search, which also resumes it      *)
(* (save_search); neither waits for a run in progress.                       *)
ChangeCriteria ==
  /\ changes < MaxChanges
  /\ changes' = changes + 1
  /\ criteria' \in Criteria \ {criteria}
  /\ enabled' \in {enabled, TRUE}
  /\ UNCHANGED <<offers, lock, run, database, chat, faults>>

(* The user pauses or resumes monitoring (only the pauses are bounded).      *)
ToggleMonitoring ==
  /\ enabled => changes < MaxChanges
  /\ changes' = IF enabled THEN changes + 1 ELSE changes
  /\ enabled' = ~enabled
  /\ UNCHANGED <<offers, criteria, lock, run, database, chat, faults>>

\* What a living run does next; it never waits for another run.
Advance(r) ==
  \/ Fetch(r) \/ Recover(r) \/ Unchanged(r) \/ Begin(r)
  \/ SendCard(r) \/ SendFails(r) \/ RecordCard(r) \/ Undo(r) \/ CommitFailed(r)
  \/ Activate(r) \/ Cleanup(r) \/ Complete(r) \/ Release(r)

Next ==
  \/ \E r \in Runs : Acquire(r) \/ Advance(r) \/ Abort(r) \/ Crash(r)
  \/ ExpireLease
  \/ ProviderChanges \/ ChangeCriteria \/ ToggleMonitoring

Spec == Init /\ [][Next]_vars

\* The worker's cron starts a run every minute, a started run keeps going
\* until it ends or dies, and Redis drops a key whose TTL is over.
Fairness ==
  /\ WF_vars(\E r \in Runs : Acquire(r))
  /\ \A r \in Runs : WF_vars(Advance(r))
  /\ WF_vars(ExpireLease)

FairSpec == Spec /\ Fairness
-------------------------------------------------------------------------------
(* Properties. *)

(* Every variable stays in its type; the run-local values are reset on exit. *)
TypeOK ==
  /\ offers \in [Criteria -> SUBSET Listings]
  /\ criteria \in Criteria
  /\ enabled \in BOOLEAN
  /\ changes \in 0..MaxChanges
  /\ lock \in Runs \cup {NoRun}
  /\ run \in [Runs -> Run]
  /\ created \in 0..MaxGroups
  /\ status \in [Groups -> Status]
  /\ fp \in [Groups -> SUBSET Listings]
  /\ rows \in SUBSET Cards
  /\ available \in SUBSET Listings
  /\ chat \in SUBSET Cards
  /\ strays \in 0..MaxStrays
  /\ failures \in 0..MaxFailures

(* At most one display group of the search is committed as active: the       *)
(* replaced group leaves that status in the commit that activates its        *)
(* successor, and the lease keeps two runs from replacing it at once.        *)
AtMostOneActive == \A g, h \in ActiveGroups : g = h

(* "A group is made active only after every message has been sent and        *)
(* recorded" (app/db/models.py): an active group has a row and a visible     *)
(* card for every accommodation of its list, whatever failed meanwhile.      *)
ActiveListOnScreen ==
  \A g \in ActiveGroups : CardsOf(g) \subseteq rows \cap chat

(* The availability rows always describe the list on display: they are       *)
(* committed with its activation, never while its cards are being sent.      *)
AvailabilityMatchesDisplay ==
  ActiveGroup # NoGroup => available = fp[ActiveGroup]

(* A card can be visible without a row that would let a later run delete it  *)
(* only because of a crash between send and commit, a refused deletion or a  *)
(* lost answer, one card for each: the commit per card and the recovery of   *)
(* incomplete groups leave no other way.                                     *)
Recording == {<<run[r].pending, run[r].sent>> :
                r \in {q \in Runs : At(q, "record")}}
StrayCardsExplained ==
  Cardinality(chat \ (rows \cup Recording)) <= strays

(* A row is kept until its card is gone or given up: every incomplete or     *)
(* active group a row points to is one that a later run will clean.          *)
RowsReachable ==
  \A m \in rows : status[m[1]] \in Incomplete \cup {"active"}

(* A run gives back its own lease only: a step of r removes or replaces the  *)
(* key only if the key holds r's token, even if r outlived its lease.        *)
OwnLeaseOnly ==
  [][\A r \in Runs : run'[r] # run[r] /\ lock \notin {r, NoRun}
                       => lock' = lock]_vars

(* The list on display is replaced atomically by a list that is complete on  *)
(* the screen, and never withdrawn: the engine implements ListDisplay.       *)
Displayed == IF ActiveGroup = NoGroup THEN NoList ELSE fp[ActiveGroup]
Display == INSTANCE ListDisplay WITH displayed <- Displayed,
                                     screen <- {m[2] : m \in chat}
ImplementsDisplay == Display!Spec

(* Once the provider, the user and Telegram behave, an enabled search shows  *)
(* exactly the provider's list for the criteria in force now, has no         *)
(* unfinished group and no recorded card of any other list.                  *)
Settled ==
  enabled => /\ Displayed = offers[criteria]
             /\ rows = CardsOf(ActiveGroup)
             /\ IncompleteGroups = {}
Converges == <>[]Settled
-------------------------------------------------------------------------------
(* The inductive invariant behind the first properties, for runs that finish *)
(* within their lease.                                                       *)

\* Sending, undoing or activating: the run has a pending group.
Displaying(r) == run[r].pc \in {"send", "record", "undo", "undone", "activate"}

\* Only the owner of the lease runs; everyone else has no local state.
LeaseOwnerRuns ==
  \A r \in Runs : /\ run[r] = Idle \/ lock = r
                  /\ At(r, "idle") => run[r] = Idle
                  /\ At(r, "release") => run[r] = Leaving

\* Ids that have not been given out belong to no group.
FreshGroups == \A g \in Groups : g > created => status[g] = "absent"

\* A run cleans incomplete groups only, never the list on display, and its
\* next commit retires a group only together with the last row of it.
CleansIncomplete(r) ==
  /\ run[r].work \cup run[r].retired \subseteq IncompleteGroups
  /\ \A m \in run[r].dropped : m[1] \in IncompleteGroups
  /\ \A g \in run[r].retired : RowsOf(g) \subseteq run[r].dropped
  /\ ~At(r, "recover") => run[r].work = {}
  /\ run[r].pc \notin {"recover", "undone", "cleaned"}
       => run[r].dropped = {} /\ run[r].retired = {}

\* While it displays its group, the active group is still the one it found.
FoundActive(r) ==
  /\ Displaying(r) => /\ run[r].pending \in Groups
                      /\ status[run[r].pending] = "pending"
                      /\ fp[run[r].pending] = run[r].snap
                      /\ ActiveGroups = {run[r].active} \ {NoGroup}
  /\ run[r].pc \in {"cleanup", "cleaned"} /\ run[r].active # NoGroup
       => status[run[r].active] = "retiring"

\* A card that is no longer to be sent has its row and is in the chat.
CardsDone(r) ==
  /\ run[r].pc \in {"send", "record", "activate"} =>
       \A i \in ItemsOf(run[r].snap) \ run[r].todo :
         /\ <<run[r].pending, i>> \in chat
         /\ i # run[r].sent => <<run[r].pending, i>> \in rows
  /\ At(r, "record") => /\ run[r].sent \in Items
                        /\ <<run[r].pending, run[r].sent>> \in chat
  /\ run[r].pc \in {"fetch", "recover", "send", "activate"}
       => run[r].sent = NoItem
  /\ At(r, "activate") => run[r].todo = {}

LocalInv(r) == CleansIncomplete(r) /\ FoundActive(r) /\ CardsDone(r)

DisplayInv ==
  /\ FreshGroups /\ RowsReachable
  /\ AtMostOneActive /\ ActiveListOnScreen
  /\ \A g \in ActiveGroups : available = fp[g]

(* What every step of a run may rely on: it is alone, it removes no row and  *)
(* no card of the list on display, and the cards it has done are recorded.   *)
SyncInv == LeaseOwnerRuns /\ DisplayInv /\ \A r \in Runs : LocalInv(r)
===============================================================================
