------------------------------ MODULE SyncJobs ------------------------------
(***************************************************************************)
(* The worker's scheduler of searches: the cron job that enqueues the      *)
(* searches that are due, the queue with its job identifiers, the jobs     *)
(* with their lease, failures and retries (app/workers/tasks.py).  What a  *)
(* run does to the list on display is in SearchSync; here it only ends     *)
(* well, fails at the provider, fails while it sends, or dies.             *)
(*                                                                         *)
(* Time counts in units of some fraction of a minute.  It passes only      *)
(* while nobody is late: a job in the queue is started, and a started run  *)
(* ended, within RunTime.  That is the load the worker is meant for, not   *)
(* something the code enforces.  Checks that users start in the bot take   *)
(* the same lease and are left out: nobody checks by hand meanwhile.       *)
(***************************************************************************)
EXTENDS Integers, FiniteSets, FiniteSetsExt

CONSTANTS Searches,
          Runs, NoRun,      \* executions side by side: max_jobs of the worker
          Epoch,            \* the time at the start, since 1970: slots count from there
          Tick,             \* the period of the cron job
          FreeInterval, PremiumInterval,
          LeaseTime,        \* TTL of the search's key in Redis
          RetryBase, MaxTries,
          Redelivery,       \* until the queue gives a dead worker's jobs out again
          RunTime,
          MaxTime, MaxChanges, MaxFailures, MaxCrashes  \* bounds

ASSUME SyncJobsAssumption ==
  /\ NoRun \notin Runs
  /\ {Tick, FreeInterval, PremiumInterval, MaxTries} \subseteq Nat \ {0}
  /\ {Epoch, LeaseTime, RetryBase, Redelivery, RunTime,
      MaxTime, MaxChanges, MaxFailures, MaxCrashes} \subseteq Nat

VARIABLES
  now,
  ticked,    \* the cron job of this minute has begun
  selected,  \* the searches it has read as due, with their slots
  enabled,   \* active searches of users who are not blocked
  premium,   \* searches whose owner has priority monitoring
  last,      \* last_checked_at
  errors,    \* consecutive_errors
  jobs,      \* jobs in the queue
  run,       \* executions of sync_search
  lease,     \* the key of each search in Redis: who set it, until when
  changed,   \* history: when the owner last changed the search or its plan
  failed,    \* history: failed runs since the last success
  changes, failures, crashes  \* what the bounds count

sv == <<enabled, premium, last, errors, changed, failed>>
counters == <<changes, failures, crashes>>
vars == <<now, ticked, selected, jobs, run, lease, sv, counters>>

Never == -1

Job == [search : Searches, slot : Nat, try : Nat \ {0}, at : Int]
Idle == [pc |-> "idle"]
Running == [pc : {"fetch", "show", "rest", "raised", "counted"}, search : Searches, slot : Nat,
            try : Nat \ {0},
            began : 0..MaxTime,    \* when it took the lease
            read : Nat,            \* consecutive_errors as its session has loaded it
            checked : 0..MaxTime]  \* the time it took after the provider's answer

TypeOK ==
  /\ now \in 0..MaxTime /\ ticked \in BOOLEAN
  /\ selected \subseteq [search : Searches, slot : Nat]
  /\ enabled \in [Searches -> BOOLEAN] /\ premium \in [Searches -> BOOLEAN]
  /\ last \in [Searches -> 0..MaxTime \cup {Never}]
  /\ errors \in [Searches -> Nat] /\ failed \in [Searches -> Nat]
  /\ changed \in [Searches -> 0..MaxTime]
  /\ jobs \subseteq Job
  /\ run \in [Runs -> {Idle} \cup Running]
  /\ lease \in [Searches -> [by : Runs \cup {NoRun}, until : Int]]
  /\ changes \in 0..MaxChanges /\ failures \in 0..MaxFailures /\ crashes \in 0..MaxCrashes

Init ==
  /\ now = 0 /\ ticked = FALSE /\ selected = {}
  /\ enabled = [s \in Searches |-> TRUE]
  /\ premium \in [Searches -> BOOLEAN]
  /\ last = [s \in Searches |-> Never]
  /\ errors = [s \in Searches |-> 0] /\ failed = [s \in Searches |-> 0]
  /\ changed = [s \in Searches |-> 0]
  /\ jobs = {} /\ run = [r \in Runs |-> Idle]
  /\ lease = [s \in Searches |-> [by |-> NoRun, until |-> 0]]
  /\ changes = 0 /\ failures = 0 /\ crashes = 0

-----------------------------------------------------------------------------
(* The cron job of every minute.                                           *)

Interval(s) == IF premium[s] THEN PremiumInterval ELSE FreeInterval

SlotNumber(t, interval) == (Epoch + t) \div interval
Slot(s) == SlotNumber(now, Interval(s))

\* Slots of both plans count from 1970, so that no number of one plan is one of
\* the other for centuries: today's are some 14 and 0.5 million.
ASSUME SlotsAssumption == SlotNumber(MaxTime, FreeInterval) < SlotNumber(0, PremiumInterval)

IsDue(s) == enabled[s] /\ (last[s] = Never \/ now - last[s] >= Interval(s))

Busy == {r \in Runs : run[r].pc # "idle"}

\* The queue knows an identifier while its job waits or runs (keep_result = 0).
Known(s, slot) ==
  \/ \E j \in jobs : j.search = s /\ j.slot = slot
  \/ \E r \in Busy : run[r].search = s /\ run[r].slot = slot

\* The transaction: it reads the due searches and ends with a commit.
SelectDue ==
  /\ now % Tick = 0 /\ ~ticked
  /\ ticked' = TRUE
  /\ selected' = {[search |-> s, slot |-> Slot(s)] : s \in {d \in Searches : IsDue(d)}}
  /\ UNCHANGED <<now, jobs, run, lease, sv, counters>>

\* Mutant: jobs without an identifier.
MutEnqueued == selected
\* With their identifiers: what is known already is not added again.
Enqueued == {d \in selected : ~Known(d.search, d.slot)}

\* Enqueueing after the commit.
EnqueueSelected ==
  /\ selected # {}
  /\ jobs' = jobs \cup
       {[search |-> d.search, slot |-> d.slot, try |-> 1, at |-> now] :
          d \in Enqueued}
  /\ selected' = {}
  /\ UNCHANGED <<now, ticked, run, lease, sv, counters>>

-----------------------------------------------------------------------------
(* A job: sync_search under the lease of its search.                       *)

\* Mutant: a key without TTL.
MutNoTTL(s) == lease[s].until = 0
\* Mutant: the key is set whatever is there.
MutTakesOver(s) == TRUE
LeaseFree(s) == lease[s].until <= now

Ready == {j \in jobs : j.at <= now}

\* Another run has the lease, the search is paused, or the queue has given the
\* job out too often: it ends without a trace.
SkipJob(j) ==
  /\ ~LeaseFree(j.search) \/ ~enabled[j.search] \/ j.try > MaxTries
  /\ jobs' = jobs \ {j}
  /\ UNCHANGED <<now, ticked, selected, run, lease, sv, counters>>

StartJob(j, r) ==
  /\ run[r] = Idle
  /\ LeaseFree(j.search) /\ enabled[j.search] /\ j.try <= MaxTries
  /\ lease' = [lease EXCEPT ![j.search] = [by |-> r, until |-> now + LeaseTime]]
  /\ run' = [run EXCEPT ![r] =
       [pc |-> "fetch", search |-> j.search, slot |-> j.slot, try |-> j.try,
        began |-> now, read |-> errors[j.search], checked |-> 0]]
  /\ jobs' = jobs \ {j}
  /\ UNCHANGED <<now, ticked, selected, sv, counters>>

\* The provider has answered.
Fetch(r) ==
  /\ run[r].pc = "fetch"
  /\ run' = [run EXCEPT ![r].pc = "show", ![r].checked = now]
  /\ UNCHANGED <<now, ticked, selected, jobs, lease, sv, counters>>

\* A run removes its own key only.
Released(r) ==
  LET s == run[r].search IN
  IF lease[s].by = r THEN [lease EXCEPT ![s] = [by |-> NoRun, until |-> 0]] ELSE lease

\* Mutant: a success does not clear the errors.
MutCleared(r) == errors

\* The session writes consecutive_errors only if it differs from what it loaded.
Cleared(r) == IF run[r].read = 0 THEN errors ELSE [errors EXCEPT ![run[r].search] = 0]

\* The list is unchanged or complete: the commit that says so.
Succeed(r) ==
  LET s == run[r].search IN
  /\ run[r].pc = "show"
  /\ last' = [last EXCEPT ![s] = run[r].checked]
  /\ errors' = Cleared(r)
  /\ failed' = [failed EXCEPT ![s] = 0]
  /\ run' = [run EXCEPT ![r].pc = "rest"]
  /\ UNCHANGED <<now, ticked, selected, jobs, lease, enabled, premium, changed, counters>>

\* Favourites, the old list and the main screen are done as well.
Finish(r) ==
  /\ run[r].pc = "rest"
  /\ run' = [run EXCEPT ![r] = Idle]
  /\ lease' = Released(r)
  /\ UNCHANGED <<now, ticked, selected, jobs, sv, counters>>

\* The provider, the database or the work after the commit fails.
Fails(r) ==
  /\ run[r].pc \in {"fetch", "show", "rest"}
  /\ failures < MaxFailures /\ failures' = failures + 1
  /\ run' = [run EXCEPT ![r].pc = "raised"]
  /\ UNCHANGED <<now, ticked, selected, jobs, lease, sv, changes, crashes>>

\* A card cannot be sent: the engine counts the error itself before it raises.
DeliveryFails(r) ==
  LET s == run[r].search IN
  /\ run[r].pc = "show"
  /\ failures < MaxFailures /\ failures' = failures + 1
  /\ run' = [run EXCEPT ![r].pc = "counted"]
  /\ errors' = [errors EXCEPT ![s] = run[r].read + 1]
  /\ last' = [last EXCEPT ![s] = now]
  /\ failed' = [failed EXCEPT ![s] = @ + 1]
  /\ UNCHANGED <<now, ticked, selected, jobs, lease, enabled, premium, changed,
                 changes, crashes>>

Defer(try) == RetryBase * 2^(try - 1)
\* Arithmetic that has to be said for the proofs.
ASSUME DelaysAssumption == \A try \in 1..MaxTries : Defer(try) \in Nat

Retried(r) ==
  IF run[r].try < MaxTries
  THEN {[search |-> run[r].search, slot |-> run[r].slot, try |-> run[r].try + 1,
         at |-> now + Defer(run[r].try)]}
  ELSE {}

\* The job counts the error, once more if the engine has, and asks for a retry.
RecordFailure(r) ==
  LET s == run[r].search IN
  /\ run[r].pc \in {"raised", "counted"}
  /\ last' = [last EXCEPT ![s] = now]
  /\ errors' = [errors EXCEPT ![s] = @ + 1]
  /\ failed' = IF run[r].pc = "raised" THEN [failed EXCEPT ![s] = @ + 1] ELSE failed
  /\ jobs' = jobs \cup Retried(r)
  /\ lease' = Released(r)
  /\ run' = [run EXCEPT ![r] = Idle]
  /\ UNCHANGED <<now, ticked, selected, enabled, premium, changed, counters>>

\* The worker stops: at a deployment the queue gives its jobs out again at once,
\* after a crash only when their mark of being in progress has run out.  The
\* leases stay until Redis drops them.
Crash ==
  /\ crashes < MaxCrashes /\ crashes' = crashes + 1
  /\ \E delay \in {0, Redelivery} :
       jobs' = jobs \cup {[search |-> run[r].search, slot |-> run[r].slot,
                           try |-> run[r].try + 1, at |-> now + delay] : r \in Busy}
  /\ run' = [r \in Runs |-> Idle]
  /\ lease' = [s \in Searches |-> [lease[s] EXCEPT !.by = NoRun]]
  /\ selected' = {}
  /\ UNCHANGED <<now, ticked, sv, changes, failures>>

-----------------------------------------------------------------------------
(* The owner, and time.                                                    *)

\* pause_resume
ToggleMonitoring(s) ==
  /\ changes < MaxChanges /\ changes' = changes + 1
  /\ enabled' = [enabled EXCEPT ![s] = ~@]
  /\ changed' = [changed EXCEPT ![s] = now]
  /\ UNCHANGED <<now, ticked, selected, jobs, run, lease, premium, last, errors, failed,
                 failures, crashes>>

\* save_search: a new location resumes the search and forgets its errors.
SaveSearch(s) ==
  /\ changes < MaxChanges /\ changes' = changes + 1
  /\ enabled' = [enabled EXCEPT ![s] = TRUE]
  /\ errors' = [errors EXCEPT ![s] = 0]
  /\ changed' = [changed EXCEPT ![s] = now]
  /\ UNCHANGED <<now, ticked, selected, jobs, run, lease, premium, last, failed,
                 failures, crashes>>

\* A subscription begins or ends.
ChangePlan(s) ==
  /\ changes < MaxChanges /\ changes' = changes + 1
  /\ premium' = [premium EXCEPT ![s] = ~@]
  /\ changed' = [changed EXCEPT ![s] = now]
  /\ UNCHANGED <<now, ticked, selected, jobs, run, lease, enabled, last, errors, failed,
                 failures, crashes>>

PassTime ==
  /\ now < MaxTime
  /\ now % Tick = 0 => ticked
  /\ selected = {}
  /\ \A j \in jobs : now < j.at + RunTime
  /\ \A r \in Busy : now < run[r].began + RunTime
  /\ now' = now + 1
  /\ ticked' = FALSE
  /\ UNCHANGED <<selected, jobs, run, lease, sv, counters>>

Next ==
  \/ SelectDue \/ EnqueueSelected \/ Crash \/ PassTime
  \/ \E j \in Ready : SkipJob(j) \/ \E r \in Runs : StartJob(j, r)
  \/ \E r \in Runs : Fetch(r) \/ Succeed(r) \/ Finish(r) \/ Fails(r) \/ DeliveryFails(r) \/ RecordFailure(r)
  \/ \E s \in Searches : ToggleMonitoring(s) \/ SaveSearch(s) \/ ChangePlan(s)

Spec == Init /\ [][Next]_vars

-----------------------------------------------------------------------------
(* Properties.                                                             *)

\* An active search is checked in time: within its interval, rounded up to the
\* next minute, and the time its job waits and runs; every stop of the worker
\* costs at most the wait for the lease or for the next slot, whose identifier is
\* a new one, rounded up to the next minute, and the wait of the job that is lost
\* (enqueue_active_searches, SearchLock).
Lateness(s) == Interval(s) + Tick - 1 + 2 * RunTime
             + crashes * (Max({LeaseTime, Interval(s)}) + Tick - 1 + RunTime)
CheckedInTime ==
  \A s \in Searches :
    enabled[s] => now - Max({last[s], changed[s]}) <= Lateness(s)

\* No two jobs of one identifier, in the queue or running: a retry, a redelivery
\* and a new selection of the same slot do not double one another.
OneJobPerSlot ==
  /\ \A j, k \in jobs : j.search = k.search /\ j.slot = k.slot => j = k
  /\ \A r, q \in Busy : run[r].search = run[q].search /\ run[r].slot = run[q].slot => r = q
  /\ \A j \in jobs, r \in Busy : ~(j.search = run[r].search /\ j.slot = run[r].slot)

\* As long as runs are shorter than their lease, a search has one run at a time:
\* what SearchSync calls leases that do not expire (SearchLock, job retries).
RunsAlone ==
  \A r, q \in Busy : run[r].search = run[q].search => r = q

\* consecutive_errors is at most twice the failed runs since the last success: a
\* success clears it, whatever was counted meanwhile, and only the engine's own
\* count comes on top of the job's (_record_failure, synchronize_search).
ErrorsTellFailures == \A s \in Searches : errors[s] <= 2 * failed[s]
=============================================================================
