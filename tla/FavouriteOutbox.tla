---------------------------- MODULE FavouriteOutbox ----------------------------
(***************************************************************************)
(* Notifications about saved listings (app/favourites/service.py).  The    *)
(* commit that activates a search's new list also moves the availability   *)
(* of the owner's favourites and writes one outbox event per change; the   *)
(* same run then delivers every pending event it can lock, of any user,    *)
(* and commits what was delivered.  Runs of different searches overlap.    *)
(*                                                                         *)
(* One search per user (save_search updates the latest one), whose runs    *)
(* are serialised by the lease of SearchSync.  Row locks are PostgreSQL's  *)
(* at READ COMMITTED: FOR UPDATE SKIP LOCKED comes to one event after the  *)
(* other and passes over it if the event, its user or its listing is locked*)
(* at that moment; everybody else waits.                                   *)
(***************************************************************************)
EXTENDS Integers, FiniteSets

CONSTANTS
  Users,        \* owners of searches and favourites
  Listings,     \* canonical listings
  NoList,       \* a search that has not displayed any list yet
  MaxEvents,    \* bound: availability changes per favourite
  MaxFaults,    \* bound: crashes and lost answers
  MaxFailures   \* bound: deliveries that fail cleanly, and rows locked elsewhere

ASSUME OutboxAssumption ==
  /\ \A list \in SUBSET Listings : NoList # list
  /\ MaxEvents \in Nat /\ MaxFaults \in Nat /\ MaxFailures \in Nat

Favourites == Users \X Listings
Events == [user : Users, listing : Listings, seq : 1..MaxEvents,
           transition : {"appeared", "disappeared"}]
FavouriteOf(e) == <<e.user, e.listing>>
Rows == Events \cup Users \cup Listings   \* rows that can be locked

VARIABLES
  saved,       \* committed housing_favorites
  seen,        \* availability state of each favourite, "none" without a row
  sequence,    \* its transition_sequence
  pending,     \* outbox rows with status "pending"
  sent,        \* outbox rows with status "sent"
  shown,       \* the list each search displays
  run,         \* local state of the run of each search
  attempted,   \* events a delivery was tried for (history)
  passed,      \* events that a dispatch passed over and none has tried (history)
  deliveries,  \* messages the user received per event (history)
  faults, failures

history == <<attempted, passed, deliveries>>
outbox == <<pending, sent>>
vars == <<saved, seen, sequence, outbox, shown, run, history, faults, failures>>

Run == [pc    : {"idle", "applied", "committed", "select", "dispatch"},
        list  : SUBSET Listings,   \* the snapshot being committed
        read  : SUBSET Listings,   \* the owner's favourites as read
        todo  : SUBSET Events,     \* events the dispatch has still to come to
        held  : SUBSET Rows,       \* rows it has locked
        batch : SUBSET Events,     \* events it has obtained
        left  : SUBSET Events,     \* of these, not tried yet
        done  : SUBSET Events]     \* of these, delivered, not committed

Idle == [pc |-> "idle", list |-> {}, read |-> {}, todo |-> {}, held |-> {},
         batch |-> {}, left |-> {}, done |-> {}]
At(u, step) == run[u].pc = step
Becomes(u, local) == run' = [run EXCEPT ![u] = local]

Key(e) == <<e.user, e.listing, e.seq>>
Availability(l, list) == IF l \in list THEN "in" ELSE "out"

-------------------------------------------------------------------------------
(* Row locks. *)

\* Favourites among those read whose availability the snapshot changes.
Changed(u, list, read) ==
  {l \in read : seen[<<u, l>>] \notin {"none", Availability(l, list)}}

\* The listings that a run in its snapshot transaction has updated or refers to
\* in a new event, and the user it refers to there.
Touched(u) ==
  IF At(u, "applied")
  THEN LET moved == Changed(u, run[u].list, run[u].read) IN
       run[u].list \cup moved \cup {w \in {u} : moved # {}}
  ELSE {}

\* Rows that some dispatch has locked.
Held == UNION {run[u].held : u \in Users}

\* Mutant: no FOR UPDATE.
MutLockedByOther(u, row) == FALSE
LockedByOther(u, row) == \E q \in Users \ {u} : row \in run[q].held \cup Touched(q)

\* The rows of event e that the dispatch of u locks, one after the other: it
\* stops at one that is locked and keeps those before it.  busy: rows that are
\* locked elsewhere (a report, a trial, a snapshot that is still being written).
Obtained(u, e, busy) ==
  LET Free(row) == row \notin busy /\ ~LockedByOther(u, row) IN
  IF ~Free(e) THEN {}
  ELSE IF ~Free(e.user) THEN {e}
  ELSE IF ~Free(e.listing) THEN {e, e.user} ELSE {e, e.user, e.listing}
Obtains(u, e, busy) == \A row \in {e, e.user, e.listing} : row \notin busy /\ ~LockedByOther(u, row)

\* Mutant: no ORDER BY.
MutFirst(events, e) == TRUE
\* In the order of the event ids, e comes before the other events of its favourite.
First(events, e) == \A d \in events : FavouriteOf(d) = FavouriteOf(e) => d.seq >= e.seq

\* Deleting a favourite deletes its states and events: it waits for their rows.
MutRemoves(u, l) == TRUE
MayRemove(u, l) ==
  /\ \A e \in pending \cup sent : FavouriteOf(e) = <<u, l>> => e \notin Held
  /\ At(u, "applied") => l \notin run[u].read

-------------------------------------------------------------------------------
Init ==
  /\ saved \in SUBSET Favourites
  /\ seen = [f \in Favourites |-> "none"]
  /\ sequence = [f \in Favourites |-> 0]
  /\ pending = {} /\ sent = {}
  /\ shown = [u \in Users |-> NoList]
  /\ run = [u \in Users |-> Idle]
  /\ attempted = {} /\ passed = {}
  /\ deliveries = [k \in Users \X Listings \X (1..MaxEvents) |-> 0]
  /\ faults = 0 /\ failures = 0

(* add_favorite: a new row has no availability state yet.  It refers to its  *)
(* user and listing, so it waits for a dispatch that holds them.             *)
AddFavourite(u, l) ==
  /\ <<u, l>> \notin saved
  /\ u \notin Held /\ l \notin Held
  /\ saved' = saved \cup {<<u, l>>}
  /\ UNCHANGED <<seen, sequence, outbox, shown, run, history, faults, failures>>

(* remove_favorite: the row's states and events go with it, also those that  *)
(* a dispatch would have come to.                                            *)
RemoveFavourite(u, l) ==
  /\ <<u, l>> \in saved
  /\ MayRemove(u, l)
  /\ saved' = saved \ {<<u, l>>}
  /\ seen' = [seen EXCEPT ![<<u, l>>] = "none"]
  /\ sequence' = [sequence EXCEPT ![<<u, l>>] = 0]
  /\ pending' = {e \in pending : FavouriteOf(e) # <<u, l>>}
  /\ sent' = {e \in sent : FavouriteOf(e) # <<u, l>>}
  /\ attempted' = {e \in attempted : FavouriteOf(e) # <<u, l>>}
  /\ passed' = {e \in passed : FavouriteOf(e) # <<u, l>>}
  /\ run' = [q \in Users |-> [run[q] EXCEPT !.todo = {e \in @ : FavouriteOf(e) # <<u, l>>}]]
  /\ deliveries' = [k \in DOMAIN deliveries |->
                      IF k[1] = u /\ k[2] = l THEN 0 ELSE deliveries[k]]
  /\ UNCHANGED <<shown, faults, failures>>

(* The run has a complete result list: apply_snapshot and                    *)
(* record_completed_snapshot_transitions write their rows, uncommitted.      *)
Apply(u) ==
  /\ At(u, "idle")
  /\ \E list \in SUBSET Listings :
       LET read == {l \in Listings : <<u, l>> \in saved}
           moved == Changed(u, list, read) IN
       /\ \A l \in moved : sequence[<<u, l>>] < MaxEvents
       /\ (list \cup moved) \cap Held = {}
       /\ moved # {} => u \notin Held
       /\ \A q \in Users \ {u} : At(q, "applied") => run[q].list \cap list = {}
       /\ Becomes(u, [Idle EXCEPT !.pc = "applied", !.list = list,
                                  !.read = read])
  /\ UNCHANGED <<saved, seen, sequence, outbox, shown, history, faults,
                 failures>>

\* The events of a snapshot: one per favourite whose availability it changes.
MutRecordsState(u) ==
  {[user |-> u, listing |-> l, seq |-> sequence[<<u, l>>] + 1,
    transition |-> seen[<<u, l>>]] : l \in Changed(u, run[u].list, run[u].read)}
MutBaselineTells(u) ==
  {[user |-> u, listing |-> l, seq |-> sequence[<<u, l>>] + 1,
    transition |-> IF l \in run[u].list THEN "appeared" ELSE "disappeared"] :
     l \in {m \in run[u].read : seen[<<u, m>>] # Availability(m, run[u].list)}}
Recorded(u) ==
  {[user |-> u, listing |-> l, seq |-> sequence[<<u, l>>] + 1,
    transition |-> IF l \in run[u].list THEN "appeared" ELSE "disappeared"] :
     l \in Changed(u, run[u].list, run[u].read)}

(* The snapshot's commit.  A run that found its list unchanged ends here,    *)
(* without a dispatch.                                                       *)
CommitSnapshot(u) ==
  /\ At(u, "applied")
  /\ seen' = [f \in Favourites |->
                IF f[1] = u /\ f[2] \in run[u].read
                THEN Availability(f[2], run[u].list) ELSE seen[f]]
  /\ sequence' = [f \in Favourites |->
                    IF f[1] = u /\ f[2] \in Changed(u, run[u].list, run[u].read)
                    THEN sequence[f] + 1 ELSE sequence[f]]
  /\ pending' = pending \cup Recorded(u)
  /\ shown' = [shown EXCEPT ![u] = run[u].list]
  /\ IF shown[u] = run[u].list
     THEN Becomes(u, Idle)
     ELSE Becomes(u, [Idle EXCEPT !.pc = "committed"])
  /\ UNCHANGED <<saved, sent, history, faults, failures>>

(* The statement of dispatch_pending_transitions sorts what is pending when  *)
(* it begins ...                                                             *)
Select(u) ==
  /\ At(u, "committed")
  /\ Becomes(u, [Idle EXCEPT !.pc = "select", !.todo = pending])
  /\ UNCHANGED <<saved, seen, sequence, outbox, shown, history, faults,
                 failures>>

(* ... and locks it event by event, meanwhile others lock and commit.  One   *)
(* that has been sent since is no longer among the rows it returns.          *)
LockEvent(u) ==
  /\ At(u, "select")
  /\ \E e \in run[u].todo : \E busy \in SUBSET {e.user, e.listing} :
       /\ First(run[u].todo, e)
       /\ failures' = IF busy = {} THEN failures ELSE failures + 1
       /\ failures' <= MaxFailures
       /\ Becomes(u, [run[u] EXCEPT
                        !.todo = @ \ {e},
                        !.held = @ \cup Obtained(u, e, busy),
                        !.batch = IF Obtains(u, e, busy) THEN @ \cup ({e} \cap pending) ELSE @])
       /\ passed' = IF Obtains(u, e, busy) THEN passed
                    ELSE passed \cup ({e} \cap (pending \ attempted))
  /\ UNCHANGED <<saved, seen, sequence, outbox, shown, attempted, deliveries,
                 faults>>

(* The statement returns.                                                    *)
Fetch(u) ==
  /\ At(u, "select") /\ run[u].todo = {}
  /\ Becomes(u, [run[u] EXCEPT !.pc = "dispatch", !.left = run[u].batch])
  /\ UNCHANGED <<saved, seen, sequence, outbox, shown, history, faults,
                 failures>>

(* One call of the gateway, in the order of the event ids.  An exception     *)
(* retains the event; the user may have got the message nevertheless.        *)
Deliver(u) ==
  /\ At(u, "dispatch")
  /\ \E e \in run[u].left :
       /\ First(run[u].left, e)
       /\ attempted' = attempted \cup {e} /\ passed' = passed \ {e}
       /\ \/ /\ deliveries' = [deliveries EXCEPT ![Key(e)] = @ + 1]
             /\ Becomes(u, [run[u] EXCEPT !.left = @ \ {e}, !.done = @ \cup {e}])
             /\ UNCHANGED <<faults, failures>>
          \/ /\ failures < MaxFailures
             /\ failures' = failures + 1
             /\ Becomes(u, [run[u] EXCEPT !.left = @ \ {e}])
             /\ UNCHANGED <<deliveries, faults>>
          \/ /\ faults < MaxFaults
             /\ faults' = faults + 1
             /\ deliveries' = [deliveries EXCEPT ![Key(e)] = @ + 1]
             /\ Becomes(u, [run[u] EXCEPT !.left = @ \ {e}])
             /\ UNCHANGED failures
  /\ UNCHANGED <<saved, seen, sequence, outbox, shown>>

\* What the dispatch commits as sent: the events whose call returned.
MutMarksAll(u) == run[u].batch
Delivered(u) == run[u].done

(* The commit after the dispatch releases the rows.                          *)
CommitDispatch(u) ==
  /\ At(u, "dispatch") /\ run[u].left = {}
  /\ pending' = pending \ Delivered(u)
  /\ sent' = sent \cup Delivered(u)
  /\ Becomes(u, Idle)
  /\ UNCHANGED <<saved, seen, sequence, shown, history, faults, failures>>

(* The process dies or the run fails: its transaction is rolled back.        *)
Crash(u) ==
  /\ ~At(u, "idle")
  /\ faults < MaxFaults
  /\ faults' = faults + 1
  /\ Becomes(u, Idle)
  /\ UNCHANGED <<saved, seen, sequence, outbox, shown, history, failures>>

\* What a run does once its list is complete.
Advance(u) == \/ CommitSnapshot(u) \/ Select(u) \/ LockEvent(u) \/ Fetch(u) \/ Deliver(u)
              \/ CommitDispatch(u)

Next ==
  \E u \in Users : \/ Apply(u) \/ Advance(u) \/ Crash(u)
                   \/ \E l \in Listings : AddFavourite(u, l) \/ RemoveFavourite(u, l)

Spec == Init /\ [][Next]_vars

\* A run that has its list goes on until it ends or dies; searches are checked
\* again and again.
FairSpec == Spec /\ \A u \in Users : WF_vars(Advance(u)) /\ WF_vars(Apply(u))
-------------------------------------------------------------------------------
(* Properties. *)

(* Every variable stays in its type; an event says appeared or disappeared.  *)
TypeOK ==
  /\ saved \in SUBSET Favourites
  /\ seen \in [Favourites -> {"none", "in", "out"}]
  /\ sequence \in [Favourites -> 0..MaxEvents]
  /\ pending \in SUBSET Events /\ sent \in SUBSET Events
  /\ shown \in [Users -> (SUBSET Listings) \cup {NoList}]
  /\ run \in [Users -> Run]
  /\ attempted \in SUBSET Events /\ passed \in SUBSET Events
  /\ faults \in 0..MaxFaults /\ failures \in 0..MaxFailures

(* The user hears of a change once; a second message needs a crash or a lost *)
(* answer, even when the runs of several searches dispatch at once.          *)
OneMessagePerEvent == \A k \in DOMAIN deliveries : deliveries[k] <= 1 + faults

(* Only what reached the user is marked as sent: no change is lost by a      *)
(* failed call or a crash.                                                   *)
SentWasDelivered == \A e \in sent : deliveries[Key(e)] > 0

(* The outbox tells the same story as the states: the events of a favourite  *)
(* are numbered without gap, alternate, and the last one is its availability.*)
OutboxMatchesStates ==
  \A f \in Favourites :
    LET mine == {e \in pending \cup sent : FavouriteOf(e) = f} IN
    /\ Cardinality(mine) = sequence[f]
    /\ \A e \in mine : e.seq \in 1..sequence[f]
    /\ \A d, e \in mine : e.seq = d.seq + 1 => e.transition # d.transition
    /\ \A e \in mine : e.seq = sequence[f] =>
         (e.transition = "appeared") = (seen[f] = "in")

(* A later change of a favourite is tried before an earlier one only if a    *)
(* dispatch passed over the earlier one: its row, its user's or its listing's*)
(* was locked when the statement came to it, and was free again when it came *)
(* to the later one, or by the next dispatch.                                *)
NewsInOrder ==
  \A e \in attempted : \A d \in pending :
    FavouriteOf(d) = FavouriteOf(e) /\ d.seq < e.seq => d \in attempted \cup passed

(* A favourite the user has removed makes no more news.                      *)
NoNewsOfRemoved ==
  [][\A k \in DOMAIN deliveries :
       deliveries'[k] > deliveries[k] => <<k[1], k[2]>> \in saved']_vars
===============================================================================
