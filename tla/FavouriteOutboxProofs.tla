------------------------- MODULE FavouriteOutboxProofs -------------------------
(***************************************************************************)
(* Proofs about FavouriteOutbox, for any users, listings and bounds: what  *)
(* the row locks of a dispatch and of a snapshot protect.                  *)
(***************************************************************************)
EXTENDS FavouriteOutbox, FiniteSetTheorems, TLAPS

Keys == Users \X Listings \X (1..MaxEvents)
Outbox == pending \cup sent
Mine(f) == {e \in pending \cup sent : FavouriteOf(e) = f}

Typed == TypeOK /\ deliveries \in [Keys -> Nat]

(* Favourites and their events.  A favourite that is gone has neither state*)
(* nor number, and events only exist of those that are there.              *)
Kept ==
  /\ \A f \in Favourites : f \notin saved => seen[f] = "none"
  /\ \A f \in Favourites : seen[f] = "none" => sequence[f] = 0
  /\ \A e \in Outbox : FavouriteOf(e) \in saved

(* One row per number: an event is either pending or sent.                 *)
Distinct ==
  /\ \A d, e \in Outbox : Key(d) = Key(e) => d = e
  /\ \A e \in pending : e \notin sent

Numbered ==
  /\ \A f \in Favourites : IsFiniteSet(Mine(f))
  /\ OutboxMatchesStates

(* A dispatch: the events it has obtained are pending and its own, with the *)
(* rows it holds, and were tried unless it still has them to do.           *)
Holding(v) ==
  /\ v.pc \notin {"select", "dispatch"} => v.held = {} /\ v.batch = {}
  /\ v.pc # "select" => v.todo = {}
  /\ v.pc # "dispatch" => v.left = {} /\ v.done = {}
  /\ v.todo \subseteq Outbox /\ v.batch \subseteq pending
  /\ v.batch \subseteq v.held /\ v.left \subseteq v.batch /\ v.done \subseteq v.batch
  /\ \A e \in v.done : e \notin v.left
  /\ v.pc = "dispatch" => \A e \in v.batch : e \in v.left \/ e \in attempted
  /\ \A e \in v.done : deliveries[Key(e)] > 0

(* It has come to the events of a favourite in their order, and has taken  *)
(* the older ones, or passed over them, or they had been tried before.     *)
InTurn(v) ==
  /\ \A e \in v.batch : \A d \in v.todo : FavouriteOf(d) = FavouriteOf(e) => d.seq >= e.seq
  /\ \A e \in v.todo \cup v.batch : \A d \in pending :
       FavouriteOf(d) = FavouriteOf(e) /\ d.seq < e.seq =>
         d \in v.todo \cup v.batch \cup attempted \cup passed

(* A snapshot that is written and not committed: the favourites it has read*)
(* are still there.                                                        *)
Writing(u, v) ==
  v.pc = "applied" =>
    /\ \A l \in v.read : <<u, l>> \in saved
    /\ \A l \in Changed(u, v.list, v.read) : sequence[<<u, l>>] < MaxEvents

Runs == \A u \in Users : Holding(run[u]) /\ InTurn(run[u]) /\ Writing(u, run[u])

(* No two dispatches hold the same row.                                    *)
Apart == \A u, w \in Users : u # w => run[u].held \cap run[w].held = {}

(* Messages per event: a first one that has not been committed is known to *)
(* the dispatch that sent it, every other one is the work of a fault.      *)
Counts ==
  /\ OneMessagePerEvent /\ SentWasDelivered
  /\ \A e \in pending : (\A u \in Users : e \notin run[u].done) => deliveries[Key(e)] <= faults
  /\ \A k \in Keys : (\A e \in Outbox : Key(e) # k) => deliveries[k] = 0

Tried == attempted \subseteq Outbox /\ passed \subseteq Outbox /\ NewsInOrder

IInv == Typed /\ Kept /\ Distinct /\ Numbered /\ Runs /\ Apart /\ Counts /\ Tried

(***************************************************************************)
(* Types.                                                                  *)
(***************************************************************************)

LEMMA Bounds == MaxEvents \in Nat /\ MaxFaults \in Nat /\ MaxFailures \in Nat
BY OutboxAssumption

LEMMA EventFields ==
  ASSUME NEW e \in Events
  PROVE  /\ e.user \in Users /\ e.listing \in Listings /\ e.seq \in 1..MaxEvents
         /\ e.transition \in {"appeared", "disappeared"}
         /\ FavouriteOf(e) \in Favourites /\ Key(e) \in Keys
         /\ e = [user |-> e.user, listing |-> e.listing, seq |-> e.seq, transition |-> e.transition]
BY DEF Events, FavouriteOf, Favourites, Key, Keys

LEMMA RunFields ==
  ASSUME NEW v \in Run
  PROVE  /\ v.pc \in {"idle", "applied", "committed", "select", "dispatch"}
         /\ v.list \subseteq Listings /\ v.read \subseteq Listings
         /\ v.todo \subseteq Events /\ v.held \subseteq Rows
         /\ v.batch \subseteq Events /\ v.left \subseteq Events /\ v.done \subseteq Events
BY DEF Run

LEMMA IdleTyped == Idle \in Run
BY DEF Idle, Run

LEMMA DispatchTyped ==
  ASSUME NEW v \in Run, NEW b \in SUBSET Events, NEW w \in SUBSET Events, NEW d \in SUBSET Events,
         NEW h \in SUBSET Rows
  PROVE  /\ [Idle EXCEPT !.pc = "select", !.todo = w] \in Run
         /\ [v EXCEPT !.todo = w, !.held = h, !.batch = b] \in Run
         /\ [v EXCEPT !.pc = "dispatch", !.left = w] \in Run
         /\ [v EXCEPT !.todo = w] \in Run
         /\ [v EXCEPT !.left = w, !.done = d] \in Run
         /\ [v EXCEPT !.left = w] \in Run
BY DEF Idle, Run

LEMMA WritingTyped ==
  ASSUME NEW list \in SUBSET Listings, NEW read \in SUBSET Listings
  PROVE  /\ [Idle EXCEPT !.pc = "applied", !.list = list, !.read = read] \in Run
         /\ [Idle EXCEPT !.pc = "committed"] \in Run
BY DEF Idle, Run

LEMMA NewRunTyped ==
  ASSUME Typed, NEW u \in Users, NEW v \in Run, Becomes(u, v)
  PROVE  /\ run' \in [Users -> Run] /\ run'[u] = v
         /\ \A w \in Users : w # u => run'[w] = run[w]
BY DEF Typed, TypeOK, Becomes

LEMMA PairOf ==
  ASSUME NEW f \in Favourites
  PROVE  f[1] \in Users /\ f[2] \in Listings /\ f = <<f[1], f[2]>>
BY DEF Favourites

(* The events a snapshot writes.                                           *)
NewEvent(u, l) ==
  [user |-> u, listing |-> l, seq |-> sequence[<<u, l>>] + 1,
   transition |-> IF l \in run[u].list THEN "appeared" ELSE "disappeared"]

Moved(u) == Changed(u, run[u].list, run[u].read)

LEMMA RecordedEvents == ASSUME NEW u PROVE Recorded(u) = {NewEvent(u, l) : l \in Moved(u)}
BY DEF Recorded, NewEvent, Moved

LEMMA MovedTyped ==
  ASSUME Typed, NEW u \in Users, NEW list \in SUBSET Listings, NEW read \in SUBSET Listings,
         NEW l \in Changed(u, list, read)
  PROVE  /\ l \in Listings /\ l \in read /\ <<u, l>> \in Favourites
         /\ seen[<<u, l>>] # "none" /\ seen[<<u, l>>] # Availability(l, list)
BY DEF Changed, Favourites

LEMMA NewEventTyped ==
  ASSUME Typed, NEW u \in Users, NEW l \in Listings, sequence[<<u, l>>] < MaxEvents
  PROVE  NewEvent(u, l) \in Events
<1>1. sequence[<<u, l>>] \in 0..MaxEvents
  BY DEF Typed, TypeOK, Favourites
<1> DEFINE n == sequence[<<u, l>>] + 1
<1>2. n \in 1..MaxEvents
  BY <1>1, Bounds
<1> HIDE DEF n
<1>3. [user |-> u, listing |-> l, seq |-> n,
       transition |-> IF l \in run[u].list THEN "appeared" ELSE "disappeared"] \in Events
  BY <1>2 DEF Events
<1>4. QED
  BY <1>3 DEF NewEvent, n

(***************************************************************************)
(* Steps of a run that write no row: it begins, selects, or dies.          *)
(***************************************************************************)

Story(f) ==
  /\ Cardinality(Mine(f)) = sequence[f]
  /\ \A e \in Mine(f) : e.seq \in 1..sequence[f]
  /\ \A d, e \in Mine(f) : e.seq = d.seq + 1 => e.transition # d.transition
  /\ \A e \in Mine(f) : e.seq = sequence[f] => (e.transition = "appeared") = (seen[f] = "in")

LEMMA Stories == OutboxMatchesStates <=> \A f \in Favourites : Story(f)
BY DEF OutboxMatchesStates, Story, Mine

LEMMA LocalStep ==
  ASSUME IInv, NEW u \in Users, NEW v \in Run, Becomes(u, v),
         UNCHANGED <<saved, seen, sequence, outbox, shown, attempted, deliveries>>,
         passed' \in SUBSET Events, passed \subseteq passed', passed' \subseteq Outbox,
         failures' \in 0..MaxFailures, faults' \in 0..MaxFaults,
         faults' = faults + 1 \/ (faults' = faults /\ run[u].done \subseteq v.done),
         Holding(v), InTurn(v)', Writing(u, v),
         \A w \in Users \ {u} : v.held \cap run[w].held = {}
  PROVE  IInv'
<1> USE DEF outbox
<1>1. /\ run' \in [Users -> Run] /\ run'[u] = v
      /\ \A w \in Users : w # u => run'[w] = run[w]
  BY NewRunTyped DEF IInv
<1>2. Typed'
  BY <1>1 DEF IInv, Typed, TypeOK, Keys
<1>3. Kept' /\ Distinct' /\ Numbered'
  BY DEF IInv, Kept, Distinct, Numbered, OutboxMatchesStates, Outbox, Mine
<1>4. Runs'
  <2> SUFFICES ASSUME NEW w \in Users PROVE (Holding(run[w]) /\ InTurn(run[w]) /\ Writing(w, run[w]))'
    BY DEF Runs
  <2>1. Holding(run[w])'
    BY <1>1 DEF IInv, Runs, Holding, Outbox
  <2>2. InTurn(run[w])'
    BY <1>1 DEF IInv, Runs, InTurn
  <2>3. Writing(w, run[w])'
    BY <1>1 DEF IInv, Runs, Writing, Changed
  <2>4. QED
    BY <2>1, <2>2, <2>3
<1>5. Apart'
  BY <1>1 DEF IInv, Apart
<1>6. Counts'
  <2>1. faults \in Nat /\ faults' \in Nat /\ faults <= faults'
    BY Bounds DEF IInv, Typed, TypeOK
  <2>2. \A k \in Keys : deliveries[k] \in Nat
    BY DEF IInv, Typed
  <2>3. OneMessagePerEvent'
    <3>1. \A k \in Keys : deliveries[k] <= 1 + faults
      BY DEF IInv, Counts, OneMessagePerEvent, Typed
    <3>2. \A k \in Keys : deliveries[k] <= 1 + faults'
      BY <2>1, <2>2, <3>1
    <3>3. QED
      BY <3>2 DEF OneMessagePerEvent, IInv, Typed
  <2>4. SentWasDelivered'
    BY DEF IInv, Counts, SentWasDelivered, Key
  <2>5. ASSUME NEW e \in pending, \A w \in Users : e \notin run'[w].done
        PROVE  deliveries[Key(e)] <= faults'
    <3>1. Key(e) \in Keys /\ e \in Outbox
      BY EventFields DEF IInv, Typed, TypeOK, Outbox
    <3>2. CASE \A w \in Users : e \notin run[w].done
      <4>1. deliveries[Key(e)] <= faults
        BY <3>2 DEF IInv, Counts
      <4>2. QED
        BY <2>1, <2>2, <3>1, <4>1
    <3>3. CASE \E w \in Users : e \in run[w].done
      <4>1. faults' = faults + 1
        BY <1>1, <2>5, <3>3
      <4>2. deliveries[Key(e)] <= 1 + faults
        BY <3>1 DEF IInv, Counts, OneMessagePerEvent, Typed
      <4>3. QED
        BY <4>1, <4>2, <2>1, <2>2, <3>1
    <3>4. QED
      BY <3>2, <3>3
  <2>6. \A k \in Keys : (\A e \in Outbox' : Key(e) # k) => deliveries'[k] = 0
    BY DEF IInv, Counts, Outbox
  <2>7. QED
    BY <2>3, <2>4, <2>5, <2>6 DEF Counts, Key, Outbox
<1>7. Tried'
  BY DEF IInv, Tried, NewsInOrder, Outbox
<1>8. QED
  BY <1>2, <1>3, <1>4, <1>5, <1>6, <1>7 DEF IInv

LEMMA RunTyped ==
  ASSUME Typed, NEW u \in Users
  PROVE  run[u] \in Run
BY DEF Typed, TypeOK

LEMMA NothingHeld ==
  ASSUME IInv, NEW u \in Users, run[u].pc \notin {"select", "dispatch"}
  PROVE  run[u].held = {} /\ run[u].batch = {} /\ run[u].left = {} /\ run[u].done = {}
BY DEF IInv, Runs, Holding

LEMMA IdleHolds ==
  /\ Holding(Idle) /\ InTurn(Idle) /\ InTurn(Idle)'
  /\ Idle.todo = {} /\ Idle.held = {} /\ Idle.batch = {} /\ Idle.done = {} /\ Idle.pc = "idle"
BY DEF Holding, InTurn, Idle

LEMMA FaultsKept == ASSUME IInv PROVE passed \subseteq Outbox /\ passed \in SUBSET Events
BY DEF IInv, Tried, Typed, TypeOK

LEMMA FaultsTyped == ASSUME IInv PROVE faults \in 0..MaxFaults /\ failures \in 0..MaxFailures
BY DEF IInv, Typed, TypeOK

LEMMA ApplyStep ==
  ASSUME IInv, NEW u \in Users, Apply(u)
  PROVE  IInv'
<1> DEFINE read == {l \in Listings : <<u, l>> \in saved}
<1>1. PICK list \in SUBSET Listings :
        /\ \A l \in Changed(u, list, read) : sequence[<<u, l>>] < MaxEvents
        /\ Becomes(u, [Idle EXCEPT !.pc = "applied", !.list = list, !.read = read])
  BY DEF Apply
<1>2. PICK v \in Run : v = [Idle EXCEPT !.pc = "applied", !.list = list, !.read = read]
  BY WritingTyped
<1>3. /\ v.pc = "applied" /\ v.list = list /\ v.read = read
      /\ v.todo = {} /\ v.held = {} /\ v.batch = {} /\ v.left = {} /\ v.done = {}
  BY <1>2 DEF Idle
<1>4. Becomes(u, v)
  BY <1>1, <1>2
<1>5. Holding(v) /\ InTurn(v)'
  BY <1>3 DEF Holding, InTurn
<1>6. Writing(u, v)
  BY <1>1, <1>3 DEF Writing
<1>7. run[u].done = {}
  BY NothingHeld DEF Apply, At
<1>8. UNCHANGED <<attempted, passed, deliveries>>
  BY DEF Apply, history
<1>9. QED
  BY <1>2, <1>3, <1>4, <1>5, <1>6, <1>7, <1>8, LocalStep, FaultsTyped, FaultsKept DEF Apply

LEMMA SelectStep ==
  ASSUME IInv, NEW u \in Users, Select(u)
  PROVE  IInv'
<1>1. pending \subseteq Events
  BY DEF IInv, Typed, TypeOK
<1>2. PICK v \in Run : v = [Idle EXCEPT !.pc = "select", !.todo = pending]
  BY <1>1, IdleTyped, DispatchTyped
<1>3. /\ v.pc = "select" /\ v.todo = pending
      /\ v.held = {} /\ v.batch = {} /\ v.left = {} /\ v.done = {}
  BY <1>2 DEF Idle
<1>4. Becomes(u, v) /\ UNCHANGED <<pending, attempted, passed, deliveries>>
  BY <1>2 DEF Select, outbox, history
<1>5. Holding(v) /\ InTurn(v)' /\ Writing(u, v)
  BY <1>3, <1>4 DEF Holding, InTurn, Writing, Outbox
<1>6. run[u].done = {}
  BY NothingHeld DEF Select, At
<1>7. QED
  BY <1>2, <1>3, <1>4, <1>5, <1>6, LocalStep, FaultsTyped, FaultsKept DEF Select

(* The rows that the dispatch obtains of an event are nobody else's.       *)
LEMMA ObtainedRows ==
  ASSUME IInv, NEW u \in Users, NEW e \in Events, NEW busy
  PROVE  /\ Obtained(u, e, busy) \subseteq Rows
         /\ \A w \in Users \ {u} : Obtained(u, e, busy) \cap run[w].held = {}
         /\ Obtains(u, e, busy) => e \in Obtained(u, e, busy)
<1> DEFINE Free(row) == row \notin busy /\ ~LockedByOther(u, row)
<1>1. Obtained(u, e, busy) \subseteq {e, e.user, e.listing}
  BY DEF Obtained
<1>2. \A row \in Obtained(u, e, busy) : Free(row)
  BY DEF Obtained
<1>3. \A row : Free(row) => \A w \in Users \ {u} : row \notin run[w].held
  BY DEF LockedByOther
<1>4. Obtains(u, e, busy) => e \in Obtained(u, e, busy)
  BY DEF Obtains, Obtained
<1>5. {e, e.user, e.listing} \subseteq Rows
  BY EventFields DEF Rows
<1> HIDE DEF Free
<1>6. QED
  BY <1>1, <1>2, <1>3, <1>4, <1>5

LEMMA LockEventStep ==
  ASSUME IInv, NEW u \in Users, LockEvent(u)
  PROVE  IInv'
<1>0. PICK e \in run[u].todo : \E busy \in SUBSET {e.user, e.listing} :
        /\ First(run[u].todo, e)
        /\ failures' = (IF busy = {} THEN failures ELSE failures + 1) /\ failures' <= MaxFailures
        /\ Becomes(u, [run[u] EXCEPT
                         !.todo = @ \ {e},
                         !.held = @ \cup Obtained(u, e, busy),
                         !.batch = IF Obtains(u, e, busy) THEN @ \cup ({e} \cap pending) ELSE @])
        /\ passed' = IF Obtains(u, e, busy) THEN passed
                     ELSE passed \cup ({e} \cap (pending \ attempted))
  BY DEF LockEvent
<1>1. PICK busy \in SUBSET {e.user, e.listing} :
        /\ First(run[u].todo, e)
        /\ failures' = (IF busy = {} THEN failures ELSE failures + 1) /\ failures' <= MaxFailures
        /\ Becomes(u, [run[u] EXCEPT
                         !.todo = @ \ {e},
                         !.held = @ \cup Obtained(u, e, busy),
                         !.batch = IF Obtains(u, e, busy) THEN @ \cup ({e} \cap pending) ELSE @])
        /\ passed' = IF Obtains(u, e, busy) THEN passed
                     ELSE passed \cup ({e} \cap (pending \ attempted))
  BY <1>0
<1>2. /\ run[u].pc = "select"
      /\ UNCHANGED <<saved, seen, sequence, outbox, shown, attempted, deliveries, faults>>
      /\ UNCHANGED pending
  BY DEF LockEvent, At, outbox
<1>3. /\ run[u] \in Run /\ run[u].todo \subseteq Events /\ run[u].held \subseteq Rows
      /\ run[u].batch \subseteq Events /\ e \in Events /\ pending \subseteq Events
  BY RunTyped, RunFields DEF IInv, Typed, TypeOK
<1> DEFINE todo == run[u].todo \ {e}
           held == run[u].held \cup Obtained(u, e, busy)
           batch == IF Obtains(u, e, busy) THEN run[u].batch \cup ({e} \cap pending) ELSE run[u].batch
<1>4. /\ Obtained(u, e, busy) \subseteq Rows
      /\ \A w \in Users \ {u} : Obtained(u, e, busy) \cap run[w].held = {}
      /\ Obtains(u, e, busy) => e \in Obtained(u, e, busy)
  BY <1>3, ObtainedRows
<1>5. todo \in SUBSET Events /\ held \in SUBSET Rows /\ batch \in SUBSET Events
  BY <1>3, <1>4
<1>6. PICK v \in Run : v = [run[u] EXCEPT !.todo = todo, !.held = held, !.batch = batch]
  <2> HIDE DEF todo, held, batch
  <2>1. QED
    BY <1>3, <1>5, DispatchTyped
<1>7. /\ v.pc = "select" /\ v.todo = todo /\ v.held = held /\ v.batch = batch
      /\ v.left = run[u].left /\ v.done = run[u].done
  BY <1>2, <1>3, <1>6 DEF Run
<1>8. Becomes(u, v)
  BY <1>1, <1>6
<1>9. Holding(run[u]) /\ InTurn(run[u])
  BY DEF IInv, Runs
<1>10. Holding(v)
  BY <1>2, <1>4, <1>7, <1>9 DEF Holding
<1>11. /\ passed \subseteq passed' /\ passed' \subseteq Outbox /\ passed' \in SUBSET Events
       /\ e \in pending => e \in batch \cup attempted \cup passed'
  BY <1>1, <1>3, FaultsKept DEF Outbox
<1>12. InTurn(v)'
  <2>1. ASSUME NEW x \in batch, NEW d \in todo, FavouriteOf(d) = FavouriteOf(x) PROVE d.seq >= x.seq
    <3>1. CASE x \in run[u].batch
      BY <1>9, <2>1, <3>1 DEF InTurn
    <3>2. CASE x \notin run[u].batch
      <4>1. x = e
        BY <3>2
      <4>2. QED
        BY <1>1, <2>1, <4>1 DEF First
    <3>3. QED
      BY <3>1, <3>2
  <2>2. ASSUME NEW x \in todo \cup batch, NEW d \in pending, FavouriteOf(d) = FavouriteOf(x), d.seq < x.seq
        PROVE  d \in todo \cup batch \cup attempted \cup passed'
    <3>1. x \in run[u].todo \cup run[u].batch
      OBVIOUS
    <3>2. d \in run[u].todo \cup run[u].batch \cup attempted \cup passed
      BY <1>9, <2>2, <3>1 DEF InTurn
    <3>3. CASE d = e
      BY <1>11, <2>2, <3>3
    <3>4. CASE d # e
      BY <1>11, <3>2, <3>4
    <3>5. QED
      BY <3>3, <3>4
  <2> HIDE DEF todo, batch
  <2>3. QED
    BY <1>2, <1>7, <2>1, <2>2 DEF InTurn, FavouriteOf
<1>13. Writing(u, v)
  BY <1>7 DEF Writing
<1>14. \A w \in Users \ {u} : v.held \cap run[w].held = {}
  BY <1>4, <1>7 DEF IInv, Apart
<1>15. failures' \in 0..MaxFailures /\ faults' \in 0..MaxFaults
  BY <1>1, <1>2, FaultsTyped, Bounds
<1>16. QED
  BY <1>2, <1>6, <1>7, <1>8, <1>10, <1>11, <1>12, <1>13, <1>14, <1>15, LocalStep

LEMMA FetchStep ==
  ASSUME IInv, NEW u \in Users, Fetch(u)
  PROVE  IInv'
<1>1. /\ run[u].pc = "select" /\ run[u].todo = {} /\ run[u] \in Run /\ run[u].batch \subseteq Events
      /\ Becomes(u, [run[u] EXCEPT !.pc = "dispatch", !.left = run[u].batch])
      /\ UNCHANGED <<saved, seen, sequence, outbox, pending, shown, attempted, passed, deliveries,
                     faults, failures>>
  BY RunTyped, RunFields DEF Fetch, At, IInv, outbox, history
<1>2. PICK v \in Run : v = [run[u] EXCEPT !.pc = "dispatch", !.left = run[u].batch]
  BY <1>1, DispatchTyped
<1>3. /\ v.pc = "dispatch" /\ v.todo = {} /\ v.held = run[u].held /\ v.batch = run[u].batch
      /\ v.left = run[u].batch /\ v.done = run[u].done
  BY <1>1, <1>2 DEF Run
<1>9. Becomes(u, v)
  BY <1>1, <1>2
<1>4. Holding(run[u]) /\ InTurn(run[u]) /\ run[u].done = {}
  BY <1>1 DEF IInv, Runs, Holding
<1>5. Holding(v) /\ Writing(u, v)
  BY <1>3, <1>4 DEF Holding, Writing
<1>6. InTurn(v)'
  BY <1>1, <1>3, <1>4 DEF InTurn
<1>7. \A w \in Users \ {u} : v.held \cap run[w].held = {}
  BY <1>3 DEF IInv, Apart
<1>8. QED
  BY <1>1, <1>3, <1>4, <1>5, <1>6, <1>7, <1>9, LocalStep, FaultsTyped, FaultsKept

LEMMA CrashStep ==
  ASSUME IInv, NEW u \in Users, Crash(u)
  PROVE  IInv'
<1>1. faults' = faults + 1 /\ faults' \in 0..MaxFaults
  BY FaultsTyped, Bounds DEF Crash
<1>2. Writing(u, Idle)
  BY IdleHolds DEF Writing
<1>3. failures' \in 0..MaxFailures
  BY FaultsTyped DEF Crash
<1>4. UNCHANGED <<attempted, passed, deliveries>>
  BY DEF Crash, history
<1>5. \A w \in Users \ {u} : Idle.held \cap run[w].held = {}
  BY IdleHolds
<1>6. QED
  BY <1>1, <1>2, <1>3, <1>4, <1>5, IdleHolds, IdleTyped, FaultsKept, LocalStep DEF Crash

(***************************************************************************)
(* A user saves or removes a listing.                                      *)
(***************************************************************************)

LEMMA AddFavouriteStep ==
  ASSUME IInv, NEW u \in Users, NEW l \in Listings, AddFavourite(u, l)
  PROVE  IInv'
<1> USE DEF outbox, history
<1>1. saved \subseteq saved' /\ saved' \in SUBSET Favourites
  BY DEF AddFavourite, IInv, Typed, TypeOK, Favourites
<1>2. UNCHANGED <<seen, sequence, outbox, shown, run, history, faults, failures>>
  BY DEF AddFavourite
<1>3. Typed'
  BY <1>1, <1>2 DEF IInv, Typed, TypeOK, Keys
<1>4. Kept' /\ Distinct' /\ Numbered'
  BY <1>1, <1>2 DEF IInv, Kept, Distinct, Numbered, OutboxMatchesStates, Outbox, Mine
<1>5. Runs' /\ Apart'
  BY <1>1, <1>2 DEF IInv, Runs, Apart, Holding, InTurn, Writing, Changed, Outbox
<1>6. Counts' /\ Tried'
  BY <1>2 DEF IInv, Counts, OneMessagePerEvent, SentWasDelivered, Tried, NewsInOrder, Outbox
<1>7. QED
  BY <1>3, <1>4, <1>5, <1>6 DEF IInv

LEMMA RemoveFavouriteStep ==
  ASSUME IInv, NEW u \in Users, NEW l \in Listings, RemoveFavourite(u, l)
  PROVE  IInv'
<1> DEFINE f0 == <<u, l>>
<1> USE DEF outbox, history
<1>1. /\ saved' = saved \ {f0}
      /\ seen' = [seen EXCEPT ![f0] = "none"]
      /\ sequence' = [sequence EXCEPT ![f0] = 0]
      /\ pending' = {e \in pending : FavouriteOf(e) # f0}
      /\ sent' = {e \in sent : FavouriteOf(e) # f0}
      /\ attempted' = {e \in attempted : FavouriteOf(e) # f0}
      /\ passed' = {e \in passed : FavouriteOf(e) # f0}
      /\ run' = [q \in Users |-> [run[q] EXCEPT !.todo = {e \in @ : FavouriteOf(e) # f0}]]
      /\ deliveries' = [k \in DOMAIN deliveries |->
                          IF k[1] = u /\ k[2] = l THEN 0 ELSE deliveries[k]]
      /\ UNCHANGED <<shown, faults, failures>>
  BY DEF RemoveFavourite
<1>2. f0 \in Favourites /\ Typed
  BY DEF Favourites, IInv
<1>3. /\ seen' \in [Favourites -> {"none", "in", "out"}] /\ seen'[f0] = "none"
      /\ \A f \in Favourites : f # f0 => seen'[f] = seen[f]
  BY <1>1, <1>2 DEF Typed, TypeOK
<1>4. /\ sequence' \in [Favourites -> 0..MaxEvents] /\ sequence'[f0] = 0
      /\ \A f \in Favourites : f # f0 => sequence'[f] = sequence[f]
  BY <1>1, <1>2, Bounds DEF Typed, TypeOK
<1>5. /\ deliveries' \in [Keys -> Nat]
      /\ \A e \in Events : FavouriteOf(e) # f0 => deliveries'[Key(e)] = deliveries[Key(e)]
      /\ \A k \in Keys : deliveries'[k] = deliveries[k] \/ deliveries'[k] = 0
  <2>1. DOMAIN deliveries = Keys /\ \A k \in Keys : deliveries[k] \in Nat
    BY <1>2 DEF Typed
  <2>2. deliveries' = [k \in Keys |-> IF k[1] = u /\ k[2] = l THEN 0 ELSE deliveries[k]]
    BY <1>1, <2>1
  <2>3. \A k \in Keys : deliveries'[k] = IF k[1] = u /\ k[2] = l THEN 0 ELSE deliveries[k]
    BY <2>2
  <2>4. deliveries' \in [Keys -> Nat]
    BY <2>1, <2>2
  <2>5. ASSUME NEW e \in Events, FavouriteOf(e) # f0 PROVE deliveries'[Key(e)] = deliveries[Key(e)]
    <3>1. Key(e) \in Keys /\ Key(e)[1] = e.user /\ Key(e)[2] = e.listing
      BY EventFields DEF Key
    <3>2. ~(e.user = u /\ e.listing = l)
      BY <2>5 DEF FavouriteOf
    <3>3. QED
      BY <2>3, <3>1, <3>2
  <2>6. QED
    BY <2>3, <2>4, <2>5
<1>6. /\ \A e \in Outbox' : e \in Outbox /\ FavouriteOf(e) # f0
      /\ \A e \in Outbox : e \in Events /\ (FavouriteOf(e) # f0 => e \in Outbox')
  BY <1>1, <1>2 DEF Outbox, Typed, TypeOK
<1> HIDE DEF f0
<1>R. /\ run' \in [Users -> Run]
      /\ \A w \in Users :
           /\ run'[w].todo = {e \in run[w].todo : FavouriteOf(e) # f0}
           /\ run'[w].pc = run[w].pc /\ run'[w].list = run[w].list /\ run'[w].read = run[w].read
           /\ run'[w].held = run[w].held /\ run'[w].batch = run[w].batch
           /\ run'[w].left = run[w].left /\ run'[w].done = run[w].done
  <2>1. \A w \in Users : run'[w] = [run[w] EXCEPT !.todo = {e \in run[w].todo : FavouriteOf(e) # f0}]
    BY <1>1
  <2>2. ASSUME NEW v \in Run
        PROVE  \A w : w = [v EXCEPT !.todo = {e \in v.todo : FavouriteOf(e) # f0}] =>
               /\ w \in Run /\ w.todo = {e \in v.todo : FavouriteOf(e) # f0}
               /\ w.pc = v.pc /\ w.list = v.list /\ w.read = v.read /\ w.held = v.held
               /\ w.batch = v.batch /\ w.left = v.left /\ w.done = v.done
    BY DEF Run
  <2>3. \A w \in Users : run[w] \in Run
    BY <1>2, RunTyped
  <2>4. \A w \in Users : run'[w] \in Run
    BY <2>1, <2>2, <2>3
  <2>5. run' \in [Users -> Run]
    BY <1>1, <2>1, <2>4
  <2>6. QED
    BY <2>1, <2>2, <2>3, <2>5
<1>7. Typed'
  <2>1. /\ saved' \in SUBSET Favourites /\ pending' \in SUBSET Events /\ sent' \in SUBSET Events
        /\ attempted' \in SUBSET Events /\ passed' \in SUBSET Events
    BY <1>1, <1>2 DEF Typed, TypeOK
  <2>2. QED
    BY <1>1, <1>2, <1>3, <1>4, <1>5, <1>R, <2>1 DEF Typed, TypeOK
<1>8. Kept' /\ Distinct'
  <2>1. Kept'
    BY <1>1, <1>3, <1>4, <1>6 DEF IInv, Kept
  <2>2. Distinct'
    BY <1>1, <1>6 DEF IInv, Distinct, Key
  <2>3. QED
    BY <2>1, <2>2
<1>9. Numbered'
  <2>1. ASSUME NEW f \in Favourites PROVE (IsFiniteSet(Mine(f)) /\ Story(f))'
    <3>1. CASE f = f0
      <4>1. Mine(f)' = {}
        BY <1>1, <3>1 DEF Mine
      <4>2. Cardinality({}) = 0 /\ IsFiniteSet({})
        BY FS_EmptySet
      <4>3. sequence'[f] = 0
        BY <1>4, <3>1
      <4>4. QED
        BY <4>1, <4>2, <4>3 DEF Story
    <3>2. CASE f # f0
      <4>1. Mine(f)' = Mine(f)
        BY <1>1, <3>2 DEF Mine
      <4>2. sequence'[f] = sequence[f] /\ seen'[f] = seen[f]
        BY <1>3, <1>4, <3>2
      <4>3. IsFiniteSet(Mine(f)) /\ Story(f)
        BY Stories DEF IInv, Numbered
      <4>4. QED
        BY <4>1, <4>2, <4>3 DEF Story
    <3>3. QED
      BY <3>1, <3>2
  <2>2. (\A f \in Favourites : Story(f))' => OutboxMatchesStates'
    BY DEF OutboxMatchesStates, Story, Mine
  <2>3. QED
    BY <2>1, <2>2 DEF Numbered
<1>10. \A w \in Users : \A e \in run[w].batch : FavouriteOf(e) # f0
  <2>1. \A w \in Users : \A e \in run[w].batch : e \in pending /\ e \in run[w].held
    BY DEF IInv, Runs, Holding
  <2>2. QED
    BY <2>1 DEF RemoveFavourite, MayRemove, Held, f0
<1>11. Runs'
  <2> SUFFICES ASSUME NEW w \in Users PROVE (Holding(run[w]) /\ InTurn(run[w]) /\ Writing(w, run[w]))'
    BY DEF Runs
  <2>1. Holding(run[w]) /\ InTurn(run[w]) /\ Writing(w, run[w])
    BY DEF IInv, Runs
  <2>2. Holding(run[w])'
    <3>1. run[w].batch \subseteq pending' /\ run[w].batch \subseteq Events
      BY <1>1, <1>2, <1>10, <2>1 DEF Holding, Typed, TypeOK
    <3>2. run[w].pc = "dispatch" => \A e \in run[w].batch : e \in run[w].left \/ e \in attempted'
      BY <1>1, <1>10, <2>1 DEF Holding
    <3>3. \A e \in run[w].done : deliveries'[Key(e)] > 0
      BY <1>5, <1>10, <2>1, <3>1 DEF Holding
    <3>4. run'[w].todo \subseteq Outbox' /\ (run[w].pc # "select" => run'[w].todo = {})
      BY <1>6, <1>R, <2>1 DEF Holding
    <3>5. QED
      BY <1>1, <1>R, <2>1, <3>1, <3>2, <3>3, <3>4 DEF Holding, Key
  <2>I. InTurn(run[w])'
    <3>1. \A e \in run'[w].todo \cup run'[w].batch : e \in run[w].todo \cup run[w].batch /\ FavouriteOf(e) # f0
      BY <1>10, <1>R
    <3>2. \A d \in run[w].todo \cup run[w].batch \cup attempted \cup passed :
            FavouriteOf(d) # f0 => d \in run'[w].todo \cup run'[w].batch \cup attempted' \cup passed'
      BY <1>1, <1>R
    <3>3. \A d \in pending' : d \in pending
      BY <1>1
    <3>4. QED
      BY <1>R, <2>1, <3>1, <3>2, <3>3 DEF InTurn, FavouriteOf
  <2>3. Writing(w, run[w])'
    <3> SUFFICES ASSUME run[w].pc = "applied" PROVE Writing(w, run[w])'
      BY <1>R DEF Writing
    <3>1. \A m \in run[w].read : m \in Listings /\ <<w, m>> \in Favourites /\ <<w, m>> # f0
      <4>1. run[w].read \subseteq Listings
        BY <1>2, RunTyped, RunFields
      <4>2. w = u => l \notin run[w].read
        BY DEF RemoveFavourite, MayRemove, At
      <4>3. QED
        BY <4>1, <4>2 DEF f0, Favourites
    <3>2. Changed(w, run[w].list, run[w].read)' = Changed(w, run[w].list, run[w].read)
      <4>1. \A m \in run[w].read : seen'[<<w, m>>] = seen[<<w, m>>]
        BY <1>3, <3>1
      <4>2. QED
        BY <1>R, <4>1 DEF Changed
    <3>3. \A m \in run[w].read : <<w, m>> \in saved' /\ sequence'[<<w, m>>] = sequence[<<w, m>>]
      BY <1>1, <1>4, <2>1, <3>1 DEF Writing
    <3>4. \A m \in Changed(w, run[w].list, run[w].read) : m \in run[w].read
      BY DEF Changed
    <3>5. QED
      BY <1>R, <2>1, <3>2, <3>3, <3>4 DEF Writing
  <2>4. QED
    BY <2>2, <2>I, <2>3
<1>12. Apart'
  BY <1>R DEF IInv, Apart
<1>13. Counts'
  <2>1. /\ faults \in Nat /\ faults' = faults /\ \A k \in Keys : deliveries[k] \in Nat
        /\ \A w \in Users : run'[w].done = run[w].done
    BY <1>1, <1>2, <1>R, Bounds DEF Typed, TypeOK
  <2>2. OneMessagePerEvent'
    <3>1. \A k \in Keys : deliveries[k] <= 1 + faults
      BY DEF IInv, Counts, OneMessagePerEvent, Typed
    <3>2. \A k \in Keys : deliveries'[k] <= 1 + faults
      BY <1>5, <2>1, <3>1
    <3>3. QED
      BY <1>5, <2>1, <3>2 DEF OneMessagePerEvent
  <2>3. SentWasDelivered'
    <3>1. \A e \in sent' : e \in sent /\ e \in Events /\ FavouriteOf(e) # f0
      BY <1>1, <1>2 DEF Typed, TypeOK
    <3>2. QED
      BY <1>5, <3>1 DEF IInv, Counts, SentWasDelivered, Key
  <2>4. ASSUME NEW e \in pending', \A w \in Users : e \notin run'[w].done
        PROVE  deliveries'[Key(e)] <= faults'
    <3>1. e \in pending /\ e \in Events /\ FavouriteOf(e) # f0
      BY <1>1, <1>2 DEF Typed, TypeOK
    <3>2. QED
      BY <1>5, <2>1, <2>4, <3>1 DEF IInv, Counts
  <2>5. ASSUME NEW k \in Keys, \A e \in Outbox' : Key(e) # k
        PROVE  deliveries'[k] = 0
    <3>1. CASE k[1] = u /\ k[2] = l
      BY <1>1, <3>1, <1>2 DEF Typed
    <3>2. CASE ~(k[1] = u /\ k[2] = l)
      <4>1. \A e \in Outbox : Key(e) # k
        <5> SUFFICES ASSUME NEW e \in Outbox, Key(e) = k PROVE FALSE
          OBVIOUS
        <5>1. e.user = k[1] /\ e.listing = k[2]
          BY DEF Key
        <5>2. FavouriteOf(e) # f0
          BY <3>2, <5>1 DEF FavouriteOf, f0
        <5>3. QED
          BY <1>6, <2>5, <5>2
      <4>2. QED
        BY <1>5, <4>1 DEF IInv, Counts
    <3>3. QED
      BY <3>1, <3>2
  <2>6. QED
    BY <2>2, <2>3, <2>4, <2>5 DEF Counts, Key
<1>14. Tried'
  BY <1>1, <1>6 DEF IInv, Tried, NewsInOrder, Outbox
<1>15. QED
  BY <1>7, <1>8, <1>9, <1>11, <1>12, <1>13, <1>14 DEF IInv

(***************************************************************************)
(* A dispatch.                                                             *)
(***************************************************************************)

LEMMA HeldEvent ==
  ASSUME IInv, NEW u \in Users, NEW e \in run[u].left
  PROVE  /\ e \in pending /\ e \in Events /\ Key(e) \in Keys
         /\ \A w \in Users : e \notin run[w].done
         /\ deliveries[Key(e)] <= faults
<1>1. Holding(run[u]) /\ Typed
  BY DEF IInv, Runs
<1>2. e \in run[u].batch /\ e \in run[u].held /\ e \in pending /\ e \in Events /\ e \notin run[u].done
  BY <1>1 DEF Holding, Typed, TypeOK
<1>3. \A w \in Users : e \notin run[w].done
  <2> SUFFICES ASSUME NEW w \in Users, w # u, e \in run[w].done PROVE FALSE
    BY <1>2
  <2>1. e \in run[w].held
    BY DEF IInv, Runs, Holding
  <2>2. QED
    BY <1>2, <2>1 DEF IInv, Apart
<1>4. QED
  BY <1>2, <1>3, EventFields DEF IInv, Counts

LEMMA CallStep ==
  ASSUME IInv, NEW u \in Users, NEW v \in Run, Becomes(u, v), NEW e \in run[u].left,
         First(run[u].left, e),
         v.pc = "dispatch", run[u].pc = "dispatch", v.todo = run[u].todo, v.held = run[u].held,
         v.batch = run[u].batch, v.left = run[u].left \ {e},
         v.done = run[u].done \/ v.done = run[u].done \cup {e},
         attempted' = attempted \cup {e}, passed' = passed \ {e},
         UNCHANGED <<saved, seen, sequence, outbox, shown>>,
         failures' \in 0..MaxFailures, faults' \in 0..MaxFaults, faults <= faults',
         deliveries' \in [Keys -> Nat],
         \A k \in Keys : k # Key(e) => deliveries'[k] = deliveries[k],
         \/ deliveries'[Key(e)] = deliveries[Key(e)] /\ e \notin v.done
         \/ deliveries'[Key(e)] = deliveries[Key(e)] + 1 /\ (faults' = faults + 1 \/ e \in v.done)
  PROVE  IInv'
<1> USE DEF outbox
<1>1. /\ run' \in [Users -> Run] /\ run'[u] = v
      /\ \A w \in Users : w # u => run'[w] = run[w]
  BY NewRunTyped DEF IInv
<1>2. /\ e \in run[u].batch /\ e \in pending /\ e \in Events /\ Key(e) \in Keys
      /\ \A w \in Users : e \notin run[w].done
      /\ deliveries[Key(e)] <= faults
  <2>1. e \in run[u].batch
    BY DEF IInv, Runs, Holding
  <2>2. QED
    BY <2>1, HeldEvent
<1>3. /\ \A k \in Keys : deliveries[k] \in Nat /\ deliveries'[k] \in Nat /\ deliveries[k] <= deliveries'[k]
      /\ faults \in Nat /\ faults' \in Nat
  <2>1. \A k \in Keys : deliveries[k] \in Nat /\ deliveries'[k] \in Nat
    BY DEF IInv, Typed
  <2>2. \A k \in Keys : deliveries[k] <= deliveries'[k]
    BY <1>2, <2>1
  <2>3. QED
    BY <2>1, <2>2, Bounds DEF IInv, Typed, TypeOK
<1>4. Typed'
  BY <1>1, <1>2 DEF IInv, Typed, TypeOK
<1>5. Kept' /\ Distinct' /\ Numbered'
  BY DEF IInv, Kept, Distinct, Numbered, OutboxMatchesStates, Outbox, Mine
<1>6. Runs'
  <2> SUFFICES ASSUME NEW w \in Users PROVE (Holding(run[w]) /\ InTurn(run[w]) /\ Writing(w, run[w]))'
    BY DEF Runs
  <2>1. Holding(run[w]) /\ InTurn(run[w]) /\ Writing(w, run[w]) /\ Holding(run[u]) /\ InTurn(run[u])
    BY DEF IInv, Runs
  <2>2. \A q \in Users : run'[q].batch = run[q].batch
    BY <1>1
  <2>3. \A d \in run[w].done : deliveries'[Key(d)] > 0
    <3> SUFFICES ASSUME NEW d \in run[w].done PROVE deliveries'[Key(d)] > 0
      OBVIOUS
    <3>1. d \in Events /\ deliveries[Key(d)] > 0
      BY <2>1 DEF Holding, IInv, Typed, TypeOK
    <3>2. Key(d) \in Keys
      BY <3>1, EventFields
    <3>3. QED
      BY <1>3, <3>1, <3>2
  <2>4. CASE w # u
    <3>1. run'[w] = run[w] /\ run[w].pc = run'[w].pc
      BY <1>1, <2>4
    <3>2. Holding(run[w])'
      BY <2>1, <2>3, <3>1 DEF Holding, Key, Outbox
    <3>3. Writing(w, run[w])'
      BY <2>1, <2>2, <3>1 DEF Writing, Changed
    <3>4. InTurn(run[w])'
      BY <2>1, <3>1 DEF InTurn
    <3>5. QED
      BY <3>2, <3>3, <3>4
  <2>5. CASE w = u
    <3>1. \A d \in v.done : d \in v.batch /\ d \notin v.left
      BY <1>2, <2>1 DEF Holding
    <3>2. e \in v.done => deliveries'[Key(e)] > 0
      BY <1>2, <1>3
    <3>3. \A d \in v.done : deliveries'[Key(d)] > 0
      BY <2>3, <2>5, <3>2
    <3>4. \A d \in v.batch : d \in v.left \/ d \in attempted'
      BY <2>1 DEF Holding
    <3>5. Holding(v)'
      BY <2>1, <3>1, <3>3, <3>4 DEF Holding, Key, Outbox
    <3>6. Writing(u, v)'
      BY DEF Writing
    <3>8. InTurn(v)'
      BY <2>1 DEF InTurn
    <3>7. QED
      BY <1>1, <2>5, <3>5, <3>6, <3>8 DEF Holding, InTurn, Writing
  <2>6. QED
    BY <2>4, <2>5
<1>7. Apart'
  BY <1>1 DEF IInv, Apart
<1>8. Counts'
  <2>1. OneMessagePerEvent'
    <3>1. \A k \in Keys : deliveries[k] <= 1 + faults
      BY DEF IInv, Counts, OneMessagePerEvent, Typed
    <3>2. ASSUME NEW k \in Keys PROVE deliveries'[k] <= 1 + faults'
      BY <1>2, <1>3, <3>1
    <3>3. QED
      BY <3>2 DEF OneMessagePerEvent
  <2>2. SentWasDelivered'
    <3> SUFFICES ASSUME NEW x \in sent PROVE deliveries'[Key(x)] > 0
      BY DEF SentWasDelivered, Key
    <3>1. x \in Events /\ deliveries[Key(x)] > 0
      BY DEF IInv, Typed, TypeOK, Counts, SentWasDelivered
    <3>2. QED
      BY <1>3, <3>1, EventFields
  <2>3. ASSUME NEW x \in pending, \A w \in Users : x \notin run'[w].done
        PROVE  deliveries'[Key(x)] <= faults'
    <3>1. CASE x = e
      BY <1>1, <1>2, <1>3, <2>3, <3>1
    <3>2. CASE x # e
      <4>1. x \in Events /\ Key(x) \in Keys /\ Key(x) # Key(e)
        BY <1>2, <3>2, EventFields DEF IInv, Typed, TypeOK, Distinct, Outbox
      <4>2. \A w \in Users : x \notin run[w].done
        BY <1>1, <2>3
      <4>3. deliveries[Key(x)] <= faults
        BY <4>2 DEF IInv, Counts
      <4>4. QED
        BY <1>3, <4>1, <4>3
    <3>3. QED
      BY <3>1, <3>2
  <2>4. ASSUME NEW k \in Keys, \A x \in Outbox : Key(x) # k PROVE deliveries'[k] = 0
    <3>1. k # Key(e)
      BY <1>2, <2>4 DEF Outbox
    <3>2. QED
      BY <2>4, <3>1 DEF IInv, Counts
  <2>5. QED
    BY <2>1, <2>2, <2>3, <2>4 DEF Counts, Key, Outbox
<1>9. Tried'
  <2>1. attempted' \subseteq Outbox' /\ passed' \subseteq Outbox'
    BY <1>2 DEF IInv, Tried, Outbox
  <2>2. ASSUME NEW a \in attempted', NEW d \in pending, FavouriteOf(d) = FavouriteOf(a), d.seq < a.seq
        PROVE  d \in attempted' \cup passed'
    <3>1. CASE a \in attempted
      BY <2>2, <3>1 DEF IInv, Tried, NewsInOrder
    <3>2. CASE a = e
      <4>1. d \in run[u].batch \cup attempted \cup passed
        <5>1. run[u].todo = {} /\ InTurn(run[u])
          BY DEF IInv, Runs, Holding
        <5>2. QED
          BY <1>2, <2>2, <3>2, <5>1 DEF InTurn
      <4>2. d.seq \in Int /\ e.seq \in Int /\ d \in Events
        BY <1>2, EventFields DEF IInv, Typed, TypeOK
      <4>3. d \notin run[u].left
        BY <2>2, <3>2, <4>2 DEF First
      <4>4. d # e
        BY <2>2, <3>2, <4>2
      <4>5. d \in run[u].batch => d \in attempted
        BY <4>3 DEF IInv, Runs, Holding
      <4>6. QED
        BY <4>1, <4>4, <4>5
    <3>3. QED
      BY <3>1, <3>2
  <2>3. QED
    BY <2>1, <2>2 DEF Tried, NewsInOrder, FavouriteOf
<1>10. QED
  BY <1>4, <1>5, <1>6, <1>7, <1>8, <1>9 DEF IInv

LEMMA DeliverStep ==
  ASSUME IInv, NEW u \in Users, Deliver(u)
  PROVE  IInv'
<1>1. PICK e \in run[u].left :
        /\ First(run[u].left, e)
        /\ attempted' = attempted \cup {e} /\ passed' = passed \ {e}
        /\ \/ /\ deliveries' = [deliveries EXCEPT ![Key(e)] = @ + 1]
              /\ Becomes(u, [run[u] EXCEPT !.left = @ \ {e}, !.done = @ \cup {e}])
              /\ UNCHANGED <<faults, failures>>
           \/ /\ failures < MaxFailures /\ failures' = failures + 1
              /\ Becomes(u, [run[u] EXCEPT !.left = @ \ {e}])
              /\ UNCHANGED <<deliveries, faults>>
           \/ /\ faults < MaxFaults /\ faults' = faults + 1
              /\ deliveries' = [deliveries EXCEPT ![Key(e)] = @ + 1]
              /\ Becomes(u, [run[u] EXCEPT !.left = @ \ {e}])
              /\ UNCHANGED failures
  BY DEF Deliver
<1>2. /\ run[u].pc = "dispatch" /\ UNCHANGED <<saved, seen, sequence, outbox, shown>>
  BY DEF Deliver, At
<1>3. run[u] \in Run /\ e \in Events /\ Key(e) \in Keys /\ e \notin run[u].done
  BY HeldEvent, RunTyped DEF IInv
<1> DEFINE left == run[u].left \ {e}
           done == run[u].done \cup {e}
           ok == [run[u] EXCEPT !.left = left, !.done = done]
           kept == [run[u] EXCEPT !.left = left]
<1>4. /\ ok.todo = run[u].todo /\ ok.held = run[u].held
      /\ kept.todo = run[u].todo /\ kept.held = run[u].held
      /\ ok \in Run /\ ok.pc = run[u].pc /\ ok.batch = run[u].batch /\ ok.left = left /\ ok.done = done
      /\ kept \in Run /\ kept.pc = run[u].pc /\ kept.batch = run[u].batch /\ kept.left = left
      /\ kept.done = run[u].done
  BY <1>3 DEF Run
<1>5. deliveries \in [Keys -> Nat]
  BY DEF IInv, Typed
<1>6. faults \in Nat /\ failures \in Nat /\ faults \in 0..MaxFaults /\ failures \in 0..MaxFailures
  BY FaultsTyped, Bounds
<1>7. deliveries[Key(e)] \in Nat
  BY <1>3, <1>5
<1>8. ASSUME deliveries' = [deliveries EXCEPT ![Key(e)] = @ + 1]
      PROVE  /\ deliveries' \in [Keys -> Nat] /\ deliveries'[Key(e)] = deliveries[Key(e)] + 1
             /\ \A k \in Keys : k # Key(e) => deliveries'[k] = deliveries[k]
  <2> DEFINE n == deliveries[Key(e)] + 1
  <2>1. n \in Nat
    BY <1>7
  <2>2. deliveries' = [deliveries EXCEPT ![Key(e)] = n]
    BY <1>8
  <2> HIDE DEF n
  <2>3. /\ deliveries' \in [Keys -> Nat] /\ deliveries'[Key(e)] = n
        /\ \A k \in Keys : k # Key(e) => deliveries'[k] = deliveries[k]
    BY <1>3, <1>5, <2>1, <2>2
  <2>4. QED
    BY <2>3 DEF n
<1>9. CASE /\ deliveries' = [deliveries EXCEPT ![Key(e)] = @ + 1] /\ Becomes(u, ok)
           /\ UNCHANGED <<faults, failures>>
  <2>1. e \in ok.done /\ faults <= faults' /\ faults' \in 0..MaxFaults /\ failures' \in 0..MaxFailures
    BY <1>4, <1>6, <1>9
  <2>2. /\ deliveries' \in [Keys -> Nat] /\ deliveries'[Key(e)] = deliveries[Key(e)] + 1
        /\ \A k \in Keys : k # Key(e) => deliveries'[k] = deliveries[k]
    BY <1>8, <1>9
  <2>3. Becomes(u, ok)
    BY <1>9
  <2> HIDE DEF ok, kept
  <2>4. QED
    BY <1>1, <1>2, <1>4, <2>1, <2>2, <2>3, CallStep
<1>10. CASE /\ failures < MaxFailures /\ failures' = failures + 1 /\ Becomes(u, kept)
            /\ UNCHANGED <<deliveries, faults>>
  <2>1. e \notin kept.done /\ faults <= faults' /\ failures' \in 0..MaxFailures
    BY <1>3, <1>4, <1>6, <1>10, Bounds
  <2>2. QED
    BY <1>1, <1>2, <1>4, <1>5, <1>6, <1>10, <2>1, CallStep
<1>11. CASE /\ faults < MaxFaults /\ faults' = faults + 1
            /\ deliveries' = [deliveries EXCEPT ![Key(e)] = @ + 1] /\ Becomes(u, kept)
            /\ UNCHANGED failures
  <2>1. faults <= faults' /\ faults' = faults + 1 /\ faults' \in 0..MaxFaults /\ failures' \in 0..MaxFailures
    BY <1>6, <1>11, Bounds
  <2>2. /\ deliveries' \in [Keys -> Nat] /\ deliveries'[Key(e)] = deliveries[Key(e)] + 1
        /\ \A k \in Keys : k # Key(e) => deliveries'[k] = deliveries[k]
    BY <1>8, <1>11
  <2>3. Becomes(u, kept)
    BY <1>11
  <2> HIDE DEF ok, kept
  <2>4. QED
    BY <1>1, <1>2, <1>4, <2>1, <2>2, <2>3, CallStep
<1>12. QED
  BY <1>1, <1>9, <1>10, <1>11

LEMMA CommitDispatchStep ==
  ASSUME IInv, NEW u \in Users, CommitDispatch(u)
  PROVE  IInv'
<1> USE DEF outbox, history, Delivered
<1>1. /\ run[u].pc = "dispatch" /\ run[u].left = {}
      /\ pending' = pending \ run[u].done /\ sent' = sent \cup run[u].done
      /\ Becomes(u, Idle)
      /\ UNCHANGED <<saved, seen, sequence, shown, history, faults, failures>>
  BY DEF CommitDispatch, At
<1>2. /\ run' \in [Users -> Run] /\ run'[u] = Idle
      /\ \A w \in Users : w # u => run'[w] = run[w]
  BY <1>1, IdleTyped, NewRunTyped DEF IInv
<1>3. /\ run[u].done \subseteq pending /\ run[u].done \subseteq run[u].batch
      /\ run[u].done \subseteq run[u].held /\ Typed
  BY DEF IInv, Runs, Holding
<1>4. Outbox' = Outbox /\ \A f : Mine(f)' = Mine(f)
  BY <1>1, <1>3 DEF Outbox, Mine
<1>5. Typed'
  BY <1>1, <1>2, <1>3 DEF Typed, TypeOK, Keys
<1>6. Kept' /\ Distinct'
  BY <1>1, <1>3, <1>4 DEF IInv, Kept, Distinct
<1>7. Numbered'
  <2>1. \A f \in Favourites : (IsFiniteSet(Mine(f)) /\ Story(f))'
    BY <1>1, <1>4, Stories DEF IInv, Numbered, Story
  <2>2. (\A f \in Favourites : Story(f))' => OutboxMatchesStates'
    BY DEF OutboxMatchesStates, Story, Mine
  <2>3. QED
    BY <2>1, <2>2 DEF Numbered
<1>8. Runs'
  <2> SUFFICES ASSUME NEW w \in Users PROVE (Holding(run[w]) /\ InTurn(run[w]) /\ Writing(w, run[w]))'
    BY DEF Runs
  <2>1. CASE w = u
    BY <1>2, <2>1, IdleHolds DEF Holding, InTurn, Writing, Idle
  <2>2. CASE w # u
    <3>1. Holding(run[w]) /\ InTurn(run[w]) /\ Writing(w, run[w]) /\ run'[w] = run[w]
      BY <1>2, <2>2 DEF IInv, Runs
    <3>2. \A e \in run[w].batch : e \notin run[u].done
      BY <1>3, <2>2, <3>1 DEF IInv, Apart, Holding
    <3>3. Holding(run[w])'
      BY <1>1, <1>4, <3>1, <3>2 DEF Holding
    <3>4. InTurn(run[w])'
      BY <1>1, <3>1 DEF InTurn
    <3>5. Writing(w, run[w])'
      BY <1>1, <3>1 DEF Writing, Changed
    <3>6. QED
      BY <3>3, <3>4, <3>5
  <2>3. QED
    BY <2>1, <2>2
<1>9. Apart'
  BY <1>2, IdleHolds DEF IInv, Apart
<1>10. Counts'
  <2>1. OneMessagePerEvent'
    BY <1>1 DEF IInv, Counts, OneMessagePerEvent
  <2>2. SentWasDelivered'
    <3>1. \A e \in run[u].done : deliveries[Key(e)] > 0
      BY DEF IInv, Runs, Holding
    <3>2. QED
      BY <1>1, <3>1 DEF IInv, Counts, SentWasDelivered
  <2>3. ASSUME NEW x \in pending', \A w \in Users : x \notin run'[w].done
        PROVE  deliveries'[Key(x)] <= faults'
    <3>1. x \in pending /\ \A w \in Users : x \notin run[w].done
      BY <1>1, <1>2, <2>3
    <3>2. QED
      BY <1>1, <3>1 DEF IInv, Counts
  <2>4. \A k \in Keys : (\A e \in Outbox' : Key(e) # k) => deliveries'[k] = 0
    BY <1>1, <1>4 DEF IInv, Counts
  <2>5. QED
    BY <2>1, <2>2, <2>3, <2>4 DEF Counts, Key
<1>11. Tried'
  BY <1>1, <1>4 DEF IInv, Tried, NewsInOrder
<1>12. QED
  BY <1>5, <1>6, <1>7, <1>8, <1>9, <1>10, <1>11 DEF IInv

(***************************************************************************)
(* The commit of a snapshot.                                               *)
(***************************************************************************)

LEMMA MovedFacts ==
  ASSUME IInv, NEW u \in Users, run[u].pc = "applied", NEW l \in Moved(u)
  PROVE  /\ l \in Listings /\ l \in run[u].read /\ <<u, l>> \in Favourites /\ <<u, l>> \in saved
         /\ seen[<<u, l>>] # "none" /\ seen[<<u, l>>] # Availability(l, run[u].list)
         /\ sequence[<<u, l>>] < MaxEvents /\ sequence[<<u, l>>] \in Nat
         /\ NewEvent(u, l) \in Events
         /\ FavouriteOf(NewEvent(u, l)) = <<u, l>> /\ NewEvent(u, l).user = u
         /\ NewEvent(u, l).seq = sequence[<<u, l>>] + 1
<1>1. run[u].list \in SUBSET Listings /\ run[u].read \in SUBSET Listings /\ Typed
  BY RunTyped, RunFields DEF IInv
<1>2. /\ l \in Listings /\ l \in run[u].read /\ <<u, l>> \in Favourites
      /\ seen[<<u, l>>] # "none" /\ seen[<<u, l>>] # Availability(l, run[u].list)
  BY <1>1, MovedTyped DEF Moved
<1>3. sequence[<<u, l>>] < MaxEvents /\ <<u, l>> \in saved
  BY <1>2 DEF IInv, Runs, Writing, Moved
<1>4. sequence[<<u, l>>] \in Nat
  BY <1>1, <1>2 DEF Typed, TypeOK
<1>5. NewEvent(u, l) \in Events
  BY <1>1, <1>2, <1>3, NewEventTyped
<1>6. /\ FavouriteOf(NewEvent(u, l)) = <<u, l>> /\ NewEvent(u, l).user = u
      /\ NewEvent(u, l).seq = sequence[<<u, l>>] + 1
  BY DEF NewEvent, FavouriteOf
<1>7. QED
  BY <1>2, <1>3, <1>4, <1>5, <1>6

(* No event of a favourite has a number above that of its state.           *)
LEMMA NumbersBelow ==
  ASSUME IInv, NEW e \in Outbox
  PROVE  e \in Events /\ e.seq \in 1..sequence[FavouriteOf(e)]
<1>1. e \in Events
  BY DEF IInv, Typed, TypeOK, Outbox
<1>2. e \in Mine(FavouriteOf(e)) /\ FavouriteOf(e) \in Favourites
  BY <1>1, EventFields DEF Mine, Outbox
<1>3. QED
  BY <1>1, <1>2, Stories DEF IInv, Numbered, Story

LEMMA NewIsNew ==
  ASSUME IInv, NEW u \in Users, run[u].pc = "applied", NEW l \in Moved(u), NEW e \in Outbox
  PROVE  /\ Key(e) # Key(NewEvent(u, l)) /\ e # NewEvent(u, l)
         /\ FavouriteOf(e) = <<u, l>> => e.seq <= sequence[<<u, l>>]
<1>1. e.seq \in 1..sequence[FavouriteOf(e)]
  BY NumbersBelow
<1>2. /\ FavouriteOf(NewEvent(u, l)) = <<u, l>> /\ sequence[<<u, l>>] \in Nat
      /\ NewEvent(u, l).seq = sequence[<<u, l>>] + 1
  BY MovedFacts
<1>3. FavouriteOf(e) = <<u, l>> => e.seq <= sequence[<<u, l>>] /\ e.seq # NewEvent(u, l).seq
  BY <1>1, <1>2
<1>4. Key(e) = Key(NewEvent(u, l)) => FavouriteOf(e) = <<u, l>> /\ e.seq = NewEvent(u, l).seq
  BY <1>2 DEF Key, FavouriteOf
<1>5. QED
  BY <1>3, <1>4

LEMMA CommittedState ==
  ASSUME IInv, NEW u \in Users, CommitSnapshot(u), NEW f \in Favourites
  PROVE  /\ f[1] = u /\ f[2] \in run[u].read => seen'[f] = Availability(f[2], run[u].list)
         /\ ~(f[1] = u /\ f[2] \in run[u].read) => seen'[f] = seen[f]
         /\ f[1] = u /\ f[2] \in Moved(u) => sequence'[f] = sequence[f] + 1
         /\ ~(f[1] = u /\ f[2] \in Moved(u)) => sequence'[f] = sequence[f]
<1>1. /\ seen' = [g \in Favourites |-> IF g[1] = u /\ g[2] \in run[u].read
                                       THEN Availability(g[2], run[u].list) ELSE seen[g]]
      /\ sequence' = [g \in Favourites |-> IF g[1] = u /\ g[2] \in Moved(u)
                                           THEN sequence[g] + 1 ELSE sequence[g]]
  BY DEF CommitSnapshot, Moved
<1>2. QED
  BY <1>1

LEMMA MineAfterCommit ==
  ASSUME IInv, NEW u \in Users, run[u].pc = "applied",
         pending' = pending \cup Recorded(u), sent' = sent, NEW f \in Favourites
  PROVE  /\ f[1] = u /\ f[2] \in Moved(u) =>
              Mine(f)' = Mine(f) \cup {NewEvent(u, f[2])} /\ NewEvent(u, f[2]) \notin Mine(f)
         /\ ~(f[1] = u /\ f[2] \in Moved(u)) => Mine(f)' = Mine(f)
<1>1. Outbox' = Outbox \cup {NewEvent(u, l) : l \in Moved(u)}
  BY RecordedEvents DEF Outbox
<1>2. \A l \in Moved(u) : FavouriteOf(NewEvent(u, l)) = <<u, l>>
  BY MovedFacts
<1>3. f = <<f[1], f[2]>>
  BY PairOf
<1>4. Mine(f)' = Mine(f) \cup {NewEvent(u, l) : l \in {m \in Moved(u) : <<u, m>> = f}}
  BY <1>1, <1>2 DEF Mine, Outbox
<1>5. CASE f[1] = u /\ f[2] \in Moved(u)
  <2>1. {m \in Moved(u) : <<u, m>> = f} = {f[2]}
    BY <1>3, <1>5
  <2>2. NewEvent(u, f[2]) \notin Outbox
    BY <1>5, NewIsNew
  <2>3. QED
    BY <1>4, <1>5, <2>1, <2>2 DEF Mine, Outbox
<1>6. CASE ~(f[1] = u /\ f[2] \in Moved(u))
  <2>1. {m \in Moved(u) : <<u, m>> = f} = {}
    BY <1>3, <1>6
  <2>2. QED
    BY <1>4, <1>6, <2>1
<1>7. QED
  BY <1>5, <1>6

LEMMA StoryContinues ==
  ASSUME IInv, NEW u \in Users, CommitSnapshot(u), run[u].pc = "applied", NEW f \in Favourites
  PROVE  (IsFiniteSet(Mine(f)) /\ Story(f))'
<1>1. IsFiniteSet(Mine(f)) /\ Story(f) /\ Typed
  BY Stories DEF IInv, Numbered
<1>2. pending' = pending \cup Recorded(u) /\ sent' = sent
  BY DEF CommitSnapshot
<1>3. sequence[f] \in Nat /\ seen[f] \in {"none", "in", "out"} /\ f[1] \in Users /\ f[2] \in Listings
  BY <1>1, PairOf DEF Typed, TypeOK
<1>4. f = <<f[1], f[2]>>
  BY PairOf
<1>5. \A e \in Mine(f) : e.seq \in Int /\ e.transition \in {"appeared", "disappeared"}
  BY EventFields DEF Mine, IInv, Typed, TypeOK
<1>6. CASE f[1] = u /\ f[2] \in Moved(u)
  <2> DEFINE n == NewEvent(u, f[2])
  <2>1. /\ Mine(f)' = Mine(f) \cup {n} /\ n \notin Mine(f)
        /\ sequence'[f] = sequence[f] + 1 /\ n.seq = sequence[f] + 1
        /\ seen[f] # "none" /\ seen[f] # Availability(f[2], run[u].list)
        /\ seen'[f] = Availability(f[2], run[u].list)
    BY <1>2, <1>4, <1>6, MineAfterCommit, MovedFacts, CommittedState
  <2>2. n.transition = IF f[2] \in run[u].list THEN "appeared" ELSE "disappeared"
    BY DEF NewEvent
  <2> HIDE DEF n
  <2>3. IsFiniteSet(Mine(f)') /\ Cardinality(Mine(f)') = sequence'[f]
    BY <1>1, <2>1, FS_AddElement DEF Story
  <2>4. \A e \in Mine(f)' : e.seq \in 1..sequence'[f]
    BY <1>1, <1>3, <2>1 DEF Story
  <2>5. \A e \in Mine(f)' : e.seq = sequence'[f] => (e.transition = "appeared") = (seen'[f] = "in")
    <3>1. \A e \in Mine(f) : e.seq # sequence'[f]
      BY <1>1, <1>3, <2>1 DEF Story
    <3>2. (n.transition = "appeared") = (seen'[f] = "in")
      BY <2>1, <2>2 DEF Availability
    <3>3. QED
      BY <2>1, <3>1, <3>2
  <2>6. ASSUME NEW d \in Mine(f)', NEW e \in Mine(f)', e.seq = d.seq + 1
        PROVE  e.transition # d.transition
    <3>1. CASE d \in Mine(f) /\ e \in Mine(f)
      BY <1>1, <2>6, <3>1 DEF Story
    <3>2. CASE d = n
      BY <1>3, <2>1, <2>4, <2>6, <3>2
    <3>3. CASE d \in Mine(f) /\ e = n
      <4>1. d.seq = sequence[f]
        BY <1>3, <1>5, <2>1, <2>6, <3>3
      <4>2. (d.transition = "appeared") = (seen[f] = "in")
        BY <1>1, <3>3, <4>1 DEF Story
      <4>3. (n.transition = "appeared") # (seen[f] = "in")
        BY <1>3, <2>1, <2>2 DEF Availability
      <4>4. QED
        BY <3>3, <4>2, <4>3
    <3>4. QED
      BY <2>1, <3>1, <3>2, <3>3
  <2>7. QED
    BY <2>3, <2>4, <2>5, <2>6 DEF Story
<1>7. CASE ~(f[1] = u /\ f[2] \in Moved(u))
  <2>1. Mine(f)' = Mine(f) /\ sequence'[f] = sequence[f]
    BY <1>2, <1>7, MineAfterCommit, CommittedState
  <2>2. CASE seen'[f] = seen[f]
    BY <1>1, <2>1, <2>2 DEF Story
  <2>3. CASE seen'[f] # seen[f]
    <3>1. f[1] = u /\ f[2] \in run[u].read /\ seen'[f] = Availability(f[2], run[u].list)
      BY <2>3, CommittedState
    <3>2. seen[f] = "none"
      BY <1>4, <1>7, <2>3, <3>1 DEF Moved, Changed
    <3>3. sequence[f] = 0
      BY <3>2 DEF IInv, Kept
    <3>4. Mine(f) = {}
      BY <1>1, <3>3 DEF Story
    <3>5. QED
      BY <1>1, <2>1, <3>4 DEF Story
  <2>4. QED
    BY <2>2, <2>3
<1>8. QED
  BY <1>6, <1>7

LEMMA CommitSnapshotStep ==
  ASSUME IInv, NEW u \in Users, CommitSnapshot(u)
  PROVE  IInv'
<1> USE DEF outbox, history
<1>1. /\ run[u].pc = "applied" /\ Typed
      /\ pending' = pending \cup Recorded(u) /\ sent' = sent
      /\ shown' = [shown EXCEPT ![u] = run[u].list]
      /\ UNCHANGED <<saved, attempted, passed, deliveries, faults, failures>>
  BY DEF CommitSnapshot, At, IInv
<1>2. PICK v \in Run :
        /\ Becomes(u, v) /\ v.pc \in {"idle", "committed"} /\ v.todo = {} /\ v.held = {}
        /\ v.batch = {} /\ v.left = {} /\ v.done = {}
  <2>1. [Idle EXCEPT !.pc = "committed"] \in Run
    BY DEF Idle, Run
  <2>2. \A v \in {Idle, [Idle EXCEPT !.pc = "committed"]} :
          /\ v.pc \in {"idle", "committed"} /\ v.todo = {} /\ v.held = {}
          /\ v.batch = {} /\ v.left = {} /\ v.done = {}
    BY DEF Idle
  <2>3. Becomes(u, Idle) \/ Becomes(u, [Idle EXCEPT !.pc = "committed"])
    BY DEF CommitSnapshot
  <2>4. QED
    BY <2>1, <2>2, <2>3, IdleTyped
<1>3. /\ run' \in [Users -> Run] /\ run'[u] = v
      /\ \A w \in Users : w # u => run'[w] = run[w]
  BY <1>1, <1>2, NewRunTyped
<1>4. run[u].batch = {} /\ run[u].left = {} /\ run[u].done = {}
  BY <1>1, NothingHeld
<1>M. \A l \in Moved(u) : NewEvent(u, l) \in Events /\ FavouriteOf(NewEvent(u, l)) \in saved
  BY <1>1, MovedFacts
<1>N. \A l \in Moved(u) : \A x \in Outbox : Key(x) # Key(NewEvent(u, l)) /\ x # NewEvent(u, l)
  BY <1>1, NewIsNew
<1>5. /\ \A x \in Outbox' : x \in Outbox \/ \E l \in Moved(u) : x = NewEvent(u, l)
      /\ \A x \in pending' : x \in pending \/ \E l \in Moved(u) : x = NewEvent(u, l)
      /\ \A x \in Outbox : x \in Outbox'
      /\ \A l \in Moved(u) : NewEvent(u, l) \in Outbox'
  BY <1>1, RecordedEvents DEF Outbox
<1>6. Typed'
  <2>1. pending' \in SUBSET Events
    BY <1>1, <1>5, <1>M DEF Typed, TypeOK
  <2>2. seen' \in [Favourites -> {"none", "in", "out"}]
    <3>1. seen' = [f \in Favourites |-> IF f[1] = u /\ f[2] \in run[u].read
                                        THEN Availability(f[2], run[u].list) ELSE seen[f]]
      BY DEF CommitSnapshot
    <3>2. \A f \in Favourites : Availability(f[2], run[u].list) \in {"none", "in", "out"}
      BY DEF Availability
    <3>3. \A f \in Favourites : seen[f] \in {"none", "in", "out"}
      BY <1>1 DEF Typed, TypeOK
    <3>4. QED
      BY <3>1, <3>2, <3>3
  <2>3. sequence' \in [Favourites -> 0..MaxEvents]
    <3>1. sequence' = [f \in Favourites |-> IF f[1] = u /\ f[2] \in Moved(u)
                                            THEN sequence[f] + 1 ELSE sequence[f]]
      BY DEF CommitSnapshot, Moved
    <3>2. \A f \in Favourites : sequence'[f] \in 0..MaxEvents
      <4> SUFFICES ASSUME NEW f \in Favourites PROVE sequence'[f] \in 0..MaxEvents
        OBVIOUS
      <4>1. sequence[f] \in 0..MaxEvents /\ f = <<f[1], f[2]>>
        BY <1>1, PairOf DEF Typed, TypeOK
      <4>2. f[1] = u /\ f[2] \in Moved(u) => sequence[f] < MaxEvents
        BY <1>1, <4>1, MovedFacts
      <4>3. QED
        BY <4>1, <4>2, CommittedState, Bounds
    <3>3. QED
      BY <3>1, <3>2
  <2>4. shown' \in [Users -> (SUBSET Listings) \cup {NoList}]
    BY <1>1, RunTyped, RunFields DEF Typed, TypeOK
  <2>5. QED
    BY <1>1, <1>3, <2>1, <2>2, <2>3, <2>4 DEF Typed, TypeOK
<1>7. Kept'
  <2>1. ASSUME NEW f \in Favourites, f \notin saved PROVE seen'[f] = "none"
    <3>1. ~(f[1] = u /\ f[2] \in run[u].read)
      BY <1>1, <2>1, PairOf DEF IInv, Runs, Writing
    <3>2. QED
      BY <2>1, <3>1, CommittedState DEF IInv, Kept
  <2>2. ASSUME NEW f \in Favourites, seen'[f] = "none" PROVE sequence'[f] = 0
    <3>1. ~(f[1] = u /\ f[2] \in run[u].read) /\ seen[f] = "none"
      BY <2>2, CommittedState DEF Availability
    <3>2. ~(f[1] = u /\ f[2] \in Moved(u))
      BY <3>1 DEF Moved, Changed
    <3>3. QED
      BY <3>1, <3>2, CommittedState DEF IInv, Kept
  <2>3. \A x \in Outbox' : FavouriteOf(x) \in saved
    BY <1>1, <1>5, <1>M DEF IInv, Kept
  <2>4. QED
    BY <1>1, <2>1, <2>2, <2>3 DEF Kept
<1>8. Distinct'
  <2>1. ASSUME NEW d \in Outbox', NEW x \in Outbox', Key(d) = Key(x) PROVE d = x
    <3>1. CASE d \in Outbox /\ x \in Outbox
      BY <2>1, <3>1 DEF IInv, Distinct
    <3>2. CASE d \in Outbox /\ x \notin Outbox
      BY <1>5, <1>N, <2>1, <3>2
    <3>3. CASE d \notin Outbox /\ x \in Outbox
      BY <1>5, <1>N, <2>1, <3>3
    <3>4. CASE d \notin Outbox /\ x \notin Outbox
      <4>1. PICK l \in Moved(u), m \in Moved(u) : d = NewEvent(u, l) /\ x = NewEvent(u, m)
        BY <1>5, <3>4
      <4>2. l = m
        BY <2>1, <4>1 DEF Key, NewEvent
      <4>3. QED
        BY <4>1, <4>2
    <3>5. QED
      BY <3>1, <3>2, <3>3, <3>4
  <2>2. ASSUME NEW x \in pending' PROVE x \notin sent'
    <3>1. CASE x \in pending
      BY <1>1, <3>1 DEF IInv, Distinct
    <3>2. CASE x \notin pending
      <4>1. PICK l \in Moved(u) : x = NewEvent(u, l)
        BY <1>5, <3>2
      <4>2. x \notin Outbox
        BY <1>1, <4>1, NewIsNew
      <4>3. QED
        BY <1>1, <4>2 DEF Outbox
    <3>3. QED
      BY <3>1, <3>2
  <2>3. QED
    BY <2>1, <2>2 DEF Distinct, Key
<1>9. Numbered'
  <2>1. (\A f \in Favourites : Story(f))' => OutboxMatchesStates'
    BY DEF OutboxMatchesStates, Story, Mine
  <2>2. QED
    BY <1>1, <2>1, StoryContinues DEF Numbered
<1>10. Runs'
  <2> SUFFICES ASSUME NEW w \in Users PROVE (Holding(run[w]) /\ InTurn(run[w]) /\ Writing(w, run[w]))'
    BY DEF Runs
  <2>1. CASE w = u
    BY <1>2, <1>3, <2>1 DEF Holding, InTurn, Writing
  <2>2. CASE w # u
    <3>1. /\ Holding(run[w]) /\ InTurn(run[w]) /\ Writing(w, run[w])
          /\ run'[w] = run[w] /\ run[w] \in Run
      BY <1>1, <1>3, <2>2, RunTyped DEF IInv, Runs
    <3>2. ASSUME NEW x \in run[w].todo \cup run[w].batch, NEW d \in pending', d \notin pending
          PROVE  ~(FavouriteOf(d) = FavouriteOf(x) /\ d.seq < x.seq)
      <4>1. PICK l \in Moved(u) : d = NewEvent(u, l)
        BY <1>5, <3>2
      <4>2. x \in Outbox /\ x \in Events
        BY <3>1, NumbersBelow DEF Holding, Outbox
      <4>3. /\ FavouriteOf(d) = <<u, l>> /\ d.seq = sequence[<<u, l>>] + 1
            /\ sequence[<<u, l>>] \in Nat
        BY <1>1, <4>1, MovedFacts
      <4>4. FavouriteOf(x) = <<u, l>> => x.seq <= sequence[<<u, l>>]
        BY <1>1, <4>2, NewIsNew
      <4>5. x.seq \in Int
        BY <4>2, EventFields
      <4>6. QED
        BY <4>3, <4>4, <4>5
    <3>3. Holding(run[w])' /\ InTurn(run[w])'
      <4>1. Holding(run[w])'
        BY <1>1, <1>5, <3>1 DEF Holding, Key
      <4>2. InTurn(run[w])'
        BY <1>1, <3>1, <3>2 DEF InTurn, FavouriteOf
      <4>3. QED
        BY <4>1, <4>2
    <3>4. \A m \in run[w].read : <<w, m>> \in Favourites
      BY <3>1, RunFields DEF Favourites
    <3>5. \A m \in run[w].read :
            seen'[<<w, m>>] = seen[<<w, m>>] /\ sequence'[<<w, m>>] = sequence[<<w, m>>]
      BY <2>2, <3>4, CommittedState
    <3>6. Changed(w, run[w].list, run[w].read)' = Changed(w, run[w].list, run[w].read)
      BY <3>1, <3>5 DEF Changed
    <3>7. Changed(w, run[w].list, run[w].read) \subseteq run[w].read
      BY DEF Changed
    <3>9. Writing(w, run[w])'
      BY <1>1, <3>1, <3>5, <3>6, <3>7 DEF Writing
    <3>10. QED
      BY <3>3, <3>9
  <2>3. QED
    BY <2>1, <2>2
<1>11. Apart'
  BY <1>2, <1>3 DEF IInv, Apart
<1>12. Counts'
  <2>1. OneMessagePerEvent' /\ SentWasDelivered'
    BY <1>1 DEF IInv, Counts, OneMessagePerEvent, SentWasDelivered, Key
  <2>2. ASSUME NEW x \in pending', \A w \in Users : x \notin run'[w].done
        PROVE  deliveries'[Key(x)] <= faults'
    <3>1. CASE x \in pending
      <4>1. \A w \in Users : x \notin run[w].done
        BY <1>3, <1>4, <2>2
      <4>2. QED
        BY <1>1, <3>1, <4>1 DEF IInv, Counts
    <3>2. CASE x \notin pending
      <4>1. PICK l \in Moved(u) : x = NewEvent(u, l)
        BY <1>5, <3>2
      <4>2. Key(x) \in Keys
        BY <1>1, <4>1, MovedFacts, EventFields
      <4>3. \A e \in Outbox : Key(e) # Key(x)
        BY <1>1, <4>1, NewIsNew
      <4>4. deliveries[Key(x)] = 0
        BY <4>2, <4>3 DEF IInv, Counts
      <4>5. QED
        BY <1>1, <4>4, Bounds DEF Typed, TypeOK
    <3>3. QED
      BY <3>1, <3>2
  <2>3. \A k \in Keys : (\A e \in Outbox' : Key(e) # k) => deliveries'[k] = 0
    BY <1>1, <1>5 DEF IInv, Counts
  <2>4. QED
    BY <2>1, <2>2, <2>3 DEF Counts, Key
<1>13. Tried'
  <2>1. attempted' \subseteq Outbox' /\ passed' \subseteq Outbox'
    BY <1>1, <1>5 DEF IInv, Tried
  <2>2. ASSUME NEW a \in attempted, NEW d \in pending', FavouriteOf(d) = FavouriteOf(a), d.seq < a.seq
        PROVE  d \in attempted \cup passed
    <3>1. CASE d \in pending
      BY <2>2, <3>1 DEF IInv, Tried, NewsInOrder
    <3>2. CASE d \notin pending
      <4>1. PICK l \in Moved(u) : d = NewEvent(u, l)
        BY <1>5, <3>2
      <4>2. a \in Outbox /\ a \in Events
        BY NumbersBelow DEF IInv, Tried
      <4>3. /\ FavouriteOf(d) = <<u, l>> /\ d.seq = sequence[<<u, l>>] + 1
            /\ sequence[<<u, l>>] \in Nat
        BY <1>1, <4>1, MovedFacts
      <4>4. a.seq <= sequence[<<u, l>>]
        BY <1>1, <2>2, <4>2, <4>3, NewIsNew
      <4>5. a.seq \in Int
        BY <4>2, EventFields
      <4>6. QED
        BY <2>2, <4>3, <4>4, <4>5
    <3>3. QED
      BY <3>1, <3>2
  <2>3. QED
    BY <1>1, <2>1, <2>2 DEF Tried, NewsInOrder, FavouriteOf
<1>14. QED
  BY <1>6, <1>7, <1>8, <1>9, <1>10, <1>11, <1>12, <1>13 DEF IInv

(***************************************************************************)
(* The invariant and the theorems.                                         *)
(***************************************************************************)

LEMMA InitInv == Init => IInv
<1> SUFFICES ASSUME Init PROVE IInv
  OBVIOUS
<1>1. /\ saved \in SUBSET Favourites /\ seen = [f \in Favourites |-> "none"]
      /\ sequence = [f \in Favourites |-> 0]
      /\ pending = {} /\ sent = {} /\ Outbox = {} /\ attempted = {} /\ passed = {}
      /\ shown = [u \in Users |-> NoList] /\ run = [u \in Users |-> Idle]
      /\ deliveries = [k \in Keys |-> 0] /\ faults = 0 /\ failures = 0
  BY DEF Init, Outbox, Keys
<1>2. Typed
  <2>0. run \in [Users -> Run]
    BY <1>1, IdleTyped
  <2>S. shown \in [Users -> (SUBSET Listings) \cup {NoList}]
    BY <1>1
  <2>D. deliveries \in [Keys -> Nat]
    BY <1>1
  <2>1. seen \in [Favourites -> {"none", "in", "out"}]
    BY <1>1
  <2>2. sequence \in [Favourites -> 0..MaxEvents] /\ faults \in 0..MaxFaults /\ failures \in 0..MaxFailures
    BY <1>1, Bounds
  <2>3. QED
    BY <1>1, <2>0, <2>S, <2>D, <2>1, <2>2 DEF Typed, TypeOK
<1>3. Kept /\ Distinct /\ Tried /\ Apart
  BY <1>1, IdleHolds DEF Kept, Distinct, Tried, NewsInOrder, Apart
<1>4. Numbered
  <2>1. \A f : Mine(f) = {}
    BY <1>1 DEF Mine
  <2>2. IsFiniteSet({}) /\ Cardinality({}) = 0
    BY FS_EmptySet
  <2>3. \A f \in Favourites : Story(f)
    BY <1>1, <2>1, <2>2 DEF Story
  <2>4. QED
    BY <2>1, <2>2, <2>3, Stories DEF Numbered
<1>5. Runs
  BY <1>1 DEF Runs, Holding, InTurn, Writing, Idle
<1>6. Counts
  BY <1>1 DEF Counts, OneMessagePerEvent, SentWasDelivered
<1>7. QED
  BY <1>2, <1>3, <1>4, <1>5, <1>6 DEF IInv

LEMMA StutterStep ==
  ASSUME IInv, UNCHANGED vars
  PROVE  IInv'
<1> USE DEF vars, outbox, history
<1>1. Typed' /\ Kept' /\ Distinct' /\ Tried'
  BY DEF IInv, Typed, TypeOK, Keys, Kept, Distinct, Outbox, Tried, NewsInOrder
<1>2. Numbered'
  BY DEF IInv, Numbered, OutboxMatchesStates, Mine
<1>3. Runs' /\ Apart'
  BY DEF IInv, Runs, Holding, InTurn, Writing, Changed, Apart, Outbox
<1>4. Counts'
  BY DEF IInv, Counts, OneMessagePerEvent, SentWasDelivered, Outbox
<1>5. QED
  BY <1>1, <1>2, <1>3, <1>4 DEF IInv

LEMMA StepInv == IInv /\ [Next]_vars => IInv'
<1> SUFFICES ASSUME IInv, [Next]_vars PROVE IInv'
  OBVIOUS
<1>1. CASE UNCHANGED vars
  BY <1>1, StutterStep
<1>2. ASSUME NEW u \in Users, Apply(u) \/ Advance(u) \/ Crash(u) PROVE IInv'
  BY <1>2, ApplyStep, CommitSnapshotStep, SelectStep, LockEventStep, FetchStep, DeliverStep, CommitDispatchStep, CrashStep
     DEF Advance
<1>3. ASSUME NEW u \in Users, NEW l \in Listings, AddFavourite(u, l) \/ RemoveFavourite(u, l)
      PROVE  IInv'
  BY <1>3, AddFavouriteStep, RemoveFavouriteStep
<1>4. QED
  BY <1>1, <1>2, <1>3 DEF Next

LEMMA Invariant == Spec => []IInv
BY InitInv, StepInv, PTL DEF Spec

(* Whatever the runs do, every variable keeps its type.                    *)
THEOREM TypeCorrect == Spec => []TypeOK
<1>1. IInv => TypeOK
  BY DEF IInv, Typed
<1>2. QED
  BY <1>1, Invariant, PTL

(* A change is told once, and once more at most for each crash or lost     *)
(* answer: a row is not selected while another run holds it, and what is   *)
(* sent is never selected again.                                           *)
THEOREM ToldOnce == Spec => []OneMessagePerEvent
<1>1. IInv => OneMessagePerEvent
  BY DEF IInv, Counts
<1>2. QED
  BY <1>1, Invariant, PTL

(* No change is lost: what the outbox calls sent has reached the user.     *)
THEOREM NothingLost == Spec => []SentWasDelivered
<1>1. IInv => SentWasDelivered
  BY DEF IInv, Counts
<1>2. QED
  BY <1>1, Invariant, PTL

(* The events of a favourite are numbered without gap, alternate and end in*)
(* the availability it has.                                                *)
THEOREM OutboxTellsStates == Spec => []OutboxMatchesStates
<1>1. IInv => OutboxMatchesStates
  BY DEF IInv, Numbered
<1>2. QED
  BY <1>1, Invariant, PTL

(* The news of one favourite are tried in the order of the changes, but for*)
(* those that a dispatch passed over.                                      *)
THEOREM NewsAreInOrder == Spec => []NewsInOrder
<1>1. IInv => NewsInOrder
  BY DEF IInv, Tried
<1>2. QED
  BY <1>1, Invariant, PTL

(* A delivery is of a row the dispatch holds, whose favourite therefore    *)
(* cannot have been removed.                                               *)
LEMMA OnlySavedTold ==
  ASSUME IInv, [Next]_vars
  PROVE  \A k \in DOMAIN deliveries : deliveries'[k] > deliveries[k] => <<k[1], k[2]>> \in saved'
<1>1. DOMAIN deliveries = Keys /\ \A k \in Keys : deliveries[k] \in Nat
  BY DEF IInv, Typed
<1>2. CASE deliveries' = deliveries
  BY <1>1, <1>2
<1>3. ASSUME NEW u \in Users, Deliver(u)
      PROVE  \A k \in Keys : deliveries'[k] > deliveries[k] => <<k[1], k[2]>> \in saved'
  <2>1. PICK e \in run[u].left :
          deliveries' = deliveries \/ deliveries' = [deliveries EXCEPT ![Key(e)] = @ + 1]
    BY <1>3 DEF Deliver
  <2>2. e \in pending /\ Key(e) \in Keys
    BY HeldEvent
  <2>3. FavouriteOf(e) \in saved
    BY <2>2 DEF IInv, Kept, Outbox
  <2>4. saved' = saved
    BY <1>3 DEF Deliver
  <2>5. ASSUME NEW k \in Keys, deliveries'[k] > deliveries[k] PROVE k = Key(e)
    BY <1>1, <2>1, <2>5
  <2>6. QED
    BY <2>3, <2>4, <2>5 DEF Key, FavouriteOf
<1>4. ASSUME NEW u \in Users, NEW l \in Listings, RemoveFavourite(u, l)
      PROVE  \A k \in Keys : ~(deliveries'[k] > deliveries[k])
  <2>1. \A k \in Keys : deliveries'[k] = deliveries[k] \/ deliveries'[k] = 0
    BY <1>1, <1>4 DEF RemoveFavourite
  <2>2. QED
    BY <1>1, <2>1
<1>5. ASSUME NEW u \in Users, \/ Apply(u) \/ CommitSnapshot(u) \/ Select(u) \/ LockEvent(u) \/ Fetch(u)
             \/ CommitDispatch(u) \/ Crash(u)
      PROVE  deliveries' = deliveries
  BY <1>5 DEF Apply, CommitSnapshot, Select, LockEvent, Fetch, CommitDispatch, Crash, history
<1>6. ASSUME NEW u \in Users, NEW l \in Listings, AddFavourite(u, l) PROVE deliveries' = deliveries
  BY <1>6 DEF AddFavourite, history
<1>7. UNCHANGED vars => deliveries' = deliveries
  BY DEF vars, history
<1>8. QED
  BY <1>1, <1>2, <1>3, <1>4, <1>5, <1>6, <1>7 DEF Next, Advance

(* The user hears nothing more of a favourite once its removal is done.    *)
THEOREM RemovedIsSilent == Spec => NoNewsOfRemoved
<1>1. IInv /\ [Next]_vars =>
        [\A k \in DOMAIN deliveries : deliveries'[k] > deliveries[k] => <<k[1], k[2]>> \in saved']_vars
  BY OnlySavedTold
<1>2. QED
  BY <1>1, Invariant, PTL DEF Spec, NoNewsOfRemoved
===============================================================================
