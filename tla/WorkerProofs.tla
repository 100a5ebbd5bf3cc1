------------------------------ MODULE WorkerProofs -----------------------------
(***************************************************************************)
(* Proofs about the worker, which runs two kinds of jobs.  For any         *)
(* searches, executions, intervals and bounds, SyncJobs: the queue's       *)
(* identifiers and the lease keep jobs from doubling, and the errors tell  *)
(* of failures, and active searches are checked in time.  For any users,   *)
(* jobs, hours and intervals, Deliveries: every message is accounted for,  *)
(* and jobs that meet users in one order do not wait in a circle.  That    *)
(* menus arrive, and runs end, stays with TLC.                             *)
(***************************************************************************)
EXTENDS SyncJobs, Deliveries, WellFoundedInduction, TLAPS

Selection == [search : Searches, slot : Nat]

(* As much of the types as the arguments need.                             *)
Types ==
  /\ now \in 0..MaxTime /\ now \in Nat /\ selected \subseteq Selection
  /\ premium \in [Searches -> BOOLEAN] /\ errors \in [Searches -> Nat]
  /\ run \in [Runs -> {Idle} \cup Running]
  /\ \A j \in jobs : j.search \in Searches /\ j.slot \in Nat /\ j.try \in Nat \ {0}
  /\ lease \in [Searches -> [by : Runs \cup {NoRun}, until : Int]]

(* OneJobPerSlot in parts.                                                 *)
SameSlot(a, b) == a.search = b.search /\ a.slot = b.slot
QueuedOnce == \A j, k \in jobs : SameSlot(j, k) => j = k
RunsOnce == \A r, q \in Busy : SameSlot(run[r], run[q]) => r = q
NotBoth == \A j \in jobs : \A r \in Busy : ~SameSlot(j, run[r])

(* The lease of a search lasts as long as its run, if runs are shorter.    *)
OnTime == \A r \in Busy : now <= run[r].began + RunTime
Leased == \A r \in Busy : lease[run[r].search].until = run[r].began + LeaseTime
Exclusive == RunTime < LeaseTime => Leased /\ RunsAlone

IInv == Types /\ QueuedOnce /\ RunsOnce /\ NotBoth /\ OnTime /\ Exclusive

LEMMA SameProperty == OneJobPerSlot <=> QueuedOnce /\ RunsOnce /\ NotBoth
BY DEF OneJobPerSlot, QueuedOnce, RunsOnce, NotBoth, SameSlot

LEMMA SlotTypes ==
  ASSUME NEW t \in Nat, NEW i \in Nat \ {0}
  PROVE  SlotNumber(t, i) \in Nat
<1> DEFINE x == Epoch + t
<1>1. x \in Nat
  BY SyncJobsAssumption
<1> HIDE DEF x
<1>2. x \div i \in Nat
  BY <1>1
<1> QED
  BY <1>2 DEF SlotNumber, x

LEMMA Intervals ==
  ASSUME Types, NEW s \in Searches
  PROVE  Slot(s) \in Nat /\ Interval(s) \in Nat \ {0}
<1>1. Interval(s) \in Nat \ {0}
  BY SyncJobsAssumption DEF Interval
<1> QED
  BY <1>1, SlotTypes DEF Slot, Types

LEMMA BusyRun ==
  ASSUME Types, NEW r \in Busy
  PROVE  /\ r \in Runs /\ run[r] \in Running /\ run[r].search \in Searches
         /\ run[r].slot \in Nat /\ run[r].try \in Nat \ {0} /\ run[r].began \in Nat /\ run[r].read \in Nat
BY DEF Types, Busy, Running, Idle

LEMMA IdleRun == Idle.pc = "idle" /\ \A v \in Running : v.pc # "idle"
BY DEF Idle, Running

LEMMA RunStep ==
  ASSUME Types, NEW r \in Runs, NEW v \in {Idle} \cup Running, run' = [run EXCEPT ![r] = v]
  PROVE  /\ run' \in [Runs -> {Idle} \cup Running] /\ run'[r] = v
         /\ \A q \in Runs \ {r} : run'[q] = run[q]
BY DEF Types

(***************************************************************************)
(* Steps.                                                                  *)
(***************************************************************************)

(* A run goes on for the same search and slot.                             *)
LEMMA ProgressStep ==
  ASSUME IInv, NEW r \in Busy, NEW v \in Running, run' = [run EXCEPT ![r] = v],
         v.search = run[r].search, v.slot = run[r].slot, v.began = run[r].began,
         UNCHANGED <<now, selected, premium, jobs, lease>>, errors' \in [Searches -> Nat]
  PROVE  IInv'
<1>1. r \in Runs /\ run[r].pc # "idle"
  BY DEF Busy
<1>2. /\ run' \in [Runs -> {Idle} \cup Running] /\ run'[r] = v
      /\ \A q \in Runs \ {r} : run'[q] = run[q]
  BY <1>1, RunStep DEF IInv
<1>3. Busy' = Busy
  BY <1>1, <1>2, IdleRun DEF Busy
<1>4. \A q \in Busy : /\ run'[q].search = run[q].search /\ run'[q].slot = run[q].slot
                      /\ run'[q].began = run[q].began
  BY <1>2 DEF Busy
<1>5. Types'
  BY <1>2 DEF IInv, Types
<1>6. QueuedOnce' /\ RunsOnce' /\ NotBoth'
  BY <1>3, <1>4 DEF IInv, QueuedOnce, RunsOnce, NotBoth, SameSlot
<1>7. OnTime' /\ Exclusive'
  BY <1>3, <1>4 DEF IInv, OnTime, Exclusive, Leased, RunsAlone
<1> QED
  BY <1>5, <1>6, <1>7 DEF IInv

LEMMA FetchStep ==
  ASSUME IInv, NEW r \in Runs, Fetch(r) \/ Fails(r)
  PROVE  IInv'
<1>1. run[r].pc # "idle"
  BY DEF Fetch, Fails
<1>2. r \in Busy /\ run[r] \in Running /\ now \in 0..MaxTime /\ errors \in [Searches -> Nat]
  BY <1>1, BusyRun DEF Busy, IInv, Types
<1>3. CASE Fetch(r)
  <2> DEFINE v == [[run[r] EXCEPT !.pc = "show"] EXCEPT !.checked = now]
  <2>1. /\ v \in Running /\ v.search = run[r].search /\ v.slot = run[r].slot /\ v.began = run[r].began
    BY <1>2 DEF Running
  <2>2. run' = [run EXCEPT ![r] = v]
    BY <1>2, <1>3 DEF Fetch, IInv, Types
  <2> HIDE DEF v
  <2> QED
    BY <1>2, <1>3, <2>1, <2>2, ProgressStep DEF Fetch, sv
<1>4. CASE Fails(r)
  <2> DEFINE v == [run[r] EXCEPT !.pc = "raised"]
  <2>1. /\ v \in Running /\ v.search = run[r].search /\ v.slot = run[r].slot /\ v.began = run[r].began
    BY <1>2 DEF Running
  <2>2. run' = [run EXCEPT ![r] = v]
    BY <1>4 DEF Fails
  <2> HIDE DEF v
  <2> QED
    BY <1>2, <1>4, <2>1, <2>2, ProgressStep DEF Fails, sv
<1> QED
  BY <1>3, <1>4

LEMMA ShownStep ==
  ASSUME IInv, NEW r \in Runs, Succeed(r) \/ DeliveryFails(r)
  PROVE  IInv'
<1>1. run[r].pc = "show"
  BY DEF Succeed, DeliveryFails
<1>2. r \in Busy /\ run[r] \in Running /\ run[r].read \in Nat /\ run[r].search \in Searches
  BY <1>1, BusyRun DEF Busy, IInv
<1>3. errors' \in [Searches -> Nat]
  <2>1. errors \in [Searches -> Nat]
    BY DEF IInv, Types
  <2>2. CASE Succeed(r)
    BY <2>1, <2>2 DEF Succeed, Cleared
  <2>3. CASE DeliveryFails(r)
    <3> DEFINE n == run[r].read + 1
    <3>1. n \in Nat /\ errors' = [errors EXCEPT ![run[r].search] = n]
      BY <1>2, <2>3 DEF DeliveryFails
    <3> HIDE DEF n
    <3> QED
      BY <2>1, <3>1
  <2> QED
    BY <2>2, <2>3
<1>4. PICK p \in {"rest", "counted"} : run' = [run EXCEPT ![r].pc = p]
  BY DEF Succeed, DeliveryFails
<1> DEFINE v == [run[r] EXCEPT !.pc = p]
<1>5. v \in Running /\ v.search = run[r].search /\ v.slot = run[r].slot /\ v.began = run[r].began
  BY <1>2 DEF Running
<1>6. run' = [run EXCEPT ![r] = v]
  BY <1>4
<1> HIDE DEF v
<1>7. UNCHANGED <<now, selected, premium, jobs, lease>>
  BY DEF Succeed, DeliveryFails
<1> QED
  BY <1>2, <1>3, <1>5, <1>6, <1>7, ProgressStep

(* A run ends: only its own search's lease may go.                         *)
LEMMA EndedStep ==
  ASSUME IInv, NEW r \in Busy, run' = [run EXCEPT ![r] = Idle], lease' = Released(r),
         UNCHANGED <<now, selected, premium>>, errors' \in [Searches -> Nat],
         \A j \in jobs' : j \in jobs \/ (SameSlot(j, run[r]) /\ j.try \in Nat \ {0}),
         \A j, k \in jobs' : j \notin jobs /\ k \notin jobs => j = k
  PROVE  IInv'
<1>1. /\ r \in Runs /\ run[r].search \in Searches /\ run[r].slot \in Nat
  BY BusyRun DEF IInv
<1>2. /\ run' \in [Runs -> {Idle} \cup Running] /\ run'[r] = Idle
      /\ \A q \in Runs \ {r} : run'[q] = run[q]
  BY <1>1, RunStep DEF IInv
<1>3. Busy' = Busy \ {r} /\ \A q \in Busy' : run'[q] = run[q]
  BY <1>2, IdleRun DEF Busy
<1>4. lease' \in [Searches -> [by : Runs \cup {NoRun}, until : Int]]
      /\ \A s \in Searches \ {run[r].search} : lease'[s] = lease[s]
  <2>1. lease \in [Searches -> [by : Runs \cup {NoRun}, until : Int]]
    BY DEF IInv, Types
  <2>2. [by |-> NoRun, until |-> 0] \in [by : Runs \cup {NoRun}, until : Int]
    OBVIOUS
  <2>3. lease' = lease \/ lease' = [lease EXCEPT ![run[r].search] = [by |-> NoRun, until |-> 0]]
    BY DEF Released
  <2> DEFINE none == [by |-> NoRun, until |-> 0]
  <2> HIDE DEF none
  <2>4. CASE lease' = lease
    BY <2>1, <2>4
  <2>5. CASE lease' = [lease EXCEPT ![run[r].search] = none]
    BY <2>1, <2>2, <2>5 DEF none
  <2> QED
    BY <2>3, <2>4, <2>5 DEF none
<1>5. Types'
  <2>1. \A j \in jobs' : j.search \in Searches /\ j.slot \in Nat /\ j.try \in Nat \ {0}
    BY <1>1 DEF IInv, Types, SameSlot
  <2> QED
    BY <1>2, <1>4, <2>1 DEF IInv, Types
<1>6. QueuedOnce'
  <2> SUFFICES ASSUME NEW j \in jobs', NEW k \in jobs', SameSlot(j, k) PROVE j = k
    BY DEF QueuedOnce, SameSlot
  <2>1. CASE j \in jobs /\ k \in jobs
    BY <2>1 DEF IInv, QueuedOnce
  <2>2. CASE j \notin jobs /\ k \notin jobs
    BY <2>2
  <2>3. CASE j \in jobs /\ k \notin jobs
    BY <2>3 DEF IInv, NotBoth, SameSlot
  <2>4. CASE j \notin jobs /\ k \in jobs
    BY <2>4 DEF IInv, NotBoth, SameSlot
  <2> QED
    BY <2>1, <2>2, <2>3, <2>4
<1>7. RunsOnce'
  BY <1>3 DEF IInv, RunsOnce, SameSlot
<1>8. NotBoth'
  <2> SUFFICES ASSUME NEW j \in jobs', NEW q \in Busy', SameSlot(j, run'[q]) PROVE FALSE
    BY DEF NotBoth, SameSlot
  <2>1. q \in Busy /\ q # r /\ SameSlot(j, run[q])
    BY <1>3
  <2>2. CASE j \in jobs
    BY <2>1, <2>2 DEF IInv, NotBoth
  <2>3. CASE j \notin jobs
    BY <2>1, <2>3 DEF IInv, RunsOnce, SameSlot
  <2> QED
    BY <2>2, <2>3
<1>9. OnTime'
  BY <1>3 DEF IInv, OnTime
<1>10. Exclusive'
  <2> SUFFICES ASSUME RunTime < LeaseTime PROVE Leased' /\ RunsAlone'
    BY DEF Exclusive
  <2>1. Leased /\ RunsAlone
    BY DEF IInv, Exclusive
  <2>2. RunsAlone'
    BY <1>3, <2>1 DEF RunsAlone
  <2>3. \A q \in Busy' : run[q].search # run[r].search /\ run[q].search \in Searches
    BY <1>3, <2>1, BusyRun DEF RunsAlone, IInv
  <2>4. Leased'
    BY <1>3, <1>4, <2>1, <2>3 DEF Leased
  <2> QED
    BY <2>2, <2>4
<1> QED
  BY <1>5, <1>6, <1>7, <1>8, <1>9, <1>10 DEF IInv

LEMMA FinishStep ==
  ASSUME IInv, NEW r \in Runs, Finish(r)
  PROVE  IInv'
<1>1. r \in Busy /\ errors \in [Searches -> Nat]
  BY DEF Finish, Busy, IInv, Types
<1>2. /\ run' = [run EXCEPT ![r] = Idle] /\ lease' = Released(r)
      /\ UNCHANGED <<now, selected, premium, errors, jobs>>
  BY DEF Finish, sv
<1>3. /\ \A j \in jobs' : j \in jobs \/ (SameSlot(j, run[r]) /\ j.try \in Nat \ {0})
      /\ \A j, k \in jobs' : j \notin jobs /\ k \notin jobs => j = k
      /\ errors' \in [Searches -> Nat]
  BY <1>1, <1>2
<1> QED
  BY <1>1, <1>2, <1>3, EndedStep

LEMMA RecordFailureStep ==
  ASSUME IInv, NEW r \in Runs, RecordFailure(r)
  PROVE  IInv'
<1>1. r \in Busy
  BY DEF RecordFailure, Busy
<1>2. run[r].search \in Searches /\ run[r].try \in Nat \ {0}
  BY <1>1, BusyRun DEF IInv
<1>3. errors' \in [Searches -> Nat]
  <2>1. errors \in [Searches -> Nat]
    BY DEF IInv, Types
  <2> DEFINE n == errors[run[r].search] + 1
  <2>2. n \in Nat /\ errors' = [errors EXCEPT ![run[r].search] = n]
    BY <1>2, <2>1 DEF RecordFailure
  <2> HIDE DEF n
  <2> QED
    BY <2>1, <2>2
<1> DEFINE at == now + Defer(run[r].try)
           next == [search |-> run[r].search, slot |-> run[r].slot, try |-> run[r].try + 1, at |-> at]
<1>4. jobs' = jobs \/ jobs' = jobs \cup {next}
  BY DEF RecordFailure, Retried
<1> HIDE DEF at
<1>5. SameSlot(next, run[r]) /\ next.try \in Nat \ {0}
  BY <1>2 DEF SameSlot
<1> HIDE DEF next
<1>6. run' = [run EXCEPT ![r] = Idle] /\ lease' = Released(r) /\ UNCHANGED <<now, selected, premium>>
  BY DEF RecordFailure
<1>7. \A j \in jobs' : j \in jobs \/ j = next
  BY <1>4
<1>8. \A j \in jobs' : j \in jobs \/ (SameSlot(j, run[r]) /\ j.try \in Nat \ {0})
  <2> TAKE j \in jobs'
  <2>1. CASE j = next
    BY <1>5, <2>1, Zenon
  <2> QED
    BY <1>7, <2>1
<1>9. \A j, k \in jobs' : j \notin jobs /\ k \notin jobs => j = k
  BY <1>7
<1> QED
  BY <1>1, <1>3, <1>6, <1>8, <1>9, EndedStep

(* The queue gives a job to a free worker, or drops it.                    *)
LEMMA SkipStep ==
  ASSUME IInv, NEW j \in jobs, SkipJob(j)
  PROVE  IInv'
<1>1. jobs' \subseteq jobs /\ UNCHANGED <<now, selected, premium, errors, run, lease>>
  BY DEF SkipJob, sv
<1>2. Types'
  BY <1>1 DEF IInv, Types
<1>3. Busy' = Busy
  BY <1>1 DEF Busy
<1>4. QueuedOnce' /\ RunsOnce' /\ NotBoth'
  BY <1>1, <1>3 DEF IInv, QueuedOnce, RunsOnce, NotBoth, SameSlot
<1>5. OnTime' /\ Exclusive'
  BY <1>1, <1>3 DEF IInv, OnTime, Exclusive, Leased, RunsAlone
<1> QED
  BY <1>2, <1>4, <1>5 DEF IInv

LEMMA StartStep ==
  ASSUME IInv, NEW j \in jobs, NEW r \in Runs, StartJob(j, r)
  PROVE  IInv'
<1> DEFINE s == j.search
           held == [by |-> r, until |-> now + LeaseTime]
           v == [pc |-> "fetch", search |-> s, slot |-> j.slot, try |-> j.try,
                 began |-> now, read |-> errors[s], checked |-> 0]
<1>1. s \in Searches /\ j.slot \in Nat /\ j.try \in Nat \ {0} /\ now \in Nat /\ now \in 0..MaxTime /\ errors[s] \in Nat
  BY DEF IInv, Types
<1>2. /\ v \in Running /\ v.search = s /\ v.slot = j.slot /\ v.began = now
  BY <1>1, SyncJobsAssumption DEF Running
<1>3. held \in [by : Runs \cup {NoRun}, until : Int] /\ held.until = now + LeaseTime
  BY <1>1, SyncJobsAssumption
<1>4. /\ run[r] = Idle /\ LeaseFree(s)
      /\ lease' = [lease EXCEPT ![s] = held] /\ run' = [run EXCEPT ![r] = v]
      /\ jobs' = jobs \ {j} /\ UNCHANGED <<now, selected, premium, errors>>
  BY DEF StartJob, sv
<1> HIDE DEF v, held
<1>5. /\ run' \in [Runs -> {Idle} \cup Running] /\ run'[r] = v
      /\ \A q \in Runs \ {r} : run'[q] = run[q]
  BY <1>2, <1>4, RunStep DEF IInv
<1>6. Busy' = Busy \cup {r} /\ r \notin Busy
  BY <1>2, <1>4, <1>5, IdleRun DEF Busy
<1>7. \A q \in Busy : q \in Runs /\ q # r /\ run'[q] = run[q]
  BY <1>5, <1>6 DEF Busy
<1>8. lease \in [Searches -> [by : Runs \cup {NoRun}, until : Int]]
  BY DEF IInv, Types
<1>9. /\ lease' \in [Searches -> [by : Runs \cup {NoRun}, until : Int]]
      /\ lease'[s] = held /\ \A z \in Searches \ {s} : lease'[z] = lease[z]
  BY <1>1, <1>3, <1>4, <1>8
<1>10. Types'
  BY <1>4, <1>5, <1>9 DEF IInv, Types
<1>11. QueuedOnce'
  BY <1>4 DEF IInv, QueuedOnce, SameSlot
<1>12. \A q \in Busy : ~SameSlot(v, run[q])
  BY <1>2 DEF IInv, NotBoth, SameSlot
<1>13. \A k \in jobs \ {j} : ~SameSlot(k, v)
  BY <1>2 DEF IInv, QueuedOnce, SameSlot
<1>14. RunsOnce'
  <2> SUFFICES ASSUME NEW p \in Busy', NEW q \in Busy', SameSlot(run'[p], run'[q]) PROVE p = q
    BY DEF RunsOnce, SameSlot
  <2>1. CASE p \in Busy /\ q \in Busy
    BY <1>7, <2>1 DEF IInv, RunsOnce
  <2>2. CASE p = r /\ q \in Busy
    BY <1>5, <1>7, <1>12, <2>2
  <2>3. CASE p \in Busy /\ q = r
    BY <1>5, <1>7, <1>12, <2>3 DEF SameSlot
  <2> QED
    BY <1>6, <2>1, <2>2, <2>3
<1>15. NotBoth'
  <2> SUFFICES ASSUME NEW k \in jobs', NEW q \in Busy' PROVE ~SameSlot(k, run'[q])
    BY DEF NotBoth, SameSlot
  <2>1. CASE q \in Busy
    BY <1>4, <1>7, <2>1 DEF IInv, NotBoth
  <2>2. CASE q = r
    BY <1>4, <1>5, <1>13, <2>2
  <2> QED
    BY <1>6, <2>1, <2>2
<1>16. OnTime'
  <2> SUFFICES ASSUME NEW q \in Busy' PROVE now <= run'[q].began + RunTime
    BY <1>4 DEF OnTime
  <2>1. CASE q = r
    BY <1>1, <1>2, <1>5, <2>1, SyncJobsAssumption
  <2>2. CASE q \in Busy
    BY <1>7, <2>2 DEF IInv, OnTime
  <2> QED
    BY <1>6, <2>1, <2>2
<1>17. Exclusive'
  <2> SUFFICES ASSUME RunTime < LeaseTime PROVE Leased' /\ RunsAlone'
    BY DEF Exclusive
  <2>1. Leased /\ RunsAlone
    BY DEF IInv, Exclusive
  <2>2. \A q \in Busy : run[q].search # s /\ run[q].search \in Searches
    <3> TAKE q \in Busy
    <3>1. run[q].search \in Searches /\ run[q].began \in Nat
      BY BusyRun DEF IInv
    <3>2. lease[run[q].search].until = run[q].began + LeaseTime /\ now <= run[q].began + RunTime
      BY <2>1 DEF IInv, Leased, OnTime
    <3>3. ~(lease[run[q].search].until <= now)
      BY <1>1, <3>1, <3>2, SyncJobsAssumption
    <3> QED
      BY <1>4, <3>1, <3>3 DEF LeaseFree
  <2>3. Leased'
    <3> SUFFICES ASSUME NEW q \in Busy' PROVE lease'[run'[q].search].until = run'[q].began + LeaseTime
      BY DEF Leased
    <3>1. CASE q = r
      BY <1>2, <1>3, <1>5, <1>9, <3>1
    <3>2. CASE q \in Busy
      BY <1>7, <1>9, <2>1, <2>2, <3>2 DEF Leased
    <3> QED
      BY <1>6, <3>1, <3>2
  <2>4. RunsAlone'
    BY <1>2, <1>5, <1>6, <1>7, <2>1, <2>2 DEF RunsAlone
  <2> QED
    BY <2>3, <2>4
<1> QED
  BY <1>10, <1>11, <1>14, <1>15, <1>16, <1>17 DEF IInv

(* The cron job adds what the queue does not know.                         *)
LEMMA EnqueueStep ==
  ASSUME IInv, EnqueueSelected
  PROVE  IInv'
<1> DEFINE new == {[search |-> d.search, slot |-> d.slot, try |-> 1, at |-> now] :
                     d \in Enqueued}
<1>1. jobs' = jobs \cup new /\ selected' = {} /\ UNCHANGED <<now, premium, errors, run, lease>>
  BY DEF EnqueueSelected, sv
<1>2. \A j \in new : /\ j.search \in Searches /\ j.slot \in Nat /\ j.try = 1
                     /\ ~Known(j.search, j.slot)
                     /\ j = [search |-> j.search, slot |-> j.slot, try |-> 1, at |-> now]
  BY DEF IInv, Types, Selection, Enqueued
<1> HIDE DEF new
<1>3. Types'
  <2>1. \A j \in jobs' : j.search \in Searches /\ j.slot \in Nat /\ j.try \in Nat \ {0}
    BY <1>1, <1>2 DEF IInv, Types
  <2>2. selected' \subseteq Selection
    BY <1>1
  <2> QED
    BY <1>1, <2>1, <2>2 DEF IInv, Types
<1>4. Busy' = Busy
  BY <1>1 DEF Busy
<1>5. \A j \in new : /\ \A k \in jobs : ~SameSlot(k, j) /\ ~SameSlot(j, k)
                     /\ \A q \in Busy : ~SameSlot(j, run[q])
  BY <1>2 DEF Known, SameSlot
<1>6. \A j, k \in new : SameSlot(j, k) => j = k
  BY <1>2 DEF SameSlot
<1>7. QueuedOnce'
  <2>1. \A j, k \in jobs' : SameSlot(j, k) => j = k
    BY <1>1, <1>5, <1>6 DEF IInv, QueuedOnce
  <2> QED
    BY <2>1 DEF QueuedOnce, SameSlot
<1>8. NotBoth'
  <2>1. \A j \in jobs' : \A q \in Busy : ~SameSlot(j, run[q])
    BY <1>1, <1>5 DEF IInv, NotBoth
  <2> QED
    BY <1>1, <1>4, <2>1 DEF NotBoth, SameSlot
<1>9. RunsOnce' /\ OnTime' /\ Exclusive'
  BY <1>1, <1>4 DEF IInv, RunsOnce, SameSlot, OnTime, Exclusive, Leased, RunsAlone
<1> QED
  BY <1>3, <1>7, <1>8, <1>9 DEF IInv

(* All runs die, and their jobs come back.                                 *)
LEMMA CrashStep ==
  ASSUME IInv, Crash
  PROVE  IInv'
<1>1. PICK delay \in {0, Redelivery} :
        jobs' = jobs \cup {[search |-> run[r].search, slot |-> run[r].slot,
                            try |-> run[r].try + 1, at |-> now + delay] : r \in Busy}
  BY DEF Crash
<1> DEFINE Back(r) == [search |-> run[r].search, slot |-> run[r].slot,
                       try |-> run[r].try + 1, at |-> now + delay]
<1>2. \A j \in jobs' : j \in jobs \/ \E r \in Busy : j = Back(r)
  BY <1>1
<1>3. \A r \in Busy : SameSlot(Back(r), run[r]) /\ Back(r).search \in Searches /\ Back(r).slot \in Nat
                      /\ Back(r).try \in Nat \ {0}
  BY BusyRun DEF IInv, SameSlot
<1> HIDE DEF Back
<1>4. /\ run' = [r \in Runs |-> Idle] /\ selected' = {} /\ UNCHANGED <<now, premium, errors>>
      /\ lease' = [s \in Searches |-> [lease[s] EXCEPT !.by = NoRun]]
  BY DEF Crash, sv
<1>5. Busy' = {}
  BY <1>4, IdleRun DEF Busy
<1>6. Types'
  <2>1. \A j \in jobs' : j.search \in Searches /\ j.slot \in Nat /\ j.try \in Nat \ {0}
    <3> TAKE j \in jobs'
    <3>1. CASE j \in jobs
      BY <3>1 DEF IInv, Types
    <3>2. ASSUME NEW r \in Busy, j = Back(r) PROVE j.search \in Searches /\ j.slot \in Nat /\ j.try \in Nat \ {0}
      BY <1>3, <3>2, Zenon
    <3> QED
      BY <1>2, <3>1, <3>2
  <2>2. lease' \in [Searches -> [by : Runs \cup {NoRun}, until : Int]]
    BY <1>4 DEF IInv, Types
  <2>3. run' \in [Runs -> {Idle} \cup Running] /\ selected' \subseteq Selection
    BY <1>4
  <2> QED
    BY <1>4, <2>1, <2>2, <2>3 DEF IInv, Types
<1>7. QueuedOnce'
  <2>1. ASSUME NEW j \in jobs', NEW k \in jobs', SameSlot(j, k) PROVE j = k
    <3>1. CASE j \in jobs /\ k \in jobs
      BY <2>1, <3>1 DEF IInv, QueuedOnce
    <3>2. ASSUME NEW r \in Busy, NEW q \in Busy, j = Back(r), k = Back(q) PROVE j = k
      <4>1. SameSlot(run[r], run[q])
        BY <1>3, <2>1, <3>2 DEF SameSlot
      <4>2. r = q
        BY <4>1 DEF IInv, RunsOnce
      <4> QED
        BY <3>2, <4>2
    <3>3. ASSUME NEW r \in Busy, j = Back(r), k \in jobs PROVE FALSE
      BY <1>3, <2>1, <3>3 DEF IInv, NotBoth, SameSlot
    <3>4. ASSUME NEW q \in Busy, k = Back(q), j \in jobs PROVE FALSE
      BY <1>3, <2>1, <3>4 DEF IInv, NotBoth, SameSlot
    <3> QED
      BY <1>2, <3>1, <3>2, <3>3, <3>4
  <2> QED
    BY <2>1 DEF QueuedOnce, SameSlot
<1>8. RunsOnce' /\ NotBoth' /\ OnTime' /\ Exclusive'
  BY <1>5 DEF RunsOnce, NotBoth, OnTime, Exclusive, Leased, RunsAlone
<1> QED
  BY <1>6, <1>7, <1>8 DEF IInv

(* The cron job looks, the owner changes something, or nothing happens.    *)
LEMMA RestStep ==
  ASSUME IInv, SelectDue \/ (\E s \in Searches : ToggleMonitoring(s) \/ SaveSearch(s) \/ ChangePlan(s))
               \/ UNCHANGED vars
  PROVE  IInv'
<1>1. UNCHANGED <<now, jobs, run, lease>>
  BY DEF SelectDue, ToggleMonitoring, SaveSearch, ChangePlan, vars
<1>2. selected' \subseteq Selection
  <2>1. selected \subseteq Selection
    BY DEF IInv, Types
  <2>2. CASE SelectDue
    <3>1. \A d \in selected' : \E s \in Searches : d = [search |-> s, slot |-> Slot(s)]
      BY <2>2 DEF SelectDue
    <3> QED
      BY <3>1, Intervals DEF IInv, Selection
  <2>3. CASE ~SelectDue
    BY <2>1, <2>3 DEF ToggleMonitoring, SaveSearch, ChangePlan, vars
  <2> QED
    BY <2>2, <2>3
<1>3. errors' \in [Searches -> Nat]
  <2>1. errors \in [Searches -> Nat]
    BY DEF IInv, Types
  <2> QED
    BY <2>1 DEF SelectDue, ToggleMonitoring, SaveSearch, ChangePlan, vars, sv
<1>4. premium' \in [Searches -> BOOLEAN]
  <2>1. premium \in [Searches -> BOOLEAN]
    BY DEF IInv, Types
  <2>2. premium' = premium \/ \E s \in Searches : premium' = [premium EXCEPT ![s] = ~@]
    BY DEF SelectDue, ToggleMonitoring, SaveSearch, ChangePlan, vars, sv
  <2> QED
    BY <2>1, <2>2
<1>5. Types'
  BY <1>1, <1>2, <1>3, <1>4 DEF IInv, Types
<1>6. Busy' = Busy
  BY <1>1 DEF Busy
<1>7. QueuedOnce' /\ RunsOnce' /\ NotBoth' /\ OnTime' /\ Exclusive'
  BY <1>1, <1>6 DEF IInv, QueuedOnce, RunsOnce, NotBoth, SameSlot, OnTime, Exclusive, Leased, RunsAlone
<1> QED
  BY <1>5, <1>7 DEF IInv

LEMMA PassTimeStep ==
  ASSUME IInv, PassTime
  PROVE  IInv'
<1>1. now < MaxTime /\ now' = now + 1 /\ UNCHANGED <<selected, jobs, run, lease, premium, errors>>
  BY DEF PassTime, sv
<1>2. Types'
  BY <1>1, SyncJobsAssumption DEF IInv, Types
<1>3. Busy' = Busy
  BY <1>1 DEF Busy
<1>4. QueuedOnce' /\ RunsOnce' /\ NotBoth' /\ Exclusive'
  BY <1>1, <1>3 DEF IInv, QueuedOnce, RunsOnce, NotBoth, SameSlot, Exclusive, Leased, RunsAlone
<1>5. OnTime'
  <2> SUFFICES ASSUME NEW r \in Busy PROVE now + 1 <= run[r].began + RunTime
    BY <1>1, <1>3 DEF OnTime
  <2>1. now \in Nat /\ run[r].began \in Nat /\ now < run[r].began + RunTime
    BY BusyRun DEF IInv, Types, PassTime
  <2> QED
    BY <2>1, SyncJobsAssumption
<1> QED
  BY <1>2, <1>4, <1>5 DEF IInv

(***************************************************************************)
(* The invariant.                                                          *)
(***************************************************************************)

LEMMA InitInv == Init => IInv
<1> SUFFICES ASSUME Init PROVE IInv
  OBVIOUS
<1>1. Busy = {} /\ jobs = {}
  BY IdleRun DEF Init, Busy
<1>2. Types
  <2>1. lease \in [Searches -> [by : Runs \cup {NoRun}, until : Int]]
    BY DEF Init
  <2> QED
    BY <1>1, <2>1, SyncJobsAssumption DEF Init, Types
<1> QED
  BY <1>1, <1>2 DEF IInv, QueuedOnce, RunsOnce, NotBoth, OnTime, Exclusive, Leased, RunsAlone

LEMMA StepInv == IInv /\ [Next]_vars => IInv'
<1> SUFFICES ASSUME IInv, [Next]_vars PROVE IInv'
  OBVIOUS
<1>1. ASSUME NEW r \in Runs,
             Fetch(r) \/ Succeed(r) \/ Finish(r) \/ Fails(r) \/ DeliveryFails(r) \/ RecordFailure(r)
      PROVE  IInv'
  BY <1>1, FetchStep, ShownStep, FinishStep, RecordFailureStep
<1>2. ASSUME NEW j \in Ready, SkipJob(j) \/ \E r \in Runs : StartJob(j, r)
      PROVE  IInv'
  <2>1. j \in jobs
    BY DEF Ready
  <2> QED
    BY <1>2, <2>1, SkipStep, StartStep
<1> QED
  BY <1>1, <1>2, EnqueueStep, CrashStep, PassTimeStep, RestStep DEF Next

LEMMA Invariant == Spec => []IInv
BY InitInv, StepInv, PTL DEF Spec

(***************************************************************************)
(* The theorems.                                                           *)
(***************************************************************************)

(* No identifier is in the queue and running, or either of them twice      *)
(* (enqueue_active_searches, the retries and redeliveries of sync_search). *)
THEOREM JobsAreOnce == Spec => []OneJobPerSlot
<1>1. IInv => OneJobPerSlot
  BY SameProperty DEF IInv
<1> QED
  BY <1>1, Invariant, PTL

(* With runs shorter than the lease, a search has one run at a time        *)
(* (SearchLock in sync_search).                                            *)
THEOREM SearchRunsAlone == Spec => [](RunTime < LeaseTime => RunsAlone)
<1>1. IInv => (RunTime < LeaseTime => RunsAlone)
  BY DEF IInv, Exclusive
<1> QED
  BY <1>1, Invariant, PTL

(***************************************************************************)
(* What consecutive_errors tells.  A run that has the search for itself    *)
(* has loaded at least the errors there are, at most two for each failure; *)
(* one that the engine has counted leaves room for the job's own count.    *)
(***************************************************************************)

Reckons(v, e, f) ==
  /\ v.pc \in {"fetch", "show"} => e <= v.read /\ v.read <= 2 * f
  /\ v.pc = "counted" => e + 1 <= 2 * f

\* What a run of search s may become with these counts.
Fits(v, s, e, f) ==
  v \in {Idle} \cup Running /\ (v.pc = "idle" \/ (v.search = s /\ Reckons(v, e, f)))
FitsNow(v, s) == Fits(v, s, errors[s], failed[s])

Reckoned ==
  /\ failed \in [Searches -> Nat] /\ ErrorsTellFailures
  /\ \A r \in Busy : Reckons(run[r], errors[run[r].search], failed[run[r].search])

(* One run goes on, and counts its own search.                             *)
LEMMA ReckonedRun ==
  ASSUME IInv, Reckoned, NEW r \in Runs, NEW s \in Searches, NEW e \in Nat, NEW f \in Nat,
         NEW v, Fits(v, s, e, f),
         run' = [run EXCEPT ![r] = v], errors' = [errors EXCEPT ![s] = e],
         failed' = [failed EXCEPT ![s] = f], e <= 2 * f,
         \A q \in Busy \ {r} : run[q].search # s
  PROVE  Reckoned'
<1>1. errors \in [Searches -> Nat] /\ failed \in [Searches -> Nat]
  BY DEF IInv, Types, Reckoned
<1>2. /\ \A z \in Searches : errors'[z] = (IF z = s THEN e ELSE errors[z])
      /\ \A z \in Searches : failed'[z] = (IF z = s THEN f ELSE failed[z])
      /\ failed' \in [Searches -> Nat]
  BY <1>1
<1>3. ErrorsTellFailures'
  BY <1>2 DEF Reckoned, ErrorsTellFailures
<1>4. run'[r] = v /\ \A q \in Runs \ {r} : run'[q] = run[q]
  BY RunStep DEF IInv, Fits
<1>5. ASSUME NEW q \in Busy' PROVE Reckons(run'[q], errors'[run'[q].search], failed'[run'[q].search])
  <2>1. CASE q = r
    <3>1. v.search = s /\ Reckons(v, e, f)
      BY <1>4, <2>1 DEF Busy, Fits
    <3> QED
      BY <1>2, <1>4, <2>1, <3>1
  <2>2. CASE q # r
    <3>1. run'[q] = run[q] /\ q \in Busy \ {r}
      BY <1>4, <2>2 DEF Busy
    <3>2. run[q].search \in Searches /\ run[q].search # s
      BY <3>1, BusyRun DEF IInv
    <3>3. Reckons(run[q], errors[run[q].search], failed[run[q].search])
      BY <3>1 DEF Reckoned
    <3> QED
      BY <1>2, <3>1, <3>2, <3>3
  <2> QED
    BY <2>1, <2>2
<1>6. \A q \in Busy' : Reckons(run[q], errors[run[q].search], failed[run[q].search])'
  BY <1>5 DEF Reckons
<1> QED
  BY <1>2, <1>3, <1>6 DEF Reckoned

(* The counts stay.                                                        *)
LEMMA ReckonedSame ==
  ASSUME IInv, Reckoned, NEW r \in Runs, NEW s \in Searches, NEW v,
         FitsNow(v, s), run' = [run EXCEPT ![r] = v], UNCHANGED <<errors, failed>>,
         \A q \in Busy \ {r} : run[q].search # s
  PROVE  Reckoned'
<1> DEFINE e == errors[s]
           f == failed[s]
<1>1. errors \in [Searches -> Nat] /\ failed \in [Searches -> Nat]
  BY DEF IInv, Types, Reckoned
<1>2. e \in Nat /\ f \in Nat /\ e <= 2 * f
  BY <1>1 DEF Reckoned, ErrorsTellFailures
<1>3. errors' = [errors EXCEPT ![s] = e] /\ failed' = [failed EXCEPT ![s] = f]
  BY <1>1
<1>4. Fits(v, s, e, f)
  BY DEF FitsNow
<1> HIDE DEF e, f
<1> QED
  BY <1>2, <1>3, <1>4, ReckonedRun

LEMMA ReckonedOwn ==
  ASSUME IInv, RunTime < LeaseTime, Reckoned, NEW r \in Runs,
         Fetch(r) \/ Succeed(r) \/ Finish(r) \/ Fails(r) \/ DeliveryFails(r) \/ RecordFailure(r)
  PROVE  Reckoned'
<1> DEFINE s == run[r].search
           w == run[r]
<1>0. run[r].pc \in {"fetch", "show", "rest", "raised", "counted"}
  BY DEF Fetch, Succeed, Finish, Fails, DeliveryFails, RecordFailure
<1>1. r \in Busy /\ w \in Running /\ s \in Searches /\ w.read \in Nat
  BY <1>0, BusyRun DEF Busy, IInv
<1>2. /\ errors \in [Searches -> Nat] /\ failed \in [Searches -> Nat]
      /\ errors[s] \in Nat /\ failed[s] \in Nat
  BY <1>1 DEF IInv, Types, Reckoned
<1>3. \A q \in Busy \ {r} : run[q].search # s
  BY <1>1 DEF IInv, Exclusive, RunsAlone
<1>4. errors[s] <= 2 * failed[s] /\ Reckons(w, errors[s], failed[s])
  BY <1>1 DEF Reckoned, ErrorsTellFailures
<1>5. errors = [errors EXCEPT ![s] = errors[s]] /\ failed = [failed EXCEPT ![s] = failed[s]]
  BY <1>1, <1>2
<1>6. run \in [Runs -> {Idle} \cup Running] /\ now \in 0..MaxTime
  BY DEF IInv, Types
<1>7. CASE Fetch(r)
  <2> DEFINE v == [[w EXCEPT !.pc = "show"] EXCEPT !.checked = now]
  <2>1. v \in Running /\ v.search = s /\ v.pc = "show" /\ v.read = w.read
    BY <1>1, <1>6 DEF Running
  <2>2. run' = [run EXCEPT ![r] = v] /\ w.pc = "fetch" /\ UNCHANGED <<errors, failed>>
    BY <1>6, <1>7 DEF Fetch, sv
  <2> HIDE DEF v
  <2>3. FitsNow(v, s)
    BY <1>4, <2>1, <2>2 DEF Reckons, Fits, FitsNow
  <2> HIDE DEF s, w
  <2> QED
    BY <1>1, <1>3, <2>1, <2>2, <2>3, ReckonedSame
<1>8. CASE Fails(r)
  <2> DEFINE v == [w EXCEPT !.pc = "raised"]
  <2>1. v \in Running /\ v.search = s /\ v.pc = "raised"
    BY <1>1 DEF Running
  <2>2. run' = [run EXCEPT ![r] = v] /\ UNCHANGED <<errors, failed>>
    BY <1>8 DEF Fails, sv
  <2> HIDE DEF v
  <2>3. FitsNow(v, s)
    BY <2>1 DEF Reckons, Fits, FitsNow
  <2> HIDE DEF s, w
  <2> QED
    BY <1>1, <1>3, <2>1, <2>2, <2>3, ReckonedSame
<1>9. CASE Succeed(r)
  <2> DEFINE v == [w EXCEPT !.pc = "rest"]
  <2>1. v \in Running /\ v.search = s /\ v.pc = "rest"
    BY <1>1 DEF Running
  <2>2. /\ run' = [run EXCEPT ![r] = v] /\ w.pc = "show" /\ failed' = [failed EXCEPT ![s] = 0]
        /\ errors' = Cleared(r)
    BY <1>9 DEF Succeed
  <2> HIDE DEF v
  <2>3. Fits(v, s, 0, 0) /\ 0 \in Nat /\ 0 <= 2 * 0
    BY <2>1 DEF Reckons, Fits
  <2>4. errors' = [errors EXCEPT ![s] = 0]
    <3>1. CASE w.read = 0
      <4>1. errors[s] = 0
        BY <1>2, <1>4, <2>2, <3>1 DEF Reckons
      <4> QED
        BY <1>5, <2>2, <3>1, <4>1 DEF Cleared
    <3>2. CASE w.read # 0
      BY <2>2, <3>2 DEF Cleared
    <3> QED
      BY <3>1, <3>2
  <2> HIDE DEF s, w
  <2> QED
    BY <1>1, <1>3, <2>1, <2>2, <2>3, <2>4, ReckonedRun
<1>10. CASE DeliveryFails(r)
  <2> DEFINE v == [w EXCEPT !.pc = "counted"]
             e == w.read + 1
             f == failed[s] + 1
  <2>1. v \in Running /\ v.search = s /\ v.pc = "counted"
    BY <1>1 DEF Running
  <2>2. /\ run' = [run EXCEPT ![r] = v] /\ w.pc = "show" /\ failed' = [failed EXCEPT ![s] = f]
        /\ errors' = [errors EXCEPT ![s] = e]
    BY <1>2, <1>10 DEF DeliveryFails
  <2>3. e \in Nat /\ f \in Nat /\ e + 1 <= 2 * f /\ e <= 2 * f
    BY <1>1, <1>2, <1>4, <2>2 DEF Reckons
  <2> HIDE DEF v, e, f
  <2>4. Fits(v, s, e, f)
    BY <2>1, <2>3 DEF Reckons, Fits
  <2> HIDE DEF s, w
  <2> QED
    BY <1>1, <1>3, <2>1, <2>2, <2>3, <2>4, ReckonedRun
<1>11. CASE Finish(r)
  <2>1. /\ run' = [run EXCEPT ![r] = Idle] /\ UNCHANGED <<errors, failed>>
        /\ FitsNow(Idle, s)
    BY <1>11, IdleRun DEF Finish, sv, Fits, FitsNow
  <2> HIDE DEF s, w
  <2> QED
    BY <1>1, <1>3, <2>1, ReckonedSame
<1>12. CASE RecordFailure(r)
  <2> DEFINE e == errors[s] + 1
             f == IF w.pc = "raised" THEN failed[s] + 1 ELSE failed[s]
  <2>1. run' = [run EXCEPT ![r] = Idle] /\ Fits(Idle, s, e, f)
    BY <1>12, IdleRun DEF RecordFailure, Fits
  <2>2. errors' = [errors EXCEPT ![s] = e] /\ failed' = [failed EXCEPT ![s] = f]
    BY <1>2, <1>5, <1>12 DEF RecordFailure
  <2>3. e \in Nat /\ f \in Nat /\ e <= 2 * f
    <3>1. w.pc \in {"raised", "counted"}
      BY <1>12 DEF RecordFailure
    <3> QED
      BY <1>2, <1>4, <3>1 DEF Reckons
  <2> HIDE DEF e, f, s, w
  <2> QED
    BY <1>1, <1>3, <2>1, <2>2, <2>3, ReckonedRun
<1> QED
  BY <1>7, <1>8, <1>9, <1>10, <1>11, <1>12

LEMMA ReckonedStart ==
  ASSUME IInv, IInv', RunTime < LeaseTime, Reckoned, NEW j \in jobs, NEW r \in Runs, StartJob(j, r)
  PROVE  Reckoned'
<1> DEFINE s == j.search
           v == [pc |-> "fetch", search |-> s, slot |-> j.slot, try |-> j.try,
                 began |-> now, read |-> errors[s], checked |-> 0]
<1>1. s \in Searches /\ j.slot \in Nat /\ j.try \in Nat \ {0} /\ now \in Nat /\ now \in 0..MaxTime /\ errors[s] \in Nat
      /\ errors \in [Searches -> Nat]
  BY DEF IInv, Types
<1>2. failed \in [Searches -> Nat] /\ failed[s] \in Nat /\ errors[s] <= 2 * failed[s]
  BY <1>1 DEF Reckoned, ErrorsTellFailures
<1>3. v \in Running /\ v.search = s /\ v.pc = "fetch" /\ v.read = errors[s]
  BY <1>1, SyncJobsAssumption DEF Running
<1>4. run' = [run EXCEPT ![r] = v] /\ UNCHANGED <<errors, failed>>
  BY DEF StartJob, sv
<1> HIDE DEF v
<1>5. run'[r] = v /\ \A q \in Runs \ {r} : run'[q] = run[q]
  BY <1>3, <1>4, RunStep DEF IInv
<1>6. \A q \in Busy \ {r} : run[q].search # s
  <2>1. \A q \in Busy' : run'[q].search = run'[r].search => q = r
    BY <1>3, <1>5 DEF IInv, Exclusive, RunsAlone, Busy
  <2>2. \A q \in Busy \ {r} : q \in Busy' /\ run'[q] = run[q]
    BY <1>5 DEF Busy
  <2> QED
    BY <1>3, <1>5, <2>1, <2>2
<1>8. FitsNow(v, s)
  BY <1>1, <1>2, <1>3 DEF Reckons, Fits, FitsNow
<1>9. s \in Searches
  BY <1>1
<1> HIDE DEF s
<1> QED
  BY <1>4, <1>6, <1>8, <1>9, ReckonedSame

LEMMA ReckonedRest ==
  ASSUME IInv, Reckoned,
         \/ SelectDue \/ EnqueueSelected \/ Crash \/ PassTime \/ UNCHANGED vars
         \/ \E j \in jobs : SkipJob(j)
         \/ \E s \in Searches : ToggleMonitoring(s) \/ SaveSearch(s) \/ ChangePlan(s)
  PROVE  Reckoned'
<1>1. CASE UNCHANGED <<errors, failed>> /\ (run' = run \/ run' = [r \in Runs |-> Idle])
  <2>1. Busy' \subseteq Busy /\ \A r \in Busy' : run'[r] = run[r]
    BY <1>1, IdleRun DEF Busy
  <2> QED
    BY <1>1, <2>1 DEF Reckoned, Reckons, ErrorsTellFailures
<1>2. ASSUME NEW s \in Searches, SaveSearch(s) PROVE Reckoned'
  <2>1. errors \in [Searches -> Nat] /\ failed \in [Searches -> Nat]
    BY DEF IInv, Types, Reckoned
  <2>2. errors' = [errors EXCEPT ![s] = 0] /\ UNCHANGED <<run, failed>>
    BY <1>2 DEF SaveSearch
  <2>3. \A z \in Searches : errors'[z] \in Nat /\ errors'[z] <= errors[z] /\ errors[z] \in Nat /\ failed[z] \in Nat
    BY <2>1, <2>2
  <2>4. ErrorsTellFailures'
    BY <2>2, <2>3 DEF Reckoned, ErrorsTellFailures
  <2>5. ASSUME NEW r \in Busy PROVE Reckons(run[r], errors'[run[r].search], failed[run[r].search])
    <3> DEFINE z == run[r].search
    <3>1. z \in Searches /\ run[r].read \in Nat
      BY BusyRun DEF IInv
    <3>2. Reckons(run[r], errors[z], failed[z])
      BY DEF Reckoned
    <3> HIDE DEF z
    <3>3. errors'[z] \in Nat /\ errors'[z] <= errors[z] /\ errors[z] \in Nat /\ failed[z] \in Nat
      BY <2>3, <3>1
    <3>4. Reckons(run[r], errors'[z], failed[z])
      BY <3>1, <3>2, <3>3 DEF Reckons
    <3> QED
      BY <3>4 DEF z
  <2>6. Busy' = Busy
    BY <2>2 DEF Busy
  <2>7. \A r \in Busy' : Reckons(run[r], errors[run[r].search], failed[run[r].search])'
    BY <2>2, <2>5, <2>6 DEF Reckons
  <2> QED
    BY <2>1, <2>2, <2>4, <2>7 DEF Reckoned
<1>3. (\A s \in Searches : ~SaveSearch(s)) =>
        UNCHANGED <<errors, failed>> /\ (run' = run \/ run' = [r \in Runs |-> Idle])
  BY DEF SelectDue, EnqueueSelected, Crash, PassTime, SkipJob, ToggleMonitoring, ChangePlan, vars, sv
<1> QED
  BY <1>1, <1>2, <1>3

LEMMA ReckonedStep == RunTime < LeaseTime /\ IInv /\ Reckoned /\ [Next]_vars => Reckoned'
<1> SUFFICES ASSUME RunTime < LeaseTime, IInv, Reckoned, [Next]_vars PROVE Reckoned'
  OBVIOUS
<1>1. IInv'
  BY StepInv
<1>2. ASSUME NEW r \in Runs,
             Fetch(r) \/ Succeed(r) \/ Finish(r) \/ Fails(r) \/ DeliveryFails(r) \/ RecordFailure(r)
      PROVE  Reckoned'
  BY <1>2, ReckonedOwn
<1>3. ASSUME NEW j \in Ready, SkipJob(j) \/ \E r \in Runs : StartJob(j, r)
      PROVE  Reckoned'
  <2>1. j \in jobs
    BY DEF Ready
  <2> QED
    BY <1>1, <1>3, <2>1, ReckonedStart, ReckonedRest
<1> QED
  BY <1>2, <1>3, ReckonedRest DEF Next

(* With runs shorter than the lease, the counter is at most twice the      *)
(* failures since the last success, so a success clears it for good        *)
(* (_record_failure, synchronize_search).                                  *)
THEOREM ErrorsAreFailures == RunTime < LeaseTime => (Spec => []ErrorsTellFailures)
<1> SUFFICES ASSUME RunTime < LeaseTime PROVE Spec => []ErrorsTellFailures
  OBVIOUS
<1>1. Init => IInv /\ Reckoned
  <2> SUFFICES ASSUME Init PROVE Reckoned
    BY InitInv
  <2>1. Busy = {}
    BY IdleRun DEF Init, Busy
  <2> QED
    BY <2>1 DEF Init, Reckoned, ErrorsTellFailures
<1>2. IInv /\ Reckoned /\ [Next]_vars => (IInv /\ Reckoned)'
  BY StepInv, ReckonedStep
<1>3. Reckoned => ErrorsTellFailures
  BY DEF Reckoned
<1> QED
  BY <1>1, <1>2, <1>3, PTL DEF Spec

-------------------------------------------------------------------------------
(***************************************************************************)
(* How late a check may be.  First the arithmetic of slots and of the cron *)
(* job's minutes.                                                          *)
(***************************************************************************)

LEMMA Divided ==
  ASSUME NEW x \in Nat, NEW i \in Nat \ {0}
  PROVE  \E q \in Nat, r \in 0..(i - 1) : q = x \div i /\ r = x % i /\ x = i * q + r
<1>1. ASSUME NEW q \in Int, NEW r \in Int, q = x \div i, r = x % i
      PROVE  x = i * q + r
  BY <1>1
<1>2. x \div i \in Nat /\ x % i \in 0..(i - 1)
  OBVIOUS
<1> QED
  BY <1>1, <1>2

\* A quotient is known by its bounds.
LEMMA Quotient ==
  ASSUME NEW i \in Nat \ {0}, NEW p \in Nat, NEW q \in Nat, i * p < i * q + i
  PROVE  p <= q
<1> SUFFICES ASSUME q + 1 <= p PROVE FALSE
  OBVIOUS
<1>1. PICK d \in Nat : p = q + 1 + d
  <2>1. p - q - 1 \in Nat /\ p = q + 1 + (p - q - 1)
    OBVIOUS
  <2> QED
    BY <2>1
<1>2. i * p = i * q + i + i * d
  BY <1>1
<1>3. i * d \in Nat /\ i * q \in Nat
  OBVIOUS
<1> QED
  BY <1>2, <1>3

LEMMA SlotsGrow ==
  ASSUME NEW t \in Nat, NEW u \in Nat, NEW i \in Nat \ {0}, t <= u
  PROVE  SlotNumber(t, i) <= SlotNumber(u, i)
<1>1. Epoch + t \in Nat /\ Epoch + u \in Nat /\ Epoch + t <= Epoch + u
  BY SyncJobsAssumption
<1>2. PICK p \in Nat, a \in 0..(i - 1) : p = SlotNumber(t, i) /\ Epoch + t = i * p + a
  BY <1>1, Divided DEF SlotNumber
<1>3. PICK q \in Nat, b \in 0..(i - 1) : q = SlotNumber(u, i) /\ Epoch + u = i * q + b
  BY <1>1, Divided DEF SlotNumber
<1>4. i * p \in Nat /\ i * q \in Nat
  OBVIOUS
<1>5. i * p < i * q + i
  BY <1>1, <1>2, <1>3, <1>4
<1> QED
  BY <1>2, <1>3, <1>5, Quotient

LEMMA NextSlot ==
  ASSUME NEW t \in Nat, NEW u \in Nat, NEW i \in Nat \ {0}, t + i <= u
  PROVE  SlotNumber(t, i) + 1 <= SlotNumber(u, i)
<1>1. Epoch + t \in Nat /\ Epoch + u \in Nat /\ Epoch + t + i <= Epoch + u
  BY SyncJobsAssumption
<1>2. PICK p \in Nat, a \in 0..(i - 1) : p = SlotNumber(t, i) /\ Epoch + t = i * p + a
  BY <1>1, Divided DEF SlotNumber
<1>3. PICK q \in Nat, b \in 0..(i - 1) : q = SlotNumber(u, i) /\ Epoch + u = i * q + b
  BY <1>1, Divided DEF SlotNumber
<1>4. i * p \in Nat /\ i * q \in Nat /\ i * (p + 1) = i * p + i /\ p + 1 \in Nat
  OBVIOUS
<1>5. i * (p + 1) < i * q + i
  BY <1>1, <1>2, <1>3, <1>4
<1> QED
  BY <1>2, <1>3, <1>4, <1>5, Quotient

\* The cron job runs again within its period.
LEMMA NextTick ==
  ASSUME NEW x \in Nat
  PROVE  \E n \in Nat : x <= n /\ n <= x + Tick - 1 /\ n % Tick = 0
<1> DEFINE y == x + Tick - 1
<1>1. Tick \in Nat \ {0} /\ y \in Nat
  BY SyncJobsAssumption
<1> HIDE DEF y
<1>2. PICK k \in Nat, a \in 0..(Tick - 1) : y = Tick * k + a
  BY <1>1, Divided
<1> DEFINE n == Tick * k
<1>3. n \in Nat /\ x <= n /\ n <= y
  BY <1>1, <1>2 DEF y
<1> HIDE DEF n
<1>4. PICK m \in Nat, b \in 0..(Tick - 1) : b = n % Tick /\ n = Tick * m + b
  BY <1>1, <1>3, Divided
<1> DEFINE A == Tick * m
           B == Tick * k
<1>5. A \in Nat /\ B \in Nat /\ n = B /\ n = A + b
  BY <1>1, <1>4 DEF n
<1>6. m = k
  <2>1. A < B + Tick /\ B < A + Tick
    <3> HIDE DEF A, B
    <3> QED
      BY <1>1, <1>5
  <2> QED
    BY <1>1, <2>1, Quotient
<1>7. b = 0
  <2>1. A = B
    BY <1>6
  <2> HIDE DEF A, B
  <2> QED
    BY <1>5, <2>1
<1> QED
  BY <1>3, <1>4, <1>7 DEF y

(***************************************************************************)
(* Types of all variables of SyncJobs.                                     *)
(***************************************************************************)

Lease == [by : Runs \cup {NoRun}, until : Int]
Times == 0..MaxTime \cup {Never}

LEMMA Numbers ==
  /\ Tick \in Nat \ {0} /\ FreeInterval \in Nat \ {0} /\ PremiumInterval \in Nat \ {0}
  /\ MaxTries \in Nat \ {0} /\ LeaseTime \in Nat /\ Redelivery \in Nat /\ RunTime \in Nat
  /\ MaxTime \in Nat /\ MaxChanges \in Nat /\ MaxFailures \in Nat /\ MaxCrashes \in Nat
  /\ Never = -1
BY SyncJobsAssumption DEF Never

LEMMA TypedInit == Init => TypeOK
<1> SUFFICES ASSUME Init PROVE TypeOK
  OBVIOUS
<1>1. /\ now \in 0..MaxTime /\ 0 \in 0..MaxChanges /\ 0 \in 0..MaxFailures /\ 0 \in 0..MaxCrashes
  BY Numbers DEF Init
<1>2. lease \in [Searches -> [by : Runs \cup {NoRun}, until : Int]]
  BY DEF Init
<1> QED
  BY <1>1, <1>2 DEF Init, TypeOK

\* What the steps of a run do to the variables of its search.
LEMMA TypedRun ==
  ASSUME TypeOK, NEW r \in Runs,
         Fetch(r) \/ Succeed(r) \/ Finish(r) \/ Fails(r) \/ DeliveryFails(r) \/ RecordFailure(r)
  PROVE  TypeOK'
<1> DEFINE s == run[r].search
<1>1. run[r].pc # "idle"
  BY DEF Fetch, Succeed, Finish, Fails, DeliveryFails, RecordFailure
<1>2. /\ run[r] \in Running /\ s \in Searches /\ run[r].read \in Nat /\ run[r].try \in Nat \ {0}
      /\ run[r].slot \in Nat /\ run[r].checked \in 0..MaxTime /\ now \in 0..MaxTime /\ now \in Nat
  BY <1>1, Numbers DEF TypeOK, Running, Idle
<1>3. run' \in [Runs -> {Idle} \cup Running]
  <2>1. \A p \in {"rest", "raised", "counted"} : [run[r] EXCEPT !.pc = p] \in Running
    BY <1>2 DEF Running
  <2>2. [[run[r] EXCEPT !.pc = "show"] EXCEPT !.checked = now] \in Running
    BY <1>2 DEF Running
  <2> DEFINE v == run'[r]
  <2>3. PICK w \in {Idle} \cup Running : run' = [run EXCEPT ![r] = w]
    <3>1. CASE Fetch(r)
      BY <2>2, <3>1 DEF Fetch, TypeOK
    <3>2. CASE Succeed(r) \/ Fails(r) \/ DeliveryFails(r)
      BY <2>1, <3>2 DEF Succeed, Fails, DeliveryFails
    <3>3. CASE Finish(r) \/ RecordFailure(r)
      BY <3>3 DEF Finish, RecordFailure
    <3> QED
      BY <3>1, <3>2, <3>3
  <2> QED
    BY <2>3 DEF TypeOK
<1>4. lease' \in [Searches -> Lease]
  <2> DEFINE none == [by |-> NoRun, until |-> 0]
  <2>1. none \in Lease
    BY DEF Lease
  <2>2. lease' = lease \/ lease' = [lease EXCEPT ![s] = none]
    BY DEF Fetch, Succeed, Finish, Fails, DeliveryFails, RecordFailure, Released
  <2> HIDE DEF none
  <2> QED
    BY <2>1, <2>2 DEF TypeOK, Lease
<1>5. errors' \in [Searches -> Nat] /\ failed' \in [Searches -> Nat]
  <2>1. errors \in [Searches -> Nat] /\ failed \in [Searches -> Nat]
    BY DEF TypeOK
  <2>2. errors' \in {errors, [errors EXCEPT ![s] = 0], [errors EXCEPT ![s] = run[r].read + 1],
                     [errors EXCEPT ![s] = @ + 1]}
    BY DEF Fetch, Succeed, Finish, Fails, DeliveryFails, RecordFailure, Cleared, sv
  <2>3. failed' \in {failed, [failed EXCEPT ![s] = 0], [failed EXCEPT ![s] = @ + 1]}
    BY DEF Fetch, Succeed, Finish, Fails, DeliveryFails, RecordFailure, sv
  <2> QED
    BY <1>2, <2>1, <2>2, <2>3
<1>6. last' \in [Searches -> Times]
  <2>1. last \in [Searches -> Times]
    BY DEF TypeOK, Times
  <2>2. CASE last' = last
    BY <2>1, <2>2
  <2>3. CASE last' = [last EXCEPT ![s] = now]
    BY <1>2, <2>1, <2>3 DEF Times
  <2>4. CASE last' = [last EXCEPT ![s] = run[r].checked]
    BY <1>2, <2>1, <2>4 DEF Times
  <2> QED
    BY <2>2, <2>3, <2>4 DEF Fetch, Succeed, Finish, Fails, DeliveryFails, RecordFailure, sv
<1>7. jobs' \subseteq Job
  <2>1. CASE RecordFailure(r)
    <3> DEFINE at == now + Defer(run[r].try)
               next == [search |-> s, slot |-> run[r].slot, try |-> run[r].try + 1, at |-> at]
    <3>1. jobs' = jobs \/ (run[r].try < MaxTries /\ jobs' = jobs \cup {next})
      BY <2>1 DEF RecordFailure, Retried
    <3> HIDE DEF at
    <3>2. ASSUME run[r].try < MaxTries PROVE next \in Job
      <4>1. run[r].try \in 1..MaxTries
        BY <1>2, <3>2, Numbers
      <4>2. at \in Int
        BY <1>2, <4>1, DelaysAssumption DEF at
      <4> QED
        BY <1>2, <4>2 DEF Job
    <3> HIDE DEF next
    <3> QED
      BY <3>1, <3>2 DEF TypeOK
  <2>2. CASE ~RecordFailure(r)
    BY <2>2 DEF Fetch, Succeed, Finish, Fails, DeliveryFails, TypeOK
  <2> QED
    BY <2>1, <2>2
<1>8. /\ failures' \in 0..MaxFailures
      /\ UNCHANGED <<now, ticked, selected, enabled, premium, changed, changes, crashes>>
  BY Numbers DEF TypeOK, Fetch, Succeed, Finish, Fails, DeliveryFails, RecordFailure, sv, counters
<1> QED
  BY <1>3, <1>4, <1>5, <1>6, <1>7, <1>8 DEF TypeOK, Times, Lease

LEMMA TypedQueue ==
  ASSUME TypeOK, SelectDue \/ EnqueueSelected \/ (\E j \in jobs : SkipJob(j))
                 \/ (\E j \in jobs, r \in Runs : StartJob(j, r))
  PROVE  TypeOK'
<1>1. now \in 0..MaxTime /\ now \in Nat /\ now \in Int
  BY Numbers DEF TypeOK
<1>2. CASE SelectDue
  <2>1. \A s \in Searches : Interval(s) \in Nat \ {0}
    BY Numbers DEF Interval
  <2>2. \A s \in Searches : Slot(s) \in Nat
    BY <1>1, <2>1, SlotTypes DEF Slot
  <2>3. selected' \subseteq [search : Searches, slot : Nat]
    BY <1>2, <2>2 DEF SelectDue
  <2> QED
    BY <1>2, <2>3 DEF SelectDue, TypeOK, sv, counters
<1>3. CASE EnqueueSelected
  <2>1. \A d \in selected : [search |-> d.search, slot |-> d.slot, try |-> 1, at |-> now] \in Job
    BY <1>1 DEF TypeOK, Job
  <2>2. jobs' \subseteq Job /\ selected' = {}
    BY <1>3, <2>1 DEF EnqueueSelected, Enqueued, TypeOK
  <2> QED
    BY <1>3, <2>2 DEF EnqueueSelected, TypeOK, sv, counters
<1>4. ASSUME NEW j \in jobs, SkipJob(j) PROVE TypeOK'
  <2>1. jobs' \subseteq Job
    BY <1>4 DEF SkipJob, TypeOK
  <2> QED
    BY <1>4, <2>1 DEF SkipJob, TypeOK, sv, counters
<1>5. ASSUME NEW j \in jobs, NEW r \in Runs, StartJob(j, r) PROVE TypeOK'
  <2> DEFINE s == j.search
             held == [by |-> r, until |-> now + LeaseTime]
             v == [pc |-> "fetch", search |-> s, slot |-> j.slot, try |-> j.try,
                   began |-> now, read |-> errors[s], checked |-> 0]
  <2>1. j \in Job /\ s \in Searches /\ errors[s] \in Nat /\ 0 \in 0..MaxTime
    BY Numbers DEF TypeOK, Job
  <2>2. v \in Running
    BY <1>1, <2>1 DEF Running, Job
  <2>3. held \in Lease
    BY <1>1, Numbers DEF Lease
  <2>4. run' = [run EXCEPT ![r] = v] /\ lease' = [lease EXCEPT ![s] = held] /\ jobs' \subseteq jobs
    BY <1>5 DEF StartJob
  <2> HIDE DEF v, held
  <2>5. /\ run' \in [Runs -> {Idle} \cup Running] /\ lease' \in [Searches -> Lease]
        /\ jobs' \subseteq Job
    BY <2>2, <2>3, <2>4 DEF TypeOK, Lease
  <2>6. UNCHANGED <<now, ticked, selected, sv, counters>>
    BY <1>5 DEF StartJob
  <2> QED
    BY <2>5, <2>6 DEF TypeOK, Lease, sv, counters
<1> QED
  BY <1>2, <1>3, <1>4, <1>5

LEMMA TypedCrash ==
  ASSUME TypeOK, Crash
  PROVE  TypeOK'
<1>1. PICK delay \in {0, Redelivery} :
        jobs' = jobs \cup {[search |-> run[r].search, slot |-> run[r].slot,
                            try |-> run[r].try + 1, at |-> now + delay] : r \in Busy}
  BY DEF Crash
<1>2. now + delay \in Int
  BY Numbers DEF TypeOK
<1>3. \A r \in Busy : run[r] \in Running
  BY DEF Busy, TypeOK, Idle
<1>4. \A r \in Busy : [search |-> run[r].search, slot |-> run[r].slot,
                       try |-> run[r].try + 1, at |-> now + delay] \in Job
  BY <1>2, <1>3 DEF Running, Job
<1>5. jobs' \subseteq Job
  BY <1>1, <1>4 DEF TypeOK
<1>6. run' \in [Runs -> {Idle} \cup Running] /\ selected' = {} /\ lease' \in [Searches -> Lease]
  BY DEF Crash, TypeOK, Lease
<1>7. crashes' \in 0..MaxCrashes
  BY Numbers DEF Crash, TypeOK
<1> QED
  BY <1>5, <1>6, <1>7 DEF Crash, TypeOK, Lease, sv, counters

LEMMA TypedRest ==
  ASSUME TypeOK, PassTime \/ UNCHANGED vars
                 \/ \E s \in Searches : ToggleMonitoring(s) \/ SaveSearch(s) \/ ChangePlan(s)
  PROVE  TypeOK'
<1>1. CASE UNCHANGED vars
  BY <1>1 DEF TypeOK, vars, sv, counters
<1>2. CASE PassTime
  <2>1. now' \in 0..MaxTime
    BY <1>2, Numbers DEF PassTime, TypeOK
  <2> QED
    BY <1>2, <2>1 DEF PassTime, TypeOK, sv, counters
<1>3. ASSUME NEW s \in Searches, ToggleMonitoring(s) \/ SaveSearch(s) \/ ChangePlan(s) PROVE TypeOK'
  <2>1. changes' \in 0..MaxChanges
    BY <1>3, Numbers DEF ToggleMonitoring, SaveSearch, ChangePlan, TypeOK
  <2>2. /\ enabled' \in [Searches -> BOOLEAN] /\ premium' \in [Searches -> BOOLEAN]
        /\ changed' \in [Searches -> 0..MaxTime]
    <3>1. /\ enabled \in [Searches -> BOOLEAN] /\ premium \in [Searches -> BOOLEAN]
          /\ changed \in [Searches -> 0..MaxTime] /\ now \in 0..MaxTime
      BY DEF TypeOK
    <3>2. /\ enabled' \in {enabled, [enabled EXCEPT ![s] = ~@], [enabled EXCEPT ![s] = TRUE]}
          /\ premium' \in {premium, [premium EXCEPT ![s] = ~@]}
          /\ changed' = [changed EXCEPT ![s] = now]
      BY <1>3 DEF ToggleMonitoring, SaveSearch, ChangePlan
    <3>3. enabled' \in [Searches -> BOOLEAN]
      BY <3>1, <3>2
    <3>4. premium' \in [Searches -> BOOLEAN]
      BY <3>1, <3>2
    <3>5. changed' \in [Searches -> 0..MaxTime]
      BY <3>1, <3>2
    <3> QED
      BY <3>3, <3>4, <3>5
  <2>3. errors' \in [Searches -> Nat]
    BY <1>3 DEF ToggleMonitoring, SaveSearch, ChangePlan, TypeOK
  <2> QED
    BY <1>3, <2>1, <2>2, <2>3 DEF ToggleMonitoring, SaveSearch, ChangePlan, TypeOK
<1> QED
  BY <1>1, <1>2, <1>3

LEMMA TypesStep == TypeOK /\ [Next]_vars => TypeOK'
<1> SUFFICES ASSUME TypeOK, [Next]_vars PROVE TypeOK'
  OBVIOUS
<1>1. ASSUME NEW j \in Ready, SkipJob(j) \/ \E r \in Runs : StartJob(j, r)
      PROVE  TypeOK'
  BY <1>1, TypedQueue DEF Ready
<1> QED
  BY <1>1, TypedRun, TypedQueue, TypedCrash, TypedRest DEF Next

(* The scheduler's variables keep their types: slots, tries and times of   *)
(* jobs and runs are numbers, whatever is retried or redelivered           *)
(* (app/workers/tasks.py).                                                 *)
THEOREM JobsTyped == Spec => []TypeOK
BY TypedInit, TypesStep, PTL DEF Spec

(***************************************************************************)
(* What holds of the queue, the leases and the clocks.  A job in the queue *)
(* is given out within RunTime; one that waits for its retry, or for more  *)
(* tries than it has, is of a slot that is past, so that the next interval *)
(* has an identifier of its own.  A lease that outlives its run is left by *)
(* a crash.                                                                *)
(***************************************************************************)

(* The time between two checks, by the plan of the owner.                  *)
PlanIntervals == {FreeInterval, PremiumInterval}

(* A slot that has begun by time t, if it is one of the plan's at all.     *)
Past(slot, t) ==
  \A i \in PlanIntervals : \A n \in 0..MaxTime :
    SlotNumber(n, i) = slot => SlotNumber(n, i) <= SlotNumber(t, i)

QueueOf(s) == {j \in jobs : j.search = s}
RunsOf(s) == {r \in Busy : run[r].search = s}

(* A job the queue gives out now, and that is not dropped for its tries.   *)
Sound(j) == j.at <= now /\ j.try <= MaxTries

Prompt == \A j \in jobs : now <= j.at + RunTime
SlotsPast ==
  /\ \A j \in jobs : Past(j.slot, now)
  /\ \A d \in selected : Past(d.slot, now)
  /\ \A r \in Busy : Past(run[r].slot, run[r].began)
(* What is queued beside a run is from before it, or can be run at once.   *)
Followers ==
  \A r \in Busy : \A j \in QueueOf(run[r].search) : Sound(j) \/ Past(j.slot, run[r].began)
LeasesHeld ==
  \A r \in Busy : lease[run[r].search] = [by |-> r, until |-> run[r].began + LeaseTime]
LeasesEnd ==
  \A s \in Searches :
    \/ lease[s].until <= now
    \/ RunsOf(s) # {}
    \/ crashes > 0 /\ lease[s].until <= now + LeaseTime
ClocksRight ==
  /\ \A s \in Searches : last[s] <= now /\ changed[s] <= now
  /\ \A r \in Busy :
       /\ run[r].began <= now
       /\ run[r].pc = "show" => run[r].began <= run[r].checked /\ run[r].checked <= now
       /\ run[r].pc = "rest" => run[r].began <= last[run[r].search]
PickedOnce == ~ticked => selected = {}

Orderly ==
  Prompt /\ SlotsPast /\ Followers /\ LeasesHeld /\ LeasesEnd /\ ClocksRight /\ PickedOnce

(* Runs are shorter than leases and intervals.                             *)
Quick == RunTime < LeaseTime /\ RunTime < FreeInterval /\ RunTime < PremiumInterval

Ground == TypeOK /\ IInv /\ Orderly

LEMMA PastNow ==
  ASSUME NEW t \in 0..MaxTime, NEW i \in PlanIntervals
  PROVE  Past(SlotNumber(t, i), t)
<1> SUFFICES ASSUME NEW k \in PlanIntervals, NEW n \in 0..MaxTime,
                    SlotNumber(n, k) = SlotNumber(t, i)
             PROVE  SlotNumber(n, k) <= SlotNumber(t, k)
  BY DEF Past
<1>1. /\ i \in Nat \ {0} /\ k \in Nat \ {0} /\ MaxTime \in Nat /\ 0 \in Nat /\ t \in Nat /\ n \in Nat
      /\ 0 <= t /\ t <= MaxTime /\ 0 <= n /\ n <= MaxTime
      /\ FreeInterval \in Nat \ {0} /\ PremiumInterval \in Nat \ {0}
  BY Numbers DEF PlanIntervals
<1>2. \A m \in {n, t}, p \in PlanIntervals :
        /\ SlotNumber(m, p) \in Nat /\ SlotNumber(0, p) \in Nat /\ SlotNumber(MaxTime, p) \in Nat
        /\ SlotNumber(0, p) <= SlotNumber(m, p) /\ SlotNumber(m, p) <= SlotNumber(MaxTime, p)
  BY <1>1, SlotTypes, SlotsGrow DEF PlanIntervals
<1>3. CASE i = k
  BY <1>1, <1>2, <1>3
<1>4. CASE i # k
  <2>1. SlotNumber(MaxTime, FreeInterval) < SlotNumber(0, PremiumInterval)
    BY SlotsAssumption
  <2>2. CASE i = FreeInterval /\ k = PremiumInterval
    BY <1>2, <2>1, <2>2
  <2>3. CASE i = PremiumInterval /\ k = FreeInterval
    BY <1>2, <2>1, <2>3
  <2> QED
    BY <1>4, <2>2, <2>3 DEF PlanIntervals
<1> QED
  BY <1>3, <1>4

LEMMA PastLater ==
  ASSUME NEW t \in Nat, NEW u \in Nat, NEW x, Past(x, t), t <= u
  PROVE  Past(x, u)
<1> SUFFICES ASSUME NEW i \in PlanIntervals, NEW n \in 0..MaxTime, SlotNumber(n, i) = x
             PROVE  SlotNumber(n, i) <= SlotNumber(u, i)
  BY DEF Past
<1>1. i \in Nat \ {0} /\ n \in Nat
  BY Numbers DEF PlanIntervals
<1>2. SlotNumber(n, i) <= SlotNumber(t, i)
  BY DEF Past
<1>3. SlotNumber(t, i) <= SlotNumber(u, i)
  BY <1>1, SlotsGrow
<1>4. SlotNumber(n, i) \in Nat /\ SlotNumber(t, i) \in Nat /\ SlotNumber(u, i) \in Nat
  BY <1>1, SlotTypes
<1> QED
  BY <1>2, <1>3, <1>4

LEMMA NewSlot ==
  ASSUME NEW t \in Nat, NEW n \in 0..MaxTime, NEW i \in PlanIntervals, NEW x, Past(x, t), t + i <= n
  PROVE  SlotNumber(n, i) # x
<1>1. i \in Nat \ {0} /\ n \in Nat
  BY Numbers DEF PlanIntervals
<1>2. SlotNumber(t, i) + 1 <= SlotNumber(n, i)
  BY <1>1, NextSlot
<1>3. SlotNumber(t, i) \in Nat /\ SlotNumber(n, i) \in Nat
  BY <1>1, SlotTypes
<1> QED
  BY <1>2, <1>3 DEF Past

(* What the types say of a run, a job and a search.                        *)
LEMMA RunTyped ==
  ASSUME TypeOK, NEW r \in Busy
  PROVE  /\ r \in Runs /\ run[r] \in Running /\ run[r].search \in Searches /\ run[r].slot \in Nat
         /\ run[r].began \in 0..MaxTime /\ run[r].began \in Nat
         /\ run[r].checked \in 0..MaxTime /\ run[r].checked \in Nat /\ run[r].try \in Nat \ {0}
BY Numbers DEF TypeOK, Busy, Running, Idle

LEMMA SearchTyped ==
  ASSUME TypeOK
  PROVE  /\ now \in 0..MaxTime /\ now \in Nat /\ crashes \in Nat
         /\ \A s \in Searches :
              /\ last[s] \in Int /\ last[s] >= -1 /\ changed[s] \in Nat /\ lease[s].until \in Int
              /\ Interval(s) \in PlanIntervals /\ Interval(s) \in Nat \ {0}
         /\ \A j \in jobs : j.search \in Searches /\ j.slot \in Nat /\ j.try \in Nat \ {0} /\ j.at \in Int
<1>1. now \in 0..MaxTime /\ now \in Nat /\ crashes \in Nat
  BY Numbers DEF TypeOK
<1>2. ASSUME NEW s \in Searches
      PROVE  /\ last[s] \in Int /\ last[s] >= -1 /\ changed[s] \in Nat /\ lease[s].until \in Int
             /\ Interval(s) \in PlanIntervals /\ Interval(s) \in Nat \ {0}
  <2>1. last[s] \in 0..MaxTime \cup {Never} /\ changed[s] \in 0..MaxTime
    BY DEF TypeOK
  <2>2. lease[s].until \in Int
    BY DEF TypeOK
  <2>3. Interval(s) \in PlanIntervals /\ Interval(s) \in Nat \ {0}
    BY Numbers DEF Interval, PlanIntervals
  <2> QED
    BY <2>1, <2>2, <2>3, Numbers
<1>3. \A j \in jobs : j.search \in Searches /\ j.slot \in Nat /\ j.try \in Nat \ {0} /\ j.at \in Int
  BY DEF TypeOK, Job
<1> QED
  BY <1>1, <1>2, <1>3

(* A run goes on, or ends: the others stay as they are.                    *)
LEMMA RunGoesOn ==
  ASSUME TypeOK, NEW r \in Busy, NEW w \in Running, run' = [run EXCEPT ![r] = w],
         w.search = run[r].search
  PROVE  /\ Busy' = Busy /\ run'[r] = w /\ \A q \in Busy \ {r} : run'[q] = run[q]
         /\ \A s \in Searches : RunsOf(s)' = RunsOf(s)
<1>1. r \in Runs /\ run \in [Runs -> {Idle} \cup Running]
  BY DEF TypeOK, Busy
<1>2. run'[r] = w /\ \A q \in Runs \ {r} : run'[q] = run[q]
  BY <1>1
<1>3. w.pc # "idle" /\ run[r].pc # "idle"
  BY IdleRun DEF Busy
<1>4. Busy' = Busy
  BY <1>1, <1>2, <1>3 DEF Busy
<1>5. \A q \in Busy : run'[q].search = run[q].search
  BY <1>2 DEF Busy
<1> QED
  BY <1>2, <1>4, <1>5 DEF RunsOf, Busy

LEMMA RunEnds ==
  ASSUME TypeOK, NEW r \in Busy, run' = [run EXCEPT ![r] = Idle]
  PROVE  /\ Busy' = Busy \ {r} /\ \A q \in Busy' : run'[q] = run[q]
         /\ \A s \in Searches : RunsOf(s)' = RunsOf(s) \ {r}
<1>1. r \in Runs /\ run \in [Runs -> {Idle} \cup Running]
  BY DEF TypeOK, Busy
<1>2. run'[r] = Idle /\ \A q \in Runs \ {r} : run'[q] = run[q]
  BY <1>1
<1>3. Busy' = Busy \ {r} /\ \A q \in Busy' : run'[q] = run[q]
  BY <1>2, IdleRun DEF Busy
<1> QED
  BY <1>3 DEF RunsOf

LEMMA ProgressOrderly ==
  ASSUME Ground, RunsAlone, NEW r \in Busy, NEW w \in Running, run' = [run EXCEPT ![r] = w],
         w.search = run[r].search, w.slot = run[r].slot, w.began = run[r].began,
         UNCHANGED <<now, ticked, selected, jobs, lease, changed, crashes>>,
         \A s \in Searches : last'[s] <= now,
         \A s \in Searches \ {run[r].search} : last'[s] = last[s],
         w.pc = "show" => w.began <= w.checked /\ w.checked <= now,
         w.pc = "rest" => w.began <= last'[run[r].search]
  PROVE  Orderly'
<1>1. /\ Busy' = Busy /\ run'[r] = w /\ \A q \in Busy \ {r} : run'[q] = run[q]
      /\ \A s \in Searches : RunsOf(s)' = RunsOf(s)
  BY RunGoesOn DEF Ground
<1>2. \A q \in Busy : /\ run'[q].search = run[q].search /\ run'[q].slot = run[q].slot
                      /\ run'[q].began = run[q].began
  BY <1>1
<1>3. Prompt' /\ PickedOnce'
  BY DEF Ground, Orderly, Prompt, PickedOnce
<1>4. SlotsPast'
  BY <1>1, <1>2 DEF Ground, Orderly, SlotsPast
<1>5. Followers'
  BY <1>1, <1>2 DEF Ground, Orderly, Followers, QueueOf, Sound
<1>6. LeasesHeld'
  BY <1>1, <1>2 DEF Ground, Orderly, LeasesHeld
<1>7. LeasesEnd'
  BY <1>1 DEF Ground, Orderly, LeasesEnd
<1>8. ClocksRight'
  <2>1. \A q \in Busy \ {r} : run[q].search \in Searches /\ run[q].search # run[r].search
    BY RunTyped DEF RunsAlone, Ground
  <2>2. \A s \in Searches : last'[s] <= now' /\ changed'[s] <= now'
    BY DEF Ground, Orderly, ClocksRight
  <2>3. ASSUME NEW q \in Busy
        PROVE  /\ run'[q].began <= now'
               /\ run'[q].pc = "show" => run'[q].began <= run'[q].checked /\ run'[q].checked <= now'
               /\ run'[q].pc = "rest" => run'[q].began <= last'[run'[q].search]
    <3>1. CASE q = r
      BY <1>1, <1>2, <3>1 DEF Ground, Orderly, ClocksRight
    <3>2. CASE q # r
      BY <1>1, <2>1, <3>2 DEF Ground, Orderly, ClocksRight
    <3> QED
      BY <3>1, <3>2
  <2> QED
    BY <1>1, <2>2, <2>3 DEF ClocksRight
<1> QED
  BY <1>3, <1>4, <1>5, <1>6, <1>7, <1>8 DEF Orderly

LEMMA ReleasedKey ==
  ASSUME Ground, NEW r \in Busy, lease' = Released(r)
  PROVE  /\ lease'[run[r].search].until = 0
         /\ \A s \in Searches \ {run[r].search} : lease'[s] = lease[s]
<1>1. run[r].search \in Searches /\ lease[run[r].search].by = r
  <2>1. lease[run[r].search] = [by |-> r, until |-> run[r].began + LeaseTime]
    BY DEF Ground, Orderly, LeasesHeld
  <2> QED
    BY <2>1, RunTyped DEF Ground
<1>2. lease' = [lease EXCEPT ![run[r].search] = [by |-> NoRun, until |-> 0]]
  BY <1>1 DEF Released
<1> QED
  BY <1>1, <1>2 DEF Ground, TypeOK

LEMMA EndedOrderly ==
  ASSUME Ground, RunsAlone, NEW r \in Busy, run' = [run EXCEPT ![r] = Idle], lease' = Released(r),
         UNCHANGED <<now, ticked, selected, changed, crashes>>,
         \A s \in Searches : last'[s] <= now,
         \A s \in Searches \ {run[r].search} : last'[s] = last[s],
         \A j \in jobs' : j \in jobs \/ (SameSlot(j, run[r]) /\ now <= j.at /\ j.at \in Int)
  PROVE  Orderly'
<1>1. /\ Busy' = Busy \ {r} /\ \A q \in Busy' : run'[q] = run[q]
      /\ \A s \in Searches : RunsOf(s)' = RunsOf(s) \ {r}
  BY RunEnds DEF Ground
<1>2. /\ lease'[run[r].search].until = 0
      /\ \A s \in Searches \ {run[r].search} : lease'[s] = lease[s]
  BY ReleasedKey
<1>3. \A q \in Busy' : q \in Busy /\ run[q].search \in Searches /\ run[q].search # run[r].search
  BY <1>1, RunTyped DEF RunsAlone, Ground
<1>4. /\ now \in Nat /\ run[r].began \in Nat /\ run[r].began <= now /\ run[r].search \in Searches
  BY SearchTyped, RunTyped DEF Ground, Orderly, ClocksRight
<1>5. Prompt'
  BY <1>4, Numbers DEF Ground, Orderly, Prompt
<1>6. SlotsPast'
  <2>1. Past(run[r].slot, now)
    BY <1>4, PastLater DEF Ground, Orderly, SlotsPast
  <2> QED
    BY <1>1, <1>3, <2>1 DEF Ground, Orderly, SlotsPast, SameSlot
<1>7. Followers'
  <2> SUFFICES ASSUME NEW q \in Busy', NEW j \in jobs', j.search = run[q].search
               PROVE  Sound(j) \/ Past(j.slot, run[q].began)
    BY <1>1 DEF Followers, QueueOf, Sound
  <2>1. j \in jobs
    BY <1>3 DEF SameSlot
  <2> QED
    BY <1>3, <2>1 DEF Ground, Orderly, Followers, QueueOf
<1>8. LeasesHeld'
  BY <1>1, <1>2, <1>3 DEF Ground, Orderly, LeasesHeld
<1>9. LeasesEnd'
  <2> SUFFICES ASSUME NEW s \in Searches
               PROVE  \/ lease'[s].until <= now
                      \/ RunsOf(s)' # {}
                      \/ crashes > 0 /\ lease'[s].until <= now + LeaseTime
    BY DEF LeasesEnd
  <2>1. CASE s = run[r].search
    BY <1>2, <1>4, <2>1
  <2>2. CASE s # run[r].search
    <3>1. RunsOf(s)' = RunsOf(s)
      BY <1>1, <2>2 DEF RunsOf
    <3> QED
      BY <1>2, <2>2, <3>1 DEF Ground, Orderly, LeasesEnd
  <2> QED
    BY <2>1, <2>2
<1>10. ClocksRight'
  BY <1>1, <1>3 DEF Ground, Orderly, ClocksRight
<1>11. PickedOnce'
  BY DEF Ground, Orderly, PickedOnce
<1> QED
  BY <1>5, <1>6, <1>7, <1>8, <1>9, <1>10, <1>11 DEF Orderly

(* The steps of a run.                                                     *)
LEMMA RunOrderly ==
  ASSUME Ground, RunsAlone, NEW r \in Runs,
         Fetch(r) \/ Succeed(r) \/ Finish(r) \/ Fails(r) \/ DeliveryFails(r) \/ RecordFailure(r)
  PROVE  Orderly'
<1>1. r \in Busy
  BY DEF Busy, Fetch, Succeed, Finish, Fails, DeliveryFails, RecordFailure
<1>2. /\ run[r] \in Running /\ run[r].search \in Searches /\ now \in 0..MaxTime /\ now \in Nat
      /\ run[r].try \in Nat \ {0}
      /\ run[r].began <= now /\ \A s \in Searches : last[s] <= now
      /\ run[r].pc = "show" => run[r].began <= run[r].checked /\ run[r].checked <= now
  BY <1>1, RunTyped, SearchTyped DEF Ground, Orderly, ClocksRight
<1>3. last \in [Searches -> 0..MaxTime \cup {Never}] /\ run \in [Runs -> {Idle} \cup Running]
  BY DEF Ground, TypeOK
<1>4. CASE Fetch(r)
  <2> DEFINE w == [[run[r] EXCEPT !.pc = "show"] EXCEPT !.checked = now]
  <2>1. /\ w \in Running /\ w.search = run[r].search /\ w.slot = run[r].slot /\ w.began = run[r].began
        /\ w.pc = "show" /\ w.checked = now
    BY <1>2 DEF Running
  <2>2. run' = [run EXCEPT ![r] = w]
    BY <1>3, <1>4 DEF Fetch
  <2>3. UNCHANGED <<now, ticked, selected, jobs, lease, changed, crashes, last>>
    BY <1>4 DEF Fetch, sv, counters
  <2> HIDE DEF w
  <2>4. w.began <= w.checked /\ w.checked <= now
    BY <1>2, <2>1
  <2> QED
    BY <1>1, <1>2, <2>1, <2>2, <2>3, <2>4, ProgressOrderly
<1>5. CASE Fails(r)
  <2> DEFINE w == [run[r] EXCEPT !.pc = "raised"]
  <2>1. /\ w \in Running /\ w.search = run[r].search /\ w.slot = run[r].slot /\ w.began = run[r].began
        /\ w.pc = "raised"
    BY <1>2 DEF Running
  <2>2. run' = [run EXCEPT ![r] = w]
    BY <1>5 DEF Fails
  <2>3. UNCHANGED <<now, ticked, selected, jobs, lease, changed, crashes, last>>
    BY <1>5 DEF Fails, sv
  <2> HIDE DEF w
  <2> QED
    BY <1>1, <1>2, <2>1, <2>2, <2>3, ProgressOrderly
<1>6. CASE Succeed(r)
  <2> DEFINE w == [run[r] EXCEPT !.pc = "rest"]
  <2>1. /\ w \in Running /\ w.search = run[r].search /\ w.slot = run[r].slot /\ w.began = run[r].began
        /\ w.pc = "rest"
    BY <1>2 DEF Running
  <2>2. run' = [run EXCEPT ![r] = w]
    BY <1>6 DEF Succeed
  <2>3. UNCHANGED <<now, ticked, selected, jobs, lease, changed, crashes>>
    BY <1>6 DEF Succeed, counters
  <2>4. run[r].began <= run[r].checked /\ run[r].checked <= now
    BY <1>2, <1>6 DEF Succeed
  <2>5. last' = [last EXCEPT ![run[r].search] = run[r].checked]
    BY <1>6 DEF Succeed
  <2>6. /\ last'[run[r].search] = run[r].checked
        /\ \A s \in Searches \ {run[r].search} : last'[s] = last[s]
    BY <1>2, <1>3, <2>5
  <2> HIDE DEF w
  <2> QED
    BY <1>1, <1>2, <2>1, <2>2, <2>3, <2>4, <2>6, ProgressOrderly
<1>7. CASE DeliveryFails(r)
  <2> DEFINE w == [run[r] EXCEPT !.pc = "counted"]
  <2>1. /\ w \in Running /\ w.search = run[r].search /\ w.slot = run[r].slot /\ w.began = run[r].began
        /\ w.pc = "counted"
    BY <1>2 DEF Running
  <2>2. run' = [run EXCEPT ![r] = w]
    BY <1>7 DEF DeliveryFails
  <2>3. UNCHANGED <<now, ticked, selected, jobs, lease, changed, crashes>>
    BY <1>7 DEF DeliveryFails
  <2>4. last' = [last EXCEPT ![run[r].search] = now]
    BY <1>7 DEF DeliveryFails
  <2>5. /\ last'[run[r].search] = now
        /\ \A s \in Searches \ {run[r].search} : last'[s] = last[s]
    BY <1>2, <1>3, <2>4
  <2> HIDE DEF w
  <2>6. \A s \in Searches : last'[s] <= now
    BY <1>2, <2>5
  <2> QED
    BY <1>1, <1>2, <2>1, <2>2, <2>3, <2>5, <2>6, ProgressOrderly
<1>8. CASE Finish(r)
  <2>1. /\ run' = [run EXCEPT ![r] = Idle] /\ lease' = Released(r)
        /\ UNCHANGED <<now, ticked, selected, jobs, changed, crashes, last>>
    BY <1>8 DEF Finish, sv, counters
  <2>2. \A j \in jobs' : j \in jobs \/ (SameSlot(j, run[r]) /\ now <= j.at /\ j.at \in Int)
    BY <2>1
  <2> QED
    BY <1>1, <1>2, <2>1, <2>2, EndedOrderly
<1>9. CASE RecordFailure(r)
  <2>1. /\ run' = [run EXCEPT ![r] = Idle] /\ lease' = Released(r)
        /\ UNCHANGED <<now, ticked, selected, changed, crashes>>
        /\ last' = [last EXCEPT ![run[r].search] = now]
    BY <1>9 DEF RecordFailure, counters
  <2>2. /\ last'[run[r].search] = now
        /\ \A s \in Searches \ {run[r].search} : last'[s] = last[s]
    BY <1>2, <1>3, <2>1
  <2>3. \A j \in jobs' : j \in jobs \/ (SameSlot(j, run[r]) /\ now <= j.at /\ j.at \in Int)
    <3> DEFINE at == now + Defer(run[r].try)
               next == [search |-> run[r].search, slot |-> run[r].slot, try |-> run[r].try + 1, at |-> at]
    <3>1. jobs' = jobs \/ (run[r].try < MaxTries /\ jobs' = jobs \cup {next})
      BY <1>9 DEF RecordFailure, Retried
    <3> HIDE DEF at
    <3>2. SameSlot(next, run[r]) /\ next.at = at
      BY DEF SameSlot
    <3>3. ASSUME run[r].try < MaxTries PROVE now <= at /\ at \in Int
      <4>1. run[r].try \in 1..MaxTries
        BY <1>2, <3>3, Numbers
      <4> QED
        BY <1>2, <4>1, DelaysAssumption DEF at
    <3> HIDE DEF next
    <3> SUFFICES ASSUME NEW j \in jobs', j \notin jobs
                 PROVE  SameSlot(j, run[r]) /\ now <= j.at /\ j.at \in Int
      OBVIOUS
    <3>4. j = next /\ run[r].try < MaxTries
      BY <3>1
    <3>5. SameSlot(j, run[r])
      BY <3>2, <3>4, Zenon
    <3>6. now <= j.at /\ j.at \in Int
      BY <3>2, <3>3, <3>4
    <3> QED
      BY <3>5, <3>6
  <2>4. \A s \in Searches : last'[s] <= now
    BY <1>2, <2>2
  <2> QED
    BY <1>1, <1>2, <2>1, <2>2, <2>3, <2>4, EndedOrderly
<1> QED
  BY <1>4, <1>5, <1>6, <1>7, <1>8, <1>9

(* Jobs are added and taken away, no run begins or ends.                   *)
LEMMA QueueOrderly ==
  ASSUME Ground, SelectDue \/ EnqueueSelected \/ \E j \in jobs : SkipJob(j)
  PROVE  Orderly'
<1>1. UNCHANGED <<now, run, lease, last, changed, crashes, premium>>
  BY DEF SelectDue, EnqueueSelected, SkipJob, sv, counters
<1>2. now \in Nat /\ now \in 0..MaxTime /\ 1 <= MaxTries
  BY SearchTyped, Numbers DEF Ground
<1>3. Busy' = Busy /\ \A s \in Searches : RunsOf(s)' = RunsOf(s)
  BY <1>1 DEF Busy, RunsOf
<1>4. LeasesHeld' /\ LeasesEnd' /\ ClocksRight'
  BY <1>1, <1>3 DEF Ground, Orderly, LeasesHeld, LeasesEnd, ClocksRight
<1>5. \A j \in jobs' : \/ j \in jobs
                       \/ j.at = now /\ j.try = 1 /\ \E d \in selected : j.slot = d.slot
  BY DEF SelectDue, EnqueueSelected, SkipJob, Enqueued
<1>6. Prompt'
  BY <1>1, <1>2, <1>5, Numbers DEF Ground, Orderly, Prompt
<1>7. \A d \in selected' : Past(d.slot, now)
  <2>1. CASE SelectDue
    <3>1. \A s \in Searches : Past(Slot(s), now)
      BY <1>2, PastNow, SearchTyped DEF Slot, Ground
    <3> QED
      BY <2>1, <3>1 DEF SelectDue
  <2>2. CASE ~SelectDue
    BY <2>2 DEF EnqueueSelected, SkipJob, Ground, Orderly, SlotsPast
  <2> QED
    BY <2>1, <2>2
<1>8. SlotsPast'
  BY <1>1, <1>3, <1>5, <1>7 DEF Ground, Orderly, SlotsPast
<1>9. Followers'
  BY <1>1, <1>2, <1>3, <1>5 DEF Ground, Orderly, Followers, QueueOf, Sound
<1>10. PickedOnce'
  BY DEF SelectDue, EnqueueSelected, SkipJob, Ground, Orderly, PickedOnce
<1> QED
  BY <1>4, <1>6, <1>8, <1>9, <1>10 DEF Orderly

LEMMA StartOrderly ==
  ASSUME Ground, RunTime < LeaseTime, NEW j \in jobs, j.at <= now, NEW r \in Runs, StartJob(j, r)
  PROVE  Orderly'
<1> DEFINE s == j.search
           held == [by |-> r, until |-> now + LeaseTime]
           v == [pc |-> "fetch", search |-> s, slot |-> j.slot, try |-> j.try,
                 began |-> now, read |-> errors[s], checked |-> 0]
<1>1. /\ now \in 0..MaxTime /\ now \in Nat /\ s \in Searches /\ errors[s] \in Nat /\ j \in Job
      /\ 0 \in 0..MaxTime
  BY SearchTyped, Numbers DEF Ground, TypeOK
<1>2. /\ v \in Running /\ v.search = s /\ v.slot = j.slot /\ v.began = now /\ v.pc = "fetch"
  BY <1>1 DEF Running, Job
<1>3. /\ run[r] = Idle /\ run' = [run EXCEPT ![r] = v] /\ lease' = [lease EXCEPT ![s] = held]
      /\ jobs' = jobs \ {j} /\ UNCHANGED <<now, ticked, selected, last, changed, crashes>>
      /\ LeaseFree(s)
  BY DEF StartJob, sv, counters
<1> HIDE DEF v, held
<1>4. run \in [Runs -> {Idle} \cup Running] /\ lease \in [Searches -> Lease]
  BY DEF Ground, TypeOK, Lease
<1>5. run'[r] = v /\ (\A q \in Runs \ {r} : run'[q] = run[q])
  BY <1>3, <1>4
<1>6. lease'[s] = held /\ (\A z \in Searches \ {s} : lease'[z] = lease[z])
  BY <1>1, <1>3, <1>4
<1>7. Busy' = Busy \cup {r} /\ r \notin Busy /\ \A q \in Busy : run'[q] = run[q]
  BY <1>2, <1>3, <1>5, IdleRun DEF Busy
<1>8. \A z \in Searches \ {s} : RunsOf(z)' = RunsOf(z)
  BY <1>2, <1>5, <1>7 DEF RunsOf
<1>9. r \in RunsOf(s)'
  BY <1>2, <1>5, <1>7 DEF RunsOf
<1>10. \A q \in Busy : run[q].search \in Searches \ {s}
  <2> TAKE q \in Busy
  <2>1. lease[run[q].search] = [by |-> q, until |-> run[q].began + LeaseTime]
    BY DEF Ground, Orderly, LeasesHeld
  <2>2. now <= run[q].began + RunTime
    BY DEF Ground, IInv, OnTime
  <2>3. run[q].search \in Searches /\ run[q].began \in Nat /\ lease[s].until \in Int
    BY <1>1, RunTyped, SearchTyped DEF Ground
  <2>4. lease[run[q].search].until > now
    BY <1>1, <2>1, <2>2, <2>3, Numbers
  <2> QED
    BY <1>1, <1>3, <2>3, <2>4 DEF LeaseFree
<1>11. Prompt' /\ PickedOnce'
  BY <1>3 DEF Ground, Orderly, Prompt, PickedOnce
<1>12. SlotsPast'
  BY <1>2, <1>3, <1>5, <1>7 DEF Ground, Orderly, SlotsPast
<1>13. Followers'
  <2> SUFFICES ASSUME NEW q \in Busy', NEW k \in jobs, k.search = run'[q].search
               PROVE  Sound(k) \/ Past(k.slot, run'[q].began)
    BY <1>3 DEF Followers, QueueOf, Sound
  <2>1. CASE q = r
    BY <1>2, <1>5, <2>1 DEF Ground, Orderly, SlotsPast
  <2>2. CASE q \in Busy
    BY <1>7, <2>2 DEF Ground, Orderly, Followers, QueueOf
  <2> QED
    BY <1>7, <2>1, <2>2
<1>14. LeasesHeld'
  <2> SUFFICES ASSUME NEW q \in Busy'
               PROVE  lease'[run'[q].search] = [by |-> q, until |-> run'[q].began + LeaseTime]
    BY DEF LeasesHeld
  <2>1. CASE q = r
    BY <1>2, <1>5, <1>6, <2>1 DEF held
  <2>2. CASE q \in Busy
    BY <1>6, <1>7, <1>10, <2>2 DEF Ground, Orderly, LeasesHeld
  <2> QED
    BY <1>7, <2>1, <2>2
<1>15. LeasesEnd'
  <2> SUFFICES ASSUME NEW z \in Searches
               PROVE  \/ lease'[z].until <= now
                      \/ RunsOf(z)' # {}
                      \/ crashes > 0 /\ lease'[z].until <= now + LeaseTime
    BY <1>3 DEF LeasesEnd
  <2>1. CASE z = s
    BY <1>9, <2>1
  <2>2. CASE z # s
    BY <1>6, <1>8, <2>2 DEF Ground, Orderly, LeasesEnd
  <2> QED
    BY <2>1, <2>2
<1>16. ClocksRight'
  <2>1. \A z \in Searches : last'[z] <= now' /\ changed'[z] <= now'
    BY <1>3 DEF Ground, Orderly, ClocksRight
  <2>2. ASSUME NEW q \in Busy'
        PROVE  /\ run'[q].began <= now'
               /\ run'[q].pc = "show" => run'[q].began <= run'[q].checked /\ run'[q].checked <= now'
               /\ run'[q].pc = "rest" => run'[q].began <= last'[run'[q].search]
    <3>1. CASE q = r
      BY <1>1, <1>2, <1>3, <1>5, <3>1
    <3>2. CASE q \in Busy
      BY <1>3, <1>7, <3>2 DEF Ground, Orderly, ClocksRight
    <3> QED
      BY <1>7, <3>1, <3>2
  <2> QED
    BY <2>1, <2>2 DEF ClocksRight
<1> QED
  BY <1>11, <1>12, <1>13, <1>14, <1>15, <1>16 DEF Orderly

LEMMA CrashOrderly ==
  ASSUME Ground, Crash
  PROVE  Orderly'
<1>1. PICK delay \in {0, Redelivery} :
        jobs' = jobs \cup {[search |-> run[r].search, slot |-> run[r].slot,
                            try |-> run[r].try + 1, at |-> now + delay] : r \in Busy}
  BY DEF Crash
<1>2. /\ run' = [r \in Runs |-> Idle] /\ selected' = {} /\ crashes' = crashes + 1
      /\ lease' = [s \in Searches |-> [lease[s] EXCEPT !.by = NoRun]]
      /\ UNCHANGED <<now, ticked, last, changed>>
  BY DEF Crash, sv
<1>3. now \in Nat /\ crashes \in Nat /\ now <= now + delay /\ now + delay \in Int
  BY SearchTyped, Numbers DEF Ground
<1>4. Busy' = {} /\ \A s \in Searches : lease'[s].until = lease[s].until
  BY <1>2, IdleRun DEF Busy, Ground, TypeOK
<1>5. \A j \in jobs' : \/ j \in jobs
                       \/ j.at = now + delay /\ \E r \in Busy : j.slot = run[r].slot
  BY <1>1
<1>6. Prompt'
  BY <1>2, <1>3, <1>5, Numbers DEF Ground, Orderly, Prompt
<1>7. \A r \in Busy : /\ Past(run[r].slot, now)
                      /\ run[r].began + LeaseTime <= now + LeaseTime
                      /\ lease[run[r].search].until = run[r].began + LeaseTime
  <2> TAKE r \in Busy
  <2>1. run[r].began \in Nat /\ run[r].began <= now /\ Past(run[r].slot, run[r].began)
    BY RunTyped DEF Ground, Orderly, ClocksRight, SlotsPast
  <2>2. Past(run[r].slot, now)
    BY <1>3, <2>1, PastLater
  <2>3. lease[run[r].search] = [by |-> r, until |-> run[r].began + LeaseTime]
    BY DEF Ground, Orderly, LeasesHeld
  <2> QED
    BY <1>3, <2>1, <2>2, <2>3, Numbers
<1>8. SlotsPast'
  BY <1>2, <1>4, <1>5, <1>7 DEF Ground, Orderly, SlotsPast
<1>9. Followers' /\ LeasesHeld'
  BY <1>4 DEF Followers, LeasesHeld
<1>10. LeasesEnd'
  <2> SUFFICES ASSUME NEW s \in Searches
               PROVE  lease[s].until <= now \/ lease[s].until <= now + LeaseTime
    <3>1. crashes' > 0 /\ now' = now
      BY <1>2, <1>3
    <3> QED
      BY <1>4, <3>1 DEF LeasesEnd
  <2>1. CASE RunsOf(s) # {}
    BY <1>7, <2>1 DEF RunsOf
  <2>2. CASE RunsOf(s) = {}
    BY <2>2 DEF Ground, Orderly, LeasesEnd
  <2> QED
    BY <2>1, <2>2
<1>11. ClocksRight'
  BY <1>2, <1>4 DEF Ground, Orderly, ClocksRight
<1>12. PickedOnce'
  BY <1>2 DEF PickedOnce
<1> QED
  BY <1>6, <1>8, <1>9, <1>10, <1>11, <1>12 DEF Orderly

LEMMA OwnerOrderly ==
  ASSUME Ground, NEW s \in Searches, ToggleMonitoring(s) \/ SaveSearch(s) \/ ChangePlan(s)
  PROVE  Orderly'
<1>1. /\ UNCHANGED <<now, ticked, selected, jobs, run, lease, last, crashes>>
      /\ changed' = [changed EXCEPT ![s] = now]
  BY DEF ToggleMonitoring, SaveSearch, ChangePlan
<1>2. now \in Nat
  BY SearchTyped DEF Ground
<1>3. Busy' = Busy /\ \A z \in Searches : RunsOf(z)' = RunsOf(z)
  BY <1>1 DEF Busy, RunsOf
<1>4. Prompt' /\ SlotsPast' /\ Followers' /\ LeasesHeld' /\ LeasesEnd' /\ PickedOnce'
  BY <1>1, <1>3 DEF Ground, Orderly, Prompt, SlotsPast, Followers, LeasesHeld, LeasesEnd, PickedOnce,
                    QueueOf, Sound
<1>5. \A z \in Searches : changed'[z] \in {now, changed[z]}
  BY <1>1 DEF Ground, TypeOK
<1>6. ClocksRight'
  BY <1>1, <1>2, <1>3, <1>5 DEF Ground, Orderly, ClocksRight
<1> QED
  BY <1>4, <1>6 DEF Orderly

LEMMA TimeOrderly ==
  ASSUME Ground, PassTime
  PROVE  Orderly'
<1>1. /\ now' = now + 1 /\ ticked' = FALSE /\ selected = {} /\ \A j \in jobs : now < j.at + RunTime
      /\ UNCHANGED <<selected, jobs, run, lease, last, changed, crashes>>
  BY DEF PassTime, sv, counters
<1>2. now \in Nat /\ now' \in Nat /\ now <= now'
  BY <1>1, SearchTyped DEF Ground
<1>3. Busy' = Busy /\ \A z \in Searches : RunsOf(z)' = RunsOf(z)
  BY <1>1 DEF Busy, RunsOf
<1>4. Prompt'
  <2> SUFFICES ASSUME NEW j \in jobs PROVE now + 1 <= j.at + RunTime
    BY <1>1 DEF Prompt
  <2>1. j.at \in Int /\ now < j.at + RunTime
    BY <1>1, SearchTyped DEF Ground
  <2> QED
    BY <1>2, <2>1, Numbers
<1>5. SlotsPast'
  BY <1>1, <1>2, <1>3, PastLater DEF Ground, Orderly, SlotsPast
<1>6. \A j \in jobs : Sound(j) => Sound(j)'
  <2> SUFFICES ASSUME NEW j \in jobs, j.at <= now PROVE j.at <= now'
    BY DEF Sound
  <2>1. j.at \in Int
    BY SearchTyped DEF Ground
  <2> QED
    BY <1>1, <1>2, <2>1
<1>7. Followers'
  BY <1>1, <1>3, <1>6 DEF Ground, Orderly, Followers, QueueOf
<1>8. LeasesHeld'
  BY <1>1, <1>3 DEF Ground, Orderly, LeasesHeld
<1>9. LeasesEnd'
  <2> SUFFICES ASSUME NEW s \in Searches
               PROVE  \/ lease[s].until <= now'
                      \/ RunsOf(s) # {}
                      \/ crashes > 0 /\ lease[s].until <= now' + LeaseTime
    BY <1>1, <1>3 DEF LeasesEnd
  <2>1. lease[s].until \in Int
    BY SearchTyped DEF Ground
  <2>2. \/ lease[s].until <= now
        \/ RunsOf(s) # {}
        \/ crashes > 0 /\ lease[s].until <= now + LeaseTime
    BY DEF Ground, Orderly, LeasesEnd
  <2> QED
    BY <1>1, <1>2, <2>1, <2>2, Numbers
<1>10. ClocksRight'
  <2>1. ASSUME NEW s \in Searches PROVE last[s] <= now' /\ changed[s] <= now'
    <3>1. last[s] \in Int /\ changed[s] \in Int /\ last[s] <= now /\ changed[s] <= now
      BY SearchTyped DEF Ground, Orderly, ClocksRight
    <3> QED
      BY <1>1, <1>2, <3>1
  <2>2. ASSUME NEW r \in Busy
        PROVE  /\ run[r].began <= now'
               /\ run[r].pc = "show" => run[r].began <= run[r].checked /\ run[r].checked <= now'
               /\ run[r].pc = "rest" => run[r].began <= last[run[r].search]
    <3>1. /\ run[r].began \in Int /\ run[r].checked \in Int /\ run[r].began <= now
          /\ run[r].pc = "show" => run[r].began <= run[r].checked /\ run[r].checked <= now
          /\ run[r].pc = "rest" => run[r].began <= last[run[r].search]
      BY RunTyped DEF Ground, Orderly, ClocksRight
    <3> QED
      BY <1>1, <1>2, <3>1
  <2> QED
    BY <1>1, <1>3, <2>1, <2>2 DEF ClocksRight
<1>11. PickedOnce'
  BY <1>1 DEF PickedOnce
<1> QED
  BY <1>4, <1>5, <1>7, <1>8, <1>9, <1>10, <1>11 DEF Orderly

LEMMA StutterOrderly ==
  ASSUME Orderly, UNCHANGED vars
  PROVE  Orderly'
<1>1. Busy' = Busy /\ \A z \in Searches : RunsOf(z)' = RunsOf(z)
  BY DEF Busy, RunsOf, vars
<1>2. Prompt' /\ SlotsPast' /\ Followers' /\ LeasesHeld' /\ LeasesEnd' /\ PickedOnce' /\ ClocksRight'
  BY <1>1 DEF Orderly, Prompt, SlotsPast, Followers, LeasesHeld, LeasesEnd, PickedOnce, ClocksRight,
              QueueOf, Sound, vars, sv, counters
<1> QED
  BY <1>2 DEF Orderly

(***************************************************************************)
(* By when a search is due, and why it is: while it has no run, it is in   *)
(* the queue with a job that will be run, or read as due, or there is a    *)
(* minute in time at which it will be read as due, with a free lease and an*)
(* identifier that nothing holds back.                                     *)
(***************************************************************************)

(* What a stop of the worker costs a search of interval i, and by when a   *)
(* search is due that was last checked, or changed, at l and c, after k    *)
(* stops.                                                                  *)
StopCost(i) == Max({LeaseTime, i}) + Tick - 1 + RunTime
DueAfter(l, c, i, k) == Max({l, c}) + i + Tick - 1 + k * StopCost(i)
DueBy(s) == DueAfter(last[s], changed[s], Interval(s), crashes)

(* Enabled searches are on their way to the next check: in the queue with  *)
(* a job that will be run, read as due, or to be read as due at minute n.  *)
Queued(s) == lease[s].until <= now /\ \E j \in QueueOf(s) : Sound(j) /\ j.at <= DueBy(s)
Picked(s) ==
  /\ lease[s].until <= now /\ now <= DueBy(s)
  /\ [search |-> s, slot |-> Slot(s)] \in selected
  /\ \A j \in QueueOf(s) : j.slot = Slot(s) => Sound(j)
WaitsFor(s, n) ==
  /\ now <= n /\ n <= DueBy(s) /\ n % Tick = 0 /\ (n = now => ~ticked)
  /\ lease[s].until <= n
  /\ last[s] = Never \/ n - last[s] >= Interval(s)
  /\ \A j \in QueueOf(s) : n <= MaxTime /\ j.slot = SlotNumber(n, Interval(s)) => Sound(j)
Waiting(s) == \E n \in Nat : WaitsFor(s, n)
Going(s) == \A r \in RunsOf(s) : run[r].began <= DueBy(s) + RunTime

OnTheWay(s) == IF RunsOf(s) # {} THEN Going(s) ELSE Queued(s) \/ Picked(s) \/ Waiting(s)
InTime == \A s \in Searches : enabled[s] => OnTheWay(s)

LEMMA MaxOfTwo ==
  ASSUME NEW a \in Int, NEW b \in Int
  PROVE  Max({a, b}) \in {a, b} /\ a <= Max({a, b}) /\ b <= Max({a, b})
<1>1. \E x \in {a, b} : \A y \in {a, b} : x >= y
  <2>1. CASE a >= b
    BY <2>1
  <2>2. CASE b >= a
    BY <2>2
  <2> QED
    BY <2>1, <2>2
<1>2. Max({a, b}) \in {a, b} /\ \A y \in {a, b} : Max({a, b}) >= y
  BY <1>1 DEF Max
<1> QED
  BY <1>2

LEMMA StopCosts ==
  ASSUME NEW i \in Nat \ {0}
  PROVE  /\ StopCost(i) \in Nat
         /\ LeaseTime + Tick - 1 + RunTime <= StopCost(i) /\ i + Tick - 1 + RunTime <= StopCost(i)
<1>1. /\ Max({LeaseTime, i}) \in Nat /\ LeaseTime <= Max({LeaseTime, i}) /\ i <= Max({LeaseTime, i})
  BY MaxOfTwo, Numbers
<1> QED
  BY <1>1, Numbers DEF StopCost

LEMMA DueDates ==
  ASSUME NEW l \in Int, l >= -1, NEW c \in Nat, NEW i \in Nat \ {0}, NEW k \in Nat
  PROVE  /\ DueAfter(l, c, i, k) \in Nat
         /\ l + i + Tick - 1 <= DueAfter(l, c, i, k) /\ c + i + Tick - 1 <= DueAfter(l, c, i, k)
         /\ k > 0 => c + i + Tick - 1 + StopCost(i) <= DueAfter(l, c, i, k)
         /\ DueAfter(l, c, i, k + 1) = DueAfter(l, c, i, k) + StopCost(i)
<1> DEFINE m == Max({l, c})
           f == StopCost(i)
           p == k * f
<1>1. m \in Nat /\ l <= m /\ c <= m
  BY MaxOfTwo
<1>2. f \in Nat
  BY StopCosts
<1> HIDE DEF m, f
<1>3. p \in Nat /\ (k + 1) * f = p + f
  BY <1>2
<1>4. k > 0 => f <= p
  <2> SUFFICES ASSUME k > 0 PROVE f <= p
    OBVIOUS
  <2>1. PICK h \in Nat : k = h + 1
    <3>1. k - 1 \in Nat /\ k = k - 1 + 1
      OBVIOUS
    <3> QED
      BY <3>1
  <2>2. p = h * f + f /\ h * f \in Nat
    BY <1>2, <2>1
  <2> QED
    BY <1>2, <2>2
<1>5. /\ DueAfter(l, c, i, k) = m + i + Tick - 1 + p
      /\ DueAfter(l, c, i, k + 1) = m + i + Tick - 1 + (k + 1) * f
  BY DEF DueAfter, m, f
<1> HIDE DEF p
<1> QED
  BY <1>1, <1>2, <1>3, <1>4, <1>5, Numbers DEF f

(* A search that has no run waits for the first minute after x, when the   *)
(* lease is free, the interval over and what is queued of another slot.    *)
LEMMA WaitsOn ==
  ASSUME NEW s \in Searches, NEW x \in Nat, now' \in Nat, lease'[s].until \in Int, last'[s] \in Int,
         Interval(s)' \in PlanIntervals, DueBy(s)' \in Nat,
         now' < x, x + Tick - 1 <= DueBy(s)', lease'[s].until <= x,
         last'[s] = Never \/ x - last'[s] >= Interval(s)',
         \A j \in QueueOf(s)' : Sound(j)' \/ \E t \in Nat : Past(j.slot, t) /\ t + Interval(s)' <= x
  PROVE  Waiting(s)'
<1>1. PICK n \in Nat : x <= n /\ n <= x + Tick - 1 /\ n % Tick = 0
  BY NextTick
<1>2. Interval(s)' \in Nat \ {0} /\ Tick \in Nat
  BY Numbers DEF PlanIntervals
<1>3. /\ now' <= n /\ n <= DueBy(s)' /\ n # now' /\ lease'[s].until <= n
      /\ last'[s] = Never \/ n - last'[s] >= Interval(s)'
  BY <1>1, <1>2
<1>4. ASSUME NEW j \in QueueOf(s)', n <= MaxTime, j.slot = SlotNumber(n, Interval(s)')
      PROVE  Sound(j)'
  <2> SUFFICES ASSUME NEW t \in Nat, Past(j.slot, t), t + Interval(s)' <= x PROVE FALSE
    OBVIOUS
  <2>1. t + Interval(s)' <= n /\ n \in 0..MaxTime
    BY <1>1, <1>2, <1>4, Numbers
  <2> QED
    BY <1>4, <2>1, NewSlot
<1>5. WaitsFor(s, n)'
  BY <1>1, <1>3, <1>4 DEF WaitsFor
<1> QED
  BY <1>5 DEF Waiting

(* When a search is due, as its variables say.                             *)
DatesOf(s) ==
  /\ now \in 0..MaxTime /\ now \in Nat /\ crashes \in Nat
  /\ last[s] \in Int /\ last[s] >= -1 /\ changed[s] \in Nat /\ lease[s].until \in Int
  /\ Interval(s) \in PlanIntervals /\ Interval(s) \in Nat \ {0}
  /\ DueBy(s) \in Nat
  /\ last[s] + Interval(s) + Tick - 1 <= DueBy(s)
  /\ changed[s] + Interval(s) + Tick - 1 <= DueBy(s)
  /\ crashes > 0 => changed[s] + Interval(s) + Tick - 1 + StopCost(Interval(s)) <= DueBy(s)
Dates == \A s \in Searches : DatesOf(s)

LEMMA Dated == TypeOK => Dates
<1> SUFFICES ASSUME TypeOK, NEW s \in Searches PROVE DatesOf(s)
  BY DEF Dates
<1>1. /\ now \in 0..MaxTime /\ now \in Nat /\ crashes \in Nat
      /\ last[s] \in Int /\ last[s] >= -1 /\ changed[s] \in Nat /\ lease[s].until \in Int
      /\ Interval(s) \in PlanIntervals /\ Interval(s) \in Nat \ {0}
  BY SearchTyped
<1> DEFINE l == last[s]
           c == changed[s]
           i == Interval(s)
<1>2. /\ DueAfter(l, c, i, crashes) \in Nat
      /\ l + i + Tick - 1 <= DueAfter(l, c, i, crashes)
      /\ c + i + Tick - 1 <= DueAfter(l, c, i, crashes)
      /\ crashes > 0 => c + i + Tick - 1 + StopCost(i) <= DueAfter(l, c, i, crashes)
  BY <1>1, DueDates
<1> QED
  BY <1>1, <1>2 DEF DatesOf, DueBy

LEMMA DatedNext == TypeOK' => Dates'
BY Dated, PTL

(* Nothing happens to a search.                                            *)
LEMMA Aside ==
  ASSUME NEW s \in Searches,
         UNCHANGED <<now, ticked, crashes>>, enabled'[s] = enabled[s], premium'[s] = premium[s],
         last'[s] = last[s], changed'[s] = changed[s], lease'[s] = lease[s],
         \A d \in selected : d.search = s => d \in selected',
         QueueOf(s)' = QueueOf(s), RunsOf(s)' = RunsOf(s),
         \A r \in RunsOf(s) : run'[r].began = run[r].began,
         enabled[s] => OnTheWay(s)
  PROVE  enabled'[s] => OnTheWay(s)'
<1>1. Interval(s)' = Interval(s)
  BY DEF Interval
<1>2. DueBy(s)' = DueBy(s) /\ Slot(s)' = Slot(s)
  BY <1>1 DEF DueBy, Slot
<1>3. Going(s) => Going(s)'
  BY <1>2 DEF Going
<1>4. Queued(s) => Queued(s)'
  BY <1>2 DEF Queued, Sound
<1>5. Picked(s) => Picked(s)'
  BY <1>2 DEF Picked, Sound
<1>6. ASSUME NEW n \in Nat, WaitsFor(s, n) PROVE WaitsFor(s, n)'
  BY <1>1, <1>2, <1>6 DEF WaitsFor, Sound
<1>7. Waiting(s) => Waiting(s)'
  BY <1>6 DEF Waiting
<1> QED
  BY <1>3, <1>4, <1>5, <1>7 DEF OnTheWay

(* A run of a search goes on.                                              *)
LEMMA StillGoing ==
  ASSUME NEW s \in Searches, RunsOf(s)' # {},
         \A r \in RunsOf(s)' : run'[r].began <= DueBy(s)' + RunTime
  PROVE  OnTheWay(s)'
BY DEF OnTheWay, Going

(***************************************************************************)
(* The steps keep searches in time.                                        *)
(***************************************************************************)

(* A run ends, and leaves its search checked, or tried, after it began.    *)
LEMMA EndedInTime ==
  ASSUME Ground, TypeOK', RunsAlone, InTime, NEW r \in Busy, run' = [run EXCEPT ![r] = Idle],
         lease' = Released(r), UNCHANGED <<now, ticked, selected, enabled, premium, changed, crashes>>,
         \A s \in Searches \ {run[r].search} : last'[s] = last[s],
         run[r].began <= last'[run[r].search],
         now < last'[run[r].search] + Interval(run[r].search),
         jobs \subseteq jobs', \A j \in jobs' : j \in jobs \/ SameSlot(j, run[r])
  PROVE  InTime'
<1>0. PICK z \in Searches : z = run[r].search
  BY RunTyped DEF Ground
<1> DEFINE b == run[r].began
           x == last'[z] + Interval(z)
<1>1. /\ Busy' = Busy \ {r} /\ \A q \in Busy' : run'[q] = run[q]
      /\ \A s \in Searches : RunsOf(s)' = RunsOf(s) \ {r}
  BY RunEnds DEF Ground
<1>2. /\ lease'[z].until = 0 /\ \A s \in Searches \ {z} : lease'[s] = lease[s]
  BY <1>0, ReleasedKey
<1>3. z \in Searches /\ b \in Nat /\ b <= last'[z] /\ now < x
  BY <1>0, RunTyped DEF Ground
<1>4. DatesOf(z)' /\ Interval(z)' = Interval(z)
  <2>1. Dates'
    BY DatedNext
  <2>2. Interval(z)' = Interval(z)
    BY DEF Interval
  <2> QED
    BY <1>3, <2>1, <2>2 DEF Dates
<1>5. ASSUME NEW s \in Searches, s # z, enabled'[s] PROVE OnTheWay(s)'
  <2>1. QueueOf(s)' = QueueOf(s)
    BY <1>0, <1>5 DEF QueueOf, SameSlot
  <2>2. RunsOf(s)' = RunsOf(s) /\ \A q \in RunsOf(s) : run'[q].began = run[q].began
    BY <1>0, <1>1, <1>5 DEF RunsOf
  <2>3. enabled[s] => OnTheWay(s)
    BY DEF InTime
  <2> QED
    BY <1>0, <1>2, <1>5, <2>1, <2>2, <2>3, Aside
<1>6. ASSUME NEW s \in Searches, s = z, enabled'[s] PROVE OnTheWay(s)'
  <2>1. RunsOf(z)' = {}
    BY <1>0, <1>1, <1>3 DEF RunsOf, RunsAlone
  <2>2. /\ last'[z] \in Nat /\ x \in Nat /\ now < x /\ x + Tick - 1 <= DueBy(z)'
        /\ x - last'[z] >= Interval(z)' /\ b + Interval(z)' <= x /\ lease'[z].until <= x
    BY <1>2, <1>3, <1>4, Numbers DEF DatesOf
  <2>3. ASSUME NEW j \in QueueOf(z)'
        PROVE  Sound(j)' \/ \E t \in Nat : Past(j.slot, t) /\ t + Interval(z)' <= x
    <3>1. CASE j \in jobs
      <4>1. Sound(j) \/ Past(j.slot, b)
        BY <1>0, <3>1 DEF Ground, Orderly, Followers, QueueOf
      <4> QED
        BY <1>3, <2>2, <4>1 DEF Sound
    <3>2. CASE SameSlot(j, run[r])
      <4>1. Past(j.slot, b)
        BY <3>2 DEF Ground, Orderly, SlotsPast, SameSlot
      <4> QED
        BY <1>3, <2>2, <4>1
    <3> QED
      BY <3>1, <3>2 DEF QueueOf
  <2>4. Waiting(z)'
    <3> HIDE DEF x
    <3> QED
      BY <1>3, <1>4, <2>2, <2>3, WaitsOn DEF DatesOf
  <2> QED
    BY <1>6, <2>1, <2>4 DEF OnTheWay
<1> QED
  BY <1>5, <1>6 DEF InTime

LEMMA RunInTime ==
  ASSUME Ground, TypeOK', RunsAlone, Quick, InTime, NEW r \in Runs,
         Fetch(r) \/ Succeed(r) \/ Finish(r) \/ Fails(r) \/ DeliveryFails(r) \/ RecordFailure(r)
  PROVE  InTime'
<1>1. r \in Busy
  BY DEF Busy, Fetch, Succeed, Finish, Fails, DeliveryFails, RecordFailure
<1>0. PICK z \in Searches : z = run[r].search
  BY <1>1, RunTyped DEF Ground
<1>2. /\ z \in Searches /\ run[r] \in Running /\ run[r].began \in Nat /\ run[r].began <= now
      /\ run[r].checked \in Nat /\ now <= run[r].began + RunTime
      /\ Interval(z) \in Nat \ {0} /\ RunTime < Interval(z) /\ now \in Nat /\ RunTime \in Nat
  <2>1. Interval(z) \in {FreeInterval, PremiumInterval}
    BY DEF Interval
  <2> QED
    BY <1>0, <1>1, <2>1, RunTyped, SearchTyped, Numbers DEF Ground, Orderly, ClocksRight, IInv, OnTime, Quick
<1>3. last \in [Searches -> 0..MaxTime \cup {Never}] /\ run \in [Runs -> {Idle} \cup Running]
  BY DEF Ground, TypeOK
<1>4. CASE Finish(r) \/ RecordFailure(r)
  <2>1. /\ run' = [run EXCEPT ![r] = Idle] /\ lease' = Released(r)
        /\ UNCHANGED <<now, ticked, selected, enabled, premium, changed, crashes>>
    BY <1>0, <1>4 DEF Finish, RecordFailure, sv, counters
  <2>2. /\ jobs \subseteq jobs' /\ \A j \in jobs' : j \in jobs \/ SameSlot(j, run[r])
    BY <1>0, <1>4 DEF Finish, RecordFailure, Retried, SameSlot
  <2>3. last' = last \/ last' = [last EXCEPT ![z] = now]
    BY <1>0, <1>4 DEF Finish, RecordFailure, sv
  <2>4. \A s \in Searches \ {z} : last'[s] = last[s]
    BY <1>0, <1>3, <2>3
  <2>5. run[r].began <= last'[z] /\ last'[z] \in Int
    <3>1. CASE Finish(r)
      BY <1>0, <1>1, <1>2, <1>3, <3>1 DEF Finish, sv, Ground, Orderly, ClocksRight, Never
    <3>2. CASE RecordFailure(r)
      BY <1>0, <1>2, <1>3, <3>2 DEF RecordFailure
    <3> QED
      BY <1>0, <1>4, <3>1, <3>2
  <2>6. now < last'[z] + Interval(z)
    BY <1>0, <1>2, <2>5
  <2> QED
    BY <1>0, <1>1, <2>1, <2>2, <2>4, <2>5, <2>6, EndedInTime
<1>5. ASSUME NEW w \in Running, run' = [run EXCEPT ![r] = w], w.search = z, w.began = run[r].began,
             UNCHANGED <<now, ticked, selected, jobs, lease, enabled, premium, changed, crashes>>,
             \A s \in Searches \ {z} : last'[s] = last[s],
             last'[z] = last[z] \/ run[r].began <= last'[z]
      PROVE  InTime'
  <2>1. /\ Busy' = Busy /\ run'[r] = w /\ \A q \in Busy \ {r} : run'[q] = run[q]
        /\ \A s \in Searches : RunsOf(s)' = RunsOf(s)
    BY <1>0, <1>1, <1>5, RunGoesOn DEF Ground
  <2>2. \A q \in Busy : run'[q].began = run[q].began
    BY <1>0, <1>5, <2>1
  <2>3. ASSUME NEW s \in Searches, last'[s] = last[s], enabled'[s] PROVE OnTheWay(s)'
    <3>1. enabled[s] => OnTheWay(s)
      BY DEF InTime
    <3>2. QueueOf(s)' = QueueOf(s) /\ RunsOf(s)' = RunsOf(s)
          /\ \A q \in RunsOf(s) : run'[q].began = run[q].began
      BY <1>0, <1>5, <2>1, <2>2 DEF QueueOf, RunsOf
    <3> QED
      BY <1>0, <1>5, <2>3, <3>1, <3>2, Aside
  <2>4. ASSUME run[r].began <= last'[z] PROVE OnTheWay(z)'
    <3>1. DatesOf(z)'
      BY <1>0, <1>2, DatedNext DEF Dates
    <3>2. Interval(z)' \in Nat /\ Interval(z)' >= 1 /\ Tick \in Nat /\ Tick >= 1
      BY <3>1, Numbers DEF DatesOf
    <3>3. run[r].began <= DueBy(z)' + RunTime
      BY <1>0, <1>2, <2>4, <3>1, <3>2 DEF DatesOf
    <3>4. RunsOf(z)' = {r} /\ run'[r].began = run[r].began
      BY <1>0, <1>1, <1>2, <2>1, <2>2 DEF RunsOf, RunsAlone
    <3> QED
      BY <1>0, <1>2, <3>3, <3>4, StillGoing
  <2> QED
    BY <1>0, <1>5, <2>3, <2>4 DEF InTime
<1>6. CASE Fetch(r)
  <2> DEFINE w == [[run[r] EXCEPT !.pc = "show"] EXCEPT !.checked = now]
  <2>1. w \in Running /\ w.search = z /\ w.began = run[r].began
    <3>1. now \in 0..MaxTime
      BY SearchTyped DEF Ground
    <3> QED
      BY <1>0, <1>2, <3>1 DEF Running
  <2>2. run' = [run EXCEPT ![r] = w]
    BY <1>0, <1>3, <1>6 DEF Fetch
  <2>3. UNCHANGED <<now, ticked, selected, jobs, lease, enabled, premium, changed, crashes, last>>
    BY <1>0, <1>6 DEF Fetch, sv, counters
  <2> HIDE DEF w
  <2> QED
    BY <1>0, <1>5, <2>1, <2>2, <2>3
<1>7. CASE Fails(r)
  <2> DEFINE w == [run[r] EXCEPT !.pc = "raised"]
  <2>1. w \in Running /\ w.search = z /\ w.began = run[r].began
    BY <1>0, <1>2 DEF Running
  <2>2. run' = [run EXCEPT ![r] = w]
    BY <1>0, <1>7 DEF Fails
  <2>3. UNCHANGED <<now, ticked, selected, jobs, lease, enabled, premium, changed, crashes, last>>
    BY <1>0, <1>7 DEF Fails, sv
  <2> HIDE DEF w
  <2> QED
    BY <1>0, <1>5, <2>1, <2>2, <2>3
<1>8. CASE Succeed(r) \/ DeliveryFails(r)
  <2>1. PICK p \in {"rest", "counted"} : run' = [run EXCEPT ![r].pc = p]
    BY <1>0, <1>8 DEF Succeed, DeliveryFails
  <2> DEFINE w == [run[r] EXCEPT !.pc = p]
  <2>2. w \in Running /\ w.search = z /\ w.began = run[r].began
    BY <1>0, <1>2 DEF Running
  <2>3. run' = [run EXCEPT ![r] = w]
    BY <2>1
  <2>4. UNCHANGED <<now, ticked, selected, jobs, lease, enabled, premium, changed, crashes>>
    BY <1>0, <1>8 DEF Succeed, DeliveryFails, counters
  <2>5. run[r].began <= run[r].checked
    BY <1>0, <1>1, <1>8 DEF Succeed, DeliveryFails, Ground, Orderly, ClocksRight
  <2>6. last' = [last EXCEPT ![z] = run[r].checked] \/ last' = [last EXCEPT ![z] = now]
    BY <1>0, <1>8 DEF Succeed, DeliveryFails
  <2>7. run[r].began <= last'[z] /\ \A s \in Searches \ {z} : last'[s] = last[s]
    BY <1>0, <1>2, <1>3, <2>5, <2>6
  <2> HIDE DEF w
  <2> QED
    BY <1>0, <1>5, <2>2, <2>3, <2>4, <2>7
<1> QED
  BY <1>0, <1>4, <1>6, <1>7, <1>8

(* What a search without a run has at hand: it is due later than now.      *)
LEMMA NotOverdue ==
  ASSUME Ground, NEW s \in Searches, Queued(s) \/ Picked(s) \/ Waiting(s)
  PROVE  now <= DueBy(s) + RunTime
<1>1. DatesOf(s) /\ RunTime \in Nat
  BY Dated, Numbers DEF Ground, Dates
<1>2. CASE Queued(s)
  <2>1. PICK j \in QueueOf(s) : j.at <= DueBy(s)
    BY <1>2 DEF Queued
  <2>2. j \in jobs /\ j.at \in Int /\ now <= j.at + RunTime
    BY SearchTyped DEF QueueOf, Ground, Orderly, Prompt
  <2> QED
    BY <1>1, <2>1, <2>2 DEF DatesOf
<1>3. CASE Picked(s)
  BY <1>1, <1>3 DEF Picked, DatesOf
<1>4. CASE Waiting(s)
  BY <1>1, <1>4 DEF Waiting, WaitsFor, DatesOf
<1> QED
  BY <1>2, <1>3, <1>4

LEMMA StartInTime ==
  ASSUME Ground, Quick, InTime, NEW j \in jobs, NEW r \in Runs, StartJob(j, r)
  PROVE  InTime'
<1>0. PICK z \in Searches : z = j.search
  BY SearchTyped DEF Ground
<1> DEFINE v == [pc |-> "fetch", search |-> z, slot |-> j.slot, try |-> j.try,
                 began |-> now, read |-> errors[z], checked |-> 0]
           held == [by |-> r, until |-> now + LeaseTime]
<1>1. /\ run[r] = Idle /\ run' = [run EXCEPT ![r] = v] /\ lease' = [lease EXCEPT ![z] = held]
      /\ jobs' = jobs \ {j}
      /\ UNCHANGED <<now, ticked, selected, enabled, premium, last, changed, crashes>>
      /\ LeaseFree(z) /\ enabled[z]
  BY <1>0 DEF StartJob, sv, counters
<1>2. v.search = z /\ v.began = now /\ v.pc # "idle"
  OBVIOUS
<1> HIDE DEF v, held
<1>3. run \in [Runs -> {Idle} \cup Running] /\ lease \in [Searches -> Lease]
  BY DEF Ground, TypeOK, Lease
<1>4. run'[r] = v /\ (\A q \in Runs \ {r} : run'[q] = run[q])
  BY <1>1, <1>3
<1>5. \A s \in Searches \ {z} : lease'[s] = lease[s]
  BY <1>1, <1>3
<1>6. Busy' = Busy \cup {r} /\ r \notin Busy /\ \A q \in Busy : run'[q] = run[q]
  BY <1>1, <1>2, <1>4, IdleRun DEF Busy
<1>7. RunsOf(z) = {}
  <2> SUFFICES ASSUME NEW q \in Busy, run[q].search = z PROVE FALSE
    BY DEF RunsOf
  <2>1. lease[run[q].search] = [by |-> q, until |-> run[q].began + LeaseTime]
    BY DEF Ground, Orderly, LeasesHeld
  <2>2. now <= run[q].began + RunTime /\ run[q].began \in Nat /\ now \in Nat
    BY RunTyped, SearchTyped DEF Ground, IInv, OnTime
  <2>3. run[q].began + LeaseTime <= now
    BY <1>1, <2>1 DEF LeaseFree
  <2> QED
    BY <2>2, <2>3, Numbers DEF Quick
<1>8. ASSUME NEW s \in Searches, s # z, enabled'[s] PROVE OnTheWay(s)'
  <2>1. QueueOf(s)' = QueueOf(s)
    BY <1>0, <1>1, <1>8 DEF QueueOf
  <2>2. RunsOf(s)' = RunsOf(s) /\ \A q \in RunsOf(s) : run'[q].began = run[q].began
    BY <1>2, <1>4, <1>6, <1>8 DEF RunsOf
  <2>3. enabled[s] => OnTheWay(s)
    BY DEF InTime
  <2> QED
    BY <1>1, <1>5, <1>8, <2>1, <2>2, <2>3, Aside
<1>9. OnTheWay(z)'
  <2>1. RunsOf(z)' = {r}
    BY <1>2, <1>4, <1>6, <1>7 DEF RunsOf
  <2>2. Queued(z) \/ Picked(z) \/ Waiting(z)
    BY <1>1, <1>7 DEF InTime, OnTheWay
  <2>3. now <= DueBy(z) + RunTime
    BY <2>2, NotOverdue
  <2>4. Interval(z)' = Interval(z)
    BY <1>1 DEF Interval
  <2>5. DueBy(z)' = DueBy(z)
    BY <1>1, <2>4 DEF DueBy
  <2> QED
    BY <1>2, <1>4, <2>1, <2>3, <2>5, StillGoing
<1> QED
  BY <1>8, <1>9 DEF InTime

(* Nothing of a search but its jobs changes.                               *)
LEMMA SameDates ==
  ASSUME UNCHANGED <<run, premium, last, changed, crashes>>
  PROVE  /\ Busy' = Busy
         /\ \A s \in Searches :
              /\ RunsOf(s)' = RunsOf(s) /\ Interval(s)' = Interval(s) /\ DueBy(s)' = DueBy(s)
              /\ RunsOf(s) # {} /\ OnTheWay(s) => OnTheWay(s)'
<1>1. Busy' = Busy
  BY DEF Busy
<1>2. ASSUME NEW s \in Searches
      PROVE  /\ RunsOf(s)' = RunsOf(s) /\ Interval(s)' = Interval(s) /\ DueBy(s)' = DueBy(s)
             /\ RunsOf(s) # {} /\ OnTheWay(s) => OnTheWay(s)'
  <2>1. RunsOf(s)' = RunsOf(s) /\ Interval(s)' = Interval(s)
    BY <1>1 DEF RunsOf, Interval
  <2>2. DueBy(s)' = DueBy(s)
    BY <2>1 DEF DueBy
  <2>3. RunsOf(s) # {} /\ OnTheWay(s) => OnTheWay(s)'
    BY <2>1, <2>2 DEF OnTheWay, Going
  <2> QED
    BY <2>1, <2>2, <2>3
<1> QED
  BY <1>1, <1>2

LEMMA SkipInTime ==
  ASSUME Ground, InTime, NEW j \in jobs, SkipJob(j)
  PROVE  InTime'
<1> SUFFICES ASSUME NEW s \in Searches, enabled'[s] PROVE OnTheWay(s)'
  BY DEF InTime
<1>1. /\ jobs' = jobs \ {j}
      /\ UNCHANGED <<now, ticked, selected, run, lease, enabled, premium, last, changed, crashes>>
  BY DEF SkipJob, sv, counters
<1>2. /\ RunsOf(s)' = RunsOf(s) /\ Interval(s)' = Interval(s) /\ DueBy(s)' = DueBy(s)
      /\ RunsOf(s) # {} /\ OnTheWay(s) => OnTheWay(s)'
  BY <1>1, SameDates
<1>3. OnTheWay(s) /\ QueueOf(s)' = QueueOf(s) \ {j} /\ Slot(s)' = Slot(s)
  BY <1>1, <1>2 DEF InTime, QueueOf, Slot
<1>4. CASE Queued(s)
  <2>1. PICK k \in QueueOf(s) : Sound(k) /\ k.at <= DueBy(s)
    BY <1>4 DEF Queued
  <2>2. k # j
    <3> SUFFICES ASSUME k = j PROVE FALSE
      OBVIOUS
    <3>1. j.search = s /\ LeaseFree(s) /\ enabled[s] /\ j.try <= MaxTries
      BY <1>1, <1>4, <2>1 DEF Queued, QueueOf, LeaseFree, Sound
    <3>2. j.try > MaxTries
      BY <3>1 DEF SkipJob
    <3>3. j.try \in Nat
      BY SearchTyped DEF Ground
    <3> QED
      BY <3>1, <3>2, <3>3, Numbers
  <2>3. Queued(s)'
    BY <1>1, <1>2, <1>3, <1>4, <2>1, <2>2 DEF Queued, Sound
  <2> QED
    BY <1>2, <1>3, <2>3 DEF OnTheWay
<1>5. CASE Picked(s)
  <2>1. Picked(s)'
    BY <1>1, <1>2, <1>3, <1>5 DEF Picked, Sound
  <2> QED
    BY <1>2, <1>3, <2>1 DEF OnTheWay
<1>6. CASE Waiting(s)
  <2>1. PICK n \in Nat : WaitsFor(s, n)
    BY <1>6 DEF Waiting
  <2>2. WaitsFor(s, n)'
    BY <1>1, <1>2, <1>3, <2>1 DEF WaitsFor, Sound
  <2>3. Waiting(s)'
    BY <2>2 DEF Waiting
  <2> QED
    BY <1>2, <1>3, <2>3 DEF OnTheWay
<1> QED
  BY <1>2, <1>3, <1>4, <1>5, <1>6 DEF OnTheWay

LEMMA SelectInTime ==
  ASSUME Ground, InTime, SelectDue
  PROVE  InTime'
<1> SUFFICES ASSUME NEW s \in Searches, enabled'[s] PROVE OnTheWay(s)'
  BY DEF InTime
<1>1. /\ ticked' = TRUE /\ ~ticked
      /\ UNCHANGED <<now, jobs, run, lease, enabled, premium, last, changed, crashes>>
      /\ selected' = {[search |-> d, slot |-> Slot(d)] : d \in {d \in Searches : IsDue(d)}}
  BY DEF SelectDue, sv, counters
<1>2. /\ RunsOf(s)' = RunsOf(s) /\ Interval(s)' = Interval(s) /\ DueBy(s)' = DueBy(s)
      /\ RunsOf(s) # {} /\ OnTheWay(s) => OnTheWay(s)'
  BY <1>1, SameDates
<1>3. OnTheWay(s) /\ QueueOf(s)' = QueueOf(s) /\ Slot(s)' = Slot(s)
  BY <1>1, <1>2 DEF InTime, QueueOf, Slot
<1>4. DatesOf(s)
  BY Dated DEF Ground, Dates
<1>5. CASE Queued(s)
  <2>1. Queued(s)'
    BY <1>1, <1>2, <1>3, <1>5 DEF Queued, Sound
  <2> QED
    BY <1>2, <1>3, <2>1 DEF OnTheWay
<1>6. ~Picked(s)
  BY <1>1 DEF Picked, Ground, Orderly, PickedOnce
<1>7. CASE Waiting(s)
  <2>1. PICK n \in Nat : WaitsFor(s, n)
    BY <1>7 DEF Waiting
  <2>2. CASE n # now
    <3>1. WaitsFor(s, n)'
      BY <1>1, <1>2, <1>3, <2>1, <2>2 DEF WaitsFor, Sound
    <3>2. Waiting(s)'
      BY <3>1 DEF Waiting
    <3> QED
      BY <1>2, <1>3, <3>2 DEF OnTheWay
  <2>3. CASE n = now
    <3>1. IsDue(s)
      BY <1>1, <2>1, <2>3 DEF WaitsFor, IsDue
    <3>2. [search |-> s, slot |-> Slot(s)] \in selected'
      BY <1>1, <3>1
    <3>3. lease[s].until <= now /\ now <= DueBy(s)
      BY <2>1, <2>3 DEF WaitsFor
    <3>4. \A j \in QueueOf(s) : j.slot = Slot(s) => Sound(j)
      BY <1>4, <2>1, <2>3 DEF WaitsFor, Slot, DatesOf
    <3>5. Picked(s)'
      BY <1>1, <1>2, <1>3, <3>2, <3>3, <3>4 DEF Picked, Sound
    <3> QED
      BY <1>2, <1>3, <3>5 DEF OnTheWay
  <2> QED
    BY <2>2, <2>3
<1> QED
  BY <1>2, <1>3, <1>5, <1>6, <1>7 DEF OnTheWay

LEMMA EnqueueInTime ==
  ASSUME Ground, InTime, EnqueueSelected
  PROVE  InTime'
<1> SUFFICES ASSUME NEW s \in Searches, enabled'[s] PROVE OnTheWay(s)'
  BY DEF InTime
<1> DEFINE new(d) == [search |-> d.search, slot |-> d.slot, try |-> 1, at |-> now]
<1>1. /\ jobs' = jobs \cup {new(d) : d \in Enqueued}
      /\ UNCHANGED <<now, ticked, run, lease, enabled, premium, last, changed, crashes>>
  BY DEF EnqueueSelected, sv, counters
<1>2. /\ RunsOf(s)' = RunsOf(s) /\ Interval(s)' = Interval(s) /\ DueBy(s)' = DueBy(s)
      /\ RunsOf(s) # {} /\ OnTheWay(s) => OnTheWay(s)'
  BY <1>1, SameDates
<1>3. OnTheWay(s) /\ QueueOf(s) \subseteq QueueOf(s)'
  BY <1>1, <1>2 DEF InTime, QueueOf
<1>4. DatesOf(s) /\ MaxTries \in Nat \ {0}
  BY Dated, Numbers DEF Ground, Dates
<1>5. \A j \in QueueOf(s)' : j \in QueueOf(s) \/ Sound(j)'
  BY <1>1, <1>4 DEF QueueOf, Sound, DatesOf
<1>6. CASE Queued(s)
  <2>1. Queued(s)'
    BY <1>1, <1>2, <1>3, <1>6 DEF Queued, Sound
  <2> QED
    BY <1>2, <1>3, <2>1 DEF OnTheWay
<1>7. CASE Picked(s)
  <2> DEFINE d == [search |-> s, slot |-> Slot(s)]
  <2>1. /\ d \in selected /\ d.search = s /\ d.slot = Slot(s)
        /\ lease[s].until <= now /\ now <= DueBy(s)
    BY <1>7 DEF Picked
  <2> SUFFICES ASSUME RunsOf(s) = {} PROVE Queued(s)'
    BY <1>2, <1>3 DEF OnTheWay
  <2>2. CASE Known(d.search, d.slot)
    <3>1. PICK j \in jobs : j.search = s /\ j.slot = Slot(s)
      BY <2>1, <2>2 DEF Known, RunsOf
    <3>2. j \in QueueOf(s) /\ Sound(j)
      BY <1>7, <3>1 DEF Picked, QueueOf
    <3>3. j.at <= DueBy(s)
      <4>1. j.at \in Int
        BY SearchTyped DEF Ground
      <4> QED
        BY <1>4, <2>1, <3>2, <4>1 DEF Sound, DatesOf
    <3> QED
      BY <1>1, <1>2, <1>3, <2>1, <3>2, <3>3 DEF Queued, Sound
  <2>3. CASE ~Known(d.search, d.slot)
    <3>1. PICK k \in jobs' : k = new(d)
      BY <1>1, <2>1, <2>3 DEF Enqueued
    <3>2. k.search = s /\ k.at = now /\ k.try = 1
      BY <2>1, <3>1
    <3>3. k \in QueueOf(s)'
      BY <3>2 DEF QueueOf
    <3>4. Sound(k)'
      BY <1>1, <1>4, <3>2 DEF Sound, DatesOf
    <3> QED
      BY <1>1, <1>2, <2>1, <3>2, <3>3, <3>4 DEF Queued
  <2> QED
    BY <2>2, <2>3
<1>8. CASE Waiting(s)
  <2>1. PICK n \in Nat : WaitsFor(s, n)
    BY <1>8 DEF Waiting
  <2>2. WaitsFor(s, n)'
    BY <1>1, <1>2, <1>5, <2>1 DEF WaitsFor, Sound
  <2>3. Waiting(s)'
    BY <2>2 DEF Waiting
  <2> QED
    BY <1>2, <1>3, <2>3 DEF OnTheWay
<1> QED
  BY <1>2, <1>3, <1>6, <1>7, <1>8 DEF OnTheWay

(* A stop costs a search at most StopCost.                                 *)
LEMMA CrashInTime ==
  ASSUME Ground, TypeOK', RunsAlone, Quick, InTime, Crash
  PROVE  InTime'
<1> SUFFICES ASSUME NEW s \in Searches, enabled'[s] PROVE OnTheWay(s)'
  BY DEF InTime
<1>1. PICK delay \in {0, Redelivery} :
        jobs' = jobs \cup {[search |-> run[r].search, slot |-> run[r].slot,
                            try |-> run[r].try + 1, at |-> now + delay] : r \in Busy}
  BY DEF Crash
<1>2. /\ run' = [r \in Runs |-> Idle] /\ crashes' = crashes + 1
      /\ lease' = [z \in Searches |-> [lease[z] EXCEPT !.by = NoRun]]
      /\ UNCHANGED <<now, ticked, enabled, premium, last, changed>>
  BY DEF Crash, sv
<1>3. RunsOf(s)' = {} /\ lease'[s].until = lease[s].until /\ Interval(s)' = Interval(s)
  <2>1. Busy' = {}
    BY <1>2, IdleRun DEF Busy
  <2>2. lease'[s].until = lease[s].until
    BY <1>2 DEF Ground, TypeOK
  <2> QED
    BY <1>2, <2>1, <2>2 DEF RunsOf, Interval
<1>4. DatesOf(s) /\ DatesOf(s)'
  BY Dated, DatedNext DEF Ground, Dates
<1> DEFINE i == Interval(s)
           cost == StopCost(i)
<1>5. DueBy(s)' = DueBy(s) + cost
  <2>1. DueAfter(last[s], changed[s], i, crashes + 1) = DueAfter(last[s], changed[s], i, crashes) + cost
    <3>1. /\ last[s] \in Int /\ last[s] >= -1 /\ changed[s] \in Nat /\ i \in Nat \ {0}
          /\ crashes \in Nat
      BY <1>4 DEF DatesOf
    <3> QED
      BY <3>1, DueDates
  <2> QED
    BY <1>2, <1>3, <2>1 DEF DueBy
<1>6. /\ cost \in Nat /\ LeaseTime + Tick - 1 + RunTime <= cost /\ i + Tick - 1 + RunTime <= cost
  BY <1>4, StopCosts DEF DatesOf
<1>7. \A j \in QueueOf(s)' : \/ j \in QueueOf(s)
                             \/ \E r \in RunsOf(s) : j.slot = run[r].slot
  BY <1>1 DEF QueueOf, RunsOf
<1>8. QueueOf(s) \subseteq QueueOf(s)' /\ \A j \in jobs : Sound(j) => Sound(j)'
  BY <1>1, <1>2 DEF QueueOf, Sound
<1>9. OnTheWay(s) /\ last[s] <= now
  BY <1>2 DEF InTime, Ground, Orderly, ClocksRight
<1>10. CASE RunsOf(s) # {}
  <2>1. PICK r \in RunsOf(s) : run[r].began <= DueBy(s) + RunTime
    BY <1>9, <1>10 DEF OnTheWay, Going
  <2>2. RunsOf(s) = {r} /\ r \in Busy /\ run[r].search = s
    BY <2>1 DEF RunsOf, RunsAlone
  <2> DEFINE b == run[r].began
  <2>3. /\ b \in Nat /\ b <= now /\ now <= b + RunTime /\ Past(run[r].slot, b)
        /\ lease[s].until = b + LeaseTime
    <3>1. lease[s] = [by |-> r, until |-> run[r].began + LeaseTime]
      BY <2>2 DEF Ground, Orderly, LeasesHeld
    <3> QED
      BY <2>2, <3>1, RunTyped DEF Ground, Orderly, ClocksRight, SlotsPast, IInv, OnTime
  <2>4. PICK x \in Nat : /\ b + LeaseTime <= x /\ b + i <= x /\ last[s] + i <= x
                         /\ x + Tick - 1 <= DueBy(s) + cost
    <3> DEFINE m == Max({LeaseTime, i})
    <3>1. m \in Nat /\ LeaseTime <= m /\ i <= m
      <4>1. i \in Nat
        BY <1>4 DEF DatesOf
      <4> HIDE DEF i
      <4>2. LeaseTime \in Int /\ i \in Int
        BY <4>1, Numbers
      <4>3. m \in {LeaseTime, i} /\ LeaseTime <= m /\ i <= m
        BY <4>2, MaxOfTwo
      <4> QED
        BY <4>1, <4>3, Numbers
    <3>2. cost = m + Tick - 1 + RunTime
      BY DEF StopCost
    <3> HIDE DEF m, cost, i
    <3>3. CASE last[s] + i <= b + m
      <4>1. b + m \in Nat /\ b + m + Tick - 1 <= DueBy(s) + cost
        BY <1>4, <2>1, <2>3, <3>1, <3>2, Numbers DEF DatesOf
      <4> QED
        BY <1>4, <2>3, <3>1, <3>3, <4>1, Numbers DEF DatesOf, i
    <3>4. CASE b + m <= last[s] + i
      <4>0. last[s] \in Int /\ i \in Nat /\ DueBy(s) \in Nat /\ last[s] + i + Tick - 1 <= DueBy(s)
        BY <1>4 DEF DatesOf, i
      <4>1. /\ last[s] + i \in Nat /\ last[s] + i + Tick - 1 <= DueBy(s) + cost
            /\ b + LeaseTime <= last[s] + i /\ b + i <= last[s] + i
        BY <1>6, <2>3, <3>1, <3>4, <4>0, Numbers
      <4> QED
        BY <4>0, <4>1
    <3> QED
      BY <1>4, <2>3, <3>1, <3>3, <3>4 DEF DatesOf, i
  <2>5. now < x /\ x - last[s] >= i
    BY <1>4, <2>3, <2>4, Numbers DEF DatesOf, Quick
  <2>6. ASSUME NEW j \in QueueOf(s)'
        PROVE  Sound(j)' \/ \E t \in Nat : Past(j.slot, t) /\ t + Interval(s)' <= x
    <3>1. CASE j \in QueueOf(s)
      <4>1. Sound(j) \/ Past(j.slot, b)
        BY <2>2, <3>1 DEF Ground, Orderly, Followers, QueueOf
      <4> QED
        BY <1>3, <1>8, <2>3, <2>4, <3>1, <4>1 DEF QueueOf
    <3>2. CASE j.slot = run[r].slot
      BY <1>3, <2>3, <2>4, <3>2
    <3> QED
      BY <1>7, <2>2, <3>1, <3>2
  <2>7. /\ now' \in Nat /\ lease'[s].until \in Int /\ last'[s] \in Int
        /\ Interval(s)' \in PlanIntervals /\ DueBy(s)' \in Nat /\ now' < x
        /\ x + Tick - 1 <= DueBy(s)' /\ lease'[s].until <= x /\ x - last'[s] >= Interval(s)'
    BY <1>2, <1>3, <1>4, <1>5, <2>3, <2>4, <2>5 DEF DatesOf
  <2>8. Waiting(s)'
    BY <2>6, <2>7, WaitsOn
  <2> QED
    BY <1>3, <2>8 DEF OnTheWay
<1>11. CASE RunsOf(s) = {} /\ Queued(s)
  <2>1. PICK j \in QueueOf(s) : Sound(j) /\ j.at <= DueBy(s)
    BY <1>11 DEF Queued
  <2>2. j \in jobs /\ j.at \in Int
    BY SearchTyped DEF QueueOf, Ground
  <2>3. j.at <= DueBy(s)' /\ Sound(j)' /\ j \in QueueOf(s)'
    BY <1>4, <1>5, <1>6, <1>8, <2>1, <2>2 DEF DatesOf
  <2>4. Queued(s)'
    BY <1>2, <1>3, <1>11, <2>3 DEF Queued
  <2> QED
    BY <1>3, <2>4 DEF OnTheWay
<1>12. CASE RunsOf(s) = {} /\ Picked(s)
  <2>1. PICK x \in Nat : x = now + i
    BY <1>4 DEF DatesOf
  <2>2. lease[s].until <= now /\ now <= DueBy(s)
    BY <1>12 DEF Picked
  <2>3. /\ now < x /\ x - last[s] >= i /\ lease[s].until <= x /\ x + Tick - 1 <= DueBy(s) + cost
    BY <1>4, <1>6, <1>9, <2>1, <2>2, Numbers DEF DatesOf
  <2>4. ASSUME NEW j \in QueueOf(s)'
        PROVE  Past(j.slot, now) /\ now + Interval(s)' <= x
    <3>1. j \in jobs
      BY <1>7, <1>12 DEF QueueOf
    <3> QED
      BY <1>3, <1>4, <2>1, <3>1 DEF Ground, Orderly, SlotsPast, DatesOf
  <2>5. /\ now' \in Nat /\ lease'[s].until \in Int /\ last'[s] \in Int
        /\ Interval(s)' \in PlanIntervals /\ DueBy(s)' \in Nat /\ now' < x
        /\ x + Tick - 1 <= DueBy(s)' /\ lease'[s].until <= x /\ x - last'[s] >= Interval(s)'
    BY <1>2, <1>3, <1>4, <1>5, <2>3 DEF DatesOf
  <2>6. now \in Nat
    BY <1>4 DEF DatesOf
  <2>7. Waiting(s)'
    BY <2>4, <2>5, <2>6, WaitsOn
  <2> QED
    BY <1>3, <2>7 DEF OnTheWay
<1>13. CASE RunsOf(s) = {} /\ Waiting(s)
  <2>1. PICK n \in Nat : WaitsFor(s, n)
    BY <1>13 DEF Waiting
  <2>2. n <= DueBy(s)'
    BY <1>4, <1>5, <1>6, <2>1 DEF WaitsFor, DatesOf
  <2>3. \A j \in QueueOf(s)' : j \in QueueOf(s) /\ j \in jobs
    BY <1>7, <1>13 DEF QueueOf
  <2>4. WaitsFor(s, n)'
    BY <1>2, <1>3, <1>8, <2>1, <2>2, <2>3 DEF WaitsFor
  <2>5. Waiting(s)'
    BY <2>4 DEF Waiting
  <2> QED
    BY <1>3, <2>5 DEF OnTheWay
<1> QED
  BY <1>9, <1>10, <1>11, <1>12, <1>13 DEF OnTheWay

LEMMA OwnerInTime ==
  ASSUME Ground, TypeOK', InTime,
         NEW z \in Searches, ToggleMonitoring(z) \/ SaveSearch(z) \/ ChangePlan(z)
  PROVE  InTime'
<1>1. /\ UNCHANGED <<now, ticked, selected, jobs, run, lease, last, crashes>>
      /\ changed' = [changed EXCEPT ![z] = now]
      /\ enabled' \in {enabled, [enabled EXCEPT ![z] = ~@], [enabled EXCEPT ![z] = TRUE]}
      /\ premium' \in {premium, [premium EXCEPT ![z] = ~@]}
  BY DEF ToggleMonitoring, SaveSearch, ChangePlan
<1>2. /\ changed \in [Searches -> 0..MaxTime] /\ enabled \in [Searches -> BOOLEAN]
      /\ premium \in [Searches -> BOOLEAN]
  BY DEF Ground, TypeOK
<1>3. Busy' = Busy /\ \A s \in Searches : RunsOf(s)' = RunsOf(s) /\ QueueOf(s)' = QueueOf(s)
  BY <1>1 DEF Busy, RunsOf, QueueOf
<1>4. ASSUME NEW s \in Searches, s # z, enabled'[s] PROVE OnTheWay(s)'
  <2>1. changed'[s] = changed[s]
    BY <1>1, <1>2, <1>4
  <2>2. enabled'[s] = enabled[s]
    BY <1>1, <1>2, <1>4
  <2>3. premium'[s] = premium[s]
    BY <1>1, <1>2, <1>4
  <2>4. enabled[s] => OnTheWay(s)
    BY DEF InTime
  <2> QED
    BY <1>1, <1>3, <1>4, <2>1, <2>2, <2>3, <2>4, Aside
<1>5. OnTheWay(z)'
  <2>1. DatesOf(z) /\ DatesOf(z)' /\ changed'[z] = now /\ now' = now /\ last[z] <= now
    BY <1>1, <1>2, Dated, DatedNext DEF Ground, Dates, Orderly, ClocksRight
  <2>2. CASE RunsOf(z) # {}
    <3>1. \A r \in RunsOf(z) : run[r].began <= now /\ run[r].began \in Nat
      BY RunTyped DEF RunsOf, Ground, Orderly, ClocksRight
    <3>2. now <= DueBy(z)' + RunTime
      BY <2>1, Numbers DEF DatesOf
    <3>3. \A r \in RunsOf(z)' : run'[r].began <= DueBy(z)' + RunTime
      BY <1>1, <1>3, <2>1, <3>1, <3>2, Numbers DEF DatesOf
    <3> QED
      BY <1>3, <2>2, <3>3, StillGoing
  <2>3. CASE RunsOf(z) = {}
    <3>1. \/ lease[z].until <= now
          \/ crashes > 0 /\ lease[z].until <= now + LeaseTime
      BY <2>3 DEF Ground, Orderly, LeasesEnd
    <3>2. PICK i \in Nat \ {0} : i = Interval(z)'
      BY <2>1 DEF DatesOf
    <3>3. StopCost(i) \in Nat /\ LeaseTime + Tick - 1 + RunTime <= StopCost(i)
      BY StopCosts
    <3>4. PICK x \in Nat : /\ now + i <= x /\ lease[z].until <= x
                           /\ x + Tick - 1 <= DueBy(z)'
      <4>1. /\ now \in Nat /\ now + i + Tick - 1 <= DueBy(z)' /\ lease[z].until \in Int
            /\ crashes > 0 => now + i + Tick - 1 + StopCost(i) <= DueBy(z)'
            /\ DueBy(z)' \in Nat /\ crashes \in Nat
        BY <1>1, <2>1, <3>2 DEF DatesOf
      <4>2. CASE lease[z].until <= now + i
        BY <4>1, <4>2
      <4>3. CASE now + i < lease[z].until
        <5>1. crashes > 0 /\ lease[z].until <= now + LeaseTime
          BY <3>1, <4>1, <4>3
        <5>2. lease[z].until \in Nat /\ lease[z].until + Tick - 1 <= DueBy(z)'
          BY <3>3, <4>1, <4>3, <5>1, Numbers
        <5> QED
          BY <4>1, <4>3, <5>2
      <4> QED
        BY <4>1, <4>2, <4>3
    <3>5. now < x /\ x - last[z] >= i
      BY <2>1, <3>4 DEF DatesOf
    <3>6. ASSUME NEW j \in QueueOf(z)' PROVE Past(j.slot, now) /\ now + Interval(z)' <= x
      <4>1. j \in jobs
        BY <1>3 DEF QueueOf
      <4> QED
        BY <3>2, <3>4, <4>1 DEF Ground, Orderly, SlotsPast
    <3>7. /\ now' \in Nat /\ lease'[z].until \in Int /\ last'[z] \in Int /\ now \in Nat
          /\ Interval(z)' \in PlanIntervals /\ DueBy(z)' \in Nat /\ now' < x
          /\ lease'[z].until <= x /\ x - last'[z] >= Interval(z)'
      BY <1>1, <2>1, <3>2, <3>4, <3>5 DEF DatesOf
    <3>8. Waiting(z)'
      BY <3>4, <3>6, <3>7, WaitsOn
    <3> QED
      BY <1>3, <2>3, <3>8 DEF OnTheWay
  <2> QED
    BY <2>2, <2>3
<1> QED
  BY <1>4, <1>5 DEF InTime

LEMMA TimeInTime ==
  ASSUME Ground, TypeOK', InTime, PassTime
  PROVE  InTime'
<1> SUFFICES ASSUME NEW s \in Searches, enabled'[s] PROVE OnTheWay(s)'
  BY DEF InTime
<1>1. /\ now' = now + 1 /\ ticked' = FALSE /\ selected = {} /\ (now % Tick = 0 => ticked)
      /\ UNCHANGED <<jobs, run, lease, enabled, premium, last, changed, crashes>>
  BY DEF PassTime, sv, counters
<1>2. /\ RunsOf(s)' = RunsOf(s) /\ Interval(s)' = Interval(s) /\ DueBy(s)' = DueBy(s)
      /\ RunsOf(s) # {} /\ OnTheWay(s) => OnTheWay(s)'
  BY <1>1, SameDates
<1>3. OnTheWay(s) /\ QueueOf(s)' = QueueOf(s)
  BY <1>1 DEF InTime, QueueOf
<1>4. DatesOf(s)
  BY Dated DEF Ground, Dates
<1>5. \A j \in QueueOf(s) : Sound(j) => Sound(j)'
  <2> SUFFICES ASSUME NEW j \in QueueOf(s), j.at <= now PROVE j.at <= now'
    BY DEF Sound
  <2>1. j.at \in Int
    BY SearchTyped DEF QueueOf, Ground
  <2> QED
    BY <1>1, <1>4, <2>1 DEF DatesOf
<1>6. CASE Queued(s)
  <2>1. lease[s].until <= now'
    BY <1>1, <1>4, <1>6 DEF Queued, DatesOf
  <2>2. Queued(s)'
    BY <1>1, <1>2, <1>3, <1>5, <1>6, <2>1 DEF Queued
  <2> QED
    BY <1>2, <1>3, <2>2 DEF OnTheWay
<1>7. ~Picked(s)
  BY <1>1 DEF Picked
<1>8. CASE Waiting(s)
  <2>1. PICK n \in Nat : WaitsFor(s, n)
    BY <1>8 DEF Waiting
  <2>2. now' <= n /\ ~ticked'
    BY <1>1, <1>4, <2>1 DEF WaitsFor, DatesOf
  <2>3. WaitsFor(s, n)'
    BY <1>1, <1>2, <1>3, <1>5, <2>1, <2>2 DEF WaitsFor
  <2>4. Waiting(s)'
    BY <2>3 DEF Waiting
  <2> QED
    BY <1>2, <1>3, <2>4 DEF OnTheWay
<1> QED
  BY <1>2, <1>3, <1>6, <1>7, <1>8 DEF OnTheWay

LEMMA InitOrderly == Init => Orderly /\ InTime
<1> SUFFICES ASSUME Init PROVE Orderly /\ InTime
  OBVIOUS
<1>1. Busy = {} /\ jobs = {} /\ selected = {}
  BY IdleRun DEF Init, Busy
<1>2. Orderly
  BY <1>1 DEF Init, Orderly, Prompt, SlotsPast, Followers, LeasesHeld, LeasesEnd, ClocksRight, PickedOnce, Never
<1>3. Dates
  BY TypedInit, Dated
<1>4. ASSUME NEW s \in Searches PROVE OnTheWay(s)
  <2>1. RunsOf(s) = {} /\ QueueOf(s) = {}
    BY <1>1 DEF RunsOf, QueueOf
  <2>2. 0 % Tick = 0
    BY Numbers
  <2>3. DatesOf(s)
    BY <1>3 DEF Dates
  <2>4. 0 <= DueBy(s) /\ now = 0 /\ ~ticked /\ lease[s].until = 0 /\ last[s] = Never
    BY <2>3 DEF Init, DatesOf
  <2>5. WaitsFor(s, 0)
    BY <2>1, <2>2, <2>4 DEF WaitsFor
  <2>6. Waiting(s)
    BY <2>5 DEF Waiting
  <2> QED
    BY <2>1, <2>6 DEF OnTheWay
<1> QED
  BY <1>2, <1>4 DEF InTime

LEMMA StutterInTime ==
  ASSUME InTime, UNCHANGED vars
  PROVE  InTime'
<1> SUFFICES ASSUME NEW s \in Searches, enabled'[s] PROVE OnTheWay(s)'
  BY DEF InTime
<1>1. /\ UNCHANGED <<now, ticked, selected, jobs, run, lease>>
      /\ UNCHANGED <<enabled, premium, last, changed, crashes>>
  BY DEF vars, sv, counters
<1>2. QueueOf(s)' = QueueOf(s) /\ RunsOf(s)' = RunsOf(s)
  BY <1>1 DEF QueueOf, RunsOf, Busy
<1>3. OnTheWay(s)
  BY <1>1 DEF InTime
<1> QED
  BY <1>1, <1>2, <1>3, Aside

LEMMA StepInTime == Quick /\ TypeOK /\ IInv /\ Orderly /\ InTime /\ [Next]_vars => Orderly' /\ InTime'
<1> SUFFICES ASSUME Quick, Ground, InTime, [Next]_vars PROVE Orderly' /\ InTime'
  BY DEF Ground
<1>1. TypeOK' /\ RunsAlone
  BY TypesStep DEF Ground, IInv, Exclusive, Quick
<1>2. ASSUME NEW r \in Runs,
             Fetch(r) \/ Succeed(r) \/ Finish(r) \/ Fails(r) \/ DeliveryFails(r) \/ RecordFailure(r)
      PROVE  Orderly' /\ InTime'
  BY <1>1, <1>2, RunOrderly, RunInTime
<1>3. ASSUME NEW j \in Ready, SkipJob(j) \/ \E r \in Runs : StartJob(j, r)
      PROVE  Orderly' /\ InTime'
  <2>1. j \in jobs /\ j.at <= now
    BY DEF Ready
  <2>2. CASE SkipJob(j)
    BY <2>1, <2>2, QueueOrderly, SkipInTime
  <2>3. ASSUME NEW r \in Runs, StartJob(j, r) PROVE Orderly' /\ InTime'
    BY <2>1, <2>3, StartOrderly, StartInTime DEF Quick
  <2> QED
    BY <1>3, <2>2, <2>3
<1>4. ASSUME NEW s \in Searches, ToggleMonitoring(s) \/ SaveSearch(s) \/ ChangePlan(s)
      PROVE  Orderly' /\ InTime'
  BY <1>1, <1>4, OwnerOrderly, OwnerInTime
<1>5. CASE SelectDue \/ EnqueueSelected
  BY <1>5, QueueOrderly, SelectInTime, EnqueueInTime
<1>6. CASE Crash
  BY <1>1, <1>6, CrashOrderly, CrashInTime
<1>7. CASE PassTime
  BY <1>1, <1>7, TimeOrderly, TimeInTime
<1>8. CASE UNCHANGED vars
  BY <1>8, StutterOrderly, StutterInTime DEF Ground
<1> QED
  BY <1>2, <1>3, <1>4, <1>5, <1>6, <1>7, <1>8 DEF Next

(* The invariant says what the property does.                              *)
LEMMA NeverLate == Quick /\ TypeOK /\ IInv /\ Orderly /\ InTime => CheckedInTime
<1> SUFFICES ASSUME Quick, Ground, InTime, NEW s \in Searches, enabled[s]
             PROVE  now - Max({last[s], changed[s]}) <= Lateness(s)
  BY DEF Ground, CheckedInTime
<1>1. DatesOf(s) /\ RunTime \in Nat
  BY Dated, Numbers DEF Ground, Dates
<1>2. now <= DueBy(s) + 2 * RunTime
  <2>1. CASE RunsOf(s) # {}
    <3>1. PICK r \in RunsOf(s) : run[r].began <= DueBy(s) + RunTime
      BY <2>1 DEF InTime, OnTheWay, Going
    <3>2. run[r].began \in Nat /\ now <= run[r].began + RunTime
      BY RunTyped DEF RunsOf, Ground, IInv, OnTime
    <3> QED
      BY <1>1, <3>1, <3>2 DEF DatesOf
  <2>2. CASE RunsOf(s) = {}
    <3>1. now <= DueBy(s) + RunTime
      BY <2>2, NotOverdue DEF InTime, OnTheWay
    <3> QED
      BY <1>1, <3>1 DEF DatesOf
  <2> QED
    BY <2>1, <2>2
<1> DEFINE m == Max({last[s], changed[s]})
           p == crashes * StopCost(Interval(s))
<1>3. DueBy(s) = m + Interval(s) + Tick - 1 + p
  BY DEF DueBy, DueAfter
<1>4. Lateness(s) = Interval(s) + Tick - 1 + 2 * RunTime + p
  BY DEF Lateness, StopCost
<1>5. m \in Int /\ p \in Int /\ Interval(s) \in Int /\ now \in Int
  <2>1. StopCost(Interval(s)) \in Nat
    BY <1>1, StopCosts DEF DatesOf
  <2>2. p \in Int
    BY <1>1, <2>1 DEF DatesOf
  <2>3. m \in Int
    <3>1. last[s] \in Int /\ changed[s] \in Int
      BY <1>1 DEF DatesOf
    <3>2. m \in {last[s], changed[s]}
      BY <3>1, MaxOfTwo
    <3> QED
      BY <3>1, <3>2
  <2> QED
    BY <1>1, <2>2, <2>3 DEF DatesOf
<1> HIDE DEF m, p
<1>6. now - m <= Lateness(s)
  BY <1>1, <1>2, <1>3, <1>4, <1>5, Numbers
<1> QED
  BY <1>6 DEF m

(* An active search is checked within its interval, and what its job and   *)
(* the stops of the worker cost, if runs are shorter than the lease and    *)
(* than the intervals (enqueue_active_searches, sync_search).              *)
THEOREM ChecksAreInTime ==
  ASSUME RunTime < LeaseTime, RunTime < FreeInterval, RunTime < PremiumInterval
  PROVE  Spec => []CheckedInTime
<1>1. Quick
  BY DEF Quick
<1>2. Init => TypeOK /\ IInv /\ Orderly /\ InTime
  BY TypedInit, InitInv, InitOrderly
<1>3. TypeOK /\ IInv /\ Orderly /\ InTime /\ [Next]_vars => (TypeOK /\ IInv /\ Orderly /\ InTime)'
  BY <1>1, TypesStep, StepInv, StepInTime
<1>4. TypeOK /\ IInv /\ Orderly /\ InTime => CheckedInTime
  BY <1>1, NeverLate
<1> QED
  BY <1>2, <1>3, <1>4, PTL DEF Spec

-------------------------------------------------------------------------------
(***************************************************************************)
(* Deliveries.                                                             *)
(***************************************************************************)

(* The transaction v has inserted the row of key x, or has sent its message.*)
Holds(v, x) == v.pc # "idle" /\ x[2] = v.slot /\ v.wrote[x[1]] # "none"
HasSent(v, x) == Holds(v, x) /\ v.wrote[x[1]] = "sent"

(* A transaction writes a row for the user it is at, once, and none for    *)
(* those it has not come to.                                               *)
JobOk(v) ==
  /\ v.pc \in {"insert", "reserved", "send"} => v.at \in Users \ v.todo
  /\ \A u \in v.todo : v.wrote[u] = "none"
  /\ v.pc = "insert" => v.wrote[v.at] = "none"
  /\ v.pc \in {"reserved", "send"} => v.wrote[v.at] = "reserved"

JobsOk == \A j \in Jobs : JobOk(job[j])

(* The unique key: one transaction holds it, and no committed row has it.  *)
OneHolder == \A x \in Keys : \A j, k \in Jobs : Holds(job[j], x) /\ Holds(job[k], x) => j = k
RowsFree == \A x \in Keys : \A j \in Jobs : Holds(job[j], x) => rows[x] = "none"

(* MessagesAccounted in terms of Holds.                                    *)
Told(x) == rows[x] = "sent" \/ \E j \in Jobs : HasSent(job[j], x)
Accounted == \A x \in Keys : x[1] \in members => sent[x] = lost[x] + (IF Told(x) THEN 1 ELSE 0)

Books == JobsOk /\ OneHolder /\ RowsFree /\ Accounted
DeliveryInv == DeliveriesTypeOK /\ Books

LEMMA AccountedSame == MessagesAccounted <=> Accounted
BY DEF MessagesAccounted, Accounted, Recorded, Told, HeldBy, Holds, HasSent

(***************************************************************************)
(* Transactions.                                                           *)
(***************************************************************************)

Transaction == {NoTransaction} \cup Working

LEMMA Fields ==
  ASSUME NEW v \in Transaction
  PROVE  /\ v.pc \in {"idle", "next", "insert", "reserved", "send"}
         /\ v.todo \subseteq Users /\ v.at \in Users \cup {NoUser} /\ v.wrote \in [Users -> Status]
         /\ v.pc # "idle" => v \in Working /\ v.slot \in Slots
         /\ v.pc = "idle" => v = NoTransaction
BY DEF Transaction, NoTransaction, Working, NoRows, Status

LEMMA IdleTransaction ==
  /\ NoTransaction \in Transaction /\ JobOk(NoTransaction)
  /\ \A x \in Keys : ~Holds(NoTransaction, x) /\ ~HasSent(NoTransaction, x)
BY DEF Transaction, JobOk, NoTransaction, Holds, HasSent

LEMMA JobTyped ==
  ASSUME DeliveriesTypeOK, NEW j \in Jobs
  PROVE  job \in [Jobs -> Transaction] /\ job[j] \in Transaction
BY DEF DeliveriesTypeOK, Transaction

LEMMA JobStep ==
  ASSUME DeliveriesTypeOK, NEW j \in Jobs, NEW v \in Transaction, job' = [job EXCEPT ![j] = v]
  PROVE  /\ job' \in [Jobs -> Transaction] /\ job'[j] = v
         /\ \A k \in Jobs \ {j} : job'[k] = job[k]
BY JobTyped

LEMMA KeyTyped ==
  ASSUME DeliveriesTypeOK, NEW j \in Jobs, NEW u \in Users, job[j].pc # "idle"
  PROVE  KeyOf(j, u) \in Keys /\ KeyOf(j, u)[1] = u /\ KeyOf(j, u)[2] = job[j].slot
BY JobTyped, Fields DEF KeyOf, Keys

LEMMA DoneFields ==
  ASSUME DeliveriesTypeOK, NEW j \in Jobs, job[j].pc # "idle"
  PROVE  /\ Done(j) \in Working /\ Done(j).pc = "next" /\ Done(j).at = NoUser
         /\ Done(j).slot = job[j].slot /\ Done(j).todo = job[j].todo /\ Done(j).wrote = job[j].wrote
<1>1. job[j] \in Working
  BY JobTyped, Fields
<1> QED
  BY <1>1 DEF Done, Working

LEMMA WroteFields ==
  ASSUME DeliveriesTypeOK, NEW j \in Jobs, job[j].pc # "idle", job[j].at \in Users, NEW status \in Status
  PROVE  /\ Wrote(j, status) \in Working /\ Wrote(j, status).pc = "next"
         /\ Wrote(j, status).slot = job[j].slot /\ Wrote(j, status).todo = job[j].todo
         /\ Wrote(j, status).wrote = [job[j].wrote EXCEPT ![job[j].at] = status]
<1>1. Done(j) \in Working /\ Done(j).pc = "next" /\ Done(j).slot = job[j].slot
      /\ Done(j).todo = job[j].todo /\ Done(j).wrote = job[j].wrote
  BY DoneFields
<1> DEFINE d == Done(j)
           w == [d.wrote EXCEPT ![job[j].at] = status]
<1>2. Wrote(j, status) = [d EXCEPT !.wrote = w]
  BY DEF Wrote
<1> HIDE DEF d
<1>3. d.wrote \in [Users -> Status] /\ d \in Working
  BY <1>1 DEF Working, d
<1>4. w \in [Users -> Status]
  BY <1>3
<1> HIDE DEF w
<1>5. /\ [d EXCEPT !.wrote = w] \in Working /\ [d EXCEPT !.wrote = w].wrote = w
      /\ [d EXCEPT !.wrote = w].pc = d.pc /\ [d EXCEPT !.wrote = w].slot = d.slot
      /\ [d EXCEPT !.wrote = w].todo = d.todo
  BY <1>3, <1>4 DEF Working
<1> QED
  BY <1>1, <1>2, <1>5 DEF w, d

(***************************************************************************)
(* A transaction goes on, sending and committing nothing.                  *)
(***************************************************************************)

LEMMA QuietStep ==
  ASSUME DeliveryInv, NEW j \in Jobs, NEW v \in Transaction, job' = [job EXCEPT ![j] = v],
         UNCHANGED <<members, rows, sent, lost>>,
         JobOk(v),
         \A x \in Keys : Holds(v, x) =>
            \/ Holds(job[j], x)
            \/ rows[x] = "none" /\ \A k \in Jobs \ {j} : ~Holds(job[k], x),
         \A x \in Keys : HasSent(v, x) <=> HasSent(job[j], x)
  PROVE  Books'
<1>1. job'[j] = v /\ \A k \in Jobs \ {j} : job'[k] = job[k]
  BY JobStep DEF DeliveryInv
<1>2. JobsOk'
  <2>1. \A k \in Jobs : JobOk(job'[k])
    BY <1>1 DEF DeliveryInv, Books, JobsOk
  <2> QED
    BY <2>1 DEF JobsOk, JobOk
<1>3. \A x \in Keys : \A k, l \in Jobs : Holds(job'[k], x) /\ Holds(job'[l], x) => k = l
  BY <1>1 DEF DeliveryInv, Books, OneHolder
<1>4. \A x \in Keys : \A k \in Jobs : Holds(job'[k], x) => rows[x] = "none"
  BY <1>1 DEF DeliveryInv, Books, RowsFree
<1>5. \A x \in Keys : (\E k \in Jobs : HasSent(job'[k], x)) <=> (\E k \in Jobs : HasSent(job[k], x))
  BY <1>1
<1>6. Accounted'
  <2> SUFFICES ASSUME NEW x \in Keys, x[1] \in members
               PROVE  sent[x] = lost[x] + (IF rows[x] = "sent" \/ \E k \in Jobs : HasSent(job'[k], x) THEN 1 ELSE 0)
    BY DEF Accounted, Told, HasSent, Holds
  <2> QED
    BY <1>5 DEF DeliveryInv, Books, Accounted, Told
<1>7. OneHolder' /\ RowsFree'
  BY <1>3, <1>4 DEF OneHolder, RowsFree, Holds
<1> QED
  BY <1>2, <1>6, <1>7 DEF Books

(* The users change: nobody joins, and rows only go.                       *)
LEMMA OutsideStep ==
  ASSUME DeliveryInv, members' \subseteq members, UNCHANGED <<job, sent, lost>>,
         \A x \in Keys : rows'[x] = rows[x] \/ (rows'[x] = "none" /\ x[1] \notin members')
  PROVE  Books'
<1>1. JobsOk' /\ OneHolder'
  BY DEF DeliveryInv, Books, JobsOk, JobOk, OneHolder, Holds
<1>2. RowsFree'
  BY DEF DeliveryInv, Books, RowsFree, Holds
<1>3. Accounted'
  <2> SUFFICES ASSUME NEW x \in Keys, x[1] \in members'
               PROVE  sent[x] = lost[x] + (IF rows'[x] = "sent" \/ \E k \in Jobs : HasSent(job[k], x) THEN 1 ELSE 0)
    BY DEF Accounted, Told, HasSent, Holds
  <2>1. rows'[x] = rows[x] /\ x[1] \in members
    OBVIOUS
  <2> QED
    BY <2>1 DEF DeliveryInv, Books, Accounted, Told
<1> QED
  BY <1>1, <1>2, <1>3 DEF Books

(***************************************************************************)
(* The steps of a transaction.                                             *)
(***************************************************************************)

LEMMA TypedStep ==
  ASSUME DeliveriesTypeOK, NEW j \in Jobs, NEW v \in Transaction, job' = [job EXCEPT ![j] = v],
         UNCHANGED <<kind, ranked, hour, begun, people>>,
         queue' \subseteq Slots, rows' \in [Keys -> Status],
         sent' \in [Keys -> Nat], lost' \in [Keys -> Nat], troubles' \in 0..MaxTroubles
  PROVE  DeliveriesTypeOK'
<1>1. job' \in [Jobs -> {NoTransaction} \cup Working]
  BY JobStep DEF Transaction
<1> QED
  BY <1>1 DEF DeliveriesTypeOK, people

LEMMA SlotTyped ==
  ASSUME DeliveriesTypeOK
  PROVE  /\ SlotAt(kind, hour) \in Slots
         /\ \A q \in queue : q \in Slots /\ SlotOf(q) \in Slots
BY DEF DeliveriesTypeOK, Slots, SlotOf

LEMMA SelectedTyped ==
  ASSUME DeliveriesTypeOK, NEW q
  PROVE  Selected(q) \subseteq Users
<1>1. members \subseteq Users
  BY DEF DeliveriesTypeOK
<1> QED
  BY <1>1 DEF Selected, DueMenus

LEMMA BeginStep ==
  ASSUME DeliveryInv, NEW j \in Jobs, NEW q \in queue, Begin(j, q)
  PROVE  DeliveryInv'
<1> DEFINE v == [pc |-> "next", slot |-> SlotOf(q), todo |-> Selected(SlotOf(q)), at |-> NoUser, wrote |-> NoRows]
<1>1. SlotOf(q) \in Slots /\ Selected(SlotOf(q)) \subseteq Users /\ NoRows \in [Users -> Status]
  BY SlotTyped, SelectedTyped DEF DeliveryInv, NoRows, Status
<1>2. v \in Transaction
  BY <1>1 DEF Transaction, Working
<1>3. /\ v.pc = "next" /\ v.wrote = NoRows
      /\ job' = [job EXCEPT ![j] = v] /\ job[j] = NoTransaction /\ queue' \subseteq queue
      /\ UNCHANGED <<kind, ranked, hour, begun, people, rows, sent, lost, troubles>>
  BY DEF Begin
<1> HIDE DEF v
<1>4. \A u \in Users : v.wrote[u] = "none"
  BY <1>3 DEF NoRows
<1>5. v.todo \subseteq Users
  BY <1>2, Fields
<1>6. JobOk(v)
  BY <1>3, <1>4, <1>5 DEF JobOk
<1>7. \A x \in Keys : ~Holds(v, x) /\ ~HasSent(v, x) /\ ~HasSent(job[j], x)
  BY <1>3, <1>4, IdleTransaction DEF Holds, HasSent, Keys
<1>8. Books'
  BY <1>2, <1>3, <1>6, <1>7, QuietStep DEF people
<1>9. DeliveriesTypeOK'
  <2>1. /\ queue \subseteq Slots /\ rows \in [Keys -> Status] /\ sent \in [Keys -> Nat]
        /\ lost \in [Keys -> Nat] /\ troubles \in 0..MaxTroubles
    BY DEF DeliveryInv, DeliveriesTypeOK
  <2> QED
    BY <1>2, <1>3, <2>1, TypedStep DEF DeliveryInv
<1> QED
  BY <1>8, <1>9 DEF DeliveryInv

(* What Take, Insert, InsertRefused, Recheck and SendFails have in common. *)
LEMMA WithinStep ==
  ASSUME DeliveryInv, NEW j \in Jobs, NEW v \in Working, job[j].pc # "idle", job' = [job EXCEPT ![j] = v],
         UNCHANGED <<kind, ranked, hour, begun, queue, people, rows, sent, lost>>,
         troubles' \in 0..MaxTroubles,
         v.slot = job[j].slot, JobOk(v),
         \A u \in Users : v.wrote[u] # "none" =>
            \/ job[j].wrote[u] # "none"
            \/ rows[KeyOf(j, u)] = "none" /\ \A k \in Jobs \ {j} : ~Holds(job[k], KeyOf(j, u)),
         \A u \in Users : v.wrote[u] = "sent" <=> job[j].wrote[u] = "sent"
  PROVE  DeliveryInv'
<1>1. v \in Transaction /\ v.pc # "idle"
  BY DEF Transaction, Working
<1>2. \A x \in Keys : x[1] \in Users /\ (x[2] = job[j].slot => x = KeyOf(j, x[1]))
  BY DEF Keys, KeyOf
<1>3. \A x \in Keys : Holds(v, x) =>
            \/ Holds(job[j], x)
            \/ rows[x] = "none" /\ \A k \in Jobs \ {j} : ~Holds(job[k], x)
  BY <1>2 DEF Holds
<1>4. \A x \in Keys : HasSent(v, x) <=> HasSent(job[j], x)
  BY <1>1, <1>2 DEF Holds, HasSent
<1>5. Books'
  BY <1>1, <1>3, <1>4, QuietStep DEF people
<1>6. DeliveriesTypeOK'
  <2>1. /\ queue \subseteq Slots /\ rows \in [Keys -> Status] /\ sent \in [Keys -> Nat]
        /\ lost \in [Keys -> Nat]
    BY DEF DeliveryInv, DeliveriesTypeOK
  <2> QED
    BY <1>1, <2>1, TypedStep DEF DeliveryInv
<1> QED
  BY <1>5, <1>6 DEF DeliveryInv

LEMMA TroublesTyped == DeliveriesTypeOK => troubles \in 0..MaxTroubles
BY DEF DeliveriesTypeOK

LEMMA TroubleTyped ==
  ASSUME DeliveriesTypeOK, Trouble
  PROVE  troubles' \in 0..MaxTroubles
BY DeliveriesAssumption DEF DeliveriesTypeOK, Trouble

LEMMA TakeStep ==
  ASSUME DeliveryInv, NEW j \in Jobs, NEW u \in Users, Take(j, u)
  PROVE  DeliveryInv'
<1> DEFINE p == IF Passed(j, u) THEN "next" ELSE "insert"
           a == IF Passed(j, u) THEN NoUser ELSE u
           t == job[j].todo \ {u}
           v == [[[job[j] EXCEPT !.todo = t] EXCEPT !.pc = p] EXCEPT !.at = a]
<1>1. job[j].pc = "next" /\ u \in job[j].todo
  BY DEF Take
<1>2. job \in [Jobs -> Transaction] /\ job[j] \in Working /\ job[j].todo \subseteq Users
  BY <1>1, JobTyped, Fields DEF DeliveryInv
<1>3. p \in {"next", "insert"} /\ a \in Users \cup {NoUser} /\ t \subseteq Users /\ (p = "insert" => a = u)
  BY <1>2
<1>4. job' = [job EXCEPT ![j] = v]
  BY <1>2 DEF Take
<1> HIDE DEF p, a, t
<1>5. /\ v \in Working /\ v.pc = p /\ v.at = a /\ v.todo = t
      /\ v.slot = job[j].slot /\ v.wrote = job[j].wrote
  BY <1>2, <1>3 DEF Working
<1> HIDE DEF v
<1>6. \A w \in job[j].todo : job[j].wrote[w] = "none"
  BY DEF DeliveryInv, Books, JobsOk, JobOk
<1>7. JobOk(v)
  BY <1>1, <1>2, <1>3, <1>5, <1>6 DEF JobOk, t
<1>8. UNCHANGED <<kind, ranked, hour, begun, queue, people, rows, sent, lost, troubles>>
  BY DEF Take
<1> QED
  BY <1>1, <1>4, <1>5, <1>7, <1>8, TroublesTyped, WithinStep DEF DeliveryInv

LEMMA InsertStep ==
  ASSUME DeliveryInv, NEW j \in Jobs, Insert(j)
  PROVE  DeliveryInv'
<1> DEFINE u == job[j].at
           w == [job[j].wrote EXCEPT ![u] = "reserved"]
           p == IF kind = "digest" THEN "reserved" ELSE "send"
           v == [[job[j] EXCEPT !.wrote = w] EXCEPT !.pc = p]
<1>1. job[j].pc = "insert" /\ job \in [Jobs -> Transaction] /\ job[j] \in Working
  BY JobTyped, Fields DEF Insert, DeliveryInv
<1>2. JobOk(job[j])
  BY DEF DeliveryInv, Books, JobsOk
<1>3. /\ u \in Users /\ u \notin job[j].todo /\ job[j].wrote[u] = "none"
      /\ job[j].wrote \in [Users -> Status] /\ job[j].todo \subseteq Users
      /\ \A x \in job[j].todo : job[j].wrote[x] = "none"
  BY <1>1, <1>2, Fields DEF JobOk
<1>4. w \in [Users -> Status] /\ w[u] = "reserved" /\ \A x \in Users \ {u} : w[x] = job[j].wrote[x]
  BY <1>3 DEF Status
<1>5. job' = [job EXCEPT ![j] = v]
  BY <1>1 DEF Insert
<1> HIDE DEF w
<1>6. p \in {"reserved", "send"}
  OBVIOUS
<1> HIDE DEF p
<1>7. /\ v \in Working /\ v.pc = p /\ v.at = u /\ v.todo = job[j].todo
      /\ v.slot = job[j].slot /\ v.wrote = w
  BY <1>1, <1>4, <1>6 DEF Working
<1> HIDE DEF v
<1>8. JobOk(v)
  BY <1>3, <1>4, <1>6, <1>7 DEF JobOk
<1>9. rows[KeyOf(j, u)] = "none" /\ \A k \in Jobs \ {j} : ~Holds(job[k], KeyOf(j, u))
  BY <1>1 DEF Insert, Refused, Waits, HeldBy, Holds
<1>10. UNCHANGED <<kind, ranked, hour, begun, queue, people, rows, sent, lost, troubles>>
  BY DEF Insert
<1>11. \A x \in Users : v.wrote[x] # "none" =>
            \/ job[j].wrote[x] # "none"
            \/ rows[KeyOf(j, x)] = "none" /\ \A k \in Jobs \ {j} : ~Holds(job[k], KeyOf(j, x))
  <2> SUFFICES ASSUME NEW x \in Users, v.wrote[x] # "none", job[j].wrote[x] = "none"
               PROVE  rows[KeyOf(j, x)] = "none" /\ \A k \in Jobs \ {j} : ~Holds(job[k], KeyOf(j, x))
    OBVIOUS
  <2>1. x = u
    BY <1>4, <1>7
  <2> QED
    BY <1>9, <2>1
<1>12. \A x \in Users : v.wrote[x] = "sent" <=> job[j].wrote[x] = "sent"
  BY <1>3, <1>4, <1>7
<1>13. job[j].pc # "idle" /\ v \in Working /\ v.slot = job[j].slot
  BY <1>1, <1>7
<1> QED
  BY <1>5, <1>8, <1>10, <1>11, <1>12, <1>13, TroublesTyped, WithinStep DEF DeliveryInv

(* The row is not wanted after all, or says that nothing could be sent.    *)
LEMMA WroteStep ==
  ASSUME DeliveryInv, NEW j \in Jobs, job[j].pc \in {"reserved", "send"},
         NEW status \in Status \ {"none", "sent"}, job' = [job EXCEPT ![j] = Wrote(j, status)],
         UNCHANGED <<kind, ranked, hour, begun, queue, people, rows, sent, lost>>,
         troubles' \in 0..MaxTroubles
  PROVE  DeliveryInv'
<1> DEFINE u == job[j].at
           v == Wrote(j, status)
<1>1. JobOk(job[j]) /\ job[j] \in Transaction
  BY JobTyped DEF DeliveryInv, Books, JobsOk
<1>2. /\ u \in Users /\ u \notin job[j].todo /\ job[j].wrote[u] = "reserved"
      /\ job[j].wrote \in [Users -> Status] /\ job[j].todo \subseteq Users
      /\ \A x \in job[j].todo : job[j].wrote[x] = "none"
  BY <1>1, Fields DEF JobOk
<1>3. /\ v \in Working /\ v.pc = "next" /\ v.slot = job[j].slot /\ v.todo = job[j].todo
      /\ v.wrote = [job[j].wrote EXCEPT ![u] = status]
  BY <1>2, WroteFields DEF DeliveryInv
<1> HIDE DEF v
<1>4. v.wrote[u] = status /\ \A x \in Users \ {u} : v.wrote[x] = job[j].wrote[x]
  BY <1>2, <1>3
<1>5. JobOk(v)
  BY <1>2, <1>3, <1>4 DEF JobOk
<1>6. /\ \A x \in Users : v.wrote[x] # "none" => job[j].wrote[x] # "none"
      /\ \A x \in Users : v.wrote[x] = "sent" <=> job[j].wrote[x] = "sent"
  BY <1>2, <1>4
<1>7. job' = [job EXCEPT ![j] = v] /\ job[j].pc # "idle"
  BY DEF v
<1> QED
  BY <1>3, <1>5, <1>6, <1>7, WithinStep

LEMMA RecheckStep ==
  ASSUME DeliveryInv, NEW j \in Jobs, Recheck(j)
  PROVE  DeliveryInv'
<1>1. job[j].pc = "reserved" /\ UNCHANGED <<kind, ranked, hour, begun, queue, people, rows, sent, lost, troubles>>
  BY DEF Recheck
<1>2. CASE job[j].at \in priority
  <2>1. job' = [job EXCEPT ![j] = Wrote(j, "skipped")]
    BY <1>2 DEF Recheck
  <2>2. "skipped" \in Status \ {"none", "sent"}
    BY DEF Status
  <2> QED
    BY <1>1, <2>1, <2>2, TroublesTyped, WroteStep DEF DeliveryInv
<1>3. CASE job[j].at \notin priority
  <2> DEFINE v == [job[j] EXCEPT !.pc = "send"]
  <2>1. job[j] \in Working /\ JobOk(job[j])
    BY <1>1, JobTyped, Fields DEF DeliveryInv, Books, JobsOk
  <2>2. /\ v \in Working /\ v.pc = "send" /\ v.at = job[j].at /\ v.todo = job[j].todo
        /\ v.slot = job[j].slot /\ v.wrote = job[j].wrote
    BY <2>1 DEF Working
  <2>3. job' = [job EXCEPT ![j] = v]
    BY <1>3 DEF Recheck
  <2> HIDE DEF v
  <2>4. JobOk(v)
    BY <1>1, <2>1, <2>2 DEF JobOk
  <2> QED
    BY <1>1, <2>2, <2>3, <2>4, TroublesTyped, WithinStep DEF DeliveryInv
<1> QED
  BY <1>2, <1>3

LEMMA InsertRefusedStep ==
  ASSUME DeliveryInv, NEW j \in Jobs, InsertRefused(j)
  PROVE  DeliveryInv'
<1>1. /\ job[j].pc = "insert" /\ job' = [job EXCEPT ![j] = Done(j)]
      /\ UNCHANGED <<kind, ranked, hour, begun, queue, people, rows, sent, lost, troubles>>
  BY DEF InsertRefused
<1>2. /\ Done(j) \in Working /\ Done(j).pc = "next"
      /\ Done(j).slot = job[j].slot /\ Done(j).todo = job[j].todo /\ Done(j).wrote = job[j].wrote
  BY <1>1, DoneFields DEF DeliveryInv
<1>3. JobOk(Done(j))
  BY <1>2 DEF DeliveryInv, Books, JobsOk, JobOk
<1> QED
  BY <1>1, <1>2, <1>3, TroublesTyped, WithinStep DEF DeliveryInv

LEMMA SendFailsStep ==
  ASSUME DeliveryInv, NEW j \in Jobs, SendFails(j)
  PROVE  DeliveryInv'
<1>1. "failed" \in Status \ {"none", "sent"}
  BY DEF Status
<1> QED
  BY <1>1, TroubleTyped, WroteStep DEF SendFails, DeliveryInv

LEMMA SendStep ==
  ASSUME DeliveryInv, NEW j \in Jobs, Send(j)
  PROVE  DeliveryInv'
<1> DEFINE u == job[j].at
           v == Wrote(j, "sent")
           y == KeyOf(j, u)
<1>1. job[j].pc = "send" /\ JobOk(job[j]) /\ job[j] \in Transaction
  BY JobTyped DEF DeliveryInv, Books, JobsOk, Send
<1>2. /\ u \in Users /\ u \notin job[j].todo /\ job[j].wrote[u] = "reserved"
      /\ job[j].wrote \in [Users -> Status] /\ job[j].todo \subseteq Users
      /\ \A x \in job[j].todo : job[j].wrote[x] = "none"
  BY <1>1, Fields DEF JobOk
<1>3. /\ v \in Working /\ v.pc = "next" /\ v.slot = job[j].slot /\ v.todo = job[j].todo
      /\ v.wrote = [job[j].wrote EXCEPT ![u] = "sent"]
  BY <1>1, <1>2, WroteFields DEF DeliveryInv, Status
<1>4. job' = [job EXCEPT ![j] = v] /\ sent' = [sent EXCEPT ![y] = @ + 1]
      /\ UNCHANGED <<kind, ranked, hour, begun, queue, people, rows, lost, troubles>>
  BY DEF Send
<1> HIDE DEF v
<1>5. v.wrote[u] = "sent" /\ \A x \in Users \ {u} : v.wrote[x] = job[j].wrote[x]
  BY <1>2, <1>3
<1>6. JobOk(v)
  BY <1>2, <1>3, <1>5 DEF JobOk
<1>7. y \in Keys /\ y[1] = u /\ y[2] = job[j].slot /\ \A x \in Keys : x[1] = u /\ x[2] = job[j].slot => x = y
  BY <1>1, <1>2, KeyTyped DEF DeliveryInv, Keys, KeyOf
<1> HIDE DEF y
<1>8. job'[j] = v /\ (\A k \in Jobs \ {j} : job'[k] = job[k]) /\ v \in Transaction
  BY <1>3, <1>4, JobStep DEF DeliveryInv, Transaction
<1>9. \A x \in Keys : Holds(v, x) <=> Holds(job[j], x)
  BY <1>1, <1>2, <1>3, <1>5 DEF Holds, Keys
<1>10. Holds(job[j], y) /\ HasSent(v, y) /\ ~HasSent(job[j], y)
  BY <1>1, <1>2, <1>3, <1>5, <1>7 DEF Holds, HasSent
<1>11. \A x \in Keys \ {y} : HasSent(v, x) <=> HasSent(job[j], x)
  BY <1>1, <1>3, <1>5, <1>7 DEF Holds, HasSent, Keys
<1>12. DeliveriesTypeOK'
  <2>1. /\ queue \subseteq Slots /\ rows \in [Keys -> Status] /\ sent' \in [Keys -> Nat]
        /\ lost \in [Keys -> Nat] /\ troubles \in 0..MaxTroubles
    <3>1. sent \in [Keys -> Nat]
      BY DEF DeliveryInv, DeliveriesTypeOK
    <3>2. sent[y] \in Nat /\ sent' = [sent EXCEPT ![y] = sent[y] + 1]
      BY <1>4, <1>7, <3>1
    <3> DEFINE n == sent[y] + 1
    <3>3. n \in Nat /\ sent' = [sent EXCEPT ![y] = n]
      BY <3>2
    <3> HIDE DEF n
    <3>4. sent' \in [Keys -> Nat]
      BY <3>1, <3>3
    <3> QED
      BY <3>4 DEF DeliveryInv, DeliveriesTypeOK
  <2> QED
    BY <1>4, <1>8, <2>1, TypedStep DEF DeliveryInv
<1>13. JobsOk'
  <2>1. \A k \in Jobs : JobOk(job'[k])
    BY <1>6, <1>8 DEF DeliveryInv, Books, JobsOk
  <2> QED
    BY <2>1 DEF JobsOk, JobOk
<1>14. OneHolder' /\ RowsFree'
  <2>1. \A x \in Keys : \A k \in Jobs : Holds(job'[k], x) <=> Holds(job[k], x)
    BY <1>8, <1>9
  <2> QED
    BY <1>4, <2>1 DEF DeliveryInv, Books, OneHolder, RowsFree, Holds
<1>15. Accounted'
  <2> DEFINE told(x) == rows[x] = "sent" \/ \E k \in Jobs : HasSent(job'[k], x)
  <2> SUFFICES ASSUME NEW x \in Keys, x[1] \in members
               PROVE  sent'[x] = lost[x] + (IF told(x) THEN 1 ELSE 0)
    BY <1>4 DEF Accounted, Told, HasSent, Holds, people
  <2>1. sent[x] = lost[x] + (IF Told(x) THEN 1 ELSE 0) /\ sent \in [Keys -> Nat] /\ lost[x] \in Nat
    BY DEF DeliveryInv, Books, Accounted, DeliveriesTypeOK
  <2>2. CASE x = y
    <3>1. told(x)
      BY <1>8, <1>10, <2>2
    <3>2. rows[x] # "sent"
      BY <1>10, <2>2 DEF DeliveryInv, Books, RowsFree
    <3>3. \A k \in Jobs : ~HasSent(job[k], x)
      BY <1>10, <2>2 DEF DeliveryInv, Books, OneHolder, HasSent
    <3>4. ~Told(x)
      BY <3>2, <3>3 DEF Told
    <3>5. sent'[x] = sent[x] + 1
      BY <1>4, <2>1, <2>2
    <3> QED
      BY <2>1, <3>1, <3>4, <3>5
  <2>3. CASE x # y
    <3>1. told(x) <=> Told(x)
      BY <1>8, <1>11, <2>3 DEF Told
    <3>2. sent'[x] = sent[x]
      BY <1>4, <2>1, <2>3
    <3> QED
      BY <2>1, <3>1, <3>2
  <2> QED
    BY <2>2, <2>3
<1> QED
  BY <1>12, <1>13, <1>14, <1>15 DEF DeliveryInv, Books

(* The transaction ends; what it held becomes a row or is gone.            *)
LEMMA EndStep ==
  ASSUME DeliveryInv, NEW j \in Jobs, job' = [job EXCEPT ![j] = NoTransaction], UNCHANGED <<members, sent>>,
         \A x \in Keys : ~Holds(job[j], x) => rows'[x] = rows[x] /\ lost'[x] = lost[x],
         \A x \in Keys : Holds(job[j], x) =>
           lost'[x] + (IF rows'[x] = "sent" THEN 1 ELSE 0) = lost[x] + (IF HasSent(job[j], x) THEN 1 ELSE 0)
  PROVE  Books'
<1>1. job'[j] = NoTransaction /\ \A k \in Jobs \ {j} : job'[k] = job[k]
  BY IdleTransaction, JobStep DEF DeliveryInv
<1>2. JobsOk'
  <2>1. \A k \in Jobs : JobOk(job'[k])
    BY <1>1, IdleTransaction DEF DeliveryInv, Books, JobsOk
  <2> QED
    BY <2>1 DEF JobsOk, JobOk
<1>3. \A x \in Keys : \A k \in Jobs : Holds(job'[k], x) => Holds(job[k], x) /\ ~Holds(job[j], x)
  BY <1>1, IdleTransaction DEF DeliveryInv, Books, OneHolder
<1>4. OneHolder'
  BY <1>3 DEF DeliveryInv, Books, OneHolder, Holds
<1>5. RowsFree'
  BY <1>3 DEF DeliveryInv, Books, RowsFree, Holds
<1>6. Accounted'
  <2> DEFINE told(x) == rows'[x] = "sent" \/ \E k \in Jobs : HasSent(job'[k], x)
  <2> SUFFICES ASSUME NEW x \in Keys, x[1] \in members
               PROVE  sent[x] = lost'[x] + (IF told(x) THEN 1 ELSE 0)
    BY DEF Accounted, Told, HasSent, Holds
  <2>1. sent[x] = lost[x] + (IF Told(x) THEN 1 ELSE 0)
    BY DEF DeliveryInv, Books, Accounted
  <2>2. CASE Holds(job[j], x)
    <3>1. \A k \in Jobs : ~HasSent(job'[k], x)
      BY <1>3, <2>2 DEF HasSent
    <3>2. told(x) <=> rows'[x] = "sent"
      BY <3>1
    <3>3. \A k \in Jobs : HasSent(job[k], x) => k = j
      BY <2>2 DEF DeliveryInv, Books, OneHolder, HasSent
    <3>4. rows[x] = "none"
      BY <2>2 DEF DeliveryInv, Books, RowsFree
    <3>5. Told(x) <=> HasSent(job[j], x)
      BY <3>3, <3>4 DEF Told
    <3> HIDE DEF told
    <3> QED
      BY <2>1, <2>2, <3>2, <3>5
  <2>3. CASE ~Holds(job[j], x)
    <3>1. \A k \in Jobs : HasSent(job'[k], x) <=> HasSent(job[k], x)
      BY <1>1, <2>3, IdleTransaction DEF HasSent
    <3>2. told(x) <=> Told(x)
      BY <2>3, <3>1 DEF Told
    <3> HIDE DEF told
    <3> QED
      BY <2>1, <2>3, <3>2
  <2> QED
    BY <2>2, <2>3
<1> QED
  BY <1>2, <1>4, <1>5, <1>6 DEF Books

LEMMA HeldTyped ==
  ASSUME DeliveriesTypeOK, NEW j \in Jobs, NEW x \in Keys
  PROVE  /\ HeldBy(j, x) <=> Holds(job[j], x)
         /\ HeldBy(j, x) => job[j].wrote[x[1]] \in Status
<1>1. job[j].wrote \in [Users -> Status] /\ x[1] \in Users
  BY JobTyped, Fields DEF Keys
<1> QED
  BY <1>1 DEF HeldBy, Holds

LEMMA CommitStep ==
  ASSUME DeliveryInv, NEW j \in Jobs, Commit(j)
  PROVE  DeliveryInv'
<1>1. /\ rows' = [x \in Keys |-> IF HeldBy(j, x) THEN job[j].wrote[x[1]] ELSE rows[x]]
      /\ job' = [job EXCEPT ![j] = NoTransaction]
      /\ UNCHANGED <<kind, ranked, hour, begun, queue, people, sent, lost, troubles>>
  BY DEF Commit
<1>2. rows' \in [Keys -> Status]
  <2>1. \A x \in Keys : rows[x] \in Status
    BY DEF DeliveryInv, DeliveriesTypeOK
  <2> QED
    BY <1>1, <2>1, HeldTyped DEF DeliveryInv
<1>3. \A x \in Keys : Holds(job[j], x) => rows'[x] = job[j].wrote[x[1]]
  BY <1>1, HeldTyped DEF DeliveryInv
<1>4. \A x \in Keys : ~Holds(job[j], x) => rows'[x] = rows[x]
  BY <1>1, HeldTyped DEF DeliveryInv
<1>5. \A x \in Keys : Holds(job[j], x) => (rows'[x] = "sent" <=> HasSent(job[j], x))
  BY <1>3 DEF HasSent
<1>6. Books'
  <2>1. UNCHANGED <<members, sent>> /\ lost' = lost
    BY <1>1 DEF people
  <2> QED
    BY <1>1, <1>4, <1>5, <2>1, EndStep
<1>7. DeliveriesTypeOK'
  <2>1. queue \subseteq Slots /\ sent \in [Keys -> Nat] /\ lost \in [Keys -> Nat] /\ troubles \in 0..MaxTroubles
    BY DEF DeliveryInv, DeliveriesTypeOK
  <2> QED
    BY <1>1, <1>2, <2>1, IdleTransaction, TypedStep DEF DeliveryInv
<1> QED
  BY <1>6, <1>7 DEF DeliveryInv

LEMMA RolledBackStep ==
  ASSUME DeliveryInv, NEW j \in Jobs, RolledBack(j), UNCHANGED <<kind, ranked, hour, begun, people, rows, sent>>,
         queue' \subseteq Slots, troubles' \in 0..MaxTroubles
  PROVE  DeliveryInv'
<1>1. /\ lost' = [x \in Keys |-> IF HeldBy(j, x) /\ job[j].wrote[x[1]] = "sent" THEN lost[x] + 1 ELSE lost[x]]
      /\ job' = [job EXCEPT ![j] = NoTransaction]
  BY DEF RolledBack
<1>2. \A x \in Keys : lost[x] \in Nat
  BY DEF DeliveryInv, DeliveriesTypeOK
<1>3. \A x \in Keys : lost'[x] = IF HasSent(job[j], x) THEN lost[x] + 1 ELSE lost[x]
  BY <1>1, HeldTyped DEF HasSent, DeliveryInv
<1>4. \A x \in Keys : Holds(job[j], x) => rows'[x] = "none"
  BY DEF DeliveryInv, Books, RowsFree
<1>5. Books'
  <2>1. \A x \in Keys : ~Holds(job[j], x) => rows'[x] = rows[x] /\ lost'[x] = lost[x]
    BY <1>3 DEF HasSent
  <2>2. \A x \in Keys : Holds(job[j], x) =>
           lost'[x] + (IF rows'[x] = "sent" THEN 1 ELSE 0) = lost[x] + (IF HasSent(job[j], x) THEN 1 ELSE 0)
    BY <1>2, <1>3, <1>4
  <2>3. UNCHANGED <<members, sent>>
    BY DEF people
  <2> QED
    BY <1>1, <2>1, <2>2, <2>3, EndStep
<1>6. DeliveriesTypeOK'
  <2>1. rows \in [Keys -> Status] /\ sent \in [Keys -> Nat]
    BY DEF DeliveryInv, DeliveriesTypeOK
  <2>2. lost' \in [Keys -> Nat]
    BY <1>1, <1>2
  <2> QED
    BY <1>1, <2>1, <2>2, IdleTransaction, TypedStep DEF DeliveryInv
<1> QED
  BY <1>5, <1>6 DEF DeliveryInv

LEMMA AbortStep ==
  ASSUME DeliveryInv, NEW j \in Jobs, Abort(j) \/ Stop(j)
  PROVE  DeliveryInv'
<1>1. queue \subseteq Slots /\ troubles \in 0..MaxTroubles
  BY DEF DeliveryInv, DeliveriesTypeOK
<1>2. CASE Abort(j)
  BY <1>1, <1>2, RolledBackStep DEF Abort
<1>3. CASE Stop(j)
  <2>1. job[j].slot \in Slots
    BY <1>3, JobTyped, Fields DEF Stop, DeliveryInv
  <2>2. queue' \subseteq Slots
    BY <1>1, <1>3, <2>1 DEF Stop
  <2> QED
    BY <1>3, <2>2, TroubleTyped, RolledBackStep DEF Stop, DeliveryInv
<1> QED
  BY <1>2, <1>3

(***************************************************************************)
(* The cron jobs, the users and time.                                      *)
(***************************************************************************)

LEMMA TickStep ==
  ASSUME DeliveryInv, TickMenus \/ TickStatistics \/ TickDigest \/ PassHours \/ UNCHANGED deliveryVars
  PROVE  DeliveryInv'
<1>1. UNCHANGED <<kind, ranked, people, rows, job, sent, lost, troubles>>
  BY DEF TickMenus, TickStatistics, TickDigest, PassHours, deliveryVars
<1>2. queue' \subseteq Slots
  BY SlotTyped DEF DeliveryInv, DeliveriesTypeOK, TickMenus, TickStatistics, TickDigest, PassHours, deliveryVars
<1>3. hour' \in Instants /\ begun' \in BOOLEAN
  <2>1. hour \in Instants /\ begun \in BOOLEAN
    BY DEF DeliveryInv, DeliveriesTypeOK
  <2> QED
    BY <2>1 DEF TickMenus, TickStatistics, TickDigest, PassHours, deliveryVars
<1>4. DeliveriesTypeOK'
  BY <1>1, <1>2, <1>3 DEF DeliveryInv, DeliveriesTypeOK, people
<1>5. Books'
  BY <1>1, OutsideStep DEF people
<1> QED
  BY <1>4, <1>5 DEF DeliveryInv

LEMMA UserStep ==
  ASSUME DeliveryInv, NEW u \in Users, RemoveFavorite(u) \/ ChangePriority(u) \/ DeleteAccount(u) \/ ChangeWish(u)
  PROVE  DeliveryInv'
<1>1. UNCHANGED <<kind, ranked, hour, begun, queue, job, sent, lost>> /\ Trouble
  BY DEF RemoveFavorite, ChangePriority, DeleteAccount, ChangeWish
<1>2. {members', saved', wants', priority'} \subseteq SUBSET Users
  <2>1. {members, saved, wants, priority} \subseteq SUBSET Users
    BY DEF DeliveryInv, DeliveriesTypeOK
  <2> QED
    BY <2>1 DEF RemoveFavorite, ChangePriority, DeleteAccount, ChangeWish
<1>3. \/ members' = members /\ rows' = rows
      \/ members' = members \ {u} /\ rows' = [x \in Keys |-> IF x[1] = u THEN "none" ELSE rows[x]]
  BY DEF RemoveFavorite, ChangePriority, DeleteAccount, ChangeWish
<1>4. rows' \in [Keys -> Status]
  BY <1>3 DEF DeliveryInv, DeliveriesTypeOK, Status
<1>5. troubles' \in 0..MaxTroubles
  BY <1>1, TroubleTyped DEF DeliveryInv
<1>6. DeliveriesTypeOK'
  BY <1>1, <1>2, <1>4, <1>5 DEF DeliveryInv, DeliveriesTypeOK
<1>7. Books'
  <2>1. members' \subseteq members
    BY <1>3
  <2>2. \A x \in Keys : rows'[x] = rows[x] \/ (rows'[x] = "none" /\ x[1] \notin members')
    BY <1>3
  <2> QED
    BY <1>1, <2>1, <2>2, OutsideStep
<1> QED
  BY <1>6, <1>7 DEF DeliveryInv

(***************************************************************************)
(* The invariant.                                                          *)
(***************************************************************************)

LEMMA DeliveryInit == DeliveriesInit => DeliveryInv
<1> SUFFICES ASSUME DeliveriesInit PROVE DeliveryInv
  OBVIOUS
<1>1. \A j \in Jobs : job[j] = NoTransaction
  BY DEF DeliveriesInit
<1>2. DeliveriesTypeOK
  <2>1. /\ rows \in [Keys -> Status] /\ sent \in [Keys -> Nat] /\ lost \in [Keys -> Nat]
        /\ job \in [Jobs -> {NoTransaction} \cup Working]
    BY DEF DeliveriesInit, Status
  <2>2. {members, saved, wants, priority} \subseteq SUBSET Users /\ queue \subseteq Slots
    BY DEF DeliveriesInit
  <2>3. kind \in Kinds /\ ranked \in BOOLEAN /\ hour \in Instants /\ begun \in BOOLEAN
    BY DEF DeliveriesInit
  <2>4. troubles \in 0..MaxTroubles
    BY DeliveriesAssumption DEF DeliveriesInit
  <2> QED
    BY <2>1, <2>2, <2>3, <2>4 DEF DeliveriesTypeOK
<1>3. JobsOk /\ OneHolder /\ RowsFree
  BY <1>1, IdleTransaction DEF JobsOk, OneHolder, RowsFree
<1>4. Accounted
  <2> SUFFICES ASSUME NEW x \in Keys PROVE sent[x] = lost[x] + (IF Told(x) THEN 1 ELSE 0)
    BY DEF Accounted
  <2>1. ~Told(x)
    BY <1>1, IdleTransaction DEF Told, DeliveriesInit
  <2> QED
    BY <2>1 DEF DeliveriesInit
<1> QED
  BY <1>2, <1>3, <1>4 DEF DeliveryInv, Books

LEMMA DeliveryStep == DeliveryInv /\ [DeliveriesNext]_deliveryVars => DeliveryInv'
<1> SUFFICES ASSUME DeliveryInv, [DeliveriesNext]_deliveryVars PROVE DeliveryInv'
  OBVIOUS
<1>1. ASSUME NEW j \in Jobs, Advance(j) \/ Stop(j) PROVE DeliveryInv'
  BY <1>1, TakeStep, InsertStep, InsertRefusedStep, RecheckStep, SendStep, SendFailsStep, CommitStep, AbortStep
     DEF Advance
<1>2. ASSUME NEW j \in Jobs, NEW q \in queue, Begin(j, q) PROVE DeliveryInv'
  BY <1>2, BeginStep
<1> QED
  BY <1>1, <1>2, TickStep, UserStep DEF DeliveriesNext

LEMMA DeliveryInvariant == DeliveriesSpec => []DeliveryInv
BY DeliveryInit, DeliveryStep, PTL DEF DeliveriesSpec

(***************************************************************************)
(* The theorems.                                                           *)
(***************************************************************************)

(* The variables keep their types.                                         *)
THEOREM DeliveriesTyped == DeliveriesSpec => []DeliveriesTypeOK
<1>1. DeliveryInv => DeliveriesTypeOK
  BY DEF DeliveryInv
<1> QED
  BY <1>1, DeliveryInvariant, PTL

(* A menu, statistic or digest is repeated only after a rollback, and a row*)
(* that says sent tells the truth (deliver_restaurant_menus,               *)
(* send_housing_statistics, send_unsubscribed_digest).                     *)
THEOREM EveryMessageAccounted == DeliveriesSpec => []MessagesAccounted
<1>1. DeliveryInv => MessagesAccounted
  BY AccountedSame DEF DeliveryInv, Books
<1> QED
  BY <1>1, DeliveryInvariant, PTL

(***************************************************************************)
(* Deadlocks.  A transaction that waits for a key keeps the ones it has    *)
(* inserted until it ends.                                                 *)
(***************************************************************************)

(* A transaction meets users by ascending ranks.                           *)
Climbs(v) ==
  /\ \A u \in Users : v.wrote[u] # "none" =>
       /\ \A w \in v.todo : Rank[u] < Rank[w]
       /\ v.pc = "insert" => Rank[u] < Rank[v.at]
  /\ v.pc = "insert" => \A w \in v.todo : Rank[v.at] < Rank[w]
AllClimb == ranked => \A j \in Jobs : Climbs(job[j])

(* In any set of transactions, one waits for none of the others.           *)
OneGoesOn ==
  ranked => \A S \in SUBSET Jobs : S # {} => \E j \in S : \A k \in S : ~Waits(j, k)

Distinct == \A u, v \in Users : Rank[u] = Rank[v] => u = v

LEMMA RankTyped == \A u \in Users : Rank[u] \in Nat
BY DeliveriesAssumption

(* The steps of one transaction leave the others alone.                    *)
LEMMA OneClimbs ==
  ASSUME DeliveryInv, AllClimb, NEW j \in Jobs, NEW v \in Transaction,
         job' = [job EXCEPT ![j] = v], ranked' = ranked, ranked => Climbs(v)
  PROVE  AllClimb'
<1>1. job'[j] = v /\ \A k \in Jobs \ {j} : job'[k] = job[k]
  BY JobStep DEF DeliveryInv
<1>2. ASSUME ranked, NEW k \in Jobs PROVE Climbs(job'[k])
  BY <1>1, <1>2 DEF AllClimb
<1>3. ranked' => \A k \in Jobs : Climbs(job'[k])
  BY <1>2
<1> QED
  BY <1>3 DEF AllClimb, Climbs

LEMMA IdleClimbs == Climbs(NoTransaction) /\ NoTransaction \in Transaction
BY DEF Climbs, NoTransaction, NoRows, Transaction

LEMMA BeginClimbs ==
  ASSUME DeliveryInv, AllClimb, NEW j \in Jobs, NEW q \in queue, Begin(j, q)
  PROVE  AllClimb'
<1> DEFINE v == [pc |-> "next", slot |-> SlotOf(q), todo |-> Selected(SlotOf(q)), at |-> NoUser, wrote |-> NoRows]
<1>1. SlotOf(q) \in Slots /\ Selected(SlotOf(q)) \subseteq Users /\ NoRows \in [Users -> Status]
  BY SlotTyped, SelectedTyped DEF DeliveryInv, NoRows, Status
<1>2. v \in Transaction
  BY <1>1 DEF Transaction, Working
<1>3. job' = [job EXCEPT ![j] = v] /\ ranked' = ranked
  BY DEF Begin
<1>4. v.pc = "next" /\ \A u \in Users : v.wrote[u] = "none"
  BY DEF NoRows
<1> HIDE DEF v
<1>5. Climbs(v)
  BY <1>4 DEF Climbs
<1> QED
  BY <1>2, <1>3, <1>5, OneClimbs

LEMMA TakeClimbs ==
  ASSUME DeliveryInv, AllClimb, Distinct, NEW j \in Jobs, NEW u \in Users, Take(j, u)
  PROVE  AllClimb'
<1> DEFINE p == IF Passed(j, u) THEN "next" ELSE "insert"
           a == IF Passed(j, u) THEN NoUser ELSE u
           t == job[j].todo \ {u}
           v == [[[job[j] EXCEPT !.todo = t] EXCEPT !.pc = p] EXCEPT !.at = a]
<1>1. job[j].pc = "next" /\ u \in job[j].todo
  BY DEF Take
<1>2. job \in [Jobs -> Transaction] /\ job[j] \in Working /\ job[j].todo \subseteq Users
  BY <1>1, JobTyped, Fields DEF DeliveryInv
<1>3. p \in {"next", "insert"} /\ a \in Users \cup {NoUser} /\ t \subseteq Users /\ (p = "insert" => a = u)
  BY <1>2
<1>4. job' = [job EXCEPT ![j] = v] /\ ranked' = ranked
  BY <1>2 DEF Take
<1>5. t \subseteq job[j].todo /\ u \notin t
  OBVIOUS
<1> HIDE DEF p, a, t
<1>6. v \in Working /\ v.pc = p /\ v.at = a /\ v.todo = t /\ v.wrote = job[j].wrote
  BY <1>2, <1>3 DEF Working
<1>7. v \in Transaction
  BY <1>6 DEF Transaction
<1> HIDE DEF v
<1>8. ASSUME ranked PROVE Climbs(v)
  <2>1. \A w \in t : Rank[u] < Rank[w]
    <3> SUFFICES ASSUME NEW w \in t PROVE Rank[u] < Rank[w]
      OBVIOUS
    <3>1. w \in Users /\ w # u /\ Rank[u] <= Rank[w]
      BY <1>3, <1>5, <1>8 DEF Take
    <3> QED
      BY <3>1, RankTyped DEF Distinct
  <2>2. \A x \in Users : job[j].wrote[x] # "none" => \A w \in job[j].todo : Rank[x] < Rank[w]
    BY <1>8 DEF AllClimb, Climbs
  <2> QED
    BY <1>1, <1>3, <1>5, <1>6, <2>1, <2>2 DEF Climbs
<1> QED
  BY <1>4, <1>7, <1>8, OneClimbs

LEMMA InsertClimbs ==
  ASSUME DeliveryInv, AllClimb, NEW j \in Jobs, Insert(j)
  PROVE  AllClimb'
<1> DEFINE u == job[j].at
           w == [job[j].wrote EXCEPT ![u] = "reserved"]
           p == IF kind = "digest" THEN "reserved" ELSE "send"
           v == [[job[j] EXCEPT !.wrote = w] EXCEPT !.pc = p]
<1>1. job[j].pc = "insert" /\ job \in [Jobs -> Transaction] /\ job[j] \in Working
  BY JobTyped, Fields DEF Insert, DeliveryInv
<1>2. JobOk(job[j])
  BY DEF DeliveryInv, Books, JobsOk
<1>3. u \in Users /\ job[j].wrote \in [Users -> Status]
  BY <1>1, <1>2, Fields DEF JobOk
<1>4. w \in [Users -> Status] /\ \A x \in Users \ {u} : w[x] = job[j].wrote[x]
  BY <1>3 DEF Status
<1>5. job' = [job EXCEPT ![j] = v] /\ ranked' = ranked
  BY <1>1 DEF Insert
<1> HIDE DEF w
<1>6. p \in {"reserved", "send"}
  OBVIOUS
<1> HIDE DEF p
<1>7. v \in Working /\ v.pc = p /\ v.todo = job[j].todo /\ v.wrote = w
  BY <1>1, <1>4, <1>6 DEF Working
<1>8. v \in Transaction
  BY <1>7 DEF Transaction
<1> HIDE DEF v
<1>9. ASSUME ranked PROVE Climbs(v)
  <2>1. Climbs(job[j])
    BY <1>9 DEF AllClimb
  <2> QED
    BY <1>1, <1>4, <1>6, <1>7, <2>1 DEF Climbs
<1> QED
  BY <1>5, <1>8, <1>9, OneClimbs

(* A recipient is done with, or is to be sent its message.                 *)
LEMMA OthersClimb ==
  ASSUME DeliveryInv, AllClimb, NEW j \in Jobs,
         InsertRefused(j) \/ Recheck(j) \/ Send(j) \/ SendFails(j)
  PROVE  AllClimb'
<1>1. job[j].pc \in {"insert", "reserved", "send"} /\ ranked' = ranked
  BY DEF InsertRefused, Recheck, Send, SendFails
<1>2. job[j] \in Working /\ JobOk(job[j]) /\ job[j].at \in Users /\ job[j].wrote \in [Users -> Status]
  BY <1>1, JobTyped, Fields DEF DeliveryInv, Books, JobsOk, JobOk
<1>3. PICK v \in Working : /\ job' = [job EXCEPT ![j] = v] /\ v.pc \in {"next", "send"}
                           /\ v.todo = job[j].todo
                           /\ \A u \in Users : v.wrote[u] # "none" => job[j].wrote[u] # "none"
  <2>1. CASE InsertRefused(j)
    BY <1>1, <2>1, DoneFields DEF InsertRefused, DeliveryInv
  <2>2. ASSUME NEW status \in Status, job[j].pc # "insert", job' = [job EXCEPT ![j] = Wrote(j, status)]
        PROVE  \E v \in Working : /\ job' = [job EXCEPT ![j] = v] /\ v.pc \in {"next", "send"}
                                  /\ v.todo = job[j].todo
                                  /\ \A u \in Users : v.wrote[u] # "none" => job[j].wrote[u] # "none"
    <3>1. /\ Wrote(j, status) \in Working /\ Wrote(j, status).pc = "next"
          /\ Wrote(j, status).todo = job[j].todo
          /\ Wrote(j, status).wrote = [job[j].wrote EXCEPT ![job[j].at] = status]
      BY <1>1, <1>2, <2>2, WroteFields DEF DeliveryInv
    <3>2. job[j].wrote[job[j].at] # "none"
      BY <1>1, <1>2, <2>2 DEF JobOk
    <3>3. \A u \in Users : Wrote(j, status).wrote[u] # "none" => job[j].wrote[u] # "none"
      BY <1>2, <3>1, <3>2
    <3> QED
      BY <2>2, <3>1, <3>3
  <2>3. CASE Send(j) \/ SendFails(j)
    BY <2>2, <2>3 DEF Send, SendFails, Status
  <2>4. CASE Recheck(j)
    <3>1. CASE job[j].at \in priority
      BY <2>2, <2>4, <3>1 DEF Recheck, Status
    <3>2. CASE job[j].at \notin priority
      <4> DEFINE v == [job[j] EXCEPT !.pc = "send"]
      <4>1. v \in Working /\ v.pc = "send" /\ v.todo = job[j].todo /\ v.wrote = job[j].wrote
        BY <1>2 DEF Working
      <4>2. job' = [job EXCEPT ![j] = v]
        BY <2>4, <3>2 DEF Recheck
      <4> HIDE DEF v
      <4> QED
        BY <4>1, <4>2
    <3> QED
      BY <3>1, <3>2
  <2> QED
    BY <2>1, <2>3, <2>4
<1>4. ranked => Climbs(v)
  <2>1. ranked => Climbs(job[j])
    BY DEF AllClimb
  <2> QED
    BY <1>3, <2>1 DEF Climbs
<1> QED
  BY <1>1, <1>3, <1>4, OneClimbs DEF Transaction

LEMMA EndClimbs ==
  ASSUME DeliveryInv, AllClimb, NEW j \in Jobs, Commit(j) \/ Abort(j) \/ Stop(j)
  PROVE  AllClimb'
<1>1. job' = [job EXCEPT ![j] = NoTransaction] /\ ranked' = ranked
  BY DEF Commit, Abort, Stop, RolledBack
<1> QED
  BY <1>1, IdleClimbs, OneClimbs

LEMMA ClimbStep == Distinct /\ DeliveryInv /\ AllClimb /\ [DeliveriesNext]_deliveryVars => AllClimb'
<1> SUFFICES ASSUME Distinct, DeliveryInv, AllClimb, [DeliveriesNext]_deliveryVars PROVE AllClimb'
  OBVIOUS
<1>1. ASSUME NEW j \in Jobs, Advance(j) \/ Stop(j) PROVE AllClimb'
  BY <1>1, TakeClimbs, InsertClimbs, OthersClimb, EndClimbs DEF Advance
<1>2. ASSUME NEW j \in Jobs, NEW q \in queue, Begin(j, q) PROVE AllClimb'
  BY <1>2, BeginClimbs
<1>3. ASSUME UNCHANGED <<ranked, job>> PROVE AllClimb'
  BY <1>3 DEF AllClimb, Climbs
<1>4. ASSUME NEW u \in Users, RemoveFavorite(u) \/ ChangePriority(u) \/ DeleteAccount(u) \/ ChangeWish(u)
      PROVE  AllClimb'
  BY <1>3, <1>4 DEF RemoveFavorite, ChangePriority, DeleteAccount, ChangeWish
<1>5. CASE TickMenus \/ TickStatistics \/ TickDigest \/ PassHours \/ UNCHANGED deliveryVars
  BY <1>3, <1>5 DEF TickMenus, TickStatistics, TickDigest, PassHours, deliveryVars
<1> QED
  BY <1>1, <1>2, <1>4, <1>5 DEF DeliveriesNext

(* A nonempty set of numbers has a least one.                              *)
LEMMA Least ==
  ASSUME NEW T \in SUBSET Nat, T # {}
  PROVE  \E m \in T : \A n \in T : m <= n
<1> DEFINE R == OpToRel(<, Nat)
<1>1. \E m \in T : \A n \in T : <<n, m>> \notin R
  <2>1. IsWellFoundedOn(R, Nat)
    BY NatLessThanWellFounded
  <2> HIDE DEF R
  <2> QED
    BY <2>1, WFMin
<1>2. \A m, n \in Nat : n < m => <<n, m>> \in R
  BY DEF OpToRel
<1> HIDE DEF R
<1>3. PICK m \in T : \A n \in T : <<n, m>> \notin R
  BY <1>1
<1>4. \A n \in T : ~(n < m)
  BY <1>2, <1>3
<1> QED
  BY <1>4

LEMMA NobodyStuck ==
  ASSUME NEW b \in Nat, \A u \in Users : Rank[u] <= b, DeliveryInv, AllClimb
  PROVE  OneGoesOn
<1> SUFFICES ASSUME ranked, NEW S \in SUBSET Jobs, S # {}, \A j \in S : \E k \in S : Waits(j, k)
             PROVE  FALSE
  BY DEF OneGoesOn
<1> DEFINE room(j) == b - Rank[job[j].at]
           T == {room(j) : j \in S}
<1>1. \A j \in S : job[j].pc = "insert" /\ job[j].at \in Users
  BY DEF Waits, DeliveryInv, Books, JobsOk, JobOk
<1>2. \A j \in S : room(j) \in Nat
  BY <1>1, RankTyped
<1>3. PICK m \in T : \A n \in T : m <= n
  <2>1. T \in SUBSET Nat /\ T # {}
    BY <1>2
  <2> HIDE DEF T
  <2> QED
    BY <2>1, Least
<1>4. PICK j \in S : m = room(j)
  BY <1>3
<1>5. PICK k \in S : Waits(j, k)
  OBVIOUS
<1>6. Rank[job[j].at] < Rank[job[k].at]
  <2>1. job[k].wrote[job[j].at] # "none"
    BY <1>5 DEF Waits, HeldBy, KeyOf
  <2> QED
    BY <1>1, <2>1 DEF AllClimb, Climbs
<1>7. room(k) < room(j)
  BY <1>1, <1>6, RankTyped
<1>8. room(k) \in T
  OBVIOUS
<1>9. m <= room(k)
  BY <1>3, <1>8
<1> QED
  BY <1>2, <1>4, <1>7, <1>9

(* If the database returns the recipients in one order, jobs side by side  *)
(* do not wait for each other's keys in a circle: of any of them one waits *)
(* for none of the others (the unique keys of restaurant_deliveries,       *)
(* housing_statistic_deliveries and unsubscribed_digest_deliveries).       *)
THEOREM NoDeadlock ==
  ASSUME \A u, v \in Users : Rank[u] = Rank[v] => u = v,
         NEW b \in Nat, \A u \in Users : Rank[u] <= b
  PROVE  DeliveriesSpec => []OneGoesOn
<1>1. Distinct
  BY DEF Distinct
<1>2. DeliveriesInit => AllClimb
  BY IdleClimbs DEF DeliveriesInit, AllClimb
<1>3. DeliveryInv /\ AllClimb /\ [DeliveriesNext]_deliveryVars => (DeliveryInv /\ AllClimb)'
  BY <1>1, DeliveryStep, ClimbStep
<1>4. DeliveryInv /\ AllClimb => OneGoesOn
  BY NobodyStuck
<1> QED
  BY <1>2, <1>3, <1>4, DeliveryInit, PTL DEF DeliveriesSpec
================================================================================
