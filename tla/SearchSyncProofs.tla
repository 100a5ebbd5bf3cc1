--------------------------- MODULE SearchSyncProofs ---------------------------
(***************************************************************************)
(* Proofs about SearchSync for any finite set of listings, any set of runs *)
(* and any bounds.                                                         *)
(***************************************************************************)
EXTENDS SearchSync, FiniteSetTheorems, WellFoundedInduction, TLAPS

(***************************************************************************)
(* Type correctness.                                                       *)
(***************************************************************************)

(* Rows are finite in number, so counting some of them gives a natural.      *)
LEMMA RowsCountable ==
  ASSUME TypeOK, NEW S \in SUBSET rows
  PROVE  Cardinality(S) \in Nat
<1>1. IsFiniteSet(Items)
  BY SyncAssumption, FS_AddElement DEF Items
<1>2. IsFiniteSet(Groups)
  BY SyncAssumption, FS_Interval DEF Groups
<1>3. IsFiniteSet(Cards)
  BY <1>1, <1>2, FS_Product DEF Cards
<1>4. S \in SUBSET Cards
  BY DEF TypeOK
<1> QED
  BY <1>3, <1>4, FS_Subset, FS_CardinalityType

LEMMA IdleType == Idle \in Run /\ Leaving \in Run
<1>1. (CHOOSE c \in Criteria : TRUE) \in Criteria
  BY SyncAssumption
<1> QED
  BY <1>1 DEF Idle, Leaving, Run, Steps, NoGroup, NoItem

(* The types alone are not inductive: a run sends cards of a group, records  *)
(* a card, undoes or activates a group only after it has created one.        *)
HasGroup(local) ==
  /\ local.pc \in {"send", "record", "undo", "undone", "activate"}
       => local.pending \in Groups
  /\ local.pc = "record" => local.sent \in Items

TypeInv == TypeOK /\ \A r \in Runs : HasGroup(run[r])

LEMMA TypeInit == Init => TypeInv
<1> SUFFICES ASSUME Init PROVE TypeInv
  OBVIOUS
<1>1. run \in [Runs -> Run] /\ \A r \in Runs : HasGroup(run[r])
  BY IdleType DEF Init, HasGroup, Idle
<1>2. /\ created \in 0..MaxGroups /\ strays \in 0..MaxStrays
      /\ changes \in 0..MaxChanges /\ failures \in 0..MaxFailures
  BY SyncAssumption DEF Init
<1>3. /\ status \in [Groups -> Status] /\ fp \in [Groups -> SUBSET Listings]
      /\ offers \in [Criteria -> SUBSET Listings]
  BY DEF Init, Status
<1>4. /\ criteria \in Criteria /\ enabled \in BOOLEAN
      /\ lock \in Runs \cup {NoRun} /\ rows \in SUBSET Cards
      /\ available \in SUBSET Listings /\ chat \in SUBSET Cards
  BY DEF Init
<1> QED
  BY <1>1, <1>2, <1>3, <1>4 DEF TypeInv, TypeOK

(* Every step of a run replaces the local state of that run only.            *)
LEMMA RunType ==
  ASSUME TypeOK, NEW r \in Runs, NEW local \in Run, Becomes(r, local)
  PROVE  /\ run' \in [Runs -> Run]
         /\ run'[r] = local
         /\ \A q \in Runs \ {r} : run'[q] = run[q]
BY DEF TypeOK, Becomes

(* The record a cleaned group leaves in the run that cleaned it.             *)
Cleaned(r, g, kept, next) ==
  [run[r] EXCEPT !.pc = next,
                 !.work = @ \ {g},
                 !.dropped = @ \cup (RowsOf(g) \ kept),
                 !.retired = RetireCleaned(r, g, kept)]

LEMMA CleanType ==
  ASSUME TypeOK, NEW r \in Runs, NEW g \in Groups, NEW next \in Steps,
         CleanGroup(r, g, next)
  PROVE  /\ \E kept \in SUBSET RowsOf(g) :
              /\ Cleaned(r, g, kept, next) \in Run
              /\ Becomes(r, Cleaned(r, g, kept, next))
         /\ chat' \in SUBSET Cards
         /\ chat \ RowsOf(g) \subseteq chat'
         /\ strays' \in 0..MaxStrays /\ failures' \in 0..MaxFailures
<1>1. PICK gone \in SUBSET RowsOf(g), kept \in SUBSET RowsOf(g) :
        /\ chat' = chat \ gone
        /\ strays' = strays
                     + Cardinality((RowsOf(g) \cap chat) \ (gone \cup kept))
        /\ failures' = failures + Cardinality(kept)
        /\ strays' <= MaxStrays /\ failures' <= MaxFailures
        /\ Becomes(r, Cleaned(r, g, kept, next))
  BY DEF CleanGroup, Cleaned
<1>2. RowsOf(g) \in SUBSET rows
  BY DEF RowsOf
<1>3. /\ Cardinality((RowsOf(g) \cap chat) \ (gone \cup kept)) \in Nat
      /\ Cardinality(kept) \in Nat
  BY <1>2, RowsCountable
<1>4. strays' \in 0..MaxStrays /\ failures' \in 0..MaxFailures
  BY <1>1, <1>3, SyncAssumption DEF TypeOK
<1>5. Cleaned(r, g, kept, next) \in Run
  <2>1. run[r] \in Run
    BY DEF TypeOK
  <2>2. run[r].dropped \cup (RowsOf(g) \ kept) \in SUBSET Cards
    BY <1>2, <2>1 DEF TypeOK, Run
  <2>3. run[r].work \ {g} \in SUBSET Groups
    BY <2>1 DEF Run
  <2>4. RetireCleaned(r, g, kept) \in SUBSET Groups
    BY <2>1 DEF RetireCleaned, Run
  <2> QED
    BY <2>1, <2>2, <2>3, <2>4 DEF Cleaned, Run
<1>6. chat' \in SUBSET Cards /\ chat \ RowsOf(g) \subseteq chat'
  BY <1>1 DEF TypeOK
<1> QED
  BY <1>1, <1>4, <1>5, <1>6

(* A nonempty set of groups has a largest id (the ORDER BY id DESC of        *)
(* _active_group): a group with a minimal set of groups above it has none.   *)
LEMMA LargestGroup ==
  ASSUME NEW S \in SUBSET Groups, S # {}
  PROVE  Max(S) \in S
<1> DEFINE Above(g) == {h \in S : h > g}
           T == {Above(g) : g \in S}
<1>1. IsFiniteSet(S)
  <2>1. IsFiniteSet(Groups)
    BY SyncAssumption, FS_Interval, MaxGroups \in Int DEF Groups
  <2> QED
    BY <2>1, FS_Subset
<1>2. IsWellFoundedOn(StrictSubsetOrdering(S), FiniteSubsetsOf(S))
  BY FS_StrictSubsetOrderingWellFounded
<1>3. \A g \in S : Above(g) \in FiniteSubsetsOf(S)
  <2> SUFFICES ASSUME NEW g \in S PROVE Above(g) \in FiniteSubsetsOf(S)
    OBVIOUS
  <2>1. Above(g) \in SUBSET S
    OBVIOUS
  <2> HIDE DEF Above
  <2>2. IsFiniteSet(Above(g))
    BY <1>1, <2>1, FS_Subset
  <2> QED
    BY <2>1, <2>2 DEF FiniteSubsetsOf
<1>4. PICK x \in T : \A y \in T : <<y, x>> \notin StrictSubsetOrdering(S)
  <2>1. T \subseteq FiniteSubsetsOf(S) /\ T # {}
    BY <1>3
  <2> HIDE DEF T
  <2> QED BY <1>2, <2>1, WFMin
<1>5. PICK g \in S : x = Above(g)
  OBVIOUS
<1>6. \A h \in S : ~ h > g
  <2> SUFFICES ASSUME NEW h \in S, h > g PROVE FALSE
    OBVIOUS
  <2>0. S \subseteq Int
    BY SyncAssumption DEF Groups
  <2>1. h \in Above(g) /\ h \notin Above(h)
    BY <2>0
  <2>4. Above(h) \subseteq Above(g)
    <3> SUFFICES ASSUME NEW k \in S, k > h PROVE k > g
      OBVIOUS
    <3> QED
      BY <2>0
  <2>2. Above(h) \in T
    OBVIOUS
  <2>3. Above(h) \in SUBSET S /\ Above(g) \in SUBSET S
    OBVIOUS
  <2> HIDE DEF Above, T
  <2> QED
    BY <2>1, <2>2, <2>3, <2>4, <1>4, <1>5 DEF StrictSubsetOrdering
<1>7. \A h \in S : g >= h
  <2>1. S \subseteq Int
    BY SyncAssumption DEF Groups
  <2> QED
    BY <1>6, <2>1
<1> QED
  BY <1>7 DEF Max

LEMMA ActiveGroupType ==
  /\ ActiveGroup \in Groups \cup {NoGroup}
  /\ ActiveGroup # NoGroup => ActiveGroup \in ActiveGroups
  /\ ActiveGroup = NoGroup => ActiveGroups = {}
<1>1. ActiveGroups \in SUBSET Groups /\ NoGroup \notin Groups
  BY DEF ActiveGroups, Groups, NoGroup
<1> QED
  BY <1>1, LargestGroup DEF ActiveGroup

(* Advance steps preserve the types, one action at a time.                   *)
LEMMA AdvanceType ==
  ASSUME TypeInv, NEW r \in Runs, Advance(r)
  PROVE  TypeOK'
<1>0. run[r] \in Run /\ TypeOK /\ HasGroup(run[r])
  BY DEF TypeInv, TypeOK
<1>1. CASE Fetch(r)
  <2>1. offers[run[r].criteria] \in SUBSET Listings
    BY <1>0 DEF TypeOK, Run
  <2>2. IncompleteGroups \in SUBSET Groups
    BY DEF IncompleteGroups
  <2>3. [run[r] EXCEPT !.pc = "recover", !.snap = offers[run[r].criteria],
                       !.work = IncompleteGroups] \in Run
    BY <1>0, <2>1, <2>2 DEF Run, Steps
  <2> QED
    BY <1>0, <1>1, <2>3, RunType
       DEF Fetch, TypeOK, environment, database, faults
<1>2. CASE Recover(r)
  <2>1. PICK g \in run[r].work : CleanGroup(r, g, "recover")
    BY <1>2 DEF Recover
  <2>2. g \in Groups /\ "recover" \in Steps
    BY <1>0 DEF Run, Steps
  <2> QED
    BY <1>0, <1>2, <2>1, <2>2, CleanType, RunType
       DEF Recover, TypeOK, environment, database
<1>3. CASE Unchanged(r)
  BY <1>0, <1>3, IdleType, RunType
     DEF Unchanged, TypeOK, KeptRows, Retire, Status, Run, environment, faults
<1>4. CASE Begin(r)
  <2>1. created' \in Groups /\ created' \in 0..MaxGroups
    BY <1>0, <1>4, SyncAssumption DEF Begin, TypeOK, Groups
  <2>2. ItemsOf(run[r].snap) \in SUBSET Items
    BY <1>0 DEF ItemsOf, Items, Run
  <2>3. ActiveGroup \in Groups \cup {NoGroup}
    BY ActiveGroupType
  <2>4. [run[r] EXCEPT !.pc = "send", !.pending = created',
                       !.active = ActiveGroup,
                       !.todo = ItemsOf(run[r].snap),
                       !.dropped = {}, !.retired = {}] \in Run
    BY <1>0, <2>1, <2>2, <2>3 DEF Run, Steps
  <2>5. status' \in [Groups -> Status]
    BY <1>0, <1>4, <2>1 DEF Begin, TypeOK, Retire, Status
  <2>6. fp' \in [Groups -> SUBSET Listings]
    BY <1>0, <1>4, <2>1 DEF Begin, TypeOK, Run
  <2> QED
    BY <1>0, <1>4, <2>1, <2>4, <2>5, <2>6, RunType
       DEF Begin, TypeOK, KeptRows, environment, faults
<1>5. CASE SendCard(r)
  <2>1. PICK i \in run[r].todo :
          /\ chat' = chat \cup {<<run[r].pending, i>>}
          /\ Becomes(r, [run[r] EXCEPT !.pc = "record", !.sent = i,
                                       !.todo = @ \ {i}])
    BY <1>5 DEF SendCard
  <2>2. [run[r] EXCEPT !.pc = "record", !.sent = i, !.todo = @ \ {i}] \in Run
    <3>1. i \in Items /\ run[r].todo \ {i} \in SUBSET Items
      BY <1>0 DEF Run
    <3> QED
      BY <1>0, <3>1 DEF Run, Steps
  <2>3. chat' \in SUBSET Cards
    <3>1. run[r].pending \in Groups /\ i \in Items
      BY <1>0, <1>5 DEF SendCard, At, HasGroup, Run
    <3> QED
      BY <1>0, <2>1, <3>1 DEF TypeOK, Cards
  <2> QED
    BY <1>0, <1>5, <2>1, <2>2, <2>3, RunType
       DEF SendCard, TypeOK, environment, database, faults
<1>6. CASE SendFails(r)
  <2>1. [run[r] EXCEPT !.pc = "undo"] \in Run
    BY <1>0 DEF Run, Steps
  <2>2. chat' \in SUBSET Cards /\ strays' \in 0..MaxStrays
        /\ failures' \in 0..MaxFailures
    <3>1. CASE failures' = failures + 1 /\ failures < MaxFailures
               /\ UNCHANGED <<chat, strays>>
      BY <1>0, <3>1, SyncAssumption DEF TypeOK
    <3>2. CASE /\ strays < MaxStrays /\ strays' = strays + 1
               /\ \E i \in run[r].todo :
                    chat' = chat \cup {<<run[r].pending, i>>}
               /\ UNCHANGED failures
      <4>1. PICK i \in run[r].todo : chat' = chat \cup {<<run[r].pending, i>>}
        BY <3>2
      <4>2. run[r].pending \in Groups /\ i \in Items
        BY <1>0, <1>6, <4>1 DEF SendFails, At, HasGroup, Run
      <4> QED
        BY <1>0, <3>2, <4>1, <4>2, SyncAssumption DEF TypeOK, Cards
    <3> QED
      BY <1>0, <1>6, <3>1, <3>2 DEF SendFails
  <2> QED
    BY <1>0, <1>6, <2>1, <2>2, RunType
       DEF SendFails, TypeOK, environment, database
<1>7. CASE RecordCard(r)
  <2>1. [run[r] EXCEPT !.pc = AfterCard(r), !.sent = NoItem] \in Run
    BY <1>0 DEF Run, Steps, AfterCard, NoItem
  <2>2. rows' \in SUBSET Cards
    BY <1>0, <1>7 DEF RecordCard, Recorded, At, HasGroup, TypeOK, Cards
  <2> QED
    BY <1>0, <1>7, <2>1, <2>2, RunType DEF RecordCard, TypeOK, environment, faults
<1>8. CASE Undo(r)
  <2>1. run[r].pending \in Groups /\ "undone" \in Steps
    BY <1>0, <1>8 DEF Undo, At, HasGroup, Steps
  <2> QED
    BY <1>0, <1>8, <2>1, CleanType, RunType
       DEF Undo, TypeOK, environment, database
<1>9. CASE CommitFailed(r)
  BY <1>0, <1>9, IdleType, RunType
     DEF CommitFailed, TypeOK, KeptRows, Status, environment, faults
<1>10. CASE Activate(r)
  <2>1. [run[r] EXCEPT !.pc = "cleanup"] \in Run
    BY <1>0 DEF Run, Steps
  <2>2. status' \in [Groups -> Status]
    BY <1>0, <1>10 DEF Activate, Activated, TypeOK, Status
  <2>3. available' \in SUBSET Listings
    BY <1>0, <1>10 DEF Activate, Run
  <2> QED
    BY <1>0, <1>10, <2>1, <2>2, <2>3, RunType
       DEF Activate, TypeOK, environment, faults
<1>11. CASE Cleanup(r)
  <2>1. run[r].active \in Groups /\ "cleaned" \in Steps
    BY <1>0, <1>11 DEF Cleanup, Run, Steps
  <2> QED
    BY <1>0, <1>11, <2>1, CleanType, RunType
       DEF Cleanup, TypeOK, environment, database
<1>12. CASE Complete(r)
  BY <1>0, <1>12, IdleType, RunType
     DEF Complete, TypeOK, KeptRows, Retire, Status, environment, faults
<1>13. CASE Release(r)
  BY <1>0, <1>13, IdleType, RunType
     DEF Release, Released, TypeOK, environment, database, faults
<1> QED
  BY <1>1, <1>2, <1>3, <1>4, <1>5, <1>6, <1>7, <1>8, <1>9, <1>10, <1>11,
     <1>12, <1>13 DEF Advance

LEMMA AdvanceGroups ==
  ASSUME TypeInv, NEW r \in Runs, Advance(r)
  PROVE  \A q \in Runs : HasGroup(run'[q])
<1>0. run[r] \in Run /\ TypeOK /\ HasGroup(run[r])
  BY DEF TypeInv, TypeOK
<1>. USE DEF HasGroup, At
<1>1. CASE Fetch(r)
  BY <1>0, <1>1 DEF Fetch, Becomes, TypeInv, TypeOK, Run
<1>2. CASE Recover(r)
  BY <1>0, <1>2 DEF Recover, CleanGroup, Becomes, TypeInv, TypeOK, Run
<1>3. CASE Unchanged(r) \/ CommitFailed(r) \/ Complete(r) \/ Release(r)
  BY <1>0, <1>3 DEF Unchanged, CommitFailed, Complete, Release, Becomes,
                    Leaving, Idle, TypeInv, TypeOK, Run
<1>4. CASE Begin(r)
  <2>1. created' \in Groups
    BY <1>0, <1>4, SyncAssumption DEF Begin, TypeOK, Groups
  <2> QED
    BY <1>0, <1>4, <2>1 DEF Begin, Becomes, TypeInv, TypeOK, Run
<1>5. CASE SendCard(r)
  BY <1>0, <1>5 DEF SendCard, Becomes, TypeInv, TypeOK, Run
<1>6. CASE SendFails(r)
  BY <1>0, <1>6 DEF SendFails, Becomes, TypeInv, TypeOK, Run
<1>7. CASE RecordCard(r)
  BY <1>0, <1>7 DEF RecordCard, AfterCard, Becomes, TypeInv, TypeOK, Run
<1>8. CASE Undo(r)
  BY <1>0, <1>8 DEF Undo, CleanGroup, Becomes, TypeInv, TypeOK, Run
<1>9. CASE Activate(r)
  BY <1>0, <1>9 DEF Activate, Becomes, TypeInv, TypeOK, Run
<1>10. CASE Cleanup(r)
  BY <1>0, <1>10 DEF Cleanup, CleanGroup, Becomes, TypeInv, TypeOK, Run
<1> QED
  BY <1>1, <1>2, <1>3, <1>4, <1>5, <1>6, <1>7, <1>8, <1>9, <1>10 DEF Advance

LEMMA TypeStep == TypeInv /\ [Next]_vars => TypeInv'
<1> SUFFICES ASSUME TypeInv, [Next]_vars PROVE TypeInv'
  OBVIOUS
<1>0. TypeOK /\ \A q \in Runs : run[q] \in Run /\ HasGroup(run[q])
  BY DEF TypeInv, TypeOK
<1>1. ASSUME NEW r \in Runs, Acquire(r) PROVE TypeInv'
  <2>1. [run[r] EXCEPT !.pc = "fetch", !.criteria = criteria] \in Run
    BY <1>0, ZenonT(40) DEF TypeOK, Run, Steps
  <2>2. TypeOK'
    BY <1>0, <1>1, <2>1, RunType
       DEF Acquire, TypeOK, environment, database, faults
  <2>3. \A q \in Runs : HasGroup(run'[q])
    BY <1>0, <1>1 DEF Acquire, Becomes, HasGroup, TypeOK, Run
  <2> QED
    BY <2>2, <2>3 DEF TypeInv
<1>2. ASSUME NEW r \in Runs, Advance(r) PROVE TypeInv'
  BY <1>2, AdvanceType, AdvanceGroups DEF TypeInv
<1>3. ASSUME NEW r \in Runs, Abort(r) \/ Crash(r) PROVE TypeInv'
  <2>1. TypeOK'
    BY <1>0, <1>3, IdleType, RunType, SyncAssumption
       DEF Abort, Crash, TypeOK, environment, database
  <2>2. \A q \in Runs : HasGroup(run'[q])
    BY <1>0, <1>3
       DEF Abort, Crash, Becomes, Leaving, Idle, HasGroup, TypeOK, Run
  <2> QED
    BY <2>1, <2>2 DEF TypeInv
<1>4. CASE \/ ExpireLease \/ ProviderChanges \/ ChangeCriteria
           \/ ToggleMonitoring \/ UNCHANGED vars
  <2>1. run' = run
    BY <1>4 DEF ExpireLease, ProviderChanges, ChangeCriteria,
                ToggleMonitoring, vars
  <2>2. TypeOK'
    <3>1. CASE ExpireLease
      BY <1>0, <3>1 DEF ExpireLease, TypeOK, environment, database, faults
    <3>2. CASE ProviderChanges
      <4>1. changes' \in 0..MaxChanges
        BY <1>0, <3>2, SyncAssumption DEF ProviderChanges, TypeOK
      <4> QED
        BY <1>0, <3>2, <4>1 DEF ProviderChanges, TypeOK, database, faults
    <3>3. CASE ChangeCriteria
      <4>1. changes' \in 0..MaxChanges
        BY <1>0, <3>3, SyncAssumption DEF ChangeCriteria, TypeOK
      <4>2. enabled' \in BOOLEAN /\ criteria' \in Criteria
        BY <1>0, <3>3 DEF ChangeCriteria, TypeOK
      <4> QED
        BY <1>0, <3>3, <4>1, <4>2 DEF ChangeCriteria, TypeOK, database, faults
    <3>4. CASE ToggleMonitoring
      <4>1. changes' \in 0..MaxChanges
        BY <1>0, <3>4, SyncAssumption DEF ToggleMonitoring, TypeOK
      <4> QED
        BY <1>0, <3>4, <4>1 DEF ToggleMonitoring, TypeOK, database, faults
    <3>5. CASE UNCHANGED vars
      BY <1>0, <3>5 DEF vars, environment, database, faults, TypeOK
    <3> QED
      BY <1>4, <3>1, <3>2, <3>3, <3>4, <3>5
  <2> QED
    BY <1>0, <2>1, <2>2 DEF TypeInv
<1> QED
  BY <1>1, <1>2, <1>3, <1>4 DEF Next

(* Every reachable state is well typed: run-local values stay groups, cards  *)
(* and lists, and the statuses the six of app/db/models.py that occur.       *)
THEOREM TypeCorrect == Spec => []TypeOK
<1>1. Init => TypeInv
  BY TypeInit
<1>2. TypeInv /\ [Next]_vars => TypeInv'
  BY TypeStep
<1>3. TypeInv => TypeOK
  BY DEF TypeInv
<1> QED
  BY <1>1, <1>2, <1>3, PTL DEF Spec

-------------------------------------------------------------------------------
(***************************************************************************)
(* Safety, for runs that finish within their lease.                        *)
(***************************************************************************)

IInv == TypeInv /\ SyncInv

LEMMA InvInit == Init => SyncInv
<1> SUFFICES ASSUME Init PROVE SyncInv
  OBVIOUS
<1>1. LeaseOwnerRuns
  BY DEF Init, LeaseOwnerRuns, At, Idle
<1>2. ActiveGroups = {}
  BY DEF Init, ActiveGroups
<1>3. DisplayInv
  BY <1>2 DEF Init, DisplayInv, FreshGroups, RowsReachable, AtMostOneActive,
              ActiveListOnScreen
<1>4. \A r \in Runs : LocalInv(r)
  BY DEF Init, LocalInv, CleansIncomplete, FoundActive, CardsDone, Displaying,
         RowsOf, At, Idle
<1> QED
  BY <1>1, <1>3, <1>4 DEF SyncInv

(* The lease serialises the runs: a run that takes a step is alone.          *)
LEMMA RunsAlone ==
  ASSUME IInv, NEW r \in Runs, run[r] # Idle
  PROVE  lock = r /\ \A q \in Runs \ {r} : run[q] = Idle
BY DEF IInv, SyncInv, LeaseOwnerRuns

(* So a step that leaves the lease alone has to establish its own run's part *)
(* of the invariant only.                                                    *)
LEMMA StepOfRun ==
  ASSUME IInv, NEW r \in Runs, run[r] # Idle, NEW local, Becomes(r, local),
         local.pc # "idle", local.pc = "release" => local = Leaving,
         lock' = lock, DisplayInv', LocalInv(r)'
  PROVE  SyncInv'
<1>1. lock = r /\ \A q \in Runs \ {r} : run[q] = Idle
  BY RunsAlone
<1>2. run'[r] = local /\ \A q \in Runs \ {r} : run'[q] = run[q]
  BY DEF IInv, TypeInv, TypeOK, Becomes
<1>3. LeaseOwnerRuns'
  BY <1>1, <1>2 DEF LeaseOwnerRuns, At, Idle
<1>4. \A q \in Runs \ {r} : LocalInv(q)'
  BY <1>1, <1>2 DEF LocalInv, CleansIncomplete, FoundActive, CardsDone,
                    Displaying, At, Idle
<1> QED
  BY <1>3, <1>4 DEF SyncInv

LEMMA LocalRun ==
  ASSUME IInv, NEW r \in Runs, NEW local, Becomes(r, local)
  PROVE  run'[r] = local /\ run[r] \in Run
BY DEF IInv, TypeInv, TypeOK, Becomes

(* Cleaning an incomplete group touches no card of the list on display.      *)
LEMMA CleanInv ==
  ASSUME IInv, NEW r \in Runs, run[r] # Idle, NEW g \in IncompleteGroups,
         NEW next \in {"recover", "undone", "cleaned"},
         CleanGroup(r, g, next), next # "recover" => run[r].work = {},
         next = "recover" => run[r].sent = NoItem,
         UNCHANGED <<created, status, fp, rows, available, lock>>,
         FoundActive(r)'
  PROVE  SyncInv'
<1>1. PICK gone \in SUBSET RowsOf(g), kept \in SUBSET RowsOf(g) :
        /\ chat' = chat \ gone
        /\ Becomes(r, Cleaned(r, g, kept, next))
  BY DEF CleanGroup, Cleaned
<1>2. run'[r] = Cleaned(r, g, kept, next) /\ run[r] \in Run
  BY <1>1, LocalRun
<1>3. /\ run'[r].pc = next
      /\ run'[r].sent = run[r].sent
      /\ run'[r].work = run[r].work \ {g}
      /\ run'[r].dropped = run[r].dropped \cup (RowsOf(g) \ kept)
      /\ run'[r].retired = IF kept = {} THEN run[r].retired \cup {g}
                           ELSE run[r].retired
  BY <1>2 DEF Cleaned, RetireCleaned, Run
<1>4. LocalInv(r) /\ DisplayInv /\ status \in [Groups -> Status]
  BY DEF IInv, SyncInv, TypeInv, TypeOK
<1>5. DisplayInv'
  <2>1. ActiveGroups' = ActiveGroups /\ g \notin ActiveGroups
    BY DEF ActiveGroups, IncompleteGroups, Incomplete
  <2>2. \A h \in ActiveGroups : CardsOf(h) \subseteq rows' \cap chat'
    BY <1>1, <1>4, <2>1 DEF DisplayInv, ActiveListOnScreen, CardsOf, RowsOf
  <2>3. ActiveListOnScreen'
    BY <2>1, <2>2 DEF ActiveListOnScreen, CardsOf
  <2> QED
    BY <1>4, <2>1, <2>3
       DEF DisplayInv, FreshGroups, RowsReachable, AtMostOneActive
<1>6. CleansIncomplete(r)'
  <2>1. RowsOf(g)' = RowsOf(g) /\ IncompleteGroups' = IncompleteGroups
    BY DEF RowsOf, IncompleteGroups
  <2>2. \A m \in RowsOf(g) : m[1] = g
    BY DEF RowsOf
  <2>3. /\ (run[r].work \cup run[r].retired) \cup {g} \subseteq IncompleteGroups
        /\ \A m \in run[r].dropped : m[1] \in IncompleteGroups
        /\ \A h \in run[r].retired : RowsOf(h) \subseteq run[r].dropped
    BY <1>4 DEF LocalInv, CleansIncomplete
  <2>4. (run[r].work \cup run[r].retired)' \subseteq IncompleteGroups'
    BY <1>3, <2>1, <2>3
  <2>5. \A m \in run'[r].dropped : m[1] \in IncompleteGroups'
    BY <1>3, <2>1, <2>2, <2>3
  <2>6. \A h \in run'[r].retired : RowsOf(h)' \subseteq run'[r].dropped
    BY <1>3, <2>3 DEF RowsOf
  <2>7. (~At(r, "recover"))' => run'[r].work = {}
    BY <1>3 DEF At
  <2> QED
    BY <1>3, <2>4, <2>5, <2>6, <2>7 DEF CleansIncomplete
<1>7. CardsDone(r)'
  BY <1>3 DEF CardsDone, At
<1>8. LocalInv(r)'
  BY <1>6, <1>7 DEF LocalInv
<1>9. /\ Cleaned(r, g, kept, next).pc # "idle"
      /\ Cleaned(r, g, kept, next).pc # "release"
  BY <1>2, <1>3
<1> QED
  BY <1>1, <1>5, <1>8, <1>9, StepOfRun

LEMMA CleanedRun ==
  ASSUME IInv, NEW r \in Runs, NEW g, NEW next, CleanGroup(r, g, next)
  PROVE  /\ run'[r].pc = next
         /\ run'[r].pending = run[r].pending
         /\ run'[r].snap = run[r].snap /\ run'[r].active = run[r].active
<1>1. PICK kept : Becomes(r, Cleaned(r, g, kept, next))
  BY DEF CleanGroup, Cleaned
<1>2. run'[r] = Cleaned(r, g, kept, next) /\ run[r] \in Run
  BY <1>1, LocalRun
<1> QED
  BY <1>2 DEF Cleaned, Run

LEMMA FetchInv == ASSUME IInv, NEW r \in Runs, Fetch(r) PROVE SyncInv'
<1> DEFINE local == [run[r] EXCEPT !.pc = "recover",
                                   !.snap = offers[run[r].criteria],
                                   !.work = IncompleteGroups]
<1>1. Becomes(r, local) /\ run[r].pc = "fetch" /\ run[r] # Idle
  BY DEF Fetch, At, Idle
<1>2. run'[r] = local /\ run[r] \in Run
  BY <1>1, LocalRun
<1>3. /\ run'[r].pc = "recover" /\ run'[r].work = IncompleteGroups
      /\ run'[r].dropped = run[r].dropped /\ run'[r].retired = run[r].retired
      /\ local.pc = "recover" /\ run'[r].sent = run[r].sent
  BY <1>2 DEF Run
<1>4. run[r].dropped = {} /\ run[r].retired = {} /\ run[r].sent = NoItem
  BY <1>1 DEF IInv, SyncInv, LocalInv, CleansIncomplete, CardsDone
<1>5. UNCHANGED <<created, status, fp, rows, available, chat, lock>>
  BY DEF Fetch, database
<1>6. DisplayInv'
  BY <1>5 DEF IInv, SyncInv, DisplayInv, FreshGroups, RowsReachable,
              AtMostOneActive, ActiveListOnScreen, ActiveGroups, CardsOf
<1>7. LocalInv(r)'
  <2>1. IncompleteGroups' = IncompleteGroups
    BY <1>5 DEF IncompleteGroups
  <2> QED
    BY <1>3, <1>4, <2>1
       DEF LocalInv, CleansIncomplete, FoundActive, CardsDone, Displaying, At
<1> QED
  BY <1>1, <1>3, <1>5, <1>6, <1>7, StepOfRun

LEMMA RecoverInv == ASSUME IInv, NEW r \in Runs, Recover(r) PROVE SyncInv'
<1>1. PICK g \in run[r].work : CleanGroup(r, g, "recover")
  BY DEF Recover
<1>2. run[r].pc = "recover" /\ run[r] # Idle
  BY DEF Recover, At, Idle
<1>3. g \in IncompleteGroups /\ run[r].sent = NoItem
  BY <1>1, <1>2 DEF IInv, SyncInv, LocalInv, CleansIncomplete, CardsDone
<1>4. UNCHANGED <<created, status, fp, rows, available, lock>>
  BY DEF Recover, database
<1>5. run'[r].pc = "recover"
  BY <1>1, CleanedRun
<1>6. FoundActive(r)'
  BY <1>5 DEF FoundActive, Displaying
<1> QED
  BY <1>1, <1>2, <1>3, <1>4, <1>6, CleanInv

LEMMA UndoInv == ASSUME IInv, NEW r \in Runs, Undo(r) PROVE SyncInv'
<1>1. run[r].pc = "undo" /\ run[r] # Idle
  BY DEF Undo, At, Idle
<1>2. LocalInv(r)
  BY DEF IInv, SyncInv
<1>3. run[r].pending \in IncompleteGroups /\ run[r].work = {}
  BY <1>1, <1>2 DEF LocalInv, FoundActive, CleansIncomplete, Displaying, At,
                    IncompleteGroups, Incomplete
<1>4. UNCHANGED <<created, status, fp, rows, available, lock>>
  BY DEF Undo, database
<1>5. /\ run'[r].pc = "undone" /\ run'[r].pending = run[r].pending
      /\ run'[r].snap = run[r].snap /\ run'[r].active = run[r].active
  BY CleanedRun DEF Undo
<1>6. FoundActive(r)'
  BY <1>1, <1>2, <1>4, <1>5
     DEF LocalInv, FoundActive, Displaying, ActiveGroups
<1> QED
  BY <1>1, <1>3, <1>4, <1>6, CleanInv DEF Undo

LEMMA CleanupInv == ASSUME IInv, NEW r \in Runs, Cleanup(r) PROVE SyncInv'
<1>1. run[r].pc = "cleanup" /\ run[r] # Idle /\ run[r].active # NoGroup
  BY DEF Cleanup, At, Idle
<1>2. LocalInv(r) /\ run[r] \in Run
  BY DEF IInv, SyncInv, TypeInv, TypeOK
<1>3. run[r].active \in IncompleteGroups /\ run[r].work = {}
  BY <1>1, <1>2 DEF LocalInv, FoundActive, CleansIncomplete, At, Run,
                    IncompleteGroups, Incomplete
<1>4. UNCHANGED <<created, status, fp, rows, available, lock>>
  BY DEF Cleanup, database
<1>5. run'[r].pc = "cleaned" /\ run'[r].active = run[r].active
  BY CleanedRun DEF Cleanup
<1>6. FoundActive(r)'
  BY <1>1, <1>2, <1>4, <1>5 DEF LocalInv, FoundActive, Displaying
<1> QED
  BY <1>1, <1>3, <1>4, <1>6, CleanInv DEF Cleanup

LEMMA SendCardInv == ASSUME IInv, NEW r \in Runs, SendCard(r) PROVE SyncInv'
<1>1. PICK i \in run[r].todo :
        /\ chat' = chat \cup {<<run[r].pending, i>>}
        /\ Becomes(r, [run[r] EXCEPT !.pc = "record", !.sent = i,
                                     !.todo = @ \ {i}])
  BY DEF SendCard
<1> DEFINE local == [run[r] EXCEPT !.pc = "record", !.sent = i,
                                   !.todo = @ \ {i}]
<1>2. run[r].pc = "send" /\ run[r] # Idle
  BY DEF SendCard, At, Idle
<1>3. run'[r] = local /\ run[r] \in Run /\ LocalInv(r) /\ Becomes(r, local)
  BY <1>1, LocalRun DEF IInv, SyncInv
<1>4. run'[r] = [run[r] EXCEPT !.pc = "record", !.sent = i, !.todo = @ \ {i}]
  BY <1>3
<1>5. /\ run'[r].pc = "record" /\ run'[r].sent = i
      /\ run'[r].todo = run[r].todo \ {i} /\ run'[r].snap = run[r].snap
      /\ run'[r].pending = run[r].pending /\ run'[r].active = run[r].active
      /\ run'[r].work = run[r].work /\ run'[r].dropped = run[r].dropped
      /\ run'[r].retired = run[r].retired
  BY <1>3, <1>4 DEF Run
<1>6. UNCHANGED <<created, status, fp, rows, available, lock>>
  BY DEF SendCard, database
<1>7. ActiveListOnScreen'
  BY <1>1, <1>6 DEF IInv, SyncInv, DisplayInv, ActiveListOnScreen,
                    ActiveGroups, CardsOf
<1>8. DisplayInv'
  BY <1>6, <1>7 DEF IInv, SyncInv, DisplayInv, FreshGroups, RowsReachable,
              AtMostOneActive, ActiveGroups
<1>9. CleansIncomplete(r)'
  BY <1>2, <1>3, <1>5, <1>6
     DEF LocalInv, CleansIncomplete, At, RowsOf, IncompleteGroups
<1>10. FoundActive(r)'
  BY <1>2, <1>3, <1>5, <1>6
     DEF LocalInv, FoundActive, Displaying, ActiveGroups
<1>11. CardsDone(r)'
  <2>1. i \in Items
    BY <1>1, <1>3 DEF Run
  <2>2. ASSUME NEW j \in ItemsOf(run[r].snap) \ (run[r].todo \ {i})
        PROVE  /\ <<run[r].pending, j>> \in chat'
               /\ j # i => <<run[r].pending, j>> \in rows
    <3>1. CASE j = i
      BY <1>1, <3>1
    <3>2. CASE j # i
      <4>1. j \in ItemsOf(run[r].snap) \ run[r].todo
        BY <2>2, <3>2
      <4>2. j # run[r].sent
        BY <1>2, <1>3, <4>1, SyncAssumption
           DEF LocalInv, CardsDone, At, NoItem, ItemsOf, Run
      <4> QED
        BY <1>1, <1>2, <1>3, <4>1, <4>2 DEF LocalInv, CardsDone
    <3> QED
      BY <3>1, <3>2
  <2> QED
    BY <1>1, <1>5, <1>6, <2>1, <2>2 DEF CardsDone, At
<1>12. local.pc = "record"
  BY <1>3, <1>5
<1> HIDE DEF local
<1> QED
  BY <1>2, <1>3, <1>6, <1>8, <1>9, <1>10, <1>11, <1>12, StepOfRun
     DEF LocalInv

LEMMA SendFailsInv == ASSUME IInv, NEW r \in Runs, SendFails(r) PROVE SyncInv'
<1> DEFINE local == [run[r] EXCEPT !.pc = "undo"]
<1>1. run[r].pc = "send" /\ run[r] # Idle /\ Becomes(r, local)
  BY DEF SendFails, At, Idle
<1>2. run'[r] = local /\ run[r] \in Run /\ LocalInv(r)
  BY <1>1, LocalRun DEF IInv, SyncInv
<1>3. run'[r].pc = "undo" /\ local.pc = "undo"
      /\ run'[r] = [run[r] EXCEPT !.pc = "undo"]
  BY <1>2 DEF Run
<1>4. UNCHANGED <<created, status, fp, rows, available, lock>>
  BY DEF SendFails, database
<1>5. chat \subseteq chat'
  BY DEF SendFails
<1>6. DisplayInv'
  <2>1. ActiveListOnScreen'
    BY <1>4, <1>5 DEF IInv, SyncInv, DisplayInv, ActiveListOnScreen,
                      ActiveGroups, CardsOf
  <2> QED
    BY <1>4, <2>1 DEF IInv, SyncInv, DisplayInv, FreshGroups, RowsReachable,
                      AtMostOneActive, ActiveGroups
<1>7. CleansIncomplete(r)'
  BY <1>1, <1>2, <1>3, <1>4
     DEF LocalInv, CleansIncomplete, At, RowsOf, IncompleteGroups, Run
<1>8. FoundActive(r)'
  BY <1>1, <1>2, <1>3, <1>4
     DEF LocalInv, FoundActive, Displaying, ActiveGroups, Run
<1>9. CardsDone(r)'
  BY <1>3 DEF CardsDone, At
<1> HIDE DEF local
<1> QED
  BY <1>1, <1>3, <1>4, <1>6, <1>7, <1>8, <1>9, StepOfRun DEF LocalInv

LEMMA RecordCardInv ==
  ASSUME IInv, NEW r \in Runs, RecordCard(r) PROVE SyncInv'
<1> DEFINE local == [run[r] EXCEPT !.pc = AfterCard(r), !.sent = NoItem]
           card == <<run[r].pending, run[r].sent>>
<1>1. run[r].pc = "record" /\ run[r] # Idle /\ Becomes(r, local)
      /\ rows' = rows \cup {card}
  BY DEF RecordCard, Recorded, At, Idle
<1>2. run'[r] = local /\ run[r] \in Run /\ LocalInv(r)
  BY <1>1, LocalRun DEF IInv, SyncInv
<1>3. run'[r] = [run[r] EXCEPT !.pc = AfterCard(r), !.sent = NoItem]
  BY <1>2
<1>4. /\ run'[r].pc = AfterCard(r) /\ run'[r].sent = NoItem
      /\ run'[r].todo = run[r].todo /\ run'[r].snap = run[r].snap
      /\ run'[r].pending = run[r].pending /\ run'[r].active = run[r].active
      /\ run'[r].work = run[r].work /\ run'[r].dropped = run[r].dropped
      /\ run'[r].retired = run[r].retired
  BY <1>2, <1>3 DEF Run
<1>5. UNCHANGED <<created, status, fp, available, chat, lock>>
  BY DEF RecordCard
<1>6. /\ AfterCard(r) \in {"send", "activate"}
      /\ AfterCard(r) = "activate" => run[r].todo = {}
  BY DEF AfterCard
<1>7. /\ run[r].pending \in Groups /\ status[run[r].pending] = "pending"
      /\ run[r].work = {} /\ run[r].dropped = {} /\ run[r].retired = {}
  BY <1>1, <1>2 DEF LocalInv, FoundActive, CleansIncomplete, Displaying, At
<1>8. DisplayInv'
  <2>1. ActiveListOnScreen'
    BY <1>1, <1>5 DEF IInv, SyncInv, DisplayInv, ActiveListOnScreen,
                      ActiveGroups, CardsOf
  <2>2. RowsReachable'
    BY <1>1, <1>5, <1>7
       DEF IInv, SyncInv, DisplayInv, RowsReachable, Incomplete
  <2> QED
    BY <1>5, <2>1, <2>2 DEF IInv, SyncInv, DisplayInv, FreshGroups,
                            AtMostOneActive, ActiveGroups
<1>9. CleansIncomplete(r)'
  BY <1>4, <1>6, <1>7 DEF CleansIncomplete
<1>10. FoundActive(r)'
  BY <1>1, <1>2, <1>4, <1>5, <1>6
     DEF LocalInv, FoundActive, Displaying, ActiveGroups
<1>11. CardsDone(r)'
  BY <1>1, <1>2, <1>4, <1>5, <1>6 DEF LocalInv, CardsDone, At
<1>12. local.pc = AfterCard(r)
  BY <1>2, <1>4
<1> HIDE DEF local
<1> QED
  BY <1>1, <1>5, <1>6, <1>8, <1>9, <1>10, <1>11, <1>12, StepOfRun
     DEF LocalInv

(* The commit of what a run has cleaned keeps the list on display, and no    *)
(* kept row belongs to a retired group.                                      *)
LEMMA RetireInv ==
  ASSUME IInv, NEW r \in Runs, rows' = KeptRows(r), status' = Retire(r),
         UNCHANGED <<fp, chat>>
  PROVE  /\ ActiveGroups' = ActiveGroups
         /\ AtMostOneActive' /\ ActiveListOnScreen' /\ RowsReachable'
         /\ \A g \in Groups : status[g] = "absent" => status'[g] = "absent"
<1>1. LocalInv(r) /\ DisplayInv /\ status \in [Groups -> Status]
      /\ run[r] \in Run /\ rows \in SUBSET Cards
  BY DEF IInv, SyncInv, TypeInv, TypeOK
<1>2. \A g \in run[r].retired : status[g] \in Incomplete /\ g \in Groups
  BY <1>1 DEF LocalInv, CleansIncomplete, IncompleteGroups
<1>3. \A g \in Groups : status'[g] = IF g \in run[r].retired THEN "retired"
                                     ELSE status[g]
  BY DEF Retire
<1>4. ActiveGroups' = ActiveGroups
  BY <1>2, <1>3 DEF ActiveGroups, Incomplete
<1>5. \A m \in run[r].dropped : m[1] \notin ActiveGroups
  BY <1>1 DEF LocalInv, CleansIncomplete, IncompleteGroups, Incomplete,
              ActiveGroups
<1>6. ActiveListOnScreen'
  <2> SUFFICES ASSUME NEW g \in ActiveGroups, NEW m \in CardsOf(g)
               PROVE  m \in rows' /\ m \in chat
    BY <1>4 DEF ActiveListOnScreen, CardsOf
  <2>1. m \in rows /\ m \in chat
    BY <1>1 DEF DisplayInv, ActiveListOnScreen
  <2>2. m[1] = g
    BY DEF CardsOf
  <2> QED
    BY <1>5, <2>1, <2>2 DEF KeptRows
<1>7. RowsReachable'
  <2> SUFFICES ASSUME NEW m \in rows'
               PROVE  status'[m[1]] \in Incomplete \cup {"active"}
    BY DEF RowsReachable
  <2>1. m \in rows /\ m \notin run[r].dropped /\ m[1] \in Groups
    BY <1>1 DEF KeptRows, Cards
  <2>2. m[1] \notin run[r].retired
    BY <1>1, <2>1 DEF LocalInv, CleansIncomplete, RowsOf
  <2> QED
    BY <1>1, <1>3, <2>1, <2>2 DEF DisplayInv, RowsReachable
<1>8. \A g \in Groups : status[g] = "absent" => status'[g] = "absent"
  BY <1>2, <1>3 DEF Incomplete
<1> QED
  BY <1>1, <1>4, <1>6, <1>7, <1>8 DEF DisplayInv, AtMostOneActive

(* A run that leaves has no local state any more.                            *)
LEMMA LeaveInv ==
  ASSUME IInv, NEW r \in Runs, run[r] # Idle, Becomes(r, Leaving),
         lock' = lock, DisplayInv'
  PROVE  SyncInv'
<1>1. run'[r] = Leaving
  BY DEF IInv, TypeInv, TypeOK, Becomes
<1>2. LocalInv(r)'
  BY <1>1 DEF LocalInv, CleansIncomplete, FoundActive, CardsDone, Displaying,
              At, Idle, Leaving
<1>3. Leaving.pc = "release"
  BY DEF Leaving, Idle
<1> QED
  BY <1>2, <1>3, StepOfRun

LEMMA UnchangedInv ==
  ASSUME IInv, NEW r \in Runs, Unchanged(r) PROVE SyncInv'
<1>1. run[r] # Idle /\ rows' = KeptRows(r) /\ status' = Retire(r)
      /\ UNCHANGED <<created, fp, chat, lock>> /\ Becomes(r, Leaving)
  BY DEF Unchanged, Recovered, At, Idle
<1>2. DisplayInv
  BY DEF IInv, SyncInv
<1>3. \A g \in ActiveGroups' : available' = fp'[g]
  BY <1>1, <1>2, RetireInv, ActiveGroupType
     DEF Unchanged, DisplayInv, AtMostOneActive
<1>4. DisplayInv'
  BY <1>1, <1>2, <1>3, RetireInv DEF DisplayInv, FreshGroups
<1> QED
  BY <1>1, <1>4, LeaveInv

LEMMA CompleteInv ==
  ASSUME IInv, NEW r \in Runs, Complete(r) PROVE SyncInv'
<1>1. run[r] # Idle /\ rows' = KeptRows(r) /\ status' = Retire(r)
      /\ UNCHANGED <<created, fp, chat, lock, available>>
      /\ Becomes(r, Leaving)
  BY DEF Complete, At, Idle
<1>2. DisplayInv
  BY DEF IInv, SyncInv
<1>3. DisplayInv'
  BY <1>1, <1>2, RetireInv DEF DisplayInv, FreshGroups
<1> QED
  BY <1>1, <1>3, LeaveInv

LEMMA CommitFailedInv ==
  ASSUME IInv, NEW r \in Runs, CommitFailed(r) PROVE SyncInv'
<1>1. run[r].pc = "undone" /\ run[r] # Idle /\ rows' = rows \ run[r].dropped
      /\ status' = [status EXCEPT ![run[r].pending] = "failed"]
      /\ UNCHANGED <<created, fp, chat, lock, available>>
      /\ Becomes(r, Leaving)
  BY DEF CommitFailed, KeptRows, At, Idle
<1>2. LocalInv(r) /\ DisplayInv /\ status \in [Groups -> Status]
      /\ rows \in SUBSET Cards
  BY DEF IInv, SyncInv, TypeInv, TypeOK
<1>3. run[r].pending \in Groups /\ status[run[r].pending] = "pending"
  BY <1>1, <1>2 DEF LocalInv, FoundActive, Displaying
<1>4. ActiveGroups' = ActiveGroups
  BY <1>1, <1>2, <1>3 DEF ActiveGroups
<1>5. \A m \in run[r].dropped : m[1] \notin ActiveGroups
  BY <1>2 DEF LocalInv, CleansIncomplete, IncompleteGroups, Incomplete,
              ActiveGroups
<1>6. ActiveListOnScreen'
  <2> SUFFICES ASSUME NEW g \in ActiveGroups, NEW m \in CardsOf(g)
               PROVE  m \in rows' /\ m \in chat
    BY <1>1, <1>4 DEF ActiveListOnScreen, CardsOf
  <2>1. m \in rows /\ m \in chat /\ m[1] = g
    BY <1>2 DEF DisplayInv, ActiveListOnScreen, CardsOf
  <2> QED
    BY <1>1, <1>5, <2>1
<1>7. RowsReachable'
  BY <1>1, <1>2, <1>3 DEF DisplayInv, RowsReachable, Incomplete
<1>8. FreshGroups'
  BY <1>1, <1>2, <1>3 DEF DisplayInv, FreshGroups
<1>9. DisplayInv'
  BY <1>1, <1>2, <1>4, <1>6, <1>7, <1>8 DEF DisplayInv, AtMostOneActive
<1> QED
  BY <1>1, <1>9, LeaveInv

LEMMA BeginInv == ASSUME IInv, NEW r \in Runs, Begin(r) PROVE SyncInv'
<1> DEFINE local == [run[r] EXCEPT !.pc = "send", !.pending = created',
                                   !.active = ActiveGroup,
                                   !.todo = ItemsOf(run[r].snap),
                                   !.dropped = {}, !.retired = {}]
           new == created + 1
<1>1. run[r].pc = "recover" /\ run[r].work = {} /\ run[r] # Idle
      /\ Becomes(r, local) /\ rows' = KeptRows(r) /\ created' = new
      /\ status' = [Retire(r) EXCEPT ![new] = "pending"]
      /\ fp' = [fp EXCEPT ![new] = run[r].snap]
      /\ UNCHANGED <<chat, lock, available>>
  BY DEF Begin, Recovered, At, Idle
<1>2. run'[r] = local /\ run[r] \in Run /\ LocalInv(r) /\ DisplayInv
      /\ status \in [Groups -> Status] /\ fp \in [Groups -> SUBSET Listings]
      /\ rows \in SUBSET Cards /\ created \in 0..MaxGroups
  BY <1>1, LocalRun DEF IInv, SyncInv, TypeInv, TypeOK
<1>3. run'[r] = [run[r] EXCEPT !.pc = "send", !.pending = created',
                               !.active = ActiveGroup,
                               !.todo = ItemsOf(run[r].snap),
                               !.dropped = {}, !.retired = {}]
  BY <1>2
<1>4. /\ run'[r].pc = "send" /\ run'[r].pending = new
      /\ run'[r].active = ActiveGroup /\ run'[r].snap = run[r].snap
      /\ run'[r].todo = ItemsOf(run[r].snap) /\ run'[r].work = {}
      /\ run'[r].dropped = {} /\ run'[r].retired = {}
      /\ run'[r].sent = run[r].sent
  BY <1>1, <1>2, <1>3 DEF Run
<1>5. new \in Groups /\ new > created
  BY <1>2, SyncAssumption DEF Begin, Groups
<1>6. status[new] = "absent"
  BY <1>2, <1>5 DEF DisplayInv, FreshGroups
<1>7. \A g \in run[r].retired : status[g] \in Incomplete /\ g \in Groups
  BY <1>2 DEF LocalInv, CleansIncomplete, IncompleteGroups
<1>8. /\ status'[new] = "pending"
      /\ \A g \in Groups \ {new} :
           status'[g] = IF g \in run[r].retired THEN "retired" ELSE status[g]
  BY <1>1, <1>5 DEF Retire
<1>9. fp'[new] = run[r].snap /\ \A g \in Groups \ {new} : fp'[g] = fp[g]
  BY <1>1, <1>2, <1>5
<1>10. ActiveGroups' = ActiveGroups /\ new \notin ActiveGroups
  BY <1>6, <1>7, <1>8 DEF ActiveGroups, Incomplete
<1>11. ActiveListOnScreen'
  <2> SUFFICES ASSUME NEW g \in ActiveGroups, NEW m \in CardsOf(g)'
               PROVE  m \in rows' /\ m \in chat
    BY <1>1, <1>10 DEF ActiveListOnScreen
  <2>1. g \in Groups /\ g # new
    BY <1>10 DEF ActiveGroups
  <2>2. m \in CardsOf(g) /\ m[1] = g
    BY <1>9, <2>1 DEF CardsOf
  <2>3. m \in rows /\ m \in chat
    BY <1>2, <2>2 DEF DisplayInv, ActiveListOnScreen
  <2>4. m \notin run[r].dropped
    BY <1>2, <2>2 DEF LocalInv, CleansIncomplete, IncompleteGroups,
                      Incomplete, ActiveGroups
  <2> QED
    BY <1>1, <2>3, <2>4 DEF KeptRows
<1>12. RowsReachable'
  <2> SUFFICES ASSUME NEW m \in rows'
               PROVE  status'[m[1]] \in Incomplete \cup {"active"}
    BY DEF RowsReachable
  <2>1. m \in rows /\ m \notin run[r].dropped /\ m[1] \in Groups
    BY <1>1, <1>2 DEF KeptRows, Cards
  <2>2. m[1] \notin run[r].retired
    BY <1>2, <2>1 DEF LocalInv, CleansIncomplete, RowsOf
  <2> QED
    BY <1>2, <1>8, <2>1, <2>2 DEF DisplayInv, RowsReachable, Incomplete
<1>13. FreshGroups'
  <2> SUFFICES ASSUME NEW g \in Groups, g > new PROVE status'[g] = "absent"
    BY <1>1 DEF FreshGroups
  <2>1. g > created /\ g # new
    BY <1>2, SyncAssumption DEF Groups
  <2>2. status[g] = "absent"
    BY <1>2, <2>1 DEF DisplayInv, FreshGroups
  <2> QED
    BY <1>7, <1>8, <2>1, <2>2 DEF Incomplete
<1>14. \A g \in ActiveGroups' : available' = fp'[g]
  BY <1>1, <1>2, <1>9, <1>10 DEF DisplayInv, ActiveGroups
<1>15. DisplayInv'
  BY <1>2, <1>10, <1>11, <1>12, <1>13, <1>14 DEF DisplayInv, AtMostOneActive
<1>16. CleansIncomplete(r)'
  BY <1>4 DEF CleansIncomplete
<1>17. FoundActive(r)'
  <2>1. ActiveGroups = {ActiveGroup} \ {NoGroup}
    BY <1>2, ActiveGroupType DEF DisplayInv, AtMostOneActive, ActiveGroups,
                                 Groups, NoGroup
  <2> QED
    BY <1>4, <1>5, <1>8, <1>9, <1>10, <2>1 DEF FoundActive, Displaying
<1>18. CardsDone(r)'
  <2>1. run[r].sent = NoItem
    BY <1>1, <1>2 DEF LocalInv, CardsDone, At
  <2> QED
    BY <1>4, <2>1 DEF CardsDone, At
<1>19. local.pc = "send"
  BY <1>2, <1>4
<1> HIDE DEF local
<1> QED
  BY <1>1, <1>15, <1>16, <1>17, <1>18, <1>19, StepOfRun DEF LocalInv

(* The commit that swaps the lists: the new one has all its cards, the       *)
(* availability rows describe it and it alone is active.                     *)
LEMMA ActivateInv ==
  ASSUME IInv, NEW r \in Runs, Activate(r) PROVE SyncInv'
<1> DEFINE local == [run[r] EXCEPT !.pc = "cleanup"]
           new == run[r].pending
           old == run[r].active
<1>1. run[r].pc = "activate" /\ run[r] # Idle /\ Becomes(r, local)
      /\ available' = run[r].snap /\ status' = Activated(r)
      /\ UNCHANGED <<created, fp, rows, chat, lock>>
  BY DEF Activate, At, Idle
<1>2. run'[r] = local /\ run[r] \in Run /\ LocalInv(r) /\ DisplayInv
      /\ status \in [Groups -> Status]
  BY <1>1, LocalRun DEF IInv, SyncInv, TypeInv, TypeOK
<1>3. run'[r] = [run[r] EXCEPT !.pc = "cleanup"]
  BY <1>2
<1>4. /\ run'[r].pc = "cleanup" /\ run'[r].active = old
      /\ run'[r].work = run[r].work /\ run'[r].dropped = run[r].dropped
      /\ run'[r].retired = run[r].retired
  BY <1>2, <1>3 DEF Run
<1>5. /\ new \in Groups /\ status[new] = "pending"
      /\ fp[new] = run[r].snap /\ ActiveGroups = {old} \ {NoGroup}
  BY <1>1, <1>2 DEF LocalInv, FoundActive, Displaying
<1>6. new # old
  BY <1>5 DEF ActiveGroups, Groups, NoGroup
<1>7. \A g \in Groups : status'[g] = IF g = old THEN "retiring"
                                     ELSE IF g = new THEN "active"
                                     ELSE status[g]
  BY <1>1 DEF Activated
<1>8. ActiveGroups' = {new}
  BY <1>5, <1>6, <1>7 DEF ActiveGroups
<1>9. old # NoGroup => old \in Groups /\ status[old] = "active"
  BY <1>5 DEF ActiveGroups
<1>10. ActiveListOnScreen'
  <2>1. CardsOf(new) \subseteq rows \cap chat
    <3> SUFFICES ASSUME NEW i \in ItemsOf(run[r].snap)
                 PROVE  <<new, i>> \in rows \cap chat
      BY <1>5 DEF CardsOf
    <3>1. i # NoItem
      BY <1>2, SyncAssumption DEF ItemsOf, Run, NoItem
    <3> QED
      BY <1>1, <1>2, <3>1 DEF LocalInv, CardsDone, At
  <2> QED
    BY <1>1, <1>8, <2>1 DEF ActiveListOnScreen, CardsOf
<1>11. RowsReachable'
  BY <1>1, <1>2, <1>5, <1>7, <1>9
     DEF DisplayInv, RowsReachable, Incomplete, IInv, TypeInv, TypeOK, Cards
<1>12. FreshGroups'
  <2> SUFFICES ASSUME NEW g \in Groups, g > created
               PROVE  status'[g] = "absent"
    BY <1>1 DEF FreshGroups
  <2>1. status[g] = "absent"
    BY <1>2 DEF DisplayInv, FreshGroups
  <2>2. g # new /\ g # old
    BY <1>5, <1>9, <2>1 DEF Groups, NoGroup
  <2> QED
    BY <1>7, <2>1, <2>2
<1>13. DisplayInv'
  BY <1>1, <1>5, <1>8, <1>10, <1>11, <1>12 DEF DisplayInv, AtMostOneActive
<1>14. CleansIncomplete(r)'
  BY <1>1, <1>2, <1>4 DEF LocalInv, CleansIncomplete, At
<1>15. FoundActive(r)'
  BY <1>4, <1>7, <1>9 DEF FoundActive, Displaying
<1>16. CardsDone(r)'
  BY <1>4 DEF CardsDone, At
<1>17. local.pc = "cleanup"
  BY <1>2, <1>4
<1> HIDE DEF local
<1> QED
  BY <1>1, <1>13, <1>14, <1>15, <1>16, <1>17, StepOfRun DEF LocalInv

(* What happens besides the runs leaves the display alone.                   *)
LEMMA SameDisplay ==
  ASSUME IInv, UNCHANGED <<database, chat>>
  PROVE  DisplayInv'
BY DEF IInv, SyncInv, DisplayInv, FreshGroups, RowsReachable, AtMostOneActive,
       ActiveListOnScreen, ActiveGroups, CardsOf, database

LEMMA EdgeInv ==
  ASSUME IInv, NEW r \in Runs,
         Acquire(r) \/ Release(r) \/ Abort(r) \/ Crash(r)
  PROVE  SyncInv'
<1>1. DisplayInv'
  BY SameDisplay DEF Acquire, Release, Abort, Crash
<1>2. run \in [Runs -> Run] /\ LeaseOwnerRuns /\ NoRun \notin Runs
  BY SyncAssumption DEF IInv, SyncInv, TypeInv, TypeOK
<1>3. CASE Acquire(r)
  <2>1. \A q \in Runs : run[q] = Idle
    BY <1>2, <1>3 DEF Acquire, LeaseOwnerRuns
  <2>2. /\ lock' = r /\ run'[r] = [Idle EXCEPT !.pc = "fetch",
                                               !.criteria = criteria]
        /\ \A q \in Runs \ {r} : run'[q] = Idle
    BY <1>2, <1>3, <2>1 DEF Acquire, Becomes
  <2>3. /\ run'[r].pc = "fetch" /\ run'[r].work = {}
        /\ run'[r].dropped = {} /\ run'[r].retired = {}
        /\ run'[r].sent = NoItem
    BY <2>2 DEF Idle
  <2>4. Idle.pc = "idle"
    BY DEF Idle
  <2>5. LeaseOwnerRuns'
    BY <2>2, <2>3, <2>4 DEF LeaseOwnerRuns, At
  <2>6. \A q \in Runs \ {r} : run'[q] = Idle
    BY <2>2
  <2>7. \A q \in Runs \ {r} : LocalInv(q)'
    <3> SUFFICES ASSUME NEW q \in Runs \ {r} PROVE LocalInv(q)'
      OBVIOUS
    <3>1. run'[q] = Idle
      BY <2>6
    <3> QED
      BY <3>1 DEF LocalInv, CleansIncomplete, FoundActive, CardsDone,
                  Displaying, At, Idle
  <2>8. LocalInv(r)'
    BY <2>3 DEF LocalInv, CleansIncomplete, FoundActive, CardsDone,
                Displaying, At
  <2> QED
    BY <1>1, <2>5, <2>7, <2>8 DEF SyncInv
<1>4. CASE Release(r) \/ Abort(r) \/ Crash(r)
  <2>1. run[r] # Idle
    BY <1>4 DEF Release, Abort, Crash, At, Idle
  <2>2. lock = r /\ \A q \in Runs \ {r} : run[q] = Idle
    BY <2>1, RunsAlone
  <2>3. \A q \in Runs \ {r} : run'[q] = Idle
    BY <1>2, <1>4, <2>2 DEF Release, Abort, Crash, Becomes
  <2>4. run'[r] = Idle \/ (run'[r] = Leaving /\ lock' = lock)
    BY <1>2, <1>4 DEF Release, Abort, Crash, Becomes
  <2>5. LeaseOwnerRuns'
    BY <2>2, <2>3, <2>4 DEF LeaseOwnerRuns, At, Idle, Leaving
  <2>6. \A q \in Runs : LocalInv(q)'
    BY <2>3, <2>4 DEF LocalInv, CleansIncomplete, FoundActive, CardsDone,
                      Displaying, At, Idle, Leaving
  <2> QED
    BY <1>1, <2>5, <2>6 DEF SyncInv
<1> QED
  BY <1>3, <1>4

(* The lease key disappears under a dead owner only, and nothing else that   *)
(* happens around the runs touches what they rely on.                        *)
LEMMA AroundInv ==
  ASSUME IInv, ~LeaseMayExpire,
         \/ ExpireLease \/ ProviderChanges \/ ChangeCriteria
         \/ ToggleMonitoring \/ UNCHANGED vars
  PROVE  SyncInv'
<1>1. run' = run /\ UNCHANGED <<database, chat>>
  BY DEF ExpireLease, ProviderChanges, ChangeCriteria, ToggleMonitoring, vars
<1>2. DisplayInv'
  BY <1>1, SameDisplay
<1>3. \A q \in Runs : LocalInv(q)'
  BY <1>1 DEF IInv, SyncInv, LocalInv, CleansIncomplete, FoundActive,
              CardsDone, Displaying, At, RowsOf, IncompleteGroups,
              ActiveGroups, database
<1>4. LeaseOwnerRuns'
  <2>1. CASE ExpireLease
    <3>1. lock \in Runs /\ run[lock] = Idle
      BY <2>1 DEF ExpireLease, IInv, SyncInv, LeaseOwnerRuns
    <3>2. \A q \in Runs : run[q] = Idle
      BY <3>1 DEF IInv, SyncInv, LeaseOwnerRuns
    <3> QED
      BY <1>1, <3>2 DEF LeaseOwnerRuns, At, Idle
  <2>2. CASE lock' = lock
    BY <1>1, <2>2 DEF IInv, SyncInv, LeaseOwnerRuns, At
  <2> QED
    BY <2>1, <2>2 DEF ProviderChanges, ChangeCriteria, ToggleMonitoring, vars
<1> QED
  BY <1>2, <1>3, <1>4 DEF SyncInv

LEMMA InvStep ==
  ASSUME ~LeaseMayExpire
  PROVE  IInv /\ [Next]_vars => IInv'
<1> SUFFICES ASSUME IInv, [Next]_vars PROVE IInv'
  OBVIOUS
<1>1. TypeInv'
  BY TypeStep DEF IInv
<1>2. ASSUME NEW r \in Runs, Advance(r) PROVE SyncInv'
  BY <1>2, FetchInv, RecoverInv, UnchangedInv, BeginInv, SendCardInv,
     SendFailsInv, RecordCardInv, UndoInv, CommitFailedInv, ActivateInv,
     CleanupInv, CompleteInv, EdgeInv DEF Advance
<1>3. ASSUME NEW r \in Runs, Acquire(r) \/ Abort(r) \/ Crash(r) PROVE SyncInv'
  BY <1>3, EdgeInv
<1>4. SyncInv'
  BY <1>2, <1>3, AroundInv DEF Next
<1> QED
  BY <1>1, <1>4 DEF IInv

LEMMA InvAlways == ASSUME ~LeaseMayExpire PROVE Spec => []IInv
<1>1. Init => IInv
  BY TypeInit, InvInit DEF IInv
<1>2. IInv /\ [Next]_vars => IInv'
  BY InvStep
<1> QED
  BY <1>1, <1>2, PTL DEF Spec

(* The invariant of a search whose runs finish within their lease: a run is  *)
(* alone, cleans incomplete groups only, and has done what it thinks it has. *)
THEOREM SyncInvariant == ASSUME ~LeaseMayExpire PROVE Spec => []SyncInv
<1>1. IInv => SyncInv
  BY DEF IInv
<1> QED
  BY <1>1, InvAlways, PTL

(* At most one list is on display, whatever crashes and failures occur.      *)
THEOREM OneActive == ASSUME ~LeaseMayExpire PROVE Spec => []AtMostOneActive
<1>1. IInv => AtMostOneActive
  BY DEF IInv, SyncInv, DisplayInv
<1> QED
  BY <1>1, InvAlways, PTL

(* The list on display is complete on the screen and in the database.        *)
THEOREM ActiveOnScreen ==
  ASSUME ~LeaseMayExpire PROVE Spec => []ActiveListOnScreen
<1>1. IInv => ActiveListOnScreen
  BY DEF IInv, SyncInv, DisplayInv
<1> QED
  BY <1>1, InvAlways, PTL

(* The availability rows describe the list on display.                       *)
THEOREM AvailabilityMatches ==
  ASSUME ~LeaseMayExpire PROVE Spec => []AvailabilityMatchesDisplay
<1>1. IInv => AvailabilityMatchesDisplay
  BY ActiveGroupType DEF IInv, SyncInv, DisplayInv, AvailabilityMatchesDisplay
<1> QED
  BY <1>1, InvAlways, PTL

(* No row is orphaned: a later run will clean every group that has one.      *)
THEOREM NoOrphanRows == ASSUME ~LeaseMayExpire PROVE Spec => []RowsReachable
<1>1. IInv => RowsReachable
  BY DEF IInv, SyncInv, DisplayInv
<1> QED
  BY <1>1, InvAlways, PTL

(* A run gives back its own lease only, even if it outlived it.              *)
THEOREM LeaseIsOwn == Spec => OwnLeaseOnly
<1>1. TypeInv /\ [Next]_vars =>
        [\A r \in Runs : run'[r] # run[r] /\ lock \notin {r, NoRun}
                           => lock' = lock]_vars
  <2> SUFFICES ASSUME TypeInv, Next, NEW r \in Runs, run'[r] # run[r],
                      lock \notin {r, NoRun}
               PROVE  lock' = lock
    OBVIOUS
  <2>1. ASSUME NEW q \in Runs, q # r,
               Acquire(q) \/ Advance(q) \/ Abort(q) \/ Crash(q)
        PROVE  FALSE
    <3>1. PICK local : Becomes(q, local)
      BY <2>1 DEF Acquire, Advance, Abort, Crash, Fetch, Recover, Unchanged,
                  Begin, SendCard, SendFails, RecordCard, Undo, CommitFailed,
                  Activate, Cleanup, Complete, Release, CleanGroup
    <3> QED
      BY <2>1, <3>1 DEF Becomes, TypeInv, TypeOK
  <2>2. CASE Acquire(r) \/ Advance(r) \/ Abort(r) \/ Crash(r)
    BY <2>2 DEF Acquire, Advance, Abort, Crash, Fetch, Recover, Unchanged,
                Begin, SendCard, SendFails, RecordCard, Undo, CommitFailed,
                Activate, Cleanup, Complete, Release, Released
  <2>3. CASE \/ ExpireLease \/ ProviderChanges \/ ChangeCriteria
             \/ ToggleMonitoring
    BY <2>3 DEF ExpireLease, ProviderChanges, ChangeCriteria,
                ToggleMonitoring
  <2> QED
    BY <2>1, <2>2, <2>3 DEF Next
<1>2. Init => TypeInv
  BY TypeInit
<1>3. TypeInv /\ [Next]_vars => TypeInv'
  BY TypeStep
<1> QED
  BY <1>1, <1>2, <1>3, PTL DEF Spec, OwnLeaseOnly

-------------------------------------------------------------------------------
(***************************************************************************)
(* The engine implements ListDisplay, for runs within their lease: a new   *)
(* list replaces the displayed one when Activate commits, cards come when  *)
(* they are sent and go when an incomplete group is cleaned; every other   *)
(* step stutters.                                                          *)
(***************************************************************************)

Screen == {m[2] : m \in chat}

(* What is displayed depends on the committed groups only.                   *)
LEMMA DisplayedIs ==
  ASSUME IInv
  PROVE  /\ ActiveGroup \in Groups \cup {NoGroup}
         /\ ActiveGroups = {ActiveGroup} \ {NoGroup}
         /\ Displayed # NoList => /\ Displayed = fp[ActiveGroup]
                                  /\ ActiveGroup \in ActiveGroups
                                  /\ Displayed \in SUBSET Listings
BY ActiveGroupType
DEF IInv, SyncInv, DisplayInv, AtMostOneActive, Displayed, TypeInv, TypeOK,
    ActiveGroups, Groups, NoGroup

LEMMA DisplayedComplete == IInv => Display!Shows(Displayed)
<1> SUFFICES ASSUME IInv, Displayed # NoList, NEW i \in Display!ItemsOf(Displayed)
             PROVE  i \in Screen
  BY DEF Display!Shows, Screen
<1>1. i \in ItemsOf(fp[ActiveGroup]) /\ ActiveGroup \in ActiveGroups
  BY DisplayedIs DEF ItemsOf, Display!ItemsOf
<1>2. <<ActiveGroup, i>> \in CardsOf(ActiveGroup)
  BY <1>1 DEF CardsOf
<1>3. <<ActiveGroup, i>> \in chat
  BY <1>1, <1>2 DEF IInv, SyncInv, DisplayInv, ActiveListOnScreen
<1> QED
  BY <1>3 DEF Screen

(* The same after a step.                                                    *)
LEMMA NextComplete ==
  /\ IInv' => Display!Shows(Displayed)'
  /\ (ActiveGroup # NoGroup)' => (ActiveGroup \in ActiveGroups)'
  /\ (ActiveGroup = NoGroup)' => (ActiveGroups = {})'
<1>1. ActiveGroup # NoGroup => ActiveGroup \in ActiveGroups
  BY ActiveGroupType
<1>2. ActiveGroup = NoGroup => ActiveGroups = {}
  BY ActiveGroupType
<1> QED
  BY <1>1, <1>2, DisplayedComplete, PTL

(* As long as the set of active groups and their lists do not change, the    *)
(* displayed list does not.                                                  *)
LEMMA DisplayedKept ==
  ASSUME IInv, ActiveGroups' = ActiveGroups,
         \A g \in ActiveGroups : fp'[g] = fp[g]
  PROVE  UNCHANGED Displayed
<1>1. ActiveGroup' = ActiveGroup
  BY DEF ActiveGroup
<1>2. ActiveGroup # NoGroup => ActiveGroup \in ActiveGroups
  BY ActiveGroupType
<1> QED
  BY <1>1, <1>2 DEF Displayed

LEMMA CleanHides ==
  ASSUME IInv, IInv', NEW r \in Runs, NEW g, NEW next, CleanGroup(r, g, next),
         UNCHANGED <<status, fp>>
  PROVE  Display!Hide
<1>1. chat' \subseteq chat
  BY DEF CleanGroup
<1>2. UNCHANGED Displayed
  BY DisplayedKept DEF ActiveGroups
<1>3. Display!Shows(Displayed)'
  BY NextComplete
<1>4. Screen' \in SUBSET Screen
  BY <1>1 DEF Screen
<1> QED
  BY <1>2, <1>3, <1>4 DEF Display!Hide, Screen

LEMMA ActivateReplaces ==
  ASSUME IInv, IInv', NEW r \in Runs, Activate(r)
  PROVE  Display!Replace
<1>1. UNCHANGED <<fp, chat>> /\ run[r].pc = "activate"
      /\ status' = Activated(r)
  BY DEF Activate, At
<1>2. /\ run[r].pending \in Groups /\ fp[run[r].pending] = run[r].snap
      /\ status[run[r].pending] = "pending"
      /\ ActiveGroups = {run[r].active} \ {NoGroup}
      /\ run[r].snap \in SUBSET Listings
  BY <1>1 DEF IInv, SyncInv, LocalInv, FoundActive, Displaying, TypeInv,
              TypeOK, Run
<1>3. run[r].pending # run[r].active
  BY <1>2 DEF ActiveGroups, Groups, NoGroup
<1>4. run[r].pending \in ActiveGroups'
  BY <1>1, <1>2, <1>3 DEF Activated, ActiveGroups
<1>5. ActiveGroup' = run[r].pending /\ ActiveGroup' # NoGroup
  <2>1. \A g \in ActiveGroups' : g = run[r].pending
    BY <1>4 DEF IInv, SyncInv, DisplayInv, AtMostOneActive
  <2>2. (ActiveGroup \in ActiveGroups)'
    BY <1>4, NextComplete
  <2> QED
    BY <1>2, <2>1, <2>2 DEF Groups, NoGroup
<1>6. Displayed' = run[r].snap
  BY <1>1, <1>2, <1>5 DEF Displayed
<1>7. Display!ItemsOf(run[r].snap) \subseteq Screen
  <2>1. Display!Shows(Displayed)'
    BY NextComplete
  <2>2. run[r].snap # NoList
    BY <1>2, SyncAssumption
  <2> QED
    BY <1>1, <1>6, <2>1, <2>2 DEF Display!Shows, Screen
<1> QED
  BY <1>1, <1>2, <1>6, <1>7 DEF Display!Replace, Screen

LEMMA SendShows ==
  ASSUME IInv, NEW r \in Runs, SendCard(r) \/ SendFails(r)
  PROVE  Display!Show \/ UNCHANGED Display!displayVars
<1>1. UNCHANGED <<status, fp>>
  BY DEF SendCard, SendFails, database
<1>2. UNCHANGED Displayed
  BY <1>1, DisplayedKept DEF ActiveGroups
<1>3. CASE UNCHANGED chat
  BY <1>2, <1>3 DEF Display!displayVars
<1>4. CASE \E i \in run[r].todo : chat' = chat \cup {<<run[r].pending, i>>}
  <2>1. PICK i \in run[r].todo : chat' = chat \cup {<<run[r].pending, i>>}
    BY <1>4
  <2>2. i \in Listings \cup {EmptyNotice}
    BY DEF IInv, TypeInv, TypeOK, Run, Items
  <2>3. Screen' = Screen \cup {i}
    <3> DEFINE card == <<run[r].pending, i>>
    <3>1. Screen' = {m[2] : m \in chat \cup {card}}
      BY <2>1 DEF Screen
    <3>2. card[2] = i
      OBVIOUS
    <3> HIDE DEF card
    <3> QED
      BY <3>1, <3>2 DEF Screen
  <2> QED
    BY <1>2, <2>2, <2>3 DEF Display!Show, Screen
<1> QED
  BY <1>3, <1>4 DEF SendCard, SendFails

(* Every other step of a run leaves the display as it is.                    *)
LEMMA RestStutters ==
  ASSUME IInv, NEW r \in Runs,
         \/ Fetch(r) \/ Unchanged(r) \/ Begin(r) \/ RecordCard(r)
         \/ CommitFailed(r) \/ Complete(r) \/ Acquire(r) \/ Release(r)
         \/ Abort(r) \/ Crash(r)
  PROVE  UNCHANGED Display!displayVars
<1>1. UNCHANGED chat
  BY DEF Fetch, Unchanged, Begin, RecordCard, CommitFailed, Complete, Acquire,
         Release, Abort, Crash
<1>2. ActiveGroups' = ActiveGroups /\ \A g \in ActiveGroups : fp'[g] = fp[g]
  <2>1. CASE UNCHANGED <<status, fp>>
    BY <2>1 DEF ActiveGroups
  <2>2. CASE Unchanged(r) \/ Complete(r)
    BY <2>2, RetireInv DEF Unchanged, Complete
  <2>3. CASE CommitFailed(r)
    <3>1. run[r].pending \in Groups /\ status[run[r].pending] = "pending"
      BY <2>3 DEF CommitFailed, At, IInv, SyncInv, LocalInv, FoundActive,
                  Displaying
    <3> QED
      BY <2>3, <3>1
         DEF CommitFailed, ActiveGroups, IInv, TypeInv, TypeOK
  <2>4. CASE Begin(r)
    <3>1. created' \in Groups /\ created' > created
      BY <2>4, SyncAssumption DEF Begin, Groups, IInv, TypeInv, TypeOK
    <3>2. status[created'] = "absent"
      BY <3>1 DEF IInv, SyncInv, DisplayInv, FreshGroups
    <3>3. \A g \in run[r].retired : status[g] \in Incomplete
      BY DEF IInv, SyncInv, LocalInv, CleansIncomplete, IncompleteGroups
    <3>4. /\ status' = [Retire(r) EXCEPT ![created'] = "pending"]
          /\ fp' = [fp EXCEPT ![created'] = run[r].snap]
      BY <2>4 DEF Begin
    <3>5. ActiveGroups' = ActiveGroups
      BY <3>1, <3>2, <3>3, <3>4 DEF Retire, ActiveGroups, Incomplete
    <3> QED
      BY <3>2, <3>4, <3>5 DEF ActiveGroups, IInv, TypeInv, TypeOK
  <2> QED
    BY <2>1, <2>2, <2>3, <2>4
       DEF Fetch, RecordCard, Acquire, Release, Abort, Crash, database
<1> QED
  BY <1>1, <1>2, DisplayedKept DEF Display!displayVars

(* The displayed list is only ever replaced at once by a complete one.       *)
THEOREM Implements ==
  ASSUME ~LeaseMayExpire PROVE Spec => ImplementsDisplay
<1>1. Init => Display!Init
  BY DEF Init, Display!Init, Displayed, ActiveGroup, ActiveGroups
<1>2. IInv /\ IInv' /\ [Next]_vars => [Display!Next]_(Display!displayVars)
  <2> SUFFICES ASSUME IInv, IInv', [Next]_vars
               PROVE  Display!Next \/ UNCHANGED Display!displayVars
    OBVIOUS
  <2>1. ASSUME NEW r \in Runs, Recover(r) \/ Undo(r) \/ Cleanup(r)
        PROVE  Display!Next
    BY <2>1, CleanHides
       DEF Recover, Undo, Cleanup, database, Display!Next
  <2>2. ASSUME NEW r \in Runs, Activate(r) PROVE Display!Next
    BY <2>2, ActivateReplaces DEF Display!Next
  <2>3. ASSUME NEW r \in Runs, SendCard(r) \/ SendFails(r)
        PROVE  Display!Next \/ UNCHANGED Display!displayVars
    BY <2>3, SendShows DEF Display!Next
  <2>4. CASE \/ ExpireLease \/ ProviderChanges \/ ChangeCriteria
             \/ ToggleMonitoring \/ UNCHANGED vars
    <3>1. UNCHANGED <<status, fp, chat>>
      BY <2>4 DEF ExpireLease, ProviderChanges, ChangeCriteria,
                  ToggleMonitoring, vars, database
    <3> QED
      BY <3>1, DisplayedKept DEF ActiveGroups, Display!displayVars
  <2> QED
    BY <2>1, <2>2, <2>3, <2>4, RestStutters DEF Next, Advance
<1> QED
  BY <1>1, <1>2, InvAlways, PTL DEF Spec, ImplementsDisplay, Display!Spec
-------------------------------------------------------------------------------
(***************************************************************************)
(* Stray cards, also when runs outlive their lease and overlap.            *)
(*                                                                         *)
(* A row that some run is about to drop no longer counts: its card has     *)
(* been deleted or is one of the strays.  So that nobody is about to drop  *)
(* the row a run writes, a run has its group to itself and sends each card *)
(* once.                                                                   *)
(***************************************************************************)

Dropped == UNION {run[r].dropped : r \in Runs}
Unrecorded == chat \ ((rows \ Dropped) \cup Recording)

Showing(v) == v.pc \in {"send", "record"}
ToRecord(v) == v.todo \cup (IF v.pc = "record" THEN {v.sent} ELSE {})

Known == \A m \in rows \cup Dropped : m[1] <= created

\* The cards that v has still to record are new.
Fresh(v) ==
  Showing(v) => /\ v.pending <= created
                /\ v.pc = "record" => v.sent \notin v.todo
                /\ \A i \in ToRecord(v) : <<v.pending, i>> \notin rows \cup Dropped

OwnGroups ==
  \A r \in Runs : /\ Fresh(run[r])
                  /\ \A q \in Runs \ {r} : Showing(run[r]) /\ Showing(run[q])
                                             => run[q].pending # run[r].pending

GroupsInv == Known /\ OwnGroups
StraysInv == Cardinality(Unrecorded) <= strays

LEMMA StrayTypes ==
  ASSUME TypeInv
  PROVE  /\ \A r \in Runs : run[r] \in Run /\ run[r].dropped \subseteq Cards
         /\ created \in Nat /\ strays \in Nat
         /\ rows \subseteq Cards /\ chat \subseteq Cards /\ Dropped \subseteq Cards
         /\ \A r \in Runs : Showing(run[r]) => run[r].pending \in Groups
         /\ \A g \in Groups : g \in Nat
<1>1. TypeOK /\ \A r \in Runs : run[r] \in Run /\ HasGroup(run[r])
  BY DEF TypeInv, TypeOK
<1>2. \A r \in Runs : run[r].dropped \subseteq Cards
  BY <1>1 DEF Run
<1>3. Dropped \subseteq Cards
  BY <1>2 DEF Dropped
<1>4. created \in Nat /\ strays \in Nat /\ \A g \in Groups : g \in Nat
  BY <1>1, SyncAssumption DEF TypeOK, Groups
<1> QED
  BY <1>1, <1>2, <1>3, <1>4 DEF TypeOK, Showing, HasGroup

LEMMA CardsFinite == IsFiniteSet(Cards)
<1>1. IsFiniteSet(Items)
  BY SyncAssumption, FS_AddElement DEF Items
<1>2. IsFiniteSet(Groups)
  BY SyncAssumption, FS_Interval DEF Groups
<1> QED
  BY <1>1, <1>2, FS_Product DEF Cards

(* Dropped rows and cards on their way, with one run apart.                *)
LEMMA DroppedApart ==
  ASSUME NEW r \in Runs, NEW m
  PROVE  m \in Dropped <=> m \in run[r].dropped \/ \E q \in Runs \ {r} : m \in run[q].dropped
BY DEF Dropped

LEMMA RecordingApart ==
  ASSUME NEW r \in Runs, NEW m
  PROVE  m \in Recording <=> \/ run[r].pc = "record" /\ m = <<run[r].pending, run[r].sent>>
                             \/ \E q \in Runs \ {r} : /\ run[q].pc = "record"
                                                      /\ m = <<run[q].pending, run[q].sent>>
BY DEF Recording, At

LEMMA RunsAfter ==
  ASSUME TypeInv, NEW r \in Runs, NEW v, Becomes(r, v)
  PROVE  /\ run'[r] = v /\ \A q \in Runs \ {r} : run'[q] = run[q]
         /\ \A m : m \in Dropped' <=> m \in v.dropped \/ \E q \in Runs \ {r} : m \in run[q].dropped
         /\ \A m : m \in Recording' <=>
              \/ v.pc = "record" /\ m = <<v.pending, v.sent>>
              \/ \E q \in Runs \ {r} : run[q].pc = "record" /\ m = <<run[q].pending, run[q].sent>>
<1>1. run'[r] = v /\ \A q \in Runs \ {r} : run'[q] = run[q]
  BY DEF Becomes, TypeInv, TypeOK
<1>2. \A m : m \in Dropped' <=> m \in v.dropped \/ \E q \in Runs \ {r} : m \in run[q].dropped
  BY <1>1 DEF Dropped
<1>3. \A m : m \in Recording' <=>
        \/ v.pc = "record" /\ m = <<v.pending, v.sent>>
        \/ \E q \in Runs \ {r} : run[q].pc = "record" /\ m = <<run[q].pending, run[q].sent>>
  BY <1>1 DEF Recording, At
<1> QED
  BY <1>1, <1>2, <1>3

\* What a step of r to v may do to the rows: it drops rows only, and writes rows
\* of its own group only.
WritesOwn(r, v) ==
  /\ v.dropped \subseteq run[r].dropped \cup rows
  /\ \A m \in rows' \ rows : Showing(run[r]) /\ m[1] = run[r].pending

\* If v shows a group, it is the one of r before, or a new one.
ShowsOwn(r, v) ==
  Showing(v) =>
    /\ v.pending \in Nat /\ v.pending <= created'
    /\ v.pc = "record" => v.sent \notin v.todo
    /\ \A i \in ToRecord(v) : <<v.pending, i>> \notin rows' \cup rows \cup Dropped
    /\ v.pending > created \/ (Showing(run[r]) /\ v.pending = run[r].pending)

LEMMA GroupsStep ==
  ASSUME TypeInv, GroupsInv, NEW r \in Runs, NEW v, Becomes(r, v), WritesOwn(r, v), ShowsOwn(r, v),
         created' \in Nat, created <= created', rows' \subseteq Cards
  PROVE  GroupsInv'
<1>0. /\ \A q \in Runs : run[q] \in Run /\ (Showing(run[q]) => run[q].pending \in Nat)
      /\ created \in Nat /\ rows \subseteq Cards /\ Dropped \subseteq Cards
      /\ \A m \in Cards : m[1] \in Nat
  <2>1. \A m \in Cards : m[1] \in Groups
    BY DEF Cards
  <2> QED
    BY <2>1, StrayTypes
<1>1. run'[r] = v /\ \A q \in Runs \ {r} : run'[q] = run[q]
  BY RunsAfter
<1>2. Dropped' \subseteq Dropped \cup rows
  <2>1. \A m \in Dropped' : m \in v.dropped \/ \E q \in Runs \ {r} : m \in run[q].dropped
    BY RunsAfter
  <2> QED
    BY <2>1, DroppedApart DEF WritesOwn
<1>3. \A q \in Runs : Fresh(run[q])
  BY DEF GroupsInv, OwnGroups
<1>4. Known'
  <2> SUFFICES ASSUME NEW m \in rows' \cup Dropped' PROVE m[1] <= created'
    BY DEF Known
  <2>1. CASE m \in rows \cup Dropped
    <3>1. m[1] <= created /\ m[1] \in Nat
      BY <1>0, <2>1 DEF GroupsInv, Known
    <3> QED
      BY <1>0, <3>1
  <2>2. CASE m \in rows' \ rows
    <3>1. m[1] = run[r].pending /\ Showing(run[r])
      BY <2>2 DEF WritesOwn
    <3>2. run[r].pending <= created
      BY <1>3, <3>1 DEF Fresh
    <3> QED
      BY <1>0, <3>1, <3>2
  <2> QED
    BY <1>2, <2>1, <2>2
<1>5. ASSUME NEW q \in Runs \ {r}, Showing(run[q]), Showing(run[r]) PROVE run[q].pending # run[r].pending
  BY <1>5 DEF GroupsInv, OwnGroups
<1>6. ASSUME NEW q \in Runs \ {r} PROVE Fresh(run[q])'
  <2>1. Fresh(run[q])
    BY <1>3
  <2>2. ASSUME Showing(run[q]), NEW i \in ToRecord(run[q]) PROVE <<run[q].pending, i>> \notin rows' \cup Dropped'
    <3>1. <<run[q].pending, i>> \notin rows \cup Dropped
      BY <2>1, <2>2 DEF Fresh
    <3>2. <<run[q].pending, i>> \notin rows' \ rows
      BY <1>5, <2>2 DEF WritesOwn
    <3> QED
      BY <1>2, <3>1, <3>2
  <2>3. Showing(run[q]) => run[q].pending <= created'
    BY <1>0, <2>1 DEF Fresh
  <2> QED
    BY <1>1, <2>1, <2>2, <2>3 DEF Fresh, Showing, ToRecord
<1>7. Fresh(run[r])'
  <2>1. Showing(v) => \A i \in ToRecord(v) : <<v.pending, i>> \notin rows' \cup Dropped'
    BY <1>2 DEF ShowsOwn
  <2> QED
    BY <1>1, <2>1 DEF ShowsOwn, Fresh, Showing, ToRecord
<1>8. ASSUME NEW q \in Runs \ {r}, Showing(run[q]), Showing(v) PROVE run[q].pending # v.pending
  <2>1. run[q].pending <= created /\ run[q].pending \in Nat
    BY <1>0, <1>3, <1>8 DEF Fresh
  <2> QED
    BY <1>0, <1>5, <1>8, <2>1 DEF ShowsOwn
<1>9. OwnGroups'
  <2> SUFFICES ASSUME NEW p \in Runs
               PROVE  /\ Fresh(run[p])'
                      /\ \A q \in Runs \ {p} : Showing(run'[p]) /\ Showing(run'[q])
                                                 => run'[q].pending # run'[p].pending
    BY DEF OwnGroups, Showing
  <2>1. Fresh(run[p])'
    BY <1>6, <1>7
  <2>2. ASSUME NEW q \in Runs \ {p}, Showing(run'[p]), Showing(run'[q])
        PROVE  run'[q].pending # run'[p].pending
    <3>1. CASE p = r
      BY <1>1, <1>8, <2>2, <3>1
    <3>2. CASE q = r
      BY <1>1, <1>8, <2>2, <3>2
    <3>3. CASE p # r /\ q # r
      BY <1>1, <2>2, <3>3 DEF GroupsInv, OwnGroups
    <3> QED
      BY <3>1, <3>2, <3>3
  <2> QED
    BY <2>1, <2>2
<1> QED
  BY <1>4, <1>9 DEF GroupsInv

(* Counting: the new strays are those of X.                                *)
LEMMA CountStep ==
  ASSUME StraysInv, chat \subseteq Cards, chat' \subseteq Cards, NEW X, IsFiniteSet(X),
         Unrecorded' \subseteq Unrecorded \cup X, strays \in Int,
         strays' = strays + Cardinality(X) \/ (strays' \in Int /\ strays + Cardinality(X) <= strays')
  PROVE  StraysInv'
<1>1. Unrecorded \subseteq Cards /\ Unrecorded' \subseteq Cards
  BY DEF Unrecorded
<1>2. IsFiniteSet(Unrecorded) /\ IsFiniteSet(Unrecorded')
  BY <1>1, CardsFinite, FS_Subset
<1>3. /\ IsFiniteSet(Unrecorded \cup X)
      /\ Cardinality(Unrecorded \cup X)
           = Cardinality(Unrecorded) + Cardinality(X) - Cardinality(Unrecorded \cap X)
  BY <1>2, FS_Union
<1>4. Cardinality(Unrecorded') <= Cardinality(Unrecorded \cup X)
  BY <1>3, FS_Subset
<1>5. IsFiniteSet(Unrecorded \cap X)
  BY <1>2, FS_Intersection
<1>6. /\ Cardinality(Unrecorded) \in Nat /\ Cardinality(Unrecorded') \in Nat /\ Cardinality(X) \in Nat
      /\ Cardinality(Unrecorded \cap X) \in Nat
  BY <1>2, <1>5, FS_CardinalityType
<1> QED
  BY <1>3, <1>4, <1>6 DEF StraysInv

(* Which cards a step of r to v can leave without a row.                   *)
Leaves(r, v, X) ==
  /\ \A m \in chat' \ chat : m \in X \/ (v.pc = "record" /\ m = <<v.pending, v.sent>>)
  /\ \A m \in rows \cap chat' : m \in run[r].dropped \/ m \in X \/ (m \in rows' /\ m \notin v.dropped)
  /\ run[r].pc = "record" => LET m == <<run[r].pending, run[r].sent>> IN
       m \in X \/ (m \in rows' /\ m \notin Dropped \cup v.dropped)

LEMMA StrayStep ==
  ASSUME TypeInv, StraysInv, NEW r \in Runs, NEW v, Becomes(r, v), chat' \subseteq Cards,
         NEW X, IsFiniteSet(X), Leaves(r, v, X),
         strays' = strays + Cardinality(X) \/ (strays' \in Int /\ strays + Cardinality(X) <= strays')
  PROVE  StraysInv'
<1>1. strays \in Int /\ chat \subseteq Cards
  BY StrayTypes
<1>2. ASSUME NEW m \in chat', m \notin X, m \in chat => m \in (rows \ Dropped) \cup Recording
      PROVE  m \in (rows' \ Dropped') \cup Recording'
  <2>0. \A q \in Runs \ {r} : m \in run[q].dropped => m \in Dropped
    BY DroppedApart
  <2>1. CASE m \notin chat
    <3>1. v.pc = "record" /\ m = <<v.pending, v.sent>>
      BY <1>2, <2>1 DEF Leaves
    <3> QED
      BY <3>1, RunsAfter
  <2>2. CASE m \in rows \ Dropped
    <3>1. m \notin run[r].dropped
      BY <2>2, DroppedApart
    <3>2. m \in rows' /\ m \notin v.dropped
      BY <1>2, <2>2, <3>1 DEF Leaves
    <3>3. m \notin Dropped'
      BY <2>0, <2>2, <3>2, RunsAfter
    <3> QED
      BY <3>2, <3>3
  <2>3. CASE m \in Recording
    <3>1. CASE run[r].pc = "record" /\ m = <<run[r].pending, run[r].sent>>
      <4>1. m \in rows' /\ m \notin Dropped /\ m \notin v.dropped
        BY <1>2, <3>1 DEF Leaves
      <4>2. m \notin Dropped'
        BY <2>0, <4>1, RunsAfter
      <4> QED
        BY <4>1, <4>2
    <3>2. CASE \E q \in Runs \ {r} : run[q].pc = "record" /\ m = <<run[q].pending, run[q].sent>>
      BY <3>2, RunsAfter
    <3> QED
      BY <2>3, <3>1, <3>2, RecordingApart
  <2> QED
    BY <1>2, <2>1, <2>2, <2>3
<1>3. Unrecorded' \subseteq Unrecorded \cup X
  BY <1>2 DEF Unrecorded
<1> QED
  BY <1>1, <1>3, CountStep

StrayInv == GroupsInv /\ StraysInv

LEMMA NoCards == IsFiniteSet({}) /\ Cardinality({}) = 0
BY FS_EmptySet

LEMMA OneCard ==
  ASSUME NEW m
  PROVE  IsFiniteSet({m}) /\ Cardinality({m}) = 1
BY FS_Singleton

(* Steps that neither show nor hide a card: they keep the rows, or remove    *)
(* those they have dropped.                                                  *)
LEMMA StrayQuiet ==
  ASSUME TypeInv, StrayInv, NEW r \in Runs, NEW v, Becomes(r, v), run[r].pc # "record", ~Showing(v),
         \/ rows' = rows /\ v.dropped \subseteq run[r].dropped
         \/ rows' = KeptRows(r) /\ v.dropped = {},
         UNCHANGED <<chat, strays, created>>
  PROVE  StrayInv'
<1>0. /\ rows \subseteq Cards /\ chat \subseteq Cards /\ created \in Nat /\ strays \in Nat
  BY StrayTypes
<1>1. rows' \subseteq rows /\ created' \in Nat /\ created <= created' /\ rows' \subseteq Cards
  BY <1>0 DEF KeptRows
<1>2. WritesOwn(r, v)
  BY <1>1 DEF WritesOwn
<1>3. ShowsOwn(r, v)
  BY DEF ShowsOwn
<1>4. GroupsInv'
  BY <1>1, <1>2, <1>3, GroupsStep DEF StrayInv
<1> DEFINE X == {}
<1>5. Leaves(r, v, X)
  BY DEF Leaves, Showing, KeptRows
<1>6. IsFiniteSet(X) /\ strays' = strays + Cardinality(X) /\ chat' \subseteq Cards
  BY <1>0, NoCards
<1> HIDE DEF X
<1>7. StraysInv'
  BY <1>5, <1>6, StrayStep DEF StrayInv
<1> QED
  BY <1>4, <1>7 DEF StrayInv

LEMMA IdleFields == Idle.pc = "idle" /\ Idle.dropped = {} /\ Leaving.pc = "release" /\ Leaving.dropped = {}
BY DEF Idle, Leaving

LEMMA StrayQuietSteps ==
  ASSUME TypeInv, StrayInv, NEW r \in Runs,
         \/ Acquire(r) \/ Fetch(r) \/ Unchanged(r) \/ CommitFailed(r) \/ Activate(r) \/ Complete(r)
         \/ Release(r) \/ Abort(r)
  PROVE  StrayInv'
<1>0. run[r] \in Run
  BY StrayTypes
<1> DEFINE Local(v) ==
      /\ Becomes(r, v) /\ ~Showing(v)
      /\ \/ rows' = rows /\ v.dropped \subseteq run[r].dropped
         \/ rows' = KeptRows(r) /\ v.dropped = {}
<1>1. run[r].pc # "record" /\ UNCHANGED <<chat, strays, created>>
  BY DEF Acquire, Fetch, Unchanged, CommitFailed, Activate, Complete, Release, Abort, Recovered, At,
         environment, database, faults
<1>2. ASSUME Acquire(r) PROVE \E v : Local(v)
  <2> DEFINE v == [run[r] EXCEPT !.pc = "fetch", !.criteria = criteria]
  <2>1. v.pc = "fetch" /\ v.dropped = run[r].dropped
    BY <1>0 DEF Run
  <2>2. Becomes(r, v) /\ rows' = rows
    BY <1>2 DEF Acquire, database
  <2> QED
    BY <2>1, <2>2 DEF Showing
<1>3. ASSUME Fetch(r) PROVE \E v : Local(v)
  <2> DEFINE v == [run[r] EXCEPT !.pc = "recover", !.snap = offers[run[r].criteria],
                                 !.work = IncompleteGroups]
  <2>1. v.pc = "recover" /\ v.dropped = run[r].dropped
    BY <1>0 DEF Run
  <2>2. Becomes(r, v) /\ rows' = rows
    BY <1>3 DEF Fetch, database
  <2> QED
    BY <2>1, <2>2 DEF Showing
<1>4. ASSUME Activate(r) PROVE \E v : Local(v)
  <2> DEFINE v == [run[r] EXCEPT !.pc = "cleanup"]
  <2>1. v.pc = "cleanup" /\ v.dropped = run[r].dropped
    BY <1>0 DEF Run
  <2>2. Becomes(r, v) /\ rows' = rows
    BY <1>4 DEF Activate
  <2> QED
    BY <2>1, <2>2 DEF Showing
<1>5. ASSUME Unchanged(r) \/ CommitFailed(r) \/ Complete(r) PROVE Local(Leaving)
  BY <1>5, IdleFields DEF Unchanged, CommitFailed, Complete, Showing
<1>6. ASSUME Abort(r) \/ Release(r) PROVE Local(Idle) \/ Local(Leaving)
  BY <1>6, IdleFields DEF Abort, Release, Showing, database
<1>7. \E v : Local(v)
  BY <1>2, <1>3, <1>4, <1>5, <1>6
<1> QED
  BY <1>1, <1>7, StrayQuiet

(* A cleaned group: Telegram's refusals are counted.                       *)
LEMMA StrayClean ==
  ASSUME TypeInv, StrayInv, NEW r \in Runs, NEW g \in Groups, run[r].pc # "record",
         NEW next, next \notin {"send", "record"}, CleanGroup(r, g, next),
         UNCHANGED <<rows, created>>
  PROVE  StrayInv'
<1>0. /\ rows \subseteq Cards /\ chat \subseteq Cards /\ created \in Nat /\ strays \in Nat /\ run[r] \in Run
  BY StrayTypes
<1>1. PICK gone \in SUBSET RowsOf(g), kept \in SUBSET RowsOf(g) :
        /\ chat' = chat \ gone
        /\ strays' = strays
                     + Cardinality((RowsOf(g) \cap chat) \ (gone \cup kept))
        /\ Becomes(r, Cleaned(r, g, kept, next))
  BY DEF CleanGroup, Cleaned
<1> DEFINE v == Cleaned(r, g, kept, next)
           X == (RowsOf(g) \cap chat) \ (gone \cup kept)
<1>2. v.pc = next /\ v.dropped = run[r].dropped \cup (RowsOf(g) \ kept)
  BY <1>0 DEF Cleaned, Run
<1>3. RowsOf(g) \subseteq rows
  BY DEF RowsOf
<1>4. IsFiniteSet(X) /\ chat' \subseteq Cards /\ strays' = strays + Cardinality(X) /\ Becomes(r, v)
  <2>1. X \subseteq Cards
    BY <1>0, <1>3
  <2> QED
    BY <1>0, <1>1, <2>1, CardsFinite, FS_Subset
<1>5. Leaves(r, v, X)
  BY <1>1, <1>2, <1>3 DEF Leaves
<1>6. WritesOwn(r, v) /\ ShowsOwn(r, v)
  BY <1>2, <1>3 DEF WritesOwn, ShowsOwn, Showing
<1> HIDE DEF X, v
<1>7. GroupsInv'
  <2>1. created' \in Nat /\ created <= created' /\ rows' \subseteq Cards
    BY <1>0
  <2> QED
    BY <1>4, <1>6, <2>1, GroupsStep DEF StrayInv
<1>8. StraysInv'
  BY <1>4, <1>5, StrayStep DEF StrayInv
<1> QED
  BY <1>7, <1>8 DEF StrayInv

LEMMA StrayCleanSteps ==
  ASSUME TypeInv, StrayInv, NEW r \in Runs, Recover(r) \/ Undo(r) \/ Cleanup(r)
  PROVE  StrayInv'
<1>0. run[r] \in Run /\ HasGroup(run[r])
  BY DEF TypeInv, TypeOK
<1>1. run[r].pc # "record" /\ UNCHANGED <<rows, created>>
  BY DEF Recover, Undo, Cleanup, At, database
<1>2. PICK g \in Groups, next \in {"recover", "undone", "cleaned"} : CleanGroup(r, g, next)
  <2>1. CASE Recover(r)
    BY <1>0, <2>1 DEF Recover, Run
  <2>2. CASE Undo(r)
    BY <1>0, <2>2 DEF Undo, HasGroup, At
  <2>3. CASE Cleanup(r)
    BY <1>0, <2>3 DEF Cleanup, Run
  <2> QED
    BY <2>1, <2>2, <2>3
<1>3. next \notin {"send", "record"}
  BY <1>2
<1> QED
  BY <1>1, <1>2, <1>3, StrayClean

(* A new group, with an id above all there are.                            *)
LEMMA StrayBegin ==
  ASSUME TypeInv, StrayInv, NEW r \in Runs, Begin(r)
  PROVE  StrayInv'
<1>0. /\ rows \subseteq Cards /\ chat \subseteq Cards /\ created \in Nat /\ strays \in Nat /\ run[r] \in Run
  BY StrayTypes
<1> DEFINE v == [run[r] EXCEPT !.pc = "send",
                               !.pending = created', !.active = ActiveGroup,
                               !.todo = ItemsOf(run[r].snap),
                               !.dropped = {}, !.retired = {}]
           X == {}
<1>1. v.pc = "send" /\ v.pending = created' /\ v.dropped = {}
  BY <1>0 DEF Run
<1>2. /\ Becomes(r, v) /\ rows' = rows \ run[r].dropped /\ created' = created + 1
      /\ UNCHANGED <<chat, strays>> /\ run[r].pc = "recover"
  BY DEF Begin, KeptRows, faults, Recovered, At
<1> HIDE DEF v
<1>3. created' \in Nat /\ created <= created' /\ rows' \subseteq Cards
  BY <1>0, <1>2
<1>4. \A i : <<created + 1, i>> \notin rows \cup Dropped
  BY <1>0 DEF StrayInv, GroupsInv, Known
<1>5. WritesOwn(r, v)
  BY <1>1, <1>2 DEF WritesOwn
<1>6. ShowsOwn(r, v)
  BY <1>0, <1>1, <1>2, <1>3, <1>4 DEF ShowsOwn
<1>7. GroupsInv'
  BY <1>2, <1>3, <1>5, <1>6, GroupsStep DEF StrayInv
<1>8. Leaves(r, v, X)
  BY <1>1, <1>2 DEF Leaves
<1>9. IsFiniteSet(X) /\ strays' = strays + Cardinality(X) /\ chat' \subseteq Cards
  BY <1>0, <1>2, NoCards
<1> HIDE DEF X
<1>10. StraysInv'
  BY <1>2, <1>8, <1>9, StrayStep DEF StrayInv
<1> QED
  BY <1>7, <1>10 DEF StrayInv

(* Sending and recording one card.                                         *)
LEMMA StraySend ==
  ASSUME TypeInv, StrayInv, NEW r \in Runs, SendCard(r)
  PROVE  StrayInv'
<1>0. /\ rows \subseteq Cards /\ chat \subseteq Cards /\ created \in Nat /\ strays \in Nat /\ run[r] \in Run
      /\ run[r].pc = "send"
  BY StrayTypes DEF SendCard, At
<1>1. PICK i \in run[r].todo :
        /\ chat' = chat \cup {<<run[r].pending, i>>}
        /\ Becomes(r, [run[r] EXCEPT !.pc = "record", !.sent = i, !.todo = @ \ {i}])
  BY DEF SendCard
<1> DEFINE v == [run[r] EXCEPT !.pc = "record", !.sent = i, !.todo = @ \ {i}]
           X == {}
<1>2. /\ v.pc = "record" /\ v.sent = i /\ v.todo = run[r].todo \ {i} /\ v.pending = run[r].pending
      /\ v.dropped = run[r].dropped
  BY <1>0 DEF Run
<1>3. Becomes(r, v) /\ UNCHANGED <<rows, created, strays>>
  BY <1>1 DEF SendCard, database, faults
<1> HIDE DEF v
<1>4. Showing(run[r]) /\ Fresh(run[r]) /\ run[r].pending \in Nat
  BY <1>0, StrayTypes DEF StrayInv, GroupsInv, OwnGroups, Showing
<1>5. ToRecord(v) \subseteq ToRecord(run[r])
  BY <1>2 DEF ToRecord
<1>6. WritesOwn(r, v) /\ ShowsOwn(r, v)
  BY <1>2, <1>3, <1>4, <1>5 DEF WritesOwn, ShowsOwn, Fresh
<1>7. GroupsInv'
  <2>1. created' \in Nat /\ created <= created' /\ rows' \subseteq Cards
    BY <1>0, <1>3
  <2> QED
    BY <1>3, <1>6, <2>1, GroupsStep DEF StrayInv
<1>8. Leaves(r, v, X)
  BY <1>0, <1>1, <1>2, <1>3 DEF Leaves
<1>9. IsFiniteSet(X) /\ strays' = strays + Cardinality(X) /\ chat' \subseteq Cards
  <2>1. run[r].pending \in Groups /\ i \in Items
    BY <1>0, <1>4, StrayTypes DEF Run
  <2> QED
    BY <1>0, <1>1, <1>3, <2>1, NoCards DEF Cards
<1> HIDE DEF X
<1>10. StraysInv'
  BY <1>3, <1>8, <1>9, StrayStep DEF StrayInv
<1> QED
  BY <1>7, <1>10 DEF StrayInv

LEMMA StrayRecord ==
  ASSUME TypeInv, StrayInv, NEW r \in Runs, RecordCard(r)
  PROVE  StrayInv'
<1>0. /\ rows \subseteq Cards /\ chat \subseteq Cards /\ created \in Nat /\ strays \in Nat /\ run[r] \in Run
      /\ run[r].pc = "record" /\ HasGroup(run[r])
  BY StrayTypes DEF RecordCard, At, TypeInv
<1> DEFINE v == [run[r] EXCEPT !.pc = AfterCard(r), !.sent = NoItem]
           m == <<run[r].pending, run[r].sent>>
           X == {}
<1>2. /\ v.pc = AfterCard(r) /\ v.todo = run[r].todo /\ v.pending = run[r].pending
      /\ v.dropped = run[r].dropped
  BY <1>0 DEF Run
<1>3. Becomes(r, v) /\ rows' = rows \cup {m} /\ UNCHANGED <<chat, created, strays>>
  BY DEF RecordCard, Recorded, faults
<1> HIDE DEF v
<1>4. Showing(run[r]) /\ Fresh(run[r]) /\ run[r].pending \in Nat
  BY <1>0, StrayTypes DEF StrayInv, GroupsInv, OwnGroups, Showing
<1>5. run[r].sent \in ToRecord(run[r]) /\ ToRecord(v) \subseteq ToRecord(run[r]) \ {run[r].sent}
      /\ v.pc # "record"
  BY <1>0, <1>2, <1>4 DEF ToRecord, Fresh, AfterCard
<1>6. m \notin rows \cup Dropped /\ m \in Cards
  BY <1>0, <1>4, <1>5 DEF Fresh, HasGroup, Cards
<1>7. WritesOwn(r, v) /\ ShowsOwn(r, v)
  <2>1. \A i \in ToRecord(v) : <<v.pending, i>> \notin rows' \cup Dropped
    BY <1>2, <1>3, <1>4, <1>5 DEF Fresh
  <2> QED
    BY <1>2, <1>3, <1>4, <1>5, <2>1 DEF WritesOwn, ShowsOwn, Fresh
<1>8. m \notin v.dropped
  <2>1. v.dropped \subseteq Dropped
    BY <1>2 DEF Dropped
  <2> QED
    BY <1>6, <2>1
<1>9. Leaves(r, v, X)
  BY <1>2, <1>3, <1>6, <1>8 DEF Leaves
<1>10. IsFiniteSet(X) /\ strays' = strays + Cardinality(X) /\ chat' \subseteq Cards
  BY <1>0, <1>3, NoCards
<1>11. created' \in Nat /\ created <= created' /\ rows' \subseteq Cards
  BY <1>0, <1>3, <1>6
<1> HIDE DEF X, m
<1>12. GroupsInv'
  BY <1>3, <1>7, <1>11, GroupsStep DEF StrayInv
<1>13. StraysInv'
  BY <1>3, <1>9, <1>10, StrayStep DEF StrayInv
<1> QED
  BY <1>12, <1>13 DEF StrayInv

(* A lost answer and a crash cost one card at most.                        *)
LEMMA StrayLost ==
  ASSUME TypeInv, TypeInv', StrayInv, NEW r \in Runs, SendFails(r) \/ Crash(r)
  PROVE  StrayInv'
<1>0. /\ rows \subseteq Cards /\ chat \subseteq Cards /\ created \in Nat /\ strays \in Nat /\ run[r] \in Run
  BY StrayTypes
<1>1. chat' \subseteq Cards /\ strays' \in Nat
  BY StrayTypes DEF TypeInv, TypeOK
<1>2. UNCHANGED <<rows, created>>
  BY DEF SendFails, Crash, database
<1>3. PICK v : Becomes(r, v) /\ ~Showing(v) /\ v.dropped \subseteq run[r].dropped
  <2> DEFINE w == [run[r] EXCEPT !.pc = "undo"]
  <2>1. w.pc = "undo" /\ w.dropped = run[r].dropped
    BY <1>0 DEF Run
  <2>2. Becomes(r, w) \/ Becomes(r, Idle)
    BY DEF SendFails, Crash
  <2> HIDE DEF w
  <2> QED
    BY <2>1, <2>2, IdleFields DEF Showing
<1>4. WritesOwn(r, v) /\ ShowsOwn(r, v)
  BY <1>2, <1>3 DEF WritesOwn, ShowsOwn
<1>5. GroupsInv'
  <2>1. created' \in Nat /\ created <= created' /\ rows' \subseteq Cards
    BY <1>0, <1>2
  <2> QED
    BY <1>3, <1>4, <2>1, GroupsStep DEF StrayInv
<1>6. PICK m : \/ /\ strays' = strays + 1 /\ chat' \subseteq chat \cup {m}
                  /\ run[r].pc = "record" => m = <<run[r].pending, run[r].sent>>
               \/ strays' = strays /\ chat' = chat /\ run[r].pc # "record"
  <2>1. CASE Crash(r)
    BY <2>1 DEF Crash
  <2>2. CASE SendFails(r)
    BY <2>2 DEF SendFails, At
  <2> QED
    BY <2>1, <2>2
<1> DEFINE X == IF strays' = strays THEN {} ELSE {m}
<1>7. Leaves(r, v, X)
  BY <1>0, <1>2, <1>3, <1>6 DEF Leaves
<1>8. IsFiniteSet(X) /\ strays' = strays + Cardinality(X)
  <2>1. CASE strays' = strays
    BY <1>0, <2>1, NoCards
  <2>2. CASE strays' # strays
    BY <1>6, <2>2, OneCard
  <2> QED
    BY <2>1, <2>2
<1> HIDE DEF X
<1>9. StraysInv'
  BY <1>1, <1>3, <1>7, <1>8, StrayStep DEF StrayInv
<1> QED
  BY <1>5, <1>9 DEF StrayInv

LEMMA StrayInvStep == TypeInv /\ StrayInv /\ [Next]_vars => StrayInv'
<1> SUFFICES ASSUME TypeInv, StrayInv, [Next]_vars PROVE StrayInv'
  OBVIOUS
<1>1. TypeInv'
  BY TypeStep
<1>2. ASSUME NEW r \in Runs, Acquire(r) \/ Advance(r) \/ Abort(r) \/ Crash(r) PROVE StrayInv'
  BY <1>1, <1>2, StrayQuietSteps, StrayCleanSteps, StrayBegin, StraySend, StrayRecord, StrayLost DEF Advance
<1>3. CASE ExpireLease \/ ProviderChanges \/ ChangeCriteria \/ ToggleMonitoring \/ UNCHANGED vars
  <2>1. UNCHANGED <<run, rows, chat, created, strays>>
    BY <1>3 DEF ExpireLease, ProviderChanges, ChangeCriteria, ToggleMonitoring, vars, database, faults
  <2> QED
    BY <2>1 DEF StrayInv, GroupsInv, StraysInv, Known, OwnGroups, Fresh, Showing, ToRecord, Dropped,
                Unrecorded, Recording, At
<1> QED
  BY <1>2, <1>3 DEF Next

LEMMA StrayInit == Init => StrayInv
<1> SUFFICES ASSUME Init PROVE StrayInv
  OBVIOUS
<1>1. \A r \in Runs : run[r] = Idle
  BY DEF Init
<1>2. Dropped = {} /\ Unrecorded = {}
  BY <1>1, IdleFields DEF Init, Dropped, Unrecorded
<1>3. GroupsInv
  BY <1>1, <1>2, IdleFields DEF Init, GroupsInv, Known, OwnGroups, Fresh, Showing
<1>4. StraysInv
  BY <1>2, NoCards DEF Init, StraysInv
<1> QED
  BY <1>3, <1>4 DEF StrayInv

(* However runs overlap: a card on the screen that no run will ever delete   *)
(* costs a crash, a refusal or a lost answer, one each.                      *)
THEOREM StraysExplained == Spec => []StrayCardsExplained
<1>1. Init => TypeInv /\ StrayInv
  BY TypeInit, StrayInit
<1>2. TypeInv /\ StrayInv /\ [Next]_vars => (TypeInv /\ StrayInv)'
  BY TypeStep, StrayInvStep
<1>3. TypeInv /\ StrayInv => StrayCardsExplained
  <2> SUFFICES ASSUME TypeInv, StrayInv PROVE StrayCardsExplained
    OBVIOUS
  <2> DEFINE Strays == chat \ (rows \cup Recording)
  <2>1. Strays \subseteq Unrecorded /\ Unrecorded \subseteq Cards
    BY StrayTypes DEF Unrecorded
  <2> HIDE DEF Strays
  <2>2. IsFiniteSet(Unrecorded)
    BY <2>1, CardsFinite, FS_Subset
  <2>3. /\ Cardinality(Strays) <= Cardinality(Unrecorded) /\ IsFiniteSet(Strays)
    BY <2>1, <2>2, FS_Subset
  <2>4. Cardinality(Strays) \in Nat /\ Cardinality(Unrecorded) \in Nat /\ strays \in Nat
    BY <2>2, <2>3, FS_CardinalityType, StrayTypes
  <2>5. Cardinality(Strays) <= strays
    BY <2>3, <2>4 DEF StrayInv, StraysInv
  <2> QED
    BY <2>5 DEF Strays, StrayCardsExplained
<1> QED
  BY <1>1, <1>2, <1>3, PTL DEF Spec
===============================================================================
