-------------------------- MODULE UserLimitsProofs --------------------------
(***************************************************************************)
(* Proofs about UserLimits, for any limits and any number of updates at a  *)
(* time: restaurants and reports first, then the attempts to sign in,      *)
(* which share nothing with them.                                          *)
(***************************************************************************)
EXTENDS UserLimits, FiniteSetTheorems, SequenceTheorems, WellFoundedInduction, TLAPS

Request == {Idle} \cup RestaurantCall \cup ReportCall
Types ==
  /\ now \in 0..MaxTime /\ saved \subseteq Restaurants
  /\ primary \in Restaurants \cup {NoRestaurant}
  /\ reports \in Seq(0..MaxTime)
  /\ call \in [Calls -> Request]

(* Updates that have counted the saved restaurants and will add one.       *)
Saving == {c \in Calls : call[c].op \in {"save", "saved"}}

(* Each of them counts as an addition already made.                        *)
Counted == Cardinality(saved) + Cardinality(Saving) <= MaxSaved - 1 + Cardinality(Calls)

(* A favourite that is still the row a request has loaded is a saved one.  *)
RowsSaved ==
  \A c \in Calls : call[c].op \in {"primary", "remove"} /\ call[c].row => call[c].of \in saved

(* One report at a time is about to be committed, a cooldown after the last.*)
ReportNext ==
  \A c \in Calls : call[c].op = "report" =>
    /\ reports # <<>> => call[c].at - reports[Len(reports)] >= Cooldown
    /\ \A d \in Calls : call[d].op = "report" => c = d

IInv == Types /\ Counted /\ PrimaryIsSaved /\ RowsSaved /\ ReportNext /\ ReportsSpaced

(***************************************************************************)
(* Requests.                                                               *)
(***************************************************************************)

LEMMA RestaurantRequest ==
  ASSUME NEW op \in {"save", "saved", "primary", "remove"}, NEW r \in Restaurants,
         NEW row \in BOOLEAN, NEW first \in BOOLEAN
  PROVE  [op |-> op, of |-> r, row |-> row, first |-> first] \in RestaurantCall
BY DEF RestaurantCall

LEMMA Kinds ==
  ASSUME NEW v \in Request
  PROVE  /\ v.op \in {"save", "saved", "primary", "remove"} => v \in RestaurantCall
         /\ v.op \in {"waiting", "report"} => v \in ReportCall
BY DEF Request, RestaurantCall, ReportCall, Idle

LEMMA IdleRequest == Idle \in Request /\ Idle.op = "idle"
BY DEF Request, Idle

LEMMA CallStep ==
  ASSUME Types, NEW c \in Calls, NEW v \in Request, call' = [call EXCEPT ![c] = v]
  PROVE  /\ call' \in [Calls -> Request] /\ call'[c] = v
         /\ \A d \in Calls \ {c} : call'[d] = call[d]
BY DEF Types

LEMMA AnsweredStep ==
  ASSUME Types, NEW c \in Calls, Answered(c)
  PROVE  /\ call' \in [Calls -> Request] /\ call'[c].op = "idle"
         /\ \A d \in Calls \ {c} : call'[d] = call[d]
BY CallStep, IdleRequest DEF Answered

LEMMA SavingFinite ==
  ASSUME Types
  PROVE  /\ IsFiniteSet(Saving) /\ Cardinality(Saving) \in Nat /\ Cardinality(Saving) <= Cardinality(Calls)
         /\ IsFiniteSet(saved) /\ Cardinality(saved) \in Nat /\ Cardinality(Calls) \in Nat
<1>1. Saving \subseteq Calls /\ saved \subseteq Restaurants
  BY DEF Saving, Types
<1>2. IsFiniteSet(Calls) /\ IsFiniteSet(Restaurants)
  BY LimitsAssumption
<1>3. IsFiniteSet(Saving) /\ Cardinality(Saving) <= Cardinality(Calls)
  BY <1>1, <1>2, FS_Subset
<1>4. IsFiniteSet(saved)
  BY <1>1, <1>2, FS_Subset
<1> QED
  BY <1>2, <1>3, <1>4, FS_CardinalityType

(* Fewer updates that will add one: the count stays within its bound.      *)
LEMMA FewerSaving ==
  ASSUME Types, Counted, Types', UNCHANGED saved, Saving' \subseteq Saving
  PROVE  Counted'
<1>1. IsFiniteSet(Saving)
  BY SavingFinite
<1>2. Cardinality(Saving') <= Cardinality(Saving) /\ IsFiniteSet(Saving')
  BY <1>1, FS_Subset
<1>3. Cardinality(Saving') \in Nat
  BY <1>2, FS_CardinalityType
<1>4. Cardinality(Saving) \in Nat /\ Cardinality(saved) \in Nat /\ Cardinality(Calls) \in Nat
  BY SavingFinite
<1> QED
  BY <1>2, <1>3, <1>4, LimitsAssumption DEF Counted

LEMMA InitInv == Init => IInv
<1> SUFFICES ASSUME Init PROVE IInv
  OBVIOUS
<1>1. Types
  <2>1. call \in [Calls -> Request] /\ reports \in Seq(0..MaxTime)
    BY IdleRequest DEF Init
  <2> QED
    BY <2>1, LimitsAssumption DEF Init, Types
<1>2. \A c \in Calls : call[c].op = "idle"
  BY IdleRequest DEF Init
<1>3. Counted
  <2>1. Saving = {} /\ saved = {}
    BY <1>2 DEF Saving, Init
  <2>2. Cardinality(Saving) = 0 /\ Cardinality(saved) = 0 /\ Cardinality(Calls) \in Nat
    BY <1>1, <2>1, SavingFinite, FS_EmptySet
  <2> QED
    BY <2>2, LimitsAssumption DEF Counted
<1>4. PrimaryIsSaved /\ RowsSaved /\ ReportNext
  BY <1>2 DEF Init, PrimaryIsSaved, RowsSaved, ReportNext
<1>5. ReportsSpaced
  BY DEF Init, ReportsSpaced
<1> QED
  BY <1>1, <1>3, <1>4, <1>5 DEF IInv

(* A request begins, or ends without a trace.                              *)
LEMMA RequestStep ==
  ASSUME IInv, NEW c \in Calls, NEW v \in Request, call' = [call EXCEPT ![c] = v],
         UNCHANGED <<now, saved, primary, reports>>,
         v.op \in {"save", "saved"} => Counted',
         v.op \in {"primary", "remove"} /\ v.row => v.of \in saved,
         v.op = "report" => /\ reports # <<>> => v.at - reports[Len(reports)] >= Cooldown
                            /\ \A d \in Calls \ {c} : call[d].op # "report"
  PROVE  IInv'
<1>1. /\ call' \in [Calls -> Request] /\ call'[c] = v
      /\ \A d \in Calls \ {c} : call'[d] = call[d]
  BY CallStep DEF IInv
<1>2. Types'
  BY <1>1 DEF IInv, Types
<1>3. Counted'
  <2>1. CASE v.op \in {"save", "saved"}
    BY <2>1
  <2>2. CASE v.op \notin {"save", "saved"}
    <3>1. Saving' \subseteq Saving
      BY <1>1, <2>2 DEF Saving
    <3> QED
      BY <1>2, <3>1, FewerSaving DEF IInv
  <2> QED
    BY <2>1, <2>2
<1>4. PrimaryIsSaved' /\ ReportsSpaced'
  BY DEF IInv, PrimaryIsSaved, ReportsSpaced
<1>5. RowsSaved'
  BY <1>1 DEF IInv, RowsSaved
<1>6. ReportNext'
  <2> SUFFICES ASSUME NEW q \in Calls, call'[q].op = "report"
               PROVE  /\ reports # <<>> => call'[q].at - reports[Len(reports)] >= Cooldown
                      /\ \A d \in Calls : call'[d].op = "report" => q = d
    BY DEF ReportNext
  <2>1. CASE q = c
    BY <1>1, <2>1
  <2>2. CASE q # c
    <3>1. call'[q] = call[q] /\ v.op # "report"
      BY <1>1, <2>2
    <3> QED
      BY <1>1, <3>1 DEF IInv, ReportNext
  <2> QED
    BY <2>1, <2>2
<1> QED
  BY <1>2, <1>3, <1>4, <1>5, <1>6 DEF IInv

(***************************************************************************)
(* The actions.                                                            *)
(***************************************************************************)

LEMMA SaveStep ==
  ASSUME IInv, NEW c \in Calls, NEW r \in Restaurants, Save(c, r)
  PROVE  IInv'
<1> DEFINE v == [op |-> "save", of |-> r, row |-> TRUE, first |-> FALSE]
<1>1. v \in Request /\ v.op = "save"
  BY RestaurantRequest DEF Request
<1>2. call' = [call EXCEPT ![c] = v] /\ UNCHANGED <<now, saved, primary, reports>>
  BY DEF Save, kept, restaurants
<1> HIDE DEF v
<1>3. /\ call' \in [Calls -> Request] /\ call'[c] = v
      /\ \A d \in Calls \ {c} : call'[d] = call[d]
  BY <1>1, <1>2, CallStep DEF IInv
<1>4. Types'
  BY <1>2, <1>3 DEF IInv, Types
<1>5. Counted'
  <2>1. Cardinality(Saving') <= Cardinality(Calls) /\ Cardinality(Saving') \in Nat
    <3>1. Saving' \subseteq Calls
      BY DEF Saving
    <3>2. IsFiniteSet(Saving') /\ Cardinality(Saving') <= Cardinality(Calls)
      BY <3>1, LimitsAssumption, FS_Subset
    <3> QED
      BY <3>2, FS_CardinalityType
  <2>2. Cardinality(saved) < MaxSaved /\ saved' = saved
    BY <1>2 DEF Save, Room
  <2>3. Cardinality(saved) \in Nat /\ Cardinality(Calls) \in Nat
    BY SavingFinite DEF IInv
  <2> QED
    BY <2>1, <2>2, <2>3, LimitsAssumption DEF Counted
<1> QED
  BY <1>1, <1>2, <1>5, RequestStep

LEMMA InsertStep ==
  ASSUME IInv, NEW c \in Calls, Insert(c)
  PROVE  IInv'
<1> DEFINE v == [[call[c] EXCEPT !.op = "saved"] EXCEPT !.first = (primary = NoRestaurant)]
<1>1. call \in [Calls -> Request]
  BY DEF IInv, Types
<1>2. call[c].op = "save" /\ call[c] \in RestaurantCall
  BY <1>1, Kinds DEF Insert
<1>3. v \in RestaurantCall /\ v.op = "saved"
  BY <1>2 DEF RestaurantCall
<1>4. call' = [call EXCEPT ![c] = v]
  BY <1>1, <1>2 DEF Insert
<1>5. v \in Request
  BY <1>3 DEF Request
<1> HIDE DEF v
<1>6. UNCHANGED <<now, saved, primary, reports>>
  BY DEF Insert, kept, restaurants
<1>7. /\ call' \in [Calls -> Request] /\ call'[c] = v
      /\ \A d \in Calls \ {c} : call'[d] = call[d]
  BY <1>4, <1>5, CallStep DEF IInv
<1>8. Types'
  BY <1>6, <1>7 DEF IInv, Types
<1>9. Saving' \subseteq Saving
  BY <1>2, <1>7 DEF Saving
<1>10. Counted'
  BY <1>6, <1>8, <1>9, FewerSaving DEF IInv
<1> QED
  BY <1>3, <1>4, <1>5, <1>6, <1>10, RequestStep

LEMMA LoadStep ==
  ASSUME IInv, NEW c \in Calls, NEW r \in Restaurants, NEW op \in {"primary", "remove"}, Load(c, r, op)
  PROVE  IInv'
<1> DEFINE v == [op |-> op, of |-> r, row |-> TRUE, first |-> (primary = r)]
<1>1. v \in Request /\ v.op = op /\ v.of = r
  BY RestaurantRequest DEF Request
<1>2. call' = [call EXCEPT ![c] = v] /\ UNCHANGED <<now, saved, primary, reports>> /\ r \in saved
  BY DEF Load, kept, restaurants
<1> HIDE DEF v
<1> QED
  BY <1>1, <1>2, RequestStep

LEMMA CommitSaveStep ==
  ASSUME IInv, NEW c \in Calls, CommitSave(c)
  PROVE  IInv'
<1>1. call \in [Calls -> Request]
  BY DEF IInv, Types
<1>2. call[c].op = "saved" /\ call[c].of \in Restaurants
  BY <1>1, Kinds DEF CommitSave, RestaurantCall
<1>3. /\ call' \in [Calls -> Request] /\ call'[c].op = "idle"
      /\ \A d \in Calls \ {c} : call'[d] = call[d]
  BY AnsweredStep DEF CommitSave, IInv
<1>4. saved' = saved \cup {call[c].of} /\ UNCHANGED <<now, reports>>
  BY DEF CommitSave, kept
<1>5. primary' \in {call[c].of, primary}
  BY DEF CommitSave
<1>6. Types'
  BY <1>2, <1>3, <1>4, <1>5 DEF IInv, Types
<1>7. Counted'
  <2>1. Saving' = Saving \ {c} /\ c \in Saving
    BY <1>2, <1>3 DEF Saving
  <2>2. IsFiniteSet(Saving) /\ Cardinality(Saving) \in Nat /\ IsFiniteSet(saved)
        /\ Cardinality(saved) \in Nat /\ Cardinality(Calls) \in Nat
    BY SavingFinite DEF IInv
  <2>3. Cardinality(Saving') = Cardinality(Saving) - 1
    BY <2>1, <2>2, FS_RemoveElement
  <2>4. Cardinality(saved') \in {Cardinality(saved), Cardinality(saved) + 1}
    BY <1>4, <2>2, FS_AddElement
  <2> QED
    BY <2>2, <2>3, <2>4, LimitsAssumption DEF Counted, IInv
<1>8. PrimaryIsSaved'
  BY <1>4, <1>5 DEF IInv, PrimaryIsSaved
<1>9. RowsSaved'
  BY <1>3, <1>4 DEF IInv, RowsSaved
<1>10. ReportNext' /\ ReportsSpaced'
  BY <1>3, <1>4 DEF IInv, ReportNext, ReportsSpaced
<1> QED
  BY <1>6, <1>7, <1>8, <1>9, <1>10 DEF IInv

LEMMA SetPrimaryStep ==
  ASSUME IInv, NEW c \in Calls, SetPrimary(c)
  PROVE  IInv'
<1>1. call \in [Calls -> Request]
  BY DEF IInv, Types
<1>2. call[c].op = "primary" /\ call[c].of \in saved /\ call[c].of \in Restaurants
  BY <1>1, Kinds DEF SetPrimary, RefersTo, RestaurantCall, IInv, RowsSaved
<1>3. /\ call' \in [Calls -> Request] /\ call'[c].op = "idle"
      /\ \A d \in Calls \ {c} : call'[d] = call[d]
  BY AnsweredStep DEF SetPrimary, IInv
<1>4. primary' = call[c].of /\ UNCHANGED <<now, saved, reports>>
  BY DEF SetPrimary, kept
<1>5. Types'
  BY <1>2, <1>3, <1>4 DEF IInv, Types
<1>6. Counted'
  <2>1. Saving' \subseteq Saving
    BY <1>3 DEF Saving
  <2> QED
    BY <1>4, <1>5, <2>1, FewerSaving DEF IInv
<1>7. PrimaryIsSaved' /\ RowsSaved' /\ ReportNext' /\ ReportsSpaced'
  BY <1>2, <1>3, <1>4 DEF IInv, PrimaryIsSaved, RowsSaved, ReportNext, ReportsSpaced
<1> QED
  BY <1>5, <1>6, <1>7 DEF IInv

(* Whoever else has loaded the row of a removed favourite finds it gone.   *)
LEMMA RemoveStep ==
  ASSUME IInv, NEW c \in Calls, Remove(c)
  PROVE  IInv'
<1>1. call \in [Calls -> Request] /\ call[c].op = "remove"
  BY DEF IInv, Types, Remove
<1>2. /\ call'[c] = Idle
      /\ \A d \in Calls \ {c} :
           call'[d] = IF call[c].row /\ call[d].op \in {"primary", "remove"} /\ call[d].of = call[c].of
                        THEN [call[d] EXCEPT !.row = FALSE] ELSE call[d]
      /\ call' = [d \in Calls |-> call'[d]]
  BY DEF Remove
<1>3. \A d \in Calls \ {c} : /\ call'[d] \in Request /\ call'[d].op = call[d].op
                             /\ call'[d].op \in {"waiting", "report"} => call'[d] = call[d]
  <2> SUFFICES ASSUME NEW d \in Calls \ {c}
               PROVE  /\ call'[d] \in Request /\ call'[d].op = call[d].op
                      /\ call'[d].op \in {"waiting", "report"} => call'[d] = call[d]
    OBVIOUS
  <2>1. CASE call[c].row /\ call[d].op \in {"primary", "remove"} /\ call[d].of = call[c].of
    <3>1. call[d] \in RestaurantCall /\ call'[d] = [call[d] EXCEPT !.row = FALSE]
      BY <1>1, <1>2, <2>1, Kinds
    <3>2. call'[d] \in RestaurantCall /\ call'[d].op = call[d].op
      BY <3>1 DEF RestaurantCall
    <3> QED
      BY <2>1, <3>2 DEF Request
  <2>2. CASE ~(call[c].row /\ call[d].op \in {"primary", "remove"} /\ call[d].of = call[c].of)
    <3>1. call'[d] = call[d]
      BY <1>2, <2>2
    <3> QED
      BY <1>1, <3>1
  <2> QED
    BY <2>1, <2>2
<1>4. call' \in [Calls -> Request]
  <2>1. \A d \in Calls : call'[d] \in Request
    BY <1>2, <1>3, IdleRequest
  <2> QED
    BY <1>2, <2>1
<1>5. saved' \subseteq saved /\ saved \subseteq saved' \cup {call[c].of}
      /\ (~call[c].row => saved' = saved) /\ UNCHANGED <<now, reports>>
  BY DEF Remove, kept
<1>6. primary' \in {NoRestaurant, primary}
      /\ (call[c].row /\ primary = call[c].of => primary' = NoRestaurant)
  BY DEF Remove
<1>7. Types'
  BY <1>4, <1>5, <1>6 DEF IInv, Types
<1>8. Counted'
  <2>1. Saving' \subseteq Saving
    BY <1>2, <1>3, IdleRequest DEF Saving
  <2>2. IsFiniteSet(Saving) /\ IsFiniteSet(saved) /\ Cardinality(Saving) \in Nat
        /\ Cardinality(saved) \in Nat /\ Cardinality(Calls) \in Nat
    BY SavingFinite DEF IInv
  <2>3. /\ Cardinality(Saving') <= Cardinality(Saving) /\ IsFiniteSet(Saving')
        /\ Cardinality(saved') <= Cardinality(saved) /\ IsFiniteSet(saved')
    BY <1>5, <2>1, <2>2, FS_Subset
  <2>4. Cardinality(Saving') \in Nat /\ Cardinality(saved') \in Nat
    BY <2>3, FS_CardinalityType
  <2> QED
    BY <2>2, <2>3, <2>4, LimitsAssumption DEF IInv, Counted
<1>9. PrimaryIsSaved'
  BY <1>5, <1>6 DEF IInv, PrimaryIsSaved
<1>10. RowsSaved'
  <2> SUFFICES ASSUME NEW d \in Calls, call'[d].op \in {"primary", "remove"}, call'[d].row
               PROVE  call'[d].of \in saved'
    BY DEF RowsSaved
  <2>1. d # c /\ call[d].op \in {"primary", "remove"} /\ call[d] \in RestaurantCall
    BY <1>1, <1>2, <1>3, IdleRequest, Kinds
  <2>2. CASE call[c].row /\ call[d].of = call[c].of
    <3>1. call'[d] = [call[d] EXCEPT !.row = FALSE]
      BY <1>2, <2>1, <2>2
    <3>2. ~call'[d].row
      BY <2>1, <3>1 DEF RestaurantCall
    <3> QED
      BY <3>2
  <2>3. CASE ~(call[c].row /\ call[d].of = call[c].of)
    <3>1. call'[d] = call[d]
      BY <1>2, <2>1, <2>3
    <3>2. call[d].of \in saved
      BY <2>1, <3>1 DEF IInv, RowsSaved
    <3> QED
      BY <1>5, <2>3, <3>1, <3>2
  <2> QED
    BY <2>2, <2>3
<1>11. ReportNext'
  BY <1>2, <1>3, <1>5, IdleRequest DEF IInv, ReportNext
<1>12. ReportsSpaced'
  BY <1>5 DEF IInv, ReportsSpaced
<1> QED
  BY <1>7, <1>8, <1>9, <1>10, <1>11, <1>12 DEF IInv

LEMMA ReportStep ==
  ASSUME IInv, NEW c \in Calls, Report(c) \/ WriteReport(c)
  PROVE  IInv'
<1>1. now \in 0..MaxTime
  BY DEF IInv, Types
<1>2. CASE Report(c)
  <2> DEFINE v == [op |-> "waiting", at |-> now]
  <2>1. v \in Request /\ v.op = "waiting"
    BY <1>1 DEF Request, ReportCall
  <2>2. call' = [call EXCEPT ![c] = v] /\ UNCHANGED <<now, saved, primary, reports>>
    BY <1>2 DEF Report, kept, restaurants
  <2> HIDE DEF v
  <2> QED
    BY <2>1, <2>2, RequestStep
<1>3. CASE WriteReport(c)
  <2> DEFINE v == [op |-> "report", at |-> now]
  <2>1. v \in Request /\ v.op = "report" /\ v.at = now
    BY <1>1 DEF Request, ReportCall
  <2>2. call' = [call EXCEPT ![c] = v] /\ UNCHANGED <<now, saved, primary, reports>>
    BY <1>3 DEF WriteReport, kept, restaurants
  <2> HIDE DEF v
  <2>3. /\ reports # <<>> => v.at - reports[Len(reports)] >= Cooldown
        /\ \A d \in Calls \ {c} : call[d].op # "report"
    BY <1>3, <2>1 DEF WriteReport, Unlocked, CooledDown
  <2> QED
    BY <2>1, <2>2, <2>3, RequestStep
<1> QED
  BY <1>2, <1>3

LEMMA CommitReportStep ==
  ASSUME IInv, NEW c \in Calls, CommitReport(c)
  PROVE  IInv'
<1>1. call \in [Calls -> Request] /\ reports \in Seq(0..MaxTime)
  BY DEF IInv, Types
<1>2. call[c].op = "report" /\ call[c].at \in 0..MaxTime
  BY <1>1, Kinds DEF CommitReport, ReportCall
<1>3. /\ call' \in [Calls -> Request] /\ call'[c].op = "idle"
      /\ \A d \in Calls \ {c} : call'[d] = call[d]
  BY AnsweredStep DEF CommitReport, IInv
<1>4. reports' = Append(reports, call[c].at) /\ UNCHANGED <<now, saved, primary>>
  BY DEF CommitReport, kept, restaurants
<1>5. reports' \in Seq(0..MaxTime)
  BY <1>1, <1>2, <1>4
<1>6. Types'
  BY <1>3, <1>4, <1>5 DEF IInv, Types
<1>7. Counted'
  <2>1. Saving' \subseteq Saving
    BY <1>3 DEF Saving
  <2> QED
    BY <1>4, <1>6, <2>1, FewerSaving DEF IInv
<1>8. PrimaryIsSaved' /\ RowsSaved'
  BY <1>3, <1>4 DEF IInv, PrimaryIsSaved, RowsSaved
<1>9. ReportNext'
  BY <1>2, <1>3 DEF IInv, ReportNext
<1>10. ReportsSpaced'
  <2>1. /\ Len(reports') = Len(reports) + 1 /\ Len(reports) \in Nat
        /\ \A i \in 1..Len(reports) : reports'[i] = reports[i] /\ reports[i] \in 0..MaxTime
        /\ reports'[Len(reports) + 1] = call[c].at
    <3> DEFINE at == call[c].at
    <3>1. at \in 0..MaxTime /\ reports' = Append(reports, at)
      BY <1>2, <1>4
    <3> HIDE DEF at
    <3>2. Len(reports') = Len(reports) + 1 /\ Len(reports) \in Nat /\ reports'[Len(reports) + 1] = at
      BY <1>1, <3>1
    <3>3. ASSUME NEW i \in 1..Len(reports)
          PROVE  reports'[i] = reports[i] /\ reports[i] \in 0..MaxTime
      <4>1. reports[i] \in 0..MaxTime
        BY <1>1, ElementOfSeq
      <4>2. reports'[i] = reports[i]
        BY <1>1, <3>1, AppendProperties
      <4> QED
        BY <4>1, <4>2
    <3> QED
      BY <3>2, <3>3 DEF at
  <2> DEFINE n == Len(reports)
  <2>2. ASSUME NEW j \in 1..n PROVE call[c].at - reports[j] >= Cooldown
    <3>1. reports # <<>> /\ n \in 1..n
      BY <2>1
    <3>2. call[c].at - reports[n] >= Cooldown
      BY <1>2, <3>1 DEF IInv, ReportNext
    <3>3. j = n \/ j \in 1..(n - 1)
      BY <2>1
    <3>4. j \in 1..(n - 1) => reports[n] - reports[j] >= Cooldown
      BY <3>1 DEF IInv, ReportsSpaced
    <3>5. reports[j] \in Int /\ reports[n] \in Int /\ call[c].at \in Int
      BY <1>2, <2>1, <3>1
    <3> QED
      BY <3>2, <3>3, <3>4, <3>5, LimitsAssumption
  <2> SUFFICES ASSUME NEW i \in 1..(n + 1), NEW j \in 1..(i - 1)
               PROVE  reports'[i] - reports'[j] >= Cooldown
    BY <2>1 DEF ReportsSpaced
  <2>3. CASE i = n + 1
    <3>1. j \in 1..n
      BY <2>1, <2>3
    <3> QED
      BY <2>1, <2>2, <2>3, <3>1
  <2>4. CASE i \in 1..n
    <3>1. j \in 1..n
      BY <2>1, <2>4
    <3> QED
      BY <2>1, <2>4, <3>1 DEF IInv, ReportsSpaced
  <2> QED
    BY <2>1, <2>3, <2>4
<1> QED
  BY <1>6, <1>7, <1>8, <1>9, <1>10 DEF IInv

LEMMA FailStep ==
  ASSUME IInv, NEW c \in Calls, Fail(c)
  PROVE  IInv'
<1>1. call' = [call EXCEPT ![c] = Idle] /\ UNCHANGED <<now, saved, primary, reports>>
  BY DEF Fail, Answered, kept, restaurants
<1> QED
  BY <1>1, IdleRequest, RequestStep

(* Sign-ins and the passing of time leave restaurants and reports alone.   *)
LEMMA RestStep ==
  ASSUME IInv, Attempt \/ PassTime \/ UNCHANGED vars
  PROVE  IInv'
<1>1. UNCHANGED <<saved, primary, reports, call>>
  BY DEF Attempt, PassTime, vars, kept, restaurants
<1>2. now' \in 0..MaxTime
  BY LimitsAssumption DEF Attempt, PassTime, vars, kept, IInv, Types
<1>3. Types'
  BY <1>1, <1>2 DEF IInv, Types
<1>4. Counted'
  <2>1. Saving' \subseteq Saving
    BY <1>1 DEF Saving
  <2> QED
    BY <1>1, <1>3, <2>1, FewerSaving DEF IInv
<1> QED
  BY <1>1, <1>3, <1>4 DEF IInv, PrimaryIsSaved, RowsSaved, ReportNext, ReportsSpaced

LEMMA StepInv == IInv /\ [Next]_vars => IInv'
<1> SUFFICES ASSUME IInv, [Next]_vars PROVE IInv'
  OBVIOUS
<1>1. ASSUME NEW c \in Calls,
             \/ Insert(c) \/ CommitSave(c) \/ SetPrimary(c) \/ Remove(c)
             \/ Report(c) \/ WriteReport(c) \/ CommitReport(c) \/ Fail(c)
      PROVE  IInv'
  BY <1>1, InsertStep, CommitSaveStep, SetPrimaryStep, RemoveStep, ReportStep, CommitReportStep, FailStep
<1>2. ASSUME NEW c \in Calls, NEW r \in Restaurants,
             Save(c, r) \/ \E op \in {"primary", "remove"} : Load(c, r, op)
      PROVE  IInv'
  BY <1>2, SaveStep, LoadStep
<1> QED
  BY <1>1, <1>2, RestStep DEF Next

LEMMA Invariant == Spec => []IInv
BY InitInv, StepInv, PTL DEF Spec

(***************************************************************************)
(* The theorems.                                                           *)
(***************************************************************************)

(* However many updates overlap, a user never has more saved restaurants   *)
(* than the limit and one for every other update (save_favorite).          *)
THEOREM LimitHolds == Spec => []SavedWithinLimit
<1>1. IInv => SavedWithinLimit
  <2> SUFFICES ASSUME IInv PROVE Cardinality(saved) <= MaxSaved + Cardinality(Calls) - 1
    BY DEF SavedWithinLimit
  <2> QED
    BY SavingFinite, LimitsAssumption DEF IInv, Counted
<1> QED
  BY <1>1, Invariant, PTL

(* The primary restaurant is always one of the saved ones (set_primary,    *)
(* remove_favorite and the foreign key).                                   *)
THEOREM PrimaryExists == Spec => []PrimaryIsSaved
<1>1. IInv => PrimaryIsSaved
  BY DEF IInv
<1> QED
  BY <1>1, Invariant, PTL

(* Any two reports of a user are a cooldown apart (create_report).         *)
THEOREM ReportsApart == Spec => []ReportsSpaced
<1>1. IInv => ReportsSpaced
  BY DEF IInv
<1> QED
  BY <1>1, Invariant, PTL
-----------------------------------------------------------------------------
(***************************************************************************)
(* The attempts to sign in.                                                *)
(*                                                                         *)
(* The limiter remembers the latest accepted attempts; those it has taken  *)
(* off have left the window.  They are in the order of their times, and    *)
(* whoever is Limit places behind another came a whole window later.       *)
(***************************************************************************)

Forgotten == Len(accepted) - Len(attempts)

LoginTypes ==
  /\ subject \in {"restaurant", "report", "login"} /\ now \in 0..MaxTime
  /\ attempts \in Seq(0..MaxTime) /\ accepted \in Seq(0..MaxTime)

Remembered ==
  /\ Forgotten >= 0
  /\ \A i \in 1..Len(attempts) : attempts[i] = accepted[Forgotten + i]
  /\ \A i \in 1..Forgotten : Expired(accepted[i])

Ordered ==
  \A i \in 1..Len(accepted) :
    accepted[i] <= now /\ \A j \in 1..i : accepted[j] <= accepted[i]

WindowApart ==
  \A i \in 1..Len(accepted) : i > Limit => accepted[i] - accepted[i - Limit] >= Window

LoginInv == LoginTypes /\ Remembered /\ Ordered /\ WindowApart

LEMMA LoginNumbers ==
  ASSUME LoginTypes
  PROVE  /\ now \in Nat /\ Len(attempts) \in Nat /\ Len(accepted) \in Nat /\ Forgotten \in Int
         /\ \A i \in 1..Len(attempts) : attempts[i] \in 0..MaxTime /\ attempts[i] \in Nat
         /\ \A i \in 1..Len(accepted) : accepted[i] \in 0..MaxTime /\ accepted[i] \in Nat
<1>1. attempts \in Seq(0..MaxTime) /\ accepted \in Seq(0..MaxTime) /\ now \in 0..MaxTime
  BY DEF LoginTypes
<1>2. /\ \A i \in 1..Len(attempts) : attempts[i] \in 0..MaxTime
      /\ \A i \in 1..Len(accepted) : accepted[i] \in 0..MaxTime
  BY <1>1, ElementOfSeq
<1>3. Len(attempts) \in Nat /\ Len(accepted) \in Nat
  BY <1>1, LenProperties
<1>4. \A n \in 0..MaxTime : n \in Nat
  BY LimitsAssumption
<1> QED
  BY <1>1, <1>2, <1>3, <1>4 DEF Forgotten

(* A nonempty set of numbers has a least one.                              *)
LEMMA Least ==
  ASSUME NEW S, S \subseteq Nat, S # {}
  PROVE  \E m \in S : \A n \in S : m <= n
<1> DEFINE R == OpToRel(<, Nat)
<1>1. \E m \in S : \A n \in S : <<n, m>> \notin R
  <2>1. IsWellFoundedOn(R, Nat)
    BY NatLessThanWellFounded
  <2> HIDE DEF R
  <2> QED
    BY <2>1, WFMin
<1>2. \A m, n \in Nat : n < m => <<n, m>> \in R
  BY DEF OpToRel
<1> HIDE DEF R
<1>3. PICK m \in S : \A n \in S : <<n, m>> \notin R
  BY <1>1
<1>4. ASSUME NEW n \in S PROVE m <= n
  <2>1. m \in Nat /\ n \in Nat /\ <<n, m>> \notin R
    BY <1>3
  <2>2. ~(n < m)
    BY <1>2, <2>1
  <2> QED
    BY <2>1, <2>2
<1> QED
  BY <1>4

(* The loop that takes attempts off ends.                                  *)
LEMMA LoopEnds ==
  ASSUME LoginTypes
  PROVE  /\ Popped \in 0..Len(attempts)
         /\ \A i \in 1..Popped : Expired(attempts[i])
         /\ Popped < Len(attempts) => ~Expired(attempts[Popped + 1])
<1> DEFINE n == Len(attempts)
           Stop == {k \in 0..n : k = n \/ ~Expired(attempts[k + 1])}
<1>1. n \in Nat
  BY LoginNumbers
<1>2. n \in Stop /\ Stop \subseteq Nat
  BY <1>1
<1>3. PICK k \in Stop : \A l \in Stop : k <= l
  <2>1. Stop # {}
    BY <1>2
  <2> HIDE DEF Stop
  <2> QED
    BY <1>2, <2>1, Least
<1>4. k \in 0..n /\ (k < n => ~Expired(attempts[k + 1]))
  BY <1>1, <1>3
<1>5. ASSUME NEW i \in 1..k PROVE Expired(attempts[i])
  <2>1. i - 1 \in 0..n /\ i - 1 # n /\ i - 1 < k
    BY <1>1, <1>4
  <2>2. i - 1 \notin Stop
    <3>1. i - 1 \in Stop => k <= i - 1
      BY <1>3
    <3>2. i \in Nat /\ k \in Nat
      BY <1>1, <1>4
    <3> QED
      BY <2>1, <3>1, <3>2
  <2>3. Expired(attempts[(i - 1) + 1])
    BY <2>1, <2>2
  <2> QED
    BY <1>4, <2>3
<1>6. \E p \in 0..n : /\ \A i \in 1..p : Expired(attempts[i])
                      /\ p < n => ~Expired(attempts[p + 1])
  BY <1>4, <1>5
<1> QED
  BY <1>6 DEF Popped

LEMMA PrunedIs ==
  ASSUME LoginTypes
  PROVE  /\ Pruned \in Seq(0..MaxTime) /\ Len(Pruned) = Len(attempts) - Popped
         /\ \A i \in 1..Len(Pruned) : Pruned[i] = attempts[Popped + i]
<1>1. Popped \in 0..Len(attempts) /\ Len(attempts) \in Nat
  BY LoopEnds, LoginNumbers
<1> DEFINE m == Popped + 1
           n == Len(attempts)
<1>2. m \in Int /\ n \in Int /\ m <= n + 1 /\ Popped \in Nat /\ n - m + 1 = n - Popped
  BY <1>1
<1>3. \A i \in m..n : attempts[i] \in 0..MaxTime
  BY <1>1, LoginNumbers
<1>4. Pruned = SubSeq(attempts, m, n)
  BY DEF Pruned
<1> HIDE DEF m, n
<1>5. /\ Pruned \in Seq(0..MaxTime)
      /\ Len(Pruned) = IF m <= n THEN n - m + 1 ELSE 0
      /\ \A i \in 1..(n - m + 1) : Pruned[i] = attempts[m + i - 1]
  BY <1>2, <1>3, <1>4, SubSeqProperties
<1>6. Len(Pruned) = n - Popped /\ n - m + 1 = Len(Pruned)
  BY <1>2, <1>5
<1>7. ASSUME NEW i \in 1..Len(Pruned) PROVE Pruned[i] = attempts[Popped + i]
  <2>1. m + i - 1 = Popped + i
    BY <1>2, <1>6 DEF m, n
  <2> QED
    BY <1>5, <1>6, <2>1
<1> QED
  BY <1>5, <1>6, <1>7 DEF n

(* What the limiter keeps is what has been accepted within the window.     *)
LEMMA PrunedAccepted ==
  ASSUME LoginInv, NEW g, g = Len(accepted) - Len(Pruned)
  PROVE  /\ Pruned \in Seq(0..MaxTime) /\ Len(Pruned) \in Nat /\ g \in 0..Len(accepted)
         /\ \A i \in 1..Len(Pruned) : Pruned[i] = accepted[g + i]
         /\ \A i \in 1..g : Expired(accepted[i])
         /\ \A i \in (g + 1)..Len(accepted) : ~Expired(accepted[i])
<1>1. LoginTypes
  BY DEF LoginInv
<1>2. /\ now \in Nat /\ Len(attempts) \in Nat /\ Len(accepted) \in Nat
      /\ \A i \in 1..Len(accepted) : accepted[i] \in Nat
  BY <1>1, LoginNumbers
<1>3. /\ Popped \in 0..Len(attempts) /\ \A i \in 1..Popped : Expired(attempts[i])
      /\ Popped < Len(attempts) => ~Expired(attempts[Popped + 1])
  BY <1>1, LoopEnds
<1>4. /\ Pruned \in Seq(0..MaxTime) /\ Len(Pruned) = Len(attempts) - Popped
      /\ \A i \in 1..Len(Pruned) : Pruned[i] = attempts[Popped + i]
  BY <1>1, PrunedIs
<1>5. /\ Forgotten >= 0 /\ Forgotten = Len(accepted) - Len(attempts)
      /\ \A i \in 1..Len(attempts) : attempts[i] = accepted[Forgotten + i]
      /\ \A i \in 1..Forgotten : Expired(accepted[i])
  BY DEF LoginInv, Remembered, Forgotten
<1>6. g = Forgotten + Popped /\ g \in 0..Len(accepted) /\ Len(Pruned) \in Nat
  BY <1>2, <1>3, <1>4, <1>5
<1>7. ASSUME NEW i \in 1..Len(Pruned) PROVE Pruned[i] = accepted[g + i]
  <2>1. Popped + i \in 1..Len(attempts) /\ Forgotten + (Popped + i) = g + i
    BY <1>2, <1>3, <1>4, <1>5, <1>6
  <2> QED
    BY <1>4, <1>5, <2>1
<1>8. ASSUME NEW i \in 1..g PROVE Expired(accepted[i])
  <2>1. CASE i \in 1..Forgotten
    BY <1>5, <2>1
  <2>2. CASE i \notin 1..Forgotten
    <3>1. i - Forgotten \in 1..Popped /\ i - Forgotten \in 1..Len(attempts)
          /\ Forgotten + (i - Forgotten) = i
      BY <1>2, <1>3, <1>5, <1>6, <2>2
    <3> QED
      BY <1>3, <1>5, <3>1
  <2> QED
    BY <2>1, <2>2
<1>9. ASSUME NEW i \in (g + 1)..Len(accepted) PROVE ~Expired(accepted[i])
  <2>1. Popped < Len(attempts) /\ Popped + 1 \in 1..Len(attempts)
        /\ Forgotten + (Popped + 1) = g + 1 /\ g + 1 \in 1..i /\ i \in 1..Len(accepted)
    <3>1. i \in Int /\ g + 1 <= i /\ i <= Len(accepted) /\ g \in Nat /\ Popped \in Nat
      BY <1>2, <1>3, <1>6
    <3>2. Len(accepted) = Forgotten + Len(attempts) /\ Forgotten \in Int
      BY <1>2, <1>5
    <3>3. Popped < Len(attempts)
      BY <1>2, <1>6, <3>1, <3>2
    <3>4. Forgotten + (Popped + 1) = g + 1 /\ g + 1 \in 1..i /\ i \in 1..Len(accepted)
      BY <1>2, <1>6, <3>1, <3>2
    <3> QED
      BY <1>2, <3>1, <3>3, <3>4
  <2>2. ~Expired(accepted[g + 1])
    BY <1>3, <1>5, <2>1
  <2>3. accepted[g + 1] <= accepted[i]
    BY <2>1 DEF LoginInv, Ordered
  <2>4. accepted[g + 1] \in Nat /\ accepted[i] \in Nat /\ now - Window \in Int
    BY <1>2, <1>6, <2>1, LimitsAssumption
  <2> QED
    BY <2>2, <2>3, <2>4 DEF Expired
<1> QED
  BY <1>4, <1>6, <1>7, <1>8, <1>9

LEMMA LoginInit == Init => LoginInv
<1> SUFFICES ASSUME Init PROVE LoginInv
  OBVIOUS
<1>1. LoginTypes
  BY LimitsAssumption DEF Init, LoginTypes
<1>2. Len(attempts) = 0 /\ Len(accepted) = 0
  BY DEF Init
<1> QED
  BY <1>1, <1>2 DEF LoginInv, Remembered, Ordered, WindowApart, Forgotten

LEMMA AttemptStep ==
  ASSUME LoginInv, Attempt
  PROVE  LoginInv'
<1> DEFINE n == Len(accepted)
           g == Len(accepted) - Len(Pruned)
<1>1. /\ now \in Nat /\ n \in Nat /\ accepted \in Seq(0..MaxTime) /\ now \in 0..MaxTime
      /\ \A i \in 1..n : accepted[i] \in Nat
  BY LoginNumbers DEF LoginInv, LoginTypes
<1>2. /\ Pruned \in Seq(0..MaxTime) /\ Len(Pruned) \in Nat /\ g \in 0..n
      /\ \A i \in 1..Len(Pruned) : Pruned[i] = accepted[g + i]
      /\ \A i \in 1..g : Expired(accepted[i])
  BY PrunedAccepted
<1>3. UNCHANGED <<subject, now>>
  BY DEF Attempt, kept
<1>4. \A i \in 1..n : accepted[i] <= now /\ \A j \in 1..i : accepted[j] <= accepted[i]
  BY DEF LoginInv, Ordered
<1>5. \A i \in 1..n : i > Limit => accepted[i] - accepted[i - Limit] >= Window
  BY DEF LoginInv, WindowApart
<1>6. CASE ~Allowed
  <2>1. attempts' = Pruned /\ accepted' = accepted
    BY <1>6 DEF Attempt
  <2>2. LoginTypes'
    BY <1>2, <1>3, <2>1 DEF LoginInv, LoginTypes
  <2>3. Remembered'
    BY <1>2, <1>3, <2>1 DEF Remembered, Forgotten, Expired
  <2>4. Ordered' /\ WindowApart'
    BY <1>3, <2>1 DEF LoginInv, Ordered, WindowApart
  <2> QED
    BY <2>2, <2>3, <2>4 DEF LoginInv
<1>7. CASE Allowed
  <2>1. attempts' = Append(Pruned, now) /\ accepted' = Append(accepted, now)
    BY <1>7 DEF Attempt
  <2>2. /\ attempts' \in Seq(0..MaxTime) /\ Len(attempts') = Len(Pruned) + 1
        /\ \A i \in 1..Len(Pruned) : attempts'[i] = Pruned[i]
        /\ attempts'[Len(Pruned) + 1] = now
    BY <1>1, <1>2, <2>1, AppendProperties
  <2>3. /\ accepted' \in Seq(0..MaxTime) /\ Len(accepted') = n + 1
        /\ \A i \in 1..n : accepted'[i] = accepted[i]
        /\ accepted'[n + 1] = now
    BY <1>1, <2>1, AppendProperties
  <2>4. LoginTypes'
    BY <1>3, <2>2, <2>3 DEF LoginInv, LoginTypes
  <2>5. Forgotten' = g
    BY <1>1, <1>2, <2>2, <2>3 DEF Forgotten
  <2> HIDE DEF g
  <2>6. g + Len(Pruned) = n
    BY <1>1, <1>2 DEF g
  <2> HIDE DEF n
  <2>7. Remembered'
    <3>1. \A i \in 1..Len(attempts') : attempts'[i] = accepted'[g + i]
      <4> SUFFICES ASSUME NEW i \in 1..(Len(Pruned) + 1)
                   PROVE  attempts'[i] = accepted'[g + i]
        BY <2>2
      <4>1. CASE i = Len(Pruned) + 1
        <5>1. g + i = n + 1
          BY <1>1, <1>2, <2>6, <4>1
        <5> QED
          BY <2>2, <2>3, <4>1, <5>1
      <4>2. CASE i \in 1..Len(Pruned)
        <5>1. g + i \in 1..n
          BY <1>1, <1>2, <2>6, <4>2
        <5> QED
          BY <1>2, <2>2, <2>3, <4>2, <5>1
      <4> QED
        BY <1>2, <4>1, <4>2
    <3>2. \A i \in 1..g : accepted'[i] = accepted[i]
      BY <1>1, <1>2, <2>3
    <3> QED
      BY <1>2, <1>3, <2>5, <3>1, <3>2 DEF Remembered, Expired
  <2>8. Ordered'
    <3> SUFFICES ASSUME NEW i \in 1..(n + 1), NEW j \in 1..i
                 PROVE  accepted'[i] <= now /\ accepted'[j] <= accepted'[i]
      BY <1>3, <2>3 DEF Ordered
    <3>1. CASE i \in 1..n
      <4>1. j \in 1..n
        BY <1>1, <3>1
      <4> QED
        BY <1>4, <2>3, <3>1, <4>1
    <3>2. CASE i = n + 1
      <4>1. j \in 1..n \/ j = n + 1
        BY <1>1, <3>2
      <4> QED
        BY <1>1, <1>4, <2>3, <3>2, <4>1
    <3> QED
      BY <1>1, <3>1, <3>2
  <2>9. WindowApart'
    <3> SUFFICES ASSUME NEW i \in 1..(n + 1), i > Limit
                 PROVE  accepted'[i] - accepted'[i - Limit] >= Window
      BY <2>3 DEF WindowApart
    <3>1. CASE i \in 1..n
      <4>1. i - Limit \in 1..n
        BY <1>1, <3>1, LimitsAssumption
      <4> QED
        BY <1>5, <2>3, <3>1, <4>1
    <3>2. CASE i = n + 1
      <4>1. Len(Pruned) < Limit
        BY <1>7 DEF Allowed
      <4>2. i - Limit \in 1..g /\ i - Limit \in 1..n
        BY <1>1, <1>2, <2>6, <3>2, <4>1, LimitsAssumption
      <4>3. accepted[i - Limit] <= now - Window /\ accepted[i - Limit] \in Nat
        BY <1>1, <1>2, <4>2 DEF Expired
      <4>4. accepted'[i] = now /\ accepted'[i - Limit] = accepted[i - Limit]
        BY <2>3, <3>2, <4>2
      <4> QED
        BY <1>1, <4>3, <4>4, LimitsAssumption
    <3> QED
      BY <1>1, <3>1, <3>2
  <2> QED
    BY <2>4, <2>7, <2>8, <2>9 DEF LoginInv
<1> QED
  BY <1>6, <1>7

(* What has left the window stays outside it.                              *)
LEMMA PassTimeStep ==
  ASSUME LoginInv, PassTime
  PROVE  LoginInv'
<1>1. UNCHANGED <<subject, attempts, accepted>> /\ now' = now + 1 /\ now < MaxTime
  BY DEF PassTime, logins
<1>2. LoginTypes'
  BY <1>1, LimitsAssumption DEF LoginInv, LoginTypes
<1>3. /\ now \in Nat /\ \A i \in 1..Len(accepted) : accepted[i] \in Nat
      /\ Len(accepted) \in Nat /\ Len(attempts) \in Nat
  BY LoginNumbers DEF LoginInv
<1>4. Remembered'
  <2>1. Forgotten' = Forgotten
    BY <1>1 DEF Forgotten
  <2>2. ASSUME NEW i \in 1..Forgotten PROVE accepted[i] <= now' - Window
    <3>1. i \in 1..Len(accepted)
      BY <1>3 DEF Forgotten
    <3>2. accepted[i] <= now - Window
      BY DEF LoginInv, Remembered, Expired
    <3> QED
      BY <1>1, <1>3, <3>1, <3>2, LimitsAssumption
  <2>3. \A i \in 1..Len(attempts) : attempts[i] = accepted[Forgotten + i]
    BY DEF LoginInv, Remembered
  <2>4. Forgotten >= 0
    BY DEF LoginInv, Remembered
  <2> QED
    BY <1>1, <2>1, <2>2, <2>3, <2>4 DEF Remembered, Expired
<1>5. Ordered'
  <2>1. \A i \in 1..Len(accepted) : accepted[i] <= now + 1
    BY <1>3 DEF LoginInv, Ordered
  <2> QED
    BY <1>1, <2>1 DEF LoginInv, Ordered
<1> QED
  BY <1>1, <1>2, <1>4, <1>5 DEF LoginInv, WindowApart

LEMMA LoginStep == LoginInv /\ [Next]_vars => LoginInv'
<1> SUFFICES ASSUME LoginInv, [Next]_vars PROVE LoginInv'
  OBVIOUS
<1>1. CASE UNCHANGED <<kept, logins>>
  BY <1>1 DEF kept, logins, LoginInv, LoginTypes, Remembered, Ordered, WindowApart, Forgotten, Expired
<1>2. Attempt \/ PassTime \/ UNCHANGED <<kept, logins>>
  BY DEF Next, vars, Insert, CommitSave, SetPrimary, Remove, Report, WriteReport, CommitReport,
         Fail, Save, Load
<1> QED
  BY <1>1, <1>2, AttemptStep, PassTimeStep

LEMMA LoginInvariant == Spec => []LoginInv
BY LoginInit, LoginStep, PTL DEF Spec

(* In any window there are at most Limit accepted attempts: the last of    *)
(* more would be a whole window behind the first.                          *)
LEMMA WindowLimited ==
  ASSUME LoginInv, NEW t \in 0..now
  PROVE  Cardinality(Within(t - Window, t)) <= Limit
<1> DEFINE S == Within(t - Window, t)
<1>1. /\ now \in Nat /\ Len(accepted) \in Nat /\ t \in Nat
      /\ \A i \in 1..Len(accepted) : accepted[i] \in Nat
  BY LoginNumbers DEF LoginInv
<1>2. S \subseteq 1..Len(accepted) /\ S \subseteq Nat
  BY DEF Within
<1>3. CASE S = {}
  BY <1>3, FS_EmptySet, LimitsAssumption
<1>4. CASE S # {}
  <2>1. PICK a \in S : \A b \in S : a <= b
    BY <1>2, <1>4, Least
  <2>2. a \in 1..Len(accepted) /\ accepted[a] > t - Window
    BY DEF Within
  <2>3. ASSUME NEW b \in S PROVE b \in a..(a + Limit - 1)
    <3>1. b \in 1..Len(accepted) /\ accepted[b] <= t /\ a <= b
      BY <2>1 DEF Within
    <3>2. ASSUME b >= a + Limit PROVE FALSE
      <4>1. b - Limit \in 1..Len(accepted) /\ a \in 1..(b - Limit) /\ b > Limit
        BY <1>1, <2>2, <3>1, <3>2, LimitsAssumption
      <4>2. accepted[b] - accepted[b - Limit] >= Window
        BY <3>1, <4>1 DEF LoginInv, WindowApart
      <4>3. accepted[a] <= accepted[b - Limit]
        BY <4>1 DEF LoginInv, Ordered
      <4>4. accepted[a] \in Nat /\ accepted[b] \in Nat /\ accepted[b - Limit] \in Nat
        BY <1>1, <2>2, <3>1, <4>1
      <4> QED
        BY <1>1, <2>2, <3>1, <4>2, <4>3, <4>4, LimitsAssumption
    <3> QED
      BY <1>1, <2>2, <3>1, <3>2, LimitsAssumption
  <2>4. a \in Nat /\ a + Limit - 1 \in Int /\ a <= a + Limit - 1
    BY <1>2, LimitsAssumption
  <2>5. IsFiniteSet(a..(a + Limit - 1)) /\ Cardinality(a..(a + Limit - 1)) = Limit
    <3>1. Cardinality(a..(a + Limit - 1)) = (a + Limit - 1) - a + 1
      BY <2>4, FS_Interval
    <3> QED
      BY <2>4, <3>1, FS_Interval, LimitsAssumption
  <2>6. S \subseteq a..(a + Limit - 1)
    BY <2>3
  <2> HIDE DEF S
  <2>7. Cardinality(S) <= Cardinality(a..(a + Limit - 1))
    BY <2>5, <2>6, FS_Subset
  <2> QED
    BY <2>5, <2>7 DEF S
<1> QED
  BY <1>3, <1>4

(* The limiter counts exactly the attempts accepted within the window.     *)
LEMMA CountsWindow ==
  ASSUME LoginInv
  PROVE  Cardinality(Within(now - Window, now)) = Len(Pruned)
<1> DEFINE g == Len(accepted) - Len(Pruned)
           n == Len(accepted)
<1>1. /\ Len(Pruned) \in Nat /\ g \in 0..n
      /\ \A i \in 1..g : Expired(accepted[i])
      /\ \A i \in (g + 1)..n : ~Expired(accepted[i])
  BY PrunedAccepted
<1>2. /\ now \in Nat /\ n \in Nat
      /\ \A i \in 1..n : accepted[i] \in Nat /\ accepted[i] <= now
  BY LoginNumbers DEF LoginInv, Ordered
<1>3. Within(now - Window, now) = (g + 1)..n
  <2>1. ASSUME NEW i \in 1..n
        PROVE  i \in Within(now - Window, now) <=> i \in (g + 1)..n
    <3>1. i \in Within(now - Window, now) <=> ~Expired(accepted[i])
      BY <1>2, LimitsAssumption DEF Within, Expired
    <3>2. i \in 1..g \/ i \in (g + 1)..n
      BY <1>1, <1>2
    <3>3. i \in 1..g => i \notin (g + 1)..n
      BY <1>1, <1>2
    <3> QED
      BY <1>1, <3>1, <3>2, <3>3
  <2>2. Within(now - Window, now) \subseteq 1..n /\ (g + 1)..n \subseteq 1..n
    BY <1>1, <1>2 DEF Within
  <2> HIDE DEF g, n
  <2> QED
    BY <2>1, <2>2
<1>4. g + 1 \in Int /\ n \in Int
  BY <1>1, <1>2
<1>5. Cardinality((g + 1)..n) = IF g + 1 > n THEN 0 ELSE n - (g + 1) + 1
  BY <1>4, FS_Interval
<1> QED
  BY <1>1, <1>2, <1>3, <1>5

(* Every sign-in is within the limit of the window it falls into, and an   *)
(* attempt is refused only at the limit: refused ones do not count         *)
(* (LoginRateLimiter.allow).                                               *)
THEOREM SignInsLimited == Spec => []LoginsLimited
<1>1. LoginInv => LoginsLimited
  BY WindowLimited, CountsWindow DEF LoginsLimited, Allowed
<1> QED
  BY <1>1, LoginInvariant, PTL

(* Every reachable state is well typed.                                    *)
THEOREM TypeCorrect == Spec => []TypeOK
<1>1. IInv /\ LoginInv => TypeOK
  BY DEF IInv, Types, Request, LoginInv, LoginTypes, TypeOK
<1> QED
  BY <1>1, Invariant, LoginInvariant, PTL
=============================================================================
