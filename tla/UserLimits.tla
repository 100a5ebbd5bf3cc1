----------------------------- MODULE UserLimits -----------------------------
(***************************************************************************)
(* What a user, or a visitor of the sign-in page, may have a limited       *)
(* number of: saved restaurants (app/restaurants/service.py), reports      *)
(* (app/reports/service.py) and attempts to sign in                        *)
(* (app/admin/rate_limit.py).                                              *)
(*                                                                         *)
(* Each is looked at first and changed later: restaurants without a lock,  *)
(* reports under the lock of the user's row, attempts without an await in  *)
(* between.  They share no state, so a behaviour is about one subject.     *)
(***************************************************************************)
EXTENDS Integers, FiniteSets, Sequences

CONSTANTS Restaurants, NoRestaurant,
          MaxSaved,       \* MAX_SAVED_RESTAURANTS
          Cooldown,       \* REPORT_COOLDOWN
          Limit, Window,  \* of the LoginRateLimiter
          Calls,          \* updates or requests being handled at the same time
          MaxTime         \* bound on time

ASSUME LimitsAssumption ==
  /\ NoRestaurant \notin Restaurants /\ IsFiniteSet(Restaurants) /\ IsFiniteSet(Calls)
  /\ MaxSaved \in Nat \ {0} /\ Limit \in Nat \ {0}
  /\ Cooldown \in Nat \ {0} /\ Window \in Nat \ {0} /\ MaxTime \in Nat

VARIABLES
  subject,   \* "restaurant", "report" or "login"
  now,
  saved,     \* the user's favorite_restaurants
  primary,   \* primary_restaurant_id of the user's subscription
  reports,   \* created_at of the user's reports, in the order they were committed
  attempts,  \* _attempts of one client
  accepted,  \* history: the times of all attempts that were let through
  call

kept == <<subject, now>>
restaurants == <<saved, primary>>
logins == <<attempts, accepted>>
vars == <<kept, restaurants, reports, logins, call>>

Idle == [op |-> "idle"]
\* row: the favourite is still the row that the call has loaded;
\* first: no restaurant was primary when it looked.
RestaurantCall == [op : {"save", "saved", "primary", "remove"}, of : Restaurants,
                   row : BOOLEAN, first : BOOLEAN]
ReportCall == [op : {"waiting", "report"}, at : 0..MaxTime]

TypeOK ==
  /\ subject \in {"restaurant", "report", "login"} /\ now \in 0..MaxTime
  /\ saved \subseteq Restaurants /\ primary \in Restaurants \cup {NoRestaurant}
  /\ reports \in Seq(0..MaxTime)
  /\ attempts \in Seq(0..MaxTime) /\ accepted \in Seq(0..MaxTime)
  /\ call \in [Calls -> {Idle} \cup RestaurantCall \cup ReportCall]

Init ==
  /\ subject \in {"restaurant", "report", "login"} /\ now = 0
  /\ saved = {} /\ primary = NoRestaurant
  /\ reports = <<>> /\ attempts = <<>> /\ accepted = <<>>
  /\ call = [c \in Calls |-> Idle]

Answered(c) == call' = [call EXCEPT ![c] = Idle]

-----------------------------------------------------------------------------
(* Restaurants.                                                            *)

\* Mutant: one too many.
MutRoom == Cardinality(saved) <= MaxSaved
Room == Cardinality(saved) < MaxSaved

\* save_favorite looks for the restaurant and counts.
Save(c, r) ==
  /\ subject = "restaurant" /\ call[c] = Idle
  /\ r \notin saved /\ Room
  /\ call' = [call EXCEPT ![c] = [op |-> "save", of |-> r, row |-> TRUE, first |-> FALSE]]
  /\ UNCHANGED <<kept, restaurants, reports, logins>>

\* It inserts the row, unless the unique key refuses it or another update has
\* inserted the same and not committed; then it looks whether one is primary.
Insert(c) ==
  /\ call[c].op = "save" /\ call[c].of \notin saved
  /\ \A d \in Calls : call[d].op = "saved" => call[d].of # call[c].of
  /\ call' = [call EXCEPT ![c].op = "saved", ![c].first = (primary = NoRestaurant)]
  /\ UNCHANGED <<kept, restaurants, reports, logins>>

CommitSave(c) ==
  /\ call[c].op = "saved"
  /\ saved' = saved \cup {call[c].of}
  /\ primary' = IF call[c].first THEN call[c].of ELSE primary
  /\ Answered(c)
  /\ UNCHANGED <<kept, reports, logins>>

\* set_primary and remove_favorite load the favourite and the subscription.
Load(c, r, op) ==
  /\ subject = "restaurant" /\ call[c] = Idle
  /\ r \in saved
  /\ call' = [call EXCEPT ![c] = [op |-> op, of |-> r, row |-> TRUE, first |-> (primary = r)]]
  /\ UNCHANGED <<kept, restaurants, reports, logins>>

\* Mutant: no foreign key.
MutRefersTo(c) == TRUE
\* The foreign key of primary_restaurant_id refuses a row that is gone.
RefersTo(c) == call[c].row

SetPrimary(c) ==
  /\ call[c].op = "primary" /\ RefersTo(c)
  /\ primary' = call[c].of
  /\ Answered(c)
  /\ UNCHANGED <<kept, saved, reports, logins>>

\* It takes back the choice if it was of this restaurant when loaded; ON DELETE
\* SET NULL if it is now.  Nothing is left to delete if another was faster.
Remove(c) ==
  /\ call[c].op = "remove"
  /\ saved' = IF call[c].row THEN saved \ {call[c].of} ELSE saved
  /\ primary' = IF call[c].first \/ (call[c].row /\ primary = call[c].of) THEN NoRestaurant ELSE primary
  /\ call' = [d \in Calls |->
       IF d = c THEN Idle
       ELSE IF call[c].row /\ call[d].op \in {"primary", "remove"} /\ call[d].of = call[c].of
         THEN [call[d] EXCEPT !.row = FALSE]
         ELSE call[d]]
  /\ UNCHANGED <<kept, reports, logins>>

-----------------------------------------------------------------------------
(* Reports.                                                                *)

\* A report is sent in; create_report asks for the lock.
Report(c) ==
  /\ subject = "report" /\ call[c] = Idle
  /\ call' = [call EXCEPT ![c] = [op |-> "waiting", at |-> now]]
  /\ UNCHANGED <<kept, restaurants, reports, logins>>

\* Mutant: the row is read without FOR UPDATE.
MutUnlocked(c) == TRUE
Unlocked(c) == \A d \in Calls \ {c} : call[d].op # "report"

CooledDown == reports # <<>> => now - reports[Len(reports)] >= Cooldown

\* It has the lock, reads the clock and the latest report, and inserts its own.
WriteReport(c) ==
  /\ call[c].op = "waiting" /\ Unlocked(c) /\ CooledDown
  /\ call' = [call EXCEPT ![c] = [op |-> "report", at |-> now]]
  /\ UNCHANGED <<kept, restaurants, reports, logins>>

\* The handler answers the user, draws the screen and commits.
CommitReport(c) ==
  /\ call[c].op = "report"
  /\ reports' = Append(reports, call[c].at)
  /\ Answered(c)
  /\ UNCHANGED <<kept, restaurants, logins>>

\* Refused (a unique key, a foreign key, the cooldown), or failed: rolled back.
Fail(c) ==
  /\ call[c] # Idle
  /\ Answered(c)
  /\ UNCHANGED <<kept, restaurants, reports, logins>>

-----------------------------------------------------------------------------
(* Attempts to sign in.                                                    *)

\* Mutant: an attempt leaves the window a moment too late.
MutExpired(t) == t < now - Window
Expired(t) == t <= now - Window

\* The oldest attempts are taken off as long as they have left the window.
Popped == CHOOSE k \in 0..Len(attempts) :
            /\ \A i \in 1..k : Expired(attempts[i])
            /\ k < Len(attempts) => ~Expired(attempts[k + 1])
Pruned == SubSeq(attempts, Popped + 1, Len(attempts))

Allowed == Len(Pruned) < Limit

\* allow: the attempts that have left the window go, whatever the answer.
Attempt ==
  /\ subject = "login"
  /\ attempts' = IF Allowed THEN Append(Pruned, now) ELSE Pruned
  /\ accepted' = IF Allowed THEN Append(accepted, now) ELSE accepted
  /\ UNCHANGED <<kept, restaurants, reports, call>>

PassTime ==
  /\ subject # "restaurant" /\ now < MaxTime
  /\ now' = now + 1
  /\ UNCHANGED <<subject, restaurants, reports, logins, call>>

Next ==
  \/ \E c \in Calls :
       \/ Insert(c) \/ CommitSave(c) \/ SetPrimary(c) \/ Remove(c)
       \/ Report(c) \/ WriteReport(c) \/ CommitReport(c) \/ Fail(c)
       \/ \E r \in Restaurants : Save(c, r) \/ \E op \in {"primary", "remove"} : Load(c, r, op)
  \/ Attempt \/ PassTime

Spec == Init /\ [][Next]_vars

-----------------------------------------------------------------------------
(* Properties.                                                             *)

\* Additions that overlap may each have counted one restaurant too few, and no
\* more than that: the list never has more than the limit and one for every
\* other update under way (save_favorite).
SavedWithinLimit == Calls # {} => Cardinality(saved) <= MaxSaved + Cardinality(Calls) - 1

\* The primary restaurant is a saved one, whatever is removed while it is being
\* chosen (set_primary, remove_favorite).
PrimaryIsSaved == primary \in saved \cup {NoRestaurant}

\* Two reports are a cooldown apart, also when they were sent in at once
\* (create_report's lock).
ReportsSpaced ==
  \A i \in 1..Len(reports) : \A j \in 1..(i - 1) : reports[i] - reports[j] >= Cooldown

\* An attempt is let through exactly when fewer than the limit have been within
\* the window; refused ones do not count (LoginRateLimiter.allow, for one key,
\* which the client's header names).
Within(from, to) == {i \in 1..Len(accepted) : accepted[i] > from /\ accepted[i] <= to}
LoginsLimited ==
  /\ \A t \in 0..now : Cardinality(Within(t - Window, t)) <= Limit
  /\ Allowed <=> Cardinality(Within(now - Window, now)) < Limit
=============================================================================
