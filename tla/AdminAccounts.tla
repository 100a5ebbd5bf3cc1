--------------------------- MODULE AdminAccounts ---------------------------
(***************************************************************************)
(* Accounts and sessions of the administration panel: app/admin/router.py, *)
(* app/admin/security.py and the command app/admin/cli.py.                 *)
(*                                                                         *)
(* A request reads the session it comes with and the rows it is about, and *)
(* commits later; nothing is locked in between, so several requests may    *)
(* have read the same rows.                                                *)
(***************************************************************************)
EXTENDS Naturals, FiniteSets

CONSTANTS Admins, NoAdmin,
          Sessions, NoSession,  \* bound: sessions that are ever created
          Calls                 \* requests being answered at the same time

ASSUME AdminAssumption ==
  /\ NoAdmin \notin Admins /\ NoSession \notin Sessions
  /\ IsFiniteSet(Admins) /\ IsFiniteSet(Sessions)

VARIABLES
  role,     \* of the table admins: a role, or "none" where there is no row
  active,   \* is_active
  session,  \* of the table admin_sessions, with the session it was rotated from
  call,     \* the requests
  raced,    \* history: two updates of accounts have overlapped
  late      \* history, per login: requests that committed after their session had ended

vars == <<role, active, session, call, raced, late>>

Roles == {"admin", "superadmin"}
Free == [of |-> NoAdmin, login |-> NoSession, state |-> "free"]
Idle == [op |-> "idle"]

States == {"free", "live", "rotated", "out", "expired"}

\* A login, a refresh or a logout; admin, session and its state as it has read them.
SessionCall == [op : {"login", "refresh", "logout"}, by : Admins, with : Sessions \cup {NoSession},
                found : States]
\* A change of an account: the columns its statement will name.
AccountCall == [op : {"count", "insert", "update"}, by : Admins \cup {NoAdmin}, target : Admins,
                role : Roles \cup {"keep"}, active : {"yes", "no", "keep"}]

TypeOK ==
  /\ role \in [Admins -> Roles \cup {"none"}]
  /\ active \in [Admins -> {"yes", "no"}]
  /\ session \in [Sessions -> [of : Admins \cup {NoAdmin}, login : Sessions \cup {NoSession},
                               state : States]]
  /\ call \in [Calls -> {Idle} \cup SessionCall \cup AccountCall]
  /\ raced \in BOOLEAN /\ late \in [Sessions -> Nat]

\* One superadmin, made by the command line.
Init ==
  /\ \E a \in Admins : role = [x \in Admins |-> IF x = a THEN "superadmin" ELSE "none"]
  /\ active = [x \in Admins |-> "yes"]
  /\ session = [s \in Sessions |-> Free]
  /\ call = [c \in Calls |-> Idle]
  /\ raced = FALSE /\ late = [s \in Sessions |-> 0]

Superadmins == {a \in Admins : role[a] = "superadmin" /\ active[a] = "yes"}

End(c) == [call EXCEPT ![c] = Idle]
Answered(c) == call' = End(c) /\ UNCHANGED <<role, active, session, raced, late>>

-----------------------------------------------------------------------------
(* Sessions.                                                               *)

\* login reads the account and compares the password, which takes a while.
Login(c, a) ==
  /\ call[c] = Idle
  /\ role[a] # "none" /\ active[a] = "yes"
  /\ call' = [call EXCEPT ![c] = [op |-> "login", by |-> a, with |-> NoSession, found |-> "free"]]
  /\ UNCHANGED <<role, active, session, raced, late>>

\* It creates the session, whatever has become of the account.
CommitLogin(c, s) ==
  /\ call[c].op = "login"
  /\ session[s] = Free
  /\ session' = [session EXCEPT ![s] = [of |-> call[c].by, login |-> s, state |-> "live"]]
  /\ call' = End(c)
  /\ UNCHANGED <<role, active, raced, late>>

\* resolve_principal, and csrf_protected for the token of the same session.
Admitted(s) ==
  /\ session[s].state = "live"
  /\ active[session[s].of] = "yes" /\ role[session[s].of] \in Roles

\* Mutant: a session that has been rotated can be rotated again.
MutUsable(s) == session[s].state \in {"live", "rotated"}
\* What rotate_session looks for.
Usable(s) == session[s].state = "live"

\* A request that comes with session s.
Coming(op, s) == [op |-> op, by |-> session[s].of, with |-> s, found |-> session[s].state]

Refresh(c, s) ==
  /\ call[c] = Idle
  /\ Usable(s) /\ active[session[s].of] = "yes"
  /\ call' = [call EXCEPT ![c] = Coming("refresh", s)]
  /\ UNCHANGED <<role, active, session, raced, late>>

\* The session that request c found live has ended meanwhile, in one of these ways.
Overtaken(c, ways) == call[c].found = "live" /\ session[call[c].with].state \in ways
Counted(c, ways) ==
  late' = IF Overtaken(c, ways) THEN [late EXCEPT ![session[call[c].with].login] = @ + 1] ELSE late

\* rotate_session: a new session of the same login, and the old one revoked,
\* whatever has become of it since it was read.
Rotated(s, n) ==
  [session EXCEPT ![n] = [session[s] EXCEPT !.state = "live"],
                  ![s].state = IF @ = "live" THEN "rotated" ELSE @]

CommitRefresh(c, n) ==
  /\ call[c].op = "refresh"
  /\ session[n] = Free
  /\ session' = Rotated(call[c].with, n)
  /\ Counted(c, {"rotated", "out", "expired"})
  /\ call' = End(c)
  /\ UNCHANGED <<role, active, raced>>

Logout(c, s) ==
  /\ call[c] = Idle
  /\ Admitted(s)
  /\ call' = [call EXCEPT ![c] = Coming("logout", s)]
  /\ UNCHANGED <<role, active, session, raced, late>>

\* The session it came with is revoked, also one that has been rotated: whoever
\* asked is answered as signed out while the session that replaced it lives.
CommitLogout(c) ==
  /\ call[c].op = "logout"
  /\ session' = [session EXCEPT ![call[c].with].state = "out"]
  /\ Counted(c, {"rotated"})
  /\ call' = End(c)
  /\ UNCHANGED <<role, active, raced>>

\* expires_at passes.
Expire(s) ==
  /\ session[s].state = "live"
  /\ session' = [session EXCEPT ![s].state = "expired"]
  /\ UNCHANGED <<role, active, call, raced, late>>

-----------------------------------------------------------------------------
(* Accounts.                                                               *)

\* superadmin_principal
Superadmin(s) == Admitted(s) /\ role[session[s].of] = "superadmin"

\* Mutant: only a change of role counts.
MutRemoving(wasRole, newRole, newActive) == wasRole = "superadmin" /\ newRole = "admin"
Removing(wasRole, newRole, newActive) == wasRole = "superadmin" /\ (newRole = "admin" \/ newActive = "no")

\* Mutant: every column that the request names.
MutNamed(asked, loaded) == asked
\* The columns of the statement: those that differ from the row as it was loaded.
Named(asked, loaded) == IF asked = loaded THEN "keep" ELSE asked

\* update_admin up to the test of whom it removes; no one changes their own role.
Update(c, s, a) ==
  \E newRole \in Roles \cup {"keep"}, newActive \in {"yes", "no", "keep"} :
    /\ call[c] = Idle
    /\ Superadmin(s) /\ role[a] # "none"
    /\ ~(session[s].of = a /\ newRole # "keep" /\ newRole # role[a])
    /\ call' = [call EXCEPT ![c] =
         [op |-> IF Removing(role[a], newRole, newActive) THEN "count" ELSE "update",
          by |-> session[s].of, target |-> a,
          role |-> Named(newRole, role[a]), active |-> Named(newActive, active[a])]]
    /\ UNCHANGED <<role, active, session, raced, late>>

\* Its count of the superadmins that are left.
Count(c) ==
  /\ call[c].op = "count" /\ Cardinality(Superadmins) > 1
  /\ call' = [call EXCEPT ![c].op = "update"]
  /\ UNCHANGED <<role, active, session, raced, late>>
CountRefuses(c) ==
  /\ call[c].op = "count" /\ Cardinality(Superadmins) <= 1
  /\ Answered(c)

Insertion(by, a, newRole) == [op |-> "insert", by |-> by, target |-> a, role |-> newRole, active |-> "yes"]

\* create_admin looks for the name before it inserts it.
Create(c, s, a) ==
  \E newRole \in Roles :
    /\ call[c] = Idle
    /\ Superadmin(s) /\ role[a] = "none"
    /\ call' = [call EXCEPT ![c] = Insertion(session[s].of, a, newRole)]
    /\ UNCHANGED <<role, active, session, raced, late>>

\* create-superadmin, with --update-existing for an account that exists.
CommandLine(c, a) ==
  /\ call[c] = Idle
  /\ call' = [call EXCEPT ![c] =
       IF role[a] = "none" THEN Insertion(NoAdmin, a, "superadmin")
       ELSE [op |-> "update", by |-> NoAdmin, target |-> a,
             role |-> Named("superadmin", role[a]), active |-> Named("yes", active[a])]]
  /\ UNCHANGED <<role, active, session, raced, late>>

\* A change of accounts that is not yet committed.
Changing(c) == call[c].op \in {"count", "insert", "update"}

Stored(asked, stored) == IF asked = "keep" THEN stored ELSE asked

\* The unique key refuses a name that has been taken meanwhile.
Write(c) ==
  /\ \/ call[c].op = "update"
     \/ call[c].op = "insert" /\ role[call[c].target] = "none"
  /\ role' = [role EXCEPT ![call[c].target] = Stored(call[c].role, @)]
  /\ active' = [active EXCEPT ![call[c].target] = Stored(call[c].active, @)]
  /\ raced' = (raced \/ \E d \in Calls \ {c} : Changing(d))
  /\ call' = End(c)
  /\ UNCHANGED <<session, late>>

\* The request is refused, or its transaction fails.
Fail(c) == call[c] # Idle /\ Answered(c)

Next ==
  \/ \E c \in Calls :
       \/ CountRefuses(c) \/ Count(c) \/ Write(c) \/ CommitLogout(c) \/ Fail(c)
       \/ \E a \in Admins : Login(c, a) \/ CommandLine(c, a)
       \/ \E s \in Sessions : CommitLogin(c, s) \/ Refresh(c, s) \/ CommitRefresh(c, s) \/ Logout(c, s)
       \/ \E s \in Sessions, a \in Admins : Update(c, s, a) \/ Create(c, s, a)
  \/ \E s \in Sessions : Expire(s)

Spec == Init /\ [][Next]_vars

-----------------------------------------------------------------------------
(* Properties.                                                             *)

\* As long as no two changes of accounts overlap, someone can administer the
\* accounts, whatever superadmins do to one another (update_admin's count).
SuperadminRemains == raced \/ Superadmins # {}

\* All sessions of a login have been rotated but one: the live one, or the one
\* that was logged out or whose time ended, after which none is live. Only a
\* refresh or a logout whose session has ended since it was read adds one more
\* each: two refreshes of one session leave two live ones, and a logout that a
\* refresh overtakes leaves the new session alive (rotate_session, logout).
Chain(f) == {s \in Sessions : session[s].login = f}
Unrotated(f) == {s \in Chain(f) : session[s].state # "rotated"}
OneSessionPerLogin == \A f \in Sessions : Cardinality(Unrotated(f)) <= 1 + late[f]

\* Nobody's own request changes their role, not even one that was under way when
\* somebody else changed it (the 403 in update_admin).
OwnRoleKept ==
  [][\A c \in Calls :
       Changing(c) /\ call'[c] = Idle /\ role' # role => call[c].by # call[c].target]_vars
=============================================================================
