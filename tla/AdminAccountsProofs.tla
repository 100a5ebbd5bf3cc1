------------------------ MODULE AdminAccountsProofs ------------------------
(***************************************************************************)
(* Proofs about AdminAccounts for any number of administrators, sessions   *)
(* and requests at a time.                                                 *)
(***************************************************************************)
EXTENDS AdminAccounts, FiniteSetTheorems, TLAPS

Session == [of : Admins \cup {NoAdmin}, login : Sessions \cup {NoSession}, state : States]
Request == {Idle} \cup SessionCall \cup AccountCall

(***************************************************************************)
(* Types.                                                                  *)
(***************************************************************************)

LEMMA TypeDef ==
  TypeOK <=> /\ role \in [Admins -> Roles \cup {"none"}]
             /\ active \in [Admins -> {"yes", "no"}]
             /\ session \in [Sessions -> Session]
             /\ call \in [Calls -> Request]
             /\ raced \in BOOLEAN /\ late \in [Sessions -> Nat]
BY DEF TypeOK, Session, States, Request

(* A request's step sets its own state only.                               *)
LEMMA CallStep ==
  ASSUME TypeOK, NEW c \in Calls, NEW v \in Request, call' = [call EXCEPT ![c] = v]
  PROVE  /\ call' \in [Calls -> Request] /\ call'[c] = v
         /\ \A d \in Calls \ {c} : call'[d] = call[d]
BY TypeDef

LEMMA IdleRequest == Idle \in Request /\ Idle.op = "idle"
BY DEF Request, Idle

LEMMA EndStep ==
  ASSUME TypeOK, NEW c \in Calls, call' = End(c)
  PROVE  /\ call' \in [Calls -> Request] /\ call'[c] = Idle
         /\ \A d \in Calls \ {c} : call'[d] = call[d]
BY IdleRequest, CallStep DEF End

(* A session whose state is set keeps the rest.                            *)
LEMMA StateStep ==
  ASSUME TypeOK, NEW s \in Sessions, NEW how \in States,
         session' = [session EXCEPT ![s].state = how]
  PROVE  /\ session' \in [Sessions -> Session]
         /\ \A x \in Sessions : /\ session'[x].of = session[x].of
                                /\ session'[x].login = session[x].login
                                /\ session'[x].state = IF x = s THEN how ELSE session[x].state
<1> DEFINE new == [session[s] EXCEPT !.state = how]
<1>1. session \in [Sessions -> Session] /\ session[s] \in Session
  BY TypeDef
<1>2. new \in Session /\ new.of = session[s].of /\ new.login = session[s].login /\ new.state = how
  BY <1>1 DEF Session
<1>3. session' = [session EXCEPT ![s] = new]
  OBVIOUS
<1> HIDE DEF new
<1> QED
  BY <1>1, <1>2, <1>3

(* What a rotation makes of the sessions.                                  *)
LEMMA RotatedStep ==
  ASSUME TypeOK, NEW s \in Sessions, NEW n \in Sessions, n # s
  PROVE  /\ Rotated(s, n) \in [Sessions -> Session]
         /\ Rotated(s, n)[n].of = session[s].of /\ Rotated(s, n)[n].login = session[s].login
         /\ Rotated(s, n)[n].state = "live"
         /\ \A x \in Sessions \ {n} :
              /\ Rotated(s, n)[x].of = session[x].of /\ Rotated(s, n)[x].login = session[x].login
              /\ Rotated(s, n)[x].state =
                   IF x = s /\ session[s].state = "live" THEN "rotated" ELSE session[x].state
<1> DEFINE new == [session[s] EXCEPT !.state = "live"]
           was == IF session[s].state = "live" THEN "rotated" ELSE session[s].state
           old == [session[s] EXCEPT !.state = was]
<1>1. session \in [Sessions -> Session] /\ session[s] \in Session
  BY TypeDef
<1>2. new \in Session /\ new.of = session[s].of /\ new.login = session[s].login /\ new.state = "live"
  BY <1>1 DEF Session, States
<1>3. old \in Session /\ old.of = session[s].of /\ old.login = session[s].login /\ old.state = was
  BY <1>1 DEF Session, States
<1>4. Rotated(s, n) = [[session EXCEPT ![n] = new] EXCEPT ![s] = old]
  BY <1>1 DEF Rotated
<1> HIDE DEF new, old
<1> QED
  BY <1>1, <1>2, <1>3, <1>4

LEMMA InitType == Init => TypeOK
<1> SUFFICES ASSUME Init PROVE TypeOK
  OBVIOUS
<1>1. role \in [Admins -> Roles \cup {"none"}] /\ active \in [Admins -> {"yes", "no"}]
  BY DEF Init, Roles
<1>2. session \in [Sessions -> Session]
  BY DEF Init, Free, Session, States
<1>3. call \in [Calls -> Request]
  BY IdleRequest DEF Init
<1>4. late \in [Sessions -> Nat]
  BY DEF Init
<1> QED
  BY <1>1, <1>2, <1>3, <1>4, TypeDef DEF Init

(* The requests that the actions leave behind.                             *)
LEMMA SessionRequest ==
  ASSUME NEW op \in {"login", "refresh", "logout"}, NEW a \in Admins, NEW s \in Sessions \cup {NoSession},
         NEW found \in States
  PROVE  [op |-> op, by |-> a, with |-> s, found |-> found] \in Request
BY DEF Request, SessionCall

LEMMA AccountRequest ==
  ASSUME NEW op \in {"count", "insert", "update"}, NEW b \in Admins \cup {NoAdmin}, NEW a \in Admins,
         NEW r \in Roles \cup {"keep"}, NEW y \in {"yes", "no", "keep"}
  PROVE  [op |-> op, by |-> b, target |-> a, role |-> r, active |-> y] \in Request
BY DEF Request, AccountCall

(* What the operation says about a request.                                *)
LEMMA Kinds ==
  ASSUME NEW r \in Request
  PROVE  /\ r.op \in {"login", "refresh", "logout"} => r \in SessionCall
         /\ r.op \in {"count", "insert", "update"} => r \in AccountCall
         /\ r.op = "idle" => r = Idle
BY DEF Request, SessionCall, AccountCall, Idle

LEMMA NamedType ==
  /\ \A r \in Roles \cup {"keep"} : \A l : Named(r, l) \in Roles \cup {"keep"}
  /\ \A y \in {"yes", "no", "keep"} : \A l : Named(y, l) \in {"yes", "no", "keep"}
BY DEF Named

(***************************************************************************)
(* The invariant.                                                          *)
(***************************************************************************)

(* The change v leaves a superadmin.                                       *)
Leaves(v) ==
  \E x \in Admins :
    IF x = v.target THEN /\ Stored(v.role, role[x]) = "superadmin"
                         /\ Stored(v.active, active[x]) = "yes"
                    ELSE x \in Superadmins

ChangeOk(v) ==
  /\ ~raced /\ v.op = "update" => Leaves(v)
  /\ v.op \in {"count", "update"} /\ v.by = v.target => v.role = "keep"
  /\ v.op = "insert" => v.by # v.target

(* The session v came with exists, and was live when v read it.            *)
ComesWith(v) ==
  v.op \in {"refresh", "logout"} =>
    v.with \in Sessions /\ v.found = "live" /\ session[v.with].state # "free"

Owned ==
  \A s \in Sessions : session[s].state # "free" => session[s].of \in Admins /\ session[s].login \in Sessions

(* A login is the first session of its chain.                              *)
Heads == \A s, f \in Sessions : session[s].login = f => session[f].state # "free"

AccountInv == (raced \/ Superadmins # {}) /\ \A c \in Calls : ChangeOk(call[c])
SessionInv == Owned /\ Heads /\ OneSessionPerLogin /\ \A c \in Calls : ComesWith(call[c])
IInv == TypeOK /\ AccountInv /\ SessionInv

LEMMA IdleFits == ChangeOk(Idle) /\ ComesWith(Idle)
BY IdleRequest DEF ChangeOk, ComesWith

LEMMA InitInv == Init => IInv
<1> SUFFICES ASSUME Init PROVE IInv
  OBVIOUS
<1>1. TypeOK
  BY InitType
<1>2. \A c \in Calls : call[c] = Idle
  BY DEF Init
<1>3. Superadmins # {}
  BY DEF Init, Superadmins
<1>4. \A s \in Sessions : session[s].state = "free" /\ session[s].login = NoSession
  BY DEF Init, Free
<1>5. Owned /\ Heads
  BY <1>4, AdminAssumption DEF Owned, Heads
<1>6. OneSessionPerLogin
  <2> SUFFICES ASSUME NEW f \in Sessions PROVE Cardinality(Unrotated(f)) <= 1 + late[f]
    BY DEF OneSessionPerLogin
  <2>1. Unrotated(f) = {}
    BY <1>4, AdminAssumption DEF Unrotated, Chain
  <2> QED
    BY <2>1, FS_EmptySet DEF Init
<1> QED
  BY <1>1, <1>2, <1>3, <1>5, <1>6, IdleFits DEF IInv, AccountInv, SessionInv

(* A request that only begins or ends.                                     *)
LEMMA RequestStep ==
  ASSUME IInv, NEW c \in Calls, NEW v \in Request, ChangeOk(v), ComesWith(v),
         call' = [call EXCEPT ![c] = v], UNCHANGED <<role, active, session, raced, late>>
  PROVE  IInv'
<1>1. /\ call' \in [Calls -> Request] /\ call'[c] = v
      /\ \A d \in Calls \ {c} : call'[d] = call[d]
  BY CallStep DEF IInv
<1>2. TypeOK'
  BY <1>1 DEF IInv, TypeOK, Request
<1>3. \A d \in Calls : ChangeOk(call'[d]) /\ ComesWith(call'[d])
  BY <1>1 DEF IInv, AccountInv, SessionInv
<1>4. AccountInv'
  <2>1. \A d \in Calls : ChangeOk(call[d])'
    BY <1>3 DEF ChangeOk, Leaves, Superadmins
  <2>2. (raced \/ Superadmins # {})'
    BY DEF IInv, AccountInv, Superadmins
  <2> QED
    BY <2>1, <2>2 DEF AccountInv
<1>5. SessionInv'
  <2>1. \A d \in Calls : ComesWith(call[d])'
    BY <1>3 DEF ComesWith
  <2>2. Owned' /\ Heads' /\ OneSessionPerLogin'
    BY DEF IInv, SessionInv, Owned, Heads, OneSessionPerLogin, Unrotated, Chain
  <2> QED
    BY <2>1, <2>2 DEF SessionInv
<1> QED
  BY <1>2, <1>4, <1>5 DEF IInv

LEMMA AnsweredInv ==
  ASSUME IInv, NEW c \in Calls, Answered(c)
  PROVE  IInv'
BY RequestStep, IdleRequest, IdleFits DEF Answered, End

(***************************************************************************)
(* The steps of the requests.                                              *)
(***************************************************************************)

LEMMA LoginInv ==
  ASSUME IInv, NEW c \in Calls, NEW a \in Admins, Login(c, a)
  PROVE  IInv'
<1> DEFINE v == [op |-> "login", by |-> a, with |-> NoSession, found |-> "free"]
<1>1. v \in Request
  BY SessionRequest DEF States
<1>2. ChangeOk(v) /\ ComesWith(v)
  BY DEF ChangeOk, ComesWith
<1> QED
  BY <1>1, <1>2, RequestStep DEF Login

(* A refresh or a logout comes with a live session.                        *)
LEMMA WithLive ==
  ASSUME IInv, NEW c \in Calls, NEW s \in Sessions, NEW op \in {"refresh", "logout"},
         session[s].state = "live",
         call' = [call EXCEPT ![c] = Coming(op, s)],
         UNCHANGED <<role, active, session, raced, late>>
  PROVE  IInv'
<1> DEFINE v == Coming(op, s)
<1>1. session[s].of \in Admins /\ session[s].state \in States
  BY DEF IInv, SessionInv, Owned, States
<1>2. v \in Request
  BY <1>1, SessionRequest DEF Coming
<1>3. ChangeOk(v) /\ ComesWith(v)
  BY DEF ChangeOk, ComesWith, Coming
<1> QED
  BY <1>2, <1>3, RequestStep

LEMMA RefreshInv ==
  ASSUME IInv, NEW c \in Calls, NEW s \in Sessions, Refresh(c, s)
  PROVE  IInv'
BY WithLive DEF Refresh, Usable

LEMMA LogoutInv ==
  ASSUME IInv, NEW c \in Calls, NEW s \in Sessions, Logout(c, s)
  PROVE  IInv'
BY WithLive DEF Logout, Admitted

(* An update that removes no superadmin, or whose columns say so.          *)
LEMMA UpdateInv ==
  ASSUME IInv, NEW c \in Calls, NEW s \in Sessions, NEW a \in Admins, Update(c, s, a)
  PROVE  IInv'
<1>1. PICK newRole \in Roles \cup {"keep"}, newActive \in {"yes", "no", "keep"} :
        /\ Superadmin(s) /\ role[a] # "none"
        /\ ~(session[s].of = a /\ newRole # "keep" /\ newRole # role[a])
        /\ call' = [call EXCEPT ![c] =
             [op |-> IF Removing(role[a], newRole, newActive) THEN "count" ELSE "update",
              by |-> session[s].of, target |-> a,
              role |-> Named(newRole, role[a]), active |-> Named(newActive, active[a])]]
        /\ UNCHANGED <<role, active, session, raced, late>>
  BY DEF Update
<1> DEFINE op == IF Removing(role[a], newRole, newActive) THEN "count" ELSE "update"
           r == Named(newRole, role[a])
           y == Named(newActive, active[a])
           v == [op |-> op, by |-> session[s].of, target |-> a, role |-> r, active |-> y]
<1>2. session[s].of \in Admins
  BY <1>1 DEF IInv, SessionInv, Owned, Superadmin, Admitted
<1>3. v \in Request
  <2>1. op \in {"count", "insert", "update"} /\ r \in Roles \cup {"keep"} /\ y \in {"yes", "no", "keep"}
    BY NamedType
  <2> HIDE DEF op, r, y
  <2> QED
    BY <1>2, <2>1, AccountRequest
<1>4. ComesWith(v)
  BY DEF ComesWith
<1>5. v.by = v.target => v.role = "keep"
  BY <1>1 DEF Named
<1>6. ASSUME ~raced, v.op = "update" PROVE Leaves(v)
  <2>1. PICK x \in Admins : role[x] = "superadmin" /\ active[x] = "yes"
    BY <1>6 DEF IInv, AccountInv, Superadmins
  <2>2. CASE x # a
    BY <2>1, <2>2 DEF Leaves, Superadmins
  <2>3. CASE x = a
    <3>1. newRole # "admin" /\ newActive # "no"
      BY <1>6, <2>1, <2>3 DEF Removing
    <3>2. r = "keep" /\ y = "keep"
      BY <2>1, <2>3, <3>1 DEF Named, Roles
    <3> QED
      BY <2>1, <2>3, <3>2 DEF Leaves, Stored
  <2> QED
    BY <2>2, <2>3
<1>7. ChangeOk(v)
  BY <1>5, <1>6 DEF ChangeOk
<1> HIDE DEF op, r, y
<1>8. call' = [call EXCEPT ![c] = v]
  BY <1>1 DEF op, r, y
<1> HIDE DEF v
<1> QED
  BY <1>1, <1>3, <1>4, <1>7, <1>8, RequestStep

(* More than one superadmin: one besides whoever is being removed.         *)
LEMMA OneMore ==
  ASSUME NEW a, Superadmins \subseteq Admins, Cardinality(Superadmins) > 1
  PROVE  \E x \in Superadmins : x # a
<1>1. IsFiniteSet(Superadmins)
  BY AdminAssumption, FS_Subset
<1>2. CASE Superadmins \subseteq {a}
  <2>1. Cardinality(Superadmins) <= Cardinality({a}) /\ Cardinality({a}) = 1
    BY <1>2, FS_Subset, FS_Singleton
  <2>2. Cardinality(Superadmins) \in Nat
    BY <1>1, FS_CardinalityType
  <2> QED
    BY <2>1, <2>2
<1> QED
  BY <1>2

LEMMA CountInv ==
  ASSUME IInv, NEW c \in Calls, Count(c)
  PROVE  IInv'
<1>1. /\ call[c] \in AccountCall /\ call[c].op = "count" /\ Cardinality(Superadmins) > 1
      /\ call' = [call EXCEPT ![c] = [call[c] EXCEPT !.op = "update"]]
      /\ UNCHANGED <<role, active, session, raced, late>>
  BY Kinds, TypeDef DEF IInv, Count
<1> DEFINE v == [call[c] EXCEPT !.op = "update"]
<1>2. /\ v \in AccountCall /\ v.op = "update" /\ v.by = call[c].by /\ v.target = call[c].target
      /\ v.role = call[c].role
  BY <1>1 DEF AccountCall
<1> HIDE DEF v
<1>3. PICK x \in Superadmins : x # v.target
  <2>1. Superadmins \subseteq Admins
    BY DEF Superadmins
  <2> QED
    BY <1>1, <2>1, OneMore
<1>4. Leaves(v)
  BY <1>3 DEF Leaves, Superadmins
<1>5. ChangeOk(v)
  BY <1>1, <1>2, <1>4 DEF IInv, AccountInv, ChangeOk
<1>6. v \in Request /\ ComesWith(v)
  BY <1>2 DEF Request, ComesWith
<1> QED
  BY <1>1, <1>5, <1>6, RequestStep DEF v

LEMMA CreateInv ==
  ASSUME IInv, NEW c \in Calls, NEW s \in Sessions, NEW a \in Admins, Create(c, s, a)
  PROVE  IInv'
<1>1. PICK newRole \in Roles :
        /\ Superadmin(s) /\ role[a] = "none"
        /\ call' = [call EXCEPT ![c] = Insertion(session[s].of, a, newRole)]
        /\ UNCHANGED <<role, active, session, raced, late>>
  BY DEF Create
<1> DEFINE v == Insertion(session[s].of, a, newRole)
<1>2. session[s].of \in Admins /\ session[s].of # a
  BY <1>1 DEF IInv, SessionInv, Owned, Superadmin, Admitted
<1>3. v \in Request
  BY <1>2, AccountRequest DEF Insertion
<1>4. ChangeOk(v) /\ ComesWith(v)
  BY <1>2 DEF ChangeOk, ComesWith, Insertion
<1> QED
  BY <1>1, <1>3, <1>4, RequestStep

LEMMA CommandLineInv ==
  ASSUME IInv, NEW c \in Calls, NEW a \in Admins, CommandLine(c, a)
  PROVE  IInv'
<1>1. UNCHANGED <<role, active, session, raced, late>>
  BY DEF CommandLine
<1>2. CASE role[a] = "none"
  <2> DEFINE v == Insertion(NoAdmin, a, "superadmin")
  <2>1. v \in Request
    BY AccountRequest DEF Insertion, Roles
  <2>2. ChangeOk(v) /\ ComesWith(v)
    BY AdminAssumption DEF ChangeOk, ComesWith, Insertion
  <2>3. call' = [call EXCEPT ![c] = v]
    BY <1>2 DEF CommandLine
  <2> QED
    BY <1>1, <2>1, <2>2, <2>3, RequestStep
<1>3. CASE role[a] # "none"
  <2> DEFINE r == Named("superadmin", role[a])
             y == Named("yes", active[a])
             v == [op |-> "update", by |-> NoAdmin, target |-> a, role |-> r, active |-> y]
  <2>1. v \in Request
    <3>1. r \in Roles \cup {"keep"} /\ y \in {"yes", "no", "keep"}
      BY NamedType DEF Roles
    <3> HIDE DEF r, y
    <3> QED
      BY <3>1, AccountRequest
  <2>2. Leaves(v)
    <3>1. Stored(r, role[a]) = "superadmin" /\ Stored(y, active[a]) = "yes"
      BY DEF Named, Stored
    <3> QED
      BY <3>1 DEF Leaves
  <2>3. ChangeOk(v) /\ ComesWith(v)
    BY <2>2, AdminAssumption DEF ChangeOk, ComesWith
  <2>4. call' = [call EXCEPT ![c] = v]
    BY <1>3 DEF CommandLine
  <2> QED
    BY <1>1, <2>1, <2>3, <2>4, RequestStep
<1> QED
  BY <1>2, <1>3

(***************************************************************************)
(* The steps that change accounts and sessions.                            *)
(***************************************************************************)

LEMMA WriteTypes ==
  ASSUME IInv, NEW c \in Calls, Write(c)
  PROVE  TypeOK' /\ call[c] \in AccountCall /\ call'[c] = Idle
<1>1. call[c] \in AccountCall /\ call' = End(c)
  BY Kinds, TypeDef DEF IInv, Write
<1>2. call' \in [Calls -> Request] /\ call'[c] = Idle
  BY <1>1, EndStep DEF IInv
<1>3. /\ Stored(call[c].role, role[call[c].target]) \in Roles \cup {"none"}
      /\ Stored(call[c].active, active[call[c].target]) \in {"yes", "no"}
  BY <1>1, TypeDef DEF IInv, AccountCall, Stored
<1>4. role' \in [Admins -> Roles \cup {"none"}] /\ active' \in [Admins -> {"yes", "no"}]
  BY <1>1, <1>3, TypeDef DEF IInv, Write, AccountCall
<1>5. raced' \in BOOLEAN /\ session' \in [Sessions -> Session] /\ late' \in [Sessions -> Nat]
  BY TypeDef DEF IInv, Write
<1> QED
  BY <1>1, <1>2, <1>4, <1>5 DEF TypeOK, Request, Session, States

(* An update finds the accounts as its request has read them, or has raced.*)
LEMMA WriteInv ==
  ASSUME IInv, NEW c \in Calls, Write(c)
  PROVE  IInv'
<1>1. TypeOK' /\ call[c] \in AccountCall /\ call'[c] = Idle
  BY WriteTypes
<1>2. /\ UNCHANGED <<session, late>>
      /\ \A d \in Calls \ {c} : call'[d] = call[d]
      /\ raced' = (raced \/ \E d \in Calls \ {c} : Changing(d))
  BY EndStep DEF IInv, Write
<1>3. SessionInv'
  <2>1. \A d \in Calls : ComesWith(call'[d])
    BY <1>1, <1>2, IdleFits DEF IInv, SessionInv
  <2>2. \A d \in Calls : ComesWith(call[d])'
    BY <1>2, <2>1 DEF ComesWith
  <2>3. Owned' /\ Heads' /\ OneSessionPerLogin'
    BY <1>2 DEF IInv, SessionInv, Owned, Heads, OneSessionPerLogin, Unrotated, Chain
  <2> QED
    BY <2>2, <2>3 DEF SessionInv
<1>4. ASSUME ~raced' PROVE Superadmins' # {}
  <2>1. /\ ~raced /\ call[c].target \in Admins
        /\ role' = [role EXCEPT ![call[c].target] = Stored(call[c].role, @)]
        /\ active' = [active EXCEPT ![call[c].target] = Stored(call[c].active, @)]
    BY <1>1, <1>2, <1>4 DEF Write, AccountCall
  <2>2. /\ role \in [Admins -> Roles \cup {"none"}] /\ active \in [Admins -> {"yes", "no"}]
    BY TypeDef DEF IInv
  <2>3. CASE call[c].op = "update"
    <3>1. Leaves(call[c])
      BY <2>1, <2>3 DEF IInv, AccountInv, ChangeOk
    <3> QED
      BY <2>1, <2>2, <3>1 DEF Leaves, Superadmins
  <2>4. CASE call[c].op # "update"
    <3>1. role[call[c].target] = "none"
      BY <2>4 DEF Write
    <3>2. PICK x \in Superadmins : TRUE
      BY <2>1 DEF IInv, AccountInv
    <3>3. x \in Admins /\ x # call[c].target /\ role[x] = "superadmin" /\ active[x] = "yes"
      BY <3>1, <3>2 DEF Superadmins
    <3> QED
      BY <2>1, <2>2, <3>3 DEF Superadmins
  <2> QED
    BY <2>3, <2>4
<1>5. ASSUME NEW d \in Calls PROVE ChangeOk(call[d])'
  <2>1. CASE d = c
    BY <1>1, <2>1, IdleRequest DEF ChangeOk
  <2>2. CASE d # c
    <3>1. call'[d] = call[d] /\ ChangeOk(call[d])
      BY <1>2, <2>2 DEF IInv, AccountInv
    <3>2. call[d].op = "update" => raced'
      BY <1>2, <2>2 DEF Changing
    <3> QED
      BY <3>1, <3>2 DEF ChangeOk
  <2> QED
    BY <2>1, <2>2
<1> QED
  BY <1>1, <1>3, <1>4, <1>5 DEF IInv, AccountInv

(* What the session steps leave alone.                                     *)
LEMMA AccountsStay ==
  ASSUME IInv, UNCHANGED <<role, active, raced>>,
         \A d \in Calls : call'[d] = call[d] \/ call'[d] = Idle
  PROVE  AccountInv'
<1>1. \A d \in Calls : ChangeOk(call'[d])
  BY IdleFits DEF IInv, AccountInv
<1>2. \A d \in Calls : ChangeOk(call[d])'
  BY <1>1 DEF ChangeOk, Leaves, Superadmins
<1> QED
  BY <1>2 DEF IInv, AccountInv, Superadmins

(* Sets that lose s and gain n.                                            *)
LEMMA CardinalityOf ==
  ASSUME NEW A, NEW B, IsFiniteSet(A), NEW n, B \subseteq A \cup {n}
  PROVE  /\ Cardinality(A) \in Nat /\ Cardinality(B) \in Nat
         /\ Cardinality(B) <= Cardinality(A) + 1
         /\ (n \in A \/ \E s \in A : s \notin B) => Cardinality(B) <= Cardinality(A)
<1>1. IsFiniteSet(A \cup {n}) /\ Cardinality(A \cup {n}) = (IF n \in A THEN Cardinality(A) ELSE Cardinality(A) + 1)
  BY FS_AddElement
<1>2. IsFiniteSet(B) /\ Cardinality(B) <= Cardinality(A \cup {n})
  BY <1>1, FS_Subset
<1>3. Cardinality(A) \in Nat /\ Cardinality(B) \in Nat
  BY <1>2, FS_CardinalityType
<1>4. ASSUME n \notin A, NEW s \in A, s \notin B PROVE Cardinality(B) <= Cardinality(A)
  <2>1. IsFiniteSet(B \cup {s}) /\ Cardinality(B \cup {s}) = Cardinality(B) + 1
    BY <1>2, <1>4, FS_AddElement
  <2>2. B \cup {s} \subseteq A \cup {n}
    BY <1>4
  <2>3. Cardinality(B \cup {s}) <= Cardinality(A) + 1
    BY <1>1, <1>4, <2>2, FS_Subset
  <2> QED
    BY <1>3, <2>1, <2>3
<1> QED
  BY <1>1, <1>2, <1>3, <1>4

(* The chain f gains the session n at most, and one request counts for it. *)
LEMMA ChainGrows ==
  ASSUME IInv, NEW f \in Sessions, NEW n, Unrotated(f)' \subseteq Unrotated(f) \cup {n},
         late' \in [Sessions -> Nat], late'[f] >= late[f],
         \/ n \in Unrotated(f) \/ \E s \in Unrotated(f) : s \notin Unrotated(f)'
         \/ late'[f] = late[f] + 1
  PROVE  Cardinality(Unrotated(f)') <= 1 + late'[f]
<1> DEFINE A == Unrotated(f)
           B == Unrotated(f)'
<1>1. IsFiniteSet(A)
  BY AdminAssumption, FS_Subset DEF Unrotated, Chain
<1>2. late[f] \in Nat /\ late'[f] \in Nat /\ Cardinality(A) <= 1 + late[f]
  BY DEF IInv, TypeOK, SessionInv, OneSessionPerLogin
<1>3. B \subseteq A \cup {n}
  OBVIOUS
<1>4. n \in A \/ (\E s \in A : s \notin B) \/ late'[f] = late[f] + 1
  OBVIOUS
<1> HIDE DEF A, B
<1>5. /\ Cardinality(A) \in Nat /\ Cardinality(B) \in Nat
      /\ Cardinality(B) <= Cardinality(A) + 1
      /\ (n \in A \/ \E s \in A : s \notin B) => Cardinality(B) <= Cardinality(A)
  BY <1>1, <1>3, CardinalityOf
<1>6. Cardinality(B) <= 1 + late'[f]
  BY <1>2, <1>4, <1>5
<1> QED
  BY <1>6 DEF B

(* A chain that keeps its sessions or loses some.                          *)
LEMMA ChainKeeps ==
  ASSUME IInv, NEW f \in Sessions, Unrotated(f)' \subseteq Unrotated(f), late'[f] = late[f]
  PROVE  Cardinality(Unrotated(f)') <= 1 + late'[f]
<1>1. IsFiniteSet(Unrotated(f))
  BY AdminAssumption, FS_Subset DEF Unrotated, Chain
<1>2. IsFiniteSet(Unrotated(f)') /\ Cardinality(Unrotated(f)') <= Cardinality(Unrotated(f))
  BY <1>1, FS_Subset
<1>3. Cardinality(Unrotated(f)) \in Nat /\ Cardinality(Unrotated(f)') \in Nat
  BY <1>1, <1>2, FS_CardinalityType
<1>4. late[f] \in Nat /\ Cardinality(Unrotated(f)) <= 1 + late[f]
  BY DEF IInv, TypeOK, SessionInv, OneSessionPerLogin
<1> QED
  BY <1>2, <1>3, <1>4

(* What is counted when a session was overtaken.                           *)
LEMMA CountedStep ==
  ASSUME IInv, NEW c \in Calls, NEW ways \in SUBSET States, call[c].op \in {"refresh", "logout"},
         Counted(c, ways)
  PROVE  /\ late' \in [Sessions -> Nat]
         /\ \A f \in Sessions :
              late'[f] = IF session[call[c].with].state \in ways /\ f = session[call[c].with].login
                         THEN late[f] + 1 ELSE late[f]
<1>1. call[c].with \in Sessions /\ call[c].found = "live" /\ session[call[c].with].login \in Sessions
  BY DEF IInv, SessionInv, ComesWith, Owned
<1>2. late \in [Sessions -> Nat]
  BY DEF IInv, TypeOK
<1> QED
  BY <1>1, <1>2 DEF Counted, Overtaken

(* Requests whose sessions still exist.                                    *)
LEMMA RequestsFit ==
  ASSUME IInv, \A d \in Calls : call'[d] = call[d] \/ call'[d] = Idle,
         \A x \in Sessions : session[x].state # "free" => session'[x].state # "free"
  PROVE  \A d \in Calls : ComesWith(call[d])'
<1> SUFFICES ASSUME NEW d \in Calls PROVE ComesWith(call[d])'
  OBVIOUS
<1>1. CASE call'[d] = Idle
  BY <1>1, IdleRequest DEF ComesWith
<1>2. CASE call'[d] = call[d]
  BY <1>2 DEF IInv, SessionInv, ComesWith
<1> QED
  BY <1>1, <1>2

LEMMA CommitLogoutInv ==
  ASSUME IInv, NEW c \in Calls, CommitLogout(c)
  PROVE  IInv'
<1> DEFINE s == call[c].with
<1>1. s \in Sessions /\ session[s].state # "free"
  BY DEF CommitLogout, IInv, SessionInv, ComesWith
<1>2. /\ call' \in [Calls -> Request] /\ call'[c] = Idle
      /\ \A d \in Calls \ {c} : call'[d] = call[d]
  BY EndStep DEF IInv, CommitLogout
<1>3. /\ late' \in [Sessions -> Nat]
      /\ \A f \in Sessions : late'[f] = IF session[s].state = "rotated" /\ f = session[s].login
                                        THEN late[f] + 1 ELSE late[f]
  BY CountedStep DEF CommitLogout, States
<1> HIDE DEF s
<1>4. session' = [session EXCEPT ![s].state = "out"] /\ UNCHANGED <<role, active, raced>>
  BY DEF CommitLogout, s
<1>5. /\ session' \in [Sessions -> Session]
      /\ \A x \in Sessions : /\ session'[x].of = session[x].of
                             /\ session'[x].login = session[x].login
                             /\ session'[x].state = IF x = s THEN "out" ELSE session[x].state
  BY <1>1, <1>4, StateStep DEF IInv, States
<1>6. TypeOK'
  BY <1>2, <1>3, <1>4, <1>5 DEF IInv, TypeOK, Request, Session
<1>7. AccountInv'
  BY <1>2, <1>4, AccountsStay
<1>8. Owned' /\ Heads'
  BY <1>1, <1>5 DEF IInv, SessionInv, Owned, Heads
<1>9. ASSUME NEW f \in Sessions PROVE Cardinality(Unrotated(f)') <= 1 + late'[f]
  <2>1. late[f] \in Nat
    BY DEF IInv, TypeOK
  <2>2. CASE f = session[s].login /\ session[s].state = "rotated"
    <3>1. Unrotated(f)' \subseteq Unrotated(f) \cup {s} /\ late'[f] = late[f] + 1
      BY <1>3, <1>5, <2>2 DEF Unrotated, Chain
    <3> QED
      BY <1>3, <2>1, <3>1, ChainGrows
  <2>3. CASE ~(f = session[s].login /\ session[s].state = "rotated")
    <3>1. Unrotated(f)' \subseteq Unrotated(f) /\ late'[f] = late[f]
      BY <1>3, <1>5, <2>3 DEF Unrotated, Chain
    <3> QED
      BY <3>1, ChainKeeps
  <2> QED
    BY <2>2, <2>3
<1>10. OneSessionPerLogin'
  BY <1>9 DEF OneSessionPerLogin
<1>11. \A d \in Calls : ComesWith(call[d])'
  <2>1. \A d \in Calls : call'[d] = call[d] \/ call'[d] = Idle
    BY <1>2
  <2> QED
    BY <1>5, <2>1, RequestsFit
<1> QED
  BY <1>6, <1>7, <1>8, <1>10, <1>11 DEF IInv, SessionInv

LEMMA ExpireInv ==
  ASSUME IInv, NEW s \in Sessions, Expire(s)
  PROVE  IInv'
<1>1. /\ session' \in [Sessions -> Session]
      /\ \A x \in Sessions : /\ session'[x].of = session[x].of
                             /\ session'[x].login = session[x].login
                             /\ session'[x].state = IF x = s THEN "expired" ELSE session[x].state
  BY StateStep DEF IInv, Expire, States
<1>2. session[s].state = "live" /\ UNCHANGED <<role, active, call, raced, late>>
  BY DEF Expire
<1>3. TypeOK'
  BY <1>1, <1>2 DEF IInv, TypeOK, Session, SessionCall, AccountCall
<1>4. AccountInv'
  BY <1>2, AccountsStay
<1>5. Owned' /\ Heads'
  BY <1>1, <1>2 DEF IInv, SessionInv, Owned, Heads
<1>6. ASSUME NEW f \in Sessions PROVE Cardinality(Unrotated(f)') <= 1 + late'[f]
  <2>1. Unrotated(f)' \subseteq Unrotated(f)
    BY <1>1, <1>2 DEF Unrotated, Chain
  <2> QED
    BY <1>2, <2>1, ChainKeeps
<1>7. OneSessionPerLogin'
  BY <1>6 DEF OneSessionPerLogin
<1>8. \A d \in Calls : ComesWith(call[d])'
  BY <1>1, <1>2, RequestsFit
<1> QED
  BY <1>3, <1>4, <1>5, <1>7, <1>8 DEF IInv, SessionInv

(* A login begins a chain of its own.                                      *)
LEMMA CommitLoginInv ==
  ASSUME IInv, NEW c \in Calls, NEW s \in Sessions, CommitLogin(c, s)
  PROVE  IInv'
<1> DEFINE new == [of |-> call[c].by, login |-> s, state |-> "live"]
<1>1. /\ call' \in [Calls -> Request] /\ call'[c] = Idle
      /\ \A d \in Calls \ {c} : call'[d] = call[d]
  BY EndStep DEF IInv, CommitLogin
<1>2. call[c].by \in Admins
  BY Kinds, TypeDef DEF IInv, CommitLogin, SessionCall
<1>3. new \in Session
  BY <1>2 DEF Session, States
<1>4. session[s].state = "free" /\ UNCHANGED <<role, active, raced, late>>
  BY DEF CommitLogin, Free
<1>5. /\ session' \in [Sessions -> Session] /\ session'[s] = new
      /\ \A x \in Sessions \ {s} : session'[x] = session[x]
  BY <1>3, TypeDef DEF IInv, CommitLogin
<1>6. new.of \in Admins /\ new.login = s /\ new.state = "live"
  BY <1>2
<1> HIDE DEF new
<1>7. TypeOK'
  BY <1>1, <1>4, <1>5 DEF IInv, TypeOK, Request, Session
<1>8. AccountInv'
  BY <1>1, <1>4, AccountsStay
<1>9. \A x \in Sessions : session[x].login # s
  BY <1>4 DEF IInv, SessionInv, Heads
<1>10. Owned' /\ Heads'
  BY <1>5, <1>6 DEF IInv, SessionInv, Owned, Heads
<1>11. ASSUME NEW f \in Sessions PROVE Cardinality(Unrotated(f)') <= 1 + late'[f]
  <2>1. CASE f = s
    <3>1. Unrotated(f)' = {s}
      BY <1>5, <1>6, <1>9, <2>1 DEF Unrotated, Chain
    <3>2. Cardinality({s}) = 1 /\ late'[f] \in Nat
      BY <1>4, FS_Singleton DEF IInv, TypeOK
    <3> QED
      BY <3>1, <3>2
  <2>2. CASE f # s
    <3>1. Unrotated(f)' \subseteq Unrotated(f)
      BY <1>5, <1>6, <2>2 DEF Unrotated, Chain
    <3> QED
      BY <1>4, <3>1, ChainKeeps
  <2> QED
    BY <2>1, <2>2
<1>12. OneSessionPerLogin'
  BY <1>11 DEF OneSessionPerLogin
<1>13. \A d \in Calls : ComesWith(call[d])'
  <2>1. \A d \in Calls : call'[d] = call[d] \/ call'[d] = Idle
    BY <1>1
  <2> QED
    BY <1>5, <1>6, <2>1, RequestsFit
<1> QED
  BY <1>7, <1>8, <1>10, <1>12, <1>13 DEF IInv, SessionInv

(* A rotation replaces its session, or was overtaken by its end.           *)
LEMMA CommitRefreshInv ==
  ASSUME IInv, NEW c \in Calls, NEW n \in Sessions, CommitRefresh(c, n)
  PROVE  IInv'
<1> DEFINE s == call[c].with
<1>1. s \in Sessions /\ session[s].state # "free" /\ session[s].login \in Sessions
      /\ session[s].of \in Admins
  BY DEF CommitRefresh, IInv, SessionInv, ComesWith, Owned
<1>2. session[n].state = "free" /\ session[n].login \notin Sessions
  BY AdminAssumption DEF CommitRefresh, Free
<1>3. /\ call' \in [Calls -> Request] /\ call'[c] = Idle
      /\ \A d \in Calls \ {c} : call'[d] = call[d]
  BY EndStep DEF IInv, CommitRefresh
<1>4. /\ late' \in [Sessions -> Nat]
      /\ \A f \in Sessions : late'[f] = IF session[s].state # "live" /\ f = session[s].login
                                        THEN late[f] + 1 ELSE late[f]
  <2>1. session[s].state \in {"live", "rotated", "out", "expired"}
    BY <1>1, TypeDef DEF IInv, Session, States
  <2> QED
    BY <2>1, CountedStep DEF CommitRefresh, States
<1> HIDE DEF s
<1>5. session' = Rotated(s, n) /\ UNCHANGED <<role, active, raced>>
  BY DEF CommitRefresh, s
<1>6. /\ session' \in [Sessions -> Session]
      /\ session'[n].of = session[s].of /\ session'[n].login = session[s].login
      /\ session'[n].state = "live"
      /\ \A x \in Sessions \ {n} :
           /\ session'[x].of = session[x].of /\ session'[x].login = session[x].login
           /\ session'[x].state =
                IF x = s /\ session[s].state = "live" THEN "rotated" ELSE session[x].state
  BY <1>1, <1>2, <1>5, RotatedStep DEF IInv
<1>7. TypeOK'
  BY <1>3, <1>4, <1>5, <1>6 DEF IInv, TypeOK, Request, Session
<1>8. AccountInv'
  BY <1>3, <1>5, AccountsStay
<1>9. Owned' /\ Heads'
  BY <1>1, <1>2, <1>6 DEF IInv, SessionInv, Owned, Heads
<1>10. ASSUME NEW f \in Sessions PROVE Cardinality(Unrotated(f)') <= 1 + late'[f]
  <2>1. late[f] \in Nat
    BY DEF IInv, TypeOK
  <2>2. CASE f = session[s].login
    <3>1. Unrotated(f)' \subseteq Unrotated(f) \cup {n}
      BY <1>2, <1>6, <2>2 DEF Unrotated, Chain
    <3>2. CASE session[s].state = "live"
      <4>1. s # n
        BY <1>1, <1>2
      <4>2. s \in Unrotated(f) /\ s \notin Unrotated(f)' /\ late'[f] = late[f]
        BY <1>1, <1>4, <1>6, <2>2, <3>2, <4>1 DEF Unrotated, Chain
      <4> QED
        BY <1>4, <2>1, <3>1, <4>2, ChainGrows
    <3>3. CASE session[s].state # "live"
      <4>1. late'[f] = late[f] + 1
        BY <1>4, <2>2, <3>3
      <4> QED
        BY <1>4, <2>1, <3>1, <4>1, ChainGrows
    <3> QED
      BY <3>2, <3>3
  <2>3. CASE f # session[s].login
    <3>1. Unrotated(f)' \subseteq Unrotated(f) /\ late'[f] = late[f]
      BY <1>1, <1>2, <1>4, <1>6, <2>3 DEF Unrotated, Chain
    <3> QED
      BY <3>1, ChainKeeps
  <2> QED
    BY <2>2, <2>3
<1>11. OneSessionPerLogin'
  BY <1>10 DEF OneSessionPerLogin
<1>12. \A d \in Calls : ComesWith(call[d])'
  <2>1. \A d \in Calls : call'[d] = call[d] \/ call'[d] = Idle
    BY <1>3
  <2>2. \A x \in Sessions : session[x].state # "free" => session'[x].state # "free"
    BY <1>2, <1>6
  <2> QED
    BY <2>1, <2>2, RequestsFit
<1> QED
  BY <1>7, <1>8, <1>9, <1>11, <1>12 DEF IInv, SessionInv

LEMMA StutterInv == ASSUME IInv, UNCHANGED vars PROVE IInv'
<1>1. TypeOK'
  BY DEF vars, IInv, TypeOK, SessionCall, AccountCall
<1>2. AccountInv'
  BY AccountsStay DEF vars
<1>3. SessionInv'
  BY DEF vars, IInv, SessionInv, Owned, Heads, OneSessionPerLogin, Unrotated, Chain, ComesWith
<1> QED
  BY <1>1, <1>2, <1>3 DEF IInv

LEMMA StepInv == IInv /\ [Next]_vars => IInv'
<1> SUFFICES ASSUME IInv, [Next]_vars PROVE IInv'
  OBVIOUS
<1>1. ASSUME NEW c \in Calls, CountRefuses(c) \/ Fail(c) PROVE IInv'
  BY <1>1, AnsweredInv DEF CountRefuses, Fail
<1>2. ASSUME NEW c \in Calls, Count(c) \/ Write(c) \/ CommitLogout(c) PROVE IInv'
  BY <1>2, CountInv, WriteInv, CommitLogoutInv
<1>3. ASSUME NEW c \in Calls, NEW a \in Admins, Login(c, a) \/ CommandLine(c, a) PROVE IInv'
  BY <1>3, LoginInv, CommandLineInv
<1>4. ASSUME NEW c \in Calls, NEW s \in Sessions,
             CommitLogin(c, s) \/ Refresh(c, s) \/ CommitRefresh(c, s) \/ Logout(c, s)
      PROVE  IInv'
  BY <1>4, CommitLoginInv, RefreshInv, CommitRefreshInv, LogoutInv
<1>5. ASSUME NEW c \in Calls, NEW s \in Sessions, NEW a \in Admins, Update(c, s, a) \/ Create(c, s, a)
      PROVE  IInv'
  BY <1>5, UpdateInv, CreateInv
<1>6. ASSUME NEW s \in Sessions, Expire(s) PROVE IInv'
  BY <1>6, ExpireInv
<1>7. CASE UNCHANGED vars
  BY <1>7, StutterInv
<1> QED
  BY <1>1, <1>2, <1>3, <1>4, <1>5, <1>6, <1>7 DEF Next

LEMMA Invariant == Spec => []IInv
BY InitInv, StepInv, PTL DEF Spec

(***************************************************************************)
(* The theorems.                                                           *)
(***************************************************************************)

(* Accounts, sessions and requests keep their types, whatever overlaps.    *)
THEOREM TypeCorrect == Spec => []TypeOK
<1>1. IInv => TypeOK
  BY DEF IInv
<1> QED
  BY <1>1, Invariant, PTL

(* A superadmin remains unless two changes of accounts overlap, for any    *)
(* number of administrators and requests (update_admin's count).           *)
THEOREM SomeoneAdministers == Spec => []SuperadminRemains
<1>1. IInv => SuperadminRemains
  BY DEF IInv, AccountInv, SuperadminRemains
<1> QED
  BY <1>1, Invariant, PTL

(* One unrotated session per login, the live one or the one that ended it, *)
(* and one more for each refresh or logout that its session's end overtook.*)
THEOREM LoginHasOneSession == Spec => []OneSessionPerLogin
<1>1. IInv => OneSessionPerLogin
  BY DEF IInv, SessionInv
<1> QED
  BY <1>1, Invariant, PTL

(* Nobody's own request changes their role.                                *)
THEOREM RoleIsOthers == Spec => OwnRoleKept
<1>1. IInv /\ [Next]_vars =>
        [\A c \in Calls :
           Changing(c) /\ call'[c] = Idle /\ role' # role => call[c].by # call[c].target]_vars
  <2> SUFFICES ASSUME IInv, Next, NEW c \in Calls, Changing(c), call'[c] = Idle, role' # role
               PROVE  call[c].by # call[c].target
    BY DEF vars
  <2>1. PICK d \in Calls : Write(d)
    <3>1. ASSUME NEW d, NEW s,
                 CommitLogin(d, s) \/ CommitRefresh(d, s) \/ CommitLogout(d) \/ Expire(s)
          PROVE  role' = role
      BY <3>1 DEF CommitLogin, CommitRefresh, CommitLogout, Expire
    <3>2. ASSUME NEW d, NEW s, NEW a,
                 \/ CountRefuses(d) \/ Count(d) \/ Fail(d) \/ Login(d, a) \/ CommandLine(d, a)
                 \/ Refresh(d, s) \/ Logout(d, s) \/ Update(d, s, a) \/ Create(d, s, a)
          PROVE  role' = role
      BY <3>2 DEF CountRefuses, Count, Fail, Answered, Login, CommandLine, Refresh, Logout, Update, Create
    <3> QED
      BY <3>1, <3>2 DEF Next
  <2>2. d = c
    BY <2>1, EndStep, IdleRequest DEF IInv, Write, Changing
  <2>3. ChangeOk(call[c]) /\ call[c] \in AccountCall
    BY <2>1, <2>2, WriteTypes DEF IInv, AccountInv
  <2>4. CASE call[c].op = "update"
    <3>1. SUFFICES ASSUME call[c].role = "keep" PROVE FALSE
      BY <2>3, <2>4 DEF ChangeOk
    <3>2. role \in [Admins -> Roles \cup {"none"}] /\ call[c].target \in Admins
      BY <2>3, TypeDef DEF IInv, AccountCall
    <3> QED
      BY <2>1, <2>2, <3>1, <3>2 DEF Write, Stored
  <2>5. CASE call[c].op = "insert"
    BY <2>3, <2>5 DEF ChangeOk
  <2> QED
    BY <2>1, <2>2, <2>4, <2>5 DEF Write
<1> QED
  BY <1>1, Invariant, PTL DEF Spec, OwnRoleKept
=============================================================================
