----------------------------- MODULE Conversation -----------------------------
(***************************************************************************)
(* The bot's conversation with one user (app/bot).  The user sees one      *)
(* navigation message; its buttons carry a version, and a press is obeyed  *)
(* only if message and version are those of the user's row.  Every screen  *)
(* is a new message: the old one is deleted, the new one sent, then the    *)
(* row is committed.  What the dialogue waits for (state) and the places   *)
(* it has offered (data) are two keys of Redis, read and written outside   *)
(* the transaction, one operation at a time, while other updates go on.    *)
(*                                                                         *)
(* aiogram starts a task per update, so updates of one user overlap; each  *)
(* task has loaded its own copy of the row.  SQLAlchemy writes the columns *)
(* that differ from the copy, under PostgreSQL's READ COMMITTED.           *)
(* A search run (SearchSync) redraws the main menu at its end, from the    *)
(* row it loaded when it began.                                            *)
(***************************************************************************)
EXTENDS Integers, Sequences, FiniteSets, Functions, Screens

CONSTANTS
  Handlers,     \* tasks that handle updates of the user
  Areas,        \* places the geocoder knows
  Whole,        \* of these, the ones with usable bounds of their own
  Replies,      \* lists of places the geocoder answers with
  Nothing,      \* no place, no search
  NoUser,       \* no row
  Untried,      \* bound: requests the user never makes
  Overlapping,  \* bound: requests that overlap with another
  MaxMessages,  \* bound: navigation messages
  MaxAccounts,  \* bound: times the user's row is created
  MaxTroubles   \* bound: updates that arrive while another is handled,
                \* failures, and messages the user deletes, all together

ASSUME ConversationAssumption ==
  /\ Whole \subseteq Areas
  /\ Replies \subseteq Seq(Areas) \ {<<>>}
  /\ Nothing \notin Areas
  /\ MaxMessages \in Nat \ {0} /\ MaxAccounts \in Nat \ {0}
  /\ MaxTroubles \in Nat

Row == [id : 1..MaxAccounts, msg : 0..MaxMessages, ver : 0..MaxMessages,
        screen : ScreenNames \cup {"none"}]
ASSUME RowAssumption == NoUser \notin Row

VARIABLES
  row,       \* users row: account, active message, version and screen
  search,    \* area of the user's latest search
  talk,      \* Redis: dialogue state and dialogue data
  chat,      \* navigation messages the user sees, by message id
  task,      \* local state of each handler
  sync,      \* row held by a running search run
  sent, accounts, overlaps, faults,
  unsaved,   \* screens drawn by a handler that returned without a commit
  raced      \* two updates of PicksPlace were handled at the same time

counters == <<sent, accounts, overlaps, faults>>
history == <<unsaved, raced>>
vars == <<row, search, talk, chat, task, sync, counters, history>>

Data == [places : Seq(Areas), place : Areas \cup {Nothing}]  \* offered, chosen
Empty == [places |-> <<>>, place |-> Nothing]
Talk == [state : States, data : Data]
Silence == [state |-> "none", data |-> Empty]

\* Redis operations: a state is set_state; update_data is get_data ("get"), then
\* set_data ("set"); "empty" is set_data({}).
Op == States \cup {"get", "set", "empty"}
Message == [ver : 1..MaxMessages + 1, screen : ScreenNames, offer : Seq(Areas)]
Task == [pc     : {"idle", "loaded", "filters", "erase", "show", "commit"},
         name   : Requests \cup {"none"},
         msg    : 0..MaxMessages,             \* message of the button
         offer  : Seq(Areas),                 \* places it showed
         index  : Nat \ {0},                  \* which of them was pressed
         base   : Row \cup {NoUser},          \* the row as loaded
         user   : Row \cup {NoUser},          \* the row in the session
         screen : ScreenNames \cup {"none"},  \* to be drawn
         draws  : 0..2,                       \* how often it is drawn yet
         shows  : Seq(Areas),                 \* places it will show
         area   : Areas \cup {Nothing},       \* to be saved in the search
         picked : Areas \cup {Nothing},       \* place the press stands for
         saves  : BOOLEAN,                    \* ends with a commit
         ops    : Seq(Op),                    \* what it has to do in Redis next
         data   : Data]                       \* what its "get" has read

Idle == [pc |-> "idle", name |-> "none", msg |-> 0, offer |-> <<>>, index |-> 1,
         base |-> NoUser, user |-> NoUser, screen |-> "none", draws |-> 0,
         shows |-> <<>>, area |-> Nothing, picked |-> Nothing, saves |-> TRUE,
         ops |-> <<>>, data |-> Empty]

Room == overlaps + faults < MaxTroubles
Busy == {h \in Handlers : task[h].pc # "idle"}
At(h, step) == task[h].pc = step
Ends(h) == task' = [task EXCEPT ![h] = Idle]

-------------------------------------------------------------------------------
(* What a request leads to, decided from the dialogue and the search as     *)
(* they are when the handler reads them.  Whether the plan has the advanced *)
(* filters, or the manual check, is any answer each time (Entitlements).    *)

Answer(dialogue, screen) ==
  [ops |-> CASE dialogue = "keep"   -> <<>>
             [] dialogue = "clear"  -> <<"none", "empty">>
             [] dialogue = "update" -> <<"get", "set">>
             [] OTHER               -> <<dialogue>>,
   screen |-> screen, draws |-> IF screen = "none" THEN 0 ELSE 1,
   shows |-> <<>>, area |-> Nothing, picked |-> Nothing, saves |-> TRUE]
Silent == Answer("keep", "none")

\* A price or a surface: no search, a valid text or an error.
InputScreen(name) == IF name = "price_input" THEN "filter-price-input"
                     ELSE "filter-surface-input"
FilterAnswers(name) ==
  CASE name \notin {"price_input", "surface_input"} -> {}
    [] name \in {"price_input", "surface_input"} /\ search = Nothing ->
         {[Answer("keep", "filters") EXCEPT !.saves = FALSE]}
    [] OTHER -> {Answer("clear", "filters"), Answer("keep", InputScreen(name))}

SearchAnswers(name) ==
  CASE name = "check-now" ->
         {Silent, Answer("keep", "check-now-locked")}
    [] name \in {"monitor-toggle", "list", "pause"} /\ search = Nothing ->
         {[Silent EXCEPT !.saves = name # "pause"]}
    [] name \in {"monitor-toggle", "pause"} /\ search # Nothing ->
         {Answer("keep", "main")}
    [] name = "list" /\ search # Nothing ->
         {[Answer("keep", "list") EXCEPT !.draws = 2]}
    [] OTHER -> {}

\* A city or a position is looked up: failure, no place, or places.
ErrorScreen(name) == IF name = "city_input" THEN "city-input-error"
                     ELSE "geolocation-error"
EmptyScreen(name) == IF name = "city_input" THEN "city-input-empty"
                     ELSE "geolocation-empty"
PlacesFound(found) ==
  [Answer("update", "place-selection") EXCEPT !.shows = found]
PlaceInputAnswers(name) ==
  IF name \notin {"city_input", "geolocation"} THEN {}
  ELSE {Answer("keep", ErrorScreen(name)), Answer("keep", EmptyScreen(name))}
       \cup {PlacesFound(found) : found \in Replies}

\* A place is pressed: the index is looked up in the places stored last.
MutPlaceAt(index) == talk.data.places[Len(talk.data.places) + 1 - index]
PlaceAt(index) == talk.data.places[index]
PlaceAnswers(t) ==
  IF t.name # "place" THEN {}
  ELSE IF t.index > Len(talk.data.places) THEN {Silent}
  ELSE {[Answer("update", "radius") EXCEPT
           !.ops = Append(@, "radius_selection"),
           !.shows = <<PlaceAt(t.index)>>, !.picked = PlaceAt(t.index)]}

\* A radius or the whole city is pressed: the stored place is saved.
RadiusAnswers(name) ==
  CASE name \notin {"radius", "entire-city"} -> {}
    [] name \in {"radius", "entire-city"} /\ talk.data.place = Nothing ->
         {Answer("keep", "location")}
    [] name = "entire-city" /\ talk.data.place \notin Whole \cup {Nothing} ->
         {Answer("clear", "location")}
    [] OTHER ->
         {[Answer("clear", "main") EXCEPT !.area = talk.data.place,
             !.picked = talk.data.place]}

Answers(t) ==
  {Answer(p[2], p[3]) : p \in PagesOf[t.name]}
  \cup FilterAnswers(t.name) \cup SearchAnswers(t.name)
  \cup PlaceInputAnswers(t.name) \cup PlaceAnswers(t) \cup RadiusAnswers(t.name)

-------------------------------------------------------------------------------
(* Updates: commands, messages the dialogue waits for, buttons.             *)

Request(name, msg, ver, offer, index) ==
  [name |-> name, msg |-> msg, ver |-> ver, offer |-> offer, index |-> index]

Buttons(m) ==
  IF m.screen = "radius" /\ m.offer[1] \notin Whole
  THEN ButtonsOf["radius"] \ {"entire-city"} ELSE ButtonsOf[m.screen]

Messages == {Request(c, 0, 0, <<>>, 1) : c \in Commands \ Untried}
            \cup {Request(s, 0, 0, <<>>, 1) : s \in ({talk.state} \cap Inputs) \ Untried}
Presses ==
  UNION {{Request(b, i, chat[i].ver, chat[i].offer, n) :
            b \in Buttons(chat[i]) \ Untried,
            n \in 1..(IF chat[i].screen = "place-selection"
                      THEN Len(chat[i].offer) ELSE 1)} : i \in DOMAIN chat}

\* Updates on the way to a place, from the button that asks for a city to the
\* radius, and the two that look for a restaurant: update_data writes back
\* whatever places it has read, to keep its results beside them.
PicksPlace == {"city", "geo", "city_input", "geolocation", "place", "radius",
               "entire-city", "restaurant_city", "restaurant_location"}
NewUser == [id |-> accounts + 1, msg |-> 0, ver |-> 0, screen |-> "none"]

\* is_current_callback
IsCurrent(user, q) == user.msg = q.msg /\ user.ver = q.ver

\* A handler starts: the user's row is loaded, or inserted (a second insert
\* would wait for the first and fail, with no effect), and a button is checked
\* against it.  The answer to an outdated button changes nothing.
Receive(h) ==
  \E q \in Messages \cup Presses :
    LET user == IF row = NoUser THEN NewUser ELSE row IN
    /\ At(h, "idle")
    /\ Busy # {} => /\ Room
                     /\ \A n \in {q.name} \cup {task[g].name : g \in Busy} :
                          n \in Overlapping
    /\ row = NoUser => /\ accounts < MaxAccounts
                       /\ \A g \in Busy : task[g].base # NoUser
    /\ task' = [task EXCEPT ![h] =
         [Idle EXCEPT !.pc = IF q.msg # 0 /\ ~IsCurrent(user, q)
                             THEN "commit" ELSE "loaded",
            !.name = q.name, !.msg = q.msg, !.offer = q.offer,
            !.index = q.index, !.base = row, !.user = user]]
    /\ accounts' = IF row = NoUser THEN accounts + 1 ELSE accounts
    /\ overlaps' = IF Busy # {} THEN overlaps + 1 ELSE overlaps
    /\ raced' = (raced \/ /\ q.name \in PicksPlace
                          /\ \E g \in Busy : task[g].name \in PicksPlace)
    /\ UNCHANGED <<row, search, talk, chat, sync, sent, faults, unsaved>>

\* The handler reads what it needs and knows its screen and what it will do in
\* Redis.  "filters" stands for render_filters, which still has to look.
Decided(t, a) ==
  [t EXCEPT !.pc = CASE a.draws = 0          -> "commit"
                     [] a.screen = "filters" -> "filters"
                     [] OTHER                -> "erase",
     !.msg = 0, !.screen = a.screen, !.draws = a.draws, !.shows = a.shows,
     !.area = a.area, !.picked = a.picked, !.saves = a.saves, !.ops = a.ops]
Decide(h) ==
  /\ At(h, "loaded")
  /\ \E a \in Answers(task[h]) : task' = [task EXCEPT ![h] = Decided(@, a)]
  /\ UNCHANGED <<row, search, talk, chat, sync, counters, history>>

\* The dialogue data with the one entry that update_data is about.
Written(t) ==
  CASE t.screen = "place-selection" -> [t.data EXCEPT !.places = t.shows]
    [] t.screen = "radius"          -> [t.data EXCEPT !.place = t.picked]
    [] OTHER                        -> t.data  \* restaurant_results

\* The next Redis operation of the handler.
Redis(h) ==
  LET t == task[h]
      op == Head(t.ops)
      rest == [t EXCEPT !.ops = Tail(@)]
  IN /\ h \in Busy /\ t.ops # <<>>
     /\ \/ /\ op = "get"
           /\ task' = [task EXCEPT ![h] = [rest EXCEPT !.data = talk.data]]
           /\ UNCHANGED talk
        \/ /\ op = "set"
           /\ task' = [task EXCEPT ![h] = [rest EXCEPT !.data = Empty]]
           /\ talk' = [talk EXCEPT !.data = Written(t)]
        \/ /\ op = "empty"
           /\ task' = [task EXCEPT ![h] = rest]
           /\ talk' = [talk EXCEPT !.data = Empty]
        \/ /\ op \in States
           /\ task' = [task EXCEPT ![h] = rest]
           /\ talk' = [talk EXCEPT !.state = op]
     /\ UNCHANGED <<row, search, chat, sync, counters, history>>

\* render_filters looks for the search, after the dialogue has been reset.
FilterScreens == IF search = Nothing THEN {"filters-empty"}
                 ELSE {"filters", "filters-locked"}
RenderFilters(h) ==
  /\ At(h, "filters") /\ task[h].ops = <<>>
  /\ \E s \in FilterScreens :
       task' = [task EXCEPT ![h].pc = "erase", ![h].screen = s]
  /\ UNCHANGED <<row, search, talk, chat, sync, counters, history>>

\* "delete-yes": the row and, by cascade, the search are deleted; then the
\* message is edited and loses its buttons, unless Telegram fails.
DeleteAccount(h) ==
  /\ At(h, "loaded") /\ task[h].name = "delete-yes"
  /\ row' = IF row # NoUser /\ row.id = task[h].user.id THEN NoUser ELSE row
  /\ search' = IF row'= NoUser THEN Nothing ELSE search
  /\ \/ /\ chat' = Restrict(chat, DOMAIN chat \ {task[h].msg})
        /\ UNCHANGED faults
     \/ /\ Room /\ faults' = faults + 1
        /\ UNCHANGED chat
  /\ Ends(h)
  /\ UNCHANGED <<talk, sync, sent, accounts, overlaps, history>>

-------------------------------------------------------------------------------
(* A screen is drawn and the transaction committed.                         *)

\* remove_active_navigation.
MutKept(old) == chat
Kept(old) == Restrict(chat, DOMAIN chat \ {old})
Erase(h) ==
  LET old == task[h].user.msg IN
  /\ At(h, "erase") /\ task[h].ops = <<>>
  /\ \/ /\ chat' = Kept(old)
        /\ UNCHANGED faults
     \/ /\ old \in DOMAIN chat /\ Room  \* refused: it stays
        /\ faults' = faults + 1
        /\ UNCHANGED chat
  /\ task' = [task EXCEPT ![h].pc = "show"]
  /\ UNCHANGED <<row, search, talk, sync, sent, accounts, overlaps, history>>

\* The version the new message's buttons carry.  present_places enters its state
\* only when the message is there.
MutStamp(user) == user.ver
Stamp(user) == user.ver + 1
Show(h) ==
  LET t == task[h]
      new == sent + 1
      user == [t.user EXCEPT !.msg = new, !.ver = @ + 1, !.screen = t.screen]
  IN /\ At(h, "show") /\ sent < MaxMessages
     /\ sent' = new
     /\ chat' = [i \in DOMAIN chat \cup {new} |->
                   IF i = new THEN [ver |-> Stamp(t.user), screen |-> t.screen,
                                    offer |-> t.shows]
                   ELSE chat[i]]
     /\ task' = [task EXCEPT ![h] =
          [t EXCEPT !.pc = IF t.draws > 1 THEN "erase" ELSE "commit",
             !.draws = t.draws - 1, !.user = user,
             !.ops = IF t.screen = "place-selection" THEN <<"place_selection">>
                     ELSE <<>>]]
     /\ UNCHANGED <<row, search, talk, sync, accounts, overlaps, faults, history>>

\* The columns that differ from the copy that was loaded.
MutSaved(t) == [row EXCEPT !.ver = t.user.ver,
                           !.screen = IF t.user.screen # t.base.screen
                                      THEN t.user.screen ELSE @]
MutSavedScreen(t) == [row EXCEPT !.msg = t.user.msg, !.ver = t.user.ver]
Saved(t) == [row EXCEPT
  !.msg    = IF t.user.msg # t.base.msg THEN t.user.msg ELSE @,
  !.ver    = IF t.user.ver # t.base.ver THEN t.user.ver ELSE @,
  !.screen = IF t.user.screen # t.base.screen THEN t.user.screen ELSE @]

\* The transaction ends.  It is lost if the handler returns without a commit,
\* or if the account it loaded has been deleted.
Commit(h) ==
  LET t == task[h]
      inserts == t.base = NoUser
      updates == ~inserts /\ row # NoUser /\ row.id = t.user.id
  IN /\ At(h, "commit") /\ t.ops = <<>>
     /\ IF t.saves /\ (inserts \/ updates)
        THEN /\ row' = IF inserts THEN t.user ELSE Saved(t)
             /\ search' = IF t.area # Nothing THEN t.area ELSE search
        ELSE UNCHANGED <<row, search>>
     /\ unsaved' = IF ~t.saves /\ t.screen # "none" THEN unsaved + 1 ELSE unsaved
     /\ Ends(h)
     /\ UNCHANGED <<talk, chat, sync, counters, raced>>

\* Telegram or the database fails, or the process dies: a rollback, but what
\* has been done in Redis remains.  (Before Decide nothing would be undone.)
Abort(h) ==
  /\ h \in Busy /\ ~At(h, "loaded") /\ Room
  /\ faults' = faults + 1
  /\ Ends(h)
  /\ UNCHANGED <<row, search, talk, chat, sync, sent, accounts,
                 overlaps, history>>

-------------------------------------------------------------------------------
(* The search run, the plan, the user.                                      *)

\* A run loads the row once.  refresh_visible_main_screen looks at the screen of
\* that copy, so only the runs that begin on the main menu matter here.
SyncBegins ==
  /\ sync = NoUser /\ row # NoUser /\ search # Nothing
  /\ row.screen = "main"
  /\ sync' = row
  /\ UNCHANGED <<row, search, talk, chat, task, counters, history>>

\* A run without news, or one that fails, ends without the refresh.
SyncEnds ==
  /\ sync # NoUser
  /\ \/ /\ sync.msg \in DOMAIN chat
        /\ chat' = [chat EXCEPT ![sync.msg] =
                      [ver |-> sync.ver, screen |-> "main", offer |-> <<>>]]
     \/ UNCHANGED chat
  /\ sync' = NoUser
  /\ UNCHANGED <<row, search, talk, task, counters, history>>

UserDeletes(msg) ==
  /\ msg \in DOMAIN chat /\ Room
  /\ chat' = Restrict(chat, DOMAIN chat \ {msg}) /\ faults' = faults + 1
  /\ UNCHANGED <<row, search, talk, task, sync, sent, accounts,
                 overlaps, history>>

\* Nobody is known, or a user is at the main menu, with a search or without.
\* Without one the dialogue may still wait for a price or a restaurant's city:
\* neither the end of the account nor /language resets it.
Init ==
  /\ \/ /\ row = NoUser /\ search = Nothing /\ chat = <<>>
        /\ sent = 0 /\ accounts = 0
     \/ /\ row = [id |-> 1, msg |-> 1, ver |-> 1, screen |-> "main"]
        /\ search \in Whole \cup {Nothing}
        /\ chat = <<[ver |-> 1, screen |-> "main", offer |-> <<>>]>>
        /\ sent = 1 /\ accounts = 1
  /\ \/ talk = Silence
     \/ /\ search = Nothing
        /\ \E s \in {"price_input", "restaurant_city"} :
             talk = [Silence EXCEPT !.state = s]
  /\ sync = NoUser
  /\ task = [h \in Handlers |-> Idle]
  /\ overlaps = 0 /\ faults = 0 /\ unsaved = 0 /\ raced = FALSE

Handle(h) == \/ Receive(h) \/ Decide(h) \/ DeleteAccount(h)
             \/ Redis(h) \/ RenderFilters(h)
             \/ Erase(h) \/ Show(h) \/ Commit(h) \/ Abort(h)
Next == \/ \E h \in Handlers : Handle(h)
        \/ SyncBegins \/ SyncEnds
        \/ \E msg \in 1..MaxMessages : UserDeletes(msg)
Spec == Init /\ [][Next]_vars

-------------------------------------------------------------------------------
(* Properties.                                                              *)

\* Types.  (That a place is chosen when the dialogue waits for a radius is not
\* one: another update's clear may come between the two.)
TypeOK ==
  /\ row \in Row \cup {NoUser} /\ sync \in Row \cup {NoUser}
  /\ search \in Areas \cup {Nothing}
  /\ talk \in Talk
  /\ DOMAIN chat \subseteq 1..sent /\ chat \in [DOMAIN chat -> Message]
  /\ task \in [Handlers -> Task]
  /\ sent \in 0..MaxMessages /\ accounts \in 0..MaxAccounts
  /\ overlaps \in Nat /\ faults \in Nat /\ overlaps + faults <= MaxTroubles
  /\ unsaved \in Nat /\ raced \in BOOLEAN

\* As long as the message the row names is in the chat, its buttons carry the
\* row's version: whatever overlaps or fails, they are obeyed.
KeyboardCurrent ==
  row # NoUser /\ row.msg \in DOMAIN chat => chat[row.msg].ver = row.ver

Quiet == Busy = {}
Active == IF row = NoUser THEN 0 ELSE row.msg

\* When nothing is being handled, the message the row names is in the chat:
\* overlapping handlers, each of which deletes the message it loaded, never
\* delete the one that wins, and an account deleted meanwhile does not matter.
Usable ==
  Quiet /\ faults = 0 /\ unsaved = 0 /\ Active # 0 => Active \in DOMAIN chat

\* The class promises one navigation message.  A second one stays only for a
\* failure, an overlap or a screen drawn without a commit: at most one each.
StraysExplained ==
  Quiet => Cardinality(DOMAIN chat \ {Active}) <= faults + overlaps + unsaved

\* A press on a place, and later on a radius, stands for the place its message
\* showed, although the handler looks it up in Redis.  Failures do not matter,
\* nor do overlapping updates that only reset the dialogue or change its state;
\* only two at the same time that are on the way to a place or write the data
\* back (PicksPlace) do.
ChosenAsShown ==
  \A h \in Busy : task[h].picked # Nothing /\ ~raced =>
                    task[h].picked = task[h].offer[task[h].index]

\* "Refresh an already visible main menu": a search run, with the row of its
\* beginning, never turns another screen into the main menu, unless updates
\* have overlapped (then the row's screen may be that of another message).
RefreshesMainMenu ==
  [][\A i \in DOMAIN chat \cap DOMAIN chat' :
       chat'[i].screen # chat[i].screen => overlaps > 0]_vars
================================================================================
