-------------------------- MODULE ConversationProofs --------------------------
(***************************************************************************)
(* Proofs about Conversation for any number of handlers, any places and    *)
(* any bounds: types, that the buttons on screen carry the version of the  *)
(* user's row, that a search run refreshes nothing but the main menu, that *)
(* the message of the row stays in the chat, what stray menus are paid by, *)
(* and that a pressed place is the one the button showed.                  *)
(***************************************************************************)
EXTENDS Conversation, FiniteSetTheorems, SequenceTheorems, TLAPS

(***************************************************************************)
(* The tables: every screen a request leads to has a keyboard.             *)
(***************************************************************************)

LEMMA HasKeyboard ==
  ASSUME NEW s, NEW b, <<s, b>> \in Keyboard
  PROVE  s \in ScreenNames
<1>1. <<s, b>>[1] = s
  OBVIOUS
<1> QED
  BY <1>1 DEF ScreenNames

LEMMA KnownScreens ==
  /\ {"main", "housing", "restaurant", "location", "language", "radius"}
       \subseteq ScreenNames
  /\ {"list", "help", "filters-empty", "housing-favorites", "reports-list",
      "reports-write", "restaurant-city", "city-input", "city-input-error",
      "city-input-empty", "geolocation-error", "geolocation-empty",
      "filter-price-input", "filter-surface-input"} \subseteq ScreenNames
  /\ {"reports", "filters", "filters-locked", "check-now-locked",
      "filter-format", "filter-clear-confirm", "subscription",
      "subscription-detail", "payment", "monitoring", "monitoring-confirm",
      "restaurant-select", "restaurant-menu", "restaurant-delivery",
      "restaurant-favorites", "restaurant-favorite", "restaurant-results",
      "place-selection", "delete"} \subseteq ScreenNames
<1>1. /\ <<"main", "housing">> \in MainButtons
      /\ <<"housing", "menu">> \in MainButtons
      /\ <<"restaurant", "menu">> \in MenuButtons
      /\ <<"location", "menu">> \in MenuButtons
      /\ <<"language", "menu">> \in MenuButtons
      /\ <<"radius", "location">> \in MenuButtons
  BY DEF MainButtons, MenuButtons
<1>2. /\ \A s \in {"list", "help", "filters-empty"} : <<s, "menu">> \in BackButtons
      /\ <<"housing-favorites", "housing">> \in BackButtons
      /\ \A s \in {"reports-list", "reports-write"} : <<s, "reports">> \in BackButtons
      /\ <<"restaurant-city", "restaurant-select">> \in BackButtons
      /\ \A s \in {"city-input", "city-input-error", "city-input-empty",
                   "geolocation-error", "geolocation-empty"} :
           <<s, "location">> \in BackButtons
      /\ \A s \in {"filter-price-input", "filter-surface-input"} :
           <<s, "filters">> \in BackButtons
  BY DEF BackButtons
<1>3. /\ \A s \in {"reports", "filters", "filters-locked", "check-now-locked",
                   "subscription", "monitoring", "delete"} :
           <<s, "menu">> \in InlineButtons
      /\ \A s \in {"filter-format", "filter-clear-confirm"} :
           <<s, "filters">> \in InlineButtons
      /\ \A s \in {"subscription-detail", "payment"} :
           <<s, "subscription">> \in InlineButtons
      /\ <<"monitoring-confirm", "monitoring">> \in InlineButtons
      /\ \A s \in {"restaurant-select", "restaurant-menu", "restaurant-delivery",
                   "restaurant-favorites", "restaurant-results"} :
           <<s, "restaurant">> \in InlineButtons
      /\ <<"restaurant-favorite", "restaurant-remove">> \in InlineButtons
      /\ <<"place-selection", "location">> \in InlineButtons
  BY DEF InlineButtons, FilterButtons, SubscriptionButtons,
      MonitoringButtons, ReportButtons, DeleteButtons, RestaurantButtons, SelectionButtons
<1>4. \A s, b : <<s, b>> \in MainButtons \cup MenuButtons
                               \cup BackButtons \cup InlineButtons
                  => s \in ScreenNames
  BY HasKeyboard DEF Keyboard
<1> QED
  BY <1>1, <1>2, <1>3, <1>4

LEMMA PageTypes ==
  ASSUME NEW p \in Pages
  PROVE  /\ p[2] \in Inputs \cup {"keep", "clear", "update"}
         /\ p[3] \in ScreenNames \cup {"none"}
<1>1. CASE p \in MenuPages
  BY <1>1, KnownScreens DEF MenuPages, Inputs
<1>5. CASE p \in FilterPages
  BY <1>5, KnownScreens DEF FilterPages, Inputs
<1>2. CASE p \in SubscriptionPages
  BY <1>2, KnownScreens DEF SubscriptionPages, Inputs
<1>3. CASE p \in ReportPages
  BY <1>3, KnownScreens DEF ReportPages, Inputs
<1>4. CASE p \in RestaurantPages
  BY <1>4, KnownScreens DEF RestaurantPages, Inputs
<1>6. CASE p \in MonitoringPages
  BY <1>6, KnownScreens DEF MonitoringPages, Inputs
<1>7. CASE p \in RestaurantInputPages
  BY <1>7, KnownScreens DEF RestaurantInputPages
<1> QED
  BY <1>1, <1>2, <1>3, <1>4, <1>5, <1>6, <1>7 DEF Pages

(***************************************************************************)
(* What a request is, and what a handler may decide.                       *)
(***************************************************************************)

AnswerType ==
  [ops : Seq(Op), screen : ScreenNames \cup {"none"}, draws : 0..2,
   shows : Seq(Areas), area : Areas \cup {Nothing},
   picked : Areas \cup {Nothing}, saves : BOOLEAN]
Sound(a) == a \in AnswerType /\ (a.draws = 0 <=> a.screen = "none")

LEMMA RequestTypes ==
  ASSUME TypeOK, NEW q \in Messages \cup Presses
  PROVE  /\ q.name \in Requests /\ q.msg \in 0..MaxMessages
         /\ q.offer \in Seq(Areas) /\ q.index \in Nat \ {0}
<1>1. CASE q \in Messages
  <2>1. PICK c \in Commands \cup Inputs : q = Request(c, 0, 0, <<>>, 1)
    BY <1>1 DEF Messages
  <2>2. <<>> \in Seq(Areas) /\ 0 \in 0..MaxMessages
    BY ConversationAssumption
  <2> QED
    BY <2>1, <2>2 DEF Request, Requests
<1>2. CASE q \in Presses
  <2>1. PICK i \in DOMAIN chat :
          \E b \in Buttons(chat[i]),
             n \in 1..(IF chat[i].screen = "place-selection"
                       THEN Len(chat[i].offer) ELSE 1) :
            q = Request(b, i, chat[i].ver, chat[i].offer, n)
    BY <1>2 DEF Presses
  <2>2. chat[i] \in Message /\ i \in 0..MaxMessages
    BY ConversationAssumption DEF TypeOK
  <2>3. chat[i].screen \in ScreenNames /\ chat[i].offer \in Seq(Areas)
    BY <2>2 DEF Message
  <2>4. PICK b \in Buttons(chat[i]), n \in Nat \ {0} :
          q = Request(b, i, chat[i].ver, chat[i].offer, n)
    BY <2>1, <2>3
  <2>5. \A s \in ScreenNames : ButtonsOf[s] \subseteq Requests
    BY DEF ButtonsOf, Requests
  <2>6. b \in Requests
    BY <2>3, <2>5, KnownScreens DEF Buttons
  <2> QED
    BY <2>2, <2>3, <2>4, <2>6 DEF Request
<1> QED
  BY <1>1, <1>2

LEMMA SilenceType == Empty \in Data /\ Silence \in Talk
BY DEF Silence, Talk, States, Inputs, Empty, Data

\* A plain answer resets the dialogue, leaves it, writes its data or waits for an
\* input.
LEMMA AnswerSound ==
  ASSUME NEW d \in Inputs \cup {"keep", "clear", "update"},
         NEW s \in ScreenNames \cup {"none"}
  PROVE  /\ Sound(Answer(d, s))
         /\ Answer(d, s).screen = s /\ Answer(d, s).draws \in 0..1
<1> DEFINE ops == CASE d = "keep"   -> <<>>
                    [] d = "clear"  -> <<"none", "empty">>
                    [] d = "update" -> <<"get", "set">>
                    [] OTHER        -> <<d>>
<1>1. ops \in Seq(Op)
  <2>1. CASE d = "keep"
    BY <2>1
  <2>2. CASE d = "clear"
    BY <2>2 DEF Op, States
  <2>3. CASE d = "update"
    BY <2>3 DEF Op
  <2>4. CASE d \in Inputs
    <3>1. d \notin {"keep", "clear", "update"} /\ d \in Op
      BY <2>4 DEF Inputs, Op, States
    <3> QED
      BY <3>1
  <2> QED
    BY <2>1, <2>2, <2>3, <2>4
<1>2. Answer(d, s) = [ops |-> ops, screen |-> s,
                      draws |-> IF s = "none" THEN 0 ELSE 1, shows |-> <<>>,
                      area |-> Nothing, picked |-> Nothing, saves |-> TRUE]
  BY DEF Answer
<1> HIDE DEF ops
<1>3. <<>> \in Seq(Areas)
  OBVIOUS
<1> QED
  BY <1>1, <1>2, <1>3 DEF Sound, AnswerType

\* Answers whose places, area, or commit differ from a plain answer.
LEMMA Variations ==
  ASSUME NEW a, Sound(a)
  PROVE  /\ \A b \in BOOLEAN : Sound([a EXCEPT !.saves = b])
         /\ a.draws # 0 => Sound([a EXCEPT !.draws = 2])
         /\ \A p \in Areas : Sound([a EXCEPT !.area = p, !.picked = p])
         /\ \A places \in Seq(Areas) : Sound([a EXCEPT !.shows = places])
         /\ \A places \in Seq(Areas), p \in Areas :
              Sound([a EXCEPT !.ops = Append(@, "radius_selection"),
                              !.shows = places, !.picked = p])
<1> USE DEF Sound, AnswerType
<1>1. ASSUME NEW b \in BOOLEAN PROVE Sound([a EXCEPT !.saves = b])
  OBVIOUS
<1>2. ASSUME a.draws # 0 PROVE Sound([a EXCEPT !.draws = 2])
  BY <1>2
<1>3. ASSUME NEW p \in Areas PROVE Sound([a EXCEPT !.area = p, !.picked = p])
  OBVIOUS
<1>4. ASSUME NEW places \in Seq(Areas) PROVE Sound([a EXCEPT !.shows = places])
  OBVIOUS
<1>5. ASSUME NEW places \in Seq(Areas), NEW p \in Areas
      PROVE  Sound([a EXCEPT !.ops = Append(@, "radius_selection"),
                             !.shows = places, !.picked = p])
  <2>1. Append(a.ops, "radius_selection") \in Seq(Op)
    BY DEF Op, States
  <2> QED
    BY <2>1
<1> HIDE DEF Sound, AnswerType
<1> QED
  BY <1>1, <1>2, <1>3, <1>4, <1>5

LEMMA FilterAnswersSound ==
  ASSUME NEW name, NEW a \in FilterAnswers(name)
  PROVE  Sound(a)
<1>1. \A d \in {"clear", "keep"} : Sound(Answer(d, "filters"))
  BY AnswerSound, KnownScreens
<1>2. Sound([Answer("keep", "filters") EXCEPT !.saves = FALSE])
  BY <1>1, Variations
<1>3. Sound(Answer("keep", InputScreen(name)))
  BY AnswerSound, KnownScreens DEF InputScreen
<1> QED
  BY <1>1, <1>2, <1>3 DEF FilterAnswers

LEMMA SearchAnswersSound ==
  ASSUME NEW name, NEW a \in SearchAnswers(name)
  PROVE  Sound(a)
<1>1. Sound(Silent)
  BY AnswerSound DEF Silent
<1>2. /\ Sound(Answer("keep", "check-now-locked")) /\ Sound(Answer("keep", "main"))
      /\ Sound(Answer("keep", "list"))
  BY AnswerSound, KnownScreens
<1>3. Sound([Silent EXCEPT !.saves = name # "pause"])
  BY <1>1, Variations
<1>4. Sound([Answer("keep", "list") EXCEPT !.draws = 2])
  <2>1. Answer("keep", "list").draws # 0
    BY DEF Answer
  <2> QED
    BY <2>1, <1>2, Variations
<1> QED
  BY <1>1, <1>2, <1>3, <1>4 DEF SearchAnswers

LEMMA PlaceInputAnswersSound ==
  ASSUME NEW name, NEW a \in PlaceInputAnswers(name)
  PROVE  Sound(a)
<1>1. Sound(Answer("keep", ErrorScreen(name))) /\ Sound(Answer("keep", EmptyScreen(name)))
  <2>1. ErrorScreen(name) \in ScreenNames /\ EmptyScreen(name) \in ScreenNames
    BY KnownScreens DEF ErrorScreen, EmptyScreen
  <2> QED
    BY <2>1, AnswerSound
<1>2. ASSUME NEW found \in Replies PROVE Sound(PlacesFound(found))
  <2>1. found \in Seq(Areas)
    BY ConversationAssumption
  <2>2. Sound(Answer("update", "place-selection"))
    BY AnswerSound, KnownScreens
  <2> QED
    BY <2>1, <2>2, Variations DEF PlacesFound
<1> QED
  BY <1>1, <1>2 DEF PlaceInputAnswers

LEMMA PlaceAnswersSound ==
  ASSUME TypeOK, NEW t \in Task, NEW a \in PlaceAnswers(t)
  PROVE  Sound(a)
<1>1. Sound(Silent) /\ Sound(Answer("update", "radius"))
  BY AnswerSound, KnownScreens DEF Silent
<1>2. CASE t.index > Len(talk.data.places)
  BY <1>1, <1>2 DEF PlaceAnswers
<1>3. CASE ~(t.index > Len(talk.data.places))
  <2>a. talk \in Talk
    BY DEF TypeOK
  <2>b. talk.data \in Data
    BY <2>a DEF Talk
  <2>0. talk.data.places \in Seq(Areas) /\ t.index \in Nat \ {0}
    BY <2>b DEF Data, Task
  <2>1. PlaceAt(t.index) \in Areas
    BY <1>3, <2>0 DEF PlaceAt
  <2>2. <<PlaceAt(t.index)>> \in Seq(Areas)
    BY <2>1
  <2>3. a = [Answer("update", "radius") EXCEPT
               !.ops = Append(@, "radius_selection"),
               !.shows = <<PlaceAt(t.index)>>, !.picked = PlaceAt(t.index)]
    BY <1>3 DEF PlaceAnswers
  <2> QED
    BY <1>1, <2>1, <2>2, <2>3, Variations
<1> QED
  BY <1>2, <1>3

LEMMA RadiusAnswersSound ==
  ASSUME TypeOK, NEW name, NEW a \in RadiusAnswers(name)
  PROVE  Sound(a)
<1>1. /\ Sound(Answer("keep", "location")) /\ Sound(Answer("clear", "location"))
      /\ Sound(Answer("clear", "main"))
  BY AnswerSound, KnownScreens
<1>2. CASE a = [Answer("clear", "main") EXCEPT !.area = talk.data.place,
                  !.picked = talk.data.place] /\ talk.data.place # Nothing
  <2>1. talk.data.place \in Areas
    BY <1>2 DEF TypeOK, Talk, Data
  <2> QED
    BY <1>1, <1>2, <2>1, Variations
<1> QED
  BY <1>1, <1>2 DEF RadiusAnswers

LEMMA AnswersSound ==
  ASSUME TypeOK, NEW t \in Task, t.name # "none", NEW a \in Answers(t)
  PROVE  Sound(a)
<1>1. CASE \E p \in PagesOf[t.name] : a = Answer(p[2], p[3])
  <2>1. PICK p \in PagesOf[t.name] : a = Answer(p[2], p[3])
    BY <1>1
  <2>2. t.name \in Requests
    BY DEF Task
  <2>3. p \in Pages
    BY <2>2 DEF PagesOf
  <2> QED
    BY <2>1, <2>3, PageTypes, AnswerSound
<1> QED
  BY <1>1, FilterAnswersSound, SearchAnswersSound, PlaceInputAnswersSound,
     PlaceAnswersSound, RadiusAnswersSound DEF Answers

(***************************************************************************)
(* The invariant.  A copy of the row, wherever it is held, names a message *)
(* whose buttons carry the copy's version, and drawing a screen raises     *)
(* both the message and the version, so that a commit writes both or none. *)
(***************************************************************************)
Keyed(user, messages, last) ==
  user # NoUser =>
    /\ user.msg <= last /\ user.ver <= last
    /\ user.msg \in DOMAIN messages => messages[user.msg].ver = user.ver
Held(t, messages, last) ==
  /\ Keyed(t.base, messages, last) /\ Keyed(t.user, messages, last)
  /\ t.pc # "idle" => t.user # NoUser /\ t.name # "none"
  /\ t.pc \in {"filters", "erase", "show"} => t.screen # "none" /\ t.draws # 0
  /\ t.pc \in {"idle", "loaded", "show"} => t.ops = <<>>
  /\ t.base # NoUser /\ t.user # NoUser =>
       \/ t.user = t.base
       \/ t.base.msg < t.user.msg /\ t.base.ver < t.user.ver
IInv ==
  /\ TypeOK
  /\ Keyed(row, chat, sent) /\ Keyed(sync, chat, sent)
  /\ \A h \in Handlers : Held(task[h], chat, sent)

LEMMA IdleHeld == Idle \in Task /\ \A messages, last : Held(Idle, messages, last)
<1>1. <<>> \in Seq(Areas) /\ <<>> \in Seq(Op) /\ 0 \in 0..MaxMessages
  BY ConversationAssumption
<1> QED
  BY <1>1, SilenceType DEF Idle, Task, Held, Keyed

LEMMA InvInit == Init => IInv
<1> SUFFICES ASSUME Init PROVE IInv
  OBVIOUS
<1>1. task \in [Handlers -> Task] /\ \A h \in Handlers : Held(task[h], chat, sent)
  BY IdleHeld DEF Init
<1>2. talk \in Talk
  BY SilenceType DEF Init, Talk, States, Inputs
<1>3. /\ sync = NoUser /\ overlaps = 0 /\ faults = 0
      /\ unsaved = 0 /\ raced = FALSE
  BY DEF Init
<1>4. ASSUME row \in Row \cup {NoUser}, search \in Areas \cup {Nothing},
             DOMAIN chat \subseteq 1..sent, chat \in [DOMAIN chat -> Message],
             sent \in 0..MaxMessages, accounts \in 0..MaxAccounts,
             Keyed(row, chat, sent)
      PROVE  IInv
  <2>1. /\ overlaps \in Nat /\ faults \in Nat /\ unsaved \in Nat
        /\ overlaps + faults <= MaxTroubles
    BY <1>3, ConversationAssumption
  <2>2. raced \in BOOLEAN
    BY <1>3, Zenon
  <2>3. TypeOK
    BY <1>1, <1>2, <1>3, <1>4, <2>1, <2>2 DEF TypeOK
  <2>4. Keyed(sync, chat, sent)
    BY <1>3 DEF Keyed
  <2> QED
    BY <1>1, <1>4, <2>3, <2>4 DEF IInv
<1>5. CASE row = NoUser /\ search = Nothing /\ chat = <<>> /\ sent = 0 /\ accounts = 0
  <2>1. DOMAIN chat = {} /\ chat \in [DOMAIN chat -> Message]
    BY <1>5
  <2> QED
    BY <1>4, <1>5, <2>1, ConversationAssumption DEF Keyed
<1>6. CASE /\ row = [id |-> 1, msg |-> 1, ver |-> 1, screen |-> "main"]
           /\ search \in Whole \cup {Nothing}
           /\ chat = <<[ver |-> 1, screen |-> "main", offer |-> <<>>]>>
           /\ sent = 1 /\ accounts = 1
  <2>1. row \in Row
    BY <1>6, ConversationAssumption, KnownScreens DEF Row
  <2>2. [ver |-> 1, screen |-> "main", offer |-> <<>>] \in Message
    BY ConversationAssumption, KnownScreens DEF Message
  <2>3. DOMAIN chat = 1..1 /\ chat[1].ver = 1
    BY <1>6
  <2>4. chat \in [DOMAIN chat -> Message]
    BY <1>6, <2>2
  <2> QED
    BY <1>4, <1>6, <2>1, <2>3, <2>4, ConversationAssumption DEF Keyed
<1> QED
  BY <1>5, <1>6 DEF Init

\* Old messages keep their version or disappear.
Steady ==
  /\ sent <= sent'
  /\ \A i \in DOMAIN chat' :
       i <= sent => i \in DOMAIN chat /\ chat'[i].ver = chat[i].ver

LEMMA Carry ==
  ASSUME TypeOK, Steady, TypeOK'
  PROVE  /\ \A user \in Row \cup {NoUser} :
              Keyed(user, chat, sent) => Keyed(user, chat', sent')
         /\ \A t \in Task : Held(t, chat, sent) => Held(t, chat', sent')
<1>1. ASSUME NEW user \in Row \cup {NoUser}, Keyed(user, chat, sent)
      PROVE  Keyed(user, chat', sent')
  <2>1. sent \in Nat /\ sent' \in Nat
    BY DEF TypeOK
  <2>2. user # NoUser => user.msg \in Nat /\ user.ver \in Nat
    BY DEF Row
  <2> QED
    BY <1>1, <2>1, <2>2 DEF Keyed, Steady
<1>2. ASSUME NEW t \in Task, Held(t, chat, sent)
      PROVE  Held(t, chat', sent')
  <2>1. t.base \in Row \cup {NoUser} /\ t.user \in Row \cup {NoUser}
    BY DEF Task
  <2> QED
    BY <1>1, <1>2, <2>1 DEF Held
<1> QED
  BY <1>1, <1>2

\* A step of one handler, that leaves the run alone.
LEMMA OneHandler ==
  ASSUME IInv, Steady, TypeOK', NEW h \in Handlers,
         \A g \in Handlers \ {h} : task'[g] = task[g],
         Held(task'[h], chat', sent'), Keyed(row', chat', sent'), sync' = sync
  PROVE  IInv'
<1>1. Keyed(sync', chat', sent')
  BY Carry DEF IInv, TypeOK
<1>2. ASSUME NEW g \in Handlers PROVE Held(task'[g], chat', sent')
  <2>1. task[g] \in Task
    BY DEF IInv, TypeOK
  <2> QED
    BY <2>1, Carry DEF IInv
<1> QED
  BY <1>1, <1>2 DEF IInv

(***************************************************************************)
(* Every step keeps the invariant.                                         *)
(***************************************************************************)
LEMMA KeepReceive ==
  ASSUME IInv, NEW h \in Handlers, Receive(h)
  PROVE  IInv'
<1> DEFINE user == IF row = NoUser THEN NewUser ELSE row
<1>1. PICK q \in Messages \cup Presses :
        /\ row = NoUser => accounts < MaxAccounts
        /\ Busy # {} => Room
        /\ task' = [task EXCEPT ![h] =
             [Idle EXCEPT !.pc = IF q.msg # 0 /\ ~IsCurrent(user, q)
                                 THEN "commit" ELSE "loaded",
                !.name = q.name, !.msg = q.msg, !.offer = q.offer,
                !.index = q.index, !.base = row, !.user = user]]
        /\ accounts' = IF row = NoUser THEN accounts + 1 ELSE accounts
        /\ overlaps' = IF Busy # {} THEN overlaps + 1 ELSE overlaps
  BY DEF Receive
<1>2. /\ raced' \in BOOLEAN
      /\ UNCHANGED <<row, search, talk, chat, sync, sent, faults, unsaved>>
  BY DEF Receive
<1>3. TypeOK /\ Keyed(row, chat, sent)
  BY DEF IInv
<1>4. user \in Row /\ user # NoUser /\ Keyed(user, chat, sent)
  <2>1. CASE row = NoUser
    <3>1. NewUser \in Row
      BY <1>1, <1>3, <2>1, ConversationAssumption DEF NewUser, Row, TypeOK
    <3>2. Keyed(NewUser, chat, sent)
      BY <1>3 DEF NewUser, Keyed, TypeOK
    <3> QED
      BY <2>1, <3>1, <3>2, RowAssumption
  <2>2. CASE row # NoUser
    BY <1>3, <2>2 DEF TypeOK
  <2> QED
    BY <2>1, <2>2
<1>5. row # NoUser => user = row
  OBVIOUS
<1> HIDE DEF user
<1>6. /\ q.name \in Requests /\ q.msg \in 0..MaxMessages
      /\ q.offer \in Seq(Areas) /\ q.index \in Nat \ {0}
  BY <1>3, RequestTypes
<1>7. \A g \in Handlers \ {h} : task'[g] = task[g]
  BY <1>1, <1>3 DEF TypeOK
<1>8. /\ task'[h] \in Task /\ task'[h].base = row /\ task'[h].user = user
      /\ task'[h].pc \in {"loaded", "commit"} /\ task'[h].name = q.name
      /\ task'[h].ops = <<>>
  <2> DEFINE pc == IF q.msg # 0 /\ ~IsCurrent(user, q) THEN "commit" ELSE "loaded"
             t == [Idle EXCEPT !.pc = pc, !.name = q.name, !.msg = q.msg,
                     !.offer = q.offer, !.index = q.index, !.base = row,
                     !.user = user]
  <2>1. pc \in {"loaded", "commit"}
    OBVIOUS
  <2>2. task'[h] = t
    BY <1>1, <1>3 DEF TypeOK
  <2> HIDE DEF pc
  <2>3. row \in Row \cup {NoUser}
    BY <1>3 DEF TypeOK
  <2>4. /\ t \in Task /\ t.base = row /\ t.user = user /\ t.pc = pc
        /\ t.name = q.name
    BY <1>4, <1>6, <2>1, <2>3, IdleHeld, ZenonT(40) DEF Task
  <2>5. t.ops = <<>>
    BY DEF Idle
  <2> QED
    BY <2>1, <2>2, <2>4, <2>5
<1>9. task' \in [Handlers -> Task]
  BY <1>1, <1>3, <1>7, <1>8 DEF TypeOK
<1>10. q.name # "none"
  BY <1>6 DEF Requests, Commands, Inputs, Keyboard, MainButtons, MenuButtons, BackButtons,
      InlineButtons, FilterButtons, SubscriptionButtons,
      MonitoringButtons, ReportButtons, DeleteButtons, RestaurantButtons, SelectionButtons
<1>11. TypeOK'
  <2>1. /\ accounts' \in 0..MaxAccounts /\ overlaps' \in Nat
        /\ overlaps' + faults' <= MaxTroubles
    BY <1>1, <1>2, <1>3, ConversationAssumption DEF TypeOK, Room
  <2> QED
    BY <1>2, <1>3, <1>9, <2>1 DEF TypeOK
<1>12. Steady /\ Held(task'[h], chat', sent')
  BY <1>2, <1>3, <1>4, <1>8, <1>10, <1>5 DEF Steady, Held, TypeOK
<1> QED
  BY <1>2, <1>3, <1>7, <1>11, <1>12, OneHandler

LEMMA DecidedTask ==
  ASSUME NEW t \in Task, NEW a, Sound(a)
  PROVE  /\ Decided(t, a) \in Task
         /\ Decided(t, a).base = t.base /\ Decided(t, a).user = t.user
         /\ Decided(t, a).name = t.name
         /\ Decided(t, a).offer = t.offer /\ Decided(t, a).index = t.index
         /\ Decided(t, a).screen = a.screen /\ Decided(t, a).draws = a.draws
         /\ Decided(t, a).shows = a.shows /\ Decided(t, a).picked = a.picked
         /\ Decided(t, a).ops = a.ops
         /\ Decided(t, a).pc \in {"commit", "filters", "erase"}
         /\ Decided(t, a).pc = "commit" <=> a.draws = 0
         /\ Decided(t, a).pc = "filters" => a.screen = "filters"
<1>1. 0 \in 0..MaxMessages
  BY ConversationAssumption
<1>2. /\ a.screen \in ScreenNames \cup {"none"} /\ a.draws \in 0..2
      /\ a.shows \in Seq(Areas) /\ a.area \in Areas \cup {Nothing}
      /\ a.picked \in Areas \cup {Nothing} /\ a.saves \in BOOLEAN
      /\ a.ops \in Seq(Op)
  BY DEF Sound, AnswerType
<1> DEFINE pc     == CASE a.draws = 0          -> "commit"
                       [] a.screen = "filters" -> "filters"
                       [] OTHER                -> "erase"
           begun  == [t EXCEPT !.pc = pc, !.msg = 0]
           first  == [begun EXCEPT !.screen = a.screen, !.draws = a.draws]
           second == [first EXCEPT !.shows = a.shows, !.area = a.area,
                                   !.picked = a.picked]
<1>3. Decided(t, a) = [second EXCEPT !.saves = a.saves, !.ops = a.ops]
  BY DEF Decided
<1>4. /\ pc \in {"commit", "filters", "erase"}
      /\ pc = "commit" <=> a.draws = 0
      /\ pc = "filters" => a.screen = "filters"
  <2>1. CASE a.draws = 0
    BY <2>1 DEF Sound
  <2>2. CASE a.draws # 0 /\ a.screen = "filters"
    BY <2>2 DEF Sound
  <2>3. CASE a.draws # 0 /\ a.screen # "filters"
    BY <2>3 DEF Sound
  <2> QED
    BY <2>1, <2>2, <2>3
<1> HIDE DEF pc
<1>5. /\ begun \in Task /\ begun.base = t.base /\ begun.user = t.user
      /\ begun.name = t.name /\ begun.pc = pc
      /\ begun.offer = t.offer /\ begun.index = t.index
  <2>1. begun \in Task
    BY <1>1, <1>2, <1>4, ZenonT(40) DEF Task
  <2> QED
    BY <2>1 DEF Task
<1> HIDE DEF begun
<1>6. /\ first \in Task /\ first.base = t.base /\ first.user = t.user
      /\ first.name = t.name /\ first.pc = pc /\ first.screen = a.screen
      /\ first.draws = a.draws
      /\ first.offer = t.offer /\ first.index = t.index
  <2>1. first \in Task
    BY <1>2, <1>5, ZenonT(40) DEF Task
  <2> QED
    BY <1>5, <2>1 DEF Task
<1> HIDE DEF first
<1>7. /\ second \in Task /\ second.base = t.base /\ second.user = t.user
      /\ second.name = t.name /\ second.pc = pc /\ second.screen = a.screen
      /\ second.draws = a.draws
      /\ second.offer = t.offer /\ second.index = t.index
      /\ second.shows = a.shows /\ second.picked = a.picked
  <2>1. second \in Task
    BY <1>2, <1>6, ZenonT(40) DEF Task
  <2> QED
    BY <1>6, <2>1 DEF Task
<1> HIDE DEF second
<1>8. [second EXCEPT !.saves = a.saves, !.ops = a.ops] \in Task
  BY <1>2, <1>7 DEF Task
<1>9. Decided(t, a) \in Task
  BY <1>3, <1>8
<1> QED
  BY <1>3, <1>4, <1>7, <1>9 DEF Task

LEMMA KeepDecide ==
  ASSUME IInv, NEW h \in Handlers, Decide(h)
  PROVE  IInv'
<1>1. PICK a \in Answers(task[h]) : task' = [task EXCEPT ![h] = Decided(@, a)]
  BY DEF Decide
<1>2. /\ task[h].pc = "loaded"
      /\ UNCHANGED <<row, search, talk, chat, sync, counters, history>>
  BY DEF Decide, At
<1>3. TypeOK /\ task[h] \in Task /\ Held(task[h], chat, sent) /\ Keyed(row, chat, sent)
  BY DEF IInv, TypeOK
<1>4. Sound(a)
  BY <1>1, <1>2, <1>3, AnswersSound DEF Held
<1>5. task'[h] = Decided(task[h], a)
  BY <1>1, <1>3 DEF TypeOK
<1>6. /\ task'[h] \in Task
      /\ task'[h].base = task[h].base /\ task'[h].user = task[h].user
      /\ task'[h].name = task[h].name
      /\ task'[h].pc \in {"commit", "filters", "erase"}
      /\ task'[h].pc = "commit" <=> a.draws = 0
      /\ task'[h].screen = a.screen /\ task'[h].draws = a.draws
  BY <1>3, <1>4, <1>5, DecidedTask
<1>7. \A g \in Handlers \ {h} : task'[g] = task[g]
  BY <1>1, <1>3 DEF TypeOK
<1>8. task' \in [Handlers -> Task]
  BY <1>1, <1>3, <1>5, <1>6 DEF TypeOK
<1>9. TypeOK'
  BY <1>2, <1>3, <1>8 DEF TypeOK, counters, history
<1>10. Steady /\ Held(task'[h], chat', sent')
  BY <1>2, <1>3, <1>4, <1>6 DEF Steady, Held, Sound, TypeOK, counters
<1> QED
  BY <1>2, <1>3, <1>7, <1>9, <1>10, OneHandler DEF counters

\* An operation in Redis touches the dialogue, and of the handler only what it
\* has read and what is left to do.
LEMMA RedisTask ==
  ASSUME TypeOK, NEW h \in Handlers, Redis(h)
  PROVE  /\ h \in Busy /\ task[h].ops # <<>> /\ task[h].ops \in Seq(Op)
         /\ UNCHANGED <<row, search, chat, sync, counters, history>>
         /\ talk' \in Talk /\ task' \in [Handlers -> Task]
         /\ \A g \in Handlers \ {h} : task'[g] = task[g]
         /\ task'[h].ops = Tail(task[h].ops)
         /\ task'[h].pc = task[h].pc /\ task'[h].name = task[h].name
         /\ task'[h].base = task[h].base /\ task'[h].user = task[h].user
         /\ task'[h].offer = task[h].offer /\ task'[h].index = task[h].index
         /\ task'[h].screen = task[h].screen /\ task'[h].draws = task[h].draws
         /\ task'[h].shows = task[h].shows /\ task'[h].picked = task[h].picked
         /\ task'[h].msg = task[h].msg /\ task'[h].saves = task[h].saves
         /\ \/ Head(task[h].ops) = "get" /\ task'[h].data = talk.data /\ talk' = talk
            \/ /\ Head(task[h].ops) = "set"
               /\ talk' = [talk EXCEPT !.data = Written(task[h])]
            \/ Head(task[h].ops) = "empty" /\ talk' = [talk EXCEPT !.data = Empty]
            \/ /\ Head(task[h].ops) \in States
               /\ talk' = [talk EXCEPT !.state = Head(task[h].ops)]
<1> DEFINE t    == task[h]
           op   == Head(t.ops)
           rest == [t EXCEPT !.ops = Tail(@)]
           out(d) == [rest EXCEPT !.data = d]
<1>1. /\ h \in Busy /\ t.ops # <<>>
      /\ \/ /\ op = "get"
            /\ task' = [task EXCEPT ![h] = out(talk.data)] /\ talk' = talk
         \/ /\ op = "set"
            /\ task' = [task EXCEPT ![h] = out(Empty)]
            /\ talk' = [talk EXCEPT !.data = Written(t)]
         \/ /\ op = "empty"
            /\ task' = [task EXCEPT ![h] = rest]
            /\ talk' = [talk EXCEPT !.data = Empty]
         \/ /\ op \in States
            /\ task' = [task EXCEPT ![h] = rest]
            /\ talk' = [talk EXCEPT !.state = op]
      /\ UNCHANGED <<row, search, chat, sync, counters, history>>
  BY DEF Redis
<1>2. /\ t \in Task /\ talk \in Talk /\ task \in [Handlers -> Task]
      /\ t.ops \in Seq(Op) /\ t.data \in Data /\ talk.data \in Data
      /\ t.shows \in Seq(Areas) /\ t.picked \in Areas \cup {Nothing}
  BY DEF TypeOK, Task, Talk
<1>3. Tail(t.ops) \in Seq(Op)
  BY <1>1, <1>2
<1>4. rest \in Task /\ rest.ops = Tail(t.ops)
  BY <1>2, <1>3 DEF Task
<1>5. /\ rest.pc = t.pc /\ rest.name = t.name /\ rest.base = t.base
      /\ rest.user = t.user /\ rest.offer = t.offer /\ rest.index = t.index
      /\ rest.screen = t.screen /\ rest.draws = t.draws
      /\ rest.shows = t.shows /\ rest.picked = t.picked
      /\ rest.msg = t.msg /\ rest.saves = t.saves
  BY <1>2 DEF Task
<1>6. Written(t) \in Data
  BY <1>2 DEF Written, Data
<1> HIDE DEF rest, t
<1>7. ASSUME NEW d \in Data
      PROVE  /\ out(d) \in Task /\ out(d).data = d
             /\ out(d).ops = rest.ops
             /\ out(d).pc = rest.pc /\ out(d).name = rest.name
             /\ out(d).base = rest.base /\ out(d).user = rest.user
             /\ out(d).offer = rest.offer /\ out(d).index = rest.index
             /\ out(d).screen = rest.screen /\ out(d).draws = rest.draws
             /\ out(d).shows = rest.shows /\ out(d).picked = rest.picked
             /\ out(d).msg = rest.msg /\ out(d).saves = rest.saves
  BY <1>4, <1>7 DEF Task
<1> HIDE DEF out
<1>8. talk' \in Talk
  BY <1>1, <1>2, <1>6, SilenceType DEF Talk
<1>9. \A g \in Handlers \ {h} : task'[g] = task[g]
  BY <1>1, <1>2
<1>10. /\ task'[h] = rest \/ \E d \in Data : task'[h] = out(d)
       /\ op = "get" /\ op \notin States => task'[h] = out(talk.data)
  BY <1>1, <1>2, SilenceType
<1>11. task' \in [Handlers -> Task]
  BY <1>1, <1>2, <1>4, <1>7, SilenceType
<1>12. /\ task'[h].ops = Tail(t.ops)
       /\ task'[h].pc = t.pc /\ task'[h].name = t.name
       /\ task'[h].base = t.base /\ task'[h].user = t.user
       /\ task'[h].offer = t.offer /\ task'[h].index = t.index
       /\ task'[h].screen = t.screen /\ task'[h].draws = t.draws
       /\ task'[h].shows = t.shows /\ task'[h].picked = t.picked
       /\ task'[h].msg = t.msg /\ task'[h].saves = t.saves
  BY <1>4, <1>5, <1>7, <1>10
<1>13. op = "get" => op \notin States
  BY DEF States, Inputs
<1>14. \/ op = "get" /\ task'[h].data = talk.data /\ talk' = talk
       \/ op = "set" /\ talk' = [talk EXCEPT !.data = Written(t)]
       \/ op = "empty" /\ talk' = [talk EXCEPT !.data = Empty]
       \/ op \in States /\ talk' = [talk EXCEPT !.state = op]
  BY <1>1, <1>2, <1>7, <1>10, <1>13
<1> QED
  BY <1>1, <1>2, <1>8, <1>9, <1>11, <1>12, <1>14 DEF t

LEMMA KeepRedis ==
  ASSUME IInv, NEW h \in Handlers, Redis(h)
  PROVE  IInv'
<1>1. TypeOK /\ Keyed(row, chat, sent) /\ Held(task[h], chat, sent)
  BY DEF IInv
<1>2. /\ h \in Busy /\ task[h].ops # <<>>
      /\ UNCHANGED <<row, search, chat, sync, counters, history>>
      /\ talk' \in Talk /\ task' \in [Handlers -> Task]
      /\ \A g \in Handlers \ {h} : task'[g] = task[g]
      /\ task'[h].pc = task[h].pc /\ task'[h].name = task[h].name
      /\ task'[h].base = task[h].base /\ task'[h].user = task[h].user
      /\ task'[h].screen = task[h].screen /\ task'[h].draws = task[h].draws
  BY <1>1, RedisTask
<1>3. TypeOK' /\ Steady
  BY <1>1, <1>2 DEF TypeOK, Steady, counters, history
<1>4. Held(task'[h], chat', sent')
  BY <1>1, <1>2 DEF Held, counters
<1> QED
  BY <1>1, <1>2, <1>3, <1>4, OneHandler DEF counters

LEMMA RenderFiltersTask ==
  ASSUME TypeOK, NEW h \in Handlers, RenderFilters(h)
  PROVE  /\ task[h].pc = "filters" /\ task[h].ops = <<>>
         /\ UNCHANGED <<row, search, talk, chat, sync, counters, history>>
         /\ task' \in [Handlers -> Task]
         /\ \A g \in Handlers \ {h} : task'[g] = task[g]
         /\ \E s \in FilterScreens :
              task'[h] = [task[h] EXCEPT !.pc = "erase", !.screen = s]
         /\ task'[h].pc = "erase" /\ task'[h].screen \in FilterScreens
         /\ task'[h].ops = <<>> /\ task'[h].name = task[h].name
         /\ task'[h].base = task[h].base /\ task'[h].user = task[h].user
         /\ task'[h].offer = task[h].offer /\ task'[h].index = task[h].index
         /\ task'[h].draws = task[h].draws
         /\ task'[h].shows = task[h].shows /\ task'[h].picked = task[h].picked
<1>1. PICK s \in FilterScreens :
        task' = [task EXCEPT ![h].pc = "erase", ![h].screen = s]
  BY DEF RenderFilters
<1>2. /\ task[h].pc = "filters" /\ task[h].ops = <<>>
      /\ UNCHANGED <<row, search, talk, chat, sync, counters, history>>
  BY DEF RenderFilters, At
<1>3. task \in [Handlers -> Task] /\ task[h] \in Task
  BY DEF TypeOK
<1>4. s \in ScreenNames
  BY KnownScreens DEF FilterScreens
<1> DEFINE t == [task[h] EXCEPT !.pc = "erase", !.screen = s]
<1>5. task'[h] = t /\ \A g \in Handlers \ {h} : task'[g] = task[g]
  BY <1>1, <1>3
<1>6. /\ t \in Task /\ t.pc = "erase" /\ t.screen = s /\ t.ops = task[h].ops
      /\ t.name = task[h].name /\ t.base = task[h].base /\ t.user = task[h].user
      /\ t.offer = task[h].offer /\ t.index = task[h].index
      /\ t.draws = task[h].draws
      /\ t.shows = task[h].shows /\ t.picked = task[h].picked
  BY <1>3, <1>4 DEF Task
<1>7. \E z \in FilterScreens : task'[h] = [task[h] EXCEPT !.pc = "erase", !.screen = z]
  BY <1>5
<1> HIDE DEF t
<1>8. task' \in [Handlers -> Task]
  BY <1>1, <1>3, <1>5, <1>6
<1> QED
  BY <1>2, <1>5, <1>6, <1>7, <1>8

LEMMA KeepRenderFilters ==
  ASSUME IInv, NEW h \in Handlers, RenderFilters(h)
  PROVE  IInv'
<1>1. TypeOK /\ Keyed(row, chat, sent) /\ Held(task[h], chat, sent)
  BY DEF IInv
<1>2. /\ task[h].pc = "filters"
      /\ UNCHANGED <<row, search, talk, chat, sync, counters, history>>
      /\ task' \in [Handlers -> Task]
      /\ \A g \in Handlers \ {h} : task'[g] = task[g]
      /\ task'[h].pc = "erase" /\ task'[h].screen \in FilterScreens
      /\ task'[h].name = task[h].name
      /\ task'[h].base = task[h].base /\ task'[h].user = task[h].user
      /\ task'[h].draws = task[h].draws
  BY <1>1, RenderFiltersTask
<1>3. TypeOK' /\ Steady
  BY <1>1, <1>2 DEF TypeOK, Steady, counters, history
<1>4. Held(task'[h], chat', sent')
  BY <1>1, <1>2 DEF Held, counters, FilterScreens
<1> QED
  BY <1>1, <1>2, <1>3, <1>4, OneHandler DEF counters

\* A handler that ends leaves nothing behind.
LEMMA EndsIdle ==
  ASSUME task \in [Handlers -> Task], NEW h \in Handlers, Ends(h)
  PROVE  /\ task' \in [Handlers -> Task]
         /\ \A g \in Handlers \ {h} : task'[g] = task[g]
         /\ Held(task'[h], chat', sent')
<1>1. task'[h] = Idle /\ Idle \in Task
  BY IdleHeld DEF Ends
<1> QED
  BY <1>1, IdleHeld DEF Ends

\* Messages disappear.
LEMMA Removed ==
  ASSUME TypeOK, NEW D, chat' = Restrict(chat, DOMAIN chat \ D), sent' = sent
  PROVE  /\ DOMAIN chat' \subseteq 1..sent' /\ chat' \in [DOMAIN chat' -> Message]
         /\ Steady
BY DEF TypeOK, Restrict, Steady

LEMMA KeepDeleteAccount ==
  ASSUME IInv, NEW h \in Handlers, DeleteAccount(h)
  PROVE  IInv'
<1>1. TypeOK /\ Keyed(row, chat, sent)
  BY DEF IInv
<1>2. /\ row' \in {row, NoUser} /\ search' \in {search, Nothing}
      /\ chat' \in {chat, Restrict(chat, DOMAIN chat \ {task[h].msg})}
      /\ faults' = faults \/ (Room /\ faults' = faults + 1)
      /\ Ends(h) /\ UNCHANGED <<talk, sync, sent, accounts, overlaps, history>>
  <2>1. row' \in {row, NoUser} /\ search' \in {search, Nothing}
    BY DEF DeleteAccount
  <2>2. /\ chat' \in {chat, Restrict(chat, DOMAIN chat \ {task[h].msg})}
        /\ faults' = faults \/ (Room /\ faults' = faults + 1)
    BY DEF DeleteAccount
  <2>3. Ends(h) /\ UNCHANGED <<talk, sync, sent, accounts, overlaps, history>>
    BY DEF DeleteAccount
  <2> QED
    BY <2>1, <2>2, <2>3
<1>3. /\ DOMAIN chat' \subseteq 1..sent' /\ chat' \in [DOMAIN chat' -> Message]
      /\ Steady
  <2>1. CASE chat' = chat
    BY <1>1, <1>2, <2>1 DEF TypeOK, Steady
  <2>2. CASE chat' = Restrict(chat, DOMAIN chat \ {task[h].msg})
    BY <1>1, <1>2, <2>2, Removed
  <2> QED
    BY <1>2, <2>1, <2>2
<1>4. /\ task' \in [Handlers -> Task]
      /\ \A g \in Handlers \ {h} : task'[g] = task[g]
      /\ Held(task'[h], chat', sent')
  BY <1>1, <1>2, EndsIdle DEF TypeOK
<1>5. TypeOK'
  <2>1. faults' \in Nat /\ overlaps' + faults' <= MaxTroubles
    BY <1>1, <1>2, ConversationAssumption DEF TypeOK, Room
  <2>2. /\ row' \in Row \cup {NoUser} /\ sync' \in Row \cup {NoUser}
        /\ search' \in Areas \cup {Nothing} /\ talk' = talk /\ sent' = sent
        /\ accounts' = accounts /\ overlaps' = overlaps
        /\ unsaved' = unsaved /\ raced' = raced
    BY <1>1, <1>2 DEF TypeOK, history
  <2> QED
    BY <1>1, <1>3, <1>4, <2>1, <2>2 DEF TypeOK
<1>6. Keyed(row', chat', sent')
  BY <1>1, <1>2, <1>3, <1>5, Carry DEF TypeOK, Keyed
<1> QED
  BY <1>2, <1>3, <1>4, <1>5, <1>6, OneHandler

LEMMA KeepErase ==
  ASSUME IInv, NEW h \in Handlers, Erase(h)
  PROVE  IInv'
<1> DEFINE old == task[h].user.msg
<1>1. /\ TypeOK /\ Keyed(row, chat, sent)
      /\ task[h] \in Task /\ Held(task[h], chat, sent)
  BY DEF IInv, TypeOK
<1>2. /\ task[h].pc = "erase" /\ task' = [task EXCEPT ![h].pc = "show"]
      /\ task[h].ops = <<>>
      /\ UNCHANGED <<row, search, talk, sync, sent, accounts, overlaps, history>>
  BY DEF Erase, At
<1>3. \/ chat' = Restrict(chat, DOMAIN chat \ {old}) /\ faults' = faults
      \/ Room /\ faults' = faults + 1 /\ chat' = chat
  BY DEF Erase, Kept
<1> HIDE DEF old
<1>4. /\ DOMAIN chat' \subseteq 1..sent' /\ chat' \in [DOMAIN chat' -> Message]
      /\ Steady
  <2>1. CASE chat' = chat
    BY <1>1, <1>2, <2>1 DEF TypeOK, Steady
  <2>2. CASE chat' = Restrict(chat, DOMAIN chat \ {old})
    BY <1>1, <1>2, <2>2, Removed
  <2> QED
    BY <1>3, <2>1, <2>2
<1>5. /\ task'[h] \in Task /\ task' \in [Handlers -> Task]
      /\ \A g \in Handlers \ {h} : task'[g] = task[g]
  <2>1. [task[h] EXCEPT !.pc = "show"] \in Task
    BY <1>1 DEF Task
  <2>2. task' = [task EXCEPT ![h] = [task[h] EXCEPT !.pc = "show"]]
    BY <1>1, <1>2 DEF TypeOK
  <2> QED
    BY <1>1, <2>1, <2>2 DEF TypeOK
<1>6. Held(task'[h], chat, sent)
  BY <1>1, <1>2 DEF TypeOK, Task, Held
<1>7. TypeOK'
  <2>1. faults' \in Nat /\ overlaps' + faults' <= MaxTroubles
    BY <1>1, <1>2, <1>3, ConversationAssumption DEF TypeOK, Room
  <2>2. /\ row' = row /\ sync' = sync /\ search' = search /\ talk' = talk
        /\ sent' = sent /\ accounts' = accounts /\ overlaps' = overlaps
        /\ unsaved' = unsaved /\ raced' = raced
    BY <1>2 DEF history
  <2> QED
    BY <1>1, <1>4, <1>5, <2>1, <2>2 DEF TypeOK
<1>8. Keyed(row', chat', sent') /\ Held(task'[h], chat', sent')
  BY <1>1, <1>2, <1>4, <1>5, <1>6, <1>7, Carry DEF TypeOK
<1> QED
  BY <1>2, <1>4, <1>5, <1>7, <1>8, OneHandler

LEMMA KeepShow ==
  ASSUME IInv, NEW h \in Handlers, Show(h)
  PROVE  IInv'
<1> DEFINE t    == task[h]
           new  == sent + 1
           user == [t.user EXCEPT !.msg = new, !.ver = @ + 1, !.screen = t.screen]
           pc   == IF t.draws > 1 THEN "erase" ELSE "commit"
           ops  == IF t.screen = "place-selection" THEN <<"place_selection">> ELSE <<>>
           m    == [ver |-> t.user.ver + 1, screen |-> t.screen, offer |-> t.shows]
<1>1. /\ t.pc = "show" /\ sent < MaxMessages /\ sent' = new
      /\ chat' = [i \in DOMAIN chat \cup {new} |-> IF i = new THEN m ELSE chat[i]]
      /\ task' = [task EXCEPT ![h] =
                    [t EXCEPT !.pc = pc, !.draws = t.draws - 1, !.user = user,
                              !.ops = ops]]
      /\ UNCHANGED <<row, search, talk, sync, accounts, overlaps, faults, history>>
  BY DEF Show, At, Stamp
<1>2. /\ TypeOK /\ Keyed(row, chat, sent) /\ t \in Task /\ Held(t, chat, sent)
  BY DEF IInv, TypeOK
<1>3. /\ t.user \in Row /\ t.user.msg <= sent /\ t.user.ver <= sent
      /\ t.screen \in ScreenNames /\ t.draws \in 1..2 /\ sent \in Nat
      /\ t.shows \in Seq(Areas)
  BY <1>1, <1>2 DEF Held, Keyed, Task, TypeOK
<1>4. /\ user \in Row /\ user.msg = new /\ user.ver = t.user.ver + 1
      /\ m \in Message /\ m.ver = user.ver
  <2>1. /\ new \in 0..MaxMessages /\ t.user.ver + 1 \in 0..MaxMessages
        /\ t.user.ver + 1 \in 1..MaxMessages + 1
    <3>1. t.user.ver \in Nat
      BY <1>3 DEF Row
    <3> QED
      BY <1>1, <1>3, <3>1, ConversationAssumption, SMTT(30)
  <2> HIDE DEF new, t
  <2>2. user \in Row
    BY <1>3, <2>1 DEF Row
  <2>3. user.msg = new /\ user.ver = t.user.ver + 1
    BY <1>3 DEF Row
  <2>4. m \in Message
    BY <1>3, <2>1 DEF Message
  <2> QED
    BY <2>2, <2>3, <2>4
<1>5. pc \in {"erase", "commit"} /\ (pc = "erase" => t.draws = 2)
  BY <1>3
<1>6. \A g \in Handlers \ {h} : task'[g] = task[g]
  BY <1>1, <1>2 DEF TypeOK
<1>7. /\ DOMAIN chat' = DOMAIN chat \cup {new} /\ chat'[new] = m
      /\ \A i \in DOMAIN chat : i # new => chat'[i] = chat[i]
      /\ new \notin DOMAIN chat
  BY <1>1, <1>2, <1>3 DEF TypeOK
<1>8. DOMAIN chat' \subseteq 1..sent' /\ chat' \in [DOMAIN chat' -> Message]
  BY <1>1, <1>2, <1>3, <1>4 DEF TypeOK
<1>9. Steady
  BY <1>1, <1>2, <1>3, <1>7 DEF Steady, TypeOK
<1>10. /\ task'[h] \in Task /\ task'[h].user = user /\ task'[h].base = t.base
       /\ task'[h].pc = pc /\ task'[h].draws = t.draws - 1
       /\ task'[h].screen = t.screen /\ task'[h].name = t.name
  <2>0. ops \in Seq(Op)
    <3>1. "place_selection" \in Op
      BY DEF Op, States
    <3>2. <<"place_selection">> \in Seq(Op) /\ <<>> \in Seq(Op)
      BY <3>1
    <3> QED
      BY <3>2
  <2> HIDE DEF user, pc, m, ops
  <2>1. task'[h] = [t EXCEPT !.pc = pc, !.draws = t.draws - 1, !.user = user,
                             !.ops = ops]
    BY <1>1, <1>2 DEF TypeOK
  <2>2. t.draws - 1 \in 0..2
    BY <1>3
  <2> HIDE DEF t
  <2>3. task'[h] \in Task
    BY <1>2, <1>4, <1>5, <2>0, <2>1, <2>2, ZenonT(40) DEF Task
  <2>4. /\ task'[h].user = user /\ task'[h].base = t.base
        /\ task'[h].pc = pc /\ task'[h].draws = t.draws - 1
    BY <1>2, <2>1 DEF Task
  <2>5. task'[h].screen = t.screen /\ task'[h].name = t.name
    BY <1>2, <2>1 DEF Task
  <2> QED
    BY <2>3, <2>4, <2>5
<1> HIDE DEF user, pc, m, ops
<1>11. task' \in [Handlers -> Task]
  BY <1>1, <1>2, <1>10 DEF TypeOK
<1>12. TypeOK'
  <2>1. sent' \in 0..MaxMessages
    BY <1>1, <1>3, ConversationAssumption
  <2> QED
    BY <1>1, <1>2, <1>8, <1>11, <2>1 DEF TypeOK, history
<1>13. Keyed(row', chat', sent')
  BY <1>1, <1>2, <1>9, <1>12, Carry DEF TypeOK
<1>14. Keyed(task'[h].base, chat', sent')
  <2>1. t.base \in Row \cup {NoUser} /\ Keyed(t.base, chat, sent)
    BY <1>2 DEF Task, Held
  <2> QED
    BY <1>2, <1>9, <1>10, <1>12, <2>1, Carry
<1>15. Keyed(user, chat', sent')
  BY <1>1, <1>3, <1>4, <1>7 DEF Keyed, Row
<1>16. t.base # NoUser => t.base.msg < user.msg /\ t.base.ver < user.ver
  <2>1. t.base # NoUser => t.base \in Row /\ t.user # NoUser
    BY <1>2, <1>3, RowAssumption DEF Task
  <2>2. t.base # NoUser =>
          \/ t.user = t.base
          \/ t.base.msg < t.user.msg /\ t.base.ver < t.user.ver
    BY <1>2, <2>1 DEF Held
  <2>3. /\ user.msg \in Nat /\ user.ver \in Nat
        /\ user.msg > t.user.msg /\ user.ver > t.user.ver
    BY <1>3, <1>4 DEF Row
  <2> HIDE DEF user
  <2>4. t.base # NoUser => /\ t.base.msg \in Nat /\ t.base.ver \in Nat
                           /\ t.user.msg \in Nat /\ t.user.ver \in Nat
    BY <1>3, <2>1 DEF Row
  <2> QED
    BY <2>2, <2>3, <2>4
<1>17. Held(task'[h], chat', sent')
  <2>1. user # NoUser /\ t.name # "none" /\ t.screen # "none"
    BY <1>1, <1>2, <1>4, RowAssumption DEF Held
  <2>2. pc = "erase" => t.draws - 1 # 0
    BY <1>5
  <2>3. pc \notin {"idle", "loaded", "filters", "show"}
    BY <1>5
  <2> QED
    BY <1>10, <1>14, <1>15, <1>16, <2>1, <2>2, <2>3 DEF Held
<1> QED
  BY <1>1, <1>6, <1>9, <1>12, <1>13, <1>17, OneHandler

\* A commit writes message and version of its copy, or neither.
LEMMA CommitKeyed ==
  ASSUME IInv, NEW t \in Task, Held(t, chat, sent), t.base # NoUser,
         row # NoUser, t.user # NoUser
  PROVE  /\ Saved(t) \in Row /\ Keyed(Saved(t), chat, sent)
<1>1. row \in Row /\ t.user \in Row /\ t.base \in Row
  BY DEF IInv, TypeOK, Task
<1>2. Saved(t) \in Row
  BY <1>1 DEF Saved, Row
<1>3. CASE t.user = t.base
  <2>1. Saved(t).msg = row.msg /\ Saved(t).ver = row.ver
    BY <1>1, <1>3 DEF Saved, Row
  <2> QED
    BY <1>2, <2>1, RowAssumption DEF IInv, Keyed
<1>4. CASE t.base.msg < t.user.msg /\ t.base.ver < t.user.ver
  <2>1. t.user.msg # t.base.msg /\ t.user.ver # t.base.ver
    BY <1>1, <1>4 DEF Row
  <2>2. Saved(t).msg = t.user.msg /\ Saved(t).ver = t.user.ver
    BY <1>1, <2>1 DEF Saved, Row
  <2>3. Keyed(t.user, chat, sent)
    BY DEF Held
  <2> QED
    BY <1>1, <1>2, <2>2, <2>3, RowAssumption DEF Keyed
<1> QED
  BY <1>2, <1>3, <1>4 DEF Held

LEMMA KeepCommit ==
  ASSUME IInv, NEW h \in Handlers, Commit(h)
  PROVE  IInv'
<1> DEFINE t == task[h]
<1>1. /\ TypeOK /\ Keyed(row, chat, sent) /\ t \in Task /\ Held(t, chat, sent)
      /\ t.user # NoUser
  BY DEF IInv, TypeOK, Held, Commit, At
<1>2. /\ \/ /\ row' = (IF t.base = NoUser THEN t.user ELSE Saved(t))
            /\ t.base # NoUser => row # NoUser
            /\ search' = IF t.area # Nothing THEN t.area ELSE search
         \/ UNCHANGED <<row, search>>
      /\ unsaved' \in {unsaved, unsaved + 1}
      /\ Ends(h) /\ UNCHANGED <<talk, chat, sync, counters, raced>>
  BY DEF Commit
<1>3. row' \in Row \cup {NoUser} /\ Keyed(row', chat, sent)
  <2>1. t.user \in Row /\ Keyed(t.user, chat, sent)
    BY <1>1 DEF Task, Held
  <2>2. t.base # NoUser /\ row # NoUser => Saved(t) \in Row /\ Keyed(Saved(t), chat, sent)
    BY <1>1, CommitKeyed
  <2> QED
    BY <1>1, <1>2, <2>1, <2>2 DEF TypeOK
<1>4. search' \in Areas \cup {Nothing}
  BY <1>1, <1>2 DEF TypeOK, Task
<1>6. /\ task' \in [Handlers -> Task]
      /\ \A g \in Handlers \ {h} : task'[g] = task[g]
      /\ Held(task'[h], chat', sent')
  BY <1>1, <1>2, EndsIdle DEF TypeOK
<1>7. TypeOK' /\ Steady /\ Keyed(row', chat', sent')
  BY <1>1, <1>2, <1>3, <1>4, <1>6 DEF TypeOK, Steady, counters
<1> QED
  BY <1>2, <1>6, <1>7, OneHandler

LEMMA KeepAbort ==
  ASSUME IInv, NEW h \in Handlers, Abort(h)
  PROVE  IInv'
<1>1. TypeOK /\ Keyed(row, chat, sent)
  BY DEF IInv
<1>2. /\ Room /\ faults' = faults + 1 /\ Ends(h)
      /\ UNCHANGED <<row, search, talk, chat, sync, sent, accounts, overlaps, history>>
  BY DEF Abort
<1>3. /\ task' \in [Handlers -> Task]
      /\ \A g \in Handlers \ {h} : task'[g] = task[g]
      /\ Held(task'[h], chat', sent')
  BY <1>1, <1>2, EndsIdle DEF TypeOK
<1>4. faults' \in Nat /\ overlaps' + faults' <= MaxTroubles
  BY <1>1, <1>2, ConversationAssumption DEF TypeOK, Room
<1>5. TypeOK' /\ Steady /\ Keyed(row', chat', sent')
  BY <1>1, <1>2, <1>3, <1>4 DEF TypeOK, Steady, history
<1> QED
  BY <1>2, <1>3, <1>5, OneHandler

\* Steps of nobody's handler.
LEMMA NoHandler ==
  ASSUME IInv, Steady, TypeOK', task' = task, row' = row,
         sync' \in {sync, row, NoUser}
  PROVE  IInv'
<1>1. Keyed(row', chat', sent') /\ Keyed(sync', chat', sent')
  BY Carry DEF IInv, TypeOK, Keyed
<1>2. \A h \in Handlers : Held(task'[h], chat', sent')
  BY Carry DEF IInv, TypeOK
<1> QED
  BY <1>1, <1>2 DEF IInv

LEMMA KeepSyncBegins == IInv /\ SyncBegins => IInv'
<1> SUFFICES ASSUME IInv, SyncBegins PROVE IInv'
  OBVIOUS
<1>1. TypeOK' /\ Steady
  BY DEF IInv, TypeOK, Steady, SyncBegins, counters, history
<1> QED
  BY <1>1, NoHandler DEF SyncBegins

\* The refreshed menu keeps the version its message had.
LEMMA KeepSyncEnds == IInv /\ SyncEnds => IInv'
<1> SUFFICES ASSUME IInv, SyncEnds PROVE IInv'
  OBVIOUS
<1>1. TypeOK /\ Keyed(sync, chat, sent) /\ sync # NoUser
  BY DEF IInv, SyncEnds
<1>2. /\ \/ /\ sync.msg \in DOMAIN chat
            /\ chat' = [chat EXCEPT ![sync.msg] =
                          [ver |-> sync.ver, screen |-> "main", offer |-> <<>>]]
         \/ chat' = chat
      /\ sync' = NoUser
      /\ UNCHANGED <<row, search, talk, task, counters, history>>
  BY DEF SyncEnds
<1>3. /\ DOMAIN chat' \subseteq 1..sent' /\ chat' \in [DOMAIN chat' -> Message]
      /\ Steady
  <2>1. CASE chat' = chat
    BY <1>1, <1>2, <2>1 DEF TypeOK, Steady, counters
  <2>2. CASE /\ sync.msg \in DOMAIN chat
             /\ chat' = [chat EXCEPT ![sync.msg] =
                           [ver |-> sync.ver, screen |-> "main", offer |-> <<>>]]
    <3> DEFINE m == [ver |-> sync.ver, screen |-> "main", offer |-> <<>>]
    <3>1. chat[sync.msg].ver = sync.ver /\ chat[sync.msg] \in Message
      BY <1>1, <2>2 DEF Keyed, TypeOK
    <3>2. m \in Message /\ m.ver = sync.ver
      BY <3>1, KnownScreens DEF Message
    <3>3. /\ DOMAIN chat' = DOMAIN chat
          /\ \A i \in DOMAIN chat : chat'[i] = chat[i] \/ (i = sync.msg /\ chat'[i] = m)
      BY <1>1, <2>2 DEF TypeOK
    <3>4. chat' \in [DOMAIN chat -> Message]
      BY <1>1, <2>2, <3>2 DEF TypeOK
    <3> HIDE DEF m
    <3> QED
      BY <1>1, <1>2, <3>1, <3>2, <3>3, <3>4 DEF TypeOK, Steady, counters
  <2> QED
    BY <1>2, <2>1, <2>2
<1>4. TypeOK'
  BY <1>1, <1>2, <1>3 DEF TypeOK, counters, history
<1> QED
  BY <1>2, <1>3, <1>4, NoHandler

LEMMA KeepUserDeletes ==
  ASSUME IInv, NEW msg, UserDeletes(msg)
  PROVE  IInv'
<1>1. /\ chat' = Restrict(chat, DOMAIN chat \ {msg})
      /\ Room /\ faults' = faults + 1
      /\ UNCHANGED <<row, search, talk, task, sync, sent, accounts, overlaps, history>>
  BY DEF UserDeletes
<1>2. /\ DOMAIN chat' \subseteq 1..sent' /\ chat' \in [DOMAIN chat' -> Message]
      /\ Steady
  BY <1>1, Removed DEF IInv
<1>3. faults' \in Nat /\ overlaps' + faults' <= MaxTroubles
  BY <1>1, ConversationAssumption DEF IInv, TypeOK, Room
<1>4. TypeOK'
  BY <1>1, <1>2, <1>3 DEF IInv, TypeOK, history
<1> QED
  BY <1>1, <1>2, <1>4, NoHandler

LEMMA InvNext == IInv /\ [Next]_vars => IInv'
<1> SUFFICES ASSUME IInv, [Next]_vars PROVE IInv'
  OBVIOUS
<1>1. ASSUME NEW h \in Handlers, Handle(h) PROVE IInv'
  BY <1>1, KeepReceive, KeepDecide, KeepDeleteAccount, KeepRedis, KeepRenderFilters,
     KeepErase, KeepShow, KeepCommit, KeepAbort DEF Handle
<1>2. CASE UNCHANGED vars
  BY <1>2 DEF vars, counters, history, IInv, TypeOK
<1> QED
  BY <1>1, <1>2, KeepSyncBegins, KeepSyncEnds, KeepUserDeletes DEF Next

LEMMA Invariant == Spec => []IInv
BY InvInit, InvNext, PTL DEF Spec

(***************************************************************************)
(* Types: all state has its type.                                          *)
(***************************************************************************)
THEOREM TypeCorrect == Spec => []TypeOK
<1>1. IInv => TypeOK
  BY DEF IInv
<1> QED
  BY <1>1, Invariant, PTL

(***************************************************************************)
(* Whatever overlaps or fails, the buttons of the message that the user's  *)
(* row names carry the row's version, so a press on them is obeyed.        *)
(***************************************************************************)
THEOREM KeyboardStaysCurrent == Spec => []KeyboardCurrent
<1>1. IInv => KeyboardCurrent
  BY DEF IInv, Keyed, KeyboardCurrent
<1> QED
  BY <1>1, Invariant, PTL
-----------------------------------------------------------------------------
(***************************************************************************)
(* What a step does to the copies of the row and to the chat.              *)
(***************************************************************************)

Same(h) == \A g \in Handlers \ {h} : task'[g] = task[g]

\* The message a handler has loaded, and whether it has drawn another since.
Start(t) == IF t.base = NoUser THEN 0 ELSE t.base.msg
Drew(t) == t.user.msg # Start(t)

LEMMA Numbers ==
  ASSUME IInv
  PROVE  /\ sent \in Nat /\ Active \in 0..sent
         /\ \A h \in Busy :
              /\ task[h] \in Task /\ task[h].user \in Row /\ task[h].user # NoUser
              /\ task[h].user.msg \in 0..sent /\ Start(task[h]) \in 0..sent
              /\ task[h].base # NoUser => task[h].base \in Row
              /\ Drew(task[h]) => task[h].user.msg # 0
<1>1. TypeOK /\ Keyed(row, chat, sent)
  BY DEF IInv
<1>2. sent \in Nat
  BY <1>1 DEF TypeOK
<1>3. Active \in 0..sent
  BY <1>1, <1>2 DEF TypeOK, Keyed, Active, Row
<1>4. ASSUME NEW h \in Busy
      PROVE  /\ task[h] \in Task /\ task[h].user \in Row /\ task[h].user # NoUser
             /\ task[h].user.msg \in 0..sent /\ Start(task[h]) \in 0..sent
             /\ task[h].base # NoUser => task[h].base \in Row
             /\ Drew(task[h]) => task[h].user.msg # 0
  <2>1. h \in Handlers /\ task[h].pc # "idle"
    BY DEF Busy
  <2>2. task[h] \in Task /\ Held(task[h], chat, sent)
    BY <1>1, <2>1 DEF TypeOK, IInv
  <2>3. task[h].user # NoUser /\ Keyed(task[h].user, chat, sent) /\ Keyed(task[h].base, chat, sent)
    BY <2>1, <2>2 DEF Held
  <2>4. task[h].user \in Row /\ (task[h].base # NoUser => task[h].base \in Row)
    BY <2>2, <2>3 DEF Task
  <2>5. task[h].user.msg \in Nat /\ task[h].user.msg <= sent
    BY <2>3, <2>4 DEF Row, Keyed
  <2>6. task[h].base # NoUser => task[h].base.msg \in Nat /\ task[h].base.msg <= sent
    BY <2>3, <2>4 DEF Row, Keyed
  <2>7. task[h].base # NoUser => task[h].user = task[h].base \/ task[h].base.msg < task[h].user.msg
    BY <2>2, <2>3 DEF Held
  <2>8. Start(task[h]) \in 0..sent
    BY <1>2, <2>6 DEF Start
  <2>9. Drew(task[h]) => task[h].user.msg # 0
    BY <2>5, <2>6, <2>7 DEF Start, Drew
  <2> QED
    BY <1>2, <2>2, <2>3, <2>4, <2>5, <2>8, <2>9
<1> QED
  BY <1>2, <1>3, <1>4

LEMMA Received ==
  ASSUME IInv, NEW h \in Handlers, Receive(h)
  PROVE  /\ task[h].pc = "idle" /\ Same(h) /\ IInv'
         /\ UNCHANGED <<row, search, talk, chat, sync, sent, faults, unsaved>>
         /\ task'[h].base = row /\ task'[h].user.msg = Active
         /\ row # NoUser => task'[h].user = row
         /\ task'[h].screen = "none" /\ task'[h].picked = Nothing
         /\ task'[h].ops = <<>>
         /\ overlaps' = IF Busy # {} THEN overlaps + 1 ELSE overlaps
         /\ row = NoUser => \A g \in Busy : task[g].base # NoUser
         /\ \E q \in Messages \cup Presses :
              /\ task'[h].name = q.name /\ task'[h].msg = q.msg
              /\ task'[h].offer = q.offer /\ task'[h].index = q.index
              /\ task'[h].pc = IF q.msg # 0 /\ ~IsCurrent(task'[h].user, q) THEN "commit" ELSE "loaded"
              /\ raced' = (raced \/ /\ q.name \in PicksPlace
                                    /\ \E g \in Busy : task[g].name \in PicksPlace)
<1> DEFINE user == IF row = NoUser THEN NewUser ELSE row
<1>1. PICK q \in Messages \cup Presses :
        /\ At(h, "idle")
        /\ row = NoUser => \A g \in Busy : task[g].base # NoUser
        /\ task' = [task EXCEPT ![h] =
             [Idle EXCEPT !.pc = IF q.msg # 0 /\ ~IsCurrent(user, q)
                                 THEN "commit" ELSE "loaded",
                !.name = q.name, !.msg = q.msg, !.offer = q.offer,
                !.index = q.index, !.base = row, !.user = user]]
        /\ overlaps' = IF Busy # {} THEN overlaps + 1 ELSE overlaps
        /\ raced' = (raced \/ /\ q.name \in PicksPlace
                              /\ \E g \in Busy : task[g].name \in PicksPlace)
        /\ UNCHANGED <<row, search, talk, chat, sync, sent, faults, unsaved>>
  BY DEF Receive
<1>2. task \in [Handlers -> Task] /\ IInv'
  BY KeepReceive DEF IInv, TypeOK
<1>3. Same(h)
  BY <1>1, <1>2 DEF Same
<1>4. user.msg = Active /\ (row # NoUser => user = row)
  BY DEF Active, NewUser
<1> HIDE DEF user
<1>5. /\ task'[h].pc = IF q.msg # 0 /\ ~IsCurrent(user, q) THEN "commit" ELSE "loaded"
      /\ task'[h].name = q.name /\ task'[h].msg = q.msg
      /\ task'[h].offer = q.offer /\ task'[h].index = q.index
      /\ task'[h].base = row /\ task'[h].user = user
      /\ task'[h].screen = "none" /\ task'[h].picked = Nothing
      /\ task'[h].ops = <<>>
  BY <1>1, <1>2 DEF Idle
<1>6. /\ task'[h].name = q.name /\ task'[h].msg = q.msg
      /\ task'[h].offer = q.offer /\ task'[h].index = q.index
      /\ task'[h].pc = IF q.msg # 0 /\ ~IsCurrent(task'[h].user, q) THEN "commit" ELSE "loaded"
      /\ raced' = (raced \/ /\ q.name \in PicksPlace
                            /\ \E g \in Busy : task[g].name \in PicksPlace)
  BY <1>1, <1>5
<1>7. /\ task[h].pc = "idle"
      /\ UNCHANGED <<row, search, talk, chat, sync, sent, faults, unsaved>>
      /\ overlaps' = IF Busy # {} THEN overlaps + 1 ELSE overlaps
      /\ row = NoUser => \A g \in Busy : task[g].base # NoUser
  BY <1>1 DEF At
<1> QED
  BY <1>2, <1>3, <1>4, <1>5, <1>6, <1>7

LEMMA Decides ==
  ASSUME IInv, NEW h \in Handlers, Decide(h)
  PROVE  /\ task[h].pc = "loaded" /\ Same(h) /\ IInv' /\ h \in Busy
         /\ UNCHANGED <<row, search, talk, chat, sync, counters, history>>
         /\ task'[h].base = task[h].base /\ task'[h].user = task[h].user
         /\ task'[h].name = task[h].name
         /\ task'[h].offer = task[h].offer /\ task'[h].index = task[h].index
         /\ task'[h].pc \in {"commit", "filters", "erase"}
         /\ task'[h].pc = "commit" <=> task'[h].screen = "none"
         /\ task'[h].pc = "filters" => task'[h].screen = "filters"
         /\ \E a \in Answers(task[h]) :
              /\ task'[h].ops = a.ops /\ task'[h].screen = a.screen
              /\ task'[h].shows = a.shows /\ task'[h].picked = a.picked
<1>1. PICK a \in Answers(task[h]) : task' = [task EXCEPT ![h] = Decided(@, a)]
  BY DEF Decide
<1>2. task \in [Handlers -> Task] /\ IInv' /\ task[h] \in Task /\ task[h].pc = "loaded" /\ TypeOK
  BY KeepDecide DEF IInv, TypeOK, Decide, At
<1>3. task[h].name # "none"
  BY <1>2 DEF IInv, Held
<1>4. Sound(a)
  BY <1>2, <1>3, AnswersSound
<1>5. task'[h] = Decided(task[h], a)
  BY <1>1, <1>2
<1>6. /\ task'[h].base = task[h].base /\ task'[h].user = task[h].user
      /\ task'[h].name = task[h].name
      /\ task'[h].offer = task[h].offer /\ task'[h].index = task[h].index
      /\ task'[h].screen = a.screen /\ task'[h].shows = a.shows
      /\ task'[h].picked = a.picked /\ task'[h].ops = a.ops
      /\ task'[h].pc \in {"commit", "filters", "erase"}
      /\ task'[h].pc = "commit" <=> a.draws = 0
      /\ task'[h].pc = "filters" => a.screen = "filters"
  BY <1>2, <1>4, <1>5, DecidedTask
<1>7. a.draws = 0 <=> a.screen = "none"
  BY <1>4 DEF Sound
<1>8. Same(h) /\ h \in Busy
  BY <1>1, <1>2 DEF Same, Busy
<1>9. UNCHANGED <<row, search, talk, chat, sync, counters, history>>
  BY DEF Decide
<1> QED
  BY <1>1, <1>2, <1>6, <1>7, <1>8, <1>9

\* Whoever does something in Redis goes on as before.
LEMMA Stores ==
  ASSUME IInv, NEW h \in Handlers, Redis(h)
  PROVE  /\ h \in Busy /\ Same(h) /\ IInv'
         /\ UNCHANGED <<row, search, chat, sync, counters, history>>
         /\ task'[h].pc = task[h].pc /\ task'[h].name = task[h].name
         /\ task'[h].base = task[h].base /\ task'[h].user = task[h].user
         /\ task'[h].screen = task[h].screen /\ task'[h].draws = task[h].draws
         /\ task'[h].msg = task[h].msg /\ task'[h].saves = task[h].saves
<1>1. TypeOK
  BY DEF IInv
<1> QED
  BY <1>1, KeepRedis, RedisTask DEF Same

LEMMA Renders ==
  ASSUME IInv, NEW h \in Handlers, RenderFilters(h)
  PROVE  /\ task[h].pc = "filters" /\ h \in Busy /\ Same(h) /\ IInv'
         /\ UNCHANGED <<row, search, talk, chat, sync, counters, history>>
         /\ task'[h].pc = "erase" /\ task'[h].screen \in FilterScreens
         /\ task'[h].ops = <<>> /\ task'[h].name = task[h].name
         /\ task'[h].base = task[h].base /\ task'[h].user = task[h].user
         /\ task'[h].offer = task[h].offer /\ task'[h].index = task[h].index
         /\ task'[h].shows = task[h].shows /\ task'[h].picked = task[h].picked
<1>1. TypeOK
  BY DEF IInv
<1> QED
  BY <1>1, KeepRenderFilters, RenderFiltersTask DEF Same, Busy

LEMMA Gone ==
  ASSUME IInv, NEW h \in Handlers, Ends(h)
  PROVE  Same(h) /\ task'[h] = Idle /\ task'[h].pc = "idle"
<1>1. task \in [Handlers -> Task]
  BY DEF IInv, TypeOK
<1> QED
  BY <1>1 DEF Ends, Same, Idle

LEMMA Deletes ==
  ASSUME IInv, NEW h \in Handlers, DeleteAccount(h)
  PROVE  /\ task[h].pc = "loaded" /\ task[h].name = "delete-yes" /\ h \in Busy
         /\ Same(h) /\ task'[h] = Idle /\ IInv'
         /\ UNCHANGED <<talk, sync, sent, overlaps, unsaved, raced>>
         /\ \/ row' = NoUser
            \/ row' = row /\ (row # NoUser => row.id # task[h].user.id)
         /\ row # NoUser /\ row.id = task[h].user.id => row' = NoUser
         /\ \/ chat' = Restrict(chat, DOMAIN chat \ {task[h].msg}) /\ faults' = faults
            \/ chat' = chat /\ faults' = faults + 1
<1>1. task[h].pc = "loaded" /\ task[h].name = "delete-yes" /\ h \in Busy /\ Ends(h)
  BY DEF DeleteAccount, At, Busy
<1>2. /\ UNCHANGED <<talk, sync, sent, overlaps, unsaved, raced>>
      /\ \/ row' = NoUser
         \/ row' = row /\ (row # NoUser => row.id # task[h].user.id)
      /\ row # NoUser /\ row.id = task[h].user.id => row' = NoUser
      /\ \/ chat' = Restrict(chat, DOMAIN chat \ {task[h].msg}) /\ faults' = faults
         \/ chat' = chat /\ faults' = faults + 1
  BY DEF DeleteAccount, history
<1> QED
  BY <1>1, <1>2, Gone, KeepDeleteAccount

LEMMA Erases ==
  ASSUME IInv, NEW h \in Handlers, Erase(h)
  PROVE  /\ task[h].pc = "erase" /\ h \in Busy /\ Same(h) /\ IInv'
         /\ task[h].ops = <<>> /\ task'[h].ops = <<>>
         /\ UNCHANGED <<row, search, talk, sync, sent, overlaps, history>>
         /\ task'[h].pc = "show" /\ task'[h].base = task[h].base /\ task'[h].user = task[h].user
         /\ task'[h].name = task[h].name /\ task'[h].screen = task[h].screen
         /\ task'[h].offer = task[h].offer /\ task'[h].index = task[h].index
         /\ task'[h].shows = task[h].shows /\ task'[h].picked = task[h].picked
         /\ \/ chat' = Restrict(chat, DOMAIN chat \ {task[h].user.msg}) /\ faults' = faults
            \/ chat' = chat /\ faults' = faults + 1
<1>1. task \in [Handlers -> Task] /\ task[h].pc = "erase" /\ task[h] \in Task
  BY DEF IInv, TypeOK, Erase, At
<1>2. task' = [task EXCEPT ![h].pc = "show"] /\ task[h].ops = <<>>
  BY DEF Erase
<1>3. Same(h) /\ task'[h] = [task[h] EXCEPT !.pc = "show"]
  BY <1>1, <1>2 DEF Same
<1>4. /\ task'[h].pc = "show" /\ task'[h].base = task[h].base /\ task'[h].user = task[h].user
      /\ task'[h].ops = task[h].ops
      /\ task'[h].name = task[h].name /\ task'[h].screen = task[h].screen
      /\ task'[h].offer = task[h].offer /\ task'[h].index = task[h].index
      /\ task'[h].shows = task[h].shows /\ task'[h].picked = task[h].picked
  BY <1>1, <1>3 DEF Task
<1>5. /\ UNCHANGED <<row, search, talk, sync, sent, overlaps, history>>
      /\ \/ chat' = Restrict(chat, DOMAIN chat \ {task[h].user.msg}) /\ faults' = faults
         \/ chat' = chat /\ faults' = faults + 1
  BY DEF Erase, Kept
<1> QED
  BY <1>1, <1>2, <1>3, <1>4, <1>5, KeepErase DEF Busy

LEMMA Draws ==
  ASSUME IInv, NEW h \in Handlers, Show(h)
  PROVE  /\ task[h].pc = "show" /\ h \in Busy /\ Same(h) /\ IInv'
         /\ UNCHANGED <<row, search, talk, sync, overlaps, faults, history>>
         /\ sent' = sent + 1 /\ sent + 1 \notin DOMAIN chat
         /\ DOMAIN chat' = DOMAIN chat \cup {sent + 1}
         /\ \A i \in DOMAIN chat : chat'[i] = chat[i]
         /\ chat'[sent + 1].screen = task[h].screen /\ chat'[sent + 1].offer = task[h].shows
         /\ task[h].screen # "none"
         /\ task'[h].pc \in {"erase", "commit"} /\ task'[h].base = task[h].base
         /\ task'[h].user.id = task[h].user.id /\ task'[h].user.msg = sent + 1
         /\ task'[h].user.screen = task[h].screen
         /\ task'[h].name = task[h].name /\ task'[h].screen = task[h].screen
         /\ task'[h].offer = task[h].offer /\ task'[h].index = task[h].index
         /\ task'[h].shows = task[h].shows /\ task'[h].picked = task[h].picked
         /\ task[h].ops = <<>>
         /\ task'[h].ops = IF task[h].screen = "place-selection"
                           THEN <<"place_selection">> ELSE <<>>
<1> DEFINE t    == task[h]
           new  == sent + 1
           user == [t.user EXCEPT !.msg = new, !.ver = @ + 1, !.screen = t.screen]
           pc   == IF t.draws > 1 THEN "erase" ELSE "commit"
           ops  == IF t.screen = "place-selection" THEN <<"place_selection">> ELSE <<>>
           m    == [ver |-> Stamp(t.user), screen |-> t.screen, offer |-> t.shows]
<1>1. /\ t.pc = "show" /\ sent' = new
      /\ chat' = [i \in DOMAIN chat \cup {new} |-> IF i = new THEN m ELSE chat[i]]
      /\ task' = [task EXCEPT ![h] =
                    [t EXCEPT !.pc = pc, !.draws = t.draws - 1, !.user = user,
                              !.ops = ops]]
      /\ UNCHANGED <<row, search, talk, sync, overlaps, faults, history>>
  BY DEF Show, At
<1>2. task \in [Handlers -> Task] /\ t \in Task /\ Held(t, chat, sent) /\ IInv'
      /\ sent \in Nat /\ DOMAIN chat \subseteq 1..sent
  BY KeepShow DEF IInv, TypeOK
<1>3. t.user \in Row /\ t.screen # "none" /\ h \in Busy /\ t.ops = <<>>
  BY <1>1, <1>2 DEF Held, Task, Busy
<1>4. user.id = t.user.id /\ user.msg = new /\ user.screen = t.screen
  BY <1>3 DEF Row
<1>5. pc \in {"erase", "commit"}
  OBVIOUS
<1>6. new \notin DOMAIN chat
  BY <1>2
<1>7. /\ DOMAIN chat' = DOMAIN chat \cup {new}
      /\ \A i \in DOMAIN chat : chat'[i] = chat[i]
      /\ chat'[new] = m /\ m.screen = t.screen /\ m.offer = t.shows
  <2> HIDE DEF new
  <2> QED
    BY <1>1, <1>6
<1> HIDE DEF user, pc, new, m, ops
<1>8. Same(h) /\ task'[h] = [t EXCEPT !.pc = pc, !.draws = t.draws - 1, !.user = user,
                                         !.ops = ops]
  BY <1>1, <1>2 DEF Same
<1>9. /\ task'[h].pc = pc /\ task'[h].base = t.base /\ task'[h].user = user
      /\ task'[h].name = t.name /\ task'[h].screen = t.screen
      /\ task'[h].offer = t.offer /\ task'[h].index = t.index
      /\ task'[h].shows = t.shows /\ task'[h].picked = t.picked
      /\ task'[h].ops = ops
  BY <1>2, <1>8 DEF Task
<1> QED
  BY <1>1, <1>2, <1>3, <1>4, <1>5, <1>6, <1>7, <1>8, <1>9 DEF new, ops

\* The account a handler has loaded is still that of the row.
Lives(t) == row # NoUser /\ row.id = t.user.id

LEMMA Commits ==
  ASSUME IInv, NEW h \in Handlers, Commit(h)
  PROVE  /\ task[h].pc = "commit" /\ h \in Busy
         /\ Same(h) /\ task'[h] = Idle /\ IInv'
         /\ task[h].ops = <<>>
         /\ UNCHANGED <<talk, chat, sync, sent, overlaps, faults, raced>>
         /\ unsaved' = IF ~task[h].saves /\ task[h].screen # "none" THEN unsaved + 1 ELSE unsaved
         /\ \/ /\ row' = row
               /\ task[h].saves => task[h].base # NoUser /\ ~Lives(task[h])
            \/ /\ \/ task[h].base = NoUser /\ row' = task[h].user
                  \/ task[h].base # NoUser /\ Lives(task[h]) /\ row' = Saved(task[h])
               /\ task[h].saves
<1>1. task[h].pc = "commit" /\ h \in Busy /\ Ends(h) /\ task[h].ops = <<>>
      /\ UNCHANGED <<talk, chat, sync, sent, overlaps, faults, raced>>
      /\ unsaved' = IF ~task[h].saves /\ task[h].screen # "none" THEN unsaved + 1 ELSE unsaved
  BY DEF Commit, At, Busy, counters
<1>2. task[h].saves \in BOOLEAN
  BY <1>1, Numbers DEF Task
<1>3. CASE task[h].saves /\ (task[h].base = NoUser \/ Lives(task[h]))
  <2>1. row' = IF task[h].base = NoUser THEN task[h].user ELSE Saved(task[h])
    BY <1>3 DEF Commit, Lives
  <2> QED
    BY <1>1, <1>3, <2>1, Gone, KeepCommit
<1>4. CASE ~(task[h].saves /\ (task[h].base = NoUser \/ Lives(task[h])))
  <2>1. row' = row
    BY <1>4 DEF Commit, Lives
  <2> QED
    BY <1>1, <1>4, <2>1, Gone, KeepCommit
<1> QED
  BY <1>3, <1>4

LEMMA Aborts ==
  ASSUME IInv, NEW h \in Handlers, Abort(h)
  PROVE  /\ h \in Busy /\ Same(h) /\ task'[h] = Idle /\ IInv'
         /\ UNCHANGED <<row, talk, chat, sync, sent, overlaps, history>>
         /\ faults' = faults + 1
<1>1. h \in Busy /\ Ends(h) /\ UNCHANGED <<row, talk, chat, sync, sent, overlaps, history>>
      /\ faults' = faults + 1
  BY DEF Abort
<1> QED
  BY <1>1, Gone, KeepAbort

\* The columns a commit writes: all that it has drawn, or nothing.
LEMMA SavedIs ==
  ASSUME IInv, NEW h \in Busy, task[h].base # NoUser, row # NoUser
  PROVE  /\ Saved(task[h]).id = row.id
         /\ Saved(task[h]).msg = IF Drew(task[h]) THEN task[h].user.msg ELSE row.msg
         /\ ~Drew(task[h]) => Saved(task[h]) = row
<1> DEFINE t == task[h]
<1>1. row \in Row /\ t.user \in Row /\ t.base \in Row /\ Start(t) = t.base.msg
  BY Numbers DEF IInv, TypeOK, Start
<1>2. Held(t, chat, sent) /\ t.user # NoUser
  BY Numbers DEF IInv, Busy
<1>3. ~Drew(t) => t.user = t.base
  BY <1>1, <1>2 DEF Held, Drew, Row
<1> HIDE DEF t
<1>4. Saved(t).id = row.id /\ Saved(t).msg = IF t.user.msg # t.base.msg THEN t.user.msg ELSE row.msg
  BY <1>1 DEF Saved, Row
<1>5. t.user = t.base => Saved(t) = row
  BY <1>1 DEF Saved, Row
<1> QED
  BY <1>1, <1>3, <1>4, <1>5 DEF Drew, t
-----------------------------------------------------------------------------
(***************************************************************************)
(* Whose message is whose.  A handler knows the account and the message it *)
(* has loaded; what it has drawn since belongs to nobody else, and is not  *)
(* the row's before the commit.                                            *)
(***************************************************************************)

Copied(t) ==
  t.pc # "idle" =>
    /\ t.base # NoUser => t.base.id = t.user.id
    /\ t.pc \in {"loaded", "filters"} => ~Drew(t)
    /\ t.pc = "loaded" /\ t.name = "delete-yes" => t.msg = t.user.msg
    /\ t.pc = "commit" => (Drew(t) <=> t.screen # "none")

OwnMessages ==
  \A h, g \in Busy :
    Drew(task[h]) => /\ Active # task[h].user.msg
                     /\ g # h => task[g].user.msg # task[h].user.msg

CopiesInv == OwnMessages /\ \A h \in Handlers : Copied(task[h])

LEMMA CopiesInit == Init => CopiesInv
<1> SUFFICES ASSUME Init PROVE CopiesInv
  OBVIOUS
<1>1. \A h \in Handlers : task[h].pc = "idle"
  BY DEF Init, Idle
<1> QED
  BY <1>1 DEF CopiesInv, OwnMessages, Copied, Busy

\* Nothing happens to the row or to the handlers.
LEMMA CopiesStay ==
  ASSUME CopiesInv, UNCHANGED <<row, task>>
  PROVE  CopiesInv'
<1>1. Busy' = Busy /\ Active' = Active
  BY DEF Busy, Active
<1>2. \A h : Drew(task[h])' = Drew(task[h]) /\ Copied(task[h])' = Copied(task[h])
  BY DEF Drew, Start, Copied
<1> QED
  BY <1>1, <1>2 DEF CopiesInv, OwnMessages

\* A handler goes on with the copies it has.
LEMMA CopiesOn ==
  ASSUME CopiesInv, NEW h \in Busy, Same(h), row' = row,
         task'[h].base = task[h].base, task'[h].user = task[h].user,
         Copied(task[h])', task'[h].pc # "idle"
  PROVE  CopiesInv'
<1>1. Busy' = Busy /\ Active' = Active
  BY DEF Busy, Active, Same
<1>2. \A g \in Busy : Drew(task[g])' = Drew(task[g]) /\ task'[g].user = task[g].user
  BY DEF Drew, Start, Same, Busy
<1>3. OwnMessages'
  BY <1>1, <1>2 DEF CopiesInv, OwnMessages
<1>4. \A g \in Handlers : Copied(task[g])'
  <2> SUFFICES ASSUME NEW g \in Handlers, g # h PROVE Copied(task[g])'
    OBVIOUS
  <2>1. task'[g] = task[g] /\ Copied(task[g])
    BY DEF Same, CopiesInv
  <2> QED
    BY <2>1 DEF Copied, Drew, Start
<1> QED
  BY <1>3, <1>4 DEF CopiesInv

\* A handler is done: the row keeps its message, has none, or has its own.
LEMMA CopiesEnd ==
  ASSUME IInv, CopiesInv, NEW h \in Busy, Same(h), task'[h] = Idle,
         Active' \in {0, Active, task[h].user.msg}
  PROVE  CopiesInv'
<1>1. Idle.pc = "idle"
  BY DEF Idle
<1>2. \A g : g \in Busy' => g \in Busy /\ g # h /\ task'[g] = task[g]
  BY <1>1 DEF Busy, Same
<1>3. \A g : g \in Busy' => Drew(task[g])' = Drew(task[g])
  BY <1>2 DEF Drew, Start
<1>4. ASSUME NEW g \in Busy, g # h, Drew(task[g]) PROVE Active' # task[g].user.msg
  BY <1>4, Numbers DEF CopiesInv, OwnMessages
<1>5. OwnMessages'
  BY <1>2, <1>3, <1>4 DEF CopiesInv, OwnMessages
<1>6. \A g \in Handlers : Copied(task[g])'
  <2> SUFFICES ASSUME NEW g \in Handlers PROVE Copied(task[g])'
    OBVIOUS
  <2>1. CASE g = h
    BY <1>1, <2>1 DEF Copied
  <2>2. CASE g # h
    <3>1. task'[g] = task[g] /\ Copied(task[g])
      BY <2>2 DEF Same, CopiesInv
    <3> QED
      BY <3>1 DEF Copied, Drew, Start
  <2> QED
    BY <2>1, <2>2
<1> QED
  BY <1>5, <1>6 DEF CopiesInv

\* A handler has a new copy, or a new message in the one it has.
LEMMA CopiesNew ==
  ASSUME IInv, CopiesInv, NEW h \in Handlers, Same(h), row' = row, Copied(task[h])',
         \/ ~Drew(task[h])' /\ task'[h].user.msg = Active
         \/ task'[h].user.msg = sent + 1
  PROVE  CopiesInv'
<1>1. Active' = Active /\ Active \in 0..sent /\ sent \in Nat
  BY Numbers DEF Active
<1>2. \A g : g \in Busy' /\ g # h => g \in Busy /\ task'[g] = task[g]
  BY DEF Busy, Same
<1>3. \A g : g \in Busy' /\ g # h => Drew(task[g])' = Drew(task[g]) /\ task[g].user.msg \in 0..sent
  BY <1>2, Numbers DEF Drew, Start
<1>4. OwnMessages'
  <2> SUFFICES ASSUME NEW p \in Busy', NEW g \in Busy', Drew(task[p])'
               PROVE  Active # task'[p].user.msg /\ (g # p => task'[g].user.msg # task'[p].user.msg)
    BY <1>1 DEF OwnMessages
  <2>1. CASE p = h
    <3>1. task'[h].user.msg = sent + 1
      BY <2>1
    <3> QED
      BY <1>1, <1>2, <1>3, <2>1, <3>1
  <2>2. CASE p # h
    <3>1. p \in Busy /\ task'[p] = task[p] /\ Drew(task[p]) /\ task[p].user.msg \in 0..sent
      BY <1>2, <1>3, <2>2
    <3>2. Active # task[p].user.msg /\ \A q \in Busy : q # p => task[q].user.msg # task[p].user.msg
      BY <3>1 DEF CopiesInv, OwnMessages
    <3>3. CASE g = h
      BY <1>1, <3>1, <3>2, <3>3
    <3>4. CASE g # h
      BY <1>2, <3>1, <3>2, <3>4
    <3> QED
      BY <3>3, <3>4
  <2> QED
    BY <2>1, <2>2
<1>5. \A g \in Handlers : Copied(task[g])'
  <2> SUFFICES ASSUME NEW g \in Handlers, g # h PROVE Copied(task[g])'
    OBVIOUS
  <2>1. task'[g] = task[g] /\ Copied(task[g])
    BY DEF Same, CopiesInv
  <2> QED
    BY <2>1 DEF Copied, Drew, Start
<1> QED
  BY <1>4, <1>5 DEF CopiesInv

\* An outdated press, and what is not a press, is no "delete-yes".
LEMMA DeletesByButton ==
  ASSUME NEW q \in Messages \cup Presses, q.name = "delete-yes"
  PROVE  TypeOK => q.msg # 0
<1> SUFFICES ASSUME TypeOK PROVE q.msg # 0
  OBVIOUS
<1>1. CASE q \in Messages
  <2>1. PICK c \in Commands \cup Inputs : q = Request(c, 0, 0, <<>>, 1)
    BY <1>1 DEF Messages
  <2>2. c = "delete-yes"
    BY <2>1 DEF Request
  <2> QED
    BY <2>2 DEF Commands, Inputs
<1>2. CASE q \in Presses
  <2>1. PICK i \in DOMAIN chat : \E b, n : q = Request(b, i, chat[i].ver, chat[i].offer, n)
    BY <1>2 DEF Presses
  <2>2. q.msg = i /\ i # 0
    BY <2>1 DEF TypeOK, Request
  <2> QED
    BY <2>2
<1> QED
  BY <1>1, <1>2

LEMMA CopiesStep == IInv /\ CopiesInv /\ [Next]_vars => CopiesInv'
<1> SUFFICES ASSUME IInv, CopiesInv, [Next]_vars PROVE CopiesInv'
  OBVIOUS
<1>1. ASSUME NEW h \in Handlers, Receive(h) PROVE CopiesInv'
  <2>1. /\ Same(h) /\ row' = row /\ task'[h].base = row /\ task'[h].user.msg = Active
        /\ row # NoUser => task'[h].user = row
        /\ task'[h].screen = "none"
    BY <1>1, Received
  <2>2. PICK q \in Messages \cup Presses :
              /\ task'[h].name = q.name /\ task'[h].msg = q.msg
              /\ task'[h].pc = IF q.msg # 0 /\ ~IsCurrent(task'[h].user, q) THEN "commit" ELSE "loaded"
    BY <1>1, Received
  <2>3. ~Drew(task[h])'
    BY <2>1 DEF Drew, Start, Active
  <2>4. task'[h].pc = "loaded" /\ task'[h].name = "delete-yes" => task'[h].msg = task'[h].user.msg
    BY <2>2, DeletesByButton DEF IsCurrent, IInv
  <2>5. Copied(task[h])'
    BY <2>1, <2>2, <2>3, <2>4 DEF Copied, Drew, Start
  <2> QED
    BY <2>1, <2>3, <2>5, CopiesNew
<1>2. ASSUME NEW h \in Handlers, Decide(h) PROVE CopiesInv'
  <2>1. /\ h \in Busy /\ Same(h) /\ row' = row /\ task[h].pc = "loaded"
        /\ task'[h].base = task[h].base /\ task'[h].user = task[h].user
        /\ task'[h].pc \in {"commit", "filters", "erase"}
        /\ task'[h].pc = "commit" <=> task'[h].screen = "none"
    BY <1>2, Decides
  <2>2. Copied(task[h])'
    BY <2>1 DEF CopiesInv, Copied, Drew, Start
  <2> QED
    BY <2>1, <2>2, CopiesOn
<1>9. ASSUME NEW h \in Handlers, Redis(h) PROVE CopiesInv'
  <2>1. /\ h \in Busy /\ Same(h) /\ row' = row /\ task'[h].pc = task[h].pc
        /\ task'[h].base = task[h].base /\ task'[h].user = task[h].user
        /\ task'[h].name = task[h].name /\ task'[h].msg = task[h].msg
        /\ task'[h].screen = task[h].screen
    BY <1>9, Stores
  <2>2. Copied(task[h])' /\ task'[h].pc # "idle"
    BY <2>1 DEF CopiesInv, Copied, Drew, Start, Busy
  <2> QED
    BY <2>1, <2>2, CopiesOn
<1>10. ASSUME NEW h \in Handlers, RenderFilters(h) PROVE CopiesInv'
  <2>1. /\ h \in Busy /\ Same(h) /\ row' = row /\ task[h].pc = "filters"
        /\ task'[h].base = task[h].base /\ task'[h].user = task[h].user
        /\ task'[h].pc = "erase"
    BY <1>10, Renders
  <2>2. Copied(task[h])'
    BY <2>1 DEF CopiesInv, Copied, Drew, Start
  <2> QED
    BY <2>1, <2>2, CopiesOn
<1>3. ASSUME NEW h \in Handlers, DeleteAccount(h) PROVE CopiesInv'
  <2>1. h \in Busy /\ Same(h) /\ task'[h] = Idle /\ row' \in {row, NoUser}
    BY <1>3, Deletes
  <2>2. Active' \in {0, Active, task[h].user.msg}
    BY <2>1 DEF Active
  <2> QED
    BY <2>1, <2>2, CopiesEnd
<1>4. ASSUME NEW h \in Handlers, Erase(h) PROVE CopiesInv'
  <2>1. /\ h \in Busy /\ Same(h) /\ row' = row /\ task[h].pc = "erase"
        /\ task'[h].base = task[h].base /\ task'[h].user = task[h].user
        /\ task'[h].pc = "show"
    BY <1>4, Erases
  <2>2. Copied(task[h])'
    BY <2>1 DEF CopiesInv, Copied, Drew, Start
  <2> QED
    BY <2>1, <2>2, CopiesOn
<1>5. ASSUME NEW h \in Handlers, Show(h) PROVE CopiesInv'
  <2>1. /\ h \in Busy /\ Same(h) /\ row' = row /\ task[h].pc = "show" /\ task[h].screen # "none"
        /\ task'[h].base = task[h].base /\ task'[h].user.id = task[h].user.id
        /\ task'[h].user.msg = sent + 1 /\ task'[h].screen = task[h].screen
        /\ task'[h].pc \in {"erase", "commit"}
    BY <1>5, Draws
  <2>2. Start(task[h]) \in 0..sent /\ sent \in Nat
    BY <2>1, Numbers
  <2>3. Start(task[h])' = Start(task[h])
    BY <2>1 DEF Start
  <2>4. Drew(task[h])'
    BY <2>1, <2>2, <2>3 DEF Drew
  <2>5. Copied(task[h])'
    BY <2>1, <2>4 DEF CopiesInv, Copied
  <2> QED
    BY <2>1, <2>5, CopiesNew
<1>6. ASSUME NEW h \in Handlers, Commit(h) PROVE CopiesInv'
  <2>1. h \in Busy /\ Same(h) /\ task'[h] = Idle
    BY <1>6, Commits
  <2>2. \/ row' = row
        \/ task[h].base = NoUser /\ row' = task[h].user
        \/ task[h].base # NoUser /\ row # NoUser /\ row' = Saved(task[h])
    BY <1>6, Commits DEF Lives
  <2>3. task[h].user # NoUser /\ row' \in Row \cup {NoUser}
    BY <1>6, <2>1, Numbers, KeepCommit DEF IInv, TypeOK
  <2>4. CASE row' = row
    BY <2>1, <2>4, CopiesEnd DEF Active
  <2>5. CASE task[h].base = NoUser /\ row' = task[h].user
    BY <2>1, <2>3, <2>5, CopiesEnd DEF Active
  <2>6. CASE task[h].base # NoUser /\ row # NoUser /\ row' = Saved(task[h])
    <3>1. row'.msg = IF Drew(task[h]) THEN task[h].user.msg ELSE row.msg
      BY <2>1, <2>6, SavedIs
    <3>2. Active' \in {0, Active, task[h].user.msg}
      BY <2>6, <3>1 DEF Active
    <3> QED
      BY <2>1, <3>2, CopiesEnd
  <2> QED
    BY <2>2, <2>4, <2>5, <2>6
<1>7. ASSUME NEW h \in Handlers, Abort(h) PROVE CopiesInv'
  <2>1. h \in Busy /\ Same(h) /\ task'[h] = Idle /\ row' = row
    BY <1>7, Aborts
  <2>2. Active' = Active
    BY <2>1 DEF Active
  <2> QED
    BY <2>1, <2>2, CopiesEnd
<1>8. CASE SyncBegins \/ SyncEnds \/ (\E msg \in 1..MaxMessages : UserDeletes(msg)) \/ UNCHANGED vars
  BY <1>8, CopiesStay DEF SyncBegins, SyncEnds, UserDeletes, vars
<1> QED
  BY <1>1, <1>2, <1>3, <1>4, <1>5, <1>6, <1>7, <1>8, <1>9, <1>10 DEF Next, Handle

LEMMA CopiesInvariant == Spec => [](IInv /\ CopiesInv)
BY InvInit, InvNext, CopiesInit, CopiesStep, PTL DEF Spec
-----------------------------------------------------------------------------
(***************************************************************************)
(* The main menu.  Until updates overlap, whoever holds a copy of the row  *)
(* knows what its message shows.                                           *)
(***************************************************************************)

Pictured(user, messages) ==
  user # NoUser /\ user.msg \in DOMAIN messages => messages[user.msg].screen = user.screen

MenuInv ==
  /\ sync # NoUser => sync.screen = "main"
  /\ overlaps = 0 =>
       /\ \A g, h \in Busy : g = h
       /\ \A h \in Busy : task[h].base = row /\ Pictured(task[h].user, chat)
       /\ Pictured(row, chat) /\ Pictured(sync, chat)

LEMMA MenuInit == Init => MenuInv
<1> SUFFICES ASSUME Init PROVE MenuInv
  OBVIOUS
<1>1. Busy = {} /\ sync = NoUser
  BY DEF Init, Idle, Busy
<1>2. Pictured(row, chat)
  BY DEF Init, Pictured
<1> QED
  BY <1>1, <1>2 DEF MenuInv, Pictured

\* Messages keep their screen or disappear.
Calm == \A i \in DOMAIN chat' : i # sent + 1 => i \in DOMAIN chat /\ chat'[i].screen = chat[i].screen

LEMMA Calmly ==
  ASSUME IInv, Calm, NEW user \in Row, user.msg \in 0..sent, Pictured(user, chat)
  PROVE  Pictured(user, chat')
<1>1. sent \in Nat
  BY Numbers
<1> QED
  BY <1>1 DEF Calm, Pictured

LEMMA RestrictedCalm ==
  ASSUME NEW D, chat' = Restrict(chat, DOMAIN chat \ D) \/ chat' = chat
  PROVE  Calm
BY DEF Restrict, Calm

\* Only the refresh of the main menu changes a screen, to what it was.
LEMMA StaysCalm ==
  ASSUME IInv, MenuInv, [Next]_vars, overlaps = 0
  PROVE  Calm
<1>1. ASSUME NEW h \in Handlers, Receive(h) \/ Decide(h) \/ Redis(h) \/ RenderFilters(h)
                               \/ Commit(h) \/ Abort(h)
      PROVE  Calm
  <2>1. chat' = chat
    BY <1>1 DEF Receive, Decide, Redis, RenderFilters, Commit, Abort
  <2> QED
    BY <2>1, RestrictedCalm
<1>2. ASSUME NEW h \in Handlers, DeleteAccount(h) PROVE Calm
  BY <1>2, Deletes, RestrictedCalm
<1>3. ASSUME NEW h \in Handlers, Erase(h) PROVE Calm
  BY <1>3, Erases, RestrictedCalm
<1>4. ASSUME NEW h \in Handlers, Show(h) PROVE Calm
  BY <1>4, Draws DEF Calm
<1>5. CASE SyncEnds
  <2>1. CASE chat' = chat
    BY <2>1, RestrictedCalm
  <2>2. CASE chat' # chat
    <3>1. /\ sync # NoUser /\ sync.msg \in DOMAIN chat
          /\ chat' = [chat EXCEPT ![sync.msg] =
                        [ver |-> sync.ver, screen |-> "main", offer |-> <<>>]]
      BY <1>5, <2>2 DEF SyncEnds
    <3>2. chat[sync.msg].screen = "main"
      BY <3>1 DEF MenuInv, Pictured
    <3> QED
      BY <3>1, <3>2 DEF Calm
  <2> QED
    BY <2>1, <2>2
<1>6. ASSUME NEW msg, UserDeletes(msg) PROVE Calm
  BY <1>6, RestrictedCalm DEF UserDeletes
<1>7. CASE SyncBegins \/ UNCHANGED vars
  <2>1. chat' = chat
    BY <1>7 DEF SyncBegins, vars
  <2> QED
    BY <2>1, RestrictedCalm
<1> QED
  BY <1>1, <1>2, <1>3, <1>4, <1>5, <1>6, <1>7 DEF Next, Handle

\* Nobody is busy but the handler of this step, before or after it.
Alone(h) == \A g \in Handlers \ {h} : task[g].pc = "idle"

LEMMA MenuOne ==
  ASSUME IInv, MenuInv, NEW h \in Handlers, Same(h), Calm, sync' = sync, overlaps' = 0 => overlaps = 0,
         overlaps' = 0 => Alone(h) /\ Pictured(row, chat)',
         overlaps' = 0 /\ task'[h].pc # "idle" => task'[h].base = row' /\ Pictured(task[h].user, chat)'
  PROVE  MenuInv'
<1>1. ASSUME overlaps' = 0 PROVE Pictured(sync, chat)'
  <2>1. Pictured(sync, chat) /\ sync \in Row \cup {NoUser} /\ Keyed(sync, chat, sent) /\ sent \in Nat
    BY <1>1 DEF MenuInv, IInv, TypeOK
  <2>2. sync # NoUser => sync.msg \in 0..sent
    BY <2>1 DEF Keyed, Row
  <2>3. sync = NoUser => Pictured(sync', chat')
    BY DEF Pictured
  <2> QED
    BY <2>1, <2>2, <2>3, Calmly
<1>2. ASSUME overlaps' = 0 PROVE \A g : g \in Busy' => g = h
  BY <1>2 DEF Alone, Same, Busy
<1> QED
  BY <1>1, <1>2 DEF MenuInv, Busy

LEMMA MenuStep == IInv /\ CopiesInv /\ MenuInv /\ [Next]_vars => MenuInv'
<1> SUFFICES ASSUME IInv, CopiesInv, MenuInv, [Next]_vars PROVE MenuInv'
  OBVIOUS
<1>0. /\ TypeOK /\ overlaps \in Nat /\ sent \in Nat /\ row \in Row \cup {NoUser}
      /\ (row # NoUser => row.msg \in 0..sent) /\ DOMAIN chat \subseteq 1..sent
  BY Numbers DEF IInv, TypeOK, Active
<1>a. ASSUME overlaps = 0 PROVE Calm
  BY <1>a, StaysCalm
<1>b. ASSUME NEW h \in Busy, overlaps = 0 PROVE Alone(h) /\ task[h].base = row /\ Pictured(task[h].user, chat)
  BY <1>b DEF MenuInv, Alone, Busy
<1>c. ASSUME overlaps = 0, row' = row PROVE Pictured(row, chat)'
  <2>1. row # NoUser => Pictured(row, chat')
    BY <1>0, <1>a, <1>c, Calmly DEF MenuInv
  <2> QED
    BY <1>c, <2>1 DEF Pictured
<1>d. ASSUME NEW h \in Busy, overlaps = 0 PROVE Pictured(task[h].user, chat')
  BY <1>a, <1>b, <1>d, Numbers, Calmly
<1>1. ASSUME NEW h \in Handlers, Receive(h) PROVE MenuInv'
  <2>1. /\ Same(h) /\ UNCHANGED <<row, chat, sync, sent>> /\ task'[h].base = row
        /\ overlaps' = IF Busy # {} THEN overlaps + 1 ELSE overlaps
        /\ task'[h].user.msg = Active /\ (row # NoUser => task'[h].user = row)
    BY <1>1, Received
  <2>2. overlaps' = 0 => overlaps = 0 /\ Busy = {}
    BY <1>0, <2>1
  <2>3. Calm
    BY <2>1, RestrictedCalm
  <2>4. overlaps' = 0 => Pictured(row, chat)'
    BY <1>c, <2>1, <2>2
  <2>5. overlaps' = 0 => Pictured(task[h].user, chat)'
    BY <1>0, <2>1, <2>4 DEF Pictured, Active
  <2>6. overlaps' = 0 => Alone(h)
    BY <2>2 DEF Busy, Alone
  <2> QED
    BY <2>1, <2>2, <2>3, <2>4, <2>5, <2>6, MenuOne
<1>2. ASSUME NEW h \in Busy, Same(h), sync' = sync, overlaps' = overlaps,
             overlaps = 0 => Pictured(row, chat)',
             overlaps = 0 /\ task'[h].pc # "idle" => task'[h].base = row' /\ Pictured(task[h].user, chat)'
      PROVE  MenuInv'
  <2>1. CASE overlaps = 0
    BY <1>2, <1>a, <1>b, <2>1, MenuOne DEF Busy
  <2>2. CASE overlaps # 0
    BY <1>2, <2>2 DEF MenuInv
  <2> QED
    BY <2>1, <2>2
<1>3. ASSUME NEW h \in Handlers,
             Decide(h) \/ Redis(h) \/ RenderFilters(h) \/ Erase(h)
      PROVE  MenuInv'
  <2>1. /\ h \in Busy /\ Same(h) /\ UNCHANGED <<row, sync, overlaps>>
        /\ task'[h].base = task[h].base /\ task'[h].user = task[h].user
    BY <1>3, Decides, Stores, Renders, Erases DEF counters
  <2>2. overlaps = 0 => Pictured(row, chat)' /\ task[h].base = row /\ Pictured(task[h].user, chat)'
    BY <2>1, <1>b, <1>c, <1>d
  <2> QED
    BY <2>1, <2>2, <1>2
<1>4. ASSUME NEW h \in Handlers, DeleteAccount(h) PROVE MenuInv'
  <2>1. /\ h \in Busy /\ Same(h) /\ UNCHANGED <<sync, overlaps>> /\ row' \in {row, NoUser}
        /\ task'[h] = Idle
    BY <1>4, Deletes
  <2>3. task'[h].pc = "idle"
    BY <2>1 DEF Idle
  <2>2. overlaps = 0 => Pictured(row, chat)'
    BY <2>1, <1>c DEF Pictured
  <2> QED
    BY <2>1, <2>2, <2>3, <1>2
<1>5. ASSUME NEW h \in Handlers, Show(h) PROVE MenuInv'
  <2>1. /\ h \in Busy /\ Same(h) /\ UNCHANGED <<row, sync, overlaps>>
        /\ task'[h].base = task[h].base
        /\ task'[h].user.msg = sent + 1 /\ task'[h].user.screen = task[h].screen
        /\ chat'[sent + 1].screen = task[h].screen
    BY <1>5, Draws
  <2>2. Pictured(task[h].user, chat)'
    BY <2>1 DEF Pictured
  <2>3. overlaps = 0 => Pictured(row, chat)' /\ task[h].base = row
    BY <2>1, <1>b, <1>c
  <2> QED
    BY <2>1, <2>2, <2>3, <1>2
<1>6. ASSUME NEW h \in Handlers, Commit(h) PROVE MenuInv'
  <2>1. /\ h \in Busy /\ Same(h) /\ UNCHANGED <<chat, sync, overlaps>> /\ task'[h].pc = "idle"
        /\ \/ row' = row
           \/ task[h].base = NoUser /\ row' = task[h].user
           \/ task[h].base # NoUser /\ row # NoUser /\ row' = Saved(task[h])
    BY <1>6, Commits DEF Idle, Lives
  <2>2. ASSUME overlaps = 0 PROVE Pictured(row, chat)'
    <3>1. CASE row' = row
      BY <2>2, <3>1, <1>c
    <3>2. CASE row' = task[h].user
      BY <2>1, <2>2, <3>2, <1>d
    <3>3. CASE task[h].base # NoUser /\ row # NoUser /\ row' = Saved(task[h]) /\ row' # row
      <4>1. row' = Saved(task[h]) /\ row'.msg = task[h].user.msg
        BY <2>1, <3>3, SavedIs
      <4>2. row \in Row /\ task[h].user \in Row /\ task[h].base = row
        BY <1>0, <1>b, <2>1, <2>2, <3>3, Numbers
      <4>3. row'.screen = task[h].user.screen
        BY <4>1, <4>2 DEF Saved, Row
      <4>4. task[h].user # NoUser
        BY <2>1, Numbers
      <4> QED
        BY <2>1, <2>2, <4>1, <4>3, <4>4, <1>d DEF Pictured
    <3> QED
      BY <2>1, <3>1, <3>2, <3>3
  <2> QED
    BY <2>1, <2>2, <1>2
<1>7. ASSUME NEW h \in Handlers, Abort(h) PROVE MenuInv'
  <2>1. h \in Busy /\ Same(h) /\ task'[h].pc = "idle" /\ UNCHANGED <<row, chat, sync, overlaps>>
    BY <1>7, Aborts DEF Idle
  <2> QED
    BY <2>1, <1>c, <1>2
<1>8. ASSUME UNCHANGED <<row, task, overlaps>>, sync' \in {sync, row, NoUser},
             sync' = row => row = NoUser \/ row.screen = "main"
      PROVE  MenuInv'
  <2>1. Busy' = Busy
    BY <1>8 DEF Busy
  <2>2. sync' # NoUser => sync'.screen = "main"
    BY <1>8 DEF MenuInv
  <2>3. ASSUME overlaps = 0 PROVE Pictured(row, chat)' /\ Pictured(sync, chat)'
    <3>1. Pictured(row, chat')
      BY <1>8, <1>c, <2>3
    <3>2. ASSUME sync # NoUser PROVE Pictured(sync, chat')
      <4>1. sync \in Row /\ sync.msg \in 0..sent
        BY <3>2, <1>0 DEF IInv, TypeOK, Keyed, Row
      <4> QED
        BY <2>3, <4>1, <1>a, Calmly DEF MenuInv
    <3> QED
      BY <1>8, <3>1, <3>2 DEF Pictured
  <2>4. ASSUME overlaps = 0, NEW h \in Busy PROVE task'[h].base = row' /\ Pictured(task[h].user, chat)'
    BY <1>8, <1>b, <1>d, <2>4
  <2> QED
    BY <1>8, <2>1, <2>2, <2>3, <2>4 DEF MenuInv
<1>9. CASE SyncBegins \/ SyncEnds \/ (\E msg \in 1..MaxMessages : UserDeletes(msg)) \/ UNCHANGED vars
  <2>1. UNCHANGED <<row, task, overlaps>> /\ sync' \in {sync, row, NoUser}
        /\ (sync' = sync \/ sync' = NoUser \/ row.screen = "main")
    BY <1>9 DEF SyncBegins, SyncEnds, UserDeletes, vars, counters
  <2> QED
    BY <2>1, <1>8 DEF MenuInv
<1> QED
  BY <1>1, <1>3, <1>4, <1>5, <1>6, <1>7, <1>9 DEF Next, Handle

(***************************************************************************)
(* As long as updates have not overlapped, no step of a handler, of a      *)
(* search run or of the user turns a screen into another.                  *)
(***************************************************************************)
THEOREM OnlyMainIsRefreshed == Spec => RefreshesMainMenu
<1>1. ASSUME IInv, MenuInv, [Next]_vars
      PROVE  [\A i \in DOMAIN chat \cap DOMAIN chat' :
                chat'[i].screen # chat[i].screen => overlaps > 0]_vars
  <2>1. overlaps \in Nat /\ DOMAIN chat \subseteq 1..sent /\ sent \in Nat
    BY <1>1 DEF IInv, TypeOK
  <2>2. CASE overlaps = 0
    <3>1. Calm
      BY <1>1, <2>2, StaysCalm
    <3> QED
      BY <2>1, <3>1 DEF Calm
  <2>3. CASE overlaps # 0
    BY <2>1, <2>3
  <2> QED
    BY <2>2, <2>3
<1>2. Spec => [](IInv /\ CopiesInv /\ MenuInv)
  BY CopiesInvariant, MenuInit, MenuStep, PTL DEF Spec
<1> QED
  BY <1>1, <1>2, PTL DEF Spec, RefreshesMainMenu
-----------------------------------------------------------------------------
(***************************************************************************)
(* The message of the row.  Without failures, if it has left the chat,     *)
(* somebody who has loaded the row's account is about to commit another:   *)
(* whoever deletes it draws, and what is drawn stays until the commit.     *)
(***************************************************************************)

Drawing(t) == t.pc \in {"erase", "show"} \/ (t.pc = "commit" /\ Drew(t))
Replaced == \E h \in Busy : Lives(task[h]) /\ Drawing(task[h])

UsableInv ==
  faults = 0 /\ unsaved = 0 =>
    /\ \A h \in Busy : task[h].pc = "commit" /\ Drew(task[h]) => task[h].user.msg \in DOMAIN chat
    /\ \A h \in Busy : Active # 0 /\ Active = task[h].user.msg => Lives(task[h])
    /\ Active # 0 /\ Active \notin DOMAIN chat => Replaced

LEMMA UsableInit == Init => UsableInv
<1> SUFFICES ASSUME Init PROVE UsableInv
  OBVIOUS
<1>1. Busy = {}
  BY DEF Init, Idle, Busy
<1>2. Active = 0 \/ Active \in DOMAIN chat
  BY DEF Init, Active
<1> QED
  BY <1>1, <1>2 DEF UsableInv

\* A message of another handler survives.
LEMMA Survives ==
  ASSUME IInv, CopiesInv, NEW h \in Busy, NEW g \in Busy, g # h, Drew(task[g]),
         task[g].user.msg \in DOMAIN chat,
         chat' = Restrict(chat, DOMAIN chat \ {task[h].user.msg})
  PROVE  task[g].user.msg \in DOMAIN chat'
<1>1. task[g].user.msg # task[h].user.msg
  BY DEF CopiesInv, OwnMessages
<1> QED
  BY <1>1 DEF Restrict

LEMMA UsableStep == IInv /\ CopiesInv /\ UsableInv /\ [Next]_vars => UsableInv'
<1> SUFFICES ASSUME IInv, CopiesInv, UsableInv, [Next]_vars, faults' = 0, unsaved' = 0
             PROVE  UsableInv'
  BY DEF UsableInv
<1>1. faults \in Nat /\ unsaved \in Nat /\ Active \in 0..sent /\ sent \in Nat
  BY Numbers DEF IInv, TypeOK
<1>2. faults' \in {faults, faults + 1} /\ unsaved' \in {unsaved, unsaved + 1}
  BY DEF Next, Handle, Receive, Decide, DeleteAccount, Redis, RenderFilters, Erase,
         Show, Commit, Abort, SyncBegins, SyncEnds, UserDeletes, vars, counters, history
<1>3. faults = 0 /\ unsaved = 0
  BY <1>1, <1>2
<1>4. /\ \A h \in Busy : task[h].pc = "commit" /\ Drew(task[h]) => task[h].user.msg \in DOMAIN chat
      /\ \A h \in Busy : Active # 0 /\ Active = task[h].user.msg => Lives(task[h])
      /\ Active # 0 /\ Active \notin DOMAIN chat => Replaced
  BY <1>3 DEF UsableInv
\* What the other handlers have does not change, nor what they are for the row.
<1>5. ASSUME NEW h \in Handlers, Same(h), NEW g, g # h
      PROVE  /\ g \in Busy' <=> g \in Busy
             /\ g \in Busy => /\ task'[g] = task[g] /\ (Drew(task[g])' <=> Drew(task[g]))
                              /\ (row' = row => (Lives(task[g])' <=> Lives(task[g])))
                              /\ (Drawing(task[g])' <=> Drawing(task[g]))
  BY <1>5 DEF Same, Busy, Drew, Start, Lives, Drawing
<1>6. ASSUME NEW h \in Handlers, Receive(h) PROVE UsableInv'
  <2>1. /\ Same(h) /\ UNCHANGED <<row, chat>> /\ task'[h].base = row /\ task[h].pc = "idle"
        /\ task'[h].user.msg = Active /\ (row # NoUser => task'[h].user = row)
    BY <1>6, Received
  <2>2. ~Drew(task[h])' /\ Active' = Active /\ h \notin Busy
    BY <2>1 DEF Drew, Start, Active, Busy
  <2>3. Active # 0 => Lives(task[h])'
    BY <2>1 DEF Active, Lives
  <2>4. Replaced => Replaced'
    BY <1>5, <2>1, <2>2 DEF Replaced
  <2> QED
    BY <1>4, <1>5, <2>1, <2>2, <2>3, <2>4 DEF UsableInv
<1>7. ASSUME NEW h \in Handlers, Decide(h) \/ RenderFilters(h) PROVE UsableInv'
  <2>1. /\ h \in Busy /\ Same(h) /\ UNCHANGED <<row, chat>>
        /\ task[h].pc \in {"loaded", "filters"}
        /\ task'[h].base = task[h].base /\ task'[h].user = task[h].user
    BY <1>7, Decides, Renders
  <2>2. ~Drew(task[h]) /\ ~Drew(task[h])' /\ Active' = Active
    BY <2>1 DEF CopiesInv, Copied, Drew, Start, Active
  <2>3. Lives(task[h])' <=> Lives(task[h])
    BY <2>1 DEF Lives
  <2>4. Replaced => Replaced'
    BY <1>5, <2>1 DEF Replaced, Drawing
  <2> QED
    BY <1>4, <1>5, <2>1, <2>2, <2>3, <2>4 DEF UsableInv
<1>15. ASSUME NEW h \in Handlers, Redis(h) PROVE UsableInv'
  <2>1. /\ h \in Busy /\ Same(h) /\ UNCHANGED <<row, chat>>
        /\ task'[h].pc = task[h].pc
        /\ task'[h].base = task[h].base /\ task'[h].user = task[h].user
    BY <1>15, Stores
  <2>2. (Drew(task[h])' <=> Drew(task[h])) /\ Active' = Active
    BY <2>1 DEF Drew, Start, Active
  <2>3. /\ Lives(task[h])' <=> Lives(task[h])
        /\ Drawing(task[h])' <=> Drawing(task[h])
    BY <2>1, <2>2 DEF Lives, Drawing
  <2>4. Busy' = Busy
    BY <2>1 DEF Busy, Same
  <2>5. Replaced => Replaced'
    BY <1>5, <2>1, <2>3, <2>4 DEF Replaced
  <2> QED
    BY <1>4, <1>5, <2>1, <2>2, <2>3, <2>4, <2>5 DEF UsableInv
<1>8. ASSUME NEW h \in Handlers, DeleteAccount(h) PROVE UsableInv'
  <2>1. /\ h \in Busy /\ Same(h) /\ task[h].pc = "loaded" /\ task[h].name = "delete-yes"
        /\ task'[h] = Idle
        /\ chat' = Restrict(chat, DOMAIN chat \ {task[h].msg})
        /\ row' = NoUser \/ (row' = row /\ (row # NoUser => row.id # task[h].user.id))
    BY <1>3, <1>8, Deletes
  <2>2. task[h].msg = task[h].user.msg
    BY <2>1 DEF CopiesInv, Copied, Busy
  <2>3. h \notin Busy'
    BY <2>1 DEF Busy, Idle
  <2>4. \A g \in Busy' : task'[g].pc = "commit" /\ Drew(task[g])' => task'[g].user.msg \in DOMAIN chat'
    <3> SUFFICES ASSUME NEW g \in Busy', task'[g].pc = "commit", Drew(task[g])'
                 PROVE  task'[g].user.msg \in DOMAIN chat'
      OBVIOUS
    <3>1. g # h /\ g \in Busy /\ task'[g] = task[g] /\ Drew(task[g])
      BY <1>5, <2>1, <2>3
    <3>2. chat' = Restrict(chat, DOMAIN chat \ {task[h].user.msg})
      BY <2>1, <2>2
    <3>3. task[g].user.msg \in DOMAIN chat
      BY <1>4, <3>1
    <3> QED
      BY <2>1, <3>1, <3>2, <3>3, Survives
  <2>5. CASE row' = NoUser
    BY <2>4, <2>5 DEF UsableInv, Active
  <2>6. CASE row' = row /\ ~Lives(task[h])
    <3>1. Active' = Active /\ (Active # 0 => Active # task[h].user.msg)
      BY <1>4, <2>1, <2>6 DEF Active
    <3>2. Active' # 0 /\ Active' \notin DOMAIN chat' => Active \notin DOMAIN chat
      BY <2>1, <2>2, <3>1 DEF Restrict
    <3>3. Replaced => Replaced'
      BY <1>5, <2>1, <2>6 DEF Replaced
    <3> QED
      BY <1>4, <1>5, <2>1, <2>3, <2>4, <2>6, <3>1, <3>2, <3>3 DEF UsableInv
  <2> QED
    BY <2>1, <2>5, <2>6 DEF Lives
<1>9. ASSUME NEW h \in Handlers, Erase(h) PROVE UsableInv'
  <2>1. /\ h \in Busy /\ Same(h) /\ task[h].pc = "erase" /\ row' = row
        /\ chat' = Restrict(chat, DOMAIN chat \ {task[h].user.msg})
        /\ task'[h].base = task[h].base /\ task'[h].user = task[h].user /\ task'[h].pc = "show"
    BY <1>3, <1>9, Erases
  <2>2. \A g \in Busy' : task'[g].pc = "commit" /\ Drew(task[g])' => task'[g].user.msg \in DOMAIN chat'
    <3> SUFFICES ASSUME NEW g \in Busy', task'[g].pc = "commit", Drew(task[g])'
                 PROVE  task'[g].user.msg \in DOMAIN chat'
      OBVIOUS
    <3>1. g # h /\ g \in Busy /\ task'[g] = task[g] /\ Drew(task[g])
      BY <1>5, <2>1
    <3>2. chat' = Restrict(chat, DOMAIN chat \ {task[h].user.msg})
      BY <2>1
    <3>3. task[g].user.msg \in DOMAIN chat
      BY <1>4, <3>1
    <3> QED
      BY <2>1, <3>1, <3>2, <3>3, Survives
  <2>3. Active' = Active /\ (Lives(task[h])' <=> Lives(task[h])) /\ Drawing(task[h])' /\ h \in Busy'
    BY <2>1 DEF Active, Lives, Drawing, Busy
  <2>4. Replaced => Replaced'
    BY <1>5, <2>1, <2>3 DEF Replaced
  <2>5. Active # 0 /\ Active = task[h].user.msg => Replaced'
    BY <1>4, <2>1, <2>3 DEF Replaced
  <2>6. Active \notin DOMAIN chat' => Active \notin DOMAIN chat \/ Active = task[h].user.msg
    BY <2>1 DEF Restrict
  <2> QED
    BY <1>4, <1>5, <2>1, <2>2, <2>3, <2>4, <2>5, <2>6 DEF UsableInv
<1>10. ASSUME NEW h \in Handlers, Show(h) PROVE UsableInv'
  <2>1. /\ h \in Busy /\ Same(h) /\ row' = row /\ DOMAIN chat' = DOMAIN chat \cup {sent + 1}
        /\ task'[h].base = task[h].base /\ task'[h].user.id = task[h].user.id
        /\ task'[h].user.msg = sent + 1 /\ task'[h].pc \in {"erase", "commit"}
    BY <1>10, Draws
  <2>2. Drew(task[h])'
    <3>1. Start(task[h])' = Start(task[h]) /\ Start(task[h]) \in 0..sent
      BY <2>1, Numbers DEF Start
    <3> QED
      BY <1>1, <2>1, <3>1 DEF Drew
  <2>3. Active' = Active /\ (Lives(task[h])' <=> Lives(task[h])) /\ Drawing(task[h])' /\ h \in Busy'
    BY <2>1, <2>2 DEF Active, Lives, Drawing, Busy
  <2>4. Replaced => Replaced'
    BY <1>5, <2>1, <2>3 DEF Replaced
  <2>5. Active # task'[h].user.msg
    BY <1>1, <2>1
  <2> QED
    BY <1>4, <1>5, <2>1, <2>3, <2>4, <2>5 DEF UsableInv
<1>11. ASSUME NEW h \in Handlers, Commit(h) PROVE UsableInv'
  <2>1. /\ h \in Busy /\ Same(h) /\ chat' = chat /\ task'[h] = Idle /\ task[h].pc = "commit"
        /\ unsaved' = IF ~task[h].saves /\ task[h].screen # "none" THEN unsaved + 1 ELSE unsaved
        /\ \/ row' = row /\ (task[h].saves => ~Lives(task[h]))
           \/ task[h].base = NoUser /\ row' = task[h].user
           \/ task[h].base # NoUser /\ Lives(task[h]) /\ row' = Saved(task[h])
    BY <1>11, Commits
  <2>2. h \notin Busy' /\ (Drew(task[h]) <=> task[h].screen # "none")
    BY <2>1 DEF Busy, Idle, CopiesInv, Copied
  <2>3. \A g \in Busy' : task'[g].pc = "commit" /\ Drew(task[g])' => task'[g].user.msg \in DOMAIN chat'
    BY <1>4, <1>5, <2>1, <2>2
  <2>4. CASE row' = row /\ ~(Lives(task[h]) /\ Drawing(task[h]))
    <3>1. Active' = Active
      BY <2>4 DEF Active
    <3>2. Replaced => Replaced'
      BY <1>5, <2>1, <2>4 DEF Replaced
    <3> QED
      BY <1>4, <1>5, <2>1, <2>2, <2>3, <2>4, <3>1, <3>2 DEF UsableInv
  <2>5. CASE Active' = 0
    BY <2>3, <2>5 DEF UsableInv
  <2>6. CASE Drew(task[h]) /\ Active' = task[h].user.msg
    <3>1. Active' \in DOMAIN chat'
      BY <1>4, <2>1, <2>6
    <3>2. \A g \in Busy' : task'[g].user.msg # Active'
      BY <1>5, <2>1, <2>2, <2>6 DEF CopiesInv, OwnMessages
    <3> QED
      BY <2>3, <3>1, <3>2 DEF UsableInv
  <2>7. ~Drew(task[h]) => ~Drawing(task[h])
    BY <2>1 DEF Drawing
  <2>8. CASE row' = row /\ (task[h].saves => ~Lives(task[h]))
    <3>1. ~(Lives(task[h]) /\ Drawing(task[h]))
      BY <1>1, <1>3, <2>1, <2>2, <2>7, <2>8
    <3> QED
      BY <2>4, <2>8, <3>1
  <2>9. CASE task[h].base = NoUser /\ row' = task[h].user
    <3>1. Active' = task[h].user.msg
      BY <2>1, <2>9, Numbers DEF Active
    <3>2. ~Drew(task[h]) => Active' = 0
      BY <2>9, <3>1 DEF Drew, Start
    <3> QED
      BY <2>5, <2>6, <3>1, <3>2
  <2>10. CASE task[h].base # NoUser /\ Lives(task[h]) /\ row' = Saved(task[h])
    <3>1. /\ row'.msg = IF Drew(task[h]) THEN task[h].user.msg ELSE row.msg
          /\ ~Drew(task[h]) => row' = row
      BY <2>1, <2>10, SavedIs DEF Lives
    <3>2. Drew(task[h]) => Active' \in {0, task[h].user.msg}
      BY <3>1 DEF Active
    <3> QED
      BY <2>4, <2>5, <2>6, <2>7, <3>1, <3>2
  <2> QED
    BY <2>1, <2>8, <2>9, <2>10
<1>12. ASSUME NEW h \in Handlers, Abort(h) PROVE FALSE
  BY <1>1, <1>3, <1>12, Aborts
<1>13. ASSUME NEW msg, UserDeletes(msg) PROVE FALSE
  BY <1>1, <1>3, <1>13 DEF UserDeletes
<1>14. CASE SyncBegins \/ SyncEnds \/ UNCHANGED vars
  <2>1. UNCHANGED <<row, task>> /\ DOMAIN chat' = DOMAIN chat
    BY <1>14 DEF SyncBegins, SyncEnds, vars
  <2>2. Busy' = Busy /\ Active' = Active /\ (Replaced' <=> Replaced)
        /\ \A h : (Drew(task[h])' <=> Drew(task[h])) /\ (Lives(task[h])' <=> Lives(task[h]))
    BY <2>1 DEF Busy, Active, Replaced, Drawing, Drew, Start, Lives
  <2> QED
    BY <1>4, <2>1, <2>2 DEF UsableInv
<1> QED
  BY <1>6, <1>7, <1>8, <1>9, <1>10, <1>11, <1>12, <1>13, <1>14, <1>15 DEF Next, Handle

(***************************************************************************)
(* However many updates overlap and accounts are deleted: without a        *)
(* failure the user is never left without the menu that is obeyed.         *)
(***************************************************************************)
THEOREM MenuRemains == Spec => []Usable
<1>1. UsableInv => Usable
  BY DEF UsableInv, Usable, Quiet, Replaced
<1> QED
  BY <1>1, CopiesInvariant, UsableInit, UsableStep, InvNext, PTL DEF Spec
-----------------------------------------------------------------------------
(***************************************************************************)
(* The other messages.  A message in the chat is the row's, belongs to a   *)
(* handler that has drawn it and has not committed, or is loose.  Every    *)
(* handler may still leave a loose one; each failure, overlap and screen   *)
(* drawn without a commit pays for one.  The only update that is handled   *)
(* need not pay: while nothing else has touched the account it loaded, the *)
(* message it replaces is one that it deletes.                             *)
(***************************************************************************)

Owns(t, i) == t.pc \in {"erase", "commit"} /\ Drew(t) /\ t.user.msg = i
Loose == {i \in DOMAIN chat : i # Active /\ \A h \in Handlers : ~Owns(task[h], i)}
Paid == faults + overlaps + unsaved

\* What the handler has loaded is still the row's, and its message is replaced.
Fresh(t) ==
  /\ t.base = NoUser <=> row = NoUser
  /\ row # NoUser => t.base.id = row.id /\ t.base.msg = row.msg
  /\ t.pc = "show" \/ (t.pc \in {"erase", "commit"} /\ Drew(t)) => Active \notin DOMAIN chat

Even == Cardinality(Loose) + Cardinality(Busy) <= Paid
Ahead == /\ Busy # {}
         /\ Cardinality(Loose) + Cardinality(Busy) <= Paid + 1
         /\ \A h \in Busy : Fresh(task[h])
StrayInv == IsFiniteSet(Busy) /\ (Even \/ Ahead)

LEMMA Sizes ==
  ASSUME IInv, StrayInv
  PROVE  /\ IsFiniteSet(Loose) /\ IsFiniteSet(Busy)
         /\ Cardinality(Loose) \in Nat /\ Cardinality(Busy) \in Nat
         /\ Paid \in Nat
         /\ Busy # {} => Cardinality(Busy) > 0
<1>1. /\ DOMAIN chat \subseteq 1..sent /\ sent \in Nat
      /\ overlaps \in Nat /\ faults \in Nat /\ unsaved \in Nat
  BY DEF IInv, TypeOK
<1>2. IsFiniteSet(1..sent)
  BY <1>1, FS_Interval
<1>3. IsFiniteSet(Loose)
  BY <1>1, <1>2, FS_Subset DEF Loose
<1>4. IsFiniteSet(Busy)
  BY DEF StrayInv
<1> QED
  BY <1>1, <1>3, <1>4, FS_CardinalityType, FS_EmptySet DEF Paid

LEMMA LooseSame ==
  ASSUME IInv, StrayInv, Loose' \subseteq Loose
  PROVE  Cardinality(Loose') \in Nat /\ Cardinality(Loose') <= Cardinality(Loose)
BY Sizes, FS_Subset, FS_CardinalityType

LEMMA LooseMore ==
  ASSUME IInv, StrayInv, NEW x, Loose' \subseteq Loose \cup {x}
  PROVE  Cardinality(Loose') \in Nat /\ Cardinality(Loose') <= Cardinality(Loose) + 1
<1>1. IsFiniteSet(Loose \cup {x}) /\ Cardinality(Loose \cup {x}) <= Cardinality(Loose) + 1
  BY Sizes, FS_AddElement
<1>2. /\ IsFiniteSet(Loose') /\ Cardinality(Loose') <= Cardinality(Loose \cup {x})
  BY <1>1, FS_Subset
<1>3. Cardinality(Loose \cup {x}) \in Nat /\ Cardinality(Loose') \in Nat
  BY <1>1, <1>2, FS_CardinalityType
<1> QED
  BY <1>1, <1>2, <1>3, Sizes

\* A handler is done: it need not be paid for any more.
LEMMA OneLess ==
  ASSUME IInv, StrayInv, NEW h \in Busy, Same(h), task'[h] = Idle
  PROVE  /\ IsFiniteSet(Busy') /\ Cardinality(Busy') = Cardinality(Busy) - 1
         /\ Cardinality(Busy') \in Nat
<1>1. Busy' = Busy \ {h}
  BY DEF Busy, Same, Idle
<1> QED
  BY <1>1, Sizes, FS_RemoveElement, FS_CardinalityType

\* It leaves a message, which is paid for or was not needed; or it leaves none.
LEMMA DoneEven ==
  ASSUME IInv, StrayInv, NEW h \in Busy, Same(h), task'[h] = Idle,
         Paid' \in {Paid, Paid + 1}, NEW x, Loose' \subseteq Loose \cup {x},
         Ahead => Paid' = Paid + 1 \/ Loose' \subseteq Loose
  PROVE  StrayInv'
<1>1. IsFiniteSet(Busy') /\ Cardinality(Busy') = Cardinality(Busy) - 1
      /\ Cardinality(Busy') \in Nat /\ Cardinality(Busy) \in Nat
      /\ Cardinality(Loose) \in Nat /\ Paid \in Nat
  BY OneLess, Sizes
<1>2. Cardinality(Loose') \in Nat /\ Cardinality(Loose') <= Cardinality(Loose) + 1
  BY LooseMore
<1>3. Loose' \subseteq Loose => Cardinality(Loose') <= Cardinality(Loose)
  BY LooseSame
<1>4. CASE Even
  BY <1>1, <1>2, <1>4, SMTT(30) DEF StrayInv, Even
<1>5. CASE Ahead
  <2>1. Cardinality(Loose) + Cardinality(Busy) <= Paid + 1
    BY <1>5 DEF Ahead
  <2> QED
    BY <1>1, <1>2, <1>3, <1>5, <2>1, SMTT(30) DEF StrayInv, Even
<1> QED
  BY <1>4, <1>5 DEF StrayInv

\* The handlers go on, or one more has begun and pays for itself.
LEMMA GoesOn ==
  ASSUME IInv, StrayInv, IsFiniteSet(Busy'), Busy' # {},
         NEW n \in {0, 1},
         Cardinality(Busy') = Cardinality(Busy) + n,
         \/ Loose' \subseteq Loose /\ Paid' = Paid + n
         \/ \E x : Loose' \subseteq Loose \cup {x} /\ Paid' = Paid + n + 1,
         Ahead => \A g \in Busy' : Fresh(task[g])'
  PROVE  StrayInv'
<1>1. Cardinality(Busy) \in Nat /\ Cardinality(Loose) \in Nat /\ Paid \in Nat
      /\ Cardinality(Busy') \in Nat
  BY Sizes, FS_CardinalityType
<1>2. /\ Cardinality(Loose') \in Nat
      /\ \/ Cardinality(Loose') <= Cardinality(Loose) /\ Paid' = Paid + n
         \/ Cardinality(Loose') <= Cardinality(Loose) + 1 /\ Paid' = Paid + n + 1
  BY LooseSame, LooseMore
<1>3. CASE Even
  BY <1>1, <1>2, <1>3, SMTT(30) DEF StrayInv, Even
<1>4. CASE Ahead
  <2>1. Cardinality(Loose) + Cardinality(Busy) <= Paid + 1
    BY <1>4 DEF Ahead
  <2>2. Cardinality(Loose') + Cardinality(Busy') <= Paid' + 1
    BY <1>1, <1>2, <2>1, SMTT(30)
  <2> QED
    BY <1>4, <2>2 DEF StrayInv, Ahead
<1> QED
  BY <1>3, <1>4 DEF StrayInv

LEMMA KeepsOn ==
  ASSUME IInv, StrayInv, Busy' = Busy, Busy # {},
         \/ Loose' \subseteq Loose /\ Paid' = Paid
         \/ \E x : Loose' \subseteq Loose \cup {x} /\ Paid' = Paid + 1,
         Ahead => \A g \in Busy' : Fresh(task[g])'
  PROVE  StrayInv'
<1>1. Cardinality(Busy) \in Nat /\ Paid \in Nat /\ IsFiniteSet(Busy)
  BY Sizes
<1>2. /\ Cardinality(Busy') = Cardinality(Busy) + 0
      /\ \/ Loose' \subseteq Loose /\ Paid' = Paid + 0
         \/ \E x : Loose' \subseteq Loose \cup {x} /\ Paid' = Paid + 0 + 1
  BY <1>1
<1> QED
  BY <1>1, <1>2, GoesOn

\* Something is paid for that leaves nothing.
LEMMA PaysEven ==
  ASSUME IInv, StrayInv, Busy' = Busy, Loose' \subseteq Loose, Paid' = Paid + 1
  PROVE  StrayInv'
<1>1. Cardinality(Loose) + Cardinality(Busy) <= Paid + 1
  BY Sizes DEF StrayInv, Even, Ahead
<1>2. Cardinality(Loose') \in Nat /\ Cardinality(Loose') <= Cardinality(Loose)
  BY LooseSame
<1> QED
  BY <1>1, <1>2, Sizes, SMTT(30) DEF StrayInv, Even

\* What other handlers own, and how fresh they are.
LEMMA OthersStay ==
  ASSUME NEW h \in Handlers, Same(h), NEW g \in Handlers \ {h}
  PROVE  /\ task'[g] = task[g] /\ (g \in Busy' <=> g \in Busy)
         /\ \A i : Owns(task[g], i)' <=> Owns(task[g], i)
         /\ row' = row /\ Active \notin DOMAIN (chat') \ DOMAIN chat /\ Fresh(task[g]) => Fresh(task[g])'
<1>1. task'[g] = task[g]
  BY DEF Same
<1>2. Drew(task[g])' <=> Drew(task[g])
  BY <1>1 DEF Drew, Start
<1>3. row' = row => Active' = Active
  BY DEF Active
<1> QED
  BY <1>1, <1>2, <1>3 DEF Busy, Owns, Fresh

LEMMA StraysInit == Init => StrayInv
<1> SUFFICES ASSUME Init PROVE StrayInv
  OBVIOUS
<1>1. Busy = {}
  BY DEF Init, Idle, Busy
<1>2. Loose = {}
  <2>1. DOMAIN chat \subseteq 1..sent
    BY InvInit DEF IInv, TypeOK
  <2>2. [id |-> 1, msg |-> 1, ver |-> 1, screen |-> "main"] \in Row
    BY KnownScreens, ConversationAssumption DEF Row
  <2>3. sent = 0 \/ (sent = 1 /\ Active = 1)
    BY <2>2, RowAssumption DEF Init, Active
  <2> QED
    BY <2>1, <2>3 DEF Loose
<1>3. Paid = 0
  BY DEF Init, Paid
<1> QED
  BY <1>1, <1>2, <1>3, FS_EmptySet DEF StrayInv, Even

LEMMA StraysReceive ==
  ASSUME IInv, CopiesInv, StrayInv, NEW h \in Handlers, Receive(h)
  PROVE  StrayInv'
<1>1. /\ task[h].pc = "idle" /\ Same(h) /\ UNCHANGED <<row, chat, faults, unsaved>>
      /\ task'[h].base = row /\ task'[h].user.msg = Active
      /\ row # NoUser => task'[h].user = row
      /\ overlaps' = IF Busy # {} THEN overlaps + 1 ELSE overlaps
      /\ task'[h].pc \in {"commit", "loaded"}
  BY Received
<1>2. Active' = Active /\ ~Drew(task[h])' /\ Fresh(task[h])'
  BY <1>1 DEF Active, Drew, Start, Fresh
<1>3. h \notin Busy /\ Busy' = Busy \cup {h}
  BY <1>1 DEF Busy, Same
<1>4. /\ IsFiniteSet(Busy') /\ Cardinality(Busy') = Cardinality(Busy) + 1
  BY <1>3, Sizes, FS_AddElement
<1>5. Loose' \subseteq Loose
  <2>1. \A i : ~Owns(task[h], i)
    BY <1>1 DEF Owns
  <2> QED
    BY <1>1, <1>2, <2>1, OthersStay DEF Loose
<1>6. CASE Busy # {}
  <2>1. Paid' = Paid + 1
    BY <1>1, <1>6 DEF Paid, IInv, TypeOK
  <2>2. Ahead => \A g \in Busy' : Fresh(task[g])'
    BY <1>1, <1>2, <1>3, OthersStay DEF Ahead, Busy
  <2> QED
    BY <1>3, <1>4, <1>5, <2>1, <2>2, GoesOn
<1>7. CASE Busy = {}
  <2>1. Paid' = Paid /\ Cardinality(Busy) = 0
    BY <1>1, <1>7, FS_EmptySet DEF Paid
  <2>2. Cardinality(Loose) <= Paid
    BY <1>7, <2>1, Sizes DEF StrayInv, Even, Ahead
  <2>3. Cardinality(Loose') <= Cardinality(Loose) /\ Cardinality(Loose') \in Nat
    BY <1>5, LooseSame
  <2>4. Cardinality(Loose') + Cardinality(Busy') <= Paid' + 1
    BY <1>4, <2>1, <2>2, <2>3, Sizes
  <2> QED
    BY <1>2, <1>3, <1>4, <1>7, <2>4 DEF StrayInv, Ahead
<1> QED
  BY <1>6, <1>7

LEMMA StraysDecide ==
  ASSUME IInv, CopiesInv, StrayInv, NEW h \in Handlers,
         Decide(h) \/ RenderFilters(h)
  PROVE  StrayInv'
<1>1. /\ h \in Busy /\ Same(h) /\ UNCHANGED <<row, chat>>
      /\ task[h].pc \in {"loaded", "filters"}
      /\ task'[h].base = task[h].base /\ task'[h].user = task[h].user
      /\ task'[h].pc \in {"commit", "filters", "erase"}
      /\ UNCHANGED <<overlaps, faults, unsaved>>
  BY Decides, Renders DEF counters, history
<1>2. ~Drew(task[h]) /\ ~Drew(task[h])' /\ Active' = Active
  BY <1>1 DEF CopiesInv, Copied, Drew, Start, Active
<1>3. Busy' = Busy /\ Paid' = Paid
  BY <1>1 DEF Busy, Same, Paid
<1>4. Loose' \subseteq Loose
  <2>1. \A i : ~Owns(task[h], i)
    BY <1>1 DEF Owns
  <2> QED
    BY <1>1, <1>2, <2>1, OthersStay DEF Loose
<1>5. Fresh(task[h]) => Fresh(task[h])'
  BY <1>1, <1>2 DEF Fresh
<1>6. Ahead => \A g \in Busy' : Fresh(task[g])'
  BY <1>1, <1>3, <1>5, OthersStay DEF Ahead, Busy
<1> QED
  BY <1>1, <1>3, <1>4, <1>6, KeepsOn

LEMMA StraysRedis ==
  ASSUME IInv, CopiesInv, StrayInv, NEW h \in Handlers, Redis(h)
  PROVE  StrayInv'
<1>1. /\ h \in Busy /\ Same(h) /\ UNCHANGED <<row, chat>>
      /\ task'[h].base = task[h].base /\ task'[h].user = task[h].user
      /\ task'[h].pc = task[h].pc
      /\ UNCHANGED <<overlaps, faults, unsaved>>
  BY Stores DEF counters, history
<1>2. (Drew(task[h])' <=> Drew(task[h])) /\ Active' = Active
  BY <1>1 DEF Drew, Start, Active
<1>3. Busy' = Busy /\ Paid' = Paid
  BY <1>1 DEF Busy, Same, Paid
<1>4. Loose' \subseteq Loose
  <2>1. \A i : Owns(task[h], i)' <=> Owns(task[h], i)
    BY <1>1, <1>2 DEF Owns
  <2> QED
    BY <1>1, <1>2, <2>1, OthersStay DEF Loose
<1>5. Fresh(task[h]) => Fresh(task[h])'
  BY <1>1, <1>2 DEF Fresh
<1>6. Ahead => \A g \in Busy' : Fresh(task[g])'
  BY <1>1, <1>3, <1>5, OthersStay DEF Ahead, Busy
<1> QED
  BY <1>1, <1>3, <1>4, <1>6, KeepsOn

LEMMA StraysDelete ==
  ASSUME IInv, CopiesInv, StrayInv, NEW h \in Handlers, DeleteAccount(h)
  PROVE  StrayInv'
<1>1. /\ h \in Busy /\ Same(h) /\ task'[h] = Idle
      /\ task[h].pc = "loaded" /\ task[h].name = "delete-yes"
      /\ UNCHANGED <<overlaps, unsaved>>
      /\ row' = NoUser \/ row' = row
      /\ \/ chat' = Restrict(chat, DOMAIN chat \ {task[h].msg}) /\ faults' = faults
         \/ chat' = chat /\ faults' = faults + 1
  BY Deletes
<1>2. task[h].msg = task[h].user.msg /\ ~Drew(task[h])
  BY <1>1 DEF CopiesInv, Copied
<1>3. DOMAIN chat' \subseteq DOMAIN chat /\ Active' \in {0, Active}
  BY <1>1 DEF Restrict, Active
<1>4. \A i : ~Owns(task[h], i)
  BY <1>2 DEF Owns
<1>5. Loose' \subseteq Loose \cup {Active}
  BY <1>1, <1>3, <1>4, OthersStay DEF Loose
<1>6. Paid' \in {Paid, Paid + 1} /\ (faults' = faults + 1 => Paid' = Paid + 1)
  BY <1>1 DEF Paid, IInv, TypeOK
<1>7. ASSUME Ahead, faults' # faults + 1 PROVE Loose' \subseteq Loose
  <2>1. Fresh(task[h])
    BY <1>1, <1>7 DEF Ahead
  <2>2. row # NoUser => Active = task[h].msg
    BY <1>2, <2>1 DEF Fresh, Active, Drew, Start, IInv, TypeOK, Row
  <2>3. row = NoUser => Active \notin DOMAIN chat
    BY DEF Active, IInv, TypeOK
  <2>4. Active \notin DOMAIN chat'
    BY <1>1, <1>7, <2>2, <2>3 DEF Restrict
  <2> QED
    BY <1>5, <2>4 DEF Loose
<1> QED
  BY <1>1, <1>5, <1>6, <1>7, DoneEven

LEMMA StraysErase ==
  ASSUME IInv, CopiesInv, StrayInv, NEW h \in Handlers, Erase(h)
  PROVE  StrayInv'
<1>1. /\ task[h].pc = "erase" /\ h \in Busy /\ Same(h)
      /\ UNCHANGED <<row, overlaps, unsaved>>
      /\ task'[h].pc = "show" /\ task'[h].base = task[h].base /\ task'[h].user = task[h].user
      /\ \/ chat' = Restrict(chat, DOMAIN chat \ {task[h].user.msg}) /\ faults' = faults
         \/ chat' = chat /\ faults' = faults + 1
  BY Erases DEF history
<1>2. Busy' = Busy /\ Active' = Active
  BY <1>1 DEF Busy, Same, Active
<1>3. DOMAIN chat' \subseteq DOMAIN chat
  BY <1>1 DEF Restrict
<1>4. Loose' \subseteq Loose \cup {task[h].user.msg}
  <2>1. \A i : Owns(task[h], i) => i = task[h].user.msg
    BY DEF Owns
  <2> QED
    BY <1>2, <1>3, <2>1, <1>1, OthersStay DEF Loose
<1>5. ASSUME ~Drew(task[h]) \/ task[h].user.msg \notin DOMAIN chat' PROVE Loose' \subseteq Loose
  <2>1. \A i \in DOMAIN chat' : ~Owns(task[h], i)
    BY <1>5 DEF Owns
  <2> QED
    BY <1>1, <1>2, <1>3, <2>1, OthersStay DEF Loose
<1>6. ASSUME Ahead, NEW g \in Busy' PROVE g # h => Fresh(task[g])'
  <2>1. g \in Busy /\ Fresh(task[g])
    BY <1>2, <1>6 DEF Ahead
  <2> QED
    BY <1>1, <1>3, <2>1, OthersStay DEF Busy
<1>7. CASE chat' = Restrict(chat, DOMAIN chat \ {task[h].user.msg}) /\ faults' = faults
  <2>1. task[h].user.msg \notin DOMAIN chat'
    BY <1>7 DEF Restrict
  <2>2. Paid' = Paid
    BY <1>1, <1>7 DEF Paid
  <2>3. ASSUME Fresh(task[h]) PROVE Fresh(task[h])'
    <3>1. Active \notin DOMAIN chat'
      <4>1. CASE Drew(task[h])
        BY <1>1, <1>3, <2>3, <4>1 DEF Fresh
      <4>2. CASE ~Drew(task[h]) /\ row # NoUser
        BY <2>1, <2>3, <4>2 DEF Fresh, Drew, Start, Active
      <4>3. CASE row = NoUser
        BY <1>3, <4>3 DEF Active, IInv, TypeOK
      <4> QED
        BY <4>1, <4>2, <4>3
    <3> QED
      BY <1>1, <1>2, <2>3, <3>1 DEF Fresh
  <2>4. Ahead => \A g \in Busy' : Fresh(task[g])'
    BY <1>1, <1>6, <2>3 DEF Ahead
  <2> QED
    BY <1>1, <1>2, <1>5, <2>1, <2>2, <2>4, KeepsOn
<1>8. CASE chat' = chat /\ faults' = faults + 1
  <2>1. Paid' = Paid + 1
    BY <1>1, <1>8 DEF Paid, IInv, TypeOK
  <2>2. CASE ~Drew(task[h])
    BY <1>2, <1>5, <2>1, <2>2, PaysEven
  <2>3. CASE Drew(task[h])
    <3>1. Fresh(task[h]) => Fresh(task[h])'
      BY <1>1, <1>2, <1>8, <2>3 DEF Fresh
    <3>2. Ahead => \A g \in Busy' : Fresh(task[g])'
      BY <1>1, <1>6, <3>1 DEF Ahead
    <3> QED
      BY <1>1, <1>2, <1>4, <2>1, <3>2, KeepsOn
  <2> QED
    BY <2>2, <2>3
<1> QED
  BY <1>1, <1>7, <1>8

LEMMA StraysShow ==
  ASSUME IInv, CopiesInv, StrayInv, NEW h \in Handlers, Show(h)
  PROVE  StrayInv'
<1>1. /\ task[h].pc = "show" /\ h \in Busy /\ Same(h)
      /\ UNCHANGED <<row, overlaps, faults, unsaved>>
      /\ DOMAIN chat' = DOMAIN chat \cup {sent + 1}
      /\ task'[h].pc \in {"erase", "commit"} /\ task'[h].base = task[h].base
      /\ task'[h].user.msg = sent + 1
  BY Draws DEF history
<1>2. /\ Busy' = Busy /\ Active' = Active /\ Paid' = Paid
  BY <1>1 DEF Busy, Same, Active, Paid
<1>3. Active # sent + 1 /\ Start(task[h]) # sent + 1
  BY <1>1, Numbers
<1>4. Drew(task[h])'
  BY <1>1, <1>3 DEF Drew, Start
<1>5. \A i : ~Owns(task[h], i)
  BY <1>1 DEF Owns
<1>6. Loose' \subseteq Loose
  <2> SUFFICES ASSUME NEW i \in Loose' PROVE i \in Loose
    OBVIOUS
  <2>1. i # sent + 1
    BY <1>1, <1>4 DEF Loose, Owns
  <2>2. i \in DOMAIN chat /\ i # Active
    BY <1>1, <1>2, <2>1 DEF Loose
  <2>3. ASSUME NEW g \in Handlers, g # h PROVE ~Owns(task[g], i)
    <3>1. ~Owns(task[g], i)'
      BY DEF Loose, Owns
    <3> QED
      BY <1>1, <2>3, <3>1, OthersStay
  <2> QED
    BY <1>5, <2>2, <2>3 DEF Loose
<1>7. Fresh(task[h]) => Fresh(task[h])'
  BY <1>1, <1>2, <1>3 DEF Fresh
<1>8. Ahead => \A g \in Busy' : Fresh(task[g])'
  BY <1>1, <1>2, <1>3, <1>7, OthersStay DEF Ahead, Busy
<1> QED
  BY <1>1, <1>2, <1>6, <1>8, KeepsOn

LEMMA StraysCommit ==
  ASSUME IInv, CopiesInv, StrayInv, NEW h \in Handlers, Commit(h)
  PROVE  StrayInv'
<1>1. /\ task[h].pc = "commit" /\ h \in Busy /\ Same(h) /\ task'[h] = Idle
      /\ UNCHANGED <<chat, overlaps, faults>>
      /\ unsaved' = IF ~task[h].saves /\ task[h].screen # "none" THEN unsaved + 1 ELSE unsaved
      /\ \/ row' = row /\ (task[h].saves => task[h].base # NoUser /\ ~Lives(task[h]))
         \/ task[h].base = NoUser /\ row' = task[h].user
         \/ task[h].base # NoUser /\ Lives(task[h]) /\ row' = Saved(task[h])
  BY Commits
<1>2. /\ Drew(task[h]) => task[h].screen # "none"
      /\ task[h].base # NoUser => task[h].base.id = task[h].user.id
  BY <1>1 DEF CopiesInv, Copied
<1>3. Paid' \in {Paid, Paid + 1} /\ (unsaved' = unsaved + 1 => Paid' = Paid + 1)
  BY <1>1 DEF Paid, IInv, TypeOK
<1>4. \A i : Owns(task[h], i) => Drew(task[h]) /\ i = task[h].user.msg
  BY DEF Owns
<1>5. CASE Active' = Active /\ ~Drew(task[h])
  <2>1. Loose' \subseteq Loose
    BY <1>1, <1>4, <1>5, OthersStay DEF Loose
  <2> QED
    BY <1>1, <1>3, <2>1, DoneEven
<1>6. CASE row' = row /\ Drew(task[h]) /\ (task[h].saves => task[h].base # NoUser /\ ~Lives(task[h]))
  <2>1. Loose' \subseteq Loose \cup {task[h].user.msg}
    BY <1>1, <1>4, <1>6, OthersStay DEF Loose, Active
  <2>2. ASSUME Ahead PROVE unsaved' = unsaved + 1
    <3>1. Fresh(task[h])
      BY <1>1, <2>2 DEF Ahead
    <3>2. ~task[h].saves
      BY <1>2, <1>6, <3>1 DEF Fresh, Lives
    <3> QED
      BY <1>1, <1>2, <1>6, <3>2
  <2> QED
    BY <1>1, <1>3, <2>1, <2>2, DoneEven
<1>7. CASE /\ Active' = task[h].user.msg
           /\ Fresh(task[h]) => Active \notin DOMAIN chat
  <2>1. Loose' \subseteq Loose \cup {Active}
    BY <1>1, <1>4, <1>7, OthersStay DEF Loose
  <2>2. Ahead => Loose' \subseteq Loose
    <3>1. Loose' \subseteq DOMAIN chat
      BY <1>1 DEF Loose
    <3>2. Ahead => Active \notin DOMAIN chat
      BY <1>1, <1>7 DEF Ahead
    <3> QED
      BY <2>1, <3>1, <3>2
  <2> QED
    BY <1>1, <1>3, <2>1, <2>2, DoneEven
<1>8. CASE row' = row /\ (task[h].saves => task[h].base # NoUser /\ ~Lives(task[h]))
  BY <1>5, <1>6, <1>8 DEF Active
<1>9. CASE task[h].base = NoUser /\ row' = task[h].user
  <2>1. Active' = task[h].user.msg
    BY <1>1, <1>9, Numbers DEF Active
  <2>2. Fresh(task[h]) => Active \notin DOMAIN chat
    BY <1>9 DEF Fresh, Active, IInv, TypeOK
  <2> QED
    BY <1>7, <2>1, <2>2
<1>10. CASE task[h].base # NoUser /\ Lives(task[h]) /\ row' = Saved(task[h])
  <2>1. /\ row'.msg = IF Drew(task[h]) THEN task[h].user.msg ELSE row.msg
        /\ ~Drew(task[h]) => row' = row
    BY <1>1, <1>10, SavedIs DEF Lives
  <2>2. CASE ~Drew(task[h])
    BY <1>5, <2>1, <2>2 DEF Active
  <2>3. CASE Drew(task[h])
    <3>1. row' # NoUser
      BY <1>1, <2>1, <2>3, KeepCommit, Numbers, RowAssumption, <1>10 DEF Saved, IInv, TypeOK, Lives, Row
    <3>2. Active' = task[h].user.msg
      BY <2>1, <2>3, <3>1 DEF Active
    <3>3. Fresh(task[h]) => Active \notin DOMAIN chat
      BY <1>1, <2>3 DEF Fresh
    <3> QED
      BY <1>7, <3>2, <3>3
  <2> QED
    BY <2>2, <2>3
<1> QED
  BY <1>1, <1>8, <1>9, <1>10

LEMMA StraysAbort ==
  ASSUME IInv, CopiesInv, StrayInv, NEW h \in Handlers, Abort(h)
  PROVE  StrayInv'
<1>1. /\ h \in Busy /\ Same(h) /\ task'[h] = Idle
      /\ UNCHANGED <<row, chat, overlaps, unsaved>> /\ faults' = faults + 1
  BY Aborts DEF history
<1>2. Paid' = Paid + 1
  BY <1>1 DEF Paid, IInv, TypeOK
<1>3. Loose' \subseteq Loose \cup {task[h].user.msg}
  <2>1. \A i : Owns(task[h], i) => i = task[h].user.msg
    BY DEF Owns
  <2> QED
    BY <1>1, <2>1, OthersStay DEF Loose, Active
<1> QED
  BY <1>1, <1>2, <1>3, DoneEven

LEMMA StraysStep == IInv /\ CopiesInv /\ StrayInv /\ [Next]_vars => StrayInv'
<1> SUFFICES ASSUME IInv, CopiesInv, StrayInv, [Next]_vars PROVE StrayInv'
  OBVIOUS
<1>1. CASE \E h \in Handlers : Handle(h)
  BY <1>1, StraysReceive, StraysDecide, StraysDelete, StraysRedis, StraysErase,
     StraysShow, StraysCommit, StraysAbort DEF Handle
<1>2. ASSUME UNCHANGED <<row, task, overlaps, unsaved>>, DOMAIN chat' \subseteq DOMAIN chat
      PROVE  /\ Loose' \subseteq Loose /\ Busy' = Busy
             /\ Ahead => \A h \in Busy' : Fresh(task[h])'
  <2>1. Busy' = Busy /\ Active' = Active
    BY <1>2 DEF Busy, Active
  <2>2. \A h, i : Owns(task[h], i)' <=> Owns(task[h], i)
    BY <1>2 DEF Owns, Drew, Start
  <2>3. \A h : Fresh(task[h]) => Fresh(task[h])'
    BY <1>2, <2>1 DEF Fresh, Drew, Start
  <2> QED
    BY <1>2, <2>1, <2>2, <2>3 DEF Loose, Ahead
<1>3. CASE SyncBegins \/ SyncEnds \/ UNCHANGED vars
  <2>1. UNCHANGED <<row, task, overlaps, unsaved, faults>> /\ DOMAIN chat' = DOMAIN chat
    BY <1>3 DEF SyncBegins, SyncEnds, vars, counters, history
  <2>2. /\ Loose' \subseteq Loose /\ Busy' = Busy /\ Paid' = Paid
        /\ Ahead => \A h \in Busy' : Fresh(task[h])'
    BY <1>2, <2>1 DEF Paid
  <2>3. CASE Busy # {}
    BY <2>2, <2>3, KeepsOn
  <2>4. CASE Busy = {}
    <3>1. Even
      BY <2>4 DEF StrayInv, Ahead
    <3>2. Cardinality(Loose') \in Nat /\ Cardinality(Loose') <= Cardinality(Loose)
      BY <2>2, LooseSame
    <3> QED
      BY <2>2, <3>1, <3>2, Sizes DEF StrayInv, Even
  <2> QED
    BY <2>3, <2>4
<1>4. ASSUME NEW msg, UserDeletes(msg) PROVE StrayInv'
  <2>1. UNCHANGED <<row, task, overlaps, unsaved>> /\ faults' = faults + 1
        /\ DOMAIN chat' \subseteq DOMAIN chat
    BY <1>4 DEF UserDeletes, history, Restrict
  <2>2. Paid' = Paid + 1
    BY <2>1 DEF Paid, IInv, TypeOK
  <2> QED
    BY <1>2, <2>1, <2>2, PaysEven
<1> QED
  BY <1>1, <1>3, <1>4 DEF Next

(***************************************************************************)
(* A second message needs a failure, an overlap or a screen drawn without  *)
(* a commit, one for each.                                                 *)
(***************************************************************************)
THEOREM StraysArePaid == Spec => []StraysExplained
<1>1. IInv /\ StrayInv => StraysExplained
  <2> SUFFICES ASSUME IInv, StrayInv, Busy = {}
               PROVE  Cardinality(DOMAIN chat \ {Active}) <= Paid
    BY DEF StraysExplained, Quiet, Paid
  <2>1. Loose = DOMAIN chat \ {Active}
    BY DEF Loose, Owns, Busy
  <2>2. Cardinality(Busy) = 0 /\ Even
    BY FS_EmptySet DEF StrayInv, Ahead
  <2> QED
    BY <2>1, <2>2, Sizes DEF Even
<1> QED
  BY <1>1, CopiesInvariant, StraysInit, StraysStep, InvInit, InvNext, PTL DEF Spec
-----------------------------------------------------------------------------
(***************************************************************************)
(* The way to a place.  Which requests lead to it, and where they come     *)
(* from.                                                                   *)
(***************************************************************************)

Looks == {"city_input", "geolocation"}
Restaurants == {"restaurant_city", "restaurant_location"}
Writers == Looks \cup Restaurants \cup {"place"}
Picking == {"place-selection", "radius"}

LEMMA PlainPages ==
  ASSUME NEW p \in Pages
  PROVE  /\ p[3] \notin Picking
         /\ p[2] \in Looks => p[1] \in {"city", "geo"}
         /\ p[2] = "update" => p[1] \in Restaurants
<1> USE DEF Picking, Looks, Restaurants
<1>1. CASE p \in MenuPages
  BY <1>1 DEF MenuPages
<1>2. CASE p \in SubscriptionPages
  BY <1>2 DEF SubscriptionPages
<1>3. CASE p \in ReportPages
  BY <1>3 DEF ReportPages
<1>4. CASE p \in RestaurantPages
  BY <1>4 DEF RestaurantPages
<1>5. CASE p \in FilterPages
  BY <1>5 DEF FilterPages
<1>6. CASE p \in MonitoringPages
  BY <1>6 DEF MonitoringPages
<1>7. CASE p \in RestaurantInputPages
  BY <1>7 DEF RestaurantInputPages
<1> QED
  BY <1>1, <1>2, <1>3, <1>4, <1>5, <1>6, <1>7 DEF Pages

LEMMA PlaceButtons ==
  ASSUME NEW s, NEW b, <<s, b>> \in Keyboard
  PROVE  /\ b \notin Looks
         /\ b = "place" => s = "place-selection"
         /\ b \in {"radius", "entire-city"} => s = "radius"
         /\ b \in {"city", "geo"} => s = "location"
<1>1. CASE <<s, b>> \in MenuButtons
  BY <1>1 DEF MenuButtons, Looks
<1>2. CASE <<s, b>> \in BackButtons
  BY <1>2 DEF BackButtons, Looks
<1>3. CASE <<s, b>> \in InlineButtons
  BY <1>3 DEF Looks, InlineButtons, FilterButtons, SubscriptionButtons,
      MonitoringButtons, ReportButtons, DeleteButtons, RestaurantButtons, SelectionButtons
<1>4. CASE <<s, b>> \in MainButtons
  BY <1>4 DEF MainButtons, Looks
<1> QED
  BY <1>1, <1>2, <1>3, <1>4 DEF Keyboard

\* The buttons of a screen are those of its keyboard.
LEMMA ScreenButtons ==
  ASSUME NEW m, m.screen \in ScreenNames, NEW b \in Buttons(m)
  PROVE  <<m.screen, b>> \in Keyboard
<1>1. b \in ButtonsOf[m.screen]
  BY KnownScreens DEF Buttons
<1>2. PICK k \in Keyboard : k[1] = m.screen /\ k[2] = b
  BY <1>1 DEF ButtonsOf
<1>3. \A A, B : \A p \in A \X B : p = <<p[1], p[2]>>
  OBVIOUS
<1>4. k = <<k[1], k[2]>>
  <2>1. CASE k \in MenuButtons
    BY <1>3, <2>1 DEF MenuButtons
  <2>2. CASE k \in BackButtons
    BY <1>3, <2>2 DEF BackButtons
  <2>3. CASE k \in InlineButtons
    BY <1>3, <2>3 DEF InlineButtons, FilterButtons, SubscriptionButtons,
      MonitoringButtons, ReportButtons, DeleteButtons, RestaurantButtons, SelectionButtons
  <2>4. CASE k \in MainButtons
    BY <1>3, <2>4 DEF MainButtons
  <2> QED
    BY <2>1, <2>2, <2>3, <2>4 DEF Keyboard
<1> QED
  BY <1>2, <1>4

LEMMA PressFrom ==
  ASSUME TypeOK, NEW q \in Messages \cup Presses,
         q.name \in PicksPlace \ Restaurants
  PROVE  \/ q.name \in Looks /\ talk.state = q.name
         \/ /\ q.name \notin Looks /\ q.msg # 0
            /\ q.msg \in DOMAIN chat /\ q.offer = chat[q.msg].offer
            /\ q.name = "place" => chat[q.msg].screen = "place-selection"
            /\ q.name \in {"radius", "entire-city"} =>
                 chat[q.msg].screen = "radius" /\ q.index = 1
            /\ q.name \in {"city", "geo"} => chat[q.msg].screen = "location"
<1>1. CASE q \in Messages
  <2>1. \/ \E c \in Commands : q = Request(c, 0, 0, <<>>, 1)
        \/ \E s \in {talk.state} : q = Request(s, 0, 0, <<>>, 1) /\ s \in Inputs
    BY <1>1 DEF Messages
  <2>2. q.name \in Commands \/ (q.name = talk.state /\ q.name \in Inputs)
    BY <2>1 DEF Request
  <2>3. q.name \notin Commands
    BY DEF Commands, PicksPlace
  <2>4. q.name \in Inputs => q.name \in Looks
    BY DEF Inputs, PicksPlace, Looks, Restaurants
  <2> QED
    BY <2>2, <2>3, <2>4
<1>2. CASE q \in Presses
  <2>1. PICK i \in DOMAIN chat :
          \E b \in Buttons(chat[i]),
             n \in 1..(IF chat[i].screen = "place-selection"
                       THEN Len(chat[i].offer) ELSE 1) :
            q = Request(b, i, chat[i].ver, chat[i].offer, n)
    BY <1>2 DEF Presses
  <2>2. PICK b \in Buttons(chat[i]),
             n \in 1..(IF chat[i].screen = "place-selection"
                       THEN Len(chat[i].offer) ELSE 1) :
          q = Request(b, i, chat[i].ver, chat[i].offer, n)
    BY <2>1
  <2>6. chat[i].screen # "place-selection" => n = 1
    BY <2>2
  <2>3. q.name = b /\ q.msg = i /\ q.offer = chat[i].offer /\ q.index = n
    BY <2>2 DEF Request
  <2>4. chat[i].screen \in ScreenNames /\ i # 0
    BY DEF TypeOK, Message
  <2>5. <<chat[i].screen, b>> \in Keyboard
    BY <2>4, ScreenButtons
  <2> QED
    BY <2>2, <2>3, <2>4, <2>5, <2>6, PlaceButtons
<1> QED
  BY <1>1, <1>2

(***************************************************************************)
(* What an answer will do in Redis, and what it shows.                     *)
(***************************************************************************)

\* Only a request for a city or a position makes the dialogue wait for one; only
\* Writers write its data, what they have read immediately before.
Orderly(name, ops) ==
  \A i \in 1..Len(ops) :
    /\ ops[i] \in Looks => name \in {"city", "geo"}
    /\ ops[i] \in {"get", "set"} => name \in Writers
    /\ ops[i] = "get" => i + 1 \in 1..Len(ops) /\ ops[i + 1] = "set"
    /\ ops[i] \in {"get", "set"} /\ i # 1 => ops[i - 1] = "get"
Pending(ops) == ops # <<>> /\ ops[1] \in {"get", "set"}

LEMMA OneLeft ==
  ASSUME NEW name, NEW ops \in Seq(Op), ops # <<>>, Orderly(name, ops)
  PROVE  /\ Head(ops) = ops[1] /\ Orderly(name, Tail(ops))
         /\ ops[1] = "get" => Pending(Tail(ops))
         /\ ops[1] # "get" => ~Pending(Tail(ops))
<1>1. /\ Len(ops) \in Nat \ {0} /\ Len(Tail(ops)) = Len(ops) - 1
      /\ \A i \in 1..Len(Tail(ops)) : i + 1 \in 1..Len(ops) /\ Tail(ops)[i] = ops[i + 1]
      /\ Tail(ops) \in Seq(Op) /\ Head(ops) = ops[1]
  OBVIOUS
<1> DEFINE rest == Tail(ops)
<1>2. Len(rest) = Len(ops) - 1 /\ rest \in Seq(Op)
      /\ \A i \in 1..Len(rest) : i + 1 \in 1..Len(ops) /\ rest[i] = ops[i + 1]
  BY <1>1
<1> HIDE DEF rest
<1>3. ASSUME NEW i \in 1..Len(rest)
      PROVE  /\ rest[i] \in Looks => name \in {"city", "geo"}
             /\ rest[i] \in {"get", "set"} => name \in Writers
             /\ rest[i] = "get" => i + 1 \in 1..Len(rest) /\ rest[i + 1] = "set"
             /\ rest[i] \in {"get", "set"} /\ i # 1 => rest[i - 1] = "get"
  <2>1. i + 1 \in 1..Len(ops) /\ rest[i] = ops[i + 1]
    BY <1>2
  <2>2. /\ rest[i] \in Looks => name \in {"city", "geo"}
        /\ rest[i] \in {"get", "set"} => name \in Writers
    BY <2>1 DEF Orderly
  <2>3. ASSUME rest[i] = "get" PROVE i + 1 \in 1..Len(rest) /\ rest[i + 1] = "set"
    <3>1. i + 2 \in 1..Len(ops) /\ ops[i + 2] = "set"
      <4>1. (i + 1) + 1 \in 1..Len(ops) /\ ops[(i + 1) + 1] = "set"
        BY <2>1, <2>3 DEF Orderly
      <4>2. (i + 1) + 1 = i + 2
        BY <1>1, <1>2
      <4> QED
        BY <4>1, <4>2
    <3>2. i + 1 \in 1..Len(rest)
      BY <1>1, <1>2, <3>1
    <3>3. rest[i + 1] = ops[(i + 1) + 1] /\ (i + 1) + 1 = i + 2
      BY <1>2, <3>2
    <3> QED
      BY <3>1, <3>2, <3>3
  <2>4. ASSUME rest[i] \in {"get", "set"}, i # 1 PROVE rest[i - 1] = "get"
    <3>1. ops[(i + 1) - 1] = "get"
      BY <1>1, <1>2, <2>1, <2>4 DEF Orderly
    <3>2. i - 1 \in 1..Len(rest) /\ (i + 1) - 1 = i /\ (i - 1) + 1 = i
      BY <1>1, <1>2, <2>4
    <3>3. rest[i - 1] = ops[(i - 1) + 1]
      BY <1>2, <3>2
    <3> QED
      BY <3>1, <3>2, <3>3
  <2> QED
    BY <2>2, <2>3, <2>4
<1>4. Orderly(name, rest)
  BY <1>3 DEF Orderly
<1>5. ASSUME ops[1] = "get" PROVE Pending(rest)
  <2>1. 1 \in 1..Len(ops)
    BY <1>1
  <2>2. 1 + 1 \in 1..Len(ops) /\ ops[1 + 1] = "set"
    BY <1>5, <2>1 DEF Orderly
  <2>3. 1 \in 1..Len(rest)
    BY <1>1, <1>2, <2>2
  <2>4. rest[1] = "set" /\ rest # <<>>
    BY <1>2, <2>2, <2>3
  <2> QED
    BY <2>4 DEF Pending
<1>6. ASSUME ops[1] # "get", Pending(rest) PROVE FALSE
  <2>1. 1 \in 1..Len(rest) /\ rest[1] \in {"get", "set"}
    BY <1>2, <1>6 DEF Pending
  <2>2. 1 + 1 \in 1..Len(ops) /\ rest[1] = ops[1 + 1]
    BY <1>2, <2>1
  <2>3. ops[(1 + 1) - 1] = "get"
    BY <2>1, <2>2 DEF Orderly
  <2> QED
    BY <1>6, <2>3
<1> QED
  BY <1>1, <1>4, <1>5, <1>6 DEF rest

\* What an answer has in common with all answers to its request.
Effect(t, a) ==
  /\ Orderly(t.name, a.ops) /\ (a.ops # <<>> => a.ops[1] # "set")
  /\ a.screen = "place-selection" => t.name \in Looks /\ Pending(a.ops)
  /\ a.screen = "radius" =>
       t.name = "place" /\ Pending(a.ops) /\ a.shows = <<a.picked>>
  /\ a.picked # Nothing =>
       \/ /\ t.name = "place" /\ t.index <= Len(talk.data.places)
          /\ a.picked = talk.data.places[t.index]
       \/ t.name \in {"radius", "entire-city"} /\ a.picked = talk.data.place

LEMMA OrderlyKinds ==
  ASSUME NEW name
  PROVE  /\ Orderly(name, <<>>) /\ ~Pending(<<>>)
         /\ Orderly(name, <<"none", "empty">>)
         /\ name \in Writers => Orderly(name, <<"get", "set">>)
         /\ \A s \in States : (s \in Looks => name \in {"city", "geo"})
                              => Orderly(name, <<s>>) /\ ~Pending(<<s>>)
<1> USE DEF Orderly, Pending, Looks
<1>1. Orderly(name, <<>>) /\ ~Pending(<<>>)
  OBVIOUS
<1>2. Orderly(name, <<"none", "empty">>)
  OBVIOUS
<1>3. ASSUME name \in Writers PROVE Orderly(name, <<"get", "set">>)
  BY <1>3
<1>4. ASSUME NEW s \in States, s \in Looks => name \in {"city", "geo"}
      PROVE  Orderly(name, <<s>>) /\ ~Pending(<<s>>)
  <2>1. s \notin {"get", "set"}
    BY DEF States, Inputs
  <2> QED
    BY <1>4, <2>1
<1> QED
  BY <1>1, <1>2, <1>3, <1>4

LEMMA PlainEffect ==
  ASSUME NEW t, NEW d \in Inputs \cup {"keep", "clear", "update"},
         NEW s \in ScreenNames \cup {"none"}, s \notin Picking,
         d \in Looks => t.name \in {"city", "geo"},
         d = "update" => t.name \in Writers
  PROVE  Effect(t, Answer(d, s))
<1> DEFINE ops == CASE d = "keep"   -> <<>>
                    [] d = "clear"  -> <<"none", "empty">>
                    [] d = "update" -> <<"get", "set">>
                    [] OTHER        -> <<d>>
<1>1. /\ Answer(d, s).ops = ops /\ Answer(d, s).screen = s
      /\ Answer(d, s).picked = Nothing
  BY DEF Answer
<1>2. Orderly(t.name, ops) /\ (ops # <<>> => ops[1] # "set")
  <2>1. CASE d = "keep"
    BY <2>1, OrderlyKinds
  <2>2. CASE d = "clear"
    BY <2>2, OrderlyKinds
  <2>3. CASE d = "update"
    BY <2>3, OrderlyKinds
  <2>4. CASE d \in Inputs
    <3>1. d \notin {"keep", "clear", "update", "set"} /\ d \in States
      BY <2>4 DEF Inputs, States
    <3>2. ops = <<d>>
      BY <3>1
    <3> HIDE DEF ops
    <3> QED
      BY <3>1, <3>2, OrderlyKinds
  <2> QED
    BY <2>1, <2>2, <2>3, <2>4
<1> HIDE DEF ops
<1> QED
  BY <1>1, <1>2 DEF Effect, Picking

LEMMA SameEffect ==
  ASSUME NEW t, NEW a, Sound(a), Effect(t, a)
  PROVE  /\ \A b \in BOOLEAN : Effect(t, [a EXCEPT !.saves = b])
         /\ Effect(t, [a EXCEPT !.draws = 2])
<1>1. ASSUME NEW b \in BOOLEAN
      PROVE  LET v == [a EXCEPT !.saves = b]
             IN  /\ v.ops = a.ops /\ v.screen = a.screen
                 /\ v.picked = a.picked /\ v.shows = a.shows
  BY DEF Sound, AnswerType
<1>2. LET v == [a EXCEPT !.draws = 2]
      IN  /\ v.ops = a.ops /\ v.screen = a.screen
          /\ v.picked = a.picked /\ v.shows = a.shows
  BY DEF Sound, AnswerType
<1> QED
  BY <1>1, <1>2 DEF Effect

LEMMA FilterEffect ==
  ASSUME NEW t, NEW a \in FilterAnswers(t.name)
  PROVE  Effect(t, a)
<1>1. \A d \in {"clear", "keep"} :
        Sound(Answer(d, "filters")) /\ Effect(t, Answer(d, "filters"))
  BY AnswerSound, KnownScreens, PlainEffect DEF Looks, Picking
<1>2. Effect(t, Answer("keep", InputScreen(t.name)))
  <2>1. InputScreen(t.name) \in ScreenNames \ Picking
    BY KnownScreens DEF InputScreen, Picking
  <2> QED
    BY <2>1, PlainEffect DEF Looks
<1>3. Effect(t, [Answer("keep", "filters") EXCEPT !.saves = FALSE])
  BY <1>1, SameEffect
<1> QED
  BY <1>1, <1>2, <1>3 DEF FilterAnswers

LEMMA SearchEffect ==
  ASSUME NEW t, NEW a \in SearchAnswers(t.name)
  PROVE  Effect(t, a)
<1>1. \A s \in {"none", "check-now-locked", "main", "list"} :
        Sound(Answer("keep", s)) /\ Effect(t, Answer("keep", s))
  BY AnswerSound, KnownScreens, PlainEffect DEF Looks, Picking
<1>2. Sound(Silent) /\ Effect(t, Silent)
  BY <1>1 DEF Silent
<1>3. Effect(t, [Silent EXCEPT !.saves = t.name # "pause"])
  BY <1>2, SameEffect
<1>4. Effect(t, [Answer("keep", "list") EXCEPT !.draws = 2])
  BY <1>1, SameEffect
<1> QED
  BY <1>1, <1>2, <1>3, <1>4 DEF SearchAnswers

\* A lookup answers with a page that says why not, or the places found.
LEMMA LookupEffect ==
  ASSUME NEW t, NEW a \in PlaceInputAnswers(t.name)
  PROVE  Effect(t, a)
<1>1. t.name \in Looks
  BY DEF PlaceInputAnswers, Looks
<1>2. CASE a \in {Answer("keep", ErrorScreen(t.name)), Answer("keep", EmptyScreen(t.name))}
  <2>1. /\ ErrorScreen(t.name) \in ScreenNames \ Picking
        /\ EmptyScreen(t.name) \in ScreenNames \ Picking
    BY KnownScreens DEF ErrorScreen, EmptyScreen, Picking
  <2> QED
    BY <1>2, <2>1, PlainEffect DEF Looks
<1>3. ASSUME NEW found \in Replies, a = PlacesFound(found)
      PROVE  Effect(t, a)
  <2>1. Sound(Answer("update", "place-selection"))
    BY AnswerSound, KnownScreens
  <2>2. /\ Answer("update", "place-selection").screen = "place-selection"
        /\ Answer("update", "place-selection").picked = Nothing
        /\ Answer("update", "place-selection").ops = <<"get", "set">>
    BY DEF Answer
  <2>3. a = [Answer("update", "place-selection") EXCEPT !.shows = found]
    BY <1>3 DEF PlacesFound
  <2>4. a.screen = "place-selection" /\ a.picked = Nothing /\ a.ops = <<"get", "set">>
    BY <2>1, <2>2, <2>3 DEF Sound, AnswerType
  <2>5. Orderly(t.name, <<"get", "set">>)
    BY <1>1, OrderlyKinds DEF Writers
  <2> QED
    BY <1>1, <2>4, <2>5 DEF Effect, Pending
<1> QED
  BY <1>2, <1>3 DEF PlaceInputAnswers

\* A press on a place answers nothing, or with the place.
LEMMA PressEffect ==
  ASSUME TypeOK, NEW t \in Task, NEW a \in PlaceAnswers(t)
  PROVE  Effect(t, a)
<1>1. t.name = "place"
  BY DEF PlaceAnswers
<1>2. CASE t.index > Len(talk.data.places)
  <2>1. a = Answer("keep", "none")
    BY <1>1, <1>2 DEF PlaceAnswers, Silent
  <2> QED
    BY <2>1, PlainEffect DEF Looks, Picking
<1>3. CASE ~(t.index > Len(talk.data.places))
  <2> DEFINE b == Answer("update", "radius")
  <2>1. a = [b EXCEPT !.ops = Append(@, "radius_selection"),
                      !.shows = <<PlaceAt(t.index)>>, !.picked = PlaceAt(t.index)]
    BY <1>1, <1>3 DEF PlaceAnswers
  <2>2. Sound(b) /\ b.screen = "radius" /\ b.ops = <<"get", "set">>
    BY AnswerSound, KnownScreens DEF Answer
  <2> HIDE DEF b
  <2>3. /\ a.ops = Append(<<"get", "set">>, "radius_selection")
        /\ a.shows = <<PlaceAt(t.index)>>
        /\ a.picked = PlaceAt(t.index) /\ a.screen = "radius"
    BY <2>1, <2>2 DEF Sound, AnswerType
  <2>4. /\ Len(a.ops) = 3 /\ a.ops # <<>>
        /\ a.ops[1] = "get" /\ a.ops[2] = "set" /\ a.ops[3] = "radius_selection"
    <3>1. <<"get", "set">> \in Seq(Op) /\ "radius_selection" \in Op
      BY DEF Op, States
    <3>2. /\ Len(<<"get", "set">>) = 2
          /\ <<"get", "set">>[1] = "get" /\ <<"get", "set">>[2] = "set"
      OBVIOUS
    <3>3. ASSUME NEW ops \in Seq(Op), NEW op \in Op, Len(ops) = 2
          PROVE  /\ Len(Append(ops, op)) = 3
                 /\ Append(ops, op)[1] = ops[1] /\ Append(ops, op)[2] = ops[2]
                 /\ Append(ops, op)[3] = op
      <4>1. /\ Len(Append(ops, op)) = Len(ops) + 1
            /\ \A i \in 1..Len(ops) : Append(ops, op)[i] = ops[i]
            /\ Append(ops, op)[Len(ops) + 1] = op
        BY AppendProperties
      <4> QED
        BY <3>3, <4>1
    <3>4. Len(a.ops) # Len(<<>>)
      BY <2>3, <3>1, <3>2, <3>3
    <3> QED
      BY <2>3, <3>1, <3>2, <3>3, <3>4
  <2>5. Orderly(t.name, a.ops) /\ Pending(a.ops) /\ a.ops[1] # "set"
    BY <1>1, <2>4 DEF Orderly, Pending, Writers, Looks
  <2>a. talk \in Talk
    BY DEF TypeOK
  <2>b. talk.data \in Data
    BY <2>a DEF Talk
  <2>6. t.index <= Len(talk.data.places)
    <3>1. talk.data.places \in Seq(Areas) /\ t.index \in Nat
      BY <2>b DEF Data, Task
    <3> QED
      BY <1>3, <3>1
  <2> QED
    BY <1>1, <2>3, <2>5, <2>6 DEF Effect, PlaceAt
<1> QED
  BY <1>2, <1>3

\* A radius ends the dialogue, perhaps with its place.
LEMMA RadiusEffect ==
  ASSUME TypeOK, NEW t, NEW a \in RadiusAnswers(t.name)
  PROVE  Effect(t, a)
<1>1. t.name \in {"radius", "entire-city"}
  BY DEF RadiusAnswers
<1>2. CASE a \in {Answer("keep", "location"), Answer("clear", "location")}
  BY <1>2, PlainEffect, KnownScreens DEF Looks, Picking
<1>3. CASE a = [Answer("clear", "main") EXCEPT !.area = talk.data.place,
                  !.picked = talk.data.place]
  <2> DEFINE b == Answer("clear", "main")
  <2>1. Sound(b) /\ Effect(t, b) /\ b.screen = "main"
    BY AnswerSound, KnownScreens, PlainEffect DEF Looks, Picking
  <2> HIDE DEF b
  <2>2. a.ops = b.ops /\ a.picked = talk.data.place /\ a.screen = b.screen
    BY <1>3, <2>1 DEF Sound, AnswerType, b
  <2> QED
    BY <1>1, <2>1, <2>2 DEF Effect
<1> QED
  BY <1>2, <1>3 DEF RadiusAnswers

LEMMA AnswerEffects ==
  ASSUME TypeOK, NEW t \in Task, t.name # "none", NEW a \in Answers(t)
  PROVE  Effect(t, a)
<1>1. ASSUME NEW p \in PagesOf[t.name], a = Answer(p[2], p[3])
      PROVE  Effect(t, a)
  <2>1. p \in Pages /\ p[1] = t.name
    BY DEF PagesOf, Task
  <2> QED
    BY <1>1, <2>1, PageTypes, PlainPages, PlainEffect DEF Writers
<1> QED
  BY <1>1, FilterEffect, SearchEffect, LookupEffect, PressEffect, RadiusEffect
  DEF Answers

(***************************************************************************)
(* As long as no two updates on the way to a place, or that write the data *)
(* back, are handled at once: the message the row names shows the places   *)
(* that are stored, or the one that is chosen, and so does the message a   *)
(* handler is about to put in its place, once the handler has stored them. *)
(* What a handler has read to write it back is not newer than the message. *)
(***************************************************************************)

Shows(s) == row # NoUser /\ row.msg \in DOMAIN chat /\ chat[row.msg].screen = s
Offers(d, places) == d.places = <<>> \/ places = d.places
Holds(d, places) == d.place = Nothing \/ places = <<d.place>>
Front(d) ==
  /\ Shows("place-selection") => Offers(d, chat[row.msg].offer)
  /\ Shows("radius") => Holds(d, chat[row.msg].offer)

FrontInv == Front(talk.data) /\ (Shows("place-selection") => talk.state \notin Looks)

\* A press that has been checked; a handler that is not about to end; what it
\* has to do in Redis; a screen to be drawn or committed.
Asks(t) ==
  t.pc = "loaded" =>
    /\ t.name = "place" => Offers(talk.data, t.offer)
    /\ t.name \in {"radius", "entire-city"} => Holds(talk.data, t.offer) /\ t.index = 1
Early(t) ==
  t.pc # "commit" \/ t.ops # <<>> =>
    /\ t.name = "place" => ~Shows("radius")
    /\ t.name \in {"city", "geo"} \cup Looks => ~Shows("place-selection")
Writes(t) ==
  /\ Orderly(t.name, t.ops)
  /\ t.ops # <<>> /\ t.ops[1] = "set" => Front(t.data)
  /\ t.pc = "commit" /\ t.screen = "place-selection" =>
       /\ \A i \in 1..Len(t.ops) : t.ops[i] = "place_selection"
       /\ t.ops = <<>> => talk.state \notin Looks
Brings(t) ==
  /\ t.screen = "place-selection" =>
       t.name \in Looks /\ (Pending(t.ops) \/ Offers(talk.data, t.shows))
  /\ t.screen = "radius" =>
       /\ t.name = "place" /\ t.shows = <<t.picked>>
       /\ Pending(t.ops) \/ Holds(talk.data, t.shows)
  /\ t.picked # Nothing => t.picked = t.offer[t.index]
Drawn(t) ==
  (/\ t.pc = "commit" /\ Drew(t) /\ t.user.msg \in DOMAIN chat
   /\ chat[t.user.msg].screen \in Picking)
  => chat[t.user.msg].screen = t.screen /\ chat[t.user.msg].offer = t.shows
Tells(t) == Asks(t) /\ Early(t) /\ Writes(t) /\ Brings(t) /\ Drawn(t)

OneChoosing == \A g, h \in Busy : task[g].name \in PicksPlace /\ task[h].name \in PicksPlace => g = h
ChoiceInv == ~raced => OneChoosing /\ FrontInv /\ \A h \in Busy : Tells(task[h])

LEMMA ChoiceInit == Init => ChoiceInv
<1> SUFFICES ASSUME Init PROVE ChoiceInv
  OBVIOUS
<1>1. Busy = {}
  BY DEF Init, Idle, Busy
<1>2. ASSUME NEW s \in Picking PROVE ~Shows(s)
  <2>1. CASE chat = <<>>
    BY <2>1 DEF Shows
  <2>2. CASE chat = <<[ver |-> 1, screen |-> "main", offer |-> <<>>]>> /\ row.msg = 1
    BY <2>2 DEF Shows, Picking
  <2>3. row = NoUser => ~Shows(s)
    BY DEF Shows
  <2> QED
    BY <2>1, <2>2, <2>3 DEF Init
<1> QED
  BY <1>1, <1>2 DEF ChoiceInv, OneChoosing, FrontInv, Front, Picking

\* Messages stay as they are, become the main menu, or leave; the data is what it
\* was or forgotten; no lookup begins to be waited for; no message of the way to
\* a place becomes that of the row.
Fades == \A i \in DOMAIN chat' :
           i \in 0..sent => i \in DOMAIN chat /\ (chat'[i] = chat[i] \/ chat'[i].screen = "main")
Weaker(d) == /\ d.places \in {talk.data.places, <<>>}
             /\ d.place \in {talk.data.place, Nothing}
Waits(dialogue) == dialogue.state = talk.state \/ dialogue.state \notin Looks
Recedes == \A s \in Picking :
             Shows(s)' => Shows(s) /\ chat'[row'.msg].offer = chat[row.msg].offer

LEMMA FrontStays ==
  ASSUME IInv, FrontInv, Fades, Weaker(talk'.data), row' = row \/ row' = NoUser,
         Waits(talk') \/ ~Shows("place-selection")
  PROVE  FrontInv' /\ Recedes
<1>1. ASSUME NEW s \in Picking, Shows(s)'
      PROVE  Shows(s) /\ row' = row /\ chat'[row.msg] = chat[row.msg]
  <2>1. row' = row /\ row # NoUser /\ row.msg \in DOMAIN chat' /\ chat'[row.msg].screen = s
    BY <1>1 DEF Shows
  <2>2. row.msg \in 0..sent
    BY <2>1, Numbers DEF Active
  <2>3. row.msg \in DOMAIN chat /\ chat'[row.msg] = chat[row.msg]
    BY <2>1, <2>2 DEF Fades, Picking
  <2> QED
    BY <2>1, <2>3 DEF Shows
<1>2. Shows("place-selection")' =>
        (Offers(talk.data, chat[row.msg].offer))' /\ talk'.state \notin Looks
  <2> SUFFICES ASSUME Shows("place-selection")'
               PROVE  (Offers(talk.data, chat[row.msg].offer))' /\ talk'.state \notin Looks
    OBVIOUS
  <2>1. Shows("place-selection") /\ row' = row /\ chat'[row.msg] = chat[row.msg]
    BY <1>1 DEF Picking
  <2>2. Offers(talk.data, chat[row.msg].offer) /\ talk.state \notin Looks
    BY <2>1 DEF FrontInv, Front
  <2> QED
    BY <2>1, <2>2 DEF Offers, Weaker, Waits, Looks
<1>3. Shows("radius")' => (Holds(talk.data, chat[row.msg].offer))'
  <2> SUFFICES ASSUME Shows("radius")' PROVE (Holds(talk.data, chat[row.msg].offer))'
    OBVIOUS
  <2>1. Shows("radius") /\ row' = row /\ chat'[row.msg] = chat[row.msg]
    BY <1>1 DEF Picking
  <2>2. Holds(talk.data, chat[row.msg].offer)
    BY <2>1 DEF FrontInv, Front
  <2> QED
    BY <2>1, <2>2 DEF Holds, Weaker
<1>4. Recedes
  BY <1>1 DEF Recedes
<1> QED
  BY <1>2, <1>3, <1>4 DEF FrontInv, Front

\* Data that went with the message of the row still does.
LEMMA FrontFollows ==
  ASSUME NEW d, Front(d), Recedes
  PROVE  Front(d)'
<1>1. Shows("place-selection")' => (Offers(d, chat[row.msg].offer))'
  BY DEF Front, Recedes, Picking, Offers
<1>2. Shows("radius")' => (Holds(d, chat[row.msg].offer))'
  BY DEF Front, Recedes, Picking, Holds
<1> QED
  BY <1>1, <1>2 DEF Front

\* What a handler that does nothing has drawn remains what it is.
LEMMA DrawnStays ==
  ASSUME IInv, NEW g \in Busy, task'[g] = task[g], Fades, Drawn(task[g])
  PROVE  Drawn(task[g])'
<1> SUFFICES ASSUME task[g].pc = "commit", Drew(task[g])', task[g].user.msg \in DOMAIN chat',
                    chat'[task[g].user.msg].screen \in Picking
             PROVE  chat'[task[g].user.msg].screen = task[g].screen
                    /\ chat'[task[g].user.msg].offer = task[g].shows
  BY DEF Drawn
<1>1. Drew(task[g]) /\ task[g].user.msg \in 0..sent
  BY Numbers DEF Drew, Start
<1>2. task[g].user.msg \in DOMAIN chat /\ chat'[task[g].user.msg] = chat[task[g].user.msg]
  BY <1>1 DEF Fades, Picking
<1> QED
  BY <1>1, <1>2 DEF Drawn

\* A request that is not on the way to a place brings no message of it, and
\* writes nothing back.
LEMMA Apart ==
  ASSUME IInv, NEW g \in Busy, Tells(task[g]), task[g].name \notin PicksPlace
  PROVE  /\ task[g].screen \notin Picking
         /\ task[g].ops # <<>> => task[g].ops[1] # "set"
<1>1. task[g].screen \notin Picking
  BY DEF Tells, Brings, Picking, PicksPlace, Looks
<1>2. ASSUME task[g].ops # <<>>, task[g].ops[1] = "set" PROVE FALSE
  <2>1. task[g].ops \in Seq(Op)
    BY Numbers DEF Task
  <2>2. 1 \in 1..Len(task[g].ops)
    BY <1>2, <2>1
  <2>3. task[g].name \in Writers
    BY <1>2, <2>2 DEF Tells, Writes, Orderly
  <2> QED
    BY <2>3 DEF Writers, Looks, Restaurants, PicksPlace
<1> QED
  BY <1>1, <1>2

LEMMA TellsStay ==
  ASSUME IInv, NEW g \in Busy, task'[g] = task[g], Fades, Tells(task[g]),
         \/ task[g].name \notin PicksPlace
         \/ Weaker(talk'.data) /\ Waits(talk') /\ Recedes
  PROVE  Tells(task[g])'
<1>1. Drawn(task[g])'
  BY DrawnStays DEF Tells
<1>2. (Orderly(task[g].name, task[g].ops))'
  BY DEF Tells, Writes, Orderly
<1>3. CASE task[g].name \notin PicksPlace
  <2>1. task[g].name \notin {"place", "radius", "entire-city", "city", "geo"} \cup Looks
    BY <1>3 DEF PicksPlace, Looks
  <2>2. /\ task[g].screen \notin Picking
        /\ task[g].ops # <<>> => task[g].ops[1] # "set"
    BY <1>3, Apart
  <2>3. Asks(task[g])' /\ Early(task[g])'
    BY <2>1 DEF Asks, Early
  <2>4. Writes(task[g])'
    BY <1>2, <2>2 DEF Writes, Picking
  <2>5. Brings(task[g])'
    BY <2>2 DEF Tells, Brings, Picking
  <2> QED
    BY <1>1, <2>3, <2>4, <2>5 DEF Tells
<1>4. CASE Weaker(talk'.data) /\ Waits(talk') /\ Recedes
  <2>1. \A p : /\ Offers(talk.data, p) => talk'.data.places = <<>> \/ p = talk'.data.places
               /\ Holds(talk.data, p) => talk'.data.place = Nothing \/ p = <<talk'.data.place>>
    BY <1>4 DEF Weaker, Offers, Holds
  <2>2. Offers(talk.data, task[g].offer) => (Offers(talk.data, task[g].offer))'
    BY <2>1 DEF Offers
  <2>3. Offers(talk.data, task[g].shows) => (Offers(talk.data, task[g].shows))'
    BY <2>1 DEF Offers
  <2>4. Holds(talk.data, task[g].offer) => (Holds(talk.data, task[g].offer))'
    BY <2>1 DEF Holds
  <2>5. Holds(talk.data, task[g].shows) => (Holds(talk.data, task[g].shows))'
    BY <2>1 DEF Holds
  <2>6. (Shows("radius")' => Shows("radius")) /\ (Shows("place-selection")' => Shows("place-selection"))
    BY <1>4 DEF Recedes, Picking
  <2>7. Asks(task[g])' /\ Early(task[g])'
    BY <2>2, <2>4, <2>6 DEF Tells, Asks, Early
  <2>8. Brings(task[g])'
    BY <2>3, <2>5 DEF Tells, Brings, Pending
  <2>9. task[g].ops # <<>> /\ task[g].ops[1] = "set" => (Front(task[g].data))'
    <3>1. PICK d : d = task[g].data
      OBVIOUS
    <3>2. task[g].ops # <<>> /\ task[g].ops[1] = "set" => Front(d)
      BY <3>1 DEF Tells, Writes
    <3>3. Front(d) => Front(d)'
      BY <1>4, FrontFollows
    <3>4. Front(d)' => (Front(task[g].data))'
      BY <3>1 DEF Front, Offers, Holds
    <3> QED
      BY <3>2, <3>3, <3>4
  <2>10. Writes(task[g])'
    BY <1>2, <1>4, <2>9 DEF Tells, Writes, Waits
  <2> QED
    BY <1>1, <2>7, <2>8, <2>10 DEF Tells
<1> QED
  BY <1>3, <1>4

\* One handler does something; the others are as they were.
LEMMA ChoiceStep ==
  ASSUME IInv, ChoiceInv, ~raced, NEW h \in Handlers, Same(h), Fades, FrontInv',
         h \in Busy' => Tells(task[h])'
                        /\ (h \in Busy => task'[h].name = task[h].name),
         h \in Busy' /\ h \notin Busy /\ task'[h].name \in PicksPlace
           => \A g \in Busy : task[g].name \notin PicksPlace,
         \/ h \in Busy /\ task[h].name \in PicksPlace
         \/ Weaker(talk'.data) /\ Waits(talk') /\ Recedes
  PROVE  ChoiceInv'
<1>1. OneChoosing /\ FrontInv /\ \A g \in Busy : Tells(task[g])
  BY DEF ChoiceInv
<1>2. \A g \in Busy' : g # h => g \in Busy /\ task'[g] = task[g]
  BY DEF Busy, Same
<1>3. OneChoosing'
  BY <1>1, <1>2 DEF OneChoosing
<1>4. ASSUME NEW g \in Busy', g # h PROVE Tells(task[g])'
  <2>1. g \in Busy /\ task'[g] = task[g] /\ Tells(task[g])
    BY <1>1, <1>2, <1>4
  <2>2. \/ task[g].name \notin PicksPlace
        \/ Weaker(talk'.data) /\ Waits(talk') /\ Recedes
    BY <1>1, <1>4, <2>1 DEF OneChoosing
  <2> QED
    BY <2>1, <2>2, TellsStay
<1> QED
  BY <1>3, <1>4 DEF ChoiceInv

LEMMA ChoiceReceive ==
  ASSUME IInv, ChoiceInv, ~raced', NEW h \in Handlers, Receive(h)
  PROVE  ChoiceInv'
<1>1. /\ task[h].pc = "idle" /\ Same(h) /\ UNCHANGED <<row, talk, chat, sent>>
      /\ task'[h].base = row /\ task'[h].user.msg = Active
      /\ task'[h].screen = "none" /\ task'[h].picked = Nothing
      /\ task'[h].ops = <<>>
  BY Received
<1>2. PICK q \in Messages \cup Presses :
        /\ task'[h].name = q.name /\ task'[h].msg = q.msg
        /\ task'[h].offer = q.offer /\ task'[h].index = q.index
        /\ task'[h].pc = IF q.msg # 0 /\ ~IsCurrent(task'[h].user, q) THEN "commit" ELSE "loaded"
        /\ raced' = (raced \/ /\ q.name \in PicksPlace
                              /\ \E g \in Busy : task[g].name \in PicksPlace)
  BY Received
<1>3. ~raced /\ (q.name \in PicksPlace => \A g \in Busy : task[g].name \notin PicksPlace)
  BY <1>2
<1>4. FrontInv
  BY <1>3 DEF ChoiceInv
<1>5. Fades /\ Weaker(talk'.data) /\ Waits(talk')
  BY <1>1 DEF Fades, Weaker, Waits
<1>6. FrontInv' /\ Recedes
  BY <1>1, <1>4, <1>5, FrontStays
<1>7. ~Drew(task[h])' /\ h \notin Busy
  BY <1>1 DEF Drew, Start, Active, Busy
<1>8. ASSUME task'[h].pc = "loaded", q.name \in PicksPlace \ Restaurants, q.name \notin Looks
      PROVE  /\ row # NoUser /\ row.msg \in DOMAIN chat /\ q.offer = chat[row.msg].offer
             /\ q.name = "place" => chat[row.msg].screen = "place-selection"
             /\ q.name \in {"radius", "entire-city"} => chat[row.msg].screen = "radius" /\ q.index = 1
             /\ q.name \in {"city", "geo"} => chat[row.msg].screen = "location"
  <2>1. /\ q.msg # 0 /\ q.msg \in DOMAIN chat /\ q.offer = chat[q.msg].offer
        /\ q.name = "place" => chat[q.msg].screen = "place-selection"
        /\ q.name \in {"radius", "entire-city"} => chat[q.msg].screen = "radius" /\ q.index = 1
        /\ q.name \in {"city", "geo"} => chat[q.msg].screen = "location"
    BY <1>8, PressFrom DEF IInv
  <2>2. q.msg = Active
    BY <1>1, <1>2, <1>8, <2>1 DEF IsCurrent
  <2>3. row # NoUser /\ q.msg = row.msg
    BY <2>1, <2>2 DEF Active
  <2> QED
    BY <2>1, <2>3
<1>9. Asks(task[h])' /\ Early(task[h])'
  <2> SUFFICES ASSUME task'[h].pc = "loaded"
               PROVE  /\ q.name = "place" => (Offers(talk.data, task[h].offer))' /\ ~Shows("radius")'
                      /\ q.name \in {"radius", "entire-city"} =>
                           (Holds(talk.data, task[h].offer))' /\ q.index = 1
                      /\ q.name \in {"city", "geo"} \cup Looks => ~Shows("place-selection")'
    BY <1>1, <1>2 DEF Asks, Early
  <2>1. \A s : Shows(s)' <=> Shows(s)
    BY <1>1 DEF Shows
  <2>2. (Offers(talk.data, task[h].offer))' <=> Offers(talk.data, q.offer)
    BY <1>1, <1>2 DEF Offers
  <2>3. (Holds(talk.data, task[h].offer))' <=> Holds(talk.data, q.offer)
    BY <1>1, <1>2 DEF Holds
  <2>4. CASE q.name = "place"
    <3>1. Shows("place-selection") /\ q.offer = chat[row.msg].offer /\ ~Shows("radius")
      BY <1>8, <2>4 DEF Shows, PicksPlace, Looks, Restaurants
    <3> QED
      BY <1>4, <2>1, <2>2, <2>4, <3>1 DEF FrontInv, Front, Looks
  <2>5. CASE q.name \in {"radius", "entire-city"}
    <3>1. Shows("radius") /\ q.offer = chat[row.msg].offer /\ q.index = 1
      BY <1>8, <2>5 DEF Shows, PicksPlace, Looks, Restaurants
    <3> QED
      BY <1>4, <2>3, <2>5, <3>1 DEF FrontInv, Front, Looks
  <2>6. CASE q.name \in {"city", "geo"}
    <3>1. ~Shows("place-selection")
      BY <1>8, <2>6 DEF Shows, PicksPlace, Looks, Restaurants
    <3> QED
      BY <2>1, <2>6, <3>1
  <2>7. CASE q.name \in Looks
    <3>1. talk.state \in Looks
      BY <2>7, PressFrom DEF IInv, PicksPlace, Looks, Restaurants
    <3> QED
      BY <1>4, <2>1, <2>7, <3>1 DEF FrontInv, Looks
  <2> QED
    BY <2>4, <2>5, <2>6, <2>7
<1>10. Writes(task[h])'
  <2>1. Orderly(task'[h].name, task'[h].ops)
    BY <1>1, OrderlyKinds
  <2> QED
    BY <1>1, <2>1 DEF Writes, Orderly
<1>11. Tells(task[h])'
  BY <1>1, <1>7, <1>9, <1>10 DEF Tells, Brings, Drawn
<1> QED
  BY <1>1, <1>2, <1>3, <1>5, <1>6, <1>7, <1>11, ChoiceStep

LEMMA ChoiceDecide ==
  ASSUME IInv, CopiesInv, ChoiceInv, ~raced, NEW h \in Handlers, Decide(h)
  PROVE  ChoiceInv'
<1>1. /\ task[h].pc = "loaded" /\ Same(h) /\ h \in Busy
      /\ UNCHANGED <<row, talk, chat>>
      /\ task'[h].base = task[h].base /\ task'[h].user = task[h].user
      /\ task'[h].name = task[h].name
      /\ task'[h].offer = task[h].offer /\ task'[h].index = task[h].index
      /\ task'[h].pc \in {"commit", "filters", "erase"}
      /\ task'[h].pc = "commit" <=> task'[h].screen = "none"
  BY Decides
<1>2. PICK a \in Answers(task[h]) :
        /\ task'[h].ops = a.ops /\ task'[h].screen = a.screen
        /\ task'[h].shows = a.shows /\ task'[h].picked = a.picked
  BY Decides
<1>3. task[h] \in Task /\ task[h].name # "none" /\ TypeOK
  <2>1. Held(task[h], chat, sent)
    BY DEF IInv
  <2> QED
    BY <1>1, <2>1, Numbers DEF Held, IInv
<1>4. Effect(task[h], a)
  BY <1>3, AnswerEffects
<1>5. FrontInv /\ Asks(task[h]) /\ Early(task[h])
  BY <1>1 DEF ChoiceInv, Tells
<1>6. Fades /\ Weaker(talk'.data) /\ Waits(talk')
  BY <1>1 DEF Fades, Weaker, Waits
<1>7. FrontInv' /\ Recedes
  BY <1>1, <1>5, <1>6, FrontStays
<1>8. ~Drew(task[h])'
  BY <1>1 DEF CopiesInv, Copied, Drew, Start
<1>9. Asks(task[h])' /\ Drawn(task[h])'
  BY <1>1, <1>8 DEF Asks, Drawn
<1>10. Early(task[h])'
  BY <1>1, <1>5, <1>7 DEF Early, Recedes, Picking
<1>11. Writes(task[h])'
  <2>1. (Orderly(task[h].name, task[h].ops))'
    BY <1>1, <1>2, <1>4 DEF Effect, Orderly
  <2> QED
    BY <1>1, <1>2, <1>4, <2>1 DEF Writes, Effect
<1>12. a.picked # Nothing => a.picked = task[h].offer[task[h].index]
  <2>1. ASSUME task[h].name = "place", task[h].index <= Len(talk.data.places),
               a.picked = talk.data.places[task[h].index]
        PROVE  a.picked = task[h].offer[task[h].index]
    <3>1. talk.data.places # <<>>
      <4>1. task[h].index \in Nat \ {0}
        BY <1>3 DEF Task
      <4> QED
        BY <2>1, <4>1
    <3> QED
      BY <1>1, <1>5, <2>1, <3>1 DEF Asks, Offers
  <2>2. ASSUME task[h].name \in {"radius", "entire-city"}, a.picked = talk.data.place,
               a.picked # Nothing
        PROVE  a.picked = task[h].offer[task[h].index]
    BY <1>1, <1>5, <2>2 DEF Asks, Holds
  <2> QED
    BY <1>4, <2>1, <2>2 DEF Effect
<1>13. Brings(task[h])'
  BY <1>1, <1>2, <1>4, <1>12 DEF Brings, Effect, Pending
<1>14. Tells(task[h])'
  BY <1>9, <1>10, <1>11, <1>13 DEF Tells
<1> QED
  BY <1>1, <1>6, <1>7, <1>14, ChoiceStep

LEMMA ChoiceRedis ==
  ASSUME IInv, ChoiceInv, ~raced, NEW h \in Handlers, Redis(h)
  PROVE  ChoiceInv'
<1>1. /\ h \in Busy /\ Same(h) /\ UNCHANGED <<row, chat, sent>>
      /\ task[h].ops # <<>> /\ task[h].ops \in Seq(Op)
      /\ task'[h].ops = Tail(task[h].ops)
      /\ task'[h].pc = task[h].pc /\ task'[h].name = task[h].name
      /\ task'[h].base = task[h].base /\ task'[h].user = task[h].user
      /\ task'[h].offer = task[h].offer /\ task'[h].index = task[h].index
      /\ task'[h].screen = task[h].screen
      /\ task'[h].shows = task[h].shows /\ task'[h].picked = task[h].picked
  BY RedisTask DEF IInv, Same, counters
<1>2. FrontInv /\ Early(task[h]) /\ Writes(task[h]) /\ Brings(task[h]) /\ Drawn(task[h])
  BY <1>1 DEF ChoiceInv, Tells
<1>3. \/ task[h].ops[1] = "get" /\ task'[h].data = talk.data /\ talk' = talk
      \/ task[h].ops[1] = "set" /\ talk' = [talk EXCEPT !.data = Written(task[h])]
      \/ task[h].ops[1] = "empty" /\ talk' = [talk EXCEPT !.data = Empty]
      \/ /\ task[h].ops[1] \in States
         /\ talk' = [talk EXCEPT !.state = task[h].ops[1]]
  BY <1>1, RedisTask DEF IInv
<1>4. /\ (Orderly(task[h].name, task[h].ops))'
      /\ task[h].ops[1] = "get" => Pending(task'[h].ops)
      /\ task[h].ops[1] # "get" => ~Pending(task'[h].ops)
  <2>1. /\ Orderly(task[h].name, Tail(task[h].ops))
        /\ task[h].ops[1] = "get" => Pending(Tail(task[h].ops))
        /\ task[h].ops[1] # "get" => ~Pending(Tail(task[h].ops))
    BY <1>1, <1>2, OneLeft DEF Writes
  <2>2. Orderly(task'[h].name, task'[h].ops)
    BY <1>1, <2>1
  <2>3. (Orderly(task[h].name, task[h].ops))'
    BY <2>2 DEF Orderly
  <2> QED
    BY <1>1, <2>1, <2>3
<1>5. /\ task[h].ops[1] \in Looks => task[h].name \in {"city", "geo"}
      /\ task[h].ops[1] \in {"get", "set"} => task[h].name \in Writers
  <2>1. 1 \in 1..Len(task[h].ops)
    BY <1>1
  <2> QED
    BY <1>2, <2>1 DEF Writes, Orderly
<1>6. /\ talk \in Talk /\ talk.data \in Data /\ task[h].data \in Data
      /\ task[h] \in Task
  BY <1>1, Numbers DEF IInv, TypeOK, Talk, Task
<1>7. task[h].pc # "loaded" /\ Fades /\ (\A s : Shows(s)' <=> Shows(s))
  BY <1>1 DEF IInv, Held, Fades, Shows, Busy
<1>8. Asks(task[h])' /\ Early(task[h])' /\ Drawn(task[h])'
  BY <1>1, <1>2, <1>7 DEF Asks, Early, Drawn, Drew, Start
<1>9. \/ task[h].ops[1] = "get" /\ talk' = talk
      \/ /\ task[h].ops[1] = "set" /\ talk'.data = Written(task[h])
         /\ talk'.state = talk.state
      \/ task[h].ops[1] = "empty" /\ talk'.data = Empty /\ talk'.state = talk.state
      \/ /\ task[h].ops[1] \in States /\ talk'.data = talk.data
         /\ talk'.state = task[h].ops[1]
  BY <1>3, <1>6 DEF Talk
<1>10. task[h].ops[1] # "set" =>
         Weaker(talk'.data) /\ (Waits(talk') \/ task[h].name \in {"city", "geo"})
  BY <1>5, <1>9 DEF Weaker, Waits, Empty
<1>11. FrontInv' /\ (task[h].ops[1] # "set" => Recedes)
  <2>1. CASE task[h].ops[1] # "set"
    <3>1. task[h].name \in {"city", "geo"} => ~Shows("place-selection")
      BY <1>1, <1>2 DEF Early
    <3> QED
      BY <1>1, <1>2, <1>7, <1>10, <2>1, <3>1, FrontStays
  <2>2. CASE task[h].ops[1] = "set"
    <3>1. Front(task[h].data) /\ talk'.data = Written(task[h]) /\ talk'.state = talk.state
      BY <1>1, <1>2, <1>9, <2>2 DEF Writes, States, Inputs
    <3>2. Shows("place-selection") =>
            talk'.data.places = task[h].data.places /\ talk.state \notin Looks
      BY <1>1, <1>2, <1>6, <3>1 DEF Early, Brings, Written, Data, FrontInv
    <3>3. Shows("radius") => talk'.data.place = task[h].data.place
      BY <1>1, <1>2, <1>6, <3>1 DEF Early, Brings, Written, Data
    <3> QED
      BY <1>1, <1>7, <2>2, <3>1, <3>2, <3>3 DEF FrontInv, Front, Offers, Holds
  <2> QED
    BY <2>1, <2>2
<1>12. Writes(task[h])'
  <2>1. ASSUME task'[h].ops # <<>>, task'[h].ops[1] = "set"
        PROVE  (Front(task[h].data))'
    <3>1. task[h].ops[1] = "get"
      BY <1>4, <2>1 DEF Pending
    <3>2. task'[h].data = talk.data /\ talk' = talk
      BY <1>3, <3>1 DEF States, Inputs
    <3> QED
      BY <1>11, <3>2 DEF FrontInv, Front, Offers, Holds
  <2>2. ASSUME task[h].pc = "commit", task[h].screen = "place-selection"
        PROVE  /\ \A i \in 1..Len(task'[h].ops) : task'[h].ops[i] = "place_selection"
               /\ talk'.state \notin Looks
    <3>1. \A i \in 1..Len(task[h].ops) : task[h].ops[i] = "place_selection"
      BY <1>2, <2>2 DEF Writes
    <3>2. /\ 1 \in 1..Len(task[h].ops)
          /\ \A i \in 1..Len(task'[h].ops) :
               i + 1 \in 1..Len(task[h].ops) /\ task'[h].ops[i] = task[h].ops[i + 1]
      BY <1>1
    <3>3. task[h].ops[1] = "place_selection"
      BY <3>1, <3>2
    <3> QED
      BY <1>9, <3>1, <3>2, <3>3 DEF Looks
  <2> QED
    BY <1>1, <1>4, <2>1, <2>2 DEF Writes
<1>13. Brings(task[h])'
  <2>1. task[h].screen = "place-selection" =>
          Pending(task'[h].ops) \/ (Offers(talk.data, task[h].shows))'
    BY <1>1, <1>2, <1>4, <1>6, <1>9
    DEF Brings, Pending, Offers, Written, Empty, Data, States, Inputs
  <2>2. task[h].screen = "radius" =>
          Pending(task'[h].ops) \/ (Holds(talk.data, task[h].shows))'
    BY <1>1, <1>2, <1>4, <1>6, <1>9
    DEF Brings, Pending, Holds, Written, Empty, Data, States, Inputs
  <2> QED
    BY <1>1, <1>2, <2>1, <2>2 DEF Brings, Pending
<1>14. Tells(task[h])'
  BY <1>8, <1>12, <1>13 DEF Tells
<1>15. \/ task[h].name \in PicksPlace
       \/ Weaker(talk'.data) /\ Waits(talk') /\ Recedes
  BY <1>5, <1>10, <1>11 DEF Writers, Looks, Restaurants, PicksPlace
<1> QED
  BY <1>1, <1>7, <1>11, <1>14, <1>15, ChoiceStep

LEMMA ChoiceRender ==
  ASSUME IInv, ChoiceInv, ~raced, NEW h \in Handlers, RenderFilters(h)
  PROVE  ChoiceInv'
<1>1. /\ task[h].pc = "filters" /\ h \in Busy /\ Same(h)
      /\ UNCHANGED <<row, talk, chat, sent>>
      /\ task'[h].pc = "erase" /\ task'[h].screen \in FilterScreens
      /\ task'[h].ops = <<>> /\ task'[h].name = task[h].name
      /\ task'[h].offer = task[h].offer /\ task'[h].index = task[h].index
      /\ task'[h].shows = task[h].shows /\ task'[h].picked = task[h].picked
  BY Renders DEF counters
<1>2. Fades /\ Weaker(talk'.data) /\ Waits(talk')
  BY <1>1 DEF Fades, Weaker, Waits
<1>3. FrontInv' /\ Recedes
  BY <1>1, <1>2, FrontStays DEF ChoiceInv
<1>4. Early(task[h]) /\ Brings(task[h])
  BY <1>1 DEF ChoiceInv, Tells
<1>5. Asks(task[h])' /\ Early(task[h])' /\ Drawn(task[h])'
  BY <1>1, <1>3, <1>4 DEF Asks, Early, Drawn, Recedes, Picking
<1>6. Writes(task[h])' /\ Brings(task[h])'
  BY <1>1, <1>4 DEF Writes, Orderly, Brings, FilterScreens
<1> QED
  BY <1>1, <1>2, <1>3, <1>5, <1>6, ChoiceStep DEF Tells

LEMMA ChoiceDelete ==
  ASSUME IInv, ChoiceInv, ~raced, NEW h \in Handlers, DeleteAccount(h)
  PROVE  ChoiceInv'
<1>1. /\ h \in Busy /\ Same(h) /\ task'[h] = Idle /\ UNCHANGED <<talk, sent>>
      /\ row' = NoUser \/ row' = row
      /\ chat' = Restrict(chat, DOMAIN chat \ {task[h].msg}) \/ chat' = chat
  BY Deletes
<1>2. Fades /\ Weaker(talk'.data) /\ Waits(talk') /\ h \notin Busy'
  BY <1>1 DEF Fades, Restrict, Weaker, Waits, Busy, Idle
<1>3. FrontInv' /\ Recedes
  BY <1>1, <1>2, FrontStays DEF ChoiceInv
<1> QED
  BY <1>1, <1>2, <1>3, ChoiceStep

LEMMA ChoiceErase ==
  ASSUME IInv, ChoiceInv, ~raced, NEW h \in Handlers, Erase(h)
  PROVE  ChoiceInv'
<1>1. /\ h \in Busy /\ Same(h) /\ UNCHANGED <<row, talk, sent>>
      /\ task[h].pc = "erase" /\ task'[h].pc = "show"
      /\ task[h].ops = <<>> /\ task'[h].ops = <<>>
      /\ task'[h].name = task[h].name /\ task'[h].screen = task[h].screen
      /\ task'[h].offer = task[h].offer /\ task'[h].index = task[h].index
      /\ task'[h].shows = task[h].shows /\ task'[h].picked = task[h].picked
      /\ chat' = Restrict(chat, DOMAIN chat \ {task[h].user.msg}) \/ chat' = chat
  BY Erases
<1>2. Fades /\ Weaker(talk'.data) /\ Waits(talk')
  BY <1>1 DEF Fades, Restrict, Weaker, Waits
<1>3. FrontInv' /\ Recedes
  BY <1>1, <1>2, FrontStays DEF ChoiceInv
<1>4. Early(task[h]) /\ Brings(task[h])
  BY <1>1 DEF ChoiceInv, Tells
<1>5. Asks(task[h])' /\ Early(task[h])' /\ Drawn(task[h])'
  BY <1>1, <1>3, <1>4 DEF Asks, Early, Drawn, Recedes, Picking
<1>6. Writes(task[h])'
  BY <1>1 DEF Writes, Orderly
<1>7. Brings(task[h])'
  BY <1>1, <1>4 DEF Brings, Offers, Holds, Pending
<1> QED
  BY <1>1, <1>2, <1>3, <1>5, <1>6, <1>7, ChoiceStep DEF Tells

LEMMA ChoiceShow ==
  ASSUME IInv, ChoiceInv, ~raced, NEW h \in Handlers, Show(h)
  PROVE  ChoiceInv'
<1>1. /\ h \in Busy /\ Same(h) /\ UNCHANGED <<row, talk>>
      /\ DOMAIN chat' = DOMAIN chat \cup {sent + 1}
      /\ \A i \in DOMAIN chat : chat'[i] = chat[i]
      /\ chat'[sent + 1].screen = task[h].screen /\ chat'[sent + 1].offer = task[h].shows
      /\ task[h].pc = "show" /\ task'[h].pc \in {"erase", "commit"}
      /\ task'[h].user.msg = sent + 1
      /\ task'[h].name = task[h].name /\ task'[h].screen = task[h].screen
      /\ task'[h].offer = task[h].offer /\ task'[h].index = task[h].index
      /\ task'[h].shows = task[h].shows /\ task'[h].picked = task[h].picked
      /\ task[h].ops = <<>>
      /\ task'[h].ops = IF task[h].screen = "place-selection"
                        THEN <<"place_selection">> ELSE <<>>
  BY Draws
<1>2. sent \in Nat
  BY Numbers
<1>3. Fades /\ Weaker(talk'.data) /\ Waits(talk')
  BY <1>1, <1>2 DEF Fades, Weaker, Waits
<1>4. FrontInv' /\ Recedes
  BY <1>1, <1>3, FrontStays DEF ChoiceInv
<1>5. Early(task[h]) /\ Brings(task[h])
  BY <1>1 DEF ChoiceInv, Tells
<1>6. Asks(task[h])' /\ Early(task[h])' /\ Drawn(task[h])'
  BY <1>1, <1>4, <1>5 DEF Asks, Early, Drawn, Recedes, Picking
<1>7. Writes(task[h])'
  <2>1. CASE task[h].screen = "place-selection"
    <3>1. /\ Len(task'[h].ops) = 1 /\ task'[h].ops[1] = "place_selection"
          /\ task'[h].ops # <<>>
      BY <1>1, <2>1
    <3> QED
      BY <1>1, <3>1 DEF Writes, Orderly, Looks
  <2>2. CASE task[h].screen # "place-selection"
    BY <1>1, <2>2 DEF Writes, Orderly
  <2> QED
    BY <2>1, <2>2
<1>8. Brings(task[h])'
  BY <1>1, <1>5 DEF Brings, Offers, Holds, Pending
<1> QED
  BY <1>1, <1>3, <1>4, <1>6, <1>7, <1>8, ChoiceStep DEF Tells

LEMMA ChoiceCommit ==
  ASSUME IInv, CopiesInv, ChoiceInv, ~raced, NEW h \in Handlers, Commit(h)
  PROVE  ChoiceInv'
<1>1. /\ task[h].pc = "commit" /\ h \in Busy /\ Same(h) /\ task'[h] = Idle
      /\ task[h].ops = <<>> /\ UNCHANGED <<talk, chat, sent>>
      /\ \/ row' = row
         \/ task[h].base = NoUser /\ row' = task[h].user
         \/ task[h].base # NoUser /\ Lives(task[h]) /\ row' = Saved(task[h])
  BY Commits
<1>2. Fades /\ Weaker(talk'.data) /\ Waits(talk') /\ h \notin Busy'
  BY <1>1 DEF Fades, Weaker, Waits, Busy, Idle
<1>3. FrontInv /\ Writes(task[h]) /\ Brings(task[h]) /\ Drawn(task[h])
  BY <1>1 DEF ChoiceInv, Tells
<1>4. Drew(task[h]) <=> task[h].screen # "none"
  BY <1>1 DEF CopiesInv, Copied
<1>5. CASE row' = row
  <2>1. FrontInv' /\ Recedes
    BY <1>1, <1>2, <1>3, <1>5, FrontStays
  <2> QED
    BY <1>1, <1>2, <2>1, ChoiceStep
<1>6. CASE /\ row' # row /\ (Drew(task[h]) \/ Active' = 0)
           /\ row' # NoUser => row'.msg = task[h].user.msg
  <2>1. ASSUME NEW s \in Picking, Shows(s)'
        PROVE  /\ s = task[h].screen /\ row' # NoUser
               /\ chat'[row'.msg].offer = task[h].shows
    <3>1. row' # NoUser /\ row'.msg \in DOMAIN chat /\ chat[row'.msg].screen = s
      BY <1>1, <2>1 DEF Shows
    <3>2. row'.msg # 0
      BY <3>1 DEF IInv, TypeOK
    <3>3. Drew(task[h]) /\ row'.msg = task[h].user.msg
      BY <1>6, <3>1, <3>2 DEF Active
    <3> QED
      BY <1>1, <1>3, <2>1, <3>1, <3>3 DEF Drawn
  <2>2. Shows("place-selection")' =>
          (Offers(talk.data, chat[row.msg].offer))' /\ talk'.state \notin Looks
    BY <1>1, <1>3, <2>1 DEF Picking, Brings, Offers, Pending, Writes
  <2>3. Shows("radius")' => (Holds(talk.data, chat[row.msg].offer))'
    BY <1>1, <1>3, <2>1 DEF Picking, Brings, Holds, Pending
  <2>4. FrontInv'
    BY <2>2, <2>3 DEF FrontInv, Front
  <2>5. task[h].name \in PicksPlace \/ Recedes
    BY <1>3, <2>1 DEF Recedes, Picking, Brings, PicksPlace, Looks
  <2> QED
    BY <1>1, <1>2, <2>4, <2>5, ChoiceStep
<1>7. CASE task[h].base = NoUser /\ row' = task[h].user
  <2>1. row' # NoUser
    BY <1>1, <1>7, Numbers
  <2>2. Drew(task[h]) \/ Active' = 0
    BY <1>7 DEF Drew, Start, Active
  <2> QED
    BY <1>5, <1>6, <1>7, <2>1, <2>2
<1>8. CASE task[h].base # NoUser /\ Lives(task[h]) /\ row' = Saved(task[h])
  <2>1. /\ row'.msg = IF Drew(task[h]) THEN task[h].user.msg ELSE row.msg
        /\ ~Drew(task[h]) => row' = row
    BY <1>1, <1>8, SavedIs DEF Lives
  <2> QED
    BY <1>5, <1>6, <2>1
<1> QED
  BY <1>1, <1>5, <1>7, <1>8

LEMMA ChoiceAbort ==
  ASSUME IInv, ChoiceInv, ~raced, NEW h \in Handlers, Abort(h)
  PROVE  ChoiceInv'
<1>1. /\ h \in Busy /\ Same(h) /\ task'[h] = Idle /\ UNCHANGED <<row, talk, chat, sent>>
  BY Aborts
<1>2. Fades /\ Weaker(talk'.data) /\ Waits(talk') /\ h \notin Busy'
  BY <1>1 DEF Fades, Weaker, Waits, Busy, Idle
<1>3. FrontInv' /\ Recedes
  BY <1>1, <1>2, FrontStays DEF ChoiceInv
<1> QED
  BY <1>1, <1>2, <1>3, ChoiceStep

LEMMA ChoiceNext == IInv /\ CopiesInv /\ ChoiceInv /\ [Next]_vars => ChoiceInv'
<1> SUFFICES ASSUME IInv, CopiesInv, ChoiceInv, [Next]_vars, ~raced' PROVE ChoiceInv'
  BY DEF ChoiceInv
<1>1. CASE \E h \in Handlers : Handle(h)
  <2>1. PICK h \in Handlers : Handle(h)
    BY <1>1
  <2>2. CASE Receive(h)
    BY <2>2, ChoiceReceive
  <2>3. CASE ~Receive(h)
    <3>1. raced' = raced
      BY <2>1, <2>3 DEF Handle, Decide, DeleteAccount, Redis, RenderFilters, Erase, Show,
         Commit, Abort, history
    <3> QED
      BY <2>1, <2>3, <3>1, ChoiceDecide, ChoiceDelete, ChoiceRedis, ChoiceRender,
         ChoiceErase, ChoiceShow, ChoiceCommit, ChoiceAbort DEF Handle
  <2> QED
    BY <2>2, <2>3
<1>2. CASE SyncBegins \/ SyncEnds \/ (\E msg \in 1..MaxMessages : UserDeletes(msg)) \/ UNCHANGED vars
  <2>1. UNCHANGED <<row, talk, task, raced>> /\ Fades
    <3>1. CASE SyncBegins \/ UNCHANGED vars
      BY <3>1 DEF SyncBegins, vars, history, Fades
    <3>2. CASE SyncEnds
      <4>1. UNCHANGED <<row, talk, task, raced>>
        BY <3>2 DEF SyncEnds, history
      <4>2. \/ chat' = chat
            \/ chat' = [chat EXCEPT ![sync.msg] =
                          [ver |-> sync.ver, screen |-> "main", offer |-> <<>>]]
        BY <3>2 DEF SyncEnds
      <4> QED
        BY <4>1, <4>2 DEF Fades
    <3>3. ASSUME NEW msg, UserDeletes(msg)
          PROVE  UNCHANGED <<row, talk, task, raced>> /\ Fades
      BY <3>3 DEF UserDeletes, history, Fades, Restrict
    <3> QED
      BY <1>2, <3>1, <3>2, <3>3
  <2>2. Weaker(talk'.data) /\ Waits(talk') /\ ~raced
    BY <2>1 DEF Weaker, Waits
  <2>3. FrontInv' /\ Recedes
    BY <2>1, <2>2, FrontStays DEF ChoiceInv
  <2>4. \A h \in Busy' : h \in Busy /\ Tells(task[h])'
    BY <2>1, <2>2, <2>3, TellsStay DEF ChoiceInv, Busy
  <2>5. OneChoosing'
    BY <2>1, <2>2 DEF ChoiceInv, OneChoosing, Busy
  <2> QED
    BY <2>3, <2>4, <2>5 DEF ChoiceInv
<1> QED
  BY <1>1, <1>2 DEF Next

(***************************************************************************)
(* A press stands for the place its message showed, whatever overlaps or   *)
(* fails, unless two updates overlap that are on the way to a place or     *)
(* write the data of the dialogue back.                                    *)
(***************************************************************************)
THEOREM PressesMeanWhatTheyShow == Spec => []ChosenAsShown
<1>1. ChoiceInv => ChosenAsShown
  BY DEF ChoiceInv, Tells, Brings, ChosenAsShown
<1> QED
  BY <1>1, CopiesInvariant, ChoiceInit, ChoiceNext, InvInit, InvNext, PTL DEF Spec
===============================================================================
