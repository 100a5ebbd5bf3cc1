----------------------------- MODULE ListDisplay -----------------------------
(***************************************************************************)
(* What the monitoring engine promises the owner of a search, without      *)
(* saying how: at any moment one complete result list is the displayed     *)
(* list, and every card of it can be seen in the chat.  A newer list       *)
(* replaces it in one step, and only when all of its cards are already     *)
(* there; other cards come and go around it.                               *)
(***************************************************************************)
CONSTANTS Listings,    \* the accommodations the provider can return
          EmptyNotice, \* the message shown for a result without accommodations
          NoList       \* nothing has been displayed yet

VARIABLES displayed,  \* the list in force: NoList or a set of listings
          screen      \* the listings (or notice) with a card in the chat

displayVars == <<displayed, screen>>

\* The cards that render a result list: one per listing, or the notice alone.
ItemsOf(list) == IF list = {} THEN {EmptyNotice} ELSE list

Shows(list) == list = NoList \/ ItemsOf(list) \subseteq screen

Init == displayed = NoList /\ screen = {}

Show == /\ \E i \in Listings \cup {EmptyNotice} : screen' = screen \cup {i}
        /\ UNCHANGED displayed

Replace == /\ \E list \in SUBSET Listings : /\ ItemsOf(list) \subseteq screen
                                           /\ displayed' = list
           /\ UNCHANGED screen

Hide == /\ screen' \in SUBSET screen
        /\ Shows(displayed)'
        /\ UNCHANGED displayed

Next == Show \/ Replace \/ Hide

Spec == Init /\ [][Next]_displayVars
==============================================================================
