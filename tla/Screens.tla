-------------------------------- MODULE Screens --------------------------------
(***************************************************************************)
(* The navigation screens of the bot: which buttons a screen carries and   *)
(* what a button, a command or an answer leads to (app/bot/keyboards.py,   *)
(* the inline keyboards and handlers of app/bot/handlers/main.py).  A      *)
(* screen bears the name the code stores, except that the filters page     *)
(* without a search is told apart as "filters-empty".  The button of the   *)
(* developer (test-reset) is left out.                                     *)
(***************************************************************************)

\* Dialogue states (app/bot/states.py), and those that wait for a message.
Inputs == {"city_input", "geolocation", "price_input", "surface_input",
           "restaurant_city", "restaurant_location", "report_input"}
States == Inputs \cup {"none", "place_selection", "radius_selection"}

\* Buttons of the menus in keyboards.py.
MainButtons ==
  ({"main"} \X {"housing", "restaurant", "reports", "subscription", "language"})
  \cup ({"housing"} \X {"list", "housing-favorites", "filters", "check-now",
                        "monitor-toggle", "location", "menu"})
MenuButtons ==
  ({"restaurant"} \X {"restaurant-select", "restaurant-info",
          "restaurant-menu", "restaurant-delivery", "menu"})
  \cup ({"location"} \X {"city", "geo", "menu"})
  \cup ({"language"} \X {"lang", "menu"})
  \cup ({"radius"} \X {"radius", "entire-city", "location"})

\* Screens whose only button is back().
BackButtons ==
  ({"list", "help", "filters-empty"} \X {"menu"})
  \cup ({"housing-favorites"} \X {"housing"})
  \cup ({"reports-list", "reports-write"} \X {"reports"})
  \cup ({"restaurant-city"} \X {"restaurant-select"})
  \cup ({"city-input", "city-input-error", "city-input-empty",
         "geolocation-error", "geolocation-empty"} \X {"location"})
  \cup ({"filter-price-input", "filter-surface-input"} \X {"filters"})

\* Keyboards built inside the handlers.
FilterButtons ==
  ({"filters"} \X {"filter-price", "filter-surface", "filter-format",
                   "filter-clear", "menu"})
  \cup ({"filters-locked"} \X {"subscription", "menu"})
  \cup ({"filter-format"} \X {"format", "filters"})
  \cup ({"filter-clear-confirm"} \X {"filter-clear-confirm", "filters"})
SubscriptionButtons ==
  ({"subscription"} \X {"trial", "subplan", "menu"})
  \cup ({"subscription-detail"} \X {"buy", "subscription"})
  \cup ({"payment"} \X {"subscription"})
  \cup ({"check-now-locked"} \X {"subscription", "menu"})
MonitoringButtons ==
  ({"monitoring"} \X {"monitor-disable-confirm", "monitor-enable", "menu"})
  \cup ({"monitoring-confirm"} \X {"monitor-disable", "monitoring"})
ReportButtons == {"reports"} \X {"reports-list", "reports-write", "menu"}
DeleteButtons == {"delete"} \X {"delete-yes", "menu"}
RestaurantButtons ==
  ({"restaurant-select"} \X {"restaurant-near", "restaurant-search-city",
          "restaurant-favorites", "restaurant"})
  \cup ({"restaurant-menu"} \X {"restaurant-menu-day", "restaurant"})
  \cup ({"restaurant-delivery"} \X {"restaurant-delivery-toggle",
          "restaurant-delivery-time", "restaurant"})
  \cup ({"restaurant-favorites"} \X {"restaurant-manage", "restaurant"})
  \cup ({"restaurant-favorite"} \X {"restaurant-set-primary",
                                    "restaurant-remove"})
  \cup ({"restaurant-results"} \X {"restaurant-save-result", "restaurant"})
SelectionButtons == {"place-selection"} \X {"place", "location"}

InlineButtons ==
  FilterButtons \cup SubscriptionButtons \cup MonitoringButtons
  \cup ReportButtons \cup DeleteButtons \cup RestaurantButtons \cup SelectionButtons

Keyboard == MainButtons \cup MenuButtons \cup BackButtons \cup InlineButtons
ScreenNames == {k[1] : k \in Keyboard}
ButtonsOf == [s \in ScreenNames |-> {k[2] : k \in {k \in Keyboard : k[1] = s}}]

\* <<request, what becomes of the dialogue, screen>> where neither the search,
\* the plan nor a chosen place decides: "clear" resets the dialogue, "keep"
\* leaves it, "update" writes its data, a state is entered before the screen is
\* drawn; "none" draws no screen, "filters" is render_filters.  A request with
\* several rows depends on data left out here.
MenuPages ==
  {<<"start", "clear", "main">>, <<"menu", "clear", "main">>,
   <<"lang", "keep", "main">>, <<"language", "keep", "language">>,
   <<"help", "keep", "help">>, <<"delete_me", "keep", "delete">>,
   <<"available", "keep", "none">>,
   <<"housing", "clear", "housing">>,
   <<"housing-favorites", "clear", "housing-favorites">>,
   <<"set_position", "clear", "location">>, <<"location", "clear", "location">>,
   <<"digest-housing", "keep", "location">>,
   <<"city", "city_input", "city-input">>, <<"geo", "geolocation", "none">>}

MonitoringPages ==
  {<<"monitoring", "clear", "monitoring">>,
   <<"monitor-disable-confirm", "keep", "monitoring-confirm">>,
   <<"monitor-disable", "keep", "monitoring">>,
   <<"monitor-enable", "keep", "monitoring">>}

FilterPages ==
  {<<"filters", "clear", "filters">>,
   <<"filter-price", "keep", "filters">>,    \* not in the plan
   <<"filter-price", "price_input", "filter-price-input">>,
   <<"filter-surface", "keep", "filters">>,
   <<"filter-surface", "surface_input", "filter-surface-input">>,
   <<"filter-format", "keep", "filter-format">>,
   <<"format", "keep", "filters">>,
   <<"filter-clear", "keep", "filter-clear-confirm">>,
   <<"filter-clear-confirm", "keep", "filters">>}

SubscriptionPages ==
  {<<"subscription", "clear", "subscription">>,
   <<"digest-subscription", "keep", "subscription">>,
   <<"trial", "keep", "subscription">>,
   <<"subplan", "keep", "subscription-detail">>,
   <<"subplan", "keep", "subscription">>,   \* the plan is no longer sold
   <<"buy", "keep", "payment">>, <<"buy", "keep", "subscription">>}

ReportPages ==
  {<<"reports", "clear", "reports">>, <<"reports-list", "clear", "reports-list">>,
   <<"reports-write", "report_input", "reports-write">>,
   <<"reports-write", "clear", "reports">>,  \* cooldown
   <<"report_input", "clear", "reports">>,   \* accepted
   <<"report_input", "clear", "none">>,      \* cooldown
   <<"report_input", "keep", "none">>}       \* empty, too long, not a text

RestaurantPages ==
  {<<"restaurant", "clear", "restaurant">>,
   <<"restaurant-select", "keep", "restaurant-select">>,
   <<"restaurant-favorites", "keep", "restaurant-favorites">>,
   <<"restaurant-search-city", "restaurant_city", "restaurant-city">>,
   <<"restaurant-near", "restaurant_location", "none">>,
   <<"restaurant-save-result", "keep", "restaurant">>,
   <<"restaurant-info", "keep", "none">>,
   <<"restaurant-menu", "keep", "restaurant-menu">>,
   <<"restaurant-menu", "keep", "none">>,     \* no primary restaurant
   <<"restaurant-menu-day", "keep", "none">>,
   <<"restaurant-delivery", "keep", "restaurant-delivery">>,
   <<"restaurant-delivery-toggle", "keep", "restaurant">>,
   <<"restaurant-delivery-time", "keep", "restaurant">>,
   <<"restaurant-manage", "keep", "restaurant-favorite">>,
   <<"restaurant-manage", "keep", "none">>,   \* no longer saved
   <<"restaurant-set-primary", "keep", "restaurant">>,
   <<"restaurant-remove", "keep", "restaurant-favorites">>}

RestaurantInputPages ==
  ({"restaurant_city", "restaurant_location"} \X
          {"update"} \X {"restaurant-results"})
  \cup ({"restaurant_city", "restaurant_location"} \X
          {"keep"} \X {"none"})             \* no usable message, no answer

Pages == MenuPages \cup MonitoringPages \cup FilterPages \cup SubscriptionPages
         \cup ReportPages \cup RestaurantPages \cup RestaurantInputPages

Commands == {"start", "language", "set_position", "help", "pause", "available",
             "delete_me", "digest-subscription", "digest-housing"}
Requests == Commands \cup Inputs \cup {k[2] : k \in Keyboard}
PagesOf == [r \in Requests |-> {p \in Pages : p[1] = r}]
================================================================================
