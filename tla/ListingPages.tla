----------------------------- MODULE ListingPages -----------------------------
(***************************************************************************)
(* The pages that show listings to their buyers, and the hearts on them:   *)
(* the page of one listing, the page of the user's favourites, the watch-  *)
(* list of his profile, the cards of the home page and of the lists, and   *)
(* the page of a seller.  A heart is a copy of what the server keeps, made *)
(* at another time on each page.                                           *)
(***************************************************************************)
EXTENDS Page

CONSTANT Goods      \* listings

ListingUI ==
  [at : {"listing", "favorites", "watchlist", "cards", "seller"},
   signedIn : BOOLEAN,            \* isAuthenticated, once the store is read
   loading : BOOLEAN, error : BOOLEAN,
   shown : SUBSET Goods,          \* listing, favorites, products
   due : BOOLEAN,                 \* the effect that loads the heart is to run
   hearts : SUBSET Goods,         \* isFavorite, isLiked
   toggling : SUBSET Goods,       \* favoriteLoading, isTogglingFavorite
   busy : SUBSET {"chat", "delete"},    \* contactLoading, deleteLoading
   parts : SUBSET {"profile", "products", "reviews"},
   leaving : BOOLEAN]

ListingRequests ==
  [op : {"load", "profile", "products", "reviews", "chat", "delete"},
   phase : {"sent", "done"}]
    \cup
  [op : {"favs"}, phase : {"sent", "done"}, favs : SUBSET Goods]
    \cup
  [op : {"toggle", "drop"}, phase : {"sent", "done"}, good : Goods, add : BOOLEAN]

\* lost: a change was made and its answer lost; crossed: the heart was clicked
\* before its load had answered; blind: that load failed; kept: a second removal
\* failed; told: the listings with a click the server answered.
ListingPast ==
  [odd : SUBSET {"lost", "crossed", "blind", "kept"}, told : SUBSET Goods]

ListingTypeOK ==
  /\ ui \in ListingUI
  /\ server \in [favs : SUBSET Goods]
  /\ flight \in Seq(ListingRequests)
  /\ past \in ListingPast

\* A card is drawn with an empty heart, but for the lists of the favourites.
ListingInit ==
  /\ \E at \in {"listing", "favorites", "watchlist", "cards", "seller"},
        signedIn \in BOOLEAN :
       /\ at \in {"favorites", "watchlist"} => signedIn
       /\ ui = [at |-> at, signedIn |-> signedIn, loading |-> at # "cards",
                error |-> FALSE, shown |-> IF at = "cards" THEN Goods ELSE {},
                due |-> at = "listing", hearts |-> {}, toggling |-> {}, busy |-> {},
                parts |-> {}, leaving |-> FALSE]
  /\ \E favs \in SUBSET Goods : server = [favs |-> favs]
  /\ past = [odd |-> {}, told |-> {}]
  /\ Booted

Asked(op) == [op |-> op, phase |-> "sent"]
ToggleFavorite(op, good, add) == [op |-> op, phase |-> "sent", good |-> good, add |-> add]

\* A spinner, then an error, then what the page is about.
ListingView == At("listing") /\ ~ui.loading /\ ~ui.error /\ ui.shown # {}
Favourites == At("favorites") \/ At("watchlist")
FavoritesView == Favourites /\ ~ui.loading /\ (At("watchlist") => ~ui.error)
SellerView == At("seller") /\ ~ui.loading /\ "profile" \in ui.parts
Card(good) ==
  /\ At("cards") \/ FavoritesView \/ SellerView
  /\ good \in ui.shown

AtListings == At("listing") \/ Favourites \/ At("cards") \/ At("seller")
-----------------------------------------------------------------------------
ListingEffect ==
  /\ At("listing") /\ ui.loading /\ ~UnderWay("load")
  /\ Send(Asked("load"))
  /\ Untold /\ UNCHANGED <<ui, inputs>>

\* The heart of nobody is empty; that of a user is asked for.
FavoriteEffect ==
  /\ At("listing") /\ ui.due
  /\ ui' = [ui EXCEPT !.due = FALSE, !.hearts = IF ui.signedIn THEN @ ELSE {}]
  /\ IF ui.signedIn THEN Send([op |-> "favs", phase |-> "sent", favs |-> {}])
                    ELSE UNCHANGED flight
  /\ Untold /\ UNCHANGED inputs

\* The store of the session is read after the page was drawn.
Hydrated ==
  /\ At("listing") /\ ~ui.signedIn /\ ~ui.due
  /\ ui' = [ui EXCEPT !.signedIn = TRUE, !.due = TRUE]
  /\ Untold /\ UNCHANGED <<flight, inputs>>

FavoritesEffect ==
  /\ Favourites /\ ui.loading /\ ~UnderWay("favs")
  /\ Send([op |-> "favs", phase |-> "sent", favs |-> {}])
  /\ Untold /\ UNCHANGED <<ui, inputs>>

SellerEffect ==
  /\ At("seller") /\ ui.loading /\ flight = <<>> /\ ui.parts = {}
  /\ Send(Asked("profile"))
  /\ Untold /\ UNCHANGED <<ui, inputs>>

RequireAuth ==
  /\ ListingView \/ \E good \in Goods : Card(good)
  /\ ~ui.signedIn
  /\ ui' = [ui EXCEPT !.leaving = TRUE]
  /\ Untold /\ UNCHANGED <<flight, inputs>>

Clicked ==
  past' = [past EXCEPT !.odd =
             @ \cup (IF ui.due \/ UnderWay("favs") THEN {"crossed"} ELSE {})]

\* The heart of the page changes at once, that of a card with the answer.
HandleFavoriteToggle ==
  /\ ListingView /\ ui.signedIn /\ ui.toggling = {} /\ Input
  /\ \E good \in ui.shown :
       LET add == good \notin ui.hearts IN
       /\ ui' = [ui EXCEPT !.hearts = IF add THEN @ \cup {good} ELSE @ \ {good},
                           !.toggling = {good}]
       /\ Send(ToggleFavorite("toggle", good, add))
       /\ Clicked
  /\ UNCHANGED server

HandleFavoriteClick ==
  /\ AtListings /\ ui.signedIn /\ Input
  /\ \E good \in Goods \ ui.toggling :
       /\ Card(good)
       /\ ui' = [ui EXCEPT !.toggling = @ \cup {good}]
       /\ Send(ToggleFavorite("toggle", good, good \notin ui.hearts))
       /\ Clicked
  /\ UNCHANGED server

HandleContactSeller ==
  /\ ListingView /\ ui.signedIn /\ "chat" \notin ui.busy /\ Input
  /\ ui' = [ui EXCEPT !.busy = @ \cup {"chat"}]
  /\ Send(Asked("chat"))
  /\ Untold

HandleDeleteListing ==
  /\ ListingView /\ ui.signedIn /\ "delete" \notin ui.busy /\ Input
  /\ ui' = [ui EXCEPT !.busy = @ \cup {"delete"}]
  /\ Send(Asked("delete"))
  /\ Untold
-----------------------------------------------------------------------------
\* FavoritesController: the favourites of the user, one more, one less.
GetMine(i) ==
  /\ AtListings /\ flight[i].op = "favs" /\ flight[i].phase = "sent"
  /\ Return(i, [flight[i] EXCEPT !.phase = "done", !.favs = server.favs])
  /\ UNCHANGED <<ui, server, past, inputs>>

AddFavorite(i) ==
  /\ AtListings /\ flight[i].op = "toggle" /\ flight[i].phase = "sent" /\ flight[i].add
  /\ Return(i, [flight[i] EXCEPT !.phase = "done"])
  /\ server' = [favs |-> server.favs \cup {flight[i].good}]
  /\ UNCHANGED <<ui, past, inputs>>

RemoveFavorite(i) ==
  /\ AtListings /\ flight[i].op \in {"toggle", "drop"}
  /\ flight[i].phase = "sent" /\ ~flight[i].add
  /\ Return(i, [flight[i] EXCEPT !.phase = "done"])
  /\ server' = [favs |-> server.favs \ {flight[i].good}]
  /\ UNCHANGED <<ui, past, inputs>>

\* A listing, a profile, a chat: what the server does for them is not kept here.
Answer(i) ==
  /\ AtListings /\ flight[i].op \notin {"favs", "toggle", "drop"}
  /\ flight[i].phase = "sent"
  /\ Return(i, [flight[i] EXCEPT !.phase = "done"])
  /\ UNCHANGED <<ui, server, past, inputs>>
-----------------------------------------------------------------------------
ListingLoaded(i) ==
  /\ At("listing") /\ flight[i].op = "load"
  /\ LET ok == flight[i].phase = "done" IN
     \E good \in Goods :
       ui' = [ui EXCEPT !.loading = FALSE, !.error = ~ok,
                        !.shown = IF ok THEN {good} ELSE @]
  /\ Land(i)
  /\ Untold /\ UNCHANGED inputs

HeartLoaded(i) ==
  /\ At("listing") /\ flight[i].op = "favs" /\ flight[i].phase = "done"
  /\ ui' = [ui EXCEPT !.hearts = flight[i].favs]
  /\ Land(i)
  /\ Untold /\ UNCHANGED inputs

HeartUnknown(i) ==
  /\ At("listing") /\ flight[i].op = "favs"
  /\ past' = [past EXCEPT !.odd = @ \cup {"blind"}]
  /\ Land(i)
  /\ UNCHANGED <<ui, server, inputs>>

FavoritesLoaded(i) ==
  /\ Favourites /\ flight[i].op = "favs"
  /\ LET ok == flight[i].phase = "done" IN
     ui' = [ui EXCEPT !.loading = FALSE, !.error = ~ok,
                      !.shown = IF ok THEN flight[i].favs ELSE @,
                      !.hearts = IF ok THEN flight[i].favs ELSE @]
  /\ past' = [past EXCEPT !.odd = IF flight[i].phase = "done" THEN @ ELSE @ \cup {"blind"}]
  /\ Land(i)
  /\ UNCHANGED <<server, inputs>>

\* The profile, the listings and the reviews of a seller, one after the other.
SellerNextPart(op) == [profile |-> "products", products |-> "reviews"][op]

SellerLoaded(i) ==
  LET r == flight[i] IN
  /\ At("seller") /\ r.op \in {"profile", "products", "reviews"} /\ r.phase = "done"
  /\ ui' = [ui EXCEPT !.parts = @ \cup {r.op}, !.loading = r.op # "reviews",
                      !.shown = IF r.op = "products" THEN Goods ELSE @]
  /\ flight' = RemoveAt(flight, i)
                 \o (IF r.op = "reviews" THEN <<>> ELSE <<Asked(SellerNextPart(r.op))>>)
  /\ Untold /\ UNCHANGED inputs

\* The page does without the reviews.
SellerFailed(i) ==
  LET r == flight[i] IN
  /\ At("seller") /\ r.op \in {"profile", "products", "reviews"}
  /\ ui' = [ui EXCEPT !.loading = FALSE, !.error = r.op # "reviews"]
  /\ Land(i)
  /\ Untold /\ UNCHANGED inputs

\* Mutated: the heart stays as it was clicked.
NotRolledBack(r) == ui.hearts

RolledBack(r) == IF r.add THEN ui.hearts \ {r.good} ELSE ui.hearts \cup {r.good}

\* On the page of the listing: nothing is left to do, or the heart goes back.
ToggleAnswered(i) ==
  LET r == flight[i] IN
  /\ At("listing") /\ r.op = "toggle" /\ r.phase = "done"
  /\ ui' = [ui EXCEPT !.toggling = {}]
  /\ Land(i)
  /\ Untold /\ UNCHANGED inputs

ToggleFailed(i) ==
  LET r == flight[i] IN
  /\ At("listing") /\ r.op = "toggle"
  /\ ui' = [ui EXCEPT !.toggling = {}, !.hearts = RolledBack(r)]
  /\ past' = [past EXCEPT !.odd = IF r.phase = "done" THEN @ \cup {"lost"} ELSE @]
  /\ Land(i)
  /\ UNCHANGED <<server, inputs>>

\* On a card.  The lists of the favourites are told of either change, and remove
\* the listing, again or after all; the watchlist forgets it without waiting.
ClickAnswered(i) ==
  LET r == flight[i] IN
  /\ ~At("listing") /\ AtListings /\ r.op = "toggle" /\ r.phase = "done"
  /\ ui' = [ui EXCEPT !.toggling = @ \ {r.good},
                      !.hearts = IF r.add THEN @ \cup {r.good} ELSE @ \ {r.good},
                      !.shown = IF At("watchlist") THEN @ \ {r.good} ELSE @]
  /\ flight' = RemoveAt(flight, i)
                 \o (IF Favourites THEN <<ToggleFavorite("drop", r.good, FALSE)>>
                                  ELSE <<>>)
  /\ past' = [past EXCEPT !.told = @ \cup {r.good}]
  /\ UNCHANGED <<server, inputs>>

ClickFailed(i) ==
  LET r == flight[i] IN
  /\ ~At("listing") /\ AtListings /\ r.op = "toggle"
  /\ ui' = [ui EXCEPT !.toggling = @ \ {r.good}]
  /\ past' = [past EXCEPT !.odd = IF r.phase = "done" THEN @ \cup {"lost"} ELSE @]
  /\ Land(i)
  /\ UNCHANGED <<server, inputs>>

HandleRemoveFavorite(i) ==
  LET r == flight[i] IN
  /\ Favourites /\ r.op = "drop" /\ r.phase = "done"
  /\ ui' = [ui EXCEPT !.shown = @ \ {r.good}]
  /\ Land(i)
  /\ Untold /\ UNCHANGED inputs

RemoveFailed(i) ==
  /\ Favourites /\ flight[i].op = "drop"
  /\ ui' = [ui EXCEPT !.error = @ \/ At("favorites")]
  /\ past' = [past EXCEPT !.odd = @ \cup {"kept"}]
  /\ Land(i)
  /\ UNCHANGED <<server, inputs>>

\* The chat is opened, the listing deleted: the page is left, or tells why not.
Acted(i) ==
  LET r == flight[i] IN
  /\ At("listing") /\ r.op \in {"chat", "delete"}
  /\ ui' = [ui EXCEPT !.busy = @ \ {r.op}, !.leaving = @ \/ r.phase = "done"]
  /\ Land(i)
  /\ Untold /\ UNCHANGED inputs

ListingNext ==
  \/ ListingEffect \/ FavoriteEffect \/ Hydrated \/ FavoritesEffect \/ SellerEffect
  \/ RequireAuth \/ HandleFavoriteToggle \/ HandleFavoriteClick
  \/ HandleContactSeller \/ HandleDeleteListing
  \/ \E i \in DOMAIN flight : GetMine(i)
  \/ \E i \in DOMAIN flight : AddFavorite(i)
  \/ \E i \in DOMAIN flight : RemoveFavorite(i)
  \/ \E i \in DOMAIN flight : Answer(i)
  \/ \E i \in DOMAIN flight : ListingLoaded(i)
  \/ \E i \in DOMAIN flight : HeartLoaded(i)
  \/ \E i \in DOMAIN flight : HeartUnknown(i)
  \/ \E i \in DOMAIN flight : FavoritesLoaded(i)
  \/ \E i \in DOMAIN flight : SellerLoaded(i)
  \/ \E i \in DOMAIN flight : SellerFailed(i)
  \/ \E i \in DOMAIN flight : ToggleAnswered(i)
  \/ \E i \in DOMAIN flight : ToggleFailed(i)
  \/ \E i \in DOMAIN flight : ClickAnswered(i)
  \/ \E i \in DOMAIN flight : ClickFailed(i)
  \/ \E i \in DOMAIN flight : HandleRemoveFavorite(i)
  \/ \E i \in DOMAIN flight : RemoveFailed(i)
  \/ \E i \in DOMAIN flight : Acted(i)

ListingSpec == ListingInit /\ [][ListingNext]_pageVars
-----------------------------------------------------------------------------
\* With nothing under way the heart of a listing, that of a card once a click on
\* it was answered, and the lists of the favourites show what the server keeps,
\* whatever was clicked and in whatever order the answers came: unless one was
\* lost, the heart was clicked before its load had answered, that load failed,
\* or a second removal did.
HeartExplained ==
  (AtListings /\ flight = <<>> /\ ~ui.loading /\ ~ui.due /\ past.odd = {}) =>
    /\ At("listing") /\ ui.signedIn => ui.hearts = server.favs
    /\ Favourites => ui.shown = server.favs /\ ui.shown \subseteq ui.hearts
    /\ At("cards") \/ At("seller") =>
         past.told \cap ui.hearts = past.told \cap server.favs
=============================================================================
