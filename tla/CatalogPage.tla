----------------------------- MODULE CatalogPage -----------------------------
(***************************************************************************)
(* The browse page and the pages of the categories: one list of listings,  *)
(* loaded again whenever the filters change and, on the browse page,       *)
(* continued page by page.  Neither page knows which request an answer     *)
(* belongs to.                                                             *)
(*                                                                         *)
(* A page of listings is the pair of the filters it was asked with and its *)
(* number.  The server answers /listings with a bare array: the total the  *)
(* category page compares with is that of the array, its "load more" is    *)
(* never offered, and it has no action here.                               *)
(***************************************************************************)
EXTENDS Page

CONSTANTS
  Categories,   \* the values of the category filter
  LastPage,     \* the last page of the server's list that has listings
  LastFull      \* whether that page is a full one

ASSUME CatalogAssumption == LastPage \in Nat /\ LastFull \in BOOLEAN

\* "inverted" is a minimum price above the maximum price.
Filters == [category : Categories, price : {"any", "inverted"}]

\* An inverted price range is shown as an error and not sent.
Normalized(f) == [f EXCEPT !.price = "any"]

Pages == [of : Filters, page : Nat]

CatalogUI ==
  [at : {"browse", "category"},
   slug : Categories,           \* the category in the address
   linked : BOOLEAN,            \* the browse page has still to take it over
   filters : Filters,
   dirty : BOOLEAN,             \* the effect on the filters has to run
   list : Seq(Pages),           \* the pages of listings shown, in order
   page : Nat,
   hasMore : BOOLEAN, loading : BOOLEAN, loadingMore : BOOLEAN,
   first : BOOLEAN, error : BOOLEAN]

CatalogRequests == [op : {"load", "more"}, of : Filters, page : Nat]

CatalogTypeOK == ui \in CatalogUI /\ flight \in Seq(CatalogRequests)

CatalogInit ==
  /\ \E at \in {"browse", "category"}, s, c \in Categories, linked \in BOOLEAN :
       /\ linked => at = "browse"
       /\ ~linked => c = s
       /\ ui = [at |-> at, slug |-> s, linked |-> linked,
                filters |-> [category |-> c, price |-> "any"],
                dirty |-> TRUE, list |-> <<>>, page |-> 1, hasMore |-> TRUE,
                loading |-> TRUE, loadingMore |-> FALSE, first |-> TRUE,
                error |-> FALSE]
  /\ server = {} /\ past = {} /\ Booted

\* What the page shows; the controls of the list are there in "list" only.
BrowseView ==
  CASE ui.loading /\ ui.list = <<>> -> "skeleton"
    [] ~(ui.loading /\ ui.list = <<>>) /\ ui.error -> "error"
    [] OTHER -> IF ui.list = <<>> THEN "empty" ELSE "list"

FiltersShown == At("category") \/ (At("browse") /\ BrowseView \in {"list", "empty"})

\* A short page, or none at all, is the end of the list.
Full(p) == p < LastPage \/ (p = LastPage /\ LastFull)

Items(r) == IF r.page <= LastPage THEN <<[of |-> r.of, page |-> r.page]>> ELSE <<>>

\* normalizeListingsResponse: of a bare array, the total is its length.
Total(r) == Len(Items(r))

LoadRequest == [op |-> "load", of |-> Normalized(ui.filters), page |-> 1]

-----------------------------------------------------------------------------
\* The effects of a render.  The browse page shows its skeleton the first
\* time only; a category page goes back to page one.
BrowseEffect ==
  /\ At("browse") /\ ui.dirty
  /\ ui' = [ui EXCEPT !.dirty = FALSE, !.error = FALSE, !.loading = ui.first \/ @]
  /\ Send(LoadRequest)
  /\ Untold /\ UNCHANGED inputs

CategoryEffect ==
  /\ At("category") /\ ui.dirty
  /\ ui' = [ui EXCEPT !.dirty = FALSE, !.error = FALSE, !.loading = TRUE, !.page = 1]
  /\ Send(LoadRequest)
  /\ Untold /\ UNCHANGED inputs

\* The slug of the address has changed: the filters follow, and the list of
\* the other category goes.
SlugEffect ==
  /\ At("category") /\ ui.slug # ui.filters.category
  /\ ui' = [ui EXCEPT !.filters.category = ui.slug, !.dirty = TRUE,
                      !.list = <<>>, !.page = 1]
  /\ Untold /\ UNCHANGED <<flight, inputs>>

\* The category in the address of the browse page becomes its filter: the effect
\* on the filters has run by then, and will run again.
AddressEffect ==
  /\ At("browse") /\ ui.linked /\ ~ui.dirty
  /\ ui' = [ui EXCEPT !.linked = FALSE, !.filters.category = ui.slug, !.dirty = TRUE]
  /\ Untold /\ UNCHANGED <<flight, inputs>>

\* A filter, the order or "clear" in the side bar; on a category page the
\* category stays.
ChangeFilters ==
  /\ FiltersShown /\ Input
  /\ \E f \in Filters :
       /\ At("category") => f.category = ui.filters.category
       /\ ui' = [ui EXCEPT !.filters = f, !.dirty = TRUE]
  /\ Untold /\ UNCHANGED flight

\* The same page for another category.
Navigate ==
  /\ At("category") /\ Input
  /\ \E s \in Categories : ui' = [ui EXCEPT !.slug = s]
  /\ Untold /\ UNCHANGED flight

TryAgain ==
  /\ At("browse") /\ BrowseView = "error" /\ Input
  /\ ui' = [ui EXCEPT !.error = FALSE]
  /\ Send(LoadRequest)
  /\ Untold

\* Mutated: loadingMore is forgotten.
MayLoadMoreAgain == BrowseView = "list" /\ ui.hasMore

MayLoadMore == BrowseView = "list" /\ ui.hasMore /\ ~ui.loadingMore

\* handler loadMore: the number of the page and the filters are those of the
\* render the button was in.
LoadMore ==
  /\ At("browse") /\ MayLoadMore
  /\ ui' = [ui EXCEPT !.loadingMore = TRUE]
  /\ Send([op |-> "more", of |-> Normalized(ui.filters), page |-> ui.page + 1])
  /\ Untold /\ UNCHANGED inputs

\* Mutated: the spinner stays.
StillLoadingAfter(load) == ui.loading

\* The "finally" of a load clears the flag; a continuation leaves it alone.
StillLoading(load) == ui.loading /\ ~load

\* The answer to a load replaces the list; that of "load more" is added to
\* whatever list is shown.
BrowseAnswered(i) ==
  LET r == flight[i]
      load == r.op = "load" IN
  /\ At("browse")
  /\ ui' = [ui EXCEPT !.list = IF load THEN Items(r) ELSE @ \o Items(r),
                      !.page = r.page,
                      !.hasMore = Full(r.page),
                      !.loading = StillLoading(load),
                      !.first = @ /\ ~load,
                      !.loadingMore = @ /\ load]
  /\ Land(i)
  /\ Untold /\ UNCHANGED inputs

CategoryAnswered(i) ==
  /\ At("category")
  /\ ui' = [ui EXCEPT !.list = Items(flight[i]), !.hasMore = Total(flight[i]) > 1,
                      !.loading = FALSE, !.error = FALSE]
  /\ Land(i)
  /\ Untold /\ UNCHANGED inputs

\* A load that fails leaves the list and says so; a continuation is silent.
CatalogFailed(i) ==
  LET load == flight[i].op = "load" IN
  /\ At("browse") \/ At("category")
  /\ ui' = [ui EXCEPT !.error = load \/ @, !.loading = StillLoading(load),
                      !.first = @ /\ ~(load /\ At("browse")),
                      !.loadingMore = @ /\ load]
  /\ Land(i)
  /\ Untold /\ UNCHANGED inputs

CatalogAnswer ==
  \E i \in DOMAIN flight : BrowseAnswered(i) \/ CategoryAnswered(i) \/ CatalogFailed(i)
CatalogEffect == BrowseEffect \/ CategoryEffect \/ SlugEffect \/ AddressEffect

CatalogNext ==
  CatalogEffect \/ ChangeFilters \/ Navigate \/ TryAgain \/ LoadMore \/ CatalogAnswer

\* Effects run after their render, and every request is answered or fails.
CatalogFairness == WF_pageVars(CatalogEffect) /\ WF_pageVars(CatalogAnswer)

CatalogSpec == CatalogInit /\ [][CatalogNext]_pageVars
-----------------------------------------------------------------------------
\* However the answers to loads and continuations, failures and changes of the
\* filters interleave, no page of one search is shown twice (two cards of one
\* listing would share a key): loadingMore lets one continuation through, and a
\* load replaces the list.  Pages of two searches may meet in one list.
NoPageTwice == FiltersShown => IsInjective(ui.list)

\* A page that shows its spinner, or the skeleton of its first list, stops showing
\* it: the effects come to rest, whichever of them start loads, and each answer or
\* failure of a load clears the flag.
CatalogLoadingEnds ==
  LET catalog == At("browse") \/ At("category") IN
  (catalog /\ ui.loading) ~> (catalog /\ ~ui.loading)
=============================================================================
