------------------------------ MODULE SearchPage ------------------------------
(***************************************************************************)
(* The search page: a query and filters in the address, one request at a   *)
(* time (the one before is aborted), and a cache of the last answers.      *)
(***************************************************************************)
EXTENDS Page

CONSTANTS
  Queries,      \* texts the user may search for
  Refused,      \* those of them the text validator refuses
  FilterSets,   \* values of the filters
  DefaultFilters,
  CacheMax      \* answers kept

ASSUME SearchAssumption == DefaultFilters \in FilterSets /\ CacheMax \in Nat

Searches == [query : Queries, filters : FilterSets]

SearchUI ==
  [at : {"search"},
   url : Searches \cup {Null},      \* the search in the address
   arrived : BOOLEAN,           \* the effect on the address has to run
   query : Queries \cup {Null}, \* the text in the box
   filters : FilterSets,
   refused : BOOLEAN,           \* the message of the validator is shown
   current : Searches \cup {Null},  \* the search of the current controller
   cache : Seq(Searches),           \* the searches answered, the oldest first
   results : Searches \cup {Null},  \* the search whose answer is shown
   loading : BOOLEAN, searched : BOOLEAN, error : BOOLEAN,
   showFilters : BOOLEAN]

\* The last search performed, and whether it was shown from the cache while
\* another one was under way.
SearchPast == [asked : Searches \cup {Null}, overtaken : BOOLEAN]

SearchTypeOK ==
  /\ ui \in SearchUI
  /\ Len(ui.cache) <= CacheMax /\ IsInjective(ui.cache)
  /\ past \in SearchPast

SearchInit ==
  /\ \E u \in Searches \cup {Null} :
       ui = [at |-> "search", url |-> u, arrived |-> TRUE, query |-> Null,
             filters |-> DefaultFilters, refused |-> FALSE, current |-> Null,
             cache |-> <<>>, results |-> Null, loading |-> FALSE,
             searched |-> FALSE, error |-> FALSE, showFilters |-> FALSE]
  /\ past = [asked |-> Null, overtaken |-> FALSE]
  /\ server = {} /\ Booted

Cached(k) == k \in ToSet(ui.cache)

\* Mutated: a search is not sent while another one is under way.
UnderWayAfterIfIdle(k) == IF Cached(k) \/ ui.current # Null THEN ui.current ELSE k

\* A request takes the place of the one it aborts.
UnderWayAfter(k) == IF Cached(k) THEN ui.current ELSE k

\* performSearch, after the updates of u: a cached answer is shown at once, and
\* whatever is under way goes on; a new request aborts it.  An aborted request
\* ends silently, its controller is not the current one any more.
PerformSearch(u, k) ==
  IF k.query \in Refused
    THEN /\ ui' = [u EXCEPT !.refused = TRUE]
         /\ UNCHANGED past
    ELSE /\ ui' = [u EXCEPT !.searched = TRUE, !.error = FALSE,
                            !.current = UnderWayAfter(k),
                            !.results = IF Cached(k) THEN k ELSE @,
                            !.loading = ~Cached(k)]
         /\ past' = [asked |-> k, overtaken |-> Cached(k) /\ ui.current # Null]

\* router.push: the effect runs when the address is another one.
Push(u, k) == [u EXCEPT !.url = k, !.arrived = @ \/ k # u.url]

SearchView ==
  CASE ui.loading -> "skeleton"
    [] ~ui.loading /\ ui.error -> "error"
    [] ~ui.loading /\ ~ui.error /\ ui.searched -> "results"
    [] OTHER -> "initial"

NoRequest == UNCHANGED <<server, flight>>
-----------------------------------------------------------------------------
\* The effect on the address: the box and the filters take it over.
UrlEffect ==
  /\ At("search") /\ ui.arrived
  /\ IF ui.url = Null
       THEN ui' = [ui EXCEPT !.arrived = FALSE] /\ UNCHANGED past
       ELSE PerformSearch([ui EXCEPT !.arrived = FALSE, !.query = ui.url.query,
                                     !.filters = ui.url.filters], ui.url)
  /\ NoRequest /\ UNCHANGED inputs

Type ==
  /\ At("search") /\ Input
  /\ \E q \in Queries \cup {Null} :
       ui' = [ui EXCEPT !.query = q, !.refused = q \in Refused]
  /\ NoRequest /\ UNCHANGED past

\* The panel of the filters is opened once something has been searched for, and
\* stays open.
ToggleFilters ==
  /\ At("search") /\ ui.searched
  /\ ui' = [ui EXCEPT !.showFilters = ~@]
  /\ NoRequest /\ UNCHANGED <<past, inputs>>

HandleFilterChange ==
  /\ At("search") /\ ui.showFilters /\ Input
  /\ \E f \in FilterSets : ui' = [ui EXCEPT !.filters = f]
  /\ NoRequest /\ UNCHANGED past

\* executeSearch, of the box and of "apply": the address changes, the effect
\* searches.
ExecuteSearch ==
  /\ At("search") /\ ui.query # Null /\ Input
  /\ ui' = IF ui.query \in Refused
             THEN [ui EXCEPT !.refused = TRUE]
             ELSE Push(ui, [query |-> ui.query, filters |-> ui.filters])
  /\ NoRequest /\ UNCHANGED past

ClearSearch ==
  /\ At("search") /\ ui.query # Null /\ Input
  /\ ui' = Push([ui EXCEPT !.query = Null, !.results = Null, !.searched = FALSE,
                           !.error = FALSE, !.filters = DefaultFilters], Null)
  /\ NoRequest /\ UNCHANGED past

ResetFilters ==
  /\ At("search") /\ ui.showFilters /\ Input
  /\ LET u == [ui EXCEPT !.filters = DefaultFilters] IN
       IF ui.query = Null
         THEN ui' = u /\ UNCHANGED past
         ELSE PerformSearch(u, [query |-> ui.query, filters |-> DefaultFilters])
  /\ NoRequest

\* "try again" of the error.
Retry ==
  /\ At("search") /\ SearchView = "error" /\ ui.query # Null /\ Input
  /\ PerformSearch(ui, [query |-> ui.query, filters |-> ui.filters])
  /\ NoRequest

\* Mutated: the cache grows.
EvictedNever(kept) == kept

Evicted(kept) == IF Len(kept) > CacheMax THEN Tail(kept) ELSE kept

\* The answer is kept, at the cost of the oldest one, and shown.
SearchAnswered ==
  /\ At("search") /\ ui.current # Null
  /\ LET kept == IF Cached(ui.current) THEN ui.cache ELSE Append(ui.cache, ui.current)
     IN ui' = [ui EXCEPT !.cache = Evicted(kept), !.results = ui.current, !.current = Null, !.loading = FALSE]
  /\ NoRequest /\ UNCHANGED <<past, inputs>>

SearchFailed ==
  /\ At("search") /\ ui.current # Null
  /\ ui' = [ui EXCEPT !.error = TRUE, !.results = Null, !.current = Null,
                      !.loading = FALSE]
  /\ NoRequest /\ UNCHANGED <<past, inputs>>

SearchNext ==
  \/ UrlEffect \/ Type \/ ToggleFilters \/ HandleFilterChange \/ ExecuteSearch \/ ClearSearch
  \/ ResetFilters \/ Retry \/ SearchAnswered \/ SearchFailed

SearchSpec == SearchInit /\ [][SearchNext]_pageVars
-----------------------------------------------------------------------------
\* The listings under "results" are those of the last search performed, as soon
\* as nothing is loading.  There is one way around the abort, and only one: a
\* search shown from the cache leaves the request under way alone, and its late
\* answer replaces what the user asked for last.
LastSearchShown ==
  (At("search") /\ SearchView = "results")
    => (ui.results = past.asked \/ past.overtaken)
=============================================================================
