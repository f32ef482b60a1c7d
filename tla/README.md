# SBay, specified

TLA+ models of SBay, a marketplace for classifieds: an ASP.NET backend over
PostgreSQL (`src/Backend/SBay.Backend`), a Next.js web client
(`src/Frontend/web`), SignalR in between for chat. The modules are read off the
code; `PROJECT.json` names, for every definition, the lines it stands for, and
for every property a mutation of such a definition that breaks it. TLC checks
small instances, TLAPS proves the theorems for instances of any size.

What is hard about this code is not in any one handler. The backend never asks
for more than READ COMMITTED, no row has a concurrency token, rows are read
`AsNoTracking` and written back whole, and only a few writes are conditional
UPDATEs. The client refreshes its tokens in an interceptor that several
requests run at once, the chat page merges four sources of messages, and no page
asks whether the answer it gets is that of the request it sent last. So the
models are about what interleaves: transactions, calls, answers, events.

## 1. The system and its parts

| Part | State | Operations | Modelled in |
| --- | --- | --- | --- |
| Orders (`OrderController`, `EfOrderRepository`) | orders with their items and status | Create, UpdateStatus, Cancel | `Orders` |
| Stock (`EfListingRepository`) | `listings.stock_quantity` | TryReserveStock, ReleaseStock | `Orders`, promise: `Inventory` |
| Commission (`MonetizationService.EnsureCommissionAsync`) | `platform_fees` | on completion of an order | `Orders` |
| Seller counters (`User.PendingOrders`, `TotalOrders`) | columns of `users` | written by the order handlers | `Orders` |
| Sessions (`AuthController`, `EfRefreshTokenRepository`) | `refresh_tokens` | Register/Login, Refresh, Logout | `RefreshTokens`, promise: `SessionLine` |
| Web client session (`lib/api.ts`, `lib/store.ts`, login page) | localStorage, auth store, requests in flight | requests, 401 interceptor, login, logout, reload | `Browser` |
| Chat (`ChatService`, its repositories) | `messages`, `chats.last_message_at` | send, edit, delete, mark read | `Chat`, promise: `ChatLog` |
| Hub and events (`ChatHub`, `ChatEvents`) | connections' groups | message events | `Chat` (sent), `ChatPage` (received) |
| Chat page (`pages/messages/[chatId].tsx`) | list of messages, refs, fetches | load, poll, events, own calls | `ChatPage` |
| Accounts (`AuthController`, `UserController`; the pages that set or ask for a password) | `users.password_hash`, failures per address | register, sign in, change the password | `SignInPages` |
| Catalog (`browse.tsx`, `category/[slug].tsx`, filters) | a list, its page, flags, the address | load, continue, filter | `CatalogPage` |
| Search (`search.tsx`) | results, a cache, the request under way | search, filter, abort | `SearchPage` |
| Order pages (`sales.tsx`, `purchases.tsx`, `[id].tsx`) | copies of orders | load, tabs, update, cancel | `OrderPages` |
| Making a listing (`sell.tsx`, `imageUpload.tsx`, `ListingController.Create`) | a form, images, listing slots | upload, remove, submit, pay for a boost | `SellPage` |
| A seller's listings (`my-listings.tsx`, `edit.tsx`, `ListingController`) | `listings`, `listing_images`, uploaded files | update, delete, reserve, release, cleanup | `SellerDesk` |
| Payments, boosts (`MonetizationService`, webhooks) | `payment_transactions`, `listing_boost_purchases` | purchase, webhook | `SellerDesk` |
| Favourites (`FavoritesController`, every page with a heart) | `favorites`, a heart per page | load, add, remove | `ListingPages` |
| Profile (`UserController`, `profile.tsx`, `settings.tsx`) | the profile in `users`, two forms | load, edit, upload, save | `ProfilePages` |
| Reviews (`ReviewsController`) | `reviews`, `users.review_count` | create, update, delete | `ProfilePages` |
| Reports, blocks, notifications, ads, addresses | own tables | | out, see 6 |

How they meet: an order moves stock, the seller's counters and the fee in one
transaction; the client meets the session endpoints through `localStorage`
alone; the chat page learns of the other user's calls through events that may
be lost and through polls that may be late. The listing row and the user row
are written by several parts, each from a copy of its own. A page meets the
server through requests whose answers come in any order, or not at all, and what
it shows is a copy that others make stale.

What makes each part correct, in a sentence:

- *Orders*: no unit is sold twice or comes back twice, an order is charged once
  and only when completed, the status follows `IsAllowedTransition`, the
  counters count.
- *Sessions*: a refresh token is good for one exchange, a session never forks,
  and what has ended stays ended.
- *Web client*: no used-up token stays in `localStorage` without a reason, every
  request comes to an end, signing out lasts.
- *Chat*: what overlapping calls do to the messages is what some order of single
  changes does; the inbox is ordered by the newest message; what is read stays
  read.
- *Chat page*: no message twice, and in the end the newest message and the right
  read flags.
- *Lists and searches*: no page of a search twice, the results are those of what
  was asked for last, a spinner ends.
- *Order pages*: a page at rest shows the orders as they are, and offers what the
  server allows.
- *Making and keeping a listing*: the form has the images the user wants and makes
  one listing; stock and units sold make up what the seller put up, images are
  there with their files, what is deleted stays deleted, what is boosted was paid
  for and what was paid for is boosted.
- *Favourites, accounts, profile*: a heart, a password and a profile are what the
  user made them, on every page that shows or asks for them; the reviews of a user
  are counted.

The last four are not kept by this code without exceptions. Each property names
every one of them, and the run shows that there are no others.

`PROJECT.json` lists all components with their files, and under `hazards` each
thing that can go wrong at its line, with the properties about it.

## 2. The modules

Each module has one action per step that others can see. The comment over a
definition says what in the code it is; a definition commented "Mutated:" is a
plausible bug of the definition after it and is used by nothing in the module.

### Orders

`Orders` models the three handlers over PostgreSQL. A request (`Requests`) goes
through `pc`: the checks on what it reads outside the transaction
(`StartCreate`, `StartUpdate`, `StartCancel`), the conditional UPDATE of one
listing row after another in any order (`ReserveStock`, `ReleaseStock`; each
takes the row's lock, `held`), the read of the seller (`ReadSeller`), the look
for a fee (`EnsureCommission`), and SaveChanges with COMMIT (`CommitCreate`,
`CommitChange`), which writes the order and the seller from the request's
copies. UPDATEs wait for locked rows and see what the holder has left
(`Enough` is evaluated then); `Fail` rolls back at any point; `DetectDeadlock`
is PostgreSQL's, for a minimal set of requests that wait for each other.
Tables are written at the commit only: that the row is locked until then makes
this the same as writing at the UPDATE. Prices, addresses, shipping and revenue
(which moves with `TotalOrders` in the same branch) are left out; the
commission rate is above zero (a rate of zero charges nobody).

`Inventory` is what the handlers promise about stock: the units of an order
leave together when its row appears, and come back together. It has two
strengths: with `Spec` an order may give its units back twice (the code lets
it, see 4), with `OnceSpec` once.

`Isolation` is an assumption on the clients, not on the code: `"none"`, any
requests overlap; `"order"`, those about one order do not; `"seller"`, those
about one seller do not. What holds under which is the result.

### Sessions

`RefreshTokens` models the session endpoints over the `refresh_tokens` table:
a call is posted with a token or with none, looks it up (`RefreshLook`,
`LogoutLook`), and writes: `Rotate` is the transaction of Refresh, whose
conditional UPDATE (`StillActive`) decides, `LogoutRevoke` the unconditional
write of Logout. `Expire` and `Fail` happen at any time. Of a token only its
name matters. `SessionLine` is the promise: lines of tokens, each exchanged
once for one never seen.

`Browser` puts one tab in front of `RefreshTokens` (the detailed server, not
its abstraction). A task of the event loop is a step: a request is sent, an
answer arrives (`AnswerOk`, `Answer401`, `RefreshOk`, `RefreshFailed`, ...), the
user logs in, out, follows a link or reloads. `storage` is localStorage,
`signedIn` the store, `leaving` the time between setting
`window.location.href` and the unload. Any request may be answered 401, which
stands for every way an access token can have become bad. `lost` is a history
variable: the calls whose answers the page will never get. The two keys of
localStorage are written and removed together, so `TypeOK` says that they hold the
pair of one call.

### Chat

`Chat` models `ChatService` without a transaction, as the code has none: a send
writes `last_message_at` (`SendTouch`), then inserts, and the trigger writes it
again (`SendInsert`); a delete removes the row, reads the latest that is left,
writes its time (`DeleteRemove`, `DeleteLatest`, `DeleteTouch`); an edit writes
every column of the copy it read (`Look`, `EditWrite`, `Written`); a mark is one
conditional UPDATE (`MarkUpTo`, `Marks`). The event follows the writes (`Tell`).
`Fail` stands for a refusal, an exception or a crash at any point, and what has
been written stays. A message is named by its `created_at`, the time its call
read from the clock; ties are excluded. `alone` is a history variable: it is
true while no two calls have been in flight together.

`ChatLog` is the promise: each call one change of the messages and one event
owed. It allows what overlapping calls do (messages in another order than their
times, an old `is_read` written by an edit).

`ChatPage` puts the page over `ChatLog`. `list` is React's state with all its
updates applied, `drawn` and `lastRef` the refs an effect sets after the render
(`Effect`), `fetch` the first load and the poll, `wire` the events on their way,
`marks` the page's `markAsRead` calls nobody waits for, `waiting` the user's own
calls. `view` is what is rendered: a spinner, the list, or the card of an error.
The first load is over when the mark it awaits (`opening`) has been answered
(`LoadArrives`, `LoadMarked`); if either fails the card stays, as nothing takes
`error` back. Events arrive late, twice (a connection is in the group of the chat and
in that of the user) or never; fetches fail; answers are lost. The page stays
visible on one chat of fewer than 50 messages, which is among the 100 chats it
looks for it in; the model begins when the first load has been served; the events of the user's own
marks, which the page ignores, are left out. `Copied` restricts an edit to the
`is_read` of the row or of before a mark.

### Pages

`Page` is what the other pages of the web client have in common. `ui` is the
record of a component's useState and useRef values, with `ui.at` the page;
`server` what the server keeps of the matter; `flight` the requests under way.
A request is a record with its `op`, what it carries, and a `phase`: `"sent"`
until the server has handled it (`Return`), then `"done"` or `"refused"` until
the page has its answer (`Land`). An action of a user is a conjunction of what
the page shows when it can happen and what its handler does up to the first
`await`; what comes after the `await` is the action of the answer, with the
values of the render the call was made in carried in the request. A failure may
come before the server has handled a request or after (the answer is lost): the
page cannot tell. A request the page has given up before the server had it is not
handled later: `SellPage` alone leaves such requests on their way, as only there a
second listing comes of them; in `OrderPages` `OtherMoves` makes the same changes,
at any time. `past` is a history variable, of what was asked for, entered
or clicked (`asked`, `wanted`, `given`, ...), and of the reasons why a page may
be wrong (`odd`, `overlapped`, `again`), each set by the step at which it comes
about. The properties are of the form "as it should be, or for this reason".

- `CatalogPage`: the browse page, and the category pages. A load replaces the
  list, a continuation is added to it, neither knows of the other; `loadingMore`
  is what there is against two continuations. A category in the address of the
  browse page becomes a filter after the first load has been sent, so two loads
  are under way (`AddressEffect`). A listing is the page of the answer it came in.
- `SearchPage`: the query and the filters in the address, the abort of the
  request before, the cache and its eviction.
- `OrderPages`: the two lists and the page of one order, over a server that
  moves orders by the table of `OrderController` and where others move them too.
  `as` is who looks: the seller at his sales, the buyer at his purchases, either
  of them at the page of an order. UpdateStatus is the seller's, Cancel the
  buyer's (`UpdateOrder`), and the page of an order offers its cancellation to
  both (`HandleCancelOrder`).
- `SellPage`: the upload of images (merged into those of the render it was
  started in), and the chain of the form: create, pay, read the user again;
  with the retries of the interceptor, which repeats a POST as well. A request
  given up after its time may still be on its way: `Again` and `Broken` leave it
  behind as a `"late"` one, which the server may handle beside its repetition or
  long after it, and whose answer nobody gets. The count of the retries is
  deleted by an answer (`Succeeded`), not by a refusal. The server has the
  conditional UPDATE of the listing slots.
- `SellerDesk`: deletion, boost and edit of one listing. `PUT` is three steps, as
  others see it: it reads (`UpdateReads`), deletes the images at once
  (`ReplaceImages`), writes all columns (`UpdateWrites`). Between them come the
  orders (`ReserveStock`, `ReleaseStock`: one UPDATE of one column), the webhook
  (`WebhookReads`, `WebhookWrites`), another tab, and the cleanup of unused
  uploads (`CleanupReads`, `CleanupDeletes`).
- `ListingPages`: the hearts, on the page of a listing, the cards, the page of a
  seller, the list of favourites and the watchlist, where the card and the list
  each remove the favourite.
- `SignInPages`: a password from the keys to the hash. Registration sanitizes the
  field as it is typed (`SanitizeInput`), the others do not; the validator of
  texts (`TextValid`) is asked by some pages only; failures are counted per
  address. The pages of a forgotten password call endpoints the server does not
  have (`NoEndpoint`).
- `ProfilePages`: the profile and the settings, each with a form beside the user
  in the store, and the picture that is uploaded into the form. The fields are
  name, phone number, city and picture; the form of the settings has no city
  (`PageFields`). A form is made from a user by `FormOf`, where the city goes
  through normalizeCityValue, and sent by `Outgoing`, where the texts go through
  sanitizeInput: both are constants, functions on texts of which nothing is assumed
  but that a blank stays blank. `UpdateMe` reads
  the row of the user and writes all of it; so do the reviews of his sales
  (`CreateReview` ... `ReviewWrites`), which count themselves in it.

`MCPages` puts them together: a behaviour is of one family of pages, as the
first state picks it.

## 3. The runs

Every run explores all states of its instance. Instances are small because the
hazards are: each needs two or three actors and one or two rows, and the
instances hold what the shortest failures of the mutants need, and one more where
that can be afforded.

| Run | Instance | Shows |
| --- | --- | --- |
| `overlap` | 3 requests and an earlier order in any status, 2 scarce listings, any overlap | `TypeOK` (stock never negative), `ReservationCovered`, `FeeAtMostOnce`, `ImplementsInventory` |
| `apart` | the same, no overlap on one order | `StockConserved`, `ChargedIffCompleted`, `StatusMachine`, `ImplementsInventoryOnce` |
| `queue` | 4 requests about one seller, one after another, failures included | `CountersExact` |
| `answered` | 3 requests, 2 listings, fairness | `EveryRequestAnswered` |
| `overlap_stock` | 2 requests about one order | violation of `StockConserved` (4) |
| `overlap_counters` | 2 orders of one seller | violation of `CountersExact` (4) |
| `tokens` | 5 calls, any tokens | `OneActive`, `LogoutEndsOrOvertaken`, `ImplementsSessionLine` |
| `tab` | one tab, 2 requests, 6 calls | `TypeOK`, `StoredTokenExplained`, `EveryRequestSettles` |
| `late_refresh` | the same | violation of `LogoutSticks` (4) |
| `chat_server` | 3 calls, an earlier message and up to two new ones | `InboxFollowsNewest`, `ReadSticks`, `ImplementsChatLog` |
| `pages` | 3 requests at a time, 3 things done, of every page | `TypeOK`, `NoPageTwice`, `CatalogLoadingEnds`, `LastSearchShown`, `StatusExplained`, `RefusedOnlyWhenStale`, `ImagesAsWanted`, `OneListingPerForm`, `ListingExplained`, `BoostMatchesPayment`, `HeartExplained`, `SignInExplained`, `ProfileExplained`, `SavesWhatWasGiven` |
| `chat_page` | one earlier message or none, 2 messages and 2 calls in all | `TypeOK`, `NoDuplicates`, `NewestShown`, `ReceiptsSettle` |

Bounds. `MaxQuantity = 1`: the stock of 1 and 2 sells out with the first order
or the second, and more units per order would only make the same comparisons
with other numbers. In `queue` it takes four requests to create, complete and
cancel with an earlier order about. In `tokens` five calls let one token be
presented three times over while a logout runs. In `tab` two requests are what
it takes for one to be refused what the other has used up, and six calls are
what two requests can make at most: `SomeCallLeft` never blocks them.
`MaxCalls` in `chat_page` bounds the calls, not the polls, events, failures and
marks, which go on for ever; with two calls it has 750 000 states. They are enough
for a message of each user with the poll, the events and the mark of the first load
in between, and for a message that is gone when that mark arrives. Requests and calls are symmetric where a run has
no liveness property (orders of `Earlier` excepted).

In `pages` (about 400 000 states) `MaxFlight = 3` bounds the requests under way
when the user acts, and `MaxInput = 3` what he and others do; what follows of
itself (effects, answers, failures, repeated requests) is not counted, nor are
keys and links in `SignInPages`, where the state is finite anyway. Two requests
that cross are the shortest of these hazards, and a third one is what a second
hazard on top of the first needs. Of queries, filters, pictures and other values
there are two, the one asked for and the one before, and one that is refused
where there is such a thing. `LastPage = 3` lets a continuation follow another
and reach the end; `CacheMax = 2` is the least cache that can evict something
else than the answer just kept; two orders are what it takes for one to enable
the buttons of the other; `MaxImages = 2` makes an upload too large,
`MaxListings = 2` makes a second listing possible and a third refused,
`MaxRetries = 1` repeats a request once and lets the first be handled beside it,
`MaxStock = 2` sells out in two steps,
`MaxLoginAttempts = 2` holds off the third attempt. Of the three texts one is sent
as it is, one is changed by sanitizing and is another name of the city, and one is
refused unless it is sanitized first (`PlainTexts`, `CityNames`); `Registered` has a
profile of each kind, so that a save meets a name, a phone number and a city it will
rewrite although nobody touched them.

Deadlock is checked in every run but `pages`. Where a run ends because all its
requests have been answered, `Quiet` is a step that says so; it is enabled in no
other state. In `pages` a page may come to rest, with nothing under way and the
user done.

Fairness is assumed in four runs, each time the least the code gives.

- `answered`: handlers that have been started run on, and PostgreSQL looks for
  deadlocks. No client must send anything. `Fail` is not fair: that waits end is
  not owed to failures.
- `tab`: the server handles the calls it gets and answers come back. The
  timeout of axios, the user and expiry are not needed. A request that waits is
  weakly fair in its arrival only.
- `chat_page`: effects follow renders, the interval timer ticks, the server
  answers, and of infinitely many answers not all are lost (strong fairness of
  `PollArrives`, as `FetchFails` may take any of them). Events need not arrive
  at all: what is shown in the end is owed to the poll. That a delivered event
  does not come again for ever is the fairness of its last delivery. The requests of
  the first load end, by an answer or a failure, as axios gives each of them a time;
  that they succeed is not assumed. That the
  calls stop is the bound `MaxCalls`, so `<>[]` says what the page comes to rest
  at after the last change.
- `pages` (`CatalogFairness`): effects follow renders, and each request on its way
  is answered or fails, by axios's timeout if by nothing else. The user, the
  server and the order of answers are free.

## 4. What the code does not keep

Three runs end in a violation of what the repository itself says.

- `overlap_stock`. `Cancel` and `UpdateStatus` check a status read before the
  transaction, and nothing checks it at the commit. In the run's trace a pending
  order is set to paid and to cancelled at the same time: the cancellation gives the
  unit back and commits, then the other update commits its older copy over it, and
  the order is paid while its unit can be sold once more. (Two cancellations that
  both find the order pending are another way: its units come back twice.) This is why `StockConserved`,
  `StatusMachine`, `ChargedIffCompleted` and `ImplementsInventoryOnce` are
  checked with clients that do not overlap on one order. `ReservationCovered`,
  `FeeAtMostOnce` and `ImplementsInventory` need no such assumption.
- `overlap_counters`. `PendingOrders += 1` is computed on a copy: two orders of
  one seller at once count as one. Hence `Isolation = "seller"` in `queue`.
- `late_refresh`. A refresh under way when the user signs out stores its tokens
  afterwards, and the next load of the page is signed in.

Weaker than one would like, and stated so rather than as findings:
`LogoutEndsOrOvertaken` allows a logout to be overtaken by a refresh of the same
token; `InboxFollowsNewest` and `ReadSticks` are about calls that do not
overlap; `NewestShown` and `ReceiptsSettle` do not say that the page comes to
show all the messages, because an event lost about a message that is not the
last is not made up for (`Skips`). Other exceptions the properties name:

- The page of a chat whose first load fails, or the mark that load awaits, shows the
  card of an error until it is left, although the chat is there and the polls go on
  behind the card (and mark what they bring as read). `NewestShown` excepts it.
- The page of an order offers a pending order's cancellation to its seller, whom the
  list of sales leads there, and `Cancel` forbids it to everyone but the buyer.
  `RefusedOnlyWhenStale` excepts it (`SellersCancel`).
- A listing may be made by a request the interceptor has given up and repeated;
  `OneListingPerForm` has it among its reasons.
- A save of the profile sends all of the form: a name or phone number nobody touched
  is written back sanitized, and a city by the name it is listed under.
  `SavesWhatWasGiven` allows these two and nothing else; `"rewritten"` in
  `ProfileExplained` says when the page then shows something else than the server
  has. What normalizeCityValue does to an Arabic name is worse than that in a
  browser: `fixMojibake` cuts each character to a byte, so the Arabic name of
  Damascus becomes `/E4B`, which is no name of a city, where
  `src/Frontend/web/src/__tests__/constants.test.ts:24` expects `damascus`. Texts have
  no characters here, so no run shows it; for `NormalCity` it is one more function.

## 5. What is proved

`OrdersProofs`, `RefreshTokensProofs`, `BrowserProofs`, `ChatProofs`,
`ChatPageProofs`, and for the other pages `CatalogProofs` (what all of them need;
catalog, search, hearts), `SellProofs` (the form of a listing, the desk) and
`AccountProofs` (passwords, orders, profile, and the tab as a whole) hold the
proofs; TLAPS checks them to the last leaf. Every safety property and every action
property a passing run checks is the statement of a theorem. They assume
only what the modules' `ASSUME`s say of the constants: types; that `Null` is no
listing, seller, call, form or text; that finitely many orders were there before, a
chat gets finitely many calls, and a user has finitely many pictures; that one of
the tabs of the orders shows all of them; that some order was completed, as a sale
was reviewed before the profile is opened; that the cities to choose from are texts,
and that sanitizing, or naming a city, leaves a blank blank. They hold for any number of requests,
listings, sellers, calls, messages, and values of every other kind.

*Orders.* The inductive invariant is `Inv`. `ReservationCovered` alone is not
inductive: that a reserved unit is still there at the commit rests on the row
being locked meanwhile (`RowsLockedOnce`), on `held` being exactly the listings
of the order when the request reaches its commit (`Phase`), and on what the
request remembers of the order (`Remembers`). One lemma per action shows that it
keeps `Inv` (`StartCreateInv` ... `CommitChangeInv`), `NextInv` puts them
together. From `Inv` follow `TypeCorrect`, `NoOversell`, and `KeepsPromise`, the
refinement of `Inventory`: a commit of `Create` is a `Claim`, one that cancels a
`Return`, one that overwrites a cancellation a `Revive`, all else stutters.
`ChargedAtMostOnce` is inductive by itself. With `Isolation # "none"` a second
invariant, `SeenIsCurrent`, says that the status a handler has read is still
that of the row (`SeenStaysCurrent`); `StatusFollowsMachine` and `ReturnsOnce`
follow from it, and, as no handler then finds a fee for an order it is about to
complete (`NoFeeFound`), `ChargedWhenCompleted`. With `Isolation = "seller"`,
`CountersStayExact`: the copy of the seller's row in a handler's hands is the row
(`CopyIsCurrent`), so the row it writes back moves each counter as far as the
order it writes moves the set that is counted (`CreateCounts`, `ChangeCounts`),
which is finite as each step places one order at most (`PlacedFinite`).
`UnitsConserved` (`StockConserved`, of every step, with `Isolation # "none"`) counts units instead of adding quantities: `Taken` names each unit by its order and
a number, so that an order adds as many as it is for (`OneOrderMore`). A commit of
`Create` moves its units from `stock` to `Taken` (`CreateKeepsUnits`), which is why
`ReservationCovered` is needed: stock goes down by all of them, never to a floor.
One that cancels moves them back (`ChangeKeepsUnits`), which is where
`SeenIsCurrent` is needed: the order it cancels stood until then.

*Sessions.* `Inv` of `RefreshTokens` adds to `OneActive` and
`LogoutEndsOrOvertaken` that a session's first token is in the table (`Rooted`),
that a token revoked without a replacement was the last of its session
(`LastRevoked`), and what the place of a call says (`Phase`). From it
`NeverForks`, `LogoutEnds` and `KeepsLine`, the refinement of `SessionLine`.

*The tab.* `UsedTokensExplained` ([]`StoredTokenExplained`) is about two parties:
the token in localStorage and the table behind it. A used token was presented by
the call it points at (`UsedBy`), and as long as it is stored that call's answer
has not arrived (`StoredIsUnanswered`). What keeps this is that the token a request
waits for is waited for by that request alone (`ViaDiffers`), and until its answer
arrives has neither been stored nor presented (`Unseen`): a token replaced never
comes back. `BrowserInv` puts these together. `CallsAreServed` says that what the
tab does to the server is a behaviour of `RefreshTokens`, so that its invariant
needs no second proof: `BrowserProofs` instantiates `RefreshTokensProofs` with the
tab's variables (`SameInv`, `SameNext`), and `TabNeverForks` is `OneActive` with all
the refreshes one page starts at once.

*Chat.* Every property of the run `chat_server` is a theorem too. `Inv` of `Chat`
says what a call is about, by where it is (`Phase`): the message of an edit or a
removal was sent by its caller. That needs senders never to change, and this
needs a time on the clock to go to one call only (`OneSender`, from the number
of calls that have begun to send). A step either moves one call and leaves the
messages alone (`MoveInv`) or writes messages and leaves alone what the calls
know (`WriteInv`). From `Inv` follows `KeepsLog`, the refinement of `ChatLog`:
an insert is `Add`, the write of an edit `Rewrite`, a removal `Delete`, a mark
`Mark`, an event sent or given up `Forget`, all else stutters. `OneAtATime` adds
that a call by itself writes what it has read (`ReadStays`), and `InboxInSteps`
what `last_message_at` is half-way through a send or a delete (`InboxOrdered`).

*The chat page.* `ShownOnce` ([]`NoDuplicates`) and `PageTyped` are for any number of
messages and calls. That the list shows no message twice is kept by every handler
that changes it, but not by the answer of a fetch, which replaces it: `PageInv` adds
that the rows of each fetch on its way show none twice, from the moment they are
served. Sorting and deleting are the harder part. `ChatPage` defines both by ranks:
the k-th row of the sorted list is the one that k rows are not after (`Upto`), the
k-th row that is left the one of the k-th place that is kept (`Nth`). `RankFacts`
says that in a finite total order each rank belongs to one element, and by it
`ByTimeFacts`, `WithoutFacts` and `ServedFacts` say that nothing is doubled and
nothing is added.

*Pages.* What is under way is a sequence from which answers are taken anywhere:
`CatalogProofs` begins with what is left (`RemoveAtFacts`), and that whatever is under way
after a step and is not new was so before, each request at a place of its own
(`CarriedOver`; `SendCarries`, `ReturnCarries`, `LandCarries`). Where what is missing
matters too, `Exchanged` says both: the requests after a step are those before it,
but for the places that go and the requests that come (`SentExchange`,
`ReturnedExchange`, `LandedExchange`), and `Left` is the set they make.

- `PagesDiffer` ([]`NoPageTwice`): the invariant `CatalogInv` says that the numbers
  of the pages shown rise, that there is one continuation at most
  (`OneContinuation`), and that it asks for a number above all those shown
  (`AsksAhead`), when it is sent and after each load that has replaced the list
  since.
- `ShowsLastSearch` ([]`LastSearchShown`): what is under way is what was asked for
  last (`AsksLast`), as each new request aborts the one before; `overtaken`
  records the one way around it.
- `FormShowsWanted` and `OneListing` ([]`ImagesAsWanted`, []`OneListingPerForm`):
  as long as uploads have not overlapped, there is one at most and the images of
  its call are those of the form (`ImagesInv`); as long as there was no reason for
  another listing, the requests of the form are one chain, the form waits for it
  or has been left, and the place in the chain tells how many listings there are
  (`FormInv`). A request given up is in no chain (`GivenUpFacts`), is there
  with or without its repetition (`AgainInPlace`), and makes no listing without
  leaving its reason (`LateInv`). `UploadFits` carries the limit on images through
  the merge.
- `ListingStaysExplained` and `BoostsStayPaid` ([]`ListingExplained`,
  []`BoostMatchesPayment`): the page edits one thing at a time and its form shows
  the PUT under way carries its form (`DeskForm`); stock and units sold make up what
  was put up, in the row, in an answer on its way, and in a form nobody has touched
  (`DeskStock`); the images are there, or a PUT has them out, and the cleanup does
  not decide to delete a file in use (`DeskImages`); a deletion lasts
  (`DeskDeleted`); an active boost was paid for and is on the row, and the row, like
  each copy of it a PUT has made, is boosted by an active boost only (`DeskBoosts`).
  Each holds but for the crossing recorded against it, which the invariant names.
- `HeartsStayExplained` ([]`HeartExplained`): a heart shows what the server will
  keep once the click on its way has been served (`OnListing`, with `Wished`; on a
  card `OnCards`). In a list of favourites whatever is shown and not kept, or kept
  and not shown, is still going to be removed (`OnLists`, with `WillDrop` and
  `Dropping`): that is what is right of the two removals by card and list. One
  click of a heart is under way, as it disables its button (`Pressed`).
- `StatusStaysExplained` and `OffersAreAllowed` ([]`StatusExplained`,
  `RefusedOnlyWhenStale`): a row is right, or an update of it has been done and is
  not yet answered; a load carries right rows (`Sound`). For that an update has to
  be under way alone unless it is recorded as overlapped (`Alone`), and on the page
  of one order it always is (`OneAtATime`). What was asked for was among what the
  page offers for the status it showed (`Offered`), and for each status the
  server allows all of it to the one who looks (`OfferedIsAllowed`), but for the
  seller's cancellation.
- `ProfileStaysExplained` and `SavesStayMeant` ([]`ProfileExplained`,
  `SavesWhatWasGiven`): one load or one save is under way (`OneSave`, `Held`), it
  carries the profile as the server keeps it (`Carried`), the store has it or is
  about to get it (`Known`), a closed form shows it (`Closed`), and each field of
  the form, and of the one being saved, was entered or is the server's, the city by
  its listed name (`Entered`, with `Meant` and `ShownAs`), so that what is sent of it
  is what the property allows (`SentAndShown`, `ShownIsMeant`). Beside them the count of reviews is that of a finite set unless
  something wrote an old one back (`Counted`).
- `KeysLetIn` ([]`SignInExplained`): the password in force is what is kept of the
  keys it was set with, on the page they were keyed in (`KeptIsSet`), and so is the
  text of the field and of the one request there can be (`Keyed`). A refusal then
  has one of its reasons, and keeps it, as no password is set while a sign-in is
  under way (`RefusalExplained`).

Typing is proved along with each (`CatalogTyped`, `SearchTyped`, `SellTyped`,
`DeskTyped`, `ListingTyped`, `OrderPagesTyped`, `SignInTyped`, `ProfileTyped`). These
theorems are of the components' own specifications (`CatalogSpec`, ...).

*The tab of all pages.* `MCPages` starts on any page and takes any component's step.
`TabIsOneComponent`: each behaviour of it is one of the component of its first page,
as each step is guarded by its page (`CatalogPlace` ... `ProfilePlace`), no page is
of two components (`PagesApart`), and no link leaves its component, which is part of
what each one's invariant says (`InvPlace`). With it the invariants of the components
give `TabTyped`, `TabKeepsPromises` (the ten invariants of the run `pages`: on a page
of another component they say nothing, `PromiseElsewhere`) and `TabStepsAsPromised`
(its two action properties). `CatalogFairness` is not used.

*Model-checked only.* All liveness (`EveryRequestAnswered`, `EveryRequestSettles`,
`NewestShown`, `ReceiptsSettle`, `CatalogLoadingEnds`), with its fairness and ENABLED,
is beyond the prover. `LogoutSticks` is refuted, as section 4 says, and so are
`StockConserved` and `CountersExact` without the isolation their theorems assume.
What is proved of a page in front of the server is with the events and answers of
`ChatLog`, not with the steps of `Chat`: `KeepsLog` says that the one stands for the
other as far as messages and events go.

## 6. What is not modelled

- *Planned*: opening and archiving of chats, the rate limit of sends under way
  together, unread counts, the list of the chat page that is never repaired,
  orders and messages sent twice by the interceptor (7).
- *Hazards of the modelled parts that are left out*. An order is priced from
  listings read before its transaction. The session of a payment is made at the
  provider before its row is stored. The password is a column of the same row of
  `users` that orders, reviews and the profile write whole, so one of these under
  way while it is changed can bring the old one back; each writer is modelled with
  the columns it is about (`Orders`, `ProfilePages`, `SignInPages`). Two uploads
  of a picture for the profile overlap, and the last answer wins. Helpful votes
  are counted by reading and writing, in a transaction that does not lock.
- *Left out because nothing in it interleaves*: authorization of a single request,
  sanitizing of messages, error pages, addresses, shipping, analytics, the home
  page, the list of chats (a load and a filter), reports and blocks (one
  transaction each), the counters of sponsored ads, the retries of pushes, which
  change nothing else. Validators are modelled where two pages differ in them.
- *Left out because it is not the system that runs*: the Firestore provider and
  its tools, the backend's shopping cart (no controller uses it), in-memory
  branches of repositories that tests use, cart and checkout pages (disabled).
- *External*: PostgreSQL (locks, READ COMMITTED, deadlock detection, unique
  indexes), SignalR (events may be lost, late or doubled), the payment provider,
  axios and React are modelled from how the code uses them.

## 7. The plan

Done: orders, sessions with the browser, chat with its page, the pages of the web
client with the listings, payments, favourites, accounts, profiles and reviews
behind them. In order:

1. `Chat`: opening and archiving, the mark without a message, the rate limit
   under overlapping sends; a run for the list that is never repaired.
2. The row of a user with all its writers at once (orders, reviews, slots,
   profile, password), in the place of `queue` and with what `ProfilePages` says
   of it.
3. The attempts counted per method and URL in `lib/api.ts`, over `Orders` and
   `Chat` as `SellPage` has them over listings.
4. Cart arithmetic of `cartStore.ts` as operators against a reference.

Proofs: of the safety properties none is left. The next ones come with the parts of
the model above: the mark without a message, and a user's row with all its writers,
for which `CountersStayExact` is the pattern (a copy in hand is the row, as long as
its writers do not overlap).
