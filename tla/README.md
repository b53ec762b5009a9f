# A TLA+ model of the livestock trading backend

The backend is a FastAPI service over PostgreSQL and Redis.  An abattoir's order
book is uploaded, priced against the *Everhealth* reference data, reviewed, and
turned into a species-level price, the DNBP ("do not buy past"), which a buyer at
the ring works from on a phone.  This project models the system's own logic: what
each request does to the tables, in which order, and what that means for the
prices a buyer acts on.

| module | what it is |
|---|---|
| `OrderBook` | the order book, and the pricing engine as the desk sees it; pure definitions |
| `PriceBoard` | abstract specification: what the desk promises the buyer, no tables |
| `TradingDesk` | the desk's requests over the tables, one request at a time |
| `DeskRaces` | the same requests taken apart into their statements, several in flight |
| `BidCheck` | scoring a bid and counting progress; pure definitions |
| `BuyerSync` | purchases written on a phone, flushed, corrected and deleted while prices change |
| `Accounts` | users, invitations, roles, and the refresh tokens of their sessions |
| `Delivery` | publication, fan-out, push, WebSocket, poll, rate limiter, acknowledgement |
| `Engine` | the pricing engine's formulas, issue rules and impact preview; pure definitions |
| `ReferenceVersions` | versions of the reference data: clone, preview, activate, calculate |
| `Layout` | where in a workbook the orders are; pure definitions |
| `Ingestion` | uploads, previews in Redis, commits, removals and drift |
| `Figures` | dashboard, scorecard, reconciliation and market figures; pure definitions |
| `BackOffice` | `Ingestion`, purchases, fills and market observations, and the figures over them |
| `OrderBook_proofs`, `TradingDesk_proofs`, `DeskRaces_proofs`, `BuyerSync_proofs`, `Accounts_proofs`, `Delivery_proofs`, `ReferenceVersions_proofs`, `BackOffice_proofs` | theorems, checked by TLAPS |
| `MCTradingDesk`, `MCDeskRaces`, `MCBuyerSync`, `MCAccounts`, `MCDelivery`, `MCReferenceVersions`, `MCBackOffice` | small instances for TLC |

## The system

Every HTTP request runs in one database session and one transaction at
PostgreSQL's default isolation, READ COMMITTED (`core/db.py`); the API layer
commits at the end of the handler.  No code takes a row lock, so two requests
interleave at every `await`.  Redis holds upload previews, rate-limit counters,
WebSocket tickets and the pub/sub channels of the WebSocket relay; it is not in
the transaction.

| component | state | operations | hard behaviour | what makes it correct |
|---|---|---|---|---|
| Desk pipeline (`calculate_service`, `publication_service`, `buy_instruction_service`) | `order_workings`, `validation_issues`, `order_issue_acknowledgments`, `dnbp_publications`, `buy_instructions` | calculate, acknowledge an issue, publish, draft / approve / publish / acknowledge / close an instruction, fills | version changes between the steps, republication, concurrent publishes and calculations | one live publication; its prices are one run of the engine over one submission; nothing unreviewed is published; statuses agree with the publications |
| Pricing engine (`domain/engine`) | none | workings, DNBP, issues, outliers | an unpriced line must never disappear silently | an active line without a price raises a BLOCK |
| Correction requests | `correction_requests` | raise, withdraw, automatic resolution on calculation | resolution races withdrawal; snapshots calculated out of order | a request is resolved once, by a later submission that supplies the value |
| Ingestion | `snapshots`, `order_lines`, Redis preview, removals, drift | preview, commit, review of removals and drift | a preview committed twice, or lost between Redis and the database | a preview becomes one snapshot, and what disappeared from the book is on record |
| Reference data | `everhealth_reference_data` | clone and edit, preview impact, activate | two activations at once, stale previews | exactly one active version per organisation |
| Buyer entries | `buy_entries`, `dnbp_publications` | offline sync, bulk flush, patch, delete, progress | duplicated and reordered flushes, entries scored after the price moved | an entry is stored once and scored once, against the price in force when it was written |
| Delivery | `publication_deliveries`, `push_subscriptions`, Redis pub/sub | fan-out, push, acknowledge, escalate | crash after commit, lost messages, concurrent first acknowledgements | the buyer is alerted or an escalation shows that he was not |
| Accounts and sessions | `users`, `refresh_tokens`, invitations | invite, accept, MFA, roles, deactivate, login, rotate, logout | concurrent demotions, a refresh token presented twice | an organisation keeps an owner; one live token per family |
| WebSocket tickets, rate limits | Redis | issue and redeem a ticket; count a window | step-wise Redis commands | a ticket opens one socket; a window ends |
| Workbook parsing | none | find sheets, headings, markers, rows | nothing has a fixed place | every order of a well kept workbook is read, once, in its lifecycle |
| Analytics, scorecard, market observations, export | `market_observations` | queries; sync, patch and delete an observation | the same figure is computed in several places | the figures agree |
| Audit log | `audit_logs` | written with every action | none | not modelled |

The components meet in three places.  *Ingestion* hands the desk immutable
snapshots.  *Reference data* is read by every calculation and can change between
any two.  A *publication* is what the desk hands to the buyer: delivery announces
it, buyer entries are scored against it, and correction requests flow back.

## The model of the desk

`OrderBook` fixes what the services know about an order line.  An *order* is the
identity lines of different submissions are matched by; a *content* is everything
the calculation reads of a line; two contents may have one *fingerprint*, because
`line_content_fingerprint` hashes the business columns only.  The engine is a pair
of functions of a content and a version of the reference data: `Quote`
(`bing_dnbp`, or `None`) and `Raises` (the issue codes).  One thing is assumed of
it, `UnpricedIsBlocked`: an active line without a price has a BLOCK among its
issues.  `Engine` has the real formulas and rules, and `ReferenceVersions_proofs` proves the
assumption of them.

`TradingDesk` has one variable per table (rows are numbered in order of creation)
and one action per request that changes one:

| action | request | code |
|---|---|---|
| `CommitSnapshot` | `POST /snapshots` | `ingestion_service.commit_snapshot` |
| `ActivateRef` | activation of a version | `reference_data_service.activate_version` |
| `Calculate` | `POST /snapshots/{id}/calculate` | `calculate_service.calculate_snapshot`, with the carry-forward of acknowledgements and the automatic resolution of correction requests |
| `AcknowledgeIssue` | acknowledge an issue | `api/v1/snapshots.py`, `issue_acknowledgment_service` |
| `RaiseRequest`, `WithdrawRequest` | correction requests | `correction_service` |
| `PublishDirectly` | `POST /publications` | `publication_service.publish` |
| `GenerateInstruction` ... `ReconcileClose` | `/buy-instructions` | `buy_instruction_service` |

`PublishSnapshot` is `publication_service.publish`, shared by the two requests
that call it.  Prices are integers.  Two variables are history: `reviews` holds
every acknowledgement a person has made (the table keeps the last one per order
and code), and a publication row records the instruction it was made for.  The
order of creation stands for the time stamps `get_current_for_org` sorts by, which
is exact as long as requests do not overlap; what happens when they do is the
subject of `DeskRaces`.  DNBP_OUTLIER compares a price with a 30-day
average; the dates are left out, so the model lets it be raised for any set of
the orders that are more than 15% off *some* past price of their species, a
superset of what an average allows.

`PriceBoard` says the same without tables: there is one board; prices go up
whole, computed from one workbook under one version, when everything raised about
that workbook was reviewed by a person for that order against that content; and
the last alert shows what is on the board.  `KeepsPriceBoard` is the refinement:
`board` is the live publication's prices, `alerted` those of the last publication
with `notified`.

### Overlapping requests

`DeskRaces` keeps the tables of `TradingDesk` and gives each request in flight a
record of what it has read so far (`request[w]`); one action is one database
statement, or several between which nobody else's commit can make a difference.
What a request writes becomes visible in its last action, the commit.

| request | steps | what is read when |
|---|---|---|
| calculate | `BeginCalculate`, `LoadFirstWorking`, `ComputeLines`, `CommitCalculate` | the active version; the workings of the first line; every line's acknowledgements and price history, once the first row is locked |
| acknowledge | `BeginAcknowledge`, `CommitAcknowledge` | the issue row, which a calculation may replace meanwhile |
| publish | `BeginPublish`, `PassGate`, `ReadPrices`, `ReadCurrent`, `CommitPublish` | the instruction; the issues; the workings; the live publication |
| confirm, close, add or remove a fill | `BeginInstruction`, `CommitInstruction` | the status, written back or relied on at the end |

`Abort` ends any request at any statement without a trace: a refusal, an error, a
deadlock broken by the database, or the death of the process.

Two facts of the ORM matter.  A row loaded once is not read again, and an UPDATE
names only the columns that differ from what was loaded (`Merged`): when two
calculations of one snapshot overlap, the second writes the first line's row
against the values it loaded before the first committed, and price and version of
that row can come from different runs.  Only the *first* line can be stale,
because its UPDATE waits for the other calculation to end and every later line is
loaded after it.

`published_at` is the database's `now()`, the moment a transaction began
(`begun`), not the moment it committed, so with overlapping publishes the
"current" publication need not be the one committed last.

`snapshot.status`, the correction requests, drafting and approval are left out
here: no price depends on how they interleave.  Instructions are drafted and
approved from the start.

## The other models

### Purchases: `BidCheck`, `BuyerSync`

A buyer's phone writes a purchase down with a `client_uuid` and keeps it in a
queue until the server confirms it.  The phone is not in this repository; it is
modelled from what the endpoints say it does.  Answers get lost, the process
dies, items are sent again, singly and in batches.

| action | code |
|---|---|
| `BeginPublish`, `CommitPublish` | what `buy_entry_service` sees of a publication: `published_at` is the beginning, visibility the end |
| `WriteDown` | the phone: verdict against the ceiling on the screen, in whole cents |
| `Flush` | a request arrives, with one item or several |
| `Look`, `Insert`, `BreakDeadlock`, `Commit`, `Answer`, `Die` | `create_or_sync_entry`, `bulk_sync`: look for the `client_uuid`, find the publication in force when it was written, insert; a unique index makes the second of two inserts wait and then fail the whole request |
| `BeginCorrect`, `CommitCorrect`, `Delete` | `patch_entry`, `delete_entry` |

`torn` is history: two corrections of one row that overlapped can leave a breach
flag that fits neither, because the ORM writes only the columns that changed.
Two batches that list their items in different orders can deadlock and abort each
other for ever.

`PassedOnThePhoneIsNoBreach` holds because the phone rounds the ceiling *down*
before it compares and the server does not round; `BuyerSync_proofs` proves this
for all numbers.  `FrozenAsWritten` speaks of the publications committed when the
entry was scored.  The price frozen is not always the one that was on the screen:
`repositories/publications.py:52-56` picks by `published_at`, and a phone that has
not polled since then shows an older price.

What was bought towards a target is counted by dates of two calendars.
`compute_species_progress` takes the date of the anchor in UTC
(`buying_progress_service.py:72`) and compares it with `trade_date`, the local date on
the buyer's phone (`repositories/analytics.py:59`); in the model a day is `DayLength`
instants and the buyers' clocks are `Ahead` (`UtcDate`, `TradeDate`).  Before ten
or eleven in the morning in Melbourne the UTC date is still that of the day before, so
a new target published then counts the whole local day before towards itself, and always
what was bought earlier the same day, although `find_progress_anchor` says progress
"starts counting from right now" (`domain/buyer/buying_progress.py:49-50`).
`TargetsCountFromTheirStart` says what does hold: everything bought since the
publication that began the target counts, and nothing from before the local day
before it.  A species may be left out of publications in between: the history is
that of its own lines, so that dropping out neither restarts the count nor ends it.

### Users and sessions: `Accounts`

Invitation, acceptance, login, refresh, logout, MFA enrolment, role changes,
deactivation and reactivation.  Requests that read, decide and write later are two
actions.  A browser holds one refresh token per user in a cookie jar its tabs
share.  The UPDATE that revokes all tokens of a user sees the rows there were when
it was executed, so `CommitDeactivate(r, upto)` may take effect on any prefix of
the tokens issued up to the commit (`crossed` marks the ones it missed).  Expiry
is a refusal that may come at any time.

`LoggedOutForACause` excuses a user whose refreshes overlapped, and a new login ends
the excuse only if no refresh of that user is under way any more (`Refreshing`): a
refresh that began before the login may still answer after it and put the cookie of
the old, by then revoked, family back.  It takes three requests of one user to show,
one more than the instance for TLC has in flight.

What the model shows besides the properties:

* Two requests that remove an owner each, at once, leave none: the guard reads
  and writes without a lock.  `OwnerRemains` excuses exactly those (`raced`).
* A user who is deactivated before accepting the invitation and then reactivated
  is ACTIVE without a password, although `models/user.py:13-14` says one becomes
  active only by completing the invitation (`revived`).
* Someone promoted to a privileged role after accepting has no MFA secret and no
  way to get one, and with enforcement on can no longer log in (`promoted`).

### Reaching the buyer: `Delivery`

A publish request commits and *then* fans out, in the same process and from
memory.  The process may stop at any step (`Stop`); nobody resumes.  Pushes fail
or find an endpoint gone, sockets break, events are lost, answers to polls get
lost, and the process may stop between the two commands of the rate limiter.  A
phone's app is open (it polls for ever) or closed (only push reaches it).

`AlertsKeepUp` compares what each phone really rang for last (`heard`) with the live
price, and not the flag `buyer_notified`, which is set before the commit and stays
set when nobody was alerted.  A phone that last rang for another price must have an
excuse (`Excused`) in a publication with a *new* price since: its turn in the fan-out
has not come, which includes that the process stopped before it; it had no working
subscription at the commit; its endpoint lapsed or the push service failed; or the
alert of an older publication came in after it.  A silent publication is no
excuse: one that is the first with its price violates the property, and so does a fan-out that
leaves out a phone it could reach.

Observations:

* A crash between commit and fan-out loses the alerts for good, and publishing the
  same prices again is silent, so no later publication of them rings either; only
  the poll repairs that (`todo` keeps who was left out).
* Two fan-outs at once may reach a phone in either order, and the alert that comes
  last need not be about the live price, even where the requests did not overlap
  before their commits.
* `publication_deliveries` has no unique constraint on publication and buyer,
  though `models/dnbp_publication.py:101` says one row per pair; two first
  acknowledgements make two rows and every later lookup fails.
* A crash between INCR and EXPIRE leaves a counter that never expires: the buyer
  is locked out for ever (`stopped`).
* Rows that serving a GET creates (deliveries, escalations) are rolled back with
  the session, as are those `publish` creates after its last commit.

### The engine and its configuration: `Engine`, `ReferenceVersions`

`Engine` has every formula of `domain/engine` and every issue rule, over whole
numbers: factors are in parts of `Unit`, and profits are kept per animal of
standard weight instead of per kilogram, so that nothing is divided.

`ReferenceVersions` has the life of a version (`Create`, `Preview`,
`BeginActivate`, `ReadPrevious`, `CommitActivate`, `Fail`) and calculation
under the active one (`BeginCalculate`, `CommitCalculate`).  Observations:

* Overlapping activations leave two active versions, after which every read
  fails, or none (`raced`); `models/reference_data.py` says exactly one.  Where none
  is left, the next activation that nobody disturbs sets it right, and the property
  asks for that.
* Nothing keeps an admin from sending the CIF buffer with a species for its `key1`:
  the version then has two buffers (`Buffers`).  `get_active_everhealth_config` and
  `preview_impact` take the last row of a query without ORDER BY, so the model lets
  any of them be the one, anew at every reading; preview and calculation then agree
  only about versions with one buffer (`OneBuffer`).
* The 30-day average a price is compared with is one per species.
* `models/reference_data.py:28-32` says a preview never goes stale; the version it
  was compared with may no longer be the active one.  And activating a version
  that was cloned before another was activated silently reverts the latter.
* A version created while none is active lacks the CIF buffer: its preview takes
  the active one's, calculation under it is refused.
* The preview prices lines with a price of zero or less, which calculation blocks;
  `ImpactIsWhatHappens` leaves out exactly those.
* The codes `UNKNOWN_SPECIES`, `LARGE_BENCHMARK_GAP` and `WEIGHT_OUTLIER` are
  declared and never raised.

### Submissions and figures: `Layout`, `Ingestion`, `Figures`, `BackOffice`

`Layout` is `detect_layout` as operators: titles, the best heading in a window,
the marker, scores, the loaded section on the same sheet or another.  A row is
reduced to what these look at.  `ReadsEveryOrder` compares it with what a reader
would call the orders of the sheet, over *all* small workbooks in the run and over all
workbooks in `EveryOrderIsRead`; its precondition is what the algorithm needs:

* a heading of the loaded orders with *more* columns than that of the active ones,
  in reach of the search, is taken for the active heading, the active orders are
  dropped and the loaded ones read as active;
* a second sheet with both titles is read as loaded orders down to its last row;
* a heading that does not name the contract column yields no lines.

The module docstring (`layout.py:15-17`) ranks sheets by columns first; the code
(`_score`) ranks by rows first and says why.  The model follows the code.

`Ingestion` has the upload, the preview in Redis and its expiry, and the commit in
its steps: `BeginCommit` reads Redis, `ReadPrevious` the latest snapshot and
stores the file, `DeletePreview` deletes from Redis *before* `CommitSnapshot`
commits; `Stop` may come between any two.  Observations:

* A stop between the deletion and the commit loses the upload (`cut`); object
  storage keeps the file.
* Two requests for one preview can both find it and make two snapshots; two
  commits at once compare with the same previous snapshot.
* An incoterm nobody knows is dropped on storing but is part of the identity of
  the next upload's lines: the line looks new each time and its twin is recorded
  as removed (`models/order_line_removal.py:15-16` says it disappeared).
* Amounts with more than ten decimals are rounded on storing and show as changed.
* "Latest" is by `created_at`, which is when the transaction began.

`BackOffice` puts purchases, fills of instructions and market observations beside
it and states that figures computed in different places agree:

* `PurchasesAgree`: what the owner sees of a buyer is what the buyer's scorecard says;
  the reconciliation of an instruction of this week, which has a query and a week of
  its own (`ListEntriesInWindow`, `TradingWeek`), counts the heads, kilograms and money
  the scorecards and the fulfilment of this week count, at the same saleyards;
* `BookAgrees`: the heads the order book takes off its requirements are those on the
  scorecards, if these go back far enough;
* `FillsAgree`: balances and fills make up what was ordered, and an export has no fills
  of an instruction that is a draft;
* `MarketAgrees`: implied prices are those of their rows, and the market summary is
  what prices and weights give.

Most of `BookAgrees` and `FillsAgree` is arithmetic over one set of rows.  What can go
wrong is that queries disagree about deletions, weeks and days, and that a derived
column is left behind.  A PATCH of an observation is two actions: `BeginPatch` loads the
row, `CommitPatch` computes the implied price from what was loaded and writes the
columns that differ from it (`MergedRow`), whatever was committed in between.  When the
price is corrected while the weight is, the row keeps an implied price of
neither; `crossed` names the rows whose price or weight was corrected last by a PATCH
that had loaded other figures than the row's, and the next PATCH of either by itself
mends it.  Crossed or not, an observation nobody weighed has no implied price.

What the figures mean is not always what a reader expects: the order book sets
purchases of *all* time against the requirements of the current book; the week behind
the days of cover is from seven days ago up to today, both included, which is eight
days divided by seven; without a snapshot the panel is empty whatever was bought;
fulfilment counts DRAFT instructions.

## What is checked

Run `tlc -workers 2 -config <cfg> <module>`; no run replaces a definition.

| run | shows | size |
|---|---|---|
| `TradingDesk.cfg` | the type invariant, five safety invariants and the refinement of `PriceBoard` | under a minute |
| `DeskRaces.cfg` | the type invariant and five safety invariants of three overlapping requests | about a minute |
| `NeedsApproval.cfg` | a violation: a publication no instruction was approved for | seconds |
| `ApprovedPrices.cfg` | a violation: an approved instruction is published at prices nobody approved | seconds |
| `LaterSubmission.cfg` | a violation: a correction request is resolved by an *earlier* submission | seconds |
| `GateRace.cfg` | a violation: an unreviewed warning is published by a publish that overlaps a calculation | seconds |
| `BuyerSync.cfg` | no purchase is lost, stored again or scored again; each is frozen to the publication in force when it was written; flags are right; what counts towards a target was bought since it began, up to a day | 2.0 million states |
| `BuyerSyncLive.cfg` | liveness: every item is confirmed in the end | 175,000 states |
| `Accounts.cfg` | an owner remains; one valid token per family; deactivation ends sessions; who is active has accepted; who must enrol for MFA can; nobody is logged out for nothing | 2.95 million states |
| `Delivery.cfg` | the last alert of a phone has the live price, or there is a reason; a live subscription is never pruned; one delivery row unless acknowledged twice at once; liveness: an open app comes to show the live price | 739,000 states |
| `ReferenceVersions.cfg` | one active version unless activations overlapped; previews come true; a line is priced or blocked | 802,000 states |
| `BackOffice.cfg` | uploads become snapshots, removals and drift explain the book, workbooks are read as meant; the figures agree | 350,000 states |

The violations are places where the code does something its own comments
say never happens:

* `buy_instruction_service.py:162` says a publication comes into existence only
  by publishing an approved instruction; `POST /publications`
  (`api/v1/publications.py:69`) still publishes any snapshot.
* The same docstring says the approval is there so that no buyer acts on prices
  nobody reviewed; `publish` prices the snapshot from its present workings, so a
  recalculation after the approval changes what is published.
* `calculate_service.py:301` says a *later* snapshot resolves a request; line 309
  only excludes the snapshot the request was raised on.
* `publication_service.py:13` describes the gate as full; line 143 reads the issues
  and line 145 the workings, and a calculation that commits in between is
  published unreviewed.

The passing invariants of `DeskRaces` say how far the damage goes.  Two
publications are live only after publishes overlapped (`OnlyOverlapForks`), an
instruction is published twice only by requests that overlapped
(`IssuedTwiceOnlyOverlapping`), the gate fails only if a calculation of that
snapshot commits inside it or two calculations were mixed
(`UndisturbedPublicationsAreCleared`); alerts stay right as long as publications
form a chain (`ChainIsHeard`), and instructions never have fills without a
publication made for them (`FillsFollowPublication`).

Where another property excuses a case (`raced`, `torn`, `crossed`, `forked`,
`revived`, `promoted`, `excused`, `doubled`, `overlapped`, `cut`), the case is a
history variable that names a race, crash or sequence the code does not handle.
The property then says that *nothing else* breaks the promise: it marks the hazard
off, and does not say that the code meets it.

### Bounds

`MCTradingDesk` has two sheep orders and one goat order, two reference data
versions, two workbooks, two snapshots, two publications, one instruction and one
correction request.  The contents are chosen so that each mechanism matters: a
line that only one version can price (BLOCK), a warning that stays when the line
changes (an acknowledgement must not be carried over), a line whose fingerprint
stays while it stops being active, and an order that leaves the book.  Two
snapshots are what recalculation, carry-forward and supersession need; two
publications give every transition a publication and a snapshot can make,
including publishing one snapshot twice.

`MCDeskRaces` has one snapshot of two orders, one instruction and three versions
(one that prices everything, one that raises a warning, one that cannot price the
goats).  Three requests (symmetric) in flight and five transactions in all
(`MaxBegun`) let two publishes overlap a calculation after the workings exist;
`MaxPublications` is three, so that a fork can be continued, and `MaxFills` one.
The proofs below need none of these bounds.

`MCBuyerSync` has two purchases, two overlapping requests (symmetric), three
publications, so that a species can drop out and come back, days of two instants with
the buyers one instant ahead of UTC, so that the calendars differ, and two disturbances (`MaxDisturbances` bounds corrections,
deletions and deaths).  The sheep ceiling of 7.50 is between the corrections'
7 and 8 dollars, and goats are only published the second time, so that an entry
can arrive when nothing can score it yet.  The run about liveness has two
publications, one disturbance, no corrections and no symmetry.

`MCAccounts` has two users, one of them an owner, two requests in flight, three
refresh tokens (a family needs two to rotate; the third is the other tab's, or the
other user's) and three administrative requests.

`MCDelivery` has one buyer: buyers share nothing but the publications.  Two
publications at two prices overlap, repeat a price or change it; two endpoints let
a subscription be renewed; two acknowledgements overlap; `Limit` is one request a
window, so that the limiter is hit.

`MCReferenceVersions` has three versions (the seed and two changes, the second of
which adds another buffer), two requests that activate and one that calculates, six
lines that are hard to price in as many ways, averages of two species, and two
previews (`MaxPreviews`) of versions that are not active.

`MCBackOffice` has two workbooks and one that is refused, three uploads and three
attempts to commit, two of them at once, one review, four purchases, two
instructions, two fills and two observations with two corrections each, of the price
and of the weight.  `MaxActivity` bounds uploads,
attempts and, counted twice, deeds in the office together, because intake and
office touch each other only through the latest snapshot.  The scan limits of
`Layout` are 2, 5 and 2 rows for 6, 20 and 5, and one column makes a heading
instead of six, on sheets of at most five rows and pairs of sheets of three.

Runs say `CHECK_DEADLOCK FALSE` because their systems may stop: people stop
asking, tables of the instance are full.  A deadlock between transactions is not a
TLC deadlock; the database breaks it (`BreakDeadlock`, `Abort`).

### Fairness

Requests come from people, and most specifications assume nothing.  Two liveness
properties need more.

* `BuyerSyncLive`: a request that is being served comes to an end (weak fairness
  of each server step), and a phone with an unconfirmed item sends that item *by
  itself* again and again (strong fairness of `Flush(r, {u})`, because the request
  slot may be taken in between).  Fairness of flushing alone would not do: two
  batches can abort each other for ever.  Nobody has to publish, write or correct.
* `Delivery`: an open app polls for ever (weak fairness of the two commands of the
  limiter, of the read and of the end of a window; Redis ends a window by
  itself), and not every answer is lost (strong fairness of `Receive`).  Nothing is
  asked of the fan-out, the push service or the socket: the poll alone suffices.

## What is proved

### One request at a time

`tlapm TradingDesk_proofs.tla` checks, for every set of orders, every engine that
satisfies the assumptions of `OrderBook` and every bound of the tables:

| theorem | statement |
|---|---|
| `TypesHold` | `Spec => []TypeOK` |
| `ChainHolds` | `Spec => []SupersessionIsAChain` |
| `AcknowledgementsHold` | `Spec => []AcknowledgementsAreEarned` |
| `PublishedPricesHold` | `Spec => []PublishedPricesAreOneRun` |
| `SnapshotStatusHolds` | `Spec => []SnapshotStatusTruth` |
| `InstructionsHold` | `Spec => []InstructionsOwnTheirPublication` |
| `DeskKeepsPriceBoard` | `Spec => KeepsPriceBoard` |

All of them follow from one inductive invariant, `IInv`.  The checked invariants
are not inductive by themselves:

* `RowsExist` (with `TypeOK` and the chain it makes up `Typing`) says rows refer
  to rows that exist; without it a step could read a null.
* `WorkingsAreOneRun` is the heart of the argument.  A snapshot's workings are
  either all missing or were written by *one* calculation under one version, and
  every code that run raised still has a row.  So what passes the gate of
  `publish` is one run without a gap (`GatePassesARun`): a line without a price
  would have a BLOCK row, and the gate would have stopped.
* `PublicationsAreRuns` keeps that fact about publications after the snapshot is
  recalculated under another version.
* `AcksAreReviews` says the same of the durable acknowledgements as
  `AcknowledgementsAreEarned` says of the issue rows: each step copies from one
  to the other.
* `BuyerHeard` says the last alert shows the live prices.  A silent publication
  keeps it because it is silent only when the prices are the same.

Preservation is proved by kinds of step (`StepKinds`): quiet ones, a commit, a
calculation, an acknowledgement, and a publication by either request.  For the
refinement, a publication is `Announce`, with the workbook of the snapshot and the
version `GatePassesARun` gives; an acknowledgement is `MakeReview`; every other
step leaves the board alone.

### Overlapping requests

`tlapm DeskRaces_proofs.tla` checks, for any number of requests, transactions,
publications, snapshots and instructions:

| theorem | statement |
|---|---|
| `TypesHold` | `Spec => []TypeOK` |
| `OnlyOverlapsFork` | `Spec => []OnlyOverlapForks` |
| `TwiceOnlyOverlapping` | `Spec => []IssuedTwiceOnlyOverlapping` |
| `FillsHold` | `Spec => []FillsFollowPublication` |
| `UndisturbedAreCleared` | `Spec => []UndisturbedPublicationsAreCleared` |
| `ChainsAreHeard` | `Spec => []ChainIsHeard` |

There are four inductive invariants, each over the typing; `Hearing` also rests on
`Replacing`:

* `Replacing`: what a publication has replaced is superseded, and what a request
  in flight read as live was live among those committed when it read.
* `Issuing`: an instruction in DRAFT has no publication, and a request that found
  it in DRAFT began before the first publication made for it committed.
* `Clearing`: workings that no two calculations mixed are one run of the engine
  whose issues all have rows; an acknowledged row or carried-forward finding goes
  back to a review; what a publish in flight has read is sound as long as no
  calculation committed since (`gated = calculated`).
* `Hearing`: along a chain, the alert of a request in flight compares with the
  publication it will replace.

The assumptions are those of `OrderBook`, `TradingDesk` and `DeskRaces`, all of
which TLC evaluates on the small desks: sorts of the constants,
`UnpricedIsBlocked`, `LeastAssumption` (a set of quotes has a least element: they
are finitely many in the program) and that a null is no row.

### Purchases and scores

`tlapm BuyerSync_proofs.tla` checks, for any number of purchases, requests and
publications:

| theorem | statement |
|---|---|
| `MaxPriceIsExact` | a bid in whole cents is no breach exactly if it is at most the maximum price the calculator shows, for every price, weight, ceiling and number of units in a cent |
| `PhoneIsConservative` | what passes against the ceiling rounded down to cents passes against the exact one, likewise |
| `TypesHold` | `Spec => []TypeOK` |
| `FrozenHolds` | `Spec => []FrozenAsWritten` |
| `ScoresHold` | `Spec => []ScoresAreTrue` |
| `NoneStoredAgain` | `Spec => NeverStoredAgain`, a property of steps |
| `NothingIsLost` | `Spec => []NothingLost` |
| `PassedIsNoBreach` | `Spec => []PassedOnThePhoneIsNoBreach` |
| `CountHolds` | `Spec => []TargetsCountFromTheirStart` |

They rest on inductive invariants that speak of requests in flight:

* `Typing` adds `Referring` (what requests and the queue refer to was written down)
  and `Timing`, an equation between the clock and the number of publications and
  notes.  `TypeOK` alone would not do: that the clock stays within `Instants` is
  true only because every tick is one of finitely many events, so that the bound of
  the model cuts no behaviour off.
* `RowsAreTrue`: a row is frozen and scored rightly wherever it is, looked up by a
  request, inserted but not committed, or stored: the publication is the latest
  published by the time of writing among those committed when it was looked up
  (`FrozenTo`), which later publications leave true.
* `InsertsAreUnique`: what a flush has inserted is inserted by nobody else and not
  yet stored.  This is what the unique index gives, and it turns the commit of an
  inserted row into a first storage, which `NeverStoredAgain` needs.
* `ConfirmedAreStored`: what a flush is going to confirm is stored or among its own
  inserts; after its commit, stored.
* `VerdictsStand`: what the phone let pass was within the exact price of the
  publication on its screen; this is where `PhoneIsConservative` is used.

`CountHolds` needs no more than the typing, and instead follows
`find_progress_anchor` back through a history of any length.  `ProgressAnchor` is a
recursive function, and `AnchorIsStart` says what it returns: where the run of latest
publications with the present target began (`RunExists`: there is such a run).  The
property speaks of publications and not of the history of a species, whose places
are counts of them: `PlacesAreOrdered` and `PlacesAreTaken` say that each place is that
of one publication, and `AnchorIsBeginning` that the anchor is the time of
`TargetBegan`.  `DatesFollow` compares the two calendars: for any length of a day and
any shift of less than a day, the dates differ by one at most.

### Users and sessions

`tlapm Accounts_proofs.tla` checks, for any number of users, requests, tokens and
changes:

| theorem | statement |
|---|---|
| `TypesHold` | `Spec => []TypeOK` |
| `AnOwnerRemains` | `Spec => []OwnerRemains` |
| `OneValidTokenHolds` | `Spec => []OneValidTokenPerFamily` |
| `DeactivationHolds` | `Spec => []DeactivationEndsSessions` |
| `LoggedOutHolds` | `Spec => []LoggedOutForACause` |
| `ActiveHaveAccepted` | `Spec => []ActiveUsersAccepted` |
| `EnrolmentHolds` | `Spec => []EnrolmentIsPossible` |

`Typing` adds `RowsExist`: tokens belong to users that exist, a family to one user, a
cookie to its user.  Four of the properties are not inductive, because a request
writes what it decided earlier:

* `RemovalsAreSafe` (with the property, `Owning`): unless removals overlapped there is
  at most one in flight, the role it read is still the user's, and an owner remains
  after it.
* `LateTokensCrossed` (`Deactivating`): tokens stored for a user since a deactivation
  began are marked as crossed, so that the UPDATE, which sees a prefix of the tokens,
  misses no others.
* `SessionIsSound`: without a cause, a user's cookie is valid, and one refresh at most
  is under way, by this cookie or, after a new login, by a token of another family, so
  that the rotation cannot revoke the cookie.
* `AcceptsKnowTheRole` (`Enrolling`): an acceptance in flight knows a privileged role,
  unless that was given since.

The lemma `TokenSteps` says what any step may do to the tokens (a stored token can
only be revoked, and one at most is added); all the properties of sessions use it.

### Reaching the buyer

`tlapm Delivery_proofs.tla` checks, for any number of buyers, endpoints,
publications and acknowledgements:

| theorem | statement |
|---|---|
| `TypesHold` | `Spec => []TypeOK` |
| `AlertsHold` | `Spec => []AlertsKeepUp` |
| `SubscriptionsHold` | `Spec => []SubscriptionsSurvive` |
| `OneRowHolds` | `Spec => []OneRowUnlessTwice` |

* `Typing` adds `AcksWereSent`: rows and acknowledgements under way never outnumber
  those the phone sent, which is why rows stay within their bound.
* `OnFile`: a working endpoint is on file and in no list of what a fan-out is going to
  prune; a list may be arbitrarily old, and names only endpoints that have stopped
  working since or before.
* `Owing`: who is owed an alert is in the list of a fan-out whose turn for it has not
  come, or never will because the process stopped.
* `Ringing`: who is in such a list is due something new, and what a phone rang for was
  committed, with a new price.
* `KeepingUp`: publish requests begin in order, and unless two overlapped, what the
  last one read is still so (`Alone`), all publications but the last are superseded
  (`LastStands`) and the last one with a new price has the price of the live one
  (`Announced`), so that a phone that rang for another one is owed, missed or was
  passed by that.
* `OneAtATime`: rows and acknowledgements under way of a buyer and a publication are
  one together, unless doubled.

### The engine and versions of the reference data

`tlapm ReferenceVersions_proofs.tla` checks, for every line and configuration:

| theorem | statement |
|---|---|
| `UnpricedIsBlocked` | an active line has no price exactly if one of its issues blocks publication: the assumption of `OrderBook` |
| `LoadedLinesAreLeftAlone` | no pricing rule fires against a loaded line, and none of its issues blocks |
| `OnlyThreeInputs` | only the price, the species and the configuration's buffer and factor for it move the published number |
| `PreviewAgrees` | the preview prices a line that has a sell price, or has none, as calculation does |

and, for every book, set of entries, sequence of changes and number of admins:

| theorem | statement |
|---|---|
| `OneActiveHolds` | `Spec => []OneActiveVersion` |
| `PricedOrBlockedHolds` | `Spec => []PricedOrBlocked` |
| `ImpactHolds` | `Spec => []ImpactIsWhatHappens` |
| `TypesHold` | `Spec => []TypeOK` |

`OneActiveVersion` is not inductive: a commit writes what the request read earlier.
`Activating` adds `ReadsAreFresh`, that what a request in flight has read (whether
its version is active, and which one is) is still so as long as no other activation
was committed since; only then does the flip leave exactly one active version.  The
next two follow from `Calculating`: the entries of a version never change
(`VersionsStay`), so that all workings and issues are what one calculation under one
version and buffer would compute now (`OneRun`), and the theorems about the engine
apply to each line.  `TypesHold` needs both, and that the engine returns numbers or nulls and
finitely many issues whatever columns are missing (`WorkingsAreTyped`,
`IssuesAreFinite`).  Assumptions: the entries are numbers by key and the first version
has a buffer (`EntriesAssumption`), keys are pairs (`KeysAssumption`), and the book
consists of lines (`BookAssumption`).

### Submissions and figures

`tlapm BackOffice_proofs.tla` checks, for every set of workbooks of any size and any
number of uploads, requests and attempts to commit:

| theorem | statement |
|---|---|
| `EveryOrderIsRead` | `ReadsEveryOrder(book)` for every book of rows: a well-kept, unambiguous workbook is read as it is meant |
| `TypesHold` | `Spec => []TypeOK` |
| `NothingIsLost` | `Spec => []NothingDisappears` |
| `FiguresHold` | `Spec => []FiguresAgree` |

`EveryOrderIsRead` follows `detect_layout`: the first heading is the one the search
finds (`HeaderIsTop`, from `~RicherBelow`), what it takes for the marker is the marker
(`MarkerIsMark`), so that a sheet's score counts its orders (`Scored`), the winner has
the most (`WinnerOutscores`), and both sections are read (`ActiveIsRead`,
`LoadedIsRead`).  That one of finitely many sheets outscores all, and that rows can be
put in order, are inductions; they go by the least counterexample, and
`LeastNatural` comes from the well-foundedness of the numbers.

The invariant of the other three is `Inv`, in parts of which only the first and the
last are types:

* `IntakeTyped`, `OfficeTyped`, `MarketTyped`: what each row and request has; of the
  office also that rows are finitely many and that each fill is for a line of an
  instruction that was issued; of the market that a correction under way loaded a row of
  that observation, weighed no later than it is now, and that each observation outside
  `crossed` has the implied price its price and weight make (`CommittedIs`: what a PATCH
  that did not cross writes is, column by column, the corrected row).  That an order is read
  of every row in a section (`RowsHaveOrders`) is proved of all workbooks, ambiguous
  ones included.
* `Numbered`: attempts are numbered as they begin, and no two snapshots have a number,
  so that `FewSnapshots` bounds the book by the attempts.  "Latest" is by that number
  and not by the order of the commits.
* `Traced`: where an upload is (`Accounted`), that its file is stored before anything
  refers to it (`Filed`), and, for `NothingTwice`, that a request whose preview was
  committed meanwhile had found it before (`FoundBefore`): once deleted a preview does
  not come back.
* `Explained`: what a preview shows, and what is recorded of a snapshot, is relative to
  the snapshot that was the latest when it was read.  `LongerBook` says that this stays
  so as the book grows; the proofs of the steps rest on it.

The removals recorded are then exactly the lines that disappeared, but for those with
an incoterm nobody knows (`RemovalsExplained`): a stored line differs from the parsed
one only there and in rounding (`StoredLineIs`).

`FiguresHold` follows from `OfficeTyped` and `MarketTyped`, in four lemmas (`PurchasesInAgreement`,
`BookInAgreement`, `FillsInAgreement`, `MarketInAgreement`), one for each part of
`FiguresAgree`.  All of it is sums of any number of rows, so it rests on what a sum is:

* `AdditiveExists`: for every finite set there is a function on its subsets that is 0
  of the empty one and grows by the value of each row added, in whatever order.  The
  induction is over subsets, and goes by a smallest one for which there is no such
  function (`SetsBuildUp`).
* `FoldIsAdditive`, `SumIsAdditive`: the fold by which `Functions` defines
  `SumFunction`, which takes an element at a time as CHOOSE picks it, is that function.
* `SumAdds`, `SumChanges`, `SumsTogether`, `CountIsSum`: what follows for one row
  more, for one value replaced, for two sums of the same rows, and for a number of rows.
* `SumOfGroups`: the sums of the groups a set of rows falls into make up the sum of the
  rows, if only every row is in a group that is counted; groups may be empty, which a
  buyer's is who bought nothing.

A figure that is put together by buyer, by saleyard, by day or by customer is then the
figure of the rows it was found among (`FiguresByField`), and what remains is that two
queries find the same rows: those of the dashboard, of a scorecard and of the window of
a reconciliation (`QueriesFind`).

### Assumptions about constants

Besides the sorts of the constants, the proofs use: `None` is no row, note or token
(`NullAssumption` of `Accounts` and `BuyerSync`; a null of the database is no value of
a column); purchases are finitely many (`SyncAssumption`), which a phone's queue is;
and 0 is no price (`DeliveryAssumption`), because the model writes 0 for "no price
yet".  `BackOffice` takes a workbook to have an order in every row that could be read
as one, whatever that row was meant to be (`IngestionAssumption`), so that ambiguous
workbooks are covered; null to be neither a number, a word of a sheet, a section nor
a preview (`NullAssumption` of `Layout`, `PreviewsAreNotNull`); what the office is
given to be what its tables hold (`OfficeAssumption`): purchases are rows that are not
deleted, of a known buyer and with whole numbers in their columns (of any sign: a weight
of zero or less has an implied price of 0 and is a breach, as in `score_bid`), lines
belong to one instruction, observed weights are null or not negative, and buyers, instructions, their lines and client uuids are
finitely many.  A fill names its line by `seq`, which stands for the id the code uses and
is unique across instructions here.  No set of lines and no
observation is null (`RowsAreNotNull`).  TLC
evaluates all of them on every run.

### What is only model-checked

* The violations, which are single behaviours.
* `EventuallyConfirmed` and `EventuallyShown`: liveness is out of the prover's reach.

Every other property of every run is the statement of a theorem.  The induction
theorems of the library, which take an operator as a parameter, cannot be cited here;
where an induction was needed a least or a greatest element of a set of numbers stands
in for it (`LeastNatural`, `HasGreatest`).

## Not modelled

* Cell formats: how text, dates, numbers and formulas of a cell are read.
* The tracker of the console: delivery states and escalations are computed in
  requests that never commit.  The pushed progress counter, which nobody decides
  by and which is not sent again after a correction or deletion.
* The flag that tells a buyer of a probable duplicate: advice, no state.
* Changing one's own password: it ends no session.
* The trend of prices, the margin bridge, the exception lists other than breaches, the
  registries of species and product types, the notes of an instruction and the layout
  of exported documents: columns shown as they are.
* `CONFLICT` of a buyer entry (`enums.py:91-97`), which nothing sets.
* The audit log: written in the transaction of what it records, read by no
  decision.
* Authorisation checks per role and tenancy filters, but for those a state change
  hangs on: every query is by organisation, and one organisation is modelled.
* The unique constraint on `order_issue_acknowledgments` does not bind where a
  column is null; the desk models keep one acknowledgement per concern.
* Figures that several statements read while others commit: a panel may mix two
  moments.  `BackOffice` computes each at one.
