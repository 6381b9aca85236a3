# sup-platform: specifications in TLA+

sup-platform is a supply platform: customers buy goods through an open API, pay from
a wallet, and get cards or an order that is passed on to an upstream supplier;
administrators run refunds, recharges, settlements and quotas. The services are
written in Go: state lives in MySQL (through gorm), Redis caches and counts, and an
asynq queue carries jobs to a worker process. Three web front ends in Vue (customer
portal, supplier portal, admin console) show pages that keep their data themselves;
only the admin console has a login. This directory holds TLA+ modules of the core of
both, TLC configurations that check them on small instances, and TLAPS proofs.

All names below are relative to `src/`; `module/x` stands for `internal/module/x`.

## The system's parts

| Part | State it keeps | Operations | Interacts with |
|---|---|---|---|
| Wallet ledger (`module/ledger`) | `wallets` (balance, version), `ledger_entries` (append only) | Debit, Credit, their WithRetry forms, EnsureWallet | called inside transactions of orders, refunds, recharges |
| Orders (`module/order`) | `orders` (status, version, refund_amount), status changes, buy parameters | CreateOrder, TransitionStatus | debits and credits the ledger, starts webhooks |
| Refund applications (`module/refund`) | `refund_orders` | Apply, Approve, Reject | transitions orders, credits the ledger |
| Recharge applications (`module/recharge`) | `recharge_orders` (status, version, idempotency key) | Apply, Approve, Reject | credits the ledger |
| Docking (`module/docking`, `internal/adapter`) | `order_docking_tasks` (status, retry_count) | SubmitOrder, ExecuteTask, RetryPendingTasks, ManualRetry | job queue, supplier APIs |
| Card issue (`module/card`) | `cards`, `card_batches` | ImportCards (a job), IssueCards | bound to orders by `GoodsBuy`, adds to the goods' stock |
| Goods (`module/goods`) | `goods` (stock, limits) | catalogue, ValidatePurchase, UpdateGoods | read by `GoodsBuy` |
| Webhooks (`module/notify`) | `order_callbacks` (success, retry_count) | SendOrderCallback, DeliverCallback, RetryPendingCallbacks | job queue, customers' endpoints |
| Settlement (`module/settlement`) | `settlements`, `profit_shares` | GenerateSettlement, ConfirmSettlement, MarkPaid, CalculateProfitShare | reads orders |
| Billing and quota (`module/billing`) | subscriptions, `api_usages` (version), invoices, a Redis cache | CheckQuota, RecordAPICall, subscription changes, invoices | HTTP middleware |
| Reconciliation (`module/reconciliation`) | jobs and errors found | RunBalanceCheck, RunCrossVerify, ResolveError | reads wallets, entries, orders |
| Pricing (`module/pricing`) | rules, a cache of prices | CalculatePrice, rule changes | read by `GoodsBuy` |
| Tenants (`module/tenant`) | tenants, their administrators | AddAdmin, ToggleFeature | every scoped query |
| Authentication (`module/auth`) | login attempts, lock-outs | Login | HTTP middleware |
| Admin console, signing in (`web/admin/src`: router, Login, AdminLayout) | the token in localStorage; per tab the route shown and the navigation under way | login, logout, menu, Back and Forward, reload | tabs of one browser share the token |
| Admin console, pages (`web/admin/src/views`) | filters, the order shown, settings | filter, details, settings | behind the login |
| Customer portal (`web/customer/src`) | search form, API keys, recharge dialog | search, generate and revoke keys, apply for a recharge | timers and message boxes that outlive their page |
| Supplier portal (`web/supplier/src`) | products, import dialog, order statuses, withdrawal dialog | edit, switch on and off, import cards, process and complete, withdraw | the same |
| Queue (`internal/pkg/queue`, `cmd/worker`) | asynq tasks in Redis | Enqueue, the worker's handlers | docking, webhooks, card imports |

What is hard in this code is not the single operation but what happens between
its statements. Handlers, goroutines, queue workers and retry loops run the same
operations on the same rows; rows are read before a transaction or a lock and
written back after it; several commits make up one logical step; jobs are
delivered again when a worker dies; requests to suppliers and customers may have
been taken although no answer came. In the front ends it is what happens between a
click and its effect: navigations, timers and message boxes are under way while the
user goes on, and buttons of a fading dialog still take clicks. `PROJECT.json` lists these hazards one by
one, each with its line and the properties that speak of it.

What makes each part correct:

* ledger: no overdraft, no lost update, a journal that adds up, calls that end;
* orders and refunds: an order exists exactly with its payment, money goes back at
  most once, never more than was paid and only for an order that is Refunded,
  statuses move along the table;
* docking: one submitter at a time, a success never repeated, no task forgotten;
* card issue: a card belongs to one order and is handed out once, and no order
  gets more cards than it paid for;
* recharges: a completed application has exactly one credit, and no other has one;
* webhooks: every event is sent, no more often than failures explain, and the row
  does not claim what did not happen;
* admin console: without a token no page is entered but by a move begun before, and a
  tab gets to the login page unless its way there is cut off;
* pages: loading ends, nothing is applied for twice, an edit changes its own row only,
  keys and orders never go back.

## The modules

| Module | What it models |
|---|---|
| `Account` | abstract: an account whose postings are atomic and never overdraw it |
| `Ledger` | the ledger statement by statement on InnoDB rows, snapshots and row locks |
| `OrderRefund` | CreateOrder, TransitionStatus, refund Apply/Approve/Reject, composed with the wallet |
| `Recharge` | recharge Apply/Approve/Reject; extends `OrderRefund`: both move the same wallets |
| `Docking` | supplier submission with the adapter's retries and the job queue |
| `CardIssue` | card imports, `GoodsBuy` and IssueCards, goods edits |
| `Notify` | webhook delivery and its retry sweep |
| `AdminConsole` | router guard, login page and layout of the admin console, in several tabs |
| `Shell` | what the pages share: the tab, the router, dialogs, message boxes, timers |
| `CustomerPages`, `SupplierPages`, `AdminPages` | the pages of the three sites, each extending `Shell` |
| `WebPages` | one tab running any of the three sites: composes the three |
| `LedgerProofs`, `OrderProofs`, `RefundProofs`, `DockingProofs`, `CardProofs`, `NotifyProofs`, `AdminConsoleProofs`, `WebPagesProofs` | the theorems (`OrderProofs` those of `Recharge` too; `RefundProofs` builds on it) |
| `MCLedger`, `MCOrderRefund`, `MCRecharge`, `MCDocking`, `MCCardIssue`, `MCNotify`, `MCAdminConsole`, `MCWebPages` | symmetry sets, values and mutants for TLC |

In every module of the services a *session* is one goroutine (a request handler, a queue worker, a
background goroutine). `pc[s]` says which statement it executes next, and further
variables hold what it has read and still remembers. A database statement is one
step, so any other session may run between two of them. `Return(s)` is the end of
the handler. A failed statement, a lost connection or a dead process are actions
too (`Fault`, `Fail`, `DBError`, `Die`, `WorkerDies`).

**Ledger.** `wallet[u]` and `entries[u]` are what is committed; `row[s]` and
`draft[s]` are what session s has written and not committed; `lock[u]` is the row
lock. `GetWalletWithTx` is a plain read: under REPEATABLE READ it returns the
transaction's first snapshot again, under READ COMMITTED the latest row
(constant `RepeatableRead`; the connection strings set no level). `CASHit` and
`CASMiss` are `UpdateWalletCAS` and the loop around it, `LockWallet` and
`UpdateLocked` are `debitWithLock`/`creditWithLock`, `EnsureFound`, `EnsureGet` and
`InsertWallet` are `EnsureWallet`. Amounts are integers (units of the column's
scale), so rounding is not an issue here.

**OrderRefund.** Works at the level of transactions: a transaction's first plain read
is one step and its locking statements with the commit are another, because after
the first update of a row no other transaction can touch that row; the finer
interleavings of the wallet are in `Ledger`. `FindByCustomerOrderID`, `DebitRead` and
`CreateOrder` are `CreateOrder`; `FindOrder`, `UpdateStatusCAS`, `CreateStatusChange`,
`CreditRead` and `ProcessRefund` are `TransitionStatus` with its three separate
commits; `ApplyCheck`, `CreateRefund`, `FindApplied` are Apply; `ReviewCheck`,
`ApproveRead`, `Approve` and `RejectRead`, `Reject` are the two reviews. Version and
history numbers in entries and audit rows (`nr`) are there to state properties;
the tables have an autoincrement id instead. `Recharge` of this module is a credit that
comes from elsewhere, in runs without the module of that name.

**Recharge.** A *reviewer* is a request handler of the recharge service. `Apply` looks
its key up and `Insert` adds the row, against a unique index that holds for the empty
key too: of two applications without a key the second fails. Apply has no HTTP caller.
`Approve` reads the row, checks it outside, and in one transaction updates it by
version, credits the wallet and commits; the updated row stays locked meanwhile.

**Docking.** `SubmitOrder`, `Dispatch` (queue, or goroutine as the fallback, or both when
an enqueueing fails after the job was stored),
`ExecuteTask` (the worker), `RetryPendingTasks` and `ManualRetry` are the ways in;
`GetByID`, `LockTask`, the adapter's requests (`Accept`, `Refuse`, `NoAnswer`) and
`HandleSuccess`/`HandleFailure` are `executeSubmit`. `accepted` and `lost` are the
supplier's side: the orders it has taken, and those whose acceptance was not heard.

**CardIssue.** `IssueCards` gets the plain connection from `GoodsBuy`, so each
`LockAndBind` commits alone. `FetchAvailable` reads one page of the loop, the available
ids from `offset` on by rank, `LockAndBind` tries the least id left of it, `IssueCards`
and `Shortage` are the two ends. `ImportCards` is one transaction but may run again
for the same job. The stock is read by `ValidatePurchase`, added to by imports,
overwritten by `UpdateGoods`, and deducted by nobody. The payment itself is in
`OrderRefund`.

**Notify.** `SendOrderCallback` and `Dispatch` create the row and start its delivery;
`GetCallbackByID`, `DoHTTPPost` and `UpdateCallback` are `deliverCallback` (and, from
`NextPending`, `redeliverCallback`), which hold a copy of the row during the POST and
save it whole. The goroutine is started on any error of `Enqueue`, and an error does not
say that the job was not stored: the answer of Redis may be lost or late, and the command
that its client then repeats finds its own job there. So `Dispatched` is one of `Queued`,
`Refused` and `StoredAndRefused`, the last with a job and a goroutine for the same callback;
`doubled` counts those. A worker that has finished holds its job until the queue has taken
note (`JobDone`), and when it dies before that the job is delivered again.

**AdminConsole.** A navigation of vue-router takes three steps: the push (`MenuClick`,
`Traverse`, `HandleLogin`, `HandleLogout`, `Open`), `BeforeEach`, which looks at the
token, and `Show`, when the page's component has been loaded (or `LoadFails`). A later
push, to the page still shown too, cancels an earlier one. `remover`, `clean` and
`interrupted` record who signed out, whether a navigation began without a token, and
whether one was cut off; only properties read them.

**Shell, WebPages and the pages.** `view` is the reactive state of the page shown, a
record with fields of its own per page; `Mount` creates it and drops the old one.
A timer of a page that was left (`orphans`) and the answer to a message box of such a
page (`box.live` FALSE) change state that is gone, which is why they change nothing
here. `Masked` is what keeps clicks from a page: a box or a dialog, until the dialog
has faded; a loading table keeps none, so searches overlap. `Reload` stands also for
Enter in a form with one field, which the browser submits. Rows that nothing changes
and tags that colour them are left out.

## The runs

Bounds named in the modules (`MaxPosts`, `MaxVersion`, `MaxRecharges`, `MaxManual`,
`MaxCrashes`, `MaxFaults`, `MaxSweeps`, `MaxCards`, `MaxEdits`, `MaxCalls`, `MaxMoves`,
`MaxFailures`, `MaxTyped`, `MaxKeys`) only stop new calls, inputs or faults from
starting; they never cut a call short. `MaxTimers` keeps a search or a new key from
being asked for while that many timers run.

| Run | Instance | What it shows |
|---|---|---|
| `ledger` | REPEATABLE READ, one wallet, three sessions, `MaxRetries` 2 | TypeOK, NoOverdraft, JournalChained, WalletIsLastEntry: no interleaving overdraws, loses an update or breaks the journal; WaitsForWorker: no deadlock, a session waits only for one at work on the same wallet that waits for nobody |
| `ledger_rc` | READ COMMITTED, two sessions, fair | ImplementsAccount: every posting is atomic at its commit. CallsReturn: every call ends |
| `order_refund` | two sessions, one order, two applications, faults | TypeOK; money goes back once, for the right order and amount (CreditedOnce, CompletedIsCredited, RefundAmountAgrees); the audit trail chains (AuditChained); statuses move along the table (StatusMoves) |
| `order_pay` | two sessions, two orders, two reviewers, two recharges, one wallet, faults | PaidOnce: an order exists exactly with its payment and nothing overdraws the wallet; RechargedOnce: a completed recharge has exactly one credit |
| `docking` | two sessions, one task, fair, a fault, a crash, a manual retry | TypeOK, OneSubmitter, AcceptedOnce, PendingHasRetries; LockedForAReason: only a crash or a failed statement leaves a task locked; FirstRound: every task is submitted |
| `cards` | two sessions, two orders, a batch imported twice, an edit, a fault | TypeOK; HandedOnce: no card is handed out twice; PaidInCards: no more cards than paid for; StockIsBacked |
| `notify` | two callbacks, two sessions, fair, a sweep, a crash or a fault, enqueueings that fail before or after storing the job | TypeOK; SuccessIsHeard: the row does not claim what did not happen; SuccessKept: without a sweep or a job beside its goroutine a success stays; PostsBudgeted: no more POSTs than failures explain; FirstPost: every event is sent |
| `admin_console` | two tabs, six moves, a component that fails to load, fair router | TypeOK; EnteredWithToken: no page is entered by a move begun without a token; StrandedForAReason: two reasons only to stay on a page without one; EndsAtLogin: every other tab gets to the login page |
| `web_pages` | one tab, any site, three timers, two entries, three keys, fair timers | TypeOK; LoadingHasTimer and LoadingEnds: loading ends; AcceptedOnce: nothing is accepted twice; EditsOneRow; OnlyOnward: revoked keys and orders never go back |

Why the bounds are enough: the interesting cases of the services are races on one row,
and each of them needs two sessions, a stale read in one and a commit in the other;
three are used where the loser of a race meets a third session (the lock fallback of
the ledger). `MaxRetries` 2 reaches the first round, a repeated round and the fallback.
In `order_pay` prices and a starting balance of 2 make one of two orders fit, or both
with a recharge between them; the key `i1` may be used twice and `n0` is the empty one.
Refund sums of 0, 1 and 3 against a price of 2 are refused, partial and too large.
In `notify` a worker's death and a fault do not meet in one behaviour (`MaxFailures` 1, to
keep the run short), though either meets the sweep and a job stored beside its goroutine;
the theorems hold for any number of them. `MinFetch` 1 makes pages of two cards, so that one competing call can empty a page;
with the code's 10 the same needs ten lost cards. In `admin_console` six moves are
enough to sign in, open a page in a second tab, sign out in the first and still click
twice. In `web_pages` three timers let two searches overlap while a page that was left
still has one, and two entries fill a dialog a second time after it was submitted.

Three more runs show a statement of the repository that the code does not keep; TLC
prints the behaviour.

| Run | Statement | What happens |
|---|---|---|
| `order_key` | `module/order/service.go:72`, customer_order_id is unique | the check precedes the transaction and the index is not unique: two calls at once create and charge two orders |
| `order_lost_refund` | `module/order/service.go:158`, a transition to Refunded runs the refund | the status is committed first; if the wallet moved meanwhile the credit fails, and no later call can make it |
| `cards_shortage` | `module/card/service.go:138`, a snatched card means trying the next | the offset skips available cards and the call reports a shortage |

Other disagreements met on the way, in the models but without a run of their own:

* `module/docking/model.go:31` says that locked means being submitted; after a crash or
  a failed final update the task stays locked, and neither retry nor manual retry takes
  it (LockedForAReason says that nothing else leaves it so).
* `module/docking/model.go:11` says that max_retry bounds the retries; the task is read
  before it is locked, so an increment of retry_count can be lost.
* `module/ledger/repository.go:49` says that the read locks the row; it does not. The
  versioned update makes up for it.
* `module/ledger/service.go:157` says that a retry reads the latest wallet; under
  REPEATABLE READ it reads its first snapshot and can only lose again, until the
  row-lock fallback.
* Refund's Reject moves an order from Refunding to Processing, which
  `module/order/constants.go:15` does not list (StatusMoves names the exception), and
  Returned, called terminal at line 10, is left for Refunded.
* `SubmitError.Retryable` (`adapter/errors.go:35`) is ignored by the docking task.
* RetryPendingTasks and RetryPendingCallbacks have no caller: nothing in the deployed
  processes retries a failed submission or webhook.
* A repeated purchase with the same customer_order_id gets the paid order again and
  a new set of cards (PaidInCards is stated of orders without such an id).
* `module/notify/service.go:103` says of any error that the enqueueing failed and falls back
  to a goroutine; when Redis had stored the job, both POST the event, with no worker dead
  and no sweep (PostsBudgeted counts one more for it). In docking the same is harmless:
  `LockTask` lets one of the two submit.
* A sweep, or such a goroutine beside a stored job, that overlaps with another delivery
  can erase a recorded webhook success (SuccessKept is stated of callbacks without either).
* The unique index on a recharge's idempotency key holds for the empty key, so all but
  the first application without one fail.
* `web/customer/src/views/ApiKeys.vue:52` says that revoking a key cannot be undone; when
  the page is left and shown again the list is the initial one, and the key is active
  (OnlyOnward is stated of a page that stays).
* A card import of blank lines is accepted with 0 cards, and the order timeout of the
  settings may be emptied although its field is bounded.
* `web/admin/src/api/request.ts:27` treats status 401 as signed out, where
  `docs/api-conventions.md:20` has code 100 for it; no page imports the helper.

## Fairness

`ledger_rc`, `docking` and `notify` assume weak fairness of each session's own steps
(the goroutine scheduler; a request to a supplier or customer answers or times out,
as every HTTP client here has a timeout) and of workers taking jobs. The ledger also
assumes that a session waiting for a row lock eventually gets it: InnoDB's lock queue
is first come, first served. `admin_console` assumes that the router takes the steps of
a navigation it has begun (`BeforeEach`, `Show`), and `web_pages` that the timers of the
page shown fire (`SearchEnds`, `KeyGenerated`). Nothing assumes that anybody makes a
call or clicks, that a retry loop runs, or that a request succeeds; and a property that
a fault can defeat says so (`faults > 0` in FirstRound and FirstPost, `interrupted` in
EndsAtLogin).

## What is proved

TLAPS checks these for every value of the constants, that is any number of users,
sessions, orders, amounts, retries, tabs and bounds. Every invariant and action property
that a passing run checks is proved; `notify` needs the sessions to be finite, because
its argument counts them.

**LedgerProofs**: LedgerTypes, NeverOverdrawn, EntriesChain, BalanceIsJournal,
VersionIsLength, LedgerImplementsAccount, from LedgerInvariant. The
invariants alone are not inductive: whether a versioned update keeps the journal depends
on what the session remembers. `IInv` adds, per session, that what it has read is the
committed wallet or a version older than it (`Remembers`: an equal version means an
equal row, which is why the CAS is enough), and that once it has written it holds the
lock and its read is current (`Prepared`); per wallet, that version, journal length and
balance agree. A commit is then a `Post` of `Account` and every other step a stutter.
VersionsNeverReused says it of any two moments: a wallet with a version again is the same
wallet, so no compare-and-swap takes a changed wallet for the one it read. CallsReturn
itself is liveness; its safety part is NoLockCycle (WaitsForWorker: whoever a session waits for is at work
on that wallet and waits for nobody, because a transaction here has one ledger call) and
CallsNeverLoop (each own step of a call lowers `StepsLeft`, at most 2 * MaxRetries + 6,
and no other session's step raises it).

**OrderProofs**: OrderTypes and EveryOrderPaidOnce. `IInv` has the same `Remembers` for
the wallet a payment has read, with a balance that covers the order, so the versioned
update that succeeds cannot overdraw; and per order, one payment exactly (`PayInv`).
RechargeInvariant and CreditedExactlyOnce are about the composition with `Recharge`: a
credit is committed only by the reviewer that holds the row, which is pending until that
commit (`CreditInv`), and steps of orders add no entries of recharges. In the other
direction a step of the composition is a step of orders or money that comes in (`PaysIn`),
which keeps `IInv`: PaidOnceBesideRecharges here, RefundsBesideRecharges and
MovesBesideRecharges in `RefundProofs`, state the order theorems of the composition.

WalletsImplementAccount: the wallets of the composition refine `Account`, as the ledger's
do. The journal of a wallet is its entries by number, which are numbered without gap or
repetition (`Numbered`); they carry the balance they leave (`after`, BalanceAfter in the
table). The specification is `SpecInUse`, of wallets that exist from the start and have a
balance, and allows every integer as a posting, which TLC cannot enumerate: this refinement
is proved and not a property of a run.

OneOrderPerKeyUnlessRacing is what is left of the statement `order_key` refutes: as long as
no two calls with one key are open at once between check and commit, there is one order per
key, because the check of the one open call stays true until it commits (`KeyInv`).

**RefundProofs**, on top of it: CreditedAtMostOnce, CompletedIsPaid,
RefundAmountIsTheApplications, OrdersMoveAlongTheTable, AuditTrailChains. Money: `RInv`
says of an order that is not Refunded that nothing has been given back and nobody owes it
(`Untouched`); of one that is, that either its one completed application paid, or one
session, its `Payer`, moved it there and owes the credit until it pays or dies.
LostOnlyByItsPayerAndForGood says how the refund of `order_lost_refund` gets lost: only by a
step of its payer, when it dies, fails or finds the wallet moved; and no session ever pays
it after that. History:
`HInv` calls a status with the version it belongs to a fact, wherever it is found (in the
order, an audit row, a session's memory), and says that all facts about an order agree;
that is why rows written late still chain.

**DockingProofs**: DockingTypes, SingleSubmitter, NeverRepeated, SubmittedWasAccepted,
RetriesRemain, SubmittedStays, from DockingInvariant, and LocksExplained. `IInv` adds to
OneSubmitter what is known of the supplier: a task that is not locked has
accepted = lost, or accepted = lost + 1 once submitted (`TaskInv`), and while it is locked
the place of the one session that holds it says which (`SessionInv`). LockTask enters with
the former because the task was pending; nobody else can change either count until the
round ends. TaskLifecycle: a task moves along its life cycle only, its retries
change only as a round ends or the task is reset, and the supplier takes it only in a
round. TasksNotDropped is the safety part of FirstRound:
without a fault a task that has had no round is with somebody who will try it (`InHand`).

**CardProofs**: CardTypes, CardsAreHandedOnce, CardsArePaid, StockHasCards. A card changes
once, from available to bound, and the call that binds it holds it until it ends: what
calls hold and what was answered is disjoint (`Handed`). An order without an id is served
by one call, which holds all of its cards (`Paid`). The stock, and every copy of it under
way, is never more than the cards imported (`Backed`). NothingTakenBack: bound cards, orders
and answers never change. ShortageLeavesSkippedCards is what is left of the statement
`cards_shortage` refutes: a call gives up with no more cards available than its offset has
skipped, or after three tries per card. That an empty page at an offset means no more ids
than that is an induction over numbers, which goes by the least counterexample (`Least`,
`Greatest`), since induction theorems with an operator parameter cannot be used.

**NotifyProofs**: NotifyTypes, SuccessWasHeard, PostsAreBudgeted, SuccessStays. Jobs in the
queue and sessions that hold a callback are counted as rights to POST (`Holders`); POSTs
and rights together never exceed one, plus one per crash, per sweep and per enqueueing that
failed after the job was stored. Until a sweep runs, a callback without such an enqueueing
is in one hand at a time (`OneHand`), and a delivery that is under way has an up-to-date
copy of it, so saving the copy erases nothing, not even when a worker died after the save
and the job is delivered again. EventsNotDropped is the safety
part of FirstPost: without a fault an event that was never POSTed is in the queue or held by
a session that will POST it.

**AdminConsoleProofs**: ConsoleTypes, StrandedHasReason, NoEntryWithoutToken, from
ConsoleInvariant. Without a token a navigation that has passed the guard goes to the login
page, unless the token was taken away after it had passed; signing out begins a new
navigation in its own tab, so then another tab did it.

**WebPagesProofs**: WebTypes, NothingTwice, TimerForLoading, OneRowEdited, NothingGoesBack,
from WebInvariant. A form with something in it was typed since the last submission; a box
whose page is still shown covers that page; a page that is loading has counted the timer
that ends it. For what a step changes, `Steady`: a way never leads to the page that is
shown, and the order a box asks about is in processing.

Assumptions are the named ones of the modules: model values distinct from the data, prices
positive and amounts integers, bounds natural numbers, at least one retry, a non-empty
choice of product names and prices, finitely many sessions in `Notify`.

Only model-checked: the liveness properties CallsReturn, FirstRound, FirstPost, EndsAtLogin
and LoadingEnds: liveness under fairness is out of the prover's reach. Their safety parts
are proved, as said above (StrandedHasReason for EndsAtLogin, TimerForLoading for
LoadingEnds); what TLC adds is that fair steps that stay possible are taken.

## What is not modelled, and the plan

Modelled and proved as above: `Ledger`, `OrderRefund`, `Recharge`, `Docking`, `CardIssue`,
`Notify`, `AdminConsole`, `WebPages`. Left, in this order:

1. `Settlement`: count-then-insert generation and unversioned confirm and pay, where a
   late confirmation takes a paid settlement back.
2. `Quota`: usage by versioned update with three tries, and the cache whose reload races
   with its invalidation; the property is how far a served quota may lag.
3. `Reconciliation`: reads wallets and entries in separate statements; a check on a
   moving system may report what is not wrong but must not miss what is.
4. Pure parts as operators against reference definitions: the choice of the best price,
   the token bucket of the rate limiter; then tenant limits and the count of failed
   logins, which is written back from an earlier read.

Left out for good: deployment, migrations, logging, formatting, signatures and encryption,
audit inserts, analytics queries and the HTTP layer around the services, none of which
decides anything the properties are about; decimal rounding (amounts are integers in units
of the columns' scale), backoff times (enough time may always have passed) and asynq's own
state (a job is waiting, taken, done, or delivered again). Of the front ends: tables, tags and
labels whose data nothing changes, the dashboards, messages, styles, and the admin
console's request helper, which nothing uses.
