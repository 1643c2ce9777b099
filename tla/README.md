# Verification of xianyu-collector

TLA+ models of the parts of xianyu-collector that keep state under concurrency and
failure, TLC runs on small instances, and TLAPS proofs for all instances. The rest of
the file draws on nothing but the repository: `src/` stands for its root.

## 1. Inventory

The system runs four Python processes (backend, scheduler, websocket, the cloud
authentication server), MySQL and Redis, behind a React frontend and a Windows launcher.

| component | state it keeps | operations | talks to | what is hard |
|---|---|---|---|---|
| card delivery (`backend/app/services/card_delivery.py`) | order rows (`status`, `delivery_send_status`, ...), delivery records, the card's lines | `deliver_order`, live payment event, scan, confirmation retry | MySQL, websocket service (messages), Xianyu (confirmation) | several sessions on one order or card; identity map against row locks; one failing step of many; crashes; the timeout job |
| order routes (`orders_compat.py`) | order rows | manual delivery, no-logistics delivery, cancel, refresh | card delivery, Xianyu | the same rows, without the chain's checks |
| account settings (`account_settings.py`) | switches per account | load, save with normalisation | read by every delivery | exclusive modes in old data |
| order status evidence (`order_status.py`, twice) | `Order.status` | merge of chat evidence, live and from stored messages | order sync, card delivery | events out of order, writers that skip the merge |
| account runtime (`websocket/app/xianyu_runtime.py`) | connection, pending request futures, status | start, stop, request, event publication, renewal | Xianyu IM, backend | overlapping starts, lost connections, cooldowns |
| account renewal (`common/services/account_renewal.py`, ...) | `Account.cookie`, `status`, expiry | renew over HTTP or browser | runtime, scheduler | rows read minutes before they are written |
| account sync (`common/services/account_sync.py`) | sync lease, products, orders | acquire, sync, finish | Xianyu, backend and scheduler | a lease without fencing |
| scheduler (`registry.py`, `jobs/`) | task rows, running flags, platform day | run task, timeout job, day switch | all services | overlapping runs, expired locks |
| chat messages (`chat_new.py`, `models/chat.py`) | chat records | live event, history page, sending | runtime, order status, card delivery, auto reply | the same message twice; history against live events |
| auto reply (`auto_reply_service.py`) | reply logs, AI history | match, generate, send | IM, AI | default reply once, order of rules |
| cloud authentication (`deploy/cloud_auth/`) | users, sessions, attempt limits, account sessions | register, login, save session | launcher, backend | threads on separate SQLite connections |
| QR login, entitlements, invites | login sessions, quotas, invite counters | poll, confirm, finish, redeem | Xianyu, shared login, cloud | expiry against a late confirmation; a quota counted in an old snapshot |
| shared QR login (`shared_scan.py`, `SharedScanPage.tsx`) | shared session, sub-sessions, locks in memory, the visitor's tab | create, join, poll, finish, delete | QR login, entitlements, account runtime | overlapping polls, restarts, two sub-sessions ending together |
| batch publishing (`product_publish.py`, retry in `automation.py`, `BatchPublish.tsx`) | job rows, the background task, the page's interval and stored batch id | publish, poll, restore, retry | Xianyu, account sync | a task that lives in the process; two writers of a row; answers overtaken |
| keyword rules (`keywords.py`, `Keywords.tsx`, `api/keywords.ts`) | rule rows, each tab's list | add, edit, delete, import | auto reply | the list is read, changed and saved whole by several tabs |
| session shell (`request.ts`, `authStore.ts`, `App.tsx`, `Login.tsx`) | token pairs in two places, the refresh flag and queue, the route's state | sign in and out, refresh, verify, reload | backend | one refresh for many requests; answers after a sign-out |
| chat page and sockets (`ChatNew.tsx`, `useChatNewWs.ts`) | shown account and conversation, caches, pending picture, blacklist mark; a connection per account | select, push, send, blacklist; connect, retry, clean up | chat routes, websocket | late answers and pushes for what is not shown; sockets that outlive their owner |
| account dialogs (`Accounts.tsx`) | the dialogs, password and QR attempts, their timers and requests | log in, poll, cancel, save, leave | account routes | one `closeModal` for all dialogs, called late; sessions on the server |
| item list (`Items.tsx`) | list, selection, confirmations | load, select, delete, take offline | item routes | lists that change under an open confirmation |
| distribution (`distribution.py`) | balances, dock records, card lines | pickup, settle | cards | read, check, write without a lock |
| platform client, other routes and pages, launcher, dialogue packs | little of their own | I/O and presentation | | not modelled |

What makes each correct, in a line: a delivery gives the buyer one whole card and the
seller one line less, and every row says what happened; an order's status never goes
back; an account has one live connection and the newest cookie; a lease has one holder;
a task runs once; a limiter counts every attempt; money and lines are conserved. In the
browser: what is shown, cached, sent or deleted belongs to what the user was looking at;
what goes on on the server is followed, learnt to end or cancelled; nothing waits forever.

## 2. Plan

Done, with the abstract specification each implements:

1. `CardDelivery` and `OrderStatus` (sections 3, 4).
2. The web console (section 5): `WebSession` (implements `SingleFlight`), `ChatSockets`
   (`ChatLinks`), `ChatPage`, `AccountLogin`, `KeywordRules`, `ItemList`.
3. Publishing in batches from the page to the server: `BatchPage` is built on
   `BatchProgress`, which `BatchJobs` implements.
4. `SharedScan`: page, routes, QR logins and quota of the shared login, in one module.
5. `Workbench` and `Pages` compose the parts of 2 to 4 that share no state.
6. Theorems for every invariant, action property and refinement that the passing runs
   check (of `BatchProgress` the safety part), in eight modules (section 8).

Left, in this order:

1. `AccountRuntime`: start, stop and run, futures, publication; one registered task.
2. `SyncLease`: an abstract lock with one holder, refined as far as the lease allows.
3. `AccountRenewal`, `Scheduler`, `Distribution`, `CloudAuth`, `AutoReply`.
4. In `CardDelivery`, saving the account's settings while deliveries run; an abstract
   contract (delivered at most once, with lines taken once) for the instances without
   requests in flight together.
5. Proofs: `LineSoldOnce` and `NoLineLost` for sessions that run together but never work
   with the card at the same time, which needs a history variable for the card as
   `Overlapping` is one for orders; the modules above, as they are written.

## 3. CardDelivery

`CardDelivery.tla` models a set of sessions (asyncio tasks, each with its own
`AsyncSession`), the database and the scheduler's timeout job.

| variable | in the code |
|---|---|
| `order` | `xr_orders`: `status`, `delivery_send_status` (`send`), `card_only_delivered` (`cardOnly`), `delivery_content` (`content`: which of the two kinds) |
| `recs` | `xr_card_delivery_records` in order of id: order, status, lines; `got` counts the messages Xianyu accepted for it and is no column |
| `stock` | the lines of the card's `payload["data_content"]` |
| `lock` | InnoDB row locks of orders |
| `confirmed` | Xianyu's own state of the order |
| `settings` | the account's switches after `_copy_settings` |
| `pc`, `loc` | a session's place in the code and its locals, with the identity map (`cache`, `cards`), the snapshot (`open`, `busy`) and the pending status (`pend`) |
| `sweep` | what the timeout job read and has not committed |
| `starts`, `crashes` | counters of the bounds |

Three facts of the database session (`common/db/session.py`) decide much of the
behaviour and are modelled as they are: `expire_on_commit=False` and no
`populate_existing`, so an object in the identity map keeps its attributes when a later
`SELECT ... FOR UPDATE` returns a newer row; MySQL's REPEATABLE READ, so plain selects
of a transaction share the snapshot of the first (`View`); and the unit of work writes
only changed columns, JSON columns whole (`Write`).

Each action is one stretch of code between two points where another task or process can
act (an await on the database or the network): `LockOrder`, the five outcomes of the checks,
`ConfirmFirst`, `MarkSending`, `ReserveContent`, `CreateRecord`, one `SendSegment` per
message, `ConfirmAfter`, `Finish`, and the failure path `RestoreContent`, `FailRecord`,
`FailOrder`, or `RecordFailure` before a record exists. Requests are `LiveEvent`,
`ManualDelivery`, `ScanOrders` (order refresh and redelivery) and `NoLogistics`. The environment is
`BuyerCancels`, `Crash`, a sending step that may fail (refused, or accepted with the
acknowledgement lost), and `SweepRead`/`SweepWrite` for `execute_delivery_timeout`.

Abstractions. One account and one card. A message is accepted or not, its text does not
matter. `pending_ship` stands for `pending`, `paid`, `processing` and `pending_ship`,
which the code treats alike; terminal statuses other than shipped are `cancelled`. The
switch `delivery_disabled`, a missing buyer and a missing card are one nondeterministic
`Reject`. API cards fetch their content after the record is committed; a failing fetch
behaves as the refusal of the first message. `delivery_count` is left out except for the
write of the whole payload it causes. `execute_delivery_timeout` needs five minutes to
pass: `SlowDelivery` says whether a delivery (which may wait up to an hour by
`delay_seconds`) can still be running then. Not modelled: lock-wait timeouts, deletion of
orders, records or cards, editing of the card's stock by the seller, and saving of the
account's settings while a delivery runs (any stored combination is an initial state).

## 4. OrderStatus

`OrderStatus.tla` models how `Order.status` follows the platform: requests of the backend,
each with a database session, that apply chat messages or the order list to rows.

| variable | in the code |
|---|---|
| `real` | the platform's status of an order |
| `claims` | history variable: what the platform, the seller or a message of its conversation ever said of an order |
| `chat` | the messages of the account's conversations (`talk`), in order of time: order number, item and sender, each of which a message may lack (`Unsaid`), and the status `status_from_chat_text` reads in the text, perhaps "unknown" |
| `rows` | how many `xr_chat_message_records` a message has (`message_id` is not unique) |
| `local` | `Order.status`, or no row |
| `pushed`, `dispatched` | messages whose live event arrived; payments handed to `auto_deliver_live_event` |
| `pc`, `loc` | a request: what it is about, what it still stores, the snapshot its transaction reads (`seen`, `known`) |

The requests are `Event` (`receive_internal_event`), `OpenChat` (`get_messages`, or the
stored messages of `get_customer_orders`), `Reconcile` (order page, refresh without
permission), `Sync` and `Send` (`send_message`, which stores what the seller wrote in the
console, without an item). Their steps: `Save` is `_save_message` for one message, which
commits and so opens a new snapshot; `List` fetches a page of the order list; `Commit`
computes what the code makes of the rows it saw (`ByMessage`, `ByEvidence`, `ByList`,
`ByPayment`) and writes the changed columns, over whatever others wrote since; `Pay`
opens the transaction of `auto_deliver_live_event`. A row another request added since the
snapshot fails the commit as a whole (`order_no` is unique). The environment is `Trade`
(the platform moves an order on and says so, with or without the order number or the
item, in the name of the buyer, the seller or nobody), `Remind` (a card that names an order
and tells no status), `Say` (people's words that parse as a status) and `Edit` (the seller
sets a status).

Evidence is attributed as the code does it (`Evidence`, `Fits`): messages with a number to
that order; those without to the only candidate left among the orders the same messages
name, of their item if they carry one, then of their sender if that leaves any. An order's
item and buyer are the first that the messages naming it carry (`ItemOf`, `BuyerOf`); a page
of history does not take the seller for the buyer, the reconciliation does. So a message
without an item goes to the only order named, of whatever conversation: when the whole
account is reconciled that may be a stranger's, and `Justified` excepts what such messages
told (`Vague`). `Best` says in one line what merging messages one by one
computes; `BestFolds` of `MCOrderStatus` compares it with a fold of `Merge` for every
sequence of up to four statuses.

Abstractions. One account. Every copy of a message carries the same fields: payload merging
of stored messages is left out. A message that carries an item carries its
conversation's. Orders' rows may lack buyer or item, which a live event meets as it may
(`gaps`). Messages that name no order and tell no status change nothing and are
left out, and so are the clearing of failure texts, the columns other than `status`, and the
delivery a payment starts (that is `CardDelivery`).
Pushes of a connection keep their order; a push may be lost. The order list shows the
platform's status, or one that `ORDER_STATUS_MAP` lacks, which becomes "unknown".

## 5. The web console and what stands behind it

In these modules an action is an event of the browser (a click, a timer, an answer, a
pushed message) with the React effects that run after it, or one stretch of server code
between two awaits. An answer of code outside the module is any the code there can give,
and may come late, in another order, or not at all.

**`WebSession`** (`request.ts`, `authStore.ts`, `App.tsx`, `Login.tsx`). `owners` says
which user a pair of tokens was issued to, `local` and `store` are the two places tokens
live in, `call` the requests and verifications, `refreshing` the flag, `page`, `shown`,
`mine`, `changed` the protected route with its `checkingRef`. `RefreshIsSingleFlight`
is the refinement of `SingleFlight`: `leaders` are the calls that asked for a refresh,
`joined` those in the queue.

**`ChatSockets`** (`useChatNewWs.ts`). `connections` is `connectionsRef`, `ws` the
browser's sockets with what hangs on each: handlers, heartbeat, timer, `closed`. A socket
outlives its connection object. `LinksAreKept` is the refinement of `ChatLinks`, whose
`link` of an account is computed from everything that can still act for it: two such
things are the status "several", which `ChatLinks` does not know.

**`ChatPage`** (`ChatNew.tsx`). `active`, `cid`, `convs`, `msgs` are what is shown,
`convCache`, `msgCache`, `last` the three caches in refs, `inFlight` the requests, `pasted`
the pending picture with where it was pasted, `blocked` and `dialog` the blacklist mark and
its confirmation. A list of messages is its conversation, how many pushed messages it holds,
and whether one of the seller's own is among them: only then may `appendMsg` take a pushed one
for an echo (`Repeated`). An account that the page could not learn to be connected (the refresh
of the list failed) is active with nothing shown. Abstractions: an answer with messages (the
newest page) holds all that was pushed before it was asked, for older pages only prepend to
it; texts and times are no data, so any own message may repeat any other.

**`AccountLogin`** (`Accounts.tsx`, `api/accounts.ts`). `pwd` is the state and refs of the
password dialog, `submit`, `poll`, `tick`, `timer`, `cancels` its requests and timers with
what each captured, `server` the login sessions, `qr`, `closers`, `saving`, `opening` the
other dialogs as far as they share `activeModal` and `closeModal`.

**`BatchPage`, `BatchProgress`, `BatchJobs`** (`BatchPublish.tsx`; `product_publish.py`,
`automation.py`). `BatchProgress` is what the page may rely on: a batch runs, and ends
finished or stuck, for good. `BatchPage` extends it with the page: the shown batch, the
interval, the id in `sessionStorage`, overlapped status requests (`asks`, each with what
the server saw), the restoring request and a submission that may return to a page already
left. `BatchJobs` has the rows (`job`), the background task (`runner`) with each exit, and
the scheduler's retry (`retry`) that works from rows it read; `BatchesProgress` shows that
it implements `BatchProgress`, liveness included. A batch is stuck when its task was lost, or
when a service item is only a draft, whose row stays pending. A restart loses the task, and so
does an exception nobody catches (`TaskDies`): when another synchronisation holds the account's
lease, or the task's own fails, `account_sync.py:220` or `:500` rolls the session back, that
expires the rows, and `row.payload` (`:646`) raises; elsewhere an error of the database does.
Then the jobs of the remaining accounts stay pending though nothing restarted.
A page left while it submits polls on in an instance nobody sees (`BatchPublish.tsx:177`); as
requests change nothing on the server, that is no step. Nor is an answer with `success` false
(`:98-102`): the status route answers success or an HTTP error (`product_publish.py:734-763`),
which is `PollFails`.

**`KeywordRules`** (`Keywords.tsx`, `api/keywords.ts`, `keywords.py`). `rules` are the rows,
`listed` each tab's list, `change` what a tab is doing. Adding a text rule reads the list
(`ReadList`) and saves it whole (`SaveList`); the other routes take the newest, or on
import the oldest, of the rows that fit.

**`ItemList`** (`Items.tsx`). The filter, list, selection, the one open confirmation, the
calls and the lists in flight.

**`SharedScan`** (`SharedScanPage.tsx`, `shared_scan.py`, `qr_login.py`,
`entitlements.py`). `scan` are the visitors' tabs, `worker` the stored sub-sessions, `code`
the QR logins in memory, `accounts` the owner's accounts, `polls` the status requests with
the snapshot each opened (`seen`, `was`). MySQL's REPEATABLE READ decides: the first
select of `worker_status` opens the snapshot, so neither the refresh under the lock nor the
count under the owner's row lock sees what was committed since. Abstractions: the owner is
no administrator and has only these accounts; a code whose time ended while `_monitor` waits is
"overdue" (`status` says expired, `_monitor` may still end it otherwise); a confirmed code yields a cookie and an
account id; the expiry of the shared session is a refusal to join; `SharedScanManager.tsx`
only lists, creates and deletes.

**`Workbench`** and **`Pages`** put parts side by side that share no variable and meet only
in the backend, whose answers are arbitrary in each part. Every behaviour of the whole is
then, for each part, one of that part with stuttering, so one part, chosen at the start,
acts and the others rest; the state space is a sum and not a product. The actions under
fairness of a part that rests are disabled in its initial state. `Workbench` holds
the parts with liveness properties, `Pages` those without and the larger instance of
`SharedScan`.

History variables record the orders the code does not guard against, and what ought to hold.
`late`, `crossed`, `overwritten` and `passed` also end their instance, so nothing after them
is looked at:

| variable | what it records, and the code that allows it |
|---|---|
| `overlap` (`WebSession`) | a sign-in or sign-out while a refresh or verification was in flight: `updateTokens` and `setAuth` write the store unasked |
| `missed` (`WebSession`) | an effect dropped by `checkingRef` |
| `late` (`ChatPage`) | an answer applied to what was no longer shown |
| `crossed` (`AccountLogin`) | a late `closeModal` or `setActiveModal` fell on the password dialog |
| `overtaken` (`BatchPage`) | the page took an answer about an earlier state or another batch; reset when the page is opened again |
| `overwritten` (`KeywordRules`) | a list was saved that lacked another tab's change |
| `passed` (`SharedScan`) | a tab took an answer older than what it shows |
| `missed` (`ChatPage`) | a conversation with a pushed message that a list may lack: for the reasons `Lost` names, because a load failed, or because `appendMsg` took one of the seller's own for another with its text shown less than five seconds apart (`Repeated`) |
| `overlapped` (`SharedScan`) | an account was added by a request whose snapshot lacked another |
| `halted`, `unclear` (`BatchJobs`) | batches whose task was lost, or that have a draft; items the platform listed and failed to say so |
| `known` (`KeywordRules`), `got` (`ChatPage`) | what should be there; of the messages the page added itself, `got` does not count the echoes |

Each exception is a hazard of `PROJECT.json`; what is shown is that the model has no further one.

## 6. Runs

| run | instance | shows |
|---|---|---|
| `CardDelivery_concurrent` | 2 sessions, 2 orders, 2 requests (live, scan), all 16 settings, 2 messages per card, refusals, a cancellation, a slow delivery under the sweep, a crash; requests of order 1 may overlap | `SentMeansWhole`, `DeliveredIsReal`, `ShippedMeansConfirmed`, `OnlySendCardNeverConfirms`, `NoAttemptAfterSent` |
| `CardDelivery_serial` | 1 session, 3 requests of every kind, 2 lines with order 2 needing both, refusals and lost acknowledgements, a crash | `TypeOK`, `LineSoldOnce`, `NoLineLost`, `FailedIsRetriable` |
| `CardDelivery_progress` | 2 sessions, 2 orders, overlapping scans and live events, a text card, fair | `RequestEnds`, `SendingResolves` |
| `Finding_double_send` | 2 live events of one order | `OneWholeCard` is violated |
| `Finding_line_sold_twice` | live events of two orders of one card | `LineSoldOnce` is violated |
| `Finding_stuck_sending` | 1 crash, fair | `SendingResolves` is violated |
| `OrderStatus_chat` | 2 sessions, 3 requests of every kind, 2 orders of one buyer, pages of 2, 2 messages, messages without number or item, reminders, words taken for "refunded", sent from the console too, cancellations by the seller, unmapped statuses | `TypeOK`, `Justified`, `ChatSetsBackOnlyStale`, `ChatCatchesUp` |
| `Finding_payment_not_dispatched` | live events and history pages | `PaymentDispatched` is violated |
| `Finding_wrong_order` | history pages, 2 orders of one item | `Justified` is violated |
| `WebSession_refresh` | 2 users, 1 request of the page, 2 verifications, 3 pairs of tokens, 1 reload, fair | `TypeOK`, `OneUser`, `ShownHasSession`, `RefreshIsSingleFlight`, `CallsEnd`, `RouteDecides` |
| `Workbench` | 2 password sessions, 2 accounts with 3 sockets, 2 batches with 2 polls in flight, 1 batch of 2 sellers' jobs with 2 retries, 1 visitor with 1 sub-session and 2 polls in flight, fair | `WorkTypeOK`, `PollIsCurrent`, `NoAbandonedSession`, `FollowsShown`, `NoDoubleListing`, `LoginSettles`, `LinksAreKept`, `WantedOpens`, `PageLearnsEnd`, `BatchesProgress`, `ScanSettles` |
| `Pages` | 2 accounts with 3 conversations and 5 events; 2 tabs, 2 keywords, 4 changes; 2 items of 2 sellers, 4 loads; 2 people on 2 sub-sessions with a quota of 1 and 2 polls in flight | `PagesTypeOK`, `CachesBelong`, `PushesAreShown`, `BlockedIsOfShown`, `RulesStay`, `QuotaKept`, `ImageStays`, `PlatformDeleteOwn` |

Bounds of `CardDelivery`. Two sessions and two orders are what it takes for every pair of steps to
interleave and for one scan to hold the lock another request waits for; two lines let one
delivery exhaust what another expects; two messages separate "some accepted" from "all";
the bound on requests (`MaxStarts`) gives one delivery and its retries (three in the
serial run: fail, retry, then a request after success). One crash suffices because
restarting has no procedure of its own beyond the timeout job.

Bounds of `OrderStatus`. Three requests let two of them race on what a third reads, store
a message twice and meet it; two messages give an order a payment, or a cancellation
and a contradiction, or name one order and bring the other's words. The orders of the passing run have different items: the other case
is the finding.

Bounds of the console. Three pairs of tokens are a sign-in, a refresh and another user's
sign-in, and two verifications are those of the login page and of a route. Two password
sessions are an attempt and its retry while the first is being cancelled; a third socket
closes while its account has another already. Two batches are one and its successor, two
polls let an answer be overtaken. One tab that polls twice at a time is enough for late
answers of `SharedScan`; the quota needs two people and so two sub-sessions. Five events of
the chat page leave an account with a push behind it, come back, and send. Four changes let
each of two tabs save, edit and delete over the other's.

Deadlock is checked in the runs of `CardDelivery`, `OrderStatus` and `WebSession`: `Rest`
lets the first two idle only when no request is being served, so sessions waiting for each
other's locks would be reported. `Workbench` and `Pages` stop at their bounds and where a
history variable ends an instance, so it is off there; that nothing waits forever is what
the liveness properties of `Workbench` say.

Fairness of `CardDelivery` (`FairSpec`). Weak fairness of each session's steps: the event loop runs every
ready task and each network call has a timeout (35 s or 45 s), so it ends one way or the
other. Weak fairness of the sweep: APScheduler triggers it every ten minutes. Nothing is
assumed of requests, of the buyer or of the platform's answers.

Fairness of the console. Answers may be lost any finite number of times, so the step that
takes one is under strong fairness where a client asks again (`PollAnswer`, `TickEnds`,
`StatusArrives`): not every answer is lost. A call of `WebSession` is under strong fairness
because the instance's calls take turns, and the refresh because axios sends it without a
timeout: that it ends is an assumption on browser and network. A socket's timer and its
opening are strong, since the instance may for a while have no socket to spare and the
server may refuse some attempts, not all. Intervals and effects fire, requests of the server
end (the runtime's call in `_notify_runtime` has twelve seconds), and a background task goes on while its
process lives and nothing it does not catch is raised: weak fairness. Nothing is assumed of
users, people with phones, restarts or such exceptions, which may come or not.

## 7. Findings

- **Double send.** `deliver_order` takes the row lock but checks attributes loaded before
  it, and looks for a record in progress in its old snapshot; the comment at lines
  453-454 promises the latest state. Two payment cards of an order (Xianyu sends several
  texts the code recognises) that arrive together deliver twice.
- **A line sold twice.** `_reserve_data_content` reads the lines of the payload loaded
  before the card's lock.
- **Stuck in sending.** A crash between two commits leaves an order without a record,
  which the timeout job cannot find and `deliver_order` refuses to touch.
- **A payment starts no delivery.** A history page that stores the payment message before
  its live event does (somebody has the chat open) keeps the event from starting the
  delivery, since only messages not stored before do. The same holds of an event whose message was stored twice.
- **A status on the wrong order.** A page of history that begins with the numberless
  shipping card of one order and names only another order of the same item gives that
  other order the status, though it is not paid.

Seen while modelling, without a run of their own: manual delivery, scans and redelivery
ask the websocket service for a route it does not have (`card_delivery.py:336`), so they
fail whatever Xianyu would accept; a buyer's question whether the item was already
shipped is parsed as "shipped" (`common/services/order_status.py:34`) and keeps the order
from being delivered; and if the account's messages name one order only, what the seller
writes in any other conversation is taken for that order's when it parses as a status, since
the console stores it without an item (`chat_new.py:827`).

Of the console, likewise:

- A batch's synchronisation that finds the account's lease held, or fails, is meant to be
  noted and passed over (`product_publish.py:643`); the rollback it leaves behind makes the
  next line raise, so the remaining accounts are never published and the batch stays
  "publishing" (`TaskDies`).
- Two equal texts that the seller sends from the phone within five seconds show once in the
  console until the page is loaded anew (`ChatNew.tsx:230`).
- When the list of accounts cannot be refreshed after a connection, the page shows the account as
  not connected and with no conversations (`ChatNew.tsx:319`, `:422`).
- `docs/闲鱼系统项目介绍与操作手册.md` (section 7.3) says a draft is not yet
  published; the retry counts one as a success (`automation.py:445`).
- `chat_new.py` closes a refused chat socket before accepting it, so the browser never sees
  4401 or 4403, of which the comment at `useChatNewWs.ts:101` says they stop the retries.
- The comment at `ChatNew.tsx:166-171` wants no list of one account in the cache of another;
  an answer that comes after the account was left (`:387`) is put there.
- `reserve_quota` says it locks the user's row to reserve; it counts in the snapshot from
  before the lock, so two sub-sessions finished together exceed the quota by one.
- An overtaken answer leaves the shared login page at "scanning" with its polling stopped
  after the account was saved, though its header promises to show the end; a failed face
  verification is never reported at all (`qr_login.py:348`).
- The account page's late `closeModal` calls close whichever dialog is open by then.
- Deleting or editing a general rule by keyword takes the newest row of the keyword, which
  may be an item's (`keywords.py:207`).
- `Orders.tsx` clears the selection when it asks for a list and not when the list arrives;
  rows selected in between are deleted unseen.

## 8. Proofs

Every invariant, action property and refinement that a passing run checks is also a theorem,
for all values of the constants that satisfy the named assumptions: any numbers, finite or
not, of orders, sessions, lines, crashes, users, accounts, sockets, batches, tabs. Only the
liveness properties stay with TLC. An invariant is proved from a stronger one that is
inductive, and these were tried with TLC as invariants while they were found. The proof
of a step has one case per action, under it one per conjunct the action can disturb. Where an
action is large, a lemma (`...Effect`) first says what it does to each order, request, row
or socket, and the proof goes on from that.

Fairness has no part in a proof of safety: the theorems of modules whose specification states
it go through `Init /\ [][Next]_vars` (`ScanSafely`, `LoginSafely`, ...).

### CardDelivery

`CardDeliveryProofs` and `CardLedgerProofs`, which extends it:

| theorem | property | inductive invariant |
|---|---|---|
| `TypeCorrect` | `TypeOK` | `TypeInv`: the type, and that a session which is not idle has an order and, past `CreateRecord`, a record of its own |
| `ShippedIsConfirmed` | `ShippedMeansConfirmed` | `ConfirmedInv`: a session's cached and pending statuses are shipped only for a confirmed order. Needed because a session writes what it cached |
| `SentIsWhole` | `SentMeansWhole` | `AttemptInv`: no two sessions hold the same record, a session's record is of its order, and `loc.sent` is the record's `got` until the last message |
| `DeliveredMeansAccepted` | `DeliveredIsReal` | `DeliveredInv`: a content "card" in a row or in any cache has a whole record, and whole records stay whole (`NextKeepsWhole`) |
| `OnlySendCardIsQuiet` | `OnlySendCardNeverConfirms` | `QuietInv`: with only_send_card no session is at a confirming step; `NormaliseExcludes` says what the normalisation makes of any stored combination |
| `SentIsFinal` | `NoAttemptAfterSent` | `LedgerInv` (`LedgerHolds`): of an order nobody else works on, a session's copy is the row (`KnowledgeInv`); a sent attempt shows in the row it is checked by (`SentInv`); what the timeout job is about to mark, it read of attempts that were left alone, or they are overtaken (`SweepInv`) |
| `FailureIsOpen` | `FailedIsRetriable` | `RetryInv`: where nothing crashes and no delivery outlasts the job, nothing times out, and the pending status of every attempting session is an open one |
| `OneAtATimeSellsOnce` | `LineSoldOnce`, if `OneAtATime` and the initial lines differ | `HoldInv` (a session's copy of the card is the card, what it holds are its record's lines) and `LinesApart` (stock, held lines and sent records are disjoint) |
| `OneAtATimeKeepsLines` | `NoLineLost`, if `OneAtATime` | `AllAccounted`: every initial line is in stock, held, or in a record that did not fail |

`OneAtATime` (there is one session) is a hypothesis of two theorems and no assumption about
the code: with two sessions the code does sell a line twice (`Finding_line_sold_twice`), and
the run that checks these two properties has one session too. That the initial lines differ says
that the seller did not store one secret twice. A first attempt at `SentIsFinal` failed for a good
reason, and the property was restated: with `SlowDelivery` the timeout job may have read an
attempt before it failed, and write "timeout" over the order after a later attempt was sent
(`Overtaken`); then a scan delivers again. The bounds of the run are too small for it to
happen. `FailedIsRetriable` excepts slow deliveries and crashes for the like reason.

Of the assumptions, those on types, on `Order` as positive numbers and on the initial
statuses are used.

### OrderStatus

`OrderStatusProofs`, from `OrderAssumption`, `ItemAssumption` (every order has an item that
differs from `Unsaid`), `StatusAssumption`, `JobAssumption` and `BoundAssumption`:

| theorem | property | argument |
|---|---|---|
| `TypeCorrect` | `TypeOK` | inductive as it stands |
| `ChatNeverSetsBack` | `ChatSetsBackOnlyStale` | only `Commit` leaves "write" (`WriterCommits`); `MergeRises`: the rule never lowers a status nor moves a settled one |
| `ChatKeepsUp` | `ChatCatchesUp` | of any set of messages one is decisive (`BestIsOne`, by well-foundedness of the naturals) and none ranks above it; `OneLive`: a live event is about one message |
| `StatusJustified` | `Justified`, if `ItemOnce` | `Inv`: every message is true of its order or conversation or is one of the vague ones, and carries no other conversation's item (`Told`), every snapshot and list held by a session was (`Holds`), a session that delivers does so for a payment of that order (`Paying`). Needed because what is written was read long before |

`ItemOnce` (no two orders of one item) is an assumption of `StatusJustified` alone, and
without it `Finding_wrong_order` shows the property violated.

### The web console

| module | theorem | property | inductive invariant, and what it adds |
|---|---|---|---|
| `WebSessionProofs` | `TypeCorrect`, `SessionOfOneUser`, `ShownPageHasSession` | `TypeOK`, `OneUser`, `ShownHasSession` | `IInv` (`SessionInvariant`): a refresh in flight was asked for by one call, and calls wait only meanwhile (`FlightInv`); a page without a session has its effect still to come, and nothing left to sign in with (`ShownInv`); until a sign-in or sign-out crosses them, checks belong to the mounted route (`WhoseChecks`) and all tokens that may still reach the store to one user (`OneOwner`) |
| | `RefreshRefines` | `RefreshIsSingleFlight` | every step of the calls is a step of `SingleFlight` or none |
| `WorkbenchProofs` | `LoginTypeCorrect`, `PolledIsCurrent`, `NoSessionForgotten` | `PollIsCurrent`, `NoAbandonedSession` | `LoginInv`: one attempt is current (`OneAttempt`), a submission or poll in flight is of the form shown (`SubmitIsShown`, `PollIsShown`), and ids stay in range as every attempt needs a dialog that was opened (`Bounded`) |
| | `SocketsKeepLinks`, `WantedIsLinked` | `LinksAreKept` | `LinksInv`: the socket of a connection is its account's and connects, is open and beats, or is closed and waits; a socket that no connection holds is spent. So `Live` is the connection's socket alone (`LinkIsConnection`) |
| | `WorkIsParts`, `WorkTypeCorrect`, `WorkbenchIsSafe` | `WorkTypeOK` and all of the above together | a step of the workbench is one of the part that was chosen |
| `BatchProofs` | `PageTypeCorrect`, `ShownIsFollowed` | `FollowsShown` | `PageInv`: a page that was left shows, polls and awaits nothing (`AwayIsQuiet`), requests are about a batch (`AboutABatch`) |
| | `JobsTypeCorrect`, `ListedNotTwice` | `NoDoubleListing` | `JobsInv`: the jobs a task has yet to start are pending (`StillWaiting`), those the retries hold have failed (`RetriesFailed`), so they never meet; a job that is to be listed was not, unless `unclear` (`ListedOnce`). A stuck batch has lost its task or has a draft |
| | `JobsKeepStages` | safety part of `BatchesProgress` | every step takes one batch to its next stage (to "stuck" when its task dies or a job ends as a draft), a restart several to "stuck", or none |
| `SharedScanProofs` | `ScanTypeCorrect`, `QuotaIsKept` | `QuotaKept` | `ScanInv`: requests are about sub-sessions with a code (`AsksAboutOne`), a stored account stays a success (`SavedStays`), and accounts are added one by one to a finite set (`QuotaInv`), so that counting them means something |
| `PagesProofs` | `RulesTypeCorrect`, `SavedRulesStay` | `RulesStay` | `RulesInv`: ids are given once and below `nextId`, so equal ids are equal rows, also in the lists of the tabs |
| | `ListTypeCorrect`, `PlatformDeletesOwn` | `PlatformDeleteOwn` | `ListInv`: while the platform's confirmation is open, the selection stays within what it named, and that is of the chosen account (`PlatformNamed`) |
| | `ChatTypeCorrect`, `FiledWhereItBelongs`, `EveryPushIsShown`, `MarkIsOfShown`, `PictureStays` | `CachesBelong`, `PushesAreShown`, `BlockedIsOfShown`, `ImageStays` | `ChatInv`: what is shown is in its cache (`Synced`); each conversation's list has all its pushes or is being loaded (`Counts`, `Complete`); the picture, the status asked and the conversation are those of what is shown (`Waiting`, `Placed`) |
| | `PagesAreParts`, `PagesTypeCorrect`, `PagesAreSafe` | `PagesTypeOK` and all of the above together | as for the workbench |

The assumptions are few: the bounds are numbers (`LoginAssumption`, `JobsAssumption`,
`ScanAssumption`, and parts of `ListAssumption`, `RuleAssumption`, `ChatAssumption`), batches
are positive (`BatchAssumption`), and the values that stand for nothing (`NoSocket`, `None`,
`General`, `All`) are not among those they are told from. `WebSession` needs none.

### Only model-checked

- `RequestEnds`, `SendingResolves`, `CallsEnd`, `RouteDecides`, `LoginSettles`, `WantedOpens`,
  `PageLearnsEnd`, `ScanSettles`, and that batches end (the liveness of `BatchesProgress`):
  the prover handles neither fairness nor `ENABLED`.
- `BestFolds` of `MCOrderStatus`, which compares `Best` with a fold over sequences: induction
  over data.
- `LineSoldOnce` and `NoLineLost` with several sessions, where the first is violated.

## 9. Not modelled

By component, as in `PROJECT.json`:

- **Account runtime, renewal, sync lease, scheduler registry, auto reply, cloud
  authentication, distribution, invites**: planned (section 2). Their hazards worth a model
  are: two starts of one account (`xianyu_runtime.py:463`), requests in flight when the
  connection is lost (`:290`), events acknowledged before their hand-over (`:810`); a cookie
  written from a row read minutes before (`account_renewal.py:102`); a lease outlived by its
  holder (`account_sync.py:218`); overlapping runs that clear one flag (`registry.py:84`) and
  a Redis lock deleted after it expired (`automation.py:77`); a session revision read and
  written in two statements (`auth_store.py:688`); balances and lines spent twice
  (`distribution.py:560`, `:521`).
- **Orders, settings, cards, monitor, admin and log pages** of the console: a form or a
  table over one request. The
  payment dialogs wait for a recharge the backend never marks as paid (the provider's
  notification is always refused), so there is nothing to follow.
- **Parts of modelled pages**: further pages of lists, quick phrases and recall in the chat;
  list, switches and batch dialogs of the accounts; editing, polishing and relations of
  items; registration and captchas; the choice of materials in a batch; clearing the publish
  log while a batch runs (`product_publish.py:903`), after which the task's rows are gone and it
  ends as in `TaskDies`.
- **Platform client, field mapping, launcher, installer, dialogue packs**: I/O, operating
  system calls and data generation. Their outcomes are choices of the models that use them.

The models translate the code that decides something across steps. Most of the frontend's
66,000 lines are markup, formatting and single requests, which a model abstracts to nothing;
so the mapped share of them stays small (about 3 %), and mapping more would name lines that no
definition translates.
