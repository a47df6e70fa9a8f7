# Sohojogi backend: a verification project

The repository is the backend of a marketplace for neighbourhood shops: a NestJS
application over MongoDB (Mongoose), served from one Node.js process
(`src/main.ts`) or from serverless instances (`api/index.ts`). This directory
holds TLA+ modules translated from that code, TLC configurations that check
them on small instances, and theorems that TLAPS proves for every instance.

Everything hard in this code comes from one pattern. A handler *reads* a
document, *decides* in memory, and *writes* later, with an `await` at every
database call. Requests interleave at every await (on one event loop or across
instances), no write carries a condition on what was read, no transaction spans
two writes, and a handler may die between any two of them. What is then still
true, and what is exact only while nobody else is writing, is the subject of
the modules.

## 1. Inventory

| Component | State it keeps | Operations | What is hard | What makes it correct |
| --- | --- | --- | --- | --- |
| Baki ledger (`ledger/`) | ledger entries: amount, repaid amount, due date, status, score impact | `createDue`, `recordRepayment`, two listings | four awaits in `recordRepayment`; the score is saved before the entry | repayments are neither lost nor invented; status agrees with balance; a paid entry was scored |
| Credit score (`users/`, `bakiScore`) | one number, 0 to 1000, per user | `updateBakiScore` | read-modify-write from many entries at once, clamped | the score is the start plus the impacts |
| One-time codes (`otp/`) | code documents: hash, expiry, attempts, `consumedAt` | `requestOtp`, `consumeOtp`, `verifyOtp` | retire-then-insert, read-then-save, expiry and the TTL index, mail that fails | a code is used once, answered at most `OTP_MAX_ATTEMPTS` times, and replaced by the next |
| Email (`email/`) | none | `sendMail`, `sendOtp` | the provider refuses or times out | a failure reaches the caller |
| Authentication (`auth/`) | in the user document: password, `emailVerifiedAt`, `refreshTokenHash` | register, login, verify, resend, forgot, reset, refresh, logout, change password | a refresh under way during a logout; two password writes; several writes per flow | a session comes from an answered code, and ends when it is ended |
| Users (`users/`) | the user collection, a unique index on the email | create, find, updates used by the others | check-then-insert | one account per email |
| Super-admin seeder (`users/`) | none of its own | create the account of `SUPER_ADMIN_EMAIL` at every start | several instances start at once, and a client may register that email | the account of another is never replaced |
| Merchant onboarding (`registration/`, `admin/`) | `merchantProfile` inside the user document | draft, submit, status, list, approve, reject | an approval checks a status it read earlier; resubmission in between | status, dates, reviewer and rejection tell one story |
| Group buys (`sourcing/`) | group buys: target, current quantity, participants, status | `createGroupBuy`, `joinGroupBuy`, listing | participants are pushed, the quantity is overwritten | the quantity is what the participants asked for |
| Catalog and orders (`sourcing/`) | catalog items, wholesale orders | create, list | nothing: one read, one insert | minimum quantity is respected |
| Storefront (`storefront/`) | stores (unique per merchant), products | `upsertStore`, `upsertProduct`, listings | product and alert are two writes | alerts agree with the stock |
| Stock alerts (`stock-alerts/`) | alerts, resolved or not | `checkAndCreate`, listing | upsert without a unique index | one open alert per product that is low |
| Chat (`chat/`) | threads, messages, support conversations, socket rooms | send, find or create threads, mark read, socket events | find-then-create, several rooms per socket | one thread per pair, no message lost or seen by others |
| Merchant assets (`merchant-assets/`) | asset documents, files at Cloudinary | upload, fetch | upload and insert are two steps | every document names a file |
| Admin page (`admin/admin-ui.ts`) | state of a page script | lists, details, approve, reject, support chat | answers that overtake each other, announcements that come twice or never, reloads that start reloads | what is shown is what is selected, and current |
| Bootstrap, guards, DTOs, health | none that changes | wiring, validation, roles | two cold starts at once | - |

The components meet in four places. The ledger calls `UsersService` in the
middle of a repayment. `AuthService` strings `OtpService`, `EmailService` and
`UsersService` together, each call a step of its own. The administrator's page
uses onboarding and public support, over HTTP and over a socket whose
announcements the gateway sends. Onboarding, accounts and
scores share the *user document*, but every write there is an update of
disjoint paths (or a `save()` that writes only the paths it changed), so they
do not disturb one another and each is modelled on its own fields.

The hazards this gives rise to, each at its line, are in `PROJECT.json`.

Some of these races the code loses, and no property can deny it: of two
repayments of one entry, two settlements of one consumer, two joins of one group
buy, two answers to one code, two checks of one product or two creations of one
thread, one may undo, miss or double the other, and a page shows whatever answer
came last. About them the project says three things. Where a bound survives the
race it is stated without exception (`RepaidWithinReceived`,
`ScoreWithinImpacts`, `QuantityIsPooled`, `JoinsAreKept`, `AlertsWereTrue`,
`ReadMarksAreKept`). Where exactness does not, the property says that the loss
happens there *only*: it exempts the documents, messages or calls that a history
variable has seen in the race, so it does not catch the race itself, but it does
catch the same loss from any other cause (a failure between two writes, a call
that comes later, a retry). These are `BalanceIsExact`, `StatusMatchesBalance`,
`PaidIsForever`, `ScoreIsExact`, `QuantityIsExact`, `ThreadsAreUnique`, the two
`LastMessageIsCovered`, `AssignedToReplier`, `AcceptedOnce`, `AnswersWithinMax`,
`OldCodesRetired`, `AlertsFollowStock`, and of the pages `DetailIsCurrent`,
`ListIsCurrent`, `ShowsSelected` and `SelectionKept`. And where the repository
promises the contrary, a run refutes the promise (`LedgerScoreUnexplained`,
`ReviewOverridden`, `AuthLogoutUndone`).

## 2. Modules

| Module | Models | Composes |
| --- | --- | --- |
| `Mongoose` | external: `save()` writes the paths whose value changed, unconditionally | - |
| `BakiLedger` | `LedgerService`, `UsersService.updateBakiScore` | `Mongoose` |
| `OneTimeCodes` | abstract: what one-time codes promise | - |
| `EmailOtp` | `OtpService`, the TTL index, `EmailService` as delivered or failed | `Mongoose`; implements `OneTimeCodes` |
| `AuthSession` | `AuthService`, the account operations of `UsersService`, `OtpController`, `SuperAdminSeeder` | - |
| `ApplicationLifecycle` | abstract: what an application promises | - |
| `MerchantOnboarding` | `RegistrationService`, `AdminService`, the application part of `UsersService` | implements `ApplicationLifecycle` |
| `AdminConsole` | the applications panel of the administrator's page | `MerchantOnboarding` |
| `GroupBuying` | the group buys of `SourcingService` | `Mongoose` |
| `Storefront` | `StorefrontService` with `StockAlertsService` | - |
| `ChatThreads` | the threads and messages of `ChatService` | - |
| `SupportParties` | the visitors and the calls of public support | - |
| `SupportFeed` | abstract: what public support promises | `SupportParties` |
| `SupportInbox` | the public support conversations of `ChatService` | `Mongoose`, `SupportParties`; implements `SupportFeed` |
| `SupportConsole` | the gateway's part in public support, and the support panel of the page | `SupportFeed` |
| `MC...` | constants, symmetry and run-only definitions | the module named |
| `...Proofs` | theorems and proofs | the module named, `TLAPS` |
| `ApplicationProofs` | theorems and proofs | `AdminConsole` (and with it `MerchantOnboarding`), `TLAPS` |
| `SupportProofs` | theorems and proofs | `SupportInbox`, `SupportConsole`, `TLAPS` |

How the models read:

- A *request* (call, answer, join, review) is a process with a program counter
  `pc`; its locals are variables indexed by the request. The code between two
  awaits is one action; every awaited database call is one atomic step of the
  database. `pc = "failed"` stands for every error response, and `Abort` for a
  database error or an instance that stops: the handler is gone and what it
  wrote stays. There is nothing to restart; a retry is another request.
- A document is a record of the fields that some decision reads or some
  property is about. Dates are reduced to set or unset; a due date or an expiry
  is a fact the clock makes true (`DueDatePasses`, `Expire`). Names, notes,
  forms, messages and responses are left out.
- Variables marked *history* are not in the code. They record what happened
  (`received`, `scored`, `accepted`, `pooled`, ...) and which documents two
  requests held at once (`contended`, `contested`, `overlapped`, `raced`), or
  whether a page's requests lost their order (`disturbed`). No guard reads
  them, except that abstractly `ApplicationLifecycle` says by
  `contested` when a verdict may replace another.
- An operator marked `MUTANT` is a bug that a change might introduce: a run of
  the named property with it in place of the operator below it fails. No
  specification uses it.

### BakiLedger

`CreateDue` is `createDue` (users are never deleted, so its check of the
consumer and its insert are one step). `recordRepayment` is `FindEntry` (or
`RejectUnknownEntry`), `ComputeRepayment` (lines 50 to 57, up to the next
await), `FindConsumer` and `SaveScore` when the entry is now paid, and
`SaveEntry`. `Saved` is what `entry.save()` writes: a path whose value the
handler did not change keeps what the database has by then.

### EmailOtp

`requestOtp` is `Retire` (the `updateMany`, an update of the few documents of a
key, taken as atomic), `Stamp` (`createdAt` and `expiresAt`, given by the
application), `Insert` and `SendMail`. `consumeOtp` is `FindCode` (or one of the
two rejections) and `SaveAnswer` (or `SaveMissing`, when the TTL index removed
the document). Time stamps are distinct and taken in the order of one clock;
stamps of the same millisecond, or of instances whose clocks differ, are not
modelled.

`OneTimeCodes` is what the flows that use the codes may rely on: a code is
issued once, retired, used or expired for good, and an answer is accepted only
for a code that was valid when it was found. In the refinement mapping a code is
valid while `findOne` would return it were it the newest of its key; an answer
that saves a copy read before the code was retired must then be a step that
leaves the code dead, which it is since `save()` writes only changed paths
(`consumedAt` is never written back to unset).

### AuthSession

One action per step of a flow: `Register`, `CreateUser`, then a code is
requested (`RequestCode`, `RetireCodes`, `IssueCode`), answered (`AnswerCode`,
`ConsumeCode`) and used (`MarkEmailVerified` or `LoadUser`, then `Grant`; or
`ResetPassword`). `Refresh` and `Grant` are `refresh`; `Logout`,
`ChangePassword` and `UpdatePassword` are what they say. Of the codes only
those that can be answered are kept; any of them may be answered right, where
`consumeOtp` takes the newest, so the module allows what the code does and
more. These codes are the module's own: it neither extends nor instantiates
`EmailOtp` or `OneTimeCodes`, and no refinement connects them.

The seeder runs at every start of an instance, so it is a call like the others:
`Seed` is its look-up, `SeedUser` the insert that no code follows. Seeders of
instances that start at once, and registrations of the configured email, meet
on the unique index (`CreateDuplicate`).

A token is named by the call that made it. `Accepts` models the comparison of
a refresh token with its hash by what it does: `bcrypt` (a dependency, version
6.0.0) reads 72 bytes of its input, a token starts with a fixed header of 37
characters followed by the encoded payload, whose first field is the 24-digit
user id, and so every refresh token of a user begins with the same 72 bytes.
An account has a session (any hash) or has none, and refreshing on one device
does not sign out another: `TokensWorkUntilEnded`.

### MerchantOnboarding and ApplicationLifecycle

Every write is one `findByIdAndUpdate`, so drafts and submissions are one step.
A review is `BeginReview` (the read and its check) and `WriteReview`.
`ApplicationLifecycle` decides in one step, and only what is under review,
unless several administrators held the application at once; the refinement
mapping takes the status out of the profile. The form's content is left out.

### AdminConsole

The applications panel of the page, on top of `MerchantOnboarding`, whose `Next`
it runs beside the page (`Others`: merchants, handlers, reviews from other
pages). A function of the script is cut at its `await`: the first half changes
the page and sends a request (`ChooseFilter`, `Click`, `Decide`), the second
half runs on the answer (`ListArrives`, `DetailArrives`, `VerdictArrives`), on
whatever is selected by then. `http` holds the requests under way in the order
they were sent. The server may serve them, and the answers may arrive, in any
order; each may fail (`RequestFails`). A verdict of the page is a review of
`MerchantOnboarding`, checked and written by its steps.

Nothing in the script discards a late answer, so what the page shows after its
requests overtook each other may be anything. `disturbed` records that, until the
operator asks for the list again with nothing under way. `since` records the
statuses an application has had since the page asked last: what a page that was
not disturbed shows at rest must be one of them. That is more than it seems to
be: every verdict reloads the list with the filter of the moment, and the list
selects a merchant and reloads his details, and all of these chains may be in
flight at once.

### GroupBuying

`joinGroupBuy` is `FindGroupBuy` and `SaveJoin`: the participant is pushed into
the array the database has, the quantity is overwritten. Nothing states that
quantities are not lost, because they are: `QuantityIsExact` speaks of the group
buys that no two merchants joined at once, as `BalanceIsExact` does of the
ledger's entries.

### Storefront

`upsertProduct` is `FindStore` (or `RefuseWithoutStore`), `WriteProduct` (or
`RefuseProduct`, when the product is another merchant's) and the check of the
alerts: `ResolveAlerts`, or `UpdateAlert`, or `FindNoAlert` and `InsertAlert`.
An upsert on a field without a unique index is not one step: two that find no
open alert both insert one. The figures a check works with are those its own
write returned, however old they are by then. An alert is named by the call
that inserted it. What a product is called and costs is left out; a product is
low at its threshold and below.

### ChatThreads

`sendMessage` finds or creates a thread (`SendDirect`, `SendToGroup`,
`SendToThread`, then `CreateThread` or `JoinGroup`), inserts the message
(`InsertMessage`), takes the date (`StampThread`) and saves it (`SaveThread`).
`SendSupport`, `OpenSupport` and `ReplySupport` are the support threads of
dealers, `BeginRead` and `MarkRead` are `markRead`, whose `updateMany` is taken
as atomic. Threads and messages are named by the call that made them. The date
`lastMessageAt` is represented by the messages that were stored when it was
taken: a date covers a message when it is not before it.

Four things the code does are kept as they are. The filter of a plain message
asks only for the two participants, so it finds their support thread as well.
A message to oneself asks for a thread of two with the sender in it twice,
which any direct thread of the sender satisfies. And the receiver of a support
message is the first participant whose text differs from the dealer's id: the
participants of a thread that was found are populated documents, which never
read like an id, so the first of them is taken, the dealer himself. And
`sendMessage` stores the receiver of the request whatever thread it has resolved
(line 38): only the path that looks for a direct thread (lines 317 to 334)
relates the two. A message sent to a thread by its id, or to a group, may name a
user who does not take part, and `getMessages` returns him with it. `SendToThread`
and `SendToGroup` therefore take any receiver. `addressed` records the calls whose
thread follows from their receiver, or the other way round (`SendDirect`,
`SendSupport`, `ReplySupport`), and `AddressedMessagesArrive` speaks of these alone.

### SupportInbox

A conversation is found or created by its visitor; the unique index makes the
second of two creations fail (`RefuseDuplicate`). Replies and messages save the
copy they read: `Saved` keeps the stored administrator unless the reply changed
the one it had read. A reply whose author is already the administrator of its
copy therefore does not take the conversation back from a colleague who replied
in between: this is the one case that `contested` exempts in
`AssignedToReplier`.

`SupportFeed` is what a user of the service may rely on: conversations open
once, a call adds at most one message to an open conversation, messages are
kept, and a call answered with success has its message there. The refinement
mapping takes the conversations, messages and answers out of the collections
and the program counters.

### SupportConsole

The path of a message to an administrator's screen, on top of `SupportFeed` (so
that the handlers' steps are not part of it). `Announce` is
`handlePublicSupportMessage`: the message goes to the room of its conversation
and to the room of all administrators, so a page in both hears it twice
(`Copies`). `Hear` is the page's listener, which appends the message if its
conversation is selected and reloads the list; `ListArrives` selects again and
fetches the messages; `MessagesArrive` replaces what is shown. `Reply` goes over
HTTP when there is no socket, where nothing is announced. The socket drops with
what is on its way (`Disconnect`) and comes back outside the conversations'
rooms.

As in `AdminConsole`, `disturbed` records that requests of the page lost their
order. `expected` are the messages that an undisturbed page has been told of, or
that were stored when it asked: `ShowsSelected` says that it shows those of the
selected conversation, and no others.

## 3. Runs

| Run | Bounds | Question and answer |
| --- | --- | --- |
| `LedgerConcurrent` | 2 entries, 3 consumers, at 1000, at 10 and at 500, 2 repayments, amounts 1 and 2, fair handlers | What holds in every interleaving: nothing is credited that was not repaid, a paid entry was scored, no impact is invented. Where no two requests met, balance, status and score are exact and a paid entry stays paid. A covering repayment settles its entry. |
| `LedgerScoreUnexplained` | 2 entries, 2 repayments | Refutes "exact history of what affected their score": repaying a paid entry scores it again. |
| `OtpConcurrent` | 2 keys, 2 requests, 3 answers, 2 attempts | The codes implement `OneTimeCodes`: retired and used codes stay dead whatever copy is saved. Nobody is locked out early, a code outlives the next one only when their requests overlapped; without two answers at once, a code is accepted once and answered at most `MaxAttempts` times. |
| `AuthConcurrent` | 1 account, the super-admin's, 5 calls, 2 passwords | Sessions come from codes; an ended session stays ended unless a call was under way; tokens work until then; passwords are replaced by their owner. |
| `AuthLogoutUndone` | 1 account, 4 calls | Refutes "clears session": a refresh under way restores it. |
| `ReviewConcurrent` | a page with 2 requests under way at most and 2 filters, 2 merchants, 2 reviews | At rest and undisturbed, the page shows the details of the merchant it has selected, the list is that of its filter, and both are as current as its last request. Under the page's verdicts and others, profiles stay coherent and onboarding implements the lifecycle. |
| `ReviewOverridden` | 2 merchants, 2 administrators, 2 reviews | Refutes "only applications under review can be approved". |
| `GroupBuyConcurrent` | 2 group buys, 4 joins, quantities 1 and 2, targets 2 and 3 | Participants are kept, the quantity never exceeds what they asked for, and is exact where no two joins met. |
| `ChatConcurrent` | 3 users (a dealer and an administrator among them), 1 group buy, 3 calls | Messages stay among the participants of their thread; one sent to a user, or in dealer support, is in a thread of the two alone (one sent to a thread or a group may name anybody, and is not spoken of); threads are doubled only by calls that met; read marks are kept; the date of a thread covers every message that was answered with success, but for those sent while another one was. |
| `SupportConcurrent` | 2 visitors, 2 administrators, 4 calls | A conversation is assigned to the first administrator or to one who replied, and to the last one unless two administrators replied at once: no visitor's stale copy takes it back. The unique index refuses only a call that met another, and its retry succeeds. The date of a conversation covers every answered message but those that met another call. The inbox implements `SupportFeed`. |
| `SupportConsoleConcurrent` | 2 visitors, 2 calls, 2 requests of the page under way at most, fair network | No message is shown twice; a page at rest shows all messages it was told of in the selected conversation and no others; reloads keep the selection; when the operator stops, the page comes to rest. |
| `StockConcurrent` | 2 merchants, 2 products, 4 calls, stocks 0 to 2, threshold 1 | Alerts show figures their product really had; a product that no two updates met on has at most one open alert, which follows its stock once a check has ended, also after checks that failed. |

Why these bounds. A lost update takes two requests on one document; two entries
of one consumer are needed for two settlements to meet on one score, and what
more requests could add is proved for any number of them (section 4). Amounts 1 and 2 give partial, exact
and excess repayments; a score one step from each end makes both clamps apply,
in part and in full. Two attempts are the least for which the first wrong
answer locks nothing and the second does. Five calls are a registration, an
answer and three more: enough for a refresh, an end of the session and a new
login, for two password changes that meet, or for a seeder that meets a
registration. Three calls of the chat are two senders who meet and a third who
finds what they left; four calls of the inbox and of the storefront add one that
comes after all of them, as after a failed check. Stocks 0, 1 and 2 around a
threshold of 1 are below, at and above it.

For the page, two requests under way are the least that can overtake each other
(`MaxInFlight`, the one bound of a guard: the page does nothing that would
exceed it); two merchants or visitors are a selection and another one; two
messages are one that is shown and one that arrives meanwhile. The theorems on
the pages hold for any number of requests, merchants, visitors and messages. Two reviews are
two verdicts of the page, or one of it and one from elsewhere.

There are no other counters to cap: the
calls are finitely many, and each ends. For that reason runs in which every
call may have ended are checked with `CHECK_DEADLOCK FALSE`; onboarding never
stops and neither does `upsertStore`, so those runs are checked for deadlock.

Symmetry is used only in runs without temporal properties that fairness or
leads-to make sensitive to it (`PasswordReplacedByOwner`, `ImplementsCodes`,
`ImplementsFeed` and `ImplementsLifecycle` are safety properties of steps,
symmetric in the permuted sets); the runs with liveness, `LedgerConcurrent` and
`SupportConsoleConcurrent`, use none.

Fairness. `BakiLedger!FairSpec` is weak fairness of every handler's next step
(`Handle`), and `MerchantOnboarding!FairSpec` of the write of a review: the
event loop runs a continuation whose await has resolved. Failures remain
possible at every step, and nothing obliges a client to call or an
administrator to decide. `SupportConsole!FairConsoleSpec` is weak fairness of
the page's listener (an announced message that is not lost is heard) and of the
network (a request is served and answered, or fails): browsers end requests one
way or the other. It does not oblige anybody to write, click or connect, nor a
call of the service to end; and `ComesToRest` supposes that the operator stops
clicking, without which no page rests. Messages may go on arriving as long as
there are calls to write them.

## 4. Theorems

All proofs are checked by TLAPS with no assumption beyond the `ASSUME`s of the
modules: amounts, quantities and targets are positive, start scores lie in
0..1000, absent values are not values (no call is `None`, no details are
`NoMerchant`).

- `BakiLedgerProofs`. `LedgerInvariant` proves the inductive invariant
  `LedgerInv`: types, the four properties of every interleaving, and
  `SnapshotsBounded`, which says what the copies in a running request may be
  however old they are. It is needed because a stale copy is what a step
  writes: "repaid is at most received" is preserved by `SaveEntry` only since
  the copy it saves was bounded by what had been received *by then*, which can
  only have grown. From it follow `TypesHold`, `RepaidNeverExceedsReceived`,
  `PaidEntriesWereScored` and `ScoreStaysWithinImpacts`. A second invariant
  says that a request alone on an entry holds the copy the database holds; it
  gives `BalanceExactUnlessContended`, `StatusExactUnlessContended` and the
  action property `PaidStaysPaidUnlessContended`. A third says the same of a
  score that one request at a time moves, and gives `ScoreExactUnlessContested`.
- `ApplicationProofs`, of the handlers. `ReviewInvariant` adds to the invariants
  that a review about to write on an application that is not contested holds it
  alone and that the application is still under review; this is what makes
  `WriteReview` a step of the lifecycle in `OnboardingRefinesLifecycle`.
  `ApplicationsAreCoherent` is the coherence of the profile, and
  `VerdictsFollowSubmission` says that no draft is ever decided (it holds by
  what the lifecycle allows, so no run asks it).
- `ApplicationProofs`, of the page. `PageInvariant` speaks of the sequence `http`
  of the requests under way, of any length, and holds in every order in which
  they may be served and answered. While the page is not disturbed, requests are
  served in the order sent (`ServedInOrder`); the list that was asked for last is
  the one of the chosen filter, and once answered it is fit to be shown
  (`ListsFit`); unless a list is still to arrive, the details asked for last are
  those of the selected merchant, read since the list was asked for
  (`DetailsFit`). A request that is not the last of its kind is allowed to be
  anything: what it brings is replaced. `DetailsAreCurrent` and
  `ListsAreCurrent` are what is left of that when nothing is under way.
  `ConsoleRefinesOnboarding` shows that the page adds no step to the
  applications that is not one of the handlers', hence `ConsoleKeepsLifecycle`:
  what is proved of onboarding holds end to end, from the operator's click.
- `GroupBuyingProofs`. `PoolInvariant` with the same argument on copies;
  `QuantityNeverExceedsPool`, `ParticipantsAreKept`,
  `QuantityExactUnlessContended`.
- `StorefrontProofs`. `AlertInvariant` adds to "alerts were true" that a call
  past its write holds figures the product has had, and that the product it is
  about is the caller's; the check writes from that copy alone.
  `StorefrontTypesHold` and `AlertsShowWhatWasTrue` follow. `FollowInvariant`
  speaks of the products no two calls met on (`Follows`): the one call about such
  a product holds its figures until its check ends, and inserts an alert only
  while none is open; `AlertsFollowUnlessContended` is what that leaves.
- `SupportProofs`, of the handlers. `InboxInvariant` adds to the three properties
  what a call under way holds (`CallsAreFit`: the copy it is about to save names the
  administrator it read, or its own caller), that calls which meet are recorded,
  that an administrator whom no other one met replies to the stored assignment or
  to his own (`RepliesHoldTheAssignment`), that dates about to be saved cover what
  they must (`DatesCover`), and that nobody has replied where nothing is open. A
  visitor's copy need not be fresh: saving it changes no assignment, and its date
  may miss only messages that met it. From it follow `ConversationsAreAssigned`,
  `InboxDatesCoverMessages`, `RefusalsOnlyWhenOverlapped` and the refinement
  `InboxRefinesFeed`: every step of a handler is one step of `SupportFeed`, or
  none.
- `SupportProofs`, of the page. `PageInvariant` has two parts. In any order of
  answers, what requests bring and what is shown has been stored, and nothing is
  shown twice (`AnyOrder`): two copies of an announcement and a fetch
  cannot add up, because a listener that appends looks at what is shown and a
  fetch replaces it. While the page is not disturbed, requests are served in the
  order sent, each list has the conversations of the one before, because
  conversations are never closed (`ListsGrow`), and unless a list is to be
  reloaded, the messages asked for last are those of the selected conversation
  and have all that the page owes its operator: what it was told of, but for what
  is still on the wire (`MessagesFit`, `Owed`). It is needed because
  `expected` grows when a message is announced and when a request is sent, long
  before the answer that shows it. `MessagesAreShownOnce`, `SelectedIsShown` and
  the action property `SelectionIsKept` follow, and `ConsoleRefinesFeed`: the
  gateway and the page do to public support only what `SupportFeed` allows, which
  `InboxRefinesFeed` shows the handlers to do.
- `EmailOtpProofs`. `OtpInvariant` says of every request how its stamp, its
  document and the documents of its key are ordered, and of every answer what it
  found: the attempts it read bound those it writes, and an answer alone on a
  document has read what is there. It gives `OldCodesAreRetired`,
  `CodesAreAcceptedOnce`, `AttemptsAreCounted` and, with the mapping above,
  `OtpRefinesCodes`.
- `AuthSessionProofs`. `AuthInvariant` adds to the properties what a call under
  way has established and nobody has undone (`CallFits`): a call that may open a
  session is about a user who answered a code, and whose session was not ended
  without recording the race; a password change holds the password it matched,
  unless another change met it. `SessionsNeedCodes`, `EndedSessionsStayEnded`,
  `TokensWork` and the action property `OwnersReplacePasswords` follow.
- `ChatThreadsProofs`. `ChatInvariant` adds to the properties what a call has
  established (`CallFits`: its sender may write in the thread it is about to
  write in), that a direct thread stays its two users' (`ThreadFits`), where a
  stored message must be and who has read it (`MessageFits`), that calls which
  meet are recorded (`RacesAreRecorded`) and that dates are taken in the order of
  the messages (`DatesAreOrdered`). `OutsidersStayOut`,
  `MessagesArrive`, `ThreadsOpenedOnce`, `InboxIsInOrder` and `MarksStay` are
  the properties of the run.

The type invariants of these modules are proved (`TypesHold`, `OtpTypesHold`,
`AuthTypesHold`, `InboxTypesHold`, `StorefrontTypesHold`, `ChatTypesHold`, and as
parts of the other two inductive invariants), so no run repeats them. Those of
the pages (`PageIsWellTyped`, one in each module) are also checked by the runs,
where they say what a page may select.

Every safety invariant and every action property that a run checks is thus also
a theorem. Only model-checked: `CoveringRepaymentSettles` and `ComesToRest`,
which are liveness under fairness, out of the prover's reach. The refuted
properties are checked by TLC alone, by nature.

## 5. Plan

1. Done: ledger, codes, onboarding, group buys, sessions with the seeder,
   storefront with its alerts, chat threads, the public support inbox; the
   abstract codes and the abstract feed with their refinements; the page's two
   panels, one composed with onboarding, one with the feed and the gateway.
2. Done: proofs for the ledger, onboarding, group buys, the storefront, the
   chat's threads, the inbox, the codes, the sessions and the page's two panels.
3. Left: the part of `ComesToRest` that is safety, a measure of the reloads under
   way that no step but an announcement, the socket or the operator increases;
   and what the invariants say of a page that was disturbed and has not asked
   again.

## 6. Not modelled

- Catalog and wholesale orders, merchant assets, health, bootstrap and guards
  keep no state that two calls contend for; roles never change once an account
  exists, so the guards appear as the kinds of callers a module has. That an
  upload may leave a file without a document is a hazard without a property: the
  files are an external service's, and no code looks for them.
- The gateway's rooms of threads (`message`, `support:message`, `typing`): no
  client of the repository listens to them, and nothing promises what arrives.
  What they store is `ChatThreads`. For the same reason no property speaks of
  the receiver of a dealer's support message (`chat.service.ts:237`), although
  the model takes it as the code does.
- The page's login and logout, the previews of documents and everything that is
  layout. Logging out forgets the token, the merchants and the socket, but the
  support panel keeps its conversations, selection and messages
  (`admin-ui.ts:330` to `339`), so the next administrator of the same page finds
  them until a list arrives; what a page shows across a login is not modelled. A
  draft saved after a submission
  (`users.service.ts:197`) changes a form that no decision reads.
- MongoDB is taken at its word for single-document atomicity and unique
  indexes; replication, rollbacks and clock skew are left out.
- Nothing is modelled of the product document (`doc.md`) that the code does not
  do: confirmations, credit lines, withdrawals, NID review, notifications, a
  score that falls when a due date passes unpaid. The users a message names are
  taken to exist, and what a chat lists is not modelled.
