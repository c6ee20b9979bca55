# Pascal: a TLA+ model of the umbrella rental app

Pascal is an iOS app that rents out sun umbrellas. A user signs up, types the
serial number of an umbrella, picks a card, and pays by the hour until "Stop
renting". The app talks to Firebase Auth (accounts), Firestore (one document
per user) and the Realtime Database (the node `gps`: the umbrella's place and
whether it is in use). All of its logic is in `src/Pascal/Pascal`, some 2400
lines of Swift; everything under `Pods` is third-party.

The difficulty is not in any one handler. Every handler starts an asynchronous
call whose closure, later, presents the next page *from the page that made the
call*; pages are never dismissed; UIKit silently drops a presentation from a
page that already presents something; several completions call `success()`
after `failure()`; the queues behind the calls survive disconnects, and one of
them survives restarts. What follows is a model of that.

## Components

| Component | State | Operations | Hard behaviour | Correct when | Model |
|---|---|---|---|---|---|
| Rental flow (`Renting/*`) | stack of pages, selected card, start time, timers | serial number, select and add a card, confirm, animation, stop | late, refused, repeated and resent writes; Back while a call is under way; restarts; sessions without a uuid | a ride needs a code and a card, is billed from the recorded start, and is flagged while it runs | `Rental`, `RentalContract` |
| Meter (`User.swift`, status page) | start time, two labels, two timers | `get_current_time`, `findDateDiff`, `findDateDiff2`, `calculatePayment` | strings without dates, suspension, two unsynchronised timers | the label is the tariff | `Meter` |
| Accounts (`Authenticate`, login, sign-up, settings, forgotten password) | session, `User.instance`, spinner, a queue of writes per user | log in and out, sign up, save, send links | three-step sign-up, answers in any order, automatic login, queues that outlive a session | a login ends on its page; what is announced has happened | `Account` |
| Card form and list of cards (`PaymentViewController`, `CardInfoViewController`) | `User.instance.card_object`, the global `current_page` | add a card, Done, Back | two lists share the form and `current_page`; the array is written whole, from memory that a logout keeps, under a uuid that may not be the session's | the form returns to its list; a list shows the cards there are; no card is lost | `Cards`; its place in the rental flow in `Rental` |
| User record (`User.swift`) | documents, card list | store and load | `success()` after `failure()`, nil fields, merged arrays | see the flows that use it | split over `Rental`, `Account`, `Cards`, `Meter` |
| Menu bar | the global `DispatchGroup` | buttons, log out, touch beside the menu | an animation, a main-queue block and `notify` per touch, one group for all menus | the menu is out of sight before the landing page comes, and does make way | `Landing`; its buttons and log out in `Account` |
| Landing page | markers, observers | buttons; a marker per value of `gps`; location alerts | observers are never removed, every stacked page keeps drawing, `value!` | every marker follows the umbrella | `Landing`; its buttons in `Rental`, `Account` |
| Realtime Database client (pod) | outstanding puts, listens, the copy of `gps` | put, listen, events | resends, reconnections | as the app sees it | parts in `Rental` (puts) and `Landing` (the listen) |
| Bluetooth | - | - | - | - | not modelled: dead code, see below |
| How to rent, launch animation, layout, AppDelegate | none | static | - | - | not modelled: no state |
| Other vendored pods | - | - | - | - | only where the app's calls meet them |

The components interact in three ways: pages present pages; all share the
singleton `User.instance` (written by login, sign-up, settings, card form and
confirmation, read by everything else); and all phones share the node `gps`.

## Modules

- **`Rental`**: the rental flow of any number of phones, one action per handler
  or completion. `stack[d]` is the stack of view controllers and `by`, in every
  queued call, the index of the view controller its closure captured.
  `writes` is Firestore's mutation queue (decided in order; a refused write is
  an error), `puts`, `acks` and `completions` are `outstandingPuts` of
  `FPersistentConnection`, the answers on their way and the blocks dispatched
  to the main thread. `StartDecided`, `CardDecided` and `PutCompleted` are whole
  completions, `failure()` and `success()` included, in their order.
  `applied`, `refusedStart` and the field `published` are history variables: no
  action's guard reads them. Of logging in and signing up, `Rental` keeps what
  the flow meets later: whether there is a session, and whether there is a
  uuid. A login that fails at an unverified address leaves the session
  (`SignInFails`), and so does `createUser` until its mail is answered
  (`CreateDone`, `mailing`, `MailDone`); the next login page then lets the user
  in (`ReopenLogin`), with no uuid and no restart.
- **`RentalContract`**: what the flow promises, without pages or queues: a
  rental may count as accepted only with its flag up and no stop outstanding,
  and only an outstanding stop lowers the flag. `Rental!Contract` maps
  the pages and queues to it; `ImplementsContract` says `Rental` implements it.
- **`Meter`**: one rental's clock. Times of day are what the code's strings
  can say (`hour` 0 to 12, `minute`, `half`), `Truncated` is Swift's `Int(_:)`,
  and `unread` the hour numbers that the phone's `DateFormatter` rejects (a
  strict one may not read "00 AM"). The two timers are due once a minute each,
  in any order, and late after a suspension.
- **`Account`**: sign-up, login, settings and links on one phone. An account
  is its e-mail and its uid; password, names, phone and age travel with the
  e-mail in the code and are left out. `calls` are answered in any order; a
  `create` or `mail` call takes effect on the server (`AuthServes`) before its
  answer, which may be lost or be an error. Firestore keeps one mutation queue
  per user: `writes[u]` is decided only while `u` is signed in, and waits
  across logouts and launches. Only a write of this launch has a page (`by`)
  to tell.
- **`Cards`**: both lists of cards and the form. `current_page` is the global
  that Back and the completion of a save read; `card_object` is what
  `saveCardInfo` extends and writes as a whole. A sign-in is one step, as
  touches are ignored until it ends (`Account` takes it apart), and there are
  three of them: `SignIn`; `SignInUnread`, whose document could not be read,
  which leaves session and uuid; and `SignInUnverified`, which leaves the
  session and the uuid of whoever came before. A sign-up signs in
  (`CreateDone`) before it sets the uuid (`MailDone`), whatever page is in
  front by then. A login page that loads with a session lets it in
  (`SignUpBack`, `Kill`). So a card can be saved under the uuid of one account
  while another is signed in: the write waits in the queue of the session and
  goes to the document of the uuid. `astray` is history, and names the
  accounts let in unread and those that were saved under while another was
  signed in; the owner of a card is history too, for `OwnCardsOnly`.
- **`Landing`**: the map and the menu on one phone. `main_queue` holds three
  kinds of block in the order in which they got there: an observer's
  (`value`), the start of a closing animation (`close`), and what `notify`
  held back (`landing`). `group` is the count of `global_dispatchGroup`,
  `waiting` the blocks it holds back; `closed` is history. `gps`, `wire` and
  `cache` are the node, what is on its way and the client's copy, from which
  `onDataUpdate` raises an event to every observer if there is news.
- **`MCRental`**, **`MCCards`**: symmetries and views, for TLC.
- **`RentalProofs`**, **`PublishedProofs`**, **`ContractProofs`**,
  **`MeterProofs`**, **`AccountProofs`**, **`CardsProofs`**, **`LandingProofs`**: theorems;
  **`QueueLemmas`**: facts on queues and stacks that they share.

Definitions whose names contain an underscore and a variant (`StopButton_KeepTimers`)
are mutants: what a plausible bug would make of the definition that follows.
No specification uses them.

## Runs

| Run | Bounds | Shows |
|---|---|---|
| `rental` | 1 phone, 2 start times, 9 pages, 2 calls under way | the safety invariants below, the inductive invariant, the refinement of the contract |
| `rental_live` | 1 phone, 7 pages, 2 calls | stop and confirmation reach the next page |
| `contract` | 2 phones, 2 times | the contract keeps its promise |
| `meter` | confirmations at 00:00, 11:59 and 23:00, up to 31 h on the clock, suspensions of 150 min, formatters that read all hours or not hour 00 | tariff, agreement of the labels |
| `account` | 2 accounts, 5 pages, 2 calls and writes | logins, announcements |
| `cards` | 2 accounts, 1 card number, 2 cards when one more is saved, 2 queued writes; symmetry and a view | the lists, the form, the arrays |
| `landing` | 2 places, 6 pages, 2 blocks or values under way, 2 closings under way at a time, any number of touches | markers, menus |
| `flag`, `known_user`, `midnight`, `login_document`, `foreign_cards` | the smallest that show it | each is violated: see below |

Why the bounds are enough. Nine pages let a user ride, stop, and ride again in
one launch, so that a stop of the first rental can meet the second; two calls
make the orders that matter (a repeated confirmation, a stop behind an
unanswered start, a write restored after a restart before a new one). One
phone is enough for all but `flag`, as a phone reads nothing that another
writes; the theorems are for any number. `MaxDepth` and `MaxPending`
(`MaxCalls`, `MaxWrites`, `MaxQueue`, `MaxTouches`) bound what the user and
the umbrella do, never a completion; in `Account`, logging out is not bounded
either. `MailView` tells no two states of `Rental` apart by a mail under way
once there is a uuid, as its answer then changes nothing. Five pages lead up to the settings and through every alert; all
disjuncts of all actions are taken. The meter's starts are the edges of the
12-hour clock, and its clock runs over a midnight in each case.

Two users and two writes, in one queue or one in each, make every order of an
old queue, a logout and a new login; two cards when one more is saved make a
write that overwrites another visible. `Visible` hides the pages below the top
two: pages are never dismissed, and no guard, step or property of `Cards` reads
deeper than the page that opened the form, so that two states with the same
view have the same future. It hides the depth too, which only the bound
`MaxDepth` reads, and 1000 pages are never reached: the run of `cards` visits
every state there is with any number of pages. Accounts and numbers are only compared, and the run has no liveness
property, so that both may be permuted. Six pages of `Landing` hold two menus,
so that a second one can be touched while the first is closing and the group
counts both; two values under way overtake a page that has just begun to
observe. `MaxTouches` bounds the closings under way at a time, not the touches:
when one ends the menu can be touched again, and so on without end. Of the
blocks held back for one menu the first presents the landing page and the
others only warn, so that `MaxTouches` of them stand for more (`HoldBack`).

Properties that hold:

- *Rental*: the start time is known when the animation ends
  (`StartKnownAtUnlock`); only the top page ticks (`OnlyTopTicks`); a ride needs
  a code and a card, whatever completion presents it (`RideNeedsCodeAndCard`);
  a ride is billed from the start time that the document holds or will hold, if
  it was not refused (`BilledFromRecordedStart`); while an accepted rental
  runs, its flag is up on the server as far as this phone is concerned, and no
  earlier stop is left to withdraw it, resends included (`LiveRentalPublished`);
  after Stop the page's own put is outstanding or answered, and no alert covers
  the page (`StopNeverLost`); a confirmation goes from Firestore's queue to the
  puts to the completions without a gap, and leaves them by presenting the next
  page (`ConfirmNeverLost`).
- *Meter*: `ClockReadsBack`, `TariffWithinADay`, `NeverOvercharged`,
  `LabelsAgree`, `FrozenAfterStop`.
- *Cards*: whatever was left under way by the other list, by another user or
  by an earlier launch, the form returns to the list that opened it
  (`FormReturnsToItsList`), a list on top shows the cards there are
  (`TopListIsCurrent`), and no write takes a card out of a document
  (`CardsKept`). The last exempts the accounts in `astray`, for which it is
  false: the next save of an account that was let in without being read
  replaces the array, and so does a write to its document that waits in
  another user's queue when it is sent at last.
- *Landing*: however many landing pages have piled up, the last word to each
  is the client's copy of the node (`MarkersFollow`), and the menu is out of
  sight before the landing page is presented over it (`LandingAfterClosing`).
  While the client is connected, what the umbrella wrote last is the last value
  on the wire, or else the last word to every landing page (`NewsNeverLost`). A
  touched menu on top, whose buttons are dead, always has its landing page held
  back or queued, and no alert in the way (`MenuNeverForgotten`).
- *Account*: the spinner turns exactly while a login is under way, and the
  login's page stays on top without an alert (`LoginKeepsItsPage`), so that its
  landing page is never lost; "An email has been sent to ..." is true of that address
  (`WelcomeMeansMailed`); a success alert follows a stored document although
  `success()` is also called after an error (`AnnouncedMeansStored`).
- *Liveness*: `StopReachesLanding`, `ConfirmReachesStatus`, `LoginEnds`,
  `MapFollowsUmbrella` (a marker reaches the place the umbrella wrote unless
  it moves on), `MenuClosesToLanding` (a touched menu makes way, unless it is
  touched again and again: each touch enters the group for another 0.3 s, and
  whoever taps faster than that holds the landing page back for ever). Each has a
  safety half among the properties above, which needs no fairness: what should
  happen is still on its way, and nothing is in front of it (`StopNeverLost`,
  `ConfirmNeverLost`, `LoginKeepsItsPage`, `NewsNeverLost`,
  `MenuNeverForgotten`). Only that it is then delivered rests on fairness.

Properties that documents, comments and assertions state and the code denies
(one violation run each; PROJECT.json quotes them):

- `FlagTellsRented` (`flag`): a confirmation whose start time was refused
  raises the flag without a rental, and nobody lowers it. It breaks in two more
  ways: the flag itself is refused and the rental goes on without it, as
  `success()` follows `failure()` (`User.swift:80`), and, one node being
  shared by all umbrellas, a second phone's stop lowers the flag of the first
  (`User.swift:79`).
- `PastLoginMeansKnown` (`known_user`): automatic login does not load the user.
  The run shows it after a restart. A login that failed at an unverified
  address (`Authenticate.swift:116`) and a sign-up whose mail is not out
  (`Authenticate.swift:84`) leave a session without a uuid in the same launch.
- `TariffAlways` (`midnight`): a rental across midnight has a negative price.
- `LoginFindsDocument` (`login_document`): a sign-up cut short between the
  mail and its answer makes an account whose logins trap on `data!`.
- `OwnCardsOnly` (`foreign_cards`): logging out keeps `User.instance`, and a
  login replaces the cards only if there are some: the next user is given, and
  stores, the cards of the one before.

### Fairness

Users, restarts and disconnects are never fair. In `Rental`, main-thread
blocks, animations, reconnections (`tryScheduleReconnect`) and Firestore's
decisions are weakly fair: each stays enabled until it happens. A put's way to
the server and its answer need a connection, which may drop again and again;
the client resends after each reconnection, so they are strongly fair: a
network that is up infinitely often lets one exchange through in the end. In `Account`
the answers to sign-ins and reads are weakly fair: the SDKs answer
with an error if there is no network. `LoginEnds` also relies on a session being there
after a successful sign-in: `authenticate_user_login` calls neither closure otherwise, and
touches are ignored meanwhile, so that nobody can log out in between.

In `Landing`, main-queue blocks, animations and reconnections are weakly fair,
and the arrival of a value (`DataUpdate`) is strongly fair, for the same
reason as a put. The umbrella, the user and restarts are not fair, so
`MapFollowsUmbrella` excuses a place that is overwritten and an app that ends.
Nothing makes the user leave a closing menu alone, so `MenuClosesToLanding`
excuses touches without end; it fails without that excuse.
`Cards` has no liveness property and states no fairness.

## Proofs

All theorems are proved by TLAPS for every value of the constants
(`RentalAssumption`, `MeterAssumption`, `AccountAssumption`, `CardsAssumption`,
`LandingAssumption` only: nil is no time, account or place, the valid code can
be typed, bounds are naturals, starts and naps are naturals).

- `RentalProofs`: `TypeCorrect`, then `RentalInvariant`. The invariants of the
  flow are not inductive: a completion presents a page from an index of the
  stack. `RentalInv` adds that each outstanding call's page is still of the kind that
  makes such calls (`WritesFit`, `PutsFit`, `CompletionsFit`), that pages stand on
  each other as the storyboards lead (`PagesFit`), that the start time in memory
  has not changed under a ride (`StartKept`) and is the last one recorded
  (`StartRecorded`). The proof has one lemma per group of actions. From it follow
  `StartIsKnown`, `OnlyTopPageTicks`, `RideIsEarned` and `BilledFromRecord`.
  `OnlySessionsPassLogin`: whoever is past the login page has a session. A page
  comes over the login page only by a login, by a session an earlier one has
  left, or at a launch, as every outstanding completion belongs to a payment
  page, a card form or a stopped status page (`LoginStays`).
  `ThreeWaysToLoseUuid`: in behaviours without `Kill`, `SignInFails` and
  `CreateDone`, whoever is past the login page is a user the app knows. Each
  of the three alone breaks `PastLoginMeansKnown` (run `known_user`).
- `PublishedProofs`: `LiveRentalIsPublished`, `RentalImplementsContract`,
  `OnePhoneIsFlagged`, `StopIsNeverLost` and `ConfirmIsNeverLost`.
  `PublishedInv`, relative to `RentalInv`, reads the completions and the puts of
  a device as one queue: a stop behind a confirmation was made by a page above
  its payment page (`StopsAbove`), and while the flag is down a stop is behind
  every confirmation the server accepted (`AnswersKept`). The unlock page comes
  up only over the payment page in front, which no stop can be above: so no
  stop is left, and the flag is up (`HonouringKept`). A disconnect only takes
  answers away, and a resend starts again from the oldest put, so both parts
  survive. For the refinement, `PlainTop` adds that no page before a rental has
  a start time or an accepted flag. `Lift` turns what one device's step does
  into the update of the contract's functions; then each action of `Rental` is
  shown to be one of the contract's or a stutter, with one lemma per action of
  the contract (`Unlocks`, `Returns`, `Lowers`, ...).
  `OnePhoneIsFlagged` joins `PublishedInv` with `FlagTold` (the shared flag is
  what some device last had the server take): with one phone, an accepted
  rental that unlocks or runs is flagged, always. It bears on one half of
  `FlagTellsRented`, a rental without its flag: on one phone, the flag was
  refused. The other half, a flag without a rental, is what the run `flag`
  shows.
  `StopNeverLost` is proved by way of `StopInv`, which asks for a put or a
  completion of this page, of whichever kind; `RentalInv` makes it a stop,
  since confirmations come from payment pages only. That no alert comes up is
  the other half: the alert of a refused write is presented by a payment page
  or a card form, and only if that page is in front. `ConfirmNeverLost` follows
  from `RentalInv`, queue by queue.
- `ContractProofs`: `RentalsAreHonoured`; `Honoured` with the typing is
  inductive. With the refinement, the promise holds of the rental flow.
- `MeterProofs`: lemmas on the arithmetic (`ReadBack`: a time is read as written;
  `DayOrder`, `TruncatedBound`, `HoursBegun`, `FullHours`), then `MeterInvariant`: each label is the
  one computed at the remembered minute from the start time written at
  confirmation. From it follow the five invariants, and `StopFreezes`.

- `AccountProofs`: `AccountTypeCorrect`, then `LoginIsUndisturbed`,
  `WelcomesMailed` and `AnnouncesStored`. `LoginKeepsItsPage` counts calls;
  `LoginInv` says the same without counting (at most one login, from the page
  on top). `CallInv` adds that every call and queued write names a page that
  makes such calls, and what Auth had done before it was made; both follow
  from `Grows`: no page goes away and no account goes back, until the app ends.
- `CardsProofs`: `CardsTypeCorrect`, `TopListShowsCards`, `FormReturns`,
  `NoCardIsLost`. `PageInv` ties `current_page` to the list under the form.
  `Chain` orders, for each account that is not in `astray`, its document, every
  write to it and the array in memory by prefix: each extends the one before,
  so that deciding or losing any of them keeps the order; the writes to it are
  all in the account's own queue. The array in memory counts while it is, or
  will be once a sign-up's mail is answered, under the account's uuid (`Held`).
  `NewInv` says where the order starts: an account that nobody has been signed
  in as has no cards, no writes, and is neither session nor uuid.
  `CardsStayApart` says what mixes cards: as long as nobody logs out, and the
  uuid, if there is one, is that of the session (`Matched`), every document
  holds cards of its own account only. `OwnInv` adds that the queued writes do,
  that memory holds no cards while the login page is on top, and else those of
  whoever is signed in. The run `foreign_cards` shows the first way to break
  `OwnCardsOnly`, a logout; a session under another's uuid is the second.
- `LandingProofs`: `LandingTypeCorrect`, `MapsAreCurrent`, `MenuLeavesFirst`.
  `Inv` adds to the three that a landing page on the main queue belongs to a
  closed menu (`QueueInv`), and that what is held back belongs to menus that
  are closed, closing or about to close (`HeldInv`): when the last one leaves
  the group, all of them are closed. The lemmas say what joining queues and
  taking the head does to the closings (`ClosingsAddUp`) and to the last word
  for a page (`EndsWithNews`, `EndsWithoutHead`), and that `Events` has one
  event for each landing page (`OneEventEach`), whichever order `SetToSeq`
  chooses.
  `NewsAreNeverLost` rests on `NewsInv`: once there is a landing page, a
  connected client's wire ends with the node's value, or is empty and its copy
  is that value; `MarkersFollow` does the rest. `MenusAreNeverForgotten` rests
  on `AnswerInv`, with `Inv`: no alert covers a menu, and the page on top, if it
  was touched, has its landing page held back or queued. The lemmas say which
  steps add to the touched menus (`LeavingOnlyJoined`, `LeavingOnlyRest`,
  `LeavingOnlyEnded`) and that an answer survives every step of the queue
  (`StillAnswered`, `RunAnswer`, `EndedAnswer`): what the last closing of the
  group lets go joins the main queue, and a block runs only to present its page.

Only model-checked: the five liveness properties (`StopReachesLanding`,
`ConfirmReachesStatus`, `LoginEnds`, `MapFollowsUmbrella`,
`MenuClosesToLanding`), as the prover cannot do liveness under fairness; their
safety halves are proved, see above. Every other property of a passing run is
a theorem. `OnlySessionsPassLogin`, `ThreeWaysToLoseUuid`, `CardsStayApart` and
`OnePhoneIsFlagged` are theorems that no run states: they say what holds, or
under which condition, where a property is broken by the code.

## Not modelled

- *Bluetooth.* The scene of `Bluetooth.storyboard` has no identifier, no segue
  or page presents it, and nothing else creates `BluetoothViewController` or
  `BluetoothManager`: no behaviour of the app reaches it.
- *The vendored pods* are nearly all the lines of the repository. They are
  third-party code and are modelled where the app meets them: the put queue
  and the listen of `FPersistentConnection`, Firestore's queue per user,
  Auth's calls. The map covers some 40% of the app's own Swift; the rest of it
  is layout, text fields, formatting, keyboard and table cells.
- *How to rent*: three static pages that present each other on a swipe.
  *Launch animation and AppDelegate*: configuration, and one animation before
  the login page.
- *Data*: passwords, card numbers, formatting; Firestore's security rules;
  documents other than those the app writes whole.
- *The clock*: `Meter`'s only moves forward. Times have no date, so that any
  clock that is set back, or changes its zone during a rental, changes the
  price (`User.swift:151`).
- *Two phones of one user*: `saveCardInfo` writes the whole local array, so
  that the later of two phones wins (`User.swift:94`); it is how `CardsKept`
  fails for an account that was not read.
- *The GoogleMaps SDK*: whether and when `myLocation` is announced
  (`LandingPageViewController.swift:61`) is not in the repository; a `Kill` is
  possible in every state of `Landing`.

- *A sign-in that answers without an error and without `currentUser`*
  (`Authenticate.swift:115`): `authenticate_user_login` then calls neither
  closure. Auth sets `currentUser` before it answers, and nobody can log out
  while touches are ignored.

An automatic login's presentation from `viewDidLoad` may be shown or dropped
by UIKit: both are modelled.

## Plan

Done in this order: `Rental`, `RentalContract` and their runs, `RentalProofs`
and `ContractProofs`, `Meter` and `MeterProofs`, `Account` and
`AccountProofs`, `Cards` and `CardsProofs`, `Landing` and `LandingProofs`,
`PublishedProofs`; then the safety halves of the liveness properties, and the
conditions under which `PastLoginMeansKnown`, `OwnCardsOnly` and one half of
`FlagTellsRented` hold. What is left: the condition under which
`LoginFindsDocument` holds (nothing is refused, restarted or answered with an
error between the mail and the document of a sign-up, and nobody logs in
meanwhile), a clock of `Meter` that can be set back, and two phones of one user
in `Cards`.
