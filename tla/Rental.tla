-------------------------------- MODULE Rental --------------------------------
(***************************************************************************)
(* The rental flow of the app, from the landing page to the landing page:  *)
(* the user types the serial number of an umbrella, selects or adds a      *)
(* card, confirms, watches the unlock animation, and stops renting.  The   *)
(* app records cards and start time in the user's Firestore document and   *)
(* publishes "gps/in use" in the Realtime Database; these calls are        *)
(* asynchronous and their completion closures present the next screen.     *)
(*                                                                         *)
(* Every screen is presented modally and none is ever dismissed, so a      *)
(* device keeps a stack of view controllers.  A closure captures the view  *)
(* controller that created it: here, its index in the stack.               *)
(*                                                                         *)
(* Each device has a user of its own, who signs up and in on it (several   *)
(* accounts on one device are the matter of Account and Cards); all of     *)
(* them write the one "gps" node of the database.                          *)
(***************************************************************************)
EXTENDS Naturals, Sequences

CONSTANTS
    Devices,      \* the phones running the app
    Times,        \* the strings get_current_time() can return
    None,         \* Swift's nil
    Codes,        \* what can be typed as a serial number
    MaxDepth,     \* bound: deepest stack from which the user opens a screen
    MaxPending    \* bound: database writes of one device not yet completed

ValidCode == "1234"

ASSUME RentalAssumption ==
    /\ None \notin Times
    /\ ValidCode \in Codes
    /\ MaxDepth \in Nat
    /\ MaxPending \in Nat

VARIABLES
    stack,         \* presented view controllers, bottom first
    alert,         \* an alert covers the top view controller
    session,       \* Auth.auth().currentUser is set (kept across launches)
    uuid,          \* User.instance.uuid is set
    mailing,       \* createUser has answered, the mail it leads to has not
    cards,         \* User.instance.card_object holds a card
    startRentTime, \* User.instance.startRentTime
    writes,        \* Firestore's mutation queue (kept across launches)
    doc,           \* "Start Rent Time" in the user's document on the server
    conn,          \* the Realtime Database connection is established
    puts,          \* FPersistentConnection.outstandingPuts, oldest first
    acks,          \* responses under way to the first Len(acks) puts
    completions,   \* put completions queued for the main thread
    inUse          \* "gps/in use" on the server, shared by all devices

(***************************************************************************)
(* History: what the server did with each device's writes.                 *)
(***************************************************************************)
VARIABLES
    applied,       \* the last value of "in use" the server took from a device
    refusedStart   \* the server refused the last start time it decided on

ui     == <<stack, alert>>
memory == <<session, uuid, mailing, cards, startRentTime>>
fire   == <<writes, doc, refusedStart>>
net    == <<conn, puts, acks, completions>>
server == <<inUse, applied>>
vars   == <<ui, memory, fire, net, server>>
-----------------------------------------------------------------------------
Screens ==
    {"login", "landing", "serial", "select", "card", "unlock", "status"}

(***************************************************************************)
(* A view controller: "card" is selected_payment_index # -1 of the payment *)
(* selection, "start" and "ticking" are start_rent_time and the two timers *)
(* of the status screen.  "published" is history: the write of in-use that *)
(* led to this screen was accepted by the server.                          *)
(***************************************************************************)
View == [screen: Screens, card: BOOLEAN, start: Times \cup {None},
         ticking: BOOLEAN, published: BOOLEAN]

Fresh(s) == [screen |-> s, card |-> FALSE, start |-> None,
             ticking |-> FALSE, published |-> FALSE]

Top(d) == stack[d][Len(stack[d])]

(* The user sees screen s of device d and can touch it. *)
Showing(d, s) == Top(d).screen = s /\ ~alert[d]

(* A mutant for RideNeedsCodeAndCard and ImplementsContract: UIKit         *)
(* presents over any page.                                                 *)
CanPresent_Always(d, i) == TRUE

(* present(_:animated:) by a view controller that already presents another *)
(* one, or an alert, only logs a warning.                                  *)
CanPresent(d, i) == i = Len(stack[d]) /\ ~alert[d]

PresentBy(d, i, v) ==
    stack' = IF CanPresent(d, i)
             THEN [stack EXCEPT ![d] = Append(@, v)]
             ELSE stack

Pending(d) == Len(writes[d]) + Len(puts[d]) + Len(completions[d])

-----------------------------------------------------------------------------
Init ==
    /\ stack = [d \in Devices |-> <<Fresh("login")>>]
    /\ alert = [d \in Devices |-> FALSE]
    /\ session = [d \in Devices |-> FALSE]
    /\ uuid = [d \in Devices |-> FALSE]
    /\ mailing = [d \in Devices |-> FALSE]
    /\ cards = [d \in Devices |-> FALSE]
    /\ startRentTime = [d \in Devices |-> None]
    /\ writes = [d \in Devices |-> <<>>]
    /\ doc = [d \in Devices |-> None]
    /\ conn = [d \in Devices |-> FALSE]
    /\ puts = [d \in Devices |-> <<>>]
    /\ acks = [d \in Devices |-> <<>>]
    /\ completions = [d \in Devices |-> <<>>]
    /\ inUse = FALSE
    /\ applied = [d \in Devices |-> FALSE]
    /\ refusedStart = [d \in Devices |-> FALSE]
-----------------------------------------------------------------------------
(***************************************************************************)
(* What the user does.  A touch reaches the top view controller, and only  *)
(* when no alert covers it.  MaxDepth and MaxPending bound the user's      *)
(* actions and nothing else.                                               *)
(***************************************************************************)
Open(d, s) ==
    /\ Len(stack[d]) < MaxDepth
    /\ PresentBy(d, Len(stack[d]), Fresh(s))
    /\ UNCHANGED <<alert, memory, fire, net, server>>

(* The user, whose address is verified, signs in; the user's document has  *)
(* cards or not.                                                           *)
SignIn(d) ==
    /\ Showing(d, "login")
    /\ Len(stack[d]) < MaxDepth
    /\ PresentBy(d, Len(stack[d]), Fresh("landing"))
    /\ session' = [session EXCEPT ![d] = TRUE]
    /\ uuid' = [uuid EXCEPT ![d] = TRUE]
    /\ \E saved \in BOOLEAN : cards' = [cards EXCEPT ![d] = @ \/ saved]
    /\ UNCHANGED <<alert, mailing, startRentTime, fire, net, server>>

(* The login fails, at the password or after it: an address that is not    *)
(* verified leaves the session, a document that cannot be read leaves the  *)
(* session and the uuid.  (Without a document the app traps, which is this *)
(* and then Kill.)                                                         *)
SignInFails(d) ==
    /\ Showing(d, "login")
    /\ \E left \in {{}, {"session"}, {"session", "uuid"}} :
           /\ session' = [session EXCEPT ![d] = @ \/ "session" \in left]
           /\ uuid' = [uuid EXCEPT ![d] = @ \/ "uuid" \in left]
    /\ alert' = [alert EXCEPT ![d] = TRUE]
    /\ UNCHANGED <<stack, mailing, cards, startRentTime, fire, net, server>>

(* The user opens the login page anew, by way of pages left out here, and  *)
(* its viewDidLoad finds the session that an earlier attempt has left.     *)
ReopenLogin(d) == Showing(d, "login") /\ session[d] /\ Open(d, "landing")

RentButton(d) == Showing(d, "landing") /\ Open(d, "serial")

ShowAlert(d) ==
    /\ alert' = [alert EXCEPT ![d] = TRUE]
    /\ UNCHANGED <<stack, memory, fire, net, server>>

NextButton(d, code) ==
    /\ Showing(d, "serial")
    /\ \/ code = ValidCode /\ Open(d, "select")
       \/ code # ValidCode /\ ShowAlert(d)

(* Back opens the previous page anew, on top of this one. *)
SerialBack(d) == Showing(d, "serial") /\ Open(d, "landing")

PaymentBack(d) == Showing(d, "select") /\ Open(d, "serial")

(* The last row of the payment selection leads to the card form, and the   *)
(* form's Back to a new payment selection.                                 *)
AddCardRow(d) == Showing(d, "select") /\ Open(d, "card")

CardBack(d) == Showing(d, "card") /\ Open(d, "select")

(* Done saves a complete form: saveCardInfo.                               *)
DoneButton(d) ==
    /\ Showing(d, "card")
    /\ \/ ShowAlert(d)
       \/ /\ uuid[d]
          /\ Pending(d) < MaxPending
          /\ cards' = [cards EXCEPT ![d] = TRUE]
          /\ writes' = [writes EXCEPT ![d] =
                           Append(@, [time |-> None, by |-> Len(stack[d])])]
          /\ UNCHANGED <<ui, session, uuid, mailing, startRentTime, doc,
                         refusedStart, net, server>>

(* A row exists for each card User.instance held when the page loaded; the *)
(* cards have not changed since, the form being another page.              *)
SelectCard(d) ==
    /\ Showing(d, "select")
    /\ cards[d]
    /\ stack' = [stack EXCEPT ![d][Len(stack[d])].card = TRUE]
    /\ UNCHANGED <<alert, memory, fire, net, server>>

(* A mutant for StartKnownAtUnlock: User.instance keeps no start time.     *)
ConfirmButton_SaveOnly(d, t) ==
    /\ Showing(d, "select")
    /\ \/ /\ Top(d).card
          /\ Pending(d) < MaxPending
          /\ writes' = [writes EXCEPT ![d] =
                           Append(@, [time |-> t, by |-> Len(stack[d])])]
          /\ UNCHANGED <<ui, memory, doc, refusedStart, net, server>>
       \/ ~Top(d).card /\ ShowAlert(d)

(* confirm_button_clicked at wall-clock time t, with saveStartRentTime. *)
ConfirmButton(d, t) ==
    /\ Showing(d, "select")
    /\ \/ /\ Top(d).card
          /\ Pending(d) < MaxPending
          /\ startRentTime' = [startRentTime EXCEPT ![d] = t]
          /\ writes' = [writes EXCEPT ![d] =
                           Append(@, [time |-> t, by |-> Len(stack[d])])]
          /\ UNCHANGED <<ui, session, uuid, mailing, cards, doc, refusedStart,
                         net, server>>
       \/ ~Top(d).card /\ ShowAlert(d)

(* A mutant for OnlyTopTicks: Stop forgets to invalidate the timers.       *)
StopButton_KeepTimers(d) ==
    /\ Showing(d, "status")
    /\ Pending(d) < MaxPending
    /\ puts' = [puts EXCEPT ![d] =
                   Append(@, [value |-> FALSE, by |-> Len(stack[d])])]
    /\ UNCHANGED <<ui, memory, fire, conn, acks, completions, server>>

(* stop_renting_button_clicked: the timers stop, the flag is withdrawn. *)
StopButton(d) ==
    /\ Showing(d, "status")
    /\ Pending(d) < MaxPending
    /\ stack' = [stack EXCEPT ![d][Len(stack[d])].ticking = FALSE]
    /\ puts' = [puts EXCEPT ![d] =
                   Append(@, [value |-> FALSE, by |-> Len(stack[d])])]
    /\ UNCHANGED <<alert, memory, fire, conn, acks, completions, server>>

CloseAlert(d) ==
    /\ alert[d]
    /\ alert' = [alert EXCEPT ![d] = FALSE]
    /\ UNCHANGED <<stack, memory, fire, net, server>>
-----------------------------------------------------------------------------
(* A mutant for BilledFromRecordedStart: the newest write goes first.      *)
StartDecided_NewestFirst(d, ok) ==
    LET w == writes[d][Len(writes[d])] IN
    /\ writes[d] # <<>> /\ w.time # None
    /\ writes' = [writes EXCEPT ![d] = SubSeq(@, 1, Len(@) - 1)]
    /\ doc' = [doc EXCEPT ![d] = IF ok THEN w.time ELSE @]
    /\ refusedStart' = [refusedStart EXCEPT ![d] = ~ok]
    /\ \/ /\ w.by # 0
          /\ alert' = [alert EXCEPT ![d] = @ \/ (~ok /\ CanPresent(d, w.by))]
          /\ puts' = [puts EXCEPT ![d] =
                         Append(@, [value |-> TRUE, by |-> w.by])]
       \/ w.by = 0 /\ UNCHANGED <<alert, puts>>
    /\ UNCHANGED <<stack, memory, conn, acks, completions, server>>

(***************************************************************************)
(* Firestore decides the oldest mutation.  Its completion runs failure()   *)
(* when there was an error and success() in any case: storeInUser(true) is *)
(* called after a refused write too.  A mutation restored from disk after  *)
(* a restart (by = 0) has no completion.                                   *)
(***************************************************************************)
StartDecided(d, ok) ==
    LET w == Head(writes[d]) IN
    /\ writes[d] # <<>> /\ w.time # None
    /\ writes' = [writes EXCEPT ![d] = Tail(@)]
    /\ doc' = [doc EXCEPT ![d] = IF ok THEN w.time ELSE @]
    /\ refusedStart' = [refusedStart EXCEPT ![d] = ~ok]
    /\ \/ /\ w.by # 0
          /\ alert' = [alert EXCEPT ![d] = @ \/ (~ok /\ CanPresent(d, w.by))]
          /\ puts' = [puts EXCEPT ![d] =
                         Append(@, [value |-> TRUE, by |-> w.by])]
       \/ w.by = 0 /\ UNCHANGED <<alert, puts>>
    /\ UNCHANGED <<stack, memory, conn, acks, completions, server>>

(* The same for a saved card: when the write was refused the alert, if it  *)
(* came up, stands in the way of the page that success() presents.         *)
CardDecided(d, ok) ==
    LET w == Head(writes[d]) IN
    /\ writes[d] # <<>> /\ w.time = None
    /\ writes' = [writes EXCEPT ![d] = Tail(@)]
    /\ alert' = [alert EXCEPT ![d] = @ \/ (~ok /\ CanPresent(d, w.by))]
    /\ IF ok THEN PresentBy(d, w.by, Fresh("select")) ELSE UNCHANGED stack
    /\ UNCHANGED <<memory, doc, refusedStart, net, server>>
-----------------------------------------------------------------------------
(***************************************************************************)
(* The Realtime Database client.  Puts are sent in order and answered in   *)
(* order; after a disconnect every put without an answer is sent again.    *)
(***************************************************************************)
Reconnect(d) ==
    /\ ~conn[d]
    /\ conn' = [conn EXCEPT ![d] = TRUE]
    /\ UNCHANGED <<ui, memory, fire, puts, acks, completions, server>>

(* A mutant for StopReachesLanding and StopNeverLost: what was not         *)
(* answered is not resent.                                                 *)
Disconnect_NoResend(d) ==
    /\ conn[d]
    /\ conn' = [conn EXCEPT ![d] = FALSE]
    /\ acks' = [acks EXCEPT ![d] = <<>>]
    /\ puts' = [puts EXCEPT ![d] = <<>>]
    /\ UNCHANGED <<ui, memory, fire, completions, server>>

Disconnect(d) ==
    /\ conn[d]
    /\ conn' = [conn EXCEPT ![d] = FALSE]
    /\ acks' = [acks EXCEPT ![d] = <<>>]
    /\ UNCHANGED <<ui, memory, fire, puts, completions, server>>

(* A mutant for LiveRentalPublished: puts are sent in any order.           *)
ServerPut_AnyOrder(d, ok) ==
    /\ conn[d]
    /\ Len(acks[d]) < Len(puts[d])
    /\ acks' = [acks EXCEPT ![d] = Append(@, ok)]
    /\ \E k \in DOMAIN puts[d] :
           /\ inUse' = IF ok THEN puts[d][k].value ELSE inUse
           /\ applied' =
                  [applied EXCEPT ![d] = IF ok THEN puts[d][k].value ELSE @]
    /\ UNCHANGED <<ui, memory, fire, conn, puts, completions>>

(* The server takes the next put, or refuses it. *)
ServerPut(d, ok) ==
    LET p == puts[d][Len(acks[d]) + 1] IN
    /\ conn[d]
    /\ Len(acks[d]) < Len(puts[d])
    /\ acks' = [acks EXCEPT ![d] = Append(@, ok)]
    /\ inUse' = IF ok THEN p.value ELSE inUse
    /\ applied' = [applied EXCEPT ![d] = IF ok THEN p.value ELSE @]
    /\ UNCHANGED <<ui, memory, fire, conn, puts, completions>>

(* A mutant for TypeOK: the answer stays after its put is gone.            *)
PutAcked_KeepAnswer(d) ==
    LET p == Head(puts[d]) IN
    /\ acks[d] # <<>>
    /\ puts' = [puts EXCEPT ![d] = Tail(@)]
    /\ completions' = [completions EXCEPT ![d] =
           Append(@, [value |-> p.value, by |-> p.by, ok |-> Head(acks[d])])]
    /\ UNCHANGED <<ui, memory, fire, conn, acks, server>>

(* The answer to the oldest put arrives; its completion goes to the main   *)
(* queue, after those that wait for a listen to be acknowledged.           *)
PutAcked(d) ==
    LET p == Head(puts[d]) IN
    /\ acks[d] # <<>>
    /\ puts' = [puts EXCEPT ![d] = Tail(@)]
    /\ acks' = [acks EXCEPT ![d] = Tail(@)]
    /\ completions' = [completions EXCEPT ![d] =
           Append(@, [value |-> p.value, by |-> p.by, ok |-> Head(acks[d])])]
    /\ UNCHANGED <<ui, memory, fire, conn, server>>

(* A mutant for ConfirmReachesStatus and ConfirmNeverLost: success only    *)
(* when stored.                                                            *)
PutCompleted_OnlyStored(d) ==
    LET c == Head(completions[d])
        next == IF c.value
                THEN [Fresh("unlock") EXCEPT !.published = c.ok]
                ELSE Fresh("landing")
    IN
    /\ completions[d] # <<>>
    /\ completions' = [completions EXCEPT ![d] = Tail(@)]
    /\ IF c.ok THEN PresentBy(d, c.by, next) ELSE UNCHANGED stack
    /\ UNCHANGED <<alert, memory, fire, conn, puts, acks, server>>

(* storeInUser's completion: failure() does nothing in either caller, and  *)
(* success() presents the next page whatever the server answered.          *)
PutCompleted(d) ==
    LET c == Head(completions[d])
        next == IF c.value
                THEN [Fresh("unlock") EXCEPT !.published = c.ok]
                ELSE Fresh("landing")
    IN
    /\ completions[d] # <<>>
    /\ completions' = [completions EXCEPT ![d] = Tail(@)]
    /\ PresentBy(d, c.by, next)
    /\ UNCHANGED <<alert, memory, fire, conn, puts, acks, server>>

(* The unlock animation has played; viewDidLoad of the status screen reads *)
(* User.instance.startRentTime (nil would trap) and starts both timers.    *)
AnimationDone(d) ==
    LET status == [Fresh("status") EXCEPT
                      !.start = startRentTime[d], !.ticking = TRUE,
                      !.published = Top(d).published]
    IN
    /\ Showing(d, "unlock")
    /\ PresentBy(d, Len(stack[d]), status)
    /\ UNCHANGED <<alert, memory, fire, net, server>>
-----------------------------------------------------------------------------
(***************************************************************************)
(* The app is killed and launched again.  Memory and the Realtime          *)
(* Database's queue are gone, the mutation queue of Firestore and the      *)
(* session are not.  With a session the login page presents the landing    *)
(* page from viewDidLoad, which UIKit may do or drop; the user id, the     *)
(* cards and the start time are not loaded then.                           *)
(***************************************************************************)
Relaunched(d) ==
    {<<Fresh("login")>>} \cup
    {s \in {<<Fresh("login"), Fresh("landing")>>} : session[d]}

(* A mutant for RentalInv: a restored write still has its closure.         *)
Kill_KeepClosures(d) ==
    /\ \E s \in Relaunched(d) : stack' = [stack EXCEPT ![d] = s]
    /\ alert' = [alert EXCEPT ![d] = FALSE]
    /\ uuid' = [uuid EXCEPT ![d] = FALSE]
    /\ mailing' = [mailing EXCEPT ![d] = FALSE]
    /\ cards' = [cards EXCEPT ![d] = FALSE]
    /\ startRentTime' = [startRentTime EXCEPT ![d] = None]
    /\ conn' = [conn EXCEPT ![d] = FALSE]
    /\ puts' = [puts EXCEPT ![d] = <<>>]
    /\ acks' = [acks EXCEPT ![d] = <<>>]
    /\ completions' = [completions EXCEPT ![d] = <<>>]
    /\ UNCHANGED <<session, writes, doc, refusedStart, server>>

Kill(d) ==
    /\ \E s \in Relaunched(d) : stack' = [stack EXCEPT ![d] = s]
    /\ alert' = [alert EXCEPT ![d] = FALSE]
    /\ uuid' = [uuid EXCEPT ![d] = FALSE]
    /\ mailing' = [mailing EXCEPT ![d] = FALSE]
    /\ cards' = [cards EXCEPT ![d] = FALSE]
    /\ startRentTime' = [startRentTime EXCEPT ![d] = None]
    /\ writes' = [writes EXCEPT ![d] =
                     [k \in DOMAIN @ |-> [@[k] EXCEPT !.by = 0]]]
    /\ conn' = [conn EXCEPT ![d] = FALSE]
    /\ puts' = [puts EXCEPT ![d] = <<>>]
    /\ acks' = [acks EXCEPT ![d] = <<>>]
    /\ completions' = [completions EXCEPT ![d] = <<>>]
    /\ UNCHANGED <<session, doc, refusedStart, server>>

(* saveCardInfo unwraps User.instance.uuid: without one the app traps.     *)
DoneTraps(d) == Showing(d, "card") /\ ~uuid[d] /\ Kill(d)
-----------------------------------------------------------------------------
(***************************************************************************)
(* The answers to a sign-up.  createUser signs the new user in; the uuid   *)
(* is set only when the mail is out.  The form, its page and the user's    *)
(* data on the server are the matter of Account.                           *)
(***************************************************************************)
CreateDone(d) ==
    /\ ~session[d]
    /\ session' = [session EXCEPT ![d] = TRUE]
    /\ mailing' = [mailing EXCEPT ![d] = TRUE]
    /\ UNCHANGED <<ui, uuid, cards, startRentTime, fire, net, server>>

MailDone(d, ok) ==
    /\ mailing[d]
    /\ mailing' = [mailing EXCEPT ![d] = FALSE]
    /\ uuid' = [uuid EXCEPT ![d] = @ \/ ok]
    /\ UNCHANGED <<ui, session, cards, startRentTime, fire, net, server>>

(* Each location update of the landing page presents an alert.             *)
LocationUpdated(d) == Showing(d, "landing") /\ ShowAlert(d)

UserStep(d) ==
    \/ SignIn(d)
    \/ SignInFails(d)
    \/ ReopenLogin(d)
    \/ RentButton(d)
    \/ \E code \in Codes : NextButton(d, code)
    \/ SerialBack(d)
    \/ PaymentBack(d)
    \/ AddCardRow(d)
    \/ CardBack(d)
    \/ DoneButton(d)
    \/ SelectCard(d)
    \/ \E t \in Times : ConfirmButton(d, t)
    \/ StopButton(d)
    \/ CloseAlert(d)

SystemStep(d) ==
    \/ \E ok \in BOOLEAN : StartDecided(d, ok)
    \/ \E ok \in BOOLEAN : CardDecided(d, ok)
    \/ LocationUpdated(d)
    \/ \E ok \in BOOLEAN : ServerPut(d, ok)
    \/ PutAcked(d)
    \/ PutCompleted(d)
    \/ AnimationDone(d)
    \/ Reconnect(d)
    \/ Disconnect(d)
    \/ CreateDone(d)
    \/ \E ok \in BOOLEAN : MailDone(d, ok)

Running == \E d \in Devices : UserStep(d) \/ SystemStep(d)

Next == Running \/ \E d \in Devices : Kill(d) \/ DoneTraps(d)

(***************************************************************************)
(* The user, sign-ups, disconnects and kills are not fair.  Completions,   *)
(* animations and Firestore's retries are; answers over a connection that  *)
(* drops again and again get through eventually, hence strong fairness     *)
(* there.                                                                  *)
(***************************************************************************)
Fairness ==
    \A d \in Devices :
        /\ WF_vars(\E ok \in BOOLEAN : StartDecided(d, ok))
        /\ WF_vars(\E ok \in BOOLEAN : CardDecided(d, ok))
        /\ SF_vars(\E ok \in BOOLEAN : ServerPut(d, ok))
        /\ SF_vars(PutAcked(d))
        /\ WF_vars(PutCompleted(d))
        /\ WF_vars(AnimationDone(d))
        /\ WF_vars(Reconnect(d))

Spec == Init /\ [][Next]_vars
NoKillSpec == Init /\ [][Running]_vars   \* the app is never killed
FairSpec == Spec /\ Fairness
-----------------------------------------------------------------------------
Writes == [time: Times \cup {None}, by: Nat]   \* None: a card
Puts == [value: BOOLEAN, by: Nat]
Completions == [value: BOOLEAN, by: Nat, ok: BOOLEAN]

(* The state of every device is of the kind the code gives it; a device    *)
(* always shows some page and never has more answers than puts.            *)
TypeOK ==
    /\ stack \in [Devices -> Seq(View)]
    /\ \A d \in Devices : stack[d] # <<>>
    /\ alert \in [Devices -> BOOLEAN]
    /\ session \in [Devices -> BOOLEAN]
    /\ uuid \in [Devices -> BOOLEAN]
    /\ mailing \in [Devices -> BOOLEAN]
    /\ cards \in [Devices -> BOOLEAN]
    /\ startRentTime \in [Devices -> Times \cup {None}]
    /\ writes \in [Devices -> Seq(Writes)]
    /\ doc \in [Devices -> Times \cup {None}]
    /\ conn \in [Devices -> BOOLEAN]
    /\ puts \in [Devices -> Seq(Puts)]
    /\ acks \in [Devices -> Seq(BOOLEAN)]
    /\ \A d \in Devices : Len(acks[d]) <= Len(puts[d])
    /\ completions \in [Devices -> Seq(Completions)]
    /\ inUse \in BOOLEAN
    /\ applied \in [Devices -> BOOLEAN]
    /\ refusedStart \in [Devices -> BOOLEAN]

Riding(d) == Top(d).screen = "status" /\ Top(d).ticking

(* When the unlock animation ends, User.instance.startRentTime is set:     *)
(* findDateDiff is never handed nil, which would trap                      *)
(* (CurrentStatusViewController.viewDidLoad), however late or out of       *)
(* context the completion that presented the animation ran.                *)
StartKnownAtUnlock ==
    \A d \in Devices : Top(d).screen = "unlock" => startRentTime[d] # None

(* Timers run on the top page only: a status page that another page covers *)
(* has invalidated its two timers, so no covered page keeps counting.      *)
OnlyTopTicks ==
    \A d \in Devices : \A k \in 1 .. Len(stack[d]) :
        stack[d][k].ticking => k = Len(stack[d])

(* A serial number was accepted below page k, and since then only cards    *)
(* were selected and added.                                                *)
CodeBelow(d, k) ==
    \E j \in 1 .. k - 1 :
        /\ stack[d][j].screen = "serial"
        /\ \A i \in j + 1 .. k - 1 : stack[d][i].screen \in {"select", "card"}

(* Nobody reaches the unlock animation or the status page except through a *)
(* serial number and a selected card: late completions never present them  *)
(* over another page, not even those of a saved card.                      *)
RideNeedsCodeAndCard ==
    \A d \in Devices : \A k \in 1 .. Len(stack[d]) :
        /\ stack[d][k].screen = "status" =>
               k > 1 /\ stack[d][k - 1].screen = "unlock"
        /\ stack[d][k].screen = "unlock" =>
               /\ k > 1
               /\ stack[d][k - 1].screen = "select" /\ stack[d][k - 1].card
               /\ CodeBelow(d, k - 1)

(* The last start time among the writes still to be decided is t, or none  *)
(* is and the server holds t or refused it.                                *)
Recorded(d, t) ==
    \/ \E k \in 1 .. Len(writes[d]) :
           /\ writes[d][k].time = t
           /\ \A j \in 1 .. Len(writes[d]) : j > k => writes[d][j].time = None
    \/ /\ \A j \in 1 .. Len(writes[d]) : writes[d][j].time = None
       /\ doc[d] = t \/ refusedStart[d]

(* The running rental counts from the start time the user's document holds *)
(* or will hold, unless the server refused it, also when Confirm was       *)
(* touched again or writes of an earlier launch were still queued.         *)
BilledFromRecordedStart ==
    \A d \in Devices : Riding(d) => Recorded(d, Top(d).start)

StopsPending(d) ==
    \/ \E k \in 1 .. Len(puts[d]) : ~puts[d][k].value
    \/ \E k \in 1 .. Len(completions[d]) : ~completions[d][k].value

(* While a rental whose flag was accepted runs, the flag the server last   *)
(* took from this device is TRUE and no stop of an earlier rental is left  *)
(* anywhere that could withdraw it, resends after a disconnect included.   *)
LiveRentalPublished ==
    \A d \in Devices : Riding(d) /\ Top(d).published =>
        applied[d] /\ ~StopsPending(d)

-----------------------------------------------------------------------------
(***************************************************************************)
(* The inductive invariant behind the four invariants before the last:     *)
(* every outstanding call still belongs to the page that made it, which is *)
(* of the right kind, and pages stand on each other as the storyboards     *)
(* lead from one to the next.                                              *)
(***************************************************************************)
FromSelect(d, k) ==
    /\ k \in 1 .. Len(stack[d])
    /\ stack[d][k].screen = "select" /\ stack[d][k].card

FromCard(d, k) == k \in 1 .. Len(stack[d]) /\ stack[d][k].screen = "card"

FromStopped(d, k) ==
    /\ k \in 1 .. Len(stack[d])
    /\ stack[d][k].screen = "status" /\ ~stack[d][k].ticking

WritesFit(d) ==
    \A k \in 1 .. Len(writes[d]) :
        writes[d][k].by # 0 =>
            IF writes[d][k].time = None THEN FromCard(d, writes[d][k].by)
                                        ELSE FromSelect(d, writes[d][k].by)

PutsFit(d) ==
    \A k \in 1 .. Len(puts[d]) :
        IF puts[d][k].value THEN FromSelect(d, puts[d][k].by)
                            ELSE FromStopped(d, puts[d][k].by)

CompletionsFit(d) ==
    \A k \in 1 .. Len(completions[d]) :
        IF completions[d][k].value THEN FromSelect(d, completions[d][k].by)
                                   ELSE FromStopped(d, completions[d][k].by)

PagesFit(d) ==
    \A k \in 1 .. Len(stack[d]) :
        LET v == stack[d][k] IN
        /\ v.ticking => v.screen = "status" /\ k = Len(stack[d])
        /\ v.screen \in {"select", "card"} => CodeBelow(d, k)
        /\ v.screen = "unlock" => k > 1 /\ FromSelect(d, k - 1)
        /\ v.screen = "status" => k > 1 /\ stack[d][k - 1].screen = "unlock"

StartKept(d) ==
    /\ Top(d).screen = "unlock" => startRentTime[d] # None
    /\ Riding(d) => startRentTime[d] # None /\ Top(d).start = startRentTime[d]
    /\ \A k \in 1 .. Len(writes[d]) :
           writes[d][k].by # 0 /\ writes[d][k].time # None =>
               startRentTime[d] # None
    /\ \A k \in 1 .. Len(puts[d]) : puts[d][k].value => startRentTime[d] # None
    /\ \A k \in 1 .. Len(completions[d]) :
           completions[d][k].value => startRentTime[d] # None

StartRecorded(d) ==
    startRentTime[d] # None => Recorded(d, startRentTime[d])

DeviceInv(d) ==
    /\ WritesFit(d) /\ PutsFit(d) /\ CompletionsFit(d)
    /\ PagesFit(d)
    /\ StartKept(d) /\ StartRecorded(d)

(* The inductive invariant. *)
RentalInv == \A d \in Devices : DeviceInv(d)

-----------------------------------------------------------------------------
(***************************************************************************)
(* Liveness.                                                               *)
(***************************************************************************)
Stopped(d) == Top(d).screen = "status" /\ ~Top(d).ticking

(* A user who has stopped renting is never left on the status page: the    *)
(* stop, of this very page, is outstanding or answered, and no alert comes *)
(* up over the page that its completion will leave, whatever became of the *)
(* connection and of stops and confirmations before it.                    *)
StopNeverLost ==
    \A d \in Devices : Stopped(d) =>
        /\ ~alert[d]
        /\ \/ \E k \in 1 .. Len(puts[d]) :
                  ~puts[d][k].value /\ puts[d][k].by = Len(stack[d])
           \/ \E k \in 1 .. Len(completions[d]) :
                  /\ ~completions[d][k].value
                  /\ completions[d][k].by = Len(stack[d])

(* A user who has stopped renting gets back to the landing page (or to the *)
(* login page, after a restart), whatever the network does meanwhile.      *)
StopReachesLanding ==
    \A d \in Devices :
        Stopped(d) ~> (Top(d).screen \in {"landing", "login"})

Confirmed(d) ==
    /\ Top(d).screen = "select"
    /\ \/ \E k \in 1 .. Len(writes[d]) : writes[d][k].by = Len(stack[d])
       \/ \E k \in 1 .. Len(puts[d]) : puts[d][k].by = Len(stack[d])
       \/ \E k \in 1 .. Len(completions[d]) :
              completions[d][k].by = Len(stack[d])

(* A confirmation is not forgotten between the user's document, the flag   *)
(* and their answers: a step that leaves a page without the confirmation   *)
(* it waits for presents another page, unless an alert is in the way.      *)
ConfirmNeverLost ==
    [][\A d \in Devices :
           Confirmed(d) /\ ~Confirmed(d)'
           => alert[d] \/ Top(d)'.screen # "select"
      ]_vars

(* A user who has confirmed reaches the status page, unless an alert comes *)
(* up, or the user goes elsewhere, or the app is restarted.                *)
ConfirmReachesStatus ==
    \A d \in Devices :
        Confirmed(d) ~>
            \/ alert[d]
            \/ Top(d).screen \in {"status", "serial", "card", "landing",
                                  "login"}

-----------------------------------------------------------------------------
(***************************************************************************)
(* What a device promises to its user, abstractly (RentalContract): each   *)
(* abstract variable is read off the top page and the queues.              *)
(***************************************************************************)
Asking(d) ==
    \/ \E k \in 1 .. Len(writes[d]) :
           writes[d][k].by # 0 /\ writes[d][k].time # None
    \/ \E k \in 1 .. Len(puts[d]) : puts[d][k].value
    \/ \E k \in 1 .. Len(completions[d]) : completions[d][k].value

Phase(d) ==
    CASE Top(d).screen = "select" -> "choosing"
      [] Top(d).screen = "unlock" -> "unlocking"
      [] Riding(d) -> "riding"
      [] Stopped(d) -> "returned"
      [] OTHER -> "away"

Contract == INSTANCE RentalContract WITH
    phase     <- [d \in Devices |-> Phase(d)],
    since     <- [d \in Devices |-> Top(d).start],
    accepted  <- [d \in Devices |-> Top(d).published],
    flag      <- applied,
    asking    <- [d \in Devices |-> Asking(d)],
    returning <- [d \in Devices |-> StopsPending(d)]

(* The rental flow implements the contract: an accepted rental starts only *)
(* once its flag is up and no stop is outstanding, its start never moves,  *)
(* and only an outstanding stop lowers the flag.                           *)
ImplementsContract == Contract!Spec

-----------------------------------------------------------------------------
(***************************************************************************)
(* What documents and comments of the project say, and the code denies.    *)
(***************************************************************************)
(* "// user is logged in...sign in user": whoever is let past the login    *)
(* page is a user the app knows; saveCardInfo relies on it.                *)
PastLoginMeansKnown ==
    \A d \in Devices : Top(d).screen # "login" => uuid[d]

(* "location of umbrellas, in use and not in use": once every call has     *)
(* completed, the flag is up if and only if some device shows a rental.    *)
FlagTellsRented ==
    (\A d \in Devices : Pending(d) = 0) =>
        (inUse <=> \E d \in Devices :
                       Top(d).screen = "unlock" \/ Riding(d))
=============================================================================
