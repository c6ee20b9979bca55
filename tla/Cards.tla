-------------------------------- MODULE Cards --------------------------------
(***************************************************************************)
(* A user's payment cards on one device: the two lists of cards, the form  *)
(* behind both, and the array of cards that User.instance holds, that      *)
(* saveCardInfo extends and writes as a whole, and that a login reads.     *)
(*                                                                         *)
(* A card is its number; that it also carries the account under which it   *)
(* was typed in is history, for the properties.  A login is one step here, *)
(* because touches are ignored until it ends; one that traps for want of a *)
(* document is SignInUnread and then Kill.  A sign-up's calls are answered *)
(* whatever page is in front; its alerts, which only hold the user up, and *)
(* what it stores, which is merged beside the cards, are Account's.        *)
(* "home" stands for the landing page with its menu and the page for the   *)
(* serial number, "signup" also for the page for forgotten passwords.      *)
(***************************************************************************)
EXTENDS Naturals, SequencesExt

CONSTANTS
    Accounts,    \* e-mail addresses, and the uids of their accounts
    Numbers,     \* card numbers
    None,        \* Swift's nil
    MaxDepth,    \* bound: pages from which the user opens one more
    MaxCards,    \* bound: cards in User.instance when one more is saved
    MaxWrites    \* bound: writes in all queues when one more is saved

ASSUME CardsAssumption ==
    /\ None \notin Accounts
    /\ MaxDepth \in Nat
    /\ MaxCards \in Nat
    /\ MaxWrites \in Nat

VARIABLES
    stack,           \* presented pages, bottom first
    rows,            \* the cards that the page on top shows, if it is a list
    alert,           \* an alert is over the top page
    current_page,    \* the global that says which list opened the form
    session,         \* Auth.auth().currentUser (kept across launches)
    status,          \* of each account, on the Auth server
    signUps,         \* of each account, the call of a sign-up under way
    uuid,            \* User.instance.uuid
    card_object,     \* User.instance.card_object; empty for nil
    writes,          \* Firestore's mutation queue of every user that was ever
                     \* signed in (kept across launches)
    docs,            \* "Cards" of each account's document; empty for no field
    astray           \* history: accounts that were signed in without their
                     \* document being read, or for which a card was saved
                     \* while another account was signed in

ui    == <<stack, rows, alert>>
auth  == <<session, status, signUps>>
user  == <<uuid, card_object>>
store == <<writes, docs, astray>>
vars  == <<ui, current_page, auth, user, store>>
-----------------------------------------------------------------------------
Card == [number: Numbers, account: Accounts]
Write == [account: Accounts, cards: Seq(Card), by: Nat]

(* The value of current_page that each list of cards sets. *)
ListPage == [payment |-> "PAYMENT", select |-> "RENT"]
Lists == DOMAIN ListPage
Pages == {"login", "signup", "home", "form"} \cup Lists

Status == {"none", "created", "mailed", "verified"}
SignUpCall == {"none", "create", "mail"}

Top == stack[Len(stack)]
Touchable(p) == Top = p /\ ~alert
MayOpen == Len(stack) < MaxDepth

(* present(_:animated:) by a page that presents something only warns. *)
CanPresent(i) == i = Len(stack) /\ ~alert

(* Page p is presented from the top page; a list copies the cards in       *)
(* viewDidLoad.                                                            *)
Show(p) ==
    /\ stack' = Append(stack, p)
    /\ rows' = IF p \in Lists THEN card_object ELSE <<>>

Init ==
    /\ stack = <<"login">> /\ rows = <<>> /\ alert = FALSE
    /\ current_page = "NONE"
    /\ session = None
    /\ status \in [Accounts -> {"none", "verified"}]
    /\ signUps = [a \in Accounts |-> "none"]
    /\ uuid = None /\ card_object = <<>>
    /\ writes = [a \in Accounts |-> <<>>]
    /\ docs \in [Accounts -> {<<>>} \cup {<<c>> : c \in Card}]
    /\ \A a \in Accounts : docs[a] # <<>> => /\ status[a] = "verified"
                                             /\ docs[a][1].account = a
    /\ astray = {}

(* A login page that loads with a session, verified or not, presents the   *)
(* landing page from viewDidLoad, which UIKit may do or drop.              *)
LoginPage ==
    {<<"login">>} \cup {s \in {<<"login", "home">>} : session # None}

(* The app is killed, or traps, and is launched again. *)
Kill ==
    /\ stack' \in LoginPage
    /\ rows' = <<>> /\ alert' = FALSE
    /\ current_page' = "NONE"
    /\ uuid' = None /\ card_object' = <<>>
    /\ writes' = [a \in Accounts |-> [k \in DOMAIN writes[a] |->
                                          [writes[a][k] EXCEPT !.by = 0]]]
    /\ signUps' = [a \in Accounts |-> "none"]
    /\ UNCHANGED <<session, status, docs, astray>>
-----------------------------------------------------------------------------
(***************************************************************************)
(* Signing up.  A call is served before it is answered, and may be         *)
(* answered with an error although it was served.                          *)
(***************************************************************************)
OpenSignUp ==
    /\ Touchable("login") /\ MayOpen
    /\ Show("signup")
    /\ UNCHANGED <<alert, current_page, auth, user, store>>

(* A mutant for TypeOK: nobody asks whether there is a session.            *)
SignUpBack_Blind ==
    /\ Touchable("signup") /\ MayOpen
    /\ \E s \in {<<"login">>, <<"login", "home">>} : stack' = stack \o s
    /\ UNCHANGED <<rows, alert, current_page, auth, user, store>>

(* Back, or Close on the alert of a sign-up that succeeded. *)
SignUpBack ==
    /\ Touchable("signup") /\ MayOpen
    /\ \E s \in LoginPage : stack' = stack \o s
    /\ UNCHANGED <<rows, alert, current_page, auth, user, store>>

(* For an account that exists the call fails and leaves all as it is. *)
SignUpButton(a) ==
    /\ Touchable("signup")
    /\ status[a] = "none" /\ signUps[a] = "none"
    /\ signUps' = [signUps EXCEPT ![a] = "create"]
    /\ UNCHANGED <<ui, current_page, session, status, user, store>>

AuthServes(a) ==
    /\ \/ /\ signUps[a] = "create" /\ status[a] = "none"
          /\ status' = [status EXCEPT ![a] = "created"]
       \/ /\ signUps[a] = "mail" /\ status[a] = "created"
          /\ status' = [status EXCEPT ![a] = "mailed"]
    /\ UNCHANGED <<ui, current_page, session, signUps, user, store>>

(* The user follows the link in the mail. *)
VerifyEmail(a) ==
    /\ status[a] = "mailed"
    /\ status' = [status EXCEPT ![a] = "verified"]
    /\ UNCHANGED <<ui, current_page, session, signUps, user, store>>

(* createUser signs the new user in, and leaves the uuid as it is. *)
CreateDone(a, ok) ==
    /\ signUps[a] = "create"
    /\ ok => status[a] # "none"
    /\ session' = IF ok THEN a ELSE session
    /\ signUps' = [signUps EXCEPT ![a] = IF ok THEN "mail" ELSE "none"]
    /\ UNCHANGED <<ui, current_page, status, user, store>>

(* Once the mail is out the uuid is that of whoever is signed in by now;   *)
(* storing the user's data traps if that is nobody.                        *)
MailDone(a, ok) ==
    /\ signUps[a] = "mail"
    /\ ok => status[a] \in {"mailed", "verified"}
    /\ IF ok /\ session = None THEN Kill ELSE
       /\ uuid' = IF ok THEN session ELSE uuid
       /\ signUps' = [signUps EXCEPT ![a] = "none"]
       /\ UNCHANGED <<ui, current_page, session, status, card_object, store>>
-----------------------------------------------------------------------------
(***************************************************************************)
(* Logging in and out.                                                     *)
(***************************************************************************)
(* The writes to the document of a in a's queue. *)
Mine(a) == {k \in DOMAIN writes[a] : writes[a][k].account = a}

(* The document of a, which signs in, as a read sees it: under what a has  *)
(* queued for it.                                                          *)
DocumentOf(a) ==
    IF Mine(a) = {} THEN docs[a] ELSE writes[a][Max(Mine(a))].cards

(* A mutant for CardsKept: cards that are there already are not replaced.  *)
SignIn_KeepsCards(a) ==
    /\ Touchable("login") /\ MayOpen
    /\ status[a] = "verified"
    /\ session' = a
    /\ uuid' = a
    /\ card_object' = IF card_object = <<>> THEN DocumentOf(a) ELSE card_object
    /\ Show("home")
    /\ UNCHANGED <<alert, current_page, status, signUps, store>>

(* getUserInfo replaces the cards only if the document has the field. *)
SignIn(a) ==
    /\ Touchable("login") /\ MayOpen
    /\ status[a] = "verified"
    /\ session' = a
    /\ uuid' = a
    /\ card_object' = IF DocumentOf(a) = <<>> THEN card_object
                      ELSE DocumentOf(a)
    /\ Show("home")
    /\ UNCHANGED <<alert, current_page, status, signUps, store>>

(* The same when the document cannot be read: the login fails, but leaves  *)
(* the session and the uuid.                                               *)
SignInUnread(a) ==
    /\ Touchable("login")
    /\ status[a] = "verified"
    /\ session' = a
    /\ uuid' = a
    /\ alert' = TRUE
    /\ astray' = astray \cup {a}
    /\ UNCHANGED <<stack, rows, current_page, status, signUps, card_object,
                   writes, docs>>

(* The e-mail is not verified: the login fails, but leaves the session,    *)
(* and the uuid of whoever came before.                                    *)
SignInUnverified(a) ==
    /\ Touchable("login")
    /\ status[a] \in {"created", "mailed"}
    /\ session' = a
    /\ alert' = TRUE
    /\ astray' = astray \cup {a}
    /\ UNCHANGED <<stack, rows, current_page, status, signUps, user,
                   writes, docs>>

(* Signing out leaves User.instance as it is. *)
Logout ==
    /\ Touchable("home") /\ MayOpen
    /\ session' = None
    /\ Show("login")
    /\ UNCHANGED <<alert, current_page, status, signUps, user, store>>
-----------------------------------------------------------------------------
(***************************************************************************)
(* The lists and the form.                                                 *)
(***************************************************************************)
OpenList(l) ==
    /\ Touchable("home") /\ MayOpen
    /\ Show(l)
    /\ UNCHANGED <<alert, current_page, auth, user, store>>

(* A mutant for FormReturnsToItsList: one list does not set the global.    *)
AddCardRow_NotSet(l) ==
    /\ Touchable(l) /\ MayOpen
    /\ current_page' = IF l = "select" THEN current_page ELSE ListPage[l]
    /\ Show("form")
    /\ UNCHANGED <<alert, auth, user, store>>

(* The last row of a list opens the form. *)
AddCardRow(l) ==
    /\ Touchable(l) /\ MayOpen
    /\ current_page' = ListPage[l]
    /\ Show("form")
    /\ UNCHANGED <<alert, auth, user, store>>

ListBack(l) ==
    /\ Touchable(l) /\ MayOpen
    /\ Show("home")
    /\ UNCHANGED <<alert, current_page, auth, user, store>>

(* The form presents whichever list current_page names by now. *)
ShowCurrentList == \E l \in Lists : ListPage[l] = current_page /\ Show(l)

FormBack ==
    /\ Touchable("form") /\ MayOpen
    /\ ShowCurrentList
    /\ UNCHANGED <<alert, current_page, auth, user, store>>

(* A field has the wrong length. *)
DoneInvalid ==
    /\ Touchable("form")
    /\ alert' = TRUE
    /\ UNCHANGED <<stack, rows, current_page, auth, user, store>>

Queued == MapThenSumSet(LAMBDA a : Len(writes[a]), Accounts)

(* The card joins the array whatever becomes of the write, which goes to   *)
(* the document of the uuid and into the queue of whoever is signed in.    *)
SaveCardInfo(card) ==
    LET w == [account |-> uuid, cards |-> Append(card_object, card),
              by |-> Len(stack)]
    IN  /\ card_object' = w.cards
        /\ writes' = [writes EXCEPT ![session] = Append(@, w)]

DoneButton(n) ==
    /\ Touchable("form")
    /\ uuid # None
    /\ Len(card_object) < MaxCards /\ Queued < MaxWrites
    /\ SaveCardInfo([number |-> n, account |-> session])
    /\ astray' = IF uuid = session THEN astray ELSE astray \cup {uuid}
    /\ UNCHANGED <<ui, current_page, auth, uuid, docs>>

(* After an automatic login User.instance may have no uuid. *)
DoneTraps ==
    /\ Touchable("form")
    /\ uuid = None
    /\ Kill

CloseAlert ==
    /\ alert
    /\ alert' = FALSE
    /\ UNCHANGED <<stack, rows, current_page, auth, user, store>>

(* A mutant for TopListIsCurrent: a refused card is taken back.            *)
SaveDone_TakeBack(ok) ==
    LET w == Head(writes[session]) IN
    /\ session # None /\ writes[session] # <<>>
    /\ writes' = [writes EXCEPT ![session] = Tail(@)]
    /\ docs' = IF ok THEN [docs EXCEPT ![w.account] = w.cards] ELSE docs
    /\ IF ok /\ CanPresent(w.by) /\ current_page # "NONE"
       THEN ShowCurrentList
       ELSE UNCHANGED <<stack, rows>>
    /\ alert' = (alert \/ (~ok /\ CanPresent(w.by)))
    /\ card_object' = IF ok \/ card_object = <<>> THEN card_object
                      ELSE Front(card_object)
    /\ UNCHANGED <<current_page, auth, uuid, astray>>

(* saveCardInfo's completion: Firestore sends the queue of whoever is      *)
(* signed in, in order.  After an error it calls failure() and then        *)
(* success() too, whose list cannot be presented over failure's alert.     *)
SaveDone(ok) ==
    LET w == Head(writes[session]) IN
    /\ session # None /\ writes[session] # <<>>
    /\ writes' = [writes EXCEPT ![session] = Tail(@)]
    /\ docs' = IF ok THEN [docs EXCEPT ![w.account] = w.cards] ELSE docs
    /\ IF ok /\ CanPresent(w.by) /\ current_page # "NONE"
       THEN ShowCurrentList
       ELSE UNCHANGED <<stack, rows>>
    /\ alert' = (alert \/ (~ok /\ CanPresent(w.by)))
    /\ UNCHANGED <<current_page, auth, user, astray>>

-----------------------------------------------------------------------------
Next ==
    \/ OpenSignUp \/ SignUpBack
    \/ \E a \in Accounts :
           \/ SignUpButton(a) \/ AuthServes(a) \/ VerifyEmail(a)
           \/ \E ok \in BOOLEAN : CreateDone(a, ok) \/ MailDone(a, ok)
           \/ SignIn(a) \/ SignInUnread(a) \/ SignInUnverified(a)
    \/ Logout
    \/ \E l \in Lists : OpenList(l) \/ AddCardRow(l) \/ ListBack(l)
    \/ FormBack
    \/ DoneInvalid
    \/ \E n \in Numbers : DoneButton(n)
    \/ DoneTraps
    \/ CloseAlert
    \/ \E ok \in BOOLEAN : SaveDone(ok)
    \/ Kill

Spec == Init /\ [][Next]_vars
-----------------------------------------------------------------------------
(* The state is of the kind the code gives it: past the pages for logging  *)
(* in and signing up there is a session, and without a uuid User.instance  *)
(* holds no cards.                                                         *)
TypeOK ==
    /\ stack \in Seq(Pages) /\ stack # <<>>
    /\ rows \in Seq(Card)
    /\ alert \in BOOLEAN
    /\ current_page \in {"PAYMENT", "RENT", "NONE"}
    /\ session \in Accounts \cup {None}
    /\ status \in [Accounts -> Status]
    /\ signUps \in [Accounts -> SignUpCall]
    /\ uuid \in Accounts \cup {None}
    /\ card_object \in Seq(Card)
    /\ writes \in [Accounts -> Seq(Write)]
    /\ Top \notin {"login", "signup"} => session # None
    /\ uuid = None => card_object = <<>>
    /\ docs \in [Accounts -> Seq(Card)]
    /\ astray \in SUBSET Accounts

(* Back, or a write that completes while the form is on top, leads from    *)
(* the form to the list it was opened from: nothing else sets the global   *)
(* current_page meanwhile, and answers to earlier forms present nothing.   *)
FormReturnsToItsList ==
    [][Top = "form" /\ Len(stack') > Len(stack)
       => stack' = Append(stack, stack[Len(stack) - 1])]_vars

(* A list of cards copies User.instance.card_object once, when it loads,   *)
(* and shows exactly those cards for as long as it is on top: no save that *)
(* completes late, nor a login, changes them behind its back.              *)
TopListIsCurrent == Top \in Lists => rows = card_object

(* saveCardInfo overwrites "Cards" with the device's own array; yet no     *)
(* card is ever lost from the document of an account that was read when it *)
(* was let in and whose uuid nobody else saved under: not after refused    *)
(* writes, restarts, sign-ups answered late, or logging in as somebody     *)
(* else while writes are queued.                                           *)
CardsKept ==
    [][\A a \in Accounts \ astray : IsPrefix(docs[a], docs'[a])]_vars

(* "their payment options": an account's document holds the cards that     *)
(* were typed in under that account, and nobody else's.                    *)
OwnCardsOnly ==
    \A a \in Accounts :
        \A i \in DOMAIN docs[a] : docs[a][i].account = a
=============================================================================
