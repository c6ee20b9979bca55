------------------------------- MODULE Account -------------------------------
(***************************************************************************)
(* Signing up, logging in and out, the settings, and forgotten passwords   *)
(* on one device.  Firebase Auth keeps the accounts and mails the links;   *)
(* the user's data is a Firestore document under the account's uid;        *)
(* User.instance is the app's copy of it.  Every call is asynchronous and  *)
(* its closure presents the next page, or an alert, from the page that     *)
(* made the call: here, an index in the stack of presented pages.          *)
(*                                                                         *)
(* An account stands for its e-mail address and for its uid.  Names,       *)
(* phone, age and password are left out: they are set and stored together  *)
(* with the e-mail.  Rental is about the pages that have to do with rides. *)
(***************************************************************************)
EXTENDS Naturals, FiniteSets, SequencesExt

CONSTANTS
    Accounts,    \* e-mail addresses
    None,        \* Swift's nil, and a document that does not exist
    MaxDepth,    \* bound: pages from which the user opens one more, except
                 \* that logging out is always possible
    MaxCalls     \* bound: calls and writes that have not completed

ASSUME AccountAssumption ==
    /\ None \notin Accounts
    /\ MaxDepth \in Nat
    /\ MaxCalls \in Nat

VARIABLES
    stack,     \* presented pages, bottom first
    alert,     \* over the top page: "none", "error" or "done"
    spinner,   \* nested beginIgnoringInteractionEvents
    user,      \* User.instance: uuid and email
    session,   \* Auth.auth().currentUser (kept across launches)
    calls,     \* calls of Auth and getDocument under way, in no order
    writes,    \* Firestore's mutation queue of every user, and of nobody,
               \* while they were signed in (kept across launches)
    status,    \* of each account, on the Auth server
    docs       \* the e-mail in each account's document, on the server

ui     == <<stack, alert, spinner>>
client == <<user, session, calls, writes>>
server == <<status, docs>>
vars   == <<ui, client, server>>
-----------------------------------------------------------------------------
(* "other" stands for the pages that have no business with the account:    *)
(* the serial number, the list of cards and "how to rent".                 *)
Pages ==
    {"login", "signup", "forgot", "landing", "menu", "settings", "other"}

Status == {"none", "created", "mailed", "verified"}
Call == [op: {"signIn", "info", "create", "mail", "reset"},
         account: Accounts, by: Nat, served: BOOLEAN]
Write == [account: Accounts, email: Accounts, typed: Accounts, by: Nat]

Sessions == Accounts \cup {None}
Nobody == [uuid |-> None, email |-> None]
Top == stack[Len(stack)]

(* The user sees page p and can touch it. *)
Touchable(p) == Top = p /\ alert = "none" /\ spinner = 0

(* present(_:animated:) by a page that presents something only warns. *)
CanPresent(i) == i = Len(stack) /\ alert = "none"

Alerted(i, kind) == IF CanPresent(i) THEN kind ELSE alert

(* A login page that loads with a session presents the landing page from   *)
(* viewDidLoad, which UIKit may do or drop.                                *)
Loaded(p) ==
    {<<p>>} \cup {s \in {<<"login", "landing">>} :
                      p = "login" /\ session # None}

Init ==
    /\ stack = <<"login">>
    /\ alert = "none"
    /\ spinner = 0
    /\ user = Nobody
    /\ session = None
    /\ calls = <<>>
    /\ writes = [u \in Sessions |-> <<>>]
    /\ status = [a \in Accounts |-> "none"]
    /\ docs = [a \in Accounts |-> None]

Open(p) ==
    /\ Len(stack) < MaxDepth
    /\ \E s \in Loaded(p) : stack' = stack \o s

(* The app is killed, or traps, and is launched again. *)
Kill ==
    /\ stack' \in Loaded("login")
    /\ alert' = "none"
    /\ spinner' = 0
    /\ user' = Nobody
    /\ calls' = <<>>
    /\ writes' = [u \in Sessions |-> [k \in DOMAIN writes[u] |->
                                          [writes[u][k] EXCEPT !.by = 0]]]
    /\ UNCHANGED <<session, server>>

-----------------------------------------------------------------------------
(***************************************************************************)
(* What the user does.                                                     *)
(***************************************************************************)
(* The buttons that only lead from one page to another. *)
Links == {<<"login", "signup">>, <<"login", "forgot">>, <<"signup", "login">>,
          <<"forgot", "login">>, <<"forgot", "signup">>,
          <<"landing", "menu">>, <<"menu", "landing">>,
          <<"menu", "settings">>, <<"settings", "landing">>,
          <<"landing", "other">>, <<"menu", "other">>, <<"other", "landing">>}

FollowLink(from, to) ==
    /\ <<from, to>> \in Links
    /\ Touchable(from)
    /\ Open(to)
    /\ UNCHANGED <<alert, spinner, client, server>>

(* How many calls and writes have not completed. *)
UnderWay == Len(calls) + MapThenSumSet(LAMBDA u : Len(writes[u]), Sessions)

CallBy(op, a) ==
    [op |-> op, account |-> a, by |-> Len(stack),
     served |-> op \notin {"create", "mail"}]

Start(op, a) ==
    /\ UnderWay < MaxCalls
    /\ calls' = Append(calls, CallBy(op, a))

(* A mutant for LoginKeepsItsPage: touches are not ignored meanwhile.      *)
LoginButton_NoSpinner(a) ==
    /\ Touchable("login")
    /\ Start("signIn", a)
    /\ UNCHANGED <<ui, user, session, writes, server>>

LoginButton(a) ==
    /\ Touchable("login")
    /\ spinner' = spinner + 1
    /\ Start("signIn", a)
    /\ UNCHANGED <<stack, alert, user, session, writes, server>>

(* signup_button_clicked copies the form into User.instance at once. *)
SignUpButton(a) ==
    /\ Touchable("signup")
    /\ user' = [user EXCEPT !.email = a]
    /\ Start("create", a)
    /\ UNCHANGED <<ui, session, writes, server>>

(* The password link goes to the address typed on the page for forgotten   *)
(* passwords, and from the settings to User.instance.email if it is set.   *)
ResetButton(a) ==
    /\ Touchable("forgot") \/ (Touchable("settings") /\ user.email = a)
    /\ Start("reset", a)
    /\ UNCHANGED <<ui, user, session, writes, server>>

LogoutButton ==
    /\ Touchable("menu")
    /\ session' = None
    /\ stack' = Append(stack, "login")
    /\ UNCHANGED <<alert, spinner, user, calls, writes, server>>

(* storeUserInfo by page i, which announces what typed says, for a User    *)
(* whose uuid is u; a nil field traps.                                     *)
CanStore(u) == u # None /\ user.email # None

StoreUserInfo(u, typed, i) ==
    LET w == [account |-> u, email |-> user.email, typed |-> typed, by |-> i]
    IN  writes' = [writes EXCEPT ![session] = Append(@, w)]

SaveButton ==
    /\ Touchable("settings")
    /\ CanStore(user.uuid)
    /\ UnderWay < MaxCalls
    /\ StoreUserInfo(user.uuid, user.email, Len(stack))
    /\ UNCHANGED <<ui, user, session, calls, server>>

(* After an automatic login User.instance is empty. *)
SaveTraps ==
    /\ Touchable("settings")
    /\ ~CanStore(user.uuid)
    /\ Kill

(* Close leads on from the settings whatever the alert said, and from the  *)
(* pages for signing up and forgotten passwords if it announced success.   *)
CloseAlert ==
    /\ alert # "none" /\ spinner = 0
    /\ alert' = "none"
    /\ \/ Top = "settings" /\ Open("landing")
       \/ Top \in {"signup", "forgot"} /\ alert = "done" /\ Open("login")
       \/ Top # "settings" /\ alert = "error" /\ UNCHANGED stack
    /\ UNCHANGED <<spinner, client, server>>

-----------------------------------------------------------------------------
(***************************************************************************)
(* Calls.  A create or mail call is served before it is answered, and may  *)
(* be answered with an error although it was served.                       *)
(***************************************************************************)
AuthServes(k) ==
    LET a == calls[k].account IN
    /\ ~calls[k].served
    /\ \/ /\ calls[k].op = "create" /\ status[a] = "none"
          /\ status' = [status EXCEPT ![a] = "created"]
       \/ /\ calls[k].op = "mail"
          /\ status' = [status EXCEPT ![a] =
                            IF @ = "created" THEN "mailed" ELSE @]
    /\ calls' = [calls EXCEPT ![k].served = TRUE]
    /\ UNCHANGED <<ui, user, session, writes, docs>>

(* The user follows the link in the mail. *)
VerifyEmail(a) ==
    /\ status[a] = "mailed"
    /\ status' = [status EXCEPT ![a] = "verified"]
    /\ UNCHANGED <<ui, client, docs>>

(* failure() of a login. *)
LoginFails(k) ==
    /\ spinner' = spinner - 1
    /\ alert' = Alerted(calls[k].by, "error")
    /\ calls' = RemoveAt(calls, k)
    /\ UNCHANGED <<stack, writes, server>>

(* A mutant for LoginEnds: no failure() when the address is not verified.  *)
SignInDone_Silent(k, ok) ==
    LET a == calls[k].account IN
    /\ calls[k].op = "signIn"
    /\ \/ ~ok /\ LoginFails(k) /\ UNCHANGED <<user, session>>
       \/ /\ ok /\ status[a] \notin {"none", "verified"}
          /\ session' = a
          /\ calls' = RemoveAt(calls, k)
          /\ UNCHANGED <<ui, user, writes, server>>
       \/ /\ ok /\ status[a] = "verified"
          /\ session' = a
          /\ user' = [user EXCEPT !.uuid = a]
          /\ calls' = [calls EXCEPT ![k].op = "info"]
          /\ UNCHANGED <<ui, writes, server>>

(* authenticate_user_login: a sign-in to an account that is not verified   *)
(* fails but leaves the session.                                           *)
SignInDone(k, ok) ==
    LET a == calls[k].account IN
    /\ calls[k].op = "signIn"
    /\ \/ ~ok /\ LoginFails(k) /\ UNCHANGED <<user, session>>
       \/ /\ ok /\ status[a] \notin {"none", "verified"}
          /\ session' = a
          /\ LoginFails(k)
          /\ UNCHANGED user
       \/ /\ ok /\ status[a] = "verified"
          /\ session' = a
          /\ user' = [user EXCEPT !.uuid = a]
          /\ calls' = [calls EXCEPT ![k].op = "info"]
          /\ UNCHANGED <<ui, writes, server>>

(* A document as getDocument sees it, under the writes that whoever is     *)
(* signed in has queued.                                                   *)
DocumentOf(a) ==
    LET q == writes[session]
        last == {k \in DOMAIN q :
                     /\ q[k].account = a
                     /\ \A j \in DOMAIN q : k < j => q[j].account # a}
    IN  IF last = {} THEN docs[a] ELSE q[CHOOSE k \in last : TRUE].email

(* getUserInfo: data! traps when there is no document. *)
InfoDone(k, ok) ==
    LET email == DocumentOf(calls[k].account) IN
    /\ calls[k].op = "info"
    /\ \/ ~ok /\ LoginFails(k) /\ UNCHANGED <<user, session>>
       \/ /\ ok /\ email # None
          /\ user' = [user EXCEPT !.email = email]
          /\ spinner' = spinner - 1
          /\ stack' = IF CanPresent(calls[k].by)
                      THEN Append(stack, "landing") ELSE stack
          /\ calls' = RemoveAt(calls, k)
          /\ UNCHANGED <<alert, session, writes, server>>
       \/ ok /\ email = None /\ Kill

(* A mutant for TypeOK: currentUser is read before the answer.             *)
CreateDone_StaleUser(k, ok) ==
    /\ calls[k].op = "create"
    /\ \/ /\ ~ok
          /\ alert' = Alerted(calls[k].by, "error")
          /\ calls' = RemoveAt(calls, k)
          /\ UNCHANGED session
       \/ /\ ok /\ calls[k].served
          /\ session' = calls[k].account
          /\ calls' = [calls EXCEPT ![k].op = "mail", ![k].served = FALSE,
                                    ![k].account = session]
          /\ UNCHANGED alert
    /\ UNCHANGED <<stack, spinner, user, writes, server>>

(* register_user, first answer: createUser signs the new account in. *)
CreateDone(k, ok) ==
    LET a == calls[k].account IN
    /\ calls[k].op = "create"
    /\ \/ /\ ~ok
          /\ alert' = Alerted(calls[k].by, "error")
          /\ calls' = RemoveAt(calls, k)
          /\ UNCHANGED session
       \/ /\ ok /\ calls[k].served
          /\ session' = a
          /\ calls' = [calls EXCEPT ![k].op = "mail", ![k].served = FALSE]
          /\ UNCHANGED alert
    /\ UNCHANGED <<stack, spinner, user, writes, server>>

(* A mutant for WelcomeMeansMailed: the error of the mail is dropped.      *)
MailDone_IgnoreError(k, ok) ==
    /\ calls[k].op = "mail"
    /\ CanStore(session)
    /\ user' = [user EXCEPT !.uuid = session]
    /\ StoreUserInfo(session, calls[k].account, calls[k].by)
    /\ calls' = RemoveAt(calls, k)
    /\ UNCHANGED <<ui, session, server>>

(* Second answer: registerUser succeeds, and the sign-up page stores what  *)
(* User.instance holds by now under the uid that is signed in by now.      *)
MailDone(k, ok) ==
    /\ calls[k].op = "mail"
    /\ \/ /\ ~ok
          /\ alert' = Alerted(calls[k].by, "error")
          /\ calls' = RemoveAt(calls, k)
          /\ UNCHANGED <<stack, spinner, user, session, writes, server>>
       \/ /\ ok /\ calls[k].served /\ CanStore(session)
          /\ user' = [user EXCEPT !.uuid = session]
          /\ StoreUserInfo(session, calls[k].account, calls[k].by)
          /\ calls' = RemoveAt(calls, k)
          /\ UNCHANGED <<ui, session, server>>
       \/ ok /\ calls[k].served /\ ~CanStore(session) /\ Kill

(* The settings do nothing when the link could not be sent. *)
ResetDone(k, ok) ==
    LET i == calls[k].by IN
    /\ calls[k].op = "reset"
    /\ alert' = IF ok THEN Alerted(i, "done")
                ELSE IF stack[i] = "forgot" THEN Alerted(i, "error")
                ELSE alert
    /\ calls' = RemoveAt(calls, k)
    /\ UNCHANGED <<stack, spinner, user, session, writes, server>>

(* A mutant for AnnouncedMeansStored: success() runs before failure().     *)
WriteDone_SuccessFirst(ok) ==
    LET w == Head(writes[session]) IN
    /\ writes[session] # <<>>
    /\ writes' = [writes EXCEPT ![session] = Tail(@)]
    /\ docs' = IF ok THEN [docs EXCEPT ![w.account] = w.email] ELSE docs
    /\ alert' = Alerted(w.by, "done")
    /\ UNCHANGED <<stack, spinner, user, session, calls, status>>

(* storeUserInfo's completion: Firestore sends the queue of whoever is     *)
(* signed in, in order.  After an error it calls failure() and then        *)
(* success() too, whose alert cannot be presented over failure's.          *)
WriteDone(ok) ==
    LET w == Head(writes[session]) IN
    /\ writes[session] # <<>>
    /\ writes' = [writes EXCEPT ![session] = Tail(@)]
    /\ docs' = IF ok THEN [docs EXCEPT ![w.account] = w.email] ELSE docs
    /\ alert' = Alerted(w.by, IF ok THEN "done" ELSE "error")
    /\ UNCHANGED <<stack, spinner, user, session, calls, status>>

-----------------------------------------------------------------------------
UserStep ==
    \/ \E link \in Links : FollowLink(link[1], link[2])
    \/ \E a \in Accounts :
           \/ LoginButton(a) \/ SignUpButton(a)
           \/ ResetButton(a) \/ VerifyEmail(a)
    \/ LogoutButton
    \/ SaveButton
    \/ SaveTraps
    \/ CloseAlert

LoginStep ==
    \E k \in DOMAIN calls : \E ok \in BOOLEAN :
        SignInDone(k, ok) \/ InfoDone(k, ok)

SystemStep ==
    \/ \E k \in DOMAIN calls : AuthServes(k)
    \/ \E k \in DOMAIN calls : \E ok \in BOOLEAN :
           CreateDone(k, ok) \/ MailDone(k, ok) \/ ResetDone(k, ok)
    \/ \E ok \in BOOLEAN : WriteDone(ok)

Next == UserStep \/ LoginStep \/ SystemStep \/ Kill

(* Auth and Firestore answer every sign-in and every read, with an error   *)
(* if need be; nothing else is fair.                                       *)
Spec == Init /\ [][Next]_vars /\ WF_vars(LoginStep)
-----------------------------------------------------------------------------
(* The state is of the kind the code gives it; every call names the page   *)
(* of the stack that made it and an account, never nobody.                 *)
TypeOK ==
    /\ stack \in Seq(Pages) /\ stack # <<>>
    /\ alert \in {"none", "error", "done"}
    /\ spinner \in Nat
    /\ user \in [uuid: Accounts \cup {None}, email: Accounts \cup {None}]
    /\ session \in Accounts \cup {None}
    /\ calls \in Seq(Call)
    /\ \A k \in DOMAIN calls : calls[k].by \in DOMAIN stack
    /\ writes \in [Sessions -> Seq(Write)]
    /\ status \in [Accounts -> Status]
    /\ docs \in [Accounts -> Accounts \cup {None}]

LoginCalls == {k \in DOMAIN calls : calls[k].op \in {"signIn", "info"}}

(* While a login is under way, and only then, touches are ignored, and the *)
(* page that will present the landing page is on top with no alert over    *)
(* it: answers to a sign-up or to a link left behind on other pages never  *)
(* get in its way, and the user is never locked out of the app.            *)
LoginKeepsItsPage ==
    /\ spinner = Cardinality(LoginCalls)
    /\ \A k \in LoginCalls :
           calls[k].by = Len(stack) /\ Top = "login" /\ alert = "none"

(* The step completes the first write in the queue of u, and presents an   *)
(* alert of success.                                                       *)
Announces(u) ==
    /\ writes[u] # <<>>
    /\ writes' = [writes EXCEPT ![u] = Tail(@)]
    /\ alert # "done" /\ alert' = "done"

(* "An email has been sent to ...": when a sign-up page says so, Auth has  *)
(* sent a mail to the very address it names, whatever was typed into the   *)
(* form and whoever was logged in since the button was touched.            *)
WelcomeMeansMailed ==
    [][\A u \in Sessions :
           LET w == Head(writes[u]) IN
           Announces(u) /\ w.by # 0 /\ stack[w.by] = "signup"
           => status[w.typed] \in {"mailed", "verified"}]_vars

(* A sign-up page announces success and the settings say "Saved!" only     *)
(* when the server took the document, although the completion of a refused *)
(* write calls success() as well.                                          *)
AnnouncedMeansStored ==
    [][\A u \in Sessions :
           LET w == Head(writes[u]) IN
           Announces(u) => docs'[w.account] = w.email]_vars

(* The spinner does not turn for ever: every login is let in, refused, or  *)
(* cut short by a restart.                                                 *)
LoginEnds == spinner > 0 ~> spinner = 0

(* "data!" in getUserInfo: whoever has verified an account and logs in has *)
(* a document.                                                             *)
LoginFindsDocument ==
    \A k \in DOMAIN calls :
        calls[k].op = "info" => DocumentOf(calls[k].account) # None
=============================================================================
