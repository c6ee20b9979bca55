----------------------------- MODULE CardsProofs -----------------------------
(***************************************************************************)
(* Theorems about Cards, for every set of accounts and of card numbers.    *)
(***************************************************************************)
EXTENDS Cards, QueueLemmas

(* A form is over the list that opened it, which current_page names; a     *)
(* list shows what User.instance holds.                                    *)
PageInv ==
    /\ Top = "form" => /\ Len(stack) > 1
                       /\ stack[Len(stack) - 1] \in Lists
                       /\ current_page = ListPage[stack[Len(stack) - 1]]
    /\ TopListIsCurrent

(* An account that nobody has been signed in as; and what is known of it.  *)
New(a) == status[a] = "none" \/ signUps[a] = "create"

NewInv ==
    /\ \A a \in Accounts :
           signUps[a] = "create" => status[a] \in {"none", "created"}
    /\ \A a \in Accounts \ astray :
           New(a) => /\ session # a /\ uuid # a /\ docs[a] = <<>>
                     /\ \A b \in Accounts : \A k \in DOMAIN writes[b] :
                            writes[b][k].account # a

(* User.instance is a's, or will be once a sign-up's mail is out.          *)
Held(a) ==
    \/ uuid = a
    \/ session = a /\ \E b \in Accounts : signUps[b] = "mail"

(* Writes to a's document are in a's queue only.  The array in the         *)
(* document, those queued and the one that User.instance holds for a each  *)
(* extend the one before.                                                  *)
ChainOf(a) ==
    /\ \A b \in Accounts : \A k \in DOMAIN writes[b] :
           writes[b][k].account = a => b = a /\ IsPrefix(docs[a],
                                                         writes[b][k].cards)
    /\ \A j, k \in Mine(a) :
           j < k => IsPrefix(writes[a][j].cards, writes[a][k].cards)
    /\ Held(a) => /\ IsPrefix(docs[a], card_object)
                  /\ \A k \in Mine(a) :
                         IsPrefix(writes[a][k].cards, card_object)

Chain == \A a \in Accounts \ astray : ChainOf(a)

-----------------------------------------------------------------------------
LEMMA ListFacts ==
    /\ Lists = {"payment", "select"} /\ Lists \subseteq Pages
    /\ \A l \in Lists : ListPage[l] \in {"PAYMENT", "RENT"}
    /\ \A l, m \in Lists : ListPage[l] = ListPage[m] => l = m
BY DEF Lists, ListPage, Pages

(* The page on top is a page.                                              *)
LEMMA TopType ==
    ASSUME TypeOK
    PROVE  /\ Len(stack) \in Nat \ {0} /\ Top \in Pages
           /\ Len(stack) \in DOMAIN stack
BY LenProperties, EmptySeq, ElementOfSeq DEF TypeOK, Top

(* A page that is presented is on top, over the page that was.             *)
LEMMA ShowProperties ==
    ASSUME TypeOK, NEW p \in Pages, Show(p)
    PROVE  /\ stack' \in Seq(Pages) /\ stack' # <<>> /\ rows' \in Seq(Card)
           /\ Top' = p /\ Len(stack') = Len(stack) + 1
           /\ stack'[Len(stack') - 1] = Top
           /\ p \in Lists => rows' = card_object
<1>1. stack \in Seq(Pages) /\ stack # <<>> /\ card_object \in Seq(Card)
  BY DEF TypeOK
<1>2. /\ stack' = Append(stack, p)
      /\ rows' = IF p \in Lists THEN card_object ELSE <<>>
  BY DEF Show
<1>3. /\ stack' \in Seq(Pages) /\ stack' # <<>>
      /\ Len(stack) \in Nat \ {0} /\ Len(stack') = Len(stack) + 1
      /\ stack'[Len(stack) + 1] = p
      /\ \A i \in 1 .. Len(stack) : stack'[i] = stack[i]
  BY <1>1, <1>2, Pushed
<1>4. stack'[Len(stack') - 1] = Top
  <2>1. Len(stack) \in 1 .. Len(stack) /\ Len(stack') - 1 = Len(stack)
    BY <1>3
  <2>. QED
    BY <1>3, <2>1 DEF Top
<1>5. rows' \in Seq(Card)
  BY <1>1, <1>2, EmptySeq
<1>. QED
  BY <1>2, <1>3, <1>4, <1>5 DEF Top

(* Each queue is a sequence of writes.                                     *)
LEMMA QueueType ==
    ASSUME TypeOK, NEW a \in Accounts
    PROVE  /\ writes[a] \in Seq(Write) /\ Len(writes[a]) \in Nat
           /\ DOMAIN writes[a] = 1 .. Len(writes[a])
           /\ \A k \in DOMAIN writes[a] :
                  /\ writes[a][k] \in Write
                  /\ writes[a][k].account \in Accounts
                  /\ writes[a][k].cards \in Seq(Card)
                  /\ writes[a][k].by \in Nat
<1>1. writes[a] \in Seq(Write)
  BY DEF TypeOK
<1>2. /\ Len(writes[a]) \in Nat /\ DOMAIN writes[a] = 1 .. Len(writes[a])
      /\ \A k \in DOMAIN writes[a] : writes[a][k] \in Write
  BY <1>1, LenProperties, ElementOfSeq
<1>3. \A w \in Write :
          w.account \in Accounts /\ w.cards \in Seq(Card) /\ w.by \in Nat
  BY DEF Write
<1>. QED
  BY <1>1, <1>2, <1>3

(* A restart forgets the pages that queued writes came from.               *)
LEMMA ForgottenWrites ==
    ASSUME TypeOK, Kill
    PROVE  /\ writes' \in [Accounts -> Seq(Write)]
           /\ \A a \in Accounts :
                  /\ DOMAIN writes'[a] = DOMAIN writes[a]
                  /\ \A k \in DOMAIN writes[a] :
                         /\ writes'[a][k].account = writes[a][k].account
                         /\ writes'[a][k].cards = writes[a][k].cards
<1>. DEFINE Forgotten(a) == [k \in DOMAIN writes[a] |->
                                 [writes[a][k] EXCEPT !.by = 0]]
<1>1. ASSUME NEW a \in Accounts
      PROVE  /\ Forgotten(a) \in Seq(Write)
             /\ DOMAIN Forgotten(a) = DOMAIN writes[a]
             /\ \A k \in DOMAIN writes[a] :
                    /\ Forgotten(a)[k].account = writes[a][k].account
                    /\ Forgotten(a)[k].cards = writes[a][k].cards
  <2>1. \A k \in DOMAIN writes[a] :
            /\ [writes[a][k] EXCEPT !.by = 0] \in Write
            /\ [writes[a][k] EXCEPT !.by = 0].account = writes[a][k].account
            /\ [writes[a][k] EXCEPT !.by = 0].cards = writes[a][k].cards
    <3>1. \A w \in Write : /\ [w EXCEPT !.by = 0] \in Write
                          /\ [w EXCEPT !.by = 0].account = w.account
                          /\ [w EXCEPT !.by = 0].cards = w.cards
      BY DEF Write
    <3>. QED
      BY <3>1, QueueType
  <2>2. Forgotten(a) \in [1 .. Len(writes[a]) -> Write]
    <3>1. DOMAIN writes[a] = 1 .. Len(writes[a])
      BY QueueType
    <3>. QED
      BY <2>1, <3>1
  <2>3. Forgotten(a) \in Seq(Write)
    <3>1. Len(writes[a]) \in Nat
      BY QueueType
    <3>. HIDE DEF Forgotten
    <3>. QED
      BY <2>2, <3>1, SeqDef
  <2>. QED
    BY <2>1, <2>3
<1>2. writes' = [a \in Accounts |-> Forgotten(a)]
  BY DEF Kill
<1>. HIDE DEF Forgotten
<1>. QED
  BY <1>1, <1>2

(* The pages that a login page leads to when it loads.                     *)
LEMMA LoginPageType ==
    ASSUME NEW s \in LoginPage
    PROVE  /\ s \in Seq(Pages) /\ Len(s) \in {1, 2} /\ s # <<>>
           /\ s[Len(s)] \in {"login", "home"}
           /\ s[Len(s)] # "login" => session # None
<1>1. CASE s = <<"login">>
  BY <1>1 DEF Pages
<1>2. CASE s = <<"login", "home">> /\ session # None
  BY <1>2 DEF Pages
<1>. QED
  BY <1>1, <1>2 DEF LoginPage

(* After a restart the state is of its type, and no form or list is shown. *)
LEMMA KillKeeps ==
    ASSUME TypeOK, Kill
    PROVE  TypeOK' /\ PageInv'
<1>1. /\ stack' \in Seq(Pages) /\ stack' # <<>>
      /\ Top' \in {"login", "home"} /\ (Top' # "login" => session # None)
  BY LoginPageType DEF Kill, Top
<1>2. rows' \in Seq(Card) /\ card_object' \in Seq(Card) /\ card_object' = <<>>
  BY EmptySeq DEF Kill
<1>3. signUps' \in [Accounts -> SignUpCall]
  BY DEF Kill, SignUpCall
<1>4. TypeOK'
  BY <1>1, <1>2, <1>3, ForgottenWrites DEF Kill, TypeOK
<1>5. PageInv'
  BY <1>1, ListFacts DEF PageInv, TopListIsCurrent
<1>. QED
  BY <1>4, <1>5

(* The place of the last write to its own document in a's queue.           *)
LEMMA LastOfMine ==
    ASSUME TypeOK, NEW a \in Accounts, Mine(a) # {}
    PROVE  /\ Max(Mine(a)) \in Mine(a)
           /\ \A k \in Mine(a) : k <= Max(Mine(a))
<1>1. Mine(a) \subseteq 1 .. Len(writes[a]) /\ Len(writes[a]) \in Nat
  BY QueueType DEF Mine
<1>. QED
  BY <1>1, MaxProperties

(* What a login reads is an array of cards.                                *)
LEMMA DocumentType ==
    ASSUME TypeOK, NEW a \in Accounts
    PROVE  DocumentOf(a) \in Seq(Card)
<1>1. CASE Mine(a) = {}
  BY <1>1 DEF DocumentOf, TypeOK
<1>2. CASE Mine(a) # {}
  <2>1. Max(Mine(a)) \in DOMAIN writes[a]
    BY <1>2, LastOfMine DEF Mine
  <2>. QED
    BY <1>2, <2>1, QueueType DEF DocumentOf
<1>. QED
  BY <1>1, <1>2

(* A save adds a card to the array, and a write at the end of the queue of *)
(* whoever is signed in.                                                   *)
LEMMA DoneQueues ==
    ASSUME TypeOK, NEW n \in Numbers, DoneButton(n)
    PROVE  /\ session \in Accounts /\ uuid \in Accounts /\ Top = "form"
           /\ UNCHANGED <<ui, current_page, auth, uuid, docs>>
           /\ astray' = IF uuid = session THEN astray ELSE astray \cup {uuid}
           /\ \E card \in Card :
                  /\ card.account = session
                  /\ card_object' = Append(card_object, card)
           /\ card_object' \in Seq(Card) /\ IsPrefix(card_object, card_object')
           /\ writes' \in [Accounts -> Seq(Write)]
           /\ \E w \in Write :
                  /\ w.account = uuid /\ w.cards = card_object'
                  /\ \A b \in Accounts : \A k \in DOMAIN writes'[b] :
                         \/ k \in DOMAIN writes[b]
                            /\ writes'[b][k] = writes[b][k]
                         \/ /\ b = session /\ writes'[b][k] = w
                            /\ k = Len(writes[b]) + 1
<1>. PICK card : card = [number |-> n, account |-> session]
  OBVIOUS
<1>. PICK w : w = [account |-> uuid, cards |-> Append(card_object, card),
                   by |-> Len(stack)]
  OBVIOUS
<1>. PICK q : q = writes[session]
  OBVIOUS
<1>1. session \in Accounts /\ uuid \in Accounts /\ Top = "form"
  BY DEF DoneButton, Touchable, TypeOK
<1>2. card_object \in Seq(Card) /\ card \in Card /\ card.account = session
  BY <1>1 DEF TypeOK, Card
<1>3. /\ card_object' = Append(card_object, card)
      /\ writes' = [writes EXCEPT ![session] = Append(q, w)]
  BY DEF DoneButton, SaveCardInfo
<1>4. card_object' \in Seq(Card) /\ IsPrefix(card_object, card_object')
  BY <1>2, <1>3, AppendProperties, PrefixOrder
<1>5. w \in Write /\ w.account = uuid /\ w.cards = card_object'
  BY <1>1, <1>2, <1>3, <1>4, TopType DEF Write
<1>6. q \in Seq(Write) /\ Len(q) \in Nat /\ DOMAIN q = 1 .. Len(q)
  BY <1>1, QueueType
<1>7. /\ Append(q, w) \in Seq(Write)
      /\ DOMAIN Append(q, w) = 1 .. (Len(q) + 1)
      /\ Append(q, w)[Len(q) + 1] = w
      /\ \A k \in 1 .. Len(q) : Append(q, w)[k] = q[k]
  BY <1>5, <1>6, AppendProperties, LenProperties
<1>8. writes' \in [Accounts -> Seq(Write)]
  BY <1>1, <1>3, <1>7 DEF TypeOK
<1>9. ASSUME NEW b \in Accounts, NEW k \in DOMAIN writes'[b]
      PROVE  \/ k \in DOMAIN writes[b] /\ writes'[b][k] = writes[b][k]
             \/ b = session /\ writes'[b][k] = w /\ k = Len(writes[b]) + 1
  <2>1. CASE b = session
    <3>1. writes'[b] = Append(q, w) /\ writes[b] = q
      BY <1>1, <1>3, <2>1 DEF TypeOK
    <3>2. k \in 1 .. Len(q) \/ k = Len(q) + 1
      BY <1>6, <1>7, <1>9, <3>1
    <3>. QED
      BY <1>6, <1>7, <2>1, <3>1, <3>2
  <2>2. CASE b # session
    <3>1. writes'[b] = writes[b]
      BY <1>1, <1>3, <2>2 DEF TypeOK
    <3>. QED
      BY <1>9, <3>1
  <2>. QED
    BY <2>1, <2>2
<1>10. /\ UNCHANGED <<ui, current_page, auth, uuid, docs>>
       /\ astray' = IF uuid = session THEN astray ELSE astray \cup {uuid}
  BY DEF DoneButton
<1>. QED
  BY <1>1, <1>2, <1>3, <1>4, <1>5, <1>8, <1>9, <1>10

(* A write that completes leaves its queue, and may be in its document.    *)
LEMMA SaveQueues ==
    ASSUME TypeOK, NEW ok \in BOOLEAN, SaveDone(ok)
    PROVE  /\ session \in Accounts /\ 1 \in DOMAIN writes[session]
           /\ UNCHANGED <<current_page, auth, user, astray>>
           /\ alert' \in BOOLEAN
           /\ ShowCurrentList \/ UNCHANGED <<stack, rows>>
           /\ writes' \in [Accounts -> Seq(Write)]
           /\ docs' \in [Accounts -> Seq(Card)]
           /\ \A b \in Accounts : \A k \in DOMAIN writes'[b] :
                  \/ /\ b # session
                     /\ k \in DOMAIN writes[b] /\ writes'[b][k] = writes[b][k]
                  \/ /\ b = session /\ k \in Nat \ {0}
                     /\ k + 1 \in DOMAIN writes[b]
                     /\ writes'[b][k] = writes[b][k + 1]
           /\ \A a \in Accounts :
                  \/ docs'[a] = docs[a]
                  \/ /\ a = writes[session][1].account
                     /\ docs'[a] = writes[session][1].cards
<1>. PICK q : q = writes[session]
  OBVIOUS
<1>. PICK w : w = Head(q)
  OBVIOUS
<1>. PICK t : t = Tail(q)
  OBVIOUS
<1>1. session \in Accounts /\ q # <<>>
  BY DEF SaveDone, TypeOK
<1>2. /\ q \in Seq(Write) /\ Len(q) \in Nat \ {0} /\ DOMAIN q = 1 .. Len(q)
      /\ \A k \in DOMAIN q : /\ q[k].cards \in Seq(Card)
                             /\ q[k].account \in Accounts
  BY <1>1, QueueType, EmptySeq
<1>3. 1 \in DOMAIN q /\ w = q[1]
  BY <1>2
<1>4. /\ t \in Seq(Write) /\ Len(t) = Len(q) - 1
      /\ \A k \in 1 .. Len(t) : t[k] = q[k + 1]
  BY <1>1, <1>2, HeadTailProperties
<1>5. /\ DOMAIN t = 1 .. (Len(q) - 1)
      /\ \A k \in DOMAIN t : /\ k \in Nat \ {0} /\ k + 1 \in DOMAIN q
                             /\ t[k] = q[k + 1]
  <2>1. DOMAIN t = 1 .. (Len(q) - 1)
    BY <1>4, LenProperties
  <2>2. \A k \in 1 .. (Len(q) - 1) : k \in Nat \ {0} /\ k + 1 \in 1 .. Len(q)
    BY <1>2
  <2>. QED
    BY <1>2, <1>4, <2>1, <2>2
<1>6. /\ writes' = [writes EXCEPT ![session] = t]
      /\ docs' = IF ok THEN [docs EXCEPT ![w.account] = w.cards] ELSE docs
      /\ UNCHANGED <<current_page, auth, user, astray>>
      /\ alert' \in BOOLEAN
      /\ ShowCurrentList \/ UNCHANGED <<stack, rows>>
  BY DEF SaveDone, TypeOK
<1>7. writes' \in [Accounts -> Seq(Write)] /\ docs' \in [Accounts -> Seq(Card)]
  BY <1>1, <1>2, <1>3, <1>4, <1>6 DEF TypeOK
<1>8. ASSUME NEW b \in Accounts, NEW k \in DOMAIN writes'[b]
      PROVE  \/ /\ b # session
                /\ k \in DOMAIN writes[b] /\ writes'[b][k] = writes[b][k]
             \/ /\ b = session /\ k \in Nat \ {0}
                /\ k + 1 \in DOMAIN writes[b]
                /\ writes'[b][k] = writes[b][k + 1]
  <2>1. CASE b = session
    <3>1. writes'[b] = t /\ writes[b] = q
      BY <1>1, <1>6, <2>1 DEF TypeOK
    <3>. QED
      BY <1>5, <1>8, <2>1, <3>1
  <2>2. CASE b # session
    <3>1. writes'[b] = writes[b]
      BY <1>1, <1>6, <2>2 DEF TypeOK
    <3>. QED
      BY <1>8, <2>2, <3>1
  <2>. QED
    BY <2>1, <2>2
<1>9. \A a \in Accounts :
          docs'[a] = docs[a] \/ (a = w.account /\ docs'[a] = w.cards)
  BY <1>6 DEF TypeOK
<1>. QED
  BY <1>1, <1>3, <1>6, <1>7, <1>8, <1>9

-----------------------------------------------------------------------------
(***************************************************************************)
(* Each step keeps the types and the pages.                                *)
(***************************************************************************)
(* Presenting a page with what is queued and stored left alone.            *)
LEMMA ShowType ==
    ASSUME TypeOK, NEW p \in Pages, Show(p),
           p \notin {"login", "signup"} => session' # None,
           session' \in Accounts \cup {None}, uuid' \in Accounts \cup {None},
           card_object' \in Seq(Card), uuid' = None => card_object' = <<>>,
           UNCHANGED <<alert, status, signUps, store>>,
           current_page' \in {"PAYMENT", "RENT", "NONE"}
    PROVE  TypeOK'
<1>1. /\ stack' \in Seq(Pages) /\ stack' # <<>> /\ rows' \in Seq(Card)
      /\ Top' = p
  BY ShowProperties
<1>. QED
  BY <1>1 DEF TypeOK, store

(* Presenting a page other than the form, with the cards left alone.       *)
LEMMA ShowPage ==
    ASSUME TypeOK, NEW p \in Pages, Show(p), p # "form",
           p \notin Lists \/ UNCHANGED card_object
    PROVE  PageInv'
<1>1. Top' = p /\ (p \in Lists => rows' = card_object)
  BY ShowProperties
<1>. QED
  BY <1>1 DEF PageInv, TopListIsCurrent

(* A step that leaves the pages and the cards alone.                       *)
LEMMA SamePage ==
    ASSUME PageInv, UNCHANGED <<stack, rows, current_page>>,
           Top \notin Lists \/ UNCHANGED card_object
    PROVE  PageInv'
BY DEF PageInv, TopListIsCurrent, Top

(* A step of a sign-up that leaves the pages and the cards alone.          *)
LEMMA AuthStep ==
    ASSUME TypeOK, PageInv, UNCHANGED <<ui, current_page, card_object, store>>,
           session' \in Accounts \cup {None},
           session # None => session' # None,
           status' \in [Accounts -> Status],
           signUps' \in [Accounts -> SignUpCall],
           uuid' \in Accounts \cup {None}, uuid' = None => uuid = None
    PROVE  TypeOK' /\ PageInv'
<1>1. PageInv'
  BY SamePage DEF ui
<1>2. TypeOK'
  BY DEF TypeOK, Top, ui, store
<1>. QED
  BY <1>1, <1>2

LEMMA SignUpPageKeeps ==
    ASSUME TypeOK, PageInv, OpenSignUp \/ SignUpBack
    PROVE  TypeOK' /\ PageInv'
<1>1. CASE OpenSignUp
  <2>1. Show("signup") /\ "signup" \in Pages /\ "signup" \notin Lists
    BY <1>1, ListFacts DEF OpenSignUp, Pages
  <2>2. PageInv'
    BY <2>1, ShowPage
  <2>3. TypeOK'
    BY <1>1, <2>1, ShowType DEF OpenSignUp, TypeOK, auth, user
  <2>. QED
    BY <2>2, <2>3
<1>2. CASE SignUpBack
  <2>1. PICK s \in LoginPage : stack' = stack \o s
    BY <1>2 DEF SignUpBack
  <2>2. /\ s \in Seq(Pages) /\ Len(s) \in {1, 2}
        /\ s[Len(s)] \in {"login", "home"}
        /\ s[Len(s)] # "login" => session # None
    BY LoginPageType
  <2>3. /\ stack' \in Seq(Pages) /\ Len(stack') = Len(stack) + Len(s)
        /\ Len(stack) \in Nat /\ Top' = s[Len(s)]
    <3>1. stack \in Seq(Pages) /\ Len(stack) \in Nat /\ Len(s) \in Nat
      BY <2>2, TopType DEF TypeOK
    <3>2. /\ stack' \in Seq(Pages) /\ Len(stack') = Len(stack) + Len(s)
          /\ \A i \in 1 .. (Len(stack) + Len(s)) :
                 stack'[i] = IF i <= Len(stack) THEN stack[i]
                             ELSE s[i - Len(stack)]
      BY <2>1, <2>2, <3>1, ConcatProperties
    <3>3. /\ Len(stack) + Len(s) \in 1 .. (Len(stack) + Len(s))
          /\ ~ (Len(stack) + Len(s) <= Len(stack))
          /\ (Len(stack) + Len(s)) - Len(stack) = Len(s)
      BY <2>2, <3>1
    <3>. QED
      BY <3>1, <3>2, <3>3 DEF Top
  <2>4. stack' # <<>>
    BY <2>2, <2>3, EmptySeq
  <2>5. TypeOK'
    BY <1>2, <2>2, <2>3, <2>4 DEF SignUpBack, TypeOK, auth, user, store
  <2>6. PageInv'
    BY <2>2, <2>3, ListFacts DEF PageInv, TopListIsCurrent
  <2>. QED
    BY <2>5, <2>6
<1>. QED
  BY <1>1, <1>2

LEMMA SignUpKeeps ==
    ASSUME TypeOK, PageInv, NEW a \in Accounts, NEW ok \in BOOLEAN,
           \/ SignUpButton(a) \/ AuthServes(a) \/ VerifyEmail(a)
           \/ CreateDone(a, ok) \/ MailDone(a, ok)
    PROVE  TypeOK' /\ PageInv'
<1>0. /\ {"none", "create", "mail"} \subseteq SignUpCall
      /\ {"created", "mailed", "verified"} \subseteq Status
      /\ a # None
  BY CardsAssumption DEF SignUpCall, Status
<1>1. CASE SignUpButton(a)
  BY <1>0, <1>1, AuthStep DEF SignUpButton, TypeOK, user
<1>2. CASE AuthServes(a)
  BY <1>0, <1>2, AuthStep DEF AuthServes, TypeOK, user
<1>3. CASE VerifyEmail(a)
  BY <1>0, <1>3, AuthStep DEF VerifyEmail, TypeOK, user
<1>4. CASE CreateDone(a, ok)
  BY <1>0, <1>4, AuthStep DEF CreateDone, TypeOK, user
<1>5. CASE MailDone(a, ok)
  <2>1. CASE ok /\ session = None
    BY <1>5, <2>1, KillKeeps DEF MailDone
  <2>2. CASE ~ (ok /\ session = None)
    BY <1>0, <1>5, <2>2, AuthStep DEF MailDone, TypeOK
  <2>. QED
    BY <2>1, <2>2
<1>. QED
  BY <1>1, <1>2, <1>3, <1>4, <1>5

LEMMA LoginKeeps ==
    ASSUME TypeOK, PageInv, NEW a \in Accounts,
           SignIn(a) \/ SignInUnread(a) \/ SignInUnverified(a) \/ Logout
    PROVE  TypeOK' /\ PageInv'
<1>1. CASE SignIn(a)
  <2>1. Show("home") /\ "home" \in Pages /\ "home" \notin Lists
    BY <1>1, ListFacts DEF SignIn, Pages
  <2>2. card_object' \in Seq(Card)
    BY <1>1, DocumentType DEF SignIn, TypeOK
  <2>3. PageInv'
    BY <2>1, ShowPage
  <2>4. TypeOK'
    BY <1>1, <2>1, <2>2, ShowType, CardsAssumption DEF SignIn, TypeOK
  <2>. QED
    BY <2>3, <2>4
<1>2. CASE SignInUnread(a) \/ SignInUnverified(a)
  <2>1. Top = "login" /\ Top \notin Lists
    BY <1>2, ListFacts DEF SignInUnread, SignInUnverified, Touchable
  <2>2. /\ UNCHANGED <<stack, rows, current_page, status, signUps,
                       card_object, writes, docs>>
        /\ session' = a /\ uuid' \in {uuid, a} /\ alert' = TRUE
        /\ astray' = astray \cup {a}
    BY <1>2 DEF SignInUnread, SignInUnverified, user
  <2>3. PageInv'
    BY <2>1, <2>2, SamePage
  <2>4. TypeOK'
    BY <2>1, <2>2, CardsAssumption DEF TypeOK, Top
  <2>. QED
    BY <2>3, <2>4
<1>3. CASE Logout
  <2>1. Show("login") /\ "login" \in Pages /\ "login" \notin Lists
    BY <1>3, ListFacts DEF Logout, Pages
  <2>2. PageInv'
    BY <2>1, ShowPage
  <2>3. TypeOK'
    BY <1>3, <2>1, ShowType DEF Logout, TypeOK, user
  <2>. QED
    BY <2>2, <2>3
<1>. QED
  BY <1>1, <1>2, <1>3

(* What the user does on the lists and the form.                           *)
LEMMA PagesKeep ==
    ASSUME TypeOK, PageInv, NEW l \in Lists,
           OpenList(l) \/ AddCardRow(l) \/ ListBack(l) \/ FormBack
    PROVE  TypeOK' /\ PageInv'
<1>. USE ListFacts
<1>0. ASSUME NEW p \in Pages, Top \notin {"login", "signup"}, Show(p),
             UNCHANGED <<alert, auth, user, store>>,
             current_page' \in {"PAYMENT", "RENT", "NONE"}
      PROVE  TypeOK'
  BY <1>0, ShowType DEF TypeOK, user, auth
<1>1. CASE OpenList(l)
  <2>1. Show(l) /\ l \in Pages /\ l # "form" /\ Top = "home"
    BY <1>1 DEF OpenList, Touchable
  <2>. QED
    BY <1>0, <1>1, <2>1, ShowPage DEF OpenList, TypeOK, user
<1>2. CASE AddCardRow(l)
  <2>1. /\ Show("form") /\ "form" \in Pages /\ Top = l
        /\ l \notin {"login", "signup"}
    BY <1>2 DEF AddCardRow, Touchable, Pages
  <2>2. TypeOK'
    BY <1>0, <1>2, <2>1 DEF AddCardRow
  <2>3. /\ Top' = "form" /\ stack'[Len(stack') - 1] = l
        /\ Len(stack') = Len(stack) + 1 /\ Len(stack) > 0
    BY <2>1, ShowProperties, TopType
  <2>4. PageInv'
    BY <1>2, <2>3, TopType DEF AddCardRow, PageInv, TopListIsCurrent
  <2>. QED
    BY <2>2, <2>4
<1>3. CASE ListBack(l)
  <2>1. /\ Show("home") /\ "home" \in Pages /\ Top = l
        /\ l \notin {"login", "signup"} /\ "home" \notin Lists
    BY <1>3 DEF ListBack, Touchable, Pages
  <2>. QED
    BY <1>0, <1>3, <2>1, ShowPage DEF ListBack, TypeOK, user
<1>4. CASE FormBack
  <2>1. PICK m \in Lists : Show(m)
    BY <1>4 DEF FormBack, ShowCurrentList
  <2>2. m \in Pages /\ m # "form" /\ Top = "form"
    BY <1>4 DEF FormBack, Touchable
  <2>. QED
    BY <1>0, <1>4, <2>1, <2>2, ShowPage DEF FormBack, TypeOK, user
<1>. QED
  BY <1>1, <1>2, <1>3, <1>4

(* Saving a card.                                                          *)
LEMMA DoneKeeps ==
    ASSUME TypeOK, PageInv, NEW n \in Numbers, DoneButton(n)
    PROVE  TypeOK' /\ PageInv'
<1>1. /\ Top = "form" /\ Top \notin Lists
      /\ UNCHANGED <<ui, current_page, auth, uuid, docs>>
      /\ astray' = IF uuid = session THEN astray ELSE astray \cup {uuid}
      /\ uuid \in Accounts
      /\ card_object' \in Seq(Card) /\ writes' \in [Accounts -> Seq(Write)]
  <2>1. "form" \notin Lists
    BY ListFacts
  <2>. QED
    BY <2>1, DoneQueues
<1>2. TypeOK'
  BY <1>1, CardsAssumption DEF TypeOK, Top, ui, auth
<1>3. PageInv'
  BY <1>1, SamePage DEF ui
<1>. QED
  BY <1>2, <1>3

LEMMA SaveKeeps ==
    ASSUME TypeOK, PageInv, NEW ok \in BOOLEAN, SaveDone(ok)
    PROVE  TypeOK' /\ PageInv'
<1>1. /\ session \in Accounts /\ UNCHANGED <<current_page, auth, user, astray>>
      /\ alert' \in BOOLEAN
      /\ writes' \in [Accounts -> Seq(Write)]
      /\ docs' \in [Accounts -> Seq(Card)]
      /\ ShowCurrentList \/ UNCHANGED <<stack, rows>>
  BY SaveQueues
<1>2. CASE ShowCurrentList
  <2>1. PICK l \in Lists : Show(l)
    BY <1>2 DEF ShowCurrentList
  <2>2. l \in Pages /\ l # "form"
    BY ListFacts
  <2>3. stack' \in Seq(Pages) /\ stack' # <<>> /\ rows' \in Seq(Card)
    BY <2>1, <2>2, ShowProperties
  <2>4. TypeOK'
    BY <1>1, <2>3, CardsAssumption DEF TypeOK, auth, user
  <2>. QED
    BY <1>1, <2>1, <2>2, <2>4, ShowPage DEF user
<1>3. CASE UNCHANGED <<stack, rows>>
  <2>1. TypeOK'
    BY <1>1, <1>3 DEF TypeOK, Top, auth, user
  <2>. QED
    BY <1>1, <1>3, <2>1, SamePage DEF user
<1>. QED
  BY <1>1, <1>2, <1>3

-----------------------------------------------------------------------------
(* The state is always of the kind the code gives it, and the pages fit.   *)
LEMMA TypesAndPages == Spec => [](TypeOK /\ PageInv)
<1>1. Init => TypeOK /\ PageInv
  <2>. SUFFICES ASSUME Init
       PROVE  TypeOK /\ PageInv
    OBVIOUS
  <2>1. /\ stack \in Seq(Pages) /\ stack # <<>> /\ Top = "login"
    BY DEF Init, Pages, Top
  <2>2. \A c \in Card : <<c>> \in Seq(Card)
    OBVIOUS
  <2>3. docs \in [Accounts -> Seq(Card)]
    <3>1. {<<>>} \cup {<<c>> : c \in Card} \subseteq Seq(Card)
      BY <2>2, EmptySeq
    <3>. QED
      BY <3>1 DEF Init
  <2>4. <<>> \in Seq(Card) /\ <<>> \in Seq(Write)
    BY EmptySeq
  <2>5. status \in [Accounts -> Status] /\ signUps \in [Accounts -> SignUpCall]
    BY DEF Init, Status, SignUpCall
  <2>6. PageInv
    BY <2>1, ListFacts DEF PageInv, TopListIsCurrent
  <2>. QED
    BY <2>1, <2>3, <2>4, <2>5, <2>6 DEF Init, TypeOK
<1>2. TypeOK /\ PageInv /\ [Next]_vars => TypeOK' /\ PageInv'
  <2>. SUFFICES ASSUME TypeOK, PageInv, [Next]_vars
       PROVE  TypeOK' /\ PageInv'
    OBVIOUS
  <2>1. ASSUME NEW a \in Accounts, NEW ok \in BOOLEAN,
               \/ SignUpButton(a) \/ AuthServes(a) \/ VerifyEmail(a)
               \/ CreateDone(a, ok) \/ MailDone(a, ok)
        PROVE  TypeOK' /\ PageInv'
    BY <2>1, SignUpKeeps
  <2>2. CASE OpenSignUp \/ SignUpBack
    BY <2>2, SignUpPageKeeps
  <2>3. ASSUME NEW a \in Accounts,
               SignIn(a) \/ SignInUnread(a) \/ SignInUnverified(a)
        PROVE  TypeOK' /\ PageInv'
    BY <2>3, LoginKeeps
  <2>4. CASE Logout
    <3>1. session \in Accounts
      BY <2>4 DEF Logout, Touchable, TypeOK
    <3>. QED
      BY <2>4, <3>1, LoginKeeps
  <2>5. CASE \E l \in Lists : OpenList(l) \/ AddCardRow(l) \/ ListBack(l)
    BY <2>5, PagesKeep
  <2>6. CASE FormBack
    <3>1. "select" \in Lists
      BY ListFacts
    <3>. QED
      BY <2>6, <3>1, PagesKeep
  <2>7. CASE DoneInvalid \/ CloseAlert
    <3>1. PageInv'
      BY <2>7, SamePage DEF DoneInvalid, CloseAlert, user
    <3>2. TypeOK'
      BY <2>7 DEF DoneInvalid, CloseAlert, TypeOK, Top, auth, user, store
    <3>. QED
      BY <3>1, <3>2
  <2>8. CASE \E n \in Numbers : DoneButton(n)
    BY <2>8, DoneKeeps
  <2>9. CASE DoneTraps \/ Kill
    BY <2>9, KillKeeps DEF DoneTraps
  <2>10. CASE \E ok \in BOOLEAN : SaveDone(ok)
    BY <2>10, SaveKeeps
  <2>11. CASE UNCHANGED vars
    BY <2>11
       DEF vars, ui, auth, user, store, TypeOK, PageInv, TopListIsCurrent, Top
  <2>. QED
    BY <2>1, <2>2, <2>3, <2>4, <2>5, <2>6, <2>7, <2>8, <2>9, <2>10, <2>11
       DEF Next
<1>. QED
  BY <1>1, <1>2, PTL DEF Spec

(* The state of the cards is always of the kind the code gives it.         *)
THEOREM CardsTypeCorrect == Spec => []TypeOK
BY TypesAndPages, PTL

(* A list on top shows User.instance's cards, however long a save takes.   *)
THEOREM TopListShowsCards == Spec => []TopListIsCurrent
<1>1. PageInv => TopListIsCurrent
  BY DEF PageInv
<1>. QED
  BY <1>1, TypesAndPages, PTL

(* The form leads back to the list it was opened from.                     *)
THEOREM FormReturns == Spec => FormReturnsToItsList
<1>1. ASSUME TypeOK, PageInv, [Next]_vars,
             Top = "form", Len(stack') > Len(stack)
      PROVE  stack' = Append(stack, stack[Len(stack) - 1])
  <2>1. /\ Len(stack) > 1 /\ stack[Len(stack) - 1] \in Lists
        /\ current_page = ListPage[stack[Len(stack) - 1]]
    BY <1>1 DEF PageInv
  <2>2. Len(stack) \in Nat /\ Top \notin Lists
    BY <1>1, TopType, ListFacts
  <2>3. CASE ShowCurrentList
    BY <2>1, <2>3, ListFacts DEF ShowCurrentList, Show
  <2>4. CASE stack' = stack
    BY <1>1, <2>2, <2>4
  <2>5. CASE Kill
    <3>1. Len(stack') <= 2
      BY <2>5, LoginPageType DEF Kill
    <3>. QED
      BY <1>1, <2>1, <2>2, <3>1
  <2>6. ASSUME Next
        PROVE  ShowCurrentList \/ stack' = stack \/ Kill
    BY <1>1, <2>2, <2>6
       DEF Next, OpenSignUp, SignUpBack, SignUpButton, AuthServes, VerifyEmail,
           CreateDone, MailDone, SignIn, SignInUnread, SignInUnverified,
           Logout, OpenList, AddCardRow, ListBack, FormBack, DoneInvalid,
           DoneButton, DoneTraps, CloseAlert, SaveDone, Touchable, ui
  <2>. QED
    BY <1>1, <2>3, <2>4, <2>5, <2>6 DEF vars, ui
<1>2. TypeOK /\ PageInv /\ [Next]_vars
      => [Top = "form" /\ Len(stack') > Len(stack)
          => stack' = Append(stack, stack[Len(stack) - 1])]_vars
  BY <1>1
<1>. QED
  BY <1>2, TypesAndPages, PTL DEF Spec, FormReturnsToItsList

-----------------------------------------------------------------------------
(***************************************************************************)
(* No card is lost.                                                        *)
(***************************************************************************)
(* No account becomes new.                                                 *)
LEMMA NewStaysLess ==
    ASSUME TypeOK, NewInv, [Next]_vars, NEW a \in Accounts
    PROVE  /\ New(a)' => New(a)
           /\ signUps'[a] = "create" => status'[a] \in {"none", "created"}
<1>1. signUps[a] = "create" => status[a] \in {"none", "created"}
  BY DEF NewInv
<1>2. ASSUME NEW b \in Accounts, NEW ok \in BOOLEAN,
             \/ SignUpButton(b) \/ AuthServes(b) \/ VerifyEmail(b)
             \/ CreateDone(b, ok) \/ (MailDone(b, ok) /\ ~Kill)
      PROVE  /\ New(a)' => New(a)
             /\ signUps'[a] = "create" => status'[a] \in {"none", "created"}
  BY <1>1, <1>2 DEF SignUpButton, AuthServes, VerifyEmail, CreateDone,
                    MailDone, New, TypeOK
<1>3. CASE Kill
  BY <1>3 DEF Kill, New
<1>4. CASE UNCHANGED <<status, signUps>>
  BY <1>1, <1>4 DEF New
<1>5. Next => \/ \E b \in Accounts, ok \in BOOLEAN :
                     \/ SignUpButton(b) \/ AuthServes(b) \/ VerifyEmail(b)
                     \/ CreateDone(b, ok) \/ (MailDone(b, ok) /\ ~Kill)
              \/ Kill \/ UNCHANGED <<status, signUps>>
  BY DEF Next, OpenSignUp, SignUpBack, SignIn, SignInUnread, SignInUnverified,
         Logout, OpenList, AddCardRow, ListBack, FormBack, DoneInvalid,
         DoneButton, DoneTraps, CloseAlert, SaveDone, auth
<1>6. UNCHANGED vars => UNCHANGED <<status, signUps>>
  BY DEF vars, auth
<1>. QED
  BY <1>2, <1>3, <1>4, <1>5, <1>6

(* A step of what is queued, stored or held that is not about new accounts *)
(* keeps what is known of them.                                            *)
LEMMA NewStep ==
    ASSUME TypeOK, NewInv, [Next]_vars, astray \subseteq astray',
           \A a \in Accounts \ astray' :
               New(a) /\ New(a)' =>
                   /\ session' # a /\ uuid' # a /\ docs'[a] = <<>>
                   /\ \A b \in Accounts : \A k \in DOMAIN writes'[b] :
                          writes'[b][k].account # a
    PROVE  NewInv'
<1>1. \A a \in Accounts :
          signUps'[a] = "create" => status'[a] \in {"none", "created"}
  BY NewStaysLess
<1>2. \A a \in Accounts : New(a)' => New(a)
  BY NewStaysLess
<1>. QED
  BY <1>1, <1>2 DEF NewInv

LEMMA NewKept ==
    ASSUME TypeOK, NewInv, [Next]_vars
    PROVE  NewInv'
<1>0. \A a \in Accounts \ astray :
          New(a) => /\ session # a /\ uuid # a /\ docs[a] = <<>>
                    /\ \A b \in Accounts : \A k \in DOMAIN writes[b] :
                           writes[b][k].account # a
  BY DEF NewInv
<1>1. ASSUME NEW a \in Accounts,
             SignIn(a) \/ SignInUnread(a) \/ SignInUnverified(a)
      PROVE  NewInv'
  <2>1. /\ UNCHANGED <<writes, docs>> /\ session' = a /\ uuid' \in {a, uuid}
        /\ astray \subseteq astray'
    BY <1>1 DEF SignIn, SignInUnread, SignInUnverified, store, user
  <2>2. a \in astray' \/ ~New(a)
    <3>1. status[a] = "verified" => ~New(a)
      BY DEF New, NewInv
    <3>. QED
      BY <1>1, <3>1 DEF SignIn, SignInUnread, SignInUnverified
  <2>. QED
    BY <1>0, <2>1, <2>2, NewStep
<1>2. ASSUME NEW a \in Accounts, NEW ok \in BOOLEAN, CreateDone(a, ok)
      PROVE  NewInv'
  <2>1. /\ UNCHANGED <<writes, docs, astray, uuid>>
        /\ session' = session \/ (session' = a /\ ~New(a)')
    BY <1>2 DEF CreateDone, store, user, New, TypeOK
  <2>. QED
    BY <1>0, <2>1, NewStep
<1>3. ASSUME NEW n \in Numbers, DoneButton(n)
      PROVE  NewInv'
  <2>1. /\ UNCHANGED <<session, uuid, docs>> /\ astray \subseteq astray'
        /\ \A b \in Accounts : \A k \in DOMAIN writes'[b] :
               \/ k \in DOMAIN writes[b] /\ writes'[b][k] = writes[b][k]
               \/ writes'[b][k].account = uuid
    BY <1>3, DoneQueues DEF auth
  <2>. QED
    BY <1>0, <2>1, NewStep
<1>4. ASSUME NEW ok \in BOOLEAN, SaveDone(ok)
      PROVE  NewInv'
  <2>1. /\ UNCHANGED <<session, uuid, astray>>
        /\ session \in Accounts /\ 1 \in DOMAIN writes[session]
        /\ \A b \in Accounts : \A k \in DOMAIN writes'[b] :
               \E j \in DOMAIN writes[b] : writes'[b][k] = writes[b][j]
        /\ \A a \in Accounts :
               docs'[a] = docs[a] \/ a = writes[session][1].account
    BY <1>4, SaveQueues DEF auth, user
  <2>. QED
    BY <1>0, <2>1, NewStep
<1>5. CASE Kill
  <2>1. /\ UNCHANGED <<session, docs, astray>> /\ uuid' = None
        /\ \A b \in Accounts : \A k \in DOMAIN writes'[b] :
               /\ k \in DOMAIN writes[b]
               /\ writes'[b][k].account = writes[b][k].account
    BY <1>5, ForgottenWrites DEF Kill
  <2>. QED
    BY <1>0, <2>1, NewStep, CardsAssumption
<1>6. CASE /\ UNCHANGED <<writes, docs, astray>>
           /\ session' \in {session, None} /\ uuid' \in {uuid, session}
  BY <1>0, <1>6, NewStep, CardsAssumption
<1>7. Next => \/ \E a \in Accounts :
                     SignIn(a) \/ SignInUnread(a) \/ SignInUnverified(a)
              \/ \E a \in Accounts, ok \in BOOLEAN : CreateDone(a, ok)
              \/ \E n \in Numbers : DoneButton(n)
              \/ \E ok \in BOOLEAN : SaveDone(ok)
              \/ Kill
              \/ /\ UNCHANGED <<writes, docs, astray>>
                 /\ session' \in {session, None} /\ uuid' \in {uuid, session}
  BY DEF Next, OpenSignUp, SignUpBack, SignUpButton, AuthServes, VerifyEmail,
         MailDone, Logout, OpenList, AddCardRow, ListBack, FormBack,
         DoneInvalid, DoneTraps, CloseAlert, auth, user, store
<1>8. UNCHANGED vars => /\ UNCHANGED <<writes, docs, astray>>
                        /\ session' = session /\ uuid' = uuid
  BY DEF vars, auth, user, store
<1>. QED
  BY <1>1, <1>2, <1>3, <1>4, <1>5, <1>6, <1>7, <1>8

(* A step that leaves what is queued and stored as it is, and after which  *)
(* User.instance is nobody's that it was not, with the cards it held.      *)
LEMMA SameChain ==
    ASSUME Chain, docs' = docs, astray \subseteq astray',
           \A a \in Accounts :
               /\ DOMAIN writes'[a] = DOMAIN writes[a]
               /\ \A k \in DOMAIN writes[a] :
                      /\ writes'[a][k].account = writes[a][k].account
                      /\ writes'[a][k].cards = writes[a][k].cards,
           \A a \in Accounts \ astray' :
               Held(a)' => Held(a) /\ card_object' = card_object
    PROVE  Chain'
<1>. SUFFICES ASSUME NEW a \in Accounts \ astray'
     PROVE  ChainOf(a)'
  BY DEF Chain
<1>1. ChainOf(a) /\ a \in Accounts
  BY DEF Chain
<1>2. Mine(a)' = Mine(a)
  BY <1>1 DEF Mine
<1>3. \A k \in Mine(a) : writes'[a][k].cards = writes[a][k].cards
  BY <1>1 DEF Mine
<1>4. \A b \in Accounts : \A k \in DOMAIN writes'[b] :
          writes'[b][k].account = a
          => b = a /\ IsPrefix(docs'[a], writes'[b][k].cards)
  BY <1>1 DEF ChainOf
<1>5. \A j, k \in Mine(a)' :
          j < k => IsPrefix(writes'[a][j].cards, writes'[a][k].cards)
  BY <1>1, <1>2, <1>3 DEF ChainOf
<1>6. Held(a)' => /\ IsPrefix(docs'[a], card_object')
                  /\ \A k \in Mine(a)' :
                         IsPrefix(writes'[a][k].cards, card_object')
  BY <1>1, <1>2, <1>3 DEF ChainOf
<1>. QED
  BY <1>4, <1>5, <1>6 DEF ChainOf

(* A login starts from what the last queued write leaves of the document.  *)
LEMMA SignInChain ==
    ASSUME TypeOK, Chain, NEW a \in Accounts, SignIn(a)
    PROVE  Chain'
<1>1. /\ uuid' = a /\ session' = a /\ UNCHANGED <<writes, docs, astray>>
      /\ card_object' = IF DocumentOf(a) = <<>> THEN card_object
                        ELSE DocumentOf(a)
  BY DEF SignIn, store
<1>2. /\ docs[a] \in Seq(Card) /\ card_object \in Seq(Card)
      /\ DocumentOf(a) \in Seq(Card)
  BY DocumentType DEF TypeOK
<1>3. IsPrefix(DocumentOf(a), card_object') /\ card_object' \in Seq(Card)
  BY <1>1, <1>2, PrefixOrder
<1>4. ASSUME ChainOf(a)
      PROVE  /\ IsPrefix(docs[a], DocumentOf(a))
             /\ \A k \in Mine(a) : IsPrefix(writes[a][k].cards, DocumentOf(a))
  <2>1. CASE Mine(a) = {}
    BY <1>2, <2>1, PrefixOrder DEF DocumentOf
  <2>2. CASE Mine(a) # {}
    <3>. DEFINE n == Max(Mine(a))
    <3>1. n \in Mine(a) /\ \A k \in Mine(a) : k <= n
      BY <2>2, LastOfMine
    <3>2. DocumentOf(a) = writes[a][n].cards
      BY <2>2 DEF DocumentOf
    <3>3. Mine(a) \subseteq DOMAIN writes[a] /\ DOMAIN writes[a] \subseteq Nat
      BY QueueType DEF Mine
    <3>. HIDE DEF n
    <3>4. IsPrefix(docs[a], writes[a][n].cards)
      BY <1>4, <3>1 DEF ChainOf, Mine
    <3>5. ASSUME NEW k \in Mine(a)
          PROVE  IsPrefix(writes[a][k].cards, writes[a][n].cards)
      <4>1. CASE k = n
        BY <1>2, <3>2, <4>1, PrefixOrder
      <4>2. CASE k # n
        <5>1. k < n
          BY <3>1, <3>3, <4>2
        <5>. QED
          BY <1>4, <3>1, <5>1 DEF ChainOf
      <4>. QED
        BY <4>1, <4>2
    <3>. QED
      BY <3>2, <3>4, <3>5
  <2>. QED
    BY <2>1, <2>2
<1>5. ASSUME ChainOf(a)
      PROVE  /\ IsPrefix(docs[a], card_object')
             /\ \A k \in Mine(a) : IsPrefix(writes[a][k].cards, card_object')
  <2>1. \A k \in Mine(a) : writes[a][k].cards \in Seq(Card)
    BY QueueType DEF Mine
  <2>. QED
    BY <1>2, <1>3, <1>4, <1>5, <2>1, PrefixOrder
<1>. SUFFICES ASSUME NEW b \in Accounts \ astray'
     PROVE  ChainOf(b)'
  BY DEF Chain
<1>6. ChainOf(b) /\ Mine(b)' = Mine(b)
  BY <1>1 DEF Chain, Mine
<1>7. CASE b = a
  BY <1>1, <1>5, <1>6, <1>7 DEF ChainOf
<1>8. CASE b # a
  <2>1. ~Held(b)'
    BY <1>1, <1>8 DEF Held
  <2>. QED
    BY <1>1, <1>6, <2>1 DEF ChainOf
<1>. QED
  BY <1>7, <1>8

(* A save extends the array and queues it.                                 *)
LEMMA DoneChain ==
    ASSUME TypeOK, Chain, NEW n \in Numbers, DoneButton(n)
    PROVE  Chain'
<1>1. /\ session \in Accounts /\ uuid \in Accounts
      /\ UNCHANGED <<auth, uuid, docs>>
      /\ astray' = IF uuid = session THEN astray ELSE astray \cup {uuid}
      /\ card_object' \in Seq(Card) /\ IsPrefix(card_object, card_object')
  BY DoneQueues
<1>2. PICK w \in Write :
          /\ w.account = uuid /\ w.cards = card_object'
          /\ \A b \in Accounts : \A k \in DOMAIN writes'[b] :
                 \/ k \in DOMAIN writes[b] /\ writes'[b][k] = writes[b][k]
                 \/ /\ b = session /\ writes'[b][k] = w
                    /\ k = Len(writes[b]) + 1
  BY DoneQueues
<1>. SUFFICES ASSUME NEW a \in Accounts \ astray'
     PROVE  ChainOf(a)'
  BY DEF Chain
<1>3. ChainOf(a) /\ a \in Accounts /\ (uuid = a => session = a)
  BY <1>1 DEF Chain
<1>4. /\ docs[a] \in Seq(Card) /\ card_object \in Seq(Card)
      /\ DOMAIN writes[a] = 1 .. Len(writes[a]) /\ Len(writes[a]) \in Nat
      /\ \A k \in DOMAIN writes[a] : writes[a][k].cards \in Seq(Card)
  BY <1>3, QueueType DEF TypeOK
<1>5. Held(a)' <=> Held(a)
  BY <1>1 DEF Held, auth
<1>6. ASSUME Held(a)
      PROVE  /\ IsPrefix(docs[a], card_object')
             /\ \A k \in Mine(a) : IsPrefix(writes[a][k].cards, card_object')
  BY <1>1, <1>3, <1>4, <1>6, PrefixOrder DEF ChainOf, Mine
<1>7. uuid = a => Held(a)
  BY DEF Held
<1>8. \A k \in Mine(a)' :
          \/ k \in Mine(a) /\ writes'[a][k] = writes[a][k]
          \/ uuid = a /\ writes'[a][k] = w /\ k = Len(writes[a]) + 1
  BY <1>2, <1>3 DEF Mine
<1>9. \A b \in Accounts : \A k \in DOMAIN writes'[b] :
          writes'[b][k].account = a
          => b = a /\ IsPrefix(docs'[a], writes'[b][k].cards)
  BY <1>1, <1>2, <1>3, <1>6, <1>7 DEF ChainOf
<1>10. ASSUME NEW j \in Mine(a)', NEW k \in Mine(a)', j < k
       PROVE  IsPrefix(writes'[a][j].cards, writes'[a][k].cards)
  <2>1. j \in Mine(a) /\ writes'[a][j] = writes[a][j]
    <3>1. Mine(a) \subseteq 1 .. Len(writes[a])
      BY <1>4 DEF Mine
    <3>. QED
      BY <1>4, <1>8, <1>10, <3>1
  <2>2. CASE k \in Mine(a) /\ writes'[a][k] = writes[a][k]
    BY <1>3, <1>10, <2>1, <2>2 DEF ChainOf
  <2>3. CASE uuid = a /\ writes'[a][k] = w
    BY <1>2, <1>6, <1>7, <2>1, <2>3
  <2>. QED
    BY <1>8, <2>2, <2>3
<1>11. ASSUME Held(a)'
       PROVE  /\ IsPrefix(docs'[a], card_object')
              /\ \A k \in Mine(a)' :
                     IsPrefix(writes'[a][k].cards, card_object')
  <2>1. IsPrefix(card_object', card_object')
    BY <1>1, PrefixOrder
  <2>. QED
    BY <1>1, <1>2, <1>5, <1>6, <1>8, <1>11, <2>1
<1>. QED
  BY <1>9, <1>10, <1>11 DEF ChainOf

(* The first write in the queue reaches the document, or does not.         *)
LEMMA SaveChain ==
    ASSUME TypeOK, Chain, NEW ok \in BOOLEAN, SaveDone(ok)
    PROVE  Chain'
<1>1. /\ session \in Accounts /\ 1 \in DOMAIN writes[session]
      /\ UNCHANGED <<auth, user, astray>>
      /\ \A b \in Accounts : \A k \in DOMAIN writes'[b] :
             \/ /\ b # session
                /\ k \in DOMAIN writes[b] /\ writes'[b][k] = writes[b][k]
             \/ /\ b = session /\ k \in Nat \ {0}
                /\ k + 1 \in DOMAIN writes[b]
                /\ writes'[b][k] = writes[b][k + 1]
      /\ \A a \in Accounts :
             \/ docs'[a] = docs[a]
             \/ /\ a = writes[session][1].account
                /\ docs'[a] = writes[session][1].cards
  BY SaveQueues
<1>. SUFFICES ASSUME NEW a \in Accounts \ astray'
     PROVE  ChainOf(a)'
  BY DEF Chain
<1>2. ChainOf(a) /\ a \in Accounts
  BY <1>1 DEF Chain
<1>3. CASE a # session
  <2>1. docs'[a] = docs[a]
    BY <1>1, <1>2, <1>3 DEF ChainOf
  <2>2. \A k \in Mine(a)' : k \in Mine(a) /\ writes'[a][k] = writes[a][k]
    BY <1>1, <1>2, <1>3 DEF Mine
  <2>3. Held(a)' => Held(a) /\ card_object' = card_object
    BY <1>1 DEF Held, auth, user
  <2>4. \A b \in Accounts : \A k \in DOMAIN writes'[b] :
            writes'[b][k].account = a
            => b = a /\ IsPrefix(docs'[a], writes'[b][k].cards)
    BY <1>1, <1>2, <1>3, <2>1 DEF ChainOf
  <2>. QED
    BY <1>2, <2>1, <2>2, <2>3, <2>4 DEF ChainOf
<1>4. CASE a = session
  <2>1. \A k \in Mine(a)' : /\ k \in Nat /\ k + 1 \in Mine(a) /\ 1 < k + 1
                            /\ writes'[a][k] = writes[a][k + 1]
    BY <1>1, <1>2, <1>4 DEF Mine
  <2>2. \/ docs'[a] = docs[a]
        \/ 1 \in Mine(a) /\ docs'[a] = writes[a][1].cards
    BY <1>1, <1>2, <1>4 DEF Mine
  <2>3. \A k \in Mine(a) : IsPrefix(docs[a], writes[a][k].cards)
    BY <1>2 DEF ChainOf, Mine
  <2>4. \A k \in Mine(a)' : IsPrefix(docs'[a], writes'[a][k].cards)
    BY <1>2, <2>1, <2>2, <2>3 DEF ChainOf
  <2>5. \A b \in Accounts : \A k \in DOMAIN writes'[b] :
            writes'[b][k].account = a
            => b = a /\ IsPrefix(docs'[a], writes'[b][k].cards)
    <3>1. \A b \in Accounts : \A k \in DOMAIN writes'[b] :
              writes'[b][k].account = a => b = a
      BY <1>1, <1>2, <1>4 DEF ChainOf
    <3>. QED
      BY <2>4, <3>1 DEF Mine
  <2>6. \A j, k \in Mine(a)' :
            j < k => IsPrefix(writes'[a][j].cards, writes'[a][k].cards)
    <3>1. \A j, k \in Mine(a)' : j < k => j + 1 < k + 1
      BY <2>1
    <3>. QED
      BY <1>2, <2>1, <3>1 DEF ChainOf
  <2>7. Held(a)' => Held(a) /\ card_object' = card_object
    BY <1>1 DEF Held, auth, user
  <2>8. Held(a)' => /\ IsPrefix(docs'[a], card_object')
                    /\ \A k \in Mine(a)' :
                           IsPrefix(writes'[a][k].cards, card_object')
    BY <1>2, <2>1, <2>2, <2>7 DEF ChainOf
  <2>. QED
    BY <2>5, <2>6, <2>8 DEF ChainOf
<1>. QED
  BY <1>3, <1>4

(* A sign-up's calls: the account that createUser signs in has no cards    *)
(* yet, and a uuid set later finds the cards that there were before.       *)
LEMMA SignUpChain ==
    ASSUME TypeOK, NewInv, Chain, NEW a \in Accounts, NEW ok \in BOOLEAN,
           CreateDone(a, ok) \/ (MailDone(a, ok) /\ ~Kill)
    PROVE  Chain'
<1>1. CASE MailDone(a, ok) /\ ~Kill
  <2>1. /\ UNCHANGED <<session, card_object, store>> /\ signUps[a] = "mail"
        /\ signUps' = [signUps EXCEPT ![a] = "none"]
        /\ uuid' \in {uuid, session}
    BY <1>1 DEF MailDone
  <2>2. \A b \in Accounts : signUps'[b] = "mail" => signUps[b] = "mail"
    BY <2>1 DEF TypeOK
  <2>3. \A b \in Accounts : Held(b)' => Held(b)
    BY <2>1, <2>2 DEF Held
  <2>. QED
    BY <2>1, <2>3, SameChain DEF store
<1>2. CASE CreateDone(a, ok) /\ ~ok
  <2>1. /\ UNCHANGED <<session, user, store>>
        /\ signUps' = [signUps EXCEPT ![a] = "none"]
    BY <1>2 DEF CreateDone
  <2>2. \A b \in Accounts : signUps'[b] = "mail" => signUps[b] = "mail"
    BY <2>1 DEF TypeOK
  <2>3. \A b \in Accounts : Held(b)' => Held(b)
    BY <2>1, <2>2 DEF Held, user
  <2>. QED
    BY <2>1, <2>3, SameChain DEF store, user
<1>3. CASE CreateDone(a, ok) /\ ok
  <2>1. /\ UNCHANGED <<user, store>> /\ session' = a /\ New(a)
    BY <1>3 DEF CreateDone, New
  <2>. SUFFICES ASSUME NEW b \in Accounts \ astray'
       PROVE  ChainOf(b)'
    BY DEF Chain
  <2>2. ChainOf(b) /\ Mine(b)' = Mine(b)
    BY <2>1 DEF Chain, Mine, store
  <2>3. CASE b = a
    <3>1. docs[b] = <<>> /\ Mine(b) = {}
      BY <2>1, <2>3 DEF NewInv, Mine, store
    <3>2. IsPrefix(<<>>, card_object)
      BY PrefixOrder DEF TypeOK
    <3>. QED
      BY <2>1, <2>2, <3>1, <3>2 DEF ChainOf, store, user
  <2>4. CASE b # a
    <3>1. Held(b)' => Held(b)
      BY <2>1, <2>4 DEF Held, user
    <3>. QED
      BY <2>1, <2>2, <3>1 DEF ChainOf, store, user
  <2>. QED
    BY <2>3, <2>4
<1>. QED
  BY <1>1, <1>2, <1>3

(* Every step keeps the chain.                                             *)
LEMMA ChainKept ==
    ASSUME TypeOK, NewInv, Chain, [Next]_vars
    PROVE  Chain'
<1>1. CASE \E a \in Accounts : SignIn(a)
  BY <1>1, SignInChain
<1>2. ASSUME NEW a \in Accounts, SignInUnread(a) \/ SignInUnverified(a)
      PROVE  Chain'
  <2>1. /\ UNCHANGED <<card_object, signUps, writes, docs>>
        /\ session' = a /\ uuid' \in {uuid, a} /\ astray' = astray \cup {a}
    BY <1>2 DEF SignInUnread, SignInUnverified, user
  <2>2. \A b \in Accounts \ astray' : Held(b)' => Held(b)
    BY <2>1 DEF Held
  <2>. QED
    BY <2>1, <2>2, SameChain
<1>3. CASE \E n \in Numbers : DoneButton(n)
  BY <1>3, DoneChain
<1>4. CASE \E ok \in BOOLEAN : SaveDone(ok)
  BY <1>4, SaveChain
<1>5. CASE Kill
  <2>1. UNCHANGED <<docs, astray>> /\ \A a \in Accounts : ~Held(a)'
    BY <1>5, CardsAssumption DEF Kill, Held
  <2>. QED
    BY <1>5, <2>1, ForgottenWrites, SameChain
<1>6. CASE \E a \in Accounts, ok \in BOOLEAN :
               CreateDone(a, ok) \/ (MailDone(a, ok) /\ ~Kill)
  BY <1>6, SignUpChain
<1>7. CASE /\ UNCHANGED <<user, store>> /\ session' \in {session, None}
           /\ \A b \in Accounts : signUps'[b] = "mail" => signUps[b] = "mail"
  <2>1. \A b \in Accounts : Held(b)' => Held(b)
    BY <1>7, CardsAssumption DEF Held, user
  <2>. QED
    BY <1>7, <2>1, SameChain DEF user, store
<1>8. ASSUME NEW a \in Accounts, SignUpButton(a)
      PROVE  \A b \in Accounts : signUps'[b] = "mail" => signUps[b] = "mail"
  BY <1>8 DEF SignUpButton, TypeOK
<1>9. Next => \/ \E a \in Accounts : SignIn(a)
              \/ \E a \in Accounts : SignInUnread(a) \/ SignInUnverified(a)
              \/ \E n \in Numbers : DoneButton(n)
              \/ \E ok \in BOOLEAN : SaveDone(ok)
              \/ Kill
              \/ \E a \in Accounts, ok \in BOOLEAN :
                     CreateDone(a, ok) \/ (MailDone(a, ok) /\ ~Kill)
              \/ \E a \in Accounts :
                     SignUpButton(a) /\ UNCHANGED <<user, store, session>>
              \/ /\ UNCHANGED <<user, store, signUps>>
                 /\ session' \in {session, None}
  BY DEF Next, OpenSignUp, SignUpBack, SignUpButton, AuthServes, VerifyEmail,
         Logout, OpenList, AddCardRow, ListBack, FormBack, DoneInvalid,
         DoneTraps, CloseAlert, auth
<1>10. UNCHANGED vars => UNCHANGED <<user, store, signUps, session>>
  BY DEF vars, auth
<1>. QED
  BY <1>1, <1>2, <1>3, <1>4, <1>5, <1>6, <1>7, <1>8, <1>9, <1>10

(* No card is lost from the document of an account that was read when it   *)
(* was let in and whose uuid nobody else saved under.                      *)
THEOREM NoCardIsLost == Spec => CardsKept
<1>1. Init => NewInv /\ Chain
  <2>. SUFFICES ASSUME Init
       PROVE  NewInv /\ Chain
    OBVIOUS
  <2>1. \A a \in Accounts : writes[a] = <<>> /\ Mine(a) = {} /\ ~Held(a)
    BY CardsAssumption DEF Init, Mine, Held
  <2>2. Chain
    BY <2>1 DEF Chain, ChainOf
  <2>3. NewInv
    BY <2>1, CardsAssumption DEF Init, NewInv, New
  <2>. QED
    BY <2>2, <2>3
<1>2. TypeOK /\ NewInv /\ Chain /\ [Next]_vars => NewInv' /\ Chain'
  BY NewKept, ChainKept
<1>3. TypeOK /\ Chain /\ [Next]_vars
      => [\A a \in Accounts \ astray : IsPrefix(docs[a], docs'[a])]_vars
  <2>. SUFFICES ASSUME TypeOK, Chain, [Next]_vars, NEW a \in Accounts \ astray
       PROVE  IsPrefix(docs[a], docs'[a])
    OBVIOUS
  <2>1. docs[a] \in Seq(Card)
    BY DEF TypeOK
  <2>2. CASE docs' = docs
    BY <2>1, <2>2, PrefixOrder
  <2>3. ASSUME NEW ok \in BOOLEAN, SaveDone(ok)
        PROVE  IsPrefix(docs[a], docs'[a])
    <3>1. /\ session \in Accounts /\ 1 \in DOMAIN writes[session]
          /\ \/ docs'[a] = docs[a]
             \/ /\ a = writes[session][1].account
                /\ docs'[a] = writes[session][1].cards
      BY <2>3, SaveQueues
    <3>. QED
      BY <2>1, <3>1, PrefixOrder DEF Chain, ChainOf
  <2>4. Next => docs' = docs \/ \E ok \in BOOLEAN : SaveDone(ok)
    BY DEF Next, OpenSignUp, SignUpBack, SignUpButton, AuthServes, VerifyEmail,
           CreateDone, MailDone, SignIn, SignInUnread, SignInUnverified,
           Logout, OpenList, AddCardRow, ListBack, FormBack, DoneInvalid,
           DoneButton, DoneTraps, CloseAlert, Kill, store
  <2>. QED
    BY <2>2, <2>3, <2>4 DEF vars, store
<1>4. TypeOK /\ NewInv /\ Chain /\ [Next]_vars
      => [\A a \in Accounts \ astray : IsPrefix(docs[a], docs'[a])]_vars
  BY <1>3
<1>. QED
  BY <1>1, <1>2, <1>4, TypesAndPages, PTL DEF Spec, CardsKept

-----------------------------------------------------------------------------
(***************************************************************************)
(* Whose cards a document holds.  OwnCardsOnly is false; what makes it so  *)
(* is a logout, which leaves User.instance to the next user, or a save     *)
(* while User.instance is not that of the user who is signed in.           *)
(***************************************************************************)
Matched == session # None /\ uuid # None => uuid = session

Owns(a, s) == \A i \in DOMAIN s : s[i].account = a

(* Whoever logs in or signs up starts without cards, and all cards that    *)
(* are held, queued or stored are their account's.                         *)
OwnInv ==
    /\ \A a \in Accounts :
           /\ Owns(a, docs[a])
           /\ \A k \in DOMAIN writes[a] :
                  Owns(writes[a][k].account, writes[a][k].cards)
    /\ Top \in {"login", "signup"} => card_object = <<>>
    /\ uuid # None => session # None
    /\ session # None => Owns(session, card_object)

(* The document that a login reads holds cards of the account.             *)
LEMMA DocumentOwn ==
    ASSUME TypeOK, OwnInv, NEW a \in Accounts
    PROVE  Owns(a, DocumentOf(a))
<1>1. CASE Mine(a) = {}
  BY <1>1 DEF DocumentOf, OwnInv
<1>2. CASE Mine(a) # {}
  <2>1. Max(Mine(a)) \in Mine(a)
    BY <1>2, LastOfMine
  <2>. QED
    BY <1>2, <2>1 DEF DocumentOf, OwnInv, Mine
<1>. QED
  BY <1>1, <1>2

(* Presenting a page other than those for logging in and signing up.       *)
LEMMA ShowOwn ==
    ASSUME TypeOK, OwnInv, NEW p \in Pages, Show(p),
           p \notin {"login", "signup"},
           UNCHANGED <<session, uuid, card_object, writes, docs>>
    PROVE  OwnInv'
<1>1. Top' = p
  BY ShowProperties
<1>. QED
  BY <1>1 DEF OwnInv

(* A card that is saved joins cards of the same account.                   *)
LEMMA DoneOwn ==
    ASSUME TypeOK, OwnInv, Matched, NEW n \in Numbers, DoneButton(n)
    PROVE  OwnInv'
<1>1. /\ session \in Accounts /\ uuid \in Accounts /\ Top = "form"
      /\ UNCHANGED <<stack, session, uuid, docs>> /\ card_object' \in Seq(Card)
  BY DoneQueues DEF ui, auth
<1>2. uuid = session /\ card_object \in Seq(Card)
  BY <1>1, CardsAssumption DEF Matched, TypeOK
<1>3. Owns(session, card_object')
  <2>1. PICK card \in Card : /\ card.account = session
                             /\ card_object' = Append(card_object, card)
    BY DoneQueues
  <2>2. /\ Len(card_object) \in Nat
        /\ DOMAIN card_object = 1 .. Len(card_object)
        /\ DOMAIN card_object' = 1 .. (Len(card_object) + 1)
        /\ \A i \in 1 .. Len(card_object) : card_object'[i] = card_object[i]
        /\ card_object'[Len(card_object) + 1] = card
    BY <1>2, <2>1, AppendProperties, LenProperties
  <2>3. Owns(session, card_object)
    BY <1>1, CardsAssumption DEF OwnInv
  <2>4. \A i \in 1 .. (Len(card_object) + 1) :
            i \in 1 .. Len(card_object) \/ i = Len(card_object) + 1
    BY <2>2
  <2>. QED
    BY <2>1, <2>2, <2>3, <2>4 DEF Owns
<1>4. \A b \in Accounts : \A k \in DOMAIN writes'[b] :
          Owns(writes'[b][k].account, writes'[b][k].cards)
  <2>1. PICK w \in Write :
            /\ w.account = uuid /\ w.cards = card_object'
            /\ \A b \in Accounts : \A k \in DOMAIN writes'[b] :
                   \/ k \in DOMAIN writes[b] /\ writes'[b][k] = writes[b][k]
                   \/ /\ b = session /\ writes'[b][k] = w
                      /\ k = Len(writes[b]) + 1
    BY DoneQueues
  <2>. QED
    BY <1>2, <1>3, <2>1 DEF OwnInv
<1>. QED
  BY <1>1, <1>3, <1>4 DEF OwnInv, Top

(* A write reaches the document of its own account.                        *)
LEMMA SaveOwn ==
    ASSUME TypeOK, OwnInv, NEW ok \in BOOLEAN, SaveDone(ok)
    PROVE  OwnInv'
<1>1. /\ session \in Accounts /\ 1 \in DOMAIN writes[session]
      /\ UNCHANGED <<session, uuid, card_object>>
      /\ \A b \in Accounts : \A k \in DOMAIN writes'[b] :
             \E j \in DOMAIN writes[b] : writes'[b][k] = writes[b][j]
      /\ \A a \in Accounts :
             \/ docs'[a] = docs[a]
             \/ /\ a = writes[session][1].account
                /\ docs'[a] = writes[session][1].cards
  BY SaveQueues DEF auth, user
<1>2. \A a \in Accounts : Owns(a, docs'[a])
  BY <1>1 DEF OwnInv
<1>3. \A b \in Accounts : \A k \in DOMAIN writes'[b] :
          Owns(writes'[b][k].account, writes'[b][k].cards)
  BY <1>1 DEF OwnInv
<1>4. Top' \notin {"login", "signup"} \/ Top' = Top
  <2>1. CASE ShowCurrentList
    <3>1. PICK l \in Lists : Show(l)
      BY <2>1 DEF ShowCurrentList
    <3>. QED
      BY <3>1, ListFacts, ShowProperties
  <2>2. CASE UNCHANGED <<stack, rows>>
    BY <2>2 DEF Top
  <2>. QED
    BY <2>1, <2>2, SaveQueues
<1>. QED
  BY <1>1, <1>2, <1>3, <1>4 DEF OwnInv

(* Every step but a logout keeps cards apart, if User.instance is that of  *)
(* the user who is signed in before and after it.                          *)
LEMMA OwnKept ==
    ASSUME TypeOK, OwnInv, Matched, Matched', [Next /\ ~Logout]_vars
    PROVE  OwnInv'
<1>. USE ListFacts
<1>1. ASSUME NEW a \in Accounts, SignIn(a)
      PROVE  OwnInv'
  <2>1. Top = "login" /\ card_object = <<>> /\ Show("home") /\ "home" \in Pages
    BY <1>1 DEF SignIn, Touchable, OwnInv, Pages
  <2>2. Top' = "home"
    BY <2>1, ShowProperties
  <2>3. Owns(a, card_object')
    BY <1>1, <2>1, DocumentOwn DEF SignIn, Owns
  <2>. QED
    BY <1>1, <2>2, <2>3, CardsAssumption DEF SignIn, OwnInv, store
<1>2. ASSUME NEW a \in Accounts, SignInUnread(a) \/ SignInUnverified(a)
      PROVE  OwnInv'
  <2>1. card_object' = <<>> /\ UNCHANGED <<stack, writes, docs>>
        /\ session' = a /\ a # None
    BY <1>2, CardsAssumption
       DEF SignInUnread, SignInUnverified, Touchable, OwnInv, user
  <2>2. Owns(session', card_object')
    BY <2>1 DEF Owns
  <2>. QED
    BY <2>1, <2>2 DEF OwnInv, Top
<1>3. ASSUME NEW a \in Accounts, NEW ok \in BOOLEAN, CreateDone(a, ok)
      PROVE  OwnInv'
  <2>1. UNCHANGED <<stack, user, writes, docs>> /\ session' \in {session, a}
        /\ a # None
    BY <1>3, CardsAssumption DEF CreateDone, ui, store
  <2>2. session' # None => Owns(session', card_object')
    <3>1. CASE session' = session
      BY <2>1, <3>1 DEF OwnInv, user
    <3>2. CASE uuid = None
      BY <2>1, <3>2 DEF TypeOK, Owns, user
    <3>3. CASE session' # session /\ uuid # None
      BY <2>1, <3>3 DEF OwnInv, Matched, user
    <3>. QED
      BY <3>1, <3>2, <3>3
  <2>. QED
    BY <2>1, <2>2 DEF OwnInv, Top, user
<1>4. ASSUME NEW a \in Accounts, NEW ok \in BOOLEAN,
             SignUpButton(a) \/ AuthServes(a) \/ VerifyEmail(a)
             \/ (MailDone(a, ok) /\ ~Kill)
      PROVE  OwnInv'
  <2>1. /\ UNCHANGED <<stack, session, card_object, writes, docs>>
        /\ uuid' \in {uuid, session}
    BY <1>4
       DEF SignUpButton, AuthServes, VerifyEmail, MailDone, ui, user, store
  <2>. QED
    BY <2>1 DEF OwnInv, Top
<1>5. CASE OpenSignUp \/ SignUpBack
  <2>1. UNCHANGED <<session, user, writes, docs>> /\ card_object = <<>>
    BY <1>5 DEF OpenSignUp, SignUpBack, Touchable, OwnInv, auth, store
  <2>. QED
    BY <2>1 DEF OwnInv, user
<1>6. ASSUME NEW l \in Lists,
             OpenList(l) \/ AddCardRow(l) \/ ListBack(l) \/ FormBack
      PROVE  OwnInv'
  <2>1. \E p \in Pages : p \notin {"login", "signup"} /\ Show(p)
    BY <1>6
       DEF OpenList, AddCardRow, ListBack, FormBack, ShowCurrentList, Pages
  <2>. QED
    BY <1>6, <2>1, ShowOwn
       DEF OpenList, AddCardRow, ListBack, FormBack, auth, user, store
<1>7. CASE DoneInvalid \/ CloseAlert \/ UNCHANGED vars
  BY <1>7
     DEF DoneInvalid, CloseAlert, vars, ui, auth, user, store, OwnInv, Top
<1>8. CASE \E n \in Numbers : DoneButton(n)
  BY <1>8, DoneOwn
<1>9. CASE Kill
  <2>1. card_object' = <<>> /\ uuid' = None /\ UNCHANGED <<session, docs>>
    BY <1>9 DEF Kill
  <2>2. \A a : Owns(a, card_object')
    BY <2>1 DEF Owns
  <2>. QED
    BY <1>9, <2>1, <2>2, ForgottenWrites DEF OwnInv
<1>10. CASE \E ok \in BOOLEAN : SaveDone(ok)
  BY <1>10, SaveOwn
<1>11. "select" \in Lists
  OBVIOUS
<1>. QED
  BY <1>1, <1>2, <1>3, <1>4, <1>5, <1>6, <1>7, <1>8, <1>9, <1>10, <1>11
     DEF Next, DoneTraps

(* On a phone where nobody logs out and User.instance, while it has a      *)
(* uuid, is that of the user who is signed in, every document holds the    *)
(* cards of its own account, whatever is refused, late or restarted.  So   *)
(* it takes a Logout, which leaves User.instance as it is, or a sign-in    *)
(* that sets the session without the uuid, to mix cards.                   *)
THEOREM CardsStayApart ==
    Spec /\ [][~Logout]_vars /\ []Matched => []OwnCardsOnly
<1>1. Init => OwnInv
  <2>. SUFFICES ASSUME Init
                PROVE  OwnInv
    OBVIOUS
  <2>1. ASSUME NEW a \in Accounts
        PROVE  Owns(a, docs[a])
    <3>1. CASE docs[a] = <<>>
      BY <3>1 DEF Owns
    <3>2. CASE docs[a] # <<>>
      <4>1. PICK c \in Card : docs[a] = <<c>>
        BY <3>2 DEF Init
      <4>. QED
        BY <3>2, <4>1 DEF Init, Owns
    <3>. QED
      BY <3>1, <3>2
  <2>. QED
    BY <2>1 DEF Init, OwnInv
<1>2. TypeOK /\ OwnInv /\ Matched /\ Matched' /\ [Next]_vars /\ [~Logout]_vars
      => OwnInv'
  BY OwnKept
<1>3. OwnInv => OwnCardsOnly
  BY DEF OwnInv, Owns, OwnCardsOnly
<1>. QED
  BY <1>1, <1>2, <1>3, CardsTypeCorrect, PTL DEF Spec
=============================================================================
