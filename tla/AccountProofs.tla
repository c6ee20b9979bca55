---------------------------- MODULE AccountProofs ----------------------------
(***************************************************************************)
(* Theorems about Account, for every set of accounts.                      *)
(***************************************************************************)
EXTENDS Account, FiniteSetTheorems, QueueLemmas

(* The page that makes a call, and what Auth has done for it.              *)
PagesOf(op) ==
    IF op \in {"signIn", "info"} THEN {"login"}
    ELSE IF op = "reset" THEN {"forgot", "settings"} ELSE {"signup"}

GoodCall(c, pages, stat) ==
    /\ c.by \in 1 .. Len(pages) /\ pages[c.by] \in PagesOf(c.op)
    /\ c.op = "create" /\ c.served => stat[c.account] # "none"
    /\ c.op = "mail" => stat[c.account] # "none"
    /\ c.op = "mail" /\ c.served => stat[c.account] \in {"mailed", "verified"}

(* The page that queued a write, and what Auth did before it was queued.   *)
GoodWrite(w, pages, stat) ==
    w.by # 0 =>
        /\ w.by \in 1 .. Len(pages) /\ pages[w.by] \in {"signup", "settings"}
        /\ pages[w.by] = "signup" => stat[w.typed] \in {"mailed", "verified"}

CallInv ==
    /\ \A k \in DOMAIN calls : GoodCall(calls[k], stack, status)
    /\ \A u \in Sessions :
           \A i \in DOMAIN writes[u] : GoodWrite(writes[u][i], stack, status)

(* LoginKeepsItsPage without counting.                                     *)
LoginInv ==
    /\ spinner \in {0, 1}
    /\ spinner = 0 <=> LoginCalls = {}
    /\ \A j, k \in LoginCalls : j = k
    /\ \A k \in LoginCalls :
           calls[k].by = Len(stack) /\ Top = "login" /\ alert = "none"

(* No page goes away and no account goes back.                             *)
Grows ==
    /\ Len(stack) <= Len(stack')
    /\ \A i \in 1 .. Len(stack) : stack'[i] = stack[i]
    /\ \A a \in Accounts :
           /\ status[a] # "none" => status'[a] # "none"
           /\ status[a] \in {"mailed", "verified"}
              => status'[a] \in {"mailed", "verified"}

-----------------------------------------------------------------------------
(* The stack, the calls and the queues by their entries.                   *)
LEMMA StateFacts ==
    ASSUME TypeOK
    PROVE  /\ stack \in Seq(Pages) /\ Len(stack) \in Nat \ {0}
           /\ DOMAIN stack = 1 .. Len(stack) /\ Top \in Pages
           /\ Top = stack[Len(stack)] /\ Len(stack) \in DOMAIN stack
           /\ calls \in Seq(Call) /\ Len(calls) \in Nat
           /\ DOMAIN calls = 1 .. Len(calls)
           /\ \A k \in DOMAIN calls : calls[k] \in Call
<1>1. /\ stack \in Seq(Pages) /\ stack # <<>> /\ calls \in Seq(Call)
  BY DEF TypeOK
<1>2. /\ Len(stack) \in Nat \ {0} /\ DOMAIN stack = 1 .. Len(stack)
      /\ \A i \in 1 .. Len(stack) : stack[i] \in Pages
  BY <1>1, EmptySeq, LenProperties, ElementOfSeq
<1>3. /\ Len(calls) \in Nat /\ DOMAIN calls = 1 .. Len(calls)
      /\ \A k \in DOMAIN calls : calls[k] \in Call
  BY <1>1, LenProperties, ElementOfSeq
<1>. QED
  BY <1>1, <1>2, <1>3 DEF Top

LEMMA QueueFacts ==
    ASSUME TypeOK, NEW u \in Sessions
    PROVE  /\ writes[u] \in Seq(Write) /\ Len(writes[u]) \in Nat
           /\ DOMAIN writes[u] = 1 .. Len(writes[u])
           /\ \A i \in DOMAIN writes[u] : writes[u][i] \in Write
<1>1. writes[u] \in Seq(Write)
  BY DEF TypeOK
<1>. QED
  BY <1>1, LenProperties, ElementOfSeq

(* Presenting a page, and a login page with what it presents.              *)
LEMMA OpenProperties ==
    ASSUME TypeOK, NEW p \in Pages, NEW s \in Loaded(p), stack' = stack \o s
    PROVE  /\ stack' \in Seq(Pages) /\ stack' # <<>>
           /\ Len(stack) <= Len(stack')
           /\ \A i \in 1 .. Len(stack) : stack'[i] = stack[i]
<1>1. s \in Seq(Pages) /\ Len(s) \in Nat \ {0}
  <2>1. s = <<p>> \/ s = <<"login", "landing">>
    BY DEF Loaded
  <2>. QED
    BY <2>1 DEF Pages
<1>2. /\ stack' \in Seq(Pages) /\ Len(stack') = Len(stack) + Len(s)
      /\ \A i \in 1 .. Len(stack) + Len(s) :
             stack'[i] = IF i <= Len(stack) THEN stack[i] ELSE s[i - Len(stack)]
  BY <1>1, StateFacts, ConcatProperties
<1>3. stack' # <<>>
  BY <1>1, <1>2, StateFacts, EmptySeq
<1>. QED
  BY <1>1, <1>2, <1>3, StateFacts

(* Presenting one page.                                                    *)
LEMMA PushProperties ==
    ASSUME TypeOK, NEW p \in Pages, stack' = Append(stack, p)
    PROVE  /\ stack' \in Seq(Pages) /\ stack' # <<>>
           /\ Len(stack) <= Len(stack')
           /\ \A i \in 1 .. Len(stack) : stack'[i] = stack[i]
<1>1. stack \in Seq(Pages) /\ stack # <<>>
  BY DEF TypeOK
<1>. QED
  BY <1>1, Pushed

(* What a step of the app that does not end it does to the stack.          *)
LEMMA StackTypes ==
    ASSUME TypeOK, NEW p \in Pages,
           UNCHANGED stack \/ Open(p) \/ stack' = Append(stack, p)
    PROVE  /\ stack' \in Seq(Pages) /\ stack' # <<>>
           /\ DOMAIN stack \subseteq DOMAIN stack'
           /\ Len(stack) <= Len(stack')
           /\ \A i \in 1 .. Len(stack) : stack'[i] = stack[i]
<1>1. /\ stack' \in Seq(Pages) /\ stack' # <<>>
      /\ Len(stack) <= Len(stack')
      /\ \A i \in 1 .. Len(stack) : stack'[i] = stack[i]
  <2>1. CASE UNCHANGED stack
    BY <2>1, StateFacts DEF TypeOK
  <2>2. CASE Open(p)
    BY <2>2, OpenProperties DEF Open
  <2>3. CASE stack' = Append(stack, p)
    BY <2>3, PushProperties
  <2>. QED
    BY <2>1, <2>2, <2>3
<1>2. DOMAIN stack' = 1 .. Len(stack') /\ Len(stack') \in Nat
  BY <1>1, LenProperties
<1>3. 1 .. Len(stack) \subseteq 1 .. Len(stack')
  <2>1. Len(stack) \in Nat /\ Len(stack) <= Len(stack')
    BY <1>1, StateFacts
  <2>2. ASSUME NEW m \in Nat, NEW n \in Nat, m <= n
        PROVE  1 .. m \subseteq 1 .. n
    BY <2>2
  <2>3. Len(stack') \in Nat
    BY <1>2
  <2>. QED
    BY <2>1, <2>2, <2>3
<1>4. DOMAIN stack = 1 .. Len(stack)
  BY StateFacts
<1>. QED
  BY <1>1, <1>2, <1>3, <1>4

(* A new call by the page on top.                                          *)
LEMMA CallAppended ==
    ASSUME TypeOK, NEW c \in Call, c.by \in DOMAIN stack,
           calls' = Append(calls, c), UNCHANGED stack
    PROVE  /\ calls' \in Seq(Call) /\ Len(calls') = Len(calls) + 1
           /\ DOMAIN calls' = 1 .. (Len(calls) + 1)
           /\ calls'[Len(calls) + 1] = c
           /\ \A k \in 1 .. Len(calls) : calls'[k] = calls[k]
           /\ \A k \in DOMAIN calls' : calls'[k].by \in DOMAIN stack'
<1>1. /\ calls' \in Seq(Call) /\ Len(calls') = Len(calls) + 1
      /\ calls'[Len(calls) + 1] = c
      /\ \A k \in 1 .. Len(calls) : calls'[k] = calls[k]
      /\ DOMAIN calls' = 1 .. (Len(calls) + 1)
  <2>1. calls \in Seq(Call)
    BY StateFacts
  <2>. QED
    BY <2>1, AppendProperties, LenProperties
<1>2. \A k \in 1 .. Len(calls) : calls[k].by \in DOMAIN stack
  BY StateFacts DEF TypeOK
<1>3. \A k \in 1 .. (Len(calls) + 1) : k \in 1 .. Len(calls) \/ k = Len(calls) + 1
  BY StateFacts
<1>4. \A k \in DOMAIN calls' : calls'[k].by \in DOMAIN stack'
  BY <1>1, <1>2, <1>3
<1>. QED
  BY <1>1, <1>4

(* A call is answered.                                                     *)
LEMMA CallRemoved ==
    ASSUME TypeOK, NEW k \in DOMAIN calls, calls' = RemoveAt(calls, k)
    PROVE  /\ calls' \in Seq(Call) /\ DOMAIN calls' = 1 .. (Len(calls) - 1)
           /\ \A i \in DOMAIN calls' :
                  calls'[i] = IF i < k THEN calls[i] ELSE calls[i + 1]
           /\ \A i \in DOMAIN calls' :
                  \E j \in DOMAIN calls : j # k /\ calls'[i] = calls[j]
<1>1. calls \in Seq(Call) /\ k \in 1 .. Len(calls) /\ Len(calls) \in Nat
  BY StateFacts
<1>2. /\ calls' \in Seq(Call) /\ Len(calls') = Len(calls) - 1
      /\ \A i \in 1 .. (Len(calls) - 1) :
             calls'[i] = IF i < k THEN calls[i] ELSE calls[i + 1]
  BY <1>1, RemoveAtProperties
<1>3. DOMAIN calls' = 1 .. (Len(calls) - 1)
  BY <1>2, LenProperties
<1>4. ASSUME NEW i \in DOMAIN calls'
      PROVE  \E j \in DOMAIN calls : j # k /\ calls'[i] = calls[j]
  <2>1. CASE i < k
    BY <1>1, <1>2, <1>3, <2>1, StateFacts
  <2>2. CASE ~(i < k)
    <3>1. i + 1 \in 1 .. Len(calls) /\ i + 1 # k
      BY <1>1, <1>3, <2>2
    <3>. QED
      BY <1>2, <1>3, <2>2, <3>1, StateFacts
  <2>. QED
    BY <2>1, <2>2
<1>. QED
  BY <1>2, <1>3, <1>4

(* A call goes on with another operation, or is served.                    *)
LEMMA CallChanged ==
    ASSUME TypeOK, NEW k \in DOMAIN calls, NEW c \in Call,
           calls' = [calls EXCEPT ![k] = c], c.by = calls[k].by
    PROVE  /\ calls' \in Seq(Call) /\ DOMAIN calls' = DOMAIN calls
           /\ \A i \in DOMAIN calls : calls'[i] = IF i = k THEN c ELSE calls[i]
           /\ \A i \in DOMAIN calls : calls'[i].by = calls[i].by
<1>1. calls \in Seq(Call) /\ k \in 1 .. Len(calls) /\ DOMAIN calls = 1 .. Len(calls)
  BY StateFacts
<1>2. /\ calls' \in Seq(Call) /\ Len(calls') = Len(calls)
      /\ \A i \in 1 .. Len(calls) : calls'[i] = IF i = k THEN c ELSE calls[i]
  BY <1>1, ExceptSeq
<1>. QED
  BY <1>1, <1>2, LenProperties

(* A write is queued, and the first one in a queue is decided.             *)
LEMMA WriteQueued ==
    ASSUME TypeOK, NEW u \in Accounts, NEW t \in Accounts, NEW i \in Nat,
           user.email # None, StoreUserInfo(u, t, i)
    PROVE  /\ writes' \in [Sessions -> Seq(Write)]
           /\ \A v \in Sessions : \A k \in DOMAIN writes'[v] :
                  \/ \E j \in DOMAIN writes[v] : writes'[v][k] = writes[v][j]
                  \/ writes'[v][k].by = i /\ writes'[v][k].typed = t
<1>. DEFINE w == [account |-> u, email |-> user.email, typed |-> t, by |-> i]
            q == writes[session]
<1>1. w \in Write /\ session \in Sessions
  BY DEF Write, TypeOK, Sessions
<1>2. q \in Seq(Write) /\ Len(q) \in Nat /\ DOMAIN q = 1 .. Len(q)
  BY <1>1, QueueFacts
<1>3. writes' = [writes EXCEPT ![session] = Append(q, w)]
  BY DEF StoreUserInfo
<1>4. w.by = i /\ w.typed = t
  OBVIOUS
<1>. HIDE DEF w, q
<1>5. /\ Append(q, w) \in Seq(Write) /\ DOMAIN Append(q, w) = 1 .. (Len(q) + 1)
      /\ Append(q, w)[Len(q) + 1] = w
      /\ \A k \in 1 .. Len(q) : Append(q, w)[k] = q[k]
  BY <1>1, <1>2, AppendProperties, LenProperties
<1>6. \A k \in DOMAIN Append(q, w) :
          (\E j \in DOMAIN q : Append(q, w)[k] = q[j]) \/ Append(q, w)[k] = w
  <2>1. \A k \in 1 .. (Len(q) + 1) : k \in 1 .. Len(q) \/ k = Len(q) + 1
    BY <1>2
  <2>. QED
    BY <1>2, <1>5, <2>1
<1>7. q = writes[session]
  BY DEF q
<1>8. writes' \in [Sessions -> Seq(Write)]
  BY <1>1, <1>3, <1>5 DEF TypeOK
<1>9. \A v \in Sessions :
          writes'[v] = IF v = session THEN Append(q, w) ELSE writes[v]
  BY <1>1, <1>3 DEF TypeOK
<1>. QED
  BY <1>4, <1>6, <1>7, <1>8, <1>9

LEMMA WriteLeft ==
    ASSUME TypeOK, NEW u \in Sessions, writes[u] # <<>>,
           writes' = [writes EXCEPT ![u] = Tail(@)]
    PROVE  /\ writes' \in [Sessions -> Seq(Write)]
           /\ Head(writes[u]) \in Write /\ Head(writes[u]) = writes[u][1]
           /\ 1 \in DOMAIN writes[u]
           /\ writes'[u] = Tail(writes[u]) /\ writes'[u] # writes[u]
           /\ \A v \in Sessions \ {u} : writes'[v] = writes[v]
           /\ \A v \in Sessions : \A k \in DOMAIN writes'[v] :
                  \E j \in DOMAIN writes[v] : writes'[v][k] = writes[v][j]
<1>. DEFINE q == writes[u]
<1>1. q \in Seq(Write) /\ Len(q) \in Nat \ {0} /\ DOMAIN q = 1 .. Len(q)
  BY QueueFacts, EmptySeq
<1>2. /\ Head(q) \in Write /\ Head(q) = q[1] /\ Tail(q) \in Seq(Write)
      /\ Len(Tail(q)) = Len(q) - 1
      /\ \A k \in 1 .. Len(Tail(q)) : Tail(q)[k] = q[k + 1]
  BY <1>1, HeadTailProperties
<1>3. DOMAIN Tail(q) = 1 .. (Len(q) - 1)
  BY <1>2, LenProperties
<1>4. \A k \in DOMAIN Tail(q) : \E j \in DOMAIN q : Tail(q)[k] = q[j]
  <2>1. \A k \in 1 .. (Len(q) - 1) : k + 1 \in DOMAIN q
    BY <1>1
  <2>. QED
    BY <1>2, <1>3, <2>1
<1>5. Tail(q) # q
  <2>1. Len(Tail(q)) # Len(q)
    BY <1>1, <1>2
  <2>. QED
    BY <2>1
<1>6. /\ writes'[u] = Tail(q)
      /\ \A v \in Sessions \ {u} : writes'[v] = writes[v]
      /\ writes' \in [Sessions -> Seq(Write)]
  BY <1>2 DEF TypeOK
<1>7. \A v \in Sessions : \A k \in DOMAIN writes'[v] :
          \E j \in DOMAIN writes[v] : writes'[v][k] = writes[v][j]
  BY <1>4, <1>6
<1>8. 1 \in DOMAIN q
  BY <1>1
<1>9. writes'[u] # writes[u]
  BY <1>5, <1>6
<1>. HIDE DEF q
<1>10. q = writes[u]
  BY DEF q
<1>. QED
  BY <1>2, <1>6, <1>7, <1>8, <1>9, <1>10

-----------------------------------------------------------------------------
(***************************************************************************)
(* Each step keeps the types.                                              *)
(***************************************************************************)
(* A restart forgets the pages that queued writes came from.               *)
LEMMA ForgottenWrites ==
    ASSUME TypeOK, Kill
    PROVE  /\ writes' \in [Sessions -> Seq(Write)]
           /\ \A u \in Sessions : \A i \in DOMAIN writes'[u] : writes'[u][i].by = 0
<1>. DEFINE Forgotten(u) == [k \in DOMAIN writes[u] |->
                                 [writes[u][k] EXCEPT !.by = 0]]
<1>1. ASSUME NEW u \in Sessions
      PROVE  /\ Forgotten(u) \in Seq(Write)
             /\ \A k \in DOMAIN Forgotten(u) : Forgotten(u)[k].by = 0
  <2>1. \A w \in Write : [w EXCEPT !.by = 0] \in Write
                          /\ [w EXCEPT !.by = 0].by = 0
    BY DEF Write
  <2>2. /\ DOMAIN writes[u] = 1 .. Len(writes[u]) /\ Len(writes[u]) \in Nat
        /\ \A k \in DOMAIN writes[u] : writes[u][k] \in Write
    BY QueueFacts
  <2>3. Forgotten(u) \in [1 .. Len(writes[u]) -> Write]
    BY <2>1, <2>2
  <2>4. \A k \in DOMAIN Forgotten(u) : Forgotten(u)[k].by = 0
    BY <2>1, <2>2
  <2>. HIDE DEF Forgotten
  <2>. QED
    BY <2>2, <2>3, <2>4, SeqDef
<1>2. writes' = [u \in Sessions |-> Forgotten(u)]
  BY DEF Kill
<1>. HIDE DEF Forgotten
<1>. QED
  BY <1>1, <1>2

LEMMA KillType ==
    ASSUME TypeOK, Kill
    PROVE  /\ TypeOK' /\ calls' = <<>> /\ DOMAIN calls' = {}
<1>1. stack' \in Seq(Pages) /\ stack' # <<>>
  <2>1. \A s \in Loaded("login") : s = <<"login">> \/ s = <<"login", "landing">>
    BY DEF Loaded
  <2>2. stack' = <<"login">> \/ stack' = <<"login", "landing">>
    BY <2>1 DEF Kill
  <2>3. CASE stack' = <<"login">>
    BY <2>3 DEF Pages
  <2>4. CASE stack' = <<"login", "landing">>
    BY <2>4 DEF Pages
  <2>. QED
    BY <2>2, <2>3, <2>4
<1>2. calls' = <<>> /\ <<>> \in Seq(Call) /\ DOMAIN calls' = {}
  BY EmptySeq DEF Kill
<1>3. /\ alert' \in {"none", "error", "done"} /\ spinner' \in Nat
      /\ user' \in [uuid: Accounts \cup {None}, email: Accounts \cup {None}]
      /\ UNCHANGED <<session, status, docs>>
  BY DEF Kill, Nobody, server
<1>. QED
  BY <1>1, <1>2, <1>3, ForgottenWrites DEF TypeOK

(* A document is an e-mail address, or there is none.                      *)
LEMMA DocumentType ==
    ASSUME TypeOK, NEW a \in Accounts
    PROVE  DocumentOf(a) \in Accounts \cup {None}
<1>. DEFINE q == writes[session]
            last == {k \in DOMAIN q :
                         /\ q[k].account = a
                         /\ \A j \in DOMAIN q : k < j => q[j].account # a}
<1>1. session \in Sessions
  BY DEF TypeOK, Sessions
<1>2. \A k \in last : q[k].email \in Accounts
  BY <1>1, QueueFacts DEF Write
<1>3. docs[a] \in Accounts \cup {None}
  BY DEF TypeOK
<1>4. DocumentOf(a) = IF last = {} THEN docs[a]
                     ELSE q[CHOOSE k \in last : TRUE].email
  BY DEF DocumentOf
<1>. HIDE DEF q, last
<1>. QED
  BY <1>2, <1>3, <1>4

(* What the user does.                                                     *)
LEMMA UserType ==
    ASSUME TypeOK, UserStep
    PROVE  TypeOK'
<1>. USE DEF ui, client, server
<1>1. ASSUME NEW from \in Pages, NEW to \in Pages, FollowLink(from, to)
      PROVE  TypeOK'
  BY <1>1, StackTypes DEF FollowLink, TypeOK
<1>2. ASSUME NEW op \in {"signIn", "create", "reset"}, NEW a \in Accounts,
             Start(op, a), UNCHANGED stack
      PROVE  /\ calls' \in Seq(Call)
             /\ \A k \in DOMAIN calls' : calls'[k].by \in DOMAIN stack'
  <2>1. CallBy(op, a) \in Call /\ CallBy(op, a).by \in DOMAIN stack
    BY <1>2, StateFacts DEF CallBy, Call
  <2>2. calls' = Append(calls, CallBy(op, a))
    BY <1>2 DEF Start
  <2>. QED
    BY <1>2, <2>1, <2>2, CallAppended
<1>3. ASSUME NEW a \in Accounts, LoginButton(a)
      PROVE  TypeOK'
  BY <1>2, <1>3 DEF LoginButton, TypeOK
<1>4. ASSUME NEW a \in Accounts, SignUpButton(a)
      PROVE  TypeOK'
  BY <1>2, <1>4 DEF SignUpButton, TypeOK
<1>5. ASSUME NEW a \in Accounts, ResetButton(a)
      PROVE  TypeOK'
  BY <1>2, <1>5 DEF ResetButton, TypeOK
<1>6. ASSUME NEW a \in Accounts, VerifyEmail(a)
      PROVE  TypeOK'
  BY <1>6 DEF VerifyEmail, TypeOK, Status
<1>7. CASE LogoutButton
  <2>1. stack' = Append(stack, "login") /\ "login" \in Pages
    BY <1>7 DEF LogoutButton, Pages
  <2>. QED
    BY <1>7, <2>1, StackTypes DEF LogoutButton, TypeOK
<1>8. CASE SaveButton
  <2>1. /\ user.uuid \in Accounts /\ user.email \in Accounts
        /\ user.email # None
    BY <1>8, AccountAssumption DEF SaveButton, CanStore, TypeOK
  <2>2. writes' \in [Sessions -> Seq(Write)]
    BY <1>8, <2>1, StateFacts, WriteQueued DEF SaveButton
  <2>. QED
    BY <1>8, <2>2 DEF SaveButton, TypeOK
<1>9. CASE SaveTraps
  BY <1>9, KillType DEF SaveTraps
<1>10. CASE CloseAlert
  <2>1. PICK p \in Pages : UNCHANGED stack \/ Open(p)
    BY <1>10 DEF CloseAlert, Pages
  <2>. QED
    BY <1>10, <2>1, StackTypes DEF CloseAlert, TypeOK
<1>11. \A link \in Links : link[1] \in Pages /\ link[2] \in Pages
  BY DEF Links, Pages
<1>. QED
  BY <1>1, <1>3, <1>4, <1>5, <1>6, <1>7, <1>8, <1>9, <1>10, <1>11 DEF UserStep

(* Answers to a sign-in and to the read behind it.                         *)
LEMMA LoginType ==
    ASSUME TypeOK, NEW k \in DOMAIN calls, NEW ok \in BOOLEAN,
           SignInDone(k, ok) \/ InfoDone(k, ok), spinner > 0
    PROVE  TypeOK'
<1>. USE DEF ui, client, server
<1>1. calls[k].account \in Accounts /\ spinner - 1 \in Nat
  BY StateFacts DEF Call, TypeOK
<1>2. ASSUME LoginFails(k),
             session' \in Accounts \cup {None}, UNCHANGED user
      PROVE  TypeOK'
  <2>1. /\ calls' \in Seq(Call)
        /\ \A i \in DOMAIN calls' : calls'[i].by \in DOMAIN stack'
    BY <1>2, CallRemoved DEF LoginFails, TypeOK
  <2>. QED
    BY <1>1, <1>2, <2>1 DEF LoginFails, Alerted, TypeOK
<1>3. CASE SignInDone(k, ok)
  <2>1. CASE LoginFails(k) /\ UNCHANGED user
    BY <1>1, <1>2, <1>3, <2>1 DEF SignInDone, TypeOK
  <2>2. CASE /\ session' = calls[k].account
             /\ user' = [user EXCEPT !.uuid = calls[k].account]
             /\ calls' = [calls EXCEPT ![k].op = "info"]
             /\ UNCHANGED <<ui, writes, server>>
    <3>1. /\ [calls[k] EXCEPT !.op = "info"] \in Call
          /\ [calls[k] EXCEPT !.op = "info"].by = calls[k].by
          /\ calls' = [calls EXCEPT ![k] = [calls[k] EXCEPT !.op = "info"]]
      BY <2>2, StateFacts DEF Call
    <3>2. /\ calls' \in Seq(Call)
          /\ \A i \in DOMAIN calls' : calls'[i].by \in DOMAIN stack'
      BY <2>2, <3>1, CallChanged DEF TypeOK
    <3>. QED
      BY <1>1, <2>2, <3>2 DEF TypeOK
  <2>. QED
    BY <1>3, <2>1, <2>2 DEF SignInDone
<1>4. CASE InfoDone(k, ok)
  <2>1. CASE LoginFails(k) /\ UNCHANGED <<user, session>>
    BY <1>2, <2>1 DEF TypeOK
  <2>2. CASE /\ DocumentOf(calls[k].account) # None
             /\ user' = [user EXCEPT !.email = DocumentOf(calls[k].account)]
             /\ spinner' = spinner - 1
             /\ stack' = IF CanPresent(calls[k].by)
                         THEN Append(stack, "landing") ELSE stack
             /\ calls' = RemoveAt(calls, k)
             /\ UNCHANGED <<alert, session, writes, server>>
    <3>1. /\ stack' \in Seq(Pages) /\ stack' # <<>>
          /\ DOMAIN stack \subseteq DOMAIN stack'
      <4>1. "landing" \in Pages
        BY DEF Pages
      <4>. QED
        BY <2>2, <4>1, StackTypes
    <3>2. /\ calls' \in Seq(Call)
          /\ \A i \in DOMAIN calls' : calls'[i].by \in DOMAIN stack'
      BY <2>2, <3>1, CallRemoved DEF TypeOK
    <3>. QED
      BY <1>1, <2>2, <3>1, <3>2, DocumentType DEF TypeOK
  <2>. QED
    BY <1>4, <2>1, <2>2, KillType DEF InfoDone
<1>. QED
  BY <1>3, <1>4

(* Answers to the other calls, and decided writes.                         *)
LEMMA SystemType ==
    ASSUME TypeOK, SystemStep
    PROVE  TypeOK'
<1>. USE DEF ui, client, server
<1>1. ASSUME NEW k \in DOMAIN calls, AuthServes(k)
      PROVE  TypeOK'
  <2>1. /\ [calls[k] EXCEPT !.served = TRUE] \in Call
        /\ [calls[k] EXCEPT !.served = TRUE].by = calls[k].by
        /\ calls' = [calls EXCEPT ![k] = [calls[k] EXCEPT !.served = TRUE]]
    BY <1>1, StateFacts DEF AuthServes, Call
  <2>2. /\ calls' \in Seq(Call)
        /\ \A i \in DOMAIN calls' : calls'[i].by \in DOMAIN stack'
    BY <1>1, <2>1, CallChanged DEF AuthServes, TypeOK
  <2>3. status' \in [Accounts -> Status]
    BY <1>1 DEF AuthServes, TypeOK, Status
  <2>. QED
    BY <1>1, <2>2, <2>3 DEF AuthServes, TypeOK
<1>2. ASSUME NEW k \in DOMAIN calls, calls' = RemoveAt(calls, k),
             UNCHANGED <<stack, spinner, session, status, docs>>,
             alert' \in {"none", "error", "done"},
             user' \in [uuid: Accounts \cup {None}, email: Accounts \cup {None}],
             writes' \in [Sessions -> Seq(Write)]
      PROVE  TypeOK'
  <2>1. /\ calls' \in Seq(Call)
        /\ \A i \in DOMAIN calls' : calls'[i].by \in DOMAIN stack'
    BY <1>2, CallRemoved DEF TypeOK
  <2>. QED
    BY <1>2, <2>1 DEF TypeOK
<1>3. ASSUME NEW k \in DOMAIN calls, NEW ok \in BOOLEAN, CreateDone(k, ok)
      PROVE  TypeOK'
  <2>1. CASE calls' = RemoveAt(calls, k) /\ UNCHANGED session
    BY <1>2, <1>3, <2>1 DEF CreateDone, Alerted, TypeOK
  <2>2. CASE /\ session' = calls[k].account
             /\ calls' = [calls EXCEPT ![k].op = "mail", ![k].served = FALSE]
             /\ UNCHANGED alert
    <3>. DEFINE c == [calls[k] EXCEPT !.op = "mail", !.served = FALSE]
    <3>1. c \in Call /\ c.by = calls[k].by /\ calls[k].account \in Accounts
      BY StateFacts DEF Call
    <3>2. calls' = [calls EXCEPT ![k] = c]
      BY <2>2
    <3>. HIDE DEF c
    <3>3. /\ calls' \in Seq(Call)
          /\ \A i \in DOMAIN calls' : calls'[i].by \in DOMAIN stack'
      BY <1>3, <3>1, <3>2, CallChanged DEF CreateDone, TypeOK
    <3>. QED
      BY <1>3, <2>2, <3>1, <3>3 DEF CreateDone, TypeOK
  <2>. QED
    BY <1>3, <2>1, <2>2 DEF CreateDone
<1>4. ASSUME NEW k \in DOMAIN calls, NEW ok \in BOOLEAN, MailDone(k, ok)
      PROVE  TypeOK'
  <2>1. CASE ~ok
    BY <1>2, <1>4, <2>1 DEF MailDone, Alerted, TypeOK
  <2>2. CASE ok /\ CanStore(session)
    <3>1. /\ session \in Accounts /\ user.email # None
          /\ calls[k].account \in Accounts /\ calls[k].by \in Nat
      BY <2>2, StateFacts DEF CanStore, TypeOK, Call
    <3>2. /\ StoreUserInfo(session, calls[k].account, calls[k].by)
          /\ user' = [user EXCEPT !.uuid = session]
          /\ calls' = RemoveAt(calls, k) /\ UNCHANGED <<ui, session, server>>
      BY <1>4, <2>2 DEF MailDone
    <3>3. writes' \in [Sessions -> Seq(Write)]
      BY <3>1, <3>2, WriteQueued
    <3>. QED
      BY <1>2, <3>1, <3>2, <3>3 DEF TypeOK
  <2>3. CASE ok /\ ~CanStore(session)
    BY <1>4, <2>3, KillType DEF MailDone
  <2>. QED
    BY <2>1, <2>2, <2>3
<1>5. ASSUME NEW k \in DOMAIN calls, NEW ok \in BOOLEAN, ResetDone(k, ok)
      PROVE  TypeOK'
  BY <1>2, <1>5 DEF ResetDone, Alerted, TypeOK
<1>6. ASSUME NEW ok \in BOOLEAN, WriteDone(ok)
      PROVE  TypeOK'
  <2>1. session \in Sessions /\ writes[session] # <<>>
    BY <1>6 DEF WriteDone, TypeOK, Sessions
  <2>2. /\ writes' \in [Sessions -> Seq(Write)]
        /\ Head(writes[session]) \in Write
    BY <1>6, <2>1, WriteLeft DEF WriteDone
  <2>3. docs' \in [Accounts -> Accounts \cup {None}]
    BY <1>6, <2>2 DEF WriteDone, TypeOK, Write
  <2>. QED
    BY <1>6, <2>2, <2>3 DEF WriteDone, Alerted, TypeOK
<1>. QED
  BY <1>1, <1>3, <1>4, <1>5, <1>6 DEF SystemStep

-----------------------------------------------------------------------------
(***************************************************************************)
(* Each step keeps what calls and queued writes stand for.                 *)
(***************************************************************************)
(* What a call or a write stands for it stands for ever.                   *)
LEMMA GoodStaysGood ==
    ASSUME TypeOK, Grows
    PROVE  /\ \A c \in Call : GoodCall(c, stack, status)
                              => GoodCall(c, stack', status')
           /\ \A w \in Write : GoodWrite(w, stack, status)
                              => GoodWrite(w, stack', status')
<1>1. \A i \in 1 .. Len(stack) : i \in 1 .. Len(stack') /\ stack'[i] = stack[i]
  <2>1. Len(stack) \in Nat /\ stack' = stack' /\ Len(stack) <= Len(stack')
    BY StateFacts DEF Grows
  <2>2. Len(stack') \in Int
    BY <2>1 DEF Grows
  <2>. QED
    BY <2>1, <2>2 DEF Grows
<1>. QED
  BY <1>1 DEF Grows, GoodCall, GoodWrite, Call, Write

(* A step that drops calls and writes, or adds good ones, keeps CallInv.   *)
LEMMA CallsKept ==
    ASSUME TypeOK, CallInv, Grows,
           \A k \in DOMAIN calls' :
               \/ \E j \in DOMAIN calls : calls'[k] = calls[j]
               \/ GoodCall(calls'[k], stack', status'),
           \A u \in Sessions : \A i \in DOMAIN writes'[u] :
               \/ \E j \in DOMAIN writes[u] : writes'[u][i] = writes[u][j]
               \/ GoodWrite(writes'[u][i], stack', status')
    PROVE  CallInv'
<1>1. ASSUME NEW k \in DOMAIN calls'
      PROVE  GoodCall(calls'[k], stack', status')
  BY GoodStaysGood, StateFacts DEF CallInv
<1>2. ASSUME NEW u \in Sessions, NEW i \in DOMAIN writes'[u]
      PROVE  GoodWrite(writes'[u][i], stack', status')
  BY GoodStaysGood, QueueFacts DEF CallInv
<1>. QED
  BY <1>1, <1>2 DEF CallInv

(* A step that adds nothing.                                               *)
LEMMA NothingNew ==
    ASSUME TypeOK, CallInv, Grows,
           calls' = calls \/ \E k \in DOMAIN calls : calls' = RemoveAt(calls, k),
           \/ writes' = writes
           \/ \E u \in Sessions : /\ writes[u] # <<>>
                                  /\ writes' = [writes EXCEPT ![u] = Tail(@)]
    PROVE  CallInv'
<1>1. \A k \in DOMAIN calls' : \E j \in DOMAIN calls : calls'[k] = calls[j]
  BY CallRemoved
<1>2. \A u \in Sessions : \A i \in DOMAIN writes'[u] :
          \E j \in DOMAIN writes[u] : writes'[u][i] = writes[u][j]
  BY WriteLeft
<1>. QED
  BY <1>1, <1>2, CallsKept

(* Pages are only added, and no account goes back.                         *)
LEMMA StackGrows ==
    ASSUME TypeOK, NEW p \in Pages,
           UNCHANGED stack \/ Open(p) \/ stack' = Append(stack, p),
           UNCHANGED status
    PROVE  Grows
BY StackTypes DEF Grows

(* A restart leaves no call, and no write that a page waits for.           *)
LEMMA KillCalls ==
    ASSUME TypeOK, Kill
    PROVE  CallInv'
<1>1. /\ DOMAIN calls' = {}
      /\ \A u \in Sessions : \A i \in DOMAIN writes'[u] : writes'[u][i].by = 0
  BY KillType, ForgottenWrites
<1>. QED
  BY <1>1 DEF CallInv, GoodWrite

LEMMA UserCalls ==
    ASSUME TypeOK, CallInv, UserStep
    PROVE  CallInv'
<1>. USE DEF ui, client, server
<1>1. ASSUME NEW from \in Pages, NEW to \in Pages, FollowLink(from, to)
      PROVE  CallInv'
  BY <1>1, StackGrows, NothingNew DEF FollowLink
<1>2. ASSUME NEW op \in {"signIn", "create", "reset"}, NEW a \in Accounts,
             Start(op, a), UNCHANGED <<stack, status, writes>>, Top \in PagesOf(op)
      PROVE  CallInv'
  <2>. DEFINE c == CallBy(op, a)
  <2>1. /\ c \in Call /\ c.by = Len(stack) /\ c.by \in DOMAIN stack
        /\ c.op = op /\ (op = "create" => ~c.served)
    BY <1>2, StateFacts DEF CallBy, Call
  <2>2. calls' = Append(calls, c)
    BY <1>2 DEF Start
  <2>3. GoodCall(c, stack', status')
    BY <1>2, <2>1, StateFacts DEF GoodCall
  <2>4. Grows
    BY <1>2, StackGrows DEF Pages
  <2>. HIDE DEF c
  <2>5. ASSUME NEW k \in DOMAIN calls'
        PROVE  \/ \E j \in DOMAIN calls : calls'[k] = calls[j]
               \/ GoodCall(calls'[k], stack', status')
    <3>1. /\ DOMAIN calls' = 1 .. (Len(calls) + 1) /\ calls'[Len(calls) + 1] = c
          /\ \A i \in 1 .. Len(calls) : calls'[i] = calls[i]
      BY <1>2, <2>1, <2>2, CallAppended
    <3>2. k \in 1 .. Len(calls) \/ k = Len(calls) + 1
      BY <3>1, StateFacts
    <3>3. CASE k \in 1 .. Len(calls)
      BY <3>1, <3>3, StateFacts
    <3>4. CASE k = Len(calls) + 1
      BY <2>3, <3>1, <3>4
    <3>. QED
      BY <3>2, <3>3, <3>4
  <2>6. \A u \in Sessions : \A i \in DOMAIN writes'[u] :
            \E j \in DOMAIN writes[u] : writes'[u][i] = writes[u][j]
    BY <1>2
  <2>. QED
    BY <2>4, <2>5, <2>6, CallsKept
<1>3. ASSUME NEW a \in Accounts, LoginButton(a)
      PROVE  CallInv'
  BY <1>2, <1>3 DEF LoginButton, Touchable, PagesOf
<1>4. ASSUME NEW a \in Accounts, SignUpButton(a)
      PROVE  CallInv'
  BY <1>2, <1>4 DEF SignUpButton, Touchable, PagesOf
<1>5. ASSUME NEW a \in Accounts, ResetButton(a)
      PROVE  CallInv'
  BY <1>2, <1>5 DEF ResetButton, Touchable, PagesOf
<1>6. ASSUME NEW a \in Accounts, VerifyEmail(a)
      PROVE  CallInv'
  <2>1. Grows
    BY <1>6, StateFacts DEF VerifyEmail, Grows, TypeOK
  <2>. QED
    BY <1>6, <2>1, NothingNew DEF VerifyEmail
<1>7. CASE LogoutButton
  <2>1. stack' = Append(stack, "login") /\ "login" \in Pages
    BY <1>7 DEF LogoutButton, Pages
  <2>. QED
    BY <1>7, <2>1, StackGrows, NothingNew DEF LogoutButton
<1>8. CASE SaveButton
  <2>1. /\ user.uuid \in Accounts /\ user.email \in Accounts
        /\ user.email # None /\ Top = "settings"
        /\ StoreUserInfo(user.uuid, user.email, Len(stack))
        /\ UNCHANGED <<stack, calls, status>>
    BY <1>8, AccountAssumption DEF SaveButton, CanStore, TypeOK, Touchable
  <2>2. \A v \in Sessions : \A k \in DOMAIN writes'[v] :
            \/ \E j \in DOMAIN writes[v] : writes'[v][k] = writes[v][j]
            \/ writes'[v][k].by = Len(stack)
    BY <2>1, StateFacts, WriteQueued
  <2>3. \A w : w.by = Len(stack) => GoodWrite(w, stack', status')
    BY <2>1, StateFacts DEF GoodWrite
  <2>4. Grows
    BY <2>1, StackGrows DEF Pages
  <2>5. \A k \in DOMAIN calls' : \E j \in DOMAIN calls : calls'[k] = calls[j]
    BY <2>1
  <2>. QED
    BY <2>2, <2>3, <2>4, <2>5, CallsKept
<1>9. CASE Kill
  BY <1>9, KillCalls
<1>10. CASE CloseAlert
  <2>1. PICK p \in Pages : UNCHANGED stack \/ Open(p)
    BY <1>10 DEF CloseAlert, Pages
  <2>. QED
    BY <1>10, <2>1, StackGrows, NothingNew DEF CloseAlert
<1>11. \A link \in Links : link[1] \in Pages /\ link[2] \in Pages
  BY DEF Links, Pages
<1>. QED
  BY <1>1, <1>3, <1>4, <1>5, <1>6, <1>7, <1>8, <1>9, <1>10, <1>11
     DEF UserStep, SaveTraps

LEMMA LoginCallsKept ==
    ASSUME TypeOK, CallInv, LoginStep
    PROVE  CallInv'
<1>. USE DEF ui, client, server
<1>. PICK k \in DOMAIN calls, ok \in BOOLEAN : SignInDone(k, ok) \/ InfoDone(k, ok)
  BY DEF LoginStep
<1>1. CASE LoginFails(k)
  BY <1>1, StackGrows, NothingNew DEF LoginFails, Pages
<1>2. CASE SignInDone(k, ok) /\ ~LoginFails(k)
  <2>. DEFINE c == [calls[k] EXCEPT !.op = "info"]
  <2>1. /\ calls[k].op = "signIn" /\ calls' = [calls EXCEPT ![k] = c]
        /\ UNCHANGED <<stack, writes, status>>
    BY <1>2 DEF SignInDone
  <2>2. c \in Call /\ c.by = calls[k].by /\ c.op = "info"
    BY StateFacts DEF Call
  <2>3. Grows
    BY <2>1, StackGrows DEF Pages
  <2>4. GoodCall(calls[k], stack, status)
    BY DEF CallInv
  <2>. HIDE DEF c
  <2>5. GoodCall(c, stack', status')
    BY <2>1, <2>2, <2>4 DEF GoodCall, PagesOf
  <2>6. /\ DOMAIN calls' = DOMAIN calls
        /\ \A i \in DOMAIN calls : calls'[i] = IF i = k THEN c ELSE calls[i]
    BY <2>1, <2>2, CallChanged
  <2>7. \A u \in Sessions : \A i \in DOMAIN writes'[u] :
            \E j \in DOMAIN writes[u] : writes'[u][i] = writes[u][j]
    BY <2>1
  <2>. QED
    BY <2>3, <2>5, <2>6, <2>7, CallsKept
<1>3. CASE InfoDone(k, ok) /\ ~LoginFails(k) /\ ~Kill
  <2>1. /\ calls' = RemoveAt(calls, k) /\ UNCHANGED <<writes, status>>
        /\ UNCHANGED stack \/ stack' = Append(stack, "landing")
    BY <1>3 DEF InfoDone
  <2>. QED
    BY <2>1, StackGrows, NothingNew DEF Pages
<1>4. CASE Kill
  BY <1>4, KillCalls
<1>. QED
  BY <1>1, <1>2, <1>3, <1>4

(* One call replaced by a good one.                                        *)
LEMMA CallReplaced ==
    ASSUME TypeOK, CallInv, Grows, NEW k \in DOMAIN calls, NEW c \in Call,
           calls' = [calls EXCEPT ![k] = c], c.by = calls[k].by,
           GoodCall(c, stack', status'), UNCHANGED writes
    PROVE  CallInv'
<1>1. /\ DOMAIN calls' = DOMAIN calls
      /\ \A i \in DOMAIN calls : calls'[i] = IF i = k THEN c ELSE calls[i]
  BY CallChanged
<1>2. \A u \in Sessions : \A i \in DOMAIN writes'[u] :
          \E j \in DOMAIN writes[u] : writes'[u][i] = writes[u][j]
  OBVIOUS
<1>. QED
  BY <1>1, <1>2, CallsKept

LEMMA SystemCalls ==
    ASSUME TypeOK, CallInv, SystemStep
    PROVE  CallInv'
<1>. USE DEF ui, client, server
<1>1. ASSUME NEW k \in DOMAIN calls, AuthServes(k)
      PROVE  CallInv'
  <2>. DEFINE c == [calls[k] EXCEPT !.served = TRUE]
              a == calls[k].account
  <2>1. /\ c \in Call /\ c.by = calls[k].by /\ c.op = calls[k].op
        /\ c.account = a /\ a \in Accounts
    BY StateFacts DEF Call
  <2>2. /\ calls' = [calls EXCEPT ![k] = c] /\ UNCHANGED <<stack, writes>>
        /\ \/ /\ c.op = "create" /\ status[a] = "none"
              /\ status' = [status EXCEPT ![a] = "created"]
           \/ /\ c.op = "mail"
              /\ status' = [status EXCEPT ![a] =
                                IF @ = "created" THEN "mailed" ELSE @]
    BY <1>1, <2>1 DEF AuthServes
  <2>3. GoodCall(calls[k], stack, status)
    BY DEF CallInv
  <2>. HIDE DEF c
  <2>4. Grows
    BY <2>1, <2>2, StateFacts DEF Grows, TypeOK
  <2>5. /\ c.op = "create" => status'[a] = "created"
        /\ c.op = "mail" /\ status[a] # "none"
           => status'[a] \in {"mailed", "verified"}
    BY <2>1, <2>2 DEF TypeOK, Status
  <2>6. GoodCall(c, stack', status')
    BY <2>1, <2>2, <2>3, <2>5 DEF GoodCall
  <2>. QED
    BY <2>1, <2>2, <2>4, <2>6, CallReplaced
<1>2. ASSUME NEW k \in DOMAIN calls, NEW ok \in BOOLEAN, CreateDone(k, ok)
      PROVE  CallInv'
  <2>1. CASE calls' = RemoveAt(calls, k)
    BY <1>2, <2>1, StackGrows, NothingNew DEF CreateDone, Pages
  <2>2. CASE /\ calls[k].served
             /\ calls' = [calls EXCEPT ![k].op = "mail", ![k].served = FALSE]
    <3>. DEFINE c == [calls[k] EXCEPT !.op = "mail", !.served = FALSE]
    <3>1. /\ c \in Call /\ c.by = calls[k].by /\ c.op = "mail" /\ ~c.served
          /\ c.account = calls[k].account
      BY StateFacts DEF Call
    <3>2. /\ calls' = [calls EXCEPT ![k] = c] /\ calls[k].op = "create"
          /\ UNCHANGED <<stack, status, writes>>
      BY <1>2, <2>2 DEF CreateDone
    <3>3. GoodCall(calls[k], stack, status)
      BY DEF CallInv
    <3>. HIDE DEF c
    <3>4. GoodCall(c, stack', status')
      BY <2>2, <3>1, <3>2, <3>3 DEF GoodCall, PagesOf
    <3>5. Grows
      BY <3>2, StackGrows DEF Pages
    <3>. QED
      BY <3>1, <3>2, <3>4, <3>5, CallReplaced
  <2>. QED
    BY <1>2, <2>1, <2>2 DEF CreateDone
<1>3. ASSUME NEW k \in DOMAIN calls, NEW ok \in BOOLEAN, MailDone(k, ok)
      PROVE  CallInv'
  <2>1. CASE ~ok
    BY <1>3, <2>1, StackGrows, NothingNew DEF MailDone, Pages
  <2>2. CASE ok /\ CanStore(session)
    <3>1. /\ session \in Accounts /\ user.email # None
          /\ calls[k].account \in Accounts /\ calls[k].by \in Nat
      BY <2>2, StateFacts DEF CanStore, TypeOK, Call
    <3>2. /\ StoreUserInfo(session, calls[k].account, calls[k].by)
          /\ calls' = RemoveAt(calls, k) /\ UNCHANGED <<stack, status>>
          /\ calls[k].op = "mail" /\ calls[k].served
      BY <1>3, <2>2 DEF MailDone
    <3>3. \A v \in Sessions : \A i \in DOMAIN writes'[v] :
              \/ \E j \in DOMAIN writes[v] : writes'[v][i] = writes[v][j]
              \/ writes'[v][i].by = calls[k].by
                 /\ writes'[v][i].typed = calls[k].account
      BY <3>1, <3>2, WriteQueued
    <3>4. GoodCall(calls[k], stack, status)
      BY DEF CallInv
    <3>5. \A w : w.by = calls[k].by /\ w.typed = calls[k].account
                => GoodWrite(w, stack', status')
      BY <3>2, <3>4 DEF GoodCall, GoodWrite, PagesOf
    <3>6. Grows
      BY <3>2, StackGrows DEF Pages
    <3>7. \A i \in DOMAIN calls' : \E j \in DOMAIN calls : calls'[i] = calls[j]
      BY <3>2, CallRemoved
    <3>. QED
      BY <3>3, <3>5, <3>6, <3>7, CallsKept
  <2>3. CASE Kill
    BY <2>3, KillCalls
  <2>. QED
    BY <1>3, <2>1, <2>2, <2>3 DEF MailDone
<1>4. ASSUME NEW k \in DOMAIN calls, NEW ok \in BOOLEAN, ResetDone(k, ok)
      PROVE  CallInv'
  BY <1>4, StackGrows, NothingNew DEF ResetDone, Pages
<1>5. ASSUME NEW ok \in BOOLEAN, WriteDone(ok)
      PROVE  CallInv'
  <2>1. session \in Sessions
    BY DEF TypeOK, Sessions
  <2>. QED
    BY <1>5, <2>1, StackGrows, NothingNew DEF WriteDone, Pages
<1>. QED
  BY <1>1, <1>2, <1>3, <1>4, <1>5 DEF SystemStep

-----------------------------------------------------------------------------
(***************************************************************************)
(* Each step keeps the login's page.                                       *)
(***************************************************************************)
IsLogin(c) == c.op \in {"signIn", "info"}

(* While a login is under way nobody else's answer finds its page on top.  *)
LEMMA NoOtherAlert ==
    ASSUME TypeOK, CallInv, LoginInv, LoginCalls # {}
    PROVE  /\ \A k \in DOMAIN calls : ~IsLogin(calls[k]) => ~CanPresent(calls[k].by)
           /\ \A u \in Sessions : \A i \in DOMAIN writes[u] :
                  ~CanPresent(writes[u][i].by)
<1>1. Top = "login" /\ Len(stack) \in Nat \ {0} /\ Top = stack[Len(stack)]
  BY StateFacts DEF LoginInv
<1>2. ASSUME NEW k \in DOMAIN calls, ~IsLogin(calls[k])
      PROVE  ~CanPresent(calls[k].by)
  <2>1. stack[calls[k].by] # "login"
    BY <1>2 DEF CallInv, GoodCall, PagesOf, IsLogin
  <2>. QED
    BY <1>1, <2>1 DEF CanPresent
<1>3. ASSUME NEW u \in Sessions, NEW i \in DOMAIN writes[u]
      PROVE  ~CanPresent(writes[u][i].by)
  <2>1. writes[u][i].by = 0 \/ stack[writes[u][i].by] # "login"
    BY DEF CallInv, GoodWrite
  <2>. QED
    BY <1>1, <2>1 DEF CanPresent
<1>. QED
  BY <1>2, <1>3

(* A step that changes no login call and neither its page nor the spinner. *)
LEMMA SameLogins ==
    ASSUME TypeOK, LoginInv, LoginCalls' = LoginCalls,
           \A k \in LoginCalls : calls'[k].by = calls[k].by,
           UNCHANGED <<stack, spinner>>, LoginCalls # {} => UNCHANGED alert
    PROVE  LoginInv'
BY DEF LoginInv, Top

(* Another call is answered.                                               *)
LEMMA OtherAnswered ==
    ASSUME TypeOK, LoginInv, NEW k \in DOMAIN calls, ~IsLogin(calls[k]),
           calls' = RemoveAt(calls, k),
           UNCHANGED <<stack, spinner>>, LoginCalls # {} => UNCHANGED alert
    PROVE  LoginInv'
<1>. DEFINE f(i) == IF i < k THEN i ELSE i + 1
<1>1. /\ DOMAIN calls' = 1 .. (Len(calls) - 1) /\ DOMAIN calls = 1 .. Len(calls)
      /\ Len(calls) \in Nat /\ k \in 1 .. Len(calls)
      /\ \A i \in DOMAIN calls' : calls'[i] = IF i < k THEN calls[i] ELSE calls[i + 1]
  BY CallRemoved, StateFacts
<1>2. \A i \in DOMAIN calls' : f(i) \in DOMAIN calls /\ calls'[i] = calls[f(i)]
  BY <1>1
<1>3. \A i, j \in DOMAIN calls' : f(i) = f(j) => i = j
  BY <1>1
<1>4. \A j \in DOMAIN calls : j # k => \E i \in DOMAIN calls' : f(i) = j
  <2>1. ASSUME NEW j \in DOMAIN calls, j < k
        PROVE  j \in DOMAIN calls' /\ f(j) = j
    BY <1>1, <2>1
  <2>2. ASSUME NEW j \in DOMAIN calls, j > k
        PROVE  j - 1 \in DOMAIN calls' /\ f(j - 1) = j
    BY <1>1, <2>2
  <2>3. \A j \in DOMAIN calls : j # k => j < k \/ j > k
    BY <1>1
  <2>. QED
    BY <2>1, <2>2, <2>3
<1>. HIDE DEF f
<1>5. LoginCalls' = {i \in DOMAIN calls' : f(i) \in LoginCalls}
  BY <1>2 DEF LoginCalls
<1>6. k \notin LoginCalls /\ LoginCalls \subseteq DOMAIN calls
  BY DEF LoginCalls, IsLogin
<1>7. LoginCalls' = {} <=> LoginCalls = {}
  BY <1>4, <1>5, <1>6
<1>8. \A i, j \in LoginCalls' : i = j
  BY <1>3, <1>5 DEF LoginInv
<1>9. \A i \in LoginCalls' : /\ calls'[i].by = Len(stack') /\ Top' = "login"
                             /\ alert' = "none"
  BY <1>2, <1>5 DEF LoginInv, Top
<1>. QED
  BY <1>7, <1>8, <1>9 DEF LoginInv

LEMMA KillLogin ==
    ASSUME TypeOK, Kill
    PROVE  LoginInv'
<1>1. LoginCalls' = {} /\ spinner' = 0
  BY KillType DEF LoginCalls, Kill
<1>. QED
  BY <1>1 DEF LoginInv

LEMMA UserLogin ==
    ASSUME TypeOK, LoginInv, UserStep
    PROVE  LoginInv'
<1>. USE DEF ui, client, server
<1>1. CASE \E a \in Accounts : VerifyEmail(a)
  <2>1. LoginCalls' = LoginCalls
    BY <1>1 DEF VerifyEmail, LoginCalls
  <2>. QED
    BY <1>1, <2>1, SameLogins DEF VerifyEmail
<1>2. ASSUME NEW a \in Accounts, LoginButton(a)
      PROVE  LoginInv'
  <2>1. /\ spinner = 0 /\ spinner' = 1 /\ Top = "login" /\ alert = "none"
        /\ calls' = Append(calls, CallBy("signIn", a)) /\ UNCHANGED <<stack, alert>>
    BY <1>2 DEF LoginButton, Touchable, Start
  <2>2. /\ CallBy("signIn", a) \in Call /\ CallBy("signIn", a).by = Len(stack)
        /\ CallBy("signIn", a).op = "signIn" /\ Len(stack) \in DOMAIN stack
    BY StateFacts DEF CallBy, Call
  <2>3. /\ DOMAIN calls' = 1 .. (Len(calls) + 1)
        /\ calls'[Len(calls) + 1] = CallBy("signIn", a)
        /\ \A k \in 1 .. Len(calls) : calls'[k] = calls[k]
    BY <2>1, <2>2, CallAppended
  <2>4. LoginCalls = {} /\ Len(calls) \in Nat /\ DOMAIN calls = 1 .. Len(calls)
    BY <2>1, StateFacts DEF LoginInv
  <2>5. \A k \in 1 .. (Len(calls) + 1) : k \in 1 .. Len(calls) \/ k = Len(calls) + 1
    BY <2>4
  <2>6. LoginCalls' = {Len(calls) + 1}
    <3>1. \A k \in 1 .. Len(calls) : calls[k].op \notin {"signIn", "info"}
      BY <2>4 DEF LoginCalls
    <3>2. Len(calls) + 1 \in 1 .. (Len(calls) + 1)
      BY <2>4
    <3>. QED
      BY <2>2, <2>3, <2>5, <3>1, <3>2 DEF LoginCalls
  <2>. QED
    BY <2>1, <2>2, <2>3, <2>6 DEF LoginInv, Top
<1>3. ASSUME spinner = 0, spinner' = 0,
             \/ UNCHANGED calls
             \/ \E op \in {"create", "reset"}, a \in Accounts : Start(op, a) /\ UNCHANGED stack
      PROVE  LoginInv'
  <2>1. LoginCalls = {}
    BY <1>3 DEF LoginInv
  <2>2. CASE UNCHANGED calls
    BY <1>3, <2>1, <2>2 DEF LoginInv, LoginCalls
  <2>3. ASSUME NEW op \in {"create", "reset"}, NEW a \in Accounts, Start(op, a),
               UNCHANGED stack
        PROVE  LoginInv'
    <3>1. /\ CallBy(op, a) \in Call /\ CallBy(op, a).op = op
          /\ CallBy(op, a).by \in DOMAIN stack
      BY StateFacts DEF CallBy, Call
    <3>2. /\ DOMAIN calls' = 1 .. (Len(calls) + 1)
          /\ calls'[Len(calls) + 1] = CallBy(op, a)
          /\ \A k \in 1 .. Len(calls) : calls'[k] = calls[k]
      BY <2>3, <3>1, CallAppended DEF Start
    <3>3. \A k \in 1 .. (Len(calls) + 1) : k \in 1 .. Len(calls) \/ k = Len(calls) + 1
      BY StateFacts
    <3>4. \A k \in 1 .. Len(calls) : calls[k].op \notin {"signIn", "info"}
      BY <2>1, StateFacts DEF LoginCalls
    <3>5. LoginCalls' = {}
      BY <3>1, <3>2, <3>3, <3>4 DEF LoginCalls
    <3>. QED
      BY <1>3, <3>5 DEF LoginInv
  <2>. QED
    BY <1>3, <2>2, <2>3
<1>4. CASE SaveTraps
  BY <1>4, KillLogin DEF SaveTraps
<1>5. CASE \/ \E link \in Links : FollowLink(link[1], link[2])
           \/ \E a \in Accounts : SignUpButton(a) \/ ResetButton(a)
           \/ LogoutButton \/ SaveButton \/ CloseAlert
  <2>1. spinner = 0 /\ spinner' = spinner
    BY <1>5 DEF FollowLink, SignUpButton, ResetButton, LogoutButton, SaveButton,
                CloseAlert, Touchable
  <2>2. \/ UNCHANGED calls
        \/ \E op \in {"create", "reset"}, a \in Accounts : Start(op, a) /\ UNCHANGED stack
    BY <1>5 DEF FollowLink, SignUpButton, ResetButton, LogoutButton, SaveButton,
                CloseAlert
  <2>. QED
    BY <1>3, <2>1, <2>2
<1>. QED
  BY <1>1, <1>2, <1>4, <1>5 DEF UserStep

LEMMA LoginLogin ==
    ASSUME TypeOK, LoginInv, NEW k \in DOMAIN calls, NEW ok \in BOOLEAN,
           SignInDone(k, ok) \/ InfoDone(k, ok)
    PROVE  spinner = 1 /\ LoginInv'
<1>. USE DEF ui, client, server
<1>1. k \in LoginCalls
  BY DEF LoginCalls, SignInDone, InfoDone
<1>2. LoginCalls = {k} /\ spinner = 1
  BY <1>1 DEF LoginInv
<1>3. CASE calls' = RemoveAt(calls, k) /\ spinner' = spinner - 1
  <2>1. \A i \in DOMAIN calls' : \E j \in DOMAIN calls : j # k /\ calls'[i] = calls[j]
    BY <1>3, CallRemoved
  <2>2. LoginCalls' = {}
    BY <1>2, <2>1 DEF LoginCalls
  <2>3. spinner' = 0
    BY <1>2, <1>3
  <2>. QED
    BY <1>2, <2>2, <2>3 DEF LoginInv
<1>4. CASE /\ calls' = [calls EXCEPT ![k].op = "info"]
           /\ UNCHANGED ui
  <2>. DEFINE c == [calls[k] EXCEPT !.op = "info"]
  <2>1. c \in Call /\ c.by = calls[k].by /\ c.op = "info"
    BY StateFacts DEF Call
  <2>2. calls' = [calls EXCEPT ![k] = c]
    BY <1>4
  <2>. HIDE DEF c
  <2>3. /\ DOMAIN calls' = DOMAIN calls
        /\ \A i \in DOMAIN calls : calls'[i] = IF i = k THEN c ELSE calls[i]
    BY <2>1, <2>2, CallChanged
  <2>4. LoginCalls' = LoginCalls
    BY <1>1, <2>1, <2>3 DEF LoginCalls
  <2>. QED
    BY <1>1, <1>2, <1>4, <2>1, <2>3, <2>4, SameLogins
<1>5. CASE Kill
  BY <1>2, <1>5, KillLogin
<1>6. \/ calls' = RemoveAt(calls, k) /\ spinner' = spinner - 1
      \/ calls' = [calls EXCEPT ![k].op = "info"] /\ UNCHANGED ui
      \/ Kill
  BY DEF SignInDone, InfoDone, LoginFails
<1>. QED
  BY <1>2, <1>3, <1>4, <1>5, <1>6

(* An answer that leaves the call under way changes what is not a login.   *)
LEMMA OtherChanged ==
    ASSUME TypeOK, LoginInv, NEW k \in DOMAIN calls, NEW c \in Call,
           ~IsLogin(calls[k]), ~IsLogin(c), c.by = calls[k].by,
           calls' = [calls EXCEPT ![k] = c], UNCHANGED ui
    PROVE  LoginInv'
<1>1. /\ DOMAIN calls' = DOMAIN calls
      /\ \A i \in DOMAIN calls : calls'[i] = IF i = k THEN c ELSE calls[i]
      /\ \A i \in DOMAIN calls : calls'[i].by = calls[i].by
  BY CallChanged
<1>2. LoginCalls' = LoginCalls
  BY <1>1 DEF LoginCalls, IsLogin
<1>. QED
  BY <1>1, <1>2, SameLogins DEF ui, LoginCalls

LEMMA SystemLogin ==
    ASSUME TypeOK, CallInv, LoginInv, SystemStep
    PROVE  LoginInv'
<1>. USE DEF client, server
<1>1. ASSUME NEW k \in DOMAIN calls, AuthServes(k)
      PROVE  LoginInv'
  <2>. DEFINE c == [calls[k] EXCEPT !.served = TRUE]
  <2>1. c \in Call /\ c.by = calls[k].by /\ c.op = calls[k].op
    BY StateFacts DEF Call
  <2>2. /\ calls' = [calls EXCEPT ![k] = c] /\ UNCHANGED ui
        /\ ~IsLogin(calls[k]) /\ ~IsLogin(c)
    BY <1>1, <2>1 DEF AuthServes, IsLogin
  <2>. HIDE DEF c
  <2>. QED
    BY <2>1, <2>2, OtherChanged
<1>2. ASSUME NEW k \in DOMAIN calls, NEW ok \in BOOLEAN,
             CreateDone(k, ok) \/ MailDone(k, ok) \/ ResetDone(k, ok)
      PROVE  LoginInv'
  <2>1. ~IsLogin(calls[k])
    BY <1>2 DEF CreateDone, MailDone, ResetDone, IsLogin
  <2>2. CASE calls' = RemoveAt(calls, k) /\ UNCHANGED <<stack, spinner>> /\ ~Kill
    <3>1. \/ UNCHANGED alert
          \/ \E kind : alert' = Alerted(calls[k].by, kind)
      BY <1>2, <2>2 DEF CreateDone, MailDone, ResetDone, ui
    <3>2. LoginCalls # {} => UNCHANGED alert
      BY <2>1, <3>1, NoOtherAlert DEF Alerted
    <3>. QED
      BY <2>1, <2>2, <3>2, OtherAnswered
  <2>3. CASE /\ calls' = [calls EXCEPT ![k].op = "mail", ![k].served = FALSE]
             /\ UNCHANGED ui
    <3>. DEFINE c == [calls[k] EXCEPT !.op = "mail", !.served = FALSE]
    <3>1. c \in Call /\ c.by = calls[k].by /\ ~IsLogin(c)
      BY StateFacts DEF Call, IsLogin
    <3>2. calls' = [calls EXCEPT ![k] = c]
      BY <2>3
    <3>. HIDE DEF c
    <3>. QED
      BY <2>1, <2>3, <3>1, <3>2, OtherChanged
  <2>4. CASE Kill
    BY <2>4, KillLogin
  <2>. QED
    BY <1>2, <2>2, <2>3, <2>4 DEF CreateDone, MailDone, ResetDone, ui
<1>3. ASSUME NEW ok \in BOOLEAN, WriteDone(ok)
      PROVE  LoginInv'
  <2>1. /\ session \in Sessions /\ writes[session] # <<>>
        /\ writes' = [writes EXCEPT ![session] = Tail(@)]
        /\ UNCHANGED <<stack, spinner, calls>>
    BY <1>3 DEF WriteDone, TypeOK, Sessions
  <2>2. 1 \in DOMAIN writes[session] /\ Head(writes[session]) = writes[session][1]
    BY <2>1, WriteLeft
  <2>3. LoginCalls # {} => UNCHANGED alert
    BY <1>3, <2>1, <2>2, NoOtherAlert DEF WriteDone, Alerted
  <2>4. LoginCalls' = LoginCalls
    BY <2>1 DEF LoginCalls
  <2>. QED
    BY <2>1, <2>3, <2>4, SameLogins
<1>. QED
  BY <1>1, <1>2, <1>3 DEF SystemStep
-----------------------------------------------------------------------------
(***************************************************************************)
(* The invariant, and the theorems.                                        *)
(***************************************************************************)
Inv == TypeOK /\ CallInv /\ LoginInv

LEMMA InitInv ==
    ASSUME Init
    PROVE  Inv
<1>1. /\ stack \in Seq(Pages) /\ stack # <<>>
  BY DEF Init, Pages
<1>2. calls = <<>> /\ <<>> \in Seq(Call) /\ DOMAIN calls = {}
  BY EmptySeq DEF Init
<1>3. /\ writes \in [Sessions -> Seq(Write)]
      /\ \A u \in Sessions : DOMAIN writes[u] = {}
  BY EmptySeq DEF Init
<1>4. TypeOK
  BY <1>1, <1>2, <1>3 DEF Init, TypeOK, Nobody, Status
<1>5. LoginCalls = {} /\ spinner = 0
  BY <1>2 DEF Init, LoginCalls
<1>. QED
  BY <1>2, <1>3, <1>4, <1>5 DEF Inv, CallInv, LoginInv

LEMMA NextInv ==
    ASSUME Inv, [Next]_vars
    PROVE  Inv'
<1>. USE DEF Inv
<1>1. CASE UserStep
  BY <1>1, UserType, UserCalls, UserLogin
<1>2. CASE LoginStep
  <2>. PICK k \in DOMAIN calls, ok \in BOOLEAN : SignInDone(k, ok) \/ InfoDone(k, ok)
    BY <1>2 DEF LoginStep
  <2>1. spinner = 1 /\ LoginInv'
    BY LoginLogin
  <2>. QED
    BY <1>2, <2>1, LoginType, LoginCallsKept
<1>3. CASE SystemStep
  BY <1>3, SystemType, SystemCalls, SystemLogin
<1>4. CASE Kill
  BY <1>4, KillType, KillCalls, KillLogin
<1>5. CASE UNCHANGED vars
  BY <1>5 DEF vars, ui, client, server, TypeOK, CallInv, LoginInv, LoginCalls,
              Top, GoodCall, GoodWrite
<1>. QED
  BY <1>1, <1>2, <1>3, <1>4, <1>5 DEF Next

LEMMA Invariance == Spec => []Inv
BY InitInv, NextInv, PTL DEF Spec

(* The state keeps its types, and every call names its page and an         *)
(* account.                                                                *)
THEOREM AccountTypeCorrect == Spec => []TypeOK
<1>1. Inv => TypeOK
  BY DEF Inv
<1>. QED
  BY <1>1, Invariance, PTL

(* However many accounts, pages and calls there are: touches are ignored   *)
(* exactly while one login is under way, and its page is on top.           *)
THEOREM LoginIsUndisturbed == Spec => []LoginKeepsItsPage
<1>1. ASSUME Inv
      PROVE  LoginKeepsItsPage
  <2>1. CASE LoginCalls = {}
    BY <1>1, <2>1, FS_EmptySet DEF Inv, LoginInv, LoginKeepsItsPage
  <2>2. CASE LoginCalls # {}
    <3>1. PICK k \in LoginCalls : LoginCalls = {k}
      BY <1>1, <2>2 DEF Inv, LoginInv
    <3>2. Cardinality(LoginCalls) = 1
      BY <3>1, FS_Singleton
    <3>. QED
      BY <1>1, <2>2, <3>2 DEF Inv, LoginInv, LoginKeepsItsPage
  <2>. QED
    BY <2>1, <2>2
<1>. QED
  BY <1>1, Invariance, PTL

(* A sign-up page only welcomes an address that Auth has mailed.           *)
THEOREM WelcomesMailed == Spec => WelcomeMeansMailed
<1>1. ASSUME Inv, NEW u \in Sessions, Announces(u), Head(writes[u]).by # 0,
             stack[Head(writes[u]).by] = "signup"
      PROVE  status[Head(writes[u]).typed] \in {"mailed", "verified"}
  <2>1. 1 \in DOMAIN writes[u] /\ Head(writes[u]) = writes[u][1]
    BY <1>1, WriteLeft DEF Inv, Announces
  <2>2. GoodWrite(Head(writes[u]), stack, status)
    BY <1>1, <2>1 DEF Inv, CallInv
  <2>. QED
    BY <1>1, <2>2 DEF GoodWrite
<1>2. ASSUME Inv, [Next]_vars
      PROVE  [\A u \in Sessions :
                  LET w == Head(writes[u]) IN
                  Announces(u) /\ w.by # 0 /\ stack[w.by] = "signup"
                  => status[w.typed] \in {"mailed", "verified"}]_vars
  BY <1>1, <1>2
<1>. QED
  BY <1>2, Invariance, PTL DEF Spec, WelcomeMeansMailed

(* A step that answers the first write in a queue and announces a success  *)
(* is the completion of that write.                                        *)
LEMMA OnlyItsAnswer ==
    ASSUME TypeOK, Next, NEW u \in Sessions, Announces(u)
    PROVE  WriteDone(TRUE) /\ u = session
<1>. USE DEF ui, client, server
<1>1. writes'[u] # writes[u] /\ alert' = "done" /\ alert # "done"
  BY WriteLeft DEF Announces
<1>2. ~UserStep /\ ~Kill
  BY <1>1 DEF UserStep, FollowLink, LoginButton, SignUpButton, ResetButton,
              VerifyEmail, LogoutButton, SaveButton, SaveTraps, CloseAlert, Kill
<1>3. ~LoginStep
  BY <1>1, <1>2 DEF LoginStep, SignInDone, InfoDone, LoginFails
<1>4. ASSUME NEW k \in DOMAIN calls, NEW ok \in BOOLEAN
      PROVE  /\ ~AuthServes(k) /\ ~CreateDone(k, ok)
             /\ ~MailDone(k, ok) /\ ~ResetDone(k, ok)
  BY <1>1, <1>2 DEF AuthServes, CreateDone, MailDone, ResetDone
<1>5. PICK ok \in BOOLEAN : WriteDone(ok)
  BY <1>2, <1>3, <1>4 DEF Next, SystemStep
<1>6. ok = TRUE
  BY <1>1, <1>5 DEF WriteDone, Alerted
<1>7. u = session
  <2>1. /\ session \in Sessions /\ writes[session] # <<>>
        /\ writes' = [writes EXCEPT ![session] = Tail(@)]
    BY <1>5 DEF WriteDone, TypeOK, Sessions
  <2>2. \A v \in Sessions \ {session} : writes'[v] = writes[v]
    BY <2>1, WriteLeft
  <2>. QED
    BY <1>1, <2>2
<1>. QED
  BY <1>5, <1>6, <1>7

(* What a page announces as stored, the server has taken.                  *)
THEOREM AnnouncesStored == Spec => AnnouncedMeansStored
<1>1. ASSUME Inv, Next, NEW u \in Sessions, Announces(u)
      PROVE  docs'[Head(writes[u]).account] = Head(writes[u]).email
  <2>1. WriteDone(TRUE) /\ u = session /\ TypeOK
    BY <1>1, OnlyItsAnswer DEF Inv
  <2>2. Head(writes[u]) \in Write
    BY <1>1, <2>1, WriteLeft DEF Announces
  <2>3. Head(writes[u]).account \in Accounts /\ docs \in [Accounts -> Accounts \cup {None}]
    BY <2>1, <2>2 DEF Write, TypeOK
  <2>4. docs' = [docs EXCEPT ![Head(writes[u]).account] = Head(writes[u]).email]
    BY <2>1 DEF WriteDone
  <2>. QED
    BY <2>3, <2>4
<1>2. ASSUME Inv, [Next]_vars
      PROVE  [\A u \in Sessions :
                  LET w == Head(writes[u]) IN
                  Announces(u) => docs'[w.account] = w.email]_vars
  BY <1>1, <1>2
<1>. QED
  BY <1>2, Invariance, PTL DEF Spec, AnnouncedMeansStored
=============================================================================
