----------------------------- MODULE RentalProofs -----------------------------
(***************************************************************************)
(* Theorems about Rental, for every set of devices and times.              *)
(***************************************************************************)
EXTENDS Rental, SequenceTheorems, TLAPS

-----------------------------------------------------------------------------
(* Pages are views. *)
LEMMA FreshType ==
    ASSUME NEW s \in Screens
    PROVE  Fresh(s) \in View
BY DEF Fresh, View

(* What PresentBy does to a well-typed stack. *)
LEMMA PresentType ==
    ASSUME TypeOK, NEW d \in Devices, NEW i \in Nat, NEW v \in View,
           PresentBy(d, i, v)
    PROVE  /\ stack' \in [Devices -> Seq(View)]
           /\ \A e \in Devices : stack'[e] # <<>>
<1>. stack[d] \in Seq(View)
  BY DEF TypeOK
<1>1. Append(stack[d], v) \in Seq(View) /\ Append(stack[d], v) # <<>>
  BY AppendProperties
<1>2. CASE stack' = stack
  BY <1>2 DEF TypeOK
<1>3. CASE stack' = [stack EXCEPT ![d] = Append(stack[d], v)]
  BY <1>1, <1>3 DEF TypeOK
<1>. QED
  BY <1>2, <1>3 DEF PresentBy

(* The page in front of a device is a view.                                *)
LEMMA TopType ==
    ASSUME TypeOK, NEW d \in Devices
    PROVE  /\ Len(stack[d]) \in Nat
           /\ Len(stack[d]) > 0
           /\ Top(d) \in View
BY DEF TypeOK, Top

(* Open, the common part of the buttons that lead to another page.         *)
LEMMA OpenType ==
    ASSUME TypeOK, NEW d \in Devices, NEW s \in Screens, Open(d, s)
    PROVE  TypeOK'
<1>1. /\ stack' \in [Devices -> Seq(View)]
      /\ \A e \in Devices : stack'[e] # <<>>
  BY FreshType, PresentType, TopType DEF Open
<1>. QED
  BY <1>1 DEF Open, TypeOK, memory, fire, net, server

(* An alert changes no type.                                               *)
LEMMA AlertType ==
    ASSUME TypeOK, NEW d \in Devices, ShowAlert(d)
    PROVE  TypeOK'
BY DEF ShowAlert, TypeOK, memory, fire, net, server

(* Changing a field of the top page. *)
LEMMA TopFieldType ==
    ASSUME TypeOK, NEW d \in Devices, NEW b \in BOOLEAN,
           \/ stack' = [stack EXCEPT ![d][Len(stack[d])].card = b]
           \/ stack' = [stack EXCEPT ![d][Len(stack[d])].ticking = b]
    PROVE  /\ stack' \in [Devices -> Seq(View)]
           /\ \A e \in Devices : stack'[e] # <<>>
<1>. DEFINE n == Len(stack[d])
            c == [Top(d) EXCEPT !.card = b]
            t == [Top(d) EXCEPT !.ticking = b]
<1>1. n \in 1 .. Len(stack[d]) /\ stack[d] \in Seq(View)
  BY TopType DEF TypeOK
<1>2. c \in View /\ t \in View
  BY TopType DEF View
<1>3. \A v \in View : /\ [stack[d] EXCEPT ![n] = v] \in Seq(View)
                      /\ [stack[d] EXCEPT ![n] = v] # <<>>
  BY <1>1, ExceptSeq
<1>4. \E v \in View : stack' = [stack EXCEPT ![d] = [stack[d] EXCEPT ![n] = v]]
  <2>1. CASE stack' = [stack EXCEPT ![d][n].card = b]
    BY <2>1, <1>2 DEF Top
  <2>2. CASE stack' = [stack EXCEPT ![d][n].ticking = b]
    BY <2>2, <1>2 DEF Top
  <2>. QED  BY <2>1, <2>2
<1>. QED
  BY <1>3, <1>4 DEF TypeOK

-----------------------------------------------------------------------------
(***************************************************************************)
(* Type correctness.                                                       *)
(***************************************************************************)
(* Every step of the user keeps every variable of its type.                *)
LEMMA UserType ==
    ASSUME TypeOK, NEW d \in Devices, UserStep(d)
    PROVE  TypeOK'
<1>. USE DEF memory, fire, net, server
<1>1. CASE SignIn(d)
  <2>1. /\ stack' \in [Devices -> Seq(View)]
        /\ \A e \in Devices : stack'[e] # <<>>
    BY <1>1, FreshType, PresentType, TopType DEF SignIn, Screens
  <2>. QED  BY <1>1, <2>1 DEF SignIn, TypeOK
<1>2. CASE \/ RentButton(d) \/ SerialBack(d) \/ PaymentBack(d)
          \/ AddCardRow(d) \/ CardBack(d) \/ ReopenLogin(d)
  BY <1>2, OpenType DEF RentButton, SerialBack, PaymentBack, AddCardRow,
                        CardBack, ReopenLogin, Screens
<1>3. CASE \E code \in Codes : NextButton(d, code)
  BY <1>3, OpenType, AlertType DEF NextButton, Screens
<1>4. CASE SelectCard(d)
  BY <1>4, TopFieldType DEF SelectCard, TypeOK
<1>5. ASSUME NEW t \in Times, ConfirmButton(d, t)
      PROVE  TypeOK'
  <2>1. CASE ShowAlert(d)
    BY <2>1, AlertType
  <2>2. CASE ~ShowAlert(d)
    <3>1. [time |-> t, by |-> Len(stack[d])] \in Writes
      BY TopType DEF Writes
    <3>2. writes[d] \in Seq(Writes)
      BY DEF TypeOK
    <3>3. Append(writes[d], [time |-> t, by |-> Len(stack[d])]) \in Seq(Writes)
      BY <3>1, <3>2, AppendProperties
    <3>4. writes' \in [Devices -> Seq(Writes)]
      BY <1>5, <2>2, <3>3 DEF ConfirmButton, TypeOK
    <3>5. startRentTime' \in [Devices -> Times \cup {None}]
      BY <1>5, <2>2 DEF ConfirmButton, TypeOK
    <3>. QED
      BY <1>5, <2>2, <3>4, <3>5 DEF ConfirmButton, TypeOK, ui
  <2>. QED  BY <2>1, <2>2
<1>6. CASE StopButton(d)
  <2>1. [value |-> FALSE, by |-> Len(stack[d])] \in Puts
    BY TopType DEF Puts
  <2>2. puts[d] \in Seq(Puts) /\ acks[d] \in Seq(BOOLEAN)
    BY DEF TypeOK
  <2>3. LET q == Append(puts[d], [value |-> FALSE, by |-> Len(stack[d])])
        IN  q \in Seq(Puts) /\ Len(q) = Len(puts[d]) + 1
    BY <2>1, <2>2, AppendProperties
  <2>4. /\ puts' \in [Devices -> Seq(Puts)]
        /\ \A e \in Devices : Len(acks'[e]) <= Len(puts'[e])
    <3>1. Len(puts[d]) \in Nat /\ Len(acks[d]) \in Nat
      BY <2>2, LenProperties
    <3>. QED  BY <1>6, <2>3, <3>1 DEF StopButton, TypeOK
  <2>. QED
    BY <1>6, <2>4, TopFieldType DEF StopButton, TypeOK
<1>7. CASE CloseAlert(d)
  BY <1>7 DEF CloseAlert, TypeOK
<1>8. CASE DoneButton(d)
  <2>1. CASE ShowAlert(d)
    BY <2>1, AlertType
  <2>2. CASE ~ShowAlert(d)
    <3>1. [time |-> None, by |-> Len(stack[d])] \in Writes
      BY TopType DEF Writes
    <3>2. writes[d] \in Seq(Writes)
      BY DEF TypeOK
    <3>3. Append(writes[d], [time |-> None, by |-> Len(stack[d])])
              \in Seq(Writes)
      BY <3>1, <3>2, AppendProperties
    <3>4. writes' \in [Devices -> Seq(Writes)]
      BY <1>8, <2>2, <3>3 DEF DoneButton, TypeOK
    <3>. QED
      BY <1>8, <2>2, <3>4 DEF DoneButton, TypeOK, ui
  <2>. QED  BY <2>1, <2>2
<1>9. CASE SignInFails(d)
  BY <1>9 DEF SignInFails, TypeOK
<1>. QED
  BY <1>1, <1>2, <1>3, <1>4, <1>5, <1>6, <1>7, <1>8, <1>9 DEF UserStep

(* Every completion, answer and animation keeps every variable of its type.*)
LEMMA SystemType ==
    ASSUME TypeOK, NEW d \in Devices, SystemStep(d)
    PROVE  TypeOK'
<1>. USE DEF memory, fire, net, server, ui
<1>. /\ puts[d] \in Seq(Puts) /\ acks[d] \in Seq(BOOLEAN)
     /\ writes[d] \in Seq(Writes) /\ completions[d] \in Seq(Completions)
  BY DEF TypeOK
<1>. /\ Len(puts[d]) \in Nat /\ Len(acks[d]) \in Nat
     /\ Len(acks[d]) <= Len(puts[d])
  BY LenProperties DEF TypeOK
<1>1. ASSUME NEW ok \in BOOLEAN, StartDecided(d, ok)
      PROVE  TypeOK'
  <2>1. /\ Head(writes[d]) \in Writes
        /\ Tail(writes[d]) \in Seq(Writes)
    BY <1>1, HeadTailProperties DEF StartDecided
  <2>2. Head(writes[d]).time \in Times /\ Head(writes[d]).by \in Nat
    BY <1>1, <2>1 DEF Writes, StartDecided
  <2>3. /\ writes' \in [Devices -> Seq(Writes)]
        /\ doc' \in [Devices -> Times \cup {None}]
        /\ refusedStart' \in [Devices -> BOOLEAN]
    BY <1>1, <2>1, <2>2 DEF StartDecided, TypeOK
  <2>4. [value |-> TRUE, by |-> Head(writes[d]).by] \in Puts
    BY <2>2 DEF Puts
  <2>5. LET q == Append(puts[d], [value |-> TRUE, by |-> Head(writes[d]).by])
        IN  q \in Seq(Puts) /\ Len(q) = Len(puts[d]) + 1
    BY <2>4, AppendProperties
  <2>6. /\ puts' \in [Devices -> Seq(Puts)]
        /\ \A e \in Devices : Len(acks'[e]) <= Len(puts'[e])
    <3>1. CASE puts' = puts
      BY <1>1, <3>1 DEF StartDecided, TypeOK
    <3>2. CASE puts' = [puts EXCEPT ![d] =
                   Append(@, [value |-> TRUE, by |-> Head(writes[d]).by])]
      BY <1>1, <2>5, <3>2 DEF StartDecided, TypeOK
    <3>. QED  BY <1>1, <3>1, <3>2 DEF StartDecided
  <2>7. alert' \in [Devices -> BOOLEAN]
    BY <1>1 DEF StartDecided, TypeOK, CanPresent
  <2>. QED
    BY <1>1, <2>3, <2>6, <2>7 DEF StartDecided, TypeOK
<1>2. ASSUME NEW ok \in BOOLEAN, ServerPut(d, ok)
      PROVE  TypeOK'
  <2>1. puts[d][Len(acks[d]) + 1] \in Puts
    BY <1>2, ElementOfSeq DEF ServerPut
  <2>2. puts[d][Len(acks[d]) + 1].value \in BOOLEAN
    BY <2>1 DEF Puts
  <2>3. /\ Append(acks[d], ok) \in Seq(BOOLEAN)
        /\ Len(Append(acks[d], ok)) = Len(acks[d]) + 1
    BY AppendProperties
  <2>4. /\ acks' \in [Devices -> Seq(BOOLEAN)]
        /\ \A e \in Devices : Len(acks'[e]) <= Len(puts'[e])
    BY <1>2, <2>3 DEF ServerPut, TypeOK
  <2>5. inUse' \in BOOLEAN /\ applied' \in [Devices -> BOOLEAN]
    BY <1>2, <2>2 DEF ServerPut, TypeOK
  <2>. QED
    BY <1>2, <2>4, <2>5 DEF ServerPut, TypeOK
<1>3. CASE PutAcked(d)
  <2>1. /\ Head(acks[d]) \in BOOLEAN /\ Tail(acks[d]) \in Seq(BOOLEAN)
        /\ Len(Tail(acks[d])) = Len(acks[d]) - 1
    BY <1>3, HeadTailProperties DEF PutAcked
  <2>2. puts[d] # <<>>
    BY <1>3, EmptySeq DEF PutAcked
  <2>3. /\ Head(puts[d]) \in Puts /\ Tail(puts[d]) \in Seq(Puts)
        /\ Len(Tail(puts[d])) = Len(puts[d]) - 1
    BY <2>2, HeadTailProperties
  <2>4. [value |-> Head(puts[d]).value, by |-> Head(puts[d]).by,
         ok |-> Head(acks[d])] \in Completions
    BY <2>1, <2>3 DEF Puts, Completions
  <2>5. Append(completions[d],
            [value |-> Head(puts[d]).value, by |-> Head(puts[d]).by,
             ok |-> Head(acks[d])]) \in Seq(Completions)
    BY <2>4, AppendProperties
  <2>6. /\ puts' \in [Devices -> Seq(Puts)]
        /\ acks' \in [Devices -> Seq(BOOLEAN)]
        /\ \A e \in Devices : Len(acks'[e]) <= Len(puts'[e])
    BY <1>3, <2>1, <2>3 DEF PutAcked, TypeOK
  <2>7. completions' \in [Devices -> Seq(Completions)]
    BY <1>3, <2>5 DEF PutAcked, TypeOK
  <2>. QED
    BY <1>3, <2>6, <2>7 DEF PutAcked, TypeOK
<1>4. CASE PutCompleted(d)
  <2>1. /\ Head(completions[d]) \in Completions
        /\ Tail(completions[d]) \in Seq(Completions)
    BY <1>4, HeadTailProperties DEF PutCompleted
  <2>2. /\ Head(completions[d]).by \in Nat
        /\ Head(completions[d]).ok \in BOOLEAN
    BY <2>1 DEF Completions
  <2>3. /\ [Fresh("unlock") EXCEPT !.published = Head(completions[d]).ok] \in View
        /\ Fresh("landing") \in View
    BY <2>2, FreshType DEF Screens, View
  <2>4. /\ stack' \in [Devices -> Seq(View)]
        /\ \A e \in Devices : stack'[e] # <<>>
    BY <1>4, <2>2, <2>3, PresentType DEF PutCompleted
  <2>. QED
    BY <1>4, <2>1, <2>4 DEF PutCompleted, TypeOK
<1>5. CASE AnimationDone(d)
  <2>1. [Fresh("status") EXCEPT !.start = startRentTime[d], !.ticking = TRUE,
                                !.published = Top(d).published] \in View
    BY TopType, FreshType DEF Screens, View, TypeOK
  <2>2. /\ stack' \in [Devices -> Seq(View)]
        /\ \A e \in Devices : stack'[e] # <<>>
    BY <1>5, <2>1, TopType, PresentType DEF AnimationDone
  <2>. QED
    BY <1>5, <2>2 DEF AnimationDone, TypeOK
<1>6. CASE Reconnect(d)
  BY <1>6 DEF Reconnect, TypeOK
<1>7. CASE Disconnect(d)
  <2>1. <<>> \in Seq(BOOLEAN) /\ Len(<<>>) = 0
    BY EmptySeq
  <2>. QED
    BY <1>7, <2>1 DEF Disconnect, TypeOK
<1>8. ASSUME NEW ok \in BOOLEAN, CardDecided(d, ok)
      PROVE  TypeOK'
  <2>1. /\ Head(writes[d]) \in Writes
        /\ Tail(writes[d]) \in Seq(Writes)
    BY <1>8, HeadTailProperties DEF CardDecided
  <2>2. Head(writes[d]).by \in Nat
    BY <2>1 DEF Writes
  <2>3. writes' \in [Devices -> Seq(Writes)]
    BY <1>8, <2>1 DEF CardDecided, TypeOK
  <2>4. alert' \in [Devices -> BOOLEAN]
    BY <1>8 DEF CardDecided, TypeOK, CanPresent
  <2>5. /\ stack' \in [Devices -> Seq(View)]
        /\ \A e \in Devices : stack'[e] # <<>>
    <3>1. CASE PresentBy(d, Head(writes[d]).by, Fresh("select"))
      BY <3>1, <2>2, FreshType, PresentType DEF Screens
    <3>2. CASE UNCHANGED stack
      BY <3>2 DEF TypeOK
    <3>. QED  BY <1>8, <3>1, <3>2 DEF CardDecided
  <2>. QED
    BY <1>8, <2>3, <2>4, <2>5 DEF CardDecided, TypeOK
<1>9. CASE LocationUpdated(d)
  BY <1>9, AlertType DEF LocationUpdated
<1>10. ASSUME NEW ok \in BOOLEAN, CreateDone(d) \/ MailDone(d, ok)
       PROVE  TypeOK'
  BY <1>10 DEF CreateDone, MailDone, TypeOK
<1>. QED
  BY <1>1, <1>2, <1>3, <1>4, <1>5, <1>6, <1>7, <1>8, <1>9, <1>10
     DEF SystemStep

(* A restart forgets the completions of Firestore's queue, not its length. *)
LEMMA ForgottenWrites ==
    ASSUME NEW q \in Seq(Writes),
           NEW r, r = [k \in DOMAIN q |-> [q[k] EXCEPT !.by = 0]]
    PROVE  /\ r \in Seq(Writes)
           /\ Len(r) = Len(q)
           /\ \A k \in 1 .. Len(q) : r[k].time = q[k].time /\ r[k].by = 0
<1>1. /\ Len(q) \in Nat /\ DOMAIN q = 1 .. Len(q)
      /\ \A k \in 1 .. Len(q) : q[k] \in Writes
  BY LenProperties, ElementOfSeq
<1>2. \A k \in 1 .. Len(q) :
          /\ [q[k] EXCEPT !.by = 0] \in Writes
          /\ [q[k] EXCEPT !.by = 0].time = q[k].time
          /\ [q[k] EXCEPT !.by = 0].by = 0
  BY <1>1 DEF Writes
<1>3. r \in [1 .. Len(q) -> Writes]
  BY <1>1, <1>2
<1>4. r \in Seq(Writes)
  BY <1>1, <1>3, SeqDef
<1>5. Len(r) = Len(q)
  BY <1>1, <1>3, <1>4, LenProperties
<1>. QED
  BY <1>1, <1>2, <1>4, <1>5

(* A restart leaves every variable of its type.                            *)
LEMMA KillType ==
    ASSUME TypeOK, NEW d \in Devices, Kill(d)
    PROVE  TypeOK'
<1>. USE DEF memory, fire, net, server, ui
<1>1. /\ <<Fresh("login")>> \in Seq(View)
      /\ <<Fresh("login"), Fresh("landing")>> \in Seq(View)
      /\ <<Fresh("login")>> # <<>>
      /\ <<Fresh("login"), Fresh("landing")>> # <<>>
  BY FreshType DEF Screens
<1>2. /\ stack' \in [Devices -> Seq(View)]
      /\ \A e \in Devices : stack'[e] # <<>>
  <2>1. PICK s \in Relaunched(d) : stack' = [stack EXCEPT ![d] = s]
    BY DEF Kill
  <2>2. s \in Seq(View) /\ s # <<>>
    BY <1>1 DEF Relaunched
  <2>. QED
    BY <2>1, <2>2 DEF TypeOK
<1>3. writes' \in [Devices -> Seq(Writes)]
  <2>1. [k \in DOMAIN writes[d] |-> [writes[d][k] EXCEPT !.by = 0]]
            \in Seq(Writes)
    BY ForgottenWrites DEF TypeOK
  <2>. QED  BY <2>1 DEF Kill, TypeOK
<1>4. /\ <<>> \in Seq(Puts) /\ <<>> \in Seq(BOOLEAN)
      /\ <<>> \in Seq(Completions) /\ Len(<<>>) = 0
  BY EmptySeq
<1>5. /\ puts' \in [Devices -> Seq(Puts)]
      /\ acks' \in [Devices -> Seq(BOOLEAN)]
      /\ completions' \in [Devices -> Seq(Completions)]
      /\ \A e \in Devices : Len(acks'[e]) <= Len(puts'[e])
  BY <1>4 DEF Kill, TypeOK
<1>. QED
  BY <1>2, <1>3, <1>5 DEF Kill, TypeOK

(* Every device's state is always of the type the code gives it.           *)
THEOREM TypeCorrect == Spec => []TypeOK
<1>1. Init => TypeOK
  <2>1. <<Fresh("login")>> \in Seq(View) /\ <<Fresh("login")>> # <<>>
    BY FreshType DEF Screens
  <2>2. /\ <<>> \in Seq(Puts) /\ <<>> \in Seq(BOOLEAN) /\ <<>> \in Seq(Writes)
        /\ <<>> \in Seq(Completions) /\ Len(<<>>) = 0
    BY EmptySeq
  <2>3. ASSUME Init
        PROVE  /\ stack \in [Devices -> Seq(View)]
               /\ \A d \in Devices : stack[d] # <<>>
    BY <2>1, <2>3 DEF Init
  <2>4. ASSUME Init
        PROVE  /\ \A d \in Devices : Len(acks[d]) <= Len(puts[d])
               /\ puts \in [Devices -> Seq(Puts)]
               /\ acks \in [Devices -> Seq(BOOLEAN)]
               /\ completions \in [Devices -> Seq(Completions)]
               /\ writes \in [Devices -> Seq(Writes)]
    BY <2>2, <2>4 DEF Init
  <2>5. ASSUME Init
        PROVE  /\ alert \in [Devices -> BOOLEAN]
               /\ session \in [Devices -> BOOLEAN]
               /\ uuid \in [Devices -> BOOLEAN]
               /\ mailing \in [Devices -> BOOLEAN]
               /\ cards \in [Devices -> BOOLEAN]
               /\ conn \in [Devices -> BOOLEAN]
               /\ applied \in [Devices -> BOOLEAN]
               /\ refusedStart \in [Devices -> BOOLEAN]
               /\ inUse \in BOOLEAN
    BY <2>5 DEF Init
  <2>6. ASSUME Init
        PROVE  /\ startRentTime \in [Devices -> Times \cup {None}]
               /\ doc \in [Devices -> Times \cup {None}]
    BY <2>6 DEF Init
  <2>. QED
    BY <2>3, <2>4, <2>5, <2>6 DEF TypeOK
<1>2. TypeOK /\ [Next]_vars => TypeOK'
  <2>. SUFFICES ASSUME TypeOK, [Next]_vars
                PROVE  TypeOK'
    OBVIOUS
  <2>1. CASE Next
    BY <2>1, UserType, SystemType, KillType DEF Next, Running, DoneTraps
  <2>2. CASE UNCHANGED vars
    BY <2>2 DEF vars, ui, memory, fire, net, server, TypeOK
  <2>. QED  BY <2>1, <2>2
<1>. QED
  BY <1>1, <1>2, PTL DEF Spec

-----------------------------------------------------------------------------
(***************************************************************************)
(* The inductive invariant.  A step is a step of one device; what it       *)
(* leaves alone keeps the invariant of every other device.                 *)
(***************************************************************************)
SameCalls(e) ==
    /\ startRentTime'[e] = startRentTime[e]
    /\ writes'[e] = writes[e]
    /\ doc'[e] = doc[e]
    /\ refusedStart'[e] = refusedStart[e]
    /\ puts'[e] = puts[e]
    /\ completions'[e] = completions[e]

Same(e) == stack'[e] = stack[e] /\ SameCalls(e)

(* A device whose pages and calls do not change keeps its part of the      *)
(* inductive invariant.                                                    *)
LEMMA SameKeeps ==
    ASSUME NEW e \in Devices, DeviceInv(e), Same(e)
    PROVE  DeviceInv(e)'
<1>1. \A k : /\ FromSelect(e, k)' <=> FromSelect(e, k)
             /\ FromCard(e, k)' <=> FromCard(e, k)
             /\ FromStopped(e, k)' <=> FromStopped(e, k)
             /\ CodeBelow(e, k)' <=> CodeBelow(e, k)
  BY DEF Same, FromSelect, FromCard, FromStopped, CodeBelow
<1>2. WritesFit(e)' /\ PutsFit(e)' /\ CompletionsFit(e)'
  BY <1>1 DEF DeviceInv, Same, SameCalls, WritesFit, PutsFit, CompletionsFit
<1>3. PagesFit(e)'
  BY <1>1 DEF DeviceInv, Same, PagesFit
<1>4. StartKept(e)'
  BY DEF DeviceInv, Same, SameCalls, StartKept, Riding, Top
<1>5. StartRecorded(e)'
  BY DEF DeviceInv, Same, SameCalls, StartRecorded, Recorded
<1>. QED  BY <1>2, <1>3, <1>4, <1>5 DEF DeviceInv

(* Pages that do not change go on fitting each other.                      *)
LEMMA SamePages ==
    ASSUME NEW d \in Devices, PagesFit(d), stack'[d] = stack[d]
    PROVE  PagesFit(d)'
<1>1. \A k \in 1 .. Len(stack[d]) : CodeBelow(d, k)' <=> CodeBelow(d, k)
  BY DEF CodeBelow
<1>2. \A k \in 1 .. Len(stack[d]) : FromSelect(d, k - 1)' <=> FromSelect(d, k - 1)
  BY DEF FromSelect
<1>. QED  BY <1>1, <1>2 DEF PagesFit

(* A step of one device keeps the inductive invariant of every other one:  *)
(* they share the flag on the server and nothing else.                     *)
LEMMA OtherDevices ==
    ASSUME TypeOK, NEW d \in Devices, NEW e \in Devices, e # d,
           UserStep(d) \/ SystemStep(d) \/ Kill(d)
    PROVE  Same(e)
<1>. USE DEF Same, SameCalls, TypeOK, memory, fire, net, server, ui
<1>1. \A s \in Screens : Open(d, s) => Same(e)
  BY DEF Open, PresentBy, CanPresent
<1>2. ShowAlert(d) => Same(e)
  BY DEF ShowAlert
<1>3. CASE UserStep(d)
  <2>1. CASE SignIn(d)
    BY <2>1 DEF SignIn, PresentBy, CanPresent
  <2>2. CASE \/ RentButton(d) \/ SerialBack(d) \/ PaymentBack(d)
            \/ AddCardRow(d) \/ CardBack(d) \/ ReopenLogin(d)
    BY <2>2, <1>1 DEF RentButton, SerialBack, PaymentBack, AddCardRow,
                      CardBack, ReopenLogin, Screens
  <2>3. CASE \E code \in Codes : NextButton(d, code)
    BY <2>3, <1>1, <1>2 DEF NextButton, Screens
  <2>4. CASE SelectCard(d)
    BY <2>4 DEF SelectCard
  <2>5. CASE \E t \in Times : ConfirmButton(d, t)
    BY <2>5, <1>2 DEF ConfirmButton
  <2>6. CASE StopButton(d)
    BY <2>6 DEF StopButton
  <2>7. CASE CloseAlert(d)
    BY <2>7 DEF CloseAlert
  <2>8. CASE DoneButton(d)
    BY <2>8, <1>2 DEF DoneButton
  <2>9. CASE SignInFails(d)
    BY <2>9 DEF SignInFails
  <2>. QED
    BY <1>3, <2>1, <2>2, <2>3, <2>4, <2>5, <2>6, <2>7, <2>8, <2>9 DEF UserStep
<1>4. CASE SystemStep(d)
  <2>1. ASSUME NEW ok \in BOOLEAN, StartDecided(d, ok)
        PROVE  Same(e)
    BY <2>1 DEF StartDecided
  <2>2. ASSUME NEW ok \in BOOLEAN, ServerPut(d, ok)
        PROVE  Same(e)
    BY <2>2 DEF ServerPut
  <2>3. CASE PutAcked(d)
    BY <2>3 DEF PutAcked
  <2>4. CASE PutCompleted(d)
    BY <2>4 DEF PutCompleted, PresentBy, CanPresent
  <2>5. CASE AnimationDone(d)
    BY <2>5 DEF AnimationDone, PresentBy, CanPresent
  <2>6. CASE Reconnect(d) \/ Disconnect(d)
    BY <2>6 DEF Reconnect, Disconnect
  <2>7. ASSUME NEW ok \in BOOLEAN, CardDecided(d, ok)
        PROVE  Same(e)
    BY <2>7 DEF CardDecided, PresentBy, CanPresent
  <2>8. CASE LocationUpdated(d)
    BY <2>8, <1>2 DEF LocationUpdated
  <2>9. ASSUME NEW ok \in BOOLEAN, CreateDone(d) \/ MailDone(d, ok)
        PROVE  Same(e)
    BY <2>9 DEF CreateDone, MailDone
  <2>. QED
    BY <1>4, <2>1, <2>2, <2>3, <2>4, <2>5, <2>6, <2>7, <2>8, <2>9
       DEF SystemStep
<1>5. CASE Kill(d)
  BY <1>5 DEF Kill
<1>. QED
  BY <1>3, <1>4, <1>5

(* The calls that wait in a device's queues.                               *)
LEMMA EntriesType ==
    ASSUME TypeOK, NEW d \in Devices
    PROVE  /\ Len(writes[d]) \in Nat
           /\ \A k \in 1 .. Len(writes[d]) : writes[d][k] \in Writes
           /\ Len(puts[d]) \in Nat
           /\ \A k \in 1 .. Len(puts[d]) : puts[d][k] \in Puts
           /\ Len(completions[d]) \in Nat
           /\ \A k \in 1 .. Len(completions[d]) :
                  completions[d][k] \in Completions
<1>1. /\ writes[d] \in Seq(Writes) /\ puts[d] \in Seq(Puts)
      /\ completions[d] \in Seq(Completions)
  BY DEF TypeOK
<1>. QED
  BY <1>1, ElementOfSeq, LenProperties

(***************************************************************************)
(* A page put on top of a stack leaves the pages below where they were, so *)
(* outstanding calls still fit.                                            *)
(***************************************************************************)
LEMMA Grows ==
    ASSUME TypeOK, NEW d \in Devices, NEW v \in View,
           stack'[d] = Append(stack[d], v)
    PROVE  /\ Len(stack[d]) \in Nat
           /\ Len(stack'[d]) = Len(stack[d]) + 1
           /\ \A k \in 1 .. Len(stack[d]) : stack'[d][k] = stack[d][k]
           /\ stack'[d][Len(stack[d]) + 1] = v
           /\ Top(d)' = v
           /\ \A k \in Nat : FromSelect(d, k) => FromSelect(d, k)'
           /\ \A k \in Nat : FromCard(d, k) => FromCard(d, k)'
           /\ \A k \in Nat : FromStopped(d, k) => FromStopped(d, k)'
           /\ \A k \in 1 .. Len(stack[d]) : CodeBelow(d, k) => CodeBelow(d, k)'
<1>1. stack[d] \in Seq(View)
  BY DEF TypeOK
<1>2. /\ Len(stack[d]) \in Nat
      /\ Len(stack'[d]) = Len(stack[d]) + 1
      /\ \A k \in 1 .. Len(stack[d]) : stack'[d][k] = stack[d][k]
      /\ stack'[d][Len(stack[d]) + 1] = v
  BY <1>1, AppendProperties, LenProperties
<1>3. ASSUME NEW k \in 1 .. Len(stack[d]), CodeBelow(d, k)
      PROVE  CodeBelow(d, k)'
  <2>1. \A i \in 1 .. k - 1 : stack'[d][i] = stack[d][i]
    BY <1>2
  <2>2. PICK j \in 1 .. k - 1 :
            /\ stack[d][j].screen = "serial"
            /\ \A i \in j + 1 .. k - 1 : stack[d][i].screen \in {"select", "card"}
    BY <1>3 DEF CodeBelow
  <2>3. \A i \in j + 1 .. k - 1 : i \in 1 .. k - 1
    BY <2>2
  <2>. QED
    BY <2>1, <2>2, <2>3 DEF CodeBelow
<1>. QED
  BY <1>2, <1>3 DEF Top, FromSelect, FromCard, FromStopped

(* The pages still fit when the new page may stand on the old top.         *)
LEMMA GrownPagesFit ==
    ASSUME TypeOK, NEW d \in Devices, NEW v \in View,
           stack'[d] = Append(stack[d], v),
           PagesFit(d), ~Top(d).ticking,
           v.ticking => v.screen = "status",
           v.screen \in {"select", "card"} =>
               Top(d).screen \in {"serial", "select", "card"},
           v.screen = "unlock" => FromSelect(d, Len(stack[d])),
           v.screen = "status" => Top(d).screen = "unlock"
    PROVE  PagesFit(d)'
<1>. PICK n \in Nat : n = Len(stack[d])
  BY TopType
<1>1. /\ n > 0 /\ Len(stack'[d]) = n + 1
      /\ \A k \in 1 .. n : stack'[d][k] = stack[d][k]
      /\ stack'[d][n + 1] = v
      /\ \A k \in Nat : FromSelect(d, k) => FromSelect(d, k)'
      /\ \A k \in 1 .. n : CodeBelow(d, k) => CodeBelow(d, k)'
      /\ Top(d) = stack[d][n]
  BY Grows, TopType DEF Top
<1>2. ASSUME NEW k \in 1 .. n
      PROVE  LET w == stack'[d][k] IN
             /\ ~w.ticking
             /\ w.screen \in {"select", "card"} => CodeBelow(d, k)'
             /\ w.screen = "unlock" => k > 1 /\ FromSelect(d, k - 1)'
             /\ w.screen = "status" => k > 1 /\ stack'[d][k - 1].screen = "unlock"
  <2>1. k > 1 => k - 1 \in 1 .. n
    BY <1>1
  <2>. QED
    BY <2>1, <1>1 DEF PagesFit
<1>3. v.screen \in {"select", "card"} => CodeBelow(d, n + 1)'
  <2>. SUFFICES ASSUME v.screen \in {"select", "card"}
                PROVE  CodeBelow(d, n + 1)'
    OBVIOUS
  <2>1. stack'[d][n] = stack[d][n] /\ n \in 1 .. n /\ (n + 1) - 1 = n
    BY <1>1
  <2>2. CASE Top(d).screen = "serial"
    BY <2>1, <2>2, <1>1 DEF CodeBelow
  <2>3. CASE Top(d).screen \in {"select", "card"}
    <3>1. CodeBelow(d, n)'
      BY <2>1, <2>3, <1>1 DEF PagesFit
    <3>2. PICK j \in 1 .. n - 1 :
              /\ stack'[d][j].screen = "serial"
              /\ \A i \in j + 1 .. n - 1 :
                     stack'[d][i].screen \in {"select", "card"}
      BY <3>1 DEF CodeBelow
    <3>3. \A i \in j + 1 .. n : i \in j + 1 .. n - 1 \/ i = n
      BY <3>2
    <3>4. \A i \in j + 1 .. n : stack'[d][i].screen \in {"select", "card"}
      BY <2>1, <2>3, <3>2, <3>3, <1>1
    <3>5. j \in 1 .. n
      BY <3>2
    <3>. QED
      BY <2>1, <3>2, <3>4, <3>5 DEF CodeBelow
  <2>. QED  BY <2>2, <2>3
<1>4. /\ v.screen = "unlock" => FromSelect(d, (n + 1) - 1)'
      /\ v.screen = "status" => stack'[d][(n + 1) - 1].screen = "unlock"
  <2>1. (n + 1) - 1 = n /\ n \in 1 .. n /\ stack'[d][n] = stack[d][n]
    BY <1>1
  <2>2. v.screen = "unlock" => FromSelect(d, (n + 1) - 1)'
    BY <1>1, <2>1 DEF FromSelect
  <2>. QED
    BY <2>1, <2>2, <1>1
<1>5. n + 1 > 1 /\ \A k \in 1 .. n + 1 : k \in 1 .. n \/ k = n + 1
  BY <1>1
<1>. QED
  BY <1>1, <1>2, <1>3, <1>4, <1>5 DEF PagesFit

(* A page opened by the user, or the landing page after a stop.            *)
LEMMA OpenKeeps ==
    ASSUME TypeOK, NEW d \in Devices, DeviceInv(d),
           NEW s \in {"landing", "serial", "select", "card"},
           stack'[d] = Append(stack[d], Fresh(s)),
           s \in {"select", "card"} =>
               Top(d).screen \in {"serial", "select", "card"},
           ~Top(d).ticking, SameCalls(d)
    PROVE  DeviceInv(d)'
<1>1. Fresh(s) \in View
  BY FreshType DEF Screens
<1>2. PagesFit(d)'
  <2>1. ~Fresh(s).ticking /\ Fresh(s).screen = s
    BY DEF Fresh
  <2>. QED
    BY <1>1, <2>1, GrownPagesFit DEF DeviceInv
<1>3. /\ \A k \in 1 .. Len(writes[d]) : writes[d][k].by \in Nat
      /\ \A k \in 1 .. Len(puts[d]) : puts[d][k].by \in Nat
      /\ \A k \in 1 .. Len(completions[d]) : completions[d][k].by \in Nat
  BY EntriesType DEF Writes, Puts, Completions
<1>4. WritesFit(d)' /\ PutsFit(d)' /\ CompletionsFit(d)'
  BY <1>1, <1>3, Grows
     DEF DeviceInv, SameCalls, WritesFit, PutsFit, CompletionsFit
<1>5. StartKept(d)'
  <2>1. Top(d)' = Fresh(s)
    BY <1>1, Grows
  <2>2. ~Fresh(s).ticking /\ Fresh(s).screen # "unlock"
    BY DEF Fresh
  <2>. QED
    BY <2>1, <2>2 DEF DeviceInv, SameCalls, StartKept, Riding
<1>6. StartRecorded(d)'
  BY DEF DeviceInv, SameCalls, StartRecorded, Recorded
<1>. QED
  BY <1>2, <1>4, <1>5, <1>6 DEF DeviceInv

(* Selecting a card, or stopping the timers, changes the top page alone.   *)
LEMMA TopField ==
    ASSUME TypeOK, NEW d \in Devices, NEW v \in View,
           stack'[d] = [stack[d] EXCEPT ![Len(stack[d])] = v]
    PROVE  /\ Len(stack'[d]) = Len(stack[d])
           /\ \A k \in 1 .. Len(stack[d]) :
                  k # Len(stack[d]) => stack'[d][k] = stack[d][k]
           /\ stack'[d][Len(stack[d])] = v
           /\ Top(d)' = v
<1>. PICK n \in Nat : n = Len(stack[d]) /\ n > 0
  BY TopType
<1>1. stack[d] \in Seq(View) /\ n \in 1 .. n
  BY DEF TypeOK
<1>3. /\ Len(stack'[d]) = n
      /\ \A k \in 1 .. n : stack'[d][k] = IF k = n THEN v ELSE stack[d][k]
  BY <1>1, ExceptSeq
<1>. QED
  BY <1>1, <1>3 DEF Top

(* Pages that stay what they are keep their codes and card forms.          *)
LEMMA ScreensKept ==
    ASSUME TypeOK, NEW d \in Devices,
           Len(stack'[d]) = Len(stack[d]),
           \A k \in 1 .. Len(stack[d]) :
               stack'[d][k].screen = stack[d][k].screen
    PROVE  /\ \A k \in Nat : FromCard(d, k) => FromCard(d, k)'
           /\ \A k \in 1 .. Len(stack[d]) : CodeBelow(d, k) => CodeBelow(d, k)'
<1>1. ASSUME NEW k \in 1 .. Len(stack[d]), CodeBelow(d, k)
      PROVE  CodeBelow(d, k)'
  <2>1. \A i \in 1 .. k - 1 : stack'[d][i].screen = stack[d][i].screen
    BY TopType
  <2>2. PICK j \in 1 .. k - 1 :
            /\ stack[d][j].screen = "serial"
            /\ \A i \in j + 1 .. k - 1 : stack[d][i].screen \in {"select", "card"}
    BY <1>1 DEF CodeBelow
  <2>3. \A i \in j + 1 .. k - 1 : i \in 1 .. k - 1
    BY <2>2
  <2>. QED
    BY <2>1, <2>2, <2>3 DEF CodeBelow
<1>. QED
  BY <1>1 DEF FromCard

(* didSelectRowAt: a page gains a card, so what fitted still fits.         *)
LEMMA SelectCardKeeps ==
    ASSUME TypeOK, NEW d \in Devices, DeviceInv(d), SelectCard(d)
    PROVE  DeviceInv(d)'
<1>. PICK n \in Nat : n = Len(stack[d]) /\ n > 0
  BY TopType
<1>. PICK v : v = [Top(d) EXCEPT !.card = TRUE]
  OBVIOUS
<1>0. v \in View
  BY TopType DEF View
<1>1. /\ v.card = TRUE /\ v.screen = "select" /\ Top(d).screen = "select"
      /\ v.ticking = Top(d).ticking /\ v.start = Top(d).start
  BY TopType DEF View, SelectCard, Showing
<1>2. stack'[d] = [stack[d] EXCEPT ![Len(stack[d])] = v]
  BY DEF SelectCard, Top, TypeOK
<1>3. /\ Len(stack'[d]) = n
      /\ \A k \in 1 .. n : k # n => stack'[d][k] = stack[d][k]
      /\ stack'[d][n] = v /\ Top(d)' = v
      /\ Top(d) = stack[d][n]
  <2>1. /\ Len(stack'[d]) = n
        /\ \A k \in 1 .. n : k # n => stack'[d][k] = stack[d][k]
        /\ stack'[d][n] = v /\ Top(d)' = v
    BY <1>0, <1>2, TopField
  <2>2. Top(d) = stack[d][n]
    BY DEF Top
  <2>. QED  BY <2>1, <2>2
<1>4. SameCalls(d)
  BY DEF SelectCard, SameCalls, memory, fire, net
<1>5. /\ \A k \in Nat : FromSelect(d, k) => FromSelect(d, k)'
      /\ \A k \in Nat : FromStopped(d, k) => FromStopped(d, k)'
      /\ \A k \in Nat : FromCard(d, k) => FromCard(d, k)'
      /\ \A k \in 1 .. n : CodeBelow(d, k) => CodeBelow(d, k)'
  <2>1. ASSUME NEW k \in Nat, FromSelect(d, k)
        PROVE  FromSelect(d, k)'
    BY <2>1, <1>1, <1>3 DEF FromSelect
  <2>2. ASSUME NEW k \in Nat, FromStopped(d, k)
        PROVE  FromStopped(d, k)'
    <3>1. k # n
      BY <2>2, <1>1, <1>3 DEF FromStopped
    <3>. QED  BY <2>2, <3>1, <1>3 DEF FromStopped
  <2>3. \A k \in 1 .. n : stack'[d][k].screen = stack[d][k].screen
    BY <1>1, <1>3
  <2>. QED  BY <2>1, <2>2, <2>3, <1>3, ScreensKept
<1>6. PagesFit(d)'
  <2>1. \A k \in 1 .. n : /\ stack'[d][k].screen = stack[d][k].screen
                          /\ stack'[d][k].ticking = stack[d][k].ticking
    BY <1>1, <1>3
  <2>2. \A k \in 1 .. n : k > 1 => k - 1 \in 1 .. n /\ k - 1 \in Nat
    OBVIOUS
  <2>. QED
    BY <2>1, <2>2, <1>3, <1>5 DEF DeviceInv, PagesFit
<1>7. WritesFit(d)' /\ PutsFit(d)' /\ CompletionsFit(d)'
  <2>1. /\ \A k \in 1 .. Len(writes[d]) : writes[d][k].by \in Nat
        /\ \A k \in 1 .. Len(puts[d]) : puts[d][k].by \in Nat
        /\ \A k \in 1 .. Len(completions[d]) : completions[d][k].by \in Nat
    BY EntriesType DEF Writes, Puts, Completions
  <2>. QED
    BY <2>1, <1>4, <1>5
       DEF DeviceInv, SameCalls, WritesFit, PutsFit, CompletionsFit
<1>8. StartKept(d)' /\ StartRecorded(d)'
  BY <1>1, <1>3, <1>4
     DEF DeviceInv, SameCalls, StartKept, StartRecorded, Recorded, Riding
<1>. QED
  BY <1>6, <1>7, <1>8 DEF DeviceInv

(* confirm_button_clicked: the new write belongs to a payment page with a  *)
(* card, and the start time is the one it will record.                     *)
LEMMA ConfirmKeeps ==
    ASSUME TypeOK, NEW d \in Devices, DeviceInv(d), NEW t \in Times,
           ConfirmButton(d, t), ~ShowAlert(d)
    PROVE  DeviceInv(d)'
<1>. DEFINE w == [time |-> t, by |-> Len(stack[d])]
<1>1. /\ Showing(d, "select") /\ Top(d).card
      /\ startRentTime'[d] = t
      /\ writes'[d] = Append(writes[d], w)
      /\ stack' = stack /\ doc' = doc /\ refusedStart' = refusedStart
      /\ puts' = puts /\ completions' = completions
  BY DEF ConfirmButton, TypeOK, ui, net
<1>2. w \in Writes /\ writes[d] \in Seq(Writes)
  BY TopType DEF Writes, TypeOK
<1>3. /\ writes'[d] # <<>>
      /\ Len(writes[d]) \in Nat /\ Len(writes'[d]) = Len(writes[d]) + 1
      /\ \A k \in 1 .. Len(writes[d]) : writes'[d][k] = writes[d][k]
      /\ writes'[d][Len(writes[d]) + 1] = w
  BY <1>1, <1>2, AppendProperties, LenProperties
<1>4. FromSelect(d, Len(stack[d]))
  BY <1>1, TopType DEF FromSelect, Showing, Top
<1>5. t # None
  BY RentalAssumption
<1>6. WritesFit(d)'
  <2>1. \A i : /\ FromSelect(d, i)' <=> FromSelect(d, i)
               /\ FromCard(d, i)' <=> FromCard(d, i)
    BY <1>1 DEF FromSelect, FromCard
  <2>2. ASSUME NEW k \in 1 .. Len(writes'[d])
        PROVE  k \in 1 .. Len(writes[d]) \/ writes'[d][k] = w
    BY <1>3
  <2>. QED  BY <2>1, <2>2, <1>3, <1>4, <1>5 DEF DeviceInv, WritesFit
<1>7. PutsFit(d)' /\ CompletionsFit(d)' /\ PagesFit(d)'
  BY <1>1 DEF DeviceInv, PutsFit, CompletionsFit, PagesFit,
              FromSelect, FromStopped, CodeBelow
<1>8. StartKept(d)'
  BY <1>1, <1>5 DEF StartKept, Riding, Top, Showing
<1>9. StartRecorded(d)'
  <2>1. /\ Len(writes'[d]) \in 1 .. Len(writes'[d])
        /\ writes'[d][Len(writes'[d])].time = t
        /\ \A j \in 1 .. Len(writes'[d]) : ~(j > Len(writes'[d]))
    BY <1>3
  <2>. QED
    BY <2>1, <1>1 DEF StartRecorded, Recorded
<1>. QED
  BY <1>6, <1>7, <1>8, <1>9 DEF DeviceInv

(* saveCardInfo: the new write belongs to a card form, and the last start  *)
(* time among the writes stays the last.                                   *)
LEMMA DoneKeeps ==
    ASSUME TypeOK, NEW d \in Devices, DeviceInv(d),
           DoneButton(d), ~ShowAlert(d)
    PROVE  DeviceInv(d)'
<1>. DEFINE w == [time |-> None, by |-> Len(stack[d])]
<1>1. /\ Showing(d, "card")
      /\ writes'[d] = Append(writes[d], w)
      /\ startRentTime' = startRentTime
      /\ stack' = stack /\ doc' = doc /\ refusedStart' = refusedStart
      /\ puts' = puts /\ completions' = completions
  BY DEF DoneButton, TypeOK, ui, net
<1>2. w \in Writes /\ writes[d] \in Seq(Writes)
  BY TopType DEF Writes, TypeOK
<1>3. /\ Len(writes[d]) \in Nat /\ Len(writes'[d]) = Len(writes[d]) + 1
      /\ \A k \in 1 .. Len(writes[d]) : writes'[d][k] = writes[d][k]
      /\ writes'[d][Len(writes[d]) + 1] = w
  BY <1>1, <1>2, AppendProperties, LenProperties
<1>4. FromCard(d, Len(stack[d]))
  BY <1>1, TopType DEF FromCard, Showing, Top
<1>5. \A k \in 1 .. Len(writes'[d]) :
          \/ k \in 1 .. Len(writes[d]) /\ writes'[d][k] = writes[d][k]
          \/ /\ k = Len(writes[d]) + 1
             /\ writes'[d][k].time = None /\ writes'[d][k].by = Len(stack[d])
  BY <1>3
<1>6. WritesFit(d)'
  BY <1>1, <1>4, <1>5 DEF DeviceInv, WritesFit, FromSelect, FromCard
<1>7. PutsFit(d)' /\ CompletionsFit(d)' /\ PagesFit(d)'
  BY <1>1 DEF DeviceInv, PutsFit, CompletionsFit, PagesFit,
              FromSelect, FromStopped, CodeBelow
<1>8. StartKept(d)'
  BY <1>1, <1>5 DEF DeviceInv, StartKept, Riding, Top
<1>9. StartRecorded(d)'
  <2>. SUFFICES ASSUME NEW t, Recorded(d, t)
                PROVE  Recorded(d, t)'
    BY <1>1 DEF DeviceInv, StartRecorded, Recorded
  <2>1. CASE \E k \in 1 .. Len(writes[d]) :
                /\ writes[d][k].time = t
                /\ \A j \in 1 .. Len(writes[d]) :
                       j > k => writes[d][j].time = None
    <3>1. PICK k \in 1 .. Len(writes[d]) :
              /\ writes[d][k].time = t
              /\ \A j \in 1 .. Len(writes[d]) :
                     j > k => writes[d][j].time = None
      BY <2>1
    <3>2. k \in 1 .. Len(writes'[d]) /\ writes'[d][k].time = t
      BY <3>1, <1>3
    <3>3. \A j \in 1 .. Len(writes'[d]) : j > k => writes'[d][j].time = None
      BY <3>1, <1>5
    <3>. QED  BY <3>2, <3>3 DEF Recorded
  <2>2. CASE /\ \A j \in 1 .. Len(writes[d]) : writes[d][j].time = None
             /\ doc[d] = t \/ refusedStart[d]
    <3>1. \A j \in 1 .. Len(writes'[d]) : writes'[d][j].time = None
      BY <2>2, <1>5
    <3>. QED  BY <2>2, <3>1, <1>1 DEF Recorded
  <2>. QED  BY <2>1, <2>2 DEF Recorded
<1>. QED
  BY <1>6, <1>7, <1>8, <1>9 DEF DeviceInv

(* stop_renting_button_clicked: the new put belongs to a page whose timers *)
(* have stopped.                                                           *)
LEMMA StopKeeps ==
    ASSUME TypeOK, NEW d \in Devices, DeviceInv(d), StopButton(d)
    PROVE  DeviceInv(d)'
<1>. PICK n \in Nat : n = Len(stack[d]) /\ n > 0
  BY TopType
<1>. PICK v : v = [Top(d) EXCEPT !.ticking = FALSE]
  OBVIOUS
<1>0. v \in View
  BY TopType DEF View
<1>1. /\ v.ticking = FALSE /\ v.screen = "status"
      /\ Top(d).screen = "status"
  BY TopType DEF View, StopButton, Showing
<1>2. stack'[d] = [stack[d] EXCEPT ![Len(stack[d])] = v]
  BY DEF StopButton, Top, TypeOK
<1>3. /\ Len(stack'[d]) = n
      /\ \A k \in 1 .. n : k # n => stack'[d][k] = stack[d][k]
      /\ stack'[d][n] = v /\ Top(d)' = v
      /\ Top(d) = stack[d][n]
  <2>1. /\ Len(stack'[d]) = n
        /\ \A k \in 1 .. n : k # n => stack'[d][k] = stack[d][k]
        /\ stack'[d][n] = v /\ Top(d)' = v
    BY <1>0, <1>2, TopField
  <2>2. Top(d) = stack[d][n]
    BY DEF Top
  <2>. QED  BY <2>1, <2>2
<1>4. /\ \A k \in Nat : FromSelect(d, k) => FromSelect(d, k)'
      /\ \A k \in Nat : FromStopped(d, k) => FromStopped(d, k)'
      /\ FromStopped(d, n)'
      /\ \A k \in Nat : FromCard(d, k) => FromCard(d, k)'
      /\ \A k \in 1 .. n : CodeBelow(d, k) => CodeBelow(d, k)'
  <2>1. ASSUME NEW k \in Nat, FromSelect(d, k)
        PROVE  FromSelect(d, k)'
    <3>1. k # n
      BY <2>1, <1>1, <1>3 DEF FromSelect
    <3>. QED  BY <2>1, <3>1, <1>3 DEF FromSelect
  <2>2. ASSUME NEW k \in Nat, FromStopped(d, k)
        PROVE  FromStopped(d, k)'
    BY <2>2, <1>1, <1>3 DEF FromStopped
  <2>3. FromStopped(d, n)'
    BY <1>1, <1>3 DEF FromStopped
  <2>4. \A k \in 1 .. n : stack'[d][k].screen = stack[d][k].screen
    BY <1>1, <1>3
  <2>. QED  BY <2>1, <2>2, <2>3, <2>4, <1>3, ScreensKept
<1>5. /\ puts'[d] = Append(puts[d], [value |-> FALSE, by |-> n])
      /\ writes' = writes /\ completions' = completions
      /\ startRentTime' = startRentTime /\ doc' = doc
      /\ refusedStart' = refusedStart
  BY DEF StopButton, TypeOK, memory, fire
<1>6. PagesFit(d)'
  <2>1. \A k \in 1 .. n : stack'[d][k].screen = stack[d][k].screen
    BY <1>1, <1>3
  <2>2. \A k \in 1 .. n : stack'[d][k].ticking => stack[d][k].ticking
    BY <1>1, <1>3
  <2>3. \A k \in 1 .. n : k > 1 => k - 1 \in 1 .. n /\ k - 1 \in Nat
    OBVIOUS
  <2>4. \A k \in 1 .. n :
            /\ stack[d][k].ticking => stack[d][k].screen = "status" /\ k = n
            /\ stack[d][k].screen \in {"select", "card"} => CodeBelow(d, k)
            /\ stack[d][k].screen = "unlock" => k > 1 /\ FromSelect(d, k - 1)
            /\ stack[d][k].screen = "status" =>
                   k > 1 /\ stack[d][k - 1].screen = "unlock"
    BY <1>3 DEF DeviceInv, PagesFit
  <2>. QED
    BY <2>1, <2>2, <2>3, <2>4, <1>3, <1>4 DEF PagesFit
<1>7. WritesFit(d)' /\ PutsFit(d)' /\ CompletionsFit(d)'
  <2>1. /\ \A k \in 1 .. Len(writes[d]) : writes[d][k].by \in Nat
        /\ \A k \in 1 .. Len(puts[d]) : puts[d][k].by \in Nat
        /\ \A k \in 1 .. Len(completions[d]) : completions[d][k].by \in Nat
    BY EntriesType DEF Writes, Puts, Completions
  <2>2. WritesFit(d)' /\ CompletionsFit(d)'
    BY <2>1, <1>4, <1>5 DEF DeviceInv, WritesFit, CompletionsFit
  <2>3. [value |-> FALSE, by |-> n] \in Puts /\ puts[d] \in Seq(Puts)
    BY DEF Puts, TypeOK
  <2>4. /\ Len(puts[d]) \in Nat /\ Len(puts'[d]) = Len(puts[d]) + 1
        /\ \A k \in 1 .. Len(puts[d]) : puts'[d][k] = puts[d][k]
        /\ puts'[d][Len(puts[d]) + 1] = [value |-> FALSE, by |-> n]
    BY <1>5, <2>3, AppendProperties, LenProperties
  <2>5. \A k \in 1 .. Len(puts'[d]) :
            k \in 1 .. Len(puts[d]) \/ k = Len(puts[d]) + 1
    BY <2>4
  <2>6. PutsFit(d)'
    BY <2>1, <2>4, <2>5, <1>4 DEF DeviceInv, PutsFit
  <2>. QED  BY <2>2, <2>6
<1>8. StartKept(d)'
  <2>1. [value |-> FALSE, by |-> n] \in Puts /\ puts[d] \in Seq(Puts)
    BY DEF Puts, TypeOK
  <2>2. /\ Len(puts[d]) \in Nat /\ Len(puts'[d]) = Len(puts[d]) + 1
        /\ \A k \in 1 .. Len(puts[d]) : puts'[d][k] = puts[d][k]
        /\ puts'[d][Len(puts[d]) + 1] = [value |-> FALSE, by |-> n]
    BY <1>5, <2>1, AppendProperties, LenProperties
  <2>. QED
    BY <2>2, <1>1, <1>3, <1>5 DEF DeviceInv, StartKept, Riding
<1>9. StartRecorded(d)'
  BY <1>5 DEF DeviceInv, StartRecorded, Recorded
<1>. QED
  BY <1>6, <1>7, <1>8, <1>9 DEF DeviceInv

-----------------------------------------------------------------------------
(***************************************************************************)
(* Queues: what joins and what stays.                                      *)
(***************************************************************************)
(* Entries of a queue after an append are the old ones and the new one.    *)
LEMMA Joined ==
    ASSUME NEW S, NEW q \in Seq(S), NEW e \in S
    PROVE  /\ Append(q, e) # <<>>
           /\ Append(q, e)[Len(Append(q, e))] = e
           /\ \A k \in 1 .. Len(Append(q, e)) :
                  \/ k \in 1 .. Len(q) /\ Append(q, e)[k] = q[k]
                  \/ Append(q, e)[k] = e
<1>1. /\ Len(q) \in Nat /\ Append(q, e) # <<>>
      /\ Len(Append(q, e)) = Len(q) + 1
      /\ \A k \in 1 .. Len(q) : Append(q, e)[k] = q[k]
      /\ Append(q, e)[Len(q) + 1] = e
  BY AppendProperties, LenProperties
<1>. QED
  BY <1>1

(* Entries of a queue without its head were entries before, and so was the *)
(* head.                                                                   *)
LEMMA Left ==
    ASSUME NEW S, NEW q \in Seq(S), q # <<>>
    PROVE  /\ Len(q) \in Nat /\ 1 \in 1 .. Len(q) /\ Head(q) = q[1]
           /\ Len(Tail(q)) = Len(q) - 1
           /\ \A k \in 1 .. Len(Tail(q)) :
                  k + 1 \in 1 .. Len(q) /\ Tail(q)[k] = q[k + 1]
<1>1. /\ Len(q) \in Nat /\ Len(q) > 0 /\ Head(q) = q[1]
      /\ Tail(q) \in Seq(S) /\ Len(Tail(q)) = Len(q) - 1
      /\ \A k \in 1 .. Len(Tail(q)) : Tail(q)[k] = q[k + 1]
  BY HeadTailProperties, EmptySeq, LenProperties
<1>. QED
  BY <1>1

(* A start time recorded behind the head is recorded without the head.     *)
LEMMA RecordedLater ==
    ASSUME TypeOK, NEW d \in Devices, writes[d] # <<>>,
           writes'[d] = Tail(writes[d]),
           NEW t, NEW k \in 1 .. Len(writes[d]), k # 1,
           writes[d][k].time = t,
           \A j \in 1 .. Len(writes[d]) : j > k => writes[d][j].time = None
    PROVE  Recorded(d, t)'
<1>1. writes[d] \in Seq(Writes)
  BY DEF TypeOK
<1>2. /\ Len(writes[d]) \in Nat /\ Len(writes'[d]) = Len(writes[d]) - 1
      /\ \A j \in 1 .. Len(writes'[d]) :
             j + 1 \in 1 .. Len(writes[d]) /\ writes'[d][j] = writes[d][j + 1]
  BY <1>1, Left
<1>3. /\ k - 1 \in 1 .. Len(writes'[d]) /\ (k - 1) + 1 = k
      /\ \A j \in 1 .. Len(writes'[d]) : j > k - 1 => j + 1 > k
  BY <1>2
<1>4. writes'[d][k - 1].time = t
  BY <1>2, <1>3
<1>5. \A j \in 1 .. Len(writes'[d]) : j > k - 1 => writes'[d][j].time = None
  BY <1>2, <1>3
<1>. QED
  BY <1>3, <1>4, <1>5 DEF Recorded

(* Firestore's completion hands the write over to storeInUser, under the   *)
(* same payment page.                                                      *)
LEMMA StartDecidedKeeps ==
    ASSUME TypeOK, NEW d \in Devices, DeviceInv(d), NEW ok \in BOOLEAN,
           StartDecided(d, ok)
    PROVE  DeviceInv(d)'
<1>. PICK w : w = Head(writes[d])
  OBVIOUS
<1>. PICK p : p = [value |-> TRUE, by |-> w.by]
  OBVIOUS
<1>1. /\ writes[d] # <<>> /\ writes[d] \in Seq(Writes) /\ puts[d] \in Seq(Puts)
      /\ writes'[d] = Tail(writes[d]) /\ w.time # None
      /\ doc'[d] = IF ok THEN w.time ELSE doc[d]
      /\ refusedStart'[d] = ~ok
      /\ stack' = stack /\ startRentTime' = startRentTime
      /\ completions' = completions
  BY DEF StartDecided, TypeOK, memory
<1>2. \/ w.by = 0 /\ puts'[d] = puts[d]
      \/ w.by # 0 /\ puts'[d] = Append(puts[d], p)
  BY DEF StartDecided, TypeOK
<1>3. /\ Len(writes[d]) \in Nat /\ 1 \in 1 .. Len(writes[d])
      /\ w = writes[d][1] /\ Len(writes'[d]) = Len(writes[d]) - 1
      /\ \A k \in 1 .. Len(writes'[d]) :
             k + 1 \in 1 .. Len(writes[d]) /\ writes'[d][k] = writes[d][k + 1]
  BY <1>1, Left
<1>4. WritesFit(d)'
  <2>1. \A i : /\ FromSelect(d, i)' <=> FromSelect(d, i)
               /\ FromCard(d, i)' <=> FromCard(d, i)
    BY <1>1 DEF FromSelect, FromCard
  <2>. QED  BY <2>1, <1>3 DEF DeviceInv, WritesFit
<1>5. w \in Writes /\ p.value = TRUE /\ p.by = w.by
  BY <1>1, HeadTailProperties
<1>6. p \in Puts
  BY <1>5 DEF Puts, Writes
<1>7. \A k \in 1 .. Len(puts'[d]) :
          \/ k \in 1 .. Len(puts[d]) /\ puts'[d][k] = puts[d][k]
          \/ w.by # 0 /\ puts'[d][k] = p
  <2>1. CASE puts'[d] = puts[d]
    BY <2>1
  <2>2. CASE w.by # 0 /\ puts'[d] = Append(puts[d], p)
    <3>1. \A k \in 1 .. Len(Append(puts[d], p)) :
              \/ k \in 1 .. Len(puts[d]) /\ Append(puts[d], p)[k] = puts[d][k]
              \/ Append(puts[d], p)[k] = p
      BY <1>1, <1>6, Joined
    <3>. QED  BY <2>2, <3>1
  <2>. QED  BY <1>2, <2>1, <2>2
<1>8. w.by # 0 => FromSelect(d, p.by) /\ startRentTime[d] # None
  BY <1>1, <1>3, <1>5 DEF DeviceInv, WritesFit, StartKept
<1>9. PutsFit(d)'
  <2>1. ASSUME NEW k \in 1 .. Len(puts'[d])
        PROVE  IF puts'[d][k].value THEN FromSelect(d, puts'[d][k].by)
                                    ELSE FromStopped(d, puts'[d][k].by)
    <3>1. CASE k \in 1 .. Len(puts[d]) /\ puts'[d][k] = puts[d][k]
      BY <3>1 DEF DeviceInv, PutsFit
    <3>2. CASE w.by # 0 /\ puts'[d][k] = p
      BY <3>2, <1>5, <1>8
    <3>. QED  BY <3>1, <3>2, <1>7
  <2>. QED
    BY <2>1, <1>1 DEF PutsFit, FromSelect, FromStopped
<1>10. CompletionsFit(d)' /\ PagesFit(d)'
  BY <1>1 DEF DeviceInv, CompletionsFit, PagesFit, FromSelect, FromStopped,
              CodeBelow
<1>11. StartKept(d)'
  <2>1. \A k \in 1 .. Len(writes'[d]) :
            writes'[d][k].by # 0 /\ writes'[d][k].time # None =>
                startRentTime[d] # None
    BY <1>3 DEF DeviceInv, StartKept
  <2>2. \A k \in 1 .. Len(puts'[d]) :
            puts'[d][k].value => startRentTime[d] # None
    BY <1>7, <1>8 DEF DeviceInv, StartKept
  <2>. QED
    BY <2>1, <2>2, <1>1 DEF DeviceInv, StartKept, Riding, Top
<1>12. StartRecorded(d)'
  <2>. SUFFICES ASSUME NEW t, Recorded(d, t)
                PROVE  Recorded(d, t)'
    BY <1>1 DEF DeviceInv, StartRecorded, Recorded
  <2>1. PICK k \in 1 .. Len(writes[d]) :
            /\ writes[d][k].time = t
            /\ \A j \in 1 .. Len(writes[d]) : j > k => writes[d][j].time = None
    BY <1>1, <1>3 DEF Recorded
  <2>2. CASE k = 1
    <3>1. \A j \in 1 .. Len(writes'[d]) : writes'[d][j].time = None
      BY <2>1, <2>2, <1>3
    <3>2. doc'[d] = t \/ refusedStart'[d]
      BY <2>1, <2>2, <1>1, <1>3
    <3>. QED  BY <3>1, <3>2 DEF Recorded
  <2>3. CASE k # 1
    BY <2>1, <2>3, <1>1, <1>3, RecordedLater
  <2>. QED  BY <2>2, <2>3
<1>. QED
  BY <1>4, <1>9, <1>10, <1>11, <1>12 DEF DeviceInv

(* A saved card presents a new payment selection over its form, or nothing.*)
LEMMA CardDecidedKeeps ==
    ASSUME TypeOK, NEW d \in Devices, DeviceInv(d), NEW ok \in BOOLEAN,
           CardDecided(d, ok)
    PROVE  DeviceInv(d)'
<1>. PICK w : w = Head(writes[d])
  OBVIOUS
<1>. PICK v : v = Fresh("select")
  OBVIOUS
<1>1. /\ writes[d] # <<>> /\ writes[d] \in Seq(Writes)
      /\ writes'[d] = Tail(writes[d]) /\ w.time = None
      /\ doc' = doc /\ refusedStart' = refusedStart
      /\ startRentTime' = startRentTime
      /\ puts' = puts /\ completions' = completions
  BY DEF CardDecided, TypeOK, memory, net
<1>2. /\ Len(writes[d]) \in Nat /\ 1 \in 1 .. Len(writes[d])
      /\ w = writes[d][1] /\ Len(writes'[d]) = Len(writes[d]) - 1
      /\ \A k \in 1 .. Len(writes'[d]) :
             k + 1 \in 1 .. Len(writes[d]) /\ writes'[d][k] = writes[d][k + 1]
  BY <1>1, Left
<1>3. v \in View /\ v.screen = "select" /\ ~v.ticking
  BY FreshType DEF Screens, Fresh
<1>4. \/ stack'[d] = stack[d]
      \/ /\ stack'[d] = Append(stack[d], v)
         /\ w.by = Len(stack[d])
  BY DEF CardDecided, PresentBy, CanPresent, TypeOK
<1>5. w.by # 0 => FromCard(d, w.by)
  BY <1>1, <1>2 DEF DeviceInv, WritesFit
<1>6. PagesFit(d)'
  <2>1. CASE stack'[d] = stack[d]
    BY <2>1, SamePages DEF DeviceInv
  <2>2. CASE stack'[d] = Append(stack[d], v) /\ w.by = Len(stack[d])
    <3>1. Top(d).screen = "card"
      BY <2>2, <1>5, TopType DEF FromCard, Top
    <3>2. ~Top(d).ticking
      BY <3>1, TopType DEF DeviceInv, PagesFit, Top
    <3>3. v \in View /\ stack'[d] = Append(stack[d], v) /\ PagesFit(d)
      BY <2>2, <1>3 DEF DeviceInv
    <3>. QED
      BY <3>1, <3>2, <3>3, <1>3, GrownPagesFit
  <2>. QED  BY <2>1, <2>2, <1>4
<1>7. /\ \A k \in Nat : FromSelect(d, k) => FromSelect(d, k)'
      /\ \A k \in Nat : FromCard(d, k) => FromCard(d, k)'
      /\ \A k \in Nat : FromStopped(d, k) => FromStopped(d, k)'
  <2>1. CASE stack'[d] = stack[d]
    BY <2>1 DEF FromSelect, FromCard, FromStopped
  <2>2. CASE stack'[d] = Append(stack[d], v)
    BY <2>2, <1>3, Grows
  <2>. QED  BY <2>1, <2>2, <1>4
<1>8. /\ \A k \in 1 .. Len(writes[d]) : writes[d][k].by \in Nat
      /\ \A k \in 1 .. Len(puts[d]) : puts[d][k].by \in Nat
      /\ \A k \in 1 .. Len(completions[d]) : completions[d][k].by \in Nat
  BY EntriesType DEF Writes, Puts, Completions
<1>9. WritesFit(d)'
  BY <1>2, <1>7, <1>8 DEF DeviceInv, WritesFit
<1>10. PutsFit(d)' /\ CompletionsFit(d)'
  BY <1>1, <1>7, <1>8 DEF DeviceInv, PutsFit, CompletionsFit
<1>11. StartKept(d)'
  <2>1. \A k \in 1 .. Len(writes'[d]) :
            writes'[d][k].by # 0 /\ writes'[d][k].time # None =>
                startRentTime[d] # None
    BY <1>2 DEF DeviceInv, StartKept
  <2>2. CASE stack'[d] = stack[d]
    BY <2>1, <2>2, <1>1 DEF DeviceInv, StartKept, Riding, Top
  <2>3. CASE stack'[d] = Append(stack[d], v)
    <3>1. Top(d)' = v
      BY <2>3, <1>3, Grows
    <3>. QED
      BY <2>1, <3>1, <1>1, <1>3 DEF DeviceInv, StartKept, Riding
  <2>. QED  BY <2>2, <2>3, <1>4
<1>12. StartRecorded(d)'
  <2>. SUFFICES ASSUME NEW t, t # None, Recorded(d, t)
                PROVE  Recorded(d, t)'
    BY <1>1 DEF DeviceInv, StartRecorded, Recorded
  <2>1. CASE \E k \in 1 .. Len(writes[d]) :
                /\ writes[d][k].time = t
                /\ \A j \in 1 .. Len(writes[d]) :
                       j > k => writes[d][j].time = None
    <3>1. PICK k \in 1 .. Len(writes[d]) :
              /\ writes[d][k].time = t
              /\ \A j \in 1 .. Len(writes[d]) :
                     j > k => writes[d][j].time = None
      BY <2>1
    <3>2. k # 1
      BY <3>1, <1>1, <1>2
    <3>. QED  BY <3>1, <3>2, <1>1, RecordedLater
  <2>2. CASE /\ \A j \in 1 .. Len(writes[d]) : writes[d][j].time = None
             /\ doc[d] = t \/ refusedStart[d]
    <3>1. \A j \in 1 .. Len(writes'[d]) : writes'[d][j].time = None
      BY <2>2, <1>2
    <3>. QED  BY <2>2, <3>1, <1>1 DEF Recorded
  <2>. QED  BY <2>1, <2>2 DEF Recorded
<1>. QED
  BY <1>6, <1>9, <1>10, <1>11, <1>12 DEF DeviceInv

(* An answered put becomes a completion of the same page.                  *)
LEMMA PutAckedKeeps ==
    ASSUME TypeOK, NEW d \in Devices, DeviceInv(d), PutAcked(d)
    PROVE  DeviceInv(d)'
<1>. PICK p : p = Head(puts[d])
  OBVIOUS
<1>. PICK c : c = [value |-> p.value, by |-> p.by, ok |-> Head(acks[d])]
  OBVIOUS
<1>1. /\ puts[d] \in Seq(Puts) /\ completions[d] \in Seq(Completions)
      /\ acks[d] \in Seq(BOOLEAN) /\ acks[d] # <<>>
      /\ puts'[d] = Tail(puts[d])
      /\ completions'[d] = Append(completions[d], c)
      /\ stack' = stack /\ startRentTime' = startRentTime
      /\ writes' = writes /\ doc' = doc /\ refusedStart' = refusedStart
  BY DEF PutAcked, TypeOK, ui, memory, fire
<1>2. puts[d] # <<>>
  <2>1. Len(acks[d]) <= Len(puts[d])
    BY DEF TypeOK
  <2>. QED  BY <2>1, <1>1, EmptySeq
<1>3. /\ 1 \in 1 .. Len(puts[d]) /\ p = puts[d][1]
      /\ \A k \in 1 .. Len(puts'[d]) :
             k + 1 \in 1 .. Len(puts[d]) /\ puts'[d][k] = puts[d][k + 1]
  BY <1>1, <1>2, Left
<1>4. c.value = p.value /\ c.by = p.by
  OBVIOUS
<1>5. c \in Completions
  <2>1. p \in Puts /\ Head(acks[d]) \in BOOLEAN
    BY <1>1, <1>2, HeadTailProperties
  <2>. QED  BY <2>1 DEF Puts, Completions
<1>6. \A k \in 1 .. Len(completions'[d]) :
          \/ k \in 1 .. Len(completions[d]) /\ completions'[d][k] = completions[d][k]
          \/ completions'[d][k] = c
  BY <1>1, <1>5, Joined
<1>7. PutsFit(d)'
  <2>1. \A i : /\ FromSelect(d, i)' <=> FromSelect(d, i)
               /\ FromStopped(d, i)' <=> FromStopped(d, i)
    BY <1>1 DEF FromSelect, FromStopped
  <2>. QED  BY <2>1, <1>3 DEF DeviceInv, PutsFit
<1>8. /\ IF c.value THEN FromSelect(d, c.by) ELSE FromStopped(d, c.by)
      /\ c.value => startRentTime[d] # None
  BY <1>3, <1>4 DEF DeviceInv, PutsFit, StartKept
<1>9. CompletionsFit(d)'
  <2>1. ASSUME NEW k \in 1 .. Len(completions'[d])
        PROVE  IF completions'[d][k].value
               THEN FromSelect(d, completions'[d][k].by)
               ELSE FromStopped(d, completions'[d][k].by)
    <3>1. CASE /\ k \in 1 .. Len(completions[d])
               /\ completions'[d][k] = completions[d][k]
      BY <3>1 DEF DeviceInv, CompletionsFit
    <3>2. CASE completions'[d][k] = c
      BY <3>2, <1>8
    <3>. QED  BY <3>1, <3>2, <1>6
  <2>. QED
    BY <2>1, <1>1 DEF CompletionsFit, FromSelect, FromStopped
<1>10. WritesFit(d)' /\ PagesFit(d)' /\ StartRecorded(d)'
  BY <1>1 DEF DeviceInv, WritesFit, PagesFit, StartRecorded, Recorded,
              FromSelect, FromCard, CodeBelow
<1>11. StartKept(d)'
  <2>1. \A k \in 1 .. Len(puts'[d]) :
            puts'[d][k].value => startRentTime[d] # None
    BY <1>3 DEF DeviceInv, StartKept
  <2>2. \A k \in 1 .. Len(completions'[d]) :
            completions'[d][k].value => startRentTime[d] # None
    BY <1>6, <1>8 DEF DeviceInv, StartKept
  <2>. QED
    BY <2>1, <2>2, <1>1 DEF DeviceInv, StartKept, Riding, Top
<1>. QED
  BY <1>7, <1>9, <1>10, <1>11 DEF DeviceInv

(* A completed confirmation finds its payment page, or nothing happens.    *)
LEMMA PutCompletedKeeps ==
    ASSUME TypeOK, NEW d \in Devices, DeviceInv(d), PutCompleted(d)
    PROVE  DeviceInv(d)'
<1>. PICK c : c = Head(completions[d])
  OBVIOUS
<1>. PICK v : v = IF c.value
                  THEN [Fresh("unlock") EXCEPT !.published = c.ok]
                  ELSE Fresh("landing")
  OBVIOUS
<1>1. /\ completions[d] \in Seq(Completions) /\ completions[d] # <<>>
      /\ completions'[d] = Tail(completions[d])
      /\ PresentBy(d, c.by, v)
      /\ startRentTime' = startRentTime /\ writes' = writes /\ doc' = doc
      /\ refusedStart' = refusedStart /\ puts' = puts
  BY DEF PutCompleted, TypeOK, memory, fire
<1>2. /\ 1 \in 1 .. Len(completions[d]) /\ c = completions[d][1]
      /\ \A k \in 1 .. Len(completions'[d]) :
             /\ k + 1 \in 1 .. Len(completions[d])
             /\ completions'[d][k] = completions[d][k + 1]
  BY <1>1, Left
<1>3. c \in Completions
  BY <1>1, HeadTailProperties
<1>4. /\ IF c.value THEN FromSelect(d, c.by) ELSE FromStopped(d, c.by)
      /\ c.value => startRentTime[d] # None
  BY <1>2 DEF DeviceInv, CompletionsFit, StartKept
<1>5. /\ v \in View /\ v.ticking = FALSE
      /\ v.screen = IF c.value THEN "unlock" ELSE "landing"
  BY <1>3, FreshType DEF Fresh, View, Completions, Screens
<1>6. \/ stack'[d] = stack[d]
      \/ stack'[d] = Append(stack[d], v) /\ c.by = Len(stack[d])
  BY <1>1 DEF PresentBy, CanPresent, TypeOK
<1>7. PagesFit(d)'
  <2>1. CASE stack'[d] = stack[d]
    BY <2>1, SamePages DEF DeviceInv
  <2>2. CASE stack'[d] = Append(stack[d], v) /\ c.by = Len(stack[d])
    <3>1. ~Top(d).ticking
      BY <2>2, <1>4, TopType
         DEF FromSelect, FromStopped, DeviceInv, PagesFit, Top
    <3>2. v.screen = "unlock" => FromSelect(d, Len(stack[d]))
      BY <2>2, <1>4, <1>5
    <3>3. /\ ~v.ticking /\ v.screen # "status"
          /\ v.screen # "select" /\ v.screen # "card"
      BY <1>5
    <3>4. v \in View /\ stack'[d] = Append(stack[d], v) /\ PagesFit(d)
      BY <2>2, <1>5 DEF DeviceInv
    <3>. QED
      BY <3>1, <3>2, <3>3, <3>4, GrownPagesFit
  <2>. QED  BY <2>1, <2>2, <1>6
<1>8. /\ \A k \in Nat : FromSelect(d, k) => FromSelect(d, k)'
      /\ \A k \in Nat : FromCard(d, k) => FromCard(d, k)'
      /\ \A k \in Nat : FromStopped(d, k) => FromStopped(d, k)'
  <2>1. CASE stack'[d] = stack[d]
    BY <2>1 DEF FromSelect, FromCard, FromStopped
  <2>2. CASE stack'[d] = Append(stack[d], v)
    BY <2>2, <1>5, Grows
  <2>. QED  BY <2>1, <2>2, <1>6
<1>9. /\ \A k \in 1 .. Len(writes[d]) : writes[d][k].by \in Nat
      /\ \A k \in 1 .. Len(puts[d]) : puts[d][k].by \in Nat
      /\ \A k \in 1 .. Len(completions[d]) : completions[d][k].by \in Nat
  BY EntriesType DEF Writes, Puts, Completions
<1>10. WritesFit(d)' /\ PutsFit(d)'
  BY <1>1, <1>8, <1>9 DEF DeviceInv, WritesFit, PutsFit
<1>11. CompletionsFit(d)'
  BY <1>2, <1>8, <1>9 DEF DeviceInv, CompletionsFit
<1>12. StartKept(d)'
  <2>1. \A k \in 1 .. Len(completions'[d]) :
            completions'[d][k].value => startRentTime[d] # None
    BY <1>2 DEF DeviceInv, StartKept
  <2>2. CASE stack'[d] = stack[d]
    BY <2>1, <2>2, <1>1 DEF DeviceInv, StartKept, Riding, Top
  <2>3. CASE stack'[d] = Append(stack[d], v)
    <3>1. Top(d)' = v
      BY <2>3, <1>5, Grows
    <3>2. /\ v.screen # "status"
          /\ v.screen = "unlock" => startRentTime[d] # None
      BY <1>4, <1>5
    <3>. QED
      BY <2>1, <3>1, <3>2, <1>1 DEF DeviceInv, StartKept, Riding
  <2>. QED  BY <2>2, <2>3, <1>6
<1>13. StartRecorded(d)'
  BY <1>1 DEF DeviceInv, StartRecorded, Recorded
<1>. QED
  BY <1>7, <1>10, <1>11, <1>12, <1>13 DEF DeviceInv

(* The status page stands on the unlock page and takes its start time from *)
(* User.instance.                                                          *)
LEMMA AnimationKeeps ==
    ASSUME TypeOK, NEW d \in Devices, DeviceInv(d), AnimationDone(d)
    PROVE  DeviceInv(d)'
<1>. PICK v : v = [Fresh("status") EXCEPT
                      !.start = startRentTime[d], !.ticking = TRUE,
                      !.published = Top(d).published]
  OBVIOUS
<1>1. v \in View
  BY TopType, FreshType DEF Screens, View, TypeOK
<1>2. /\ v.screen = "status" /\ v.ticking = TRUE /\ v.start = startRentTime[d]
      /\ Top(d).screen = "unlock"
  BY DEF Fresh, AnimationDone, Showing
<1>3. stack'[d] = Append(stack[d], v) /\ SameCalls(d)
  BY DEF AnimationDone, Showing, PresentBy, CanPresent, TypeOK, SameCalls,
         memory, fire, net
<1>4. PagesFit(d)'
  <2>1. ~Top(d).ticking
    BY <1>2, TopType DEF DeviceInv, PagesFit, Top
  <2>. QED
    BY <2>1, <1>1, <1>2, <1>3, GrownPagesFit DEF DeviceInv
<1>5. /\ \A k \in Nat : FromSelect(d, k) => FromSelect(d, k)'
      /\ \A k \in Nat : FromCard(d, k) => FromCard(d, k)'
      /\ \A k \in Nat : FromStopped(d, k) => FromStopped(d, k)'
      /\ Top(d)' = v
  BY <1>1, <1>3, Grows
<1>6. /\ \A k \in 1 .. Len(writes[d]) : writes[d][k].by \in Nat
      /\ \A k \in 1 .. Len(puts[d]) : puts[d][k].by \in Nat
      /\ \A k \in 1 .. Len(completions[d]) : completions[d][k].by \in Nat
  BY EntriesType DEF Writes, Puts, Completions
<1>7. WritesFit(d)' /\ PutsFit(d)' /\ CompletionsFit(d)'
  BY <1>3, <1>5, <1>6
     DEF DeviceInv, SameCalls, WritesFit, PutsFit, CompletionsFit
<1>8. StartKept(d)' /\ StartRecorded(d)'
  BY <1>2, <1>3, <1>5
     DEF DeviceInv, SameCalls, StartKept, StartRecorded, Recorded, Riding
<1>. QED
  BY <1>4, <1>7, <1>8 DEF DeviceInv

(* After a restart no call belongs to a page any more.                     *)
LEMMA KillKeeps ==
    ASSUME TypeOK, NEW d \in Devices, DeviceInv(d), Kill(d)
    PROVE  DeviceInv(d)'
<1>1. /\ startRentTime'[d] = None
      /\ puts'[d] = <<>> /\ completions'[d] = <<>>
      /\ writes'[d] = [k \in DOMAIN writes[d] |-> [writes[d][k] EXCEPT !.by = 0]]
  BY DEF Kill, TypeOK
<1>2. \/ stack'[d] = <<Fresh("login")>>
      \/ stack'[d] = <<Fresh("login"), Fresh("landing")>>
  BY DEF Kill, Relaunched, TypeOK
<1>3. /\ \A k \in 1 .. Len(stack'[d]) :
             stack'[d][k].screen \in {"login", "landing"} /\ ~stack'[d][k].ticking
      /\ Len(stack'[d]) \in 1 .. Len(stack'[d])
  <2>1. CASE stack'[d] = <<Fresh("login")>>
    BY <2>1 DEF Fresh
  <2>2. CASE stack'[d] = <<Fresh("login"), Fresh("landing")>>
    BY <2>2 DEF Fresh
  <2>. QED  BY <1>2, <2>1, <2>2
<1>4. \A k \in 1 .. Len(writes'[d]) : writes'[d][k].by = 0
  <2>1. writes[d] \in Seq(Writes)
    BY DEF TypeOK
  <2>2. /\ Len(writes'[d]) = Len(writes[d])
        /\ \A k \in 1 .. Len(writes[d]) : writes'[d][k].by = 0
    BY <1>1, <2>1, ForgottenWrites
  <2>. QED  BY <2>2
<1>5. WritesFit(d)' /\ PutsFit(d)' /\ CompletionsFit(d)'
  BY <1>1, <1>4 DEF WritesFit, PutsFit, CompletionsFit
<1>6. PagesFit(d)'
  BY <1>3 DEF PagesFit
<1>7. StartKept(d)' /\ StartRecorded(d)'
  BY <1>1, <1>3, <1>4 DEF StartKept, StartRecorded, Riding, Top
<1>. QED
  BY <1>5, <1>6, <1>7 DEF DeviceInv

-----------------------------------------------------------------------------
(* Every step of the user keeps the inductive invariant of its device.     *)
LEMMA UserKeeps ==
    ASSUME TypeOK, NEW d \in Devices, DeviceInv(d), UserStep(d)
    PROVE  DeviceInv(d)'
<1>. USE DEF memory, fire, net, server, ui
<1>1. ASSUME NEW s \in {"landing", "serial", "select", "card"}, Open(d, s),
             ~alert[d],
             Top(d).screen \in {"landing", "serial", "select", "card"},
             s \in {"select", "card"} =>
                 Top(d).screen \in {"serial", "select", "card"}
      PROVE  DeviceInv(d)'
  <2>1. ~Top(d).ticking
    BY <1>1, TopType DEF DeviceInv, PagesFit, Top
  <2>2. stack'[d] = Append(stack[d], Fresh(s)) /\ SameCalls(d)
    BY <1>1 DEF Open, PresentBy, CanPresent, SameCalls, TypeOK
  <2>. QED
    BY <1>1, <2>1, <2>2, OpenKeeps
<1>2. CASE ShowAlert(d)
  BY <1>2, SameKeeps DEF ShowAlert, Same, SameCalls
<1>3. CASE SignIn(d)
  <2>1. ~Top(d).ticking
    BY <1>3, TopType DEF DeviceInv, PagesFit, Top, SignIn, Showing
  <2>2. stack'[d] = Append(stack[d], Fresh("landing")) /\ SameCalls(d)
    BY <1>3 DEF SignIn, Showing, PresentBy, CanPresent, SameCalls, TypeOK
  <2>. QED
    BY <2>1, <2>2, OpenKeeps
<1>4. CASE \/ RentButton(d) \/ SerialBack(d) \/ PaymentBack(d)
          \/ AddCardRow(d) \/ CardBack(d)
  BY <1>4, <1>1 DEF RentButton, SerialBack, PaymentBack, AddCardRow, CardBack,
                    Showing
<1>5. ASSUME NEW code \in Codes, NextButton(d, code)
      PROVE  DeviceInv(d)'
  BY <1>5, <1>1, <1>2 DEF NextButton, Showing
<1>6. CASE SelectCard(d)
  BY <1>6, SelectCardKeeps
<1>7. ASSUME NEW t \in Times, ConfirmButton(d, t)
      PROVE  DeviceInv(d)'
  BY <1>7, <1>2, ConfirmKeeps
<1>8. CASE StopButton(d)
  BY <1>8, StopKeeps
<1>9. CASE CloseAlert(d)
  BY <1>9, SameKeeps DEF CloseAlert, Same, SameCalls
<1>10. CASE DoneButton(d)
  BY <1>10, <1>2, DoneKeeps
<1>11. CASE SignInFails(d)
  BY <1>11, SameKeeps DEF SignInFails, Same, SameCalls
<1>12. CASE ReopenLogin(d)
  <2>1. ~Top(d).ticking
    BY <1>12, TopType DEF DeviceInv, PagesFit, Top, ReopenLogin, Showing
  <2>2. stack'[d] = Append(stack[d], Fresh("landing")) /\ SameCalls(d)
    BY <1>12 DEF ReopenLogin, Showing, Open, PresentBy, CanPresent, SameCalls,
                 TypeOK
  <2>. QED
    BY <2>1, <2>2, OpenKeeps
<1>. QED
  BY <1>3, <1>4, <1>5, <1>6, <1>7, <1>8, <1>9, <1>10, <1>11, <1>12
     DEF UserStep

(* Every step of the system keeps the inductive invariant of its device.   *)
LEMMA SystemKeeps ==
    ASSUME TypeOK, NEW d \in Devices, DeviceInv(d), SystemStep(d)
    PROVE  DeviceInv(d)'
<1>. USE DEF memory, fire, net, server, ui
<1>1. ASSUME NEW ok \in BOOLEAN, StartDecided(d, ok)
      PROVE  DeviceInv(d)'
  BY <1>1, StartDecidedKeeps
<1>2. ASSUME NEW ok \in BOOLEAN, ServerPut(d, ok)
      PROVE  DeviceInv(d)'
  BY <1>2, SameKeeps DEF ServerPut, Same, SameCalls
<1>3. CASE PutAcked(d)
  BY <1>3, PutAckedKeeps
<1>4. CASE PutCompleted(d)
  BY <1>4, PutCompletedKeeps
<1>5. CASE AnimationDone(d)
  BY <1>5, AnimationKeeps
<1>6. CASE Reconnect(d) \/ Disconnect(d)
  BY <1>6, SameKeeps DEF Reconnect, Disconnect, Same, SameCalls
<1>7. ASSUME NEW ok \in BOOLEAN, CardDecided(d, ok)
      PROVE  DeviceInv(d)'
  BY <1>7, CardDecidedKeeps
<1>8. CASE LocationUpdated(d)
  BY <1>8, SameKeeps DEF LocationUpdated, ShowAlert, Same, SameCalls
<1>9. ASSUME NEW ok \in BOOLEAN, CreateDone(d) \/ MailDone(d, ok)
      PROVE  DeviceInv(d)'
  BY <1>9, SameKeeps DEF CreateDone, MailDone, Same, SameCalls
<1>. QED
  BY <1>1, <1>2, <1>3, <1>4, <1>5, <1>6, <1>7, <1>8, <1>9 DEF SystemStep

(* At launch nothing is outstanding and only the login page is shown.      *)
LEMMA InitKeeps ==
    ASSUME Init
    PROVE  RentalInv
<1>. SUFFICES ASSUME NEW d \in Devices
              PROVE  DeviceInv(d)
  BY DEF RentalInv
<1>1. /\ stack[d] = <<Fresh("login")>> /\ startRentTime[d] = None
      /\ writes[d] = <<>> /\ puts[d] = <<>> /\ completions[d] = <<>>
  BY DEF Init
<1>2. Len(stack[d]) = 1 /\ stack[d][1] = Fresh("login")
  BY <1>1
<1>3. Fresh("login").screen = "login" /\ Fresh("login").ticking = FALSE
  BY DEF Fresh
<1>4. WritesFit(d) /\ PutsFit(d) /\ CompletionsFit(d)
  BY <1>1 DEF WritesFit, PutsFit, CompletionsFit
<1>5. PagesFit(d)
  BY <1>2, <1>3 DEF PagesFit
<1>6. StartKept(d) /\ StartRecorded(d)
  BY <1>1, <1>2, <1>3 DEF StartKept, StartRecorded, Riding, Top
<1>. QED
  BY <1>4, <1>5, <1>6 DEF DeviceInv

(* Every outstanding call fits the page that made it, and every page fits  *)
(* the page below: the inductive invariant of the rental flow.             *)
THEOREM RentalInvariant == Spec => []RentalInv
<1>1. TypeOK /\ RentalInv /\ [Next]_vars => RentalInv'
  <2>. SUFFICES ASSUME TypeOK, RentalInv, [Next]_vars, NEW e \in Devices
                PROVE  DeviceInv(e)'
    BY DEF RentalInv
  <2>. DeviceInv(e)
    BY DEF RentalInv
  <2>1. ASSUME NEW d \in Devices, UserStep(d) \/ SystemStep(d) \/ Kill(d)
        PROVE  DeviceInv(e)'
    <3>1. CASE d = e
      BY <2>1, <3>1, UserKeeps, SystemKeeps, KillKeeps
    <3>2. CASE d # e
      BY <2>1, <3>2, OtherDevices, SameKeeps
    <3>. QED  BY <3>1, <3>2
  <2>2. CASE UNCHANGED vars
    BY <2>2, SameKeeps DEF vars, ui, memory, fire, net, server, Same, SameCalls
  <2>. QED
    BY <2>1, <2>2 DEF Next, Running, DoneTraps
<1>. QED
  BY <1>1, InitKeeps, TypeCorrect, PTL DEF Spec

(* When the unlock animation ends the start time is never nil.             *)
THEOREM StartIsKnown == Spec => []StartKnownAtUnlock
<1>1. RentalInv => StartKnownAtUnlock
  BY DEF RentalInv, DeviceInv, StartKept, StartKnownAtUnlock
<1>. QED
  BY <1>1, RentalInvariant, PTL

(* Only the page in front keeps its timers.                                *)
THEOREM OnlyTopPageTicks == Spec => []OnlyTopTicks
<1>1. RentalInv => OnlyTopTicks
  BY DEF RentalInv, DeviceInv, PagesFit, OnlyTopTicks
<1>. QED
  BY <1>1, RentalInvariant, PTL

(* The status page stands on an unlocked umbrella, a card and a code.      *)
THEOREM RideIsEarned == Spec => []RideNeedsCodeAndCard
<1>1. TypeOK /\ RentalInv => RideNeedsCodeAndCard
  <2>. SUFFICES ASSUME TypeOK, RentalInv, NEW d \in Devices,
                       NEW k \in 1 .. Len(stack[d])
                PROVE  /\ stack[d][k].screen = "status" =>
                              k > 1 /\ stack[d][k - 1].screen = "unlock"
                       /\ stack[d][k].screen = "unlock" =>
                              /\ k > 1
                              /\ stack[d][k - 1].screen = "select"
                              /\ stack[d][k - 1].card
                              /\ CodeBelow(d, k - 1)
    BY DEF RideNeedsCodeAndCard
  <2>1. PagesFit(d)
    BY DEF RentalInv, DeviceInv
  <2>2. CASE stack[d][k].screen = "status"
    BY <2>1, <2>2 DEF PagesFit
  <2>3. CASE stack[d][k].screen = "unlock"
    <3>1. k > 1 /\ FromSelect(d, k - 1)
      BY <2>1, <2>3 DEF PagesFit
    <3>2. /\ k - 1 \in 1 .. Len(stack[d]) /\ stack[d][k - 1].screen = "select"
          /\ stack[d][k - 1].card
      BY <3>1 DEF FromSelect
    <3>3. CodeBelow(d, k - 1)
      BY <2>1, <3>2 DEF PagesFit
    <3>. QED
      BY <2>3, <3>1, <3>2, <3>3
  <2>. QED  BY <2>2, <2>3
<1>. QED
  BY <1>1, TypeCorrect, RentalInvariant, PTL

(* The running rental counts from the recorded start time.                 *)
THEOREM BilledFromRecord == Spec => []BilledFromRecordedStart
<1>1. RentalInv => BilledFromRecordedStart
  BY DEF RentalInv, DeviceInv, StartKept, StartRecorded, Recorded,
         BilledFromRecordedStart
<1>. QED
  BY <1>1, RentalInvariant, PTL

-----------------------------------------------------------------------------
(***************************************************************************)
(* Who is past the login page.  Nothing is presented over the login page   *)
(* except by a login or by a login page that finds a session: a late       *)
(* completion belongs to a payment page, a card form or a stopped status   *)
(* page.                                                                   *)
(***************************************************************************)
LEMMA LoginStays ==
    ASSUME TypeOK, NEW d \in Devices, DeviceInv(d), Top(d).screen = "login",
           UserStep(d) \/ SystemStep(d)
    PROVE  SignIn(d) \/ ReopenLogin(d) \/ stack'[d] = stack[d]
<1>. SUFFICES ASSUME ~SignIn(d), ~ReopenLogin(d)
              PROVE  stack'[d] = stack[d]
  OBVIOUS
<1>. USE DEF ui
<1>1. ASSUME NEW s \in Screens, Showing(d, s)
      PROVE  s = "login"
  BY <1>1 DEF Showing
<1>2. CASE UserStep(d)
  <2>1. \/ CloseAlert(d)
        \/ SignInFails(d)
        \/ \E s \in Screens : Showing(d, s) /\ s # "login"
    BY <1>2 DEF UserStep, RentButton, NextButton, SerialBack, PaymentBack,
                AddCardRow, CardBack, DoneButton, SelectCard, ConfirmButton,
                StopButton, Screens
  <2>. QED
    BY <2>1, <1>1 DEF CloseAlert, SignInFails
<1>3. CASE SystemStep(d)
  <2>1. ASSUME NEW ok \in BOOLEAN, CardDecided(d, ok)
        PROVE  stack'[d] = stack[d]
    <3>. PICK w : w = Head(writes[d])
      OBVIOUS
    <3>1. /\ writes[d] \in Seq(Writes) /\ writes[d] # <<>> /\ w.time = None
          /\ stack'[d] = stack[d] \/ w.by = Len(stack[d])
      BY <2>1 DEF CardDecided, PresentBy, CanPresent, TypeOK
    <3>2. 1 \in 1 .. Len(writes[d]) /\ w = writes[d][1]
      BY <3>1, Left
    <3>3. w.by # 0 => FromCard(d, w.by)
      BY <3>1, <3>2 DEF DeviceInv, WritesFit
    <3>. QED
      BY <3>1, <3>3, TopType DEF FromCard, Top
  <2>2. CASE PutCompleted(d)
    <3>. PICK c : c = Head(completions[d])
      OBVIOUS
    <3>1. /\ completions[d] \in Seq(Completions) /\ completions[d] # <<>>
          /\ stack'[d] = stack[d] \/ c.by = Len(stack[d])
      BY <2>2 DEF PutCompleted, PresentBy, CanPresent, TypeOK
    <3>2. 1 \in 1 .. Len(completions[d]) /\ c = completions[d][1]
      BY <3>1, Left
    <3>3. IF c.value THEN FromSelect(d, c.by) ELSE FromStopped(d, c.by)
      BY <3>2 DEF DeviceInv, CompletionsFit
    <3>. QED
      BY <3>1, <3>3 DEF FromSelect, FromStopped, Top
  <2>3. CASE AnimationDone(d) \/ LocationUpdated(d)
    BY <2>3 DEF AnimationDone, LocationUpdated, Showing
  <2>4. CASE PutAcked(d) \/ Reconnect(d) \/ Disconnect(d)
    BY <2>4 DEF PutAcked, Reconnect, Disconnect
  <2>5. ASSUME NEW ok \in BOOLEAN, StartDecided(d, ok) \/ ServerPut(d, ok)
        PROVE  stack'[d] = stack[d]
    BY <2>5 DEF StartDecided, ServerPut
  <2>6. ASSUME NEW ok \in BOOLEAN, CreateDone(d) \/ MailDone(d, ok)
        PROVE  stack'[d] = stack[d]
    BY <2>6 DEF CreateDone, MailDone
  <2>. QED
    BY <1>3, <2>1, <2>2, <2>3, <2>4, <2>5, <2>6 DEF SystemStep
<1>. QED  BY <1>2, <1>3

(***************************************************************************)
(* While the app runs, a session and a uuid, once there, stay; a session   *)
(* comes with a login, good or bad, or with the answer to a sign-up.       *)
(***************************************************************************)
KeepsMemory(d) == session' = session /\ uuid' = uuid

LEMMA MemoryKept ==
    ASSUME TypeOK, NEW d \in Devices, NEW e \in Devices,
           UserStep(d) \/ SystemStep(d)
    PROVE  /\ session[e] => session'[e]
           /\ uuid[e] => uuid'[e]
           /\ \/ session'[e] = session[e]
              \/ d = e /\ (SignIn(d) \/ SignInFails(d) \/ CreateDone(d))
           /\ d = e /\ SignIn(d) => session'[e] /\ uuid'[e]
<1>. USE DEF memory, KeepsMemory
<1>1. ASSUME NEW s, Open(d, s)
      PROVE  KeepsMemory(d)
  BY <1>1 DEF Open
<1>2. ShowAlert(d) => KeepsMemory(d)
  BY DEF ShowAlert
<1>3. ASSUME UserStep(d), ~SignIn(d), ~SignInFails(d)
      PROVE  KeepsMemory(d)
  <2>1. CASE \/ RentButton(d) \/ SerialBack(d) \/ PaymentBack(d)
            \/ AddCardRow(d) \/ CardBack(d) \/ ReopenLogin(d)
    BY <2>1, <1>1 DEF RentButton, SerialBack, PaymentBack, AddCardRow,
                      CardBack, ReopenLogin
  <2>2. ASSUME NEW code \in Codes, NextButton(d, code)
        PROVE  KeepsMemory(d)
    BY <2>2, <1>1, <1>2 DEF NextButton
  <2>3. ASSUME NEW t \in Times, ConfirmButton(d, t)
        PROVE  KeepsMemory(d)
    BY <2>3, <1>2 DEF ConfirmButton
  <2>4. CASE DoneButton(d)
    BY <2>4, <1>2 DEF DoneButton
  <2>5. CASE SelectCard(d) \/ StopButton(d) \/ CloseAlert(d)
    BY <2>5 DEF SelectCard, StopButton, CloseAlert
  <2>. QED
    BY <1>3, <2>1, <2>2, <2>3, <2>4, <2>5 DEF UserStep
<1>4. ASSUME SystemStep(d),
             ~CreateDone(d), \A ok \in BOOLEAN : ~MailDone(d, ok)
      PROVE  KeepsMemory(d)
  <2>1. ASSUME NEW ok \in BOOLEAN,
               StartDecided(d, ok) \/ CardDecided(d, ok) \/ ServerPut(d, ok)
        PROVE  KeepsMemory(d)
    BY <2>1 DEF StartDecided, CardDecided, ServerPut
  <2>2. CASE PutAcked(d) \/ PutCompleted(d) \/ AnimationDone(d)
    BY <2>2 DEF PutAcked, PutCompleted, AnimationDone
  <2>3. CASE LocationUpdated(d) \/ Reconnect(d) \/ Disconnect(d)
    BY <2>3, <1>2 DEF LocationUpdated, Reconnect, Disconnect
  <2>. QED
    BY <1>4, <2>1, <2>2, <2>3 DEF SystemStep
<1>5. CASE SignIn(d)
  BY <1>5 DEF SignIn, TypeOK
<1>6. CASE SignInFails(d)
  BY <1>6 DEF SignInFails, SignIn, TypeOK
<1>7. CASE CreateDone(d)
  BY <1>7 DEF CreateDone, SignIn, TypeOK
<1>8. ASSUME NEW ok \in BOOLEAN, MailDone(d, ok)
      PROVE  /\ session' = session
             /\ uuid[e] => uuid'[e]
             /\ ~SignIn(d)
  BY <1>8 DEF MailDone, SignIn, TypeOK
<1>. QED  BY <1>3, <1>4, <1>5, <1>6, <1>7, <1>8

(***************************************************************************)
(* The least that being past the login page means: somebody is signed in.  *)
(***************************************************************************)
PastLoginMeansSession ==
    \A d \in Devices : Top(d).screen # "login" => session[d]

SessionOf(d) == Top(d).screen # "login" => session[d]

LEMMA SessionKept ==
    ASSUME TypeOK, RentalInv, PastLoginMeansSession, NEW d \in Devices,
           UserStep(d) \/ SystemStep(d) \/ Kill(d)
    PROVE  PastLoginMeansSession'
<1>. SUFFICES ASSUME NEW e \in Devices
              PROVE  SessionOf(e)'
  BY DEF PastLoginMeansSession, SessionOf
<1>0. SessionOf(e) /\ DeviceInv(e)
  BY DEF PastLoginMeansSession, SessionOf, RentalInv
<1>1. CASE Kill(d) /\ d = e
  <2>1. session'[e] = session[e] /\ stack'[e] \in Relaunched(e)
    BY <1>1 DEF Kill, TypeOK
  <2>2. CASE session[e]
    BY <2>1, <2>2 DEF SessionOf
  <2>3. CASE ~session[e]
    BY <2>1, <2>3 DEF Relaunched, SessionOf, Top, Fresh
  <2>. QED  BY <2>2, <2>3
<1>2. CASE Kill(d) /\ d # e
  BY <1>0, <1>2 DEF Kill, TypeOK, SessionOf, Top
<1>3. CASE (UserStep(d) \/ SystemStep(d)) /\ d # e
  <2>1. stack'[e] = stack[e] /\ (session[e] => session'[e])
    BY <1>3, OtherDevices, MemoryKept DEF Same
  <2>. QED  BY <1>0, <2>1 DEF SessionOf, Top
<1>4. CASE (UserStep(d) \/ SystemStep(d)) /\ d = e
  <2>1. session[e] => session'[e]
    BY <1>4, MemoryKept
  <2>2. CASE SignIn(d)
    BY <1>4, <2>2, MemoryKept DEF SessionOf
  <2>3. CASE ReopenLogin(d)
    BY <1>4, <2>1, <2>3 DEF ReopenLogin, SessionOf
  <2>4. CASE ~SignIn(d) /\ ~ReopenLogin(d)
    <3>1. Top(e).screen = "login" => stack'[e] = stack[e]
      BY <1>0, <1>4, <2>4, LoginStays
    <3>. QED  BY <1>0, <2>1, <3>1 DEF SessionOf, Top
  <2>. QED  BY <2>2, <2>3, <2>4
<1>. QED  BY <1>1, <1>2, <1>3, <1>4

(* Whoever is past the login page has a session, whatever failed, was      *)
(* restarted or was answered late before: no late answer ever presents a   *)
(* page over the login page (ViewController.log_in_button_clicked,         *)
(* viewDidLoad).                                                           *)
THEOREM OnlySessionsPassLogin == Spec => []PastLoginMeansSession
<1>1. Init => PastLoginMeansSession
  BY DEF Init, PastLoginMeansSession, Top, Fresh
<1>2. TypeOK /\ RentalInv /\ PastLoginMeansSession /\ [Next]_vars
      => PastLoginMeansSession'
  <2>. SUFFICES ASSUME TypeOK, RentalInv, PastLoginMeansSession, [Next]_vars
                PROVE  PastLoginMeansSession'
    OBVIOUS
  <2>1. ASSUME NEW d \in Devices, UserStep(d) \/ SystemStep(d) \/ Kill(d)
        PROVE  PastLoginMeansSession'
    BY <2>1, SessionKept
  <2>2. CASE UNCHANGED vars
    BY <2>2 DEF vars, ui, memory, PastLoginMeansSession, Top
  <2>. QED
    BY <2>1, <2>2 DEF Next, Running, DoneTraps
<1>. QED
  BY <1>1, <1>2, TypeCorrect, RentalInvariant, PTL DEF Spec

(***************************************************************************)
(* The three steps after which a session may be without a uuid: a restart, *)
(* a login that fails after signing in, and a sign-up whose mail is not    *)
(* answered yet.                                                           *)
(***************************************************************************)
LosesUuid(d) == Kill(d) \/ SignInFails(d) \/ CreateDone(d)

SessionsKnown == \A d \in Devices : session[d] => uuid[d]

(* Unless one of these three happens, whoever is past the login page is a  *)
(* user the app knows (Authenticate.register_user, authenticate_user_login *)
(* and ViewController.viewDidLoad hold all the ways round the uuid).       *)
THEOREM ThreeWaysToLoseUuid ==
    Spec /\ [][\A d \in Devices : ~LosesUuid(d)]_vars => []PastLoginMeansKnown
<1>1. Init => SessionsKnown
  BY DEF Init, SessionsKnown
<1>2. TypeOK /\ SessionsKnown /\ [Next]_vars
         /\ [\A d \in Devices : ~LosesUuid(d)]_vars
      => SessionsKnown'
  <2>. SUFFICES ASSUME TypeOK, SessionsKnown, [Next]_vars,
                       [\A d \in Devices : ~LosesUuid(d)]_vars,
                       NEW e \in Devices
                PROVE  (session[e] => uuid[e])'
    BY DEF SessionsKnown
  <2>0. session[e] => uuid[e]
    BY DEF SessionsKnown
  <2>1. CASE UNCHANGED vars
    BY <2>0, <2>1 DEF vars, memory
  <2>2. CASE Next /\ \A d \in Devices : ~LosesUuid(d)
    <3>1. PICK d \in Devices : UserStep(d) \/ SystemStep(d)
      BY <2>2 DEF Next, Running, DoneTraps, LosesUuid
    <3>2. ~SignInFails(d) /\ ~CreateDone(d)
      BY <2>2 DEF LosesUuid
    <3>. QED
      BY <2>0, <3>1, <3>2, MemoryKept
  <2>. QED  BY <2>1, <2>2
<1>3. SessionsKnown /\ PastLoginMeansSession => PastLoginMeansKnown
  BY DEF SessionsKnown, PastLoginMeansSession, PastLoginMeansKnown
<1>. QED
  BY <1>1, <1>2, <1>3, TypeCorrect, OnlySessionsPassLogin, PTL DEF Spec
=============================================================================
