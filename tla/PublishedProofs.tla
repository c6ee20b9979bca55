---------------------------- MODULE PublishedProofs ----------------------------
(***************************************************************************)
(* A running rental that was accepted stays published, and the rental flow *)
(* implements its contract: theorems about Rental, for every set of        *)
(* devices and times.                                                      *)
(***************************************************************************)
EXTENDS RentalProofs

(* The device unlocks or runs a rental whose flag the server accepted.     *)
Honouring(d) == (Top(d).screen = "unlock" \/ Riding(d)) /\ Top(d).published

HonouringKept(d) == Honouring(d) => applied[d] /\ ~StopsPending(d)

(* A stop behind a confirmation was made by a page above the payment page  *)
(* of that confirmation.                                                   *)
StopsAbove(d) ==
    /\ \A i, j \in 1 .. Len(completions[d]) :
           i < j /\ completions[d][i].value /\ ~completions[d][j].value =>
               completions[d][i].by < completions[d][j].by
    /\ \A i \in 1 .. Len(completions[d]), j \in 1 .. Len(puts[d]) :
           completions[d][i].value /\ ~puts[d][j].value =>
               completions[d][i].by < puts[d][j].by
    /\ \A i, j \in 1 .. Len(puts[d]) :
           i < j /\ puts[d][i].value /\ ~puts[d][j].value =>
               puts[d][i].by < puts[d][j].by

(* When the flag is down, a stop follows every confirmation that raised it.*)
StopBehindCompletion(d, i) ==
    \/ \E j \in 1 .. Len(completions[d]) : i < j /\ ~completions[d][j].value
    \/ \E j \in 1 .. Len(puts[d]) : ~puts[d][j].value

StopBehindPut(d, i) ==
    \E j \in 1 .. Len(puts[d]) : i < j /\ ~puts[d][j].value

AnswersKept(d) ==
    ~applied[d] =>
        /\ \A i \in 1 .. Len(completions[d]) :
               completions[d][i].value /\ completions[d][i].ok =>
                   StopBehindCompletion(d, i)
        /\ \A i \in 1 .. Len(acks[d]) :
               puts[d][i].value /\ acks[d][i] => StopBehindPut(d, i)

PublishedOf(d) == HonouringKept(d) /\ StopsAbove(d) /\ AnswersKept(d)

(* The inductive invariant, beside RentalInv. *)
PublishedInv == \A d \in Devices : PublishedOf(d)

-----------------------------------------------------------------------------
(***************************************************************************)
(* Steps that leave the queues and the answers alone.                      *)
(***************************************************************************)
SameQueues(d) ==
    /\ puts'[d] = puts[d]
    /\ acks'[d] = acks[d]
    /\ completions'[d] = completions[d]
    /\ applied'[d] = applied[d]

(* A device whose queues do not change keeps its part of the invariant,    *)
(* unless a rental begins.                                                 *)
LEMMA QuietKeeps ==
    ASSUME NEW d \in Devices, PublishedOf(d), SameQueues(d),
           Honouring(d)' => Honouring(d)
    PROVE  PublishedOf(d)'
<1>1. StopsPending(d)' <=> StopsPending(d)
  BY DEF SameQueues, StopsPending
<1>2. HonouringKept(d)'
  BY <1>1 DEF PublishedOf, HonouringKept, SameQueues
<1>3. StopsAbove(d)'
  BY DEF PublishedOf, StopsAbove, SameQueues
<1>4. AnswersKept(d)'
  BY DEF PublishedOf, AnswersKept, SameQueues, StopBehindCompletion,
         StopBehindPut
<1>. QED  BY <1>2, <1>3, <1>4 DEF PublishedOf

(* The same page in front begins no rental.                                *)
LEMMA SameTop ==
    ASSUME NEW d \in Devices, stack'[d] = stack[d]
    PROVE  Honouring(d)' <=> Honouring(d)
BY DEF Honouring, Riding, Top

(* Nor does a page that the user or a saved card opens.                    *)
LEMMA FreshTop ==
    ASSUME TypeOK, NEW d \in Devices, NEW s \in Screens,
           stack'[d] = Append(stack[d], Fresh(s))
    PROVE  ~Honouring(d)'
<1>1. Top(d)' = Fresh(s)
  BY FreshType, Grows
<1>. QED  BY <1>1 DEF Honouring, Fresh

-----------------------------------------------------------------------------
(***************************************************************************)
(* Steps that change the queues.                                           *)
(***************************************************************************)
(* Entries of a queue behind its head are entries of what is left.         *)
LEMMA Behind ==
    ASSUME NEW S, NEW q \in Seq(S), q # <<>>
    PROVE  \A k \in 1 .. Len(q) : k # 1 =>
               k - 1 \in 1 .. Len(Tail(q)) /\ Tail(q)[k - 1] = q[k]
<1>. SUFFICES ASSUME NEW k \in 1 .. Len(q), k # 1
              PROVE  k - 1 \in 1 .. Len(Tail(q)) /\ Tail(q)[k - 1] = q[k]
  OBVIOUS
<1>1. k - 1 \in 1 .. Len(Tail(q)) /\ (k - 1) + 1 = k
  BY Left
<1>. QED  BY <1>1, Left

(* Stop: the new entry is on top of every page that confirmed.             *)
LEMMA StopPublished ==
    ASSUME TypeOK, NEW d \in Devices, DeviceInv(d), PublishedOf(d),
           StopButton(d)
    PROVE  PublishedOf(d)'
<1>. PICK n \in Nat : n = Len(stack[d]) /\ n > 0
  BY TopType
<1>. PICK v : v = [Top(d) EXCEPT !.ticking = FALSE]
  OBVIOUS
<1>. PICK p : p = [value |-> FALSE, by |-> n]
  OBVIOUS
<1>1. /\ stack'[d] = [stack[d] EXCEPT ![n] = v]
      /\ puts'[d] = Append(puts[d], p)
      /\ acks' = acks /\ completions' = completions /\ applied' = applied
      /\ Top(d).screen = "status"
  BY DEF StopButton, Showing, TypeOK, Top, server
<1>2. v \in View /\ v.screen = "status" /\ v.ticking = FALSE
  BY <1>1, TopType DEF View
<1>3. Top(d)' = v
  BY <1>1, <1>2, TopField
<1>4. HonouringKept(d)'
  BY <1>2, <1>3 DEF HonouringKept, Honouring, Riding
<1>5. /\ p \in Puts /\ p.value = FALSE /\ p.by = n
      /\ puts[d] \in Seq(Puts)
  BY DEF Puts, TypeOK
<1>6. /\ Len(puts[d]) \in Nat /\ Len(puts'[d]) = Len(puts[d]) + 1
      /\ \A k \in 1 .. Len(puts[d]) : puts'[d][k] = puts[d][k]
      /\ puts'[d][Len(puts[d]) + 1] = p
  BY <1>1, <1>5, AppendProperties, LenProperties
<1>7. \A k : FromSelect(d, k) => k < n
  BY <1>1 DEF FromSelect, Top
<1>8. /\ \A k \in 1 .. Len(puts[d]) : puts[d][k].value => puts[d][k].by < n
      /\ \A k \in 1 .. Len(completions[d]) :
             completions[d][k].value => completions[d][k].by < n
  BY <1>7 DEF DeviceInv, PutsFit, CompletionsFit
<1>9. \A k \in 1 .. Len(puts'[d]) :
          k \in 1 .. Len(puts[d]) \/ k = Len(puts[d]) + 1
  BY <1>6
<1>10. StopsAbove(d)'
  <2>1. \A i \in 1 .. Len(completions'[d]), j \in 1 .. Len(puts'[d]) :
            completions'[d][i].value /\ ~puts'[d][j].value =>
                completions'[d][i].by < puts'[d][j].by
    BY <1>1, <1>5, <1>6, <1>8, <1>9 DEF PublishedOf, StopsAbove
  <2>2. \A i, j \in 1 .. Len(puts'[d]) :
            i < j /\ puts'[d][i].value /\ ~puts'[d][j].value =>
                puts'[d][i].by < puts'[d][j].by
    BY <1>5, <1>6, <1>8, <1>9 DEF PublishedOf, StopsAbove
  <2>. QED  BY <2>1, <2>2, <1>1 DEF PublishedOf, StopsAbove
<1>11. AnswersKept(d)'
  <2>1. /\ Len(puts[d]) + 1 \in 1 .. Len(puts'[d])
        /\ ~puts'[d][Len(puts[d]) + 1].value
    BY <1>5, <1>6
  <2>2. \A i \in 1 .. Len(acks[d]) : i < Len(puts[d]) + 1
    BY <1>6, LenProperties DEF TypeOK
  <2>. QED
    BY <2>1, <2>2, <1>1 DEF AnswersKept, StopBehindCompletion, StopBehindPut
<1>. QED  BY <1>4, <1>10, <1>11 DEF PublishedOf

(* A confirmation joins behind everything, with no stop behind it.         *)
LEMMA ConfirmedPublished ==
    ASSUME TypeOK, NEW d \in Devices, PublishedOf(d), NEW ok \in BOOLEAN,
           StartDecided(d, ok)
    PROVE  PublishedOf(d)'
<1>. PICK p : p = [value |-> TRUE, by |-> Head(writes[d]).by]
  OBVIOUS
<1>1. /\ writes[d] # <<>> /\ writes[d] \in Seq(Writes) /\ puts[d] \in Seq(Puts)
      /\ stack' = stack
      /\ completions' = completions /\ acks' = acks /\ applied' = applied
      /\ puts'[d] = puts[d] \/ puts'[d] = Append(puts[d], p)
  BY DEF StartDecided, TypeOK, server
<1>2. CASE puts'[d] = puts[d]
  BY <1>1, <1>2, QuietKeeps, SameTop DEF SameQueues
<1>3. CASE puts'[d] = Append(puts[d], p)
  <2>1. p \in Puts /\ p.value = TRUE
    BY <1>1, HeadTailProperties DEF Puts, Writes
  <2>2. /\ Len(puts[d]) \in Nat /\ Len(puts'[d]) = Len(puts[d]) + 1
        /\ \A k \in 1 .. Len(puts[d]) : puts'[d][k] = puts[d][k]
        /\ puts'[d][Len(puts[d]) + 1] = p
    BY <1>1, <1>3, <2>1, AppendProperties, LenProperties
  <2>3. /\ \A k \in 1 .. Len(puts'[d]) :
               ~puts'[d][k].value =>
                   k \in 1 .. Len(puts[d]) /\ puts'[d][k] = puts[d][k]
        /\ \A j \in 1 .. Len(puts[d]), i \in 1 .. Len(puts'[d]) :
               i < j => i \in 1 .. Len(puts[d]) /\ puts'[d][i] = puts[d][i]
        /\ \A k \in 1 .. Len(puts[d]) :
               k \in 1 .. Len(puts'[d]) /\ puts'[d][k] = puts[d][k]
    BY <2>1, <2>2
  <2>4. StopsPending(d)' => StopsPending(d)
    BY <2>3, <1>1 DEF StopsPending
  <2>5. HonouringKept(d)'
    BY <2>4, <1>1, SameTop DEF PublishedOf, HonouringKept
  <2>6. StopsAbove(d)'
    <3>1. \A i, j \in 1 .. Len(puts'[d]) :
              i < j /\ puts'[d][i].value /\ ~puts'[d][j].value =>
                  puts'[d][i].by < puts'[d][j].by
      BY <2>3 DEF PublishedOf, StopsAbove
    <3>2. \A i \in 1 .. Len(completions[d]), j \in 1 .. Len(puts'[d]) :
              completions[d][i].value /\ ~puts'[d][j].value =>
                  completions[d][i].by < puts'[d][j].by
      BY <2>3 DEF PublishedOf, StopsAbove
    <3>. QED  BY <3>1, <3>2, <1>1 DEF PublishedOf, StopsAbove
  <2>7. AnswersKept(d)'
    <3>1. \A i \in 1 .. Len(acks[d]) : i \in 1 .. Len(puts[d])
      BY <2>2, LenProperties DEF TypeOK
    <3>2. \A i : /\ StopBehindCompletion(d, i) => StopBehindCompletion(d, i)'
                 /\ StopBehindPut(d, i) => StopBehindPut(d, i)'
      BY <2>3, <1>1 DEF StopBehindCompletion, StopBehindPut
    <3>. QED
      BY <3>1, <3>2, <2>3, <1>1 DEF PublishedOf, AnswersKept
  <2>. QED  BY <2>5, <2>6, <2>7 DEF PublishedOf
<1>. QED  BY <1>1, <1>2, <1>3

(* A dropped connection takes answers away and nothing else.               *)
LEMMA DisconnectPublished ==
    ASSUME TypeOK, NEW d \in Devices, PublishedOf(d), Disconnect(d)
    PROVE  PublishedOf(d)'
<1>1. /\ acks'[d] = <<>> /\ stack' = stack /\ puts' = puts
      /\ completions' = completions /\ applied' = applied
  BY DEF Disconnect, TypeOK, ui, server
<1>2. HonouringKept(d)'
  BY <1>1, SameTop DEF PublishedOf, HonouringKept, StopsPending
<1>3. StopsAbove(d)'
  BY <1>1 DEF PublishedOf, StopsAbove
<1>4. AnswersKept(d)'
  BY <1>1 DEF PublishedOf, AnswersKept, StopBehindCompletion
<1>. QED  BY <1>2, <1>3, <1>4 DEF PublishedOf

(* The flag comes down only by a stop, which is behind every confirmation  *)
(* answered before.                                                        *)
LEMMA ServerPublished ==
    ASSUME TypeOK, NEW d \in Devices, PublishedOf(d), NEW ok \in BOOLEAN,
           ServerPut(d, ok)
    PROVE  PublishedOf(d)'
<1>. PICK m : m = Len(acks[d]) + 1
  OBVIOUS
<1>1. /\ acks'[d] = Append(acks[d], ok) /\ acks[d] \in Seq(BOOLEAN)
      /\ puts[d] \in Seq(Puts)
      /\ stack' = stack /\ puts' = puts /\ completions' = completions
      /\ applied'[d] = IF ok THEN puts[d][m].value ELSE applied[d]
      /\ Len(acks[d]) < Len(puts[d])
  BY DEF ServerPut, TypeOK, ui
<1>2. /\ m \in 1 .. Len(puts[d]) /\ Len(acks'[d]) = m
      /\ \A k \in 1 .. Len(acks[d]) : acks'[d][k] = acks[d][k]
      /\ acks'[d][m] = ok
      /\ \A k \in 1 .. Len(acks'[d]) :
             k = m \/ (k \in 1 .. Len(acks[d]) /\ k < m)
  BY <1>1, AppendProperties, LenProperties
<1>3. puts[d][m].value \in BOOLEAN
  BY <1>2, EntriesType DEF Puts
<1>4. StopsPending(d)' <=> StopsPending(d)
  BY <1>1 DEF StopsPending
<1>5. HonouringKept(d)'
  <2>1. ~puts[d][m].value => StopsPending(d)
    BY <1>2 DEF StopsPending
  <2>. QED
    BY <2>1, <1>1, <1>4, SameTop DEF PublishedOf, HonouringKept
<1>6. StopsAbove(d)'
  BY <1>1 DEF PublishedOf, StopsAbove
<1>7. AnswersKept(d)'
  <2>1. \A i : /\ StopBehindCompletion(d, i)' <=> StopBehindCompletion(d, i)
               /\ StopBehindPut(d, i)' <=> StopBehindPut(d, i)
    BY <1>1 DEF StopBehindCompletion, StopBehindPut
  <2>2. CASE ok /\ ~puts[d][m].value
    <3>1. \A i \in 1 .. Len(completions[d]) : StopBehindCompletion(d, i)
      BY <2>2, <1>2 DEF StopBehindCompletion
    <3>2. \A i \in 1 .. Len(acks'[d]) : i < m => StopBehindPut(d, i)
      BY <2>2, <1>2 DEF StopBehindPut
    <3>. QED
      BY <2>1, <2>2, <3>1, <3>2, <1>1, <1>2 DEF AnswersKept
  <2>3. CASE ok /\ puts[d][m].value
    BY <2>3, <1>1 DEF AnswersKept
  <2>4. CASE ~ok
    BY <2>1, <2>4, <1>1, <1>2 DEF PublishedOf, AnswersKept
  <2>. QED  BY <2>2, <2>3, <2>4
<1>. QED  BY <1>5, <1>6, <1>7 DEF PublishedOf

(* An answered put moves from one queue to the end of the next.            *)
LEMMA AckedPublished ==
    ASSUME TypeOK, NEW d \in Devices, PublishedOf(d), PutAcked(d)
    PROVE  PublishedOf(d)'
<1>. PICK p : p = Head(puts[d])
  OBVIOUS
<1>. PICK c : c = [value |-> p.value, by |-> p.by, ok |-> Head(acks[d])]
  OBVIOUS
<1>. PICK n \in Nat : n = Len(completions[d])
  BY EntriesType
<1>1. /\ puts[d] \in Seq(Puts) /\ completions[d] \in Seq(Completions)
      /\ acks[d] \in Seq(BOOLEAN) /\ acks[d] # <<>>
      /\ puts'[d] = Tail(puts[d])
      /\ acks'[d] = Tail(acks[d])
      /\ completions'[d] = Append(completions[d], c)
      /\ stack' = stack /\ applied' = applied
  BY DEF PutAcked, TypeOK, ui, server
<1>2. puts[d] # <<>>
  <2>1. Len(acks[d]) <= Len(puts[d])
    BY DEF TypeOK
  <2>. QED  BY <2>1, <1>1, EmptySeq
<1>3. /\ 1 \in 1 .. Len(puts[d]) /\ p = puts[d][1] /\ Len(puts[d]) \in Nat
      /\ Len(puts'[d]) = Len(puts[d]) - 1
      /\ \A k \in 1 .. Len(puts'[d]) :
             k + 1 \in 1 .. Len(puts[d]) /\ puts'[d][k] = puts[d][k + 1]
  BY <1>1, <1>2, Left
<1>4. /\ 1 \in 1 .. Len(acks[d]) /\ Head(acks[d]) = acks[d][1]
      /\ \A k \in 1 .. Len(acks'[d]) :
             k + 1 \in 1 .. Len(acks[d]) /\ acks'[d][k] = acks[d][k + 1]
  BY <1>1, Left
<1>5. /\ c.value = p.value /\ c.by = p.by /\ c.ok = acks[d][1]
      /\ c \in Completions
  <2>1. p \in Puts /\ Head(acks[d]) \in BOOLEAN
    BY <1>1, <1>2, HeadTailProperties
  <2>. QED  BY <2>1, <1>4 DEF Puts, Completions
<1>6. /\ Len(completions'[d]) = n + 1
      /\ \A k \in 1 .. n : completions'[d][k] = completions[d][k]
      /\ completions'[d][n + 1] = c
  BY <1>1, <1>5, AppendProperties, LenProperties
<1>7. \A k \in 1 .. Len(completions'[d]) : k \in 1 .. n \/ k = n + 1
  BY <1>6
<1>8. \A k \in 1 .. Len(puts[d]) : k # 1 =>
          /\ k - 1 \in 1 .. Len(puts'[d])
          /\ puts'[d][k - 1] = puts[d][k]
  BY <1>1, <1>2, Behind
<1>9. HonouringKept(d)'
  <2>1. StopsPending(d)' => StopsPending(d)
    BY <1>3, <1>5, <1>6, <1>7 DEF StopsPending
  <2>. QED  BY <2>1, <1>1, SameTop DEF PublishedOf, HonouringKept
<1>10. StopsAbove(d)'
  <2>1. \A i, j \in 1 .. Len(completions'[d]) :
            i < j /\ completions'[d][i].value /\ ~completions'[d][j].value =>
                completions'[d][i].by < completions'[d][j].by
    <3>. SUFFICES ASSUME NEW i \in 1 .. Len(completions'[d]),
                         NEW j \in 1 .. Len(completions'[d]), i < j,
                         completions'[d][i].value, ~completions'[d][j].value
                  PROVE  completions'[d][i].by < completions'[d][j].by
      OBVIOUS
    <3>1. i \in 1 .. n
      BY <1>6
    <3>2. CASE j \in 1 .. n
      BY <3>1, <3>2, <1>6 DEF PublishedOf, StopsAbove
    <3>3. CASE j = n + 1
      BY <3>1, <3>3, <1>3, <1>5, <1>6 DEF PublishedOf, StopsAbove
    <3>. QED  BY <3>2, <3>3, <1>7
  <2>2. \A i \in 1 .. Len(completions'[d]), j \in 1 .. Len(puts'[d]) :
            completions'[d][i].value /\ ~puts'[d][j].value =>
                completions'[d][i].by < puts'[d][j].by
    <3>. SUFFICES ASSUME NEW i \in 1 .. Len(completions'[d]),
                         NEW j \in 1 .. Len(puts'[d]),
                         completions'[d][i].value, ~puts'[d][j].value
                  PROVE  completions'[d][i].by < puts'[d][j].by
      OBVIOUS
    <3>1. j + 1 \in 1 .. Len(puts[d]) /\ 1 < j + 1
          /\ puts'[d][j] = puts[d][j + 1]
      BY <1>3
    <3>2. CASE i \in 1 .. n
      BY <3>1, <3>2, <1>6 DEF PublishedOf, StopsAbove
    <3>3. CASE i = n + 1
      BY <3>1, <3>3, <1>3, <1>5, <1>6 DEF PublishedOf, StopsAbove
    <3>. QED  BY <3>2, <3>3, <1>7
  <2>3. \A i, j \in 1 .. Len(puts'[d]) :
            i < j /\ puts'[d][i].value /\ ~puts'[d][j].value =>
                puts'[d][i].by < puts'[d][j].by
    <3>. SUFFICES ASSUME NEW i \in 1 .. Len(puts'[d]),
                         NEW j \in 1 .. Len(puts'[d]), i < j,
                         puts'[d][i].value, ~puts'[d][j].value
                  PROVE  puts'[d][i].by < puts'[d][j].by
      OBVIOUS
    <3>1. /\ i + 1 \in 1 .. Len(puts[d]) /\ j + 1 \in 1 .. Len(puts[d])
          /\ i + 1 < j + 1
      BY <1>3
    <3>2. puts[d][i + 1].value /\ ~puts[d][j + 1].value
      BY <1>3
    <3>3. puts[d][i + 1].by < puts[d][j + 1].by
      BY <3>1, <3>2 DEF PublishedOf, StopsAbove
    <3>. QED  BY <3>3, <1>3
  <2>. QED  BY <2>1, <2>2, <2>3 DEF StopsAbove
<1>11. AnswersKept(d)'
  <2>0. Len(acks'[d]) \in Nat /\ Len(acks'[d]) <= Len(puts'[d])
    BY SystemType, LenProperties DEF SystemStep, TypeOK
  <2>. SUFFICES ASSUME ~applied[d]
                PROVE  /\ \A i \in 1 .. Len(completions'[d]) :
                              completions'[d][i].value /\ completions'[d][i].ok
                                  => StopBehindCompletion(d, i)'
                       /\ \A i \in 1 .. Len(acks'[d]) :
                              puts'[d][i].value /\ acks'[d][i] =>
                                  StopBehindPut(d, i)'
    BY <1>1 DEF AnswersKept
  <2>1. ASSUME NEW i \in Nat, StopBehindPut(d, i + 1)
        PROVE  StopBehindPut(d, i)' /\ \A k : StopBehindCompletion(d, k)'
    <3>1. PICK j \in 1 .. Len(puts[d]) : i + 1 < j /\ ~puts[d][j].value
      BY <2>1 DEF StopBehindPut
    <3>2. /\ j - 1 \in 1 .. Len(puts'[d]) /\ puts'[d][j - 1] = puts[d][j]
          /\ i < j - 1
      BY <3>1, <1>8
    <3>. QED  BY <3>1, <3>2 DEF StopBehindPut, StopBehindCompletion
  <2>2. ASSUME NEW i \in 1 .. n, StopBehindCompletion(d, i)
        PROVE  StopBehindCompletion(d, i)'
    <3>1. CASE \E j \in 1 .. Len(completions[d]) :
                   i < j /\ ~completions[d][j].value
      BY <3>1, <1>6 DEF StopBehindCompletion
    <3>2. CASE \E j \in 1 .. Len(puts[d]) : ~puts[d][j].value
      <4>1. PICK j \in 1 .. Len(puts[d]) : ~puts[d][j].value
        BY <3>2
      <4>2. CASE j = 1
        BY <4>1, <4>2, <1>3, <1>5, <1>6 DEF StopBehindCompletion
      <4>3. CASE j # 1
        BY <4>1, <4>3, <1>8 DEF StopBehindCompletion
      <4>. QED  BY <4>2, <4>3
    <3>. QED  BY <2>2, <3>1, <3>2 DEF StopBehindCompletion
  <2>3. ASSUME NEW i \in 1 .. Len(completions'[d]),
               completions'[d][i].value, completions'[d][i].ok
        PROVE  StopBehindCompletion(d, i)'
    <3>1. CASE i \in 1 .. n
      BY <2>2, <2>3, <3>1, <1>6 DEF PublishedOf, AnswersKept
    <3>2. CASE i = n + 1
      <4>1. StopBehindPut(d, 0 + 1)
        BY <2>3, <3>2, <1>3, <1>4, <1>5, <1>6 DEF PublishedOf, AnswersKept
      <4>. QED  BY <4>1, <2>1
    <3>. QED  BY <3>1, <3>2, <1>7
  <2>4. ASSUME NEW i \in 1 .. Len(acks'[d]), puts'[d][i].value, acks'[d][i]
        PROVE  StopBehindPut(d, i)'
    <3>1. i \in 1 .. Len(puts'[d])
      BY <2>0, <1>3
    <3>2. /\ i + 1 \in 1 .. Len(acks[d]) /\ acks[d][i + 1]
          /\ puts[d][i + 1].value
      BY <2>4, <3>1, <1>3, <1>4
    <3>3. StopBehindPut(d, i + 1)
      BY <3>2 DEF PublishedOf, AnswersKept
    <3>. QED  BY <2>1, <3>1, <3>3
  <2>. QED  BY <2>3, <2>4
<1>. QED  BY <1>9, <1>10, <1>11 DEF PublishedOf

(* A completed confirmation presents the unlock page only from the payment *)
(* page in front: no stop is behind it, and the flag it raised is up.      *)
LEMMA CompletedPublished ==
    ASSUME TypeOK, NEW d \in Devices, DeviceInv(d), PublishedOf(d),
           PutCompleted(d)
    PROVE  PublishedOf(d)'
<1>. PICK c : c = Head(completions[d])
  OBVIOUS
<1>. PICK v : v = IF c.value
                  THEN [Fresh("unlock") EXCEPT !.published = c.ok]
                  ELSE Fresh("landing")
  OBVIOUS
<1>1. /\ completions[d] \in Seq(Completions) /\ completions[d] # <<>>
      /\ completions'[d] = Tail(completions[d])
      /\ puts' = puts /\ acks' = acks /\ applied' = applied
      /\ \/ stack'[d] = stack[d]
         \/ stack'[d] = Append(stack[d], v) /\ c.by = Len(stack[d])
  BY DEF PutCompleted, PresentBy, CanPresent, TypeOK, server
<1>2. /\ 1 \in 1 .. Len(completions[d]) /\ c = completions[d][1]
      /\ Len(completions[d]) \in Nat
      /\ Len(completions'[d]) = Len(completions[d]) - 1
      /\ \A k \in 1 .. Len(completions'[d]) :
             /\ k + 1 \in 1 .. Len(completions[d])
             /\ completions'[d][k] = completions[d][k + 1]
  BY <1>1, Left
<1>3. StopsPending(d)' => StopsPending(d)
  BY <1>1, <1>2 DEF StopsPending
<1>4. HonouringKept(d)'
  <2>1. CASE stack'[d] = stack[d]
    BY <2>1, <1>1, <1>3, SameTop DEF PublishedOf, HonouringKept
  <2>2. CASE /\ stack'[d] = Append(stack[d], v) /\ c.by = Len(stack[d])
             /\ c.value /\ c.ok
    <3>1. /\ \A k \in 1 .. Len(puts[d]) :
                 ~puts[d][k].value => puts[d][k].by <= Len(stack[d])
          /\ \A k \in 1 .. Len(completions[d]) :
                 ~completions[d][k].value =>
                     completions[d][k].by <= Len(stack[d])
      BY DEF DeviceInv, PutsFit, CompletionsFit, FromStopped
    <3>2. /\ \A k \in 1 .. Len(puts[d]) : puts[d][k].by \in Nat
          /\ \A k \in 1 .. Len(completions[d]) : completions[d][k].by \in Nat
          /\ Len(stack[d]) \in Nat
      BY EntriesType, TopType DEF Puts, Completions
    <3>3. \A j \in 1 .. Len(puts[d]) : puts[d][j].value
      BY <2>2, <3>1, <3>2, <1>2 DEF PublishedOf, StopsAbove
    <3>4. \A j \in 1 .. Len(completions[d]) : 1 < j => completions[d][j].value
      BY <2>2, <3>1, <3>2, <1>2 DEF PublishedOf, StopsAbove
    <3>5. applied[d]
      BY <2>2, <3>3, <3>4, <1>2
         DEF PublishedOf, AnswersKept, StopBehindCompletion
    <3>6. \A k \in 1 .. Len(completions'[d]) : completions'[d][k].value
      BY <3>4, <1>2
    <3>. QED
      BY <3>3, <3>5, <3>6, <1>1 DEF HonouringKept, StopsPending
  <2>3. CASE stack'[d] = Append(stack[d], v) /\ ~(c.value /\ c.ok)
    <3>1. c.ok \in BOOLEAN
      BY <1>2, EntriesType DEF Completions
    <3>2. v \in View /\ ~v.published /\ stack'[d] = Append(stack[d], v)
      BY <2>3, <3>1, FreshType DEF Screens, View, Fresh
    <3>3. Top(d)' = v
      BY <3>2, Grows
    <3>. QED
      BY <3>2, <3>3 DEF HonouringKept, Honouring
  <2>. QED  BY <2>1, <2>2, <2>3, <1>1
<1>5. StopsAbove(d)'
  <2>1. \A i, j \in 1 .. Len(completions'[d]) :
            i < j /\ completions'[d][i].value /\ ~completions'[d][j].value =>
                completions'[d][i].by < completions'[d][j].by
    <3>. SUFFICES ASSUME NEW i \in 1 .. Len(completions'[d]),
                         NEW j \in 1 .. Len(completions'[d]), i < j,
                         completions'[d][i].value, ~completions'[d][j].value
                  PROVE  completions'[d][i].by < completions'[d][j].by
      OBVIOUS
    <3>1. /\ i + 1 \in 1 .. Len(completions[d])
          /\ j + 1 \in 1 .. Len(completions[d])
          /\ i + 1 < j + 1
      BY <1>2
    <3>2. completions[d][i + 1].value /\ ~completions[d][j + 1].value
      BY <1>2
    <3>3. completions[d][i + 1].by < completions[d][j + 1].by
      BY <3>1, <3>2 DEF PublishedOf, StopsAbove
    <3>. QED  BY <3>3, <1>2
  <2>2. \A i \in 1 .. Len(completions'[d]), j \in 1 .. Len(puts[d]) :
            completions'[d][i].value /\ ~puts[d][j].value =>
                completions'[d][i].by < puts[d][j].by
    BY <1>2 DEF PublishedOf, StopsAbove
  <2>. QED  BY <2>1, <2>2, <1>1 DEF PublishedOf, StopsAbove
<1>6. AnswersKept(d)'
  <2>1. ASSUME NEW i \in 1 .. Len(completions'[d]),
               StopBehindCompletion(d, i + 1)
        PROVE  StopBehindCompletion(d, i)'
    <3>1. CASE \E j \in 1 .. Len(puts[d]) : ~puts[d][j].value
      BY <3>1, <1>1 DEF StopBehindCompletion
    <3>2. CASE \E j \in 1 .. Len(completions[d]) :
                   i + 1 < j /\ ~completions[d][j].value
      <4>1. PICK j \in 1 .. Len(completions[d]) :
                i + 1 < j /\ ~completions[d][j].value
        BY <3>2
      <4>2. /\ j - 1 \in 1 .. Len(completions'[d]) /\ i < j - 1
            /\ completions'[d][j - 1] = completions[d][j]
        BY <4>1, <1>2
      <4>. QED  BY <4>1, <4>2 DEF StopBehindCompletion
    <3>. QED  BY <2>1, <3>1, <3>2 DEF StopBehindCompletion
  <2>2. \A i : StopBehindPut(d, i)' <=> StopBehindPut(d, i)
    BY <1>1 DEF StopBehindPut
  <2>. QED
    BY <2>1, <2>2, <1>1, <1>2 DEF PublishedOf, AnswersKept
<1>. QED  BY <1>4, <1>5, <1>6 DEF PublishedOf

(* After a restart nothing is outstanding and no rental is in front.       *)
LEMMA KillPublished ==
    ASSUME TypeOK, NEW d \in Devices, Kill(d)
    PROVE  PublishedOf(d)'
<1>1. puts'[d] = <<>> /\ acks'[d] = <<>> /\ completions'[d] = <<>>
  BY DEF Kill, TypeOK
<1>2. \/ stack'[d] = <<Fresh("login")>>
      \/ stack'[d] = <<Fresh("login"), Fresh("landing")>>
  BY DEF Kill, Relaunched, TypeOK
<1>3. ~Top(d)'.published
  <2>1. CASE stack'[d] = <<Fresh("login")>>
    BY <2>1 DEF Top, Fresh
  <2>2. CASE stack'[d] = <<Fresh("login"), Fresh("landing")>>
    BY <2>2 DEF Top, Fresh
  <2>. QED  BY <1>2, <2>1, <2>2
<1>. QED
  BY <1>1, <1>3 DEF PublishedOf, HonouringKept, Honouring, StopsAbove,
                    AnswersKept

-----------------------------------------------------------------------------
(* Every step of the user keeps the invariant of its device.               *)
LEMMA UserPublished ==
    ASSUME TypeOK, NEW d \in Devices, DeviceInv(d), PublishedOf(d),
           UserStep(d)
    PROVE  PublishedOf(d)'
<1>. USE DEF memory, fire, net, server, ui
<1>1. ASSUME NEW s \in Screens, Open(d, s)
      PROVE  PublishedOf(d)'
  <2>1. /\ \/ stack'[d] = stack[d]
           \/ stack'[d] = Append(stack[d], Fresh(s))
        /\ SameQueues(d)
    BY <1>1 DEF Open, PresentBy, SameQueues, TypeOK
  <2>. QED  BY <2>1, QuietKeeps, SameTop, FreshTop
<1>2. CASE ShowAlert(d)
  BY <1>2, QuietKeeps, SameTop DEF ShowAlert, SameQueues
<1>3. CASE SignIn(d)
  <2>1. /\ \/ stack'[d] = stack[d]
           \/ stack'[d] = Append(stack[d], Fresh("landing"))
        /\ SameQueues(d)
    BY <1>3 DEF SignIn, PresentBy, SameQueues, TypeOK
  <2>. QED  BY <2>1, QuietKeeps, SameTop, FreshTop DEF Screens
<1>4. CASE \/ RentButton(d) \/ SerialBack(d) \/ PaymentBack(d)
          \/ AddCardRow(d) \/ CardBack(d) \/ ReopenLogin(d)
  BY <1>4, <1>1 DEF RentButton, SerialBack, PaymentBack, AddCardRow, CardBack,
                    ReopenLogin, Screens
<1>5. ASSUME NEW code \in Codes, NextButton(d, code)
      PROVE  PublishedOf(d)'
  BY <1>5, <1>1, <1>2 DEF NextButton, Screens
<1>6. CASE SelectCard(d)
  <2>1. /\ stack'[d] = [stack[d] EXCEPT
                            ![Len(stack[d])] = [Top(d) EXCEPT !.card = TRUE]]
        /\ SameQueues(d) /\ Top(d).screen = "select"
    BY <1>6 DEF SelectCard, Showing, SameQueues, TypeOK, Top
  <2>2. /\ [Top(d) EXCEPT !.card = TRUE] \in View
        /\ [Top(d) EXCEPT !.card = TRUE].screen = "select"
    BY <2>1, TopType DEF View
  <2>3. Top(d)'.screen = "select"
    BY <2>1, <2>2, TopField
  <2>. QED
    BY <2>1, <2>3, QuietKeeps DEF Honouring, Riding
<1>7. ASSUME NEW t \in Times, ConfirmButton(d, t)
      PROVE  PublishedOf(d)'
  BY <1>7, <1>2, QuietKeeps, SameTop DEF ConfirmButton, SameQueues
<1>8. CASE StopButton(d)
  BY <1>8, StopPublished
<1>9. CASE CloseAlert(d)
  BY <1>9, QuietKeeps, SameTop DEF CloseAlert, SameQueues
<1>10. CASE DoneButton(d)
  BY <1>10, <1>2, QuietKeeps, SameTop DEF DoneButton, SameQueues
<1>11. CASE SignInFails(d)
  BY <1>11, QuietKeeps, SameTop DEF SignInFails, SameQueues
<1>. QED
  BY <1>3, <1>4, <1>5, <1>6, <1>7, <1>8, <1>9, <1>10, <1>11 DEF UserStep

(* Every step of the system keeps the invariant of its device.             *)
LEMMA SystemPublished ==
    ASSUME TypeOK, NEW d \in Devices, DeviceInv(d), PublishedOf(d),
           SystemStep(d)
    PROVE  PublishedOf(d)'
<1>. USE DEF memory, fire, net, server, ui
<1>1. ASSUME NEW ok \in BOOLEAN, CardDecided(d, ok)
      PROVE  PublishedOf(d)'
  <2>1. /\ \/ stack'[d] = stack[d]
           \/ stack'[d] = Append(stack[d], Fresh("select"))
        /\ SameQueues(d)
    BY <1>1 DEF CardDecided, PresentBy, SameQueues, TypeOK
  <2>. QED  BY <2>1, QuietKeeps, SameTop, FreshTop DEF Screens
<1>2. CASE AnimationDone(d)
  <2>. PICK v : v = [Fresh("status") EXCEPT
                        !.start = startRentTime[d], !.ticking = TRUE,
                        !.published = Top(d).published]
    OBVIOUS
  <2>1. /\ stack'[d] = Append(stack[d], v)
        /\ SameQueues(d) /\ Top(d).screen = "unlock"
    BY <1>2 DEF AnimationDone, Showing, PresentBy, CanPresent, SameQueues,
                TypeOK
  <2>2. v \in View /\ v.published = Top(d).published
    BY TopType, FreshType DEF Screens, View, TypeOK, Fresh
  <2>3. Top(d)' = v
    BY <2>1, <2>2, Grows
  <2>. QED
    BY <2>1, <2>2, <2>3, QuietKeeps DEF Honouring
<1>3. CASE LocationUpdated(d) \/ Reconnect(d)
  BY <1>3, QuietKeeps, SameTop
     DEF LocationUpdated, ShowAlert, Reconnect, SameQueues
<1>4. ASSUME NEW ok \in BOOLEAN, CreateDone(d) \/ MailDone(d, ok)
      PROVE  PublishedOf(d)'
  BY <1>4, QuietKeeps, SameTop DEF CreateDone, MailDone, SameQueues
<1>. QED
  BY <1>1, <1>2, <1>3, <1>4, ConfirmedPublished, ServerPublished, AckedPublished,
     CompletedPublished, DisconnectPublished DEF SystemStep

(* Devices share no queue and no answer.                                   *)
LEMMA OtherQueues ==
    ASSUME TypeOK, NEW d \in Devices, NEW e \in Devices, e # d,
           UserStep(d) \/ SystemStep(d) \/ Kill(d)
    PROVE  SameQueues(e)
<1>. USE DEF SameQueues, TypeOK, memory, fire, net, server, ui
<1>1. /\ \A s \in Screens : Open(d, s) => SameQueues(e)
      /\ ShowAlert(d) => SameQueues(e)
  BY DEF Open, ShowAlert
<1>2. CASE UserStep(d)
  BY <1>1, <1>2
     DEF UserStep, SignIn, SignInFails, ReopenLogin, RentButton, SerialBack,
         PaymentBack, AddCardRow, CardBack, Screens, NextButton, SelectCard,
         ConfirmButton, StopButton, CloseAlert, DoneButton
<1>3. CASE SystemStep(d)
  BY <1>1, <1>3
     DEF SystemStep, StartDecided, ServerPut, PutAcked, PutCompleted,
         AnimationDone, Reconnect, Disconnect, CardDecided, LocationUpdated,
         CreateDone, MailDone
<1>4. CASE Kill(d)
  BY <1>4 DEF Kill
<1>. QED  BY <1>2, <1>3, <1>4

(* At launch nothing is outstanding.                                       *)
LEMMA InitPublished ==
    ASSUME Init
    PROVE  PublishedInv
<1>. SUFFICES ASSUME NEW d \in Devices
              PROVE  PublishedOf(d)
  BY DEF PublishedInv
<1>1. /\ puts[d] = <<>> /\ acks[d] = <<>> /\ completions[d] = <<>>
      /\ stack[d] = <<Fresh("login")>>
  BY DEF Init
<1>2. ~Top(d).published
  BY <1>1 DEF Top, Fresh
<1>. QED
  BY <1>1, <1>2 DEF PublishedOf, HonouringKept, Honouring, StopsAbove,
                    AnswersKept

LEMMA PublishedStep ==
    TypeOK /\ RentalInv /\ PublishedInv /\ [Next]_vars => PublishedInv'
<1>. SUFFICES ASSUME TypeOK, RentalInv, PublishedInv, [Next]_vars,
                     NEW e \in Devices
              PROVE  PublishedOf(e)'
  BY DEF PublishedInv
<1>. PublishedOf(e) /\ DeviceInv(e)
  BY DEF RentalInv, PublishedInv
<1>1. ASSUME NEW d \in Devices, UserStep(d) \/ SystemStep(d) \/ Kill(d)
      PROVE  PublishedOf(e)'
  <2>1. CASE d = e
    BY <1>1, <2>1, UserPublished, SystemPublished, KillPublished
  <2>2. CASE d # e
    <3>1. stack'[e] = stack[e] /\ SameQueues(e)
      BY <1>1, <2>2, OtherDevices, OtherQueues DEF Same
    <3>. QED  BY <3>1, QuietKeeps, SameTop
  <2>. QED  BY <2>1, <2>2
<1>2. CASE UNCHANGED vars
  BY <1>2, QuietKeeps, SameTop
     DEF vars, ui, memory, fire, net, server, SameQueues
<1>. QED
  BY <1>1, <1>2 DEF Next, Running, DoneTraps

(* While an accepted rental is unlocked or runs, its flag is up and no stop*)
(* waits: the inductive invariant of the queues.                           *)
THEOREM RentalsStayPublished == Spec => []PublishedInv
BY InitPublished, PublishedStep, TypeCorrect, RentalInvariant, PTL DEF Spec

(* A running rental that the server accepted is flagged as in use, and no  *)
(* earlier stop is left that could withdraw it.                            *)
THEOREM LiveRentalIsPublished == Spec => []LiveRentalPublished
<1>1. PublishedInv => LiveRentalPublished
  BY DEF PublishedInv, PublishedOf, HonouringKept, Honouring,
         LiveRentalPublished
<1>. QED
  BY <1>1, RentalsStayPublished, PTL

-----------------------------------------------------------------------------
(***************************************************************************)
(* The one flag that all devices write.                                    *)
(***************************************************************************)
LEMMA OnlyServerMovesFlag ==
    ASSUME TypeOK, [Next]_vars
    PROVE  \/ \E d \in Devices, ok \in BOOLEAN : ServerPut(d, ok)
           \/ UNCHANGED <<inUse, applied>>
<1>. USE DEF server
<1>1. ASSUME NEW d \in Devices, NEW s, Open(d, s)
      PROVE  UNCHANGED <<inUse, applied>>
  BY <1>1 DEF Open
<1>2. ASSUME NEW d \in Devices, ShowAlert(d)
      PROVE  UNCHANGED <<inUse, applied>>
  BY <1>2 DEF ShowAlert
<1>3. ASSUME NEW d \in Devices, UserStep(d)
      PROVE  UNCHANGED <<inUse, applied>>
  <2>1. CASE \/ RentButton(d) \/ SerialBack(d) \/ PaymentBack(d)
            \/ AddCardRow(d) \/ CardBack(d) \/ ReopenLogin(d)
    BY <2>1, <1>1 DEF RentButton, SerialBack, PaymentBack, AddCardRow,
                      CardBack, ReopenLogin
  <2>2. ASSUME NEW code \in Codes, NextButton(d, code)
        PROVE  UNCHANGED <<inUse, applied>>
    BY <2>2, <1>1, <1>2 DEF NextButton
  <2>3. ASSUME NEW t \in Times, ConfirmButton(d, t)
        PROVE  UNCHANGED <<inUse, applied>>
    BY <2>3, <1>2 DEF ConfirmButton
  <2>4. CASE DoneButton(d)
    BY <2>4, <1>2 DEF DoneButton
  <2>5. CASE SignIn(d) \/ SelectCard(d) \/ StopButton(d) \/ CloseAlert(d)
    BY <2>5 DEF SignIn, SelectCard, StopButton, CloseAlert
  <2>6. CASE SignInFails(d)
    BY <2>6 DEF SignInFails
  <2>. QED
    BY <1>3, <2>1, <2>2, <2>3, <2>4, <2>5, <2>6 DEF UserStep
<1>4. ASSUME NEW d \in Devices, SystemStep(d),
             \A ok \in BOOLEAN : ~ServerPut(d, ok)
      PROVE  UNCHANGED <<inUse, applied>>
  <2>1. ASSUME NEW ok \in BOOLEAN, StartDecided(d, ok) \/ CardDecided(d, ok)
        PROVE  UNCHANGED <<inUse, applied>>
    BY <2>1 DEF StartDecided, CardDecided
  <2>2. CASE PutAcked(d) \/ PutCompleted(d) \/ AnimationDone(d)
    BY <2>2 DEF PutAcked, PutCompleted, AnimationDone
  <2>3. CASE LocationUpdated(d) \/ Reconnect(d) \/ Disconnect(d)
    BY <2>3, <1>2 DEF LocationUpdated, Reconnect, Disconnect
  <2>4. ASSUME NEW ok \in BOOLEAN, CreateDone(d) \/ MailDone(d, ok)
        PROVE  UNCHANGED <<inUse, applied>>
    BY <2>4 DEF CreateDone, MailDone
  <2>. QED
    BY <1>4, <2>1, <2>2, <2>3, <2>4 DEF SystemStep
<1>5. ASSUME NEW d \in Devices, Kill(d)
      PROVE  UNCHANGED <<inUse, applied>>
  BY <1>5 DEF Kill
<1>6. CASE UNCHANGED vars
  BY <1>6 DEF vars
<1>. QED
  BY <1>3, <1>4, <1>5, <1>6 DEF Next, Running, DoneTraps

(* The flag is what a device last had the server take.                     *)
FlagTold == \E d \in Devices : applied[d] = inUse

LEMMA FlagStep ==
    TypeOK /\ FlagTold /\ [Next]_vars => FlagTold'
<1>. SUFFICES ASSUME TypeOK, FlagTold, [Next]_vars
              PROVE  FlagTold'
  OBVIOUS
<1>1. ASSUME NEW d \in Devices, NEW ok \in BOOLEAN, ServerPut(d, ok)
      PROVE  FlagTold'
  BY <1>1 DEF ServerPut, FlagTold, TypeOK
<1>2. CASE UNCHANGED <<inUse, applied>>
  BY <1>2 DEF FlagTold
<1>. QED  BY <1>1, <1>2, OnlyServerMovesFlag

(* With one phone the flag tells the truth about it: while an accepted     *)
(* rental is unlocked or runs, the umbrella is shown in use, through       *)
(* restarts, resends and earlier rentals.  It takes a second phone, which  *)
(* writes the same node, to take the flag from a running rental.           *)
THEOREM OnePhoneIsFlagged ==
    ASSUME NEW d, Devices = {d}
    PROVE  Spec => [](Honouring(d) => inUse)
<1>1. Init => FlagTold
  BY DEF Init, FlagTold
<1>2. PublishedInv /\ FlagTold => (Honouring(d) => inUse)
  BY DEF PublishedInv, PublishedOf, HonouringKept, FlagTold
<1>. QED
  BY <1>1, <1>2, FlagStep, TypeCorrect, RentalsStayPublished, PTL DEF Spec

-----------------------------------------------------------------------------
(***************************************************************************)
(* The refinement: what the contract sees of a device.                     *)
(***************************************************************************)
SameSeen(e) ==
    /\ Phase(e)' = Phase(e)
    /\ Top(e)'.start = Top(e).start
    /\ Top(e)'.published = Top(e).published
    /\ applied'[e] = applied[e]
    /\ Asking(e)' = Asking(e)
    /\ StopsPending(e)' = StopsPending(e)

OthersSame(d) == \A e \in Devices : e # d => SameSeen(e)

(* Before a rental the page in front has no start time and no flag.        *)
PlainTop(d) ==
    /\ Top(d).screen \notin {"unlock", "status"} =>
           Top(d).start = None /\ ~Top(d).published
    /\ Top(d).screen = "unlock" => Top(d).start = None

PlainInv == \A d \in Devices : PlainTop(d)

ContractStep == Contract!Next \/ UNCHANGED Contract!cvars

(* The phase is read off the page in front.                                *)
LEMMA PhaseIs ==
    ASSUME NEW d
    PROVE  /\ Top(d).screen \in {"login", "landing", "serial", "card"} =>
                  Phase(d) = "away"
           /\ Top(d).screen = "select" => Phase(d) = "choosing"
           /\ Top(d).screen = "unlock" => Phase(d) = "unlocking"
           /\ Riding(d) => Phase(d) = "riding"
           /\ Stopped(d) => Phase(d) = "returned"
BY DEF Phase, Riding, Stopped

LEMMA PhaseBecomes ==
    ASSUME NEW d
    PROVE  /\ Top(d)'.screen \in {"login", "landing", "serial", "card"} =>
                  Phase(d)' = "away"
           /\ Top(d)'.screen = "select" => Phase(d)' = "choosing"
           /\ Top(d)'.screen = "unlock" => Phase(d)' = "unlocking"
           /\ Riding(d)' => Phase(d)' = "riding"
           /\ Stopped(d)' => Phase(d)' = "returned"
BY DEF Phase, Riding, Stopped

(* Whether something is outstanding is TRUE or FALSE.                      *)
LEMMA SeenBoolean ==
    ASSUME NEW d
    PROVE  /\ Asking(d) \in BOOLEAN /\ Asking(d)' \in BOOLEAN
           /\ StopsPending(d) \in BOOLEAN /\ StopsPending(d)' \in BOOLEAN
BY DEF Asking, StopsPending

(* A step of one device changes the contract's variables at that device.   *)
LEMMA Lift ==
    ASSUME TypeOK, TypeOK', NEW d \in Devices, OthersSame(d)
    PROVE  /\ [e \in Devices |-> Phase(e)]'
                  = [[e \in Devices |-> Phase(e)] EXCEPT ![d] = Phase(d)']
           /\ [e \in Devices |-> Top(e).start]'
                  = [[e \in Devices |-> Top(e).start]
                        EXCEPT ![d] = Top(d)'.start]
           /\ [e \in Devices |-> Top(e).published]'
                  = [[e \in Devices |-> Top(e).published]
                        EXCEPT ![d] = Top(d)'.published]
           /\ applied' = [applied EXCEPT ![d] = applied'[d]]
           /\ [e \in Devices |-> Asking(e)]'
                  = [[e \in Devices |-> Asking(e)] EXCEPT ![d] = Asking(d)']
           /\ [e \in Devices |-> StopsPending(e)]'
                  = [[e \in Devices |-> StopsPending(e)]
                        EXCEPT ![d] = StopsPending(d)']
<1>1. /\ [e \in Devices |-> Phase(e)]'
             = [[e \in Devices |-> Phase(e)] EXCEPT ![d] = Phase(d)']
      /\ [e \in Devices |-> Top(e).start]'
             = [[e \in Devices |-> Top(e).start] EXCEPT ![d] = Top(d)'.start]
      /\ [e \in Devices |-> Top(e).published]'
             = [[e \in Devices |-> Top(e).published]
                   EXCEPT ![d] = Top(d)'.published]
  BY DEF OthersSame, SameSeen
<1>2. applied' = [applied EXCEPT ![d] = applied'[d]]
  BY DEF OthersSame, SameSeen, TypeOK
<1>3. /\ [e \in Devices |-> Asking(e)]'
             = [[e \in Devices |-> Asking(e)] EXCEPT ![d] = Asking(d)']
      /\ [e \in Devices |-> StopsPending(e)]'
             = [[e \in Devices |-> StopsPending(e)]
                   EXCEPT ![d] = StopsPending(d)']
  BY DEF OthersSame, SameSeen
<1>. QED  BY <1>1, <1>2, <1>3

(* What the contract sees unchanged at that device does not change.        *)
LEMMA LiftSame ==
    ASSUME TypeOK, TypeOK', NEW d \in Devices, OthersSame(d)
    PROVE  /\ Phase(d)' = Phase(d) =>
                  UNCHANGED [e \in Devices |-> Phase(e)]
           /\ Top(d)'.start = Top(d).start =>
                  UNCHANGED [e \in Devices |-> Top(e).start]
           /\ Top(d)'.published = Top(d).published =>
                  UNCHANGED [e \in Devices |-> Top(e).published]
           /\ applied'[d] = applied[d] => UNCHANGED applied
           /\ Asking(d)' = Asking(d) =>
                  UNCHANGED [e \in Devices |-> Asking(e)]
           /\ StopsPending(d)' = StopsPending(d) =>
                  UNCHANGED [e \in Devices |-> StopsPending(e)]
<1>1. /\ Phase(d)' = Phase(d) => UNCHANGED [e \in Devices |-> Phase(e)]
      /\ Top(d)'.start = Top(d).start =>
             UNCHANGED [e \in Devices |-> Top(e).start]
      /\ Top(d)'.published = Top(d).published =>
             UNCHANGED [e \in Devices |-> Top(e).published]
  BY DEF OthersSame, SameSeen
<1>2. applied'[d] = applied[d] => UNCHANGED applied
  BY DEF OthersSame, SameSeen, TypeOK
<1>3. /\ Asking(d)' = Asking(d) => UNCHANGED [e \in Devices |-> Asking(e)]
      /\ StopsPending(d)' = StopsPending(d) =>
             UNCHANGED [e \in Devices |-> StopsPending(e)]
  BY DEF OthersSame, SameSeen
<1>. QED  BY <1>1, <1>2, <1>3

(* A step that the contract does not see.                                  *)
LEMMA Unseen ==
    ASSUME TypeOK, TypeOK', NEW d \in Devices, OthersSame(d), SameSeen(d)
    PROVE  UNCHANGED Contract!cvars
<1>. USE DEF SameSeen
<1>1. /\ UNCHANGED [e \in Devices |-> Phase(e)]
      /\ UNCHANGED [e \in Devices |-> Top(e).start]
      /\ UNCHANGED [e \in Devices |-> Top(e).published]
      /\ UNCHANGED applied
      /\ UNCHANGED [e \in Devices |-> Asking(e)]
      /\ UNCHANGED [e \in Devices |-> StopsPending(e)]
  BY LiftSame
<1>. QED  BY <1>1 DEF Contract!cvars

(* A page that is opened before a rental.                                  *)
LEMMA Browses ==
    ASSUME TypeOK, TypeOK', NEW d \in Devices, OthersSame(d),
           Phase(d) \in {"away", "choosing"},
           Phase(d)' \in {"away", "choosing"},
           Top(d)'.start = Top(d).start,
           Top(d)'.published = Top(d).published,
           applied'[d] = applied[d],
           Asking(d)' = Asking(d), StopsPending(d)' = StopsPending(d)
    PROVE  Contract!Browse(d)
<1>1. /\ UNCHANGED [e \in Devices |-> Top(e).start]
      /\ UNCHANGED [e \in Devices |-> Top(e).published]
      /\ UNCHANGED applied
      /\ UNCHANGED [e \in Devices |-> Asking(e)]
      /\ UNCHANGED [e \in Devices |-> StopsPending(e)]
  BY LiftSame
<1>2. [e \in Devices |-> Phase(e)]'
          = [[e \in Devices |-> Phase(e)] EXCEPT ![d] = Phase(d)']
  BY Lift
<1>. QED  BY <1>1, <1>2 DEF Contract!Browse, Contract!MovePhase

(* A confirmation.                                                         *)
LEMMA Asks ==
    ASSUME TypeOK, TypeOK', NEW d \in Devices, OthersSame(d),
           Phase(d) = "choosing",
           Asking(d)' = TRUE,
           Phase(d)' = Phase(d),
           Top(d)'.start = Top(d).start,
           Top(d)'.published = Top(d).published,
           applied'[d] = applied[d],
           StopsPending(d)' = StopsPending(d)
    PROVE  Contract!Ask(d)
<1>1. /\ UNCHANGED [e \in Devices |-> Phase(e)]
      /\ UNCHANGED [e \in Devices |-> Top(e).start]
      /\ UNCHANGED [e \in Devices |-> Top(e).published]
      /\ UNCHANGED applied
      /\ UNCHANGED [e \in Devices |-> StopsPending(e)]
  BY LiftSame
<1>2. /\ [e \in Devices |-> Asking(e)]'
             = [[e \in Devices |-> Asking(e)] EXCEPT ![d] = Asking(d)']
  BY Lift
<1>. QED
  BY <1>1, <1>2 DEF Contract!Ask

(* The unlock page comes up for a confirmation.                            *)
LEMMA Unlocks ==
    ASSUME TypeOK, TypeOK', NEW d \in Devices, OthersSame(d),
           Asking(d) = TRUE,
           Phase(d) = "choosing",
           Phase(d)' = "unlocking",
           Top(d)'.published \in BOOLEAN,
           Top(d)'.published => applied[d] /\ ~StopsPending(d),
           Top(d)'.start = Top(d).start,
           applied'[d] = applied[d],
           StopsPending(d)' = StopsPending(d)
    PROVE  Contract!Unlock(d)
<1>1. /\ UNCHANGED [e \in Devices |-> Top(e).start]
      /\ UNCHANGED applied
      /\ UNCHANGED [e \in Devices |-> StopsPending(e)]
  BY LiftSame
<1>2. /\ [e \in Devices |-> Phase(e)]'
             = [[e \in Devices |-> Phase(e)] EXCEPT ![d] = Phase(d)']
      /\ [e \in Devices |-> Top(e).published]'
             = [[e \in Devices |-> Top(e).published]
                   EXCEPT ![d] = Top(d)'.published]
      /\ [e \in Devices |-> Asking(e)]'
             = [[e \in Devices |-> Asking(e)] EXCEPT ![d] = Asking(d)']
  BY Lift
<1>. QED
  BY <1>1, <1>2, SeenBoolean DEF Contract!Unlock, Contract!MovePhase

(* The status page comes up.                                               *)
LEMMA Rides ==
    ASSUME TypeOK, TypeOK', NEW d \in Devices, OthersSame(d),
           Phase(d) = "unlocking",
           Phase(d)' = "riding",
           Top(d)'.start \in Times,
           Top(d)'.published = Top(d).published,
           applied'[d] = applied[d],
           Asking(d)' = Asking(d),
           StopsPending(d)' = StopsPending(d)
    PROVE  Contract!Ride(d)
<1>1. /\ UNCHANGED [e \in Devices |-> Top(e).published]
      /\ UNCHANGED applied
      /\ UNCHANGED [e \in Devices |-> Asking(e)]
      /\ UNCHANGED [e \in Devices |-> StopsPending(e)]
  BY LiftSame
<1>2. /\ [e \in Devices |-> Phase(e)]'
             = [[e \in Devices |-> Phase(e)] EXCEPT ![d] = Phase(d)']
      /\ [e \in Devices |-> Top(e).start]'
             = [[e \in Devices |-> Top(e).start] EXCEPT ![d] = Top(d)'.start]
  BY Lift
<1>. QED
  BY <1>1, <1>2 DEF Contract!Ride, Contract!MovePhase

(* The user stops renting.                                                 *)
LEMMA Stops ==
    ASSUME TypeOK, TypeOK', NEW d \in Devices, OthersSame(d),
           Phase(d) \in {"riding", "returned"},
           Phase(d)' = "returned",
           StopsPending(d)' = TRUE,
           Top(d)'.start = Top(d).start,
           Top(d)'.published = Top(d).published,
           applied'[d] = applied[d],
           Asking(d)' = Asking(d)
    PROVE  Contract!Stop(d)
<1>1. /\ UNCHANGED [e \in Devices |-> Top(e).start]
      /\ UNCHANGED [e \in Devices |-> Top(e).published]
      /\ UNCHANGED applied
      /\ UNCHANGED [e \in Devices |-> Asking(e)]
  BY LiftSame
<1>2. /\ [e \in Devices |-> Phase(e)]'
             = [[e \in Devices |-> Phase(e)] EXCEPT ![d] = Phase(d)']
      /\ [e \in Devices |-> StopsPending(e)]'
             = [[e \in Devices |-> StopsPending(e)]
                   EXCEPT ![d] = StopsPending(d)']
  BY Lift
<1>. QED
  BY <1>1, <1>2 DEF Contract!Stop, Contract!MovePhase

(* A completed stop brings the landing page.                               *)
LEMMA Returns ==
    ASSUME TypeOK, TypeOK', NEW d \in Devices, OthersSame(d),
           StopsPending(d) = TRUE,
           Phase(d) = "returned",
           Phase(d)' = "away",
           Top(d)'.start = None,
           Top(d)'.published = FALSE,
           applied'[d] = applied[d],
           Asking(d)' = Asking(d)
    PROVE  Contract!Return(d)
<1>1. /\ UNCHANGED applied
      /\ UNCHANGED [e \in Devices |-> Asking(e)]
  BY LiftSame
<1>2. /\ [e \in Devices |-> Phase(e)]'
             = [[e \in Devices |-> Phase(e)] EXCEPT ![d] = Phase(d)']
      /\ [e \in Devices |-> Top(e).start]'
             = [[e \in Devices |-> Top(e).start] EXCEPT ![d] = Top(d)'.start]
      /\ [e \in Devices |-> Top(e).published]'
             = [[e \in Devices |-> Top(e).published]
                   EXCEPT ![d] = Top(d)'.published]
      /\ [e \in Devices |-> StopsPending(e)]'
             = [[e \in Devices |-> StopsPending(e)]
                   EXCEPT ![d] = StopsPending(d)']
  BY Lift
<1>. QED
  BY <1>1, <1>2, SeenBoolean DEF Contract!Return, Contract!MovePhase

(* A completion that comes too late to matter.                             *)
LEMMA Settles ==
    ASSUME TypeOK, TypeOK', NEW d \in Devices, OthersSame(d),
           Asking(d)' \in {FALSE, Asking(d)},
           StopsPending(d)' \in {FALSE, StopsPending(d)},
           Phase(d)' = Phase(d),
           Top(d)'.start = Top(d).start,
           Top(d)'.published = Top(d).published,
           applied'[d] = applied[d]
    PROVE  Contract!Settle(d)
<1>1. /\ UNCHANGED [e \in Devices |-> Phase(e)]
      /\ UNCHANGED [e \in Devices |-> Top(e).start]
      /\ UNCHANGED [e \in Devices |-> Top(e).published]
      /\ UNCHANGED applied
  BY LiftSame
<1>2. /\ [e \in Devices |-> Asking(e)]'
             = [[e \in Devices |-> Asking(e)] EXCEPT ![d] = Asking(d)']
      /\ [e \in Devices |-> StopsPending(e)]'
             = [[e \in Devices |-> StopsPending(e)]
                   EXCEPT ![d] = StopsPending(d)']
  BY Lift
<1>. QED
  BY <1>1, <1>2 DEF Contract!Settle

(* The server takes a confirmation.                                        *)
LEMMA Raises ==
    ASSUME TypeOK, TypeOK', NEW d \in Devices, OthersSame(d),
           Asking(d) = TRUE,
           applied'[d] = TRUE,
           Phase(d)' = Phase(d),
           Top(d)'.start = Top(d).start,
           Top(d)'.published = Top(d).published,
           Asking(d)' = Asking(d),
           StopsPending(d)' = StopsPending(d)
    PROVE  Contract!Raise(d)
<1>1. /\ UNCHANGED [e \in Devices |-> Phase(e)]
      /\ UNCHANGED [e \in Devices |-> Top(e).start]
      /\ UNCHANGED [e \in Devices |-> Top(e).published]
      /\ UNCHANGED [e \in Devices |-> Asking(e)]
      /\ UNCHANGED [e \in Devices |-> StopsPending(e)]
  BY LiftSame
<1>2. /\ applied'
             = [applied EXCEPT ![d] = applied'[d]]
  BY Lift
<1>. QED
  BY <1>1, <1>2 DEF Contract!Raise

(* The server takes a stop.                                                *)
LEMMA Lowers ==
    ASSUME TypeOK, TypeOK', NEW d \in Devices, OthersSame(d),
           StopsPending(d) = TRUE,
           applied'[d] = FALSE,
           Phase(d)' = Phase(d),
           Top(d)'.start = Top(d).start,
           Top(d)'.published = Top(d).published,
           Asking(d)' = Asking(d),
           StopsPending(d)' = StopsPending(d)
    PROVE  Contract!Lower(d)
<1>1. /\ UNCHANGED [e \in Devices |-> Phase(e)]
      /\ UNCHANGED [e \in Devices |-> Top(e).start]
      /\ UNCHANGED [e \in Devices |-> Top(e).published]
      /\ UNCHANGED [e \in Devices |-> Asking(e)]
      /\ UNCHANGED [e \in Devices |-> StopsPending(e)]
  BY LiftSame
<1>2. /\ applied'
             = [applied EXCEPT ![d] = applied'[d]]
  BY Lift
<1>. QED
  BY <1>1, <1>2 DEF Contract!Lower

(* A restart.                                                              *)
LEMMA Restarts ==
    ASSUME TypeOK, TypeOK', NEW d \in Devices, OthersSame(d),
           Phase(d)' = "away",
           Top(d)'.start = None,
           Top(d)'.published = FALSE,
           Asking(d)' = FALSE,
           StopsPending(d)' = FALSE,
           applied'[d] = applied[d]
    PROVE  Contract!Restart(d)
<1>1. /\ UNCHANGED applied
  BY LiftSame
<1>2. /\ [e \in Devices |-> Phase(e)]'
             = [[e \in Devices |-> Phase(e)] EXCEPT ![d] = Phase(d)']
      /\ [e \in Devices |-> Top(e).start]'
             = [[e \in Devices |-> Top(e).start] EXCEPT ![d] = Top(d)'.start]
      /\ [e \in Devices |-> Top(e).published]'
             = [[e \in Devices |-> Top(e).published]
                   EXCEPT ![d] = Top(d)'.published]
      /\ [e \in Devices |-> Asking(e)]'
             = [[e \in Devices |-> Asking(e)] EXCEPT ![d] = Asking(d)']
      /\ [e \in Devices |-> StopsPending(e)]'
             = [[e \in Devices |-> StopsPending(e)]
                   EXCEPT ![d] = StopsPending(d)']
  BY Lift
<1>. QED
  BY <1>1, <1>2 DEF Contract!Restart

-----------------------------------------------------------------------------
(***************************************************************************)
(* Every step of the rental flow is a step of the contract.                *)
(***************************************************************************)
SameSteps(d) ==
    /\ writes'[d] = writes[d]
    /\ SameQueues(d)

(* The same queues mean the same outstanding calls.                        *)
LEMMA SameOutstanding ==
    ASSUME NEW d, SameSteps(d)
    PROVE  Asking(d)' = Asking(d) /\ StopsPending(d)' = StopsPending(d)
<1>1. /\ Asking(d)' <=> Asking(d)
      /\ StopsPending(d)' <=> StopsPending(d)
  BY DEF SameSteps, SameQueues, Asking, StopsPending
<1>. QED  BY <1>1, SeenBoolean

(* What one device does the contract does not see at the others.           *)
LEMMA OthersSee ==
    ASSUME TypeOK, NEW d \in Devices,
           UserStep(d) \/ SystemStep(d) \/ Kill(d)
    PROVE  OthersSame(d)
<1>. SUFFICES ASSUME NEW e \in Devices, e # d
              PROVE  SameSeen(e)
  BY DEF OthersSame
<1>1. Same(e) /\ SameQueues(e)
  BY OtherDevices, OtherQueues
<1>2. Asking(e)' = Asking(e) /\ StopsPending(e)' = StopsPending(e)
  BY <1>1, SameOutstanding DEF Same, SameCalls, SameSteps
<1>3. Top(e)' = Top(e) /\ Phase(e)' = Phase(e)
  BY <1>1 DEF Same, Top, Phase, Riding, Stopped
<1>. QED
  BY <1>1, <1>2, <1>3 DEF SameSeen, SameQueues

(* A step that leaves pages, answers and outstanding calls alone.          *)
LEMMA KeepsPage ==
    ASSUME TypeOK, TypeOK', NEW d \in Devices, OthersSame(d), PlainTop(d),
           stack'[d] = stack[d], applied'[d] = applied[d],
           Asking(d)' = Asking(d), StopsPending(d)' = StopsPending(d)
    PROVE  ContractStep /\ PlainTop(d)'
<1>1. Top(d)' = Top(d) /\ Phase(d)' = Phase(d)
  BY DEF Top, Phase, Riding, Stopped
<1>2. SameSeen(d)
  BY <1>1 DEF SameSeen
<1>. QED
  BY <1>1, <1>2, Unseen DEF ContractStep, PlainTop

(* A page opened before a rental.                                          *)
LEMMA OpensPage ==
    ASSUME TypeOK, TypeOK', NEW d \in Devices, OthersSame(d), PlainTop(d),
           NEW s \in {"landing", "serial", "select", "card"},
           Top(d).screen \notin {"unlock", "status"},
           stack'[d] = Append(stack[d], Fresh(s)), applied'[d] = applied[d],
           Asking(d)' = Asking(d), StopsPending(d)' = StopsPending(d)
    PROVE  ContractStep /\ PlainTop(d)'
<1>1. Top(d)' = Fresh(s)
  BY FreshType, Grows DEF Screens
<1>2. /\ Top(d)'.screen = s /\ Top(d)'.start = None
      /\ Top(d)'.published = FALSE
  BY <1>1 DEF Fresh
<1>3. Phase(d) \in {"away", "choosing"}
  BY TopType, PhaseIs DEF View, Screens
<1>4. Phase(d)' \in {"away", "choosing"}
  BY <1>2, PhaseBecomes
<1>5. Top(d)'.start = Top(d).start /\ Top(d)'.published = Top(d).published
  BY <1>2, TopType DEF PlainTop, View
<1>6. Contract!Browse(d)
  BY <1>3, <1>4, <1>5, Browses
<1>. QED
  BY <1>2, <1>6 DEF ContractStep, Contract!Next, PlainTop

(* Every step of the user.                                                 *)
LEMMA UserImplements ==
    ASSUME TypeOK, TypeOK', NEW d \in Devices, OthersSame(d), PlainTop(d),
           UserStep(d)
    PROVE  ContractStep /\ PlainTop(d)'
<1>. USE DEF memory, fire, net, server, ui
<1>1. ASSUME NEW s \in {"landing", "serial", "select", "card"}, Open(d, s),
             ~alert[d], Top(d).screen \notin {"unlock", "status"}
      PROVE  ContractStep /\ PlainTop(d)'
  <2>1. stack'[d] = Append(stack[d], Fresh(s)) /\ SameSteps(d)
    BY <1>1 DEF Open, PresentBy, CanPresent, SameSteps, SameQueues, TypeOK
  <2>. QED
    BY <1>1, <2>1, OpensPage, SameOutstanding DEF SameSteps, SameQueues
<1>2. ASSUME ShowAlert(d) \/ CloseAlert(d)
      PROVE  ContractStep /\ PlainTop(d)'
  <2>1. stack'[d] = stack[d] /\ SameSteps(d)
    BY <1>2 DEF ShowAlert, CloseAlert, SameSteps, SameQueues
  <2>. QED
    BY <2>1, KeepsPage, SameOutstanding DEF SameSteps, SameQueues
<1>3. CASE SignIn(d)
  <2>1. /\ stack'[d] = Append(stack[d], Fresh("landing")) /\ SameSteps(d)
        /\ Top(d).screen = "login"
    BY <1>3 DEF SignIn, Showing, PresentBy, CanPresent, SameSteps, SameQueues,
                TypeOK
  <2>. QED
    BY <2>1, OpensPage, SameOutstanding DEF SameSteps, SameQueues
<1>4. CASE \/ RentButton(d) \/ SerialBack(d) \/ PaymentBack(d)
          \/ AddCardRow(d) \/ CardBack(d) \/ ReopenLogin(d)
  BY <1>4, <1>1 DEF RentButton, SerialBack, PaymentBack, AddCardRow, CardBack,
                    ReopenLogin, Showing
<1>5. ASSUME NEW code \in Codes, NextButton(d, code)
      PROVE  ContractStep /\ PlainTop(d)'
  BY <1>5, <1>1, <1>2 DEF NextButton, Showing
<1>6. CASE SelectCard(d)
  <2>. PICK v : v = [Top(d) EXCEPT !.card = TRUE]
    OBVIOUS
  <2>1. /\ stack'[d] = [stack[d] EXCEPT ![Len(stack[d])] = v]
        /\ SameSteps(d) /\ Top(d).screen = "select"
    BY <1>6 DEF SelectCard, Showing, SameSteps, SameQueues, TypeOK, Top
  <2>2. /\ v \in View /\ v.screen = "select" /\ v.start = Top(d).start
        /\ v.published = Top(d).published
    BY <2>1, TopType DEF View
  <2>3. Top(d)' = v
    BY <2>1, <2>2, TopField
  <2>4. Phase(d) = "choosing" /\ Phase(d)' = "choosing"
    <3>1. Top(d)'.screen = "select"
      BY <2>2, <2>3
    <3>. QED  BY <2>1, <3>1, PhaseIs, PhaseBecomes
  <2>5. Contract!Browse(d)
    BY <2>1, <2>2, <2>3, <2>4, Browses, SameOutstanding
       DEF SameSteps, SameQueues
  <2>. QED
    BY <2>1, <2>2, <2>3, <2>5 DEF ContractStep, Contract!Next, PlainTop
<1>7. ASSUME NEW t \in Times, ConfirmButton(d, t), ~ShowAlert(d)
      PROVE  ContractStep /\ PlainTop(d)'
  <2>. PICK w : w = [time |-> t, by |-> Len(stack[d])]
    OBVIOUS
  <2>1. /\ stack' = stack /\ SameQueues(d) /\ writes'[d] = Append(writes[d], w)
        /\ Top(d).screen = "select" /\ writes[d] \in Seq(Writes)
    BY <1>7 DEF ConfirmButton, Showing, SameQueues, TypeOK
  <2>2. w \in Writes /\ w.time = t /\ w.by # 0
    BY TopType DEF Writes
  <2>3. /\ Len(writes'[d]) \in 1 .. Len(writes'[d])
        /\ writes'[d][Len(writes'[d])] = w
    BY <2>1, <2>2, AppendProperties, LenProperties
  <2>4. Asking(d)'
    BY <2>2, <2>3, RentalAssumption DEF Asking
  <2>5. StopsPending(d)' = StopsPending(d)
    <3>1. StopsPending(d)' <=> StopsPending(d)
      BY <2>1 DEF SameQueues, StopsPending
    <3>. QED  BY <3>1, SeenBoolean
  <2>6. /\ Top(d)' = Top(d) /\ Phase(d)' = Phase(d) /\ Phase(d) = "choosing"
    BY <2>1, PhaseIs DEF Top, Phase, Riding, Stopped
  <2>7. Contract!Ask(d)
    <3>1. Asking(d)' = TRUE
      BY <2>4, SeenBoolean
    <3>. QED  BY <2>1, <2>5, <2>6, <3>1, Asks DEF SameQueues
  <2>. QED
    BY <2>6, <2>7 DEF ContractStep, Contract!Next, PlainTop
<1>8. CASE StopButton(d)
  <2>. PICK v : v = [Top(d) EXCEPT !.ticking = FALSE]
    OBVIOUS
  <2>. PICK p : p = [value |-> FALSE, by |-> Len(stack[d])]
    OBVIOUS
  <2>1. /\ stack'[d] = [stack[d] EXCEPT ![Len(stack[d])] = v]
        /\ puts'[d] = Append(puts[d], p) /\ puts[d] \in Seq(Puts)
        /\ writes' = writes /\ completions' = completions /\ applied' = applied
        /\ Top(d).screen = "status"
    BY <1>8 DEF StopButton, Showing, TypeOK, Top
  <2>2. /\ v \in View /\ v.screen = "status" /\ ~v.ticking
        /\ v.start = Top(d).start /\ v.published = Top(d).published
    BY <2>1, TopType DEF View
  <2>3. Top(d)' = v
    BY <2>1, <2>2, TopField
  <2>4. Phase(d) \in {"riding", "returned"} /\ Phase(d)' = "returned"
    <3>1. Stopped(d)' /\ (Riding(d) \/ Stopped(d))
      BY <2>1, <2>2, <2>3 DEF Riding, Stopped
    <3>. QED  BY <3>1, PhaseIs, PhaseBecomes
  <2>5. p \in Puts /\ ~p.value
    BY TopType DEF Puts
  <2>6. /\ Len(puts[d]) \in Nat /\ Len(puts'[d]) = Len(puts[d]) + 1
        /\ \A k \in 1 .. Len(puts[d]) : puts'[d][k] = puts[d][k]
        /\ puts'[d][Len(puts[d]) + 1] = p
    BY <2>1, <2>5, AppendProperties, LenProperties
  <2>7. Asking(d)' <=> Asking(d)
    BY <2>1, <2>5, <2>6 DEF Asking
  <2>8. StopsPending(d)'
    BY <2>5, <2>6 DEF StopsPending
  <2>9. Contract!Stop(d)
    <3>1. StopsPending(d)' = TRUE /\ Asking(d)' = Asking(d)
      BY <2>7, <2>8, SeenBoolean
    <3>. QED  BY <2>1, <2>2, <2>3, <2>4, <3>1, Stops
  <2>. QED
    BY <2>2, <2>3, <2>9 DEF ContractStep, Contract!Next, PlainTop
<1>9. ASSUME DoneButton(d), ~ShowAlert(d)
      PROVE  ContractStep /\ PlainTop(d)'
  <2>. PICK w : w = [time |-> None, by |-> Len(stack[d])]
    OBVIOUS
  <2>1. /\ stack' = stack /\ SameQueues(d) /\ writes'[d] = Append(writes[d], w)
        /\ writes[d] \in Seq(Writes)
    BY <1>9 DEF DoneButton, Showing, SameQueues, TypeOK
  <2>2. w \in Writes /\ w.time = None
    BY TopType DEF Writes
  <2>3. /\ Len(writes[d]) \in Nat /\ Len(writes'[d]) = Len(writes[d]) + 1
        /\ \A k \in 1 .. Len(writes[d]) : writes'[d][k] = writes[d][k]
        /\ writes'[d][Len(writes[d]) + 1] = w
    BY <2>1, <2>2, AppendProperties, LenProperties
  <2>4. /\ Asking(d)' <=> Asking(d)
        /\ StopsPending(d)' <=> StopsPending(d)
    <3>1. /\ \A k \in 1 .. Len(writes'[d]) : writes'[d][k].time # None =>
                 k \in 1 .. Len(writes[d]) /\ writes'[d][k] = writes[d][k]
          /\ \A k \in 1 .. Len(writes[d]) :
                 k \in 1 .. Len(writes'[d]) /\ writes'[d][k] = writes[d][k]
      BY <2>2, <2>3
    <3>2. Asking(d)' <=> Asking(d)
      BY <2>1, <3>1 DEF Asking, SameQueues
    <3>3. StopsPending(d)' <=> StopsPending(d)
      BY <2>1 DEF StopsPending, SameQueues
    <3>. QED  BY <3>2, <3>3
  <2>. QED
    BY <2>1, <2>4, SeenBoolean, KeepsPage DEF SameQueues
<1>10. CASE SignInFails(d)
  <2>1. stack'[d] = stack[d] /\ SameSteps(d)
    BY <1>10 DEF SignInFails, SameSteps, SameQueues
  <2>. QED
    BY <2>1, KeepsPage, SameOutstanding DEF SameSteps, SameQueues
<1>. QED
  BY <1>2, <1>3, <1>4, <1>5, <1>6, <1>7, <1>8, <1>9, <1>10
     DEF UserStep, ConfirmButton, DoneButton

(* Firestore's completion turns a write into a put, and the confirmation   *)
(* stays outstanding.                                                      *)
LEMMA StartDecidedImplements ==
    ASSUME TypeOK, TypeOK', NEW d \in Devices, OthersSame(d), PlainTop(d),
           NEW ok \in BOOLEAN, StartDecided(d, ok)
    PROVE  ContractStep /\ PlainTop(d)'
<1>. PICK w : w = Head(writes[d])
  OBVIOUS
<1>. PICK p : p = [value |-> TRUE, by |-> w.by]
  OBVIOUS
<1>1. /\ writes[d] # <<>> /\ writes[d] \in Seq(Writes) /\ puts[d] \in Seq(Puts)
      /\ writes'[d] = Tail(writes[d]) /\ w.time # None
      /\ stack' = stack /\ completions' = completions /\ applied' = applied
      /\ \/ w.by = 0 /\ puts'[d] = puts[d]
         \/ w.by # 0 /\ puts'[d] = Append(puts[d], p)
  BY DEF StartDecided, TypeOK, server
<1>2. /\ 1 \in 1 .. Len(writes[d]) /\ w = writes[d][1]
      /\ Len(writes[d]) \in Nat /\ Len(writes'[d]) = Len(writes[d]) - 1
      /\ \A k \in 1 .. Len(writes'[d]) :
             k + 1 \in 1 .. Len(writes[d]) /\ writes'[d][k] = writes[d][k + 1]
  BY <1>1, Left
<1>3. \A k \in 1 .. Len(writes[d]) : k # 1 =>
          /\ k - 1 \in 1 .. Len(writes'[d])
          /\ writes'[d][k - 1] = writes[d][k]
  BY <1>1, Behind
<1>4. (Asking(d)' <=> Asking(d)) /\ (StopsPending(d)' <=> StopsPending(d))
  <2>1. CASE w.by = 0 /\ puts'[d] = puts[d]
    <3>1. (\E k \in 1 .. Len(writes[d]) :
              writes[d][k].by # 0 /\ writes[d][k].time # None)
          <=> (\E k \in 1 .. Len(writes'[d]) :
                  writes'[d][k].by # 0 /\ writes'[d][k].time # None)
      <4>1. ASSUME NEW k \in 1 .. Len(writes[d]),
                   writes[d][k].by # 0 /\ writes[d][k].time # None
            PROVE  \E j \in 1 .. Len(writes'[d]) :
                       writes'[d][j].by # 0 /\ writes'[d][j].time # None
        <5>1. k # 1
          BY <2>1, <4>1, <1>2
        <5>. QED  BY <4>1, <5>1, <1>3
      <4>2. ASSUME NEW k \in 1 .. Len(writes'[d]),
                   writes'[d][k].by # 0 /\ writes'[d][k].time # None
            PROVE  \E j \in 1 .. Len(writes[d]) :
                       writes[d][j].by # 0 /\ writes[d][j].time # None
        BY <4>2, <1>2
      <4>. QED  BY <4>1, <4>2
    <3>. QED  BY <2>1, <3>1, <1>1 DEF Asking, StopsPending
  <2>2. CASE w.by # 0 /\ puts'[d] = Append(puts[d], p)
    <3>1. p \in Puts /\ p.value = TRUE
      BY <1>1, HeadTailProperties DEF Puts, Writes
    <3>2. /\ Len(puts[d]) \in Nat /\ Len(puts'[d]) = Len(puts[d]) + 1
          /\ \A k \in 1 .. Len(puts[d]) : puts'[d][k] = puts[d][k]
          /\ puts'[d][Len(puts[d]) + 1] = p
      BY <2>2, <1>1, <3>1, AppendProperties, LenProperties
    <3>3. Asking(d)
      BY <2>2, <1>1, <1>2 DEF Asking
    <3>4. Asking(d)'
      BY <3>1, <3>2 DEF Asking
    <3>5. /\ \A k \in 1 .. Len(puts'[d]) : ~puts'[d][k].value =>
                 k \in 1 .. Len(puts[d]) /\ puts'[d][k] = puts[d][k]
          /\ \A k \in 1 .. Len(puts[d]) :
                 k \in 1 .. Len(puts'[d]) /\ puts'[d][k] = puts[d][k]
      BY <3>1, <3>2
    <3>6. StopsPending(d)' <=> StopsPending(d)
      BY <3>5, <1>1 DEF StopsPending
    <3>. QED  BY <3>3, <3>4, <3>6
  <2>. QED  BY <2>1, <2>2, <1>1
<1>. QED
  BY <1>1, <1>4, SeenBoolean, KeepsPage

(* A decided card concerns no rental: it may open a payment selection.     *)
LEMMA CardDecidedImplements ==
    ASSUME TypeOK, TypeOK', NEW d \in Devices, OthersSame(d), PlainTop(d),
           DeviceInv(d), NEW ok \in BOOLEAN, CardDecided(d, ok)
    PROVE  ContractStep /\ PlainTop(d)'
<1>. PICK w : w = Head(writes[d])
  OBVIOUS
<1>1. /\ writes[d] # <<>> /\ writes[d] \in Seq(Writes)
      /\ writes'[d] = Tail(writes[d]) /\ w.time = None
      /\ puts' = puts /\ completions' = completions /\ applied' = applied
      /\ \/ stack'[d] = stack[d]
         \/ stack'[d] = Append(stack[d], Fresh("select"))
            /\ w.by = Len(stack[d])
  BY DEF CardDecided, PresentBy, CanPresent, TypeOK, net, server
<1>2. /\ 1 \in 1 .. Len(writes[d]) /\ w = writes[d][1]
      /\ Len(writes[d]) \in Nat /\ Len(writes'[d]) = Len(writes[d]) - 1
      /\ \A k \in 1 .. Len(writes'[d]) :
             k + 1 \in 1 .. Len(writes[d]) /\ writes'[d][k] = writes[d][k + 1]
  BY <1>1, Left
<1>3. \A k \in 1 .. Len(writes[d]) : k # 1 =>
          /\ k - 1 \in 1 .. Len(writes'[d])
          /\ writes'[d][k - 1] = writes[d][k]
  BY <1>1, Behind
<1>4. (\E k \in 1 .. Len(writes[d]) :
          writes[d][k].by # 0 /\ writes[d][k].time # None)
      <=> (\E k \in 1 .. Len(writes'[d]) :
              writes'[d][k].by # 0 /\ writes'[d][k].time # None)
  <2>1. ASSUME NEW k \in 1 .. Len(writes[d]),
               writes[d][k].by # 0 /\ writes[d][k].time # None
        PROVE  \E j \in 1 .. Len(writes'[d]) :
                   writes'[d][j].by # 0 /\ writes'[d][j].time # None
    <3>1. k # 1
      BY <2>1, <1>1, <1>2
    <3>. QED  BY <2>1, <3>1, <1>3
  <2>2. ASSUME NEW k \in 1 .. Len(writes'[d]),
               writes'[d][k].by # 0 /\ writes'[d][k].time # None
        PROVE  \E j \in 1 .. Len(writes[d]) :
                   writes[d][j].by # 0 /\ writes[d][j].time # None
    BY <2>2, <1>2
  <2>. QED  BY <2>1, <2>2
<1>5. Asking(d)' = Asking(d) /\ StopsPending(d)' = StopsPending(d)
  <2>1. (Asking(d)' <=> Asking(d)) /\ (StopsPending(d)' <=> StopsPending(d))
    BY <1>1, <1>4 DEF Asking, StopsPending
  <2>. QED  BY <2>1, SeenBoolean
<1>6. CASE stack'[d] = stack[d]
  BY <1>1, <1>5, <1>6, KeepsPage
<1>7. CASE /\ stack'[d] = Append(stack[d], Fresh("select"))
           /\ w.by = Len(stack[d])
  <2>1. FromCard(d, w.by)
    BY <1>1, <1>2, <1>7, TopType DEF DeviceInv, WritesFit
  <2>2. Top(d).screen = "card"
    BY <1>7, <2>1 DEF FromCard, Top
  <2>. QED
    BY <1>1, <1>5, <1>7, <2>2, OpensPage
<1>. QED  BY <1>1, <1>6, <1>7

(* The server's answers raise the flag for a confirmation and lower it for *)
(* a stop.                                                                 *)
LEMMA ServerPutImplements ==
    ASSUME TypeOK, TypeOK', NEW d \in Devices, OthersSame(d), PlainTop(d),
           NEW ok \in BOOLEAN, ServerPut(d, ok)
    PROVE  ContractStep /\ PlainTop(d)'
<1>. PICK m : m = Len(acks[d]) + 1
  OBVIOUS
<1>1. /\ stack' = stack /\ puts' = puts /\ completions' = completions
      /\ writes' = writes
      /\ applied'[d] = IF ok THEN puts[d][m].value ELSE applied[d]
      /\ Len(acks[d]) < Len(puts[d])
      /\ acks[d] \in Seq(BOOLEAN) /\ puts[d] \in Seq(Puts)
  BY DEF ServerPut, TypeOK, ui, fire
<1>2. m \in 1 .. Len(puts[d])
  BY <1>1, LenProperties
<1>3. puts[d][m].value \in BOOLEAN
  BY <1>2, EntriesType DEF Puts
<1>4. Asking(d)' = Asking(d) /\ StopsPending(d)' = StopsPending(d)
  <2>1. (Asking(d)' <=> Asking(d)) /\ (StopsPending(d)' <=> StopsPending(d))
    BY <1>1 DEF Asking, StopsPending
  <2>. QED  BY <2>1, SeenBoolean
<1>5. Top(d)' = Top(d) /\ Phase(d)' = Phase(d)
  BY <1>1 DEF Top, Phase, Riding, Stopped
<1>6. PlainTop(d)'
  BY <1>5 DEF PlainTop
<1>7. CASE ~ok
  BY <1>1, <1>4, <1>7, KeepsPage
<1>8. CASE ok /\ puts[d][m].value
  <2>1. Asking(d)
    BY <1>2, <1>8 DEF Asking
  <2>2. Asking(d) = TRUE /\ applied'[d] = TRUE
    BY <2>1, <1>1, <1>3, <1>8, SeenBoolean
  <2>3. Contract!Raise(d)
    BY <2>2, <1>4, <1>5, Raises
  <2>. QED
    BY <2>3, <1>6 DEF ContractStep, Contract!Next
<1>9. CASE ok /\ ~puts[d][m].value
  <2>1. StopsPending(d)
    BY <1>2, <1>9 DEF StopsPending
  <2>2. StopsPending(d) = TRUE /\ applied'[d] = FALSE
    BY <2>1, <1>1, <1>3, <1>9, SeenBoolean
  <2>3. Contract!Lower(d)
    BY <2>2, <1>4, <1>5, Lowers
  <2>. QED
    BY <2>3, <1>6 DEF ContractStep, Contract!Next
<1>. QED  BY <1>7, <1>8, <1>9

(* An answered put is as outstanding as before.                            *)
LEMMA PutAckedImplements ==
    ASSUME TypeOK, TypeOK', NEW d \in Devices, OthersSame(d), PlainTop(d),
           PutAcked(d)
    PROVE  ContractStep /\ PlainTop(d)'
<1>. PICK p : p = Head(puts[d])
  OBVIOUS
<1>. PICK c : c = [value |-> p.value, by |-> p.by, ok |-> Head(acks[d])]
  OBVIOUS
<1>. PICK n \in Nat : n = Len(completions[d])
  BY EntriesType
<1>1. /\ puts[d] \in Seq(Puts) /\ completions[d] \in Seq(Completions)
      /\ acks[d] \in Seq(BOOLEAN) /\ acks[d] # <<>>
      /\ puts'[d] = Tail(puts[d])
      /\ completions'[d] = Append(completions[d], c)
      /\ stack' = stack /\ applied' = applied /\ writes' = writes
  BY DEF PutAcked, TypeOK, ui, server, fire
<1>2. puts[d] # <<>>
  <2>1. Len(acks[d]) <= Len(puts[d])
    BY DEF TypeOK
  <2>. QED  BY <2>1, <1>1, EmptySeq
<1>3. /\ 1 \in 1 .. Len(puts[d]) /\ p = puts[d][1]
      /\ \A k \in 1 .. Len(puts'[d]) :
             k + 1 \in 1 .. Len(puts[d]) /\ puts'[d][k] = puts[d][k + 1]
      /\ \A k \in 1 .. Len(puts[d]) : k # 1 =>
             k - 1 \in 1 .. Len(puts'[d]) /\ puts'[d][k - 1] = puts[d][k]
  BY <1>1, <1>2, Left, Behind
<1>4. c \in Completions /\ c.value = p.value
  <2>1. p \in Puts /\ Head(acks[d]) \in BOOLEAN
    BY <1>1, <1>2, HeadTailProperties
  <2>. QED  BY <2>1 DEF Puts, Completions
<1>5. /\ Len(completions'[d]) = n + 1
      /\ \A k \in 1 .. n : completions'[d][k] = completions[d][k]
      /\ completions'[d][n + 1] = c
  BY <1>1, <1>4, AppendProperties, LenProperties
<1>6. \A k \in 1 .. Len(completions'[d]) : k \in 1 .. n \/ k = n + 1
  BY <1>5
<1>7. ASSUME NEW b \in BOOLEAN
      PROVE  (\/ \E k \in 1 .. Len(puts[d]) : puts[d][k].value = b
              \/ \E k \in 1 .. Len(completions[d]) :
                     completions[d][k].value = b)
             <=> (\/ \E k \in 1 .. Len(puts'[d]) : puts'[d][k].value = b
                  \/ \E k \in 1 .. Len(completions'[d]) :
                         completions'[d][k].value = b)
  <2>1. ASSUME NEW k \in 1 .. Len(puts[d]), puts[d][k].value = b
        PROVE  \/ \E j \in 1 .. Len(puts'[d]) : puts'[d][j].value = b
               \/ \E j \in 1 .. Len(completions'[d]) :
                      completions'[d][j].value = b
    <3>1. CASE k = 1
      BY <2>1, <3>1, <1>3, <1>4, <1>5
    <3>2. CASE k # 1
      BY <2>1, <3>2, <1>3
    <3>. QED  BY <3>1, <3>2
  <2>2. ASSUME NEW k \in 1 .. Len(completions[d]), completions[d][k].value = b
        PROVE  \E j \in 1 .. Len(completions'[d]) :
                   completions'[d][j].value = b
    BY <2>2, <1>5
  <2>3. ASSUME NEW k \in 1 .. Len(puts'[d]), puts'[d][k].value = b
        PROVE  \E j \in 1 .. Len(puts[d]) : puts[d][j].value = b
    BY <2>3, <1>3
  <2>4. ASSUME NEW k \in 1 .. Len(completions'[d]),
               completions'[d][k].value = b
        PROVE  \/ \E j \in 1 .. Len(puts[d]) : puts[d][j].value = b
               \/ \E j \in 1 .. Len(completions[d]) :
                      completions[d][j].value = b
    <3>1. CASE k = n + 1
      BY <2>4, <3>1, <1>3, <1>4, <1>5
    <3>2. CASE k \in 1 .. n
      BY <2>4, <3>2, <1>5
    <3>. QED  BY <3>1, <3>2, <1>6
  <2>. QED  BY <2>1, <2>2, <2>3, <2>4
<1>8. /\ \A k \in 1 .. Len(puts[d]) : puts[d][k].value \in BOOLEAN
      /\ \A k \in 1 .. Len(completions[d]) :
             completions[d][k].value \in BOOLEAN
      /\ \A k \in 1 .. Len(puts'[d]) : puts'[d][k].value \in BOOLEAN
      /\ \A k \in 1 .. Len(completions'[d]) :
             completions'[d][k].value \in BOOLEAN
  <2>1. /\ \A k \in 1 .. Len(puts[d]) : puts[d][k].value \in BOOLEAN
        /\ \A k \in 1 .. Len(completions[d]) :
               completions[d][k].value \in BOOLEAN
    BY EntriesType DEF Puts, Completions
  <2>. QED
    BY <2>1, <1>3, <1>4, <1>5, <1>6
<1>9. Asking(d)' <=> Asking(d)
  BY <1>1, <1>7, <1>8 DEF Asking
<1>10. StopsPending(d)' <=> StopsPending(d)
  BY <1>7, <1>8 DEF StopsPending
<1>. QED
  BY <1>1, <1>9, <1>10, SeenBoolean, KeepsPage

(* A completion presents the unlock page for an outstanding confirmation,  *)
(* the landing page for an outstanding stop, or nothing.                   *)
LEMMA PutCompletedImplements ==
    ASSUME TypeOK, TypeOK', NEW d \in Devices, OthersSame(d), PlainTop(d),
           DeviceInv(d), HonouringKept(d)', PutCompleted(d)
    PROVE  ContractStep /\ PlainTop(d)'
<1>. PICK c : c = Head(completions[d])
  OBVIOUS
<1>. PICK v : v = IF c.value
                  THEN [Fresh("unlock") EXCEPT !.published = c.ok]
                  ELSE Fresh("landing")
  OBVIOUS
<1>1. /\ completions[d] \in Seq(Completions) /\ completions[d] # <<>>
      /\ completions'[d] = Tail(completions[d])
      /\ puts' = puts /\ applied' = applied /\ writes' = writes
      /\ \/ stack'[d] = stack[d]
         \/ stack'[d] = Append(stack[d], v) /\ c.by = Len(stack[d])
  BY DEF PutCompleted, PresentBy, CanPresent, TypeOK, server, fire
<1>2. /\ 1 \in 1 .. Len(completions[d]) /\ c = completions[d][1]
      /\ \A k \in 1 .. Len(completions'[d]) :
             /\ k + 1 \in 1 .. Len(completions[d])
             /\ completions'[d][k] = completions[d][k + 1]
      /\ \A k \in 1 .. Len(completions[d]) : k # 1 =>
             /\ k - 1 \in 1 .. Len(completions'[d])
             /\ completions'[d][k - 1] = completions[d][k]
  BY <1>1, Left, Behind
<1>3. c.value \in BOOLEAN /\ c.ok \in BOOLEAN
  BY <1>2, EntriesType DEF Completions
<1>4. /\ Asking(d)' => Asking(d)
      /\ StopsPending(d)' => StopsPending(d)
      /\ c.value => Asking(d) /\ (StopsPending(d) => StopsPending(d)')
      /\ ~c.value => StopsPending(d) /\ (Asking(d) => Asking(d)')
  <2>1. (Asking(d)' => Asking(d)) /\ (StopsPending(d)' => StopsPending(d))
    BY <1>1, <1>2 DEF Asking, StopsPending
  <2>2. (c.value => Asking(d)) /\ (~c.value => StopsPending(d))
    BY <1>2 DEF Asking, StopsPending
  <2>3. ASSUME c.value
        PROVE  \A k \in 1 .. Len(completions[d]) : ~completions[d][k].value =>
                   \E j \in 1 .. Len(completions'[d]) :
                       ~completions'[d][j].value
    BY <2>3, <1>2
  <2>4. ASSUME ~c.value
        PROVE  \A k \in 1 .. Len(completions[d]) : completions[d][k].value =>
                   \E j \in 1 .. Len(completions'[d]) :
                       completions'[d][j].value
    BY <2>4, <1>2
  <2>5. c.value => (StopsPending(d) => StopsPending(d)')
    BY <2>3, <1>1 DEF StopsPending
  <2>6. ~c.value => (Asking(d) => Asking(d)')
    BY <2>4, <1>1 DEF Asking
  <2>. QED  BY <2>1, <2>2, <2>5, <2>6
<1>5. CASE stack'[d] = stack[d]
  <2>1. /\ Asking(d)' \in {FALSE, Asking(d)}
        /\ StopsPending(d)' \in {FALSE, StopsPending(d)}
    BY <1>4, SeenBoolean
  <2>2. Top(d)' = Top(d) /\ Phase(d)' = Phase(d)
    BY <1>5 DEF Top, Phase, Riding, Stopped
  <2>3. Contract!Settle(d)
    BY <2>1, <2>2, <1>1, Settles
  <2>. QED
    BY <2>2, <2>3 DEF ContractStep, Contract!Next, PlainTop
<1>6. CASE /\ stack'[d] = Append(stack[d], v) /\ c.by = Len(stack[d])
           /\ c.value
  <2>1. /\ v \in View /\ v.screen = "unlock" /\ v.start = None
        /\ v.published = c.ok
    BY <1>6, <1>3, FreshType DEF Fresh, View, Screens
  <2>2. Top(d)' = v
    BY <1>6, <2>1, Grows
  <2>3. Top(d).screen = "select"
    <3>1. FromSelect(d, c.by)
      BY <1>2, <1>6 DEF DeviceInv, CompletionsFit
    <3>. QED  BY <3>1, <1>6 DEF FromSelect, Top
  <2>4. Phase(d) = "choosing" /\ Phase(d)' = "unlocking"
    <3>1. Top(d)'.screen = "unlock"
      BY <2>1, <2>2
    <3>. QED  BY <2>3, <3>1, PhaseIs, PhaseBecomes
  <2>5. Top(d)'.start = Top(d).start /\ Top(d)'.published \in BOOLEAN
    BY <2>1, <2>2, <2>3, <1>3 DEF PlainTop
  <2>6. Asking(d) = TRUE /\ StopsPending(d)' = StopsPending(d)
    BY <1>4, <1>6, SeenBoolean
  <2>7. Top(d)'.published => applied[d] /\ ~StopsPending(d)
    <3>1. Top(d)'.published => applied'[d] /\ ~StopsPending(d)'
      BY <2>1, <2>2 DEF HonouringKept, Honouring
    <3>. QED  BY <3>1, <2>6, <1>1
  <2>8. Contract!Unlock(d)
    BY <2>4, <2>5, <2>6, <2>7, <1>1, Unlocks
  <2>. QED
    BY <2>1, <2>2, <2>8 DEF ContractStep, Contract!Next, PlainTop
<1>7. CASE /\ stack'[d] = Append(stack[d], v) /\ c.by = Len(stack[d])
           /\ ~c.value
  <2>1. /\ v \in View /\ v.screen = "landing" /\ v.start = None
        /\ v.published = FALSE
    BY <1>7, FreshType DEF Fresh, Screens
  <2>2. Top(d)' = v
    BY <1>7, <2>1, Grows
  <2>3. Stopped(d)
    <3>1. FromStopped(d, c.by)
      BY <1>2, <1>7 DEF DeviceInv, CompletionsFit
    <3>. QED  BY <3>1, <1>7 DEF FromStopped, Stopped, Top
  <2>4. Phase(d) = "returned" /\ Phase(d)' = "away"
    <3>1. Top(d)'.screen = "landing"
      BY <2>1, <2>2
    <3>. QED  BY <2>3, <3>1, PhaseIs, PhaseBecomes
  <2>5. StopsPending(d) = TRUE /\ Asking(d)' = Asking(d)
    BY <1>4, <1>7, SeenBoolean
  <2>6. Contract!Return(d)
    BY <2>1, <2>2, <2>4, <2>5, <1>1, Returns
  <2>. QED
    BY <2>1, <2>2, <2>6 DEF ContractStep, Contract!Next, PlainTop
<1>. QED  BY <1>1, <1>5, <1>6, <1>7

(* The status page begins the ride, from the recorded start time.          *)
LEMMA AnimationImplements ==
    ASSUME TypeOK, TypeOK', NEW d \in Devices, OthersSame(d), PlainTop(d),
           DeviceInv(d), AnimationDone(d)
    PROVE  ContractStep /\ PlainTop(d)'
<1>. PICK v : v = [Fresh("status") EXCEPT
                      !.start = startRentTime[d], !.ticking = TRUE,
                      !.published = Top(d).published]
  OBVIOUS
<1>1. /\ stack'[d] = Append(stack[d], v) /\ SameSteps(d)
      /\ Top(d).screen = "unlock"
  BY DEF AnimationDone, Showing, PresentBy, CanPresent, SameSteps, SameQueues,
         TypeOK, fire, net, server
<1>2. /\ v \in View /\ v.screen = "status" /\ v.ticking = TRUE
      /\ v.start = startRentTime[d] /\ v.published = Top(d).published
  BY TopType, FreshType DEF Screens, View, TypeOK, Fresh
<1>3. Top(d)' = v
  BY <1>1, <1>2, Grows
<1>4. Phase(d) = "unlocking" /\ Phase(d)' = "riding"
  <2>1. Riding(d)'
    BY <1>2, <1>3 DEF Riding
  <2>. QED  BY <2>1, <1>1, PhaseIs, PhaseBecomes
<1>5. Top(d)'.start \in Times
  BY <1>1, <1>2, <1>3 DEF DeviceInv, StartKept, TypeOK
<1>6. Contract!Ride(d)
  BY <1>1, <1>2, <1>3, <1>4, <1>5, Rides, SameOutstanding
     DEF SameSteps, SameQueues
<1>. QED
  BY <1>2, <1>3, <1>6 DEF ContractStep, Contract!Next, PlainTop

(* A restart takes the rental off the screen and forgets every call.       *)
LEMMA KillImplements ==
    ASSUME TypeOK, TypeOK', NEW d \in Devices, OthersSame(d), Kill(d)
    PROVE  ContractStep /\ PlainTop(d)'
<1>1. /\ puts'[d] = <<>> /\ completions'[d] = <<>> /\ applied' = applied
      /\ writes'[d] =
             [k \in DOMAIN writes[d] |-> [writes[d][k] EXCEPT !.by = 0]]
      /\ writes[d] \in Seq(Writes)
  BY DEF Kill, TypeOK, server
<1>2. \/ stack'[d] = <<Fresh("login")>>
      \/ stack'[d] = <<Fresh("login"), Fresh("landing")>>
  BY DEF Kill, Relaunched, TypeOK
<1>3. /\ Top(d)'.screen \in {"login", "landing"} /\ Top(d)'.start = None
      /\ Top(d)'.published = FALSE
  <2>1. CASE stack'[d] = <<Fresh("login")>>
    BY <2>1 DEF Top, Fresh
  <2>2. CASE stack'[d] = <<Fresh("login"), Fresh("landing")>>
    BY <2>2 DEF Top, Fresh
  <2>. QED  BY <1>2, <2>1, <2>2
<1>4. \A k \in 1 .. Len(writes'[d]) : writes'[d][k].by = 0
  BY <1>1, ForgottenWrites
<1>5. Asking(d)' = FALSE /\ StopsPending(d)' = FALSE
  <2>1. ~Asking(d)' /\ ~StopsPending(d)'
    BY <1>1, <1>4 DEF Asking, StopsPending
  <2>. QED  BY <2>1, SeenBoolean
<1>6. Phase(d)' = "away"
  BY <1>3, PhaseBecomes
<1>7. Contract!Restart(d)
  BY <1>1, <1>3, <1>5, <1>6, Restarts
<1>. QED
  BY <1>3, <1>7 DEF ContractStep, Contract!Next, PlainTop

(* Every step of the system.                                               *)
LEMMA SystemImplements ==
    ASSUME TypeOK, TypeOK', NEW d \in Devices, OthersSame(d), PlainTop(d),
           DeviceInv(d), HonouringKept(d)', SystemStep(d)
    PROVE  ContractStep /\ PlainTop(d)'
<1>1. CASE Reconnect(d) \/ Disconnect(d) \/ LocationUpdated(d)
  <2>1. /\ stack' = stack /\ writes' = writes /\ puts' = puts
        /\ completions' = completions /\ applied' = applied
    BY <1>1 DEF Reconnect, Disconnect, LocationUpdated, ShowAlert, ui, fire,
                net, server
  <2>2. (Asking(d)' <=> Asking(d)) /\ (StopsPending(d)' <=> StopsPending(d))
    BY <2>1 DEF Asking, StopsPending
  <2>. QED  BY <2>1, <2>2, SeenBoolean, KeepsPage
<1>2. ASSUME NEW ok \in BOOLEAN, CreateDone(d) \/ MailDone(d, ok)
      PROVE  ContractStep /\ PlainTop(d)'
  <2>1. /\ stack' = stack /\ writes' = writes /\ puts' = puts
        /\ completions' = completions /\ applied' = applied
    BY <1>2 DEF CreateDone, MailDone, ui, fire, net, server
  <2>2. (Asking(d)' <=> Asking(d)) /\ (StopsPending(d)' <=> StopsPending(d))
    BY <2>1 DEF Asking, StopsPending
  <2>. QED  BY <2>1, <2>2, SeenBoolean, KeepsPage
<1>. QED
  BY <1>1, <1>2, StartDecidedImplements, CardDecidedImplements, ServerPutImplements,
     PutAckedImplements, PutCompletedImplements, AnimationImplements
     DEF SystemStep

(* At launch the contract is in its initial state.                         *)
LEMMA InitImplements ==
    ASSUME Init
    PROVE  Contract!Init /\ PlainInv
<1>1. ASSUME NEW d \in Devices
      PROVE  /\ Top(d) = Fresh("login") /\ applied[d] = FALSE
             /\ Asking(d) = FALSE /\ StopsPending(d) = FALSE
             /\ Phase(d) = "away"
  <2>1. /\ stack[d] = <<Fresh("login")>> /\ writes[d] = <<>>
        /\ puts[d] = <<>> /\ completions[d] = <<>> /\ applied[d] = FALSE
    BY DEF Init
  <2>2. Top(d) = Fresh("login") /\ Top(d).screen = "login"
    BY <2>1 DEF Top, Fresh
  <2>3. ~Asking(d) /\ ~StopsPending(d)
    BY <2>1 DEF Asking, StopsPending
  <2>. QED  BY <2>1, <2>2, <2>3, SeenBoolean, PhaseIs
<1>2. /\ Fresh("login").start = None /\ Fresh("login").published = FALSE
      /\ Fresh("login").screen = "login"
  BY DEF Fresh
<1>3. PlainInv
  BY <1>1, <1>2 DEF PlainInv, PlainTop
<1>4. /\ [d \in Devices |-> Phase(d)] = [d \in Devices |-> "away"]
      /\ [d \in Devices |-> Top(d).start] = [d \in Devices |-> None]
      /\ [d \in Devices |-> Top(d).published] = [d \in Devices |-> FALSE]
      /\ [d \in Devices |-> Asking(d)] = [d \in Devices |-> FALSE]
      /\ [d \in Devices |-> StopsPending(d)] = [d \in Devices |-> FALSE]
  BY <1>1, <1>2
<1>5. applied = [d \in Devices |-> FALSE]
  BY DEF Init
<1>. QED  BY <1>3, <1>4, <1>5 DEF Contract!Init

(* Every step maps to a step of the contract or to a stutter.              *)
LEMMA StepImplements ==
    ASSUME TypeOK, TypeOK', RentalInv, PublishedInv', PlainInv, [Next]_vars
    PROVE  ContractStep /\ PlainInv'
<1>1. ASSUME NEW d \in Devices, UserStep(d) \/ SystemStep(d) \/ Kill(d)
      PROVE  ContractStep /\ PlainInv'
  <2>1. OthersSame(d)
    BY <1>1, OthersSee
  <2>2. PlainTop(d) /\ DeviceInv(d) /\ HonouringKept(d)'
    BY DEF PlainInv, RentalInv, PublishedInv, PublishedOf
  <2>3. ContractStep /\ PlainTop(d)'
    BY <1>1, <2>1, <2>2, UserImplements, SystemImplements, KillImplements
  <2>4. ASSUME NEW e \in Devices, e # d
        PROVE  PlainTop(e)'
    <3>1. Top(e)' = Top(e)
      BY <1>1, <2>4, OtherDevices DEF Same, Top
    <3>. QED  BY <3>1 DEF PlainInv, PlainTop
  <2>. QED  BY <2>3, <2>4 DEF PlainInv
<1>2. CASE UNCHANGED vars
  <2>1. ASSUME NEW e \in Devices
        PROVE  SameSeen(e) /\ PlainTop(e)'
    <3>1. stack'[e] = stack[e] /\ SameSteps(e)
      BY <1>2 DEF vars, ui, fire, net, server, SameSteps, SameQueues
    <3>2. Top(e)' = Top(e) /\ Phase(e)' = Phase(e)
      BY <3>1 DEF Top, Phase, Riding, Stopped
    <3>. QED
      BY <3>1, <3>2, SameOutstanding
         DEF SameSeen, SameSteps, SameQueues, PlainInv, PlainTop
  <2>2. CASE Devices = {}
    BY <1>2, <2>2 DEF vars, server, ContractStep, Contract!cvars, PlainInv
  <2>3. CASE Devices # {}
    <3>1. PICK d \in Devices : TRUE
      BY <2>3
    <3>2. UNCHANGED Contract!cvars
      BY <2>1, <3>1, Unseen DEF OthersSame
    <3>. QED  BY <2>1, <3>2 DEF ContractStep, PlainInv
  <2>. QED  BY <2>2, <2>3
<1>. QED
  BY <1>1, <1>2 DEF Next, Running, DoneTraps

(* The rental flow, with its screens, queues, answers, disconnects and     *)
(* restarts, does nothing that the contract does not allow.                *)
THEOREM RentalImplementsContract == Spec => ImplementsContract
<1>1. Init => Contract!Init /\ PlainInv
  BY InitImplements
<1>2. TypeOK /\ TypeOK' /\ RentalInv /\ PublishedInv' /\ PlainInv
          /\ [Next]_vars
      => PlainInv' /\ [Contract!Next]_(Contract!cvars)
  BY StepImplements DEF ContractStep
<1>. QED
  BY <1>1, <1>2, TypeCorrect, RentalInvariant, RentalsStayPublished, PTL
     DEF Spec, ImplementsContract, Contract!Spec

-----------------------------------------------------------------------------
(***************************************************************************)
(* No stop and no confirmation is lost between the queues.                 *)
(***************************************************************************)
(* A call that page n made waits in queue q; the page in front waits for a *)
(* put, or for its completion.                                             *)
Waits(q, n) == \E k \in 1 .. Len(q) : q[k].by = n

PutWaits(d) ==
    Waits(puts[d], Len(stack[d])) \/ Waits(completions[d], Len(stack[d]))

StopKept(d) == Stopped(d) => ~alert[d] /\ PutWaits(d)

(* The inductive invariant, beside RentalInv.                              *)
StopInv == \A d \in Devices : StopKept(d)

(* What joins a queue takes nothing out of it, and waits there itself.     *)
LEMMA JoinWaits ==
    ASSUME NEW S, NEW q \in Seq(S), NEW e \in S, NEW n
    PROVE  /\ Waits(q, n) => Waits(Append(q, e), n)
           /\ e.by = n => Waits(Append(q, e), n)
<1>1. /\ Len(q) \in Nat /\ Len(Append(q, e)) = Len(q) + 1
      /\ \A k \in 1 .. Len(q) : Append(q, e)[k] = q[k]
      /\ Append(q, e)[Len(q) + 1] = e
  BY AppendProperties, LenProperties
<1>2. /\ Len(q) + 1 \in 1 .. Len(Append(q, e))
      /\ \A k \in 1 .. Len(q) : k \in 1 .. Len(Append(q, e))
  BY <1>1
<1>. QED  BY <1>1, <1>2 DEF Waits

(* What is not the head of a queue is still there without the head.        *)
LEMMA RestWaits ==
    ASSUME NEW S, NEW q \in Seq(S), q # <<>>, NEW n,
           Waits(q, n), Head(q).by # n
    PROVE  Waits(Tail(q), n)
<1>1. PICK k \in 1 .. Len(q) : q[k].by = n
  BY DEF Waits
<1>2. k # 1
  BY <1>1, Left
<1>3. k - 1 \in 1 .. Len(Tail(q)) /\ Tail(q)[k - 1] = q[k]
  BY <1>2, Behind
<1>. QED  BY <1>1, <1>3 DEF Waits

(* An answered put waits in the next queue.                                *)
LEMMA AckedWaits ==
    ASSUME TypeOK, NEW d \in Devices, PutAcked(d), PutWaits(d)
    PROVE  PutWaits(d)' /\ stack' = stack
<1>. PICK n : n = Len(stack[d])
  OBVIOUS
<1>. PICK p : p = Head(puts[d])
  OBVIOUS
<1>. PICK c : c = [value |-> p.value, by |-> p.by, ok |-> Head(acks[d])]
  OBVIOUS
<1>1. /\ puts[d] \in Seq(Puts) /\ completions[d] \in Seq(Completions)
      /\ acks[d] \in Seq(BOOLEAN) /\ acks[d] # <<>>
      /\ puts'[d] = Tail(puts[d])
      /\ completions'[d] = Append(completions[d], c)
      /\ stack' = stack
  BY DEF PutAcked, TypeOK, ui
<1>2. puts[d] # <<>>
  <2>1. Len(acks[d]) <= Len(puts[d])
    BY DEF TypeOK
  <2>. QED  BY <2>1, <1>1, EmptySeq
<1>3. c.by = p.by /\ c \in Completions
  <2>1. p \in Puts /\ Head(acks[d]) \in BOOLEAN
    BY <1>1, <1>2, HeadTailProperties
  <2>. QED  BY <2>1 DEF Puts, Completions
<1>4. Waits(completions[d], n) \/ p.by = n => Waits(completions'[d], n)
  BY <1>1, <1>3, JoinWaits
<1>5. Waits(puts[d], n) /\ p.by # n => Waits(puts'[d], n)
  BY <1>1, <1>2, RestWaits
<1>. QED  BY <1>1, <1>4, <1>5 DEF PutWaits

(* The completion that a page without an alert waits for opens another.    *)
LEMMA CompletedWaits ==
    ASSUME TypeOK, NEW d \in Devices, PutCompleted(d), PutWaits(d), ~alert[d]
    PROVE  \/ PutWaits(d)' /\ stack'[d] = stack[d] /\ alert' = alert
           \/ Top(d)'.screen \in {"unlock", "landing"}
<1>. PICK n \in Nat : n = Len(stack[d])
  BY TopType
<1>. PICK c : c = Head(completions[d])
  OBVIOUS
<1>. PICK v : v = IF c.value
                  THEN [Fresh("unlock") EXCEPT !.published = c.ok]
                  ELSE Fresh("landing")
  OBVIOUS
<1>1. /\ completions[d] \in Seq(Completions) /\ completions[d] # <<>>
      /\ completions'[d] = Tail(completions[d])
      /\ puts' = puts /\ alert' = alert
      /\ stack'[d] = IF c.by = n THEN Append(stack[d], v) ELSE stack[d]
  BY DEF PutCompleted, PresentBy, CanPresent, TypeOK
<1>2. CASE c.by = n
  <2>1. c \in Completions
    BY <1>1, HeadTailProperties
  <2>2. v \in View /\ v.screen \in {"unlock", "landing"}
    BY <2>1 DEF Completions, View, Fresh, Screens
  <2>3. Top(d)' = v
    BY <1>1, <1>2, <2>2, Grows
  <2>. QED  BY <2>2, <2>3
<1>3. CASE c.by # n
  BY <1>1, <1>3, RestWaits DEF PutWaits
<1>. QED  BY <1>2, <1>3

(* A page that opens is not a status page that was stopped.                *)
LEMMA OpenedNotStopped ==
    ASSUME TypeOK, NEW d \in Devices, NEW s \in Screens, s # "status",
           stack'[d] = Append(stack[d], Fresh(s))
    PROVE  Top(d)'.screen = s /\ ~Stopped(d)'
<1>1. Top(d)' = Fresh(s)
  BY FreshType, Grows
<1>. QED  BY <1>1 DEF Stopped, Fresh

(* Steps that leave pages, alert and puts alone, or only add to the puts.  *)
LEMMA StopQuiet ==
    ASSUME NEW d \in Devices, StopKept(d),
           stack'[d] = stack[d], alert'[d] = alert[d],
           PutWaits(d) => PutWaits(d)'
    PROVE  StopKept(d)'
BY DEF StopKept, Stopped, Top

(* An alert over another page than the status page.                        *)
LEMMA AlertElsewhere ==
    ASSUME NEW d \in Devices, Top(d).screen # "status", ShowAlert(d)
    PROVE  StopKept(d)'
BY DEF ShowAlert, StopKept, Stopped, Top

(* After a restart no page waits for a stop.                               *)
LEMMA KillLeaves ==
    ASSUME TypeOK, NEW d \in Devices, Kill(d)
    PROVE  Top(d)'.screen \in {"login", "landing"}
<1>1. \/ stack'[d] = <<Fresh("login")>>
      \/ stack'[d] = <<Fresh("login"), Fresh("landing")>>
  BY DEF Kill, Relaunched, TypeOK
<1>2. CASE stack'[d] = <<Fresh("login")>>
  BY <1>2 DEF Top, Fresh
<1>3. CASE stack'[d] = <<Fresh("login"), Fresh("landing")>>
  BY <1>3 DEF Top, Fresh
<1>. QED  BY <1>1, <1>2, <1>3

(* Stop queues the put that its page waits for, under no alert.            *)
LEMMA StopBegins ==
    ASSUME TypeOK, NEW d \in Devices, StopButton(d)
    PROVE  StopKept(d)'
<1>. PICK n \in Nat : n = Len(stack[d]) /\ n > 0
  BY TopType
<1>. PICK v : v = [Top(d) EXCEPT !.ticking = FALSE]
  OBVIOUS
<1>. PICK p : p = [value |-> FALSE, by |-> n]
  OBVIOUS
<1>1. /\ stack'[d] = [stack[d] EXCEPT ![n] = v]
      /\ puts'[d] = Append(puts[d], p) /\ puts[d] \in Seq(Puts)
      /\ alert'[d] = FALSE
  BY DEF StopButton, Showing, TypeOK, Top
<1>2. v \in View /\ p \in Puts /\ p.by = n
  BY TopType DEF View, Puts
<1>3. Len(stack'[d]) = n
  BY <1>1, <1>2, TopField
<1>4. Waits(puts'[d], n)
  BY <1>1, <1>2, JoinWaits
<1>. QED  BY <1>1, <1>3, <1>4 DEF StopKept, PutWaits

(* A decided write raises no alert over a status page, and takes nothing   *)
(* out of the puts.                                                        *)
LEMMA StartDecidedStop ==
    ASSUME TypeOK, NEW d \in Devices, DeviceInv(d), StopKept(d),
           NEW ok \in BOOLEAN, StartDecided(d, ok)
    PROVE  StopKept(d)'
<1>. PICK p : p = [value |-> TRUE, by |-> Head(writes[d]).by]
  OBVIOUS
<1>1. /\ writes[d] # <<>> /\ writes[d] \in Seq(Writes) /\ puts[d] \in Seq(Puts)
      /\ Head(writes[d]).time # None
      /\ stack' = stack /\ completions' = completions
      /\ puts'[d] = puts[d] \/ puts'[d] = Append(puts[d], p)
      /\ \/ alert'[d] = alert[d]
         \/ Head(writes[d]).by # 0 /\ Head(writes[d]).by = Len(stack[d])
  BY DEF StartDecided, CanPresent, TypeOK
<1>2. p \in Puts
  BY <1>1, HeadTailProperties DEF Puts, Writes
<1>3. PutWaits(d) => PutWaits(d)'
  <2>1. \A n : Waits(puts[d], n) => Waits(Append(puts[d], p), n)
    BY <1>1, <1>2, JoinWaits
  <2>. QED  BY <1>1, <2>1 DEF PutWaits
<1>4. CASE alert'[d] = alert[d]
  BY <1>1, <1>3, <1>4, StopQuiet
<1>5. CASE Head(writes[d]).by # 0 /\ Head(writes[d]).by = Len(stack[d])
  <2>1. 1 \in 1 .. Len(writes[d]) /\ Head(writes[d]) = writes[d][1]
    BY <1>1, Left
  <2>2. Top(d).screen = "select"
    BY <1>1, <1>5, <2>1 DEF DeviceInv, WritesFit, FromSelect, Top
  <2>. QED  BY <1>1, <2>2 DEF StopKept, Stopped, Top
<1>. QED  BY <1>1, <1>4, <1>5

LEMMA CardDecidedStop ==
    ASSUME TypeOK, NEW d \in Devices, DeviceInv(d), StopKept(d),
           NEW ok \in BOOLEAN, CardDecided(d, ok)
    PROVE  StopKept(d)'
<1>1. /\ writes[d] # <<>> /\ writes[d] \in Seq(Writes)
      /\ Head(writes[d]).time = None
      /\ puts' = puts /\ completions' = completions
      /\ \/ stack'[d] = Append(stack[d], Fresh("select"))
         \/ stack'[d] = stack[d] /\ alert'[d] = alert[d]
         \/ stack'[d] = stack[d] /\ Head(writes[d]).by = Len(stack[d])
  BY DEF CardDecided, PresentBy, CanPresent, TypeOK, net
<1>2. CASE stack'[d] = Append(stack[d], Fresh("select"))
  BY <1>2, OpenedNotStopped DEF Screens, StopKept
<1>3. CASE stack'[d] = stack[d] /\ alert'[d] = alert[d]
  BY <1>1, <1>3, StopQuiet DEF PutWaits
<1>4. CASE stack'[d] = stack[d] /\ Head(writes[d]).by = Len(stack[d])
  <2>1. 1 \in 1 .. Len(writes[d]) /\ Head(writes[d]) = writes[d][1]
    BY <1>1, Left
  <2>2. Len(stack[d]) # 0
    BY TopType
  <2>3. Top(d).screen = "card"
    BY <1>1, <1>4, <2>1, <2>2 DEF DeviceInv, WritesFit, FromCard, Top
  <2>. QED  BY <1>4, <2>3 DEF StopKept, Stopped, Top
<1>. QED  BY <1>1, <1>2, <1>3, <1>4

LEMMA PutCompletedStop ==
    ASSUME TypeOK, NEW d \in Devices, StopKept(d), PutCompleted(d)
    PROVE  StopKept(d)'
<1>. PICK c : c = Head(completions[d])
  OBVIOUS
<1>. PICK v : v = IF c.value
                  THEN [Fresh("unlock") EXCEPT !.published = c.ok]
                  ELSE Fresh("landing")
  OBVIOUS
<1>1. /\ completions[d] \in Seq(Completions) /\ completions[d] # <<>>
      /\ \/ stack'[d] = stack[d]
         \/ stack'[d] = Append(stack[d], v)
  BY DEF PutCompleted, PresentBy, TypeOK
<1>2. CASE stack'[d] = Append(stack[d], v)
  <2>1. c \in Completions
    BY <1>1, HeadTailProperties
  <2>2. v \in View /\ v.screen # "status"
    BY <2>1 DEF Completions, View, Fresh, Screens
  <2>3. Top(d)' = v
    BY <1>2, <2>2, Grows
  <2>. QED  BY <2>2, <2>3 DEF StopKept, Stopped
<1>3. CASE stack'[d] = stack[d]
  <2>. SUFFICES ASSUME Stopped(d)
                PROVE  ~alert'[d] /\ PutWaits(d)'
    BY <1>3 DEF StopKept, Stopped, Top
  <2>1. ~alert[d] /\ PutWaits(d) /\ Top(d).screen = "status"
    BY DEF StopKept, Stopped
  <2>2. Top(d)'.screen = "status"
    BY <1>3, <2>1 DEF Top
  <2>. QED  BY <2>1, <2>2, CompletedWaits
<1>. QED  BY <1>1, <1>2, <1>3

(* Every step of the user keeps a stop that is under way.                  *)
LEMMA UserStop ==
    ASSUME TypeOK, NEW d \in Devices, StopKept(d), UserStep(d)
    PROVE  StopKept(d)'
<1>. USE DEF memory, fire, net, server, ui
<1>1. ASSUME NEW s \in Screens, s # "status", Open(d, s)
      PROVE  StopKept(d)'
  <2>1. /\ \/ stack'[d] = stack[d]
           \/ stack'[d] = Append(stack[d], Fresh(s))
        /\ alert' = alert /\ puts' = puts /\ completions' = completions
    BY <1>1 DEF Open, PresentBy, TypeOK
  <2>2. CASE stack'[d] = stack[d]
    BY <2>1, <2>2, StopQuiet DEF PutWaits
  <2>3. CASE stack'[d] = Append(stack[d], Fresh(s))
    BY <1>1, <2>3, OpenedNotStopped DEF StopKept
  <2>. QED  BY <2>1, <2>2, <2>3
<1>2. CASE SignIn(d)
  <2>1. /\ \/ stack'[d] = stack[d]
           \/ stack'[d] = Append(stack[d], Fresh("landing"))
        /\ alert' = alert /\ puts' = puts /\ completions' = completions
    BY <1>2 DEF SignIn, PresentBy, TypeOK
  <2>2. CASE stack'[d] = stack[d]
    BY <2>1, <2>2, StopQuiet DEF PutWaits
  <2>3. CASE stack'[d] = Append(stack[d], Fresh("landing"))
    BY <2>3, OpenedNotStopped DEF StopKept, Screens
  <2>. QED  BY <2>1, <2>2, <2>3
<1>3. CASE \/ RentButton(d) \/ SerialBack(d) \/ PaymentBack(d)
          \/ AddCardRow(d) \/ CardBack(d) \/ ReopenLogin(d)
  BY <1>3, <1>1 DEF RentButton, SerialBack, PaymentBack, AddCardRow, CardBack,
                    ReopenLogin, Screens
<1>4. ASSUME NEW code \in Codes, NextButton(d, code)
      PROVE  StopKept(d)'
  BY <1>4, <1>1, AlertElsewhere DEF NextButton, Showing, Screens
<1>5. CASE SelectCard(d)
  <2>1. /\ stack'[d] = [stack[d] EXCEPT
                            ![Len(stack[d])] = [Top(d) EXCEPT !.card = TRUE]]
        /\ Top(d).screen = "select"
    BY <1>5 DEF SelectCard, Showing, TypeOK, Top
  <2>2. /\ [Top(d) EXCEPT !.card = TRUE] \in View
        /\ [Top(d) EXCEPT !.card = TRUE].screen = "select"
    BY <2>1, TopType DEF View
  <2>3. Top(d)'.screen = "select"
    BY <2>1, <2>2, TopField
  <2>. QED  BY <2>3 DEF StopKept, Stopped
<1>6. ASSUME NEW t \in Times, ConfirmButton(d, t)
      PROVE  StopKept(d)'
  <2>1. CASE ShowAlert(d)
    BY <1>6, <2>1, AlertElsewhere DEF ConfirmButton, Showing
  <2>2. CASE ~ShowAlert(d)
    BY <1>6, <2>2, StopQuiet DEF ConfirmButton, PutWaits
  <2>. QED  BY <2>1, <2>2
<1>7. CASE StopButton(d)
  BY <1>7, StopBegins
<1>8. CASE CloseAlert(d)
  BY <1>8 DEF CloseAlert, StopKept, Stopped, Top
<1>9. CASE DoneButton(d)
  <2>1. CASE ShowAlert(d)
    BY <1>9, <2>1, AlertElsewhere DEF DoneButton, Showing
  <2>2. CASE ~ShowAlert(d)
    BY <1>9, <2>2, StopQuiet DEF DoneButton, PutWaits
  <2>. QED  BY <2>1, <2>2
<1>10. CASE SignInFails(d)
  BY <1>10 DEF SignInFails, Showing, StopKept, Stopped, Top
<1>. QED
  BY <1>2, <1>3, <1>4, <1>5, <1>6, <1>7, <1>8, <1>9, <1>10 DEF UserStep

(* So does every step of the system, and a restart.                        *)
LEMMA SystemStop ==
    ASSUME TypeOK, NEW d \in Devices, DeviceInv(d), StopKept(d),
           SystemStep(d) \/ Kill(d)
    PROVE  StopKept(d)'
<1>. USE DEF memory, fire, net, server, ui
<1>1. CASE LocationUpdated(d)
  BY <1>1, AlertElsewhere DEF LocationUpdated, Showing
<1>2. CASE \/ Reconnect(d) \/ Disconnect(d)
          \/ \E ok \in BOOLEAN : ServerPut(d, ok)
  BY <1>2, StopQuiet DEF Reconnect, Disconnect, ServerPut, PutWaits
<1>3. CASE PutAcked(d)
  <2>1. alert' = alert /\ stack' = stack
    BY <1>3 DEF PutAcked
  <2>. QED  BY <1>3, <2>1, AckedWaits, StopQuiet
<1>4. CASE AnimationDone(d)
  <2>. PICK v : v = [Fresh("status") EXCEPT
                        !.start = startRentTime[d], !.ticking = TRUE,
                        !.published = Top(d).published]
    OBVIOUS
  <2>1. stack'[d] = Append(stack[d], v)
    BY <1>4 DEF AnimationDone, Showing, PresentBy, CanPresent, TypeOK
  <2>2. v \in View /\ v.ticking = TRUE
    BY TopType, FreshType DEF Screens, View, TypeOK, Fresh
  <2>3. Top(d)' = v
    BY <2>1, <2>2, Grows
  <2>. QED  BY <2>2, <2>3 DEF StopKept, Stopped
<1>5. CASE Kill(d)
  BY <1>5, KillLeaves DEF StopKept, Stopped
<1>6. ASSUME NEW ok \in BOOLEAN, CreateDone(d) \/ MailDone(d, ok)
      PROVE  StopKept(d)'
  BY <1>6, StopQuiet DEF CreateDone, MailDone, PutWaits
<1>. QED
  BY <1>1, <1>2, <1>3, <1>4, <1>5, <1>6, StartDecidedStop, CardDecidedStop,
     PutCompletedStop DEF SystemStep

(* An alert comes up on the device whose step it is.                       *)
LEMMA OtherAlerts ==
    ASSUME TypeOK, NEW d \in Devices, NEW e \in Devices, e # d,
           UserStep(d) \/ SystemStep(d) \/ Kill(d)
    PROVE  alert'[e] = alert[e]
<1>. USE DEF TypeOK
<1>1. /\ \A s \in Screens : Open(d, s) => alert'[e] = alert[e]
      /\ ShowAlert(d) => alert'[e] = alert[e]
  BY DEF Open, ShowAlert
<1>2. CASE UserStep(d)
  <2>1. CASE \/ SignIn(d) \/ SelectCard(d) \/ StopButton(d) \/ CloseAlert(d)
    BY <2>1 DEF SignIn, SelectCard, StopButton, CloseAlert
  <2>2. CASE \/ RentButton(d) \/ SerialBack(d) \/ PaymentBack(d)
            \/ AddCardRow(d) \/ CardBack(d)
            \/ ReopenLogin(d)
    BY <2>2, <1>1 DEF RentButton, SerialBack, PaymentBack, AddCardRow,
                      CardBack, ReopenLogin, Screens
  <2>3. ASSUME NEW code \in Codes, NextButton(d, code)
        PROVE  alert'[e] = alert[e]
    BY <2>3, <1>1 DEF NextButton, Screens
  <2>4. ASSUME NEW t \in Times, ConfirmButton(d, t)
        PROVE  alert'[e] = alert[e]
    BY <2>4, <1>1 DEF ConfirmButton, ui
  <2>5. CASE DoneButton(d)
    BY <2>5, <1>1 DEF DoneButton, ui
  <2>6. CASE SignInFails(d)
    BY <2>6 DEF SignInFails
  <2>. QED
    BY <1>2, <2>1, <2>2, <2>3, <2>4, <2>5, <2>6 DEF UserStep
<1>3. CASE SystemStep(d)
  <2>1. ASSUME NEW ok \in BOOLEAN, StartDecided(d, ok) \/ CardDecided(d, ok)
        PROVE  alert'[e] = alert[e]
    BY <2>1 DEF StartDecided, CardDecided
  <2>2. CASE \/ \E ok \in BOOLEAN : ServerPut(d, ok)
            \/ PutAcked(d) \/ Reconnect(d) \/ Disconnect(d)
    BY <2>2 DEF ServerPut, PutAcked, Reconnect, Disconnect, ui
  <2>3. CASE PutCompleted(d) \/ AnimationDone(d)
    BY <2>3 DEF PutCompleted, AnimationDone
  <2>4. CASE LocationUpdated(d)
    BY <2>4, <1>1 DEF LocationUpdated
  <2>5. ASSUME NEW ok \in BOOLEAN, CreateDone(d) \/ MailDone(d, ok)
        PROVE  alert'[e] = alert[e]
    BY <2>5 DEF CreateDone, MailDone, ui
  <2>. QED  BY <1>3, <2>1, <2>2, <2>3, <2>4, <2>5 DEF SystemStep
<1>4. CASE Kill(d)
  BY <1>4 DEF Kill
<1>. QED  BY <1>2, <1>3, <1>4

LEMMA StopStep ==
    TypeOK /\ RentalInv /\ StopInv /\ [Next]_vars => StopInv'
<1>. SUFFICES ASSUME TypeOK, RentalInv, StopInv, [Next]_vars,
                     NEW e \in Devices
              PROVE  StopKept(e)'
  BY DEF StopInv
<1>. StopKept(e) /\ DeviceInv(e)
  BY DEF RentalInv, StopInv
<1>1. ASSUME NEW d \in Devices, UserStep(d) \/ SystemStep(d) \/ Kill(d)
      PROVE  StopKept(e)'
  <2>1. CASE d = e
    BY <1>1, <2>1, UserStop, SystemStop
  <2>2. CASE d # e
    <3>1. stack'[e] = stack[e] /\ SameQueues(e) /\ alert'[e] = alert[e]
      BY <1>1, <2>2, OtherDevices, OtherQueues, OtherAlerts DEF Same
    <3>. QED  BY <3>1, StopQuiet DEF SameQueues, PutWaits
  <2>. QED  BY <2>1, <2>2
<1>2. CASE UNCHANGED vars
  BY <1>2, StopQuiet DEF vars, ui, net, PutWaits
<1>. QED
  BY <1>1, <1>2 DEF Next, Running, DoneTraps

(* After Stop the page is left as soon as its own put is answered: the put *)
(* is never lost and no alert comes up before, whatever happens to the     *)
(* connection.                                                             *)
THEOREM StopIsNeverLost == Spec => []StopNeverLost
<1>1. Init => StopInv
  <2>. SUFFICES ASSUME Init, NEW d \in Devices
                PROVE  ~Stopped(d)
    BY DEF StopInv, StopKept
  <2>1. stack[d] = <<Fresh("login")>>
    BY DEF Init
  <2>. QED  BY <2>1 DEF Stopped, Top, Fresh
<1>2. RentalInv /\ StopInv => StopNeverLost
  <2>. SUFFICES ASSUME NEW d \in Devices, DeviceInv(d), StopKept(d),
                       Stopped(d)
                PROVE  /\ ~alert[d]
                       /\ \/ \E k \in 1 .. Len(puts[d]) :
                                 /\ ~puts[d][k].value
                                 /\ puts[d][k].by = Len(stack[d])
                          \/ \E k \in 1 .. Len(completions[d]) :
                                 /\ ~completions[d][k].value
                                 /\ completions[d][k].by = Len(stack[d])
    BY DEF RentalInv, StopInv, StopNeverLost
  <2>1. ~FromSelect(d, Len(stack[d]))
    BY DEF Stopped, Top, FromSelect
  <2>2. ~alert[d] /\ PutWaits(d)
    BY DEF StopKept
  <2>. QED
    BY <2>1, <2>2 DEF PutWaits, Waits, DeviceInv, PutsFit, CompletionsFit
<1>. QED
  BY <1>1, <1>2, StopStep, TypeCorrect, RentalInvariant, PTL DEF Spec

-----------------------------------------------------------------------------
(* A confirmed payment page waits for its write, its put or its completion.*)
LEMMA ConfirmedWaits ==
    ASSUME NEW d \in Devices
    PROVE  Confirmed(d) <=>
               /\ Top(d).screen = "select"
               /\ Waits(writes[d], Len(stack[d])) \/ PutWaits(d)
BY DEF Confirmed, Waits, PutWaits

(* The same page in front, with what waits for it still waiting.           *)
LEMMA ConfirmQuiet ==
    ASSUME NEW d \in Devices, Confirmed(d), stack'[d] = stack[d],
           Waits(writes[d], Len(stack[d])) =>
               Waits(writes'[d], Len(stack[d])) \/ PutWaits(d)',
           PutWaits(d) => PutWaits(d)'
    PROVE  Confirmed(d)'
<1>1. Top(d)' = Top(d)
  BY DEF Top
<1>2. \/ Waits(writes'[d], Len(stack'[d]))
      \/ Waits(puts'[d], Len(stack'[d]))
      \/ Waits(completions'[d], Len(stack'[d]))
  BY ConfirmedWaits DEF PutWaits
<1>. QED  BY <1>1, <1>2, ConfirmedWaits DEF Confirmed, Waits

(* A decided start time goes on as a put of the same page.                 *)
LEMMA StartDecidedConfirm ==
    ASSUME TypeOK, NEW d \in Devices, Confirmed(d), NEW ok \in BOOLEAN,
           StartDecided(d, ok)
    PROVE  Confirmed(d)'
<1>. PICK n \in Nat : n = Len(stack[d]) /\ n > 0
  BY TopType
<1>. PICK p : p = [value |-> TRUE, by |-> Head(writes[d]).by]
  OBVIOUS
<1>1. /\ writes[d] # <<>> /\ writes[d] \in Seq(Writes) /\ puts[d] \in Seq(Puts)
      /\ stack' = stack /\ completions' = completions
      /\ writes'[d] = Tail(writes[d])
      /\ \/ puts'[d] = puts[d] /\ Head(writes[d]).by = 0
         \/ puts'[d] = Append(puts[d], p)
  BY DEF StartDecided, TypeOK
<1>2. p \in Puts /\ p.by = Head(writes[d]).by
  BY <1>1, HeadTailProperties DEF Puts, Writes
<1>3. \A m : /\ Waits(puts[d], m) => Waits(Append(puts[d], p), m)
             /\ p.by = m => Waits(Append(puts[d], p), m)
  BY <1>1, <1>2, JoinWaits
<1>4. PutWaits(d) => PutWaits(d)'
  BY <1>1, <1>3 DEF PutWaits
<1>5. Waits(writes[d], n) /\ Head(writes[d]).by # n => Waits(writes'[d], n)
  BY <1>1, RestWaits
<1>6. ASSUME Head(writes[d]).by = n
      PROVE  PutWaits(d)'
  <2>1. puts'[d] = Append(puts[d], p) /\ Len(stack'[d]) = n
    BY <1>1, <1>6
  <2>2. Waits(puts'[d], n)
    BY <1>2, <1>3, <1>6, <2>1
  <2>. QED  BY <2>1, <2>2 DEF PutWaits
<1>. QED  BY <1>1, <1>4, <1>5, <1>6, ConfirmQuiet

(* A card that is decided was not saved by the payment page.               *)
LEMMA CardDecidedConfirm ==
    ASSUME TypeOK, NEW d \in Devices, DeviceInv(d), Confirmed(d),
           NEW ok \in BOOLEAN, CardDecided(d, ok)
    PROVE  Confirmed(d)'
<1>. PICK n \in Nat : n = Len(stack[d]) /\ n > 0
  BY TopType
<1>1. /\ writes[d] # <<>> /\ writes[d] \in Seq(Writes)
      /\ Head(writes[d]).time = None
      /\ writes'[d] = Tail(writes[d])
      /\ puts' = puts /\ completions' = completions
      /\ Head(writes[d]).by # n => stack'[d] = stack[d]
  BY DEF CardDecided, PresentBy, CanPresent, TypeOK, net
<1>2. Head(writes[d]).by # n
  <2>1. 1 \in 1 .. Len(writes[d]) /\ Head(writes[d]) = writes[d][1]
    BY <1>1, Left
  <2>2. Top(d).screen = "select"
    BY DEF Confirmed
  <2>. QED  BY <1>1, <2>1, <2>2 DEF DeviceInv, WritesFit, FromCard, Top
<1>3. Waits(writes[d], n) => Waits(writes'[d], n)
  BY <1>1, <1>2, RestWaits
<1>. QED  BY <1>1, <1>2, <1>3, ConfirmQuiet DEF PutWaits

(* The user cannot take a confirmation back, except by leaving the page.   *)
LEMMA UserConfirm ==
    ASSUME TypeOK, NEW d \in Devices, Confirmed(d), ~alert[d], UserStep(d)
    PROVE  Confirmed(d)' \/ Top(d)'.screen # "select"
<1>. USE DEF memory, fire, net, server, ui
<1>1. Top(d).screen = "select"
  BY DEF Confirmed
<1>2. ASSUME NEW s \in Screens, s \notin {"status", "select"}, Open(d, s)
      PROVE  Top(d)'.screen # "select"
  <2>1. stack'[d] = Append(stack[d], Fresh(s))
    BY <1>2 DEF Open, PresentBy, CanPresent, TypeOK
  <2>. QED  BY <1>2, <2>1, OpenedNotStopped
<1>3. CASE ShowAlert(d)
  BY <1>3, ConfirmQuiet DEF ShowAlert, PutWaits
<1>4. CASE PaymentBack(d) \/ AddCardRow(d)
  BY <1>2, <1>4 DEF PaymentBack, AddCardRow, Screens
<1>5. CASE SelectCard(d)
  <2>. PICK n \in Nat : n = Len(stack[d]) /\ n > 0
    BY TopType
  <2>. PICK v : v = [Top(d) EXCEPT !.card = TRUE]
    OBVIOUS
  <2>1. /\ stack'[d] = [stack[d] EXCEPT ![n] = v]
        /\ writes' = writes /\ puts' = puts /\ completions' = completions
    BY <1>5 DEF SelectCard, TypeOK, Top
  <2>2. v \in View /\ v.screen = "select"
    BY <1>1, TopType DEF View
  <2>3. Len(stack'[d]) = n /\ Top(d)' = v
    BY <2>1, <2>2, TopField
  <2>4. /\ Waits(writes[d], n) \/ Waits(puts[d], n) \/ Waits(completions[d], n)
    BY ConfirmedWaits DEF PutWaits
  <2>. QED  BY <2>1, <2>2, <2>3, <2>4 DEF Confirmed, Waits
<1>6. ASSUME NEW t \in Times, ConfirmButton(d, t)
      PROVE  Confirmed(d)'
  <2>1. CASE ShowAlert(d)
    BY <1>3, <2>1, ConfirmQuiet DEF ShowAlert, PutWaits
  <2>2. CASE ~ShowAlert(d)
    <3>. PICK w : w = [time |-> t, by |-> Len(stack[d])]
      OBVIOUS
    <3>1. /\ stack' = stack /\ puts' = puts /\ completions' = completions
          /\ writes'[d] = Append(writes[d], w) /\ writes[d] \in Seq(Writes)
      BY <1>6, <2>2 DEF ConfirmButton, TypeOK
    <3>2. w \in Writes
      BY TopType DEF Writes
    <3>3. \A n : Waits(writes[d], n) => Waits(writes'[d], n)
      BY <3>1, <3>2, JoinWaits
    <3>. QED  BY <3>1, <3>3, ConfirmQuiet DEF PutWaits
  <2>. QED  BY <2>1, <2>2
<1>. QED
  BY <1>1, <1>4, <1>5, <1>6
     DEF UserStep, SignIn, SignInFails, ReopenLogin, RentButton, NextButton,
         SerialBack, CardBack, DoneButton, StopButton, CloseAlert, Showing

(* Nor does the system, except by presenting the next page.                *)
LEMMA SystemConfirm ==
    ASSUME TypeOK, NEW d \in Devices, DeviceInv(d), Confirmed(d), ~alert[d],
           SystemStep(d) \/ Kill(d)
    PROVE  Confirmed(d)' \/ Top(d)'.screen # "select"
<1>. USE DEF memory, fire, net, server, ui
<1>1. Top(d).screen = "select"
  BY DEF Confirmed
<1>2. CASE \/ Reconnect(d) \/ Disconnect(d)
          \/ \E ok \in BOOLEAN : ServerPut(d, ok)
  BY <1>2, ConfirmQuiet DEF Reconnect, Disconnect, ServerPut, PutWaits
<1>3. CASE PutAcked(d)
  <2>1. writes' = writes /\ stack' = stack
    BY <1>3 DEF PutAcked
  <2>. QED  BY <1>3, <2>1, AckedWaits, ConfirmQuiet
<1>4. CASE PutCompleted(d)
  <2>1. writes' = writes /\ puts' = puts
    BY <1>4 DEF PutCompleted
  <2>2. CASE PutWaits(d)
    <3>1. CASE PutWaits(d)' /\ stack'[d] = stack[d]
      BY <2>1, <3>1, ConfirmQuiet
    <3>. QED  BY <1>4, <2>2, <3>1, CompletedWaits
  <2>3. CASE ~PutWaits(d)
    <3>1. /\ completions[d] \in Seq(Completions) /\ completions[d] # <<>>
          /\ stack'[d] = stack[d] \/ Head(completions[d]).by = Len(stack[d])
      BY <1>4 DEF PutCompleted, PresentBy, CanPresent, TypeOK
    <3>2. 1 \in 1 .. Len(completions[d])
          /\ Head(completions[d]) = completions[d][1]
      BY <3>1, Left
    <3>3. stack'[d] = stack[d]
      BY <2>3, <3>1, <3>2 DEF PutWaits, Waits
    <3>. QED  BY <2>1, <2>3, <3>3, ConfirmQuiet
  <2>. QED  BY <2>2, <2>3
<1>5. CASE Kill(d)
  BY <1>5, KillLeaves
<1>6. ASSUME NEW ok \in BOOLEAN, CreateDone(d) \/ MailDone(d, ok)
      PROVE  Confirmed(d)'
  BY <1>6, ConfirmQuiet DEF CreateDone, MailDone, PutWaits
<1>. QED
  BY <1>1, <1>2, <1>3, <1>4, <1>5, <1>6, StartDecidedConfirm, CardDecidedConfirm
     DEF SystemStep, LocationUpdated, AnimationDone, Showing

(* A confirmation goes from queue to queue until its page presents the     *)
(* unlock page, unless the user or a restart leaves the page, or an alert  *)
(* is in the way.                                                          *)
THEOREM ConfirmIsNeverLost == Spec => ConfirmNeverLost
<1>1. TypeOK /\ RentalInv /\ [Next]_vars
      => [\A d \in Devices :
              Confirmed(d) /\ ~Confirmed(d)'
              => alert[d] \/ Top(d)'.screen # "select"]_vars
  <2>. SUFFICES ASSUME TypeOK, RentalInv, Next, NEW e \in Devices,
                       Confirmed(e), ~alert[e]
                PROVE  Confirmed(e)' \/ Top(e)'.screen # "select"
    OBVIOUS
  <2>1. DeviceInv(e)
    BY DEF RentalInv
  <2>2. ASSUME NEW d \in Devices, UserStep(d) \/ SystemStep(d) \/ Kill(d)
        PROVE  Confirmed(e)' \/ Top(e)'.screen # "select"
    <3>1. CASE d = e
      BY <2>1, <2>2, <3>1, UserConfirm, SystemConfirm
    <3>2. CASE d # e
      <4>1. stack'[e] = stack[e] /\ SameQueues(e) /\ writes'[e] = writes[e]
        BY <2>2, <3>2, OtherDevices, OtherQueues DEF Same, SameCalls
      <4>. QED  BY <4>1, ConfirmQuiet DEF SameQueues, PutWaits
    <3>. QED  BY <3>1, <3>2
  <2>. QED  BY <2>2 DEF Next, Running, DoneTraps
<1>. QED
  BY <1>1, TypeCorrect, RentalInvariant, PTL DEF Spec, ConfirmNeverLost

=============================================================================
