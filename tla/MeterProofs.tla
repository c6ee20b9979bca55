----------------------------- MODULE MeterProofs -----------------------------
(***************************************************************************)
(* Theorems of the meter, for every set of starts, suspensions and         *)
(* formatters, and for a clock that runs for any number of days.           *)
(***************************************************************************)
EXTENDS Meter, TLAPS

-----------------------------------------------------------------------------
(***************************************************************************)
(* Arithmetic.                                                             *)
(***************************************************************************)
(* Division by a fixed number of minutes, with its remainder.              *)
LEMMA Division ==
  ASSUME NEW m \in Int
  PROVE  /\ m % 1440 \in 0 .. 1439
         /\ m \div 1440 \in Int
         /\ m = 1440 * (m \div 1440) + (m % 1440)
         /\ m % 60 \in 0 .. 59
         /\ m \div 60 \in Int
         /\ m = 60 * (m \div 60) + (m % 60)
<1>1. m % 1440 \in 0 .. 1439 /\ m % 60 \in 0 .. 59
  OBVIOUS
<1>2. m \div 1440 \in Int /\ m \div 60 \in Int
  OBVIOUS
<1>3. m = 1440 * (m \div 1440) + (m % 1440)
  OBVIOUS
<1>4. m = 60 * (m \div 60) + (m % 60)
  OBVIOUS
<1> QED
  BY <1>1, <1>2, <1>3, <1>4

(* The minute of the hour is the minute of the day without its hours.      *)
LEMMA MinuteOfHour ==
  ASSUME NEW m \in Int
  PROVE  m % 60 = (m % 1440) % 60
  OBVIOUS

(* get_current_time writes a time string, and it reads back as the same    *)
(* minute of the day.                                                      *)
LEMMA ReadBack ==
  ASSUME NEW m \in Nat
  PROVE  /\ get_current_time(m) \in TimeStrings
         /\ DateFrom(get_current_time(m)) = m % Day
<1> DEFINE r == m % 1440
           h == r \div 60
<1>1. /\ r \in 0 .. 1439 /\ h \in 0 .. 23 /\ m % 60 \in 0 .. 59
      /\ r = 60 * h + (m % 60)
  <2>1. r \in 0 .. 1439 /\ m % 60 \in 0 .. 59
    BY Division
  <2>2. h \in 0 .. 23
    BY <2>1
  <2>3. r = 60 * h + (r % 60)
    BY <2>1, Division
  <2>4. m % 60 = r % 60
    BY MinuteOfHour
  <2> HIDE DEF h, r
  <2> QED
    BY <2>1, <2>2, <2>3, <2>4
<1>2. get_current_time(m) =
        [hour |-> IF h > 12 THEN h - 12 ELSE h,
         minute |-> m % 60, half |-> IF h >= 12 THEN "PM" ELSE "AM"]
  BY DEF get_current_time, Day
<1>3. (IF h > 12 THEN h - 12 ELSE h) \in 0 .. 12
  BY <1>1
<1>4. h % 12 = IF h >= 12 THEN h - 12 ELSE h
  BY <1>1
<1>5. h > 12 => (h - 12) % 12 = h - 12
  BY <1>1
<1> HIDE DEF h
<1>6. get_current_time(m) \in TimeStrings
  BY <1>1, <1>2, <1>3 DEF TimeStrings, HourNumbers
<1> DEFINE s == get_current_time(m)
<1>7. /\ s.hour = IF h > 12 THEN h - 12 ELSE h
      /\ s.minute = m % 60
      /\ s.half = IF h >= 12 THEN "PM" ELSE "AM"
  BY <1>2
<1>8. 60 * ((s.hour % 12) + IF s.half = "PM" THEN 12 ELSE 0) = 60 * h
  <2>1. CASE h < 12
    <3>1. s.hour % 12 = h
      BY <1>1, <1>4, <1>7, <2>1
    <3>2. s.half = "AM"
      BY <1>1, <1>7, <2>1
    <3> QED
      BY <3>1, <3>2, <1>1
  <2>2. CASE h = 12
    <3>1. s.hour % 12 = h - 12
      BY <1>1, <1>4, <1>7, <2>2
    <3>2. s.half = "PM"
      BY <1>1, <1>7, <2>2
    <3> QED
      BY <3>1, <3>2, <1>1, <2>2
  <2>3. CASE h > 12
    <3>1. s.hour % 12 = h - 12
      BY <1>1, <1>5, <1>7, <2>3
    <3>2. s.half = "PM"
      BY <1>1, <1>7, <2>3
    <3> QED
      BY <3>1, <3>2, <1>1, <2>3
  <2> QED
    BY <1>1, <2>1, <2>2, <2>3
<1>9. DateFrom(s) = 60 * h + (m % 60)
  BY <1>7, <1>8 DEF DateFrom
<1> QED
  BY <1>1, <1>6, <1>9 DEF Day

(* Later is on a later day, or at a later minute of the same day.          *)
LEMMA DayOrder ==
  ASSUME NEW m \in Nat, NEW n \in Nat, m <= n
  PROVE  /\ (n % Day) - (m % Day) \in Int
         /\ (n % Day) - (m % Day) <= n - m
         /\ SameDay(m, n) => (n % Day) - (m % Day) = n - m
<1>1. m \div 1440 <= n \div 1440
  OBVIOUS
<1>2. /\ m = 1440 * (m \div 1440) + (m % 1440)
      /\ n = 1440 * (n \div 1440) + (n % 1440)
      /\ m \div 1440 \in Int /\ n \div 1440 \in Int
      /\ m % 1440 \in Int /\ n % 1440 \in Int
  BY Division
<1> QED
  BY <1>1, <1>2 DEF Day, SameDay

(* Swift's Int(_:) of a number of hours is an integer, and never rounds up *)
(* past the hours of a longer time.                                        *)
LEMMA TruncatedBound ==
  ASSUME NEW a \in Int, NEW b \in Nat, a <= b
  PROVE  /\ Truncated(a, 60) \in Int
         /\ Truncated(a, 60) <= b \div 60
         /\ a = b => Truncated(a, 60) = b \div 60
<1>1. CASE a >= 0
  <2>1. Truncated(a, 60) = a \div 60
    BY <1>1 DEF Truncated
  <2>2. a \div 60 \in Int /\ a \div 60 <= b \div 60
    BY <1>1
  <2> QED
    BY <2>1, <2>2
<1>2. CASE a < 0
  <2>1. Truncated(a, 60) = -((-a) \div 60)
    BY <1>2 DEF Truncated
  <2>2. (-a) \div 60 \in Nat /\ b \div 60 \in Nat
    BY <1>2
  <2> QED
    BY <1>2, <2>1, <2>2
<1> QED
  BY <1>1, <1>2

(* The hours begun between two moments, as findDateDiff counts them, are   *)
(* never more than those of the time between, and exactly those within a   *)
(* day.                                                                    *)
LEMMA HoursBegun ==
  ASSUME NEW m \in Nat, NEW n \in Nat, m <= n
  PROVE  LET f == findDateDiff(get_current_time(m), get_current_time(n)) IN
         /\ f \in Int
         /\ f <= ((n - m) \div 60) + 1
         /\ SameDay(m, n) /\ BothReadable(m, n) => f = ((n - m) \div 60) + 1
<1> DEFINE f == findDateDiff(get_current_time(m), get_current_time(n))
           d == (n % Day) - (m % Day)
<1>1. d \in Int /\ d <= n - m /\ (SameDay(m, n) => d = n - m)
  BY DayOrder
<1>2. n - m \in Nat /\ (n - m) \div 60 \in Nat
  OBVIOUS
<1>3. ((n - m) + 60) \div 60 = ((n - m) \div 60) + 1
  BY <1>2
<1>4. CASE BothReadable(m, n)
  <2>1. f = Truncated(d + 60, 60)
    BY <1>4, ReadBack DEF findDateDiff, BothReadable
  <2> HIDE DEF d
  <2>2. d + 60 \in Int /\ (n - m) + 60 \in Nat /\ d + 60 <= (n - m) + 60
    BY <1>1, <1>2
  <2>3. /\ Truncated(d + 60, 60) \in Int
        /\ Truncated(d + 60, 60) <= ((n - m) + 60) \div 60
        /\ d + 60 = (n - m) + 60 =>
               Truncated(d + 60, 60) = ((n - m) + 60) \div 60
    BY <2>2, TruncatedBound
  <2>4. SameDay(m, n) => d + 60 = (n - m) + 60
    BY <1>1
  <2> HIDE DEF f
  <2>5. f \in Int /\ f <= ((n - m) \div 60) + 1
    BY <1>3, <2>1, <2>3
  <2>6. SameDay(m, n) => f = ((n - m) \div 60) + 1
    BY <1>3, <2>1, <2>3, <2>4
  <2> QED
    BY <2>5, <2>6 DEF f
<1>5. CASE ~BothReadable(m, n)
  <2>1. f = 0
    BY <1>5 DEF findDateDiff, BothReadable
  <2> QED
    BY <1>2, <1>5, <2>1
<1> QED
  BY <1>4, <1>5

(* findDateDiff2 counts the same full hours, one less than findDateDiff    *)
(* counts begun.                                                           *)
LEMMA FullHours ==
  ASSUME NEW m \in Nat, NEW n \in Nat, m <= n
  PROVE  LET g == findDateDiff2(get_current_time(m), get_current_time(n)) IN
         /\ g \in {<<>>} \cup (Int \X Int)
         /\ SameDay(m, n) /\ BothReadable(m, n) => g[1] = (n - m) \div 60
<1> DEFINE g == findDateDiff2(get_current_time(m), get_current_time(n))
           d == (n % Day) - (m % Day)
           hour == Truncated(d, 60)
<1>1. d \in Int /\ d <= n - m /\ (SameDay(m, n) => d = n - m)
  BY DayOrder
<1>2. /\ hour \in Int
      /\ SameDay(m, n) => hour = (n - m) \div 60
  BY <1>1, TruncatedBound
<1>3. CASE BothReadable(m, n)
  <2>1. g = <<hour, d - 60 * hour + 1>>
    BY <1>3, ReadBack DEF findDateDiff2, BothReadable
  <2> HIDE DEF d, hour
  <2>2. d - 60 * hour + 1 \in Int
    BY <1>1, <1>2
  <2> HIDE DEF g
  <2>3. g[1] = hour
    BY <2>1
  <2>4. g \in Int \X Int
    BY <1>2, <2>1, <2>2
  <2> QED
    BY <1>2, <2>3, <2>4 DEF g
<1>4. CASE ~BothReadable(m, n)
  BY <1>4 DEF findDateDiff2, BothReadable
<1> QED
  BY <1>3, <1>4

-----------------------------------------------------------------------------
(***************************************************************************)
(* The inductive invariant: what each label was computed from, and when a  *)
(* label is as of now.                                                     *)
(***************************************************************************)
MomentsInOrder ==
    /\ opened <= billedAt /\ billedAt <= now
    /\ opened <= timedAt /\ timedAt <= now
    /\ page = "select" => opened = now

LabelsComputed ==
    Billed =>
        /\ usage_hour = findDateDiff(start_rent_time, get_current_time(billedAt))
        /\ payment = calculatePayment(usage_hour)
        /\ duration = findDateDiff2(start_rent_time, get_current_time(timedAt))
        /\ ~due_2 => billedAt = now
        /\ ~due => timedAt = now

TimersFit ==
    /\ ticking <=> page = "status"
    /\ page \in {"select", "unlock"} => ~due /\ ~due_2

MeterInv ==
    /\ TypeOK
    /\ start_rent_time = get_current_time(opened)
    /\ MomentsInOrder
    /\ LabelsComputed
    /\ TimersFit

(* What the two labels show has the type of the labels, whenever they are  *)
(* computed.                                                               *)
LEMMA LabelTypes ==
  ASSUME MeterInv
  PROVE  LET t == get_current_time(now) IN
         /\ findDateDiff(start_rent_time, t) \in Int
         /\ calculatePayment(findDateDiff(start_rent_time, t)) \in Int
         /\ findDateDiff2(start_rent_time, t) \in {<<>>} \cup (Int \X Int)
<1>1. now \in Nat /\ opened \in Nat /\ opened <= now
  BY DEF MeterInv, MomentsInOrder, TypeOK
<1>2. start_rent_time = get_current_time(opened)
  BY DEF MeterInv
<1> QED
  BY <1>1, <1>2, HoursBegun, FullHours DEF calculatePayment

(* The rental starts with the invariant.                                   *)
LEMMA MeterInit == Init => MeterInv
<1> SUFFICES ASSUME Init PROVE MeterInv
  OBVIOUS
<1>1. now \in Nat
  BY MeterAssumption DEF Init
<1>2. get_current_time(now) \in TimeStrings
  BY <1>1, ReadBack
<1>3. TypeOK
  <2>1. ticking \in BOOLEAN /\ due \in BOOLEAN /\ due_2 \in BOOLEAN
    BY Zenon DEF Init
  <2>2. duration \in {<<>>} \cup (Int \X Int)
    BY Zenon DEF Init
  <2>3. unread \in Formatters /\ start_rent_time \in TimeStrings
    BY <1>2 DEF Init
  <2>4. /\ opened \in Nat /\ billedAt \in Nat /\ timedAt \in Nat
        /\ usage_hour \in Int /\ payment \in Int /\ page = "select"
    BY <1>1 DEF Init
  <2> QED
    BY <1>1, <2>1, <2>2, <2>3, <2>4 DEF TypeOK
<1>4. MomentsInOrder
  BY <1>1 DEF Init, MomentsInOrder
<1>5. LabelsComputed /\ TimersFit
  BY Zenon DEF Init, LabelsComputed, TimersFit, Billed
<1> QED
  BY <1>3, <1>4, <1>5 DEF MeterInv, Init

(* No step changes the phone's formatter, so the differences of two given  *)
(* times stay what they are.                                               *)
LEMMA SameFormatter ==
  ASSUME unread' = unread, NEW s, NEW t
  PROVE  /\ findDateDiff(s, t)' = findDateDiff(s, t)
         /\ findDateDiff2(s, t)' = findDateDiff2(s, t)
  BY DEF findDateDiff, findDateDiff2, Readable

(* Every step keeps every variable of its type.                            *)
LEMMA MeterType == MeterInv /\ [Next]_vars => TypeOK'
<1> SUFFICES ASSUME MeterInv, [Next]_vars PROVE TypeOK'
  OBVIOUS
<1> USE DEF clock, labels, timers
<1>0. TypeOK
  BY DEF MeterInv
<1>1. CASE UNCHANGED vars
  BY <1>0, <1>1 DEF TypeOK, vars
<1>2. CASE ConfirmButton
  BY <1>0, <1>2, ReadBack DEF TypeOK, ConfirmButton
<1>3. CASE StatusLoaded
  BY <1>0, <1>3, LabelTypes DEF TypeOK, StatusLoaded, ShowPayment, ShowDuration
<1>4. CASE MinutePasses
  BY <1>0, <1>4 DEF TypeOK, MinutePasses
<1>5. ASSUME NEW n \in Naps, Suspended(n) PROVE TypeOK'
  BY <1>0, <1>5, MeterAssumption DEF TypeOK, Suspended
<1>6. CASE DurationTimer
  BY <1>0, <1>6, LabelTypes DEF TypeOK, DurationTimer, ShowDuration
<1>7. CASE PaymentTimer
  BY <1>0, <1>7, LabelTypes DEF TypeOK, PaymentTimer, ShowPayment
<1>8. CASE StopButton
  BY <1>0, <1>8 DEF TypeOK, StopButton
<1> QED
  BY <1>1, <1>2, <1>3, <1>4, <1>5, <1>6, <1>7, <1>8 DEF Next

(* The start time is written once, and the moments stay in their order.    *)
LEMMA MomentsKept ==
  MeterInv /\ [Next]_vars =>
      MomentsInOrder' /\ (start_rent_time = get_current_time(opened))'
<1> SUFFICES ASSUME MeterInv, [Next]_vars
             PROVE  MomentsInOrder' /\
                    start_rent_time' = get_current_time(opened')
  OBVIOUS
<1> USE DEF clock, labels, timers
<1>0. /\ now \in Nat /\ opened \in Nat /\ billedAt \in Nat /\ timedAt \in Nat
      /\ MomentsInOrder /\ start_rent_time = get_current_time(opened)
  BY DEF MeterInv, TypeOK
<1>1. CASE UNCHANGED vars
  BY <1>0, <1>1 DEF MomentsInOrder, vars
<1>2. CASE ConfirmButton
  BY <1>0, <1>2 DEF MomentsInOrder, ConfirmButton
<1>3. CASE StatusLoaded
  BY <1>0, <1>3 DEF MomentsInOrder, StatusLoaded, ShowPayment, ShowDuration
<1>4. CASE MinutePasses
  BY <1>0, <1>4 DEF MomentsInOrder, MinutePasses
<1>5. ASSUME NEW n \in Naps, Suspended(n)
      PROVE  MomentsInOrder' /\ start_rent_time' = get_current_time(opened')
  BY <1>0, <1>5, MeterAssumption DEF MomentsInOrder, Suspended
<1>6. CASE DurationTimer
  BY <1>0, <1>6 DEF MomentsInOrder, DurationTimer, ShowDuration
<1>7. CASE PaymentTimer
  BY <1>0, <1>7 DEF MomentsInOrder, PaymentTimer, ShowPayment
<1>8. CASE StopButton
  BY <1>0, <1>8 DEF MomentsInOrder, StopButton
<1> QED
  BY <1>1, <1>2, <1>3, <1>4, <1>5, <1>6, <1>7, <1>8 DEF Next

(* The timers run exactly while the status page is in front.               *)
LEMMA TimersKept == MeterInv /\ [Next]_vars => TimersFit'
<1> SUFFICES ASSUME MeterInv, [Next]_vars PROVE TimersFit'
  OBVIOUS
<1> USE DEF clock, labels, timers
<1>0. TimersFit
  BY DEF MeterInv
<1>1. CASE UNCHANGED vars
  BY <1>0, <1>1 DEF TimersFit, vars
<1>2. CASE ConfirmButton
  BY <1>0, <1>2 DEF TimersFit, ConfirmButton
<1>3. CASE StatusLoaded
  BY <1>0, <1>3 DEF TimersFit, StatusLoaded
<1>4. CASE MinutePasses
  BY <1>0, <1>4 DEF TimersFit, MinutePasses
<1>5. ASSUME NEW n \in Naps, Suspended(n) PROVE TimersFit'
  BY <1>0, <1>5 DEF TimersFit, Suspended
<1>6. CASE DurationTimer
  BY <1>0, <1>6 DEF TimersFit, DurationTimer
<1>7. CASE PaymentTimer
  BY <1>0, <1>7 DEF TimersFit, PaymentTimer
<1>8. CASE StopButton
  BY <1>0, <1>8 DEF TimersFit, StopButton
<1> QED
  BY <1>1, <1>2, <1>3, <1>4, <1>5, <1>6, <1>7, <1>8 DEF Next

(* Every label is the one computed when its timer last fired, and a timer  *)
(* that does not have to fire has fired in this minute.                    *)
LEMMA LabelsKept == MeterInv /\ [Next]_vars => LabelsComputed'
<1> SUFFICES ASSUME MeterInv, [Next]_vars PROVE LabelsComputed'
  OBVIOUS
<1> USE DEF clock, labels, timers
<1>0. LabelsComputed /\ TimersFit
  BY DEF MeterInv
<1>1. unread' = unread
  BY DEF Next, vars, ConfirmButton, StatusLoaded, MinutePasses,
     Suspended, DurationTimer, PaymentTimer, StopButton
<1>2. CASE UNCHANGED vars
  BY <1>0, <1>1, <1>2, SameFormatter DEF LabelsComputed, Billed, vars
<1>3. CASE ConfirmButton
  BY <1>3 DEF LabelsComputed, Billed, ConfirmButton
<1>4. CASE StatusLoaded
  BY <1>1, <1>4, SameFormatter
  DEF LabelsComputed, Billed, StatusLoaded, ShowPayment, ShowDuration
<1>5. ASSUME page \in {"unlock", "status"},
             UNCHANGED <<page, start_rent_time, usage_hour, payment, duration,
                         billedAt, timedAt, ticking>>,
             due' = ticking, due_2' = ticking
      PROVE  LabelsComputed'
  BY <1>0, <1>1, <1>5, SameFormatter DEF LabelsComputed, Billed, TimersFit
<1>6. CASE MinutePasses
  BY <1>5, <1>6 DEF MinutePasses
<1>7. ASSUME NEW n \in Naps, Suspended(n) PROVE LabelsComputed'
  BY <1>5, <1>7 DEF Suspended
<1>8. CASE DurationTimer
  BY <1>0, <1>1, <1>8, SameFormatter
  DEF LabelsComputed, Billed, DurationTimer, ShowDuration
<1>9. CASE PaymentTimer
  BY <1>0, <1>1, <1>9, SameFormatter
  DEF LabelsComputed, Billed, PaymentTimer, ShowPayment
<1>10. CASE StopButton
  BY <1>0, <1>1, <1>10, SameFormatter DEF LabelsComputed, Billed, StopButton
<1> QED
  BY <1>2, <1>3, <1>4, <1>6, <1>7, <1>8, <1>9, <1>10 DEF Next

-----------------------------------------------------------------------------
(***************************************************************************)
(* Theorems.                                                               *)
(***************************************************************************)
(* The inductive invariant of the meter: types, the order of the moments,  *)
(* and what each label was computed from.                                  *)
THEOREM MeterInvariant == Spec => []MeterInv
<1>1. MeterInv /\ [Next]_vars => MeterInv'
  BY MeterType, MomentsKept, TimersKept, LabelsKept DEF MeterInv
<1> QED
  BY <1>1, MeterInit, PTL DEF Spec

(* The meter's state always has the types of the code.                     *)
THEOREM MeterTypeCorrect == Spec => []TypeOK
<1>1. MeterInv => TypeOK
  BY DEF MeterInv
<1> QED
  BY <1>1, MeterInvariant, PTL

(* The start time the app writes down can always be read back.             *)
THEOREM ClockIsRead == Spec => []ClockReadsBack
<1>1. MeterInv => ClockReadsBack
  BY ReadBack DEF MeterInv, TypeOK, ClockReadsBack
<1> QED
  BY <1>1, MeterInvariant, PTL

(* Within the day of the confirmation the payment follows the tariff.      *)
THEOREM TariffIsKept == Spec => []TariffWithinADay
<1>1. MeterInv => TariffWithinADay
  <2> SUFFICES ASSUME MeterInv, Billed, SameDay(opened, billedAt),
                      BothReadable(opened, billedAt)
               PROVE  payment = Tariff(billedAt - opened)
    BY DEF TariffWithinADay
  <2>1. opened \in Nat /\ billedAt \in Nat /\ opened <= billedAt
    BY DEF MeterInv, MomentsInOrder, TypeOK
  <2>2. usage_hour = ((billedAt - opened) \div 60) + 1
    BY <2>1, HoursBegun DEF MeterInv, LabelsComputed
  <2>3. payment = usage_hour * 150
    BY DEF MeterInv, LabelsComputed, calculatePayment
  <2>4. (billedAt - opened) \div 60 \in Int
    BY <2>1
  <2> QED
    BY <2>2, <2>3, <2>4 DEF Tariff
<1> QED
  BY <1>1, MeterInvariant, PTL

(* Nobody is ever asked for more than the tariff of the time that passed.  *)
THEOREM NobodyOvercharged == Spec => []NeverOvercharged
<1>1. MeterInv => NeverOvercharged
  <2> SUFFICES ASSUME MeterInv, Billed
               PROVE  payment <= Tariff(now - opened)
    BY DEF NeverOvercharged
  <2>1. /\ now \in Nat /\ opened \in Nat /\ billedAt \in Nat
        /\ opened <= billedAt /\ billedAt <= now
    BY DEF MeterInv, MomentsInOrder, TypeOK
  <2>2. usage_hour \in Int /\ usage_hour <= ((billedAt - opened) \div 60) + 1
    BY <2>1, HoursBegun DEF MeterInv, LabelsComputed
  <2>3. payment = usage_hour * 150
    BY DEF MeterInv, LabelsComputed, calculatePayment
  <2>4. /\ (billedAt - opened) \div 60 \in Int
        /\ (now - opened) \div 60 \in Int
        /\ (billedAt - opened) \div 60 <= (now - opened) \div 60
    BY <2>1
  <2> QED
    BY <2>2, <2>3, <2>4 DEF Tariff
<1> QED
  BY <1>1, MeterInvariant, PTL

(* The two timers keep the labels in step.                                 *)
THEOREM LabelsInStep == Spec => []LabelsAgree
<1>1. MeterInv => LabelsAgree
  <2> SUFFICES ASSUME MeterInv, Billed, ~due, ~due_2, SameDay(opened, now),
                      BothReadable(opened, now)
               PROVE  usage_hour = duration[1] + 1
    BY DEF LabelsAgree
  <2>1. now \in Nat /\ opened \in Nat /\ opened <= now
    BY DEF MeterInv, MomentsInOrder, TypeOK
  <2>2. usage_hour = ((now - opened) \div 60) + 1
    BY <2>1, HoursBegun DEF MeterInv, LabelsComputed
  <2>3. duration[1] = (now - opened) \div 60
    BY <2>1, FullHours DEF MeterInv, LabelsComputed
  <2> QED
    BY <2>2, <2>3
<1> QED
  BY <1>1, MeterInvariant, PTL

(* After Stop the labels stand.                                            *)
THEOREM StopFreezes == Spec => FrozenAfterStop
<1>1. MeterInv /\ [Next]_vars => [page = "stopped" => UNCHANGED labels]_vars
  BY DEF MeterInv, TimersFit, Next, vars, labels, ConfirmButton, StatusLoaded,
     MinutePasses, Suspended, DurationTimer, PaymentTimer, StopButton
<1> QED
  BY <1>1, MeterInvariant, PTL DEF Spec, FrozenAfterStop
=============================================================================
