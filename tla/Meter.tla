-------------------------------- MODULE Meter --------------------------------
(***************************************************************************)
(* The meter of one rental: the start time the app writes down when the    *)
(* user confirms, and the duration and payment labels of the status page,  *)
(* which two independent timers recompute once a minute from the start     *)
(* time and the clock.                                                     *)
(*                                                                         *)
(* Times are strings such as "01:05 PM", without a date.  The clock counts *)
(* minutes since the midnight before the rental; no string of the app has  *)
(* seconds.  Money is in cents.                                            *)
(***************************************************************************)
EXTENDS Integers

CONSTANTS
    Starts,      \* minutes of the clock at which the user may confirm
    Naps,        \* minutes for which iOS may suspend the app
    Formatters,  \* what a DateFormatter may fail to read, see unread
    MaxNow       \* bound: the last minute of the clock

HourNumbers == 0 .. 12

ASSUME MeterAssumption ==
    /\ Starts \subseteq Nat
    /\ Naps \subseteq Nat
    /\ Formatters \subseteq SUBSET HourNumbers
    /\ MaxNow \in Nat

VARIABLES
    now,              \* the clock
    unread,           \* hour numbers this phone's DateFormatter rejects
    page,             \* the page in front
    start_rent_time,  \* of the status page, from User.instance
    usage_hour,       \* what calculatePayment() multiplies
    payment,          \* the payment label
    duration,         \* the duration label
    ticking,          \* the two timers are valid
    due,              \* timer_ has to fire in this minute
    due_2             \* timer_2 has to fire in this minute

(* History: when the user confirmed, and when each label was computed.     *)
VARIABLES opened, billedAt, timedAt

clock == <<now, unread>>
labels == <<usage_hour, payment, duration, billedAt, timedAt>>
timers == <<ticking, due, due_2>>
vars == <<clock, page, start_rent_time, opened, labels, timers>>
-----------------------------------------------------------------------------
Day == 1440

TimeStrings == [hour: HourNumbers, minute: 0 .. 59, half: {"AM", "PM"}]

(* Two mutants: hours after noon keep their number; noon counts as AM.     *)
get_current_time_24(m) ==
    LET h == (m % Day) \div 60 IN
    [hour |-> h, minute |-> m % 60,
     half |-> IF h >= 12 THEN "PM" ELSE "AM"]
get_current_time_Noon(m) ==
    LET h == (m % Day) \div 60 IN
    [hour |-> IF h > 12 THEN h - 12 ELSE h, minute |-> m % 60,
     half |-> IF h > 12 THEN "PM" ELSE "AM"]

(* The hour after midnight is written "00 AM", the hour after noon         *)
(* "12 PM".                                                                *)
get_current_time(m) ==
    LET h == (m % Day) \div 60 IN
    [hour |-> IF h > 12 THEN h - 12 ELSE h, minute |-> m % 60,
     half |-> IF h >= 12 THEN "PM" ELSE "AM"]

(* DateFormatter with "hh:mm a": what it reads, as a minute of the day.    *)
Readable(s) == s.hour \notin unread

DateFrom(s) == 60 * ((s.hour % 12) + IF s.half = "PM" THEN 12 ELSE 0) + s.minute

(* Swift's Int(_:) of the quotient a / b.                                  *)
Truncated(a, b) == IF a >= 0 THEN a \div b ELSE -((-a) \div b)

(* Two mutants: the hour begun is not counted; minutes are returned.       *)
findDateDiff_NoFirst(s, t) ==
    IF Readable(s) /\ Readable(t)
    THEN Truncated(DateFrom(t) - DateFrom(s), 60)
    ELSE 0
findDateDiff_Minutes(s, t) ==
    IF Readable(s) /\ Readable(t)
    THEN DateFrom(t) - DateFrom(s) + 1
    ELSE 0

(* Hours begun between two times, 0 when one of them cannot be read.       *)
findDateDiff(s, t) ==
    IF Readable(s) /\ Readable(t)
    THEN Truncated(DateFrom(t) - DateFrom(s) + 60, 60)
    ELSE 0

(* Hours and minutes between two times; the minutes run from 1 to 60.      *)
findDateDiff2(s, t) ==
    LET interval == DateFrom(t) - DateFrom(s)
        hour == Truncated(interval, 60)
    IN IF Readable(s) /\ Readable(t)
       THEN <<hour, interval - 60 * hour + 1>>
       ELSE <<>>

calculatePayment(hours) == hours * 150
-----------------------------------------------------------------------------
(* The user is about to confirm on the payment page.                       *)
Init ==
    /\ now \in Starts
    /\ unread \in Formatters
    /\ page = "select"
    /\ start_rent_time = get_current_time(now)
    /\ usage_hour = 0
    /\ payment = 0
    /\ duration = <<>>
    /\ ticking = FALSE
    /\ due = FALSE
    /\ due_2 = FALSE
    /\ opened = now
    /\ billedAt = now
    /\ timedAt = now

(* confirm_button_clicked writes the start time down.                      *)
ConfirmButton ==
    /\ page = "select"
    /\ page' = "unlock"
    /\ start_rent_time' = get_current_time(now)
    /\ opened' = now
    /\ UNCHANGED <<clock, labels, timers>>

ShowPayment ==
    /\ usage_hour' = findDateDiff(start_rent_time, get_current_time(now))
    /\ payment' = calculatePayment(usage_hour')
    /\ billedAt' = now

ShowDuration ==
    /\ duration' = findDateDiff2(start_rent_time, get_current_time(now))
    /\ timedAt' = now

(* viewDidLoad of the status page, some minutes after the confirmation.    *)
StatusLoaded ==
    /\ page = "unlock"
    /\ page' = "status"
    /\ ShowPayment
    /\ ShowDuration
    /\ ticking' = TRUE
    /\ UNCHANGED <<clock, start_rent_time, opened, due, due_2>>

(* The two timers have a period of one minute each: awake, each fires once *)
(* between two minutes of the clock, in any order.                         *)
MinutePasses ==
    /\ page \in {"unlock", "status"}
    /\ ~due /\ ~due_2
    /\ now < MaxNow
    /\ now' = now + 1
    /\ due' = ticking
    /\ due_2' = ticking
    /\ UNCHANGED <<unread, page, start_rent_time, opened, labels, ticking>>

(* iOS suspends the app: the clock runs on, no timer fires, and each fires *)
(* once, late, when the app is back.                                       *)
Suspended(n) ==
    /\ page \in {"unlock", "status"}
    /\ now + n <= MaxNow
    /\ now' = now + n
    /\ due' = ticking
    /\ due_2' = ticking
    /\ UNCHANGED <<unread, page, start_rent_time, opened, labels, ticking>>

DurationTimer ==
    /\ ticking /\ due
    /\ due' = FALSE
    /\ ShowDuration
    /\ UNCHANGED <<clock, page, start_rent_time, opened, ticking, due_2,
                   usage_hour, payment, billedAt>>

(* A mutant for LabelsAgree: timer_2 does nothing, as its comment says.    *)
PaymentTimer_DoNothing ==
    /\ ticking /\ due_2
    /\ due_2' = FALSE
    /\ UNCHANGED <<clock, page, start_rent_time, opened, ticking, due, labels>>

PaymentTimer ==
    /\ ticking /\ due_2
    /\ due_2' = FALSE
    /\ ShowPayment
    /\ UNCHANGED <<clock, page, start_rent_time, opened, ticking, due,
                   duration, timedAt>>

(* A mutant for FrozenAfterStop: the timers stay valid.                    *)
StopButton_KeepTimers ==
    /\ page = "status"
    /\ page' = "stopped"
    /\ UNCHANGED <<clock, start_rent_time, opened, labels, timers>>

(* stop_renting_button_clicked; the labels are left as they are, and this  *)
(* page reads the clock no more.                                           *)
StopButton ==
    /\ page = "status"
    /\ page' = "stopped"
    /\ ticking' = FALSE
    /\ UNCHANGED <<clock, start_rent_time, opened, labels, due, due_2>>

Next ==
    \/ ConfirmButton
    \/ StatusLoaded
    \/ MinutePasses
    \/ \E n \in Naps : Suspended(n)
    \/ DurationTimer
    \/ PaymentTimer
    \/ StopButton

Spec == Init /\ [][Next]_vars
-----------------------------------------------------------------------------
TypeOK ==
    /\ now \in Nat
    /\ unread \in Formatters
    /\ page \in {"select", "unlock", "status", "stopped"}
    /\ start_rent_time \in TimeStrings
    /\ usage_hour \in Int
    /\ payment \in Int
    /\ duration \in {<<>>} \cup (Int \X Int)
    /\ ticking \in BOOLEAN
    /\ due \in BOOLEAN
    /\ due_2 \in BOOLEAN
    /\ opened \in Nat
    /\ billedAt \in Nat
    /\ timedAt \in Nat

Billed == page \in {"status", "stopped"}

SameDay(m, n) == m \div Day = n \div Day

BothReadable(m, n) ==
    Readable(get_current_time(m)) /\ Readable(get_current_time(n))

(* $1.50 for opening an umbrella and $1.50 for every full hour after that. *)
Tariff(minutes) == 150 + 150 * (minutes \div 60)

(* Whatever get_current_time writes, a DateFormatter that accepts it reads *)
(* as the same minute of the day, noon and midnight included.              *)
ClockReadsBack == DateFrom(get_current_time(now)) = now % Day

(* On the day of the confirmation the payment label is the tariff of the   *)
(* moment it was last computed, however late its timer fired.              *)
TariffWithinADay ==
    Billed /\ SameDay(opened, billedAt) /\ BothReadable(opened, billedAt) =>
        payment = Tariff(billedAt - opened)

(* The payment label never asks for more than the tariff of the time that  *)
(* has really passed: not after a suspension, not across midnights and not *)
(* when a time cannot be read.                                             *)
NeverOvercharged == Billed => payment <= Tariff(now - opened)

(* When no timer is about to fire, the two labels of the status page tell  *)
(* the same hour, although each is recomputed by a timer of its own.       *)
LabelsAgree ==
    /\ Billed /\ ~due /\ ~due_2
    /\ SameDay(opened, now) /\ BothReadable(opened, now)
    => usage_hour = duration[1] + 1

(* After Stop no timer touches the labels: what the user saw then stands.  *)
FrozenAfterStop == [][page = "stopped" => UNCHANGED labels]_vars
-----------------------------------------------------------------------------
(***************************************************************************)
(* What the documents of the project say, and the code denies.             *)
(***************************************************************************)
(* "Then for each hour ... additional $1.50": the tariff of the time that  *)
(* has passed, also when midnight lies within it.                          *)
TariffAlways ==
    Billed /\ BothReadable(opened, billedAt) =>
        payment = Tariff(billedAt - opened)
=============================================================================
