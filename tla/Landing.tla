------------------------------- MODULE Landing -------------------------------
(***************************************************************************)
(* The landing page's map and the menu over it, on one device.  Every      *)
(* landing page observes "gps" in the Realtime Database from viewDidLoad   *)
(* on, and none ever stops; the block redraws the page's marker.  The menu *)
(* closes in an animation; a global DispatchGroup holds back the block     *)
(* that presents the landing page until it has ended.  The observers'      *)
(* blocks, the start of an animation and the held-back blocks all run on   *)
(* the main queue, in the order in which they got there.                   *)
(*                                                                         *)
(* The place of the umbrella stands for latitude and longitude; Origin is  *)
(* what the block reads when there are none.  "other" stands for all other *)
(* pages.  Location updates are CLLocationManager's.                       *)
(***************************************************************************)
EXTENDS Naturals, FiniteSets, SequencesExt

CONSTANTS
    Places,     \* places that the umbrella writes into "gps"
    Origin,     \* latitude 0.0, longitude 0.0
    None,       \* the node "gps" is empty
    Unknown,    \* nothing has been read, nothing is shown
    MaxDepth,   \* bound: pages from which the user opens one more
    MaxQueue,   \* bound: blocks and values under way when "gps" changes or a
                \* menu is touched
    MaxTouches  \* bound: closings under way when a menu is touched, and
                \* blocks held back

ASSUME LandingAssumption ==
    /\ Origin \notin Places
    /\ None \notin Places \cup {Origin}
    /\ Unknown \notin Places \cup {Origin, None}
    /\ MaxDepth \in Nat /\ MaxQueue \in Nat /\ MaxTouches \in Nat

VARIABLES
    stack,       \* presented pages with their markers, bottom first
    alert,       \* an alert is over the top page
    gps,         \* the node on the server
    cache,       \* the client's copy of it
    conn,        \* the client is connected
    wire,        \* values on their way to the client, oldest first
    main_queue,  \* DispatchQueue.main
    group,       \* the count of global_dispatchGroup
    waiting,     \* the blocks that notify holds back
    animating,   \* the menus whose closing animations run
    closed       \* history: the menus whose closing animation has ended

page   == <<stack, alert>>
client == <<cache, conn, wire>>
menu   == <<group, waiting, animating, closed>>
vars   == <<page, gps, client, main_queue, menu>>
-----------------------------------------------------------------------------
Values == Places \cup {Origin, None}
View == [page: {"other", "landing", "menu"}, marker: Values \cup {Unknown}]

(* A block on the main queue: "value" redraws a marker, "close" starts the *)
(* closing animation, "landing" presents the landing page.                 *)
Block == [op: {"value", "close", "landing"}, by: Nat,
          value: Values \cup {Unknown}]

Redraw(i, v) == [op |-> "value", by |-> i, value |-> v]
Task(op, i) == [op |-> op, by |-> i, value |-> Unknown]

Top == stack[Len(stack)].page
Touchable(p) == Top = p /\ ~alert
LandingPages == {i \in DOMAIN stack : stack[i].page = "landing"}

(* present(_:animated:) by a page that presents something only warns. *)
CanPresent(i) == i = Len(stack) /\ ~alert

(* A new observer is told what the client knows.  The first one makes it   *)
(* listen, once it is connected.                                           *)
Observe(i) == IF cache = Unknown THEN <<>> ELSE <<Redraw(i, cache)>>
Listen == IF conn /\ LandingPages = {} THEN <<gps>> ELSE <<>>

(* Page p is presented over the top page; a landing page loads its map and *)
(* observes.  The blocks that are left on the main queue are rest.         *)
Show(p, rest) ==
    /\ stack' = Append(stack, [page |-> p, marker |-> Unknown])
    /\ IF p = "landing"
       THEN /\ main_queue' = rest \o Observe(Len(stack) + 1)
            /\ wire' = wire \o Listen
       ELSE main_queue' = rest /\ UNCHANGED wire

Init ==
    /\ stack = <<[page |-> "other", marker |-> Unknown]>>
    /\ alert = FALSE
    /\ gps \in Places \cup {None}
    /\ cache = Unknown /\ conn = FALSE /\ wire = <<>>
    /\ main_queue = <<>>
    /\ group = 0 /\ waiting = <<>> /\ animating = <<>> /\ closed = {}

(* The app is killed, or traps, and is launched again. *)
Kill ==
    /\ stack' = <<[page |-> "other", marker |-> Unknown]>>
    /\ alert' = FALSE
    /\ cache' = Unknown /\ conn' = FALSE /\ wire' = <<>>
    /\ main_queue' = <<>>
    /\ group' = 0 /\ waiting' = <<>> /\ animating' = <<>> /\ closed' = {}
    /\ UNCHANGED gps
-----------------------------------------------------------------------------
(***************************************************************************)
(* The user, and where the user is.                                        *)
(***************************************************************************)
(* A page opens another: from a menu whose closing animation has begun, no *)
(* button can be touched any more.                                         *)
OpenPage(from, to) ==
    /\ <<from, to>> \in {<<"other", "landing">>, <<"landing", "menu">>,
                         <<"landing", "other">>, <<"menu", "other">>}
    /\ Touchable(from)
    /\ from = "menu" => Len(stack) \notin closed \cup ToSet(animating)
    /\ Len(stack) < MaxDepth
    /\ Show(to, main_queue)
    /\ UNCHANGED <<alert, gps, cache, conn, menu>>

(* Every landing page is told about locations; only the one on top can     *)
(* present its alert.                                                      *)
DidUpdateLocations ==
    /\ \E i \in LandingPages : CanPresent(i)
    /\ alert' = TRUE
    /\ UNCHANGED <<stack, gps, client, main_queue, menu>>

CloseAlert ==
    /\ alert
    /\ alert' = FALSE
    /\ UNCHANGED <<stack, gps, client, main_queue, menu>>

(* Touches are bounded, but do not end: as long as at most MaxTouches      *)
(* closings are under way, a menu can be touched again.                    *)
MayTouch ==
    Touchable("menu") /\ group < MaxTouches /\ Len(main_queue) < MaxQueue

(* Of the blocks that notify holds back for one menu the first presents,   *)
(* and the others then only warn: MaxTouches of them stand for more.       *)
HoldBack(b) ==
    \/ Len(waiting) < MaxTouches /\ waiting' = Append(waiting, b)
    \/ /\ Len(waiting) >= MaxTouches /\ b \in ToSet(waiting)
       /\ UNCHANGED waiting

(* A mutant for LandingAfterClosing: notify comes before enter.            *)
TouchesBegan_NotifyFirst ==
    LET close == Task("close", Len(stack))
        landing == Task("landing", Len(stack))
    IN
    /\ MayTouch
    /\ group' = group + 1
    /\ \/ /\ group = 0
          /\ main_queue' = main_queue \o <<landing, close>>
          /\ UNCHANGED waiting
       \/ /\ group # 0
          /\ main_queue' = Append(main_queue, close)
          /\ HoldBack(landing)
    /\ UNCHANGED <<page, gps, client, animating, closed>>

(* A mutant for TypeOK: the closing does not enter the group.              *)
TouchesBegan_NoEnter ==
    LET close == Task("close", Len(stack))
        landing == Task("landing", Len(stack))
    IN
    /\ MayTouch
    /\ \/ /\ group = 0
          /\ main_queue' = main_queue \o <<close, landing>>
          /\ UNCHANGED waiting
       \/ /\ group # 0
          /\ main_queue' = Append(main_queue, close)
          /\ HoldBack(landing)
    /\ UNCHANGED <<page, gps, client, group, animating, closed>>

(* A touch beside the menu's buttons: exit_hamburger_menu enters the group *)
(* and leaves the animation to the main queue, and notify holds the        *)
(* landing page back, the group not being empty.                           *)
TouchesBegan ==
    /\ MayTouch
    /\ group' = group + 1
    /\ main_queue' = Append(main_queue, Task("close", Len(stack)))
    /\ HoldBack(Task("landing", Len(stack)))
    /\ UNCHANGED <<page, gps, client, animating, closed>>

-----------------------------------------------------------------------------
(***************************************************************************)
(* The main thread.                                                        *)
(***************************************************************************)
(* The observer's block: the marker is replaced; value! traps when there   *)
(* is no value.                                                            *)
RunValue(b) ==
    /\ b.op = "value"
    /\ \/ /\ b.value # None
          /\ stack' = [stack EXCEPT ![b.by].marker = b.value]
          /\ main_queue' = Tail(main_queue)
          /\ UNCHANGED <<alert, gps, client, menu>>
       \/ b.value = None /\ Kill

RunClose(b) ==
    /\ b.op = "close"
    /\ animating' = Append(animating, b.by)
    /\ main_queue' = Tail(main_queue)
    /\ UNCHANGED <<page, gps, client, group, waiting, closed>>

RunLanding(b) ==
    /\ b.op = "landing"
    /\ IF CanPresent(b.by)
       THEN Show("landing", Tail(main_queue))
       ELSE main_queue' = Tail(main_queue) /\ UNCHANGED <<stack, wire>>
    /\ UNCHANGED <<alert, gps, cache, conn, menu>>

RunBlock ==
    /\ main_queue # <<>>
    /\ LET b == Head(main_queue) IN RunValue(b) \/ RunClose(b) \/ RunLanding(b)

(* A mutant for MenuClosesToLanding: leave is forgotten.                   *)
AnimationEnds_NoLeave(k) ==
    /\ animating' = RemoveAt(animating, k)
    /\ closed' = closed \cup {animating[k]}
    /\ UNCHANGED <<page, gps, client, main_queue, group, waiting>>

(* A mutant for MenuNeverForgotten: each end lets go what is held back.    *)
AnimationEnds_DropHeld(k) ==
    /\ animating' = RemoveAt(animating, k)
    /\ closed' = closed \cup {animating[k]}
    /\ group' = group - 1
    /\ main_queue' = IF group = 1 THEN main_queue \o waiting ELSE main_queue
    /\ waiting' = <<>>
    /\ UNCHANGED <<page, gps, client>>

(* The completion of an animation leaves the group; with the last one what *)
(* notify has held back goes to the main queue.                            *)
AnimationEnds(k) ==
    /\ animating' = RemoveAt(animating, k)
    /\ closed' = closed \cup {animating[k]}
    /\ group' = group - 1
    /\ IF group = 1
       THEN main_queue' = main_queue \o waiting /\ waiting' = <<>>
       ELSE UNCHANGED <<main_queue, waiting>>
    /\ UNCHANGED <<page, gps, client>>

-----------------------------------------------------------------------------
(***************************************************************************)
(* The database.                                                           *)
(***************************************************************************)
(* What is written into the node is sent to a client that listens. *)
GpsWritten(v) ==
    /\ gps' = v
    /\ wire' = IF conn /\ LandingPages # {} THEN Append(wire, v) ELSE wire
    /\ Len(wire) + Len(main_queue) < MaxQueue
    /\ UNCHANGED <<page, cache, conn, main_queue, menu>>

(* The umbrella writes its place, or a phone its flag into an empty node. *)
GpsChanges ==
    \/ \E v \in Places \ {gps} : GpsWritten(v)
    \/ gps = None /\ GpsWritten(Origin)

(* A mutant for MapFollowsUmbrella and NewsNeverLost: the client does not  *)
(* listen again.                                                           *)
Reconnect_NoListen ==
    /\ ~conn
    /\ conn' = TRUE
    /\ UNCHANGED <<page, gps, cache, wire, main_queue, menu>>

(* restoreState listens again, and is told the value there is. *)
Reconnect ==
    /\ ~conn
    /\ conn' = TRUE
    /\ wire' = IF LandingPages = {} THEN <<>> ELSE <<gps>>
    /\ UNCHANGED <<page, gps, cache, main_queue, menu>>

Disconnect ==
    /\ conn
    /\ conn' = FALSE
    /\ wire' = <<>>
    /\ UNCHANGED <<page, gps, cache, main_queue, menu>>

(* One event for every observer. *)
Events(v) == SetToSeq({Redraw(i, v) : i \in LandingPages})

(* A mutant for MarkersFollow: a page that is covered is not told.         *)
DataUpdate_TopOnly ==
    /\ wire # <<>>
    /\ wire' = Tail(wire)
    /\ cache' = Head(wire)
    /\ main_queue' = IF cache' = cache \/ Top # "landing" THEN main_queue
                     ELSE Append(main_queue, Redraw(Len(stack), cache'))
    /\ UNCHANGED <<page, gps, conn, menu>>

(* onDataUpdate: a value that is news is raised to all observers. *)
DataUpdate ==
    /\ wire # <<>>
    /\ wire' = Tail(wire)
    /\ cache' = Head(wire)
    /\ main_queue' = IF cache' = cache THEN main_queue
                     ELSE main_queue \o Events(cache')
    /\ UNCHANGED <<page, gps, conn, menu>>

-----------------------------------------------------------------------------
EndAnimation == \E k \in DOMAIN animating : AnimationEnds(k)

Next ==
    \/ \E from, to \in {"other", "landing", "menu"} : OpenPage(from, to)
    \/ DidUpdateLocations \/ CloseAlert \/ TouchesBegan
    \/ RunBlock \/ EndAnimation
    \/ GpsChanges \/ Reconnect \/ Disconnect \/ DataUpdate
    \/ Kill

(* Blocks run, animations end, and the client reconnects; a network that   *)
(* comes back again and again lets a value through in the end.  The user,  *)
(* the umbrella and restarts are not fair.                                 *)
Fairness ==
    /\ WF_vars(RunBlock) /\ WF_vars(EndAnimation)
    /\ WF_vars(Reconnect) /\ SF_vars(DataUpdate)

Spec == Init /\ [][Next]_vars /\ Fairness
-----------------------------------------------------------------------------
Closings == {k \in DOMAIN main_queue : main_queue[k].op = "close"}

(* The state is of the kind the code gives it: blocks name pages of the    *)
(* right kind, and the group counts the closings that have not ended, so   *)
(* that leave never lacks its enter.                                       *)
TypeOK ==
    /\ stack \in Seq(View) /\ stack # <<>>
    /\ alert \in BOOLEAN /\ conn \in BOOLEAN
    /\ gps \in Values /\ cache \in Values \cup {Unknown}
    /\ wire \in Seq(Values)
    /\ main_queue \in Seq(Block) /\ waiting \in Seq(Block)
    /\ \A k \in DOMAIN main_queue :
           /\ main_queue[k].by \in DOMAIN stack
           /\ stack[main_queue[k].by].page =
                  IF main_queue[k].op = "value" THEN "landing" ELSE "menu"
    /\ animating \in Seq(DOMAIN stack)
    /\ closed \subseteq DOMAIN stack
    /\ group = Len(animating) + Cardinality(Closings)
    /\ waiting # <<>> => group # 0

(* The blocks that will redraw the marker of page i. *)
Redraws(i) == {k \in DOMAIN main_queue :
                   main_queue[k].op = "value" /\ main_queue[k].by = i}

(* Page i will show v when its blocks have run. *)
WillShow(i, v) ==
    \/ Redraws(i) = {} /\ stack[i].marker = v
    \/ \E k \in Redraws(i) :
           main_queue[k].value = v /\ \A j \in Redraws(i) : j <= k

(* However many landing pages have piled up, when each one began to        *)
(* observe and how many blocks are in the queue: the last word to each of  *)
(* them is the client's copy of the node.                                  *)
MarkersFollow == \A i \in LandingPages : WillShow(i, cache)

(* Nothing that the umbrella has written is lost on the way to a landing   *)
(* page of a connected client: it is the last value on the wire, or else   *)
(* the last word to every landing page, whether the client was connected   *)
(* when it was written, heard of it when it listened again, or had begun   *)
(* to listen only with this page.                                          *)
NewsNeverLost ==
    conn => \A i \in LandingPages :
                IF wire = <<>> THEN WillShow(i, gps) ELSE Last(wire) = gps

(* The menus that were touched: out of sight, on their way, or about to go.*)
TouchedMenus ==
    closed \cup ToSet(animating) \cup {main_queue[k].by : k \in Closings}

(* A touched menu on top, whose buttons are dead, is never left there: the *)
(* block that will present the landing page over it is held back or on the *)
(* main queue, and no alert stands in its way.  Animations of other menus  *)
(* end and touches are repeated meanwhile.                                 *)
MenuNeverForgotten ==
    Top = "menu" /\ Len(stack) \in TouchedMenus =>
        /\ ~alert
        /\ \/ \E k \in DOMAIN waiting : waiting[k].by = Len(stack)
           \/ \E k \in DOMAIN main_queue :
                  /\ main_queue[k].op = "landing"
                  /\ main_queue[k].by = Len(stack)

(* The menu never makes way for the landing page before it has moved out   *)
(* of sight, although the group is shared by all menus, and a menu can be  *)
(* touched again while it closes.                                          *)
LandingAfterClosing ==
    [][Top = "menu" /\ Len(stack') > Len(stack) /\ Top' = "landing"
       => Len(stack) \in closed]_vars

(* "in real time": the marker of every landing page, on top or not,        *)
(* reaches the place that the umbrella has written, unless it moves again  *)
(* or the app ends.                                                        *)
MapFollowsUmbrella ==
    \A i \in 1 .. MaxDepth + 1, v \in Places :
        i \in LandingPages /\ gps = v
        ~> i \notin LandingPages \/ gps # v \/ stack[i].marker = v

(* A menu that was touched makes way, unless it is touched again and       *)
(* again: every touch enters the group for another 0.3 s, and whoever taps *)
(* faster than that keeps the landing page back for ever                   *)
(* (exit_hamburger_menu).                                                  *)
MenuClosesToLanding ==
    \/ []<><<TouchesBegan>>_vars
    \/ \A i \in 1 .. MaxDepth :
           (\E k \in DOMAIN waiting : waiting[k].by = i) ~> Len(stack) # i
=============================================================================
