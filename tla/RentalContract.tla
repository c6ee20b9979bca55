---------------------------- MODULE RentalContract ----------------------------
(***************************************************************************)
(* What the rental flow promises the user of each device, without screens, *)
(* queues or connections: when a rental may begin, from when it is billed, *)
(* and when the flag that marks the umbrella as in use may go up and down. *)
(* Rental implements it (Rental!ImplementsContract).                       *)
(***************************************************************************)
CONSTANTS Devices, Times, None

VARIABLES
    phase,      \* away, choosing, unlocking, riding or returned
    since,      \* what the running rental is billed from
    accepted,   \* the server accepted the flag of this rental
    flag,       \* the last value of the flag the server took from the device
    asking,     \* a confirmation is outstanding
    returning   \* a stop is outstanding

cvars == <<phase, since, accepted, flag, asking, returning>>

Phases == {"away", "choosing", "unlocking", "riding", "returned"}

CTypeOK ==
    /\ phase \in [Devices -> Phases]
    /\ since \in [Devices -> Times \cup {None}]
    /\ accepted \in [Devices -> BOOLEAN]
    /\ flag \in [Devices -> BOOLEAN]
    /\ asking \in [Devices -> BOOLEAN]
    /\ returning \in [Devices -> BOOLEAN]

Init ==
    /\ phase = [d \in Devices |-> "away"]
    /\ since = [d \in Devices |-> None]
    /\ accepted = [d \in Devices |-> FALSE]
    /\ flag = [d \in Devices |-> FALSE]
    /\ asking = [d \in Devices |-> FALSE]
    /\ returning = [d \in Devices |-> FALSE]

MovePhase(d, from, to) ==
    /\ phase[d] \in from
    /\ \E p \in to : phase' = [phase EXCEPT ![d] = p]

(* Nothing is promised before the user confirms. *)
Browse(d) ==
    /\ MovePhase(d, {"away", "choosing"}, {"away", "choosing"})
    /\ UNCHANGED <<since, accepted, flag, asking, returning>>

Ask(d) ==
    /\ phase[d] = "choosing"
    /\ asking' = [asking EXCEPT ![d] = TRUE]
    /\ UNCHANGED <<phase, since, accepted, flag, returning>>

(* A rental counts as accepted only with its flag up and no stop around.   *)
Unlock(d) ==
    /\ asking[d]
    /\ MovePhase(d, {"choosing"}, {"unlocking"})
    /\ \E ok \in BOOLEAN :
           /\ ok => flag[d] /\ ~returning[d]
           /\ accepted' = [accepted EXCEPT ![d] = ok]
    /\ \E a \in BOOLEAN : asking' = [asking EXCEPT ![d] = a]
    /\ UNCHANGED <<since, flag, returning>>

Ride(d) ==
    /\ MovePhase(d, {"unlocking"}, {"riding"})
    /\ \E t \in Times : since' = [since EXCEPT ![d] = t]
    /\ UNCHANGED <<accepted, flag, asking, returning>>

Stop(d) ==
    /\ MovePhase(d, {"riding", "returned"}, {"returned"})
    /\ returning' = [returning EXCEPT ![d] = TRUE]
    /\ UNCHANGED <<since, accepted, flag, asking>>

(* The user is let go only for an outstanding stop. *)
Return(d) ==
    /\ returning[d]
    /\ MovePhase(d, {"returned"}, {"away"})
    /\ since' = [since EXCEPT ![d] = None]
    /\ accepted' = [accepted EXCEPT ![d] = FALSE]
    /\ \E r \in BOOLEAN : returning' = [returning EXCEPT ![d] = r]
    /\ UNCHANGED <<flag, asking>>

(* Answers that no longer matter to the user. *)
Settle(d) ==
    /\ \E a \in {FALSE, asking[d]} : asking' = [asking EXCEPT ![d] = a]
    /\ \E r \in {FALSE, returning[d]} :
           returning' = [returning EXCEPT ![d] = r]
    /\ UNCHANGED <<phase, since, accepted, flag>>

Raise(d) ==
    /\ asking[d]
    /\ flag' = [flag EXCEPT ![d] = TRUE]
    /\ UNCHANGED <<phase, since, accepted, asking, returning>>

(* A mutant for Honoured: the flag comes down although nobody stopped.     *)
Lower_Anytime(d) ==
    /\ flag' = [flag EXCEPT ![d] = FALSE]
    /\ UNCHANGED <<phase, since, accepted, asking, returning>>

Lower(d) ==
    /\ returning[d]
    /\ flag' = [flag EXCEPT ![d] = FALSE]
    /\ UNCHANGED <<phase, since, accepted, asking, returning>>

(* A restart forgets the rental and every outstanding call. *)
Restart(d) ==
    /\ phase' = [phase EXCEPT ![d] = "away"]
    /\ since' = [since EXCEPT ![d] = None]
    /\ accepted' = [accepted EXCEPT ![d] = FALSE]
    /\ asking' = [asking EXCEPT ![d] = FALSE]
    /\ returning' = [returning EXCEPT ![d] = FALSE]
    /\ UNCHANGED flag

Next ==
    \E d \in Devices :
        \/ Browse(d) \/ Ask(d) \/ Unlock(d) \/ Ride(d) \/ Stop(d)
        \/ Return(d) \/ Settle(d) \/ Raise(d) \/ Lower(d) \/ Restart(d)

Spec == Init /\ [][Next]_cvars
-----------------------------------------------------------------------------
HonouredOf(d) ==
    phase[d] \in {"unlocking", "riding"} /\ accepted[d] =>
        flag[d] /\ ~returning[d]

(* The promise to a rider, from confirm_button_clicked to                  *)
(* stop_renting_button_clicked: while an accepted rental is unlocked or    *)
(* runs, the umbrella is flagged as in use and no stop is outstanding.     *)
Honoured == \A d \in Devices : HonouredOf(d)
=============================================================================
