---------------------------- MODULE ContractProofs ----------------------------
(***************************************************************************)
(* The contract of the rental flow keeps its promise to the rider.         *)
(***************************************************************************)
EXTENDS RentalContract, TLAPS

(* Every step of the contract keeps every variable of its type.            *)
LEMMA ContractType == CTypeOK /\ [Next]_cvars => CTypeOK'
<1> SUFFICES ASSUME CTypeOK, [Next]_cvars
             PROVE  CTypeOK'
  OBVIOUS
<1>. USE DEF CTypeOK, Phases
<1>1. CASE UNCHANGED cvars
  BY <1>1 DEF cvars
<1>2. ASSUME NEW d \in Devices, Browse(d)
      PROVE  CTypeOK'
  BY <1>2 DEF Browse, MovePhase
<1>3. ASSUME NEW d \in Devices, Ask(d)
      PROVE  CTypeOK'
  BY <1>3 DEF Ask
<1>4. ASSUME NEW d \in Devices, Unlock(d)
      PROVE  CTypeOK'
  BY <1>4 DEF Unlock, MovePhase
<1>5. ASSUME NEW d \in Devices, Ride(d)
      PROVE  CTypeOK'
  BY <1>5 DEF Ride, MovePhase
<1>6. ASSUME NEW d \in Devices, Stop(d)
      PROVE  CTypeOK'
  BY <1>6 DEF Stop, MovePhase
<1>7. ASSUME NEW d \in Devices, Return(d)
      PROVE  CTypeOK'
  BY <1>7 DEF Return, MovePhase
<1>8. ASSUME NEW d \in Devices, Settle(d)
      PROVE  CTypeOK'
  BY <1>8 DEF Settle
<1>9. ASSUME NEW d \in Devices, Raise(d)
      PROVE  CTypeOK'
  BY <1>9 DEF Raise
<1>10. ASSUME NEW d \in Devices, Lower(d)
      PROVE  CTypeOK'
  BY <1>10 DEF Lower
<1>11. ASSUME NEW d \in Devices, Restart(d)
      PROVE  CTypeOK'
  BY <1>11 DEF Restart
<1>. QED
  BY <1>1, <1>2, <1>3, <1>4, <1>5, <1>6, <1>7, <1>8, <1>9, <1>10, <1>11 DEF Next

(* The rider's promise survives every step: the flag of a device comes     *)
(* down, and a stop becomes outstanding, only once that device has         *)
(* returned.                                                               *)
LEMMA ContractKeeps == CTypeOK /\ Honoured /\ [Next]_cvars => Honoured'
<1> SUFFICES ASSUME CTypeOK, Honoured, [Next]_cvars, NEW e \in Devices
             PROVE  HonouredOf(e)'
  BY DEF Honoured
<1>0. HonouredOf(e)
  BY DEF Honoured
<1>1. CASE UNCHANGED cvars
  BY <1>1, <1>0 DEF HonouredOf, cvars
<1>2. ASSUME NEW d \in Devices, Browse(d)
     PROVE  HonouredOf(e)'
  BY <1>2, <1>0 DEF HonouredOf, Browse, MovePhase, CTypeOK
<1>3. ASSUME NEW d \in Devices, Ask(d)
     PROVE  HonouredOf(e)'
  BY <1>3, <1>0 DEF HonouredOf, Ask, CTypeOK
<1>4. ASSUME NEW d \in Devices, Unlock(d)
     PROVE  HonouredOf(e)'
  BY <1>4, <1>0 DEF HonouredOf, Unlock, MovePhase, CTypeOK
<1>5. ASSUME NEW d \in Devices, Ride(d)
     PROVE  HonouredOf(e)'
  BY <1>5, <1>0 DEF HonouredOf, Ride, MovePhase, CTypeOK
<1>6. ASSUME NEW d \in Devices, Stop(d)
     PROVE  HonouredOf(e)'
  BY <1>6, <1>0 DEF HonouredOf, Stop, MovePhase, CTypeOK
<1>7. ASSUME NEW d \in Devices, Return(d)
     PROVE  HonouredOf(e)'
  BY <1>7, <1>0 DEF HonouredOf, Return, MovePhase, CTypeOK
<1>8. ASSUME NEW d \in Devices, Settle(d)
     PROVE  HonouredOf(e)'
  BY <1>8, <1>0 DEF HonouredOf, Settle, CTypeOK
<1>9. ASSUME NEW d \in Devices, Raise(d)
     PROVE  HonouredOf(e)'
  BY <1>9, <1>0 DEF HonouredOf, Raise, CTypeOK
<1>10. ASSUME NEW d \in Devices, Lower(d)
     PROVE  HonouredOf(e)'
  BY <1>10, <1>0 DEF HonouredOf, Lower, CTypeOK
<1>11. ASSUME NEW d \in Devices, Restart(d)
     PROVE  HonouredOf(e)'
  BY <1>11, <1>0 DEF HonouredOf, Restart, CTypeOK
<1> QED
  BY <1>1, <1>2, <1>3, <1>4, <1>5, <1>6, <1>7, <1>8, <1>9, <1>10, <1>11
  DEF Next

(* In every behaviour of the contract an accepted rental is honoured while *)
(* it is unlocked and while it runs.                                       *)
THEOREM RentalsAreHonoured == Spec => []Honoured
<1>1. Init => CTypeOK /\ Honoured
  BY DEF Init, CTypeOK, Honoured, HonouredOf, Phases
<1>2. CTypeOK /\ Honoured /\ [Next]_cvars => CTypeOK' /\ Honoured'
  BY ContractType, ContractKeeps
<1> QED
  BY <1>1, <1>2, PTL DEF Spec
=============================================================================
