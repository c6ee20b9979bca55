------------------------------- MODULE MCRental -------------------------------
(***************************************************************************)
(* Instances of Rental for TLC.                                            *)
(***************************************************************************)
EXTENDS Rental, TLC

(* Devices behave alike, and so do times. *)
Symmetry == Permutations(Devices) \cup Permutations(Times)

(* Once the uuid is set, the answer to the mail changes nothing but        *)
(* mailing, which nothing else reads.                                      *)
MailView ==
    <<ui, session, uuid, [d \in Devices |-> mailing[d] /\ ~uuid[d]],
      cards, startRentTime, fire, net, server>>
=============================================================================
