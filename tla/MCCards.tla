------------------------------- MODULE MCCards -------------------------------
(***************************************************************************)
(* Instances of Cards for TLC.                                             *)
(***************************************************************************)
EXTENDS Cards, TLC

(* Accounts behave alike, and so do card numbers. *)
Symmetry == Permutations(Accounts) \cup Permutations(Numbers)

(* A restart apart, which forgets where writes came from, no page is ever  *)
(* dismissed: of the stack, a step only tells the depth and the two pages  *)
(* on top, and of a write, whether it came from the page on top.           *)
Visible ==
    <<Top, IF Len(stack) = 1 THEN "none" ELSE stack[Len(stack) - 1],
      rows, alert, current_page, auth, user, docs, astray,
      [a \in Accounts |-> [k \in DOMAIN writes[a] |->
           <<writes[a][k].account, writes[a][k].cards,
             writes[a][k].by = Len(stack)>>]]>>
=============================================================================
