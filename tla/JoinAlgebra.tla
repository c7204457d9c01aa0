---------------------------- MODULE JoinAlgebra ----------------------------
(***************************************************************************)
(* The joins of SQL over sets of rows, as far as the placement of row      *)
(* filters depends on them (the table in rls.py:8-13).  A join condition   *)
(* is the set of the pairs it accepts; a pair carries a null row where a   *)
(* side has no partner.                                                    *)
(***************************************************************************)

InnerJoin(L, R, on) == (L \X R) \cap on

\* The rows of a side that the condition pairs with none of the other side.
LoneLeft(L, R, on) == {l \in L : \A r \in R : <<l, r>> \notin on}
LoneRight(L, R, on) == {r \in R : \A l \in L : <<l, r>> \notin on}

LeftJoin(L, R, on, nullR) ==
  InnerJoin(L, R, on) \cup (LoneLeft(L, R, on) \X {nullR})

RightJoin(L, R, on, nullL) ==
  InnerJoin(L, R, on) \cup ({nullL} \X LoneRight(L, R, on))

FullJoin(L, R, on, nullL, nullR) ==
  LeftJoin(L, R, on, nullR) \cup RightJoin(L, R, on, nullL)

Join(kind, L, R, on, nullL, nullR) ==
  CASE kind = "inner" -> InnerJoin(L, R, on)
    [] kind = "left"  -> LeftJoin(L, R, on, nullR)
    [] kind = "right" -> RightJoin(L, R, on, nullL)
    [] kind = "full"  -> FullJoin(L, R, on, nullL, nullR)
=============================================================================
