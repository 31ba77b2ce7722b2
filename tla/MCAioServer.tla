---------------------------- MODULE MCAioServer -----------------------------
(***************************************************************************)
(* AioServer for TLC: lines of every kind the choice tells apart, pages of *)
(* up to two of them or with every choice of rates, and lists with a group *)
(* above its limit.                                                        *)
(***************************************************************************)
EXTENDS AioServer, TLC

Line(preferred, rank, priority, usable) ==
  [preferred |-> preferred, rank |-> rank, priority |-> priority, usable |-> usable]
Lines == {Line(TRUE, 2, 0, TRUE), Line(TRUE, 2, 0, FALSE),
          Line(FALSE, 1, 0, TRUE), Line(FALSE, 2, 0, TRUE), Line(FALSE, 2, 1, TRUE)}
Old == Line(FALSE, 1, 0, TRUE)

SmallPages ==
  {[payload |-> p, fields |-> <<Old>>, rates |-> {0, 1}] : p \in {<<>>} \cup Lines \X Lines}
  \cup {[payload |-> <<Old>>, fields |-> <<>>, rates |-> r] : r \in SUBSET (0..3)}
  \cup {[payload |-> <<>>, fields |-> <<>>, rates |-> {}]}

Entry(rid, group) == [rid |-> rid, group |-> group]
TwoLists ==
  {<<Entry(1, "a"), Entry(2, "a"), Entry(0, "b"), Entry(3, "a"), Entry(4, "b")>>, <<Entry(0, "a")>>}
=============================================================================
