------------------------------- MODULE WlList -------------------------------
(***************************************************************************)
(* struct wl_list of libwayland, as far as the library relies on it: the   *)
(* nodes linked into one list, in order.                                   *)
(***************************************************************************)
EXTENDS Naturals, Sequences

In(node, list) == \E i \in DOMAIN list : list[i] = node

\* Each node is linked once.
Distinct(list) == \A i, j \in DOMAIN list : list[i] = list[j] => i = j

\* wl_list_remove of a node that is linked once, or in another list.
Without(list, node) ==
  IF In(node, list)
  THEN LET i == CHOOSE i \in DOMAIN list : list[i] = node
       IN SubSeq(list, 1, i - 1) \o SubSeq(list, i + 1, Len(list))
  ELSE list
=============================================================================
