------------------------------- MODULE Tables -------------------------------
(***************************************************************************)
(* Tables that remember an order: _SESSIONS of host/api/handlers/agent.py, *)
(* an OrderedDict, and _order of host/task/transfer.py, a list beside a    *)
(* dict.  A table is the sequence of its keys.                             *)
(***************************************************************************)
EXTENDS Integers, Sequences

(* The keys of a table. *)
Listed(tab) == {tab[i] : i \in DOMAIN tab}

(* The table without the keys in gone, in the same order. *)
Without(tab, gone) ==
  LET kept[i \in 0 .. Len(tab)] ==
        IF i = 0 THEN <<>>
        ELSE IF tab[i] \in gone THEN kept[i - 1] ELSE Append(kept[i - 1], tab[i])
  IN  kept[Len(tab)]
=============================================================================
