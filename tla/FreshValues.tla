----------------------------- MODULE FreshValues -----------------------------
(***************************************************************************)
(* What a table sync promises of the values it gives to an auto increment  *)
(* column (tablesync/shared/identity-allocator.go): each is given once,    *)
(* whichever attempt, page or continuation of the workflow gives it.       *)
(***************************************************************************)
CONSTANTS Columns, Values
VARIABLE given      \* the values given to each column

Init == given = [c \in Columns |-> {}]

Give(c, v) ==
    /\ v \notin given[c]
    /\ given' = [given EXCEPT ![c] = @ \cup {v}]

Next == \E c \in Columns, v \in Values : Give(c, v)

Spec == Init /\ [][Next]_given
=============================================================================
