----------------------------- MODULE RbhashStore ------------------------------
(***************************************************************************)
(* What include/rbhash.h promises of a table, whatever its slots look      *)
(* like: a collection of keys with their data, the same one perhaps more   *)
(* than once, to which an element can be added and from which one can be   *)
(* removed, and a delete function that is called on the data of the        *)
(* elements that leave, and on nothing else.                               *)
(***************************************************************************)
EXTENDS Naturals

CONSTANTS Keys, Datas, NULL

VARIABLES
  stored,   \* how many times the table holds each element
  deleted   \* what rbh->del was called on when elements last left

Elements == Keys \X Datas

Empty == [e \in Elements |-> 0]

DataOf(elements) == {e[2] : e \in elements} \ {NULL}

Init == stored = Empty /\ deleted = {}

Put(e) == stored' = [stored EXCEPT ![e] = @ + 1] /\ UNCHANGED deleted

Drop(e) ==
  /\ stored[e] > 0
  /\ stored' = [stored EXCEPT ![e] = @ - 1]
  /\ deleted' = DataOf({e})

Clear ==
  /\ stored' = Empty
  /\ deleted' = DataOf({e \in Elements : stored[e] > 0})

Next == Clear \/ \E e \in Elements : Put(e) \/ Drop(e)

Spec == Init /\ [][Next]_<<stored, deleted>>
=============================================================================
