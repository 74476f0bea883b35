----------------------------- MODULE LinkedList -----------------------------
(***************************************************************************)
(* list.h, as far as the daemon uses it: two circular lists through their  *)
(* heads, built with list_add and read with list_for_each_entry_reverse.   *)
(* A cell stands for the structure that holds the list_head.  The daemon   *)
(* frees no structure that is on a list, so malloc counts up.              *)
(***************************************************************************)
EXTENDS Integers, Sequences

CONSTANT MaxCells  \* bound: the structures the daemon allocates for lists

VARIABLES
    links,  \* the next and prev pointers of every cell
    mem,    \* mem[p]: what the structure around cell p holds
    brk     \* the cell that the next malloc returns

heapVars == << links, mem, brk >>

ASSUME ListAssumption == MaxCells \in Nat

RTBL == 0       \* the head of the routing table
IF_INFO == 1    \* the head of if_info_list
Heads == {RTBL, IF_INFO}
Cells == 0 .. MaxCells + 1
Unset == << >>  \* what malloc returns is not initialized

(* Both heads after INIT_LIST_HEAD.                                        *)
HeapInit ==
    /\ links = [next |-> [p \in Cells |-> p], prev |-> [p \in Cells |-> p]]
    /\ mem = [p \in Cells |-> Unset]
    /\ brk = 2

(* Mutant: the cell after the new one keeps its prev pointer.              *)
list_insert_OneWay(l, new, before, after) ==
    [next |-> [l.next EXCEPT ![new] = after, ![before] = new],
     prev |-> [l.prev EXCEPT ![new] = before]]

(* __list_add.                                                             *)
list_insert(l, new, before, after) ==
    [next |-> [l.next EXCEPT ![new] = after, ![before] = new],
     prev |-> [l.prev EXCEPT ![after] = new, ![new] = before]]

list_add(l, new, head) == list_insert(l, new, head, l.next[head])

(* The cells in the order in which list_for_each_entry_reverse meets them. *)
(* A traversal that does not come back to the head visits some cell twice: *)
(* here it is cut off after as many cells as there are.                    *)
Backwards(l, head) ==
    LET at[i \in 0 .. MaxCells + 1] == l.prev[IF i = 0 THEN head ELSE at[i - 1]]
        Ends == {i \in 0 .. MaxCells + 1 : at[i] = head}
        length == IF Ends = {} THEN MaxCells + 1
                  ELSE CHOOSE i \in Ends : \A j \in Ends : i <= j
    IN  [i \in 1 .. length |-> at[i - 1]]

=============================================================================
