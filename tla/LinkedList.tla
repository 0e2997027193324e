------------------------------ MODULE LinkedList ------------------------------
(***************************************************************************)
(* list.h: the doubly linked list, with its pointers.  Addresses 0 and 1   *)
(* are the head and the tail sentinels, one block of two nodes; the others *)
(* come from malloc.  A popped node is never freed: no pointer leads to it *)
(* any more, so the model takes its address back.                          *)
(***************************************************************************)
EXTENDS SequentialClient, Functions, FiniteSets

CONSTANTS Elements,    \* the pointers clients push
          MaxElements  \* a bound on the nodes of the list, for TLC

VARIABLE list  \* [next, previous, data], functions of the address

vars == <<list, clientVars>>

Head0 == 0
Tail0 == 1
Addresses == 0..(MaxElements + 1)

(* cap_list_init: the sentinels point at each other and hold NULL. *)
Init ==
    /\ ClientInit
    /\ other = Null
    /\ list = [next |-> [n \in Addresses |-> IF n = Head0 THEN Tail0 ELSE Null],
               previous |-> [n \in Addresses |-> IF n = Tail0 THEN Head0 ELSE Null],
               data |-> [n \in Addresses |-> Null]]

(* The addresses from n on, along the links, as far as they go. *)
From(link, n) ==
    LET steps == 0..(MaxElements + 1)
        at[i \in steps] ==
            IF i = 0 THEN n ELSE IF at[i - 1] = Null THEN Null ELSE link[at[i - 1]]
        length == Cardinality({i \in steps : at[i] # Null})
    IN  [i \in 1..length |-> at[i - 1]]

(* The nodes between the sentinels, and their data. *)
Nodes ==
    LET chain == From(list.next, Head0)
    IN  SubSeq(chain, 2, Len(chain) - 1)
Contents == [i \in 1..Len(Nodes) |-> list.data[Nodes[i]]]

Fresh == {n \in Addresses \ {Head0, Tail0} : n \notin Range(Nodes)}

(* Variant without the assignment to tmp_tail_prev_holder->next. *)
LinkBackwards(l, p, q, n, x) ==
    [next |-> [l.next EXCEPT ![n] = q],
     previous |-> [l.previous EXCEPT ![n] = p, ![q] = n],
     data |-> [l.data EXCEPT ![n] = x]]

(* The node n with data x between the nodes p and q. *)
Link(l, p, q, n, x) ==
    [next |-> [l.next EXCEPT ![n] = q, ![p] = n],
     previous |-> [l.previous EXCEPT ![n] = p, ![q] = n],
     data |-> [l.data EXCEPT ![n] = x]]

(* A node with x after p, or false when malloc fails. *)
Insert(op, p, x) ==
    \/ \E n \in Fresh :
        /\ \A m \in Fresh : n <= m
        /\ Did(op, x, CTrue)
        /\ list' = Link(list, p, list.next[p], n, x)
    \/ MallocMayFail /\ Did(op, x, CFalse) /\ UNCHANGED list

PushFront(x) == Insert("push_front", Head0, x)

(* tail->previous is the node to insert after. *)
PushBack(x) == Insert("push_back", list.previous[Tail0], x)

(* cap_list_insert_after: the client's node, from the head to the last.     *)
InsertAfter(x) ==
    \E p \in {Head0} \cup Range(Nodes) : Insert("insert_after", p, x)

(* Variant without the assignment to the next node's previous. *)
UnlinkForward(l, n) ==
    [next |-> [l.next EXCEPT ![l.previous[n]] = l.next[n], ![n] = Null],
     previous |-> [l.previous EXCEPT ![n] = Null],
     data |-> [l.data EXCEPT ![n] = Null]]

(* The neighbours of n pass it by; the words of its block are forgotten. *)
Unlink(l, n) ==
    [next |-> [l.next EXCEPT ![l.previous[n]] = l.next[n], ![n] = Null],
     previous |-> [l.previous EXCEPT ![l.next[n]] = l.previous[n], ![n] = Null],
     data |-> [l.data EXCEPT ![n] = Null]]

(* cap_list_pop_front and _pop_back: in an empty list the node is a         *)
(* sentinel, whose link onwards is NULL and is followed.                    *)
Pop(op, n) ==
    IF n \in {Head0, Tail0} THEN Breaks(op, Null) /\ UNCHANGED list
    ELSE Did(op, Null, list.data[n]) /\ list' = Unlink(list, n)

PopFront == Pop("pop_front", list.next[Head0])
PopBack == Pop("pop_back", list.previous[Tail0])

(* cap_list_front and _back: a sentinel's NULL when the list is empty. *)
Look ==
    /\ \/ Did("front", Null, list.data[list.next[Head0]])
       \/ Did("back", Null, list.data[list.previous[Tail0]])
    /\ UNCHANGED list

(* cap_list_find_if: the tail's NULL data ends the search. *)
FindIf(P) ==
    LET hits == Matching(Contents, P)
    IN  Did("find_if", P, IF hits = <<>> THEN Null ELSE Head(hits)) /\ UNCHANGED list

(* cap_list_remove_if: the next node is read before the node is unlinked     *)
(* and freed; the loop ends at the tail.                                     *)
RemoveIf(P) ==
    LET after[i \in 0..Len(Nodes)] ==
            IF i = 0 THEN list
            ELSE IF list.data[Nodes[i]] \in P THEN Unlink(after[i - 1], Nodes[i])
            ELSE after[i - 1]
    IN  /\ Did("remove_if", P, Bool(Matching(Contents, P) # <<>>))
        /\ list' = after[Len(Nodes)]

(* cap_list_remove_if_deep frees the element too.  An element that is in     *)
(* the list twice is freed twice.                                            *)
RemoveIfDeep(P) ==
    IF IsInjective(Matching(Contents, P)) THEN RemoveIf(P)
    ELSE Breaks("remove_if", P) /\ UNCHANGED list

(* cap_list_free: the do-while frees the first node before it looks for the  *)
(* tail; in an empty list that is the tail itself, inside a block.           *)
Free == (IF Nodes = <<>> THEN Breaks("free", Null) ELSE Frees("free")) /\ UNCHANGED list

(* cap_list_deep_free frees each element, a repeated one twice. *)
DeepFree ==
    /\ IF Nodes = <<>> \/ ~IsInjective(Contents) THEN Breaks("free", Null) ELSE Frees("free")
    /\ UNCHANGED list

Next ==
    \/ \E x \in Elements : PushFront(x) \/ PushBack(x) \/ InsertAfter(x)
    \/ PopFront \/ PopBack \/ Look \/ Free \/ DeepFree
    \/ \E P \in SUBSET Elements : FindIf(P) \/ RemoveIf(P) \/ RemoveIfDeep(P)

TypeOK ==
    /\ list.next \in [Addresses -> Addresses \cup {Null}]
    /\ list.previous \in [Addresses -> Addresses \cup {Null}]
    /\ list.data \in [Addresses -> Elements \cup {Null}]
    /\ life \in Lives

(* Walked backwards from the tail the list is what it is forwards from the   *)
(* head: every pop, removal and insertion keeps both chains of links, and    *)
(* both end at the sentinels.                                                *)
LinksMatch ==
    /\ LET forwards == From(list.next, Head0)
           backwards == From(list.previous, Tail0)
       IN  /\ Len(backwards) = Len(forwards)
           /\ \A i \in DOMAIN forwards : backwards[i] = forwards[Len(forwards) + 1 - i]
    /\ list.data[Head0] = Null /\ list.data[Tail0] = Null
=============================================================================
