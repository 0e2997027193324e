------------------------------ MODULE CapValues ------------------------------
(***************************************************************************)
(* What the headers share: the C values every container of the library     *)
(* passes to its clients, NULL and the two values of a C bool, which is an *)
(* int; and the list that four queues keep their elements in.              *)
(***************************************************************************)
EXTENDS Integers, Sequences

CONSTANT Null

ASSUME NullAssumption == Null \notin Int

CTrue == 1
CFalse == 0

(* A client's predicate is the set P of the words it accepts: those of a      *)
(* sequence that it accepts, in their order.                                 *)
Matching(words, P) ==
    LET first[n \in 0..Len(words)] ==
            IF n = 0 THEN <<>>
            ELSE IF words[n] \in P THEN Append(first[n - 1], words[n]) ELSE first[n - 1]
    IN  first[Len(words)]

-----------------------------------------------------------------------------
(* The doubly linked list with two sentinel nodes (_cap_list) that the fixed  *)
(* and the dynamic queues copy into their headers, by its contents: the data  *)
(* of the nodes between the sentinels, from the head to the tail.  Both       *)
(* sentinels have data NULL.                                                  *)

(* _cap_list_init: the head and the tail point at each other. *)
ListInit == <<>>

(* _cap_list_push_front with a node from malloc: the node goes between the  *)
(* head and head->next.                                                     *)
ListPushFront(list, data) == <<data>> \o list

(* _cap_list_pop_back on a list with a node: tail->previous is unlinked.    *)
(* The node itself stays allocated.                                         *)
ListPopBack(list) == SubSeq(list, 1, Len(list) - 1)

(* head->next->data, which is the tail sentinel's NULL in an empty list. *)
ListFront(list) == IF list = <<>> THEN Null ELSE list[1]

(* tail->previous->data, which is the head sentinel's NULL in an empty list. *)
ListBack(list) == IF list = <<>> THEN Null ELSE list[Len(list)]
=============================================================================
