------------------------------ MODULE ForwardList ------------------------------
(***************************************************************************)
(* forward_list.h: the singly linked list without a mutex, as the sequence *)
(* of its nodes' data from the head on, and its counter.                   *)
(***************************************************************************)
EXTENDS SequentialClient, FiniteSetsExt

CONSTANTS Elements,    \* the pointers clients push
          MaxElements  \* a bound on the two lists, for TLC

VARIABLE flist  \* [nodes, size]

vars == <<flist, clientVars>>

(* cap_forward_list_init *)
New == [nodes |-> <<>>, size |-> 0]

Init == ClientInit /\ flist = New /\ other = New

(* The head is overwritten before calloc's answer is looked at: a failure    *)
(* drops every node and keeps the counter.                                   *)
PushFront(x) ==
    \E ok \in Malloc :
        /\ flist.size + other.size < MaxElements
        /\ Did("push_front", x, Bool(ok))
        /\ flist' = IF ok THEN [nodes |-> <<x>> \o flist.nodes, size |-> flist.size + 1]
                    ELSE [flist EXCEPT !.nodes = <<>>]

PopFront ==
    IF flist.nodes = <<>> THEN Did("pop_front", Null, Null) /\ UNCHANGED flist
    ELSE /\ Did("pop_front", Null, Head(flist.nodes))
         /\ flist' = [nodes |-> Tail(flist.nodes), size |-> flist.size - 1]

Look ==
    /\ \/ Did("front", Null, IF flist.nodes = <<>> THEN Null ELSE Head(flist.nodes))
       \/ Did("size", Null, flist.size)
       \/ Did("empty", Null, Bool(flist.size = 0))
    /\ UNCHANGED flist

FindIf(P) ==
    LET hits == Matching(flist.nodes, P)
    IN  Did("find_if", P, IF hits = <<>> THEN Null ELSE Head(hits)) /\ UNCHANGED flist

(* cap_forward_list_remove_if.  While the head matches, the head goes; a     *)
(* list of matches only runs into a NULL head.  If any head went the call    *)
(* returns, and leaves later matches.                                        *)
RemoveIf(P) ==
    LET out == {i \in 1..Len(flist.nodes) : flist.nodes[i] \notin P}
        first == IF out # {} THEN Min(out) ELSE 0
        kept == Matching(flist.nodes, Elements \ P)
    IN  \/ /\ flist.size = 0
           /\ Did("remove_if", P, CFalse)
           /\ UNCHANGED flist
        \/ /\ flist.size # 0 /\ first = 0
           /\ Breaks("remove_if", P)
           /\ UNCHANGED flist
        \/ /\ flist.size # 0 /\ first > 1
           /\ Did("remove_if", P, CTrue)
           /\ flist' = [nodes |-> SubSeq(flist.nodes, first, Len(flist.nodes)),
                        size |-> flist.size - (first - 1)]
        \/ /\ flist.size # 0 /\ first = 1
           /\ Did("remove_if", P, Bool(kept # flist.nodes))
           /\ flist' = [nodes |-> kept,
                        size |-> flist.size - (Len(flist.nodes) - Len(kept))]

(* cap_forward_list_swap *)
Swap ==
    /\ Makes("swap", Null, Null)
    /\ flist' = other
    /\ other' = flist
    /\ UNCHANGED life

(* cap_forward_list_free *)
Free == Frees("free") /\ UNCHANGED flist

(* cap_forward_list_deep_free reads the data of a node it has freed. *)
DeepFree ==
    /\ IF flist.nodes = <<>> THEN Frees("free") ELSE Breaks("free", Null)
    /\ UNCHANGED flist

Next ==
    \/ \E x \in Elements : PushFront(x)
    \/ PopFront \/ Look \/ Swap \/ Free \/ DeepFree
    \/ \E P \in SUBSET Elements : FindIf(P) \/ RemoveIf(P)

TypeOK ==
    /\ {flist, other} \subseteq [nodes : Seq(Elements), size : Nat]
    /\ life \in Lives
=============================================================================
