---------------------------- MODULE IntrusiveList ----------------------------
(***************************************************************************)
(* The doubly linked list of src/servers/threaded.c:24-62.  An entry lies  *)
(* inside the record it links; the head is an entry of its own, and links  *)
(* to itself when the list is empty.                                       *)
(***************************************************************************)
EXTENDS Naturals

CONSTANTS Entries, ListHead, Null

VARIABLES flink, blink

links == <<flink, blink>>
Nodes == Entries \union {ListHead}

ListTypeOK ==
    /\ flink \in [Nodes -> Nodes \union {Null}]
    /\ blink \in [Nodes -> Nodes \union {Null}]

\* list_initialize_head; the entries come from calloc().
ListInit ==
    /\ flink = [n \in Nodes |-> IF n = ListHead THEN ListHead ELSE Null]
    /\ blink = [n \in Nodes |-> IF n = ListHead THEN ListHead ELSE Null]

\* mutant: the entry that was first keeps its link back to the head
PushHalf(e) ==
    /\ blink' = [blink EXCEPT ![e] = ListHead]
    /\ flink' = [flink EXCEPT ![e] = flink[ListHead], ![ListHead] = e]

Push(e) ==
    /\ blink' = [blink EXCEPT ![e] = ListHead, ![flink[ListHead]] = e]
    /\ flink' = [flink EXCEPT ![e] = flink[ListHead], ![ListHead] = e]

Linked == {e \in Entries : flink[e] # Null}

\* Numbering the nodes from the head on, each link forward goes to the next, the last one
\* to the head, and each link back retraces it.
RingThrough(ring, size) ==
    /\ ring[0] = ListHead
    /\ \A k \in 0 .. size - 1 : flink[ring[k]] = ring[k + 1] /\ blink[ring[k + 1]] = ring[k]
    /\ flink[ring[size]] = ListHead /\ blink[ListHead] = ring[size]

\* The list is one ring through the head and exactly these entries, size of them, each once.
IsRingOf(S, size) ==
    /\ Linked = S
    /\ \E ring \in [0 .. size -> S \union {ListHead}] :
          /\ \A n \in S \union {ListHead} : \E k \in 0 .. size : ring[k] = n
          /\ \A k, l \in 0 .. size : ring[k] = ring[l] => k = l
          /\ RingThrough(ring, size)
=============================================================================
