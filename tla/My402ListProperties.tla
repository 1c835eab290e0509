------------------------ MODULE My402ListProperties ------------------------
(***************************************************************************)
(* What the ring must satisfy.                                             *)
(***************************************************************************)
EXTENDS My402List

\* Type invariant: the count is that of the cells in use, and no pointer of
\* the list leads into a cell that is free.
TypeOK ==
  /\ list.num_members = Cardinality(used)
  /\ list.next \in [Cells -> Cells \cup {NULL}]
  /\ list.prev \in [Cells -> Cells \cup {NULL}]
  /\ list.obj \in [Cells -> Objs \cup {NULL}]
  /\ used \subseteq Elems

\* The two chains are one ring read in two directions: next and prev undo each
\* other on the anchor and on every element in use.
RingClosed ==
  \A c \in used \cup {Anchor} :
    /\ list.next[c] \in used \cup {Anchor} /\ list.prev[list.next[c]] = c
    /\ list.prev[c] \in used \cup {Anchor} /\ list.next[list.prev[c]] = c

\* A loop with First and Next sees every element once and stops, although Next
\* compares with Last, which trusts num_members; one with Last and Prev sees
\* the same elements in the opposite order.  Find, the third such loop, returns
\* an element that holds the object, and NULL only if none does.
LoopsSeeEveryElement ==
  LET forward == Forward(list)
      backward == Backward(list)
  IN /\ Len(forward) = Cardinality(used)
     /\ {forward[i] : i \in DOMAIN forward} = used
     /\ Len(backward) = Len(forward)
     /\ \A i \in DOMAIN forward : backward[i] = forward[Len(forward) + 1 - i]
     /\ \A data \in Objs :
          IF \E e \in used : list.obj[e] = data
          THEN Find(list, data) \in used /\ list.obj[Find(list, data)] = data
          ELSE Find(list, data) = NULL

\* The sequence a list stands for: what such a loop sees.
Members(l) ==
  [i \in DOMAIN Forward(l) |-> [elem |-> Forward(l)[i], obj |-> l.obj[Forward(l)[i]]]]

Abstract == INSTANCE ListSequence WITH members <- Members(list)

\* Each call does to the ring what it promises to do to a sequence, at the
\* place it names.
ImplementsSequence == Abstract!Spec
=============================================================================
