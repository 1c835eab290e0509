----------------------------- MODULE My402List -----------------------------
(***************************************************************************)
(* The doubly linked ring of "TOKEN BUCKET/my402list.c", of which Q1 and   *)
(* Q2 are made: an anchor, elements in heap cells, and a member count that *)
(* every query trusts.  A cell that is free holds nothing: whatever is     *)
(* read through a pointer to it is NULL here, and garbage in the program.  *)
(* The callers pass elements that are in the list.                         *)
(***************************************************************************)
EXTENDS Naturals, Sequences, FiniteSets

CONSTANTS Elems,   \* the cells malloc can return
          Objs,    \* the objects the caller stores
          Anchor,  \* &list->anchor
          NULL

ASSUME ElementAssumption ==
  /\ IsFiniteSet(Elems)
  /\ Anchor \notin Elems
  /\ NULL \notin Elems \cup Objs \cup {Anchor}

VARIABLES list,  \* the struct and the cells: next, prev, obj of each cell, and
                 \* num_members
          used,  \* the cells malloc has returned and free has not taken back
          call   \* the call that has just returned, as in ListSequence

vars == <<list, used, call>>

Cells == Elems \cup {Anchor}

Call(op, elem, at, data, result) ==
  [op |-> op, elem |-> elem, at |-> at, data |-> data, result |-> result]

Init ==
  /\ list = [next |-> [c \in Cells |-> IF c = Anchor THEN Anchor ELSE NULL],
             prev |-> [c \in Cells |-> IF c = Anchor THEN Anchor ELSE NULL],
             obj |-> [c \in Cells |-> NULL],
             num_members |-> 0]
  /\ used = {}
  /\ call = Call("Init", NULL, NULL, NULL, 1)

----------------------------------------------------------------------------
(* The queries.                                                            *)

Empty(l) == l.num_members = 0
First(l) == IF Empty(l) THEN NULL ELSE l.next[Anchor]
Last(l) == IF Empty(l) THEN NULL ELSE l.prev[Anchor]
NextOf(l, cur) == IF cur = Last(l) THEN NULL ELSE l.next[cur]
PrevOf(l, cur) == IF cur = First(l) THEN NULL ELSE l.prev[cur]

\* The elements that a loop with First and NextOf, or with Last and PrevOf, sees
\* before it meets NULL, followed for as many steps as there are cells.
Neighbour(l, way, e) == IF way = "next" THEN NextOf(l, e) ELSE PrevOf(l, e)
Seen(l, way, before) ==
  LET e == Neighbour(l, way, before[Len(before)])
  IN IF e = NULL THEN before ELSE Append(before, e)
Walk(l, way) ==
  LET start == IF way = "next" THEN First(l) ELSE Last(l)
      seen[k \in 1..Cardinality(Elems)] ==
        IF k = 1 THEN <<start>> ELSE Seen(l, way, seen[k - 1])
  IN IF start = NULL THEN <<>> ELSE seen[Cardinality(Elems)]

Forward(l) == Walk(l, "next")
Backward(l) == Walk(l, "prev")

\* The first element met with the object, or NULL.
Find(l, data) ==
  LET seen == Forward(l)
      hits == {i \in DOMAIN seen : l.obj[seen[i]] = data}
  IN IF hits = {} THEN NULL
     ELSE seen[CHOOSE i \in hits : \A j \in hits : i <= j]

----------------------------------------------------------------------------
(* The calls that change the list, as functions from list to list.         *)

\* InsertBefore and InsertAfter an element: its neighbour on that side is read
\* first, then both sides are linked to the new cell e.
Link(l, e, data, prev, next) ==
  [next |-> [l.next EXCEPT ![prev] = e, ![e] = next],
   prev |-> [l.prev EXCEPT ![next] = e, ![e] = prev],
   obj |-> [l.obj EXCEPT ![e] = data],
   num_members |-> l.num_members + 1]

\* In an empty list the anchor is both neighbours.
Prepended(l, e, data) ==
  Link(l, e, data, Anchor, IF First(l) = NULL THEN Anchor ELSE First(l))
Appended(l, e, data) ==
  Link(l, e, data, IF Last(l) = NULL THEN Anchor ELSE Last(l), Anchor)

\* The neighbours of e are joined and its cell is freed.
Unlinked(l, e) ==
  IF Empty(l) THEN l
  ELSE [next |-> [l.next EXCEPT ![l.prev[e]] = l.next[e], ![e] = NULL],
        prev |-> [l.prev EXCEPT ![l.next[e]] = l.prev[e], ![e] = NULL],
        obj |-> [l.obj EXCEPT ![e] = NULL],
        num_members |-> l.num_members - 1]

\* One turn of the loop of UnlinkAll: the next element is asked for before the
\* current one is unlinked, with the count as it then is.
Turn(before) ==
  IF before.cur = NULL THEN before
  ELSE [list |-> Unlinked(before.list, before.cur),
        cur |-> NextOf(before.list, before.cur)]
UnlinkedAll(l) ==
  LET loop[k \in 0..Cardinality(Elems)] ==
        IF k = 0 THEN [list |-> l, cur |-> First(l)] ELSE Turn(loop[k - 1])
      after == loop[Cardinality(Elems)].list
  IN [after EXCEPT !.next[Anchor] = Anchor, !.prev[Anchor] = Anchor]

----------------------------------------------------------------------------
(* The calls.                                                              *)

\* One that inserts succeeds with any cell that is free ...
Insert(op, at, data, e, result) ==
  /\ list' = result
  /\ used' = used \cup {e}
  /\ call' = Call(op, e, at, data, 1)

Append_(e, data) == Insert("Append", NULL, data, e, Appended(list, e, data))
Prepend(e, data) == Insert("Prepend", NULL, data, e, Prepended(list, e, data))
InsertAfter(e, at, data) ==
  Insert("InsertAfter", at, data, e,
         IF at = NULL THEN Appended(list, e, data)
         ELSE Link(list, e, data, at, list.next[at]))
InsertBefore(e, at, data) ==
  Insert("InsertBefore", at, data, e,
         IF at = NULL THEN Prepended(list, e, data)
         ELSE Link(list, e, data, list.prev[at], at))

\* ... or finds that malloc has none, and returns 0.
CountAnyway(op, at, data) ==
  /\ call' = Call(op, NULL, at, data, 0)
  /\ list' = [list EXCEPT !.num_members = @ + 1]
  /\ UNCHANGED used
AllocationFails(op, at, data) ==
  /\ call' = Call(op, NULL, at, data, 0)
  /\ UNCHANGED <<list, used>>

Unlink(e) ==
  /\ list' = Unlinked(list, e)
  /\ used' = used \ {e}
  /\ call' = Call("Unlink", e, NULL, NULL, NULL)

UnlinkAll ==
  /\ list' = UnlinkedAll(list)
  /\ used' = {e \in used : list'.next[e] # NULL}
  /\ call' = Call("UnlinkAll", NULL, NULL, NULL, NULL)

Next ==
  \/ \E e \in Elems \ used, data \in Objs :
       \/ Append_(e, data)
       \/ Prepend(e, data)
       \/ \E at \in used \cup {NULL} : InsertAfter(e, at, data) \/ InsertBefore(e, at, data)
  \/ \E data \in Objs :
       \/ \E op \in {"Append", "Prepend"} : AllocationFails(op, NULL, data)
       \/ \E op \in {"InsertAfter", "InsertBefore"}, at \in used \cup {NULL} :
            AllocationFails(op, at, data)
  \/ \E e \in used : Unlink(e)
  \/ UnlinkAll

Spec == Init /\ [][Next]_vars
=============================================================================
