---------------------------- MODULE ListSequence ----------------------------
(***************************************************************************)
(* What a My402List promises: a sequence of elements, each holding an      *)
(* object, which the calls extend and shorten at the places they name.     *)
(* `call` is the call that has just returned: its name, its element (the   *)
(* one inserted or unlinked), the element it was given to insert next to,  *)
(* the object and the result.                                              *)
(***************************************************************************)
EXTENDS Naturals, Sequences, SequencesExt

CONSTANTS Elems,  \* the elements malloc can return
          Objs,   \* the objects the caller stores
          NULL

VARIABLES members,  \* Seq([elem : Elems, obj : Objs])
          call

Call(op, elem, at, data, result) ==
  [op |-> op, elem |-> elem, at |-> at, data |-> data, result |-> result]

Elements == {members[i].elem : i \in DOMAIN members}
Entry(e, d) == [elem |-> e, obj |-> d]

Init == members = <<>> /\ call = Call("Init", NULL, NULL, NULL, 1)

\* The position of element e.
At(e) == CHOOSE i \in DOMAIN members : members[i].elem = e

\* The calls that insert, and where: next to no element is at the end for
\* InsertAfter and at the front for InsertBefore.
Inserters == {"Append", "Prepend", "InsertAfter", "InsertBefore"}
Place(op, at) ==
  CASE op = "Append" \/ (op = "InsertAfter" /\ at = NULL) -> Len(members) + 1
    [] op = "Prepend" \/ (op = "InsertBefore" /\ at = NULL) -> 1
    [] op = "InsertAfter" /\ at # NULL -> At(at) + 1
    [] op = "InsertBefore" /\ at # NULL -> At(at)

\* A new element comes to stand at its place, ...
Insert(op, e, at, d) ==
  /\ call' = Call(op, e, at, d, 1)
  /\ e \notin Elements
  /\ at \in Elements \cup {NULL}
  /\ members' = InsertAt(members, Place(op, at), Entry(e, d))

\* ... or malloc found no memory: the call says so and nothing else happened.
Refuse(op, at, d) ==
  /\ call' = Call(op, NULL, at, d, 0)
  /\ UNCHANGED members

Unlink(e) ==
  /\ call' = Call("Unlink", e, NULL, NULL, NULL)
  /\ e \in Elements
  /\ members' = RemoveAt(members, At(e))

UnlinkAll ==
  /\ call' = Call("UnlinkAll", NULL, NULL, NULL, NULL)
  /\ members' = <<>>

Next ==
  \/ \E op \in Inserters, at \in Elems \cup {NULL}, d \in Objs :
       Refuse(op, at, d) \/ \E e \in Elems : Insert(op, e, at, d)
  \/ \E e \in Elems : Unlink(e)
  \/ UnlinkAll

Spec == Init /\ [][Next]_<<members, call>>
=============================================================================
