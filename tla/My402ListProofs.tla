--------------------------- MODULE My402ListProofs ---------------------------
(***************************************************************************)
(* That the ring stays one ring, for any number of cells and objects.      *)
(*                                                                         *)
(* RingClosed alone would allow a second ring beside that of the anchor,   *)
(* and UnlinkAll would then leave it behind: the strengthening is that no  *)
(* part of the list is closed under next.  What the loop of UnlinkAll does *)
(* is proved by induction, in the form that a set of numbers has a least   *)
(* element.                                                                *)
(***************************************************************************)
EXTENDS My402ListProperties, TLAPS, FiniteSetTheorems, SequenceTheorems,
        WellFoundedInduction

\* The elements U and the anchor are one ring, and the other cells are free.
Typed(l) ==
  l \in [next : [Cells -> Cells \cup {NULL}], prev : [Cells -> Cells \cup {NULL}],
         obj : [Cells -> Objs \cup {NULL}], num_members : Nat]

Closed(l, U) ==
  \A c \in U \cup {Anchor} :
    /\ l.next[c] \in U \cup {Anchor} /\ l.prev[l.next[c]] = c
    /\ l.prev[c] \in U \cup {Anchor} /\ l.next[l.prev[c]] = c

OneRing(l, U) == \A S \in SUBSET U : (\A c \in S : l.next[c] \in S) => S = {}

Ring(l, U) ==
  /\ U \subseteq Elems
  /\ Typed(l)
  /\ l.num_members = Cardinality(U)
  /\ Closed(l, U)
  /\ OneRing(l, U)
  /\ \A c \in Elems \ U : l.next[c] = NULL

-----------------------------------------------------------------------------
(* The queries.                                                            *)

\* The elements of a ring are finitely many.
LEMMA FiniteRing ==
  ASSUME NEW l, NEW U, Ring(l, U)
  PROVE  /\ IsFiniteSet(U) /\ Cardinality(U) \in Nat
         /\ Cardinality(U) <= Cardinality(Elems) /\ Cardinality(Elems) \in Nat
         /\ Cardinality(U) = 0 <=> U = {}
BY ElementAssumption, FS_Subset, FS_CardinalityType, FS_EmptySet DEF Ring

\* Empty, First and Last, which trust the count, are right about the ring.
LEMMA EndsOfRing ==
  ASSUME NEW l, NEW U, Ring(l, U)
  PROVE  /\ Empty(l) <=> U = {}
         /\ U = {} => l.next[Anchor] = Anchor /\ l.prev[Anchor] = Anchor
         /\ U # {} => l.next[Anchor] \in U /\ l.prev[Anchor] \in U
         /\ First(l) = IF U = {} THEN NULL ELSE l.next[Anchor]
         /\ Last(l) = IF U = {} THEN NULL ELSE l.prev[Anchor]
<1>1. Empty(l) <=> U = {}
  BY FiniteRing DEF Ring, Empty
<1>2. U = {} => l.next[Anchor] = Anchor /\ l.prev[Anchor] = Anchor
  BY DEF Ring, Closed
<1>3. ASSUME U # {}, l.next[Anchor] = Anchor \/ l.prev[Anchor] = Anchor PROVE FALSE
  <2>1. l.prev[Anchor] = Anchor
    BY <1>3 DEF Ring, Closed
  <2>2. \A c \in U : l.next[c] \in U
    BY <2>1, ElementAssumption DEF Ring, Closed
  <2>. QED BY <1>3, <2>2 DEF Ring, OneRing
<1>4. U # {} => l.next[Anchor] \in U /\ l.prev[Anchor] \in U
  BY <1>3 DEF Ring, Closed
<1>. QED BY <1>1, <1>2, <1>4 DEF First, Last

-----------------------------------------------------------------------------
(* The links.                                                              *)

\* A new cell between two neighbours.
LEMMA LinkKeepsRing ==
  ASSUME NEW l, NEW U, Ring(l, U), NEW e \in Elems \ U, NEW data \in Objs,
         NEW p \in U \cup {Anchor}, NEW n, n = l.next[p]
  PROVE  Ring(Link(l, e, data, p, n), U \cup {e})
<1> DEFINE m == Link(l, e, data, p, n)
           V == U \cup {e}
<1>1. /\ n \in U \cup {Anchor} /\ l.prev[n] = p
      /\ e \in Cells /\ p \in Cells /\ n \in Cells /\ Anchor \in Cells
      /\ e # Anchor /\ e # p /\ e # n
  BY ElementAssumption DEF Ring, Closed, Cells
<1>2. /\ l.next \in [Cells -> Cells \cup {NULL}] /\ l.prev \in [Cells -> Cells \cup {NULL}]
      /\ l.obj \in [Cells -> Objs \cup {NULL}] /\ l.num_members \in Nat
  BY DEF Ring, Typed
<1>3. /\ m.next = [l.next EXCEPT ![p] = e, ![e] = n]
      /\ m.prev = [l.prev EXCEPT ![n] = e, ![e] = p]
      /\ m.obj = [l.obj EXCEPT ![e] = data] /\ m.num_members = l.num_members + 1
      /\ m = [next |-> m.next, prev |-> m.prev, obj |-> m.obj, num_members |-> m.num_members]
  BY DEF Link
<1>4. /\ m.next[e] = n /\ m.next[p] = e /\ m.prev[e] = p /\ m.prev[n] = e
      /\ \A c \in Cells \ {e, p} : m.next[c] = l.next[c]
      /\ \A c \in Cells \ {e, n} : m.prev[c] = l.prev[c]
  BY <1>1, <1>2, <1>3
<1>5. Typed(m)
  <2>1. /\ m.next \in [Cells -> Cells \cup {NULL}] /\ m.prev \in [Cells -> Cells \cup {NULL}]
        /\ m.obj \in [Cells -> Objs \cup {NULL}] /\ m.num_members \in Nat
    BY <1>1, <1>2, <1>3
  <2>. QED BY <1>3, <2>1 DEF Typed
<1>6. V \subseteq Elems /\ m.num_members = Cardinality(V)
  <2>1. Cardinality(V) = Cardinality(U) + 1
    BY FiniteRing, FS_AddElement
  <2>. QED BY <1>3, <2>1 DEF Ring
<1>7. Closed(m, V)
  <2> SUFFICES ASSUME NEW c \in V \cup {Anchor}
               PROVE  /\ m.next[c] \in V \cup {Anchor} /\ m.prev[m.next[c]] = c
                      /\ m.prev[c] \in V \cup {Anchor} /\ m.next[m.prev[c]] = c
    BY DEF Closed
  <2>1. c \in Cells
    BY <1>6 DEF Cells
  <2>2. CASE c = e
    BY <1>1, <1>4, <2>2
  <2>3. CASE c # e
    <3>1. /\ c \in U \cup {Anchor}
          /\ l.next[c] \in U \cup {Anchor} /\ l.prev[l.next[c]] = c
          /\ l.prev[c] \in U \cup {Anchor} /\ l.next[l.prev[c]] = c
      BY <2>3 DEF Ring, Closed
    <3>2. \A d \in U \cup {Anchor} : d \in Cells /\ d # e
      BY <1>1 DEF Ring, Cells
    <3>3. m.next[c] \in V \cup {Anchor} /\ m.prev[m.next[c]] = c
      BY <1>1, <1>4, <2>1, <2>3, <3>1, <3>2
    <3>4. m.prev[c] \in V \cup {Anchor} /\ m.next[m.prev[c]] = c
      BY <1>1, <1>4, <2>1, <2>3, <3>1, <3>2
    <3>. QED BY <3>3, <3>4
  <2>. QED BY <2>2, <2>3
<1>8. OneRing(m, V)
  <2> SUFFICES ASSUME NEW S \in SUBSET V, \A c \in S : m.next[c] \in S PROVE S = {}
    BY DEF OneRing
  <2>1. \A c \in S \ {e} : c \in U /\ c \in Cells
    BY DEF Ring, Cells
  <2>2. \A c \in S \ {e} : l.next[c] \in S \ {e}
    <3> SUFFICES ASSUME NEW c \in S \ {e} PROVE l.next[c] \in S \ {e}
      OBVIOUS
    <3>1. l.next[c] # e
      BY <1>1, <2>1 DEF Ring, Closed
    <3>2. CASE c = p
      BY <1>1, <1>4, <3>2
    <3>3. CASE c # p
      BY <1>4, <2>1, <3>1, <3>3
    <3>. QED BY <3>2, <3>3
  <2>3. S \ {e} = {}
    BY <2>1, <2>2 DEF Ring, OneRing
  <2>4. e \notin S
    BY <1>1, <1>4, <2>3
  <2>. QED BY <2>3, <2>4
<1>9. \A c \in Elems \ V : m.next[c] = NULL
  BY <1>1, <1>4, ElementAssumption DEF Ring, Cells
<1>. QED BY <1>5, <1>6, <1>7, <1>8, <1>9 DEF Ring

\* The neighbours of an element of the list are joined.
LEMMA UnlinkKeepsRing ==
  ASSUME NEW l, NEW U, Ring(l, U), NEW e \in U
  PROVE  /\ Ring(Unlinked(l, e), U \ {e})
         /\ l.prev[e] = Anchor => Unlinked(l, e).next[Anchor] = l.next[e]
<1> DEFINE m == Unlinked(l, e)
           p == l.prev[e]
           n == l.next[e]
           V == U \ {e}
<1>1. /\ n \in U \cup {Anchor} /\ l.prev[n] = e /\ p \in U \cup {Anchor} /\ l.next[p] = e
      /\ e \in Cells /\ p \in Cells /\ n \in Cells /\ Anchor \in Cells /\ e # Anchor
  BY ElementAssumption DEF Ring, Closed, Cells
<1>2. p # e /\ n # e
  <2>1. l.next[e] # e
    <3>1. {e} # {} /\ {e} \in SUBSET U
      OBVIOUS
    <3>. QED BY <3>1 DEF Ring, OneRing
  <2>. QED BY <1>1, <2>1
<1>3. /\ l.next \in [Cells -> Cells \cup {NULL}] /\ l.prev \in [Cells -> Cells \cup {NULL}]
      /\ l.obj \in [Cells -> Objs \cup {NULL}] /\ l.num_members \in Nat
  BY DEF Ring, Typed
<1>4. /\ m.next = [l.next EXCEPT ![p] = n, ![e] = NULL]
      /\ m.prev = [l.prev EXCEPT ![n] = p, ![e] = NULL]
      /\ m.obj = [l.obj EXCEPT ![e] = NULL] /\ m.num_members = l.num_members - 1
      /\ m = [next |-> m.next, prev |-> m.prev, obj |-> m.obj, num_members |-> m.num_members]
  <2>1. ~Empty(l)
    BY EndsOfRing
  <2>. QED BY <2>1 DEF Unlinked
<1>5. /\ m.next[e] = NULL /\ m.next[p] = n /\ m.prev[n] = p
      /\ \A c \in Cells \ {e, p} : m.next[c] = l.next[c]
      /\ \A c \in Cells \ {e, n} : m.prev[c] = l.prev[c]
  BY <1>1, <1>2, <1>3, <1>4
<1>6. V \subseteq Elems /\ m.num_members = Cardinality(V)
  <2>1. Cardinality(V) = Cardinality(U) - 1
    BY FiniteRing, FS_RemoveElement
  <2>. QED BY <1>4, <2>1 DEF Ring
<1>7. Typed(m)
  <2>1. /\ m.next \in [Cells -> Cells \cup {NULL}] /\ m.prev \in [Cells -> Cells \cup {NULL}]
        /\ m.obj \in [Cells -> Objs \cup {NULL}]
    BY <1>1, <1>3, <1>4
  <2>2. m.num_members \in Nat
    <3>1. IsFiniteSet(V)
      BY FiniteRing, FS_RemoveElement
    <3>. QED BY <1>6, <3>1, FS_CardinalityType
  <2>. QED BY <1>4, <2>1, <2>2 DEF Typed
<1>8. Closed(m, V)
  <2> SUFFICES ASSUME NEW c \in V \cup {Anchor}
               PROVE  /\ m.next[c] \in V \cup {Anchor} /\ m.prev[m.next[c]] = c
                      /\ m.prev[c] \in V \cup {Anchor} /\ m.next[m.prev[c]] = c
    BY DEF Closed
  <2>1. /\ c \in Cells /\ c # e /\ c \in U \cup {Anchor}
        /\ l.next[c] \in U \cup {Anchor} /\ l.prev[l.next[c]] = c
        /\ l.prev[c] \in U \cup {Anchor} /\ l.next[l.prev[c]] = c
    BY <1>1 DEF Ring, Closed, Cells
  <2>2. \A d \in U \cup {Anchor} : d \in Cells
    BY DEF Ring, Cells
  <2>3. m.next[c] \in V \cup {Anchor} /\ m.prev[m.next[c]] = c
    <3>1. CASE c = p
      BY <1>1, <1>2, <1>5, <3>1
    <3>2. CASE c # p
      <4>1. l.next[c] # e /\ l.next[c] # n
        BY <1>1, <2>1, <3>2
      <4>. QED BY <1>5, <2>1, <2>2, <3>2, <4>1
    <3>. QED BY <3>1, <3>2
  <2>4. m.prev[c] \in V \cup {Anchor} /\ m.next[m.prev[c]] = c
    <3>1. CASE c = n
      BY <1>1, <1>2, <1>5, <3>1
    <3>2. CASE c # n
      <4>1. l.prev[c] # e /\ l.prev[c] # p
        BY <1>1, <2>1, <3>2
      <4>. QED BY <1>5, <2>1, <2>2, <3>2, <4>1
    <3>. QED BY <3>1, <3>2
  <2>. QED BY <2>3, <2>4
<1>9. OneRing(m, V)
  <2> SUFFICES ASSUME NEW S \in SUBSET V, \A c \in S : m.next[c] \in S PROVE S = {}
    BY DEF OneRing
  <2>0. \A c \in S : c \in U /\ c \in Cells /\ c # e
    BY DEF Ring, Cells
  <2>1. CASE p \in S
    <3>1. n \in S
      BY <1>5, <2>1
    <3>2. \A c \in S \cup {e} : l.next[c] \in S \cup {e}
      BY <1>1, <1>5, <2>0, <3>1
    <3>3. S \cup {e} \in SUBSET U /\ S \cup {e} # {}
      OBVIOUS
    <3>. QED BY <3>2, <3>3 DEF Ring, OneRing
  <2>2. CASE p \notin S
    <3>1. \A c \in S : l.next[c] \in S
      BY <1>5, <2>0, <2>2
    <3>. QED BY <2>0, <3>1 DEF Ring, OneRing
  <2>. QED BY <2>1, <2>2
<1>10. \A c \in Elems \ V : m.next[c] = NULL
  <2> SUFFICES ASSUME NEW c \in Elems \ V PROVE m.next[c] = NULL
    OBVIOUS
  <2>1. CASE c = e
    BY <1>5, <2>1
  <2>2. CASE c # e
    <3>1. c \in Elems \ U /\ c \in Cells /\ c # p
      BY <1>1, <2>2, ElementAssumption DEF Cells
    <3>. QED BY <1>5, <2>2, <3>1 DEF Ring
  <2>. QED BY <2>1, <2>2
<1>11. p = Anchor => m.next[Anchor] = n
  BY <1>5
<1>. QED BY <1>6, <1>7, <1>8, <1>9, <1>10, <1>11 DEF Ring

-----------------------------------------------------------------------------
(* The loop of UnlinkAll.                                                  *)

\* A set of natural numbers has a smallest one.
LEMMA Smallest ==
  ASSUME NEW T \in SUBSET Nat, T # {}
  PROVE  \E x \in T : \A y \in T : x <= y
<1> DEFINE Less == OpToRel(<, Nat)
<1>1. IsWellFoundedOn(Less, Nat)
  BY NatLessThanWellFounded
<1>2. PICK x \in T : \A y \in T : ~(<<y, x>> \in Less)
  BY <1>1, WFMin
<1>3. \A k, n \in Nat : <<k, n>> \in Less <=> k < n
  BY DEF OpToRel
<1>4. x \in Nat /\ \A y \in T : y \in Nat /\ ~(y < x)
  BY <1>2, <1>3
<1>. QED BY <1>4

\* What the loop of UnlinkAll starts from, and what it makes of that.
Start(l) == [list |-> l, cur |-> First(l)]
Turns(g, n, l) == g = [k \in 0..n |-> IF k = 0 THEN Start(l) ELSE Turn(g[k - 1])]

\* The loop of My402ListUnlinkAll may be followed for any number of turns.
LEMMA LoopRuns == ASSUME NEW l, NEW n \in Nat PROVE \E g : Turns(g, n, l)
<1> DEFINE T == {k \in Nat : ~\E g : Turns(g, k, l)}
<1> SUFFICES ASSUME T # {} PROVE FALSE
  OBVIOUS
<1>1. PICK m \in T : \A k \in T : m <= k
  BY Smallest
<1>2. CASE m = 0
  <2> DEFINE g == [k \in 0..0 |-> Start(l)]
  <2>1. g = [k \in 0..0 |-> IF k = 0 THEN Start(l) ELSE Turn(g[k - 1])]
    OBVIOUS
  <2>2. Turns(g, 0, l)
    BY <2>1 DEF Turns
  <2>. QED BY <1>2, <2>2
<1>3. CASE m # 0
  <2>1. m - 1 \in Nat /\ m - 1 \notin T
    BY <1>1, <1>3
  <2>2. PICK g : Turns(g, m - 1, l)
    BY <2>1
  <2> DEFINE h == [k \in 0..m |-> IF k = m THEN Turn(g[m - 1]) ELSE g[k]]
  <2>3. ASSUME NEW k \in 0..m
        PROVE  h[k] = IF k = 0 THEN Start(l) ELSE Turn(h[k - 1])
    <3>1. \A j \in 0..(m - 1) : g[j] = IF j = 0 THEN Start(l) ELSE Turn(g[j - 1])
      BY <2>2 DEF Turns
    <3>2. CASE k = m
      BY <1>3, <2>1, <3>2
    <3>3. CASE k # m
      <4>1. k \in 0..(m - 1) /\ h[k] = g[k] /\ (k # 0 => k - 1 \in 0..m /\ k - 1 # m)
        BY <1>1, <3>3
      <4>2. k # 0 => h[k - 1] = g[k - 1]
        BY <4>1
      <4>. QED BY <3>1, <4>1, <4>2
    <3>. QED BY <3>2, <3>3
  <2>4. h = [k \in 0..m |-> IF k = 0 THEN Start(l) ELSE Turn(h[k - 1])]
    BY <2>3
  <2>5. Turns(h, m, l)
    BY <2>4 DEF Turns
  <2>. QED BY <1>1, <2>5
<1>. QED BY <1>2, <1>3

\* After k turns: k elements are freed, or all are, and the loop is at the first
\* of the others.
Halfway(s, U, k) ==
  \E V \in SUBSET U :
    /\ Ring(s.list, V)
    /\ s.cur = First(s.list)
    /\ V = {} \/ Cardinality(V) + k = Cardinality(U)

\* A turn of the loop unlinks one element more, if any is left.
LEMMA TurnKeeps ==
  ASSUME NEW U, NEW s, NEW k \in Nat, Halfway(s, U, k)
  PROVE  Halfway(Turn(s), U, k + 1)
<1>1. PICK V \in SUBSET U :
        /\ Ring(s.list, V) /\ s.cur = First(s.list)
        /\ V = {} \/ Cardinality(V) + k = Cardinality(U)
  BY DEF Halfway
<1>2. /\ V = {} => First(s.list) = NULL
      /\ V # {} => First(s.list) \in V /\ First(s.list) = s.list.next[Anchor]
  BY <1>1, EndsOfRing
<1>3. CASE V = {}
  BY <1>1, <1>2, <1>3 DEF Turn, Halfway
<1>4. CASE V # {}
  <2> DEFINE e == First(s.list)
             m == Unlinked(s.list, e)
             W == V \ {e}
  <2>1. e \in V /\ e = s.list.next[Anchor] /\ e # NULL /\ s.list.prev[e] = Anchor
    BY <1>1, <1>2, <1>4, ElementAssumption DEF Ring, Closed
  <2>2. Ring(m, W) /\ m.next[Anchor] = s.list.next[e]
    BY <1>1, <2>1, UnlinkKeepsRing
  <2>3. Turn(s) = [list |-> m, cur |-> NextOf(s.list, e)]
    BY <1>1, <2>1 DEF Turn
  <2>4. Cardinality(W) = Cardinality(V) - 1 /\ Cardinality(V) \in Nat
    BY <1>1, <2>1, FiniteRing, FS_RemoveElement
  <2>5. First(m) = NextOf(s.list, e)
    <3>1. Last(s.list) = s.list.prev[Anchor]
      BY <1>1, <1>4, EndsOfRing
    <3>2. First(m) = IF W = {} THEN NULL ELSE m.next[Anchor]
      BY <2>2, EndsOfRing
    <3>3. W = {} <=> e = s.list.prev[Anchor]
      <4>1. CASE W = {}
        <5>1. s.list.prev[Anchor] \in V
          BY <1>1, <1>4, EndsOfRing
        <5>. QED BY <4>1, <5>1
      <4>2. CASE e = s.list.prev[Anchor]
        <5>1. s.list.next[e] = Anchor
          BY <1>1, <4>2 DEF Ring, Closed
        <5>2. Anchor \notin W
          BY <1>1, ElementAssumption DEF Ring
        <5>3. W = {}
          BY <2>2, <5>1, <5>2, EndsOfRing
        <5>. QED BY <4>2, <5>3
      <4>. QED BY <4>1, <4>2
    <3>. QED BY <2>2, <3>1, <3>2, <3>3 DEF NextOf
  <2>6. W = {} \/ Cardinality(W) + (k + 1) = Cardinality(U)
    BY <1>1, <1>4, <2>4
  <2>. QED BY <2>2, <2>3, <2>5, <2>6 DEF Halfway
<1>. QED BY <1>3, <1>4

\* After i turns the loop has unlinked i elements, or all of them.
LEMMA TurnsKeep ==
  ASSUME NEW l, NEW U, Ring(l, U), NEW n \in Nat, NEW g, Turns(g, n, l), NEW i \in 0..n
  PROVE  Halfway(g[i], U, i)
<1> DEFINE T == {k \in 0..n : ~Halfway(g[k], U, k)}
<1> SUFFICES ASSUME T # {} PROVE FALSE
  OBVIOUS
<1>1. PICK m \in T : \A k \in T : m <= k
  <2>1. T \in SUBSET Nat
    OBVIOUS
  <2>. QED BY <2>1, Smallest
<1>2. g[m] = IF m = 0 THEN Start(l) ELSE Turn(g[m - 1])
  BY DEF Turns
<1>3. CASE m = 0
  <2>1. Ring(l, U) /\ U \in SUBSET U /\ Cardinality(U) + 0 = Cardinality(U)
    BY FiniteRing
  <2>2. Start(l).list = l /\ Start(l).cur = First(l)
    BY DEF Start
  <2>3. Halfway(Start(l), U, 0)
    BY <2>1, <2>2 DEF Halfway
  <2>. QED BY <1>2, <1>3, <2>3
<1>4. CASE m # 0
  <2>1. m - 1 \in Nat /\ m - 1 \in 0..n /\ m - 1 \notin T
    BY <1>1, <1>4
  <2>2. Halfway(g[m - 1], U, m - 1)
    BY <2>1
  <2>3. Halfway(Turn(g[m - 1]), U, (m - 1) + 1)
    BY <2>1, <2>2, TurnKeeps
  <2>. QED BY <1>2, <1>4, <2>3
<1>. QED BY <1>3, <1>4

\* UnlinkAll leaves an empty ring, and every cell free.
LEMMA UnlinkAllEmpties ==
  ASSUME NEW l, NEW U, Ring(l, U)
  PROVE  Ring(UnlinkedAll(l), {})
<1> DEFINE N == Cardinality(Elems)
           g == CHOOSE f : Turns(f, N, l)
           m == g[N].list
<1>1. N \in Nat
  BY FiniteRing
<1>2. Turns(g, N, l)
  BY <1>1, LoopRuns
<1>3. Halfway(g[N], U, N)
  BY <1>1, <1>2, TurnsKeep
<1>4. Ring(m, {})
  <2>1. PICK V \in SUBSET U : Ring(m, V) /\ (V = {} \/ Cardinality(V) + N = Cardinality(U))
    BY <1>3 DEF Halfway
  <2>2. V = {}
    BY <2>1, FiniteRing
  <2>. QED BY <2>1, <2>2
<1>5. UnlinkedAll(l) = [m EXCEPT !.next[Anchor] = Anchor, !.prev[Anchor] = Anchor]
  BY DEF UnlinkedAll, Turns, Start
<1>6. m.next[Anchor] = Anchor /\ m.prev[Anchor] = Anchor
  BY <1>4, EndsOfRing
<1>7. UnlinkedAll(l) = m
  <2>1. /\ m \in [next : [Cells -> Cells \cup {NULL}], prev : [Cells -> Cells \cup {NULL}],
                obj : [Cells -> Objs \cup {NULL}], num_members : Nat]
    BY <1>4 DEF Ring, Typed
  <2>2. [m.next EXCEPT ![Anchor] = Anchor] = m.next /\ [m.prev EXCEPT ![Anchor] = Anchor] = m.prev
    BY <1>6, <2>1
  <2>3. m = [next |-> m.next, prev |-> m.prev, obj |-> m.obj, num_members |-> m.num_members]
    BY <2>1
  <2>4. DOMAIN m = {"next", "prev", "obj", "num_members"}
    BY <2>1
  <2>5. UnlinkedAll(l) = [m EXCEPT !.next = m.next, !.prev = m.prev]
    BY <1>5, <2>2
  <2>. QED BY <2>3, <2>4, <2>5
<1>. QED BY <1>4, <1>7

-----------------------------------------------------------------------------
(* The invariant and the theorems.                                         *)

ListInv == Ring(list, used)

\* My402ListInit makes an empty ring.
LEMMA ListStarts == ASSUME Init PROVE ListInv
<1>1. /\ list \in [next : [Cells -> Cells \cup {NULL}], prev : [Cells -> Cells \cup {NULL}],
                   obj : [Cells -> Objs \cup {NULL}], num_members : Nat]
      /\ list.next[Anchor] = Anchor /\ list.prev[Anchor] = Anchor /\ list.num_members = 0
      /\ \A c \in Elems : list.next[c] = NULL
  BY ElementAssumption DEF Init, Cells
<1>2. used = {} /\ Cardinality(used) = 0
  BY FS_EmptySet DEF Init
<1>. QED BY <1>1, <1>2 DEF ListInv, Ring, Typed, Closed, OneRing

\* The four insertions link the new cell to two neighbours on the ring.
LEMMA InsertionsKeep ==
  ASSUME ListInv, NEW e \in Elems \ used, NEW data \in Objs
  PROVE  /\ Append_(e, data) => ListInv'
         /\ Prepend(e, data) => ListInv'
         /\ \A at \in used \cup {NULL} :
              (InsertAfter(e, at, data) => ListInv') /\ (InsertBefore(e, at, data) => ListInv')
<1>1. ASSUME NEW p \in used \cup {Anchor}, NEW n, n = list.next[p],
             list' = Link(list, e, data, p, n), used' = used \cup {e}
      PROVE  ListInv'
  <2>1. Ring(Link(list, e, data, p, n), used \cup {e})
    BY <1>1, LinkKeepsRing DEF ListInv
  <2>. QED BY <1>1, <2>1 DEF ListInv
<1>2. /\ First(list) = IF used = {} THEN NULL ELSE list.next[Anchor]
      /\ Last(list) = IF used = {} THEN NULL ELSE list.prev[Anchor]
      /\ used = {} => list.next[Anchor] = Anchor /\ list.prev[Anchor] = Anchor
      /\ used # {} => list.next[Anchor] \in used /\ list.prev[Anchor] \in used
      /\ NULL \notin used
      /\ \A c \in used \cup {Anchor} :
           list.prev[c] \in used \cup {Anchor} /\ list.next[list.prev[c]] = c
  <2>1. NULL \notin used
    BY ElementAssumption DEF ListInv, Ring
  <2>. QED BY <2>1, EndsOfRing DEF ListInv, Ring, Closed
<1>3. list' = Prepended(list, e, data) /\ used' = used \cup {e} => ListInv'
  BY <1>1, <1>2 DEF Prepended
<1>4. list' = Appended(list, e, data) /\ used' = used \cup {e} => ListInv'
  BY <1>1, <1>2 DEF Appended
<1>5. ASSUME NEW at \in used \cup {NULL}
      PROVE  (InsertAfter(e, at, data) => ListInv') /\ (InsertBefore(e, at, data) => ListInv')
  <2>1. CASE at = NULL
    BY <1>3, <1>4, <2>1 DEF InsertAfter, InsertBefore, Insert
  <2>2. CASE at \in used
    <3>1. at # NULL
      BY <1>2, <2>2
    <3>. QED BY <1>1, <1>2, <2>2, <3>1 DEF InsertAfter, InsertBefore, Insert
  <2>. QED BY <2>1, <2>2
<1>. QED BY <1>3, <1>4, <1>5 DEF Append_, Prepend, Insert

\* My402ListUnlink leaves a ring of the other elements.
LEMMA UnlinkKeeps == ASSUME ListInv, NEW e \in used, Unlink(e) PROVE ListInv'
<1>1. Ring(Unlinked(list, e), used \ {e})
  BY UnlinkKeepsRing DEF ListInv
<1>. QED BY <1>1 DEF ListInv, Unlink

\* My402ListUnlinkAll leaves an empty ring.
LEMMA UnlinkAllKeeps == ASSUME ListInv, UnlinkAll PROVE ListInv'
<1>1. Ring(UnlinkedAll(list), {})
  BY UnlinkAllEmpties DEF ListInv
<1>2. list' = UnlinkedAll(list)
  BY DEF UnlinkAll
<1>3. \A e \in used : list'.next[e] = NULL
  BY <1>1, <1>2 DEF ListInv, Ring
<1>4. used' = {}
  BY <1>3 DEF UnlinkAll
<1>. QED BY <1>1, <1>2, <1>4 DEF ListInv

\* Every operation of the list keeps the invariant.
LEMMA ListStep == ASSUME ListInv, [Next]_vars PROVE ListInv'
<1>1. CASE UNCHANGED <<list, used>>
  BY <1>1 DEF ListInv
<1>2. ASSUME NEW e \in Elems \ used, NEW data \in Objs,
             \/ Append_(e, data) \/ Prepend(e, data)
             \/ \E at \in used \cup {NULL} : InsertAfter(e, at, data) \/ InsertBefore(e, at, data)
      PROVE  ListInv'
  BY <1>2, InsertionsKeep
<1>3. ASSUME NEW op, NEW at, NEW data, AllocationFails(op, at, data) PROVE ListInv'
  BY <1>1, <1>3 DEF AllocationFails
<1>4. ASSUME NEW e \in used, Unlink(e) PROVE ListInv'
  BY <1>4, UnlinkKeeps
<1>. QED BY <1>1, <1>2, <1>3, <1>4, UnlinkAllKeeps DEF Next, vars

\* The used elements form a ring through the anchor in every state, whichever operations
\* the caller chose (my402list.c).
THEOREM ListInvariance == Spec => []ListInv
BY ListStarts, ListStep, PTL DEF Spec

\* The count is that of the cells in use, and no pointer leads elsewhere,
\* whatever calls are made and whichever of them find no memory.
THEOREM ListTypeCorrect == Spec => []TypeOK
<1>1. ListInv => TypeOK
  BY DEF ListInv, Ring, Typed, TypeOK
<1>. QED BY <1>1, ListInvariance, PTL

\* next and prev undo each other at every cell of the list, for any number of
\* cells and any sequence of calls.
THEOREM RingStaysClosed == Spec => []RingClosed
<1>1. ListInv => RingClosed
  BY DEF ListInv, Ring, Closed, RingClosed
<1>. QED BY <1>1, ListInvariance, PTL

-----------------------------------------------------------------------------
(* The loops with First and Next, and with Last and Prev: both at once, for *)
(* ahead(l, way) is where a loop goes and behind(l, way) where it comes     *)
(* from.                                                                   *)

ahead(l, way) == IF way = "next" THEN l.next ELSE l.prev
behind(l, way) == IF way = "next" THEN l.prev ELSE l.next

\* Both ways round, a neighbour's neighbour is where one came from, and the walk ends at
\* the anchor.
LEMMA WayFacts ==
  ASSUME NEW l, NEW U, Ring(l, U), NEW way \in {"next", "prev"}
  PROVE  /\ \A c \in U \cup {Anchor} :
              /\ ahead(l, way)[c] \in U \cup {Anchor} /\ behind(l, way)[ahead(l, way)[c]] = c
              /\ behind(l, way)[c] \in U \cup {Anchor} /\ ahead(l, way)[behind(l, way)[c]] = c
         /\ U # {} => ahead(l, way)[Anchor] \in U /\ behind(l, way)[Anchor] \in U
         /\ NULL \notin U /\ Anchor \notin U
         /\ \A c \in U : Neighbour(l, way, c) =
              IF c = behind(l, way)[Anchor] THEN NULL ELSE ahead(l, way)[c]
         /\ (IF way = "next" THEN First(l) ELSE Last(l)) =
              IF U = {} THEN NULL ELSE ahead(l, way)[Anchor]
<1>1. Closed(l, U) /\ NULL \notin U /\ Anchor \notin U
  BY ElementAssumption DEF Ring
<1>. QED BY <1>1, EndsOfRing DEF Closed, ahead, behind, Neighbour, NextOf, PrevOf

\* What a loop has seen after k elements.
Trail(l, U, way, s, k) ==
  /\ s \in Seq(U) /\ Len(s) \in 1..k
  /\ s[1] = ahead(l, way)[Anchor]
  /\ \A i \in 1..(Len(s) - 1) : s[i + 1] = ahead(l, way)[s[i]]
  /\ \A i, j \in 1..Len(s) : s[i] = s[j] => i = j
  /\ Len(s) = k \/ s[Len(s)] = behind(l, way)[Anchor]

\* The element ahead of the last one seen, if it is not the anchor, is new.
LEMMA AheadIsNew ==
  ASSUME NEW l, NEW U, Ring(l, U), NEW way \in {"next", "prev"}, NEW k \in Nat,
         NEW s, Trail(l, U, way, s, k), s[Len(s)] # behind(l, way)[Anchor]
  PROVE  /\ ahead(l, way)[s[Len(s)]] \in U
         /\ \A i \in 1..Len(s) : s[i] # ahead(l, way)[s[Len(s)]]
<1> DEFINE a == ahead(l, way)
           b == behind(l, way)
           n == Len(s)
<1>1. n \in 1..k /\ s[n] \in U /\ \A i \in 1..n : s[i] \in U
  BY ElementOfSeq DEF Trail
<1>2. a[s[n]] \in U
  <2>1. a[s[n]] \in U \cup {Anchor} /\ b[a[s[n]]] = s[n]
    BY <1>1, WayFacts
  <2>. QED BY <2>1
<1>3. ASSUME NEW i \in 1..n, s[i] = a[s[n]] PROVE FALSE
  <2>1. b[s[i]] = s[n]
    BY <1>1, <1>3, WayFacts
  <2>2. CASE i = 1
    <3>1. s[i] = a[Anchor]
      BY <2>2 DEF Trail
    <3>2. b[a[Anchor]] = Anchor
      BY WayFacts
    <3>. QED BY <1>1, <2>1, <3>1, <3>2, WayFacts
  <2>3. CASE i # 1
    <3>1. i - 1 \in 1..(n - 1) /\ i - 1 \in 1..n /\ (i - 1) + 1 = i /\ n \in 1..n
      BY <1>1, <2>3
    <3>2. s[i] = a[s[i - 1]]
      BY <3>1 DEF Trail
    <3>3. s[i - 1] = s[n]
      BY <1>1, <2>1, <3>1, <3>2, WayFacts
    <3>4. i - 1 = n
      BY <3>1, <3>3 DEF Trail
    <3>. QED BY <1>1, <3>1, <3>4
  <2>. QED BY <2>2, <2>3
<1>. QED BY <1>2, <1>3

\* A step of a walk lengthens its trail by the neighbour.
LEMMA SeenKeeps ==
  ASSUME NEW l, NEW U, Ring(l, U), NEW way \in {"next", "prev"}, NEW k \in Nat,
         NEW s, Trail(l, U, way, s, k)
  PROVE  Trail(l, U, way, Seen(l, way, s), k + 1)
<1> DEFINE a == ahead(l, way)
           b == behind(l, way)
           n == Len(s)
           t == Seen(l, way, s)
<1>1. n \in 1..k /\ s \in Seq(U) /\ \A i \in 1..n : s[i] \in U
  BY ElementOfSeq DEF Trail
<1>2. s[n] \in U /\ Neighbour(l, way, s[n]) = IF s[n] = b[Anchor] THEN NULL ELSE a[s[n]]
  BY <1>1, WayFacts
<1>3. CASE s[n] = b[Anchor]
  <2>1. t = s
    BY <1>2, <1>3 DEF Seen
  <2>. QED BY <1>1, <1>3, <2>1 DEF Trail
<1>4. CASE s[n] # b[Anchor]
  <2>1. a[s[n]] \in U /\ \A i \in 1..n : s[i] # a[s[n]]
    BY <1>4, AheadIsNew
  <2>2. t = Append(s, a[s[n]])
    BY <1>2, <1>4, <2>1, WayFacts DEF Seen
  <2>3. /\ t \in Seq(U) /\ Len(t) = n + 1 /\ t[n + 1] = a[s[n]]
        /\ \A i \in 1..n : t[i] = s[i]
    BY <1>1, <2>1, <2>2
  <2>4. n = k
    BY <1>4 DEF Trail
  <2>5. t[1] = a[Anchor]
    BY <1>1, <2>3 DEF Trail
  <2>6. ASSUME NEW i \in 1..n PROVE t[i + 1] = a[t[i]]
    <3>1. CASE i = n
      BY <1>1, <2>3, <3>1
    <3>2. CASE i # n
      <4>1. i \in 1..(n - 1) /\ i + 1 \in 1..n
        BY <1>1, <3>2
      <4>. QED BY <2>3, <4>1 DEF Trail
    <3>. QED BY <3>1, <3>2
  <2>7. ASSUME NEW i \in 1..(n + 1), NEW j \in 1..(n + 1), t[i] = t[j] PROVE i = j
    <3>1. \A m \in 1..(n + 1) : m \in 1..n \/ m = n + 1
      BY <1>1
    <3>2. \A x, y \in 1..n : s[x] = s[y] => x = y
      BY DEF Trail
    <3>. QED BY <2>1, <2>3, <2>7, <3>1, <3>2
  <2>. QED BY <1>1, <2>3, <2>4, <2>5, <2>6, <2>7 DEF Trail
<1>. QED BY <1>3, <1>4

\* The recursion of Walk.
Begin(l, way) == <<IF way = "next" THEN First(l) ELSE Last(l)>>
Steps(g, n, l, way) ==
  g = [k \in 1..n |-> IF k = 1 THEN Begin(l, way) ELSE Seen(l, way, g[k - 1])]

\* A walk may be followed for any number of steps.
LEMMA WalkRuns == ASSUME NEW l, NEW way, NEW n \in Nat PROVE \E g : Steps(g, n, l, way)
<1> DEFINE T == {k \in Nat : ~\E g : Steps(g, k, l, way)}
<1> SUFFICES ASSUME T # {} PROVE FALSE
  OBVIOUS
<1>1. PICK m \in T : \A k \in T : m <= k
  BY Smallest
<1>2. CASE m = 0
  <2> DEFINE g == [k \in 1..0 |-> Begin(l, way)]
  <2>1. g = [k \in 1..0 |-> IF k = 1 THEN Begin(l, way) ELSE Seen(l, way, g[k - 1])]
    OBVIOUS
  <2>2. Steps(g, 0, l, way)
    BY <2>1 DEF Steps
  <2>. QED BY <1>2, <2>2
<1>3. CASE m # 0
  <2>1. m - 1 \in Nat /\ m - 1 \notin T
    BY <1>1, <1>3
  <2>2. PICK g : Steps(g, m - 1, l, way)
    BY <2>1
  <2> DEFINE h == [k \in 1..m |-> IF k = 1 THEN Begin(l, way)
                                  ELSE IF k = m THEN Seen(l, way, g[m - 1]) ELSE g[k]]
  <2>3. ASSUME NEW k \in 1..m
        PROVE  h[k] = IF k = 1 THEN Begin(l, way) ELSE Seen(l, way, h[k - 1])
    <3>1. \A j \in 1..(m - 1) :
            g[j] = IF j = 1 THEN Begin(l, way) ELSE Seen(l, way, g[j - 1])
      BY <2>2 DEF Steps
    <3>2. CASE k = 1
      BY <3>2
    <3>3. CASE k # 1
      <4>1. k - 1 \in 1..(m - 1) /\ k - 1 \in 1..m /\ k - 1 # m
        BY <1>1, <3>3
      <4>2. h[k - 1] = g[k - 1]
        BY <3>1, <4>1
      <4>3. CASE k = m
        BY <3>3, <4>2, <4>3
      <4>4. CASE k # m
        <5>1. k \in 1..(m - 1) /\ h[k] = g[k]
          BY <1>1, <3>3, <4>4
        <5>. QED BY <3>1, <3>3, <4>2, <5>1
      <4>. QED BY <4>3, <4>4
    <3>. QED BY <3>2, <3>3
  <2>4. h = [k \in 1..m |-> IF k = 1 THEN Begin(l, way) ELSE Seen(l, way, h[k - 1])]
    BY <2>3
  <2>5. Steps(h, m, l, way)
    BY <2>4 DEF Steps
  <2>. QED BY <1>1, <2>5
<1>. QED BY <1>2, <1>3

\* After i steps a walk has a trail of i elements.
LEMMA StepsKeep ==
  ASSUME NEW l, NEW U, Ring(l, U), U # {}, NEW way \in {"next", "prev"}, NEW n \in Nat,
         NEW g, Steps(g, n, l, way), NEW i \in 1..n
  PROVE  Trail(l, U, way, g[i], i)
<1> DEFINE T == {k \in 1..n : ~Trail(l, U, way, g[k], k)}
<1> SUFFICES ASSUME T # {} PROVE FALSE
  OBVIOUS
<1>1. PICK m \in T : \A k \in T : m <= k
  <2>1. T \in SUBSET Nat
    OBVIOUS
  <2>. QED BY <2>1, Smallest
<1>2. g[m] = IF m = 1 THEN Begin(l, way) ELSE Seen(l, way, g[m - 1])
  BY DEF Steps
<1>3. CASE m = 1
  <2>1. g[m] = <<ahead(l, way)[Anchor]>> /\ ahead(l, way)[Anchor] \in U
    BY <1>2, <1>3, WayFacts DEF Begin
  <2>2. Trail(l, U, way, g[m], 1)
    BY <2>1 DEF Trail
  <2>. QED BY <1>3, <2>2
<1>4. CASE m # 1
  <2>1. m - 1 \in Nat /\ m - 1 \in 1..n /\ m - 1 \notin T
    BY <1>1, <1>4
  <2>2. Trail(l, U, way, g[m - 1], m - 1)
    BY <2>1
  <2>3. Trail(l, U, way, Seen(l, way, g[m - 1]), (m - 1) + 1)
    BY <2>1, <2>2, SeenKeeps
  <2>. QED BY <1>2, <1>4, <2>3
<1>. QED BY <1>3, <1>4

\* As many steps as there are cells are enough: a trail that has not ended by
\* then would hold more elements than there are.
LEMMA TrailEnds ==
  ASSUME NEW l, NEW U, Ring(l, U), U # {}, NEW way \in {"next", "prev"},
         NEW s, Trail(l, U, way, s, Cardinality(Elems))
  PROVE  s[Len(s)] = behind(l, way)[Anchor] /\ Trail(l, U, way, s, Len(s))
<1> DEFINE N == Cardinality(Elems)
<1>1. N \in Nat /\ IsFiniteSet(U) /\ Cardinality(U) <= N /\ Cardinality(U) \in Nat
  BY FiniteRing
<1>2. s \in Seq(U) /\ Len(s) \in 1..N
  BY DEF Trail
<1>3. s \in [1..Len(s) -> U] /\ Len(s) \in 1..Len(s)
  BY <1>1, <1>2
<1>4. s[Len(s)] = behind(l, way)[Anchor]
  <2> SUFFICES ASSUME s[Len(s)] # behind(l, way)[Anchor] PROVE FALSE
    OBVIOUS
  <2>1. Len(s) = N
    BY DEF Trail
  <2>2. PICK x \in U : \A i \in 1..N : s[i] # x
    BY <1>1, <2>1, AheadIsNew
  <2>3. \A i, j \in 1..N : s[i] = s[j] => i = j
    BY <2>1 DEF Trail
  <2>4. IsFiniteSet(U \ {x}) /\ Cardinality(U \ {x}) = Cardinality(U) - 1
    BY <1>1, <2>2, FS_RemoveElement
  <2>5. s \in [1..N -> U \ {x}]
    BY <1>3, <2>1, <2>2
  <2>6. IsFiniteSet(1..N) /\ Cardinality(1..N) = N
    BY <1>1, FS_Interval
  <2>7. Cardinality(U \ {x}) < Cardinality(1..N)
    BY <1>1, <2>4, <2>6
  <2>8. s \in Injection(1..N, U \ {x})
    BY <2>3, <2>5 DEF Injection, IsInjective
  <2>9. Cardinality(1..N) <= Cardinality(U \ {x})
    BY <2>4, <2>8, FS_Injection
  <2>. QED BY <1>1, <2>4, <2>6, <2>7, <2>9
<1>5. Trail(l, U, way, s, Len(s))
  BY <1>3 DEF Trail
<1>. QED BY <1>4, <1>5

\* A loop sees no element twice and ends at the other end of the list.
LEMMA WalkEnds ==
  ASSUME NEW l, NEW U, Ring(l, U), NEW way \in {"next", "prev"}
  PROVE  /\ U = {} => Walk(l, way) = <<>>
         /\ U # {} => /\ Trail(l, U, way, Walk(l, way), Len(Walk(l, way)))
                      /\ Walk(l, way)[Len(Walk(l, way))] = behind(l, way)[Anchor]
<1> DEFINE N == Cardinality(Elems)
           start == IF way = "next" THEN First(l) ELSE Last(l)
           g == CHOOSE f : Steps(f, N, l, way)
<1>1. Walk(l, way) = IF start = NULL THEN <<>> ELSE g[N]
  BY DEF Walk, Steps, Begin
<1>2. start = IF U = {} THEN NULL ELSE ahead(l, way)[Anchor]
  BY WayFacts
<1>3. CASE U = {}
  BY <1>1, <1>2, <1>3
<1>4. CASE U # {}
  <2>1. Walk(l, way) = g[N]
    BY <1>1, <1>2, <1>4, WayFacts
  <2>2. N \in Nat /\ N \in 1..N
    BY <1>4, FiniteRing
  <2>3. Steps(g, N, l, way)
    BY <2>2, WalkRuns
  <2>4. Trail(l, U, way, g[N], N)
    BY <1>4, <2>2, <2>3, StepsKeep
  <2>. QED BY <1>4, <2>1, <2>4, TrailEnds
<1>. QED BY <1>3, <1>4

\* As many elements as positions, if none is met twice.
LEMMA CountedOnce ==
  ASSUME NEW U, NEW n \in Nat, NEW s \in [1..n -> U], {s[i] : i \in DOMAIN s} = U,
         \A i, j \in 1..n : s[i] = s[j] => i = j
  PROVE  Cardinality(U) = n
<1>1. s \in Injection(1..n, U)
  BY DEF Injection, IsInjective
<1>2. s \in Surjection(1..n, U)
  BY DEF Surjection
<1>3. ExistsBijection(1..n, U)
  BY <1>1, <1>2 DEF ExistsBijection, Bijection
<1>4. IsFiniteSet(1..n) /\ Cardinality(1..n) = n
  BY FS_Interval
<1>. QED BY <1>3, <1>4, FS_Bijection

\* Forward sees every element: what it has not seen would be a ring of its own.
LEMMA ForwardSeesAll ==
  ASSUME NEW l, NEW U, Ring(l, U)
  PROVE  /\ Forward(l) \in Seq(U) /\ Len(Forward(l)) = Cardinality(U)
         /\ {Forward(l)[i] : i \in DOMAIN Forward(l)} = U
         /\ \A i, j \in 1..Len(Forward(l)) : Forward(l)[i] = Forward(l)[j] => i = j
<1> DEFINE s == Walk(l, "next")
           n == Len(s)
           R == {s[i] : i \in DOMAIN s}
<1>1. CASE U = {}
  <2>1. Forward(l) = <<>>
    BY <1>1, WalkEnds DEF Forward
  <2>. QED BY <1>1, <2>1, FS_EmptySet
<1>2. CASE U # {}
  <2>1. Trail(l, U, "next", s, n) /\ s[n] = behind(l, "next")[Anchor]
    BY <1>2, WalkEnds
  <2>2. /\ s \in Seq(U) /\ n \in Nat \ {0} /\ DOMAIN s = 1..n /\ s \in [1..n -> U]
        /\ \A i \in 1..n : s[i] \in U
        /\ s[1] = l.next[Anchor] /\ s[n] = l.prev[Anchor]
        /\ \A i \in 1..(n - 1) : s[i + 1] = l.next[s[i]]
        /\ \A i, j \in 1..n : s[i] = s[j] => i = j
    BY <2>1 DEF Trail, ahead, behind
  <2>3. R \subseteq U
    BY <2>2
  <2>4. ASSUME NEW c \in U \ R PROVE l.next[c] \in U \ R
    <3>1. l.next[c] \in U \cup {Anchor} /\ l.prev[l.next[c]] = c
      BY DEF Ring, Closed
    <3>2. l.next[c] # Anchor
      BY <2>2, <3>1
    <3>3. ASSUME NEW i \in 1..n, s[i] = l.next[c] PROVE FALSE
      <4>1. CASE i = 1
        BY <2>2, <3>1, <3>3, <4>1, ElementAssumption DEF Ring, Closed
      <4>2. CASE i # 1
        <5>1. i - 1 \in 1..(n - 1) /\ i - 1 \in 1..n /\ (i - 1) + 1 = i
          BY <2>2, <4>2
        <5>2. s[i] = l.next[s[i - 1]] /\ s[i - 1] \in U
          BY <2>2, <5>1
        <5>3. c = s[i - 1]
          BY <3>1, <3>3, <5>2 DEF Ring, Closed
        <5>. QED BY <2>2, <5>1, <5>3
      <4>. QED BY <4>1, <4>2
    <3>. QED BY <2>2, <3>1, <3>2, <3>3
  <2>5. U \ R = {}
    BY <2>4 DEF Ring, OneRing
  <2>6. R = U
    BY <2>3, <2>5
  <2>7. Cardinality(U) = n
    BY <2>2, <2>6, CountedOnce
  <2>. QED BY <2>2, <2>6, <2>7 DEF Forward
<1>. QED BY <1>1, <1>2

\* Backward sees the same elements from the other end.
LEMMA BackwardMirrors ==
  ASSUME NEW l, NEW U, Ring(l, U)
  PROVE  /\ Len(Backward(l)) = Len(Forward(l))
         /\ \A i \in 1..Len(Forward(l)) :
              Backward(l)[i] = Forward(l)[Len(Forward(l)) + 1 - i]
<1> DEFINE f == Walk(l, "next")
           b == Walk(l, "prev")
           n == Len(f)
<1>1. CASE U = {}
  <2>1. Forward(l) = <<>> /\ Backward(l) = <<>>
    BY <1>1, WalkEnds DEF Forward, Backward
  <2>. QED BY <2>1
<1>2. CASE U # {}
  <2>1. /\ Trail(l, U, "next", f, n) /\ f[n] = behind(l, "next")[Anchor]
        /\ Trail(l, U, "prev", b, Len(b)) /\ b[Len(b)] = behind(l, "prev")[Anchor]
    BY <1>2, WalkEnds
  <2>2. /\ n \in Nat \ {0} /\ f[1] = l.next[Anchor] /\ f[n] = l.prev[Anchor]
        /\ \A i \in 1..n : f[i] \in U
        /\ \A i \in 1..(n - 1) : f[i + 1] = l.next[f[i]]
        /\ \A i, j \in 1..n : f[i] = f[j] => i = j
    BY <2>1, ElementOfSeq DEF Trail, ahead, behind
  <2>3. /\ Len(b) \in Nat \ {0} /\ b[1] = l.prev[Anchor] /\ b[Len(b)] = l.next[Anchor]
        /\ \A i \in 1..(Len(b) - 1) : b[i + 1] = l.prev[b[i]]
        /\ \A i, j \in 1..Len(b) : b[i] = b[j] => i = j
    BY <2>1 DEF Trail, ahead, behind
  <2> DEFINE T == {i \in 1..n : i <= Len(b) /\ b[i] # f[n + 1 - i]}
  <2>4. T = {}
    <3> SUFFICES ASSUME T # {} PROVE FALSE
      OBVIOUS
    <3>1. PICK i \in T : \A j \in T : i <= j
      <4>1. T \in SUBSET Nat
        OBVIOUS
      <4>. QED BY <4>1, Smallest
    <3>2. CASE i = 1
      BY <2>2, <2>3, <3>1, <3>2
    <3>3. CASE i # 1
      <4>1. /\ i - 1 \in 1..n /\ i - 1 <= Len(b) /\ i - 1 \in 1..(Len(b) - 1)
            /\ i - 1 \notin T /\ (i - 1) + 1 = i /\ n + 1 - (i - 1) = (n + 1 - i) + 1
            /\ n + 1 - i \in 1..(n - 1) /\ n + 1 - i \in 1..n
        <5>1. i \in 1..n /\ i <= Len(b) /\ n \in Nat /\ Len(b) \in Nat
          BY <2>2, <2>3, <3>1
        <5>2. i - 1 \notin T
          BY <3>1, <5>1
        <5>3. ASSUME NEW x \in Nat, NEW y \in Nat, NEW k \in 1..x, k <= y, k # 1
              PROVE  /\ k - 1 \in 1..x /\ k - 1 <= y /\ k - 1 \in 1..(y - 1)
                     /\ (k - 1) + 1 = k /\ x + 1 - (k - 1) = (x + 1 - k) + 1
                     /\ x + 1 - k \in 1..(x - 1) /\ x + 1 - k \in 1..x
          BY <5>3
        <5>. QED BY <3>3, <5>1, <5>2, <5>3
      <4>2. b[i] = l.prev[b[i - 1]]
        BY <2>3, <4>1
      <4>3. b[i - 1] = f[(n + 1 - i) + 1]
        BY <4>1
      <4>4. f[(n + 1 - i) + 1] = l.next[f[n + 1 - i]] /\ f[n + 1 - i] \in U
        BY <2>2, <4>1
      <4>5. l.prev[l.next[f[n + 1 - i]]] = f[n + 1 - i]
        BY <4>4 DEF Ring, Closed
      <4>. QED BY <3>1, <4>2, <4>3, <4>4, <4>5
    <3>. QED BY <3>2, <3>3
  <2>5. Len(b) = n
    <3>1. CASE Len(b) <= n
      <4>1. Len(b) \in 1..n /\ n + 1 - Len(b) \in 1..n /\ 1 \in 1..n
        BY <2>2, <2>3, <3>1
      <4>2. f[n + 1 - Len(b)] = f[1]
        BY <2>2, <2>3, <2>4, <4>1
      <4>3. n + 1 - Len(b) = 1
        BY <2>2, <4>1, <4>2
      <4>. QED BY <2>2, <2>3, <4>3
    <3>2. CASE Len(b) > n
      <4>1. n \in 1..n /\ n \in 1..Len(b) /\ Len(b) \in 1..Len(b) /\ n + 1 - n = 1
        BY <2>2, <2>3, <3>2
      <4>2. b[n] = f[n + 1 - n]
        BY <2>4, <3>2, <4>1
      <4>3. b[n] = b[Len(b)]
        BY <2>2, <2>3, <4>1, <4>2
      <4>. QED BY <2>3, <3>2, <4>1, <4>3
    <3>. QED BY <2>2, <2>3, <3>1, <3>2
  <2>6. \A i \in 1..n : b[i] = f[n + 1 - i]
    BY <2>4, <2>5
  <2>. QED BY <2>5, <2>6 DEF Forward, Backward
<1>. QED BY <1>1, <1>2

\* Find is the first of the elements that hold the object.
LEMMA FindFinds ==
  ASSUME NEW l, NEW U, Ring(l, U), NEW data
  PROVE  IF \E e \in U : l.obj[e] = data
         THEN Find(l, data) \in U /\ l.obj[Find(l, data)] = data
         ELSE Find(l, data) = NULL
<1> DEFINE s == Forward(l)
           hits == {i \in DOMAIN s : l.obj[s[i]] = data}
<1>1. /\ DOMAIN s = 1..Len(s) /\ Len(s) \in Nat
      /\ {s[i] : i \in DOMAIN s} = U
  BY ForwardSeesAll
<1>2. hits = {} <=> ~\E e \in U : l.obj[e] = data
  BY <1>1
<1>3. CASE hits = {}
  BY <1>2, <1>3 DEF Find
<1>4. CASE hits # {}
  <2>1. hits \in SUBSET Nat
    BY <1>1
  <2>2. \E i \in hits : \A j \in hits : i <= j
    BY <1>4, <2>1, Smallest
  <2>3. PICK i \in hits : Find(l, data) = s[i]
    BY <1>4, <2>2 DEF Find
  <2>. QED BY <1>1, <1>2, <1>4, <2>3
<1>. QED BY <1>3, <1>4

\* Whatever calls were made before, a loop over the list in either direction
\* sees each of its elements once and ends, for any number of cells.
THEOREM LoopsAreComplete == Spec => []LoopsSeeEveryElement
<1>1. ListInv => LoopsSeeEveryElement
  <2> SUFFICES ASSUME ListInv PROVE LoopsSeeEveryElement
    OBVIOUS
  <2>1. /\ DOMAIN Forward(list) = 1..Len(Forward(list))
        /\ Len(Forward(list)) = Cardinality(used)
        /\ {Forward(list)[i] : i \in DOMAIN Forward(list)} = used
    BY ForwardSeesAll DEF ListInv
  <2>2. /\ Len(Backward(list)) = Len(Forward(list))
        /\ \A i \in 1..Len(Forward(list)) :
             Backward(list)[i] = Forward(list)[Len(Forward(list)) + 1 - i]
    BY BackwardMirrors DEF ListInv
  <2>3. \A data \in Objs : IF \E e \in used : list.obj[e] = data
                           THEN Find(list, data) \in used /\ list.obj[Find(list, data)] = data
                           ELSE Find(list, data) = NULL
    BY FindFinds DEF ListInv
  <2>. QED BY <2>1, <2>2, <2>3 DEF LoopsSeeEveryElement
<1>. QED BY <1>1, ListInvariance, PTL

-----------------------------------------------------------------------------
(***************************************************************************)
(* That the ring implements a sequence, for any number of cells.           *)
(*                                                                         *)
(* The sequence is what Forward sees.  A sequence of all elements in which *)
(* each is next of the one before it *is* what Forward sees, so it is      *)
(* enough to name that sequence for the list after each call.              *)
(***************************************************************************)

Chain(l, U, f) ==
  /\ f \in Seq(U) /\ Len(f) = Cardinality(U)
  /\ U # {} => f[1] = l.next[Anchor]
  /\ \A i \in 1..(Len(f) - 1) : f[i + 1] = l.next[f[i]]

\* The walk by next from the anchor chains all elements up to the last.
LEMMA ForwardIsChain ==
  ASSUME NEW l, NEW U, Ring(l, U)
  PROVE  /\ Chain(l, U, Forward(l))
         /\ U # {} => Forward(l)[Len(Forward(l))] = l.prev[Anchor]
<1>1. CASE U = {}
  <2>1. Forward(l) = <<>> /\ Len(Forward(l)) = Cardinality(U)
    BY <1>1, WalkEnds, ForwardSeesAll DEF Forward
  <2>. QED BY <1>1, <2>1 DEF Chain
<1>2. CASE U # {}
  <2>1. Trail(l, U, "next", Forward(l), Len(Forward(l)))
        /\ Forward(l)[Len(Forward(l))] = behind(l, "next")[Anchor]
    BY <1>2, WalkEnds DEF Forward
  <2>. QED BY <2>1, ForwardSeesAll DEF Trail, Chain, ahead, behind
<1>. QED BY <1>1, <1>2

\* There is no other chain.
LEMMA ChainIsForward ==
  ASSUME NEW l, NEW U, Ring(l, U), NEW f, Chain(l, U, f)
  PROVE  f = Forward(l)
<1> DEFINE F == Forward(l)
           n == Cardinality(U)
           T == {i \in 1..n : f[i] # F[i]}
<1>1. /\ n \in Nat /\ (n # 0 => U # {})
      /\ f \in Seq(U) /\ F \in Seq(U) /\ Len(f) = n /\ Len(F) = n
      /\ U # {} => f[1] = F[1]
      /\ \A i \in 1..(n - 1) : f[i + 1] = l.next[f[i]] /\ F[i + 1] = l.next[F[i]]
  BY FiniteRing, ForwardIsChain DEF Chain
<1>2. T = {}
  <2> SUFFICES ASSUME T # {} PROVE FALSE
    OBVIOUS
  <2>1. PICK m \in T : \A i \in T : m <= i
    <3>1. T \in SUBSET Nat
      OBVIOUS
    <3>. QED BY <3>1, Smallest
  <2>2. m # 1
    BY <1>1, <2>1
  <2>3. m - 1 \in 1..(n - 1) /\ m - 1 \in 1..n /\ (m - 1) + 1 = m /\ m - 1 \notin T
    BY <1>1, <2>1, <2>2
  <2>. QED BY <1>1, <2>1, <2>3
<1>. QED BY <1>1, <1>2, SeqEqual

-----------------------------------------------------------------------------
(* The sequence of the list.                                               *)

\* A function over the first n numbers is a sequence.
LEMMA FunctionIsSeq ==
  ASSUME NEW n \in Nat, NEW X, NEW f \in [1..n -> X] PROVE f \in Seq(X) /\ Len(f) = n
OBVIOUS

\* The members are the elements in the order of the walk, with their objects.
LEMMA MembersFacts ==
  ASSUME NEW l, NEW U, Ring(l, U)
  PROVE  /\ Cardinality(U) \in Nat /\ Len(Members(l)) = Cardinality(U)
         /\ DOMAIN Members(l) = 1..Cardinality(U)
         /\ Members(l) \in Seq([elem : U, obj : Objs \cup {NULL}])
         /\ {Members(l)[i].elem : i \in DOMAIN Members(l)} = U
         /\ Forward(l) \in Seq(U) /\ Len(Forward(l)) = Cardinality(U)
         /\ \A i \in 1..Cardinality(U) :
              /\ Forward(l)[i] \in U
              /\ Members(l)[i] = [elem |-> Forward(l)[i], obj |-> l.obj[Forward(l)[i]]]
         /\ \A i, j \in 1..Cardinality(U) : Forward(l)[i] = Forward(l)[j] => i = j
<1> DEFINE n == Cardinality(U)
<1>1. /\ n \in Nat /\ Forward(l) \in Seq(U) /\ Len(Forward(l)) = n
      /\ DOMAIN Forward(l) = 1..n
      /\ {Forward(l)[i] : i \in 1..n} = U
      /\ \A i, j \in 1..n : Forward(l)[i] = Forward(l)[j] => i = j
  BY FiniteRing, ForwardSeesAll
<1>2. \A i \in 1..n : Forward(l)[i] \in U /\ l.obj[Forward(l)[i]] \in Objs \cup {NULL}
  <2>1. \A c \in U : l.obj[c] \in Objs \cup {NULL}
    BY DEF Ring, Typed, Cells
  <2>. QED BY <1>1, <2>1
<1>3. /\ DOMAIN Members(l) = 1..n
      /\ Members(l) \in [1..n -> [elem : U, obj : Objs \cup {NULL}]]
      /\ \A i \in 1..n : Members(l)[i] = [elem |-> Forward(l)[i], obj |-> l.obj[Forward(l)[i]]]
  BY <1>1, <1>2 DEF Members
<1>4. Members(l) \in Seq([elem : U, obj : Objs \cup {NULL}]) /\ Len(Members(l)) = n
  BY <1>1, <1>3, FunctionIsSeq
<1>5. {Members(l)[i].elem : i \in DOMAIN Members(l)} = U
  BY <1>1, <1>3
<1>. QED BY <1>1, <1>2, <1>3, <1>4, <1>5

\* What InsertAt and RemoveAt of the community modules return.
Inserted(s, n, k, x) ==
  [i \in 1..n |-> IF i < k THEN s[i] ELSE IF i = k THEN x ELSE s[i - 1]]
Removed(s, n, k) == [i \in 1..(n - 1) |-> IF i < k THEN s[i] ELSE s[i + 1]]

\* A sequence holds the part of s that begins at a place.
Holds(a, s, from, len) == Len(a) = len /\ \A i \in 1..len : a[i] = s[from + i - 1]

\* What the abstract list's insertion is, place by place.
LEMMA InsertAtFacts ==
  ASSUME NEW S, NEW s \in Seq(S), NEW x \in S, NEW k \in 1..(Len(s) + 1)
  PROVE  Abstract!InsertAt(s, k, x) = Inserted(s, Len(s) + 1, k, x)
<1>1. PICK n \in Nat : n = Len(s) + 1 /\ k \in 1..n /\ \A i \in 1..(n - 1) : s[i] \in S
  OBVIOUS
<1>2. PICK a \in Seq(S) : a = SubSeq(s, 1, k - 1) /\ Holds(a, s, 1, k - 1)
  <2>1. 1 \in Int /\ k - 1 \in Int /\ \A i \in (1)..(k - 1) : s[i] \in S
    BY <1>1
  <2>2. /\ SubSeq(s, 1, k - 1) \in Seq(S)
        /\ Len(SubSeq(s, 1, k - 1)) = IF 1 <= k - 1 THEN k - 1 - (1) + 1 ELSE 0
        /\ \A i \in 1..(k - 1 - (1) + 1) : SubSeq(s, 1, k - 1)[i] = s[1 + i - 1]
    BY <2>1, SubSeqProperties
  <2>3. PICK a : a = SubSeq(s, 1, k - 1)
    OBVIOUS
  <2>4. a \in Seq(S) /\ Len(a) = k - 1
    BY <1>1, <2>2, <2>3
  <2>5. \A i \in 1..(k - 1) : a[i] = s[1 + i - 1]
    BY <1>1, <2>2, <2>3
  <2>. QED BY <2>3, <2>4, <2>5 DEF Holds
<1>3. PICK b \in Seq(S) : b = SubSeq(s, k, n - 1) /\ Holds(b, s, k, n - k)
  <2>1. k \in Int /\ n - 1 \in Int /\ \A i \in k..(n - 1) : s[i] \in S
    BY <1>1
  <2>2. /\ SubSeq(s, k, n - 1) \in Seq(S)
        /\ Len(SubSeq(s, k, n - 1)) = IF k <= n - 1 THEN n - 1 - k + 1 ELSE 0
        /\ \A i \in 1..(n - 1 - k + 1) : SubSeq(s, k, n - 1)[i] = s[k + i - 1]
    BY <2>1, SubSeqProperties
  <2>3. PICK b : b = SubSeq(s, k, n - 1)
    OBVIOUS
  <2>4. b \in Seq(S) /\ Len(b) = n - k
    BY <1>1, <2>2, <2>3
  <2>5. \A i \in 1..(n - k) : b[i] = s[k + i - 1]
    BY <1>1, <2>2, <2>3
  <2>. QED BY <2>3, <2>4, <2>5 DEF Holds
<1>o. PICK one : one = <<x>>
  OBVIOUS
<1>p. one \in Seq(S) /\ Len(one) = 1 /\ one[1] = x
  BY <1>o
<1>h. /\ Len(a) = k - 1 /\ \A i \in 1..(k - 1) : a[i] = s[i]
      /\ Len(b) = n - k /\ \A i \in 1..(n - k) : b[i] = s[k + i - 1]
  BY <1>1, <1>2, <1>3 DEF Holds
<1>c. PICK c : c = a \o one
  OBVIOUS
<1>c1. /\ c \in Seq(S) /\ Len(c) = k
      /\ \A i \in 1..k : c[i] = IF i <= k - 1 THEN a[i] ELSE one[i - (k - 1)]
  <2>1. a \o one \in Seq(S) /\ Len(a \o one) = Len(a) + Len(one)
        /\ \A i \in 1..(Len(a) + Len(one)) :
             (a \o one)[i] = IF i <= Len(a) THEN a[i] ELSE one[i - Len(a)]
    BY <1>p, ConcatProperties
  <2>2. Len(a) + Len(one) = k
    BY <1>h, <1>p
  <2>. QED BY <1>h, <1>p, <1>c, <2>1, <2>2
<1>t. PICK t : t = c \o b
  OBVIOUS
<1>t1. /\ t \in Seq(S) /\ Len(t) = n
      /\ \A i \in 1..n : t[i] = IF i <= k THEN c[i] ELSE b[i - k]
  <2>1. c \o b \in Seq(S) /\ Len(c \o b) = Len(c) + Len(b)
        /\ \A i \in 1..(Len(c) + Len(b)) :
             (c \o b)[i] = IF i <= Len(c) THEN c[i] ELSE b[i - Len(c)]
    BY <1>c1, ConcatProperties
  <2>2. Len(c) + Len(b) = n
    BY <1>c1, <1>h
  <2>. QED BY <1>c1, <1>t, <2>1, <2>2
<1>t2. ASSUME NEW i \in 1..n
      PROVE  t[i] = IF i < k THEN s[i] ELSE IF i = k THEN x ELSE s[i - 1]
  <2>1. CASE i < k
    <3>1. i \in 1..(k - 1) /\ i <= k - 1 /\ i \in 1..k /\ i <= k
      BY <2>1
    <3>2. t[i] = c[i] /\ c[i] = a[i] /\ a[i] = s[i]
      BY <1>c1, <1>t1, <1>h, <3>1
    <3>. QED BY <2>1, <3>2
  <2>2. CASE i = k
    <3>1. ~(k <= k - 1) /\ k - (k - 1) = 1 /\ k \in 1..k /\ k <= k /\ ~(k < k)
      OBVIOUS
    <3>2. t[k] = c[k] /\ c[k] = one[1]
      BY <1>c1, <1>t1, <2>2, <3>1
    <3>. QED BY <1>p, <2>2, <3>1, <3>2
  <2>3. CASE i > k
    <3>1. /\ i - k \in 1..(n - k) /\ k + (i - k) - 1 = i - 1
          /\ ~(i <= k) /\ ~(i < k) /\ i # k
      BY <2>3
    <3>2. t[i] = b[i - k] /\ b[i - k] = s[i - 1]
      BY <1>t1, <1>h, <3>1
    <3>. QED BY <3>1, <3>2
  <2>. QED BY <2>1, <2>2, <2>3
<1>t3. t = [i \in 1..n |-> t[i]]
  BY <1>t1, LenProperties
<1>4. (a \o <<x>>) \o b = Inserted(s, n, k, x)
  BY <1>o, <1>c, <1>t, <1>t1, <1>t2, <1>t3 DEF Inserted
<1>5. Abstract!InsertAt(s, k, x) = (a \o <<x>>) \o b
  <2>1. Len(s) = n - 1
    BY <1>1
  <2>. QED BY <2>1, <1>2, <1>3 DEF Abstract!InsertAt
<1>. QED BY <1>1, <1>4, <1>5

\* Two parts of a sequence around a place joined are the sequence without it.
LEMMA Without ==
  ASSUME NEW S, NEW n \in Nat, NEW k \in 1..n, NEW s,
         NEW a \in Seq(S), Holds(a, s, 1, k - 1),
         NEW b \in Seq(S), Holds(b, s, k + 1, n - k)
  PROVE  a \o b = Removed(s, n, k)
<1>h. /\ Len(a) = k - 1 /\ \A i \in 1..(k - 1) : a[i] = s[i]
      /\ Len(b) = n - k /\ \A i \in 1..(n - k) : b[i] = s[(k + 1) + i - 1]
  BY DEF Holds
<1>0. PICK t : t = a \o b
  OBVIOUS
<1>1. /\ t \in Seq(S) /\ Len(t) = n - 1
      /\ \A i \in 1..(n - 1) : t[i] = IF i <= k - 1 THEN a[i] ELSE b[i - (k - 1)]
  <2>1. a \o b \in Seq(S) /\ Len(a \o b) = Len(a) + Len(b)
        /\ \A i \in 1..(Len(a) + Len(b)) :
             (a \o b)[i] = IF i <= Len(a) THEN a[i] ELSE b[i - Len(a)]
    BY ConcatProperties
  <2>2. Len(a) + Len(b) = n - 1
    BY <1>h
  <2>. QED BY <1>h, <1>0, <2>1, <2>2
<1>2. ASSUME NEW i \in 1..(n - 1)
      PROVE  t[i] = IF i < k THEN s[i] ELSE s[i + 1]
  <2>1. CASE i < k
    <3>1. i \in 1..(k - 1) /\ i <= k - 1
      BY <2>1
    <3>. QED BY <1>1, <1>h, <2>1, <3>1
  <2>2. CASE i >= k
    <3>1. /\ i - (k - 1) \in 1..(n - k) /\ (k + 1) + (i - (k - 1)) - 1 = i + 1
          /\ ~(i <= k - 1) /\ ~(i < k)
      BY <2>2
    <3>2. t[i] = b[i - (k - 1)] /\ b[i - (k - 1)] = s[i + 1]
      BY <1>1, <1>h, <3>1
    <3>. QED BY <3>1, <3>2
  <2>. QED BY <2>1, <2>2
<1>3. t = [i \in 1..(n - 1) |-> t[i]]
  BY <1>1, LenProperties
<1>. QED BY <1>0, <1>2, <1>3 DEF Removed

\* What the abstract list's removal is, place by place.
LEMMA RemoveAtFacts ==
  ASSUME NEW S, NEW s \in Seq(S), NEW k \in 1..Len(s)
  PROVE  Abstract!RemoveAt(s, k) = Removed(s, Len(s), k)
<1>1. PICK n \in Nat : n = Len(s) /\ k \in 1..n /\ \A i \in 1..n : s[i] \in S
  OBVIOUS
<1>2. PICK a \in Seq(S) : a = SubSeq(s, 1, k - 1) /\ Holds(a, s, 1, k - 1)
  <2>1. 1 \in Int /\ k - 1 \in Int /\ \A i \in (1)..(k - 1) : s[i] \in S
    BY <1>1
  <2>2. /\ SubSeq(s, 1, k - 1) \in Seq(S)
        /\ Len(SubSeq(s, 1, k - 1)) = IF 1 <= k - 1 THEN k - 1 - (1) + 1 ELSE 0
        /\ \A i \in 1..(k - 1 - (1) + 1) : SubSeq(s, 1, k - 1)[i] = s[1 + i - 1]
    BY <2>1, SubSeqProperties
  <2>3. PICK a : a = SubSeq(s, 1, k - 1)
    OBVIOUS
  <2>4. a \in Seq(S) /\ Len(a) = k - 1
    BY <1>1, <2>2, <2>3
  <2>5. \A i \in 1..(k - 1) : a[i] = s[1 + i - 1]
    BY <1>1, <2>2, <2>3
  <2>. QED BY <2>3, <2>4, <2>5 DEF Holds
<1>3. PICK b \in Seq(S) : b = SubSeq(s, k + 1, n) /\ Holds(b, s, k + 1, n - k)
  <2>1. k + 1 \in Int /\ n \in Int /\ \A i \in (k + 1)..(n) : s[i] \in S
    BY <1>1
  <2>2. /\ SubSeq(s, k + 1, n) \in Seq(S)
        /\ Len(SubSeq(s, k + 1, n)) = IF k + 1 <= n THEN n - (k + 1) + 1 ELSE 0
        /\ \A i \in 1..(n - (k + 1) + 1) : SubSeq(s, k + 1, n)[i] = s[k + 1 + i - 1]
    BY <2>1, SubSeqProperties
  <2>3. PICK b : b = SubSeq(s, k + 1, n)
    OBVIOUS
  <2>4. b \in Seq(S) /\ Len(b) = n - k
    BY <1>1, <2>2, <2>3
  <2>5. \A i \in 1..(n - k) : b[i] = s[(k + 1) + i - 1]
    BY <1>1, <2>2, <2>3
  <2>. QED BY <2>3, <2>4, <2>5 DEF Holds
<1>4. a \o b = Removed(s, n, k)
  <2>1. /\ n \in Nat /\ k \in 1..n /\ a \in Seq(S) /\ Holds(a, s, 1, k - 1)
        /\ b \in Seq(S) /\ Holds(b, s, k + 1, n - k)
    BY <1>1, <1>2, <1>3
  <2>. QED BY ONLY <2>1, Without, Zenon
<1>5. Abstract!RemoveAt(s, k) = a \o b
  BY <1>1, <1>2, <1>3 DEF Abstract!RemoveAt
<1>. QED BY <1>1, <1>4, <1>5

-----------------------------------------------------------------------------
(* A link and an unlink, as the sequence sees them.                        *)

\* The sequence of the ring, by its positions.
LEMMA Positions ==
  ASSUME NEW l, NEW U, Ring(l, U), NEW n, n = Cardinality(U), NEW F, F = Forward(l)
  PROVE  /\ n \in Nat /\ F \in Seq(U) /\ Len(F) = n /\ (n = 0 <=> U = {})
         /\ \A i \in 1..n : F[i] \in U
         /\ \A i, j \in 1..n : F[i] = F[j] => i = j
         /\ n >= 1 => F[1] = l.next[Anchor]
         /\ \A i \in 1..(n - 1) : F[i + 1] = l.next[F[i]]
         /\ {F[i] : i \in 1..n} = U
         /\ Anchor \notin U
<1>1. /\ n \in Nat /\ (n = 0 <=> U = {}) /\ Anchor \notin U
  BY FiniteRing, ElementAssumption DEF Ring
<1>2. F \in Seq(U) /\ Len(F) = n /\ {F[i] : i \in DOMAIN F} = U
      /\ \A i, j \in 1..n : F[i] = F[j] => i = j
  BY ForwardSeesAll
<1>3. DOMAIN F = 1..n /\ \A i \in 1..n : F[i] \in U
  BY <1>1, <1>2
<1>4. (U # {} => F[1] = l.next[Anchor]) /\ \A i \in 1..(n - 1) : F[i + 1] = l.next[F[i]]
  BY <1>2, ForwardIsChain DEF Chain
<1>. QED BY <1>1, <1>2, <1>3, <1>4

\* Linking an element between two neighbours inserts it at their place.
LEMMA LinkIsInsertion ==
  ASSUME NEW l, NEW U, Ring(l, U), NEW e \in Elems \ U, NEW data \in Objs,
         NEW n, n = Cardinality(U), NEW k \in 1..(n + 1),
         NEW p, p = IF k = 1 THEN Anchor ELSE Forward(l)[k - 1],
         NEW m, m = Link(l, e, data, p, l.next[p]),
         NEW x, x = [elem |-> e, obj |-> data]
  PROVE  Members(m) = Inserted(Members(l), n + 1, k, x)
<1>1. PICK F : F = Forward(l)
  OBVIOUS
<1>2. /\ n \in Nat /\ F \in Seq(U) /\ Len(F) = n /\ (n = 0 <=> U = {})
      /\ \A i \in 1..n : F[i] \in U
      /\ \A i, j \in 1..n : F[i] = F[j] => i = j
      /\ n >= 1 => F[1] = l.next[Anchor]
      /\ \A i \in 1..(n - 1) : F[i + 1] = l.next[F[i]]
      /\ Anchor \notin U
  BY <1>1, Positions
<1>3. p = (IF k = 1 THEN Anchor ELSE F[k - 1]) /\ p \in U \cup {Anchor}
  BY <1>1, <1>2
<1>4. PICK V : V = U \cup {e}
  OBVIOUS
<1>5. Ring(m, V) /\ Cardinality(V) = n + 1
  <2>1. Ring(Link(l, e, data, p, l.next[p]), V)
    BY <1>3, <1>4, LinkKeepsRing
  <2>2. IsFiniteSet(U) /\ e \notin U
    BY FiniteRing
  <2>. QED BY <1>4, <2>1, <2>2, FS_AddElement
<1>6. /\ e # Anchor /\ e \notin U
      /\ m.next[p] = e /\ m.next[e] = l.next[p]
      /\ \A c \in U \cup {Anchor} : c # p => m.next[c] = l.next[c]
      /\ m.obj[e] = data /\ \A c \in U : m.obj[c] = l.obj[c]
  <2>1. e \in Elems /\ e \notin U /\ e # Anchor /\ U \subseteq Elems
        /\ l.next \in [Cells -> Cells \cup {NULL}] /\ l.obj \in [Cells -> Objs \cup {NULL}]
    BY ElementAssumption DEF Ring, Typed
  <2>2. e \in Cells /\ U \cup {Anchor} \subseteq Cells /\ p \in Cells /\ p # e
    BY <2>1, <1>3 DEF Cells
  <2>3. m.next = [l.next EXCEPT ![p] = e, ![e] = l.next[p]] /\ m.obj = [l.obj EXCEPT ![e] = data]
    BY DEF Link
  <2>. QED BY <2>1, <2>2, <2>3
<1>7. PICK G : G = Inserted(F, n + 1, k, e)
  OBVIOUS
<1>8. /\ G \in Seq(V) /\ Len(G) = n + 1
      /\ \A i \in 1..(n + 1) : G[i] = IF i < k THEN F[i] ELSE IF i = k THEN e ELSE F[i - 1]
  <2>1. \A i \in 1..(n + 1) : (IF i < k THEN F[i] ELSE IF i = k THEN e ELSE F[i - 1]) \in V
    BY <1>2, <1>4
  <2>2. G \in [1..(n + 1) -> V] /\ n + 1 \in Nat
    BY <1>2, <1>7, <2>1 DEF Inserted
  <2>. QED BY <1>7, <2>2, FunctionIsSeq DEF Inserted
<1>9. Chain(m, V, G)
  <2>1. G[1] = m.next[Anchor]
    <3>1. CASE k = 1
      BY <1>2, <1>3, <1>6, <1>8, <3>1
    <3>2. CASE k # 1
      <4>1. n >= 1 /\ 1 < k /\ 1 \in 1..(n + 1) /\ k - 1 \in 1..n
        BY <1>2, <3>2
      <4>2. p \in U /\ G[1] = F[1]
        BY <1>2, <1>3, <1>8, <3>2, <4>1
      <4>. QED BY <1>2, <1>6, <4>1, <4>2
    <3>. QED BY <3>1, <3>2
  <2>2. ASSUME NEW i \in 1..n PROVE G[i + 1] = m.next[G[i]]
    <3>0. i \in Nat /\ i + 1 \in 1..(n + 1) /\ i \in 1..(n + 1) /\ k \in Nat
      BY <1>2
    <3>1. CASE i + 1 < k
      <4>1. i < k /\ k # 1 /\ k - 1 \in 1..n /\ i # k - 1 /\ i \in 1..(n - 1)
        BY <1>2, <3>0, <3>1
      <4>2. G[i + 1] = F[i + 1] /\ G[i] = F[i] /\ F[i + 1] = l.next[F[i]]
        BY <1>2, <1>8, <3>0, <3>1, <4>1
      <4>3. F[i] \in U /\ F[i] # p
        BY <1>2, <1>3, <4>1
      <4>. QED BY <1>6, <4>2, <4>3
    <3>2. CASE i + 1 = k
      <4>1. i < k /\ k # 1 /\ k - 1 = i /\ ~(i + 1 < k)
        BY <3>0, <3>2
      <4>2. G[i + 1] = e /\ G[i] = F[i] /\ p = F[i]
        BY <1>3, <1>8, <3>0, <3>2, <4>1
      <4>. QED BY <1>6, <4>2
    <3>3. CASE i = k
      <4>1. ~(i < k) /\ ~(i + 1 < k) /\ i + 1 # k /\ (i + 1) - 1 = i
        BY <3>0, <3>3
      <4>2. G[i] = e /\ G[i + 1] = F[i]
        BY <1>8, <3>0, <3>3, <4>1
      <4>3. F[i] = l.next[p]
        <5>1. CASE k = 1
          BY <1>2, <1>3, <3>3, <5>1
        <5>2. CASE k # 1
          <6>1. k - 1 \in 1..(n - 1) /\ (k - 1) + 1 = i
            BY <1>2, <3>0, <3>3, <5>2
          <6>. QED BY <1>2, <1>3, <5>2, <6>1
        <5>. QED BY <5>1, <5>2
      <4>. QED BY <1>6, <4>2, <4>3
    <3>4. CASE i > k
      <4>1. /\ ~(i < k) /\ ~(i + 1 < k) /\ i + 1 # k /\ i # k /\ (i + 1) - 1 = i
            /\ i - 1 \in 1..(n - 1) /\ (i - 1) + 1 = i /\ i - 1 \in 1..n /\ i - 1 # k - 1
        BY <1>2, <3>0, <3>4
      <4>2. G[i] = F[i - 1] /\ G[i + 1] = F[i] /\ F[i] = l.next[F[i - 1]]
        BY <1>2, <1>8, <3>0, <4>1
      <4>3. F[i - 1] \in U /\ F[i - 1] # p
        <5>1. CASE k = 1
          BY <1>2, <1>3, <4>1, <5>1
        <5>2. CASE k # 1
          <6>1. k - 1 \in 1..n
            BY <1>2, <5>2
          <6>. QED BY <1>2, <1>3, <4>1, <5>2, <6>1
        <5>. QED BY <5>1, <5>2
      <4>. QED BY <1>6, <4>2, <4>3
    <3>. QED BY <3>0, <3>1, <3>2, <3>3, <3>4
  <2>3. (n + 1) - 1 = n
    BY <1>2
  <2>. QED BY <1>5, <1>8, <2>1, <2>2, <2>3 DEF Chain
<1>10. G = Forward(m)
  BY <1>5, <1>9, ChainIsForward
<1>11. /\ DOMAIN Members(m) = 1..(n + 1)
       /\ \A i \in 1..(n + 1) : Members(m)[i] = [elem |-> G[i], obj |-> m.obj[G[i]]]
       /\ \A i \in 1..n : Members(l)[i] = [elem |-> F[i], obj |-> l.obj[F[i]]]
  <2>1. /\ DOMAIN Members(m) = 1..Cardinality(V)
        /\ \A i \in 1..Cardinality(V) :
             Members(m)[i] = [elem |-> Forward(m)[i], obj |-> m.obj[Forward(m)[i]]]
    BY ONLY <1>5, MembersFacts
  <2>2. \A i \in 1..Cardinality(U) :
          Members(l)[i] = [elem |-> Forward(l)[i], obj |-> l.obj[Forward(l)[i]]]
    BY MembersFacts
  <2>. QED BY <1>1, <1>5, <1>10, <2>1, <2>2
<1>12. ASSUME NEW i \in 1..(n + 1)
       PROVE  Members(m)[i] =
                IF i < k THEN Members(l)[i] ELSE IF i = k THEN x ELSE Members(l)[i - 1]
  <2>0. i \in Nat /\ k \in Nat /\ Members(m)[i] = [elem |-> G[i], obj |-> m.obj[G[i]]]
    BY <1>2, <1>11
  <2>1. CASE i < k
    <3>1. i \in 1..n /\ G[i] = F[i] /\ F[i] \in U
      BY <1>2, <1>8, <2>0, <2>1
    <3>2. Members(l)[i] = [elem |-> F[i], obj |-> l.obj[F[i]]] /\ m.obj[F[i]] = l.obj[F[i]]
      BY <1>6, <1>11, <3>1
    <3>. QED BY <2>0, <2>1, <3>1, <3>2
  <2>2. CASE i = k
    <3>1. ~(i < k) /\ G[i] = e
      BY <1>8, <2>0, <2>2
    <3>. QED BY <1>6, <2>0, <2>2, <3>1
  <2>3. CASE i > k
    <3>1. ~(i < k) /\ i # k /\ i - 1 \in 1..n
      BY <1>2, <2>0, <2>3
    <3>2. G[i] = F[i - 1] /\ F[i - 1] \in U
      BY <1>2, <1>8, <3>1
    <3>3. Members(l)[i - 1] = [elem |-> F[i - 1], obj |-> l.obj[F[i - 1]]]
          /\ m.obj[F[i - 1]] = l.obj[F[i - 1]]
      BY <1>6, <1>11, <3>1, <3>2
    <3>. QED BY <2>0, <3>1, <3>2, <3>3
  <2>. QED BY <2>0, <2>1, <2>2, <2>3
<1>13. Members(m) = [i \in 1..(n + 1) |-> Members(m)[i]]
  BY <1>11 DEF Members
<1>. QED BY <1>12, <1>13 DEF Inserted

\* Unlinking an element removes it from its place.
LEMMA UnlinkIsRemoval ==
  ASSUME NEW l, NEW U, Ring(l, U), NEW n, n = Cardinality(U), NEW k \in 1..n,
         NEW e \in U, Forward(l)[k] = e, NEW m, m = Unlinked(l, e)
  PROVE  Members(m) = Removed(Members(l), n, k)
<1>1. PICK F : F = Forward(l)
  OBVIOUS
<1>2. /\ n \in Nat /\ F \in Seq(U) /\ Len(F) = n /\ (n = 0 <=> U = {})
      /\ \A i \in 1..n : F[i] \in U
      /\ \A i, j \in 1..n : F[i] = F[j] => i = j
      /\ n >= 1 => F[1] = l.next[Anchor]
      /\ \A i \in 1..(n - 1) : F[i + 1] = l.next[F[i]]
      /\ Anchor \notin U /\ F[k] = e
  BY <1>1, Positions
<1>3. PICK p : p = l.prev[e]
  OBVIOUS
<1>4. p = (IF k = 1 THEN Anchor ELSE F[k - 1]) /\ p \in U \cup {Anchor} /\ p # e
  <2>1. \A c \in U \cup {Anchor} : l.prev[l.next[c]] = c
    BY DEF Ring, Closed
  <2>2. CASE k = 1
    BY <1>2, <1>3, <2>1, <2>2
  <2>3. CASE k # 1
    <3>1. k - 1 \in 1..(n - 1) /\ (k - 1) + 1 = k /\ k - 1 \in 1..n /\ k - 1 # k
      BY <1>2, <2>3
    <3>2. e = l.next[F[k - 1]] /\ F[k - 1] \in U /\ F[k - 1] # e
      BY <1>2, <3>1
    <3>. QED BY <1>3, <2>1, <2>3, <3>2
  <2>. QED BY <2>2, <2>3
<1>5. PICK V : V = U \ {e}
  OBVIOUS
<1>6. Ring(m, V) /\ Cardinality(V) = n - 1
  <2>1. Ring(Unlinked(l, e), V)
    BY <1>5, UnlinkKeepsRing
  <2>2. IsFiniteSet(U)
    BY FiniteRing
  <2>. QED BY <1>5, <2>1, <2>2, FS_RemoveElement
<1>7. /\ m.next[p] = l.next[e]
      /\ \A c \in U \cup {Anchor} : c # p /\ c # e => m.next[c] = l.next[c]
      /\ \A c \in V : m.obj[c] = l.obj[c]
  <2>1. /\ U \subseteq Elems /\ l.next \in [Cells -> Cells \cup {NULL}]
        /\ l.obj \in [Cells -> Objs \cup {NULL}]
    BY DEF Ring, Typed
  <2>2. e \in Cells /\ U \cup {Anchor} \subseteq Cells /\ p \in Cells
    BY <2>1, <1>4 DEF Cells
  <2>3. ~Empty(l)
    BY EndsOfRing
  <2>4. m.next = [l.next EXCEPT ![p] = l.next[e], ![e] = NULL] /\ m.obj = [l.obj EXCEPT ![e] = NULL]
    BY <1>3, <2>3 DEF Unlinked
  <2>. QED BY <1>4, <1>5, <2>1, <2>2, <2>4
<1>8. PICK G : G = Removed(F, n, k)
  OBVIOUS
<1>9. /\ G \in Seq(V) /\ Len(G) = n - 1
      /\ \A i \in 1..(n - 1) : G[i] = IF i < k THEN F[i] ELSE F[i + 1]
  <2>1. \A i \in 1..(n - 1) : (IF i < k THEN F[i] ELSE F[i + 1]) \in V
    BY <1>2, <1>5
  <2>2. G \in [1..(n - 1) -> V] /\ n - 1 \in Nat
    BY <1>2, <1>8, <2>1 DEF Removed
  <2>. QED BY <1>8, <2>2, FunctionIsSeq DEF Removed
<1>10. Chain(m, V, G)
  <2>1. ASSUME V # {} PROVE G[1] = m.next[Anchor]
    <3>1. n - 1 >= 1 /\ 1 \in 1..(n - 1)
      <4>1. IsFiniteSet(V) /\ Cardinality(V) \in Nat /\ (Cardinality(V) = 0 <=> V = {})
        BY <1>6, FiniteRing
      <4>. QED BY <1>2, <1>6, <2>1, <4>1
    <3>2. CASE k = 1
      <4>1. G[1] = F[1 + 1] /\ F[1 + 1] = l.next[F[1]]
        BY <1>2, <1>9, <3>1, <3>2
      <4>. QED BY <1>2, <1>4, <1>7, <3>2, <4>1
    <3>3. CASE k # 1
      <4>1. 1 < k /\ k - 1 \in 1..n
        BY <1>2, <3>3
      <4>2. p \in U /\ G[1] = F[1]
        BY <1>2, <1>4, <1>9, <3>1, <3>3, <4>1
      <4>3. Anchor # p /\ Anchor # e /\ F[1] = l.next[Anchor]
        BY <1>2, <3>1, <4>2
      <4>. QED BY <1>7, <4>2, <4>3
    <3>. QED BY <3>2, <3>3
  <2>2. ASSUME NEW i \in 1..((n - 1) - 1) PROVE G[i + 1] = m.next[G[i]]
    <3>0. i \in Nat /\ i + 1 \in 1..(n - 1) /\ i \in 1..(n - 1) /\ i \in 1..n /\ k \in Nat
      BY <1>2
    <3>1. CASE i + 1 < k
      <4>1. i < k /\ k # 1 /\ k - 1 \in 1..n /\ i # k - 1 /\ i # k
        BY <1>2, <3>0, <3>1
      <4>2. G[i + 1] = F[i + 1] /\ G[i] = F[i] /\ F[i + 1] = l.next[F[i]]
        BY <1>2, <1>9, <3>0, <3>1, <4>1
      <4>3. F[i] \in U /\ F[i] # p /\ F[i] # e
        BY <1>2, <1>4, <3>0, <4>1
      <4>. QED BY <1>7, <4>2, <4>3
    <3>2. CASE i + 1 = k
      <4>1. i < k /\ k # 1 /\ k - 1 = i /\ ~(i + 1 < k) /\ k \in 1..(n - 1)
        BY <3>0, <3>2
      <4>2. G[i + 1] = F[k + 1] /\ G[i] = F[i] /\ p = F[i] /\ F[k + 1] = l.next[F[k]]
        BY <1>2, <1>4, <1>9, <3>0, <3>2, <4>1
      <4>. QED BY <1>2, <1>7, <4>2
    <3>3. CASE i >= k
      <4>1. /\ ~(i < k) /\ ~(i + 1 < k) /\ i + 1 \in 1..n /\ i + 1 # k
        BY <1>2, <3>0, <3>3
      <4>2. G[i] = F[i + 1] /\ G[i + 1] = F[(i + 1) + 1] /\ F[(i + 1) + 1] = l.next[F[i + 1]]
        BY <1>2, <1>9, <3>0, <4>1
      <4>3. F[i + 1] \in U /\ F[i + 1] # e
        BY <1>2, <4>1
      <4>4. F[i + 1] # p
        <5>1. CASE k = 1
          BY <1>2, <1>4, <4>3, <5>1
        <5>2. CASE k # 1
          <6>1. k - 1 \in 1..n /\ i + 1 # k - 1
            BY <1>2, <3>0, <3>3, <5>2
          <6>. QED BY <1>2, <1>4, <4>1, <5>2, <6>1
        <5>. QED BY <5>1, <5>2
      <4>. QED BY <1>7, <4>2, <4>3, <4>4
    <3>. QED BY <3>0, <3>1, <3>2, <3>3
  <2>. QED BY <1>6, <1>9, <2>1, <2>2 DEF Chain
<1>11. G = Forward(m)
  BY <1>6, <1>10, ChainIsForward
<1>12. /\ DOMAIN Members(m) = 1..(n - 1)
       /\ \A i \in 1..(n - 1) : Members(m)[i] = [elem |-> G[i], obj |-> m.obj[G[i]]]
       /\ \A i \in 1..n : Members(l)[i] = [elem |-> F[i], obj |-> l.obj[F[i]]]
  <2>1. /\ DOMAIN Members(m) = 1..Cardinality(V)
        /\ \A i \in 1..Cardinality(V) :
             Members(m)[i] = [elem |-> Forward(m)[i], obj |-> m.obj[Forward(m)[i]]]
    BY <1>6, MembersFacts
  <2>2. \A i \in 1..Cardinality(U) :
          Members(l)[i] = [elem |-> Forward(l)[i], obj |-> l.obj[Forward(l)[i]]]
    BY MembersFacts
  <2>. QED BY <1>1, <1>6, <1>11, <2>1, <2>2
<1>13. ASSUME NEW i \in 1..(n - 1)
       PROVE  Members(m)[i] = IF i < k THEN Members(l)[i] ELSE Members(l)[i + 1]
  <2>0. i \in Nat /\ k \in Nat /\ i \in 1..n /\ i + 1 \in 1..n
        /\ Members(m)[i] = [elem |-> G[i], obj |-> m.obj[G[i]]]
    BY <1>2, <1>12
  <2>1. CASE i < k
    <3>1. G[i] = F[i] /\ F[i] \in V
      BY <1>2, <1>5, <1>9, <2>0, <2>1
    <3>2. Members(l)[i] = [elem |-> F[i], obj |-> l.obj[F[i]]] /\ m.obj[F[i]] = l.obj[F[i]]
      BY <1>7, <1>12, <2>0, <3>1
    <3>. QED BY <2>0, <2>1, <3>1, <3>2
  <2>2. CASE i >= k
    <3>1. ~(i < k) /\ i + 1 # k
      BY <2>0, <2>2
    <3>2. G[i] = F[i + 1] /\ F[i + 1] \in V
      BY <1>2, <1>5, <1>9, <2>0, <3>1
    <3>3. Members(l)[i + 1] = [elem |-> F[i + 1], obj |-> l.obj[F[i + 1]]]
          /\ m.obj[F[i + 1]] = l.obj[F[i + 1]]
      BY <1>7, <1>12, <2>0, <3>2
    <3>. QED BY <2>0, <3>1, <3>2, <3>3
  <2>. QED BY <2>0, <2>1, <2>2
<1>14. Members(m) = [i \in 1..(n - 1) |-> Members(m)[i]]
  BY <1>12 DEF Members
<1>. QED BY <1>13, <1>14 DEF Removed

-----------------------------------------------------------------------------
(* The calls.                                                              *)

\* The position of an element, and the elements of the sequence.
LEMMA PositionOf ==
  ASSUME ListInv, NEW e \in used
  PROVE  /\ Abstract!At(e) \in 1..Cardinality(used)
         /\ Forward(list)[Abstract!At(e)] = e
<1>1. /\ DOMAIN Members(list) = 1..Cardinality(used)
      /\ \A i \in 1..Cardinality(used) :
           Members(list)[i] = [elem |-> Forward(list)[i], obj |-> list.obj[Forward(list)[i]]]
  BY MembersFacts DEF ListInv
<1>2. {Forward(list)[i] : i \in 1..Cardinality(used)} = used
  BY Positions DEF ListInv
<1>3. PICK i \in DOMAIN Members(list) : Members(list)[i].elem = e
  BY <1>1, <1>2
<1>4. Abstract!At(e) \in DOMAIN Members(list) /\ Members(list)[Abstract!At(e)].elem = e
  BY <1>3 DEF Abstract!At
<1>. QED BY <1>1, <1>4

\* The abstract list holds the used elements, each once.
LEMMA ElementsAreUsed ==
  ASSUME ListInv
  PROVE  Abstract!Elements = used /\ Len(Members(list)) = Cardinality(used)
         /\ Cardinality(used) \in Nat
         /\ Members(list) \in Seq([elem : used, obj : Objs \cup {NULL}])
BY MembersFacts DEF ListInv, Abstract!Elements

\* A sequence over a set is one over any larger set.
LEMMA SeqOfSubset ==
  ASSUME NEW T, NEW S, T \subseteq S, NEW s \in Seq(T) PROVE s \in Seq(S)
OBVIOUS

\* An insertion of the ring at the place that the promise names.
LEMMA InsertionsImplement ==
  ASSUME ListInv, NEW e \in Elems \ used, NEW data \in Objs, NEW op, NEW at \in used \cup {NULL},
         NEW k, k = Abstract!Place(op, at), k \in 1..(Cardinality(used) + 1),
         NEW p, p = IF k = 1 THEN Anchor ELSE Forward(list)[k - 1],
         Insert(op, at, data, e, Link(list, e, data, p, list.next[p]))
  PROVE  Abstract!Insert(op, e, at, data)
<1>1. PICK U : U = used
  OBVIOUS
<1>2. PICK n : n = Cardinality(U)
  OBVIOUS
<1>3. n \in Nat /\ Members(list) \in Seq([elem : U, obj : Objs \cup {NULL}])
      /\ Len(Members(list)) = n /\ Abstract!Elements = U
  BY <1>1, <1>2, ElementsAreUsed
<1>4. PICK x : x = [elem |-> e, obj |-> data]
  OBVIOUS
<1>5. PICK S : S = [elem : Elems, obj : Objs \cup {NULL}]
  OBVIOUS
<1>6. Members(list) \in Seq(S) /\ x \in S
  <2>1. U \subseteq Elems
    BY <1>1 DEF ListInv, Ring
  <2>2. [elem : U, obj : Objs \cup {NULL}] \subseteq S /\ x \in S
    BY <1>4, <1>5, <2>1
  <2>. QED BY <1>3, <2>2, SeqOfSubset
<1>7. Abstract!InsertAt(Members(list), k, x) = Inserted(Members(list), n + 1, k, x)
  BY <1>1, <1>2, <1>3, <1>6, InsertAtFacts
<1>8. Members(list') = Inserted(Members(list), n + 1, k, x)
  <2>1. list' = Link(list, e, data, p, list.next[p]) /\ Ring(list, U) /\ e \in Elems \ U
    BY <1>1 DEF Insert, ListInv
  <2>. QED BY <1>1, <1>2, <1>4, <2>1, LinkIsInsertion
<1>9. call' = Call(op, e, at, data, 1) /\ e \notin Abstract!Elements
      /\ at \in Abstract!Elements \cup {NULL}
  BY <1>1, <1>3 DEF Insert
<1>. QED BY <1>4, <1>7, <1>8, <1>9 DEF Abstract!Insert, Abstract!Call, Call, Abstract!Entry

\* The ends, and the neighbours of an element, by their positions.
LEMMA LastPosition ==
  ASSUME ListInv, NEW n, n = Cardinality(used)
  PROVE  /\ n \in Nat
         /\ (IF Last(list) = NULL THEN Anchor ELSE Last(list)) =
              IF n + 1 = 1 THEN Anchor ELSE Forward(list)[(n + 1) - 1]
         /\ list.next[IF Last(list) = NULL THEN Anchor ELSE Last(list)] = Anchor
<1>1. Ring(list, used)
  BY DEF ListInv
<1>2. n \in Nat /\ (n = 0 <=> used = {})
  BY <1>1, FiniteRing
<1>3. \A c \in used \cup {Anchor} : list.next[list.prev[c]] = c
  BY <1>1 DEF Ring, Closed
<1>4. CASE used = {}
  <2>1. Last(list) = NULL /\ list.next[Anchor] = Anchor
    BY <1>1, <1>4, EndsOfRing
  <2>. QED BY <1>2, <1>4, <2>1
<1>5. CASE used # {}
  <2>1. Last(list) = list.prev[Anchor] /\ list.prev[Anchor] \in used
    BY <1>1, <1>5, EndsOfRing
  <2>2. NULL \notin used
    BY <1>1, ElementAssumption DEF Ring
  <2>3. Len(Forward(list)) = n /\ Forward(list)[Len(Forward(list))] = list.prev[Anchor]
    BY <1>1, <1>5, ForwardIsChain DEF Chain
  <2>4. n # 0 /\ (n + 1) - 1 = n /\ n + 1 # 1
    BY <1>2, <1>5
  <2>. QED BY <1>2, <1>3, <2>1, <2>2, <2>3, <2>4
<1>. QED BY <1>4, <1>5

\* Before the element at a place stands the one at the place before, or the anchor.
LEMMA BeforePosition ==
  ASSUME ListInv, NEW at \in used, NEW k \in 1..Cardinality(used), Forward(list)[k] = at
  PROVE  /\ list.prev[at] = IF k = 1 THEN Anchor ELSE Forward(list)[k - 1]
         /\ list.next[list.prev[at]] = at
<1>1. Ring(list, used)
  BY DEF ListInv
<1>2. \A c \in used \cup {Anchor} :
        list.prev[list.next[c]] = c /\ list.next[list.prev[c]] = c
  BY <1>1 DEF Ring, Closed
<1>3. PICK n : n = Cardinality(used)
  OBVIOUS
<1>4. PICK F : F = Forward(list)
  OBVIOUS
<1>5. /\ n \in Nat /\ \A i \in 1..n : F[i] \in used
      /\ n >= 1 => F[1] = list.next[Anchor]
      /\ \A i \in 1..(n - 1) : F[i + 1] = list.next[F[i]]
  BY <1>1, <1>3, <1>4, Positions
<1>6. CASE k = 1
  BY <1>2, <1>3, <1>4, <1>5, <1>6
<1>7. CASE k # 1
  <2>1. k - 1 \in 1..(n - 1) /\ (k - 1) + 1 = k /\ k - 1 \in 1..n
    BY <1>3, <1>5, <1>7
  <2>2. at = list.next[F[k - 1]] /\ F[k - 1] \in used
    BY <1>4, <1>5, <2>1
  <2>. QED BY <1>2, <1>4, <1>7, <2>2
<1>. QED BY <1>6, <1>7

\* A cell appended or prepended, and one put next to an element.
LEMMA AppendImplements ==
  ASSUME ListInv, NEW e \in Elems \ used, NEW data \in Objs, NEW op \in {"Append", "InsertAfter"},
         Insert(op, NULL, data, e, Appended(list, e, data))
  PROVE  Abstract!Insert(op, e, NULL, data)
<1>1. PICK n : n = Cardinality(used)
  OBVIOUS
<1>2. PICK p : p = IF Last(list) = NULL THEN Anchor ELSE Last(list)
  OBVIOUS
<1>3. /\ n \in Nat /\ p = (IF n + 1 = 1 THEN Anchor ELSE Forward(list)[(n + 1) - 1])
      /\ list.next[p] = Anchor
  BY <1>1, <1>2, LastPosition
<1>4. Appended(list, e, data) = Link(list, e, data, p, list.next[p])
  BY <1>2, <1>3 DEF Appended
<1>5. Len(Members(list)) = n
  BY <1>1, ElementsAreUsed
<1>6. Abstract!Place(op, NULL) = n + 1
  BY <1>5 DEF Abstract!Place
<1>7. n + 1 \in 1..(n + 1) /\ NULL \in used \cup {NULL}
  BY <1>3
<1>. QED BY <1>1, <1>3, <1>4, <1>6, <1>7, InsertionsImplement

\* My402ListPrepend inserts before the first element.
LEMMA PrependImplements ==
  ASSUME ListInv, NEW e \in Elems \ used, NEW data \in Objs, NEW op \in {"Prepend", "InsertBefore"},
         Insert(op, NULL, data, e, Prepended(list, e, data))
  PROVE  Abstract!Insert(op, e, NULL, data)
<1>1. PICK p : p = Anchor
  OBVIOUS
<1>2. (IF First(list) = NULL THEN Anchor ELSE First(list)) = list.next[Anchor]
  BY EndsOfRing, ElementAssumption DEF ListInv, Ring
<1>3. Prepended(list, e, data) = Link(list, e, data, p, list.next[p])
  BY <1>1, <1>2 DEF Prepended
<1>4. Abstract!Place(op, NULL) = 1
  BY DEF Abstract!Place
<1>5. PICK k : k = 1
  OBVIOUS
<1>6. /\ k = Abstract!Place(op, NULL) /\ k \in 1..(Cardinality(used) + 1)
      /\ p = (IF k = 1 THEN Anchor ELSE Forward(list)[k - 1]) /\ NULL \in used \cup {NULL}
  <2>1. Cardinality(used) \in Nat
    BY ElementsAreUsed
  <2>. QED BY <1>1, <1>4, <1>5, <2>1
<1>. QED BY <1>3, <1>6, InsertionsImplement

\* My402ListInsertAfter and My402ListInsertBefore insert next to their element.
LEMMA NextToImplements ==
  ASSUME ListInv, NEW e \in Elems \ used, NEW data \in Objs, NEW at \in used
  PROVE  /\ InsertAfter(e, at, data) => Abstract!Insert("InsertAfter", e, at, data)
         /\ InsertBefore(e, at, data) => Abstract!Insert("InsertBefore", e, at, data)
<1>1. PICK n : n = Cardinality(used)
  OBVIOUS
<1>2. at # NULL /\ at \in used \cup {NULL} /\ n \in Nat
  BY <1>1, FiniteRing, ElementAssumption DEF ListInv, Ring
<1>3. PICK i \in 1..n : i = Abstract!At(at) /\ Forward(list)[i] = at
  BY <1>1, PositionOf
<1>4. ASSUME InsertAfter(e, at, data) PROVE Abstract!Insert("InsertAfter", e, at, data)
  <2>1. PICK k : k = i + 1
    OBVIOUS
  <2>2. k \in 1..(n + 1) /\ k # 1 /\ k - 1 = i
    BY <1>2, <2>1
  <2>3. k = Abstract!Place("InsertAfter", at)
    BY <1>2, <1>3, <2>1 DEF Abstract!Place
  <2>4. at = (IF k = 1 THEN Anchor ELSE Forward(list)[k - 1])
    BY <1>3, <2>2
  <2>5. Insert("InsertAfter", at, data, e, Link(list, e, data, at, list.next[at]))
    BY <1>2, <1>4 DEF InsertAfter
  <2>. QED BY <1>1, <1>2, <2>2, <2>3, <2>4, <2>5, InsertionsImplement
<1>5. ASSUME InsertBefore(e, at, data) PROVE Abstract!Insert("InsertBefore", e, at, data)
  <2>1. PICK p : p = list.prev[at]
    OBVIOUS
  <2>2. p = (IF i = 1 THEN Anchor ELSE Forward(list)[i - 1]) /\ list.next[p] = at
    BY <1>1, <1>3, <2>1, BeforePosition
  <2>3. i = Abstract!Place("InsertBefore", at)
    BY <1>2, <1>3 DEF Abstract!Place
  <2>4. Insert("InsertBefore", at, data, e, Link(list, e, data, p, list.next[p]))
    BY <1>2, <1>5, <2>1, <2>2 DEF InsertBefore
  <2>5. i \in 1..(n + 1)
    BY <1>2
  <2>. QED BY <1>1, <1>2, <2>2, <2>3, <2>4, <2>5, InsertionsImplement
<1>. QED BY <1>4, <1>5

\* My402ListUnlink removes its element and no other.
LEMMA UnlinkImplements ==
  ASSUME ListInv, NEW e \in used, Unlink(e) PROVE Abstract!Unlink(e)
<1>1. PICK n : n = Cardinality(used)
  OBVIOUS
<1>2. PICK k \in 1..n : k = Abstract!At(e) /\ Forward(list)[k] = e
  BY <1>1, PositionOf
<1>3. Members(list) \in Seq([elem : used, obj : Objs \cup {NULL}]) /\ Len(Members(list)) = n
      /\ Abstract!Elements = used
  BY <1>1, ElementsAreUsed
<1>4. Abstract!RemoveAt(Members(list), k) = Removed(Members(list), n, k)
  BY <1>3, RemoveAtFacts
<1>5. list' = Unlinked(list, e) /\ call' = Call("Unlink", e, NULL, NULL, NULL)
  BY DEF Unlink
<1>6. Members(list') = Removed(Members(list), n, k)
  BY <1>1, <1>2, <1>5, UnlinkIsRemoval DEF ListInv
<1>. QED BY <1>2, <1>3, <1>4, <1>5, <1>6 DEF Abstract!Unlink, Abstract!Call, Call

\* An empty ring has no members.
LEMMA NothingLeft == ASSUME NEW l, Ring(l, {}) PROVE Members(l) = <<>>
BY ForwardIsChain DEF Members, Chain

-----------------------------------------------------------------------------
(* The refinement.                                                         *)

\* Every operation is one of the abstract list, or changes nothing it shows.
LEMMA StepImplements ==
  ASSUME ListInv, [Next]_vars
  PROVE  [Abstract!Next]_(<<Members(list), call>>)
<1>1. used \subseteq Elems
  BY DEF ListInv, Ring
<1>2. ASSUME NEW e \in Elems \ used, NEW data \in Objs, Append_(e, data) PROVE Abstract!Next
  <2>1. Abstract!Insert("Append", e, NULL, data)
    BY <1>2, AppendImplements DEF Append_
  <2>. QED BY <2>1 DEF Abstract!Next, Abstract!Inserters
<1>3. ASSUME NEW e \in Elems \ used, NEW data \in Objs, Prepend(e, data) PROVE Abstract!Next
  <2>1. Abstract!Insert("Prepend", e, NULL, data)
    BY <1>3, PrependImplements DEF Prepend
  <2>. QED BY <2>1 DEF Abstract!Next, Abstract!Inserters
<1>4. ASSUME NEW e \in Elems \ used, NEW data \in Objs, NEW at \in used \cup {NULL},
             InsertAfter(e, at, data) \/ InsertBefore(e, at, data)
      PROVE  Abstract!Next
  <2>1. CASE at = NULL
    <3>1. \/ Insert("InsertAfter", NULL, data, e, Appended(list, e, data))
          \/ Insert("InsertBefore", NULL, data, e, Prepended(list, e, data))
      BY <1>4, <2>1 DEF InsertAfter, InsertBefore
    <3>2. Abstract!Insert("InsertAfter", e, NULL, data) \/ Abstract!Insert("InsertBefore", e, NULL, data)
      BY <3>1, AppendImplements, PrependImplements
    <3>. QED BY <3>2 DEF Abstract!Next, Abstract!Inserters
  <2>2. CASE at \in used
    <3>1. Abstract!Insert("InsertAfter", e, at, data) \/ Abstract!Insert("InsertBefore", e, at, data)
      BY <1>4, <2>2, NextToImplements
    <3>. QED BY <1>1, <2>2, <3>1 DEF Abstract!Next, Abstract!Inserters
  <2>. QED BY <2>1, <2>2
<1>5. ASSUME NEW op \in {"Append", "Prepend", "InsertAfter", "InsertBefore"},
             NEW at \in used \cup {NULL}, NEW data \in Objs, AllocationFails(op, at, data)
      PROVE  Abstract!Next
  <2>1. Abstract!Refuse(op, at, data)
    BY <1>5 DEF AllocationFails, Abstract!Refuse, Abstract!Call, Call
  <2>. QED BY <1>1, <2>1 DEF Abstract!Next, Abstract!Inserters
<1>6. ASSUME NEW e \in used, Unlink(e) PROVE Abstract!Next
  <2>1. Abstract!Unlink(e)
    BY <1>6, UnlinkImplements
  <2>. QED BY <1>1, <2>1 DEF Abstract!Next
<1>7. ASSUME UnlinkAll PROVE Abstract!Next
  <2>1. Ring(list', {})
    BY <1>7, UnlinkAllEmpties DEF UnlinkAll, ListInv
  <2>2. Members(list') = <<>>
    BY <2>1, NothingLeft
  <2>3. Abstract!UnlinkAll
    BY <1>7, <2>2 DEF UnlinkAll, Abstract!UnlinkAll, Abstract!Call, Call
  <2>. QED BY <2>3 DEF Abstract!Next
<1>8. CASE UNCHANGED vars
  BY <1>8 DEF vars
<1>. QED
  <2>1. CASE Next
    BY <1>2, <1>3, <1>4, <1>5, <1>6, <1>7, <2>1 DEF Next
  <2>. QED BY <1>8, <2>1

\* Each call does to the ring what it promises to do to a sequence, at the place
\* it names, for any number of cells and objects and any sequence of calls.
THEOREM SequenceImplemented == Spec => ImplementsSequence
<1>1. Init => Abstract!Init
  <2>1. ASSUME Init PROVE Members(list) = <<>> /\ call = Call("Init", NULL, NULL, NULL, 1)
    <3>1. Ring(list, used) /\ used = {}
      BY <2>1, ListStarts DEF ListInv, Init
    <3>. QED BY <2>1, <3>1, NothingLeft DEF Init
  <2>. QED BY <2>1 DEF Abstract!Init, Abstract!Call, Call
<1>2. ListInv /\ [Next]_vars => [Abstract!Next]_(<<Members(list), call>>)
  BY StepImplements
<1>. QED BY <1>1, <1>2, ListInvariance, PTL DEF Spec, ImplementsSequence, Abstract!Spec
=============================================================================
