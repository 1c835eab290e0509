----------------------- MODULE AdapterFunctionsProofs -----------------------
(***************************************************************************)
(* Proofs that the functions of the adapter keep what they are given, for  *)
(* all inputs that the assumptions of AdapterFunctions describe.           *)
(*                                                                         *)
(* The functions keep no state: an invariant holds because each call makes *)
(* it true.  The work is in lemmas about the values: which elements of a   *)
(* list a filter takes (Selected), where the lines of a codec are in the   *)
(* section it is written into (Places), and so that what is read there is  *)
(* what was written (ReadBack).                                            *)
(***************************************************************************)
EXTENDS AdapterFunctionsProperties, TLAPS, FunctionTheorems,
        FiniteSetTheorems, SequenceTheorems, WellFoundedInduction

-----------------------------------------------------------------------------
(* The members of a finite set of numbers are numbered from the least.      *)

UpToIn(S, n) == {m \in S : m <= n}
Rank(S, n) == Cardinality(UpToIn(S, n))

\* Of two members the smaller has the smaller rank.
LEMMA RanksDiffer ==
  ASSUME NEW S \in SUBSET Nat, IsFiniteSet(S), NEW m \in S, NEW n \in S, m < n
  PROVE  /\ Rank(S, m) \in 1 .. Cardinality(S)
         /\ Rank(S, m) < Rank(S, n)
<1>1. ASSUME NEW i \in S
      PROVE  /\ IsFiniteSet(UpToIn(S, i)) /\ Rank(S, i) \in Nat
             /\ Rank(S, i) <= Cardinality(S) /\ Rank(S, i) # 0
  <2>1. UpToIn(S, i) \in SUBSET S /\ i \in UpToIn(S, i)
    BY DEF UpToIn
  <2>. QED BY <2>1, FS_Subset, FS_CardinalityType, FS_EmptySet DEF Rank
<1>2. UpToIn(S, m) \in SUBSET UpToIn(S, n) /\ UpToIn(S, m) # UpToIn(S, n)
  <2>1. n \in UpToIn(S, n) /\ n \notin UpToIn(S, m)
    BY DEF UpToIn
  <2>2. \A i \in S : i <= m => i <= n
    OBVIOUS
  <2>. QED BY <2>1, <2>2 DEF UpToIn
<1>3. Rank(S, m) <= Rank(S, n) /\ Rank(S, m) # Rank(S, n)
  BY <1>1, <1>2, FS_Subset DEF Rank
<1>4. Cardinality(S) \in Nat
  BY FS_CardinalityType
<1>5. Rank(S, m) \in Nat /\ Rank(S, n) \in Nat /\ Rank(S, m) # 0 /\ Rank(S, m) <= Cardinality(S)
  BY <1>1
<1>. QED BY <1>3, <1>4, <1>5

\* The ranks are all the numbers up to the size of the set, each once.
LEMMA RankIsBijection ==
  ASSUME NEW S \in SUBSET Nat, IsFiniteSet(S)
  PROVE  /\ \A n \in S : Rank(S, n) \in 1 .. Cardinality(S)
         /\ \A m, n \in S : Rank(S, m) = Rank(S, n) => m = n
         /\ \A i \in 1 .. Cardinality(S) : \E n \in S : Rank(S, n) = i
<1> DEFINE f == [n \in S |-> Rank(S, n)]
           c == Cardinality(S)
<1>1. c \in Nat
  BY FS_CardinalityType
<1>2. ASSUME NEW n \in S PROVE Rank(S, n) \in 1 .. c
  <2>1. UpToIn(S, n) \in SUBSET S /\ n \in UpToIn(S, n)
    BY DEF UpToIn
  <2>2. Rank(S, n) \in Nat /\ Rank(S, n) <= c /\ Rank(S, n) # 0
    BY <2>1, FS_Subset, FS_CardinalityType, FS_EmptySet DEF Rank
  <2>. QED BY <1>1, <2>2
<1>3. ASSUME NEW m \in S, NEW n \in S, Rank(S, m) = Rank(S, n) PROVE m = n
  <2>1. ~(m < n) /\ ~(n < m)
    BY <1>1, <1>2, <1>3, RanksDiffer
  <2>2. m \in Nat /\ n \in Nat
    OBVIOUS
  <2>. QED BY <2>1, <2>2
<1>4. f \in Injection(S, 1 .. c)
  BY <1>2, <1>3 DEF Injection, IsInjective
<1>5. IsFiniteSet(1 .. c) /\ Cardinality(1 .. c) = c
  BY <1>1, FS_Interval
<1>6. f \in Surjection(S, 1 .. c)
  BY <1>4, <1>5, FS_Injection
<1>7. ASSUME NEW i \in 1 .. c PROVE \E n \in S : Rank(S, n) = i
  BY <1>6 DEF Surjection
<1>. QED BY <1>2, <1>3, <1>7

\* Nth, which is a CHOOSE, does find a member.
LEMMA NthHasRank ==
  ASSUME NEW S \in SUBSET Nat, IsFiniteSet(S), NEW i \in 1 .. Cardinality(S)
  PROVE  Nth(S, i) \in S /\ Rank(S, Nth(S, i)) = i
<1>1. \E n \in S : Rank(S, n) = i
  BY RankIsBijection
<1>2. \E n \in S : Cardinality({m \in S : m <= n}) = i
  BY <1>1 DEF Rank, UpToIn
<1>. QED BY <1>2 DEF Nth, Rank, UpToIn

\* The numbering leaves none out.
LEMMA EachIsNth ==
  ASSUME NEW S \in SUBSET Nat, IsFiniteSet(S), NEW n \in S
  PROVE  \E i \in 1 .. Cardinality(S) : Nth(S, i) = n
<1>1. Rank(S, n) \in 1 .. Cardinality(S)
  BY RankIsBijection
<1>2. Nth(S, Rank(S, n)) \in S /\ Rank(S, Nth(S, Rank(S, n))) = Rank(S, n)
  BY <1>1, NthHasRank
<1>3. Nth(S, Rank(S, n)) = n
  <2>1. \A k, m \in S : Rank(S, k) = Rank(S, m) => k = m
    BY RankIsBijection
  <2>. QED BY <1>2, <2>1
<1>. QED BY <1>1, <1>3

\* Of 1 .. n the i-th is i.
LEMMA NthOfFirst ==
  ASSUME NEW n \in Nat, NEW i \in 1 .. n
  PROVE  Cardinality(1 .. n) = n /\ Nth(1 .. n, i) = i
<1>1. IsFiniteSet(1 .. n) /\ Cardinality(1 .. n) = n /\ 1 .. n \in SUBSET Nat
  BY FS_Interval
<1>2. UpToIn(1 .. n, i) = 1 .. i
  BY DEF UpToIn
<1>3. i \in Int /\ 1 \in Int /\ i >= 1
  OBVIOUS
<1>4. Rank(1 .. n, i) = i
  <2>1. Cardinality(1 .. i) = i
    BY <1>3, FS_Interval
  <2>. QED BY <1>2, <2>1 DEF Rank
<1>5. Nth(1 .. n, i) \in 1 .. n /\ Rank(1 .. n, Nth(1 .. n, i)) = i
  BY <1>1, NthHasRank
<1>. QED BY <1>1, <1>4, <1>5, RankIsBijection

\* A set of numbers has a least one.
LEMMA Smallest ==
  ASSUME NEW S \in SUBSET Nat, S # {}
  PROVE  \E i \in S : \A j \in S : i <= j
<1> DEFINE Less == OpToRel(<, Nat)
<1>1. IsWellFoundedOn(Less, Nat)
  BY NatLessThanWellFounded
<1>2. PICK i \in S : \A j \in S : ~(<<j, i>> \in Less)
  BY <1>1, WFMin
<1>3. \A m, n \in Nat : <<m, n>> \in Less <=> m < n
  BY DEF OpToRel
<1>4. i \in Nat /\ \A j \in S : j \in Nat /\ ~(j < i)
  BY <1>2, <1>3
<1>. QED BY <1>4

\* The members of a set that are numbered so that the numbers grow with them.
LEMMA NthIs ==
  ASSUME NEW S \in SUBSET Nat, NEW n \in Nat, NEW g \in [1 .. n -> S],
         \A i, j \in 1 .. n : i < j => g[i] < g[j],
         \A m \in S : \E i \in 1 .. n : g[i] = m
  PROVE  /\ IsFiniteSet(S) /\ Cardinality(S) = n
         /\ \A i \in 1 .. n : Nth(S, i) = g[i]
<1>0. \A i \in 1 .. n : g[i] \in Nat /\ g[i] \in S
  OBVIOUS
<1>1. \A i, j \in 1 .. n : g[i] = g[j] => i = j
  <2>1. ASSUME NEW i \in 1 .. n, NEW j \in 1 .. n, g[i] = g[j] PROVE i = j
    <3>1. ~(g[i] < g[j]) /\ ~(g[j] < g[i])
      BY <1>0, <2>1
    <3>2. ~(i < j) /\ ~(j < i)
      BY <3>1
    <3>. QED BY <3>2
  <2>. QED BY <2>1
<1>2. ASSUME NEW k \in 0 .. n, NEW T, T = {g[i] : i \in 1 .. k}
      PROVE  IsFiniteSet(T) /\ Cardinality(T) = k
  <2> DEFINE h == [i \in 1 .. k |-> g[i]]
  <2>1. h \in Bijection(1 .. k, T)
    BY <1>1, <1>2 DEF Bijection, Injection, Surjection, IsInjective
  <2>2. IsFiniteSet(1 .. k) /\ Cardinality(1 .. k) = k
    BY FS_Interval
  <2>3. ExistsBijection(1 .. k, T)
    BY <2>1 DEF ExistsBijection
  <2>. QED BY <2>2, <2>3, FS_Bijection
<1>3. S = {g[i] : i \in 1 .. n}
  OBVIOUS
<1>4. IsFiniteSet(S) /\ Cardinality(S) = n
  <2>1. n \in 0 .. n
    OBVIOUS
  <2>. QED BY <1>2, <1>3, <2>1
<1>5. ASSUME NEW i \in 1 .. n PROVE Nth(S, i) = g[i]
  <2>1. UpToIn(S, g[i]) = {g[j] : j \in 1 .. i}
    <3>1. \A j \in 1 .. n : g[j] <= g[i] <=> j <= i
      <4>1. ASSUME NEW j \in 1 .. n PROVE g[j] <= g[i] <=> j <= i
        <5>1. i < j => g[i] < g[j]
          OBVIOUS
        <5>2. j < i => g[j] < g[i]
          OBVIOUS
        <5>. QED BY <1>0, <5>1, <5>2
      <4>. QED BY <4>1
    <3>2. ASSUME NEW m \in S, m <= g[i] PROVE m \in {g[j] : j \in 1 .. i}
      <4>1. PICK j \in 1 .. n : g[j] = m
        OBVIOUS
      <4>2. j \in 1 .. i
        BY <3>1, <3>2, <4>1
      <4>. QED BY <4>1, <4>2
    <3>3. ASSUME NEW j \in 1 .. i PROVE g[j] \in S /\ g[j] <= g[i]
      <4>1. j \in 1 .. n /\ j <= i
        OBVIOUS
      <4>. QED BY <3>1, <4>1
    <3>. QED BY <3>2, <3>3 DEF UpToIn
  <2>2. Rank(S, g[i]) = i
    BY <1>2, <2>1 DEF Rank
  <2>3. Nth(S, i) \in S /\ Rank(S, Nth(S, i)) = i
    BY <1>4, NthHasRank
  <2>4. \A k, m \in S : Rank(S, k) = Rank(S, m) => k = m
    BY <1>4, RankIsBijection
  <2>. QED BY <1>0, <2>2, <2>3, <2>4
<1>. QED BY <1>4, <1>5

\* What is selected of a list is a list of elements of it, and all of them.
LEMMA SelectedElements ==
  ASSUME NEW s, IsList(s), NEW I \in SUBSET DOMAIN s
  PROVE  /\ IsFiniteSet(I) /\ I \in SUBSET Nat /\ Cardinality(I) \in Nat
         /\ DOMAIN Selected(s, I) = 1 .. Cardinality(I)
         /\ IsList(Selected(s, I))
         /\ Elements(Selected(s, I)) = {s[i] : i \in I}
         /\ Selected(s, I) = <<>> <=> I = {}
<1> DEFINE t == Selected(s, I)
<1>1. Len(s) \in Nat /\ DOMAIN s = 1 .. Len(s)
  BY DEF IsList
<1>2. IsFiniteSet(I) /\ I \in SUBSET Nat
  <2>1. IsFiniteSet(1 .. Len(s)) /\ I \in SUBSET (1 .. Len(s))
    BY <1>1, FS_Interval
  <2>2. I \in SUBSET Nat
    BY <1>1, <2>1
  <2>. QED BY <2>1, <2>2, FS_Subset
<1>3. Cardinality(I) \in Nat
  BY <1>2, FS_CardinalityType
<1>4. t = [k \in 1 .. Cardinality(I) |-> s[Nth(I, k)]]
  BY DEF Selected
<1> HIDE DEF t
<1>5. DOMAIN t = 1 .. Cardinality(I)
  BY <1>4
<1>6. \A k \in DOMAIN t : Nth(I, k) \in I /\ t[k] = s[Nth(I, k)]
  BY <1>2, <1>4, <1>5, NthHasRank
<1>7. \A i \in I : \E k \in DOMAIN t : Nth(I, k) = i
  BY <1>2, <1>5, EachIsNth
<1>8. Elements(t) = {s[i] : i \in I}
  BY <1>6, <1>7 DEF Elements
<1>9. IsList(t)
  <2>1. t \in [1 .. Cardinality(I) -> Elements(t)]
    BY <1>4, <1>5 DEF Elements
  <2>. QED BY <1>3, <2>1, SeqDef DEF IsList
<1>10. t = <<>> <=> I = {}
  <2>1. I = {} => Cardinality(I) = 0
    BY FS_EmptySet
  <2>2. Cardinality(I) = 0 => I = {}
    BY <1>2, FS_EmptySet
  <2>3. t = <<>> <=> Len(t) = 0
    BY <1>9 DEF IsList
  <2>4. Len(t) = Cardinality(I)
    BY <1>3, <1>5, <1>9 DEF IsList
  <2>. QED BY <2>1, <2>2, <2>3, <2>4
<1>. QED BY <1>2, <1>3, <1>5, <1>8, <1>9, <1>10 DEF t

\* The first one selected is the first there is.
LEMMA SelectedFirst ==
  ASSUME NEW s, IsList(s), NEW I \in SUBSET DOMAIN s, I # {}
  PROVE  \E i \in I : (\A j \in I : i <= j) /\ Selected(s, I)[1] = s[i]
<1>1. IsFiniteSet(I) /\ I \in SUBSET Nat /\ Cardinality(I) \in Nat
  BY SelectedElements
<1>2. PICK i \in I : \A j \in I : i <= j
  BY <1>1, Smallest
<1>3. UpToIn(I, i) = {i}
  <2>1. \A j \in I : j <= i => j = i
    BY <1>1, <1>2
  <2>2. i <= i
    BY <1>1
  <2>. QED BY <2>1, <2>2 DEF UpToIn
<1>4. Rank(I, i) = 1
  BY <1>3, FS_Singleton DEF Rank
<1>5. 1 \in 1 .. Cardinality(I)
  BY <1>1, <1>4, RankIsBijection
<1>6. Nth(I, 1) \in I /\ Rank(I, Nth(I, 1)) = 1
  BY <1>1, <1>5, NthHasRank
<1>7. Nth(I, 1) = i
  BY <1>1, <1>4, <1>6, RankIsBijection
<1>8. Selected(s, I)[1] = s[Nth(I, 1)]
  BY <1>5 DEF Selected
<1>. QED BY <1>2, <1>7, <1>8

\* All of a list.
LEMMA SelectedAll ==
  ASSUME NEW s, IsList(s)
  PROVE  Selected(s, DOMAIN s) = s
<1>1. Len(s) \in Nat /\ DOMAIN s = 1 .. Len(s) /\ s = [i \in 1 .. Len(s) |-> s[i]]
  BY DEF IsList
<1>2. Cardinality(1 .. Len(s)) = Len(s)
  BY <1>1, FS_Interval
<1>3. \A i \in 1 .. Len(s) : Nth(1 .. Len(s), i) = i
  BY <1>1, NthOfFirst
<1>. QED BY <1>1, <1>2, <1>3 DEF Selected

-----------------------------------------------------------------------------
(* Candidates.                                                              *)

\* The index of the last extension of a kind, and 0 where there is none.
LEMMA LastExtension ==
  ASSUME NEW s, NEW key
  PROVE  /\ (\A i \in 1 .. Len(s) : s[i].key # key) =>
              SelectLastInSeq(s, LAMBDA e : e.key = key) = 0
         /\ \A i \in 1 .. Len(s) :
              s[i].key = key /\ (\A j \in 1 .. Len(s) : s[j].key = key => j = i)
                => SelectLastInSeq(s, LAMBDA e : e.key = key) = i
<1> DEFINE I == {i \in 1 .. Len(s) : s[i].key = key}
<1>1. SelectLastInSeq(s, LAMBDA e : e.key = key) = IF I # {} THEN Max(I) ELSE 0
  BY DEF SelectLastInSeq
<1>2. ASSUME NEW i \in 1 .. Len(s), I = {i} PROVE Max(I) = i
  <2>. HIDE DEF I
  <2>. QED BY <1>2 DEF Max
<1>. QED BY <1>1, <1>2

\* What a candidate becomes on its way to the other end.
LEMMA CandidateReads ==
  ASSUME NEW c, IsCandidate(c)
  PROVE  ParseCandidate(WriteCandidate(c)) = c
<1> DEFINE raddr == [key |-> "raddr", text |-> c.relatedAddress, number |-> Undefined]
           rport == [key |-> "rport", text |-> "", number |-> c.relatedPort]
           tcptype == [key |-> "tcptype", text |-> c.tcpType, number |-> Undefined]
           w == WriteCandidate(c)
           s == w.extensions
           LastOf(key) == SelectLastInSeq(s, LAMBDA e : e.key = key)
           p == ParseCandidate(w)
<1>1. /\ w.foundation = c.foundation /\ w.component = c.component
      /\ w.protocol = Upper[c.protocol] /\ w.priority = c.priority /\ w.ip = c.ip
      /\ w.port = c.port /\ w.type = c.type
  BY DEF WriteCandidate
<1>2. Lower[Upper[c.protocol]] = c.protocol
  <2>1. CASE c.protocol = "udp"
    BY <2>1 DEF Lower, Upper
  <2>2. CASE c.protocol = "tcp"
    BY <2>2 DEF Lower, Upper
  <2>. QED BY <2>1, <2>2 DEF IsCandidate
<1>3. s = (IF c.type # "host" THEN <<raddr, rport>> ELSE <<>>)
            \o (IF c.protocol = "tcp" THEN <<tcptype>> ELSE <<>>)
  BY DEF IsCandidate, WriteCandidate
<1>4. p = [foundation |-> c.foundation, component |-> c.component,
           protocol |-> c.protocol, priority |-> c.priority, ip |-> c.ip,
           port |-> c.port, type |-> c.type,
           relatedAddress |-> IF LastOf("raddr") = 0 THEN "" ELSE s[LastOf("raddr")].text,
           tcpType |-> IF LastOf("tcptype") = 0 THEN "" ELSE s[LastOf("tcptype")].text,
           relatedPort |-> IF LastOf("rport") = 0 THEN Undefined ELSE s[LastOf("rport")].number]
  <2>. HIDE DEF w
  <2>. QED BY <1>1, <1>2 DEF ParseCandidate
<1> HIDE DEF w, s, p
<1> HIDE DEF LastOf
<1>5. \A key :
        /\ (\A i \in 1 .. Len(s) : s[i].key # key) => LastOf(key) = 0
        /\ \A i \in 1 .. Len(s) :
             s[i].key = key /\ (\A j \in 1 .. Len(s) : s[j].key = key => j = i)
               => LastOf(key) = i
  BY LastExtension DEF LastOf
<1>6. raddr.key = "raddr" /\ rport.key = "rport" /\ tcptype.key = "tcptype"
      /\ raddr.text = c.relatedAddress /\ rport.number = c.relatedPort /\ tcptype.text = c.tcpType
  OBVIOUS
<1> HIDE DEF raddr, rport, tcptype
<1>7. /\ LastOf("raddr") = 0 => c.relatedAddress = ""
      /\ LastOf("raddr") # 0 => s[LastOf("raddr")].text = c.relatedAddress
      /\ LastOf("tcptype") = 0 => c.tcpType = ""
      /\ LastOf("tcptype") # 0 => s[LastOf("tcptype")].text = c.tcpType
      /\ LastOf("rport") = 0 => c.relatedPort = Undefined
      /\ LastOf("rport") # 0 => s[LastOf("rport")].number = c.relatedPort
  <2>1. CASE c.type = "host" /\ c.protocol # "tcp"
    <3>1. Len(s) = 0
      BY <1>3, <2>1
    <3>2. LastOf("raddr") = 0 /\ LastOf("tcptype") = 0 /\ LastOf("rport") = 0
      BY <1>5, <3>1
    <3>. QED BY <2>1, <3>2 DEF IsCandidate
  <2>2. CASE c.type = "host" /\ c.protocol = "tcp"
    <3>1. Len(s) = 1 /\ s[1] = tcptype
      BY <1>3, <2>2
    <3>2. LastOf("raddr") = 0 /\ LastOf("tcptype") = 1 /\ LastOf("rport") = 0
      BY <1>5, <1>6, <3>1
    <3>3. s[LastOf("tcptype")].text = c.tcpType
      BY <1>6, <3>1, <3>2
    <3>4. c.relatedAddress = "" /\ c.relatedPort = Undefined
      BY <2>2 DEF IsCandidate
    <3>5. LastOf("raddr") = 0 /\ LastOf("tcptype") # 0 /\ LastOf("rport") = 0
      BY <3>2
    <3>. QED BY <3>3, <3>4, <3>5
  <2>3. CASE c.type # "host" /\ c.protocol # "tcp"
    <3>1. Len(s) = 2 /\ s[1] = raddr /\ s[2] = rport
      BY <1>3, <2>3
    <3>2. LastOf("raddr") = 1 /\ LastOf("tcptype") = 0 /\ LastOf("rport") = 2
      BY <1>5, <1>6, <3>1
    <3>3. s[LastOf("raddr")].text = c.relatedAddress /\ s[LastOf("rport")].number = c.relatedPort
      BY <1>6, <3>1, <3>2
    <3>4. c.tcpType = ""
      BY <2>3 DEF IsCandidate
    <3>5. LastOf("raddr") # 0 /\ LastOf("tcptype") = 0 /\ LastOf("rport") # 0
      BY <3>2
    <3>. QED BY <3>3, <3>4, <3>5
  <2>4. CASE c.type # "host" /\ c.protocol = "tcp"
    <3>1. Len(s) = 3 /\ s[1] = raddr /\ s[2] = rport /\ s[3] = tcptype
      BY <1>3, <2>4
    <3>2. LastOf("raddr") = 1 /\ LastOf("tcptype") = 3 /\ LastOf("rport") = 2
      BY <1>5, <1>6, <3>1
    <3>3. s[LastOf("raddr")].text = c.relatedAddress /\ s[LastOf("rport")].number = c.relatedPort
      BY <1>6, <3>1, <3>2
    <3>4. s[LastOf("tcptype")].text = c.tcpType
      BY <1>6, <3>1, <3>2
    <3>5. LastOf("raddr") # 0 /\ LastOf("tcptype") # 0 /\ LastOf("rport") # 0
      BY <3>2
    <3>. QED BY <3>3, <3>4, <3>5
  <2>. QED BY <2>1, <2>2, <2>3, <2>4
<1>8. /\ p.foundation = c.foundation /\ p.component = c.component
      /\ p.protocol = c.protocol /\ p.priority = c.priority /\ p.ip = c.ip
      /\ p.port = c.port /\ p.type = c.type /\ p.relatedAddress = c.relatedAddress
      /\ p.tcpType = c.tcpType /\ p.relatedPort = c.relatedPort
  BY <1>4, <1>7
<1>9. p = [f \in {"foundation", "component", "protocol", "priority", "ip", "port",
                  "type", "relatedAddress", "relatedPort", "tcpType"} |-> p[f]]
  BY <1>4
<1>10. c = [f \in {"foundation", "component", "protocol", "priority", "ip", "port",
                  "type", "relatedAddress", "relatedPort", "tcpType"} |-> c[f]]
  BY DEF IsCandidate, IsRecord
<1>11. p = c
  BY <1>8, <1>9, <1>10
<1>. QED BY <1>11 DEF p, w

\* A candidate is given to the ICE transport of the other end as it was found,
\* unless that passes over it.
THEOREM CandidatesArriveWhole == Spec => []CandidatesSurvive
<1>1. Init => CandidatesSurvive
  BY DEF Init, CandidatesSurvive
<1>2. CandidatesSurvive /\ [Next]_vars => CandidatesSurvive'
  <2>1. CASE UNCHANGED vars
    BY <2>1 DEF vars, CandidatesSurvive
  <2>2. ASSUME NEW c \in Candidates, Calls("candidate", c, Usable(WriteCandidate(c)))
        PROVE  CandidatesSurvive'
    <3>1. IsCandidate(c)
      BY CandidatesAssumption
    <3>2. c.type # "endOfCandidates"
      BY <3>1 DEF IsCandidate
    <3>3. Usable(WriteCandidate(c)) =
            IF (c.protocol = "tcp" /\ c.port = 0) \/ c.component # 1 THEN {} ELSE {<<c>>}
      BY <3>1, <3>2, CandidateReads DEF Usable
    <3>. QED BY <2>2, <3>3 DEF Calls, CandidatesSurvive
  <2>3. CASE Next /\ ~SendsCandidate
    BY <2>3 DEF Next, Negotiates, ReadsSection, ConvertsForChrome,
                 ConvertsForFirefox, Calls, CandidatesSurvive
  <2>. QED BY <2>1, <2>2, <2>3 DEF SendsCandidate
<1>. QED BY <1>1, <1>2, PTL DEF Spec

-----------------------------------------------------------------------------
(* Constraints.                                                             *)

\* The members of what With makes.
LEMMA WithHas ==
  ASSUME NEW r, NEW s
  PROVE  /\ DOMAIN With(r, s) = DOMAIN r \union DOMAIN s
         /\ \A f \in DOMAIN r : With(r, s)[f] = r[f]
         /\ \A f \in DOMAIN s \ DOMAIN r : With(r, s)[f] = s[f]
BY DEF With

\* An exact number has become both limits, and nothing else has changed.
LEMMA LimitsHave ==
  ASSUME NEW r
  PROVE  /\ Has(r, "exact") /\ r.exact \in Numbers =>
              /\ DOMAIN Limits(r) = DOMAIN r \union {"min", "max"}
              /\ Limits(r)["min"] = r.exact /\ Limits(r)["max"] = r.exact
              /\ Limits(r)["exact"] = r.exact
         /\ ~(Has(r, "exact") /\ r.exact \in Numbers) => Limits(r) = r
<1>1. ASSUME Has(r, "exact"), r.exact \in Numbers
      PROVE  /\ DOMAIN Limits(r) = DOMAIN r \union {"min", "max"}
             /\ Limits(r)["min"] = r.exact /\ Limits(r)["max"] = r.exact
             /\ Limits(r)["exact"] = r.exact
  <2> DEFINE both == [min |-> r.exact, max |-> r.exact]
  <2>1. DOMAIN both = {"min", "max"} /\ both["min"] = r.exact /\ both["max"] = r.exact
    OBVIOUS
  <2>2. Limits(r) = With(both, r)
    BY <1>1 DEF Limits
  <2>. HIDE DEF both
  <2>3. "exact" \in DOMAIN r \ DOMAIN both
    BY <1>1, <2>1 DEF Has
  <2>4. /\ DOMAIN With(both, r) = DOMAIN both \union DOMAIN r
        /\ \A f \in DOMAIN both : With(both, r)[f] = both[f]
        /\ \A f \in DOMAIN r \ DOMAIN both : With(both, r)[f] = r[f]
    BY WithHas
  <2>5. With(both, r)["exact"] = r["exact"]
    BY <2>3, <2>4
  <2>. QED BY <2>1, <2>2, <2>4, <2>5
<1>2. ~(Has(r, "exact") /\ r.exact \in Numbers) => Limits(r) = r
  BY DEF Limits
<1>. QED BY <1>1, <1>2

\* What is mandatory of one setting, and what it says of a value.
MandatoryOf(n, q) ==
  IF Has(q, "exact") /\ q.exact \notin Numbers
  THEN {<<OldName("", n), q.exact>>}
  ELSE {<<OldName(mix, n), q[mix]>> : mix \in {"min", "max"} \intersect DOMAIN q}
Meets(m, n, v) ==
  /\ m[1] = <<"min", n>> => v >= m[2]
  /\ m[1] = <<"max", n>> => v <= m[2]
  /\ m[1] = OldName("", n) => v = m[2]

\* The names of the limits of a setting, of an exact text for it, and of those
\* of another setting all differ.
LEMMA OldNames ==
  ASSUME NEW n
  PROVE  /\ OldName("min", n) = <<"min", n>> /\ OldName("max", n) = <<"max", n>>
         /\ OldName("", n) # <<"min", n>> /\ OldName("", n) # <<"max", n>>
         /\ \A k : n # "sourceId" /\ k # "sourceId" /\ OldName("", k) = OldName("", n) => k = n
         /\ \A k : OldName("", k) # <<"min", n>> /\ OldName("", k) # <<"max", n>>
<1>1. OldName("min", n) = <<"min", n>> /\ OldName("max", n) = <<"max", n>>
  BY DEF OldName
<1>2. \A k : OldName("", k)[1] = "" /\ OldName("", k)[2] = IF k = "deviceId" THEN "sourceId" ELSE k
  BY DEF OldName
<1>3. <<"min", n>>[1] = "min" /\ <<"max", n>>[1] = "max"
  OBVIOUS
<1>4. \A k : OldName("", k) # <<"min", n>> /\ OldName("", k) # <<"max", n>>
  BY <1>2, <1>3
<1>5. ASSUME NEW k, n # "sourceId", k # "sourceId", OldName("", k) = OldName("", n)
      PROVE  k = n
  <2>1. (IF k = "deviceId" THEN "sourceId" ELSE k) = (IF n = "deviceId" THEN "sourceId" ELSE n)
    BY <1>2, <1>5
  <2>. QED BY <1>5, <2>1
<1>. QED BY <1>1, <1>4, <1>5

\* It allows the values that are asked for.
LEMMA MandatoryMeans ==
  ASSUME NEW n, NEW r, NEW v, IsAsked(r),
         (\E f \in DOMAIN r \ {"ideal"} : r[f] \in Numbers) => v \in Int
  PROVE  Allowed(r, v) <=> \A m \in MandatoryOf(n, Limits(r)) : Meets(m, n, v)
<1> DEFINE low == <<<<"min", n>>, r["min"]>>
           high == <<<<"max", n>>, r["max"]>>
<1>0. Numbers \subseteq Int
  BY ConstraintsAssumption
<1>00. \A w : /\ Meets(<<<<"min", n>>, w>>, n, v) <=> v >= w
              /\ Meets(<<<<"max", n>>, w>>, n, v) <=> v <= w
              /\ Meets(<<OldName("", n), w>>, n, v) <=> v = w
  <2>1. <<"min", n>> # <<"max", n>>
    OBVIOUS
  <2>2. <<"min", n>> # OldName("", n) /\ <<"max", n>> # OldName("", n)
    BY OldNames
  <2>. QED BY <2>1, <2>2 DEF Meets
<1>1. CASE Has(r, "exact") /\ r.exact \in Numbers
  <2> DEFINE e == r["exact"]
  <2>1. /\ DOMAIN Limits(r) = DOMAIN r \union {"min", "max"}
        /\ Limits(r)["min"] = e /\ Limits(r)["max"] = e /\ Limits(r)["exact"] = e
    BY <1>1, LimitsHave
  <2>2. MandatoryOf(n, Limits(r)) = {<<OldName(mix, n), Limits(r)[mix]>> : mix \in {"min", "max"}}
    BY <1>1, <2>1 DEF MandatoryOf
  <2>3. MandatoryOf(n, Limits(r)) = {<<<<"min", n>>, e>>, <<<<"max", n>>, e>>}
    <3>1. \A mix \in {"min", "max"} : <<OldName(mix, n), Limits(r)[mix]>> = <<<<mix, n>>, e>>
      BY <2>1, OldNames
    <3>. HIDE DEF e
    <3>2. {<<OldName(mix, n), Limits(r)[mix]>> : mix \in {"min", "max"}} =
            {<<<<mix, n>>, e>> : mix \in {"min", "max"}}
      BY <3>1
    <3>. QED BY <2>2, <3>2
  <2>4. (\A m \in MandatoryOf(n, Limits(r)) : Meets(m, n, v)) <=> v >= e /\ v <= e
    BY <1>00, <2>3
  <2>5. v \in Int /\ e \in Int
    <3>1. "exact" \in DOMAIN r \ {"ideal"}
      BY <1>1 DEF Has
    <3>. QED BY <1>0, <1>1, <3>1
  <2>6. (\A f \in {"min", "max"} \intersect DOMAIN r : r[f] \in Int)
    <3>1. {r[f] : f \in DOMAIN r} \subseteq Numbers
      <4>1. r["exact"] \in {r[f] : f \in DOMAIN r} \intersect Numbers
        BY <1>1 DEF Has
      <4>. QED BY <4>1 DEF IsAsked
    <3>. QED BY <1>0, <3>1
  <2>7. Allowed(r, v) <=> v = e
    BY <1>1, <2>5, <2>6 DEF Allowed, IsAsked, Has
  <2>. QED BY <2>4, <2>5, <2>7
<1>2. CASE Has(r, "exact") /\ r.exact \notin Numbers
  <2>1. Limits(r) = r
    BY <1>2, LimitsHave
  <2>2. MandatoryOf(n, r) =
           {<<OldName("", n), r.exact>>}
    BY <1>2 DEF MandatoryOf
  <2>3. "min" \notin DOMAIN r /\ "max" \notin DOMAIN r
    <3>1. r["exact"] \in {r[f] : f \in DOMAIN r}
      BY <1>2 DEF Has
    <3>2. DOMAIN r \subseteq {"exact", "ideal"}
      BY <1>2, <3>1 DEF IsAsked
    <3>. QED BY <3>2
  <2>4. Allowed(r, v) <=> v = r.exact
    BY <1>2, <2>3 DEF Allowed, Has
  <2>5. (\A m \in MandatoryOf(n, r) : Meets(m, n, v)) <=> Meets(<<OldName("", n), r.exact>>, n, v)
    BY <2>2
  <2>6. Meets(<<OldName("", n), r.exact>>, n, v) <=> v = r.exact
    BY <1>00
  <2>. QED BY <2>1, <2>4, <2>5, <2>6
<1>3. CASE ~Has(r, "exact")
  <2>1. Limits(r) = r
    BY <1>3, LimitsHave
  <2>2. MandatoryOf(n, r) =
           {<<OldName(mix, n), r[mix]>> : mix \in {"min", "max"} \intersect DOMAIN r}
    BY <1>3 DEF MandatoryOf
  <2>3. \A m : m \in MandatoryOf(n, r) <=>
          (Has(r, "min") /\ m = low) \/ (Has(r, "max") /\ m = high)
    <3>1. \A mix \in {"min", "max"} : OldName(mix, n) = <<mix, n>>
      BY OldNames
    <3>. QED BY <2>2, <3>1 DEF Has
  <2>4. (\A m \in MandatoryOf(n, r) : Meets(m, n, v)) <=>
          (Has(r, "min") => Meets(low, n, v)) /\ (Has(r, "max") => Meets(high, n, v))
    BY <2>3
  <2>5. Meets(low, n, v) <=> v >= r["min"]
    BY <1>00
  <2>6. Meets(high, n, v) <=> v <= r["max"]
    BY <1>00
  <2>7. Allowed(r, v) <=> (Has(r, "min") => v >= r["min"]) /\ (Has(r, "max") => v <= r["max"])
    BY <1>3 DEF Allowed
  <2>. QED BY <2>1, <2>4, <2>5, <2>6, <2>7
<1>. QED BY <1>1, <1>2, <1>3

\* What Chrome is told is mandatory is that of each setting; what it is told
\* once is not converted again.
LEMMA ChromeIsTold ==
  ASSUME NEW c \in Constraints
  PROVE  /\ Member(ConstraintsToChrome(c, Names), "mandatory", {})
              = UNION {MandatoryOf(n, Limits(c.settings[n])) : n \in DOMAIN c.settings}
         /\ ConstraintsToChrome(ConstraintsToChrome(c, Names), Names)
              = ConstraintsToChrome(c, Names)
<1> DEFINE Asked(d) == Filter(Names, LAMBDA n : n \in DOMAIN d.settings)
           Optional(d, n) ==
             LET r == d.settings[n]
             IN IF ~Has(r, "ideal") THEN <<>>
                ELSE IF r.ideal \in Numbers
                     THEN <<[key |-> OldName("min", n), value |-> r.ideal],
                            [key |-> OldName("max", n), value |-> r.ideal]>>
                     ELSE <<[key |-> OldName("", n), value |-> r.ideal]>>
           optional(d) == FlattenSeq([i \in DOMAIN Asked(d) |-> Optional(d, Asked(d)[i])])
                            \o Member(d, "advanced", <<>>)
           mandatory(d) == UNION {MandatoryOf(n, Limits(d.settings[n])) : n \in DOMAIN d.settings}
           first(d) == IF mandatory(d) = {} THEN <<>> ELSE [mandatory |-> mandatory(d)]
           second(d) == IF optional(d) = <<>> /\ ~Has(d, "advanced") THEN <<>>
                        ELSE [optional |-> optional(d)]
           none == [settings |-> <<>>]
           told == ConstraintsToChrome(c, Names)
<1>1. ASSUME NEW d, ~OldStyle(d)
      PROVE  ConstraintsToChrome(d, Names) = With(none, With(first(d), second(d)))
  BY <1>1 DEF ConstraintsToChrome, MandatoryOf
<1>2. told = With(none, With(first(c), second(c)))
  BY <1>1, ConstraintsAssumption
<1>3. DOMAIN none = {"settings"} /\ none["settings"] = <<>>
  OBVIOUS
<1>4. /\ mandatory(c) = {} => DOMAIN first(c) = {}
      /\ mandatory(c) # {} =>
           DOMAIN first(c) = {"mandatory"} /\ first(c)["mandatory"] = mandatory(c)
      /\ DOMAIN second(c) \in {{}, {"optional"}}
  <2>. HIDE DEF mandatory, optional
  <2>. QED OBVIOUS
<1> DEFINE m == mandatory(c)
           A == first(c)
           B == second(c)
<1>5. m = UNION {MandatoryOf(n, Limits(c.settings[n])) : n \in DOMAIN c.settings}
  OBVIOUS
<1>6. /\ told = With(none, With(A, B))
      /\ m = {} => DOMAIN A = {}
      /\ m # {} => DOMAIN A = {"mandatory"} /\ A["mandatory"] = m
      /\ DOMAIN B \in {{}, {"optional"}}
  BY <1>2, <1>4
<1> HIDE DEF told, none, m, A, B
<1>7. /\ DOMAIN With(A, B) = DOMAIN A \union DOMAIN B
      /\ \A f \in DOMAIN A : With(A, B)[f] = A[f]
  BY WithHas
<1>8. /\ DOMAIN told = {"settings"} \union DOMAIN A \union DOMAIN B
      /\ told["settings"] = <<>>
      /\ \A f \in DOMAIN A \ {"settings"} : told[f] = A[f]
  <2>1. /\ DOMAIN With(none, With(A, B)) = DOMAIN none \union DOMAIN With(A, B)
        /\ \A f \in DOMAIN none : With(none, With(A, B))[f] = none[f]
        /\ \A f \in DOMAIN With(A, B) \ DOMAIN none : With(none, With(A, B))[f] = With(A, B)[f]
    BY WithHas
  <2>. QED BY <1>3, <1>6, <1>7, <2>1
<1>9. Member(told, "mandatory", {}) = m
  <2>1. CASE m = {}
    <3>1. "mandatory" \notin DOMAIN told
      BY <1>6, <1>8, <2>1
    <3>. QED BY <2>1, <3>1 DEF Member, Has
  <2>2. CASE m # {}
    <3>1. "mandatory" \in DOMAIN told /\ told["mandatory"] = m
      BY <1>6, <1>8, <2>2
    <3>. QED BY <3>1 DEF Member, Has
  <2>. QED BY <2>1, <2>2
<1>10. ConstraintsToChrome(told, Names) = told
  <2>1. CASE OldStyle(told)
    BY <2>1 DEF ConstraintsToChrome
  <2>2. CASE ~OldStyle(told)
    <3>1. DOMAIN A = {} /\ DOMAIN B = {}
      BY <1>6, <1>8, <2>2 DEF OldStyle, Has
    <3>2. told = none
      <4>1. DOMAIN With(A, B) = {}
        BY <1>7, <3>1
      <4>2. told = [f \in {"settings"} |-> <<>>]
        BY <1>3, <1>6, <4>1 DEF With
      <4>. QED BY <4>2 DEF none
    <3>3. DOMAIN told.settings = {} /\ ~Has(told, "advanced")
      BY <3>2 DEF none, Has
    <3>4. mandatory(told) = {}
      BY <3>3
    <3>5. Asked(told) = <<>>
      <4>1. {i \in DOMAIN Names : Names[i] \in DOMAIN told.settings} = {}
        BY <3>3
      <4>2. Selected(Names, {}) = <<>>
        BY SelectedElements, ConstraintsAssumption
      <4>. QED BY <4>1, <4>2 DEF Filter
    <3>6. optional(told) = <<>>
      <4>1. [i \in DOMAIN Asked(told) |-> Optional(told, Asked(told)[i])] = <<>>
        <5>. HIDE DEF Optional, Asked
        <5>. QED BY <3>5
      <4>2. FlattenSeq(<<>>) = <<>>
        BY DEF FlattenSeq
      <4>3. Member(told, "advanced", <<>>) = <<>>
        BY <3>3 DEF Member
      <4>4. <<>> \o <<>> = <<>>
        OBVIOUS
      <4>. QED BY <4>1, <4>2, <4>3, <4>4
    <3>7. first(told) = <<>> /\ second(told) = <<>>
      <4>. HIDE DEF mandatory, optional
      <4>. QED BY <3>3, <3>4, <3>6
    <3>8. ConstraintsToChrome(told, Names) = With(none, With(<<>>, <<>>))
      <4>. HIDE DEF first, second
      <4>. QED BY <1>1, <2>2, <3>7
    <3>9. With(none, With(<<>>, <<>>)) = [f \in {"settings"} |-> <<>>]
      <4>1. DOMAIN With(<<>>, <<>>) = {}
        BY DEF With
      <4>. QED BY <1>3, <4>1 DEF With
    <3>10. none = [f \in {"settings"} |-> <<>>]
      BY DEF none
    <3>. QED BY <3>2, <3>8, <3>9, <3>10
  <2>. QED BY <2>1, <2>2
<1>. QED BY <1>5, <1>9, <1>10 DEF told

\* Chrome accepts what the application accepts.
LEMMA ChromeAccepts ==
  ASSUME NEW c \in Constraints, NEW n \in DOMAIN c.settings, NEW v \in Values[n]
  PROVE  Allowed(c.settings[n], v) <=> ChromeAllows(ConstraintsToChrome(c, Names), n, v)
<1> DEFINE M == UNION {MandatoryOf(k, Limits(c.settings[k])) : k \in DOMAIN c.settings}
           own == MandatoryOf(n, Limits(c.settings[n]))
<1>1. ChromeAllows(ConstraintsToChrome(c, Names), n, v) <=> \A m \in M : Meets(m, n, v)
  BY ChromeIsTold DEF ChromeAllows, Meets
<1>2. ASSUME NEW k \in DOMAIN c.settings, k # n,
             NEW m \in MandatoryOf(k, Limits(c.settings[k]))
      PROVE  Meets(m, n, v)
  <2>1. k # "sourceId" /\ n # "sourceId"
    BY ConstraintsAssumption
  <2>2. m[1] = OldName("", k) \/ m[1] = <<"min", k>> \/ m[1] = <<"max", k>>
    <3>1. OldName("min", k) = <<"min", k>> /\ OldName("max", k) = <<"max", k>>
      BY OldNames
    <3>2. \/ \E w : m = <<OldName("", k), w>>
          \/ \E w : m = <<OldName("min", k), w>> \/ m = <<OldName("max", k), w>>
      BY <1>2 DEF MandatoryOf
    <3>3. \A x, w : <<x, w>>[1] = x
      OBVIOUS
    <3>4. m[1] = OldName("", k) \/ m[1] = OldName("min", k) \/ m[1] = OldName("max", k)
      BY <3>2, <3>3
    <3>. QED BY <3>1, <3>4
  <2>3. m[1] # OldName("", n)
    BY <1>2, <2>1, <2>2, OldNames
  <2>4. m[1] # <<"min", n>> /\ m[1] # <<"max", n>>
    <3>1. OldName("", k) # <<"min", n>> /\ OldName("", k) # <<"max", n>>
      BY OldNames
    <3>2. <<"min", k>> # <<"min", n>> /\ <<"max", k>> # <<"min", n>>
          /\ <<"min", k>> # <<"max", n>> /\ <<"max", k>> # <<"max", n>>
      BY <1>2
    <3>. QED BY <2>2, <3>1, <3>2
  <2>. QED BY <2>3, <2>4 DEF Meets
<1>3. own \subseteq M
  OBVIOUS
<1>4. \A m \in M : m \in own \/ Meets(m, n, v)
  BY <1>2
<1>5. Allowed(c.settings[n], v) <=> \A m \in own : Meets(m, n, v)
  <2>1. IsAsked(c.settings[n])
    BY ConstraintsAssumption
  <2>2. (\E f \in DOMAIN c.settings[n] \ {"ideal"} : c.settings[n][f] \in Numbers) => v \in Int
    BY ValuesAssumption
  <2>. QED BY <2>1, <2>2, MandatoryMeans
<1> HIDE DEF M, own
<1>. QED BY <1>1, <1>3, <1>4, <1>5

\* What is left of a setting beside its exact and ideal value.
LeftOf(r) == Without(Limits(r), {"exact", "ideal"})

\* What Firefox is told of a setting, and which settings it is told are required.
LEMMA FirefoxIsTold ==
  ASSUME NEW c \in Constraints
  PROVE  LET told == ConstraintsToFF37(c, Names)
         IN /\ Elements(Member(told, "require", <<>>))
                 = {n \in DOMAIN c.settings :
                      {"min", "max", "exact"} \intersect DOMAIN c.settings[n] # {}}
            /\ DOMAIN told.settings
                 = {n \in DOMAIN c.settings :
                      ~(Has(c.settings[n], "ideal") /\ DOMAIN LeftOf(c.settings[n]) = {})}
            /\ \A n \in DOMAIN told.settings :
                 told.settings[n] =
                   IF Has(c.settings[n], "exact") /\ c.settings[n].exact \notin Numbers
                   THEN [text |-> c.settings[n].exact] ELSE LeftOf(c.settings[n])
<1> DEFINE asked == Filter(Names, LAMBDA n : n \in DOMAIN c.settings)
           Limited(n) == {"min", "max", "exact"} \intersect DOMAIN c.settings[n] # {}
           require == Filter(asked, Limited)
           Advanced(n) ==
             LET r == c.settings[n]
             IN IF ~Has(r, "ideal") THEN <<>>
                ELSE <<[key |-> n, value |-> IF r.ideal \in Numbers
                          THEN [min |-> r.ideal, max |-> r.ideal]
                          ELSE [text |-> r.ideal]]>>
           advanced == Member(c, "advanced", <<>>)
                         \o FlattenSeq([i \in DOMAIN asked |-> Advanced(asked[i])])
           S == [n \in {m \in DOMAIN c.settings :
                          ~(Has(c.settings[m], "ideal") /\ DOMAIN LeftOf(c.settings[m]) = {})} |->
                   IF Has(c.settings[n], "exact") /\ c.settings[n].exact \notin Numbers
                   THEN [text |-> c.settings[n].exact] ELSE LeftOf(c.settings[n])]
           A == IF require = <<>> THEN <<>> ELSE [require |-> require]
           B == IF advanced = <<>> /\ ~Has(c, "advanced") THEN <<>> ELSE [advanced |-> advanced]
           told == ConstraintsToFF37(c, Names)
<1>1. told = With([settings |-> S], With(A, B))
  <2>1. ~Has(c, "require")
    BY ConstraintsAssumption
  <2>. QED BY <2>1 DEF ConstraintsToFF37, LeftOf
<1>2. asked = Selected(Names, {i \in DOMAIN Names : Names[i] \in DOMAIN c.settings})
  BY DEF Filter
<1>3. IsList(asked) /\ Elements(asked) = DOMAIN c.settings
  <2> DEFINE I == {i \in DOMAIN Names : Names[i] \in DOMAIN c.settings}
  <2>1. IsList(Selected(Names, I)) /\ Elements(Selected(Names, I)) = {Names[i] : i \in I}
    BY SelectedElements, ConstraintsAssumption
  <2>2. {Names[i] : i \in I} = DOMAIN c.settings
    <3>1. DOMAIN c.settings \subseteq Elements(Names)
      BY ConstraintsAssumption
    <3>. QED BY <3>1 DEF Elements
  <2>. QED BY <1>2, <2>1, <2>2
<1> HIDE DEF asked
<1>4. IsList(require) /\ Elements(require) = {n \in DOMAIN c.settings : Limited(n)}
  <2> DEFINE I == {i \in DOMAIN asked : Limited(asked[i])}
  <2>1. require = Selected(asked, I)
    BY DEF Filter
  <2>2. IsList(Selected(asked, I)) /\ Elements(Selected(asked, I)) = {asked[i] : i \in I}
    <3>1. I \in SUBSET DOMAIN asked
      OBVIOUS
    <3>. HIDE DEF I
    <3>. QED BY <1>3, <3>1, SelectedElements
  <2>3. {asked[i] : i \in I} = {n \in Elements(asked) : Limited(n)}
    <3>. HIDE DEF Limited
    <3>. QED BY DEF Elements
  <2>. QED BY <1>3, <2>1, <2>2, <2>3
<1>5. /\ require = <<>> => DOMAIN A = {}
      /\ require # <<>> => DOMAIN A = {"require"} /\ A["require"] = require
      /\ DOMAIN B \in {{}, {"advanced"}}
  <2>. HIDE DEF require, advanced
  <2>. QED OBVIOUS
<1> DEFINE one == [settings |-> S]
<1>6. DOMAIN one = {"settings"} /\ one["settings"] = S /\ told = With(one, With(A, B))
  <2>. HIDE DEF S, A, B, told
  <2>. QED BY <1>1
<1>7. /\ Elements(require) = {n \in DOMAIN c.settings :
           {"min", "max", "exact"} \intersect DOMAIN c.settings[n] # {}}
      /\ DOMAIN S = {n \in DOMAIN c.settings :
           ~(Has(c.settings[n], "ideal") /\ DOMAIN LeftOf(c.settings[n]) = {})}
      /\ \A n \in DOMAIN S : S[n] =
           IF Has(c.settings[n], "exact") /\ c.settings[n].exact \notin Numbers
           THEN [text |-> c.settings[n].exact] ELSE LeftOf(c.settings[n])
  BY <1>4
<1>. HIDE DEF one, S, A, B, told, require
<1>8. /\ DOMAIN With(A, B) = DOMAIN A \union DOMAIN B
      /\ \A f \in DOMAIN A : With(A, B)[f] = A[f]
  BY WithHas
<1>9. /\ DOMAIN told = {"settings"} \union DOMAIN A \union DOMAIN B
      /\ told["settings"] = S
      /\ \A f \in DOMAIN A \ {"settings"} : told[f] = A[f]
  <2>1. /\ DOMAIN With(one, With(A, B)) = DOMAIN one \union DOMAIN With(A, B)
        /\ \A f \in DOMAIN one : With(one, With(A, B))[f] = one[f]
        /\ \A f \in DOMAIN With(A, B) \ DOMAIN one : With(one, With(A, B))[f] = With(A, B)[f]
    BY WithHas
  <2>. QED BY <1>6, <1>8, <2>1
<1>10. Elements(Member(told, "require", <<>>)) = Elements(require)
  <2>1. CASE require = <<>>
    <3>1. "require" \notin DOMAIN told
      BY <1>5, <1>9, <2>1
    <3>. QED BY <2>1, <3>1 DEF Member, Has
  <2>2. CASE require # <<>>
    <3>1. "require" \in DOMAIN told /\ told["require"] = require
      BY <1>5, <1>9, <2>2
    <3>. QED BY <3>1 DEF Member, Has
  <2>. QED BY <2>1, <2>2
<1>11. told.settings = S
  BY <1>9
<1>. QED BY <1>7, <1>10, <1>11 DEF told

\* Firefox accepts what the application accepts.
LEMMA FirefoxAccepts ==
  ASSUME NEW c \in Constraints, NEW n \in DOMAIN c.settings, NEW v \in Values[n],
         ~(Has(c.settings[n], "ideal") /\ Has(c.settings[n], "exact")
             /\ c.settings[n].exact \notin Numbers)
  PROVE  Allowed(c.settings[n], v) <=> FirefoxAllows(ConstraintsToFF37(c, Names), n, v)
<1> DEFINE r == c.settings[n]
           told == ConstraintsToFF37(c, Names)
           required == n \in Elements(Member(told, "require", <<>>)) /\ n \in DOMAIN told.settings
           text == Has(r, "exact") /\ r.exact \notin Numbers
<1>1. FirefoxAllows(told, n, v) <=>
        (required => IF Has(told.settings[n], "text") THEN v = told.settings[n].text
                     ELSE Allowed(told.settings[n], v))
  BY DEF FirefoxAllows
<1>2. /\ required <=> /\ {"min", "max", "exact"} \intersect DOMAIN r # {}
                      /\ ~(Has(r, "ideal") /\ DOMAIN LeftOf(r) = {})
      /\ required => told.settings[n] = IF text THEN [text |-> r.exact] ELSE LeftOf(r)
  BY FirefoxIsTold
<1>3. IsAsked(r)
  BY ConstraintsAssumption
<1>4. (\E f \in DOMAIN r \ {"ideal"} : r[f] \in Numbers) => v \in Int
  BY ValuesAssumption
<1>5. Numbers \subseteq Int
  BY ConstraintsAssumption
<1>6. ~(Has(r, "ideal") /\ text)
  OBVIOUS
<1> HIDE DEF r, told, required
<1>7. CASE text
  <2>1. "min" \notin DOMAIN r /\ "max" \notin DOMAIN r
    <3>1. r["exact"] \in {r[f] : f \in DOMAIN r}
      BY <1>7 DEF Has
    <3>2. DOMAIN r \subseteq {"exact", "ideal"}
      BY <1>3, <1>7, <3>1 DEF IsAsked
    <3>. QED BY <3>2
  <2>2. Allowed(r, v) <=> v = r.exact
    BY <1>7, <2>1 DEF Allowed, Has
  <2>3. required
    BY <1>2, <1>6, <1>7 DEF Has
  <2>4. told.settings[n] = [text |-> r.exact]
    BY <1>2, <1>7, <2>3
  <2>5. Has(told.settings[n], "text") /\ told.settings[n].text = r.exact
    BY <2>4 DEF Has
  <2>. QED BY <1>1, <2>2, <2>3, <2>5 DEF r, told
<1>8. CASE Has(r, "exact") /\ r.exact \in Numbers
  <2> DEFINE e == r["exact"]
             left == LeftOf(r)
  <2>1. /\ DOMAIN Limits(r) = DOMAIN r \union {"min", "max"}
        /\ Limits(r)["min"] = e /\ Limits(r)["max"] = e
    BY <1>8, LimitsHave
  <2>2. left = [f \in DOMAIN Limits(r) \ {"exact", "ideal"} |-> Limits(r)[f]]
    BY DEF LeftOf, Without
  <2>3. DOMAIN left = {"min", "max"} /\ left["min"] = e /\ left["max"] = e
    BY <1>3, <2>1, <2>2 DEF IsAsked
  <2>4. v \in Int /\ e \in Int
    <3>1. "exact" \in DOMAIN r \ {"ideal"}
      BY <1>8 DEF Has
    <3>. QED BY <1>4, <1>5, <1>8, <3>1
  <2>5. (\A f \in {"min", "max"} \intersect DOMAIN r : r[f] \in Int)
    <3>1. {r[f] : f \in DOMAIN r} \subseteq Numbers
      <4>1. r["exact"] \in {r[f] : f \in DOMAIN r} \intersect Numbers
        BY <1>8 DEF Has
      <4>. QED BY <1>3, <4>1 DEF IsAsked
    <3>. QED BY <1>5, <3>1
  <2>6. Allowed(r, v) <=> v = e
    BY <1>3, <1>8, <2>4, <2>5 DEF Allowed, IsAsked, Has
  <2> HIDE DEF left, e
  <2>7. Allowed(left, v) <=> v >= e /\ v <= e
    BY <2>3 DEF Allowed, Has
  <2>8. required /\ told.settings[n] = left
    <3>1. required
      BY <1>2, <1>8, <2>3 DEF left, Has
    <3>. QED BY <1>2, <1>8, <3>1 DEF left
  <2>9. ~Has(left, "text")
    BY <2>3 DEF Has
  <2>. QED BY <1>1, <2>4, <2>6, <2>7, <2>8, <2>9 DEF r, told
<1>9. CASE ~Has(r, "exact")
  <2> DEFINE left == LeftOf(r)
  <2>1. left = [f \in DOMAIN r \ {"exact", "ideal"} |-> r[f]]
    BY <1>9, LimitsHave DEF LeftOf, Without
  <2>2. /\ DOMAIN left = DOMAIN r \intersect {"min", "max"}
        /\ \A f \in DOMAIN left : left[f] = r[f]
    BY <1>3, <2>1 DEF IsAsked
  <2> HIDE DEF left
  <2>3. CASE DOMAIN left = {}
    <3>1. ~required
      BY <1>2, <1>9, <2>2, <2>3 DEF Has
    <3>2. Allowed(r, v)
      BY <1>9, <2>2, <2>3 DEF Allowed, Has
    <3>. QED BY <1>1, <3>1, <3>2 DEF r, told
  <2>4. CASE DOMAIN left # {}
    <3>1. required
      BY <1>2, <2>2, <2>4 DEF left
    <3>2. told.settings[n] = left
      BY <1>2, <1>9, <3>1 DEF left
    <3>3. ~Has(left, "text")
      BY <2>2 DEF Has
    <3>4. Allowed(left, v) <=> Allowed(r, v)
      BY <1>9, <2>2 DEF Allowed, Has
    <3>. QED BY <1>1, <3>1, <3>2, <3>3, <3>4 DEF r, told
  <2>. QED BY <2>3, <2>4
<1>. QED BY <1>7, <1>8, <1>9

\* Each browser accepts the values that the application accepts, and a second
\* conversion for Chrome changes nothing.
THEOREM BrowsersAskTheSame == Spec => []AskTheSame
<1>1. Init => AskTheSame
  BY DEF Init, AskTheSame
<1>2. AskTheSame /\ [Next]_vars => AskTheSame'
  <2>1. CASE UNCHANGED vars
    BY <2>1 DEF vars, AskTheSame
  <2>2. ASSUME NEW c \in Constraints, Calls("chrome", c, ConstraintsToChrome(c, Names))
        PROVE  AskTheSame'
    BY <2>2, ChromeIsTold, ChromeAccepts DEF Calls, AskTheSame
  <2>3. ASSUME NEW c \in Constraints, Calls("firefox", c, ConstraintsToFF37(c, Names))
        PROVE  AskTheSame'
    BY <2>3, FirefoxAccepts DEF Calls, AskTheSame
  <2>4. CASE Next /\ ~ConvertsForChrome /\ ~ConvertsForFirefox
    BY <2>4 DEF Next, Negotiates, ReadsSection, SendsCandidate, Calls, AskTheSame
  <2>. QED BY <2>1, <2>2, <2>3, <2>4 DEF ConvertsForChrome, ConvertsForFirefox
<1>. QED BY <1>1, <1>2, PTL DEF Spec

-----------------------------------------------------------------------------
(* Lists put one after another.                                             *)

\* What holds of 0, and of each number after one it holds of, holds up to n.
LEMMA Climb ==
  ASSUME NEW n \in Nat, NEW P, 0 \in P, \A k \in 0 .. n - 1 : k \in P => k + 1 \in P
  PROVE  \A k \in 0 .. n : k \in P
<1> DEFINE T == {k \in 0 .. n : k \notin P}
<1>1. SUFFICES ASSUME T # {} PROVE FALSE
  OBVIOUS
<1>2. T \in SUBSET Nat
  OBVIOUS
<1>3. PICK k \in T : \A j \in T : k <= j
  BY <1>1, <1>2, Smallest
<1>4. k \in 0 .. n /\ k \notin P /\ k # 0
  BY <1>3
<1>5. k - 1 \in 0 .. n - 1 /\ k - 1 \in 0 .. n /\ ~(k <= k - 1) /\ (k - 1) + 1 = k
  BY <1>4
<1>6. k - 1 \in P
  BY <1>3, <1>5
<1>. QED BY <1>4, <1>5, <1>6

\* The lists that FlattenSeq makes on its way.
Steps(h, ss, n) ==
  h = [i \in 1 .. n |-> IF i = 1 THEN ss[i] ELSE h[i - 1] \o ss[i]]

\* There are such lists: FlattenSeq makes each from the one before.
LEMMA StepsExist ==
  ASSUME NEW S, NEW n \in Nat, NEW ss \in [1 .. n -> Seq(S)]
  PROVE  \E h : Steps(h, ss, n)
<1> DEFINE P == {k \in 0 .. n : \E h \in [1 .. k -> Seq(S)] : Steps(h, ss, k)}
<1>1. 0 \in P
  <2> DEFINE e == [i \in 1 .. 0 |-> <<>>]
  <2>1. e \in [1 .. 0 -> Seq(S)]
    OBVIOUS
  <2>2. Steps(e, ss, 0)
    BY DEF Steps
  <2>3. 0 \in 0 .. n
    OBVIOUS
  <2>4. \E h \in [1 .. 0 -> Seq(S)] : Steps(h, ss, 0)
    <3>. HIDE DEF e
    <3>. QED BY <2>1, <2>2
  <2>. QED BY <2>3, <2>4
<1>2. ASSUME NEW k \in 0 .. n - 1, k \in P PROVE k + 1 \in P
  <2>1. PICK h \in [1 .. k -> Seq(S)] : Steps(h, ss, k)
    BY <1>2
  <2> DEFINE next == IF k = 0 THEN ss[k + 1] ELSE h[k] \o ss[k + 1]
             g == [i \in 1 .. k + 1 |-> IF i = k + 1 THEN next ELSE h[i]]
  <2>2. k + 1 \in 1 .. n /\ ss[k + 1] \in Seq(S)
    OBVIOUS
  <2>3. next \in Seq(S)
    BY <2>2
  <2>4. g \in [1 .. k + 1 -> Seq(S)]
    <3>. HIDE DEF next
    <3>. QED BY <2>3
  <2>5. ASSUME NEW i \in 1 .. k + 1
        PROVE  g[i] = IF i = 1 THEN ss[i] ELSE g[i - 1] \o ss[i]
    <3>1. CASE i = k + 1
      <4>1. i # 1 => k \in 1 .. k + 1 /\ k # k + 1 /\ i - 1 = k /\ g[k] = h[k]
        BY <3>1
      <4>. QED BY <3>1, <4>1
    <3>2. CASE i # k + 1
      <4>1. i \in 1 .. k /\ g[i] = h[i]
        BY <3>2
      <4>2. i # 1 => i - 1 \in 1 .. k /\ i - 1 # k + 1 /\ g[i - 1] = h[i - 1]
        BY <4>1
      <4>3. h[i] = IF i = 1 THEN ss[i] ELSE h[i - 1] \o ss[i]
        BY <2>1, <4>1 DEF Steps
      <4>. HIDE DEF g
      <4>. QED BY <4>1, <4>2, <4>3
    <3>. QED BY <3>1, <3>2
  <2>6. Steps(g, ss, k + 1)
    <3>1. g = [i \in 1 .. k + 1 |-> g[i]]
      OBVIOUS
    <3>. HIDE DEF g
    <3>. QED BY <2>5, <3>1 DEF Steps
  <2>7. k + 1 \in 0 .. n
    OBVIOUS
  <2>. HIDE DEF g
  <2>. QED BY <2>4, <2>6, <2>7
<1>3. n \in P
  <2>. HIDE DEF P
  <2>1. \A k \in 0 .. n : k \in P
    BY <1>1, <1>2, Climb
  <2>2. n \in 0 .. n
    OBVIOUS
  <2>. QED BY <2>1, <2>2
<1>. QED BY <1>3

\* The last of them is what FlattenSeq returns.
LEMMA FlattenSteps ==
  ASSUME NEW S, NEW n \in Nat, n # 0, NEW ss \in [1 .. n -> Seq(S)]
  PROVE  \E h \in [1 .. n -> Seq(S)] : Steps(h, ss, n) /\ FlattenSeq(ss) = h[n]
<1> DEFINE h == CHOOSE f : Steps(f, ss, n)
<1>1. Steps(h, ss, n)
  BY StepsExist
<1>2. Len(ss) = n
  <2>1. ss \in Seq(Seq(S))
    BY SeqDef
  <2>. QED BY <2>1
<1>3. FlattenSeq(ss) = h[n]
  BY <1>2 DEF FlattenSeq, Steps
<1> HIDE DEF h
<1> DEFINE P == {k \in 0 .. n : k # 0 => h[k] \in Seq(S)}
<1>4. 0 \in P
  OBVIOUS
<1>5. ASSUME NEW k \in 0 .. n - 1, k \in P PROVE k + 1 \in P
  <2>1. k + 1 \in 1 .. n /\ (k + 1) - 1 = k
    OBVIOUS
  <2>2. h[k + 1] = IF k + 1 = 1 THEN ss[k + 1] ELSE h[(k + 1) - 1] \o ss[k + 1]
    BY <1>1, <2>1 DEF Steps
  <2>3. h[k + 1] \in Seq(S)
    <3>1. CASE k = 0
      BY <2>1, <2>2, <3>1
    <3>2. CASE k # 0
      <4>1. h[k] \in Seq(S) /\ ss[k + 1] \in Seq(S)
        BY <1>5, <2>1, <3>2
      <4>2. k + 1 # 1
        BY <3>2
      <4>3. h[k + 1] = h[(k + 1) - 1] \o ss[k + 1]
        BY <2>2, <4>2
      <4>4. (k + 1) - 1 = k
        BY <2>1
      <4>5. h[k + 1] = h[k] \o ss[k + 1]
        BY <4>3, <4>4
      <4>. QED BY <4>1, <4>5
    <3>. QED BY <3>1, <3>2
  <2>. QED BY <2>1, <2>3
<1>6. \A k \in 0 .. n : k \in P
  <2>. HIDE DEF P
  <2>. QED BY <1>4, <1>5, Climb
<1>7. \A k \in 1 .. n : h[k] \in Seq(S)
  BY <1>6
<1>8. h = [i \in 1 .. n |-> h[i]]
  BY <1>1 DEF Steps
<1>9. h \in [1 .. n -> Seq(S)]
  BY <1>7, <1>8
<1>. QED BY <1>1, <1>3, <1>9

\* g[k] is the list of the first k lists.
SoFar(g, ss, n) ==
  /\ g[0] = <<>> /\ g[n] = FlattenSeq(ss)
  /\ \A k \in 0 .. n - 1 : g[k + 1] = g[k] \o ss[k + 1]

\* There are such lists, also where there is nothing to join.
LEMMA JoinedSoFar ==
  ASSUME NEW S, NEW n \in Nat, NEW ss \in [1 .. n -> Seq(S)]
  PROVE  \E g \in [0 .. n -> Seq(S)] : SoFar(g, ss, n)
<1>1. CASE n = 0
  <2> DEFINE g == [k \in 0 .. 0 |-> <<>>]
  <2>1. ss = <<>>
    <3>1. ss \in Seq(Seq(S)) /\ Len(ss) = 0
      BY <1>1, SeqDef
    <3>. QED BY <3>1
  <2>2. FlattenSeq(ss) = <<>>
    BY <2>1 DEF FlattenSeq
  <2>3. g \in [0 .. n -> Seq(S)] /\ g[0] = <<>> /\ g[n] = <<>>
    BY <1>1
  <2>4. 0 .. n - 1 = {}
    BY <1>1
  <2>. HIDE DEF g
  <2>. QED BY <2>2, <2>3, <2>4 DEF SoFar
<1>2. CASE n # 0
  <2>1. PICK h \in [1 .. n -> Seq(S)] : Steps(h, ss, n) /\ FlattenSeq(ss) = h[n]
    BY <1>2, FlattenSteps
  <2> DEFINE g == [k \in 0 .. n |-> IF k = 0 THEN <<>> ELSE h[k]]
  <2>2. g \in [0 .. n -> Seq(S)]
    <3>1. <<>> \in Seq(S)
      OBVIOUS
    <3>2. \A k \in 0 .. n : k # 0 => k \in 1 .. n /\ h[k] \in Seq(S)
      OBVIOUS
    <3>. QED BY <3>1, <3>2
  <2>3. 0 \in 0 .. n /\ n \in 0 .. n
    OBVIOUS
  <2>4. g[0] = <<>> /\ g[n] = FlattenSeq(ss)
    BY <1>2, <2>1, <2>3
  <2>5. ASSUME NEW k \in 0 .. n - 1 PROVE g[k + 1] = g[k] \o ss[k + 1]
    <3>1. k + 1 \in 1 .. n /\ k + 1 \in 0 .. n /\ k \in 0 .. n /\ k + 1 # 0 /\ (k + 1) - 1 = k
      OBVIOUS
    <3>2. h[k + 1] = IF k + 1 = 1 THEN ss[k + 1] ELSE h[(k + 1) - 1] \o ss[k + 1]
      BY <2>1, <3>1 DEF Steps
    <3>3. g[k + 1] = h[k + 1]
      BY <3>1
    <3>4. CASE k = 0
      <4>1. g[k] = <<>> /\ h[k + 1] = ss[k + 1]
        BY <2>4, <3>2, <3>4
      <4>2. ss[k + 1] \in Seq(S)
        BY <3>1
      <4>3. <<>> \o ss[k + 1] = ss[k + 1]
        BY <4>2
      <4>. HIDE DEF g
      <4>. QED BY <3>3, <4>1, <4>3
    <3>5. CASE k # 0
      <4>1. k + 1 # 1
        BY <3>5
      <4>2. h[k + 1] = h[(k + 1) - 1] \o ss[k + 1]
        BY <3>2, <4>1
      <4>3. g[k] = h[k]
        BY <3>1, <3>5
      <4>. HIDE DEF g
      <4>. QED BY <3>1, <3>3, <4>2, <4>3
    <3>. QED BY <3>4, <3>5
  <2>. HIDE DEF g
  <2>. QED BY <2>2, <2>4, <2>5 DEF SoFar
<1>. QED BY <1>1, <1>2

\* F is made of the lists of ss, the i-th of which starts after off[i].
IsJoined(F, ss, off, n) ==
  /\ \A i \in 1 .. n : \A j \in 1 .. Len(ss[i]) :
       off[i] + j \in 1 .. Len(F) /\ F[off[i] + j] = ss[i][j]
  /\ \A m \in 1 .. Len(F) : \E i \in 1 .. n : \E j \in 1 .. Len(ss[i]) : m = off[i] + j

\* The lists stand in their order, with nothing between them.
LEMMA FlattenIs ==
  ASSUME NEW S, NEW n \in Nat, NEW ss \in [1 .. n -> Seq(S)]
  PROVE  /\ FlattenSeq(ss) \in Seq(S)
         /\ \E off \in [1 .. n -> Nat] : IsJoined(FlattenSeq(ss), ss, off, n)
<1>1. PICK g \in [0 .. n -> Seq(S)] : SoFar(g, ss, n)
  BY JoinedSoFar
<1> DEFINE off == [i \in 1 .. n |-> Len(g[i - 1])]
<1>2. off \in [1 .. n -> Nat]
  <2>1. \A i \in 1 .. n : i - 1 \in 0 .. n /\ g[i - 1] \in Seq(S) /\ Len(g[i - 1]) \in Nat
    OBVIOUS
  <2>. QED BY <2>1
<1>3. ASSUME NEW k \in 0 .. n - 1
      PROVE  /\ k \in 0 .. n /\ k + 1 \in 0 .. n /\ k + 1 \in 1 .. n
             /\ off[k + 1] = Len(g[k])
             /\ g[k] \in Seq(S) /\ ss[k + 1] \in Seq(S) /\ g[k + 1] = g[k] \o ss[k + 1]
  <2>1. k \in 0 .. n /\ k + 1 \in 0 .. n /\ k + 1 \in 1 .. n /\ (k + 1) - 1 = k
    OBVIOUS
  <2>. QED BY <1>1, <2>1 DEF SoFar
<1> HIDE DEF off
<1> DEFINE Holds(k) ==
      /\ \A i \in 1 .. k : \A j \in 1 .. Len(ss[i]) :
           off[i] + j \in 1 .. Len(g[k]) /\ g[k][off[i] + j] = ss[i][j]
      /\ \A m \in 1 .. Len(g[k]) : \E i \in 1 .. k : \E j \in 1 .. Len(ss[i]) : m = off[i] + j
    P == {k \in 0 .. n : Holds(k)}
<1>4. 0 \in P
  <2>1. Len(g[0]) = 0 /\ 0 \in 0 .. n /\ 1 .. 0 = {}
    BY <1>1 DEF SoFar
  <2>2. Holds(0)
    BY <2>1
  <2>. QED BY <2>1, <2>2
<1>5. ASSUME NEW k \in 0 .. n - 1, k \in P PROVE k + 1 \in P
  <2> DEFINE a == Len(g[k])
             b == Len(ss[k + 1])
  <2>1. /\ k \in 0 .. n /\ k + 1 \in 0 .. n /\ k + 1 \in 1 .. n
        /\ off[k + 1] = a /\ a \in Nat /\ b \in Nat
        /\ Len(g[k + 1]) = a + b
        /\ \A m \in 1 .. a : g[k + 1][m] = g[k][m]
        /\ \A j \in 1 .. b : g[k + 1][a + j] = ss[k + 1][j]
    <3>1. /\ k \in 0 .. n /\ k + 1 \in 0 .. n /\ k + 1 \in 1 .. n
          /\ off[k + 1] = Len(g[k])
          /\ g[k] \in Seq(S) /\ ss[k + 1] \in Seq(S) /\ g[k + 1] = g[k] \o ss[k + 1]
      BY <1>3
    <3>2. a \in Nat /\ b \in Nat
      BY <3>1
    <3>3. Len(g[k + 1]) = a + b
      BY <3>1
    <3>4. \A m \in 1 .. a : g[k + 1][m] = g[k][m]
      BY <3>1
    <3>. HIDE DEF a, b
    <3>5. \A j \in 1 .. b : a + j \in 1 .. a + b /\ a + j > a /\ (a + j) - a = j
      BY <3>2
    <3>6. \A j \in 1 .. b : g[k + 1][a + j] = ss[k + 1][j]
      BY <3>1, <3>5 DEF a, b
    <3>. QED BY <3>1, <3>2, <3>3, <3>4, <3>6 DEF a, b
  <2> HIDE DEF a, b
  <2>2. Holds(k)
    BY <1>5
  <2>3. \A i \in 1 .. k + 1 : (i \in 1 .. k /\ i # k + 1) \/ i = k + 1
    BY <2>1
  <2>4. ASSUME NEW i \in 1 .. k + 1, NEW j \in 1 .. Len(ss[i])
        PROVE  off[i] + j \in 1 .. Len(g[k + 1]) /\ g[k + 1][off[i] + j] = ss[i][j]
    <3>1. CASE i = k + 1
      <4>1. j \in 1 .. b /\ off[i] = a /\ a + j \in 1 .. a + b
        BY <2>1, <3>1 DEF b
      <4>. QED BY <2>1, <3>1, <4>1
    <3>2. CASE i \in 1 .. k
      <4>1. off[i] + j \in 1 .. a /\ g[k][off[i] + j] = ss[i][j]
        BY <2>2, <3>2 DEF a
      <4>2. \A m \in 1 .. a : m \in 1 .. a + b
        BY <2>1
      <4>3. g[k + 1][off[i] + j] = g[k][off[i] + j]
        BY <2>1, <4>1
      <4>. QED BY <2>1, <4>1, <4>2, <4>3
    <3>. QED BY <2>3, <3>1, <3>2
  <2>5. ASSUME NEW m \in 1 .. Len(g[k + 1])
        PROVE  \E i \in 1 .. k + 1 : \E j \in 1 .. Len(ss[i]) : m = off[i] + j
    <3>1. CASE m <= a
      <4>1. m \in 1 .. a
        BY <2>1, <3>1
      <4>2. PICK i \in 1 .. k : \E j \in 1 .. Len(ss[i]) : m = off[i] + j
        BY <2>2, <4>1 DEF a
      <4>3. i \in 1 .. k + 1
        OBVIOUS
      <4>. QED BY <4>2, <4>3
    <3>2. CASE ~(m <= a)
      <4>1. m - a \in 1 .. b /\ m = a + (m - a)
        BY <2>1, <3>2
      <4>2. k + 1 \in 1 .. k + 1
        OBVIOUS
      <4>. QED BY <2>1, <4>1, <4>2 DEF b
    <3>. QED BY <3>1, <3>2
  <2>6. Holds(k + 1)
    BY <2>4, <2>5
  <2>. HIDE DEF Holds
  <2>. QED BY <2>1, <2>6
<1>6. Holds(n)
  <2>. HIDE DEF Holds
  <2>1. \A k \in 0 .. n : k \in P
    <3>. HIDE DEF P
    <3>. QED BY <1>4, <1>5, Climb
  <2>2. n \in 0 .. n
    OBVIOUS
  <2>. QED BY <2>1, <2>2
<1>7. n \in 0 .. n /\ g[n] \in Seq(S) /\ g[n] = FlattenSeq(ss)
  BY <1>1 DEF SoFar
<1>8. IsJoined(g[n], ss, off, n)
  BY <1>6 DEF IsJoined
<1>. QED BY <1>2, <1>7, <1>8

-----------------------------------------------------------------------------
(* Codecs: what is read from the lines that were written.                   *)

IsCodec(c) ==
  /\ IsRecord(c, {"name", "clockRate", "numChannels", "payloadType",
                  "preferredPayloadType", "parameters", "rtcpFeedback"})
  /\ c.parameters = [k \in DOMAIN c.parameters |-> <<c.parameters[k][1]>>]
  /\ IsList(c.rtcpFeedback)

\* A codec as it is read: its payload type is the one that was written.
Read(c) == [c EXCEPT !.payloadType = PayloadType(c), !.preferredPayloadType = Undefined]

\* The lines of a codec.
Block(c) == <<WriteRtpMap(c)>> \o WriteFmtp(c) \o WriteRtcpFb(c)

\* The rtpmap line comes first, then the fmtp line if there is one, then the
\* feedback.
LEMMA BlockIs ==
  ASSUME NEW c, IsCodec(c)
  PROVE  LET f == Len(WriteFmtp(c))
             m == Len(c.rtcpFeedback)
         IN /\ f \in {0, 1} /\ m \in Nat
            /\ f = 0 <=> DOMAIN c.parameters = {}
            /\ IsList(Block(c)) /\ Len(Block(c)) = 1 + f + m
            /\ Block(c)[1] = WriteRtpMap(c)
            /\ f = 1 => Block(c)[2] = WriteFmtp(c)[1]
            /\ \A j \in 1 .. m : Block(c)[1 + f + j] = WriteRtcpFb(c)[j]
<1> DEFINE f == Len(WriteFmtp(c))
           m == Len(c.rtcpFeedback)
           r == WriteRtpMap(c)
           line == [a |-> "fmtp", pt |-> PayloadType(c),
                    parameters |-> [k \in DOMAIN c.parameters |->
                      IF c.parameters[k] = <<>> THEN <<"undefined">> ELSE c.parameters[k]]]
           w == WriteFmtp(c)
           b == WriteRtcpFb(c)
           S == {r, line} \cup Elements(b)
<1>1. w = IF DOMAIN c.parameters = {} THEN <<>> ELSE <<line>>
  BY DEF WriteFmtp
<1>2. m \in Nat /\ DOMAIN c.rtcpFeedback = 1 .. m
  BY DEF IsCodec, IsList
<1>3. b \in Seq(S) /\ Len(b) = m
  <2>1. DOMAIN b = 1 .. m
    BY <1>2 DEF WriteRtcpFb
  <2>2. b = [i \in 1 .. m |-> b[i]]
    BY <1>2 DEF WriteRtcpFb
  <2>3. \A i \in 1 .. m : b[i] \in S
    BY <2>1 DEF Elements
  <2>4. b \in [1 .. m -> S]
    <3>. HIDE DEF b, S, m
    <3>. QED BY <2>2, <2>3
  <2>. HIDE DEF b, S, m
  <2>. QED BY <1>2, <2>4, SeqDef
<1> HIDE DEF r, line, b
<1>4. w \in Seq(S) /\ <<r>> \in Seq(S) /\ f \in {0, 1}
  <2>1. r \in S /\ line \in S
    OBVIOUS
  <2>. HIDE DEF S, w
  <2>2. CASE DOMAIN c.parameters = {}
    BY <1>1, <2>1, <2>2 DEF w
  <2>3. CASE DOMAIN c.parameters # {}
    BY <1>1, <2>1, <2>3 DEF w
  <2>. QED BY <2>2, <2>3
<1>5. f = 0 <=> DOMAIN c.parameters = {}
  <2>1. Len(<<line>>) = 1
    OBVIOUS
  <2>. QED BY <1>1, <2>1
<1> HIDE DEF S, w
<1>6. Block(c) = <<r>> \o w \o b
  BY DEF Block, r, w, b
<1>7. Len(w) = f
  BY DEF w
<1> HIDE DEF f, m
<1>8. /\ <<r>> \o w \in Seq(S) /\ Len(<<r>> \o w) = 1 + f
      /\ (<<r>> \o w)[1] = r /\ (f = 1 => (<<r>> \o w)[2] = w[1])
  BY <1>4, <1>7
<1>9. Block(c) \in Seq(S) /\ Len(Block(c)) = 1 + f + m
  BY <1>3, <1>4, <1>6, <1>8
<1>10. Block(c)[1] = r /\ (f = 1 => Block(c)[2] = w[1])
  <2>1. 1 \in 1 .. 1 + f
    BY <1>4
  <2>2. \A i \in 1 .. 1 + f : Block(c)[i] = (<<r>> \o w)[i]
    BY <1>3, <1>4, <1>6, <1>8
  <2>. QED BY <1>8, <2>1, <2>2
<1>11. ASSUME NEW j \in 1 .. m PROVE Block(c)[1 + f + j] = b[j]
  <2>1. 1 + f + j \in 1 .. 1 + f + m /\ 1 + f + j > 1 + f /\ (1 + f + j) - (1 + f) = j
    BY <1>2, <1>4
  <2>. QED BY <1>2, <1>3, <1>4, <1>6, <1>8, <2>1, SMTT(30)
<1>12. IsList(Block(c))
  BY <1>9 DEF IsList, Elements
<1>13. w = WriteFmtp(c) /\ b = WriteRtcpFb(c) /\ r = WriteRtpMap(c)
  BY DEF w, b, r
<1>14. /\ f \in {0, 1} /\ m \in Nat
       /\ f = 0 <=> DOMAIN c.parameters = {}
       /\ IsList(Block(c)) /\ Len(Block(c)) = 1 + f + m
       /\ Block(c)[1] = WriteRtpMap(c)
       /\ f = 1 => Block(c)[2] = WriteFmtp(c)[1]
       /\ \A j \in 1 .. m : Block(c)[1 + f + j] = WriteRtcpFb(c)[j]
  BY <1>2, <1>4, <1>5, <1>9, <1>10, <1>11, <1>12, <1>13
<1>. QED BY <1>14 DEF f, m

CodecLines == {"rtpmap", "fmtp", "rtcp-fb"}

\* A list that can be written: a payload type is one codec's, and a codec that
\* is listed more than once has no feedback.
IsWritable(C) ==
  /\ IsList(C)
  /\ \A c \in Elements(C) : IsCodec(c)
  /\ \A i, j \in DOMAIN C : PayloadType(C[i]) = PayloadType(C[j]) =>
       C[i] = C[j] /\ (i = j \/ C[i].rtcpFeedback = <<>>)

Written(C) == FlattenSeq([i \in DOMAIN C |-> Block(C[i])])

\* Where the lines of the codecs of C are in F.
Places(C, F, off) ==
  /\ \A i \in DOMAIN C :
       /\ off[i] + 1 \in DOMAIN F /\ F[off[i] + 1] = WriteRtpMap(C[i])
       /\ Len(WriteFmtp(C[i])) = 1 =>
            off[i] + 2 \in DOMAIN F /\ F[off[i] + 2] = WriteFmtp(C[i])[1]
       /\ \A j \in 1 .. Len(C[i].rtcpFeedback) :
            LET x == off[i] + (1 + Len(WriteFmtp(C[i])) + j)
            IN x \in DOMAIN F /\ F[x] = WriteRtcpFb(C[i])[j]
  /\ \A x \in DOMAIN F : \E i \in DOMAIN C :
       \/ x = off[i] + 1
       \/ Len(WriteFmtp(C[i])) = 1 /\ x = off[i] + 2
       \/ \E j \in 1 .. Len(C[i].rtcpFeedback) :
            x = off[i] + (1 + Len(WriteFmtp(C[i])) + j)

\* What is written of codecs is their lines in their order and nothing else.
LEMMA WrittenIs ==
  ASSUME NEW C, IsList(C), \A c \in Elements(C) : IsCodec(c)
  PROVE  /\ IsList(Written(C))
         /\ \E off \in [DOMAIN C -> Nat] : Places(C, Written(C), off)
<1> DEFINE n == Len(C)
           ss == [i \in DOMAIN C |-> Block(C[i])]
           S == UNION {Elements(ss[i]) : i \in DOMAIN C}
           F == Written(C)
<1>1. n \in Nat /\ DOMAIN C = 1 .. n
  BY DEF IsList
<1>2. \A i \in DOMAIN C : IsCodec(C[i])
  BY DEF Elements
<1>3. ASSUME NEW i \in DOMAIN C PROVE ss[i] = Block(C[i]) /\ ss[i] \in Seq(S)
  <2>1. IsList(Block(C[i]))
    BY <1>2, BlockIs
  <2>2. Elements(ss[i]) \in SUBSET S
    OBVIOUS
  <2>3. Block(C[i]) \in Seq(Elements(Block(C[i])))
    BY <2>1 DEF IsList
  <2>4. \A T, U, s : T \in SUBSET U /\ s \in Seq(T) => s \in Seq(U)
    OBVIOUS
  <2>5. ss[i] = Block(C[i])
    OBVIOUS
  <2>. HIDE DEF ss, S
  <2>. QED BY <2>2, <2>3, <2>4, <2>5
<1>4. ss \in [1 .. n -> Seq(S)]
  BY <1>1, <1>3
<1>5. F = FlattenSeq(ss)
  BY DEF Written
<1> HIDE DEF ss, S, F
<1>6. F \in Seq(S) /\ \E off \in [1 .. n -> Nat] : IsJoined(F, ss, off, n)
  BY <1>1, <1>4, <1>5, FlattenIs
<1>7. PICK off \in [1 .. n -> Nat] : IsJoined(F, ss, off, n)
  BY <1>6
<1>8. IsList(F) /\ DOMAIN F = 1 .. Len(F)
  BY <1>6 DEF IsList, Elements
<1>9. ASSUME NEW i \in DOMAIN C
      PROVE  LET f == Len(WriteFmtp(C[i]))
                 m == Len(C[i].rtcpFeedback)
             IN /\ f \in {0, 1} /\ m \in Nat
                /\ Len(ss[i]) = 1 + f + m
                /\ ss[i][1] = WriteRtpMap(C[i])
                /\ f = 1 => ss[i][2] = WriteFmtp(C[i])[1]
                /\ \A j \in 1 .. m : ss[i][1 + f + j] = WriteRtcpFb(C[i])[j]
  <2>1. LET f == Len(WriteFmtp(C[i]))
            m == Len(C[i].rtcpFeedback)
        IN /\ f \in {0, 1} /\ m \in Nat
           /\ Len(Block(C[i])) = 1 + f + m
           /\ Block(C[i])[1] = WriteRtpMap(C[i])
           /\ f = 1 => Block(C[i])[2] = WriteFmtp(C[i])[1]
           /\ \A j \in 1 .. m : Block(C[i])[1 + f + j] = WriteRtcpFb(C[i])[j]
    BY <1>2, BlockIs
  <2>. QED BY <1>3, <2>1
<1>10. ASSUME NEW i \in DOMAIN C
       PROVE  /\ off[i] + 1 \in DOMAIN F /\ F[off[i] + 1] = WriteRtpMap(C[i])
              /\ Len(WriteFmtp(C[i])) = 1 =>
                   off[i] + 2 \in DOMAIN F /\ F[off[i] + 2] = WriteFmtp(C[i])[1]
              /\ \A j \in 1 .. Len(C[i].rtcpFeedback) :
                   LET x == off[i] + (1 + Len(WriteFmtp(C[i])) + j)
                   IN x \in DOMAIN F /\ F[x] = WriteRtcpFb(C[i])[j]
  <2> DEFINE f == Len(WriteFmtp(C[i]))
             m == Len(C[i].rtcpFeedback)
  <2>1. /\ f \in {0, 1} /\ m \in Nat
        /\ Len(ss[i]) = 1 + f + m
        /\ ss[i][1] = WriteRtpMap(C[i])
        /\ f = 1 => ss[i][2] = WriteFmtp(C[i])[1]
        /\ \A j \in 1 .. m : ss[i][1 + f + j] = WriteRtcpFb(C[i])[j]
    BY <1>9
  <2>2. \A j \in 1 .. 1 + f + m : off[i] + j \in DOMAIN F /\ F[off[i] + j] = ss[i][j]
    <3>1. i \in 1 .. n /\ 1 .. 1 + f + m = 1 .. Len(ss[i])
      BY <1>1, <2>1
    <3>2. \A j \in 1 .. Len(ss[i]) : off[i] + j \in 1 .. Len(F) /\ F[off[i] + j] = ss[i][j]
      BY <1>7, <3>1 DEF IsJoined
    <3>. HIDE DEF f, m
    <3>. QED BY <1>8, <3>1, <3>2
  <2> SUFFICES /\ off[i] + 1 \in DOMAIN F /\ F[off[i] + 1] = WriteRtpMap(C[i])
               /\ f = 1 => off[i] + 2 \in DOMAIN F /\ F[off[i] + 2] = WriteFmtp(C[i])[1]
               /\ \A j \in 1 .. m : /\ off[i] + (1 + f + j) \in DOMAIN F
                                    /\ F[off[i] + (1 + f + j)] = WriteRtcpFb(C[i])[j]
    OBVIOUS
  <2> HIDE DEF f, m
  <2>3. 1 \in 1 .. 1 + f + m /\ (f = 1 => 2 \in 1 .. 1 + f + m)
    BY <2>1
  <2>4. \A j \in 1 .. m : 1 + f + j \in 1 .. 1 + f + m
    BY <2>1
  <2>. QED BY <2>1, <2>2, <2>3, <2>4
<1>11. ASSUME NEW x \in DOMAIN F
       PROVE  \E i \in DOMAIN C :
                \/ x = off[i] + 1
                \/ Len(WriteFmtp(C[i])) = 1 /\ x = off[i] + 2
                \/ \E j \in 1 .. Len(C[i].rtcpFeedback) :
                     x = off[i] + (1 + Len(WriteFmtp(C[i])) + j)
  <2>1. PICK i \in 1 .. n : \E j \in 1 .. Len(ss[i]) : x = off[i] + j
    BY <1>7, <1>8 DEF IsJoined
  <2>2. PICK j \in 1 .. Len(ss[i]) : x = off[i] + j
    BY <2>1
  <2> DEFINE f == Len(WriteFmtp(C[i]))
             m == Len(C[i].rtcpFeedback)
  <2>3. f \in {0, 1} /\ m \in Nat /\ j \in 1 .. 1 + f + m
    BY <1>1, <1>9
  <2>4. j = 1 \/ (f = 1 /\ j = 2) \/ \E k \in 1 .. m : j = 1 + f + k
    <3>. HIDE DEF f, m
    <3>1. j > 1 + f => j - (1 + f) \in 1 .. m /\ j = 1 + f + (j - (1 + f))
      BY <2>3
    <3>2. j <= 1 + f => j = 1 \/ (f = 1 /\ j = 2)
      BY <2>3
    <3>3. j > 1 + f \/ j <= 1 + f
      BY <2>3
    <3>. QED BY <3>1, <3>2, <3>3
  <2>. QED BY <1>1, <2>2, <2>4
<1>12. Places(C, F, off)
  BY <1>10, <1>11 DEF Places
<1>. QED BY <1>1, <1>7, <1>8, <1>12 DEF F

\* The lines about one payload type.
About(lines, a, pt) == {x \in DOMAIN lines : lines[x].a = a /\ lines[x].pt = pt}

\* OfPayload finds these lines.
LEMMA OfPayloadIs ==
  ASSUME NEW lines, NEW a, NEW pt
  PROVE  OfPayload(lines, a, pt) = Selected(lines, About(lines, a, pt))
BY DEF OfPayload, Filter, About

\* A line of a codec has its payload type.
LEMMA LineOf ==
  ASSUME NEW c
  PROVE  /\ WriteRtpMap(c).a = "rtpmap" /\ WriteRtpMap(c).pt = PayloadType(c)
         /\ Len(WriteFmtp(c)) = 1 =>
              WriteFmtp(c)[1].a = "fmtp" /\ WriteFmtp(c)[1].pt = PayloadType(c)
         /\ IsCodec(c) => \A j \in 1 .. Len(c.rtcpFeedback) :
              /\ WriteRtcpFb(c)[j].a = "rtcp-fb" /\ WriteRtcpFb(c)[j].pt = PayloadType(c)
              /\ WriteRtcpFb(c)[j].feedback = c.rtcpFeedback[j]
<1>1. WriteRtpMap(c).a = "rtpmap" /\ WriteRtpMap(c).pt = PayloadType(c)
  BY DEF WriteRtpMap
<1>2. ASSUME Len(WriteFmtp(c)) = 1
      PROVE  WriteFmtp(c)[1].a = "fmtp" /\ WriteFmtp(c)[1].pt = PayloadType(c)
  <2>1. DOMAIN c.parameters # {}
    <3>1. Len(<<>>) # 1
      OBVIOUS
    <3>. QED BY <1>2, <3>1 DEF WriteFmtp
  <2>. QED BY <2>1 DEF WriteFmtp
<1>3. ASSUME IsCodec(c), NEW j \in 1 .. Len(c.rtcpFeedback)
      PROVE  /\ WriteRtcpFb(c)[j].a = "rtcp-fb" /\ WriteRtcpFb(c)[j].pt = PayloadType(c)
             /\ WriteRtcpFb(c)[j].feedback = c.rtcpFeedback[j]
  <2>1. j \in DOMAIN c.rtcpFeedback
    BY <1>3 DEF IsCodec, IsList
  <2>. QED BY <2>1 DEF WriteRtcpFb
<1>. QED BY <1>1, <1>2, <1>3

\* parseRtpMap and parseFmtp undo writeRtpMap and writeFmtp.
LEMMA ParseUndoesWrite ==
  ASSUME NEW c, IsCodec(c)
  PROVE  ParseRtpMap(WriteRtpMap(c),
           IF WriteFmtp(c) = <<>> THEN <<>> ELSE ParseFmtp(WriteFmtp(c)[1]),
           c.rtcpFeedback) = Read(c)
<1> DEFINE l == WriteRtpMap(c)
           p == IF WriteFmtp(c) = <<>> THEN <<>> ELSE ParseFmtp(WriteFmtp(c)[1])
<1>1. l.pt = PayloadType(c) /\ l.name = c.name /\ l.clockRate = c.clockRate
  BY DEF WriteRtpMap
<1>2. (IF l.channels = <<>> THEN 1 ELSE Head(l.channels)) = c.numChannels
  <2>1. l.channels = IF c.numChannels # 1 THEN <<c.numChannels>> ELSE <<>>
    BY DEF WriteRtpMap
  <2>2. <<c.numChannels>> # <<>> /\ Head(<<c.numChannels>>) = c.numChannels
    OBVIOUS
  <2>. QED BY <2>1, <2>2
<1>3. p = c.parameters
  <2> DEFINE q == c.parameters
  <2>1. q = [k \in DOMAIN q |-> <<q[k][1]>>]
    BY DEF IsCodec
  <2>2. CASE DOMAIN q = {}
    <3>1. WriteFmtp(c) = <<>>
      BY <2>2 DEF WriteFmtp
    <3>2. q = <<>>
      BY <2>1, <2>2
    <3>. QED BY <3>1, <3>2
  <2>3. CASE DOMAIN q # {}
    <3> DEFINE line == [a |-> "fmtp", pt |-> PayloadType(c),
                        parameters |-> [k \in DOMAIN q |->
                          IF q[k] = <<>> THEN <<"undefined">> ELSE q[k]]]
    <3>1. WriteFmtp(c) = <<line>>
      BY <2>3 DEF WriteFmtp
    <3>2. WriteFmtp(c) # <<>> /\ WriteFmtp(c)[1] = line
      <4>. HIDE DEF line
      <4>. QED BY <3>1
    <3>3. p = ParseFmtp(line)
      BY <3>2
    <3>4. ASSUME NEW k \in DOMAIN q
          PROVE  q[k] # <<>> /\ <<Head(q[k])>> = q[k]
      <4>1. q[k] = <<q[k][1]>>
        BY <2>1
      <4>2. \A x : <<x>> # <<>> /\ Head(<<x>>) = x
        OBVIOUS
      <4>. QED BY <4>1, <4>2
    <3>5. line.parameters = q
      <4>. HIDE DEF q
      <4>. QED BY <2>1, <3>4
    <3>6. ParseFmtp(line) = [k \in DOMAIN q |-> IF q[k] = <<>> THEN <<>> ELSE <<Head(q[k])>>]
      <4>. HIDE DEF line
      <4>. QED BY <3>5 DEF ParseFmtp
    <3>7. ParseFmtp(line) = q
      <4>. HIDE DEF line, q
      <4>. QED BY <2>1, <3>4, <3>6
    <3>. QED BY <3>3, <3>7
  <2>. QED BY <2>2, <2>3
<1> HIDE DEF l, p
<1>4. ParseRtpMap(l, p, c.rtcpFeedback) =
        [payloadType |-> PayloadType(c), preferredPayloadType |-> Undefined,
         name |-> c.name, clockRate |-> c.clockRate, numChannels |-> c.numChannels,
         parameters |-> c.parameters, rtcpFeedback |-> c.rtcpFeedback]
  BY <1>1, <1>2, <1>3 DEF ParseRtpMap
<1>5. Read(c) = [payloadType |-> PayloadType(c), preferredPayloadType |-> Undefined,
         name |-> c.name, clockRate |-> c.clockRate, numChannels |-> c.numChannels,
         parameters |-> c.parameters, rtcpFeedback |-> c.rtcpFeedback]
  <2> DEFINE fields == {"name", "clockRate", "numChannels", "payloadType",
                        "preferredPayloadType", "parameters", "rtcpFeedback"}
  <2>1. c = [f \in fields |-> c[f]]
    BY DEF IsCodec, IsRecord
  <2>2. Read(c) = [f \in fields |-> IF f = "payloadType" THEN PayloadType(c)
                     ELSE IF f = "preferredPayloadType" THEN Undefined ELSE c[f]]
    BY <2>1 DEF Read
  <2>. QED BY <2>2
<1>. QED BY <1>4, <1>5 DEF l, p

\* What is a sequence is a list.
LEMMA ListOf ==
  ASSUME NEW S, NEW u \in Seq(S)
  PROVE  IsList(u) /\ Len(u) \in Nat /\ DOMAIN u = 1 .. Len(u) /\ Elements(u) \in SUBSET S
BY DEF IsList, Elements

\* A list after a list.
LEMMA Appended ==
  ASSUME NEW s, NEW t, IsList(s), IsList(t)
  PROVE  /\ IsList(s \o t)
         /\ Len(s) \in Nat /\ Len(t) \in Nat /\ Len(s \o t) = Len(s) + Len(t)
         /\ DOMAIN s = 1 .. Len(s) /\ DOMAIN t = 1 .. Len(t)
         /\ DOMAIN (s \o t) = 1 .. Len(s) + Len(t)
         /\ \A x \in DOMAIN s : x \in DOMAIN (s \o t) /\ (s \o t)[x] = s[x]
         /\ \A x \in DOMAIN t : Len(s) + x \in DOMAIN (s \o t) /\ (s \o t)[Len(s) + x] = t[x]
         /\ \A x \in DOMAIN (s \o t) : x \notin DOMAIN s => x - Len(s) \in DOMAIN t
<1> DEFINE S == Elements(s) \cup Elements(t)
           m == Len(s)
           n == Len(t)
<1>1. s \in Seq(S) /\ t \in Seq(S)
  BY DEF IsList
<1>2. m \in Nat /\ n \in Nat /\ DOMAIN s = 1 .. m /\ DOMAIN t = 1 .. n
  BY <1>1
<1> HIDE DEF S
<1>3. s \o t \in Seq(S) /\ Len(s \o t) = m + n /\ DOMAIN (s \o t) = 1 .. m + n
  BY <1>1
<1>4. IsList(s \o t)
  BY <1>3, ListOf
<1>5. \A x \in 1 .. m : (s \o t)[x] = s[x]
  BY <1>1
<1> HIDE DEF m, n
<1>6. \A x \in 1 .. n : m + x \in 1 .. m + n /\ m + x > m /\ (m + x) - m = x
  BY <1>2
<1>7. \A x \in 1 .. n : (s \o t)[m + x] = t[x]
  BY <1>1, <1>2, <1>6 DEF m, n
<1>8. \A x \in 1 .. m : x \in 1 .. m + n
  BY <1>2
<1>9. \A x \in 1 .. m + n : x \notin 1 .. m => x - m \in 1 .. n
  BY <1>2
<1>10. /\ IsList(s \o t)
       /\ m \in Nat /\ n \in Nat /\ Len(s \o t) = m + n
       /\ DOMAIN s = 1 .. m /\ DOMAIN t = 1 .. n
       /\ DOMAIN (s \o t) = 1 .. m + n
       /\ \A x \in DOMAIN s : x \in DOMAIN (s \o t) /\ (s \o t)[x] = s[x]
       /\ \A x \in DOMAIN t : m + x \in DOMAIN (s \o t) /\ (s \o t)[m + x] = t[x]
       /\ \A x \in DOMAIN (s \o t) : x \notin DOMAIN s => x - m \in DOMAIN t
  BY <1>2, <1>3, <1>4, <1>5, <1>6, <1>7, <1>8, <1>9
<1>. QED BY <1>10 DEF m, n

\* What parseRtpParameters makes of a payload type.
CodecOf(lines, pt) ==
  LET fmtps == OfPayload(lines, "fmtp", pt)
      fbs == OfPayload(lines, "rtcp-fb", pt)
  IN ParseRtpMap(OfPayload(lines, "rtpmap", pt)[1],
       IF fmtps = <<>> THEN <<>> ELSE ParseFmtp(fmtps[1]),
       [i \in DOMAIN fbs |-> fbs[i].feedback])

\* Below the lines of the codecs stand lines about other things.
HasCodecs(lines, C) ==
  /\ IsWritable(C)
  /\ \E tail : /\ IsList(tail) /\ lines = Written(C) \o tail
               /\ \A l \in Elements(tail) : l.a \notin CodecLines

\* Whose lines are about a payload type: the codec's of that type.
LEMMA AboutCodec ==
  ASSUME NEW C, NEW lines, HasCodecs(lines, C), NEW k \in DOMAIN C
  PROVE  /\ IsList(lines)
         /\ \E off \in [DOMAIN C -> Nat] :
              /\ \A x \in About(lines, "rtpmap", PayloadType(C[k])) :
                   lines[x] = WriteRtpMap(C[k])
              /\ \A x \in About(lines, "fmtp", PayloadType(C[k])) :
                   Len(WriteFmtp(C[k])) = 1 /\ lines[x] = WriteFmtp(C[k])[1]
              /\ \A x \in About(lines, "rtcp-fb", PayloadType(C[k])) :
                   \E j \in 1 .. Len(C[k].rtcpFeedback) :
                     x = off[k] + (1 + Len(WriteFmtp(C[k])) + j)
              /\ off[k] + 1 \in About(lines, "rtpmap", PayloadType(C[k]))
              /\ Len(WriteFmtp(C[k])) = 1 =>
                   off[k] + 2 \in About(lines, "fmtp", PayloadType(C[k]))
              /\ \A j \in 1 .. Len(C[k].rtcpFeedback) :
                   LET x == off[k] + (1 + Len(WriteFmtp(C[k])) + j)
                   IN /\ x \in About(lines, "rtcp-fb", PayloadType(C[k]))
                      /\ lines[x].feedback = C[k].rtcpFeedback[j]
<1> DEFINE F == Written(C)
           pt == PayloadType(C[k])
           F2(e) == WriteFmtp(C[e])
           Fb(e) == C[e].rtcpFeedback
<1>1. PICK tail : /\ IsList(tail) /\ lines = F \o tail
                  /\ \A l \in Elements(tail) : l.a \notin CodecLines
  BY DEF HasCodecs
<1>2. /\ IsList(C) /\ \A c \in Elements(C) : IsCodec(c)
      /\ \A i, j \in DOMAIN C : PayloadType(C[i]) = PayloadType(C[j]) =>
           C[i] = C[j] /\ (i = j \/ C[i].rtcpFeedback = <<>>)
  BY DEF HasCodecs, IsWritable
<1>3. IsList(F) /\ \E off \in [DOMAIN C -> Nat] : Places(C, F, off)
  BY <1>2, WrittenIs
<1>4. PICK off \in [DOMAIN C -> Nat] : Places(C, F, off)
  BY <1>3
<1> HIDE DEF F
<1>5. /\ IsList(lines)
      /\ \A x \in DOMAIN F : x \in DOMAIN lines /\ lines[x] = F[x]
      /\ \A x \in DOMAIN lines : x \notin DOMAIN F => lines[x].a \notin CodecLines
  <2>1. /\ IsList(F \o tail)
        /\ \A x \in DOMAIN F : x \in DOMAIN (F \o tail) /\ (F \o tail)[x] = F[x]
        /\ \A x \in DOMAIN tail : (F \o tail)[Len(F) + x] = tail[x]
        /\ \A x \in DOMAIN (F \o tail) : x \notin DOMAIN F => x - Len(F) \in DOMAIN tail
        /\ Len(F) \in Nat /\ DOMAIN (F \o tail) = 1 .. Len(F) + Len(tail)
        /\ Len(tail) \in Nat
    BY <1>1, <1>3, Appended
  <2>2. ASSUME NEW x \in DOMAIN lines, x \notin DOMAIN F
        PROVE  lines[x].a \notin CodecLines
    <3>1. x - Len(F) \in DOMAIN tail /\ Len(F) + (x - Len(F)) = x
      BY <1>1, <2>1, <2>2
    <3>2. lines[x] = tail[x - Len(F)]
      BY <1>1, <2>1, <3>1
    <3>3. lines[x] \in Elements(tail)
      BY <3>1, <3>2 DEF Elements
    <3>. QED BY <1>1, <3>3
  <2>. QED BY <1>1, <2>1, <2>2
<1>6. ASSUME NEW e \in DOMAIN C
      PROVE  /\ WriteRtpMap(C[e]).a = "rtpmap" /\ WriteRtpMap(C[e]).pt = PayloadType(C[e])
             /\ Len(F2(e)) = 1 => F2(e)[1].a = "fmtp" /\ F2(e)[1].pt = PayloadType(C[e])
             /\ \A j \in 1 .. Len(Fb(e)) :
                  /\ WriteRtcpFb(C[e])[j].a = "rtcp-fb"
                  /\ WriteRtcpFb(C[e])[j].pt = PayloadType(C[e])
                  /\ WriteRtcpFb(C[e])[j].feedback = Fb(e)[j]
  <2>1. IsCodec(C[e])
    BY <1>2 DEF Elements
  <2>. QED BY <2>1, LineOf
<1>7. ASSUME NEW e \in DOMAIN C
      PROVE  /\ off[e] + 1 \in DOMAIN F /\ F[off[e] + 1] = WriteRtpMap(C[e])
             /\ Len(F2(e)) = 1 => off[e] + 2 \in DOMAIN F /\ F[off[e] + 2] = F2(e)[1]
             /\ \A j \in 1 .. Len(Fb(e)) :
                  /\ off[e] + (1 + Len(F2(e)) + j) \in DOMAIN F
                  /\ F[off[e] + (1 + Len(F2(e)) + j)] = WriteRtcpFb(C[e])[j]
  BY <1>4 DEF Places
<1>8. ASSUME NEW x \in DOMAIN lines, lines[x].a \in CodecLines, lines[x].pt = pt
      PROVE  \/ lines[x].a = "rtpmap" /\ lines[x] = WriteRtpMap(C[k])
             \/ lines[x].a = "fmtp" /\ Len(F2(k)) = 1 /\ lines[x] = F2(k)[1]
             \/ /\ lines[x].a = "rtcp-fb"
                /\ \E j \in 1 .. Len(Fb(k)) : x = off[k] + (1 + Len(F2(k)) + j)
  <2>1. x \in DOMAIN F /\ lines[x] = F[x]
    BY <1>5, <1>8
  <2>2. PICK e \in DOMAIN C :
           \/ x = off[e] + 1
           \/ Len(F2(e)) = 1 /\ x = off[e] + 2
           \/ \E j \in 1 .. Len(Fb(e)) : x = off[e] + (1 + Len(F2(e)) + j)
    BY <1>4, <2>1 DEF Places
  <2>3. PayloadType(C[e]) = pt => C[e] = C[k] /\ (e = k \/ C[e].rtcpFeedback = <<>>)
    BY <1>2
  <2>4. CASE x = off[e] + 1
    <3>1. lines[x] = WriteRtpMap(C[e])
      BY <1>7, <2>1, <2>4
    <3>2. lines[x].a = "rtpmap" /\ PayloadType(C[e]) = pt
      BY <1>6, <1>8, <3>1
    <3>. QED BY <2>3, <3>1, <3>2
  <2>5. CASE Len(F2(e)) = 1 /\ x = off[e] + 2
    <3>1. lines[x] = F2(e)[1]
      BY <1>7, <2>1, <2>5
    <3>2. lines[x].a = "fmtp" /\ PayloadType(C[e]) = pt
      BY <1>6, <1>8, <2>5, <3>1
    <3>3. C[e] = C[k]
      BY <2>3, <3>2
    <3>. QED BY <2>5, <3>1, <3>2, <3>3
  <2>6. ASSUME NEW j \in 1 .. Len(Fb(e)), x = off[e] + (1 + Len(F2(e)) + j)
        PROVE  /\ lines[x].a = "rtcp-fb"
               /\ \E i \in 1 .. Len(Fb(k)) : x = off[k] + (1 + Len(F2(k)) + i)
    <3>1. lines[x] = WriteRtcpFb(C[e])[j]
      BY <1>7, <2>1, <2>6
    <3>2. lines[x].a = "rtcp-fb" /\ PayloadType(C[e]) = pt
      BY <1>6, <1>8, <3>1
    <3>3. C[e].rtcpFeedback # <<>>
      <4>1. Len(<<>>) = 0 /\ 1 .. 0 = {}
        OBVIOUS
      <4>. QED BY <2>6, <4>1
    <3>4. e = k
      BY <2>3, <3>2, <3>3
    <3>. QED BY <2>6, <3>2, <3>4
  <2>. QED BY <2>2, <2>4, <2>5, <2>6
<1>9. "rtpmap" \in CodecLines /\ "fmtp" \in CodecLines /\ "rtcp-fb" \in CodecLines
  BY DEF CodecLines
<1>10. \A x \in About(lines, "rtpmap", pt) : lines[x] = WriteRtpMap(C[k])
  <2>1. "rtpmap" # "fmtp" /\ "rtpmap" # "rtcp-fb"
    OBVIOUS
  <2>. QED BY <1>8, <1>9, <2>1 DEF About
<1>11. \A x \in About(lines, "fmtp", pt) : Len(F2(k)) = 1 /\ lines[x] = F2(k)[1]
  <2>1. "rtpmap" # "fmtp" /\ "fmtp" # "rtcp-fb"
    OBVIOUS
  <2>. QED BY <1>8, <1>9, <2>1 DEF About
<1>12. \A x \in About(lines, "rtcp-fb", pt) :
         \E j \in 1 .. Len(Fb(k)) : x = off[k] + (1 + Len(F2(k)) + j)
  <2>1. "rtpmap" # "rtcp-fb" /\ "fmtp" # "rtcp-fb"
    OBVIOUS
  <2>. QED BY <1>8, <1>9, <2>1 DEF About
<1>13. off[k] + 1 \in About(lines, "rtpmap", pt)
  BY <1>5, <1>6, <1>7 DEF About
<1>14. Len(F2(k)) = 1 => off[k] + 2 \in About(lines, "fmtp", pt)
  BY <1>5, <1>6, <1>7 DEF About
<1>15. ASSUME NEW j \in 1 .. Len(Fb(k))
       PROVE  LET x == off[k] + (1 + Len(F2(k)) + j)
              IN x \in About(lines, "rtcp-fb", pt) /\ lines[x].feedback = Fb(k)[j]
  <2> DEFINE x == off[k] + (1 + Len(F2(k)) + j)
  <2>1. x \in DOMAIN F /\ F[x] = WriteRtcpFb(C[k])[j]
    BY <1>7
  <2>. HIDE DEF x
  <2>2. x \in DOMAIN lines /\ lines[x] = WriteRtcpFb(C[k])[j]
    BY <1>5, <2>1
  <2>3. lines[x].a = "rtcp-fb" /\ lines[x].pt = pt /\ lines[x].feedback = Fb(k)[j]
    BY <1>6, <2>2
  <2>4. x \in About(lines, "rtcp-fb", pt)
    BY <2>2, <2>3 DEF About
  <2>. QED BY <2>3, <2>4 DEF x
<1>. QED BY <1>5, <1>10, <1>11, <1>12, <1>13, <1>14, <1>15

\* What is written of codecs says nothing else.
LEMMA WrittenLines ==
  ASSUME NEW C, IsWritable(C)
  PROVE  IsList(Written(C)) /\ \A l \in Elements(Written(C)) : l.a \in CodecLines
<1> DEFINE F == Written(C)
<1>1. /\ IsList(C) /\ \A c \in Elements(C) : IsCodec(c)
      /\ \A i \in DOMAIN C : IsCodec(C[i])
  BY DEF IsWritable, Elements
<1>2. IsList(F) /\ \E off \in [DOMAIN C -> Nat] : Places(C, F, off)
  BY <1>1, WrittenIs
<1> HIDE DEF F
<1>3. PICK off \in [DOMAIN C -> Nat] : Places(C, F, off)
  BY <1>2
<1>4. ASSUME NEW x \in DOMAIN F PROVE F[x].a \in CodecLines
  <2>1. PICK e \in DOMAIN C :
           \/ x = off[e] + 1
           \/ Len(WriteFmtp(C[e])) = 1 /\ x = off[e] + 2
           \/ \E j \in 1 .. Len(C[e].rtcpFeedback) :
                x = off[e] + (1 + Len(WriteFmtp(C[e])) + j)
    BY <1>3 DEF Places
  <2>2. /\ WriteRtpMap(C[e]).a = "rtpmap"
        /\ Len(WriteFmtp(C[e])) = 1 => WriteFmtp(C[e])[1].a = "fmtp"
        /\ \A j \in 1 .. Len(C[e].rtcpFeedback) : WriteRtcpFb(C[e])[j].a = "rtcp-fb"
    BY <1>1, LineOf
  <2>3. /\ F[off[e] + 1] = WriteRtpMap(C[e])
        /\ Len(WriteFmtp(C[e])) = 1 => F[off[e] + 2] = WriteFmtp(C[e])[1]
        /\ \A j \in 1 .. Len(C[e].rtcpFeedback) :
             F[off[e] + (1 + Len(WriteFmtp(C[e])) + j)] = WriteRtcpFb(C[e])[j]
    BY <1>3 DEF Places
  <2>4. F[x].a \in {"rtpmap", "fmtp", "rtcp-fb"}
    BY <2>1, <2>2, <2>3
  <2>. QED BY <2>4 DEF CodecLines
<1>. QED BY <1>2, <1>4 DEF F, Elements

\* Each payload type reads as the codec it was written for.
LEMMA CodecReads ==
  ASSUME NEW C, NEW lines, HasCodecs(lines, C), NEW k \in DOMAIN C
  PROVE  /\ OfPayload(lines, "rtpmap", PayloadType(C[k])) # <<>>
         /\ CodecOf(lines, PayloadType(C[k])) = Read(C[k])
<1> DEFINE pt == PayloadType(C[k])
           f == Len(WriteFmtp(C[k]))
           fb == C[k].rtcpFeedback
           m == Len(fb)
           A == About(lines, "rtpmap", pt)
           B == About(lines, "fmtp", pt)
           D == About(lines, "rtcp-fb", pt)
<1>1. IsList(lines)
  BY AboutCodec
<1>2. PICK off \in [DOMAIN C -> Nat] :
        /\ \A x \in A : lines[x] = WriteRtpMap(C[k])
        /\ \A x \in B : f = 1 /\ lines[x] = WriteFmtp(C[k])[1]
        /\ \A x \in D : \E j \in 1 .. m : x = off[k] + (1 + f + j)
        /\ off[k] + 1 \in A
        /\ f = 1 => off[k] + 2 \in B
        /\ \A j \in 1 .. m : LET x == off[k] + (1 + f + j)
                             IN x \in D /\ lines[x].feedback = fb[j]
  BY AboutCodec, SMTT(30)
<1>3. IsCodec(C[k])
  BY DEF HasCodecs, IsWritable, Elements
<1>4. f \in {0, 1} /\ m \in Nat /\ DOMAIN fb = 1 .. m /\ fb = [j \in 1 .. m |-> fb[j]]
  <2>1. f \in {0, 1}
    BY <1>3, BlockIs
  <2>2. IsList(fb)
    BY <1>3 DEF IsCodec
  <2>. QED BY <2>1, <2>2 DEF IsList
<1>5. f = 0 <=> WriteFmtp(C[k]) = <<>>
  <2>1. Len(<<>>) = 0
    OBVIOUS
  <2>2. f = 0 => DOMAIN C[k].parameters = {}
    BY <1>3, BlockIs
  <2>. QED BY <2>1, <2>2 DEF WriteFmtp
<1>6. /\ OfPayload(lines, "rtpmap", pt) = Selected(lines, A) /\ A \in SUBSET DOMAIN lines
      /\ OfPayload(lines, "fmtp", pt) = Selected(lines, B) /\ B \in SUBSET DOMAIN lines
      /\ OfPayload(lines, "rtcp-fb", pt) = Selected(lines, D) /\ D \in SUBSET DOMAIN lines
      /\ D \in SUBSET Nat
  <2>1. \A a : About(lines, a, pt) \in SUBSET DOMAIN lines
    BY DEF About
  <2>2. DOMAIN lines \in SUBSET Nat
    BY <1>1 DEF IsList
  <2>. QED BY <2>1, <2>2, OfPayloadIs
<1> HIDE DEF A, B, D, f, m, fb
<1>7. /\ OfPayload(lines, "rtpmap", pt) # <<>>
      /\ OfPayload(lines, "rtpmap", pt)[1] = WriteRtpMap(C[k])
  <2>1. A # {}
    BY <1>2
  <2>2. Selected(lines, A) # <<>>
    BY <1>1, <1>6, <2>1, SelectedElements
  <2>3. \E i \in A : Selected(lines, A)[1] = lines[i]
    BY <1>1, <1>6, <2>1, SelectedFirst
  <2>. QED BY <1>2, <1>6, <2>2, <2>3
<1>8. (IF OfPayload(lines, "fmtp", pt) = <<>> THEN <<>>
       ELSE ParseFmtp(OfPayload(lines, "fmtp", pt)[1]))
        = (IF WriteFmtp(C[k]) = <<>> THEN <<>> ELSE ParseFmtp(WriteFmtp(C[k])[1]))
  <2>1. Selected(lines, B) = <<>> <=> B = {}
    BY <1>1, <1>6, SelectedElements
  <2>2. B = {} <=> f = 0
    BY <1>2, <1>4
  <2>3. B # {} => \E i \in B : Selected(lines, B)[1] = lines[i]
    BY <1>1, <1>6, SelectedFirst
  <2>4. B # {} => Selected(lines, B)[1] = WriteFmtp(C[k])[1]
    BY <1>2, <2>3
  <2>. QED BY <1>5, <1>6, <2>1, <2>2, <2>4
<1>9. [i \in DOMAIN OfPayload(lines, "rtcp-fb", pt) |->
         OfPayload(lines, "rtcp-fb", pt)[i].feedback] = fb
  <2> DEFINE g == [j \in 1 .. m |-> off[k] + (1 + f + j)]
             s == Selected(lines, D)
  <2>1. \A j \in 1 .. m : g[j] \in D /\ lines[g[j]].feedback = fb[j]
    BY <1>2
  <2>2. g \in [1 .. m -> D]
    BY <2>1
  <2>3. off[k] \in Nat
    OBVIOUS
  <2>4. \A i, j \in 1 .. m : i < j => g[i] < g[j]
    BY <1>4, <2>3
  <2>5. \A x \in D : \E j \in 1 .. m : g[j] = x
    BY <1>2
  <2>. HIDE DEF g
  <2>6. s = [j \in 1 .. m |-> lines[g[j]]]
    <3>1. m \in Nat /\ D \in SUBSET Nat
      BY <1>4, <1>6
    <3>2. IsFiniteSet(D) /\ Cardinality(D) = m /\ \A i \in 1 .. m : Nth(D, i) = g[i]
      BY <2>2, <2>4, <2>5, <3>1, NthIs
    <3>3. Selected(lines, D) = [j \in 1 .. m |-> lines[g[j]]]
      BY <3>2 DEF Selected
    <3>. QED BY <3>3 DEF s
  <2>. HIDE DEF s
  <2>7. DOMAIN s = 1 .. m /\ \A j \in 1 .. m : s[j].feedback = fb[j]
    BY <2>1, <2>6
  <2>8. [i \in DOMAIN s |-> s[i].feedback] = [j \in 1 .. m |-> fb[j]]
    BY <2>7
  <2>. QED BY <1>4, <1>6, <2>8 DEF s
<1>10. CodecOf(lines, pt) =
         ParseRtpMap(WriteRtpMap(C[k]),
           IF WriteFmtp(C[k]) = <<>> THEN <<>> ELSE ParseFmtp(WriteFmtp(C[k])[1]), fb)
  BY <1>7, <1>8, <1>9 DEF CodecOf
<1>11. CodecOf(lines, pt) = Read(C[k])
  BY <1>3, <1>10, ParseUndoesWrite DEF fb
<1>. QED BY <1>7, <1>11

\* A section about the codecs of C.
LEMMA ReadBack ==
  ASSUME NEW C, NEW section, HasCodecs(section.lines, C),
         section.payloadTypes = [i \in DOMAIN C |-> PayloadType(C[i])]
  PROVE  LET d == ParseRtpParameters(section)
         IN /\ d.codecs = [i \in DOMAIN C |-> Read(C[i])]
            /\ d.fecMechanisms = {c.name : c \in Elements(C)} \intersect {"red", "ulpfec"}
<1> DEFINE pts == section.payloadTypes
           lines == section.lines
           d == ParseRtpParameters(section)
           K == {i \in DOMAIN pts : OfPayload(lines, "rtpmap", pts[i]) # <<>>}
           known == Selected(pts, K)
<1>1. /\ d.codecs = [i \in DOMAIN known |-> CodecOf(lines, known[i])]
      /\ d.fecMechanisms = {d.codecs[i].name : i \in DOMAIN d.codecs} \intersect {"red", "ulpfec"}
  <2> DEFINE codecs == [i \in DOMAIN known |-> CodecOf(lines, known[i])]
             extmaps == MatchPrefix(lines, "extmap")
  <2>1. d = [codecs |-> codecs,
             headerExtensions |-> [i \in DOMAIN extmaps |-> ParseExtmap(extmaps[i])],
             fecMechanisms |-> {codecs[i].name : i \in DOMAIN codecs} \intersect {"red", "ulpfec"}]
    BY Zenon DEF ParseRtpParameters, Filter, CodecOf
  <2>. HIDE DEF d, codecs, extmaps
  <2>2. d.codecs = codecs
    BY <2>1
  <2>. QED BY <2>1, <2>2 DEF codecs
<1>2. DOMAIN pts = DOMAIN C /\ \A i \in DOMAIN C : pts[i] = PayloadType(C[i])
  OBVIOUS
<1>3. \A i \in DOMAIN C : /\ OfPayload(lines, "rtpmap", pts[i]) # <<>>
                          /\ CodecOf(lines, pts[i]) = Read(C[i])
  BY <1>2, CodecReads
<1>4. K = DOMAIN pts
  BY <1>2, <1>3
<1>5. IsList(pts)
  <2>1. IsList(C)
    BY DEF HasCodecs, IsWritable
  <2>2. Len(C) \in Nat /\ DOMAIN C = 1 .. Len(C)
    BY <2>1 DEF IsList
  <2>3. pts \in [1 .. Len(C) -> Elements(pts)]
    BY <1>2, <2>2 DEF Elements
  <2>. HIDE DEF pts
  <2>. QED BY <2>2, <2>3, SeqDef DEF IsList
<1>6. known = pts
  BY <1>4, <1>5, SelectedAll
<1> HIDE DEF d, K, known, lines
<1>7. d.codecs = [i \in DOMAIN C |-> Read(C[i])]
  BY <1>1, <1>2, <1>3, <1>6
<1>8. ASSUME NEW i \in DOMAIN C PROVE Read(C[i]).name = C[i].name
  <2>1. IsCodec(C[i])
    BY DEF HasCodecs, IsWritable, Elements
  <2>. QED BY <2>1 DEF IsCodec, IsRecord, Read
<1>. QED BY <1>1, <1>7, <1>8 DEF d, Elements

-----------------------------------------------------------------------------
(* Encodings.                                                               *)

\* What lists put one after another hold.
LEMMA FlattenElements ==
  ASSUME NEW S, NEW n \in Nat, NEW ss \in [1 .. n -> Seq(S)]
  PROVE  /\ IsList(FlattenSeq(ss))
         /\ Elements(FlattenSeq(ss)) = UNION {Elements(ss[i]) : i \in 1 .. n}
<1> DEFINE F == FlattenSeq(ss)
<1>1. F \in Seq(S) /\ \E off \in [1 .. n -> Nat] : IsJoined(F, ss, off, n)
  BY FlattenIs
<1> HIDE DEF F
<1>2. PICK off \in [1 .. n -> Nat] : IsJoined(F, ss, off, n)
  BY <1>1
<1>3. DOMAIN F = 1 .. Len(F) /\ IsList(F)
  BY <1>1 DEF IsList, Elements
<1>4. \A i \in 1 .. n : DOMAIN ss[i] = 1 .. Len(ss[i])
  OBVIOUS
<1>5. ASSUME NEW i \in 1 .. n, NEW x \in Elements(ss[i]) PROVE x \in Elements(F)
  <2>1. PICK j \in 1 .. Len(ss[i]) : x = ss[i][j]
    BY <1>4 DEF Elements
  <2>2. off[i] + j \in DOMAIN F /\ F[off[i] + j] = x
    BY <1>2, <1>3, <2>1 DEF IsJoined
  <2>. QED BY <2>2 DEF Elements
<1>6. ASSUME NEW x \in Elements(F) PROVE \E i \in 1 .. n : x \in Elements(ss[i])
  <2>1. PICK m \in 1 .. Len(F) : x = F[m]
    BY <1>3 DEF Elements
  <2>2. PICK i \in 1 .. n : \E j \in 1 .. Len(ss[i]) : m = off[i] + j
    BY <1>2 DEF IsJoined
  <2>3. PICK j \in 1 .. Len(ss[i]) : m = off[i] + j
    BY <2>2
  <2>4. x = ss[i][j] /\ j \in DOMAIN ss[i]
    BY <1>2, <1>4, <2>1, <2>3 DEF IsJoined
  <2>. QED BY <2>4 DEF Elements
<1>. QED BY <1>3, <1>5, <1>6 DEF F

\* The same for two lists.
LEMMA AppendedElements ==
  ASSUME NEW s, NEW t, IsList(s), IsList(t)
  PROVE  IsList(s \o t) /\ Elements(s \o t) = Elements(s) \cup Elements(t)
<1> DEFINE u == s \o t
           m == Len(s)
<1>1. /\ IsList(u) /\ m \in Nat /\ DOMAIN u = 1 .. m + Len(t) /\ Len(t) \in Nat
      /\ \A x \in DOMAIN s : x \in DOMAIN u /\ u[x] = s[x]
      /\ \A x \in DOMAIN t : m + x \in DOMAIN u /\ u[m + x] = t[x]
      /\ \A x \in DOMAIN u : x \notin DOMAIN s => x - m \in DOMAIN t
  BY Appended, SMTT(30)
<1> HIDE DEF u, m
<1>2. ASSUME NEW x \in DOMAIN u, x \notin DOMAIN s
      PROVE  x - m \in DOMAIN t /\ u[x] = t[x - m]
  <2>1. x - m \in DOMAIN t /\ m + (x - m) = x
    BY <1>1, <1>2
  <2>. QED BY <1>1, <2>1
<1>3. Elements(u) = Elements(s) \cup Elements(t)
  BY <1>1, <1>2 DEF Elements
<1>. QED BY <1>1, <1>3 DEF u

\* What is selected of a list where there is something to select.
LEMMA SelectedHas ==
  ASSUME NEW s, IsList(s), NEW I \in SUBSET DOMAIN s
  PROVE  /\ Selected(s, I) # <<>> <=> I # {}
         /\ I # {} => Selected(s, I)[1] \in {s[i] : i \in I}
BY SelectedElements, SelectedFirst

CnamesOf(lines) == Filter(lines, LAMBDA l : l.a = "ssrc" /\ l.attribute = "cname")
FlowsOf(lines) == MatchPrefix(lines, "ssrc-group:FID")
PrimarySsrc(lines) == IF CnamesOf(lines) = <<>> THEN 0 ELSE CnamesOf(lines)[1].ssrc
Repeats(c) ==
  c.name = "rtx" /\ "apt" \in DOMAIN c.parameters /\ c.parameters["apt"] # <<>>

\* All encodings are for the primary stream and those of its retransmissions;
\* they name what the RTX codecs repeat.
LEMMA EncodingsAre ==
  ASSUME NEW section, IsList(ParseRtpParameters(section).codecs)
  PROVE  LET E == ParseRtpEncodingParameters(section)
             p == PrimarySsrc(section.lines)
             codecs == Elements(ParseRtpParameters(section).codecs)
         IN /\ \A e \in Elements(E) :
                 /\ e.ssrc = p
                 /\ e.rtx \in {SecondarySsrc(FlowsOf(section.lines), p), Undefined}
            /\ {e.codec : e \in Elements(E)} \ {""} =
                 {Head(c.parameters["apt"]) : c \in {d \in codecs : Repeats(d)}} \ {""}
            /\ p # 0 => E # <<>> /\ Elements(E) # {}
<1> DEFINE E == ParseRtpEncodingParameters(section)
           p == PrimarySsrc(section.lines)
           s == SecondarySsrc(FlowsOf(section.lines), p)
           d == ParseRtpParameters(section)
           R == {i \in DOMAIN d.codecs : Repeats(d.codecs[i])}
           rtx == Selected(d.codecs, R)
           Encoding(c, fec) == [ssrc |-> p, codec |-> Head(c.parameters["apt"]),
                                rtx |-> s, fec |-> fec]
           red == "red" \in d.fecMechanisms
           mechanism == IF "ulpfec" \in d.fecMechanisms THEN "red+ulpfec" ELSE "red"
           Of(c) == <<Encoding(c, "none")>>
                      \o (IF red THEN <<Encoding(c, mechanism)>> ELSE <<>>)
           ss == [i \in DOMAIN rtx |-> Of(rtx[i])]
           F == FlattenSeq(ss)
           only == [ssrc |-> p, codec |-> "", rtx |-> Undefined, fec |-> "none"]
<1>1. E = IF F = <<>> /\ p # 0 THEN <<only>> ELSE F
  BY DEF ParseRtpEncodingParameters, Filter, PrimarySsrc, CnamesOf, FlowsOf, Repeats
<1> HIDE DEF E
<1>2. /\ DOMAIN rtx = 1 .. Cardinality(R) /\ Cardinality(R) \in Nat
      /\ Elements(rtx) = {d.codecs[i] : i \in R}
  BY SelectedElements
<1>3. Elements(rtx) = {c \in Elements(d.codecs) : Repeats(c)}
  BY <1>2 DEF Elements
<1> HIDE DEF d, rtx, p, s, red, mechanism
<1> DEFINE n == Cardinality(R)
           S == UNION {Elements(Of(rtx[i])) : i \in 1 .. n}
<1>4. ASSUME NEW i \in 1 .. n
      PROVE  /\ Of(rtx[i]) \in Seq(S)
             /\ Encoding(rtx[i], "none") \in Elements(Of(rtx[i]))
             /\ \A e \in Elements(Of(rtx[i])) :
                  e.ssrc = p /\ e.rtx = s /\ e.codec = Head(rtx[i].parameters["apt"])
  <2> DEFINE c == rtx[i]
             a == Encoding(c, "none")
             b == Encoding(c, mechanism)
  <2>1. Elements(Of(c)) \in SUBSET S
    OBVIOUS
  <2>2. \A e \in {a, b} : e.ssrc = p /\ e.rtx = s /\ e.codec = Head(c.parameters["apt"])
    OBVIOUS
  <2>3. Of(c) = <<a>> \o (IF red THEN <<b>> ELSE <<>>)
    OBVIOUS
  <2> HIDE DEF a, b, S, c, Of
  <2>4. /\ Of(c) \in Seq({a, b}) /\ Elements(Of(c)) \in SUBSET {a, b}
        /\ a \in Elements(Of(c)) /\ IsList(Of(c))
    <3>1. CASE red
      <4>1. Of(c) = <<a>> \o <<b>>
        BY <2>3, <3>1
      <4>2. <<a>> \in Seq({a, b}) /\ <<b>> \in Seq({a, b})
        OBVIOUS
      <4>3. Of(c) \in Seq({a, b}) /\ Len(Of(c)) = 2 /\ Of(c)[1] = a
        BY <4>1, <4>2
      <4>4. ASSUME NEW u, u \in Seq({a, b}), Len(u) = 2, u[1] = a
            PROVE  Elements(u) \in SUBSET {a, b} /\ a \in Elements(u) /\ IsList(u)
        <5>1. IsList(u) /\ DOMAIN u = 1 .. 2 /\ Elements(u) \in SUBSET {a, b}
          BY <4>4, ListOf
        <5>. QED BY <4>4, <5>1 DEF Elements
      <4>. QED BY <4>3, <4>4
    <3>2. CASE ~red
      <4>1. Of(c) = <<a>> \o <<>>
        BY <2>3, <3>2
      <4>2. Of(c) = <<a>>
        BY <4>1
      <4>. QED BY <4>2 DEF Elements, IsList
    <3>. QED BY <3>1, <3>2
  <2>5. Of(c) \in Seq(S)
    <3>1. \A T, U, t : T \in SUBSET U /\ t \in Seq(T) => t \in Seq(U)
      OBVIOUS
    <3>. QED BY <2>1, <2>4, <3>1 DEF IsList
  <2>. QED BY <2>2, <2>4, <2>5 DEF a, c
<1>5. ss \in [1 .. n -> Seq(S)] /\ \A i \in 1 .. n : ss[i] = Of(rtx[i])
  <2>. HIDE DEF Of, S, n
  <2>. QED BY <1>2, <1>4 DEF n
<1> HIDE DEF ss, S, Of
<1>6. IsList(F) /\ Elements(F) = UNION {Elements(ss[i]) : i \in 1 .. n}
  BY <1>2, <1>5, FlattenElements
<1> HIDE DEF F
<1>7. ASSUME NEW e \in Elements(F) PROVE e.ssrc = p /\ e.rtx = s
  <2>1. PICK i \in 1 .. n : e \in Elements(Of(rtx[i]))
    BY <1>5, <1>6
  <2>. QED BY <1>4, <2>1
<1>8. {e.codec : e \in Elements(F)} = {Head(c.parameters["apt"]) : c \in Elements(rtx)}
  <2>1. ASSUME NEW e \in Elements(F)
        PROVE  \E c \in Elements(rtx) : e.codec = Head(c.parameters["apt"])
    <3>1. PICK i \in 1 .. n : e \in Elements(Of(rtx[i]))
      BY <1>5, <1>6
    <3>2. e.codec = Head(rtx[i].parameters["apt"])
      BY <1>4, <3>1
    <3>. QED BY <1>2, <3>2 DEF Elements
  <2>2. ASSUME NEW c \in Elements(rtx)
        PROVE  \E e \in Elements(F) : e.codec = Head(c.parameters["apt"])
    <3>1. PICK i \in 1 .. n : c = rtx[i]
      BY <1>2 DEF Elements
    <3>2. Encoding(c, "none") \in Elements(F)
      <4>. HIDE DEF Encoding
      <4>1. Encoding(c, "none") \in Elements(ss[i])
        BY <1>4, <1>5, <3>1
      <4>. QED BY <1>6, <4>1
    <3>3. Encoding(c, "none").codec = Head(c.parameters["apt"])
      OBVIOUS
    <3>. QED BY <3>2, <3>3
  <2>. QED BY <2>1, <2>2
<1>9. F = <<>> <=> Elements(F) = {}
  BY <1>6 DEF Elements, IsList
<1>10. CASE F = <<>> /\ p # 0
  <2>1. E = <<only>> /\ Elements(<<only>>) = {only}
    <3>1. \A x : Elements(<<x>>) = {x}
      BY DEF Elements
    <3>. QED BY <1>1, <1>10, <3>1
  <2>2. only.ssrc = p /\ only.rtx = Undefined /\ only.codec = ""
    OBVIOUS
  <2>3. Elements(rtx) = {}
    BY <1>8, <1>9, <1>10
  <2>4. {e.codec : e \in Elements(E)} \ {""} = {}
    BY <2>1, <2>2
  <2>5. E # <<>> /\ Elements(E) # {} /\ \A e \in Elements(E) : e.ssrc = p /\ e.rtx = Undefined
    BY <2>1, <2>2
  <2>. HIDE DEF only, p, s
  <2>. QED BY <1>3, <2>3, <2>4, <2>5 DEF d, p, s, E
<1>11. CASE ~(F = <<>> /\ p # 0)
  <2>1. E = F
    BY <1>1, <1>11
  <2>2. p # 0 => E # <<>> /\ Elements(E) # {}
    BY <1>9, <1>11, <2>1
  <2>. HIDE DEF only, p, s
  <2>. QED BY <1>3, <1>7, <1>8, <2>1, <2>2 DEF d, p, s, E
<1>. QED BY <1>10, <1>11

-----------------------------------------------------------------------------
(* Sections.                                                                *)

DirectionOf(t) ==
  IF t.sender /\ t.receiver THEN "sendrecv"
  ELSE IF t.sender THEN "sendonly" ELSE IF t.receiver THEN "recvonly" ELSE "inactive"

\* The lines that writeMediaSection adds to those of the codecs.
LEMMA BelowIs ==
  ASSUME NEW t, NEW type, t.sender \in BOOLEAN, t.receiver \in BOOLEAN
  PROVE  LET T == LinesBelow(t, type)
         IN /\ IsList(T)
            /\ \A l \in Elements(T) : l.a \notin CodecLines
            /\ \A l \in Elements(T) : l.a \in Directions => l.a = DirectionOf(t)
            /\ \A l \in Elements(T) : l.a = "ssrc" => l.ssrc = t.ssrc
            /\ \E l \in Elements(T) : l.a = DirectionOf(t)
            /\ \E l \in Elements(T) : l.a = "ssrc" /\ l.attribute = "cname"
<1> DEFINE T == LinesBelow(t, type)
           l1 == [a |-> "ice-ufrag", value |-> t.ufrag]
           l2 == [a |-> "ice-pwd", value |-> t.pwd]
           l3 == [a |-> "setup", value |-> IF type = "offer" THEN "actpass" ELSE "active"]
           l4 == [a |-> "fingerprint", value |-> t.fingerprint]
           l5 == [a |-> "mid", value |-> t.mid]
           l6 == [a |-> DirectionOf(t)]
           msid == [a |-> "ssrc", ssrc |-> t.ssrc, attribute |-> "msid"]
           cname == [a |-> "ssrc", ssrc |-> t.ssrc, attribute |-> "cname"]
           r == <<l1, l2, l3, l4, l5, l6>>
           s == IF t.sender THEN <<msid>> ELSE <<>>
<1>1. T = r \o s \o <<cname>>
  BY DEF LinesBelow, DirectionOf
<1>2. /\ l1.a = "ice-ufrag" /\ l2.a = "ice-pwd" /\ l3.a = "setup" /\ l4.a = "fingerprint"
      /\ l5.a = "mid" /\ l6.a = DirectionOf(t)
      /\ msid.a = "ssrc" /\ msid.ssrc = t.ssrc
      /\ cname.a = "ssrc" /\ cname.ssrc = t.ssrc /\ cname.attribute = "cname"
  OBVIOUS
<1>3. DirectionOf(t) \in Directions
  BY DEF DirectionOf, Directions
<1> HIDE DEF l1, l2, l3, l4, l5, l6, msid, cname, T
<1>4. IsList(r) /\ Elements(r) = {l1, l2, l3, l4, l5, l6}
  <2>1. DOMAIN r = 1 .. 6 /\ r[1] = l1 /\ r[2] = l2 /\ r[3] = l3 /\ r[4] = l4 /\ r[5] = l5
        /\ r[6] = l6 /\ r \in Seq({l1, l2, l3, l4, l5, l6})
    OBVIOUS
  <2>2. IsList(r) /\ Elements(r) \in SUBSET {l1, l2, l3, l4, l5, l6}
    BY <2>1, ListOf
  <2>3. 1 \in 1 .. 6 /\ 2 \in 1 .. 6 /\ 3 \in 1 .. 6 /\ 4 \in 1 .. 6 /\ 5 \in 1 .. 6 /\ 6 \in 1 .. 6
    OBVIOUS
  <2>. HIDE DEF r
  <2>4. {l1, l2, l3, l4, l5, l6} \in SUBSET Elements(r)
    BY <2>1, <2>3 DEF Elements
  <2>. QED BY <2>2, <2>4
<1>5. IsList(s) /\ Elements(s) \in SUBSET {msid}
  <2>1. <<>> \in Seq({msid}) /\ <<msid>> \in Seq({msid})
    OBVIOUS
  <2>2. s \in Seq({msid})
    BY <2>1
  <2>. HIDE DEF s
  <2>. QED BY <2>2, ListOf
<1>6. IsList(<<cname>>) /\ Elements(<<cname>>) = {cname}
  <2>1. <<cname>> \in Seq({cname})
    OBVIOUS
  <2>2. \A x : Elements(<<x>>) = {x}
    BY DEF Elements
  <2>. QED BY <2>1, <2>2, ListOf
<1> HIDE DEF r, s
<1>7. IsList(r \o s) /\ Elements(r \o s) = Elements(r) \cup Elements(s)
  BY <1>4, <1>5, AppendedElements
<1>8. IsList(T) /\ Elements(T) = Elements(r \o s) \cup {cname}
  BY <1>1, <1>6, <1>7, AppendedElements
<1>9. /\ Elements(T) \in SUBSET {l1, l2, l3, l4, l5, l6, msid, cname}
      /\ l6 \in Elements(T) /\ cname \in Elements(T)
  BY <1>4, <1>5, <1>7, <1>8
<1>10. ASSUME NEW l \in Elements(T)
       PROVE  /\ l.a \notin CodecLines
              /\ l.a \in Directions => l.a = DirectionOf(t)
              /\ l.a = "ssrc" => l.ssrc = t.ssrc
  <2>1. \/ l.a \in {"ice-ufrag", "ice-pwd", "setup", "fingerprint", "mid", "ssrc"}
        \/ l.a = DirectionOf(t)
    BY <1>2, <1>9
  <2>2. l.a = "ssrc" => l = msid \/ l = cname
    <3>1. DirectionOf(t) # "ssrc"
      BY <1>3 DEF Directions
    <3>. QED BY <1>2, <1>9, <3>1
  <2>. QED BY <1>2, <1>3, <2>1, <2>2 DEF CodecLines, Directions
<1>. QED BY <1>2, <1>8, <1>9, <1>10 DEF T

\* What the other end reads of a direction that is written once.
LEMMA DirectionReads ==
  ASSUME NEW lines, IsList(lines), NEW d \in Directions,
         \A l \in Elements(lines) : l.a \in Directions => l.a = d,
         \E l \in Elements(lines) : l.a = d
  PROVE  GetDirection(lines, <<>>) = d
<1> DEFINE s == lines \o <<>>
           I == {i \in DOMAIN s : s[i].a \in Directions}
<1>1. GetDirection(lines, <<>>) =
        IF Selected(s, I) = <<>> THEN "sendrecv" ELSE Selected(s, I)[1].a
  BY DEF GetDirection, Filter
<1>2. IsList(s) /\ Elements(s) = Elements(lines)
  <2>1. IsList(<<>>) /\ Elements(<<>>) = {}
    <3>1. <<>> \in Seq({})
      OBVIOUS
    <3>2. DOMAIN <<>> = {}
      OBVIOUS
    <3>3. IsList(<<>>)
      BY <3>1, ListOf
    <3>4. Elements(<<>>) = {}
      BY <3>2 DEF Elements
    <3>. QED BY <3>3, <3>4
  <2>. QED BY <2>1, AppendedElements
<1> HIDE DEF s
<1>3. I # {}
  BY <1>2 DEF Elements
<1>4. Selected(s, I) # <<>> /\ Selected(s, I)[1] \in {s[i] : i \in I}
  BY <1>2, <1>3, SelectedHas
<1>5. Selected(s, I)[1] \in Elements(lines) /\ Selected(s, I)[1].a \in Directions
  BY <1>2, <1>4 DEF Elements
<1>. QED BY <1>1, <1>4, <1>5

\* A section that is written for a transceiver, and what is read from it.
LEMMA SectionReads ==
  ASSUME NEW t, NEW C, NEW type, IsWritable(C), t.sender \in BOOLEAN, t.receiver \in BOOLEAN
  PROVE  LET section == WriteMediaSection(t, C, type)
         IN /\ ParseRtpParameters(section).codecs = [i \in DOMAIN C |-> Read(C[i])]
            /\ section.port = 0 <=> C = <<>>
            /\ GetDirection(section.lines, <<>>) = DirectionOf(t)
            /\ PrimarySsrc(section.lines) = t.ssrc
<1> DEFINE section == WriteMediaSection(t, C, type)
           lines == section.lines
           W == Written(C)
           T == LinesBelow(t, type)
<1>1. /\ lines = W \o T
      /\ section.payloadTypes = [i \in DOMAIN C |-> PayloadType(C[i])]
      /\ section.port = IF C = <<>> THEN 0 ELSE 9
  BY DEF WriteMediaSection, WriteRtpDescription, Written, Block
<1>2. /\ IsList(T)
      /\ \A l \in Elements(T) : l.a \notin CodecLines
      /\ \A l \in Elements(T) : l.a \in Directions => l.a = DirectionOf(t)
      /\ \A l \in Elements(T) : l.a = "ssrc" => l.ssrc = t.ssrc
      /\ \E l \in Elements(T) : l.a = DirectionOf(t)
      /\ \E l \in Elements(T) : l.a = "ssrc" /\ l.attribute = "cname"
  BY BelowIs
<1> HIDE DEF T, section
<1>3. HasCodecs(lines, C)
  BY <1>1, <1>2 DEF HasCodecs
<1>4. ParseRtpParameters(section).codecs = [i \in DOMAIN C |-> Read(C[i])]
  BY <1>1, <1>3, ReadBack
<1>5. IsList(W) /\ \A l \in Elements(W) : l.a \in CodecLines
  BY WrittenLines
<1> HIDE DEF W
<1>6. IsList(lines) /\ Elements(lines) = Elements(W) \cup Elements(T)
  BY <1>1, <1>2, <1>5, AppendedElements
<1>7. DirectionOf(t) \in Directions
  BY DEF DirectionOf, Directions
<1>8. \A x \in CodecLines : x \notin Directions /\ x # "ssrc"
  BY DEF CodecLines, Directions
<1>9. GetDirection(lines, <<>>) = DirectionOf(t)
  <2>1. \A l \in Elements(lines) : l.a \in Directions => l.a = DirectionOf(t)
    BY <1>2, <1>5, <1>6, <1>8
  <2>2. \E l \in Elements(lines) : l.a = DirectionOf(t)
    BY <1>2, <1>6
  <2>. QED BY <1>6, <1>7, <2>1, <2>2, DirectionReads
<1>10. PrimarySsrc(lines) = t.ssrc
  <2> DEFINE I == {i \in DOMAIN lines : lines[i].a = "ssrc" /\ lines[i].attribute = "cname"}
  <2>1. CnamesOf(lines) = Selected(lines, I)
    BY DEF CnamesOf, Filter
  <2>2. I # {}
    BY <1>2, <1>6 DEF Elements
  <2>3. Selected(lines, I) # <<>> /\ Selected(lines, I)[1] \in {lines[i] : i \in I}
    BY <1>6, <2>2, SelectedHas
  <2>4. Selected(lines, I)[1] \in Elements(lines) /\ Selected(lines, I)[1].a = "ssrc"
    BY <2>3 DEF Elements
  <2>. HIDE DEF I
  <2>5. \A l \in Elements(lines) : l.a = "ssrc" => l.ssrc = t.ssrc
    BY <1>2, <1>5, <1>6, <1>8
  <2>. QED BY <2>1, <2>3, <2>4, <2>5 DEF PrimarySsrc
<1>. QED BY <1>1, <1>4, <1>9, <1>10 DEF section

-----------------------------------------------------------------------------
(* Offer and answer.                                                        *)

\* Where the first codec of the kind of c is in a list.
FirstLike(remote, c) ==
  SelectInSeq(remote, LAMBDA r :
    r.name = c.name /\ r.clockRate = c.clockRate /\ r.numChannels = c.numChannels)

\* There is one exactly if the list has a codec of that kind, and it is one.
LEMMA FirstLikeIs ==
  ASSUME NEW remote, IsList(remote), NEW c
  PROVE  /\ FirstLike(remote, c) # 0 <=> \E r \in Elements(remote) : SameCodec(r, c)
         /\ FirstLike(remote, c) # 0 =>
              /\ FirstLike(remote, c) \in DOMAIN remote
              /\ SameCodec(remote[FirstLike(remote, c)], c)
<1> DEFINE J == {i \in 1 .. Len(remote) : SameCodec(remote[i], c)}
<1>1. FirstLike(remote, c) = IF J # {} THEN Min(J) ELSE 0
  BY DEF FirstLike, SelectInSeq, SameCodec
<1>2. DOMAIN remote = 1 .. Len(remote) /\ Len(remote) \in Nat /\ J \in SUBSET Nat
  BY DEF IsList
<1>3. J # {} <=> \E r \in Elements(remote) : SameCodec(r, c)
  BY <1>2 DEF Elements
<1>4. ASSUME J # {} PROVE Min(J) \in J
  <2>. HIDE DEF J
  <2>. QED BY <1>2, <1>4, Smallest DEF Min
<1>5. \A i \in J : i # 0 /\ i \in DOMAIN remote /\ SameCodec(remote[i], c)
  BY <1>2
<1>. HIDE DEF J
<1>. QED BY <1>1, <1>3, <1>4, <1>5

\* The codecs of a list that another has as well.
Shared(local, remote) ==
  {i \in DOMAIN local : \E r \in Elements(remote) : SameCodec(r, local[i])}

\* The common codecs are those shared, as the other end describes them.
LEMMA CommonIs ==
  ASSUME NEW local, NEW remote, IsList(local), IsList(remote)
  PROVE  LET common == CommonCapabilities(local, remote)
             shared == Selected(local, Shared(local, remote))
         IN /\ IsList(common) /\ DOMAIN common = DOMAIN shared
            /\ common = <<>> <=> shared = <<>>
            /\ \A i \in DOMAIN common :
                 common[i] \in Elements(remote) /\ SameCodec(common[i], shared[i])
            /\ \A i, j \in DOMAIN common : i # j =>
                 \E k, l \in DOMAIN local :
                   k # l /\ SameCodec(common[i], local[k]) /\ SameCodec(common[j], local[l])
<1> DEFINE common == CommonCapabilities(local, remote)
           I == Shared(local, remote)
           shared == Selected(local, I)
<1>1. I = {i \in DOMAIN local : FirstLike(remote, local[i]) # 0}
  BY FirstLikeIs DEF Shared
<1>2. common = [i \in DOMAIN shared |-> remote[FirstLike(remote, shared[i])]]
  BY <1>1 DEF CommonCapabilities, Filter, FirstLike
<1>3. I \in SUBSET DOMAIN local
  BY <1>1
<1>4. /\ IsFiniteSet(I) /\ I \in SUBSET Nat /\ Cardinality(I) \in Nat
      /\ DOMAIN shared = 1 .. Cardinality(I) /\ IsList(shared)
      /\ Elements(shared) = {local[i] : i \in I}
  BY <1>3, SelectedElements
<1>5. \A i \in DOMAIN shared :
        Nth(I, i) \in I /\ Rank(I, Nth(I, i)) = i /\ shared[i] = local[Nth(I, i)]
  BY <1>4, NthHasRank DEF Selected
<1> HIDE DEF common, I, shared
<1>6. ASSUME NEW i \in DOMAIN shared
      PROVE  /\ common[i] \in Elements(remote)
             /\ SameCodec(common[i], shared[i])
  <2>1. FirstLike(remote, shared[i]) # 0
    BY <1>1, <1>5
  <2>2. /\ FirstLike(remote, shared[i]) \in DOMAIN remote
        /\ SameCodec(remote[FirstLike(remote, shared[i])], shared[i])
    BY <2>1, FirstLikeIs
  <2>3. common[i] = remote[FirstLike(remote, shared[i])]
    BY <1>2
  <2>. QED BY <2>2, <2>3 DEF Elements
<1>7. DOMAIN common = DOMAIN shared
  BY <1>2
<1>8. IsList(common)
  <2>1. common \in [1 .. Cardinality(I) -> Elements(remote)]
    BY <1>2, <1>4, <1>6
  <2>2. common \in Seq(Elements(remote))
    BY <1>4, <2>1, SeqDef
  <2>. QED BY <2>2, ListOf
<1>9. common = <<>> <=> shared = <<>>
  <2>1. Len(common) = Len(shared) /\ Len(shared) \in Nat
    BY <1>4, <1>7, <1>8 DEF IsList
  <2>. QED BY <1>4, <1>8, <2>1 DEF IsList
<1>10. ASSUME NEW i \in DOMAIN common, NEW j \in DOMAIN common, i # j
       PROVE  \E k, l \in DOMAIN local :
                k # l /\ SameCodec(common[i], local[k]) /\ SameCodec(common[j], local[l])
  <2>1. Nth(I, i) \in DOMAIN local /\ Nth(I, j) \in DOMAIN local /\ Nth(I, i) # Nth(I, j)
    BY <1>3, <1>5, <1>7, <1>10
  <2>2. SameCodec(common[i], local[Nth(I, i)]) /\ SameCodec(common[j], local[Nth(I, j)])
    BY <1>5, <1>6, <1>7
  <2>. QED BY <2>1, <2>2
<1>. QED BY <1>6, <1>7, <1>8, <1>9, <1>10 DEF common, shared, I

\* What a codec of a browser is at the other end.
LEMMA ReadIs ==
  ASSUME NEW c, IsCodec(c)
  PROVE  /\ IsCodec(Read(c)) /\ PayloadType(Read(c)) = PayloadType(c)
         /\ Read(Read(c)) = Read(c)
         /\ Read(c).name = c.name /\ Read(c).clockRate = c.clockRate
         /\ Read(c).numChannels = c.numChannels /\ Read(c).rtcpFeedback = c.rtcpFeedback
         /\ Read(c).parameters = c.parameters
<1> DEFINE fields == {"name", "clockRate", "numChannels", "payloadType",
                      "preferredPayloadType", "parameters", "rtcpFeedback"}
           r == Read(c)
<1>1. c = [f \in fields |-> c[f]]
  BY DEF IsCodec, IsRecord
<1>2. r = [f \in fields |-> IF f = "payloadType" THEN PayloadType(c)
                            ELSE IF f = "preferredPayloadType" THEN Undefined ELSE c[f]]
  BY <1>1 DEF Read
<1> HIDE DEF r
<1>3. /\ r.name = c.name /\ r.clockRate = c.clockRate /\ r.numChannels = c.numChannels
      /\ r.rtcpFeedback = c.rtcpFeedback /\ r.parameters = c.parameters
      /\ r.payloadType = PayloadType(c) /\ r.preferredPayloadType = Undefined
  BY <1>2
<1>4. r = [f \in fields |-> r[f]]
  BY <1>2
<1>5. IsCodec(r)
  BY <1>3, <1>4 DEF IsCodec, IsRecord
<1>6. PayloadType(r) = PayloadType(c)
  BY <1>3 DEF PayloadType
<1>7. Read(r) = r
  <2>1. Read(r) = [f \in fields |-> IF f = "payloadType" THEN PayloadType(r)
                            ELSE IF f = "preferredPayloadType" THEN Undefined ELSE r[f]]
    BY <1>4 DEF Read
  <2>2. \A f \in fields : r[f] = IF f = "payloadType" THEN PayloadType(r)
                            ELSE IF f = "preferredPayloadType" THEN Undefined ELSE r[f]
    BY <1>3, <1>6
  <2>. HIDE DEF fields
  <2>. QED BY <1>4, <2>1, <2>2
<1>. QED BY <1>3, <1>5, <1>6, <1>7 DEF r

\* What a browser offers can be written, and so can what the other answers.
LEMMA OffersAreWritable ==
  ASSUME NEW caps \in Capabilities
  PROVE  LET C == caps.offerer
             offered == [i \in DOMAIN C |-> Read(C[i])]
             common == CommonCapabilities(caps.answerer, offered)
         IN /\ IsWritable(C)
            /\ IsList(offered) /\ Elements(offered) = {Read(c) : c \in Elements(C)}
            /\ IsWritable(common)
            /\ \A i \in DOMAIN common :
                 common[i] \in Elements(offered) /\ Read(common[i]) = common[i]
<1> DEFINE C == caps.offerer
           L == caps.answerer
           offered == [i \in DOMAIN C |-> Read(C[i])]
           common == CommonCapabilities(L, offered)
<1>1. /\ IsList(C) /\ IsList(L)
      /\ \A c \in Elements(C) : IsCapability(c)
      /\ \A i, j \in DOMAIN C : C[i].preferredPayloadType = C[j].preferredPayloadType => i = j
      /\ \A i, j \in DOMAIN L : \A c \in Elements(C) :
           i # j /\ SameCodec(L[i], c) /\ SameCodec(L[j], c) => c.rtcpFeedback = <<>>
  BY CapabilitiesAssumption
<1>2. ASSUME NEW i \in DOMAIN C
      PROVE  /\ C[i] \in Elements(C) /\ IsCodec(C[i])
             /\ PayloadType(C[i]) = C[i].preferredPayloadType
  <2>1. C[i] \in Elements(C)
    BY DEF Elements
  <2>2. IsCapability(C[i])
    BY <1>1, <2>1
  <2>. QED BY <2>1, <2>2 DEF IsCapability, IsCodec, PayloadType
<1>3. ASSUME NEW i \in DOMAIN C
      PROVE  /\ offered[i] = Read(C[i])
             /\ IsCodec(Read(C[i])) /\ PayloadType(Read(C[i])) = PayloadType(C[i])
             /\ Read(Read(C[i])) = Read(C[i])
             /\ Read(C[i]).rtcpFeedback = C[i].rtcpFeedback
             /\ \A d : SameCodec(Read(C[i]), d) => SameCodec(d, C[i])
  <2>1. /\ IsCodec(Read(C[i])) /\ PayloadType(Read(C[i])) = PayloadType(C[i])
        /\ Read(Read(C[i])) = Read(C[i])
        /\ Read(C[i]).name = C[i].name /\ Read(C[i]).clockRate = C[i].clockRate
        /\ Read(C[i]).numChannels = C[i].numChannels /\ Read(C[i]).rtcpFeedback = C[i].rtcpFeedback
    BY <1>2, ReadIs
  <2>. QED BY <2>1 DEF SameCodec
<1>4. IsWritable(C)
  <2>1. \A c \in Elements(C) : IsCodec(c)
    BY <1>2 DEF Elements
  <2>. QED BY <1>1, <1>2, <2>1 DEF IsWritable
<1>5. IsList(offered) /\ Elements(offered) = {Read(c) : c \in Elements(C)}
  <2>1. Elements(offered) = {Read(c) : c \in Elements(C)}
    BY DEF Elements
  <2>2. Len(C) \in Nat /\ DOMAIN C = 1 .. Len(C)
    BY <1>1 DEF IsList
  <2>3. offered \in [1 .. Len(C) -> Elements(offered)]
    BY <2>2 DEF Elements
  <2>4. offered \in Seq(Elements(offered))
    <3>. HIDE DEF offered
    <3>. QED BY <2>2, <2>3, SeqDef
  <2>. HIDE DEF offered
  <2>. QED BY <2>1, <2>4, ListOf
<1> HIDE DEF offered, common
<1>6. /\ IsList(common)
      /\ \A i \in DOMAIN common : common[i] \in Elements(offered)
      /\ \A i, j \in DOMAIN common : i # j =>
           \E k, l \in DOMAIN L :
             k # l /\ SameCodec(common[i], L[k]) /\ SameCodec(common[j], L[l])
  BY <1>1, <1>5, CommonIs DEF common
<1>7. ASSUME NEW i \in DOMAIN common
      PROVE  \E k \in DOMAIN C : common[i] = Read(C[k])
  BY <1>5, <1>6 DEF Elements
<1>8. ASSUME NEW i \in DOMAIN common, NEW j \in DOMAIN common,
             PayloadType(common[i]) = PayloadType(common[j])
      PROVE  common[i] = common[j] /\ (i = j \/ common[i].rtcpFeedback = <<>>)
  <2>1. PICK a \in DOMAIN C : common[i] = Read(C[a])
    BY <1>7
  <2>2. PICK b \in DOMAIN C : common[j] = Read(C[b])
    BY <1>7
  <2>3. C[a].preferredPayloadType = C[b].preferredPayloadType
    BY <1>2, <1>3, <1>8, <2>1, <2>2
  <2>4. a = b
    BY <1>1, <2>3
  <2>5. ASSUME i # j PROVE common[i].rtcpFeedback = <<>>
    <3>1. PICK k \in DOMAIN L, l \in DOMAIN L :
            k # l /\ SameCodec(common[i], L[k]) /\ SameCodec(common[j], L[l])
      BY <1>6, <2>5
    <3>2. SameCodec(L[k], C[a]) /\ SameCodec(L[l], C[a])
      BY <1>3, <2>1, <2>2, <2>4, <3>1
    <3>3. C[a].rtcpFeedback = <<>>
      BY <1>1, <1>2, <3>1, <3>2
    <3>. QED BY <1>3, <2>1, <3>3
  <2>. QED BY <2>1, <2>2, <2>4, <2>5
<1>9. IsWritable(common)
  <2>1. \A c \in Elements(common) : IsCodec(c)
    BY <1>3, <1>7 DEF Elements
  <2>. QED BY <1>6, <1>8, <2>1 DEF IsWritable
<1>10. \A i \in DOMAIN common : common[i] \in Elements(offered) /\ Read(common[i]) = common[i]
  BY <1>3, <1>6, <1>7
<1>. QED BY <1>4, <1>5, <1>9, <1>10 DEF offered, common

\* What both ends read of one another.
LEMMA Negotiation ==
  ASSUME NEW caps \in Capabilities, NEW ts \in Transceivers
  PROVE  LET offer == WriteMediaSection(ts.offerer, caps.offerer, "offer")
             offered == [i \in DOMAIN caps.offerer |-> Read(caps.offerer[i])]
             common == CommonCapabilities(caps.answerer, offered)
             answer == WriteMediaSection(ts.answerer, common, "answer")
         IN /\ ParseRtpParameters(offer).codecs = offered
            /\ ParseRtpParameters(answer).codecs = common
            /\ answer.port = 0 <=> common = <<>>
            /\ GetDirection(offer.lines, <<>>) = DirectionOf(ts.offerer)
            /\ GetDirection(answer.lines, <<>>) = DirectionOf(ts.answerer)
            /\ {e.ssrc : e \in Elements(ParseRtpEncodingParameters(offer))} = {ts.offerer.ssrc}
<1> DEFINE C == caps.offerer
           offered == [i \in DOMAIN C |-> Read(C[i])]
           common == CommonCapabilities(caps.answerer, offered)
           offer == WriteMediaSection(ts.offerer, C, "offer")
           answer == WriteMediaSection(ts.answerer, common, "answer")
           E == ParseRtpEncodingParameters(offer)
<1>1. /\ IsWritable(C) /\ IsList(offered) /\ IsWritable(common)
      /\ \A i \in DOMAIN common : Read(common[i]) = common[i]
  BY OffersAreWritable
<1>2. /\ ts.offerer.ssrc # 0
      /\ ts.offerer.sender \in BOOLEAN /\ ts.offerer.receiver \in BOOLEAN
      /\ ts.answerer.sender \in BOOLEAN /\ ts.answerer.receiver \in BOOLEAN
  BY TransceiversAssumption
<1>3. /\ ParseRtpParameters(offer).codecs = offered
      /\ GetDirection(offer.lines, <<>>) = DirectionOf(ts.offerer)
      /\ PrimarySsrc(offer.lines) = ts.offerer.ssrc
  BY <1>1, <1>2, SectionReads
<1> HIDE DEF common
<1>4. /\ ParseRtpParameters(answer).codecs = [i \in DOMAIN common |-> Read(common[i])]
      /\ answer.port = 0 <=> common = <<>>
      /\ GetDirection(answer.lines, <<>>) = DirectionOf(ts.answerer)
  BY <1>1, <1>2, SectionReads
<1>5. [i \in DOMAIN common |-> Read(common[i])] = common
  <2>1. IsList(common)
    BY <1>1 DEF IsWritable
  <2>2. common = [i \in DOMAIN common |-> common[i]]
    BY <2>1 DEF IsList
  <2>. QED BY <1>1, <2>2
<1> HIDE DEF offered, offer, answer
<1>6. {e.ssrc : e \in Elements(E)} = {ts.offerer.ssrc}
  <2> DEFINE p == PrimarySsrc(offer.lines)
  <2>1. /\ \A e \in Elements(E) : e.ssrc = p
        /\ p # 0 => Elements(E) # {}
    BY <1>1, <1>3, EncodingsAre
  <2>2. p = ts.offerer.ssrc /\ p # 0
    BY <1>2, <1>3
  <2>. HIDE DEF p, E
  <2>. QED BY <2>1, <2>2
<1>. QED BY <1>3, <1>4, <1>5, <1>6 DEF offered, common, offer, answer

\* No step but a negotiation touches what a negotiation has shown.
LEMMA OtherCalls ==
  ASSUME Next, ~Negotiates
  PROVE  function' # "negotiation"
BY DEF Next, SendsCandidate, ReadsSection, ConvertsForChrome, ConvertsForFirefox, Calls

\* The step of a negotiation.
LEMMA NegotiationStep ==
  ASSUME Negotiates
  PROVE  \E caps \in Capabilities, ts \in Transceivers :
           LET offered == [i \in DOMAIN caps.offerer |-> Read(caps.offerer[i])]
               common == CommonCapabilities(caps.answerer, offered)
           IN /\ given' = [caps |-> caps, ts |-> ts]
              /\ got'.offered = offered /\ got'.answered = common
              /\ got'.rejected <=> common = <<>>
              /\ got'.directions = <<DirectionOf(ts.offerer), DirectionOf(ts.answerer)>>
              /\ {e.ssrc : e \in Elements(got'.encodings)} = {ts.offerer.ssrc}
<1>1. PICK caps \in Capabilities, ts \in Transceivers :
        LET offer == WriteMediaSection(ts.offerer, caps.offerer, "offer")
            common == CommonCapabilities(caps.answerer, ParseRtpParameters(offer).codecs)
            answer == WriteMediaSection(ts.answerer, common, "answer")
        IN Calls("negotiation", [caps |-> caps, ts |-> ts],
             [offered |-> ParseRtpParameters(offer).codecs,
              answered |-> ParseRtpParameters(answer).codecs,
              rejected |-> answer.port = 0,
              directions |-> <<GetDirection(offer.lines, <<>>), GetDirection(answer.lines, <<>>)>>,
              encodings |-> ParseRtpEncodingParameters(offer)])
  BY DEF Negotiates
<1> DEFINE offered == [i \in DOMAIN caps.offerer |-> Read(caps.offerer[i])]
           common == CommonCapabilities(caps.answerer, offered)
           offer == WriteMediaSection(ts.offerer, caps.offerer, "offer")
           answer == WriteMediaSection(ts.answerer, common, "answer")
<1>2. /\ ParseRtpParameters(offer).codecs = offered
      /\ ParseRtpParameters(answer).codecs = common
      /\ answer.port = 0 <=> common = <<>>
      /\ GetDirection(offer.lines, <<>>) = DirectionOf(ts.offerer)
      /\ GetDirection(answer.lines, <<>>) = DirectionOf(ts.answerer)
      /\ {e.ssrc : e \in Elements(ParseRtpEncodingParameters(offer))} = {ts.offerer.ssrc}
  BY Negotiation
<1>3. /\ given' = [caps |-> caps, ts |-> ts]
      /\ got' = [offered |-> offered, answered |-> common, rejected |-> answer.port = 0,
                 directions |-> <<DirectionOf(ts.offerer), DirectionOf(ts.answerer)>>,
                 encodings |-> ParseRtpEncodingParameters(offer)]
  <2>. HIDE DEF offered, offer
  <2>. QED BY <1>1, <1>2 DEF Calls, common, offer
<1> HIDE DEF offered, common, offer, answer
<1>4. /\ got'.offered = offered /\ got'.answered = common
      /\ got'.rejected = (answer.port = 0)
      /\ got'.directions = <<DirectionOf(ts.offerer), DirectionOf(ts.answerer)>>
      /\ got'.encodings = ParseRtpEncodingParameters(offer)
  BY <1>3
<1>. QED BY <1>2, <1>3, <1>4 DEF offered, common

\* Offers are read as they were meant.
THEOREM OffersAreUnderstood == Spec => []OffersSurvive
<1>1. Init => OffersSurvive
  BY DEF Init, OffersSurvive
<1>2. OffersSurvive /\ [Next]_vars => OffersSurvive'
  <2>1. CASE UNCHANGED vars
    BY <2>1 DEF vars, OffersSurvive
  <2>2. CASE Negotiates
    <3>1. PICK caps \in Capabilities, ts \in Transceivers :
             LET offered == [i \in DOMAIN caps.offerer |-> Read(caps.offerer[i])]
             IN /\ given' = [caps |-> caps, ts |-> ts]
                /\ got'.offered = offered
                /\ got'.directions = <<DirectionOf(ts.offerer), DirectionOf(ts.answerer)>>
                /\ {e.ssrc : e \in Elements(got'.encodings)} = {ts.offerer.ssrc}
      BY <2>2, NegotiationStep
    <3> DEFINE C == caps.offerer
               ends == <<ts.offerer, ts.answerer>>
    <3>2. given'.caps.offerer = C /\ given'.ts = ts
      BY <3>1
    <3>3. got'.offered = [i \in DOMAIN C |->
            [C[i] EXCEPT !.payloadType = C[i].preferredPayloadType,
                         !.preferredPayloadType = Undefined]]
      <4>1. ASSUME NEW i \in DOMAIN C PROVE PayloadType(C[i]) = C[i].preferredPayloadType
        <5>1. IsCapability(C[i])
          BY CapabilitiesAssumption DEF Elements
        <5>. QED BY <5>1 DEF IsCapability, PayloadType
      <4>. QED BY <3>1, <4>1 DEF Read
    <3>4. ASSUME NEW e \in 1 .. 2
          PROVE  /\ ends[e].sender <=> got'.directions[e] \in {"sendrecv", "sendonly"}
                 /\ ends[e].receiver <=> got'.directions[e] \in {"sendrecv", "recvonly"}
      <4>1. got'.directions[e] = DirectionOf(ends[e])
        <5>1. e = 1 \/ e = 2
          OBVIOUS
        <5>. QED BY <3>1, <5>1
      <4>2. ends[e].sender \in BOOLEAN /\ ends[e].receiver \in BOOLEAN
        <5>1. e = 1 \/ e = 2
          OBVIOUS
        <5>. QED BY <5>1, TransceiversAssumption
      <4>. HIDE DEF ends
      <4>. QED BY <4>1, <4>2 DEF DirectionOf
    <3>. QED BY <3>1, <3>2, <3>3, <3>4 DEF OffersSurvive
  <2>3. CASE Next /\ ~Negotiates
    BY <2>3, OtherCalls DEF OffersSurvive
  <2>. QED BY <2>1, <2>2, <2>3 DEF Next
<1>. QED BY <1>1, <1>2, PTL DEF Spec

\* Answers hold the codecs both know, numbered as they were offered.
THEOREM AnswersAreInOffer == Spec => []AnswersNumberAsOffered
<1>1. Init => AnswersNumberAsOffered
  BY DEF Init, AnswersNumberAsOffered
<1>2. AnswersNumberAsOffered /\ [Next]_vars => AnswersNumberAsOffered'
  <2>1. CASE UNCHANGED vars
    <3>1. function' = function /\ given' = given /\ got' = got
      BY <2>1 DEF vars
    <3>. QED BY <3>1, ZenonT(30) DEF AnswersNumberAsOffered, Filter
  <2>2. CASE Negotiates
    <3>1. PICK caps \in Capabilities, ts \in Transceivers :
             LET offered == [i \in DOMAIN caps.offerer |-> Read(caps.offerer[i])]
                 common == CommonCapabilities(caps.answerer, offered)
             IN /\ given' = [caps |-> caps, ts |-> ts]
                /\ got'.offered = offered /\ got'.answered = common
                /\ got'.rejected <=> common = <<>>
      BY <2>2, NegotiationStep
    <3> DEFINE C == caps.offerer
               L == caps.answerer
               offered == [i \in DOMAIN C |-> Read(C[i])]
               common == CommonCapabilities(L, offered)
               shared == Selected(L, Shared(L, offered))
               Kind(c) == <<c.name, c.clockRate, c.numChannels>>
               I == {i \in DOMAIN L : Kind(L[i]) \in {Kind(c) : c \in Elements(C)}}
    <3>2. given'.caps.offerer = C /\ given'.caps.answerer = L
      BY <3>1
    <3>3. /\ IsList(L) /\ IsList(offered) /\ Elements(offered) = {Read(c) : c \in Elements(C)}
      BY CapabilitiesAssumption, OffersAreWritable
    <3>4. /\ IsList(common) /\ DOMAIN common = DOMAIN shared
          /\ common = <<>> <=> shared = <<>>
          /\ \A i \in DOMAIN common :
               common[i] \in Elements(offered) /\ SameCodec(common[i], shared[i])
      BY <3>3, CommonIs
    <3>5. I = Shared(L, offered)
      <4>1. \A c \in Elements(C) : /\ Read(c).name = c.name /\ Read(c).clockRate = c.clockRate
                                   /\ Read(c).numChannels = c.numChannels
        <5>1. \A c \in Elements(C) : IsCodec(c)
          BY OffersAreWritable DEF IsWritable
        <5>. QED BY <5>1, ReadIs
      <4>2. \A c, d : Kind(d) = Kind(c) <=> SameCodec(c, d)
        BY DEF SameCodec
      <4>3. \A d : \A c \in Elements(C) : SameCodec(Read(c), d) <=> SameCodec(c, d)
        BY <4>1 DEF SameCodec
      <4>. HIDE DEF Kind
      <4>. QED BY <3>3, <4>2, <4>3 DEF Shared
    <3>6. [i \in DOMAIN common |-> Kind(common[i])] = [i \in DOMAIN shared |-> Kind(shared[i])]
      <4>1. \A i \in DOMAIN common : Kind(common[i]) = Kind(shared[i])
        BY <3>4 DEF SameCodec
      <4>. HIDE DEF Kind, common, shared
      <4>. QED BY <3>4, <4>1
    <3>7. Elements(common) \in SUBSET Elements(offered)
      BY <3>4 DEF Elements
    <3>. HIDE DEF common, offered
    <3>8. /\ [i \in DOMAIN got'.answered |-> Kind(got'.answered[i])]
               = [i \in DOMAIN Selected(L, I) |-> Kind(Selected(L, I)[i])]
          /\ Elements(got'.answered) \in SUBSET Elements(got'.offered)
          /\ got'.rejected <=> Selected(L, I) = <<>>
      BY <3>1, <3>4, <3>5, <3>6, <3>7 DEF common, offered
    <3>. QED BY <3>2, <3>8 DEF AnswersNumberAsOffered, Filter
  <2>3. CASE Next /\ ~Negotiates
    BY <2>3, OtherCalls DEF AnswersNumberAsOffered
  <2>. QED BY <2>1, <2>2, <2>3 DEF Next
<1>. QED BY <1>1, <1>2, PTL DEF Spec

-----------------------------------------------------------------------------
(* Sections of other browsers.                                              *)

\* The first that is selected of two lists, where the first list has one.
LEMMA FirstBefore ==
  ASSUME NEW s, NEW t, IsList(s), IsList(t), NEW I \in SUBSET DOMAIN (s \o t),
         NEW J, J = I \cap DOMAIN s, J # {}
  PROVE  Selected(s \o t, I) # <<>> /\ Selected(s \o t, I)[1] = Selected(s, J)[1]
<1>1. /\ IsList(s \o t) /\ Len(s) \in Nat
      /\ DOMAIN s = 1 .. Len(s)
      /\ DOMAIN (s \o t) = 1 .. Len(s) + Len(t) /\ Len(t) \in Nat
      /\ \A x \in DOMAIN s : (s \o t)[x] = s[x]
  BY Appended
<1>2. PICK i \in I : (\A k \in I : i <= k) /\ Selected(s \o t, I)[1] = (s \o t)[i]
  BY <1>1, SelectedFirst
<1>3. PICK j \in J : (\A k \in J : j <= k) /\ Selected(s, J)[1] = s[j]
  BY SelectedFirst
<1>4. j \in I /\ j \in 1 .. Len(s) /\ i \in 1 .. Len(s) + Len(t)
  BY <1>1
<1>5. i <= j
  BY <1>2, <1>4
<1>6. i \in DOMAIN s
  BY <1>1, <1>4, <1>5
<1>7. j <= i
  BY <1>3, <1>6
<1>8. i = j
  BY <1>4, <1>5, <1>7
<1>9. Selected(s \o t, I) # <<>>
  BY <1>1, SelectedElements
<1>. QED BY <1>1, <1>2, <1>3, <1>6, <1>8, <1>9

\* The same where only the second list has one.
LEMMA FirstAfter ==
  ASSUME NEW s, NEW t, IsList(s), IsList(t), NEW I \in SUBSET DOMAIN (s \o t),
         I \cap DOMAIN s = {}, NEW J, J = {x \in DOMAIN t : Len(s) + x \in I}
  PROVE  /\ Selected(s \o t, I) = <<>> <=> Selected(t, J) = <<>>
         /\ Selected(t, J) # <<>> => Selected(s \o t, I)[1] = Selected(t, J)[1]
<1>1. /\ IsList(s \o t) /\ Len(s) \in Nat /\ Len(t) \in Nat
      /\ DOMAIN t = 1 .. Len(t) /\ DOMAIN (s \o t) = 1 .. Len(s) + Len(t)
      /\ \A x \in DOMAIN t : (s \o t)[Len(s) + x] = t[x]
      /\ \A x \in DOMAIN (s \o t) : x \notin DOMAIN s => x - Len(s) \in DOMAIN t
  BY Appended
<1>2. ASSUME NEW x \in I PROVE x - Len(s) \in J /\ x \in Nat
  <2>1. x - Len(s) \in DOMAIN t /\ Len(s) + (x - Len(s)) = x /\ x \in Nat
    BY <1>1
  <2>. QED BY <2>1
<1>3. J \in SUBSET DOMAIN t /\ (J = {} <=> I = {})
  BY <1>2
<1>4. /\ Selected(s \o t, I) = <<>> <=> I = {}
      /\ Selected(t, J) = <<>> <=> J = {}
  BY <1>1, <1>3, SelectedElements
<1>5. ASSUME J # {} PROVE Selected(s \o t, I)[1] = Selected(t, J)[1]
  <2>1. PICK i \in I : (\A k \in I : i <= k) /\ Selected(s \o t, I)[1] = (s \o t)[i]
    BY <1>1, <1>3, <1>5, SelectedFirst
  <2>2. PICK j \in J : (\A k \in J : j <= k) /\ Selected(t, J)[1] = t[j]
    BY <1>3, <1>5, SelectedFirst
  <2>3. j \in Nat /\ Len(s) + j \in I
    BY <1>1
  <2>4. i <= Len(s) + j
    BY <2>1, <2>3
  <2>5. j <= i - Len(s)
    BY <1>2, <2>2
  <2>6. i \in Nat
    BY <1>2
  <2>7. i = Len(s) + j
    BY <1>1, <2>3, <2>4, <2>5, <2>6
  <2>8. j \in DOMAIN t
    BY <1>3
  <2>. QED BY <1>1, <2>1, <2>2, <2>7, <2>8
<1>. QED BY <1>3, <1>4, <1>5

\* A line that a section has once, below its codecs, is what is found.
LEMMA FirstLineIs ==
  ASSUME NEW W, NEW lines, NEW session, IsList(W), IsList(lines), IsList(session), NEW a,
         \A l \in Elements(W) : l.a # a,
         \A i, j \in DOMAIN lines : lines[i].a = a /\ lines[j].a = a => i = j,
         NEW l \in Elements(lines), l.a = a
  PROVE  FirstLine(W \o lines, session, a) = l.value
<1> DEFINE s == W \o lines
           u == s \o session
           I == {i \in DOMAIN u : u[i].a = a}
           J == I \cap DOMAIN s
           K == {x \in DOMAIN lines : Len(W) + x \in J}
<1>1. FirstLine(W \o lines, session, a) = Selected(u, I)[1].value
  BY DEF FirstLine, MatchPrefix, Filter
<1>2. /\ IsList(s) /\ \A x \in DOMAIN W : s[x] = W[x]
      /\ \A x \in DOMAIN lines : Len(W) + x \in DOMAIN s /\ s[Len(W) + x] = lines[x]
  BY Appended
<1> HIDE DEF s
<1>3. \A x \in DOMAIN s : x \in DOMAIN u /\ u[x] = s[x]
  BY <1>2, Appended
<1> HIDE DEF u
<1>4. J = {x \in DOMAIN s : s[x].a = a}
  BY <1>3
<1>5. \A x \in DOMAIN W : x \notin J
  BY <1>2, <1>4 DEF Elements
<1>6. K = {x \in DOMAIN lines : lines[x].a = a}
  BY <1>2, <1>4
<1>7. PICK k \in DOMAIN lines : l = lines[k]
  BY DEF Elements
<1>8. K = {k}
  BY <1>6, <1>7
<1>9. J # {}
  BY <1>6, <1>8
<1>10. Selected(u, I)[1] = Selected(s, J)[1]
  BY <1>2, <1>9, FirstBefore, SMTT(30) DEF u
<1> HIDE DEF I, J
<1>11. J \in SUBSET DOMAIN s
  BY <1>4
<1>12. Selected(lines, K) # <<>> /\ Selected(lines, K)[1] \in {lines[x] : x \in K}
  BY <1>6, <1>8, SelectedHas
<1>13. Selected(s, J)[1] = Selected(lines, K)[1]
  <2>1. J \cap DOMAIN W = {}
    BY <1>5
  <2>. QED BY <1>11, <1>12, <2>1, FirstAfter DEF s
<1>14. Selected(u, I)[1] = l
  BY <1>7, <1>8, <1>10, <1>12, <1>13
<1>. QED BY <1>1, <1>14

\* The lines about streams are found below those of the codecs.
LEMMA StreamsAreFound ==
  ASSUME NEW W, NEW lines, IsList(W), IsList(lines), \A l \in Elements(W) : l.a \in CodecLines
  PROVE  /\ CnamesOf(W \o lines) = <<>> <=> CnamesOf(lines) = <<>>
         /\ CnamesOf(lines) # <<>> => CnamesOf(W \o lines)[1] = CnamesOf(lines)[1]
         /\ FlowsOf(W \o lines) = <<>> <=> FlowsOf(lines) = <<>>
         /\ FlowsOf(lines) # <<>> => FlowsOf(W \o lines)[1] = FlowsOf(lines)[1]
<1> DEFINE s == W \o lines
<1>1. /\ IsList(s) /\ \A x \in DOMAIN W : s[x] = W[x]
      /\ \A x \in DOMAIN lines : Len(W) + x \in DOMAIN s /\ s[Len(W) + x] = lines[x]
  <2>1. IsList(W \o lines)
    BY Appended
  <2>2. ASSUME NEW x \in DOMAIN W PROVE (W \o lines)[x] = W[x]
    BY Appended
  <2>3. \A x \in DOMAIN lines :
           Len(W) + x \in DOMAIN (W \o lines) /\ (W \o lines)[Len(W) + x] = lines[x]
    BY Appended, SMTT(30)
  <2>. QED BY <2>1, <2>2, <2>3
<1> DEFINE I == {i \in DOMAIN s : s[i].a = "ssrc" /\ s[i].attribute = "cname"}
           J == {i \in DOMAIN lines : lines[i].a = "ssrc" /\ lines[i].attribute = "cname"}
           K == {i \in DOMAIN s : s[i].a = "ssrc-group:FID"}
           L == {i \in DOMAIN lines : lines[i].a = "ssrc-group:FID"}
<1>2. /\ CnamesOf(s) = Selected(s, I) /\ CnamesOf(lines) = Selected(lines, J)
      /\ FlowsOf(s) = Selected(s, K) /\ FlowsOf(lines) = Selected(lines, L)
  BY DEF CnamesOf, FlowsOf, MatchPrefix, Filter
<1> HIDE DEF s
<1>3. \A x \in DOMAIN W : s[x].a \in CodecLines
  BY <1>1 DEF Elements
<1>4. "ssrc" \notin CodecLines /\ "ssrc-group:FID" \notin CodecLines
  BY DEF CodecLines
<1>5. I \cap DOMAIN W = {} /\ K \cap DOMAIN W = {}
  BY <1>3, <1>4
<1>6. J = {x \in DOMAIN lines : Len(W) + x \in I} /\ L = {x \in DOMAIN lines : Len(W) + x \in K}
  BY <1>1
<1>7. I \in SUBSET DOMAIN s /\ K \in SUBSET DOMAIN s
  OBVIOUS
<1> HIDE DEF I, J, K, L
<1>8. /\ Selected(s, I) = <<>> <=> Selected(lines, J) = <<>>
      /\ Selected(lines, J) # <<>> => Selected(s, I)[1] = Selected(lines, J)[1]
  BY <1>5, <1>6, <1>7, FirstAfter DEF s
<1>9. /\ Selected(s, K) = <<>> <=> Selected(lines, L) = <<>>
      /\ Selected(lines, L) # <<>> => Selected(s, K)[1] = Selected(lines, L)[1]
  BY <1>5, <1>6, <1>7, FirstAfter DEF s
<1>. QED BY <1>2, <1>8, <1>9 DEF s

\* What is read from a section that another browser wrote.
LEMMA ForeignSection ==
  ASSUME NEW caps \in Capabilities, NEW lines \in Announcements, NEW session \in Sessions
  PROVE  LET written == WriteRtpDescription("video", caps.offerer)
             section == [written EXCEPT !.lines = @ \o lines]
             E == ParseRtpEncodingParameters(section)
             cnames == CnamesOf(lines)
             repeated == {Head(c.parameters["apt"]) :
                            c \in {d \in Elements(caps.offerer) : d.name = "rtx"}}
         IN /\ \A l \in Elements(lines), a \in {"ice-ufrag", "ice-pwd", "fingerprint"} :
                 l.a = a => FirstLine(section.lines, session, a) = l.value
            /\ cnames # <<>> =>
                 /\ E # <<>>
                 /\ \A e \in Elements(E) :
                      /\ e.ssrc = cnames[1].ssrc
                      /\ e.rtx # Undefined =>
                           \E l \in Elements(lines) :
                             l.a = "ssrc-group:FID" /\ l.ssrcs = <<e.ssrc, e.rtx>>
                 /\ repeated = {e.codec : e \in Elements(E)} \ {""}
<1> DEFINE C == caps.offerer
           W == Written(C)
           section == [WriteRtpDescription("video", C) EXCEPT !.lines = @ \o lines]
           E == ParseRtpEncodingParameters(section)
           cnames == CnamesOf(lines)
           codecs == ParseRtpParameters(section).codecs
           rtx == {d \in Elements(C) : d.name = "rtx"}
           repeated == {Head(c.parameters["apt"]) : c \in rtx}
<1>1. /\ section.lines = W \o lines
      /\ section.payloadTypes = [i \in DOMAIN C |-> PayloadType(C[i])]
  BY DEF WriteRtpDescription, Written, Block
<1> HIDE DEF section
<1>2. /\ IsList(lines)
      /\ \A l \in Elements(lines) :
           /\ l.a \notin CodecLines
           /\ l.a = "ssrc" => l.ssrc # 0
           /\ l.a = "ssrc-group:FID" => l.ssrcs = <<l.ssrcs[1], l.ssrcs[2]>>
      /\ \A i, j \in DOMAIN lines :
           lines[i].a = lines[j].a /\ lines[i].a \in {"ice-ufrag", "ice-pwd", "fingerprint"}
           => i = j
      /\ IsList(session)
  BY AnnouncementsAssumption, SessionsAssumption DEF CodecLines
<1>3. /\ IsWritable(C) /\ IsList([i \in DOMAIN C |-> Read(C[i])])
      /\ Elements([i \in DOMAIN C |-> Read(C[i])]) = {Read(c) : c \in Elements(C)}
      /\ \A c \in Elements(C) : IsCapability(c)
  BY OffersAreWritable, CapabilitiesAssumption
<1>4. IsList(W) /\ \A l \in Elements(W) : l.a \in CodecLines
  BY <1>3, WrittenLines
<1>5. codecs = [i \in DOMAIN C |-> Read(C[i])]
  <2>1. HasCodecs(section.lines, C)
    BY <1>1, <1>2, <1>3 DEF HasCodecs
  <2>. QED BY <1>1, <2>1, ReadBack
<1> HIDE DEF W, codecs, cnames
<1>6. ASSUME NEW l \in Elements(lines), NEW a \in {"ice-ufrag", "ice-pwd", "fingerprint"}, l.a = a
      PROVE  FirstLine(section.lines, session, a) = l.value
  <2>1. \A x \in Elements(W) : x.a # a
    <3>1. a \notin CodecLines
      BY DEF CodecLines
    <3>. QED BY <1>4, <3>1
  <2>2. \A i, j \in DOMAIN lines : lines[i].a = a /\ lines[j].a = a => i = j
    BY <1>2
  <2>3. FirstLine(W \o lines, session, a) = l.value
    BY <1>2, <1>4, <1>6, <2>1, <2>2, FirstLineIs
  <2>. QED BY <1>1, <2>3
<1>7. ASSUME cnames # <<>>
      PROVE  /\ E # <<>>
             /\ \A e \in Elements(E) :
                  /\ e.ssrc = cnames[1].ssrc
                  /\ e.rtx # Undefined =>
                       \E l \in Elements(lines) :
                         l.a = "ssrc-group:FID" /\ l.ssrcs = <<e.ssrc, e.rtx>>
             /\ repeated = {e.codec : e \in Elements(E)} \ {""}
  <2> DEFINE p == PrimarySsrc(section.lines)
             flows == FlowsOf(section.lines)
             own == FlowsOf(lines)
             R == {d \in Elements(codecs) : Repeats(d)}
  <2>1. /\ CnamesOf(section.lines) # <<>> /\ CnamesOf(section.lines)[1] = cnames[1]
        /\ flows = <<>> <=> own = <<>>
        /\ own # <<>> => flows[1] = own[1]
    BY <1>1, <1>2, <1>4, <1>7, StreamsAreFound DEF cnames
  <2>2. p = cnames[1].ssrc
    BY <2>1 DEF PrimarySsrc
  <2>3. cnames[1] \in Elements(lines) /\ cnames[1].a = "ssrc"
    <3> DEFINE I == {i \in DOMAIN lines : lines[i].a = "ssrc" /\ lines[i].attribute = "cname"}
    <3>1. cnames = Selected(lines, I)
      BY DEF cnames, CnamesOf, Filter
    <3>2. cnames[1] \in {lines[i] : i \in I}
      BY <1>2, <1>7, <3>1, SelectedHas
    <3>. QED BY <3>2 DEF Elements
  <2>4. p # 0
    BY <1>2, <2>2, <2>3
  <2>5. /\ \A e \in Elements(E) : e.ssrc = p /\ e.rtx \in {SecondarySsrc(flows, p), Undefined}
        /\ {e.codec : e \in Elements(E)} \ {""} = {Head(c.parameters["apt"]) : c \in R} \ {""}
        /\ E # <<>>
    BY <1>3, <1>5, <2>4, EncodingsAre DEF codecs
  <2>6. own # <<>> => own[1] \in Elements(lines) /\ own[1].a = "ssrc-group:FID"
    <3> DEFINE I == {i \in DOMAIN lines : lines[i].a = "ssrc-group:FID"}
    <3>1. own = Selected(lines, I)
      BY DEF FlowsOf, MatchPrefix, Filter
    <3>2. own # <<>> => own[1] \in {lines[i] : i \in I}
      BY <1>2, <3>1, SelectedHas
    <3>. QED BY <3>2 DEF Elements
  <2> HIDE DEF p, flows, own, E
  <2>7. ASSUME NEW e \in Elements(E), e.rtx # Undefined
        PROVE  \E l \in Elements(lines) :
                 l.a = "ssrc-group:FID" /\ l.ssrcs = <<e.ssrc, e.rtx>>
    <3>1. e.rtx = SecondarySsrc(flows, p) /\ e.ssrc = p
      BY <2>5, <2>7
    <3>2. flows # <<>> /\ flows[1].ssrcs[1] = p /\ e.rtx = flows[1].ssrcs[2]
      BY <2>7, <3>1 DEF SecondarySsrc
    <3>3. own[1] \in Elements(lines) /\ own[1].a = "ssrc-group:FID" /\ flows[1] = own[1]
      BY <2>1, <2>6, <3>2
    <3>4. own[1].ssrcs = <<own[1].ssrcs[1], own[1].ssrcs[2]>>
      BY <1>2, <3>3
    <3>5. own[1].ssrcs = <<e.ssrc, e.rtx>>
      BY <3>1, <3>2, <3>3, <3>4
    <3>. QED BY <3>3, <3>5
  <2>8. ASSUME NEW c \in rtx
        PROVE  "apt" \in DOMAIN c.parameters /\ c.parameters["apt"] # <<>>
               /\ Head(c.parameters["apt"]) # ""
    <3>1. /\ "apt" \in DOMAIN c.parameters /\ c.parameters["apt"] # <<"">>
          /\ c.parameters = [k \in DOMAIN c.parameters |-> <<c.parameters[k][1]>>]
      BY <1>3 DEF IsCapability
    <3>2. c.parameters["apt"] = <<c.parameters["apt"][1]>>
      BY <3>1
    <3>3. \A x : <<x>> # <<>> /\ Head(<<x>>) = x
      OBVIOUS
    <3>4. c.parameters["apt"] # <<>> /\ Head(c.parameters["apt"]) = c.parameters["apt"][1]
      BY <3>2, <3>3
    <3>5. c.parameters["apt"][1] # ""
      BY <3>1, <3>2
    <3>. QED BY <3>1, <3>4, <3>5
  <2>9. ASSUME NEW c \in Elements(C)
        PROVE  Read(c).name = c.name /\ Read(c).parameters = c.parameters
    <3>1. IsCodec(c)
      BY <1>3 DEF IsWritable
    <3>. QED BY <3>1, ReadIs
  <2>10. R = {Read(c) : c \in rtx}
    <3>1. Elements(codecs) = {Read(c) : c \in Elements(C)}
      BY <1>3, <1>5
    <3>2. \A c \in Elements(C) : Repeats(Read(c)) <=> c \in rtx
      BY <2>8, <2>9 DEF Repeats
    <3>. QED BY <3>1, <3>2
  <2>11. {Head(c.parameters["apt"]) : c \in R} = repeated
    BY <2>9, <2>10
  <2>12. "" \notin repeated
    BY <2>8
  <2>. HIDE DEF R, repeated
  <2>. QED BY <2>2, <2>5, <2>7, <2>11, <2>12
<1>. QED BY <1>6, <1>7 DEF section, cnames

\* The step of a section that is read.
LEMMA SectionStep ==
  ASSUME ReadsSection
  PROVE  \E caps \in Capabilities, lines \in Announcements, session \in Sessions :
           LET written == WriteRtpDescription("video", caps.offerer)
               section == [written EXCEPT !.lines = @ \o lines]
           IN /\ given'.lines = lines /\ given'.session = session
              /\ given'.codecs = caps.offerer
              /\ got'.encodings = ParseRtpEncodingParameters(section)
              /\ got'.direction = GetDirection(lines, session)
              /\ got'.ice.usernameFragment = FirstLine(section.lines, session, "ice-ufrag")
              /\ got'.ice.password = FirstLine(section.lines, session, "ice-pwd")
              /\ got'.dtls = FirstLine(section.lines, session, "fingerprint")
<1>1. PICK codecs \in {caps.offerer : caps \in Capabilities},
           lines \in Announcements, session \in Sessions :
        LET written == WriteRtpDescription("video", codecs)
            section == [written EXCEPT !.lines = @ \o lines]
        IN Calls("section", [lines |-> lines, session |-> session, codecs |-> codecs],
             [encodings |-> ParseRtpEncodingParameters(section),
              extensions |-> ParseRtpParameters(section).headerExtensions,
              direction |-> GetDirection(lines, session),
              ice |-> GetIceParameters(section, session),
              dtls |-> GetDtlsParameters(section, session)])
  BY DEF ReadsSection
<1>2. PICK caps \in Capabilities : codecs = caps.offerer
  OBVIOUS
<1> DEFINE section == [WriteRtpDescription("video", caps.offerer) EXCEPT !.lines = @ \o lines]
<1>3. Calls("section", [lines |-> lines, session |-> session, codecs |-> caps.offerer],
             [encodings |-> ParseRtpEncodingParameters(section),
              extensions |-> ParseRtpParameters(section).headerExtensions,
              direction |-> GetDirection(lines, session),
              ice |-> GetIceParameters(section, session),
              dtls |-> GetDtlsParameters(section, session)])
  BY <1>1, <1>2
<1> HIDE DEF section
<1>4. /\ given'.lines = lines /\ given'.session = session /\ given'.codecs = caps.offerer
      /\ got'.encodings = ParseRtpEncodingParameters(section)
      /\ got'.direction = GetDirection(lines, session)
      /\ got'.ice = GetIceParameters(section, session)
      /\ got'.dtls = GetDtlsParameters(section, session)
  BY <1>3 DEF Calls
<1>5. /\ GetIceParameters(section, session).usernameFragment
           = FirstLine(section.lines, session, "ice-ufrag")
      /\ GetIceParameters(section, session).password
           = FirstLine(section.lines, session, "ice-pwd")
      /\ GetDtlsParameters(section, session) = FirstLine(section.lines, session, "fingerprint")
  BY DEF GetIceParameters, GetDtlsParameters
<1>. QED BY <1>4, <1>5 DEF section

\* The direction of the section goes before that of the session.
LEMMA DirectionInside ==
  ASSUME NEW lines, NEW session, IsList(lines), IsList(session),
         NEW d \in {l.a : l \in Elements(lines)} \intersect Directions
  PROVE  GetDirection(lines, session) \in {l.a : l \in Elements(lines)} \intersect Directions
<1> DEFINE u == lines \o session
           I == {i \in DOMAIN u : u[i].a \in Directions}
           J == {i \in DOMAIN lines : lines[i].a \in Directions}
<1>1. GetDirection(lines, session) =
        IF Selected(u, I) = <<>> THEN "sendrecv" ELSE Selected(u, I)[1].a
  BY DEF GetDirection, Filter
<1>2. \A x \in DOMAIN lines : x \in DOMAIN u /\ u[x] = lines[x]
  BY Appended
<1> HIDE DEF u
<1>3. J = I \cap DOMAIN lines /\ I \in SUBSET DOMAIN u
  BY <1>2
<1>4. J # {} /\ J \in SUBSET DOMAIN lines
  BY DEF Elements
<1>5. \A x \in {lines[i] : i \in J} : x \in Elements(lines) /\ x.a \in Directions
  BY DEF Elements
<1> HIDE DEF I, J
<1>6. Selected(u, I) # <<>> /\ Selected(u, I)[1] = Selected(lines, J)[1]
  <2>1. I \in SUBSET DOMAIN (lines \o session)
    BY <1>3 DEF u
  <2>2. J = I \cap DOMAIN lines /\ J # {}
    BY <1>3, <1>4
  <2>3. /\ Selected(lines \o session, I) # <<>>
        /\ Selected(lines \o session, I)[1] = Selected(lines, J)[1]
    BY <2>1, <2>2, FirstBefore
  <2>. QED BY <2>3 DEF u
<1>7. Selected(lines, J)[1] \in {lines[i] : i \in J}
  BY <1>4, SelectedHas
<1>. QED BY <1>1, <1>5, <1>6, <1>7

\* A section is read as it was meant.
THEOREM SectionsAreUnderstood == Spec => []SectionsAreRead
<1>1. Init => SectionsAreRead
  BY DEF Init, SectionsAreRead
<1>2. SectionsAreRead /\ [Next]_vars => SectionsAreRead'
  <2>1. CASE UNCHANGED vars
    BY <2>1 DEF vars, SectionsAreRead, Filter
  <2>2. CASE ReadsSection
    <3>1. PICK caps \in Capabilities, lines \in Announcements, session \in Sessions :
             LET written == WriteRtpDescription("video", caps.offerer)
                 section == [written EXCEPT !.lines = @ \o lines]
             IN /\ given'.lines = lines /\ given'.session = session
                /\ given'.codecs = caps.offerer
                /\ got'.encodings = ParseRtpEncodingParameters(section)
                /\ got'.direction = GetDirection(lines, session)
                /\ got'.ice.usernameFragment = FirstLine(section.lines, session, "ice-ufrag")
                /\ got'.ice.password = FirstLine(section.lines, session, "ice-pwd")
                /\ got'.dtls = FirstLine(section.lines, session, "fingerprint")
      BY <2>2, SectionStep
    <3> DEFINE section == [WriteRtpDescription("video", caps.offerer) EXCEPT !.lines = @ \o lines]
               E == got'.encodings
               cnames == CnamesOf(lines)
               written == {l.a : l \in Elements(lines)} \intersect Directions
               Said(a) == Elements(Filter(lines, LAMBDA l : l.a = a))
               groups == {l.ssrcs : l \in Said("ssrc-group:FID")}
               repeated == {Head(c.parameters["apt"]) :
                              c \in {d \in Elements(caps.offerer) : d.name = "rtx"}}
    <3>2. IsList(lines) /\ IsList(session)
      BY AnnouncementsAssumption, SessionsAssumption
    <3>3. /\ \A l \in Elements(lines), a \in {"ice-ufrag", "ice-pwd", "fingerprint"} :
               l.a = a => FirstLine(section.lines, session, a) = l.value
          /\ cnames # <<>> =>
               /\ E # <<>>
               /\ \A e \in Elements(E) :
                    /\ e.ssrc = cnames[1].ssrc
                    /\ e.rtx # Undefined =>
                         \E l \in Elements(lines) :
                           l.a = "ssrc-group:FID" /\ l.ssrcs = <<e.ssrc, e.rtx>>
               /\ repeated = {e.codec : e \in Elements(E)} \ {""}
      <4> DEFINE F == ParseRtpEncodingParameters(section)
      <4>1. /\ \A l \in Elements(lines), a \in {"ice-ufrag", "ice-pwd", "fingerprint"} :
                 l.a = a => FirstLine(section.lines, session, a) = l.value
            /\ cnames # <<>> =>
                 /\ F # <<>>
                 /\ \A e \in Elements(F) :
                      /\ e.ssrc = cnames[1].ssrc
                      /\ e.rtx # Undefined =>
                           \E l \in Elements(lines) :
                             l.a = "ssrc-group:FID" /\ l.ssrcs = <<e.ssrc, e.rtx>>
                 /\ repeated = {e.codec : e \in Elements(F)} \ {""}
        BY ForeignSection
      <4>2. E = F
        BY <3>1
      <4>. HIDE DEF F, E, section, repeated, cnames
      <4>. QED BY <4>1, <4>2
    <3>4. ASSUME NEW a PROVE Said(a) = {l \in Elements(lines) : l.a = a}
      <4> DEFINE I == {i \in DOMAIN lines : lines[i].a = a}
      <4>1. Said(a) = Elements(Selected(lines, I))
        BY DEF Filter
      <4>2. Elements(Selected(lines, I)) = {lines[i] : i \in I}
        BY <3>2, SelectedElements
      <4>. QED BY <4>1, <4>2 DEF Elements
    <3> HIDE DEF section, Said, E
    <3>5. /\ \A l \in Said("ice-ufrag") : got'.ice.usernameFragment = l.value
          /\ \A l \in Said("ice-pwd") : got'.ice.password = l.value
          /\ \A l \in Said("fingerprint") : got'.dtls = l.value
      BY <3>1, <3>3, <3>4 DEF section
    <3>6. written # {} => got'.direction \in written
      BY <3>1, <3>2, DirectionInside
    <3>7. cnames # <<>> =>
               /\ E # <<>>
               /\ \A e \in Elements(E) :
                    /\ e.ssrc = cnames[1].ssrc
                    /\ e.rtx # Undefined => <<e.ssrc, e.rtx>> \in groups
               /\ repeated = {e.codec : e \in Elements(E)} \ {""}
      BY <3>3, <3>4
    <3>8. given'.lines = lines /\ given'.codecs = caps.offerer
      BY <3>1
    <3>. HIDE DEF repeated, written
    <3>. QED BY <3>5, <3>6, <3>7, <3>8
             DEF SectionsAreRead, CnamesOf, Filter, Said, E, repeated, written
  <2>3. CASE Next /\ ~ReadsSection
    <3>1. function' # "section"
      BY <2>3 DEF Next, SendsCandidate, Negotiates, ConvertsForChrome, ConvertsForFirefox,
                  Calls
    <3>. QED BY <3>1 DEF SectionsAreRead
  <2>. QED BY <2>1, <2>2, <2>3 DEF Next
<1>. QED BY <1>1, <1>2, PTL DEF Spec
=============================================================================
