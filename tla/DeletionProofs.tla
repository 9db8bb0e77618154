--------------------------- MODULE DeletionProofs ---------------------------
(***************************************************************************)
(* What is proved about Deletion: delete, undelete and expunge, when none  *)
(* of what AllowedKinds lists happens to them.                             *)
(*                                                                         *)
(* The files are a tree: every node has a rank above that of its           *)
(* directory, by which what holds of directories goes down to what is in   *)
(* them.  A node in a marked directory is marked, but for one that an      *)
(* undelete has on its way.  To that a tool adds what it is in the middle  *)
(* of: delete a stack of directories, expunge the files it has found, and  *)
(* undelete a path whose marks come off from the last to the first, which  *)
(* the paths of all other leaves follow.                                   *)
(***************************************************************************)
EXTENDS Deletion, SequenceTheorems, WellFoundedInduction, NaturalsInduction, TLAPS

----------------------------------------------------------------------------
(* Induction over numbers                                                  *)

(* A set of naturals has a least element.                                  *)
LEMMA Least ==
  ASSUME NEW T \in SUBSET Nat, T # {}
  PROVE  \E n \in T : \A m \in T : n <= m
<1> DEFINE R == OpToRel(<, Nat)
<1>1. IsWellFoundedOn(R, Nat)
  BY NatLessThanWellFounded
<1>2. PICK n \in T : \A m \in T : ~(<<m, n>> \in R)
  <2> HIDE DEF R
  <2> QED BY <1>1, WFMin
<1>3. \A n1, m \in Nat : <<m, n1>> \in R <=> m < n1
  BY DEF OpToRel
<1>4. ASSUME NEW m \in T
      PROVE  ~(m < n)
  <2> HIDE DEF R
  <2>1. m \in Nat /\ n \in Nat
    OBVIOUS
  <2>2. ~(<<m, n>> \in R)
    BY <1>2
  <2> QED BY <2>1, <2>2, <1>3
<1> HIDE DEF R
<1> QED BY <1>4, SMT

(* Induction over the naturals, for a set instead of a predicate.          *)
LEMMA SetInduction ==
  ASSUME NEW T, 0 \in T, \A n \in Nat : n \in T => n + 1 \in T
  PROVE  Nat \subseteq T
<1> SUFFICES ASSUME Nat \ T # {}
             PROVE  FALSE
  OBVIOUS
<1>1. PICK n \in Nat \ T : \A m \in Nat \ T : n <= m
  BY Least
<1>2. n # 0
  OBVIOUS
<1>3. n - 1 \in Nat /\ n - 1 \notin Nat \ T
  BY <1>1, <1>2
<1> QED BY <1>3

----------------------------------------------------------------------------
(* Trees of names                                                          *)

Parts == [name : Names, del : BOOLEAN]
Paths == Seq(Parts)

(* Paths with the same parts are the same.                                 *)
LEMMA PathEqual ==
  ASSUME NEW p \in Paths, NEW q \in Paths, Len(p) = Len(q), \A i \in 1 .. Len(p) : p[i] = q[i]
  PROVE  p = q
BY SeqEqual DEF Paths

(* Every node is in a directory that exists, nearer to the root, and alone *)
(* with its name and mark.                                                 *)
Ranked(w, rank) ==
  /\ rank \in [Nodes -> Nat]
  /\ \A n \in Nodes : w[n] # Nowhere /\ w[n].dir # Root => rank[w[n].dir] < rank[n]

Tree(w) ==
  /\ w \in [Nodes -> Places \cup {Nowhere}]
  /\ \A m, n \in Nodes : w[m] # Nowhere /\ w[m] = w[n] => m = n
  /\ \A n \in Nodes : w[n] # Nowhere /\ w[n].dir # Root => w[w[n].dir] # Nowhere
  /\ \E rank : Ranked(w, rank)

Part(w, n) == [name |-> w[n].name, del |-> w[n].del]

Body(w, f) ==
  [n \in Nodes |->
     IF w[n] = Nowhere THEN <<>>
     ELSE IF w[n].dir = Root THEN <<Part(w, n)>> ELSE Append(f[w[n].dir], Part(w, n))]

PathIn(w) == CHOOSE f : f = Body(w, f)

LEMMA PlaceFacts ==
  ASSUME NEW w, Tree(w), NEW n \in Nodes, w[n] # Nowhere
  PROVE  /\ w[n] \in Places /\ Part(w, n) \in Parts /\ w[n].del \in BOOLEAN
         /\ w[n].dir # Root => w[n].dir \in Dirs /\ w[n].dir \in Nodes /\ w[w[n].dir] # Nowhere
BY DEF Tree, Part, Parts, Places, Nodes

(* Induction over the tree, for a set of nodes.                            *)
LEMMA TreeInduction ==
  ASSUME NEW w, Tree(w), NEW S,
         \A n \in Nodes : w[n] # Nowhere /\ (w[n].dir = Root \/ w[n].dir \in S) => n \in S
  PROVE  \A n \in Nodes : w[n] # Nowhere => n \in S
<1> DEFINE bad == {n \in Nodes : w[n] # Nowhere /\ n \notin S}
<1> SUFFICES ASSUME bad # {}
             PROVE  FALSE
  OBVIOUS
<1>1. PICK rank : Ranked(w, rank)
  BY DEF Tree
<1> DEFINE T == {rank[n] : n \in bad}
<1>2. T \in SUBSET Nat /\ T # {}
  BY <1>1 DEF Ranked
<1>3. PICK k \in T : \A m \in T : k <= m
  <2> HIDE DEF T
  <2> QED BY <1>2, Least
<1>4. PICK n \in bad : rank[n] = k
  OBVIOUS
<1>5. w[n].dir # Root /\ w[n].dir \notin S
  BY <1>4
<1>6. w[n].dir \in bad
  BY <1>4, <1>5, PlaceFacts
<1>7. rank[w[n].dir] < rank[n] /\ rank[w[n].dir] \in Nat /\ rank[n] \in Nat
  BY <1>1, <1>5, <1>6 DEF Ranked
<1>8. rank[n] <= rank[w[n].dir]
  BY <1>3, <1>4, <1>6
<1> QED BY <1>7, <1>8

(* The paths are defined.                                                  *)
LEMMA BodyPaths ==
  ASSUME NEW w, Tree(w), NEW f \in [Nodes -> Paths]
  PROVE  Body(w, f) \in [Nodes -> Paths]
<1> SUFFICES ASSUME NEW n \in Nodes
             PROVE  Body(w, f)[n] \in Paths
  BY DEF Body
<1>1. CASE w[n] = Nowhere
  BY <1>1 DEF Body, Paths
<1>2. CASE w[n] # Nowhere
  <2>1. Part(w, n) \in Parts /\ (w[n].dir # Root => f[w[n].dir] \in Paths)
    BY <1>2, PlaceFacts
  <2> QED BY <1>2, <2>1 DEF Body, Paths
<1> QED BY <1>1, <1>2

LEMMA PathsExist ==
  ASSUME NEW w, Tree(w)
  PROVE  \E f \in [Nodes -> Paths] : f = Body(w, f)
<1>1. PICK rank : Ranked(w, rank)
  BY DEF Tree
<1> DEFINE Grown(k, f) == f \in [Nodes -> Paths] /\ \A n \in Nodes : rank[n] < k => f[n] = Body(w, f)[n]
           T == {k \in Nat : \E f : Grown(k, f)}
<1>2. 0 \in T
  <2>1. [n \in Nodes |-> <<>>] \in [Nodes -> Paths]
    BY DEF Paths
  <2>2. \A n \in Nodes : ~(rank[n] < 0)
    BY <1>1 DEF Ranked
  <2>3. Grown(0, [n \in Nodes |-> <<>>])
    BY <2>1, <2>2
  <2> QED BY <2>3
<1>3. ASSUME NEW k \in Nat, k \in T
      PROVE  k + 1 \in T
  <2>1. PICK f : Grown(k, f)
    BY <1>3
  <2> DEFINE g == Body(w, f)
  <2>2. g \in [Nodes -> Paths]
    BY <2>1, BodyPaths
  <2>3. ASSUME NEW n \in Nodes, rank[n] < k + 1
        PROVE  g[n] = Body(w, g)[n]
    <3>1. CASE w[n] = Nowhere \/ w[n].dir = Root
      BY <3>1 DEF Body
    <3>2. CASE w[n] # Nowhere /\ w[n].dir # Root
      <4>1. w[n].dir \in Nodes /\ rank[w[n].dir] < rank[n] /\ rank[w[n].dir] \in Nat /\ rank[n] \in Nat
        BY <1>1, <3>2, PlaceFacts DEF Ranked
      <4>2. rank[w[n].dir] < k
        BY <4>1, <2>3
      <4>3. f[w[n].dir] = g[w[n].dir]
        BY <2>1, <4>1, <4>2
      <4> HIDE DEF g
      <4>4. Body(w, g)[n] = Append(g[w[n].dir], Part(w, n))
        BY <3>2 DEF Body
      <4>5. g[n] = Append(f[w[n].dir], Part(w, n))
        BY <3>2 DEF Body, g
      <4> QED BY <4>3, <4>4, <4>5
    <3> QED BY <3>1, <3>2
  <2>4. Grown(k + 1, g)
    <3> HIDE DEF g
    <3> QED BY <2>2, <2>3
  <2> QED BY <2>4
<1>4. \A k \in Nat : \E f : Grown(k, f)
  <2>1. Nat \subseteq T
    <3> HIDE DEF T
    <3> QED BY <1>2, <1>3, SetInduction
  <2> QED BY <2>1
<1> DEFINE F(k) == CHOOSE f : Grown(k, f)
           h == [n \in Nodes |-> F(rank[n] + 1)[n]]
<1>5. \A k \in Nat : Grown(k, F(k))
  BY <1>4
<1> HIDE DEF F
<1>6. \A n \in Nodes : rank[n] \in Nat /\ rank[n] + 1 \in Nat /\ rank[n] < rank[n] + 1
  BY <1>1 DEF Ranked
<1>7. h \in [Nodes -> Paths]
  BY <1>5, <1>6
<1> DEFINE S == {n \in Nodes : \A k \in Nat : rank[n] < k => F(k)[n] = h[n]}
<1>8. ASSUME NEW n \in Nodes, w[n] = Nowhere \/ w[n].dir = Root, NEW k \in Nat, rank[n] < k
      PROVE  F(k)[n] = h[n] /\ h[n] = Body(w, h)[n]
  <2>1. F(k)[n] = Body(w, F(k))[n] /\ h[n] = Body(w, F(rank[n] + 1))[n]
    BY <1>5, <1>6, <1>8
  <2> QED BY <2>1, <1>8 DEF Body
<1>9. ASSUME NEW n \in Nodes, w[n] # Nowhere, w[n].dir # Root, w[n].dir \in S, NEW k \in Nat, rank[n] < k
      PROVE  F(k)[n] = h[n] /\ h[n] = Body(w, h)[n]
  <2>1. F(k)[n] = Body(w, F(k))[n] /\ h[n] = Body(w, F(rank[n] + 1))[n]
    BY <1>5, <1>6, <1>9
  <2>2. w[n].dir \in Nodes /\ rank[w[n].dir] < rank[n] /\ rank[w[n].dir] \in Nat /\ rank[n] \in Nat
    BY <1>1, <1>9, PlaceFacts DEF Ranked
  <2>3. rank[w[n].dir] < k /\ rank[w[n].dir] < rank[n] + 1
    BY <2>2, <1>9
  <2>4. F(k)[w[n].dir] = h[w[n].dir] /\ F(rank[n] + 1)[w[n].dir] = h[w[n].dir]
    BY <1>6, <1>9, <2>3
  <2> HIDE DEF h
  <2> QED BY <2>1, <2>4, <1>9 DEF Body
<1> HIDE DEF h
<1>10. \A n \in Nodes : w[n] # Nowhere => n \in S
  <2>1. ASSUME NEW n \in Nodes, w[n] # Nowhere, w[n].dir = Root \/ w[n].dir \in S
        PROVE  n \in S
    BY <1>8, <1>9, <2>1
  <2> HIDE DEF S
  <2> QED BY <2>1, TreeInduction
<1>11. ASSUME NEW n \in Nodes
       PROVE  h[n] = Body(w, h)[n]
  <2>1. CASE w[n] = Nowhere \/ w[n].dir = Root
    BY <2>1, <1>6, <1>8
  <2>2. CASE w[n] # Nowhere /\ w[n].dir # Root
    <3>1. w[n].dir \in S
      BY <2>2, <1>10, PlaceFacts
    <3> HIDE DEF S
    <3> QED BY <2>2, <3>1, <1>6, <1>9
  <2> QED BY <2>1, <2>2
<1>12. h = Body(w, h)
  <2>1. h = [n \in Nodes |-> h[n]]
    BY <1>7
  <2>2. Body(w, h) = [n \in Nodes |-> Body(w, h)[n]]
    BY DEF Body
  <2> DEFINE b == Body(w, h)
  <2> HIDE DEF b
  <2>3. \A n \in Nodes : h[n] = b[n]
    BY <1>11 DEF b
  <2>4. b = [n \in Nodes |-> b[n]]
    BY <2>2 DEF b
  <2>5. h = b
    BY <2>1, <2>3, <2>4
  <2> QED BY <2>5 DEF b
<1> QED BY <1>7, <1>12

(* They are the paths of the model.                                        *)
LEMMA PathDef == Path = PathIn(where)
BY Zenon DEF Path, PathIn, Body, Part, Exists

LEMMA PathIsBody ==
  ASSUME NEW w, Tree(w)
  PROVE  PathIn(w) = Body(w, PathIn(w)) /\ PathIn(w) \in [Nodes -> Paths]
<1>1. PathIn(w) = Body(w, PathIn(w))
  BY PathsExist DEF PathIn
<1> DEFINE P == PathIn(w)
           S == {n \in Nodes : P[n] \in Paths}
<1> HIDE DEF P
<1>2. P = Body(w, P)
  BY <1>1 DEF P
<1>3. ASSUME NEW n \in Nodes, w[n] # Nowhere, w[n].dir = Root \/ w[n].dir \in S
      PROVE  n \in S
  <2>1. Part(w, n) \in Parts
    BY <1>3, PlaceFacts
  <2>2. P[n] = IF w[n].dir = Root THEN <<Part(w, n)>> ELSE Append(P[w[n].dir], Part(w, n))
    BY <1>2, <1>3 DEF Body
  <2>3. P[n] \in Paths
    BY <2>1, <2>2, <1>3 DEF Paths
  <2> QED BY <2>3
<1>4. \A n \in Nodes : w[n] # Nowhere => n \in S
  <2> HIDE DEF S
  <2> QED BY <1>3, TreeInduction
<1>5. \A n \in Nodes : w[n] = Nowhere => P[n] = <<>>
  BY <1>2 DEF Body
<1>6. \A n \in Nodes : P[n] \in Paths
  <2>1. <<>> \in Paths
    BY DEF Paths
  <2> QED BY <1>4, <1>5, <2>1
<1>7. P \in [Nodes -> Paths]
  BY <1>2, <1>6 DEF Body
<1> QED BY <1>2, <1>7 DEF P

(* A path is that of the directory and one part more.                      *)
LEMMA PathStep ==
  ASSUME NEW w, Tree(w), NEW n \in Nodes, NEW P, P = PathIn(w)
  PROVE  /\ P[n] \in Paths /\ Len(P[n]) \in Nat
         /\ w[n] = Nowhere => P[n] = <<>> /\ Len(P[n]) = 0
         /\ w[n] # Nowhere =>
              /\ Len(P[n]) >= 1 /\ P[n][Len(P[n])] = Part(w, n)
              /\ w[n].dir = Root => Len(P[n]) = 1
              /\ w[n].dir # Root =>
                   /\ P[w[n].dir] \in Paths /\ Len(P[w[n].dir]) \in Nat /\ Len(P[w[n].dir]) >= 1
                   /\ Len(P[n]) = Len(P[w[n].dir]) + 1
                   /\ \A i \in 1 .. Len(P[w[n].dir]) : P[n][i] = P[w[n].dir][i]
<1>1. P = Body(w, P) /\ P \in [Nodes -> Paths]
  BY PathIsBody
<1>2. P[n] \in Paths /\ Len(P[n]) \in Nat
  BY <1>1 DEF Paths
<1>3. w[n] = Nowhere => P[n] = <<>> /\ Len(P[n]) = 0
  BY <1>1 DEF Body
<1>4. ASSUME w[n] # Nowhere, w[n].dir = Root
      PROVE  Len(P[n]) = 1 /\ P[n][1] = Part(w, n)
  <2>1. P[n] = <<Part(w, n)>>
    BY <1>1, <1>4 DEF Body
  <2> QED BY <2>1
<1>5. ASSUME NEW m \in Nodes, w[m] # Nowhere
      PROVE  Len(P[m]) \in Nat /\ Len(P[m]) >= 1
  <2>1. P[m] = IF w[m].dir = Root THEN <<Part(w, m)>> ELSE Append(P[w[m].dir], Part(w, m))
    BY <1>1, <1>5 DEF Body
  <2>2. w[m].dir # Root => P[w[m].dir] \in Paths
    BY <1>1, <1>5, PlaceFacts
  <2> QED BY <2>1, <2>2 DEF Paths
<1>6. ASSUME w[n] # Nowhere, w[n].dir # Root
      PROVE  /\ P[w[n].dir] \in Paths /\ Len(P[w[n].dir]) \in Nat /\ Len(P[w[n].dir]) >= 1
             /\ Len(P[n]) = Len(P[w[n].dir]) + 1 /\ P[n][Len(P[n])] = Part(w, n)
             /\ \A i \in 1 .. Len(P[w[n].dir]) : P[n][i] = P[w[n].dir][i]
  <2>1. P[n] = Append(P[w[n].dir], Part(w, n)) /\ Part(w, n) \in Parts
    BY <1>1, <1>6, PlaceFacts DEF Body
  <2>2. P[w[n].dir] \in Paths /\ Len(P[w[n].dir]) \in Nat /\ Len(P[w[n].dir]) >= 1
    BY <1>1, <1>5, <1>6, PlaceFacts
  <2> QED BY <2>1, <2>2 DEF Paths
<1> QED BY <1>2, <1>3, <1>4, <1>5, <1>6

(* No two nodes have the same path.                                        *)
LEMMA SamePath ==
  ASSUME NEW w, Tree(w), NEW P, P = PathIn(w), NEW m \in Nodes, NEW n \in Nodes,
         w[m] # Nowhere, w[n] # Nowhere, P[m] = P[n]
  PROVE  m = n
<1> DEFINE S == {k \in Nodes : \A j \in Nodes : w[j] # Nowhere /\ P[j] = P[k] => j = k}
<1>1. ASSUME NEW k \in Nodes, w[k] # Nowhere, w[k].dir = Root \/ w[k].dir \in S,
             NEW j \in Nodes, w[j] # Nowhere, P[j] = P[k]
      PROVE  j = k
  <2>1. Part(w, j) = Part(w, k)
    BY <1>1, PathStep
  <2>2. w[j].name = w[k].name /\ w[j].del = w[k].del
    BY <2>1 DEF Part
  <2>3. w[j].dir = w[k].dir
    <3>1. CASE w[k].dir = Root
      <4>1. Len(P[k]) = 1
        BY <3>1, <1>1, PathStep
      <4>2. w[j].dir # Root => Len(P[j]) # 1
        BY <1>1, PathStep
      <4> QED BY <4>1, <4>2, <3>1, <1>1
    <3>2. CASE w[k].dir # Root
      <4> DEFINE a == w[k].dir
                 b == w[j].dir
      <4>1. a \in Nodes /\ w[a] # Nowhere /\ a \in S
        BY <3>2, <1>1, PlaceFacts
      <4>2. Len(P[k]) = Len(P[a]) + 1 /\ Len(P[a]) >= 1 /\ Len(P[a]) \in Nat /\ P[a] \in Paths
            /\ \A i \in 1 .. Len(P[a]) : P[k][i] = P[a][i]
        BY <3>2, <1>1, PathStep
      <4>3. b # Root
        BY <4>2, <1>1, PathStep
      <4>4. /\ Len(P[j]) = Len(P[b]) + 1 /\ Len(P[b]) >= 1 /\ Len(P[b]) \in Nat /\ P[b] \in Paths
            /\ \A i \in 1 .. Len(P[b]) : P[j][i] = P[b][i]
        <5>1. w[j].dir # Root =>
                /\ P[w[j].dir] \in Paths /\ Len(P[w[j].dir]) \in Nat /\ Len(P[w[j].dir]) >= 1
                /\ Len(P[j]) = Len(P[w[j].dir]) + 1
                /\ \A i \in 1 .. Len(P[w[j].dir]) : P[j][i] = P[w[j].dir][i]
          BY <1>1, PathStep
        <5> QED BY <5>1, <4>3
      <4>5. b \in Nodes /\ w[b] # Nowhere
        BY <4>3, <1>1, PlaceFacts
      <4> HIDE DEF a, b
      <4>6. Len(P[a]) = Len(P[b])
        BY <4>2, <4>4, <1>1
      <4>7. \A i \in 1 .. Len(P[a]) : P[a][i] = P[b][i]
        BY <4>2, <4>4, <4>6, <1>1
      <4>8. P[a] = P[b]
        BY <4>2, <4>4, <4>6, <4>7, PathEqual
      <4>9. b = a
        BY <4>1, <4>5, <4>8
      <4> QED BY <4>9 DEF a, b
    <3> QED BY <3>1, <3>2
  <2>4. w[j] \in Places /\ w[k] \in Places
    BY <1>1, PlaceFacts
  <2>5. w[j] = w[k]
    BY <2>2, <2>3, <2>4 DEF Places
  <2> QED BY <2>5, <1>1 DEF Tree
<1>2. \A k \in Nodes : w[k] # Nowhere => k \in S
  <2>1. ASSUME NEW k \in Nodes, w[k] # Nowhere, w[k].dir = Root \/ w[k].dir \in S
        PROVE  k \in S
    BY <2>1, <1>1
  <2> HIDE DEF S
  <2> QED BY <2>1, TreeInduction
<1> QED BY <1>2

(* Extends, part by part.                                                  *)
Begins(p, q) == Len(q) <= Len(p) /\ \A i \in 1 .. Len(q) : p[i] = q[i]

LEMMA ExtendsBegins ==
  ASSUME NEW p \in Paths, NEW q \in Paths
  PROVE  Extends(p, q) <=> Begins(p, q)
<1>1. Len(p) \in Nat /\ Len(q) \in Nat /\ p \in [1 .. Len(p) -> Parts]
  BY LenProperties DEF Paths
<1>2. ASSUME Len(q) <= Len(p)
      PROVE  SubSeq(p, 1, Len(q)) = q <=> \A i \in 1 .. Len(q) : p[i] = q[i]
  <2> DEFINE r == SubSeq(p, 1, Len(q))
  <2>1. \A i \in 1 .. Len(q) : p[i] \in Parts
    BY <1>1, <1>2
  <2>2. r \in Paths /\ Len(r) = Len(q) /\ \A i \in 1 .. Len(q) : r[i] = p[i]
    BY <1>1, <1>2, <2>1 DEF Paths
  <2> HIDE DEF r
  <2>3. (\A i \in 1 .. Len(q) : p[i] = q[i]) => r = q
    BY <2>2, PathEqual
  <2> QED BY <2>2, <2>3 DEF r
<1> QED BY <1>1, <1>2 DEF Extends, Begins

(* What is under n in the tree: n, and what is in a directory under n.     *)
UnderIn(w, m, n) == Begins(PathIn(w)[m], PathIn(w)[n])

LEMMA UnderStep ==
  ASSUME NEW w, Tree(w), NEW m \in Nodes, NEW n \in Nodes, w[m] # Nowhere, w[n] # Nowhere
  PROVE  UnderIn(w, m, n) <=> m = n \/ (w[m].dir # Root /\ UnderIn(w, w[m].dir, n))
<1> DEFINE P == PathIn(w)
<1>1. /\ P[m] \in Paths /\ P[n] \in Paths /\ Len(P[m]) \in Nat /\ Len(P[n]) \in Nat
      /\ Len(P[m]) >= 1 /\ Len(P[n]) >= 1
      /\ w[m].dir = Root => Len(P[m]) = 1
      /\ w[m].dir # Root =>
           /\ P[w[m].dir] \in Paths /\ Len(P[w[m].dir]) \in Nat
           /\ Len(P[m]) = Len(P[w[m].dir]) + 1
           /\ \A i \in 1 .. Len(P[w[m].dir]) : P[m][i] = P[w[m].dir][i]
  BY PathStep
<1>2. P[m] = P[n] => m = n
  BY SamePath
<1> HIDE DEF P
<1>3. ASSUME Begins(P[m], P[n]), m # n
      PROVE  w[m].dir # Root /\ Begins(P[w[m].dir], P[n])
  <2>1. Len(P[n]) # Len(P[m])
    <3> SUFFICES ASSUME Len(P[n]) = Len(P[m])
                 PROVE  FALSE
      OBVIOUS
    <3>1. P[m] = P[n]
      BY <1>1, <1>3, PathEqual DEF Begins
    <3> QED BY <3>1, <1>2, <1>3
  <2>2. Len(P[n]) < Len(P[m])
    BY <1>1, <1>3, <2>1 DEF Begins
  <2>3. w[m].dir # Root
    BY <1>1, <2>2
  <2>4. Len(P[n]) <= Len(P[w[m].dir])
    BY <1>1, <2>2, <2>3
  <2> QED BY <1>1, <1>3, <2>3, <2>4 DEF Begins
<1>4. ASSUME w[m].dir # Root, Begins(P[w[m].dir], P[n])
      PROVE  Begins(P[m], P[n])
  BY <1>1, <1>4 DEF Begins
<1>5. Begins(P[n], P[n])
  BY <1>1 DEF Begins
<1> QED BY <1>3, <1>4, <1>5 DEF UnderIn, P

LEMMA UnderTransitive ==
  ASSUME NEW w, Tree(w), NEW m \in Nodes, NEW n \in Nodes, NEW k \in Nodes,
         UnderIn(w, m, n), UnderIn(w, n, k)
  PROVE  UnderIn(w, m, k)
<1> DEFINE P == PathIn(w)
<1>1. Len(P[m]) \in Nat /\ Len(P[n]) \in Nat /\ Len(P[k]) \in Nat
  BY PathStep
<1> HIDE DEF P
<1>2. Begins(P[m], P[n]) /\ Begins(P[n], P[k])
  BY DEF UnderIn, P
<1>3. Begins(P[m], P[k])
  BY <1>1, <1>2 DEF Begins
<1> QED BY <1>3 DEF UnderIn, P

(* Every beginning of a path is that of a node.                            *)
LEMMA Ancestor ==
  ASSUME NEW w, Tree(w), NEW P, P = PathIn(w), NEW n \in Nodes, w[n] # Nowhere,
         NEW i \in 1 .. Len(P[n])
  PROVE  \E m \in Nodes : w[m] # Nowhere /\ Len(P[m]) = i /\ Begins(P[n], P[m])
<1> DEFINE S == {k \in Nodes : \A j \in 1 .. Len(P[k]) :
                    \E m \in Nodes : w[m] # Nowhere /\ Len(P[m]) = j /\ Begins(P[k], P[m])}
<1>1. ASSUME NEW k \in Nodes, w[k] # Nowhere, w[k].dir = Root \/ w[k].dir \in S, NEW j \in 1 .. Len(P[k])
      PROVE  \E m \in Nodes : w[m] # Nowhere /\ Len(P[m]) = j /\ Begins(P[k], P[m])
  <2>1. /\ Len(P[k]) \in Nat
        /\ w[k].dir = Root => Len(P[k]) = 1
        /\ w[k].dir # Root =>
             /\ Len(P[w[k].dir]) \in Nat
             /\ Len(P[k]) = Len(P[w[k].dir]) + 1
             /\ \A b \in 1 .. Len(P[w[k].dir]) : P[k][b] = P[w[k].dir][b]
    BY <1>1, PathStep
  <2>2. CASE j = Len(P[k])
    <3>1. Begins(P[k], P[k])
      BY <2>1 DEF Begins
    <3> QED BY <3>1, <2>2, <1>1
  <2>3. CASE j # Len(P[k])
    <3>1. w[k].dir # Root
      <4> SUFFICES ASSUME w[k].dir = Root
                   PROVE  FALSE
        OBVIOUS
      <4>1. Len(P[k]) = 1
        BY <2>1
      <4> QED BY <4>1, <2>3
    <3>2. Len(P[w[k].dir]) \in Nat /\ Len(P[k]) = Len(P[w[k].dir]) + 1
      BY <2>1, <3>1
    <3>3. j \in 1 .. Len(P[w[k].dir])
      BY <3>2, <2>3
    <3>4. PICK m \in Nodes : w[m] # Nowhere /\ Len(P[m]) = j /\ Begins(P[w[k].dir], P[m])
      BY <1>1, <3>1, <3>3
    <3>5. Begins(P[k], P[m])
      BY <2>1, <3>1, <3>2, <3>3, <3>4 DEF Begins
    <3> QED BY <3>4, <3>5
  <2> QED BY <2>2, <2>3
<1>2. \A k \in Nodes : w[k] # Nowhere => k \in S
  <2>1. ASSUME NEW k \in Nodes, w[k] # Nowhere, w[k].dir = Root \/ w[k].dir \in S
        PROVE  k \in S
    BY <1>1, <2>1
  <2> HIDE DEF S
  <2> QED BY <2>1, TreeInduction
<1> QED BY <1>2

(* A node is live if it is not marked and its directory is live.           *)
LiveIn(w, n) == w[n] # Nowhere /\ \A i \in 1 .. Len(PathIn(w)[n]) : ~PathIn(w)[n][i].del

LEMMA LiveStep ==
  ASSUME NEW w, Tree(w), NEW n \in Nodes
  PROVE  LiveIn(w, n) <=> w[n] # Nowhere /\ ~w[n].del /\ (w[n].dir = Root \/ LiveIn(w, w[n].dir))
<1> DEFINE P == PathIn(w)
<1> SUFFICES ASSUME w[n] # Nowhere
             PROVE  LiveIn(w, n) <=> ~w[n].del /\ (w[n].dir = Root \/ LiveIn(w, w[n].dir))
  BY DEF LiveIn
<1>1. /\ Len(P[n]) \in Nat /\ Len(P[n]) >= 1 /\ P[n][Len(P[n])] = Part(w, n)
      /\ w[n].dir = Root => Len(P[n]) = 1
      /\ w[n].dir # Root =>
           /\ w[w[n].dir] # Nowhere
           /\ Len(P[w[n].dir]) \in Nat
           /\ Len(P[n]) = Len(P[w[n].dir]) + 1
           /\ \A i \in 1 .. Len(P[w[n].dir]) : P[n][i] = P[w[n].dir][i]
  BY PathStep, PlaceFacts
<1>2. P[n][Len(P[n])].del = w[n].del
  BY <1>1 DEF Part
<1> HIDE DEF P
<1>3. CASE w[n].dir = Root
  <2>1. Len(P[n]) = 1
    BY <1>1, <1>3
  <2>2. 1 .. Len(P[n]) = {Len(P[n])}
    BY <2>1
  <2>3. LiveIn(w, n) <=> \A i \in 1 .. Len(P[n]) : ~P[n][i].del
    BY DEF LiveIn, P
  <2> QED BY <1>2, <1>3, <2>2, <2>3
<1>4. CASE w[n].dir # Root
  <2>1. LiveIn(w, n) <=> \A i \in 1 .. Len(P[n]) : ~P[n][i].del
    BY DEF LiveIn, P
  <2> DEFINE q == P[w[n].dir]
  <2>2. LiveIn(w, w[n].dir) <=> \A i \in 1 .. Len(q) : ~q[i].del
    BY <1>1, <1>4 DEF LiveIn, P
  <2>3. Len(q) \in Nat /\ Len(P[n]) = Len(q) + 1 /\ \A i \in 1 .. Len(q) : P[n][i] = q[i]
    BY <1>1, <1>4
  <2> HIDE DEF q
  <2>4. 1 .. Len(P[n]) = (1 .. Len(q)) \cup {Len(P[n])}
    BY <2>3
  <2>5. (\A i \in 1 .. Len(P[n]) : ~P[n][i].del) <=> ~w[n].del /\ \A i \in 1 .. Len(q) : ~q[i].del
    BY <1>2, <2>3, <2>4
  <2> QED BY <1>4, <2>1, <2>2, <2>5
<1> QED BY <1>3, <1>4

(* Nothing under a marked directory is live.                               *)
LEMMA LiveAbove ==
  ASSUME NEW w, Tree(w), NEW n \in Nodes, NEW k \in Nodes, LiveIn(w, n), UnderIn(w, n, k), w[k] # Nowhere
  PROVE  LiveIn(w, k)
<1> DEFINE P == PathIn(w)
<1>1. Len(P[n]) \in Nat /\ Len(P[k]) \in Nat
  BY PathStep
<1> HIDE DEF P
<1> QED BY <1>1 DEF LiveIn, UnderIn, Begins, P

----------------------------------------------------------------------------
(* What the system calls do to the tree                                    *)

(* Nodes that stay where they are keep their paths.                        *)
LEMMA PathStays ==
  ASSUME NEW w, Tree(w), NEW v, Tree(v), \A n \in Nodes : v[n] # Nowhere => v[n] = w[n]
  PROVE  \A n \in Nodes : v[n] # Nowhere => PathIn(v)[n] = PathIn(w)[n]
<1> DEFINE P == PathIn(w)
           Q == PathIn(v)
           S == {n \in Nodes : Q[n] = P[n]}
<1>1. P = Body(w, P) /\ Q = Body(v, Q)
  BY PathIsBody
<1> HIDE DEF P, Q
<1>2. ASSUME NEW n \in Nodes, v[n] # Nowhere, v[n].dir = Root \/ v[n].dir \in S
      PROVE  n \in S
  <2>1. w[n] = v[n] /\ Part(w, n) = Part(v, n)
    BY <1>2 DEF Part
  <2>2. Q[n] = IF v[n].dir = Root THEN <<Part(v, n)>> ELSE Append(Q[v[n].dir], Part(v, n))
    BY <1>1, <1>2 DEF Body
  <2>4. w[n] # Nowhere /\ w[n].dir = v[n].dir
    BY <2>1, <1>2
  <2>5. P[n] = IF w[n].dir = Root THEN <<Part(w, n)>> ELSE Append(P[w[n].dir], Part(w, n))
    BY <1>1, <2>4 DEF Body
  <2>3. P[n] = IF v[n].dir = Root THEN <<Part(v, n)>> ELSE Append(P[v[n].dir], Part(v, n))
    BY <2>1, <2>4, <2>5
  <2> QED BY <2>2, <2>3, <1>2
<1>3. \A n \in Nodes : v[n] # Nowhere => n \in S
  <2> HIDE DEF S
  <2> QED BY <1>2, TreeInduction
<1> QED BY <1>3 DEF P, Q

(* Nodes whose directories are empty go.                                   *)
LEMMA TreeDrop ==
  ASSUME NEW w, Tree(w), NEW S, \A s \in S, k \in Nodes : w[k] # Nowhere => w[k].dir # s,
         NEW v, v = [n \in Nodes |-> IF n \in S THEN Nowhere ELSE w[n]], Root \notin S
  PROVE  Tree(v)
<1>1. PICK rank : Ranked(w, rank)
  BY DEF Tree
<1>2. \A n \in Nodes : v[n] # Nowhere => v[n] = w[n] /\ w[n] # Nowhere
  OBVIOUS
<1>3. \A n \in Nodes : w[n] # Nowhere /\ n \notin S => v[n] = w[n]
  OBVIOUS
<1>4. v \in [Nodes -> Places \cup {Nowhere}]
  BY DEF Tree
<1>5. \A m, n \in Nodes : v[m] # Nowhere /\ v[m] = v[n] => m = n
  BY <1>2 DEF Tree
<1>6. ASSUME NEW n \in Nodes, v[n] # Nowhere, v[n].dir # Root
      PROVE  v[v[n].dir] # Nowhere
  <2>1. w[n] # Nowhere /\ v[n].dir = w[n].dir
    BY <1>2, <1>6
  <2>2. w[n].dir \in Nodes /\ w[w[n].dir] # Nowhere
    BY <1>6, <2>1, PlaceFacts
  <2>3. w[n].dir \notin S
    BY <2>1
  <2> QED BY <1>3, <2>1, <2>2, <2>3
<1>7. Ranked(v, rank)
  BY <1>1, <1>2 DEF Ranked
<1> QED BY <1>4, <1>5, <1>6, <1>7 DEF Tree

(* A node is made.                                                         *)
Growing(w, n, p, v) ==
  /\ w[n] = Nowhere /\ p.dir \in Dirs \cup {Root}
  /\ p.dir = Root \/ w[p.dir] # Nowhere
  /\ \A k \in Nodes : w[k] # Nowhere => w[k] # p
  /\ v = [w EXCEPT ![n] = p]

LEMMA TreeGrow ==
  ASSUME NEW w, Tree(w), NEW n \in Nodes, NEW p \in Places, NEW v, Growing(w, n, p, v)
  PROVE  Tree(v) /\ \A m \in Nodes : w[m] # Nowhere => v[m] = w[m]
<1> DEFINE d == p.dir
<1>0. /\ w[n] = Nowhere /\ d \in Dirs \cup {Root} /\ (d = Root \/ w[d] # Nowhere)
      /\ \A k \in Nodes : w[k] # Nowhere => w[k] # p
      /\ v = [w EXCEPT ![n] = p]
  BY DEF Growing
<1>1. PICK rank : Ranked(w, rank)
  BY DEF Tree
<1>2. w \in [Nodes -> Places \cup {Nowhere}] /\ p # Nowhere
  BY DeletionAssumption DEF Tree
<1>3. v[n] = p /\ \A m \in Nodes : m # n => v[m] = w[m]
  BY <1>0, <1>2
<1>4. v \in [Nodes -> Places \cup {Nowhere}]
  BY <1>0, <1>2
<1>5. \A k, m \in Nodes : v[k] # Nowhere /\ v[k] = v[m] => k = m
  <2>1. \A k, m \in Nodes : w[k] # Nowhere /\ w[k] = w[m] => k = m
    BY DEF Tree
  <2> QED BY <1>0, <1>2, <1>3, <2>1
<1>6. ASSUME NEW m \in Nodes, v[m] # Nowhere, v[m].dir # Root
      PROVE  v[v[m].dir] # Nowhere
  <2>1. CASE m = n
    <3>1. d \in Nodes /\ w[d] # Nowhere /\ d # n
      BY <1>0, <1>3, <1>6, <2>1 DEF Nodes
    <3> QED BY <1>3, <3>1, <2>1
  <2>2. CASE m # n
    <3>1. w[m].dir \in Nodes /\ w[w[m].dir] # Nowhere /\ v[m] = w[m]
      BY <1>3, <1>6, <2>2, PlaceFacts
    <3> QED BY <1>0, <1>3, <3>1
  <2> QED BY <2>1, <2>2
<1> DEFINE r == [m \in Nodes |-> IF m = n THEN IF d = Root THEN 0 ELSE rank[d] + 1 ELSE rank[m]]
<1>7. r \in [Nodes -> Nat]
  BY <1>0, <1>1 DEF Ranked, Nodes
<1>8. ASSUME NEW m \in Nodes, v[m] # Nowhere, v[m].dir # Root
      PROVE  r[v[m].dir] < r[m]
  <2>1. CASE m = n
    <3>1. d \in Nodes /\ d # n /\ d # Root /\ rank[d] \in Nat
      BY <1>0, <1>1, <1>3, <1>8, <2>1 DEF Nodes, Ranked
    <3>2. r[d] = rank[d] /\ r[m] = rank[d] + 1 /\ v[m].dir = d
      BY <3>1, <2>1, <1>3
    <3> QED BY <3>1, <3>2
  <2>2. CASE m # n
    <3>1. w[m] # Nowhere /\ w[m].dir \in Nodes /\ w[w[m].dir] # Nowhere /\ v[m] = w[m]
      BY <1>3, <1>8, <2>2, PlaceFacts
    <3>2. w[m].dir # n /\ rank[w[m].dir] < rank[m]
      BY <1>0, <1>1, <1>8, <3>1 DEF Ranked
    <3> QED BY <3>1, <3>2, <2>2
  <2> QED BY <2>1, <2>2
<1>9. Ranked(v, r)
  <2> HIDE DEF r
  <2> QED BY <1>7, <1>8 DEF Ranked
<1> QED BY <1>0, <1>3, <1>4, <1>5, <1>6, <1>9 DEF Tree

(* A node gets its mark or loses it.                                       *)
MarkedAs(p, i, del) == [j \in DOMAIN p |-> IF j = i THEN [name |-> p[j].name, del |-> del] ELSE p[j]]

Marking(w, n, del, v) ==
  /\ w[n] # Nowhere
  /\ \A k \in Nodes : w[k] # Nowhere /\ k # n => w[k] # [w[n] EXCEPT !.del = del]
  /\ v = [w EXCEPT ![n] = [w[n] EXCEPT !.del = del]]

LEMMA TreeMark ==
  ASSUME NEW w, Tree(w), NEW n \in Nodes, NEW del \in BOOLEAN, NEW v, Marking(w, n, del, v)
  PROVE  /\ Tree(v) /\ w[n] # Nowhere /\ v[n].del = del
         /\ \A m \in Nodes : m # n => v[m] = w[m]
         /\ \A m \in Nodes : /\ (v[m] # Nowhere <=> w[m] # Nowhere)
                             /\ w[m] # Nowhere => v[m].dir = w[m].dir /\ v[m].name = w[m].name
<1> DEFINE p == [w[n] EXCEPT !.del = del]
<1>0. /\ w[n] # Nowhere /\ v = [w EXCEPT ![n] = p]
      /\ \A k \in Nodes : w[k] # Nowhere /\ k # n => w[k] # p
  BY DEF Marking
<1>1. PICK rank : Ranked(w, rank)
  BY DEF Tree
<1>2. w \in [Nodes -> Places \cup {Nowhere}]
  BY DEF Tree
<1>3. p \in Places /\ p.dir = w[n].dir /\ p.name = w[n].name /\ p.del = del /\ p # Nowhere
  BY <1>0, <1>2, DeletionAssumption DEF Places
<1> HIDE DEF p
<1>4. v[n] = p /\ \A m \in Nodes : m # n => v[m] = w[m]
  BY <1>0, <1>2
<1>5. \A m \in Nodes : /\ (v[m] # Nowhere <=> w[m] # Nowhere)
                       /\ w[m] # Nowhere => v[m].dir = w[m].dir /\ v[m].name = w[m].name
  BY <1>0, <1>3, <1>4
<1>6. v \in [Nodes -> Places \cup {Nowhere}]
  BY <1>0, <1>2, <1>3
<1>7. \A k, m \in Nodes : v[k] # Nowhere /\ v[k] = v[m] => k = m
  <2>1. \A k, m \in Nodes : w[k] # Nowhere /\ w[k] = w[m] => k = m
    BY DEF Tree
  <2> QED BY <1>0, <1>3, <1>4, <2>1
<1>8. ASSUME NEW m \in Nodes, v[m] # Nowhere, v[m].dir # Root
      PROVE  v[v[m].dir] # Nowhere
  <2>1. w[m].dir \in Nodes /\ w[w[m].dir] # Nowhere /\ v[m].dir = w[m].dir
    BY <1>5, <1>8, PlaceFacts
  <2> QED BY <1>5, <2>1
<1>9. Ranked(v, rank)
  BY <1>1, <1>5 DEF Ranked
<1>10. Tree(v)
  BY <1>6, <1>7, <1>8, <1>9 DEF Tree
<1> QED BY <1>0, <1>3, <1>4, <1>5, <1>10

LEMMA PathMark ==
  ASSUME NEW w, Tree(w), NEW n \in Nodes, NEW del \in BOOLEAN, NEW v, Marking(w, n, del, v), NEW m \in Nodes, w[m] # Nowhere
  PROVE  PathIn(v)[m] = IF UnderIn(w, m, n) THEN MarkedAs(PathIn(w)[m], Len(PathIn(w)[n]), del)
                        ELSE PathIn(w)[m]
<1> DEFINE P == PathIn(w)
           Q == PathIn(v)
           l == Len(P[n])
           R(k) == IF UnderIn(w, k, n) THEN MarkedAs(P[k], l, del) ELSE P[k]
           S == {k \in Nodes : Q[k] = R(k)}
<1>1. /\ Tree(v) /\ w[n] # Nowhere /\ v[n].del = del
      /\ \A k \in Nodes : /\ (v[k] # Nowhere <=> w[k] # Nowhere)
                          /\ w[k] # Nowhere => v[k].dir = w[k].dir /\ v[k].name = w[k].name
  BY TreeMark
<1>2. \A k \in Nodes : k # n => v[k] = w[k]
  BY TreeMark
<1>3. l \in Nat /\ l >= 1
  BY <1>1, PathStep
<1> HIDE DEF P, Q, l
<1>4. ASSUME NEW k \in Nodes, v[k] # Nowhere, v[k].dir = Root \/ v[k].dir \in S
      PROVE  Q[k] = R(k)
  <2>1. w[k] # Nowhere /\ v[k].dir = w[k].dir
    BY <1>1, <1>4
  <2>2. /\ P[k] \in Paths /\ Len(P[k]) \in Nat /\ Len(P[k]) >= 1 /\ P[k][Len(P[k])] = Part(w, k)
        /\ w[k].dir = Root => Len(P[k]) = 1
        /\ w[k].dir # Root =>
             /\ P[w[k].dir] \in Paths /\ Len(P[w[k].dir]) \in Nat /\ Len(P[w[k].dir]) >= 1
             /\ Len(P[k]) = Len(P[w[k].dir]) + 1
             /\ \A i \in 1 .. Len(P[w[k].dir]) : P[k][i] = P[w[k].dir][i]
    BY <2>1, PathStep DEF P
  <2>3. /\ Q[k] \in Paths /\ Len(Q[k]) \in Nat /\ Len(Q[k]) >= 1 /\ Q[k][Len(Q[k])] = Part(v, k)
        /\ w[k].dir = Root => Len(Q[k]) = 1
        /\ w[k].dir # Root =>
             /\ Q[w[k].dir] \in Paths /\ Len(Q[w[k].dir]) \in Nat /\ Len(Q[w[k].dir]) >= 1
             /\ Len(Q[k]) = Len(Q[w[k].dir]) + 1
             /\ \A i \in 1 .. Len(Q[w[k].dir]) : Q[k][i] = Q[w[k].dir][i]
    <3>1. /\ Q[k] \in Paths /\ Len(Q[k]) \in Nat /\ Len(Q[k]) >= 1 /\ Q[k][Len(Q[k])] = Part(v, k)
          /\ v[k].dir = Root => Len(Q[k]) = 1
          /\ v[k].dir # Root =>
               /\ Q[v[k].dir] \in Paths /\ Len(Q[v[k].dir]) \in Nat /\ Len(Q[v[k].dir]) >= 1
               /\ Len(Q[k]) = Len(Q[v[k].dir]) + 1
               /\ \A i \in 1 .. Len(Q[v[k].dir]) : Q[k][i] = Q[v[k].dir][i]
      <4>1. Q = PathIn(v)
        BY DEF Q
      <4> QED BY <4>1, <1>1, <1>4, PathStep
    <3> QED BY <3>1, <2>1
  <2>4. UnderIn(w, k, n) <=> k = n \/ (w[k].dir # Root /\ UnderIn(w, w[k].dir, n))
    BY <1>1, <2>1, UnderStep
  <2>5. Part(v, k) = IF k = n THEN [name |-> Part(w, k).name, del |-> del] ELSE Part(w, k)
    BY <1>1, <1>2 DEF Part
  <2>6. \A q \in Paths : MarkedAs(q, l, del) \in Paths /\ Len(MarkedAs(q, l, del)) = Len(q)
          /\ \A i \in 1 .. Len(q) :
               MarkedAs(q, l, del)[i] = IF i = l THEN [name |-> q[i].name, del |-> del] ELSE q[i]
    <3> SUFFICES ASSUME NEW q \in Paths
                 PROVE  MarkedAs(q, l, del) \in Paths /\ Len(MarkedAs(q, l, del)) = Len(q)
                        /\ \A i \in 1 .. Len(q) :
                             MarkedAs(q, l, del)[i] = IF i = l THEN [name |-> q[i].name, del |-> del] ELSE q[i]
      OBVIOUS
    <3>1. Len(q) \in Nat /\ DOMAIN q = 1 .. Len(q) /\ \A i \in 1 .. Len(q) : q[i] \in Parts
      BY DEF Paths
    <3>2. \A i \in 1 .. Len(q) : [name |-> q[i].name, del |-> del] \in Parts
      BY <3>1 DEF Parts
    <3>3. MarkedAs(q, l, del) \in [1 .. Len(q) -> Parts]
      BY <3>1, <3>2 DEF MarkedAs
    <3> QED BY <3>1, <3>3 DEF MarkedAs, Paths
  <2>7. R(k) \in Paths /\ Len(R(k)) = Len(P[k])
    BY <2>2, <2>6
  <2>8. CASE w[k].dir = Root
    <3>1. Len(P[k]) = 1 /\ Len(Q[k]) = 1
      BY <2>2, <2>3, <2>8
    <3>2. CASE k = n
      <4>1. R(k) = MarkedAs(P[k], l, del) /\ l = 1
        BY <2>4, <3>1, <3>2 DEF l
      <4>2. R(k)[1] = [name |-> P[k][1].name, del |-> del]
        BY <2>2, <2>6, <4>1, <3>1
      <4>3. R(k)[1] = Q[k][1]
        BY <2>2, <2>3, <2>5, <3>1, <3>2, <4>2
      <4> QED BY <2>3, <2>7, <3>1, <4>3, PathEqual
    <3>3. CASE k # n
      <4>1. R(k) = P[k]
        BY <2>4, <2>8, <3>3
      <4>2. P[k][1] = Q[k][1]
        BY <2>2, <2>3, <2>5, <3>1, <3>3
      <4> QED BY <2>2, <2>3, <3>1, <4>1, <4>2, PathEqual
    <3> QED BY <3>2, <3>3
  <2>9. CASE w[k].dir # Root
    <3> DEFINE d == w[k].dir
    <3>1. d \in Nodes /\ Q[d] = R(d) /\ P[d] \in Paths /\ Len(P[d]) \in Nat
      BY <1>4, <2>1, <2>2, <2>9
    <3>2. Len(Q[d]) = Len(P[d])
      BY <3>1, <2>6
    <3>3. Len(Q[k]) = Len(P[k]) /\ Len(P[k]) = Len(P[d]) + 1
      BY <2>2, <2>3, <2>9, <3>2
    <3>4. k = n => l = Len(P[k])
      BY DEF l
    <3>5. UnderIn(w, d, n) => l <= Len(P[d])
      BY DEF UnderIn, Begins, l, P
    <3>6. k = n => ~UnderIn(w, d, n)
      BY <3>1, <3>3, <3>4, <3>5
    <3>7. ASSUME NEW i \in 1 .. Len(P[k])
          PROVE  Q[k][i] = R(k)[i]
      <4>1. CASE i = Len(P[k])
        <5>1. Q[k][i] = Part(v, k) /\ P[k][i] = Part(w, k)
          BY <2>2, <2>3, <3>3, <4>1
        <5>2. CASE k = n
          <6>1. R(k) = MarkedAs(P[k], l, del) /\ i = l
            BY <2>4, <3>4, <4>1, <5>2
          <6>2. R(k)[i] = [name |-> P[k][i].name, del |-> del]
            BY <6>1, <2>2, <2>6
          <6> QED BY <5>1, <5>2, <2>5, <6>2
        <5>3. CASE k # n
          <6>1. UnderIn(w, k, n) => i # l
            BY <2>4, <3>1, <3>3, <3>5, <4>1, <5>3
          <6>2. R(k)[i] = P[k][i]
            BY <6>1, <2>2, <2>6
          <6> QED BY <5>1, <5>3, <2>5, <6>2
        <5> QED BY <5>2, <5>3
      <4>2. CASE i # Len(P[k])
        <5>1. i \in 1 .. Len(P[d])
          BY <3>1, <3>3, <4>2
        <5>2. Q[k][i] = R(d)[i] /\ P[k][i] = P[d][i]
          BY <2>2, <2>3, <2>9, <3>1, <3>2, <5>1
        <5>3. CASE k = n
          <6>1. i # l /\ R(d) = P[d] /\ R(k) = MarkedAs(P[k], l, del)
            BY <3>4, <3>6, <2>4, <4>2, <5>3
          <6>2. MarkedAs(P[k], l, del)[i] = P[k][i]
            BY <6>1, <2>2, <2>6
          <6>3. R(k)[i] = P[d][i] /\ R(d)[i] = P[d][i]
            BY <6>1, <6>2, <5>2, Zenon
          <6> QED BY <6>3, <5>2, Zenon
        <5>4. CASE k # n /\ UnderIn(w, d, n)
          <6>1. R(d) = MarkedAs(P[d], l, del) /\ R(k) = MarkedAs(P[k], l, del)
            BY <2>4, <2>9, <5>4
          <6>2. MarkedAs(P[d], l, del)[i] = IF i = l THEN [name |-> P[d][i].name, del |-> del] ELSE P[d][i]
            BY <5>1, <2>6, <3>1
          <6>3. MarkedAs(P[k], l, del)[i] = IF i = l THEN [name |-> P[k][i].name, del |-> del] ELSE P[k][i]
            BY <2>2, <2>6
          <6>4. Q[k][i] = MarkedAs(P[d], l, del)[i] /\ R(k)[i] = MarkedAs(P[k], l, del)[i]
            BY <6>1, <5>2, Zenon
          <6> QED BY <6>2, <6>3, <6>4, <5>2
        <5>5. CASE k # n /\ ~UnderIn(w, d, n)
          <6>1. R(d) = P[d] /\ R(k) = P[k]
            BY <2>4, <2>9, <5>5
          <6> QED BY <6>1, <5>2
        <5> QED BY <5>3, <5>4, <5>5
      <4> QED BY <4>1, <4>2
    <3> HIDE DEF d
    <3> QED BY <2>3, <2>7, <3>3, <3>7, PathEqual
  <2> QED BY <2>8, <2>9
<1>5. \A k \in Nodes : v[k] # Nowhere => k \in S
  <2>1. ASSUME NEW k \in Nodes, v[k] # Nowhere, v[k].dir = Root \/ v[k].dir \in S
        PROVE  k \in S
    BY <1>4, <2>1
  <2> HIDE DEF S
  <2> QED BY <2>1, <1>1, TreeInduction
<1>6. m \in S
  BY <1>1, <1>5
<1> QED BY <1>6 DEF P, Q, l


(* What unlink and rename do, each as a change of one tree to another.     *)
Unlinking(w, n, v) ==
  /\ w[n] # Nowhere
  /\ \A k \in Nodes : w[k] # Nowhere => w[k].dir # n
  /\ v = [w EXCEPT ![n] = Nowhere]

Replaced(w, n, del) ==
  {t \in Nodes : w[t] # Nowhere /\ w[t].dir = w[n].dir /\ w[t].name = w[n].name /\ w[t].del = del}

Renaming(w, n, del, v) ==
  /\ w[n] # Nowhere /\ w[n].del # del
  /\ \A s \in Replaced(w, n, del), k \in Nodes : w[k] # Nowhere => w[k].dir # s
  /\ v = [m \in Nodes |-> IF m \in Replaced(w, n, del) THEN Nowhere
                          ELSE IF m = n THEN [w[n] EXCEPT !.del = del] ELSE w[m]]

LEMMA UnlinkTree ==
  ASSUME NEW w, Tree(w), NEW n \in Nodes, NEW v, Unlinking(w, n, v)
  PROVE  /\ Tree(v) /\ v[n] = Nowhere
         /\ \A m \in Nodes : m # n => v[m] = w[m]
         /\ \A m \in Nodes : v[m] # Nowhere => m # n /\ v[m] = w[m] /\ w[m] # Nowhere
         /\ \A m \in Nodes : v[m] # Nowhere => PathIn(v)[m] = PathIn(w)[m]
<1>1. w \in [Nodes -> Places \cup {Nowhere}]
  BY DEF Tree
<1>2. v[n] = Nowhere /\ \A m \in Nodes : m # n => v[m] = w[m]
  BY <1>1 DEF Unlinking
<1>3. \A m \in Nodes : v[m] # Nowhere => m # n /\ v[m] = w[m] /\ w[m] # Nowhere
  BY <1>2
<1>4. Tree(v)
  <2> DEFINE S == {n}
  <2>1. \A s \in S, k \in Nodes : w[k] # Nowhere => w[k].dir # s
    BY DEF Unlinking
  <2>2. v = [m \in Nodes |-> IF m \in S THEN Nowhere ELSE w[m]]
    BY <1>1 DEF Unlinking
  <2>3. Root \notin S
    BY DeletionAssumption
  <2> HIDE DEF S
  <2> QED BY <2>1, <2>2, <2>3, TreeDrop
<1>5. \A m \in Nodes : v[m] # Nowhere => PathIn(v)[m] = PathIn(w)[m]
  BY <1>3, <1>4, PathStays
<1> QED BY <1>2, <1>3, <1>4, <1>5

LEMMA RenameTree ==
  ASSUME NEW w, Tree(w), NEW n \in Nodes, NEW del \in BOOLEAN, NEW v, Renaming(w, n, del, v)
  PROVE  /\ Tree(v) /\ w[n] # Nowhere /\ n \notin Replaced(w, n, del)
         /\ v[n] # Nowhere /\ v[n].del = del /\ v[n].dir = w[n].dir /\ v[n].name = w[n].name
         /\ \A m \in Nodes : m # n /\ m \notin Replaced(w, n, del) => v[m] = w[m]
         /\ \A m \in Nodes : m \in Replaced(w, n, del) => v[m] = Nowhere
         /\ \A m \in Nodes : v[m] # Nowhere =>
              /\ w[m] # Nowhere /\ v[m].dir = w[m].dir /\ v[m].name = w[m].name
              /\ m \notin Replaced(w, n, del)
              /\ PathIn(v)[m] = IF UnderIn(w, m, n) THEN MarkedAs(PathIn(w)[m], Len(PathIn(w)[n]), del)
                                ELSE PathIn(w)[m]
<1> DEFINE S == Replaced(w, n, del)
           u == [m \in Nodes |-> IF m \in S THEN Nowhere ELSE w[m]]
           p == [w[n] EXCEPT !.del = del]
<1>1. w \in [Nodes -> Places \cup {Nowhere}] /\ w[n] # Nowhere /\ w[n].del # del
  BY DEF Tree, Renaming
<1>2. n \notin S /\ S \subseteq Nodes
  BY <1>1 DEF Replaced
<1>3. \A s \in S, k \in Nodes : w[k] # Nowhere => w[k].dir # s
  BY DEF Renaming
<1>4. Tree(u)
  <2>1. Root \notin S
    BY <1>2, DeletionAssumption
  <2> HIDE DEF S
  <2> QED BY <1>3, <2>1, TreeDrop
<1>5. \A m \in Nodes : u[m] = IF m \in S THEN Nowhere ELSE w[m]
  OBVIOUS
<1>6. v = [m \in Nodes |-> IF m \in S THEN Nowhere ELSE IF m = n THEN p ELSE w[m]]
  BY DEF Renaming
<1>7. p \in Places /\ p.dir = w[n].dir /\ p.name = w[n].name /\ p.del = del
  BY <1>1 DEF Places
<1>8. \A k \in Nodes : w[k] # Nowhere /\ k # n /\ w[k] = p => k \in S
  BY <1>1, <1>7 DEF Replaced
<1> HIDE DEF S, u
<1>9. u[n] = w[n] /\ u[n] # Nowhere
  BY <1>1, <1>2, <1>5
<1>10. Marking(u, n, del, v)
  <2>1. \A k \in Nodes : u[k] # Nowhere /\ k # n => u[k] # p
    BY <1>5, <1>8
  <2>2. v = [u EXCEPT ![n] = p]
    <3>1. u \in [Nodes -> Places \cup {Nowhere}]
      BY <1>4 DEF Tree
    <3>2. \A m \in Nodes : v[m] = [u EXCEPT ![n] = p][m]
      BY <1>2, <1>5, <1>6, <3>1
    <3> HIDE DEF p
    <3> QED BY <1>6, <3>1, <3>2
  <2> QED BY <1>9, <2>1, <2>2 DEF Marking
<1>11. /\ Tree(v) /\ v[n].del = del
       /\ \A m \in Nodes : m # n => v[m] = u[m]
       /\ \A m \in Nodes : /\ (v[m] # Nowhere <=> u[m] # Nowhere)
                           /\ u[m] # Nowhere => v[m].dir = u[m].dir /\ v[m].name = u[m].name
  BY <1>4, <1>10, TreeMark
<1>12. \A m \in Nodes : u[m] # Nowhere => u[m] = w[m] /\ w[m] # Nowhere /\ PathIn(u)[m] = PathIn(w)[m]
  <2>1. \A m \in Nodes : u[m] # Nowhere => u[m] = w[m]
    BY <1>5
  <2> QED BY <2>1, <1>4, PathStays
<1>13. ASSUME NEW m \in Nodes, v[m] # Nowhere
       PROVE  /\ w[m] # Nowhere /\ v[m].dir = w[m].dir /\ v[m].name = w[m].name /\ m \notin S
              /\ PathIn(v)[m] = IF UnderIn(w, m, n) THEN MarkedAs(PathIn(w)[m], Len(PathIn(w)[n]), del)
                                ELSE PathIn(w)[m]
  <2>1. u[m] # Nowhere
    BY <1>11, <1>13
  <2>2. PathIn(v)[m] = IF UnderIn(u, m, n) THEN MarkedAs(PathIn(u)[m], Len(PathIn(u)[n]), del)
                       ELSE PathIn(u)[m]
    BY <1>4, <1>10, <2>1, PathMark
  <2>3. PathIn(u)[m] = PathIn(w)[m] /\ PathIn(u)[n] = PathIn(w)[n]
    BY <1>9, <1>12, <2>1
  <2>4. UnderIn(u, m, n) <=> UnderIn(w, m, n)
    BY <2>3 DEF UnderIn
  <2>5. PathIn(v)[m] = IF UnderIn(w, m, n) THEN MarkedAs(PathIn(w)[m], Len(PathIn(w)[n]), del)
                       ELSE PathIn(w)[m]
    BY <2>2, <2>3, <2>4
  <2>6. w[m] # Nowhere /\ v[m].dir = w[m].dir /\ v[m].name = w[m].name /\ m \notin S
    BY <1>5, <1>11, <1>12, <2>1
  <2> QED BY <2>5, <2>6
<1>14. \A m \in Nodes : m # n /\ m \notin S => v[m] = w[m]
  BY <1>5, <1>11
<1>15. \A m \in Nodes : m \in S => v[m] = Nowhere
  BY <1>6
<1>16. v[n] # Nowhere /\ v[n].dir = w[n].dir /\ v[n].name = w[n].name
  BY <1>9, <1>11
<1> QED BY <1>1, <1>2, <1>11, <1>13, <1>14, <1>15, <1>16 DEF S

(* The nodes that are left are under one another as they were.             *)
LEMMA UnderSame ==
  ASSUME NEW w, Tree(w), NEW v, Tree(v),
         \A m \in Nodes : v[m] # Nowhere => w[m] # Nowhere /\ v[m].dir = w[m].dir,
         NEW m \in Nodes, NEW k \in Nodes, v[m] # Nowhere, v[k] # Nowhere
  PROVE  UnderIn(v, m, k) <=> UnderIn(w, m, k)
<1> DEFINE S == {j \in Nodes : UnderIn(v, j, k) <=> UnderIn(w, j, k)}
<1>1. ASSUME NEW j \in Nodes, v[j] # Nowhere, v[j].dir = Root \/ v[j].dir \in S
      PROVE  j \in S
  <2>1. UnderIn(v, j, k) <=> j = k \/ (v[j].dir # Root /\ UnderIn(v, v[j].dir, k))
    BY <1>1, UnderStep
  <2>2. UnderIn(w, j, k) <=> j = k \/ (w[j].dir # Root /\ UnderIn(w, w[j].dir, k))
    BY <1>1, UnderStep
  <2> QED BY <1>1, <2>1, <2>2
<1>2. \A j \in Nodes : v[j] # Nowhere => j \in S
  <2> HIDE DEF S
  <2> QED BY <1>1, TreeInduction
<1> QED BY <1>2


(* A live node that is not under the one renamed stays as it is.           *)
LEMMA RenameSpares ==
  ASSUME NEW w, Tree(w), NEW n \in Nodes, NEW del \in BOOLEAN, NEW v, Renaming(w, n, del, v),
         NEW m \in Nodes, w[m] # Nowhere, m \notin Replaced(w, n, del), ~UnderIn(w, m, n)
  PROVE  v[m] = w[m] /\ PathIn(v)[m] = PathIn(w)[m] /\ (LiveIn(w, m) => LiveIn(v, m))
<1>1. UnderIn(w, n, n)
  BY UnderStep DEF Renaming
<1>2. m # n
  BY <1>1
<1>3. v[m] = w[m]
  BY <1>2, RenameTree
<1>4. PathIn(v)[m] = PathIn(w)[m]
  BY <1>3, RenameTree
<1> QED BY <1>3, <1>4 DEF LiveIn

LEMMA RenameKeepsLive ==
  ASSUME NEW w, Tree(w), NEW n \in Nodes, NEW del \in BOOLEAN, ~del, NEW v, Renaming(w, n, del, v),
         NEW m \in Nodes, LiveIn(w, m), m \notin Replaced(w, n, del)
  PROVE  v[m] = w[m] /\ PathIn(v)[m] = PathIn(w)[m] /\ LiveIn(v, m)
<1>1. w[n] # Nowhere /\ w[n].del # del
  BY DEF Renaming
<1>2. w[n].del
  BY <1>1, PlaceFacts
<1>3. ~LiveIn(w, n)
  BY <1>2, LiveStep
<1>4. ~UnderIn(w, m, n)
  BY <1>1, <1>3, LiveAbove
<1>5. w[m] # Nowhere
  BY DEF LiveIn
<1> QED BY <1>4, <1>5, RenameSpares

(* A path with one mark changed.                                           *)
LEMMA MarkedAsFacts ==
  ASSUME NEW q \in Paths, NEW l, NEW del \in BOOLEAN
  PROVE  /\ MarkedAs(q, l, del) \in Paths /\ Len(MarkedAs(q, l, del)) = Len(q)
         /\ \A i \in 1 .. Len(q) :
              MarkedAs(q, l, del)[i] = IF i = l THEN [name |-> q[i].name, del |-> del] ELSE q[i]
<1>1. Len(q) \in Nat /\ DOMAIN q = 1 .. Len(q) /\ \A i \in 1 .. Len(q) : q[i] \in Parts
  BY DEF Paths
<1>2. \A i \in 1 .. Len(q) : [name |-> q[i].name, del |-> del] \in Parts
  BY <1>1 DEF Parts
<1>3. MarkedAs(q, l, del) \in [1 .. Len(q) -> Parts]
  BY <1>1, <1>2 DEF MarkedAs
<1> QED BY <1>1, <1>3 DEF MarkedAs, Paths

----------------------------------------------------------------------------
(* The operators of the model in these terms                               *)

LEMMA LiveBridge ==
  ASSUME Tree(where), NEW n \in Nodes
  PROVE  Live(n) <=> LiveIn(where, n)
<1> DEFINE p == PathIn(where)[n]
<1>1. p \in Paths
  BY PathStep
<1> HIDE DEF p
<1>2. DOMAIN p = 1 .. Len(p) /\ \A i \in 1 .. Len(p) : p[i].del \in BOOLEAN
  <2>1. DOMAIN p = 1 .. Len(p) /\ \A i \in 1 .. Len(p) : p[i] \in Parts
    BY <1>1 DEF Paths
  <2> QED BY <2>1 DEF Parts
<1>3. Path[n] = p
  BY PathDef DEF p
<1>4. Live(n) <=> where[n] # Nowhere /\ {i \in 1 .. Len(p) : p[i].del} = {}
  BY <1>2, <1>3 DEF Live, Marks, Exists
<1>5. LiveIn(where, n) <=> where[n] # Nowhere /\ \A i \in 1 .. Len(p) : ~p[i].del
  BY DEF LiveIn, p
<1> QED BY <1>4, <1>5

LEMMA BelowBridge ==
  ASSUME Tree(where), NEW n \in Nodes, NEW m
  PROVE  m \in Below(n) <=> m \in Nodes /\ where[m] # Nowhere /\ UnderIn(where, m, n)
<1> SUFFICES ASSUME m \in Nodes
             PROVE  Extends(Path[m], Path[n]) <=> UnderIn(where, m, n)
  BY DEF Below, Exists
<1>1. PathIn(where)[m] \in Paths /\ PathIn(where)[n] \in Paths
  BY PathStep
<1> QED BY <1>1, ExtendsBegins, PathDef DEF UnderIn

LEMMA LookupBridge ==
  ASSUME NEW p
  PROVE  /\ Lookup(p) # None =>
              Lookup(p) \in Nodes /\ where[Lookup(p)] # Nowhere /\ PathIn(where)[Lookup(p)] = p
         /\ \A n \in Nodes : where[n] # Nowhere /\ PathIn(where)[n] = p => Lookup(p) # None
<1> DEFINE T == {n \in Nodes : Exists(n) /\ Path[n] = p}
<1>1. CASE \E n \in Nodes : Exists(n) /\ Path[n] = p
  <2>1. Lookup(p) \in Nodes /\ Exists(Lookup(p)) /\ Path[Lookup(p)] = p
    BY <1>1 DEF Lookup
  <2>2. Lookup(p) # None
    BY <2>1, DeletionAssumption
  <2> QED BY <2>1, <2>2, PathDef DEF Exists
<1>2. CASE ~ \E n \in Nodes : Exists(n) /\ Path[n] = p
  <2>1. Lookup(p) = None
    BY <1>2 DEF Lookup
  <2> QED BY <1>2, <2>1, PathDef DEF Exists
<1> QED BY <1>1, <1>2

LEMMA LookupFinds ==
  ASSUME Tree(where), NEW n \in Nodes, where[n] # Nowhere, NEW p, PathIn(where)[n] = p
  PROVE  Lookup(p) = n
<1>1. Lookup(p) # None
  BY LookupBridge
<1>2. Lookup(p) \in Nodes /\ where[Lookup(p)] # Nowhere /\ PathIn(where)[Lookup(p)] = p
  BY <1>1, LookupBridge
<1> QED BY <1>2, SamePath

(* Names without their marks.                                              *)
NameBegins(p, q) == Len(q) <= Len(p) /\ \A i \in 1 .. Len(q) : p[i].name = q[i].name

LEMMA ConvFacts ==
  ASSUME NEW p \in Paths
  PROVE  /\ convert_to_user_name(p) \in Paths /\ Len(convert_to_user_name(p)) = Len(p)
         /\ \A i \in 1 .. Len(p) : convert_to_user_name(p)[i] = [name |-> p[i].name, del |-> FALSE]
<1> DEFINE c == [i \in 1 .. Len(p) |-> [p[i] EXCEPT !.del = FALSE]]
<1>1. Len(p) \in Nat /\ DOMAIN p = 1 .. Len(p) /\ \A i \in 1 .. Len(p) : p[i] \in Parts
  BY DEF Paths
<1>2. convert_to_user_name(p) = c
  BY <1>1 DEF convert_to_user_name, Unmarked
<1> HIDE DEF c
<1>7. \A q \in Parts : /\ [q EXCEPT !.del = FALSE] = [name |-> q.name, del |-> FALSE]
                       /\ [q EXCEPT !.del = FALSE] \in Parts
  <2> TAKE q \in Parts
  <2>1. ASSUME NEW e
        PROVE  [q EXCEPT !.del = e] = [name |-> q.name, del |-> e]
    BY SMT DEF Parts
  <2>2. \A e : [q EXCEPT !.del = e] = [name |-> q.name, del |-> e]
    BY <2>1
  <2>3. [q EXCEPT !.del = FALSE] = [name |-> q.name, del |-> FALSE]
    BY <2>2, Zenon
  <2>4. [name |-> q.name, del |-> FALSE] \in Parts
    BY DEF Parts
  <2> QED BY <2>3, <2>4
<1> USE DEF c
<1>3. \A i \in 1 .. Len(p) : [p[i] EXCEPT !.del = FALSE] = [name |-> p[i].name, del |-> FALSE]
  BY <1>1, <1>7
<1>4. \A i \in 1 .. Len(p) : [p[i] EXCEPT !.del = FALSE] \in Parts
  BY <1>1, <1>7
<1>5. c \in [1 .. Len(p) -> Parts]
  BY <1>4
<1>6. \A i \in 1 .. Len(p) : c[i] = [name |-> p[i].name, del |-> FALSE]
  BY <1>3
<1> HIDE DEF c
<1> QED BY <1>1, <1>2, <1>5, <1>6 DEF Paths

LEMMA ConvExtends ==
  ASSUME NEW p \in Paths, NEW q \in Paths
  PROVE  Extends(convert_to_user_name(p), convert_to_user_name(q)) <=> NameBegins(p, q)
<1> DEFINE a == convert_to_user_name(p)
           b == convert_to_user_name(q)
<1>1. /\ a \in Paths /\ Len(a) = Len(p) /\ \A i \in 1 .. Len(p) : a[i] = [name |-> p[i].name, del |-> FALSE]
      /\ b \in Paths /\ Len(b) = Len(q) /\ \A i \in 1 .. Len(q) : b[i] = [name |-> q[i].name, del |-> FALSE]
  BY ConvFacts
<1> HIDE DEF a, b
<1>2. Extends(a, b) <=> Begins(a, b)
  BY <1>1, ExtendsBegins
<1>3. Len(p) \in Nat /\ Len(q) \in Nat
  BY DEF Paths
<1>4. ASSUME Len(q) <= Len(p), NEW i \in 1 .. Len(q)
      PROVE  a[i] = b[i] <=> p[i].name = q[i].name
  <2>1. i \in 1 .. Len(p)
    BY <1>3, <1>4
  <2>2. a[i] = [name |-> p[i].name, del |-> FALSE] /\ b[i] = [name |-> q[i].name, del |-> FALSE]
    BY <1>1, <2>1
  <2>3. a[i].name = p[i].name /\ b[i].name = q[i].name
    BY <2>2
  <2> QED BY <2>2, <2>3
<1>5. Begins(a, b) <=> NameBegins(p, q)
  BY <1>1, <1>4 DEF Begins, NameBegins
<1> QED BY <1>2, <1>5 DEF a, b

(* The path of a live node is its own without marks.                       *)
LEMMA ConvLive ==
  ASSUME NEW w, Tree(w), NEW n \in Nodes, LiveIn(w, n), NEW p \in Paths, Len(p) = Len(PathIn(w)[n]),
         \A i \in 1 .. Len(p) : p[i].name = PathIn(w)[n][i].name
  PROVE  PathIn(w)[n] = convert_to_user_name(p)
<1> DEFINE q == PathIn(w)[n]
           c == convert_to_user_name(p)
<1>1. q \in Paths /\ \A i \in 1 .. Len(q) : ~q[i].del
  BY PathStep DEF LiveIn
<1>2. c \in Paths /\ Len(c) = Len(p) /\ \A i \in 1 .. Len(p) : c[i] = [name |-> p[i].name, del |-> FALSE]
  BY ConvFacts
<1>3. Len(p) = Len(q) /\ \A i \in 1 .. Len(p) : p[i].name = q[i].name
  OBVIOUS
<1> HIDE DEF q, c
<1>4. ASSUME NEW i \in 1 .. Len(q)
      PROVE  q[i] = c[i]
  <2>1. q[i] \in Parts /\ ~q[i].del
    BY <1>1 DEF Paths
  <2>2. q[i] = [name |-> q[i].name, del |-> FALSE]
    BY <2>1 DEF Parts
  <2> QED BY <1>2, <1>3, <2>2
<1>5. q = c
  BY <1>1, <1>2, <1>3, <1>4, PathEqual
<1> QED BY <1>5 DEF q, c


----------------------------------------------------------------------------
(* The invariant                                                           *)

(* A marked file that is not fresh has been deleted that long ago.         *)
FsInv ==
  /\ Tree(where)
  /\ fresh \subseteq Nodes /\ aged \subseteq Nodes
  /\ \A n \in Nodes : where[n] # Nowhere /\ where[n].del /\ n \notin fresh => n \in aged

Outcomes == [error : BOOLEAN, spared : SUBSET Nodes]

LEMMA OutcomeFacts ==
  ASSUME outcome \in Outcomes, NEW N \in SUBSET Nodes
  PROVE  /\ set_error \in Outcomes /\ set_error.error
         /\ set_status(N) \in Outcomes /\ set_status(N).error = outcome.error
         /\ set_status(N).spared = outcome.spared \cup N
BY DEF Outcomes, set_error, set_status

(* Without its mark in a marked directory there is only what an undelete   *)
(* that is not through with its path has on the way.                       *)
Odd(w, n) == w[n] # Nowhere /\ ~w[n].del /\ w[n].dir # Root /\ w[w[n].dir].del

OddInv == \A n \in Nodes : Odd(where, n) => Half /\ UnderIn(where, at.node, n)

Control ==
  /\ chosen \subseteq Nodes /\ outcome \in Outcomes
  /\ \/ tool = "none" /\ pc = "idle" /\ stack = <<>> /\ todo = {}
     \/ tool = "delete" /\ todo = {}
        /\ pc \in {"delete", "move", "unlink", "rename", "readdir", "delete_failed", "end"}
     \/ tool = "undelete" /\ stack = <<>> /\ pc \in {"leaf", "ask", "unlink", "rename", "end"}
     \/ tool = "expunge" /\ stack = <<>> /\ pc \in {"leaf", "expunge", "end"}

(* delete: the directories it is in are live, each is among the entries of *)
(* the next that are left, and what has left the entries has its mark.     *)
Frames == [dir : Dirs, left : SUBSET Nodes, bad : BOOLEAN]

EntriesIn(w, d) == {n \in Nodes : w[n] # Nowhere /\ w[n].dir = d /\ ~w[n].del}

FrameInv(w, s) ==
  /\ LiveIn(w, s.dir) /\ s.left \subseteq EntriesIn(w, s.dir)
  /\ ~s.bad => EntriesIn(w, s.dir) \subseteq s.left

StackInv(w, s) ==
  /\ s \in Seq(Frames)
  /\ \A i \in 1 .. Len(s) : FrameInv(w, s[i])
  /\ \A i, j \in 1 .. Len(s) : i < j => Len(PathIn(w)[s[j].dir]) < Len(PathIn(w)[s[i].dir])
  /\ \A i, j \in 1 .. Len(s) : j = i + 1 => s[i].dir \in s[j].left

DeleteInv ==
  /\ StackInv(where, stack)
  /\ pc \in {"delete", "move", "unlink", "rename", "delete_failed"} =>
       /\ at \in Nodes /\ LiveIn(where, at)
       /\ stack # <<>> => at \in stack[1].left
       /\ stack = <<>> => chosen = {at}
  /\ pc \in {"move", "unlink", "rename"} => EntriesIn(where, at) = {}
  /\ pc = "unlink" => victim \in Nodes /\ where[victim] # Nowhere /\ where[victim].del
  /\ pc = "readdir" => stack # <<>>
  /\ pc # "end" /\ stack # <<>> => chosen = {stack[Len(stack)].dir}
  /\ pc = "end" /\ ~outcome.error =>
       \A n \in chosen \ outcome.spared : where[n] # Nowhere /\ where[n].del

(* expunge: what it has left to do is where it was found.                  *)
LeafSet == [path : Paths, node : Nodes]

ExpungeLeaf(w, a, o, l) ==
  /\ l \in LeafSet /\ w[l.node] # Nowhere /\ w[l.node].del
  /\ PathIn(w)[l.node] = l.path
  /\ "t" \in o => l.node \in a

ExpungeInv ==
  /\ \A l \in todo : ExpungeLeaf(where, aged, opts, l)
  /\ pc = "expunge" => ExpungeLeaf(where, aged, opts, at) /\ \A l \in todo : ~Begins(l.path, at.path)
  /\ ~outcome.error => \A n \in chosen \ outcome.spared :
       where[n] = Nowhere \/ (\E l \in todo : l.node = n) \/ (pc = "expunge" /\ n = at.node)
  /\ pc = "end" => todo = {}

(* undelete: the path p of a leaf, when the directories that the path q at *)
(* hand goes through have been renamed as in m.                            *)
Mixed(q, m, p) ==
  [i \in DOMAIN p |-> IF i <= Len(q) /\ (\A j \in 1 .. i : p[j] = q[j]) THEN m[i] ELSE p[i]]

InHand == pc \in {"ask", "unlink", "rename"}
Work == todo \cup IF InHand THEN {at} ELSE {}
OnDisk(l) == IF pc = "rename" THEN Mixed(at.path, name, l.path) ELSE l.path

UndeleteLeaf(l) ==
  /\ l \in LeafSet /\ where[l.node] # Nowhere
  /\ PathIn(where)[l.node] = OnDisk(l)

(* The marks are taken off from the last to the first.                     *)
AtInv ==
  /\ at \in LeafSet /\ where[at.node] # Nowhere /\ PathIn(where)[at.node] = name
  /\ Len(at.path) = Len(name) /\ Len(name) >= 1
  /\ \A i \in 1 .. Len(name) : name[i].name = at.path[i].name
  /\ \A h \in 1 .. Len(name) : name[h].del => \A i \in 1 .. h : name[i] = at.path[i]
  /\ at.path[Len(name)].del
  /\ pc # "rename" => name = at.path
  /\ \A l \in todo : ~NameBegins(at.path, l.path)

(* Marked directories that are recovered on the way have no namesakes.     *)
Alone(w, k) ==
  \A s \in Nodes : w[s] # Nowhere /\ w[s].dir = w[k].dir /\ w[s].name = w[k].name => w[s].del

Clear ==
  \A l \in Work, k \in Nodes :
    /\ where[k] # Nowhere /\ where[k].del /\ k # l.node /\ UnderIn(where, l.node, k)
    /\ \A m \in Work : m.node # k
    => Alone(where, k)

(* What has been recovered is not in the way of what will be.              *)
Recovered ==
  ~outcome.error => \A n \in chosen \ outcome.spared :
    \/ \E l \in Work : l.node = n
    \/ LiveIn(where, n) /\ \A l \in Work : ~NameBegins(PathIn(where)[n], l.path)

VictimInv ==
  /\ victim \in Nodes /\ where[victim] # Nowhere
  /\ PathIn(where)[victim] = convert_to_user_name(name)
  /\ \A n \in Nodes : where[n] # Nowhere /\ UnderIn(where, n, victim) => n \in agreed
  /\ \A l \in Work : ~UnderIn(where, l.node, victim)

UndeleteInv ==
  /\ \A l \in Work : UndeleteLeaf(l)
  /\ \A l \in todo : where[l.node].del
  /\ InHand => AtInv
  /\ Clear
  /\ Recovered
  /\ pc = "unlink" => VictimInv
  /\ pc = "rename" /\ name = at.path =>
       \A n \in Nodes : where[n] # Nowhere /\ PathIn(where)[n] = convert_to_user_name(name) => n \in agreed
  /\ pc = "end" => todo = {}

Inv ==
  /\ FsInv /\ OddInv /\ Control
  /\ tool = "delete" => DeleteInv
  /\ tool = "undelete" => UndeleteInv
  /\ tool = "expunge" => ExpungeInv


----------------------------------------------------------------------------
(* The system calls keep the tree                                          *)

LEMMA FsUnlink ==
  ASSUME FsInv, NEW n \in Nodes, where[n] # Nowhere, Unlink(n)
  PROVE  Unlinking(where, n, where') /\ FsInv' /\ aged' = aged \ {n}
<1>1. Members(n) = {} /\ where' = [where EXCEPT ![n] = Nowhere]
      /\ fresh' = (fresh \cup Touched(where[n].dir)) \ {n} /\ aged' = aged \ {n}
  BY DEF Unlink
<1>2. \A k \in Nodes : where[k] # Nowhere => where[k].dir # n
  BY <1>1 DEF Members, Exists
<1>3. Unlinking(where, n, where')
  BY <1>1, <1>2 DEF Unlinking
<1>4. Tree(where') /\ where'[n] = Nowhere /\ \A m \in Nodes : m # n => where'[m] = where[m]
  BY <1>3, UnlinkTree DEF FsInv
<1>5. fresh' \subseteq Nodes /\ aged' \subseteq Nodes
  BY <1>1 DEF FsInv, Touched
<1>6. ASSUME NEW m \in Nodes, where'[m] # Nowhere, where'[m].del, m \notin fresh'
      PROVE  m \in aged'
  <2>1. m # n /\ where'[m] = where[m]
    BY <1>4, <1>6
  <2>2. m \notin fresh
    BY <1>1, <1>6, <2>1
  <2> QED BY <1>1, <1>6, <2>1, <2>2 DEF FsInv
<1> QED BY <1>1, <1>3, <1>4, <1>5, <1>6 DEF FsInv

LEMMA FsRename ==
  ASSUME FsInv, NEW n \in Nodes, where[n] # Nowhere, NEW del \in BOOLEAN, where[n].del # del,
         Rename(n, del)
  PROVE  Renaming(where, n, del, where') /\ FsInv'
<1> DEFINE S == Replaced(where, n, del)
<1>1. {t \in Members(where[n].dir) : where[t].name = where[n].name /\ where[t].del = del} = S
  BY DEF Members, Exists, Replaced
<1>2. /\ CanRename(n, del)
      /\ where' = [m \in Nodes |-> IF m \in S THEN Nowhere
                                   ELSE IF m = n THEN [where[n] EXCEPT !.del = del] ELSE where[m]]
      /\ fresh' = (fresh \ S) \cup {n} \cup Touched(where[n].dir)
      /\ aged' = aged \ (S \cup {n})
  BY <1>1 DEF Rename
<1>3. \A s \in S : Members(s) = {}
  BY <1>2 DEF CanRename, Replaced, Members, Exists
<1>4. \A s \in S, k \in Nodes : where[k] # Nowhere => where[k].dir # s
  BY <1>3 DEF Members, Exists
<1>5. Renaming(where, n, del, where')
  BY <1>2, <1>4 DEF Renaming
<1>6. /\ Tree(where')
      /\ \A m \in Nodes : m # n /\ m \notin S => where'[m] = where[m]
      /\ \A m \in Nodes : where'[m] # Nowhere => m \notin S
  BY <1>5, RenameTree DEF FsInv
<1>7. fresh' \subseteq Nodes /\ aged' \subseteq Nodes
  <2>1. Touched(where[n].dir) \subseteq Nodes
    BY DEF Touched
  <2> HIDE DEF S
  <2> QED BY <1>2, <2>1 DEF FsInv
<1>8. ASSUME NEW m \in Nodes, where'[m] # Nowhere, where'[m].del, m \notin fresh'
      PROVE  m \in aged'
  <2> HIDE DEF S
  <2>1. m \notin S /\ m # n /\ m \notin fresh
    BY <1>2, <1>6, <1>8
  <2>2. where'[m] = where[m]
    BY <1>6, <2>1
  <2>3. m \in aged
    BY <1>8, <2>1, <2>2 DEF FsInv
  <2> QED BY <1>2, <2>1, <2>3
<1> QED BY <1>5, <1>6, <1>7, <1>8 DEF FsInv

LEMMA OddUnlink ==
  ASSUME NEW w, Tree(w), NEW n \in Nodes, NEW v, Unlinking(w, n, v), NEW m \in Nodes, Odd(v, m)
  PROVE  Odd(w, m)
<1>1. Tree(v) /\ \A k \in Nodes : v[k] # Nowhere => v[k] = w[k] /\ w[k] # Nowhere
  BY UnlinkTree
<1>2. v[m] # Nowhere /\ v[m].dir # Root
  BY DEF Odd
<1>3. v[m].dir \in Nodes /\ v[v[m].dir] # Nowhere
  BY <1>1, <1>2, PlaceFacts
<1> QED BY <1>1, <1>2, <1>3 DEF Odd

LEMMA OddRename ==
  ASSUME NEW w, Tree(w), NEW n \in Nodes, NEW del \in BOOLEAN, NEW v, Renaming(w, n, del, v),
         NEW m \in Nodes, Odd(v, m)
  PROVE  Odd(w, m) \/ (del /\ m \in EntriesIn(w, n)) \/ (~del /\ m = n)
<1>1. /\ Tree(v) /\ w[n] # Nowhere /\ v[n].del = del
      /\ \A k \in Nodes : k # n /\ k \notin Replaced(w, n, del) => v[k] = w[k]
      /\ \A k \in Nodes : v[k] # Nowhere => w[k] # Nowhere /\ k \notin Replaced(w, n, del)
  BY RenameTree
<1>2. v[m] # Nowhere /\ ~v[m].del /\ v[m].dir # Root /\ v[v[m].dir].del
  BY DEF Odd
<1>3. v[m].dir \in Nodes /\ v[v[m].dir] # Nowhere
  BY <1>1, <1>2, PlaceFacts
<1>4. CASE m = n
  BY <1>1, <1>2, <1>4
<1>5. CASE m # n
  <2>1. v[m] = w[m] /\ w[m] # Nowhere
    BY <1>1, <1>2, <1>5
  <2>2. CASE v[m].dir = n
    BY <1>1, <1>2, <2>1, <2>2 DEF EntriesIn
  <2>3. CASE v[m].dir # n
    <3>1. v[v[m].dir] = w[v[m].dir]
      BY <1>1, <1>3, <2>3
    <3> QED BY <1>2, <2>1, <3>1 DEF Odd
  <2> QED BY <2>2, <2>3
<1> QED BY <1>4, <1>5

----------------------------------------------------------------------------
(* The user, and the ends of tools                                         *)

LEMMA InitInv == Init => Inv
<1> SUFFICES ASSUME Init
             PROVE  Inv
  OBVIOUS
<1>1. where = [n \in Nodes |-> Nowhere] /\ fresh = {} /\ aged = {}
  BY DEF Init
<1>2. \A n \in Nodes : where[n] = Nowhere
  BY <1>1
<1>3. Tree(where)
  <2> DEFINE rank == [n \in Nodes |-> 0]
  <2>1. Ranked(where, rank)
    BY <1>2 DEF Ranked
  <2>2. where \in [Nodes -> Places \cup {Nowhere}]
    BY <1>1
  <2> HIDE DEF rank
  <2> QED BY <1>2, <2>1, <2>2 DEF Tree
<1>4. FsInv
  BY <1>1, <1>2, <1>3 DEF FsInv
<1>5. OddInv
  BY <1>2 DEF OddInv, Odd
<1> QED BY <1>4, <1>5 DEF Init, Inv, Control, Clean, Outcomes

LEMMA IdleInv ==
  ASSUME Inv, Idle, UNCHANGED fs, OddInv => \A n \in Nodes : ~Odd(where, n)
  PROVE  Inv'
<1>1. FsInv'
  BY DEF Inv, FsInv, fs
<1>2. OddInv'
  BY DEF Inv, OddInv, fs
<1> QED BY <1>1, <1>2 DEF Idle, Inv, Control, Clean, Outcomes

LEMMA KillInv ==
  ASSUME Inv, Allowed = {}, Kill
  PROVE  Inv'
<1>1. Idle /\ UNCHANGED fs /\ ~Half
  BY DEF Kill
<1> QED BY <1>1, IdleInv DEF OddInv

LEMMA EndInv ==
  ASSUME Inv, End
  PROVE  Inv'
<1>1. Idle /\ UNCHANGED fs /\ ~Half
  BY DEF End, Half
<1> QED BY <1>1, IdleInv DEF OddInv

LEMMA CreateInv ==
  ASSUME Inv, Allowed = {}, NEW n \in Nodes, Create(n)
  PROVE  Inv'
<1>1. PICK d \in {Root} \cup {e \in Dirs : Live(e) /\ Len(Path[e]) < MaxDepth}, m \in Names :
        /\ \A k \in Members(d) : where[k].name # m \/ where[k].del
        /\ where' = [where EXCEPT ![n] = [dir |-> d, name |-> m, del |-> FALSE]]
        /\ fresh' = fresh \cup {n} \cup Touched(d)
  BY DEF Create
<1>2. tool = "none" /\ where[n] = Nowhere /\ aged' = aged
      /\ UNCHANGED <<tool, opts, pc, list, hand, outcome>>
  BY DEF Create, Exists
<1> DEFINE p == [dir |-> d, name |-> m, del |-> FALSE]
<1>3. p \in Places /\ p.dir = d /\ p.name = m /\ ~p.del
  BY DEF Places
<1>4. d \in Dirs \cup {Root} /\ (d # Root => d \in Nodes /\ LiveIn(where, d))
  BY LiveBridge DEF Inv, FsInv, Nodes
<1>5. d = Root \/ (where[d] # Nowhere /\ ~where[d].del)
  BY <1>4, LiveStep DEF Inv, FsInv
<1>6. where' = [where EXCEPT ![n] = p]
  BY <1>1
<1>7. \A k \in Nodes : where[k] # Nowhere => where[k] # p
  BY <1>1, <1>3 DEF Members, Exists
<1> HIDE DEF p
<1>8. Tree(where') /\ \A k \in Nodes : where[k] # Nowhere => where'[k] = where[k]
  <2>1. Growing(where, n, p, where')
    BY <1>2, <1>3, <1>4, <1>5, <1>6, <1>7 DEF Growing
  <2> QED BY <1>3, <2>1, TreeGrow DEF Inv, FsInv
<1>9. where'[n] = p /\ \A k \in Nodes : k # n => where'[k] = where[k]
  BY <1>6 DEF Inv, FsInv, Tree
<1>10. FsInv'
  <2>1. fresh' \subseteq Nodes /\ aged' \subseteq Nodes
    BY <1>1, <1>2 DEF Inv, FsInv, Touched
  <2>2. ASSUME NEW k \in Nodes, where'[k] # Nowhere, where'[k].del, k \notin fresh'
        PROVE  k \in aged'
    <3>1. k # n /\ k \notin fresh
      BY <1>1, <2>2
    <3> QED BY <1>2, <1>9, <2>2, <3>1 DEF Inv, FsInv
  <2> QED BY <1>8, <2>1, <2>2 DEF FsInv
<1>11. ~Half
  BY <1>2 DEF Half
<1>12. OddInv'
  <2> SUFFICES ASSUME NEW k \in Nodes, Odd(where', k)
               PROVE  FALSE
    BY DEF OddInv
  <2>1. where'[k] # Nowhere /\ ~where'[k].del /\ where'[k].dir # Root /\ where'[where'[k].dir].del
    BY DEF Odd
  <2>2. where'[k].dir \in Nodes /\ where'[where'[k].dir] # Nowhere
    BY <1>8, <2>1, PlaceFacts
  <2>3. where'[k].dir # n
    BY <1>3, <1>9, <2>1
  <2>4. where'[where'[k].dir] = where[where'[k].dir]
    BY <1>9, <2>2, <2>3
  <2>5. k # n
    BY <1>3, <1>5, <1>9, <2>1, <2>4
  <2>6. Odd(where, k)
    BY <1>9, <2>1, <2>4, <2>5 DEF Odd
  <2> QED BY <1>11, <2>6 DEF Inv, OddInv
<1>13. Control'
  BY <1>2 DEF Inv, Control, list
<1> QED BY <1>2, <1>10, <1>12, <1>13 DEF Inv

LEMMA DaysInv ==
  ASSUME Inv, DaysPass
  PROVE  Inv'
<1>1. /\ tool = "none" /\ fresh' = {} /\ aged' = {n \in Nodes : Exists(n) /\ where[n].del}
      /\ UNCHANGED <<where, tool, opts, pc, list, hand, outcome>>
  BY DEF DaysPass
<1>2. FsInv'
  BY <1>1 DEF Inv, FsInv, Exists
<1>3. OddInv'
  BY <1>1 DEF Inv, OddInv, Half, hand
<1> QED BY <1>1, <1>2, <1>3 DEF Inv, Control, list

----------------------------------------------------------------------------

(* delete: its stack of directories                                        *)

LEMMA StackChange ==
  ASSUME NEW w, NEW v, NEW s, StackInv(w, s), NEW t \in Seq(Frames), Len(t) = Len(s),
         \A i \in 1 .. Len(s) : t[i].dir = s[i].dir /\ PathIn(v)[s[i].dir] = PathIn(w)[s[i].dir],
         \A i \in 1 .. Len(s) : FrameInv(v, t[i]),
         \A i \in 1 .. Len(s) : i # 1 => t[i] = s[i]
  PROVE  StackInv(v, t)
<1>1. /\ s \in Seq(Frames) /\ Len(s) \in Nat
      /\ \A i, j \in 1 .. Len(s) : i < j => Len(PathIn(w)[s[j].dir]) < Len(PathIn(w)[s[i].dir])
      /\ \A i, j \in 1 .. Len(s) : j = i + 1 => s[i].dir \in s[j].left
  BY DEF StackInv
<1>2. \A i \in 1 .. Len(t) : FrameInv(v, t[i])
  OBVIOUS
<1>3. ASSUME NEW i \in 1 .. Len(t), NEW j \in 1 .. Len(t), i < j
      PROVE  Len(PathIn(v)[t[j].dir]) < Len(PathIn(v)[t[i].dir])
  <2>1. Len(PathIn(w)[s[j].dir]) < Len(PathIn(w)[s[i].dir])
    BY <1>1, <1>3
  <2>2. PathIn(v)[t[i].dir] = PathIn(w)[s[i].dir] /\ PathIn(v)[t[j].dir] = PathIn(w)[s[j].dir]
    OBVIOUS
  <2> QED BY <2>1, <2>2
<1>4. ASSUME NEW i \in 1 .. Len(t), NEW j \in 1 .. Len(t), j = i + 1
      PROVE  t[i].dir \in t[j].left
  <2>1. s[i].dir \in s[j].left /\ j # 1
    BY <1>1, <1>4
  <2>2. t[j] = s[j] /\ t[i].dir = s[i].dir
    BY <2>1
  <2> QED BY <2>1, <2>2
<1> QED BY <1>2, <1>3, <1>4 DEF StackInv

LEMMA TopChange ==
  ASSUME NEW s \in Seq(Frames), s # <<>>, NEW g \in Frames, NEW t, t = <<g>> \o Tail(s)
  PROVE  /\ t \in Seq(Frames) /\ t # <<>> /\ Len(t) = Len(s) /\ t[1] = g
         /\ \A i \in 1 .. Len(s) : i # 1 => t[i] = s[i]
<1> DEFINE r == Tail(s)
<1>1. Len(s) \in Nat /\ Len(s) >= 1
  OBVIOUS
<1>2. r \in Seq(Frames) /\ Len(r) = Len(s) - 1 /\ \A i \in 1 .. Len(r) : r[i] = s[i + 1]
  BY <1>1
<1> HIDE DEF r
<1>3. t = <<g>> \o r
  BY DEF r
<1>4. t \in Seq(Frames) /\ Len(t) = Len(r) + 1 /\ t[1] = g /\ \A i \in 1 .. Len(r) : t[i + 1] = r[i]
  BY <1>2, <1>3
<1>5. ASSUME NEW i \in 1 .. Len(s), i # 1
      PROVE  t[i] = s[i]
  <2>1. i - 1 \in 1 .. Len(r) /\ (i - 1) + 1 = i
    BY <1>1, <1>2, <1>5
  <2>2. t[(i - 1) + 1] = r[i - 1] /\ r[i - 1] = s[(i - 1) + 1]
    BY <1>2, <1>4, <2>1
  <2> QED BY <2>1, <2>2
<1> QED BY <1>1, <1>2, <1>4, <1>5

LEMMA StackPop ==
  ASSUME NEW w, NEW s, StackInv(w, s), s # <<>>, NEW t, t = Tail(s)
  PROVE  /\ StackInv(w, t) /\ s[1] \in Frames /\ FrameInv(w, s[1]) /\ Head(s) = s[1]
         /\ t # <<>> => s[1].dir \in t[1].left /\ t[Len(t)] = s[Len(s)]
         /\ t = <<>> => s[Len(s)] = s[1]
<1>1. /\ s \in Seq(Frames) /\ Len(s) \in Nat /\ Len(s) >= 1
      /\ \A i \in 1 .. Len(s) : FrameInv(w, s[i])
      /\ \A i, j \in 1 .. Len(s) : i < j => Len(PathIn(w)[s[j].dir]) < Len(PathIn(w)[s[i].dir])
      /\ \A i, j \in 1 .. Len(s) : j = i + 1 => s[i].dir \in s[j].left
  BY DEF StackInv
<1>2. t \in Seq(Frames) /\ Len(t) = Len(s) - 1 /\ \A i \in 1 .. Len(t) : t[i] = s[i + 1] /\ i + 1 \in 1 .. Len(s)
  BY <1>1
<1>3. StackInv(w, t)
  <2>1. \A i \in 1 .. Len(t) : FrameInv(w, t[i])
    BY <1>1, <1>2
  <2>2. ASSUME NEW i \in 1 .. Len(t), NEW j \in 1 .. Len(t)
        PROVE  /\ i < j => Len(PathIn(w)[t[j].dir]) < Len(PathIn(w)[t[i].dir])
               /\ j = i + 1 => t[i].dir \in t[j].left
    <3>1. t[i] = s[i + 1] /\ t[j] = s[j + 1] /\ i + 1 \in 1 .. Len(s) /\ j + 1 \in 1 .. Len(s)
      BY <1>2
    <3>2. i \in Nat /\ j \in Nat
      BY <1>2
    <3>3. (i < j => i + 1 < j + 1) /\ (j = i + 1 => j + 1 = (i + 1) + 1)
      BY <3>2
    <3> QED BY <1>1, <3>1, <3>3
  <2> QED BY <1>2, <2>1, <2>2 DEF StackInv
<1>4. ASSUME t # <<>>
      PROVE  s[1].dir \in t[1].left /\ t[Len(t)] = s[Len(s)]
  <2>1. Len(t) \in Nat /\ Len(t) >= 1
    BY <1>2, <1>4
  <2>2. t[1] = s[2] /\ 2 \in 1 .. Len(s) /\ 1 \in 1 .. Len(s)
    BY <1>1, <1>2, <2>1
  <2>3. s[1].dir \in s[2].left
    BY <1>1, <2>2
  <2>4. t[Len(t)] = s[Len(s)]
    BY <1>1, <1>2, <2>1
  <2> QED BY <2>2, <2>3, <2>4
<1>5. t = <<>> => s[Len(s)] = s[1]
  <2>1. t = <<>> => Len(t) = 0
    OBVIOUS
  <2>2. Len(t) = 0 => Len(s) = 1
    BY <1>1, <1>2
  <2> QED BY <2>1, <2>2
<1>6. s[1] \in Frames /\ FrameInv(w, s[1]) /\ Head(s) = s[1]
  BY <1>1
<1> QED BY <1>3, <1>4, <1>5, <1>6

(* An entry of the directory on top is one step under it.                  *)
LEMMA StackEntry ==
  ASSUME NEW w, Tree(w), NEW s, StackInv(w, s), s # <<>>, NEW n \in s[1].left
  PROVE  /\ n \in Nodes /\ LiveIn(w, n) /\ w[n].dir = s[1].dir
         /\ \A i \in 1 .. Len(s) :
              /\ s[i] \in Frames /\ s[i].dir \in Nodes /\ LiveIn(w, s[i].dir) /\ FrameInv(w, s[i])
              /\ Len(PathIn(w)[s[i].dir]) \in Nat /\ Len(PathIn(w)[n]) \in Nat
              /\ Len(PathIn(w)[s[i].dir]) < Len(PathIn(w)[n])
              /\ i # 1 => s[i].dir # s[1].dir
<1>1. /\ s \in Seq(Frames) /\ Len(s) \in Nat /\ Len(s) >= 1
      /\ \A i \in 1 .. Len(s) : s[i] \in Frames /\ FrameInv(w, s[i])
      /\ \A i, j \in 1 .. Len(s) : i < j => Len(PathIn(w)[s[j].dir]) < Len(PathIn(w)[s[i].dir])
  BY DEF StackInv
<1>2. \A i \in 1 .. Len(s) : s[i].dir \in Dirs /\ s[i].dir \in Nodes /\ LiveIn(w, s[i].dir)
  BY <1>1 DEF Frames, FrameInv, Nodes
<1>3. n \in EntriesIn(w, s[1].dir)
  BY <1>1 DEF FrameInv
<1>4. n \in Nodes /\ w[n] # Nowhere /\ w[n].dir = s[1].dir /\ ~w[n].del /\ w[n].dir # Root
  BY <1>1, <1>2, <1>3, DeletionAssumption DEF EntriesIn
<1>5. LiveIn(w, n)
  BY <1>1, <1>2, <1>4, LiveStep
<1>6. Len(PathIn(w)[n]) = Len(PathIn(w)[s[1].dir]) + 1
      /\ Len(PathIn(w)[n]) \in Nat /\ Len(PathIn(w)[s[1].dir]) \in Nat
  <2>1. Len(PathIn(w)[n]) = Len(PathIn(w)[w[n].dir]) + 1
        /\ Len(PathIn(w)[n]) \in Nat /\ Len(PathIn(w)[w[n].dir]) \in Nat
    BY <1>4, PathStep
  <2> QED BY <2>1, <1>4
<1>7. ASSUME NEW i \in 1 .. Len(s)
      PROVE  /\ Len(PathIn(w)[s[i].dir]) \in Nat
             /\ Len(PathIn(w)[s[i].dir]) < Len(PathIn(w)[n])
             /\ i # 1 => s[i].dir # s[1].dir
  <2>1. Len(PathIn(w)[s[i].dir]) \in Nat
    BY <1>2, PathStep
  <2>2. CASE i = 1
    BY <1>6, <2>1, <2>2
  <2>3. CASE i # 1
    <3>1. 1 < i /\ 1 \in 1 .. Len(s)
      BY <1>1, <2>3
    <3>2. Len(PathIn(w)[s[i].dir]) < Len(PathIn(w)[s[1].dir])
      BY <1>1, <3>1
    <3> QED BY <1>6, <2>1, <3>2
  <2> QED BY <2>2, <2>3
<1> QED BY <1>1, <1>2, <1>4, <1>5, <1>6, <1>7

LEMMA PushLast ==
  ASSUME NEW s \in Seq(Frames), NEW f \in Frames, NEW t, t = <<f>> \o s
  PROVE  /\ s = <<>> => t[Len(t)] = f
         /\ s # <<>> => t[Len(t)] = s[Len(s)]
<1>1. Len(s) \in Nat
  OBVIOUS
<1>2. Len(t) = Len(s) + 1 /\ t[1] = f /\ \A i \in 1 .. Len(s) : t[i + 1] = s[i]
  OBVIOUS
<1>3. s = <<>> => Len(t) = 1
  BY <1>2
<1>4. s # <<>> => Len(s) \in 1 .. Len(s)
  BY <1>1
<1> QED BY <1>2, <1>3, <1>4

LEMMA StackPush ==
  ASSUME NEW w, Tree(w), NEW s, StackInv(w, s), NEW f \in Frames, FrameInv(w, f),
         s # <<>> => f.dir \in s[1].left, NEW t, t = <<f>> \o s
  PROVE  StackInv(w, t) /\ t # <<>>
<1>1. /\ s \in Seq(Frames) /\ Len(s) \in Nat
      /\ \A i \in 1 .. Len(s) : FrameInv(w, s[i])
      /\ \A i, j \in 1 .. Len(s) : i < j => Len(PathIn(w)[s[j].dir]) < Len(PathIn(w)[s[i].dir])
      /\ \A i, j \in 1 .. Len(s) : j = i + 1 => s[i].dir \in s[j].left
  <2>1. s \in Seq(Frames)
    BY DEF StackInv
  <2> QED BY <2>1 DEF StackInv
<1>2. t \in Seq(Frames) /\ Len(t) = Len(s) + 1 /\ t[1] = f /\ \A i \in 1 .. Len(s) : t[i + 1] = s[i]
  BY <1>1
<1>3. \A i \in 1 .. Len(t) : i # 1 => t[i] = s[i - 1] /\ i - 1 \in 1 .. Len(s)
  <2> SUFFICES ASSUME NEW i \in 1 .. Len(t), i # 1
               PROVE  t[i] = s[i - 1] /\ i - 1 \in 1 .. Len(s)
    OBVIOUS
  <2>1. i - 1 \in 1 .. Len(s) /\ (i - 1) + 1 = i
    BY <1>1, <1>2
  <2>2. t[(i - 1) + 1] = s[i - 1]
    BY <1>2, <2>1
  <2> QED BY <2>1, <2>2
<1>4. \A i \in 1 .. Len(t) : FrameInv(w, t[i])
  <2> TAKE i \in 1 .. Len(t)
  <2>1. CASE i = 1
    BY <1>2, <2>1
  <2>2. CASE i # 1
    BY <1>1, <1>3, <2>2
  <2> QED BY <2>1, <2>2
<1>5. ASSUME NEW i \in 1 .. Len(t), NEW j \in 1 .. Len(t), i < j
      PROVE  Len(PathIn(w)[t[j].dir]) < Len(PathIn(w)[t[i].dir])
  <2>1. j # 1 /\ t[j] = s[j - 1] /\ j - 1 \in 1 .. Len(s)
    BY <1>2, <1>3, <1>5
  <2>2. CASE i = 1
    <3>1. s # <<>>
      BY <1>1, <2>1
    <3>2. Len(PathIn(w)[s[j - 1].dir]) < Len(PathIn(w)[f.dir])
      BY <2>1, <3>1, StackEntry
    <3> QED BY <1>2, <2>1, <2>2, <3>2
  <2>3. CASE i # 1
    <3>1. t[i] = s[i - 1] /\ i - 1 \in 1 .. Len(s)
      BY <1>3, <2>3
    <3>2. i - 1 < j - 1
      BY <1>2, <1>5
    <3>3. Len(PathIn(w)[s[j - 1].dir]) < Len(PathIn(w)[s[i - 1].dir])
      BY <1>1, <2>1, <3>1, <3>2
    <3> QED BY <2>1, <3>1, <3>3
  <2> QED BY <2>2, <2>3
<1>6. ASSUME NEW i \in 1 .. Len(t), NEW j \in 1 .. Len(t), j = i + 1
      PROVE  t[i].dir \in t[j].left
  <2>1. j # 1 /\ t[j] = s[j - 1] /\ j - 1 \in 1 .. Len(s)
    BY <1>2, <1>3, <1>6
  <2>2. CASE i = 1
    <3>1. s # <<>> /\ j - 1 = 1
      BY <1>1, <1>6, <2>1, <2>2
    <3> QED BY <1>2, <2>1, <2>2, <3>1
  <2>3. CASE i # 1
    <3>1. t[i] = s[i - 1] /\ i - 1 \in 1 .. Len(s)
      BY <1>3, <2>3
    <3>2. j - 1 = (i - 1) + 1
      BY <1>2, <1>6
    <3>3. s[i - 1].dir \in s[j - 1].left
      BY <1>1, <2>1, <3>1, <3>2
    <3> QED BY <2>1, <3>1, <3>3
  <2> QED BY <2>2, <2>3
<1>7. t # <<>>
  BY <1>1, <1>2
<1> QED BY <1>2, <1>4, <1>5, <1>6, <1>7 DEF StackInv


(* What may be odd when no undelete is half done: nothing.                 *)
LEMMA NoneOdd ==
  ASSUME Inv, tool # "undelete" \/ pc # "rename"
  PROVE  \A n \in Nodes : ~Odd(where, n)
BY DEF Inv, OddInv, Half

(* A call that leaves the files alone.                                     *)
LEMMA QuietFs ==
  ASSUME Inv, UNCHANGED fs, tool # "undelete" \/ pc # "rename"
  PROVE  FsInv' /\ OddInv'
<1>1. where' = where /\ fresh' = fresh /\ aged' = aged
  BY DEF fs
<1>2. FsInv'
  BY <1>1 DEF Inv, FsInv
<1>3. \A n \in Nodes : ~Odd(where', n)
  BY <1>1, NoneOdd
<1> QED BY <1>2, <1>3 DEF OddInv

LEMMA DeleteMainInv ==
  ASSUME Inv, delete_main
  PROVE  Inv'
<1>1. PICK n \in {m \in Nodes : Live(m)} : at' = n /\ chosen' = {n}
  BY DEF delete_main
<1>2. /\ tool = "none" /\ tool' = "delete" /\ pc' = "delete"
      /\ UNCHANGED <<fs, stack, todo, name, victim, agreed, outcome>>
  BY DEF delete_main
<1>3. FsInv' /\ OddInv'
  BY <1>2, QuietFs
<1>4. stack = <<>> /\ todo = {} /\ outcome \in Outcomes
  BY <1>2 DEF Inv, Control
<1>5. Control'
  BY <1>1, <1>2, <1>4 DEF Control
<1>6. where' = where /\ stack' = <<>>
  BY <1>2, <1>4 DEF fs
<1>7. StackInv(where', stack')
  BY <1>6 DEF StackInv
<1>8. LiveIn(where', n)
  BY <1>6, LiveBridge DEF Inv, FsInv
<1>9. DeleteInv'
  BY <1>1, <1>2, <1>6, <1>7, <1>8 DEF DeleteInv
<1> QED BY <1>2, <1>3, <1>5, <1>9 DEF Inv

(* A directory on the stack becomes an entry less.                         *)
LEMMA ReturnInv ==
  ASSUME NEW n \in Nodes, NEW kept \in BOOLEAN, Return(n, kept), tool = "delete", Control,
         outcome' \in Outcomes, kept /\ ~outcome'.error => n \in outcome'.spared,
         FsInv', OddInv', StackInv(where, stack), chosen \subseteq Nodes,
         stack = <<>> => chosen = {n}, stack # <<>> => chosen = {stack[Len(stack)].dir},
         stack # <<>> => n \in stack[1].left,
         ~kept => where'[n] # Nowhere /\ where'[n].del,
         \A i \in 1 .. Len(stack) : PathIn(where')[stack[i].dir] = PathIn(where)[stack[i].dir],
         \A i \in 1 .. Len(stack) : i # 1 => FrameInv(where', stack[i]),
         stack # <<>> => LiveIn(where', stack[1].dir),
         stack # <<>> => EntriesIn(where', stack[1].dir) \subseteq EntriesIn(where, stack[1].dir),
         stack # <<>> => stack[1].left \ {n} \subseteq EntriesIn(where', stack[1].dir),
         stack # <<>> /\ ~kept => n \notin EntriesIn(where', stack[1].dir)
  PROVE  Inv'
<1>1. tool' = "delete" /\ todo' = {} /\ chosen' = chosen
  BY DEF Return, Control
<1>2. outcome' \in Outcomes /\ chosen \subseteq Nodes
  OBVIOUS
<1>3. CASE stack = <<>>
  <2>1. pc' = "end" /\ stack' = <<>>
    BY <1>3 DEF Return
  <2>2. Control'
    BY <1>1, <1>2, <2>1 DEF Control
  <2>3. StackInv(where', stack')
    BY <2>1 DEF StackInv
  <2>4. ~outcome'.error => \A m \in chosen' \ outcome'.spared : where'[m] # Nowhere /\ where'[m].del
    BY <1>1, <1>2, <1>3
  <2>5. DeleteInv'
    BY <2>1, <2>3, <2>4 DEF DeleteInv
  <2> QED BY <1>1, <2>2, <2>5 DEF Inv
<1>4. CASE stack # <<>>
  <2> DEFINE top == stack[1]
             g == [top EXCEPT !.left = @ \ {n}, !.bad = @ \/ kept]
  <2>1. stack \in Seq(Frames) /\ top \in Frames /\ FrameInv(where, top) /\ Head(stack) = top
    BY <1>4, StackPop DEF StackInv
  <2>2. pc' = "readdir" /\ stack' = <<g>> \o Tail(stack)
    BY <1>4, <2>1 DEF Return
  <2>3. g \in Frames /\ g.dir = top.dir /\ g.left = top.left \ {n} /\ g.bad = (top.bad \/ kept)
    BY <2>1 DEF Frames
  <2> HIDE DEF g
  <2>4. stack' \in Seq(Frames) /\ stack' # <<>> /\ Len(stack') = Len(stack) /\ stack'[1] = g
        /\ \A i \in 1 .. Len(stack) : i # 1 => stack'[i] = stack[i]
    BY <1>4, <2>1, <2>2, <2>3, TopChange
  <2>5. FrameInv(where', g)
    <3>1. g.left \subseteq EntriesIn(where', g.dir) /\ LiveIn(where', g.dir)
      BY <1>4, <2>3
    <3>2. ~g.bad => EntriesIn(where', g.dir) \subseteq g.left
      <4> SUFFICES ASSUME ~g.bad
                   PROVE  EntriesIn(where', g.dir) \subseteq g.left
        OBVIOUS
      <4>1. ~kept /\ ~top.bad
        BY <2>1, <2>3 DEF Frames
      <4>2. EntriesIn(where, top.dir) \subseteq top.left
        BY <2>1, <4>1 DEF FrameInv
      <4>3. EntriesIn(where', top.dir) \subseteq top.left /\ n \notin EntriesIn(where', top.dir)
        BY <1>4, <4>1, <4>2
      <4> QED BY <2>3, <4>3
    <3> QED BY <3>1, <3>2 DEF FrameInv
  <2>6. \A i \in 1 .. Len(stack) : FrameInv(where', stack'[i])
    BY <2>4, <2>5
  <2>7. \A i \in 1 .. Len(stack) : stack'[i].dir = stack[i].dir
    BY <2>3, <2>4
  <2>8. StackInv(where', stack')
    BY <2>4, <2>6, <2>7, StackChange
  <2>9. chosen' = {stack'[Len(stack')].dir}
    <3>1. Len(stack) \in 1 .. Len(stack)
      BY <1>4, <2>1
    <3> QED BY <1>1, <1>4, <2>4, <2>7, <3>1
  <2>10. Control'
    BY <1>1, <1>2, <2>2 DEF Control
  <2>11. DeleteInv'
    BY <2>2, <2>4, <2>8, <2>9 DEF DeleteInv
  <2> QED BY <1>1, <2>10, <2>11 DEF Inv
<1> QED BY <1>3, <1>4

(* What keeps its name leaves the files alone.                             *)
LEMMA ReturnKeptInv ==
  ASSUME Inv, tool = "delete", pc \in {"delete", "move", "unlink", "rename", "delete_failed"},
         Return(at, TRUE), outcome' = set_error \/ outcome' = set_status({at}), UNCHANGED fs
  PROVE  Inv'
<1> DEFINE n == at
<1>1. where' = where /\ FsInv' /\ OddInv'
  BY QuietFs DEF fs
<1>2. DeleteInv
  BY DEF Inv
<1>3. /\ StackInv(where, stack) /\ n \in Nodes
      /\ stack # <<>> => n \in stack[1].left
      /\ stack = <<>> => chosen = {n}
      /\ stack # <<>> => chosen = {stack[Len(stack)].dir}
  BY <1>2 DEF DeleteInv
<1>4. \A i \in 1 .. Len(stack) : FrameInv(where, stack[i])
  BY <1>3 DEF StackInv
<1>5. stack # <<>> => FrameInv(where, stack[1])
  BY <1>3, StackPop
<1>6. stack # <<>> => LiveIn(where', stack[1].dir) /\ stack[1].left \ {n} \subseteq EntriesIn(where', stack[1].dir)
  BY <1>1, <1>5 DEF FrameInv
<1>7. Control /\ chosen \subseteq Nodes
  BY DEF Inv, Control
<1>8. PICK kept \in BOOLEAN : kept = TRUE
  OBVIOUS
<1>9. Return(n, kept) /\ kept
  BY <1>8
<1>10. outcome' \in Outcomes /\ (~outcome'.error => n \in outcome'.spared)
  <2>1. outcome \in Outcomes /\ {n} \in SUBSET Nodes
    BY <1>3, <1>7 DEF Control
  <2> QED BY <2>1, OutcomeFacts
<1> HIDE DEF n
<1> QED BY <1>1, <1>3, <1>4, <1>6, <1>7, <1>9, <1>10, ReturnInv

LEMMA DeleteErrorInv ==
  ASSUME Inv, delete_error
  PROVE  Inv'
BY ReturnKeptInv DEF delete_error

LEMMA DeleteRefusedInv ==
  ASSUME Inv, delete_refused
  PROVE  Inv'
BY ReturnKeptInv DEF delete_refused

LEMMA RecursiveDeleteReturnInv ==
  ASSUME Inv, recursive_delete_return
  PROVE  Inv'
<1>1. pc = "delete_failed" /\ Return(at, TRUE) /\ outcome' = set_status({at}) /\ UNCHANGED fs
  BY DEF recursive_delete_return
<1>2. tool = "delete"
  BY <1>1 DEF Inv, Control
<1> QED BY <1>1, <1>2, ReturnKeptInv


LEMMA DeleteStepInv ==
  ASSUME Inv, delete
  PROVE  Inv'
<1>1. /\ tool = "delete" /\ pc = "delete"
      /\ UNCHANGED <<fs, tool, opts, todo, chosen, name, victim, agreed, outcome>>
  BY DEF delete
<1>2. FsInv' /\ OddInv' /\ where' = where
  BY <1>1, QuietFs DEF fs
<1>3. DeleteInv /\ Control
  BY <1>1 DEF Inv
<1>4. /\ StackInv(where, stack) /\ at \in Nodes /\ LiveIn(where, at)
      /\ stack # <<>> => at \in stack[1].left
      /\ stack = <<>> => chosen = {at}
      /\ stack # <<>> => chosen = {stack[Len(stack)].dir}
  BY <1>1, <1>3 DEF DeleteInv
<1>5. chosen' = chosen /\ todo' = {} /\ chosen \subseteq Nodes /\ outcome' \in Outcomes /\ tool' = "delete"
  BY <1>1, <1>3 DEF Control
<1>6. CASE pc' = "move" /\ UNCHANGED <<stack, at>> /\ EntriesIn(where, at) = {}
  <2>1. DeleteInv'
    BY <1>2, <1>4, <1>5, <1>6 DEF DeleteInv
  <2>2. Control'
    BY <1>5, <1>6 DEF Control
  <2> QED BY <1>2, <1>5, <2>1, <2>2 DEF Inv
<1>7. CASE /\ at \in Dirs /\ pc' = "readdir"
           /\ stack' = <<[dir |-> at, left |-> Entries(at), bad |-> FALSE]>> \o stack
  <2> DEFINE f == [dir |-> at, left |-> Entries(at), bad |-> FALSE]
  <2>1. Entries(at) = EntriesIn(where, at)
    BY DEF Entries, Members, Exists, EntriesIn
  <2>2. EntriesIn(where, at) \subseteq Nodes
    BY DEF EntriesIn
  <2>3. f \in Frames /\ f.dir = at /\ f.left = EntriesIn(where, at)
    BY <1>7, <2>1, <2>2 DEF Frames
  <2>4. stack' = <<f>> \o stack
    BY <1>7
  <2> HIDE DEF f
  <2>5. FrameInv(where, f)
    BY <1>4, <2>3 DEF FrameInv
  <2>6. StackInv(where, stack') /\ stack' # <<>>
        /\ (stack = <<>> => stack'[Len(stack')] = f)
        /\ (stack # <<>> => stack'[Len(stack')] = stack[Len(stack)])
    <3>1. Tree(where)
      BY DEF Inv, FsInv
    <3>2. stack # <<>> => f.dir \in stack[1].left
      BY <1>4, <2>3
    <3>3. StackInv(where, stack)
      BY <1>4
    <3>4. StackInv(where, stack') /\ stack' # <<>>
      BY <2>3, <2>4, <2>5, <3>1, <3>2, <3>3, StackPush
    <3>5. stack \in Seq(Frames)
      BY <3>3 DEF StackInv
    <3>6. (stack = <<>> => stack'[Len(stack')] = f) /\ (stack # <<>> => stack'[Len(stack')] = stack[Len(stack)])
      BY <2>3, <2>4, <3>5, PushLast
    <3> QED BY <3>4, <3>6
  <2>7. chosen' = {stack'[Len(stack')].dir}
    BY <1>4, <1>5, <2>3, <2>6
  <2>8. DeleteInv'
    BY <1>2, <1>7, <2>6, <2>7 DEF DeleteInv
  <2>9. Control'
    BY <1>5, <1>7 DEF Control
  <2> QED BY <1>2, <1>5, <2>8, <2>9 DEF Inv
<1>8. at \in Files => EntriesIn(where, at) = {}
  <2> SUFFICES ASSUME at \in Files, NEW n \in EntriesIn(where, at)
               PROVE  FALSE
    OBVIOUS
  <2>1. n \in Nodes /\ where[n] # Nowhere /\ where[n].dir = at
    BY DEF EntriesIn
  <2>2. where[n].dir \in Dirs \cup {Root}
    BY <2>1, PlaceFacts DEF Inv, FsInv
  <2> QED BY <2>1, <2>2, DeletionAssumption DEF Nodes
<1>9. Entries(at) = EntriesIn(where, at)
  BY DEF Entries, Members, Exists, EntriesIn
<1> QED BY <1>6, <1>7, <1>8, <1>9 DEF delete

(* The next entry, or the directory itself when all of them are through.   *)
LEMMA RecursiveDeleteInv ==
  ASSUME Inv, recursive_delete \/ recursive_delete_error
  PROVE  Inv'
<1>1. /\ tool = "delete" /\ pc = "readdir"
      /\ UNCHANGED <<fs, tool, opts, todo, chosen, name, victim, agreed, outcome>>
  BY DEF recursive_delete, recursive_delete_error
<1>2. FsInv' /\ OddInv' /\ where' = where
  BY <1>1, QuietFs DEF fs
<1>3. DeleteInv /\ Control /\ Tree(where)
  BY <1>1 DEF Inv, FsInv
<1>4. StackInv(where, stack) /\ stack # <<>> /\ chosen = {stack[Len(stack)].dir}
  BY <1>1, <1>3 DEF DeleteInv
<1>5. chosen' = chosen /\ todo' = {} /\ chosen \subseteq Nodes /\ outcome' \in Outcomes /\ tool' = "delete"
  BY <1>1, <1>3 DEF Control
<1> DEFINE t == Tail(stack)
<1>6. /\ StackInv(where, t) /\ stack[1] \in Frames /\ FrameInv(where, stack[1]) /\ Head(stack) = stack[1]
      /\ t # <<>> => stack[1].dir \in t[1].left /\ t[Len(t)] = stack[Len(stack)]
      /\ t = <<>> => stack[Len(stack)] = stack[1]
  BY <1>4, StackPop
<1> HIDE DEF t
<1>7. CASE \E n \in stack[1].left : at' = n /\ pc' = "delete" /\ stack' = stack
  <2>1. PICK n \in stack[1].left : at' = n /\ pc' = "delete" /\ stack' = stack
    BY <1>7
  <2>2. n \in Nodes /\ LiveIn(where, n)
    BY <1>3, <1>4, StackEntry
  <2>3. DeleteInv'
    BY <1>2, <1>4, <1>5, <2>1, <2>2 DEF DeleteInv
  <2>4. Control'
    BY <1>5, <2>1 DEF Control
  <2> QED BY <1>2, <1>5, <2>3, <2>4 DEF Inv
<1>8. CASE /\ stack[1].left = {} /\ at' = stack[1].dir /\ stack' = t
           /\ pc' = "delete_failed" \/ (pc' = "move" /\ ~stack[1].bad)
  <2>1. at' \in Nodes /\ LiveIn(where, at')
    BY <1>6, <1>8 DEF Frames, FrameInv, Nodes
  <2>2. ~stack[1].bad => EntriesIn(where, at') = {}
    BY <1>6, <1>8 DEF FrameInv
  <2>3. stack' # <<>> => at' \in stack'[1].left
    BY <1>6, <1>8
  <2>4. stack' # <<>> => chosen' = {stack'[Len(stack')].dir}
    BY <1>4, <1>5, <1>6, <1>8
  <2>5. stack' = <<>> => chosen' = {at'}
    BY <1>4, <1>5, <1>6, <1>8
  <2>6. StackInv(where', stack')
    BY <1>2, <1>6, <1>8
  <2>7. DeleteInv'
    BY <1>2, <1>8, <2>1, <2>2, <2>3, <2>4, <2>5, <2>6 DEF DeleteInv
  <2>8. Control'
    BY <1>5, <1>8 DEF Control
  <2> QED BY <1>2, <1>5, <2>7, <2>8 DEF Inv
<1>9. CASE recursive_delete
  BY <1>6, <1>7, <1>8, <1>9 DEF recursive_delete, t
<1>10. CASE recursive_delete_error
  BY <1>6, <1>8, <1>10 DEF recursive_delete_error, t
<1> QED BY <1>9, <1>10

LEMMA DoMoveInv ==
  ASSUME Inv, do_move
  PROVE  Inv'
<1>1. /\ tool = "delete" /\ pc = "move"
      /\ UNCHANGED <<fs, tool, opts, list, at, name, agreed, outcome>>
      /\ \/ pc' = "rename" /\ UNCHANGED victim
         \/ pc' = "unlink" /\ victim' \in Previous(at)
  BY DEF do_move
<1>2. FsInv' /\ OddInv' /\ where' = where
  BY <1>1, QuietFs DEF fs
<1>3. DeleteInv /\ Control
  BY <1>1 DEF Inv
<1>4. stack' = stack /\ todo' = todo /\ chosen' = chosen /\ at' = at /\ outcome' = outcome /\ tool' = tool
  BY <1>1 DEF list
<1>5. Control'
  BY <1>1, <1>3, <1>4 DEF Control
<1>6. pc' = "unlink" => victim' \in Nodes /\ where[victim'] # Nowhere /\ where[victim'].del
  BY <1>1 DEF Previous, Members, Exists
<1>7. DeleteInv'
  BY <1>1, <1>2, <1>3, <1>4, <1>6 DEF DeleteInv
<1> QED BY <1>1, <1>2, <1>4, <1>5, <1>7 DEF Inv

(* What goes is not live: the stack is as it was.                          *)
LEMMA StackUnlink ==
  ASSUME NEW w, Tree(w), NEW n \in Nodes, NEW v, Unlinking(w, n, v), ~LiveIn(w, n),
         NEW s, StackInv(w, s)
  PROVE  StackInv(v, s)
<1>1. /\ Tree(v) /\ v[n] = Nowhere
      /\ \A m \in Nodes : m # n => v[m] = w[m]
      /\ \A m \in Nodes : v[m] # Nowhere => PathIn(v)[m] = PathIn(w)[m]
  BY UnlinkTree
<1>2. s \in Seq(Frames) /\ \A i \in 1 .. Len(s) : s[i] \in Frames /\ FrameInv(w, s[i])
  BY DEF StackInv
<1>3. ASSUME NEW i \in 1 .. Len(s)
      PROVE  PathIn(v)[s[i].dir] = PathIn(w)[s[i].dir] /\ FrameInv(v, s[i])
  <2> DEFINE d == s[i].dir
  <2>1. d \in Dirs /\ d \in Nodes /\ LiveIn(w, d)
    BY <1>2 DEF Frames, FrameInv, Nodes
  <2>2. d # n /\ v[d] = w[d] /\ w[d] # Nowhere
    BY <1>1, <2>1 DEF LiveIn
  <2>3. PathIn(v)[d] = PathIn(w)[d]
    BY <1>1, <2>1, <2>2
  <2>4. LiveIn(v, d)
    BY <2>1, <2>2, <2>3 DEF LiveIn
  <2>5. n \notin EntriesIn(w, d)
    <3> SUFFICES ASSUME n \in EntriesIn(w, d)
                 PROVE  FALSE
      OBVIOUS
    <3>1. w[n] # Nowhere /\ w[n].dir = d /\ ~w[n].del
      BY DEF EntriesIn
    <3> QED BY <2>1, <3>1, LiveStep
  <2>6. EntriesIn(v, d) = EntriesIn(w, d)
    BY <1>1, <2>5 DEF EntriesIn
  <2> QED BY <1>2, <2>3, <2>4, <2>6 DEF FrameInv
<1>4. \A i \in 1 .. Len(s) : s[i].dir = s[i].dir /\ PathIn(v)[s[i].dir] = PathIn(w)[s[i].dir]
  BY <1>3
<1>5. \A i \in 1 .. Len(s) : FrameInv(v, s[i])
  BY <1>3
<1>6. Len(s) = Len(s) /\ \A i \in 1 .. Len(s) : i # 1 => s[i] = s[i]
  OBVIOUS
<1>7. s \in Seq(Frames)
  BY <1>2
<1> HIDE <1>3
<1> QED BY <1>4, <1>5, <1>6, <1>7, StackChange

LEMMA DeleteUnlinkInv ==
  ASSUME Inv, tool = "delete", unlink_completely
  PROVE  Inv' /\ \A m \in Nodes : LiveIn(where, m) => where'[m] # Nowhere
<1>1. PICK n \in Below(victim) :
        /\ Unlink(n)
        /\ IF n = victim THEN pc' = "rename" /\ victim' = None ELSE UNCHANGED <<pc, victim>>
  BY DEF unlink_completely
<1>2. pc = "unlink" /\ UNCHANGED <<tool, opts, list, at, name, agreed, outcome>>
  BY DEF unlink_completely
<1>3. DeleteInv /\ Control /\ FsInv /\ Tree(where)
  BY DEF Inv, FsInv
<1>4. /\ StackInv(where, stack) /\ at \in Nodes /\ LiveIn(where, at) /\ EntriesIn(where, at) = {}
      /\ victim \in Nodes /\ where[victim] # Nowhere /\ where[victim].del
  BY <1>2, <1>3 DEF DeleteInv
<1>5. n \in Nodes /\ where[n] # Nowhere /\ UnderIn(where, n, victim)
  BY <1>1, <1>3, <1>4, BelowBridge
<1>6. ~LiveIn(where, victim)
  BY <1>3, <1>4, LiveStep
<1>7. ~LiveIn(where, n)
  BY <1>3, <1>4, <1>5, <1>6, LiveAbove
<1>8. Unlinking(where, n, where') /\ FsInv'
  BY <1>1, <1>3, <1>5, FsUnlink
<1>9. /\ where'[n] = Nowhere
      /\ \A m \in Nodes : m # n => where'[m] = where[m]
      /\ \A m \in Nodes : where'[m] # Nowhere => m # n /\ where'[m] = where[m] /\ where[m] # Nowhere
      /\ \A m \in Nodes : where'[m] # Nowhere => PathIn(where')[m] = PathIn(where)[m]
  BY <1>3, <1>5, <1>8, UnlinkTree
<1>10. StackInv(where', stack)
  BY <1>3, <1>4, <1>5, <1>7, <1>8, StackUnlink
<1>11. \A m \in Nodes : LiveIn(where, m) => m # n /\ where'[m] # Nowhere /\ LiveIn(where', m)
  <2> SUFFICES ASSUME NEW m \in Nodes, LiveIn(where, m)
               PROVE  m # n /\ where'[m] # Nowhere /\ LiveIn(where', m)
    OBVIOUS
  <2>1. m # n /\ where[m] # Nowhere
    BY <1>7 DEF LiveIn
  <2>2. where'[m] = where[m] /\ where'[m] # Nowhere
    BY <1>9, <2>1
  <2>3. PathIn(where')[m] = PathIn(where)[m]
    BY <1>9, <2>2
  <2> QED BY <2>1, <2>2, <2>3 DEF LiveIn
<1>12. EntriesIn(where', at) = {}
  BY <1>4, <1>9 DEF EntriesIn
<1>13. OddInv'
  <2>1. \A m \in Nodes : ~Odd(where, m)
    BY <1>2, NoneOdd
  <2>2. \A m \in Nodes : ~Odd(where', m)
    BY <1>3, <1>5, <1>8, <2>1, OddUnlink
  <2> QED BY <2>2 DEF OddInv
<1>14. stack' = stack /\ todo' = todo /\ chosen' = chosen /\ at' = at /\ outcome' = outcome /\ tool' = tool
  BY <1>2 DEF list
<1>15. pc' \in {"unlink", "rename"}
  BY <1>1, <1>2
<1>16. Control'
  BY <1>3, <1>14, <1>15 DEF Control
<1>17. pc' = "unlink" => victim' \in Nodes /\ where'[victim'] # Nowhere /\ where'[victim'].del
  <2> SUFFICES ASSUME pc' = "unlink"
               PROVE  victim' \in Nodes /\ where'[victim'] # Nowhere /\ where'[victim'].del
    OBVIOUS
  <2>1. n # victim /\ victim' = victim
    BY <1>1
  <2> QED BY <1>4, <1>9, <2>1
<1>18. DeleteInv'
  BY <1>3, <1>2, <1>4, <1>10, <1>11, <1>12, <1>14, <1>15, <1>17 DEF DeleteInv
<1> QED BY <1>8, <1>11, <1>13, <1>14, <1>16, <1>18 DEF Inv

LEMMA DeleteRenameInv ==
  ASSUME Inv, delete_rename
  PROVE  Inv' /\ \A m \in Nodes : LiveIn(where, m) => where'[m] # Nowhere
<1>1. tool = "delete" /\ pc = "rename" /\ Rename(at, TRUE) /\ Return(at, FALSE) /\ outcome' = outcome
  BY DEF delete_rename
<1>2. DeleteInv /\ Control /\ FsInv /\ Tree(where)
  BY <1>1 DEF Inv, FsInv
<1> DEFINE n == at
<1>3. /\ StackInv(where, stack) /\ n \in Nodes /\ LiveIn(where, n) /\ EntriesIn(where, n) = {}
      /\ stack # <<>> => n \in stack[1].left
      /\ stack = <<>> => chosen = {n}
      /\ stack # <<>> => chosen = {stack[Len(stack)].dir}
  BY <1>1, <1>2 DEF DeleteInv
<1>4. PICK del \in BOOLEAN, kept \in BOOLEAN : del = TRUE /\ kept = FALSE
  OBVIOUS
<1>5. del /\ ~kept /\ Rename(n, del) /\ Return(n, kept)
  BY <1>1, <1>4
<1> HIDE DEF n
<1>6. where[n] # Nowhere /\ ~where[n].del
  BY <1>2, <1>3, LiveStep
<1>7. Renaming(where, n, del, where') /\ FsInv'
  BY <1>2, <1>3, <1>5, <1>6, FsRename
<1>8. /\ where'[n] # Nowhere /\ where'[n].del = del /\ n \notin Replaced(where, n, del)
      /\ \A m \in Nodes : m # n /\ m \notin Replaced(where, n, del) => where'[m] = where[m]
      /\ \A m \in Nodes : m \in Replaced(where, n, del) => where'[m] = Nowhere
      /\ \A m \in Nodes : where'[m] # Nowhere => m \notin Replaced(where, n, del)
  BY <1>2, <1>3, <1>7, RenameTree
<1>9. \A m \in Nodes : m \in Replaced(where, n, del) => ~LiveIn(where, m)
  <2> SUFFICES ASSUME NEW m \in Replaced(where, n, del), LiveIn(where, m)
               PROVE  FALSE
    BY DEF Replaced
  <2>1. m \in Nodes /\ where[m] # Nowhere /\ where[m].del = del
    BY DEF Replaced
  <2>2. ~where[m].del
    BY <1>2, <2>1, LiveStep
  <2> QED BY <1>5, <2>1, <2>2
<1>10. \A m \in Nodes : LiveIn(where, m) => where'[m] # Nowhere
  BY <1>8, <1>9 DEF LiveIn
<1>11. OddInv'
  <2> SUFFICES ASSUME NEW m \in Nodes, Odd(where', m)
               PROVE  FALSE
    BY DEF OddInv
  <2>1. ~Odd(where, m)
    BY <1>1, NoneOdd
  <2>2. m \in EntriesIn(where, n)
    BY <1>2, <1>3, <1>5, <1>7, <2>1, OddRename
  <2> QED BY <1>3, <2>2
<1>12. ASSUME NEW i \in 1 .. Len(stack)
       PROVE  /\ PathIn(where')[stack[i].dir] = PathIn(where)[stack[i].dir]
              /\ LiveIn(where', stack[i].dir)
              /\ EntriesIn(where', stack[i].dir) = EntriesIn(where, stack[i].dir) \ {n}
              /\ i # 1 => FrameInv(where', stack[i])
  <2> DEFINE d == stack[i].dir
  <2>1. stack # <<>>
    BY <1>3 DEF StackInv
  <2>2. /\ where[n].dir = stack[1].dir
        /\ d \in Nodes /\ LiveIn(where, d) /\ FrameInv(where, stack[i])
        /\ Len(PathIn(where)[d]) \in Nat /\ Len(PathIn(where)[n]) \in Nat
        /\ Len(PathIn(where)[d]) < Len(PathIn(where)[n])
        /\ i # 1 => d # stack[1].dir
    BY <1>2, <1>3, <2>1, StackEntry
  <2>3. ~UnderIn(where, d, n)
    BY <2>2 DEF UnderIn, Begins
  <2>4. d \notin Replaced(where, n, del) /\ where[d] # Nowhere
    BY <1>9, <2>2 DEF LiveIn
  <2>5. PathIn(where')[d] = PathIn(where)[d] /\ LiveIn(where', d)
    BY <1>2, <1>3, <1>7, <2>2, <2>3, <2>4, RenameSpares
  <2> HIDE DEF d
  <2>6. EntriesIn(where', d) = EntriesIn(where, d) \ {n}
    <3>1. ASSUME NEW m \in Nodes
          PROVE  m \in EntriesIn(where', d) <=> m \in EntriesIn(where, d) /\ m # n
      <4>1. CASE m = n
        BY <1>5, <1>8, <4>1 DEF EntriesIn
      <4>2. CASE m \in Replaced(where, n, del)
        BY <1>5, <1>8, <4>2 DEF EntriesIn, Replaced
      <4>3. CASE m # n /\ m \notin Replaced(where, n, del)
        BY <1>8, <4>3 DEF EntriesIn
      <4> QED BY <4>1, <4>2, <4>3
    <3>2. EntriesIn(where', d) \subseteq Nodes /\ EntriesIn(where, d) \subseteq Nodes
      BY DEF EntriesIn
    <3> QED BY <3>1, <3>2
  <2>7. i # 1 => n \notin EntriesIn(where, d)
    BY <2>2 DEF EntriesIn, d
  <2>8. i # 1 => FrameInv(where', stack[i])
    BY <2>2, <2>5, <2>6, <2>7 DEF FrameInv, d
  <2> QED BY <2>5, <2>6, <2>8 DEF d
<1>13. stack # <<>> => 1 \in 1 .. Len(stack) /\ FrameInv(where, stack[1])
  <2> SUFFICES ASSUME stack # <<>>
               PROVE  1 \in 1 .. Len(stack) /\ FrameInv(where, stack[1])
    OBVIOUS
  <2>1. stack \in Seq(Frames)
    BY <1>3 DEF StackInv
  <2>2. 1 \in 1 .. Len(stack)
    BY <2>1
  <2> QED BY <1>3, <2>2 DEF StackInv
<1>14. stack # <<>> =>
         /\ LiveIn(where', stack[1].dir)
         /\ EntriesIn(where', stack[1].dir) = EntriesIn(where, stack[1].dir) \ {n}
         /\ stack[1].left \subseteq EntriesIn(where, stack[1].dir)
  BY <1>12, <1>13 DEF FrameInv
<1>15. chosen \subseteq Nodes /\ outcome' \in Outcomes
  BY <1>1, <1>2 DEF Control
<1>16. Inv'
  BY <1>1, <1>2, <1>3, <1>5, <1>7, <1>8, <1>11, <1>12, <1>14, <1>15, ReturnInv
<1> QED BY <1>10, <1>16


----------------------------------------------------------------------------
(* What undelete and expunge find                                          *)

LEMMA FoundFacts ==
  ASSUME NEW pattern, NEW c, NEW m, NEW u
  PROVE  /\ find_matches(pattern, c, m, u) \subseteq Nodes
         /\ \A n \in find_matches(pattern, c, m, u) : where[n] # Nowhere /\ where[n].del
<1>1. \A n \in Matched(pattern) : n \in Nodes /\ where[n] # Nowhere
  BY DEF Matched, Exists
<1>2. \A k \in Nodes : \A n \in do_recurs(k, m, u) : n \in Nodes /\ where[n] # Nowhere /\ where[n].del
  BY DEF do_recurs, Below, Exists
<1>3. \A n \in UNION {do_recurs(k, m, u) : k \in Matched(pattern)} :
        n \in Nodes /\ where[n] # Nowhere /\ where[n].del
  BY <1>1, <1>2
<1>4. \A n \in find_matches(pattern, c, m, u) :
        (n \in Matched(pattern) /\ where[n].del) \/ n \in UNION {do_recurs(k, m, u) : k \in Matched(pattern)}
  BY DEF find_matches
<1> QED BY <1>1, <1>3, <1>4

LEMMA LeavesFacts ==
  ASSUME Tree(where), NEW N \in SUBSET Nodes
  PROVE  /\ \A l \in Leaves(N) : l \in LeafSet /\ l.node \in N /\ PathIn(where)[l.node] = l.path
         /\ \A n \in N : \E l \in Leaves(N) : l.node = n
<1>1. \A n \in N : Path[n] = PathIn(where)[n] /\ Path[n] \in Paths
  BY PathDef, PathStep
<1>2. \A n \in N : [path |-> Path[n], node |-> n] \in Leaves(N)
  BY DEF Leaves
<1>3. \A l \in Leaves(N) : \E n \in N : l = [path |-> Path[n], node |-> n]
  BY DEF Leaves
<1>4. \A l \in Leaves(N) : l \in LeafSet /\ l.node \in N /\ PathIn(where)[l.node] = l.path
  BY <1>1, <1>3 DEF LeafSet
<1>5. \A n \in N : \E l \in Leaves(N) : l.node = n
  BY <1>2
<1> QED BY <1>4, <1>5

----------------------------------------------------------------------------
(* expunge                                                                 *)

LEMMA ExpungeMainInv ==
  ASSUME Inv, Allowed = {}, expunge_main
  PROVE  Inv'
<1>1. PICK pattern \in Patterns, o \in SUBSET {"r", "t"} :
         LET found == find_matches(pattern, TRUE, TRUE, "r" \in o)
             young == TooYoung(found, pattern)
             kept == timed_out(found, o) \cup IF "t" \in o THEN young ELSE {}
         IN  /\ "t" \notin o \/ "age" \in Allowed \/ young = {}
             /\ todo' = Leaves(kept) /\ chosen' = kept /\ opts' = o
  BY DEF expunge_main
<1>2. /\ tool = "none" /\ tool' = "expunge" /\ pc' = "leaf"
      /\ UNCHANGED <<fs, stack, hand, outcome>>
  BY DEF expunge_main
<1> DEFINE found == find_matches(pattern, TRUE, TRUE, "r" \in o)
           young == TooYoung(found, pattern)
           kept == timed_out(found, o) \cup IF "t" \in o THEN young ELSE {}
<1>3. found \subseteq Nodes /\ \A n \in found : where[n] # Nowhere /\ where[n].del
  BY FoundFacts
<1>4. todo' = Leaves(kept) /\ chosen' = kept /\ opts' = o /\ ("t" \in o => young = {})
  BY <1>1
<1> HIDE DEF found, young
<1>5. kept \subseteq found
  BY <1>4 DEF timed_out
<1>6. "t" \in o => \A n \in kept : n \notin fresh
  BY <1>4 DEF timed_out
<1> HIDE DEF kept
<1>7. FsInv' /\ OddInv' /\ where' = where /\ aged' = aged
  BY <1>2, QuietFs DEF fs
<1>8. FsInv /\ Tree(where)
  BY DEF Inv, FsInv
<1>9. /\ \A l \in todo' : l \in LeafSet /\ l.node \in kept /\ PathIn(where)[l.node] = l.path
      /\ \A n \in kept : \E l \in todo' : l.node = n
  BY <1>3, <1>4, <1>5, <1>8, LeavesFacts
<1>10. "t" \in o => \A n \in kept : n \in aged
  BY <1>3, <1>5, <1>6, <1>8 DEF FsInv
<1>11. \A l \in todo' : ExpungeLeaf(where', aged', opts', l)
  BY <1>3, <1>4, <1>5, <1>7, <1>9, <1>10 DEF ExpungeLeaf
<1>12. ExpungeInv'
  BY <1>2, <1>4, <1>9, <1>11 DEF ExpungeInv
<1>13. Control'
  BY <1>2, <1>3, <1>4, <1>5 DEF Inv, Control
<1> QED BY <1>2, <1>7, <1>12, <1>13 DEF Inv

LEMMA ExpungeSpecifiedInv ==
  ASSUME Inv, expunge_specified
  PROVE  Inv'
<1>1. PICK l \in todo :
        /\ \A m \in todo \ {l} : ~Extends(m.path, l.path)
        /\ at' = l /\ todo' = todo \ {l}
  BY DEF expunge_specified
<1>2. /\ tool = "expunge" /\ pc = "leaf" /\ pc' = "expunge"
      /\ UNCHANGED <<fs, tool, opts, stack, chosen, name, victim, agreed, outcome>>
  BY DEF expunge_specified
<1>3. FsInv' /\ OddInv' /\ where' = where /\ aged' = aged
  BY <1>2, QuietFs DEF fs
<1>4. ExpungeInv /\ Control
  BY <1>2 DEF Inv
<1>5. \A m \in todo : ExpungeLeaf(where, aged, opts, m) /\ m.path \in Paths
  BY <1>4 DEF ExpungeInv, ExpungeLeaf, LeafSet
<1>6. \A m \in todo' : ~Begins(m.path, at'.path)
  BY <1>1, <1>5, ExtendsBegins
<1>7. ~outcome'.error => \A n \in chosen' \ outcome'.spared :
        where'[n] = Nowhere \/ (\E m \in todo' : m.node = n) \/ (pc' = "expunge" /\ n = at'.node)
  BY <1>1, <1>2, <1>3, <1>4 DEF ExpungeInv
<1>8. \A m \in todo' : ExpungeLeaf(where', aged', opts', m)
  BY <1>1, <1>2, <1>3, <1>5
<1>9. ExpungeLeaf(where', aged', opts', at')
  BY <1>1, <1>2, <1>3, <1>5
<1>10. ExpungeInv'
  BY <1>2, <1>6, <1>7, <1>8, <1>9 DEF ExpungeInv
<1>11. Control'
  BY <1>2, <1>4 DEF Control
<1> QED BY <1>2, <1>3, <1>10, <1>11 DEF Inv

(* What is unlinked is the file that was found, marked and old enough.     *)
LEMMA ReallyDoExpungeInv ==
  ASSUME Inv, really_do_expunge
  PROVE  /\ Inv' /\ tool = "expunge" /\ at.node \in Nodes /\ where[at.node].del
         /\ "t" \in opts => at.node \in aged
         /\ \A m \in Nodes : m # at.node => where'[m] = where[m]
<1> DEFINE n == at.node
<1>1. /\ pc = "expunge" /\ Unlink(Lookup(at.path)) /\ pc' = "leaf" /\ at' = None
      /\ UNCHANGED <<tool, opts, list, name, victim, agreed, outcome>>
  BY DEF really_do_expunge
<1>2. tool = "expunge" /\ Control /\ FsInv /\ Tree(where)
  BY <1>1 DEF Inv, Control, FsInv
<1>3. ExpungeInv
  BY <1>2 DEF Inv
<1>4. /\ ExpungeLeaf(where, aged, opts, at) /\ \A l \in todo : ~Begins(l.path, at.path)
      /\ \A l \in todo : ExpungeLeaf(where, aged, opts, l)
  BY <1>1, <1>3 DEF ExpungeInv
<1>5. n \in Nodes /\ where[n] # Nowhere /\ where[n].del /\ PathIn(where)[n] = at.path /\ at.path \in Paths
      /\ ("t" \in opts => n \in aged)
  BY <1>4 DEF ExpungeLeaf, LeafSet
<1>6. Lookup(at.path) = n
  BY <1>2, <1>5, LookupFinds
<1>7. Unlink(n)
  BY <1>1, <1>6
<1> HIDE DEF n
<1>8. Unlinking(where, n, where') /\ FsInv' /\ aged' = aged \ {n}
  BY <1>2, <1>5, <1>7, FsUnlink
<1>9. /\ where'[n] = Nowhere
      /\ \A m \in Nodes : m # n => where'[m] = where[m]
      /\ \A m \in Nodes : where'[m] # Nowhere => PathIn(where')[m] = PathIn(where)[m]
  BY <1>2, <1>5, <1>8, UnlinkTree
<1>10. OddInv'
  <2>1. \A m \in Nodes : ~Odd(where, m)
    BY <1>2, NoneOdd
  <2>2. \A m \in Nodes : ~Odd(where', m)
    BY <1>2, <1>5, <1>8, <2>1, OddUnlink
  <2> QED BY <2>2 DEF OddInv
<1>11. stack' = stack /\ todo' = todo /\ chosen' = chosen /\ outcome' = outcome /\ tool' = tool /\ opts' = opts
  BY <1>1 DEF list
<1>12. ASSUME NEW l \in todo
       PROVE  ExpungeLeaf(where', aged', opts', l)
  <2>1. /\ l \in LeafSet /\ l.node \in Nodes /\ where[l.node] # Nowhere /\ where[l.node].del
        /\ PathIn(where)[l.node] = l.path /\ ("t" \in opts => l.node \in aged)
    BY <1>4 DEF ExpungeLeaf, LeafSet
  <2>2. Begins(at.path, at.path)
    BY <1>5 DEF Begins, Paths
  <2>3. l.node # n
    BY <1>4, <1>5, <2>1, <2>2
  <2>4. where'[l.node] = where[l.node] /\ where'[l.node] # Nowhere
    BY <1>9, <2>1, <2>3
  <2>5. PathIn(where')[l.node] = PathIn(where)[l.node]
    BY <1>9, <2>1, <2>4
  <2>6. "t" \in opts' => l.node \in aged'
    BY <1>8, <1>11, <2>1, <2>3
  <2> QED BY <2>1, <2>4, <2>5, <2>6 DEF ExpungeLeaf
<1>13. ASSUME ~outcome'.error, NEW k \in chosen' \ outcome'.spared
       PROVE  where'[k] = Nowhere \/ \E l \in todo' : l.node = k
  <2>1. k \in Nodes
    BY <1>2, <1>11 DEF Control
  <2>2. where[k] = Nowhere \/ (\E l \in todo : l.node = k) \/ k = n
    BY <1>3, <1>11, <1>13 DEF ExpungeInv, n
  <2>3. where[k] = Nowhere => where'[k] = Nowhere
    BY <1>5, <1>9, <2>1
  <2> QED BY <1>9, <1>11, <2>2, <2>3
<1>14. ExpungeInv'
  BY <1>1, <1>11, <1>12, <1>13 DEF ExpungeInv
<1>15. Control'
  BY <1>1, <1>2, <1>11 DEF Control
<1>16. Inv'
  BY <1>2, <1>8, <1>10, <1>11, <1>14, <1>15 DEF Inv
<1> QED BY <1>2, <1>5, <1>9, <1>16 DEF n

(* What stays is spared with the directories around it, or there is an     *)
(* error.                                                                  *)
LEMMA MemberStaysInv ==
  ASSUME Inv, really_do_expunge_error \/ really_do_expunge_refused
  PROVE  Inv'
<1> DEFINE stay == {m \in todo : Extends(at.path, m.path)} \cup {at}
           N == {l.node : l \in stay}
<1>1. /\ pc = "expunge" /\ pc' = "leaf"
      /\ todo' = {l \in todo : ~Extends(at.path, l.path)}
      /\ UNCHANGED <<fs, tool, opts, stack, chosen, name, victim, agreed>>
      /\ outcome' = set_error \/ outcome' = set_status(N)
  BY DEF MemberStays, really_do_expunge_error, really_do_expunge_refused
<1>2. tool = "expunge" /\ Control /\ outcome \in Outcomes
  BY <1>1 DEF Inv, Control
<1>3. FsInv' /\ OddInv' /\ where' = where /\ aged' = aged
  BY <1>1, <1>2, QuietFs DEF fs
<1>4. \A l \in todo' : ExpungeLeaf(where', aged', opts', l)
  BY <1>1, <1>2, <1>3 DEF Inv, ExpungeInv
<1>5. N \in SUBSET Nodes
  <2>1. \A l \in stay : l.node \in Nodes
    BY <1>1, <1>2 DEF Inv, ExpungeInv, ExpungeLeaf, LeafSet
  <2> QED BY <2>1
<1>6. ASSUME ~outcome'.error, NEW n \in chosen \ outcome'.spared
      PROVE  where[n] = Nowhere \/ \E l \in todo' : l.node = n
  <2>1. outcome' = set_status(N)
    BY <1>1, <1>2, <1>5, <1>6, OutcomeFacts
  <2>2. ~outcome.error /\ n \notin outcome.spared /\ n \notin N
    BY <1>2, <1>5, <1>6, <2>1, OutcomeFacts
  <2>3. \A l \in stay : l.node # n
    BY <2>2
  <2>4. where[n] = Nowhere \/ (\E l \in todo : l.node = n) \/ n = at.node
    BY <1>2, <2>2 DEF Inv, ExpungeInv
  <2> QED BY <1>1, <2>3, <2>4
<1>7. ExpungeInv'
  BY <1>1, <1>3, <1>4, <1>6 DEF ExpungeInv
<1>8. Control'
  <2>1. outcome' \in Outcomes
    BY <1>1, <1>2, <1>5, OutcomeFacts
  <2> QED BY <1>1, <1>2, <2>1 DEF Control
<1> QED BY <1>1, <1>2, <1>3, <1>7, <1>8 DEF Inv


----------------------------------------------------------------------------
(* undelete: paths while they are being renamed                            *)

LEMMA MixedFacts ==
  ASSUME NEW q \in Paths, NEW m \in Paths, Len(m) = Len(q), NEW p \in Paths
  PROVE  /\ Mixed(q, m, p) \in Paths /\ Len(Mixed(q, m, p)) = Len(p)
         /\ \A i \in 1 .. Len(p) :
              Mixed(q, m, p)[i] =
                IF i <= Len(q) /\ (\A j \in 1 .. i : p[j] = q[j]) THEN m[i] ELSE p[i]
<1>1. /\ Len(p) \in Nat /\ DOMAIN p = 1 .. Len(p) /\ \A i \in 1 .. Len(p) : p[i] \in Parts
      /\ Len(q) \in Nat /\ \A i \in 1 .. Len(q) : m[i] \in Parts
  BY DEF Paths
<1>2. \A i \in 1 .. Len(p) : i <= Len(q) => i \in 1 .. Len(q)
  BY <1>1
<1>3. Mixed(q, m, p) = [i \in 1 .. Len(p) |->
                          IF i <= Len(q) /\ (\A j \in 1 .. i : p[j] = q[j]) THEN m[i] ELSE p[i]]
  BY <1>1 DEF Mixed
<1>4. Mixed(q, m, p) \in [1 .. Len(p) -> Parts]
  BY <1>1, <1>2, <1>3
<1>5. Mixed(q, m, p) \in Paths /\ Len(Mixed(q, m, p)) = Len(p)
  BY <1>1, <1>4 DEF Paths
<1> QED BY <1>3, <1>5

(* Before the first renaming the paths are those of the list.              *)
LEMMA MixedSame ==
  ASSUME NEW q \in Paths, NEW p \in Paths
  PROVE  Mixed(q, q, p) = p
<1> DEFINE r == Mixed(q, q, p)
<1>1. r \in Paths /\ Len(r) = Len(p)
      /\ \A i \in 1 .. Len(p) : r[i] = IF i <= Len(q) /\ (\A j \in 1 .. i : p[j] = q[j]) THEN q[i] ELSE p[i]
  BY MixedFacts
<1>2. Len(p) \in Nat
  BY DEF Paths
<1> HIDE DEF r
<1>3. \A i \in 1 .. Len(p) : r[i] = p[i]
  <2> TAKE i \in 1 .. Len(p)
  <2>1. i \in 1 .. i
    BY <1>2
  <2> QED BY <1>1, <2>1
<1>4. r = p
  BY <1>1, <1>3, PathEqual
<1> QED BY <1>4 DEF r

(* When a mark goes, it goes from the paths that begin with it.            *)
Cleared(m, n, h) ==
  /\ Len(n) = Len(m) /\ \A i \in 1 .. Len(m) : i # h => n[i] = m[i]
  /\ h <= Len(m) => n[h] = [name |-> m[h].name, del |-> FALSE]

SameTo(h, p, q) == \A i \in 1 .. h : p[i] = q[i]

LEMMA MixedMark ==
  ASSUME NEW q \in Paths, NEW m \in Paths, Len(m) = Len(q), NEW p \in Paths,
         NEW h \in 1 .. Len(m), SameTo(h, m, q),
         NEW a \in Paths, Len(a) = h, SameTo(h, a, m),
         NEW r, r = Mixed(q, m, p),
         NEW n \in Paths, Cleared(m, n, h), NEW t \in Paths, Cleared(r, t, h)
  PROVE  /\ Begins(r, a) => Mixed(q, n, p) = t
         /\ ~Begins(r, a) => Mixed(q, n, p) = r
<1> DEFINE s == Mixed(q, n, p)
           same(i) == i <= Len(q) /\ \A j \in 1 .. i : p[j] = q[j]
<1>0. Len(p) \in Nat /\ Len(q) \in Nat /\ h \in Nat
  BY DEF Paths
<1>a. (\A i \in 1 .. h : m[i] = q[i]) /\ (\A i \in 1 .. h : a[i] = m[i])
  BY DEF SameTo
<1>2. r \in Paths /\ Len(r) = Len(p) /\ \A i \in 1 .. Len(p) : r[i] = IF same(i) THEN m[i] ELSE p[i]
  BY MixedFacts
<1>b. /\ Len(n) = Len(q) /\ \A i \in 1 .. Len(q) : i # h => n[i] = m[i]
      /\ n[h] = [name |-> m[h].name, del |-> FALSE]
  BY <1>0 DEF Cleared
<1>c. /\ Len(t) = Len(p) /\ \A i \in 1 .. Len(p) : i # h => t[i] = r[i]
      /\ h <= Len(p) => t[h] = [name |-> r[h].name, del |-> FALSE]
  BY <1>2 DEF Cleared
<1>3. s \in Paths /\ Len(s) = Len(p) /\ \A i \in 1 .. Len(p) : s[i] = IF same(i) THEN n[i] ELSE p[i]
  BY <1>b, MixedFacts
<1>5. \A i \in 1 .. Len(p) : i <= h => r[i] = p[i]
  <2> TAKE i \in 1 .. Len(p)
  <2> HAVE i <= h
  <2>1. i \in 1 .. i /\ i \in 1 .. h
    BY <1>0
  <2> QED BY <1>2, <1>a, <2>1
<1>6. Begins(r, a) <=> h <= Len(p) /\ \A i \in 1 .. h : p[i] = q[i]
  <2>1. h <= Len(p) => \A i \in 1 .. h : i \in 1 .. Len(p) /\ r[i] = p[i] /\ a[i] = q[i]
    BY <1>0, <1>5, <1>a
  <2> QED BY <1>2, <2>1 DEF Begins
<1>7. h <= Len(p) => (Begins(r, a) <=> same(h))
  BY <1>0, <1>6
<1> HIDE DEF s
<1>8. \A i \in 1 .. Len(p) : i # h => s[i] = r[i]
  <2> TAKE i \in 1 .. Len(p)
  <2> HAVE i # h
  <2>1. same(i) => n[i] = m[i]
    BY <1>0, <1>b
  <2> QED BY <1>2, <1>3, <2>1
<1>9. h <= Len(p) => s[h] = IF same(h) THEN [name |-> r[h].name, del |-> FALSE] ELSE r[h]
  <2> HAVE h <= Len(p)
  <2>1. h \in 1 .. Len(p) /\ n[h] = [name |-> m[h].name, del |-> FALSE]
    BY <1>0, <1>b
  <2>2. s[h] = (IF same(h) THEN n[h] ELSE p[h]) /\ r[h] = IF same(h) THEN m[h] ELSE p[h]
    BY <1>2, <1>3, <2>1
  <2> QED BY <2>1, <2>2
<1>10. CASE Begins(r, a)
  <2>1. h <= Len(p) /\ same(h)
    BY <1>6, <1>7, <1>10
  <2>2. \A i \in 1 .. Len(p) : s[i] = t[i]
    BY <1>8, <1>9, <1>c, <2>1
  <2>3. s = t
    BY <1>3, <1>c, <2>2, PathEqual
  <2> QED BY <1>10, <2>3 DEF s
<1>11. CASE ~Begins(r, a)
  <2>1. \A i \in 1 .. Len(p) : s[i] = r[i]
    <3> TAKE i \in 1 .. Len(p)
    <3>1. CASE i = h
      <4>1. h <= Len(p)
        BY <1>0, <3>1
      <4> QED BY <1>7, <1>9, <1>11, <3>1, <4>1
    <3>2. CASE i # h
      BY <1>8, <3>2
    <3> QED BY <3>1, <3>2
  <2>2. s = r
    BY <1>2, <1>3, <2>1, PathEqual
  <2> QED BY <1>11, <2>2 DEF s
<1> QED BY <1>10, <1>11

(* When the last mark is gone, the tree has the paths that are on disk.    *)
LEMMA MixedRenamed ==
  ASSUME NEW q \in Paths, NEW m \in Paths, Len(m) = Len(q), NEW p \in Paths,
         \A i \in 1 .. Len(m) : m[i] = [name |-> q[i].name, del |-> FALSE]
  PROVE  Renamed(q, p) = Mixed(q, m, p)
<1>1. /\ Len(p) \in Nat /\ DOMAIN p = 1 .. Len(p) /\ \A i \in 1 .. Len(p) : p[i] \in Parts
      /\ Len(q) \in Nat /\ \A i \in 1 .. Len(q) : q[i] \in Parts
  BY DEF Paths
<1>2. ASSUME NEW i \in 1 .. Len(p), i <= Len(q)
      PROVE  SubSeq(p, 1, i) = SubSeq(q, 1, i) <=> \A j \in 1 .. i : p[j] = q[j]
  <2> DEFINE a == SubSeq(p, 1, i)
             b == SubSeq(q, 1, i)
  <2>1. i \in Nat /\ 1 .. i \subseteq 1 .. Len(p) /\ 1 .. i \subseteq 1 .. Len(q)
    BY <1>1, <1>2
  <2>2. a \in Paths /\ Len(a) = i /\ \A j \in 1 .. i : a[j] = p[j]
    BY <1>1, <2>1 DEF Paths
  <2>3. b \in Paths /\ Len(b) = i /\ \A j \in 1 .. i : b[j] = q[j]
    BY <1>1, <2>1 DEF Paths
  <2> HIDE DEF a, b
  <2>4. (\A j \in 1 .. i : p[j] = q[j]) => a = b
    BY <2>2, <2>3, PathEqual
  <2> QED BY <2>2, <2>3, <2>4 DEF a, b
<1>3. ASSUME NEW i \in 1 .. Len(p), i <= Len(q), \A j \in 1 .. i : p[j] = q[j]
      PROVE  [p[i] EXCEPT !.del = FALSE] = m[i]
  <2>1. i \in 1 .. i /\ i \in 1 .. Len(q)
    BY <1>1, <1>3
  <2>2. p[i] = q[i] /\ p[i] \in Parts
    BY <1>1, <1>3, <2>1
  <2>3. \A e : [p[i] EXCEPT !.del = e] = [name |-> p[i].name, del |-> e]
    <3>1. \A d \in Parts : \A e : [d EXCEPT !.del = e] = [name |-> d.name, del |-> e]
      BY SMT DEF Parts
    <3> QED BY <2>2, <3>1
  <2>4. [p[i] EXCEPT !.del = FALSE] = [name |-> p[i].name, del |-> FALSE]
    BY <2>3, Zenon
  <2> QED BY <2>1, <2>2, <2>4
<1>4. Renamed(q, p) = [i \in 1 .. Len(p) |->
         IF i <= Len(q) /\ SubSeq(p, 1, i) = SubSeq(q, 1, i) THEN [p[i] EXCEPT !.del = FALSE] ELSE p[i]]
  BY <1>1 DEF Renamed
<1>5. Mixed(q, m, p) = [i \in 1 .. Len(p) |->
         IF i <= Len(q) /\ (\A j \in 1 .. i : p[j] = q[j]) THEN m[i] ELSE p[i]]
  BY <1>1 DEF Mixed
<1>6. \A i \in 1 .. Len(p) :
         (IF i <= Len(q) /\ SubSeq(p, 1, i) = SubSeq(q, 1, i) THEN [p[i] EXCEPT !.del = FALSE] ELSE p[i])
         = IF i <= Len(q) /\ (\A j \in 1 .. i : p[j] = q[j]) THEN m[i] ELSE p[i]
  <2> TAKE i \in 1 .. Len(p)
  <2>1. CASE i <= Len(q) /\ (\A j \in 1 .. i : p[j] = q[j])
    <3>1. SubSeq(p, 1, i) = SubSeq(q, 1, i) /\ [p[i] EXCEPT !.del = FALSE] = m[i]
      BY <1>2, <1>3, <2>1
    <3> QED BY <2>1, <3>1
  <2>2. CASE ~(i <= Len(q) /\ (\A j \in 1 .. i : p[j] = q[j]))
    <3>1. ~(i <= Len(q) /\ SubSeq(p, 1, i) = SubSeq(q, 1, i))
      BY <1>2, <2>2
    <3> QED BY <2>2, <3>1
  <2> QED BY <2>1, <2>2
<1> QED BY <1>4, <1>5, <1>6

LEMMA UnmarkedOne ==
  ASSUME NEW p \in Paths, NEW h
  PROVE  Unmarked(p, {h}) = MarkedAs(p, h, FALSE)
<1>1. \A i \in DOMAIN p : p[i] \in Parts
  BY DEF Paths
<1>2. \A d \in Parts : \A e : [d EXCEPT !.del = e] = [name |-> d.name, del |-> e]
  BY SMT DEF Parts
<1>3. \A d \in Parts : [d EXCEPT !.del = FALSE] = [name |-> d.name, del |-> FALSE]
  BY <1>2, Zenon
<1>4. \A i \in DOMAIN p : [p[i] EXCEPT !.del = FALSE] = [name |-> p[i].name, del |-> FALSE]
  BY <1>1, <1>3
<1>5. \A i \in DOMAIN p :
        (IF i \in {h} THEN [p[i] EXCEPT !.del = FALSE] ELSE p[i])
        = IF i = h THEN [name |-> p[i].name, del |-> FALSE] ELSE p[i]
  BY <1>4
<1> QED BY <1>5 DEF Unmarked, MarkedAs

(* A set of indices has a greatest.                                        *)
LEMMA Greatest ==
  ASSUME NEW N \in Nat, NEW T \in SUBSET (1 .. N), T # {}
  PROVE  \E i \in T : \A j \in T : j <= i
<1> DEFINE R == {N - i : i \in T}
<1>1. R \in SUBSET Nat /\ R # {}
  <2>1. \A i \in T : N - i \in Nat
    OBVIOUS
  <2> QED BY <2>1
<1>2. PICK r \in R : \A m \in R : r <= m
  <2> HIDE DEF R
  <2> QED BY <1>1, Least
<1>3. PICK i \in T : r = N - i
  OBVIOUS
<1>4. ASSUME NEW j \in T
      PROVE  j <= i
  <2>1. N - j \in R /\ j \in Nat /\ i \in Nat
    OBVIOUS
  <2>2. N - i <= N - j
    BY <1>2, <1>3, <2>1
  <2> HIDE DEF R
  <2> QED BY <2>1, <2>2
<1> QED BY <1>4


(* What has another node under it is a directory.                          *)
LEMMA UnderDir ==
  ASSUME NEW w, Tree(w), NEW m \in Nodes, NEW n \in Nodes, w[m] # Nowhere, w[n] # Nowhere,
         UnderIn(w, m, n), m # n
  PROVE  n \in Dirs
<1> DEFINE S == {j \in Nodes : UnderIn(w, j, n) /\ j # n => n \in Dirs}
<1>1. ASSUME NEW j \in Nodes, w[j] # Nowhere, w[j].dir = Root \/ w[j].dir \in S,
             UnderIn(w, j, n), j # n
      PROVE  n \in Dirs
  <2>1. w[j].dir # Root /\ UnderIn(w, w[j].dir, n)
    BY <1>1, UnderStep
  <2>2. w[j].dir \in Dirs
    BY <1>1, <2>1, PlaceFacts
  <2> QED BY <1>1, <2>1, <2>2
<1>2. \A j \in Nodes : w[j] # Nowhere => j \in S
  <2>1. ASSUME NEW j \in Nodes, w[j] # Nowhere, w[j].dir = Root \/ w[j].dir \in S
        PROVE  j \in S
    BY <1>1, <2>1
  <2> HIDE DEF S
  <2> QED BY <2>1, TreeInduction
<1> QED BY <1>2

(* Namesakes in one directory have the same path but for their own marks.  *)
LEMMA Sibling ==
  ASSUME NEW w, Tree(w), NEW m \in Nodes, NEW n \in Nodes, w[m] # Nowhere, w[n] # Nowhere,
         w[m].dir = w[n].dir, w[m].name = w[n].name
  PROVE  /\ Len(PathIn(w)[m]) = Len(PathIn(w)[n])
         /\ \A i \in 1 .. Len(PathIn(w)[n]) : PathIn(w)[m][i].name = PathIn(w)[n][i].name
<1> DEFINE p == PathIn(w)[m]
           q == PathIn(w)[n]
           r == PathIn(w)[w[n].dir]
<1>1. /\ Len(p) \in Nat /\ Len(p) >= 1 /\ p[Len(p)] = Part(w, m)
      /\ w[n].dir = Root => Len(p) = 1
      /\ w[n].dir # Root =>
           Len(r) \in Nat /\ Len(p) = Len(r) + 1 /\ \A i \in 1 .. Len(r) : p[i] = r[i]
  BY PathStep
<1>2. /\ Len(q) \in Nat /\ Len(q) >= 1 /\ q[Len(q)] = Part(w, n)
      /\ w[n].dir = Root => Len(q) = 1
      /\ w[n].dir # Root =>
           Len(r) \in Nat /\ Len(q) = Len(r) + 1 /\ \A i \in 1 .. Len(r) : q[i] = r[i]
  BY PathStep
<1> HIDE DEF p, q, r
<1>3. Len(p) = Len(q)
  BY <1>1, <1>2
<1>4. p[Len(p)].name = q[Len(q)].name
  BY <1>1, <1>2 DEF Part
<1>5. ASSUME NEW i \in 1 .. Len(q), i # Len(q)
      PROVE  p[i] = q[i]
  <2>1. w[n].dir # Root
    BY <1>2, <1>5
  <2>2. i \in 1 .. Len(r)
    BY <1>2, <1>5, <2>1
  <2> QED BY <1>1, <1>2, <2>1, <2>2
<1> QED BY <1>3, <1>4, <1>5 DEF p, q

(* The directory or file that is renamed next, at h parts from the root.   *)
NextIs(h, t) ==
  /\ h \in 1 .. Len(name) /\ t \in Nodes
  /\ Len(ToRename) = h /\ Lookup(ToRename) = t
  /\ name[h].del /\ \A j \in 1 .. Len(name) : j > h => ~name[j].del
  /\ where[t] # Nowhere /\ where[t].del
  /\ Len(PathIn(where)[t]) = h /\ \A i \in 1 .. h : PathIn(where)[t][i] = name[i]
  /\ UnderIn(where, at.node, t)
  /\ \A l \in todo : l.node # t
  /\ name = at.path => h = Len(name) /\ t = at.node
  /\ name # at.path => h # Len(name) /\ t # at.node /\ Replaced(where, t, FALSE) = {}

LEMMA NextMark ==
  ASSUME Inv, tool = "undelete", pc = "rename", Marks(name) # {}
  PROVE  \E h, t : NextIs(h, t)
<1>1. UndeleteInv /\ Tree(where)
  BY DEF Inv, FsInv
<1>2. AtInv /\ Clear /\ (\A l \in Work : UndeleteLeaf(l))
  BY <1>1 DEF UndeleteInv, InHand
<1>3. Work = todo \cup {at} /\ \A l \in Work : OnDisk(l) = Mixed(at.path, name, l.path)
  BY DEF Work, InHand, OnDisk
<1> DEFINE n == at.node
           P == PathIn(where)
<1>4. /\ n \in Nodes /\ where[n] # Nowhere /\ P[n] = name /\ at.path \in Paths
      /\ Len(at.path) = Len(name) /\ Len(name) >= 1
      /\ \A i \in 1 .. Len(name) : name[i].name = at.path[i].name
      /\ \A h \in 1 .. Len(name) : name[h].del => \A i \in 1 .. h : name[i] = at.path[i]
      /\ at.path[Len(name)].del
      /\ \A l \in todo : ~NameBegins(at.path, l.path)
  BY <1>2 DEF AtInv, LeafSet
<1>4a. \A l \in todo : ~NameBegins(at.path, l.path)
  BY <1>4
<1>4b. at.path[Len(name)].del /\ Len(name) >= 1
  BY <1>4
<1>5. name \in Paths /\ Len(name) \in Nat /\ DOMAIN name = 1 .. Len(name)
  <2>1. name \in Paths
    BY <1>1, <1>4, PathStep
  <2> QED BY <2>1 DEF Paths
<1>6. Marks(name) = {i \in 1 .. Len(name) : name[i].del}
  BY <1>5 DEF Marks
<1>7. PICK h \in Marks(name) : \A j \in Marks(name) : j <= h
  BY <1>5, <1>6, Greatest
<1>8. h \in 1 .. Len(name) /\ h \in Nat /\ name[h].del /\ \A j \in 1 .. Len(name) : j > h => ~name[j].del
  BY <1>5, <1>6, <1>7
<1>9. (CHOOSE i \in Marks(name) : \A j \in Marks(name) : j <= i) = h
  <2> DEFINE c == CHOOSE i \in Marks(name) : \A j \in Marks(name) : j <= i
  <2>1. c \in Marks(name) /\ \A j \in Marks(name) : j <= c
    BY <1>7
  <2> HIDE DEF c
  <2>2. c \in Nat /\ c <= h /\ h <= c
    BY <1>6, <1>7, <2>1
  <2>3. c = h
    BY <1>8, <2>2
  <2> QED BY <2>3 DEF c
<1> DEFINE a == SubSeq(name, 1, h)
<1>10. ToRename = a
  BY <1>9 DEF ToRename
<1>11. a \in Paths /\ Len(a) = h /\ \A i \in 1 .. h : a[i] = name[i]
  BY <1>5, <1>8 DEF Paths
<1> HIDE DEF a
<1> HIDE DEF P
<1>12. PICK t \in Nodes : where[t] # Nowhere /\ Len(P[t]) = h /\ Begins(P[n], P[t])
  BY <1>1, <1>4, <1>8, Ancestor DEF P
<1>13. \A i \in 1 .. h : P[t][i] = name[i]
  BY <1>4, <1>12 DEF Begins
<1>14. P[t] \in Paths /\ P[t][Len(P[t])] = Part(where, t)
  BY <1>1, <1>12, PathStep DEF P
<1>15. P[t] = a
  BY <1>11, <1>12, <1>13, <1>14, PathEqual
<1>16. Lookup(ToRename) = t
  BY <1>1, <1>10, <1>12, <1>15, LookupFinds DEF P
<1>17. where[t].del
  <2>1. P[t][h] = name[h] /\ P[t][h] = Part(where, t)
    BY <1>8, <1>12, <1>13, <1>14
  <2> QED BY <1>8, <2>1 DEF Part
<1>18. UnderIn(where, n, t)
  BY <1>12 DEF UnderIn, P
<1>19. ASSUME NEW l \in todo
       PROVE  l.node # t
  <2> SUFFICES ASSUME l.node = t
               PROVE  FALSE
    OBVIOUS
  <2>0. ~NameBegins(at.path, l.path)
    BY <1>4a, <1>19
  <2>1. l \in LeafSet /\ P[l.node] = Mixed(at.path, name, l.path)
    BY <1>2, <1>3 DEF UndeleteLeaf, P
  <2>2. l.path \in Paths
    BY <2>1 DEF LeafSet
  <2>3. Len(l.path) = h /\ Len(l.path) \in Nat
    BY <1>4, <1>5, <1>12, <2>1, <2>2, MixedFacts
  <2>4. ASSUME NEW i \in 1 .. h
        PROVE  at.path[i] = l.path[i]
    <3>0. at.path \in Paths /\ name \in Paths /\ Len(name) = Len(at.path) /\ i \in 1 .. Len(l.path)
      BY <1>4, <1>5, <2>3
    <3>1. Mixed(at.path, name, l.path)[i]
            = IF i <= Len(at.path) /\ (\A j \in 1 .. i : l.path[j] = at.path[j]) THEN name[i] ELSE l.path[i]
      BY <3>0, <2>2, MixedFacts
    <3>11. P[t] = Mixed(at.path, name, l.path)
      BY <2>1
    <3>2. P[t][i] = name[i] /\ name[i] = at.path[i]
      BY <1>4, <1>8, <1>13
    <3>3. i \in 1 .. i
      BY <1>8
    <3>4. i <= Len(at.path) /\ i \in Nat
      BY <1>8, <3>0, <2>3, <1>4
    <3> QED BY <3>1, <3>11, <3>2, <3>3, <3>4
  <2>5. h <= Len(at.path)
    BY <1>4, <1>8
  <2> QED BY <2>0, <2>3, <2>4, <2>5 DEF NameBegins
<1>20. ASSUME name = at.path
       PROVE  h = Len(name) /\ t = n
  <2>00. name[Len(name)].del
    BY <1>4b, <1>20
  <2>01. Len(name) \in 1 .. Len(name)
    BY <1>4b, <1>5
  <2>0. Len(name) \in 1 .. Len(name) /\ name[Len(name)].del
    BY <2>00, <2>01
  <2>1. Len(name) \in Marks(name)
    BY <1>6, <2>0
  <2>2. h = Len(name)
    <3>1. Len(name) <= h
      BY <1>7, <2>1
    <3>2. h <= Len(name) /\ h \in Nat /\ Len(name) \in Nat
      BY <1>5, <1>8
    <3> HIDE <1>7, <1>8
    <3> QED BY <3>1, <3>2
  <2>3. P[t] = name
    BY <1>5, <1>11, <1>15, <2>2, PathEqual
  <2>4. t = n
    BY <1>1, <1>4, <1>12, <2>3, SamePath DEF P
  <2> QED BY <2>2, <2>4
<1>21. ASSUME name # at.path
       PROVE  h # Len(name) /\ t # n /\ Replaced(where, t, FALSE) = {}
  <2>1. h # Len(name)
    <3> SUFFICES ASSUME h = Len(name)
                 PROVE  name = at.path
      BY <1>21
    <3>1. \A i \in 1 .. Len(name) : name[i] = at.path[i]
      BY <1>4, <1>8
    <3> QED BY <1>4, <1>5, <3>1, PathEqual
  <2>2. t # n
    BY <1>4, <1>12, <2>1 DEF P
  <2>3. \A m \in Work : m.node # t
    BY <1>3, <1>19, <2>2
  <2>4. at \in Work
    BY <1>3
  <2>5. Alone(where, t)
    BY <1>2, <1>12, <1>17, <1>18, <2>2, <2>3, <2>4 DEF Clear
  <2>6. Replaced(where, t, FALSE) = {}
    <3> SUFFICES ASSUME NEW s \in Replaced(where, t, FALSE)
                 PROVE  FALSE
      OBVIOUS
    <3>1. s \in Nodes /\ where[s] # Nowhere /\ where[s].dir = where[t].dir /\ where[s].name = where[t].name
          /\ where[s].del = FALSE
      BY DEF Replaced
    <3> QED BY <2>5, <3>1 DEF Alone
  <2> QED BY <2>1, <2>2, <2>6
<1>22. Len(ToRename) = h
  BY <1>10, <1>11
<1>23. NextIs(h, t)
  BY <1>8, <1>12, <1>13, <1>16, <1>17, <1>18, <1>19, <1>20, <1>21, <1>22 DEF NextIs, P
<1> QED BY <1>23



----------------------------------------------------------------------------
(* undelete                                                                *)

LEMMA UndeleteMainInv ==
  ASSUME Inv, Allowed = {}, undelete_main
  PROVE  Inv'
<1>1. PICK pattern \in Patterns, o \in {{}, {"r"}, {"R"}, {"f"}, {"r", "f"}} :
         LET found == find_matches(pattern, "R" \notin o, "r" \in o, FALSE)
         IN  /\ Sound(pattern)
             /\ found # {}
             /\ Cardinality(found \ unique(found)) < 2
             /\ \/ "clash" \in Allowed
                \/ \A n \in unique(found) : \A k \in Through(n, unique(found)) : Namesakes(k) = {}
             /\ todo' = Leaves(unique(found)) /\ chosen' = unique(found) /\ opts' = o
  BY DEF undelete_main
<1>2. /\ tool = "none" /\ tool' = "undelete" /\ pc' = "leaf"
      /\ UNCHANGED <<fs, stack, hand, outcome>>
  BY DEF undelete_main
<1> DEFINE found == find_matches(pattern, "R" \notin o, "r" \in o, FALSE)
           U == unique(found)
<1>3. found \subseteq Nodes /\ \A n \in found : where[n] # Nowhere /\ where[n].del
  BY FoundFacts
<1>4. /\ todo' = Leaves(U) /\ chosen' = U
      /\ \A n \in U : \A k \in Through(n, U) : Namesakes(k) = {}
  BY <1>1
<1> HIDE DEF found
<1>5. U \subseteq found
  BY DEF unique
<1> HIDE DEF U
<1>6. FsInv' /\ OddInv' /\ where' = where
  BY <1>2, QuietFs DEF fs
<1>7. Tree(where)
  BY DEF Inv, FsInv
<1>8. /\ \A l \in todo' : l \in LeafSet /\ l.node \in U /\ PathIn(where)[l.node] = l.path
      /\ \A n \in U : \E l \in todo' : l.node = n
  BY <1>3, <1>4, <1>5, <1>7, LeavesFacts
<1>9. Work' = todo'
  BY <1>2 DEF Work, InHand
<1>10. \A l \in Work' : UndeleteLeaf(l)'
  BY <1>2, <1>3, <1>5, <1>6, <1>8, <1>9 DEF UndeleteLeaf, OnDisk
<1>11. \A l \in todo' : where'[l.node].del
  BY <1>3, <1>5, <1>6, <1>8
<1>12. Clear'
  <2>1. ASSUME NEW l \in todo', NEW k \in Nodes, where[k] # Nowhere, where[k].del, k # l.node,
               UnderIn(where, l.node, k), \A m \in todo' : m.node # k
        PROVE  Alone(where, k)
    <3>1. l.node \in U /\ l.node \in Nodes /\ where[l.node] # Nowhere
      BY <1>3, <1>5, <1>8
    <3>2. k \notin U
      BY <1>8, <2>1
    <3>3. k \in Dirs
      BY <1>7, <2>1, <3>1, UnderDir
    <3>4. l.node \in Below(k)
      BY <1>7, <2>1, <3>1, BelowBridge
    <3>5. k \in Through(l.node, U)
      BY <2>1, <3>2, <3>3, <3>4 DEF Through, Exists
    <3>6. Namesakes(k) = {}
      BY <1>4, <3>1, <3>5
    <3> QED BY <3>6 DEF Namesakes, Members, Exists, Alone
  <2> QED BY <1>6, <1>9, <2>1 DEF Clear
<1>13. Recovered'
  BY <1>4, <1>8, <1>9 DEF Recovered
<1>14. UndeleteInv'
  BY <1>2, <1>10, <1>11, <1>12, <1>13 DEF UndeleteInv, InHand
<1>15. Control'
  BY <1>2, <1>3, <1>4, <1>5 DEF Inv, Control
<1> QED BY <1>2, <1>6, <1>14, <1>15 DEF Inv

LEMMA RecursAndUndeleteInv ==
  ASSUME Inv, recurs_and_undelete
  PROVE  Inv'
<1>1. PICK l \in todo :
        /\ \A m \in todo \ {l} : ~Extends(convert_to_user_name(l.path), convert_to_user_name(m.path))
        /\ at' = l /\ name' = l.path /\ todo' = todo \ {l}
  BY DEF recurs_and_undelete
<1>2. /\ tool = "undelete" /\ pc = "leaf" /\ pc' = "ask"
      /\ UNCHANGED <<fs, tool, opts, stack, chosen, victim, agreed, outcome>>
  BY DEF recurs_and_undelete
<1>3. FsInv' /\ OddInv' /\ where' = where
  BY <1>2, QuietFs DEF fs
<1>4. UndeleteInv /\ Control /\ Tree(where)
  BY <1>2 DEF Inv, FsInv
<1>5. Work = todo /\ Work' = todo
  BY <1>1, <1>2 DEF Work, InHand
<1>6. \A m \in todo : UndeleteLeaf(m)' /\ UndeleteLeaf(m)
  BY <1>2, <1>3, <1>4, <1>5 DEF UndeleteInv, UndeleteLeaf, OnDisk
<1>7. \A m \in todo : m \in LeafSet /\ m.path \in Paths /\ m.node \in Nodes
  BY <1>6 DEF UndeleteLeaf, LeafSet
<1>8. /\ l \in LeafSet /\ l.path \in Paths /\ l.node \in Nodes /\ where[l.node] # Nowhere
      /\ PathIn(where)[l.node] = l.path /\ where[l.node].del
  BY <1>2, <1>4, <1>6, <1>7 DEF UndeleteLeaf, OnDisk, UndeleteInv
<1>9. Len(l.path) \in Nat /\ Len(l.path) >= 1 /\ l.path[Len(l.path)] = Part(where, l.node)
  BY <1>4, <1>8, PathStep
<1>10. l.path[Len(l.path)].del
  BY <1>8, <1>9 DEF Part
<1>11. \A m \in todo' : ~NameBegins(l.path, m.path)
  BY <1>1, <1>7, ConvExtends
<1>12. AtInv'
  <2>1. at' = l /\ name' = l.path
    BY <1>1
  <2>2. \A h \in 1 .. Len(l.path) : l.path[h].del => \A i \in 1 .. h : l.path[i] = l.path[i]
    OBVIOUS
  <2> QED BY <1>2, <1>3, <1>8, <1>9, <1>10, <1>11, <2>1, <2>2 DEF AtInv
<1>13. Clear'
  BY <1>3, <1>4, <1>5 DEF UndeleteInv, Clear
<1>14. Recovered'
  BY <1>2, <1>3, <1>4, <1>5 DEF UndeleteInv, Recovered
<1>15. \A m \in todo' : where'[m.node].del
  BY <1>1, <1>3, <1>4 DEF UndeleteInv
<1>16. UndeleteInv'
  BY <1>2, <1>5, <1>6, <1>12, <1>13, <1>14, <1>15 DEF UndeleteInv
<1>17. Control'
  BY <1>2, <1>4 DEF Control
<1> QED BY <1>2, <1>3, <1>16, <1>17 DEF Inv

LEMMA TreeDoneInv ==
  ASSUME Inv, TreeDone
  PROVE  Inv'
<1>1. /\ pc = "leaf" /\ todo = {} /\ pc' = "end"
      /\ UNCHANGED <<fs, tool, opts, list, hand, outcome>>
  BY DEF TreeDone
<1>2. UNCHANGED <<tool, opts, stack, todo, chosen, at, name, victim, agreed, outcome>>
  BY <1>1 DEF list, hand
<1>3. FsInv' /\ OddInv' /\ where' = where /\ aged' = aged
  BY <1>1, QuietFs DEF fs
<1>4. Control /\ Control'
  BY <1>1, <1>2 DEF Inv, Control
<1>5. CASE tool = "undelete"
  <2>1. UndeleteInv
    BY <1>5 DEF Inv
  <2>2. Work = {} /\ Work' = {}
    BY <1>1, <1>2 DEF Work, InHand
  <2>3. Recovered'
    BY <1>2, <1>3, <2>1, <2>2 DEF UndeleteInv, Recovered
  <2>4. UndeleteInv'
    BY <1>1, <1>2, <2>2, <2>3 DEF UndeleteInv, Clear, InHand
  <2> QED BY <1>2, <1>3, <1>4, <1>5, <2>4 DEF Inv
<1>6. CASE tool = "expunge"
  <2>1. ExpungeInv
    BY <1>6 DEF Inv
  <2>2. ExpungeInv'
    BY <1>1, <1>2, <1>3, <2>1 DEF ExpungeInv
  <2> QED BY <1>2, <1>3, <1>4, <1>6, <2>2 DEF Inv
<1> QED BY <1>1, <1>4, <1>5, <1>6 DEF Control


LEMMA DoUndeleteInv ==
  ASSUME Inv, Allowed = {}, do_undelete
  PROVE  Inv'
<1>1. /\ tool = "undelete" /\ pc = "ask" /\ pc' \in {"rename", "unlink"}
      /\ UNCHANGED <<fs, tool, opts, list, at, name, outcome>>
  BY DEF do_undelete
<1>2. UNCHANGED <<tool, stack, todo, chosen, at, name, outcome>>
  BY <1>1 DEF list
<1>3. FsInv' /\ OddInv' /\ where' = where
  BY <1>1, QuietFs DEF fs
<1>4. UndeleteInv /\ Control /\ Control' /\ Tree(where)
  BY <1>1, <1>2 DEF Inv, FsInv, Control
<1>5. AtInv /\ name = at.path
  BY <1>1, <1>4 DEF UndeleteInv, InHand, AtInv
<1>6. AtInv'
  BY <1>1, <1>2, <1>3, <1>5 DEF AtInv
<1>7. /\ at \in LeafSet /\ at.path \in Paths /\ at.node \in Nodes /\ where[at.node] # Nowhere
      /\ PathIn(where)[at.node] = at.path /\ at.path[Len(at.path)].del /\ Len(at.path) >= 1
  BY <1>5 DEF AtInv, LeafSet
<1>8. Work' = Work /\ Work = todo \cup {at}
  BY <1>1, <1>2 DEF Work, InHand
<1>9. ASSUME NEW l \in Work
      PROVE  UndeleteLeaf(l)' /\ PathIn(where)[l.node] = l.path /\ l.path \in Paths /\ l.node \in Nodes
  <2>1. l \in LeafSet /\ where[l.node] # Nowhere /\ PathIn(where)[l.node] = l.path
    BY <1>1, <1>4, <1>9 DEF UndeleteInv, UndeleteLeaf, OnDisk
  <2>2. l.path \in Paths /\ l.node \in Nodes
    BY <2>1 DEF LeafSet
  <2>3. Mixed(at.path, at.path, l.path) = l.path
    BY <1>7, <2>2, MixedSame
  <2>4. OnDisk(l)' = l.path
    BY <1>2, <1>5, <2>3 DEF OnDisk
  <2> QED BY <1>3, <2>1, <2>2, <2>4 DEF UndeleteLeaf
<1>10. Clear' /\ Recovered' /\ \A l \in todo' : where'[l.node].del
  BY <1>2, <1>3, <1>4, <1>8 DEF UndeleteInv, Clear, Recovered
<1>11. CASE pc' = "rename"
  <2>1. agreed' = IF Intact = None THEN {} ELSE {Intact}
    BY <1>11 DEF do_undelete
  <2>2. ASSUME NEW n \in Nodes, where[n] # Nowhere, PathIn(where)[n] = convert_to_user_name(at.path)
        PROVE  n \in agreed'
    <3>1. Intact = n
      BY <1>4, <2>2, LookupFinds DEF Intact
    <3>2. n # None
      BY DeletionAssumption DEF Nodes
    <3> QED BY <2>1, <3>1, <3>2
  <2>3. UndeleteInv'
    BY <1>2, <1>3, <1>5, <1>6, <1>8, <1>9, <1>10, <1>11, <2>2 DEF UndeleteInv
  <2> QED BY <1>1, <1>3, <1>4, <2>3 DEF Inv
<1>12. CASE pc' = "unlink"
  <2>1. /\ Intact # None /\ \A l \in todo : l.node \notin Below(Intact)
        /\ victim' = Intact /\ agreed' = Below(Intact)
    BY <1>12 DEF do_undelete
  <2> DEFINE v == Intact
  <2>2. v \in Nodes /\ where[v] # Nowhere /\ PathIn(where)[v] = convert_to_user_name(at.path)
    BY <2>1, LookupBridge DEF Intact
  <2>3. victim' = v /\ agreed' = Below(v) /\ \A l \in todo : l.node \notin Below(v)
    BY <2>1
  <2> HIDE DEF v
  <2>4. \A n \in Nodes : where[n] # Nowhere /\ UnderIn(where, n, v) => n \in agreed'
    BY <1>4, <2>2, <2>3, BelowBridge
  <2>5. ~UnderIn(where, at.node, v)
    <3> DEFINE c == convert_to_user_name(at.path)
    <3>1. Len(c) = Len(at.path) /\ \A i \in 1 .. Len(at.path) : c[i] = [name |-> at.path[i].name, del |-> FALSE]
      BY <1>7, ConvFacts
    <3>2. Len(at.path) \in 1 .. Len(at.path)
      BY <1>7 DEF Paths
    <3> HIDE DEF c
    <3>3. c[Len(at.path)] = [name |-> at.path[Len(at.path)].name, del |-> FALSE]
      BY <3>1, <3>2
    <3>4. ~c[Len(at.path)].del
      BY <3>3
    <3> QED BY <1>7, <2>2, <3>1, <3>2, <3>4 DEF UnderIn, Begins, c
  <2>6. \A l \in Work : ~UnderIn(where, l.node, v)
    <3> SUFFICES ASSUME NEW l \in Work, UnderIn(where, l.node, v)
                 PROVE  FALSE
      OBVIOUS
    <3>1. l \in todo
      BY <1>8, <2>5
    <3>2. l.node \in Nodes /\ where[l.node] # Nowhere
      BY <1>4, <1>9 DEF UndeleteInv, UndeleteLeaf
    <3>3. l.node \in Below(v)
      BY <1>4, <2>2, <3>2, BelowBridge
    <3> QED BY <2>3, <3>1, <3>3
  <2>7. VictimInv'
    BY <1>2, <1>3, <1>5, <1>8, <2>2, <2>3, <2>4, <2>6 DEF VictimInv
  <2>8. UndeleteInv'
    BY <1>2, <1>3, <1>6, <1>8, <1>9, <1>10, <1>12, <2>7 DEF UndeleteInv
  <2> QED BY <1>1, <1>3, <1>4, <2>8 DEF Inv
<1> QED BY <1>1, <1>11, <1>12


(* When the path is half renamed, the next name is free: nothing is stuck. *)
LEMMA NeverStuckHalf ==
  ASSUME Inv, tool = "undelete", Half
  PROVE  ~Stuck
<1>1. pc = "rename" /\ name # at.path /\ Marks(name) # {}
  BY DEF Half
<1>2. PICK h, t : NextIs(h, t)
  BY <1>1, NextMark
<1>3. t \in Nodes /\ Lookup(ToRename) = t /\ Replaced(where, t, FALSE) = {}
  BY <1>1, <1>2 DEF NextIs
<1>4. CanRename(t, FALSE)
  BY <1>3 DEF CanRename, Members, Exists, Replaced
<1>5. t # None
  BY <1>3, DeletionAssumption DEF Nodes
<1> QED BY <1>3, <1>4, <1>5 DEF Stuck

(* What is not recovered is spared with the leaves under it, or there is   *)
(* an error.                                                               *)
LEMMA LeafStaysInv ==
  ASSUME Inv, Allowed = {}, do_undelete_error \/ do_undelete_refused
  PROVE  Inv'
<1> DEFINE stay == {m \in todo : Extends(m.path, at.path)} \cup {at}
           N == {l.node : l \in stay}
<1>1. /\ tool = "undelete" /\ pc \in {"ask", "unlink", "rename"}
      /\ pc = "rename" => Marks(name) # {}
      /\ ~Half \/ Stuck
      /\ LeafStays
      /\ outcome' = set_error \/ outcome' = set_status(N)
  BY DEF do_undelete_error, do_undelete_refused, Half
<1>2. /\ todo' = {l \in todo : ~Extends(l.path, at.path)} /\ pc' = "leaf"
      /\ UNCHANGED <<fs, tool, opts, stack, chosen>>
  BY <1>1 DEF LeafStays
<1>3. UndeleteInv /\ Control /\ Tree(where) /\ where' = where /\ outcome \in Outcomes
  BY <1>1, <1>2 DEF Inv, FsInv, Control, fs
<1>4. ~Half
  BY <1>1, NeverStuckHalf
<1>5. FsInv' /\ OddInv'
  <2>1. FsInv' /\ \A n \in Nodes : ~Odd(where, n)
    BY <1>2, <1>4 DEF Inv, FsInv, OddInv, fs
  <2> QED BY <1>3, <2>1 DEF OddInv
<1>6. AtInv
  BY <1>1, <1>3 DEF UndeleteInv, InHand
<1>7. name = at.path
  BY <1>1, <1>4, <1>6 DEF AtInv, Half
<1>8. /\ at.path \in Paths /\ at.node \in Nodes /\ where[at.node] # Nowhere
      /\ PathIn(where)[at.node] = at.path
  BY <1>6, <1>7 DEF AtInv, LeafSet
<1>9. Work = todo \cup {at} /\ Work' = todo' /\ todo' \subseteq todo
  BY <1>1, <1>2 DEF Work, InHand
<1>10. ASSUME NEW l \in Work
       PROVE  /\ l \in LeafSet /\ l.path \in Paths /\ l.node \in Nodes /\ where[l.node] # Nowhere
              /\ PathIn(where)[l.node] = l.path
  <2>1. l \in LeafSet /\ where[l.node] # Nowhere /\ PathIn(where)[l.node] = OnDisk(l)
    BY <1>3, <1>10 DEF UndeleteInv, UndeleteLeaf
  <2>2. l.path \in Paths /\ l.node \in Nodes
    BY <2>1 DEF LeafSet
  <2>3. Mixed(at.path, at.path, l.path) = l.path
    BY <1>8, <2>2, MixedSame
  <2>4. OnDisk(l) = l.path
    BY <1>7, <2>3 DEF OnDisk
  <2> QED BY <2>1, <2>2, <2>4
<1>11. \A l \in Work' : UndeleteLeaf(l)'
  BY <1>2, <1>3, <1>9, <1>10 DEF UndeleteLeaf, OnDisk
<1>12. Clear'
  <2>1. ASSUME NEW l \in todo', NEW k \in Nodes, where[k] # Nowhere, where[k].del, k # l.node,
               UnderIn(where, l.node, k), \A m \in todo' : m.node # k
        PROVE  Alone(where, k)
    <3>1. l \in Work /\ l.path \in Paths /\ l.node \in Nodes /\ ~Extends(l.path, at.path)
      BY <1>2, <1>9, <1>10, <2>1
    <3>2. ~UnderIn(where, l.node, at.node)
      BY <1>8, <1>10, <3>1, ExtendsBegins DEF UnderIn
    <3>3. ~UnderIn(where, k, at.node)
      BY <1>3, <1>8, <2>1, <3>1, <3>2, UnderTransitive
    <3>4. ASSUME NEW m \in Work, m.node = k
          PROVE  FALSE
      <4>1. /\ m \in LeafSet /\ m.path \in Paths /\ m.node \in Nodes /\ where[m.node] # Nowhere
            /\ PathIn(where)[m.node] = m.path
        BY <1>10, <3>4
      <4>2. ~Begins(m.path, at.path)
        BY <1>8, <3>3, <3>4, <4>1 DEF UnderIn
      <4>3. ~Extends(m.path, at.path)
        BY <1>8, <4>1, <4>2, ExtendsBegins
      <4>4. Begins(at.path, at.path)
        BY <1>8 DEF Begins, Paths
      <4>5. m \in todo'
        BY <1>2, <1>9, <3>4, <4>2, <4>3, <4>4
      <4> QED BY <2>1, <3>4, <4>5
    <3> QED BY <1>3, <2>1, <3>1, <3>4 DEF UndeleteInv, Clear
  <2> QED BY <1>3, <1>9, <2>1 DEF Clear
<1>13. N \in SUBSET Nodes
  <2>1. \A l \in stay : l.node \in Nodes
    BY <1>9, <1>10
  <2> QED BY <2>1
<1>14. Recovered'
  <2>1. ASSUME ~outcome'.error, NEW n \in chosen \ outcome'.spared
        PROVE  \/ \E l \in todo' : l.node = n
               \/ LiveIn(where, n) /\ \A l \in todo' : ~NameBegins(PathIn(where)[n], l.path)
    <3>1. outcome' = set_status(N)
      BY <1>1, <1>3, <1>13, <2>1, OutcomeFacts
    <3>2. ~outcome.error /\ n \notin outcome.spared /\ n \notin N
      BY <1>3, <1>13, <2>1, <3>1, OutcomeFacts
    <3>3. \A l \in stay : l.node # n
      BY <3>2
    <3>4. \/ \E l \in Work : l.node = n
          \/ LiveIn(where, n) /\ \A l \in Work : ~NameBegins(PathIn(where)[n], l.path)
      BY <1>3, <2>1, <3>2 DEF UndeleteInv, Recovered
    <3> QED BY <1>2, <1>9, <3>3, <3>4
  <2> QED BY <1>2, <1>3, <1>9, <2>1 DEF Recovered
<1>15. \A l \in todo' : where'[l.node].del
  BY <1>3, <1>9 DEF UndeleteInv
<1>16. UndeleteInv'
  BY <1>2, <1>11, <1>12, <1>14, <1>15 DEF UndeleteInv, InHand
<1>17. Control'
  <2>1. outcome' \in Outcomes
    BY <1>1, <1>3, <1>13, OutcomeFacts
  <2> QED BY <1>1, <1>2, <1>3, <2>1 DEF Control
<1> QED BY <1>1, <1>2, <1>5, <1>16, <1>17 DEF Inv


(* What makes room is what the user has agreed to lose, with nothing in it *)
(* that is to be recovered or has been.                                    *)
LEMMA UndeleteUnlinkInv ==
  ASSUME Inv, tool = "undelete", unlink_completely
  PROVE  Inv' /\ \A m \in Nodes : where[m] # Nowhere /\ where'[m] = Nowhere => m \in agreed
<1>1. PICK n \in Below(victim) :
        /\ Unlink(n)
        /\ IF n = victim THEN pc' = "rename" /\ victim' = None ELSE UNCHANGED <<pc, victim>>
  BY DEF unlink_completely
<1>2. pc = "unlink" /\ UNCHANGED <<tool, opts, list, at, name, agreed, outcome>>
  BY DEF unlink_completely
<1>3. UndeleteInv /\ Control /\ FsInv /\ Tree(where)
  BY DEF Inv, FsInv
<1>4. AtInv /\ VictimInv /\ name = at.path
  BY <1>2, <1>3 DEF UndeleteInv, InHand, AtInv
<1>5. /\ at \in LeafSet /\ at.path \in Paths /\ at.node \in Nodes /\ where[at.node] # Nowhere
      /\ PathIn(where)[at.node] = at.path
  BY <1>4 DEF AtInv, LeafSet
<1>6. /\ victim \in Nodes /\ where[victim] # Nowhere
      /\ PathIn(where)[victim] = convert_to_user_name(at.path)
      /\ \A m \in Nodes : where[m] # Nowhere /\ UnderIn(where, m, victim) => m \in agreed
      /\ \A l \in Work : ~UnderIn(where, l.node, victim)
  BY <1>4 DEF VictimInv
<1>7. n \in Nodes /\ where[n] # Nowhere /\ UnderIn(where, n, victim)
  BY <1>1, <1>3, <1>6, BelowBridge
<1>8. Unlinking(where, n, where') /\ FsInv'
  BY <1>1, <1>3, <1>7, FsUnlink
<1>9. /\ Tree(where') /\ where'[n] = Nowhere
      /\ \A m \in Nodes : m # n => where'[m] = where[m]
      /\ \A m \in Nodes : where'[m] # Nowhere => m # n /\ where'[m] = where[m] /\ where[m] # Nowhere
      /\ \A m \in Nodes : where'[m] # Nowhere => PathIn(where')[m] = PathIn(where)[m]
  BY <1>3, <1>7, <1>8, UnlinkTree
<1>10. n \in agreed
  BY <1>6, <1>7
<1>11. UNCHANGED <<tool, stack, todo, chosen, at, name, agreed, outcome>>
  BY <1>2 DEF list
<1>12. pc' \in {"unlink", "rename"}
  BY <1>1, <1>2
<1>13. Work' = Work /\ Work = todo \cup {at}
  BY <1>2, <1>11, <1>12 DEF Work, InHand
<1>14. ASSUME NEW l \in Work
       PROVE  /\ l \in LeafSet /\ l.path \in Paths /\ l.node \in Nodes /\ l.node # n
              /\ where'[l.node] = where[l.node] /\ where'[l.node] # Nowhere
              /\ PathIn(where')[l.node] = PathIn(where)[l.node] /\ UndeleteLeaf(l)'
  <2>1. l \in LeafSet /\ where[l.node] # Nowhere /\ PathIn(where)[l.node] = l.path
    BY <1>2, <1>3, <1>14 DEF UndeleteInv, UndeleteLeaf, OnDisk
  <2>2. l.path \in Paths /\ l.node \in Nodes
    BY <2>1 DEF LeafSet
  <2>3. l.node # n
    BY <1>6, <1>7, <1>14
  <2>4. where'[l.node] = where[l.node] /\ where'[l.node] # Nowhere
    BY <1>9, <2>1, <2>2, <2>3
  <2>5. PathIn(where')[l.node] = PathIn(where)[l.node]
    BY <1>9, <2>2, <2>4
  <2>6. Mixed(at.path, at.path, l.path) = l.path
    BY <1>5, <2>2, MixedSame
  <2>7. OnDisk(l)' = l.path
    BY <1>4, <1>11, <2>6 DEF OnDisk
  <2>8. UndeleteLeaf(l)'
    BY <2>1, <2>4, <2>5, <2>7 DEF UndeleteLeaf
  <2> QED BY <2>1, <2>2, <2>3, <2>4, <2>5, <2>8
<1>15. AtInv'
  <2>1. at.node \in Nodes /\ where'[at.node] # Nowhere /\ PathIn(where')[at.node] = PathIn(where)[at.node]
    BY <1>13, <1>14
  <2> QED BY <1>4, <1>11, <2>1 DEF AtInv
<1>16. Clear'
  <2>1. ASSUME NEW l \in Work, NEW k \in Nodes, where'[k] # Nowhere, where'[k].del, k # l.node,
               UnderIn(where', l.node, k), \A m \in Work : m.node # k
        PROVE  Alone(where', k)
    <3>1. where[k] # Nowhere /\ where'[k] = where[k] /\ PathIn(where')[k] = PathIn(where)[k]
      BY <1>9, <2>1
    <3>2. UnderIn(where, l.node, k)
      BY <1>14, <2>1, <3>1 DEF UnderIn
    <3>3. Alone(where, k)
      BY <1>3, <2>1, <3>1, <3>2 DEF UndeleteInv, Clear
    <3> QED BY <1>9, <3>1, <3>3 DEF Alone
  <2> QED BY <1>13, <2>1 DEF Clear
<1>17. NameBegins(PathIn(where)[n], at.path)
  <2> DEFINE p == PathIn(where)[n]
             c == convert_to_user_name(at.path)
  <2>1. Len(c) = Len(at.path) /\ \A i \in 1 .. Len(at.path) : c[i] = [name |-> at.path[i].name, del |-> FALSE]
    BY <1>5, ConvFacts
  <2>2. Begins(p, c)
    BY <1>6, <1>7 DEF UnderIn
  <2> HIDE DEF p, c
  <2>3. Len(c) = Len(at.path) /\ \A i \in 1 .. Len(at.path) : c[i].name = at.path[i].name
    <3>1. ASSUME NEW i \in 1 .. Len(at.path)
          PROVE  c[i].name = at.path[i].name
      <4>1. c[i] = [name |-> at.path[i].name, del |-> FALSE]
        BY <2>1
      <4> QED BY <4>1
    <3> QED BY <2>1, <3>1
  <2>4. Len(at.path) <= Len(p) /\ \A i \in 1 .. Len(at.path) : p[i] = c[i]
    BY <2>2, <2>3 DEF Begins
  <2>5. NameBegins(p, at.path)
    BY <2>3, <2>4 DEF NameBegins
  <2> QED BY <2>5 DEF p
<1>18. Recovered'
  <2>1. ASSUME ~outcome.error, NEW k \in chosen \ outcome.spared
        PROVE  \/ \E l \in Work : l.node = k
               \/ LiveIn(where', k) /\ \A l \in Work : ~NameBegins(PathIn(where')[k], l.path)
    <3>1. k \in Nodes
      BY <1>3 DEF Control
    <3>2. CASE LiveIn(where, k) /\ \A l \in Work : ~NameBegins(PathIn(where)[k], l.path)
      <4>1. k # n
        BY <1>13, <1>17, <3>2
      <4>2. where'[k] = where[k] /\ where[k] # Nowhere
        BY <1>9, <3>1, <3>2, <4>1 DEF LiveIn
      <4>3. PathIn(where')[k] = PathIn(where)[k]
        BY <1>9, <3>1, <4>2
      <4> QED BY <3>2, <4>2, <4>3 DEF LiveIn
    <3> QED BY <1>3, <2>1, <3>2 DEF UndeleteInv, Recovered
  <2> QED BY <1>11, <1>13, <2>1 DEF Recovered
<1>19. \A l \in todo' : where'[l.node].del
  <2>1. \A l \in todo : where'[l.node] = where[l.node]
    BY <1>13, <1>14
  <2> QED BY <1>3, <1>11, <2>1 DEF UndeleteInv
<1>20. pc' = "unlink" => VictimInv'
  <2> SUFFICES ASSUME pc' = "unlink"
               PROVE  VictimInv'
    OBVIOUS
  <2>1. n # victim /\ victim' = victim
    BY <1>1
  <2>2. where'[victim] # Nowhere /\ PathIn(where')[victim] = PathIn(where)[victim]
    BY <1>6, <1>9, <2>1
  <2>3. \A m \in Nodes : where'[m] # Nowhere => (UnderIn(where', m, victim) <=> UnderIn(where, m, victim))
    BY <1>9, <2>2 DEF UnderIn
  <2>4. \A l \in Work : ~UnderIn(where', l.node, victim)
    BY <1>6, <1>14, <2>3
  <2>5. \A m \in Nodes : where'[m] # Nowhere /\ UnderIn(where', m, victim) => m \in agreed
    BY <1>6, <1>9, <2>3
  <2> QED BY <1>4, <1>6, <1>11, <1>13, <2>1, <2>2, <2>4, <2>5 DEF VictimInv
<1>21. pc' = "rename" =>
         \A m \in Nodes : where'[m] # Nowhere => PathIn(where')[m] # convert_to_user_name(name)
  <2> SUFFICES ASSUME pc' = "rename", NEW m \in Nodes, where'[m] # Nowhere,
                      PathIn(where')[m] = convert_to_user_name(name)
               PROVE  FALSE
    OBVIOUS
  <2>1. n = victim
    BY <1>1, <1>2
  <2>2. m # n /\ where[m] # Nowhere /\ PathIn(where)[m] = PathIn(where)[victim]
    BY <1>4, <1>6, <1>9
  <2> QED BY <1>3, <1>6, <2>1, <2>2, SamePath
<1>22. UndeleteInv'
  BY <1>11, <1>12, <1>13, <1>14, <1>15, <1>16, <1>18, <1>19, <1>20, <1>21 DEF UndeleteInv
<1>23. OddInv'
  <2>1. \A m \in Nodes : ~Odd(where, m)
    BY <1>2, NoneOdd
  <2>2. \A m \in Nodes : ~Odd(where', m)
    BY <1>3, <1>7, <1>8, <2>1, OddUnlink
  <2> QED BY <2>2 DEF OddInv
<1>24. Control'
  BY <1>3, <1>11, <1>12 DEF Control
<1> QED BY <1>8, <1>9, <1>10, <1>11, <1>22, <1>23, <1>24 DEF Inv


LEMMA DoFileRenameInv ==
  ASSUME Inv, do_file_rename
  PROVE  Inv' /\ \A m \in Nodes : LiveIn(where, m) /\ where'[m] = Nowhere => m \in agreed
<1>1. /\ tool = "undelete" /\ pc = "rename" /\ Marks(name) # {}
      /\ Rename(Lookup(ToRename), FALSE) /\ name' = Unmarked(name, {Len(ToRename)})
      /\ UNCHANGED <<tool, opts, pc, list, at, victim, agreed, outcome>>
  BY DEF do_file_rename
<1>2. UNCHANGED <<tool, pc, stack, todo, chosen, at, agreed, outcome>>
  BY <1>1 DEF list
<1>3. UndeleteInv /\ Control /\ FsInv /\ OddInv /\ Tree(where)
  BY <1>1 DEF Inv, FsInv
<1>4. AtInv /\ Clear /\ Recovered
  BY <1>1, <1>3 DEF UndeleteInv, InHand
<1>5. /\ at \in LeafSet /\ at.path \in Paths /\ at.node \in Nodes /\ where[at.node] # Nowhere
      /\ PathIn(where)[at.node] = name /\ Len(at.path) = Len(name) /\ Len(name) >= 1
  BY <1>4 DEF AtInv, LeafSet
<1>6. /\ \A i \in 1 .. Len(name) : name[i].name = at.path[i].name
      /\ \A j \in 1 .. Len(name) : name[j].del => \A i \in 1 .. j : name[i] = at.path[i]
      /\ at.path[Len(name)].del
      /\ \A l \in todo : ~NameBegins(at.path, l.path)
  BY <1>4 DEF AtInv
<1>7. PICK h, t : NextIs(h, t)
  BY <1>1, NextMark
<1>8. /\ h \in 1 .. Len(name) /\ h \in Nat /\ t \in Nodes /\ Len(ToRename) = h /\ Lookup(ToRename) = t
      /\ name[h].del /\ \A j \in 1 .. Len(name) : j > h => ~name[j].del
  BY <1>7 DEF NextIs
<1>9. /\ where[t] # Nowhere /\ where[t].del
      /\ Len(PathIn(where)[t]) = h /\ \A i \in 1 .. h : PathIn(where)[t][i] = name[i]
      /\ UnderIn(where, at.node, t)
      /\ \A l \in todo : l.node # t
  BY <1>7 DEF NextIs
<1>10. /\ name = at.path => h = Len(name) /\ t = at.node
       /\ name # at.path => Replaced(where, t, FALSE) = {}
  BY <1>7 DEF NextIs
<1>11. PICK del \in BOOLEAN : del = FALSE
  OBVIOUS
<1>12. Rename(t, del) /\ where[t].del # del /\ ~del
  BY <1>1, <1>8, <1>9, <1>11
<1>13. Renaming(where, t, del, where') /\ FsInv'
  BY <1>3, <1>8, <1>9, <1>12, FsRename
<1> DEFINE R == Replaced(where, t, del)
<1>14. /\ Tree(where') /\ t \notin R
       /\ where'[t] # Nowhere /\ where'[t].del = del /\ where'[t].dir = where[t].dir /\ where'[t].name = where[t].name
       /\ \A m \in Nodes : m # t /\ m \notin R => where'[m] = where[m]
       /\ \A m \in Nodes : m \in R => where'[m] = Nowhere
       /\ \A m \in Nodes : where'[m] # Nowhere =>
            /\ where[m] # Nowhere /\ where'[m].dir = where[m].dir /\ where'[m].name = where[m].name
            /\ m \notin R
            /\ PathIn(where')[m] = IF UnderIn(where, m, t) THEN MarkedAs(PathIn(where)[m], h, del)
                                   ELSE PathIn(where)[m]
  BY <1>3, <1>8, <1>9, <1>13, RenameTree
<1>15. /\ name = at.path => h = Len(name) /\ t = at.node
       /\ name # at.path => R = {}
  BY <1>10, <1>11
<1>16. \A m \in R : m \in Nodes /\ where[m] # Nowhere /\ where[m].dir = where[t].dir
                    /\ where[m].name = where[t].name /\ ~where[m].del
  BY <1>12 DEF Replaced
<1> HIDE DEF R
<1>17. name \in Paths /\ Len(name) \in Nat /\ DOMAIN name = 1 .. Len(name)
  <2>1. name \in Paths
    BY <1>3, <1>5, PathStep
  <2> QED BY <2>1 DEF Paths
<1> DEFINE nn == name'
<1>18. nn = MarkedAs(name, h, del)
  <2>1. nn = MarkedAs(name, h, FALSE)
    BY <1>1, <1>8, <1>17, UnmarkedOne
  <2> QED BY <1>11, <2>1
<1>19. /\ nn \in Paths /\ Len(nn) = Len(name)
       /\ \A i \in 1 .. Len(name) : nn[i] = IF i = h THEN [name |-> name[i].name, del |-> del] ELSE name[i]
  BY <1>17, <1>18, MarkedAsFacts
<1>20. /\ \A i \in 1 .. Len(name) : i # h => nn[i] = name[i]
       /\ nn[h] = [name |-> name[h].name, del |-> FALSE]
       /\ nn[h].name = name[h].name /\ ~nn[h].del
  <2> HIDE DEF nn
  <2>1. nn[h] = [name |-> name[h].name, del |-> del]
    BY <1>8, <1>19
  <2>2. nn[h] = [name |-> name[h].name, del |-> FALSE]
    BY <1>11, <2>1
  <2>3. nn[h].name = name[h].name /\ ~nn[h].del
    BY <2>2
  <2>4. \A i \in 1 .. Len(name) : i # h => nn[i] = name[i]
    BY <1>19
  <2> QED BY <2>2, <2>3, <2>4
<1>21. PathIn(where')[at.node] = nn /\ where'[at.node] # Nowhere
  <2>1. at.node \notin R
    BY <1>14, <1>15
  <2>2. where'[at.node] # Nowhere
    BY <1>5, <1>14, <2>1
  <2> QED BY <1>5, <1>9, <1>14, <1>18, <2>2
<1>22. Work' = Work /\ Work = todo \cup {at}
  BY <1>1, <1>2 DEF Work, InHand
<1> HIDE DEF nn
<1>23. ASSUME NEW l \in Work
       PROVE  /\ l \in LeafSet /\ l.path \in Paths /\ l.node \in Nodes /\ where[l.node] # Nowhere
              /\ where'[l.node] # Nowhere /\ PathIn(where)[l.node] = Mixed(at.path, name, l.path)
  <2>1. l \in LeafSet /\ where[l.node] # Nowhere /\ PathIn(where)[l.node] = Mixed(at.path, name, l.path)
    BY <1>1, <1>3, <1>23 DEF UndeleteInv, UndeleteLeaf, OnDisk
  <2>2. l.path \in Paths /\ l.node \in Nodes
    BY <2>1 DEF LeafSet
  <2>3. CASE l \in todo
    <3>1. where[l.node].del
      BY <1>3, <2>3 DEF UndeleteInv
    <3>2. l.node \notin R /\ l.node # t
      BY <1>9, <1>16, <2>3, <3>1
    <3> QED BY <1>14, <2>1, <2>2, <3>2
  <2>4. CASE l = at
    BY <1>21, <2>1, <2>2, <2>4
  <2> QED BY <1>22, <2>1, <2>2, <2>3, <2>4
<1>24. ASSUME NEW l \in Work
       PROVE  UndeleteLeaf(l)'
  <2> DEFINE r == PathIn(where)[l.node]
             a == PathIn(where)[t]
             s == MarkedAs(r, h, del)
  <2>1. /\ l \in LeafSet /\ l.path \in Paths /\ l.node \in Nodes
        /\ where'[l.node] # Nowhere /\ r = Mixed(at.path, name, l.path)
    BY <1>23
  <2>2. r \in Paths /\ a \in Paths
    BY <1>3, <1>8, <2>1, PathStep
  <2>3. Len(a) = h /\ \A i \in 1 .. h : a[i] = name[i]
    BY <1>9
  <2>4. PathIn(where')[l.node] = IF Begins(r, a) THEN s ELSE r
    BY <1>14, <2>1 DEF UnderIn
  <2>5. Len(r) = Len(l.path) /\ Len(r) \in Nat
    <3>1. Len(r) = Len(l.path)
      BY <1>5, <1>17, <2>1, MixedFacts
    <3> QED BY <2>2, <3>1 DEF Paths
  <2> HIDE DEF r, a
  <2>6. s \in Paths /\ Len(s) = Len(r)
        /\ \A i \in 1 .. Len(r) : s[i] = IF i = h THEN [name |-> r[i].name, del |-> del] ELSE r[i]
    BY <2>2, MarkedAsFacts
  <2> HIDE DEF s
  <2>7. /\ Len(s) = Len(l.path) /\ \A i \in 1 .. Len(l.path) : i # h => s[i] = r[i]
        /\ h <= Len(l.path) => s[h] = [name |-> r[h].name, del |-> FALSE]
    <3>1. h <= Len(l.path) => h \in 1 .. Len(r)
      BY <1>8, <2>5
    <3> QED BY <1>11, <2>5, <2>6, <3>1
  <2>8. \A i \in 1 .. h : name[i] = at.path[i]
    BY <1>6, <1>8
  <2>9. Mixed(at.path, nn, l.path) = IF Begins(r, a) THEN s ELSE r
    <3> DEFINE q == at.path
               p == l.path
    <3>1. q \in Paths /\ name \in Paths /\ Len(name) = Len(q) /\ p \in Paths /\ nn \in Paths
      BY <1>5, <1>17, <1>19, <2>1
    <3>2. h \in 1 .. Len(name) /\ \A i \in 1 .. h : name[i] = q[i]
      BY <1>8, <2>8
    <3>3. a \in Paths /\ Len(a) = h /\ \A i \in 1 .. h : a[i] = name[i]
      BY <2>2, <2>3
    <3>4. Len(nn) = Len(q) /\ \A i \in 1 .. Len(q) : i # h => nn[i] = name[i]
      BY <1>5, <1>19, <1>20
    <3>5. nn[h] = [name |-> name[h].name, del |-> FALSE]
      BY <1>20
    <3>6. r = Mixed(q, name, p)
      BY <2>1
    <3>7. /\ s \in Paths /\ Len(s) = Len(p) /\ \A i \in 1 .. Len(p) : i # h => s[i] = r[i]
          /\ h <= Len(p) => s[h] = [name |-> r[h].name, del |-> FALSE]
      BY <2>6, <2>7
    <3> HIDE DEF q, p
    <3>8. Cleared(name, nn, h) /\ SameTo(h, name, q) /\ SameTo(h, a, name)
      BY <3>1, <3>2, <3>3, <3>4, <3>5 DEF Cleared, SameTo
    <3>9. Cleared(r, s, h)
      BY <2>5, <3>7 DEF Cleared, p
    <3>10. /\ Begins(r, a) => Mixed(q, nn, p) = s
           /\ ~Begins(r, a) => Mixed(q, nn, p) = r
      BY <3>1, <3>2, <3>3, <3>6, <3>7, <3>8, <3>9, MixedMark
    <3>11. Mixed(q, nn, p) = IF Begins(r, a) THEN s ELSE r
      BY <3>10
    <3> QED BY <3>11 DEF q, p
  <2>10. OnDisk(l)' = Mixed(at.path, nn, l.path)
    BY <1>1, <1>2 DEF OnDisk, nn
  <2> QED BY <2>1, <2>4, <2>9, <2>10 DEF UndeleteLeaf
<1>25. AtInv'
  <2>1. ASSUME NEW j \in 1 .. Len(name), nn[j].del, NEW i \in 1 .. j
        PROVE  nn[i] = at.path[i]
    <3>1. j # h /\ nn[j] = name[j]
      BY <1>20, <2>1
    <3>2. j < h /\ i # h /\ i \in 1 .. Len(name)
      BY <1>8, <1>17, <2>1, <3>1
    <3> QED BY <1>6, <1>20, <2>1, <3>1, <3>2
  <2>2. \A i \in 1 .. Len(name) : nn[i].name = at.path[i].name
    BY <1>6, <1>20
  <2>3. /\ at' = at /\ todo' = todo /\ pc' = "rename" /\ name' = nn
    BY <1>1, <1>2 DEF nn
  <2> QED BY <1>5, <1>6, <1>19, <1>21, <2>1, <2>2, <2>3 DEF AtInv
<1>26. Clear'
  <2>1. ASSUME NEW l \in Work, NEW k \in Nodes, where'[k] # Nowhere, where'[k].del, k # l.node,
               UnderIn(where', l.node, k), \A m \in Work : m.node # k
        PROVE  Alone(where', k)
    <3>1. k # t /\ k \notin R
      BY <1>12, <1>14, <2>1
    <3>2. where'[k] = where[k] /\ where[k] # Nowhere /\ where[k].del
      BY <1>14, <2>1, <3>1
    <3>3. l.node \in Nodes /\ where'[l.node] # Nowhere
      BY <1>23
    <3>4. UnderIn(where, l.node, k)
      BY <1>3, <1>14, <2>1, <3>3, UnderSame
    <3>5. Alone(where, k)
      BY <1>4, <2>1, <3>2, <3>4 DEF Clear
    <3>6. ASSUME where[t].dir = where[k].dir, where[t].name = where[k].name
          PROVE  FALSE
      <4>1. where[t] \in Places /\ where[k] \in Places /\ where[t].del \in BOOLEAN /\ where[k].del \in BOOLEAN
        BY <1>3, <1>8, <1>9, <3>2, PlaceFacts
      <4>2. where[t].del = where[k].del
        BY <1>9, <3>2, <4>1
      <4>3. where[t] = where[k]
        BY <3>6, <4>1, <4>2 DEF Places
      <4> QED BY <1>3, <1>8, <1>9, <3>1, <3>2, <4>3 DEF Tree
    <3>7. ASSUME NEW s \in Nodes, where'[s] # Nowhere, where'[s].dir = where'[k].dir, where'[s].name = where'[k].name
          PROVE  where'[s].del
      <4>1. s # t
        BY <1>14, <3>2, <3>6, <3>7
      <4>2. where'[s] = where[s]
        BY <1>14, <3>7, <4>1
      <4> QED BY <3>2, <3>5, <3>7, <4>2 DEF Alone
    <3> QED BY <3>7 DEF Alone
  <2> QED BY <1>22, <2>1 DEF Clear
<1>27. ASSUME NEW m \in R
       PROVE  /\ name = at.path /\ Len(PathIn(where)[m]) = Len(name)
              /\ \A i \in 1 .. Len(name) : PathIn(where)[m][i].name = name[i].name
  <2>1. name = at.path /\ h = Len(name)
    BY <1>15
  <2>2. m \in Nodes /\ where[m] # Nowhere /\ where[m].dir = where[t].dir /\ where[m].name = where[t].name
    BY <1>16
  <2>3. /\ Len(PathIn(where)[m]) = Len(PathIn(where)[t])
        /\ \A i \in 1 .. Len(PathIn(where)[t]) : PathIn(where)[m][i].name = PathIn(where)[t][i].name
    BY <1>3, <1>8, <1>9, <2>2, Sibling
  <2> QED BY <1>9, <2>1, <2>3
<1>28. Recovered'
  <2>1. ASSUME ~outcome.error, NEW k \in chosen \ outcome.spared
        PROVE  \/ \E l \in Work : l.node = k
               \/ LiveIn(where', k) /\ \A l \in Work : ~NameBegins(PathIn(where')[k], l.path)
    <3>1. k \in Nodes
      BY <1>3 DEF Control
    <3>2. CASE LiveIn(where, k) /\ \A l \in Work : ~NameBegins(PathIn(where)[k], l.path)
      <4>1. ASSUME k \in R
            PROVE  FALSE
        <5>1. name = at.path /\ Len(PathIn(where)[k]) = Len(name)
              /\ \A i \in 1 .. Len(name) : PathIn(where)[k][i].name = name[i].name
          BY <1>27, <4>1
        <5>2. NameBegins(PathIn(where)[k], name)
          BY <1>17, <5>1 DEF NameBegins
        <5> QED BY <1>22, <3>2, <5>1, <5>2
      <4>2. PathIn(where')[k] = PathIn(where)[k] /\ LiveIn(where', k)
        BY <1>3, <1>8, <1>12, <1>13, <3>1, <3>2, <4>1, RenameKeepsLive DEF R
      <4> QED BY <3>2, <4>2
    <3> QED BY <1>4, <2>1, <3>2 DEF Recovered
  <2> QED BY <1>2, <1>22, <2>1 DEF Recovered
<1>29. \A l \in todo' : where'[l.node].del
  <2> SUFFICES ASSUME NEW l \in todo
               PROVE  where'[l.node].del
    BY <1>2
  <2>1. where[l.node].del /\ l.node \in Nodes
    BY <1>3, <1>22, <1>23 DEF UndeleteInv
  <2>2. l.node \notin R /\ l.node # t
    BY <1>9, <1>16, <2>1
  <2> QED BY <1>14, <2>1, <2>2
<1>30. name' # at'.path
  <2>1. name[h] = at.path[h] /\ name[h].del
    <3>1. h \in 1 .. h
      BY <1>8
    <3> QED BY <1>6, <1>8, <3>1
  <2> QED BY <1>2, <1>20, <2>1 DEF nn
<1>31. UndeleteInv'
  BY <1>1, <1>2, <1>22, <1>24, <1>25, <1>26, <1>28, <1>29, <1>30 DEF UndeleteInv
<1>32. OddInv'
  <2>1. ASSUME NEW m \in Nodes, Odd(where', m)
        PROVE  Half' /\ UnderIn(where', at'.node, m)
    <3>1. Odd(where, m) \/ m = t
      BY <1>3, <1>8, <1>12, <1>13, <2>1, OddRename
    <3>2. UnderIn(where, at.node, m)
      BY <1>3, <1>9, <3>1 DEF OddInv
    <3> DEFINE d == where'[m].dir
    <3>3. /\ where'[m] # Nowhere /\ d # Root /\ where'[d].del
      BY <2>1 DEF Odd
    <3>4. d \in Nodes /\ where'[d] # Nowhere
      BY <1>14, <3>3, PlaceFacts
    <3>5. UnderIn(where', at.node, m)
      BY <1>3, <1>5, <1>14, <1>21, <3>2, <3>3, UnderSame
    <3>6. UnderIn(where', m, d)
      <4>1. UnderIn(where', d, d)
        BY <1>14, <3>4, UnderStep
      <4> QED BY <1>14, <3>3, <3>4, <4>1, UnderStep
    <3>7. UnderIn(where', at.node, d)
      BY <1>5, <1>14, <3>4, <3>5, <3>6, UnderTransitive
    <3> DEFINE p == PathIn(where')[d]
    <3>8. p \in Paths /\ Len(p) \in Nat /\ Len(p) >= 1 /\ p[Len(p)] = Part(where', d)
      BY <1>14, <3>4, PathStep
    <3>9. Begins(nn, p)
      BY <1>21, <3>7 DEF UnderIn
    <3> HIDE DEF p, d
    <3>10. Len(p) \in 1 .. Len(p) /\ Len(p) \in 1 .. Len(nn) /\ nn[Len(p)] = Part(where', d)
      BY <1>17, <1>19, <3>8, <3>9 DEF Begins
    <3>11. nn[Len(p)].del
      BY <3>3, <3>10 DEF Part
    <3>12. Marks(nn) # {}
      BY <1>19, <3>10, <3>11 DEF Marks, Paths
    <3>13. Half'
      BY <1>1, <1>2, <1>30, <3>12 DEF Half, nn
    <3> QED BY <1>2, <3>5, <3>13
  <2> QED BY <2>1 DEF OddInv
<1>33. Control'
  BY <1>2, <1>3 DEF Control
<1>34. ASSUME NEW m \in Nodes, LiveIn(where, m), where'[m] = Nowhere
       PROVE  m \in agreed
  <2>1. m \in R
    BY <1>14, <1>34 DEF LiveIn
  <2>2. name = at.path /\ Len(PathIn(where)[m]) = Len(name)
        /\ \A i \in 1 .. Len(name) : PathIn(where)[m][i].name = name[i].name
    BY <1>27, <2>1
  <2>3. PathIn(where)[m] = convert_to_user_name(name)
    BY <1>3, <1>17, <1>34, <2>2, ConvLive
  <2> QED BY <1>1, <1>3, <1>34, <2>2, <2>3 DEF UndeleteInv, LiveIn
<1> QED BY <1>1, <1>2, <1>13, <1>31, <1>32, <1>33, <1>34 DEF Inv


LEMMA MixedNames ==
  ASSUME NEW q \in Paths, NEW m \in Paths, Len(m) = Len(q), NEW p \in Paths,
         \A i \in 1 .. Len(m) : m[i].name = q[i].name,
         NEW u, NameBegins(u, Mixed(q, m, p))
  PROVE  NameBegins(u, p)
<1> DEFINE r == Mixed(q, m, p)
<1>1. /\ r \in Paths /\ Len(r) = Len(p)
      /\ \A i \in 1 .. Len(p) : r[i] = IF i <= Len(q) /\ (\A j \in 1 .. i : p[j] = q[j]) THEN m[i] ELSE p[i]
  BY MixedFacts
<1>2. Len(p) \in Nat /\ Len(q) \in Nat
  BY DEF Paths
<1>3. Len(r) <= Len(u) /\ \A i \in 1 .. Len(r) : u[i].name = r[i].name
  BY DEF NameBegins
<1> HIDE DEF r
<1>4. ASSUME NEW i \in 1 .. Len(p)
      PROVE  r[i].name = p[i].name
  <2>1. i \in 1 .. i /\ i \in Nat
    BY <1>2
  <2>2. CASE i <= Len(q) /\ (\A j \in 1 .. i : p[j] = q[j])
    <3>1. r[i] = m[i]
      BY <1>1, <2>2
    <3>2. m[i].name = q[i].name
      BY <1>2, <2>1, <2>2
    <3> QED BY <2>1, <2>2, <3>1, <3>2
  <2>3. CASE ~(i <= Len(q) /\ (\A j \in 1 .. i : p[j] = q[j]))
    <3>1. r[i] = p[i]
      BY <1>1, <2>3
    <3> QED BY <3>1
  <2> QED BY <2>2, <2>3
<1>5. Len(p) <= Len(u) /\ \A i \in 1 .. Len(p) : u[i].name = p[i].name
  BY <1>1, <1>3, <1>4
<1> QED BY <1>5 DEF NameBegins

LEMMA ChangePathInv ==
  ASSUME Inv, change_path
  PROVE  Inv'
<1>1. /\ tool = "undelete" /\ pc = "rename" /\ Marks(name) = {}
      /\ todo' = {[l EXCEPT !.path = Renamed(at.path, @)] : l \in todo}
      /\ pc' = "leaf" /\ UNCHANGED <<fs, tool, opts, stack, chosen, victim, outcome>>
  BY DEF change_path
<1>2. UndeleteInv /\ Control /\ Tree(where) /\ where' = where
  BY <1>1 DEF Inv, FsInv, fs
<1>3. AtInv /\ Clear /\ Recovered
  BY <1>1, <1>2 DEF UndeleteInv, InHand
<1>4. FsInv' /\ OddInv'
  <2>1. FsInv' /\ \A n \in Nodes : ~Odd(where, n)
    BY <1>1 DEF Inv, FsInv, OddInv, fs, Half
  <2> QED BY <1>2, <2>1 DEF OddInv
<1>5. /\ at \in LeafSet /\ at.path \in Paths /\ at.node \in Nodes /\ where[at.node] # Nowhere
      /\ PathIn(where)[at.node] = name /\ Len(name) = Len(at.path) /\ Len(name) >= 1
  BY <1>3 DEF AtInv, LeafSet
<1>6. /\ \A i \in 1 .. Len(name) : name[i].name = at.path[i].name
      /\ \A l \in todo : ~NameBegins(at.path, l.path)
  BY <1>3 DEF AtInv
<1>7. name \in Paths /\ Len(name) \in Nat /\ DOMAIN name = 1 .. Len(name)
  <2>1. name \in Paths
    BY <1>2, <1>5, PathStep
  <2> QED BY <2>1 DEF Paths
<1>8. \A i \in 1 .. Len(name) : ~name[i].del
  BY <1>1, <1>7 DEF Marks
<1>9. \A i \in 1 .. Len(name) : name[i] = [name |-> at.path[i].name, del |-> FALSE]
  <2> TAKE i \in 1 .. Len(name)
  <2>1. name[i] \in Parts
    BY <1>7 DEF Paths
  <2>2. ~name[i].del /\ name[i].name = at.path[i].name
    BY <1>6, <1>8
  <2>3. name[i].del = FALSE
    BY <2>1, <2>2 DEF Parts
  <2> QED BY <2>1, <2>2, <2>3 DEF Parts
<1>10. LiveIn(where, at.node) /\ ~where[at.node].del
  <2>1. LiveIn(where, at.node)
    BY <1>5, <1>8 DEF LiveIn
  <2> QED BY <1>2, <1>5, <2>1, LiveStep
<1>11. Work = todo \cup {at} /\ Work' = todo'
  BY <1>1 DEF Work, InHand
<1>12. ASSUME NEW l \in todo
       PROVE  /\ l \in LeafSet /\ l.path \in Paths /\ l.node \in Nodes /\ where[l.node] # Nowhere
              /\ PathIn(where)[l.node] = Mixed(at.path, name, l.path)
              /\ [l EXCEPT !.path = Renamed(at.path, @)] = [path |-> PathIn(where)[l.node], node |-> l.node]
  <2>1. l \in LeafSet /\ where[l.node] # Nowhere /\ PathIn(where)[l.node] = Mixed(at.path, name, l.path)
    BY <1>1, <1>2, <1>11, <1>12 DEF UndeleteInv, UndeleteLeaf, OnDisk
  <2>2. l.path \in Paths /\ l.node \in Nodes
    BY <2>1 DEF LeafSet
  <2>3. Renamed(at.path, l.path) = Mixed(at.path, name, l.path)
    BY <1>5, <1>7, <1>9, <2>2, MixedRenamed
  <2>4. \A e : [l EXCEPT !.path = e] = [path |-> e, node |-> l.node]
    <3>1. \A d \in LeafSet : \A e : [d EXCEPT !.path = e] = [path |-> e, node |-> d.node]
      BY SMT DEF LeafSet
    <3> QED BY <2>1, <3>1
  <2>5. [l EXCEPT !.path = Renamed(at.path, l.path)] = [path |-> Renamed(at.path, l.path), node |-> l.node]
    BY <2>4, Zenon
  <2>6. [l EXCEPT !.path = Renamed(at.path, l.path)] = [path |-> PathIn(where)[l.node], node |-> l.node]
    BY <2>1, <2>3, <2>5
  <2> QED BY <2>1, <2>2, <2>6
<1>14. ASSUME NEW m \in todo'
       PROVE  \E l \in todo : m = [path |-> PathIn(where)[l.node], node |-> l.node]
  <2>1. PICK l \in todo : m = [l EXCEPT !.path = Renamed(at.path, @)]
    BY <1>1, <1>14
  <2> QED BY <1>12, <2>1, Zenon
<1>15. ASSUME NEW l \in todo
       PROVE  \E m \in todo' : m.node = l.node
  <2> DEFINE m == [l EXCEPT !.path = Renamed(at.path, @)]
  <2>1. m \in todo'
    BY <1>1
  <2>2. m = [path |-> PathIn(where)[l.node], node |-> l.node]
    BY <1>12
  <2> HIDE DEF m
  <2>3. m.node = l.node
    BY <2>2
  <2> QED BY <2>1, <2>3
<1>16. ASSUME NEW m \in todo'
       PROVE  UndeleteLeaf(m)' /\ where'[m.node].del
  <2>1. PICK l \in todo : m = [path |-> PathIn(where)[l.node], node |-> l.node]
    BY <1>14
  <2>2. m.path = PathIn(where)[l.node] /\ m.node = l.node
    BY <2>1
  <2>3. l.node \in Nodes /\ where[l.node] # Nowhere /\ where[l.node].del
    BY <1>2, <1>12 DEF UndeleteInv
  <2>4. PathIn(where)[l.node] \in Paths
    BY <1>2, <2>3, PathStep
  <2>5. m \in LeafSet
    BY <2>1, <2>3, <2>4 DEF LeafSet
  <2> QED BY <1>1, <1>2, <2>2, <2>3, <2>5 DEF UndeleteLeaf, OnDisk
<1>17. Clear'
  <2>1. ASSUME NEW m \in todo', NEW k \in Nodes, where[k] # Nowhere, where[k].del, k # m.node,
               UnderIn(where, m.node, k), \A j \in todo' : j.node # k
        PROVE  Alone(where, k)
    <3>1. PICK l \in todo : m = [path |-> PathIn(where)[l.node], node |-> l.node]
      BY <1>14, <2>1
    <3>2. m.node = l.node
      BY <3>1
    <3>3. \A j \in todo : j.node # k
      BY <1>15, <2>1
    <3>4. at.node # k
      BY <1>10, <2>1
    <3> QED BY <1>3, <1>11, <2>1, <3>2, <3>3, <3>4 DEF Clear
  <2> QED BY <1>2, <1>11, <2>1 DEF Clear
<1>18. ASSUME NEW m \in todo', NEW u, NameBegins(u, m.path)
       PROVE  \E l \in todo : NameBegins(u, l.path)
  <2>1. PICK l \in todo : m = [path |-> PathIn(where)[l.node], node |-> l.node]
    BY <1>14, <1>18
  <2>2. m.path = Mixed(at.path, name, l.path) /\ l.path \in Paths
    BY <1>12, <2>1
  <2>3. NameBegins(u, Mixed(at.path, name, l.path))
    BY <1>18, <2>2
  <2>4. NameBegins(u, l.path)
    BY <1>5, <1>6, <1>7, <2>2, <2>3, MixedNames
  <2> QED BY <2>4
<1>19. Recovered'
  <2>1. ASSUME ~outcome.error, NEW n \in chosen \ outcome.spared
        PROVE  \/ \E m \in todo' : m.node = n
               \/ LiveIn(where, n) /\ \A m \in todo' : ~NameBegins(PathIn(where)[n], m.path)
    <3>1. CASE \E l \in todo : l.node = n
      BY <1>15, <3>1
    <3>2. CASE n = at.node
      <4>1. ASSUME NEW m \in todo', NameBegins(name, m.path)
            PROVE  FALSE
        <5>1. PICK l \in todo : NameBegins(name, l.path)
          BY <1>18, <4>1
        <5>2. NameBegins(at.path, l.path)
          <6>0. l.path \in Paths
            BY <1>12
          <6>1. l.path \in Paths /\ Len(l.path) \in Nat
            BY <6>0 DEF Paths
          <6> QED BY <1>5, <1>6, <1>7, <5>1, <6>1 DEF NameBegins
        <5> QED BY <1>6, <5>2
      <4> QED BY <1>5, <1>10, <3>2, <4>1
    <3>3. CASE LiveIn(where, n) /\ \A l \in Work : ~NameBegins(PathIn(where)[n], l.path)
      BY <1>11, <1>18, <3>3
    <3>4. (\E l \in Work : l.node = n) \/ (LiveIn(where, n) /\ \A l \in Work : ~NameBegins(PathIn(where)[n], l.path))
      BY <1>3, <2>1 DEF Recovered
    <3> QED BY <1>11, <3>1, <3>2, <3>3, <3>4
  <2> QED BY <1>1, <1>2, <1>11, <2>1 DEF Recovered
<1>20. UndeleteInv'
  BY <1>1, <1>11, <1>16, <1>17, <1>19 DEF UndeleteInv, InHand
<1>21. Control'
  BY <1>1, <1>2 DEF Control
<1> QED BY <1>1, <1>4, <1>20, <1>21 DEF Inv


----------------------------------------------------------------------------
(* Every step keeps the invariant, and destroys only what it may           *)

Kept == \A n \in Nodes : LiveIn(where, n) /\ where'[n] = Nowhere => n \in agreed
Old == \A n \in Nodes : tool = "expunge" /\ "t" \in opts /\ where[n] # Nowhere /\ where'[n] = Nowhere
                          => n \in aged

LEMMA Spared ==
  ASSUME UNCHANGED where
  PROVE  Kept /\ Old
BY DEF Kept, Old, LiveIn

LEMMA StepInv ==
  ASSUME Inv, Allowed = {}, Next
  PROVE  Inv' /\ Kept /\ Old
<1>1. ASSUME NEW n \in Nodes, Create(n)
      PROVE  Inv' /\ Kept /\ Old
  <2>1. Inv'
    BY <1>1, CreateInv
  <2>2. where[n] = Nowhere /\ \E p : where' = [where EXCEPT ![n] = p]
    BY <1>1 DEF Create, Exists
  <2>3. where \in [Nodes -> Places \cup {Nowhere}]
    BY DEF Inv, FsInv, Tree
  <2>4. \A m \in Nodes : m # n => where'[m] = where[m]
    BY <2>2, <2>3
  <2> QED BY <2>1, <2>2, <2>4 DEF Kept, Old, LiveIn
<1>2. CASE DaysPass \/ Kill \/ End
  <2>1. Inv'
    BY <1>2, DaysInv, KillInv, EndInv
  <2>2. UNCHANGED where
    BY <1>2 DEF DaysPass, Kill, End, fs
  <2> QED BY <2>1, <2>2, Spared
<1>3. CASE delete_main \/ delete \/ delete_error \/ delete_refused
           \/ recursive_delete \/ recursive_delete_error \/ recursive_delete_return \/ do_move
  <2>1. Inv'
    BY <1>3, DeleteMainInv, DeleteStepInv, DeleteErrorInv, DeleteRefusedInv, RecursiveDeleteInv,
       RecursiveDeleteReturnInv, DoMoveInv
  <2>2. UNCHANGED where
    BY <1>3 DEF delete_main, delete, delete_error, delete_refused, recursive_delete,
                recursive_delete_error, recursive_delete_return, do_move, fs
  <2> QED BY <2>1, <2>2, Spared
<1>4. CASE delete_rename
  <2>1. tool # "expunge"
    BY <1>4 DEF delete_rename
  <2>2. Inv' /\ \A m \in Nodes : LiveIn(where, m) => where'[m] # Nowhere
    BY <1>4, DeleteRenameInv
  <2> QED BY <2>1, <2>2 DEF Kept, Old
<1>5. CASE unlink_completely
  <2>1. tool = "delete" \/ tool = "undelete"
    BY <1>5 DEF unlink_completely, Inv, Control
  <2>2. CASE tool = "delete"
    <3>1. Inv' /\ \A m \in Nodes : LiveIn(where, m) => where'[m] # Nowhere
      BY <1>5, <2>2, DeleteUnlinkInv
    <3> QED BY <2>2, <3>1 DEF Kept, Old
  <2>3. CASE tool = "undelete"
    <3>1. Inv' /\ \A m \in Nodes : where[m] # Nowhere /\ where'[m] = Nowhere => m \in agreed
      BY <1>5, <2>3, UndeleteUnlinkInv
    <3> QED BY <2>3, <3>1 DEF Kept, Old, LiveIn
  <2> QED BY <2>1, <2>2, <2>3
<1>6. CASE undelete_main \/ recurs_and_undelete \/ do_undelete \/ do_undelete_error \/ do_undelete_refused
           \/ change_path \/ TreeDone
  <2>1. Inv'
    BY <1>6, UndeleteMainInv, RecursAndUndeleteInv, DoUndeleteInv, LeafStaysInv, ChangePathInv, TreeDoneInv
  <2>2. UNCHANGED where
    BY <1>6 DEF undelete_main, recurs_and_undelete, do_undelete, do_undelete_error,
                do_undelete_refused, LeafStays, change_path, TreeDone, fs
  <2> QED BY <2>1, <2>2, Spared
<1>7. CASE do_file_rename
  <2>1. tool # "expunge"
    BY <1>7 DEF do_file_rename
  <2>2. Inv' /\ \A m \in Nodes : LiveIn(where, m) /\ where'[m] = Nowhere => m \in agreed
    BY <1>7, DoFileRenameInv
  <2> QED BY <2>1, <2>2 DEF Kept, Old
<1>8. CASE expunge_main \/ expunge_specified \/ really_do_expunge_error \/ really_do_expunge_refused
  <2>1. Inv'
    BY <1>8, ExpungeMainInv, ExpungeSpecifiedInv, MemberStaysInv
  <2>2. UNCHANGED where
    BY <1>8 DEF expunge_main, expunge_specified, really_do_expunge_error,
                really_do_expunge_refused, MemberStays, fs
  <2> QED BY <2>1, <2>2, Spared
<1>9. CASE really_do_expunge
  <2>1. /\ Inv' /\ at.node \in Nodes /\ where[at.node].del
        /\ "t" \in opts => at.node \in aged
        /\ \A m \in Nodes : m # at.node => where'[m] = where[m]
    BY <1>9, ReallyDoExpungeInv
  <2>2. ~LiveIn(where, at.node)
    BY <2>1, LiveStep DEF Inv, FsInv
  <2>3. Kept
    BY <2>1, <2>2 DEF Kept, LiveIn
  <2>4. Old
    BY <2>1 DEF Old
  <2> QED BY <2>1, <2>3, <2>4
<1> QED BY <1>1, <1>2, <1>3, <1>4, <1>5, <1>6, <1>7, <1>8, <1>9 DEF Next

LEMMA StutterInv ==
  ASSUME Inv, UNCHANGED vars
  PROVE  Inv'
<1>1. UNCHANGED <<where, fresh, aged, tool, opts, pc, stack, todo, at, name, victim, agreed, chosen, outcome>>
  BY DEF vars, fs, list, hand
<1>2. FsInv' /\ Control' /\ Half' = Half
  BY <1>1 DEF Inv, FsInv, Control, Half, Marks
<1>3. OddInv'
  BY <1>1, <1>2 DEF Inv, OddInv
<1>4. DeleteInv => DeleteInv'
  BY <1>1 DEF DeleteInv
<1>5. ExpungeInv => ExpungeInv'
  BY <1>1 DEF ExpungeInv
<1>6. Work' = Work /\ InHand' = InHand
  BY <1>1 DEF Work, InHand
<1>7. UndeleteInv => UndeleteInv'
  BY <1>1, <1>6 DEF UndeleteInv, UndeleteLeaf, OnDisk, AtInv, Clear, Recovered, VictimInv
<1> QED BY <1>1, <1>2, <1>3, <1>4, <1>5, <1>7 DEF Inv

----------------------------------------------------------------------------
(* The properties follow from the invariant                                *)

LEMMA InvMarked ==
  ASSUME Inv
  PROVE  MarkedInside
<1> SUFFICES ASSUME ~Half
             PROVE  \A n \in Nodes : where[n] # Nowhere => (~where[n].del => LiveIn(where, n))
  BY LiveBridge DEF MarkedInside, Exists, Inv, FsInv
<1>1. Tree(where) /\ \A n \in Nodes : ~Odd(where, n)
  BY DEF Inv, FsInv, OddInv
<1> DEFINE S == {n \in Nodes : ~where[n].del => LiveIn(where, n)}
<1>2. ASSUME NEW n \in Nodes, where[n] # Nowhere, where[n].dir = Root \/ where[n].dir \in S
      PROVE  n \in S
  <2> SUFFICES ASSUME ~where[n].del
               PROVE  LiveIn(where, n)
    OBVIOUS
  <2>1. CASE where[n].dir = Root
    BY <1>1, <1>2, <2>1, LiveStep
  <2>2. CASE where[n].dir # Root
    <3>1. ~where[where[n].dir].del
      BY <1>1, <1>2, <2>2 DEF Odd
    <3>2. LiveIn(where, where[n].dir)
      BY <1>2, <2>2, <3>1
    <3> QED BY <1>1, <1>2, <3>2, LiveStep
  <2> QED BY <2>1, <2>2
<1> HIDE DEF S
<1>3. \A n \in Nodes : where[n] # Nowhere => n \in S
  BY <1>1, <1>2, TreeInduction
<1> QED BY <1>3 DEF S

LEMMA InvLeaves ==
  ASSUME Inv, NEW l \in todo
  PROVE  /\ l.node \in Nodes /\ l.path # <<>>
         /\ pc \in {"leaf", "ask", "expunge"} => Lookup(l.path) = l.node
<1>1. Tree(where) /\ (tool = "undelete" \/ tool = "expunge")
  BY DEF Inv, FsInv, Control
<1>2. CASE tool = "expunge"
  <2>1. l \in LeafSet /\ where[l.node] # Nowhere /\ PathIn(where)[l.node] = l.path
    BY <1>2 DEF Inv, ExpungeInv, ExpungeLeaf
  <2>2. l.node \in Nodes /\ Len(l.path) >= 1
    BY <1>1, <2>1, PathStep DEF LeafSet
  <2>3. Lookup(l.path) = l.node
    BY <1>1, <2>1, <2>2, LookupFinds
  <2> QED BY <2>2, <2>3
<1>3. CASE tool = "undelete"
  <2>1. l \in Work
    BY DEF Work
  <2>2. UndeleteInv
    BY <1>3 DEF Inv
  <2>3. l \in LeafSet /\ where[l.node] # Nowhere /\ PathIn(where)[l.node] = OnDisk(l)
    BY <2>1, <2>2 DEF UndeleteInv, UndeleteLeaf
  <2>4. l.node \in Nodes /\ l.path \in Paths /\ Len(OnDisk(l)) >= 1
    BY <1>1, <2>3, PathStep DEF LeafSet
  <2>5. CASE pc = "rename"
    <3>1. AtInv
      BY <2>2, <2>5 DEF UndeleteInv, InHand
    <3>2. at.path \in Paths /\ at.node \in Nodes /\ where[at.node] # Nowhere /\ PathIn(where)[at.node] = name
          /\ Len(name) = Len(at.path)
      BY <3>1 DEF AtInv, LeafSet
    <3>3. name \in Paths
      BY <1>1, <3>2, PathStep
    <3>4. Len(OnDisk(l)) = Len(l.path)
      BY <2>4, <2>5, <3>2, <3>3, MixedFacts DEF OnDisk
    <3> QED BY <2>4, <2>5, <3>4
  <2>6. CASE pc # "rename"
    <3>1. OnDisk(l) = l.path
      BY <2>6 DEF OnDisk
    <3>2. Lookup(l.path) = l.node
      BY <1>1, <2>3, <2>4, <3>1, LookupFinds
    <3> QED BY <2>4, <3>1, <3>2
  <2> QED BY <2>5, <2>6
<1> QED BY <1>1, <1>2, <1>3

LEMMA InvType ==
  ASSUME Inv
  PROVE  TypeOK
<1>1. FsInv /\ Control
  BY DEF Inv
<1>2. /\ where \in [Nodes -> Places \cup {Nowhere}]
      /\ \A m, n \in Nodes : Exists(m) /\ where[m] = where[n] => m = n
  BY <1>1 DEF FsInv, Tree, Exists
<1>3. \A i \in DOMAIN stack : stack[i].left \subseteq Entries(stack[i].dir)
  <2>1. CASE stack = <<>>
    BY <2>1
  <2>2. CASE stack # <<>>
    <3>1. StackInv(where, stack)
      BY <1>1, <2>2 DEF Control, Inv, DeleteInv
    <3>2. DOMAIN stack = 1 .. Len(stack)
      BY <3>1 DEF StackInv
    <3> QED BY <3>1, <3>2 DEF StackInv, FrameInv, EntriesIn, Entries, Members, Exists
  <2> QED BY <2>1, <2>2
<1>4. /\ pc \in {"idle", "delete", "move", "unlink", "rename", "readdir", "delete_failed",
                 "leaf", "ask", "expunge", "end"}
      /\ pc = "idle" <=> tool = "none"
      /\ chosen \subseteq Nodes /\ outcome \in [error : BOOLEAN, spared : SUBSET Nodes]
  BY <1>1 DEF Control, Outcomes
<1>5. fresh \subseteq Nodes /\ aged \subseteq Nodes
  BY <1>1 DEF FsInv
<1>6. \A l \in todo : l.node \in Nodes /\ l.path # <<>>
  BY InvLeaves
<1> QED BY <1>2, <1>3, <1>4, <1>5, <1>6 DEF TypeOK

LEMMA InvDone ==
  ASSUME Inv
  PROVE  DoneAsAsked
<1> SUFFICES ASSUME pc = "end", ~outcome.error, NEW n \in chosen \ outcome.spared
             PROVE  CASE tool = "delete" -> Exists(n) /\ where[n].del
                      [] tool = "undelete" -> Live(n)
                      [] tool = "expunge" -> ~Exists(n)
  BY DEF DoneAsAsked
<1>1. n \in Nodes /\ Tree(where) /\ (tool = "delete" \/ tool = "undelete" \/ tool = "expunge")
  BY DEF Inv, FsInv, Control
<1>2. CASE tool = "delete"
  <2>1. where[n] # Nowhere /\ where[n].del
    BY <1>2 DEF Inv, DeleteInv
  <2> QED BY <1>2, <2>1 DEF Exists
<1>3. CASE tool = "undelete"
  <2>1. UndeleteInv
    BY <1>3 DEF Inv
  <2>2. Work = {}
    BY <2>1 DEF UndeleteInv, Work, InHand
  <2>3. LiveIn(where, n)
    BY <2>1, <2>2 DEF UndeleteInv, Recovered
  <2>4. Live(n)
    BY <1>1, <2>3, LiveBridge
  <2> QED BY <1>3, <2>4
<1>4. CASE tool = "expunge"
  <2>1. where[n] = Nowhere
    BY <1>4 DEF Inv, ExpungeInv
  <2> QED BY <1>4, <2>1 DEF Exists
<1> QED BY <1>1, <1>2, <1>3, <1>4

----------------------------------------------------------------------------
(* The theorems                                                            *)

LEMMA Invariance ==
  ASSUME Allowed = {}
  PROVE  Spec => []Inv
<1>1. Inv /\ [Next]_vars => Inv'
  BY StepInv, StutterInv
<1> QED BY <1>1, InitInv, PTL DEF Spec

(* The nodes are in directories of the file system, alone with their name  *)
(* and mark, the tools are where their control can be, and each frame of   *)
(* delete's stack holds entries of its directory.                          *)
THEOREM TypeCorrect ==
  ASSUME Allowed = {}
  PROVE  Spec => []TypeOK
BY Invariance, InvType, PTL

(* Whichever renames of a delete -r or an undelete fail, and wherever a    *)
(* tool is killed but between the renames of one undelete, what is in a    *)
(* marked directory is marked too, so that undelete and expunge find it:   *)
(* recursive_delete marks the members before the directory, do_undelete    *)
(* takes the marks off from the last to the first.                         *)
THEOREM MarksAreKept ==
  ASSUME Allowed = {}
  PROVE  Spec => []MarkedInside
BY Invariance, InvMarked, PTL

(* The paths in undelete's and expunge's tree lead to the nodes they were  *)
(* made for, whatever has been renamed since the tree was built:           *)
(* change_path follows each rename in the paths that are left.             *)
THEOREM LeavesAgree ==
  ASSUME Allowed = {}
  PROVE  Spec => []TreeAgrees
<1>1. Inv => TreeAgrees
  BY InvLeaves DEF TreeAgrees
<1> QED BY <1>1, Invariance, PTL

(* A tool that ends without an error has marked, recovered or destroyed    *)
(* all it had chosen but what the user refused, the directories around     *)
(* what was kept and what is in a directory that was not recovered.        *)
THEOREM AllIsDone ==
  ASSUME Allowed = {}
  PROVE  Spec => []DoneAsAsked
BY Invariance, InvDone, PTL

(* A node without a mark on its path is destroyed by no tool, but by an    *)
(* undelete to which the user has agreed, or with -f: not by delete, whose *)
(* unlink_completely makes room for the mark among deleted namesakes only, *)
(* nor by expunge.                                                         *)
THEOREM LiveStays ==
  ASSUME Allowed = {}
  PROVE  Spec => LiveIsKept
<1>1. Inv /\ [Next]_vars => [\A n \in Nodes : Live(n) /\ where'[n] = Nowhere => n \in agreed]_vars
  <2> SUFFICES ASSUME Inv, Next
               PROVE  \A n \in Nodes : Live(n) /\ where'[n] = Nowhere => n \in agreed
    OBVIOUS
  <2>1. Kept /\ Tree(where)
    BY StepInv DEF Inv, FsInv
  <2> QED BY <2>1, LiveBridge DEF Kept
<1> QED BY <1>1, Invariance, PTL DEF Spec, LiveIsKept

(* expunge -t destroys nothing that was deleted later than that.           *)
THEOREM YoungStay ==
  ASSUME Allowed = {}
  PROVE  Spec => AgeIsRespected
<1>1. Inv /\ [Next]_vars => [\A n \in Nodes : tool = "expunge" /\ "t" \in opts /\ Exists(n) /\ where'[n] = Nowhere
                               => n \in aged]_vars
  <2> SUFFICES ASSUME Inv, Next
               PROVE  \A n \in Nodes : tool = "expunge" /\ "t" \in opts /\ Exists(n) /\ where'[n] = Nowhere
                               => n \in aged
    OBVIOUS
  <2> QED BY StepInv DEF Old, Exists
<1> QED BY <1>1, Invariance, PTL DEF Spec, AgeIsRespected
=============================================================================
