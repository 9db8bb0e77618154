----------------------------- MODULE SheetProofs -----------------------------
(***************************************************************************)
(* What is proved about Sheet.                                             *)
(***************************************************************************)
EXTENDS Sheet, FiniteSetTheorems, WellFoundedInduction, TLAPS

----------------------------------------------------------------------------
(* Induction over numbers and folds                                        *)

(* A set of naturals has a least element.                                  *)
LEMMA Least ==
  ASSUME NEW T \in SUBSET Nat, T # {}
  PROVE  \E n \in T : \A m \in T : n <= m
<1> DEFINE R == OpToRel(<, Nat)
<1>1. IsWellFoundedOn(R, Nat)
  BY NatLessThanWellFounded
<1>2. PICK n \in T : \A m \in T : ~(<<m, n>> \in R)
  <2> HIDE DEF R
  <2> QED BY <1>1, WFMin
<1>3. \A n1, m \in Nat : <<m, n1>> \in R <=> m < n1
  BY DEF OpToRel
<1>4. ASSUME NEW m \in T
      PROVE  ~(m < n)
  <2> HIDE DEF R
  <2>1. m \in Nat /\ n \in Nat
    OBVIOUS
  <2>2. ~(<<m, n>> \in R)
    BY <1>2
  <2> QED BY <2>1, <2>2, <1>3
<1> HIDE DEF R
<1> QED BY <1>4, SMT

(* Induction over the naturals, for a set instead of a predicate.          *)
LEMMA SetInduction ==
  ASSUME NEW T, 0 \in T, \A n \in Nat : n \in T => n + 1 \in T
  PROVE  Nat \subseteq T
<1> SUFFICES ASSUME Nat \ T # {}
             PROVE  FALSE
  OBVIOUS
<1>1. PICK n \in Nat \ T : \A m \in Nat \ T : n <= m
  BY Least
<1>2. n # 0
  OBVIOUS
<1>3. n - 1 \in Nat /\ n - 1 \notin Nat \ T
  BY <1>1, <1>2
<1> QED BY <1>3

(* The same up to a number.                                                *)
LEMMA UpTo ==
  ASSUME NEW T, NEW N \in Nat, 0 \in T, \A n \in 1 .. N : n - 1 \in T => n \in T
  PROVE  0 .. N \subseteq T
<1> DEFINE U == {n \in Nat : n <= N => n \in T}
<1>1. 0 \in U
  OBVIOUS
<1>2. ASSUME NEW n \in Nat, n \in U
      PROVE  n + 1 \in U
  BY <1>2
<1>3. Nat \subseteq U
  <2> HIDE DEF U
  <2> QED BY <1>1, <1>2, SetInduction
<1> QED BY <1>3

(* A set of naturals with a bound has a largest element.                   *)
LEMMA Greatest ==
  ASSUME NEW N \in Nat, NEW T \in SUBSET (0 .. N), T # {}
  PROVE  Max(T) \in T /\ \A m \in T : m <= Max(T)
<1> DEFINE U == {N - m : m \in T}
<1>1. U \in SUBSET Nat /\ U # {}
  <2>1. \A m \in T : N - m \in Nat
    OBVIOUS
  <2> QED BY <2>1
<1>2. PICK u \in U : \A w \in U : u <= w
  <2> HIDE DEF U
  <2> QED BY <1>1, Least
<1>3. PICK n \in T : u = N - n
  OBVIOUS
<1>4. \A m \in T : n >= m
  <2> TAKE m \in T
  <2>1. N - n <= N - m
    BY <1>2, <1>3
  <2> QED BY <2>1
<1>5. \E n1 \in T : \A m \in T : n1 >= m
  BY <1>4
<1>6. Max(T) \in T /\ \A m \in T : Max(T) >= m
  BY <1>5, Zenon DEF Max
<1> QED BY <1>6

(* And a smallest one.                                                     *)
LEMMA Smallest ==
  ASSUME NEW T \in SUBSET Nat, T # {}
  PROVE  Min(T) \in T /\ \A m \in T : Min(T) <= m
<1>1. \E n \in T : \A m \in T : n <= m
  BY Least
<1> QED BY <1>1, Zenon DEF Min

(* The largest element of 1 .. k is k.                                     *)
LEMMA MaxUpTo ==
  ASSUME NEW k \in Nat \ {0}
  PROVE  Max(1 .. k) = k /\ (1 .. k) \ {k} = 1 .. k - 1
<1>1. 1 .. k \in SUBSET (0 .. k) /\ 1 .. k # {}
  BY SMT
<1>2. Max(1 .. k) \in 1 .. k /\ \A m \in 1 .. k : m <= Max(1 .. k)
  BY <1>1, Greatest
<1>3. k \in 1 .. k
  OBVIOUS
<1>4. Max(1 .. k) \in Int /\ Max(1 .. k) <= k /\ k <= Max(1 .. k)
  BY <1>2, <1>3
<1> QED BY <1>4

(* A fold over the positions 1 to n, in the form that FoldLeft gives it.   *)
IsFold(g, n, S, b, F) ==
  /\ g \in [SUBSET (1 .. n) -> S]
  /\ g = [s \in SUBSET (1 .. n) |-> IF s = {} THEN b ELSE F[<<g[s \ {Max(s)}], Max(s)>>]]

(* It is defined.                                                          *)
LEMMA FoldExists ==
  ASSUME NEW n \in Nat, NEW S, NEW b \in S, NEW F \in [S \X (1 .. n) -> S]
  PROVE  \E g : IsFold(g, n, S, b, F)
<1> DEFINE Folds(k, g) == /\ g \in [SUBSET (1 .. k) -> S]
                          /\ \A s \in SUBSET (1 .. k) :
                               g[s] = IF s = {} THEN b ELSE F[<<g[s \ {Max(s)}], Max(s)>>]
<1> DEFINE T == {k \in 0 .. n : \E g : Folds(k, g)}
<1>1. 0 \in T
  <2> DEFINE g == [s \in SUBSET (1 .. 0) |-> b]
  <2>1. SUBSET (1 .. 0) = {{}}
    BY SMT
  <2>2. Folds(0, g)
    BY <2>1
  <2>3. 0 \in 0 .. n
    OBVIOUS
  <2> HIDE DEF g, Folds
  <2> QED BY <2>2, <2>3
<1>2. ASSUME NEW k \in 1 .. n, k - 1 \in T
      PROVE  k \in T
  <2>1. PICK g : Folds(k - 1, g)
    BY <1>2
  <2> DEFINE h == [s \in SUBSET (1 .. k) |->
                     IF k \in s THEN F[<<g[s \ {k}], k>>] ELSE g[s]]
  <2>2. ASSUME NEW s \in SUBSET (1 .. k), k \in s
        PROVE  Max(s) = k /\ s \ {k} \in SUBSET (1 .. k - 1) /\ k \notin s \ {k}
    <3>1. s \in SUBSET (0 .. k) /\ s # {} /\ k \in Nat
      BY <2>2
    <3>2. Max(s) \in s /\ \A m \in s : m <= Max(s)
      BY <3>1, Greatest
    <3>3. Max(s) \in 1 .. k /\ k <= Max(s)
      BY <3>2, <2>2
    <3> QED BY <3>3
  <2>3. ASSUME NEW s \in SUBSET (1 .. k), k \notin s
        PROVE  s \in SUBSET (1 .. k - 1)
    BY <2>3
  <2>4. ASSUME NEW s \in SUBSET (1 .. k)
        PROVE  /\ h[s] \in S
               /\ h[s] = IF s = {} THEN b ELSE F[<<h[s \ {Max(s)}], Max(s)>>]
    <3>1. CASE k \in s
      <4>1. h[s] = F[<<g[s \ {k}], k>>] /\ h[s \ {k}] = g[s \ {k}] /\ g[s \ {k}] \in S
        BY <3>1, <2>1, <2>2
      <4> QED BY <4>1, <3>1, <2>2
    <3>2. CASE k \notin s
      <4>1. s \in SUBSET (1 .. k - 1) /\ h[s] = g[s]
        BY <3>2, <2>3
      <4>2. CASE s = {}
        BY <4>1, <4>2, <2>1
      <4>3. CASE s # {}
        <5>1. s \in SUBSET (0 .. k) /\ k \in Nat
          OBVIOUS
        <5>2. Max(s) \in s
          BY <5>1, <4>3, Greatest
        <5>3. h[s \ {Max(s)}] = g[s \ {Max(s)}]
          BY <3>2
        <5> QED BY <4>1, <4>3, <5>3, <2>1
      <4> QED BY <4>2, <4>3
    <3> QED BY <3>1, <3>2
  <2>5. Folds(k, h)
    <3> HIDE DEF h
    <3>1. h \in [SUBSET (1 .. k) -> S]
      BY <2>4 DEF h
    <3> QED BY <3>1, <2>4
  <2> QED
    <3> HIDE DEF h, Folds
    <3> QED BY <2>5
<1>3. n \in T
  <2> HIDE DEF T
  <2>1. 0 .. n \subseteq T
    BY <1>1, <1>2, UpTo
  <2> QED BY <2>1
<1>4. PICK g : Folds(n, g)
  BY <1>3
<1>5. g = [s \in SUBSET (1 .. n) |-> IF s = {} THEN b ELSE F[<<g[s \ {Max(s)}], Max(s)>>]]
  BY <1>4
<1> QED BY <1>4, <1>5 DEF IsFold

(* What is true at every position of a fold is true of its result.         *)
LEMMA FoldReaches ==
  ASSUME NEW n \in Nat, NEW g, NEW S,
         g[{}] \in S,
         \A k \in 1 .. n : g[1 .. k - 1] \in S => g[1 .. k] \in S
  PROVE  g[1 .. n] \in S
<1> DEFINE T == {k \in Nat : g[1 .. k] \in S}
<1>1. 0 \in T
  <2>1. 1 .. 0 = {}
    BY SMT
  <2> QED BY <2>1
<1>2. ASSUME NEW k \in 1 .. n, k - 1 \in T
      PROVE  k \in T
  BY <1>2
<1>3. 0 .. n \subseteq T
  <2> HIDE DEF T
  <2> QED BY <1>1, <1>2, UpTo
<1> QED BY <1>3

LEMMA MaxIn ==
  ASSUME NEW n \in Nat, NEW s \in SUBSET (1 .. n), s # {}
  PROVE  Max(s) \in 1 .. n /\ s \ {Max(s)} \in SUBSET (1 .. n)
<1>1. s \in SUBSET (0 .. n)
  BY SMT
<1>2. Max(s) \in s
  BY <1>1, Greatest
<1> QED BY <1>2

LEMMA Prefix ==
  ASSUME NEW n \in Nat, NEW k \in 1 .. n
  PROVE  /\ 1 .. k \in SUBSET (1 .. n) /\ 1 .. k # {}
         /\ Max(1 .. k) = k /\ (1 .. k) \ {k} = 1 .. k - 1
<1>1. k \in Nat \ {0} /\ k \in 1 .. k
  OBVIOUS
<1>2. \A j \in 1 .. k : j \in 1 .. n
  OBVIOUS
<1> QED BY <1>1, <1>2, MaxUpTo

(* A set that is not larger than another one goes into it one to one.      *)
LEMMA OneToOne ==
  ASSUME NEW S, NEW T, IsFiniteSet(S), IsFiniteSet(T), Cardinality(S) <= Cardinality(T)
  PROVE  \E f \in [S -> T] : IsInjective(f)
<1> DEFINE m == Cardinality(S)
           n == Cardinality(T)
<1>1. m \in Nat /\ n \in Nat /\ ExistsBijection(1 .. m, S) /\ ExistsBijection(1 .. n, T)
  BY FS_CardinalityType
<1>2. PICK f \in Bijection(1 .. m, S) : TRUE
  BY <1>1 DEF ExistsBijection
<1>3. PICK g \in Bijection(1 .. n, T) : TRUE
  BY <1>1 DEF ExistsBijection
<1>4. /\ f \in [1 .. m -> S] /\ (\A t \in S : \E s \in 1 .. m : f[s] = t)
      /\ g \in [1 .. n -> T] /\ (\A a, b \in 1 .. n : g[a] = g[b] => a = b)
  BY <1>2, <1>3 DEF Bijection, Injection, Surjection, IsInjective
<1>5. \A i \in 1 .. m : i \in 1 .. n
  BY <1>1
<1> DEFINE place == [w \in S |-> CHOOSE s \in 1 .. m : f[s] = w]
<1> HIDE DEF m, n
<1>6. \A w \in S : place[w] \in 1 .. m /\ f[place[w]] = w
  BY <1>4
<1> HIDE DEF place
<1> DEFINE h == [w \in S |-> g[place[w]]]
<1>7. h \in [S -> T]
  BY <1>4, <1>5, <1>6
<1>8. \A a, b \in S : h[a] = h[b] => a = b
  BY <1>4, <1>5, <1>6
<1>9. IsInjective(h)
  <2> HIDE DEF h
  <2> QED BY <1>7, <1>8 DEF IsInjective
<1> HIDE DEF h
<1> QED BY <1>7, <1>9

----------------------------------------------------------------------------
(* Sheets                                                                  *)

EntTypes == [pos : Pos, locked : BOOLEAN, valid : BOOLEAN, v : Data, text : Data,
             expr : {"none", "num", "str"}, vf : SUBSET {FIX_ROW, FIX_COL}, vp : Ents \union {NULL}]
Sheets == [tbl : [Pos -> Ents \union {NULL}], ent : [Ents -> EntTypes],
           fix : Seq(SUBSET Ents), range : Seq(Ents), full : BOOLEAN]

Used(h) == Placed(h) \union Saved(h)

(* Every deletion is of something, and there are not too many.             *)
Short(fix) == Len(fix) <= MaxSaved /\ \A i \in DOMAIN fix : fix[i] # {}

(* Each ent is in one place, and everything refers to ents in use.         *)
Sound(h) ==
  /\ \A p \in Pos : h.tbl[p] # NULL => h.ent[h.tbl[p]].pos = p /\ h.tbl[p] \notin Saved(h)
  /\ \A e \in Used(h) : h.ent[e].expr # "none" => h.ent[e].vp \in Used(h)
  /\ \A i \in DOMAIN h.range : h.range[i] \in Used(h)

(* Nor does what is in the table refer to what has been deleted.           *)
Alive(h) ==
  /\ \A e \in Placed(h) : h.ent[e].expr # "none" => h.ent[e].vp \in Placed(h)
  /\ \A i \in DOMAIN h.range : h.range[i] \in Placed(h)

Good(h) == Sound(h) /\ Alive(h)

(* The ents in use are where and as they were, except at the places ps.    *)
Same(h, s, ps) ==
  /\ Placed(h) \subseteq Placed(s) /\ s.fix = h.fix /\ s.range = h.range
  /\ \A e \in Used(h) : s.ent[e].pos = h.ent[e].pos
  /\ \A e \in Used(h) : e \in Saved(h) \/ h.ent[e].pos \notin ps => s.ent[e] = h.ent[e]

(* The cells of the table are finitely many.                               *)
LEMMA PosFinite == IsFiniteSet(Pos) /\ Pos # {} /\ \A p \in Pos : p[1] \in Int /\ p[2] \in Int
<1>1. MaxRows \in Nat \ {0} /\ MaxCols \in Nat \ {0}
  BY SheetAssumption
<1>2. <<0, 0>> \in Pos
  BY <1>1 DEF Pos
<1>3. \A p \in Pos : p[1] \in Int /\ p[2] \in Int
  BY <1>1 DEF Pos
<1>4. IsFiniteSet(0 .. MaxRows - 1) /\ IsFiniteSet(0 .. MaxCols - 1)
  BY <1>1, FS_Interval
<1>5. IsFiniteSet(Pos)
  BY <1>4, FS_Product DEF Pos
<1> QED BY <1>2, <1>3, <1>5

(* An ent that is not in use.                                              *)
LEMMA ZeroDatum == 0 \in Data
BY SheetAssumption DEF Data

LEMMA BlankEnt == Blank \in EntTypes
BY ZeroDatum, SheetAssumption DEF Blank, EntTypes, Pos

(* What lookat takes.                                                      *)
LEMMA TakenExists ==
  ASSUME NEW h, NEW new, new \subseteq Pos, Cardinality(new) <= Cardinality(Free(h))
  PROVE  \E f \in [new -> Free(h)] : IsInjective(f)
<1>1. IsFiniteSet(new)
  BY PosFinite, FS_Subset
<1>2. IsFiniteSet(Free(h))
  BY SheetAssumption, FS_Subset DEF Free
<1> QED BY <1>1, <1>2, OneToOne

(* lookat: the places become cells, and nothing else changes.              *)
LEMMA Lookat ==
  ASSUME NEW h \in Sheets, NEW ps, NEW s, s = lookat(h, ps)
  PROVE  /\ s \in Sheets
         /\ ~s.full =>
              /\ ~h.full /\ ps \subseteq Pos
              /\ \A p \in ps : s.tbl[p] \in Placed(s)
              /\ \A p \in Pos : \/ s.tbl[p] = h.tbl[p]
                                \/ /\ h.tbl[p] = NULL /\ p \in ps /\ s.tbl[p] \in Free(h)
                                   /\ s.ent[s.tbl[p]] = [Blank EXCEPT !.pos = p]
              /\ \A p, q \in Pos : s.tbl[p] = s.tbl[q] /\ h.tbl[p] = NULL /\ s.tbl[p] # NULL => p = q
              /\ \A e \in Used(h) : s.ent[e] = h.ent[e]
              /\ s.fix = h.fix /\ s.range = h.range
<1> DEFINE new == ps \ Cells(h)
           Taken == CHOOSE f \in [new -> Free(h)] : IsInjective(f)
<1>1. CASE ~(ps \subseteq Pos) \/ Cardinality(new) > Cardinality(Free(h))
  <2>1. s = Full(h)
    BY <1>1 DEF lookat
  <2>2. s \in Sheets /\ s.full
    BY <2>1 DEF Full, Sheets
  <2> QED BY <2>2
<1>2. CASE ps \subseteq Pos /\ ~(Cardinality(new) > Cardinality(Free(h))) /\ new = {}
  <2>1. s = h
    BY <1>2 DEF lookat
  <2>2. \A p \in ps : h.tbl[p] # NULL
    BY <1>2 DEF Cells
  <2> QED BY <1>2, <2>1, <2>2 DEF Placed
<1>3. CASE ps \subseteq Pos /\ ~(Cardinality(new) > Cardinality(Free(h))) /\ new # {}
  <2>1. Taken \in [new -> Free(h)] /\ IsInjective(Taken)
    <3>1. new \subseteq Pos
      BY <1>3
    <3>2. Cardinality(new) \in Nat /\ Cardinality(Free(h)) \in Nat
      <4>1. IsFiniteSet(new)
        BY <3>1, PosFinite, FS_Subset
      <4>2. IsFiniteSet(Free(h))
        BY SheetAssumption, FS_Subset DEF Free
      <4> QED BY <4>1, <4>2, FS_CardinalityType
    <3>3. Cardinality(new) <= Cardinality(Free(h))
      <4> HIDE DEF new
      <4> QED BY <3>2, <1>3
    <3>4. \E f \in [new -> Free(h)] : IsInjective(f)
      <4> HIDE DEF new
      <4> QED BY <3>1, <3>3, TakenExists
    <3> HIDE DEF new
    <3> QED BY <3>4
  <2>2. s = [h EXCEPT
              !.tbl = [p \in Pos |-> IF p \in new THEN Taken[p] ELSE h.tbl[p]],
              !.ent = [e \in Ents |-> IF \E p \in new : Taken[p] = e
                                      THEN [Blank EXCEPT !.pos = CHOOSE p \in new : Taken[p] = e]
                                      ELSE h.ent[e]]]
    BY <1>3 DEF lookat
  <2>3. new \subseteq Pos /\ \A p \in Pos : p \in new <=> p \in ps /\ h.tbl[p] = NULL
    BY <1>3 DEF Cells
  <2> HIDE DEF new, Taken
  <2>4. \A p \in new : Taken[p] \in Free(h) /\ Taken[p] \in Ents /\ Taken[p] # NULL /\ Taken[p] \notin Used(h)
    BY <2>1, SheetAssumption DEF Free, Used
  <2>5. \A p, q \in new : Taken[p] = Taken[q] => p = q
    BY <2>1 DEF IsInjective
  <2>6. s.fix = h.fix /\ s.range = h.range /\ s.full = h.full
    BY <2>2 DEF Sheets
  <2>7. /\ s.tbl = [p \in Pos |-> IF p \in new THEN Taken[p] ELSE h.tbl[p]]
        /\ s.ent = [e \in Ents |-> IF \E p \in new : Taken[p] = e
                                      THEN [Blank EXCEPT !.pos = CHOOSE p \in new : Taken[p] = e]
                                      ELSE h.ent[e]]
    BY <2>2 DEF Sheets
  <2>8. \A p \in new : s.ent[Taken[p]] = [Blank EXCEPT !.pos = p]
    <3> SUFFICES ASSUME NEW p \in new
                 PROVE  s.ent[Taken[p]] = [Blank EXCEPT !.pos = p]
      OBVIOUS
    <3>1. (CHOOSE q \in new : Taken[q] = Taken[p]) = p
      BY <2>5
    <3> QED BY <3>1, <2>7, <2>4, ZenonT(60)
  <2>9. \A e \in Used(h) : s.ent[e] = h.ent[e]
    <3>1. Used(h) \subseteq Ents
      BY DEF Used, Placed, Saved, Sheets, ToSet
    <3> QED BY <3>1, <2>4, <2>7
  <2>10. \A p \in Pos : s.tbl[p] = IF p \in new THEN Taken[p] ELSE h.tbl[p]
    BY <2>7
  <2>11. s.tbl \in [Pos -> Ents \union {NULL}]
    BY <2>7, <2>4 DEF Sheets
  <2>12. s.ent \in [Ents -> EntTypes]
    <3> SUFFICES ASSUME NEW e \in Ents
                 PROVE  s.ent[e] \in EntTypes
      BY <2>7
    <3>1. CASE \E p \in new : Taken[p] = e
      <4>1. PICK p \in new : s.ent[e] = [Blank EXCEPT !.pos = p]
        BY <3>1, <2>8
      <4>2. p \in Pos
        BY <2>3
      <4> HIDE DEF new, Taken
      <4> QED BY <4>1, <4>2, BlankEnt DEF EntTypes
    <3>2. CASE ~ \E p \in new : Taken[p] = e
      BY <3>2, <2>7 DEF Sheets
    <3> QED BY <3>1, <3>2
  <2>13. s \in Sheets
    <3>1. s = [tbl |-> s.tbl, ent |-> s.ent, fix |-> s.fix, range |-> s.range, full |-> s.full]
      BY <2>2 DEF Sheets
    <3> QED BY <3>1, <2>6, <2>11, <2>12 DEF Sheets
  <2>14. \A p \in ps : s.tbl[p] \in Placed(s)
    <3> SUFFICES ASSUME NEW p \in ps
                 PROVE  s.tbl[p] # NULL /\ p \in Pos
      BY DEF Placed
    <3> QED BY <1>3, <2>3, <2>4, <2>10
  <2>15. ASSUME NEW p \in Pos, NEW q \in Pos, s.tbl[p] = s.tbl[q], h.tbl[p] = NULL, s.tbl[p] # NULL
         PROVE  p = q
    <3>1. p \in new /\ s.tbl[p] = Taken[p]
      BY <2>15, <2>10
    <3>2. CASE q \in new
      BY <3>1, <3>2, <2>5, <2>10, <2>15
    <3>3. CASE q \notin new
      <4>1. h.tbl[q] = Taken[p]
        BY <3>1, <3>3, <2>10, <2>15
      <4>2. Taken[p] \in Used(h)
        BY <4>1, <2>4, <3>1 DEF Used, Placed
      <4> QED BY <4>2, <3>1, <2>4
    <3> QED BY <3>2, <3>3
  <2>16. \A p \in Pos : \/ s.tbl[p] = h.tbl[p]
                        \/ /\ h.tbl[p] = NULL /\ p \in ps /\ s.tbl[p] \in Free(h)
                           /\ s.ent[s.tbl[p]] = [Blank EXCEPT !.pos = p]
    BY <2>10, <2>3, <2>4, <2>8
  <2> QED BY <1>3, <2>6, <2>9, <2>13, <2>14, <2>15, <2>16
<1> QED BY <1>1, <1>2, <1>3

LEMMA UsedEnts ==
  ASSUME NEW h \in Sheets
  PROVE  /\ Used(h) \subseteq Ents /\ Placed(h) \subseteq Used(h) /\ Saved(h) \subseteq Used(h)
         /\ NULL \notin Used(h)
         /\ \A p \in Pos : h.tbl[p] # NULL <=> h.tbl[p] \in Placed(h)
         /\ \A e \in Placed(h) : \E p \in Pos : h.tbl[p] = e
         /\ \A e \in Ents : e \notin Used(h) <=> e \in Free(h)
BY SheetAssumption DEF Used, Placed, Saved, Free, Sheets, ToSet

(* What changes nothing twice changes nothing.                             *)
LEMMA SameTwice ==
  ASSUME NEW h, NEW s, NEW t, NEW ps, NEW qs, Same(h, s, ps), Same(s, t, qs)
  PROVE  Same(h, t, ps \union qs)
<1>1. Used(h) \subseteq Used(s) /\ Saved(h) = Saved(s)
  BY DEF Same, Used, Saved
<1> QED BY <1>1 DEF Same

LEMMA SameMore ==
  ASSUME NEW h, NEW s, NEW ps, NEW qs, Same(h, s, ps), ps \subseteq qs
  PROVE  Same(h, s, qs)
BY DEF Same

(* lookat leaves a sheet as good as it was.                                *)
LEMMA LookatGood ==
  ASSUME NEW h \in Sheets, NEW ps, NEW s, s = lookat(h, ps), ~s.full, Sound(h)
  PROVE  Sound(s) /\ Same(h, s, {}) /\ (Alive(h) => Alive(s))
<1>1. /\ s \in Sheets /\ ~h.full /\ ps \subseteq Pos
      /\ \A p \in Pos : \/ s.tbl[p] = h.tbl[p]
                        \/ /\ h.tbl[p] = NULL /\ s.tbl[p] \in Free(h)
                           /\ s.ent[s.tbl[p]] = [Blank EXCEPT !.pos = p]
      /\ \A e \in Used(h) : s.ent[e] = h.ent[e]
      /\ s.fix = h.fix /\ s.range = h.range
  BY Lookat
<1>2. Saved(s) = Saved(h)
  BY <1>1 DEF Saved
<1>3. Placed(h) \subseteq Placed(s)
  <2>1. \A p \in Pos : h.tbl[p] # NULL => s.tbl[p] = h.tbl[p]
    BY <1>1
  <2> QED BY <2>1 DEF Placed
<1>4. \A e \in Placed(s) : e \notin Placed(h) => s.ent[e].expr = "none"
  <2>1. \A p \in Pos : s.tbl[p] \in Placed(h) \/ s.tbl[p] = NULL \/ s.ent[s.tbl[p]].expr = "none"
    BY <1>1 DEF Blank, Placed
  <2> QED BY <2>1 DEF Placed
<1>5. Same(h, s, {})
  BY <1>1, <1>3 DEF Same
<1>6. Used(h) \subseteq Used(s)
  BY <1>2, <1>3 DEF Used
<1>7. Sound(s)
  <2>1. ASSUME NEW p \in Pos, s.tbl[p] # NULL
        PROVE  s.ent[s.tbl[p]].pos = p /\ s.tbl[p] \notin Saved(s)
    <3>1. CASE s.tbl[p] = h.tbl[p]
      <4>1. h.tbl[p] \in Used(h)
        BY <2>1, <3>1 DEF Used, Placed
      <4> QED BY <4>1, <3>1, <2>1, <1>1, <1>2 DEF Sound
    <3>2. CASE s.tbl[p] # h.tbl[p]
      BY <3>2, <1>1, <1>2 DEF Blank, Free
    <3> QED BY <3>1, <3>2
  <2>2. ASSUME NEW e \in Used(s), s.ent[e].expr # "none"
        PROVE  s.ent[e].vp \in Used(s)
    <3>1. e \in Used(h)
      BY <2>2, <1>2, <1>4 DEF Used
    <3> QED BY <3>1, <2>2, <1>1, <1>6 DEF Sound
  <2>3. \A i \in DOMAIN s.range : s.range[i] \in Used(s)
    BY <1>1, <1>6 DEF Sound
  <2> QED BY <2>1, <2>2, <2>3 DEF Sound
<1>8. ASSUME Alive(h)
      PROVE  Alive(s)
  BY <1>8, <1>1, <1>3, <1>4 DEF Alive, Used
<1> QED BY <1>5, <1>7, <1>8

(* Put: one cell is written.                                               *)
LEMMA PutGood ==
  ASSUME NEW h \in Sheets, NEW p \in Pos, h.tbl[p] # NULL, NEW w \in EntTypes,
         NEW s, s = Put(h, p, w)
  PROVE  /\ s \in Sheets /\ s.full = h.full /\ s.tbl = h.tbl
         /\ s.fix = h.fix /\ s.range = h.range
         /\ \A e \in Ents : e # h.tbl[p] => s.ent[e] = h.ent[e]
         /\ s.ent[h.tbl[p]].pos = h.ent[h.tbl[p]].pos
         /\ Sound(h) /\ (w.expr # "none" => w.vp \in Used(h)) => Sound(s)
         /\ Good(h) /\ (w.expr # "none" => w.vp \in Placed(h)) => Good(s)
<1> DEFINE e1 == h.tbl[p]
<1>1. e1 \in Ents /\ e1 \in Placed(h) /\ e1 \in Used(h)
  BY DEF Sheets, Placed, Used
<1>2. /\ s.ent = [h.ent EXCEPT ![e1] =
                    [w EXCEPT !.pos = h.ent[e1].pos]]
      /\ s.full = h.full /\ s.tbl = h.tbl /\ s.fix = h.fix /\ s.range = h.range
      /\ s = [tbl |-> s.tbl, ent |-> s.ent, fix |-> s.fix, range |-> s.range, full |-> s.full]
  BY DEF Put, Sheets
<1>3. h.ent \in [Ents -> EntTypes]
  BY DEF Sheets
<1>4. /\ \A e \in Ents : e # e1 => s.ent[e] = h.ent[e]
      /\ s.ent[e1].pos = h.ent[e1].pos /\ s.ent[e1].expr = w.expr /\ s.ent[e1].vp = w.vp
      /\ s.ent \in [Ents -> EntTypes]
  <2> DEFINE y == [w EXCEPT !.pos = h.ent[e1].pos]
  <2>1. h.ent[e1] \in EntTypes
    BY <1>1, <1>3
  <2>2. y \in EntTypes /\ y.pos = h.ent[e1].pos /\ y.expr = w.expr /\ y.vp = w.vp
    <3> HIDE DEF e1
    <3> QED BY <2>1 DEF EntTypes
  <2>3. s.ent = [h.ent EXCEPT ![e1] = y]
    BY <1>2
  <2> HIDE DEF y, e1
  <2> QED BY <1>1, <1>3, <2>2, <2>3
<1>5. s \in Sheets
  BY <1>2, <1>4 DEF Sheets
<1>6. Placed(s) = Placed(h) /\ Saved(s) = Saved(h) /\ Used(s) = Used(h)
  BY <1>2 DEF Placed, Saved, Used
<1>7. Used(h) \subseteq Ents
  BY UsedEnts
<1>8. ASSUME Sound(h), w.expr # "none" => w.vp \in Used(h)
      PROVE  Sound(s)
  <2>1. \A q \in Pos : s.tbl[q] # NULL => s.tbl[q] \in Ents
    BY <1>2 DEF Sheets
  <2> HIDE DEF e1
  <2> QED BY <2>1, <1>2, <1>4, <1>6, <1>7, <1>8 DEF Sound
<1>9. ASSUME Good(h), w.expr # "none" => w.vp \in Placed(h)
       PROVE  Good(s)
  <2>1. Sound(s)
    BY <1>8, <1>9 DEF Good, Used
  <2>2. Alive(s)
    <3> HIDE DEF e1
    <3> QED BY <1>2, <1>4, <1>6, <1>7, <1>9 DEF Good, Alive, Used
  <2> QED BY <2>1, <2>2 DEF Good
<1>10. \A e \in Ents : e # h.tbl[p] => s.ent[e] = h.ent[e]
  BY <1>4
<1> QED BY <1>2, <1>4, <1>5, <1>8, <1>9, <1>10

LEMMA PutSame ==
  ASSUME NEW h \in Sheets, NEW p \in Pos, h.tbl[p] # NULL, NEW w \in EntTypes,
         NEW s, s = Put(h, p, w), Sound(h), NEW ps, p \in ps
  PROVE  Same(h, s, ps)
<1> DEFINE e1 == h.tbl[p]
<1>1. e1 \in Ents /\ Used(h) \subseteq Ents
  BY UsedEnts DEF Sheets
<1>2. /\ s.tbl = h.tbl /\ s.fix = h.fix /\ s.range = h.range
      /\ \A e \in Ents : e # e1 => s.ent[e] = h.ent[e]
      /\ s.ent[e1].pos = h.ent[e1].pos
  BY PutGood
<1>3. h.ent[e1].pos = p /\ e1 \notin Saved(h)
  BY DEF Sound
<1>4. Placed(s) = Placed(h)
  BY <1>2 DEF Placed
<1> HIDE DEF e1
<1> QED BY <1>1, <1>2, <1>3, <1>4 DEF Same

(* What cells hold.                                                        *)
LEMMA NoExprEnt ==
  ASSUME NEW w \in EntTypes
  PROVE  /\ NoExpr(w) \in EntTypes /\ NoExpr(w).pos = w.pos /\ NoExpr(w).locked = w.locked
         /\ NoExpr(w).expr = "none"
BY DEF NoExpr, EntTypes

LEMMA ClearedEnt ==
  ASSUME NEW w \in EntTypes
  PROVE  Cleared(w) \in EntTypes /\ Cleared(w).pos = w.pos /\ Cleared(w).expr = "none"
<1> DEFINE y == NoExpr(w)
<1>1. y \in EntTypes /\ y.pos = w.pos /\ y.expr = "none"
  BY NoExprEnt
<1>2. Cleared(w) = [y EXCEPT !.valid = FALSE, !.v = 0, !.text = 0]
  BY DEF Cleared
<1> HIDE DEF y
<1> QED BY <1>1, <1>2, ZeroDatum DEF EntTypes

(* clearent                                                                *)
LEMMA ClearentGood ==
  ASSUME NEW h \in Sheets, NEW p \in Pos, h.tbl[p] # NULL, Sound(h),
         NEW s, s = clearent(h, p), ~s.full
  PROVE  /\ s \in Sheets /\ ~h.full /\ s.tbl = h.tbl /\ Sound(s) /\ Same(h, s, {p})
         /\ Alive(h) => Alive(s)
<1> DEFINE w == Cleared(h.ent[h.tbl[p]])
<1>1. ~h.full /\ s = Put(h, p, w)
  BY DEF clearent
<1>2. h.ent[h.tbl[p]] \in EntTypes
  BY DEF Sheets
<1>3. w \in EntTypes /\ w.expr = "none"
  BY <1>2, ClearedEnt
<1> HIDE DEF w
<1>4. s \in Sheets /\ s.full = h.full /\ s.tbl = h.tbl
  BY <1>1, <1>3, PutGood
<1>5. Same(h, s, {p}) /\ Sound(s)
  BY <1>1, <1>3, PutGood, PutSame
<1>6. Alive(h) => Alive(s)
  BY <1>1, <1>3, PutGood DEF Good
<1> QED BY <1>1, <1>4, <1>5, <1>6

(* copyent: only the cell at q is written, and cells its reference needs   *)
(* come to be.                                                             *)
LEMMA CopyentGood ==
  ASSUME NEW h \in Sheets, NEW q, NEW e \in Used(h), NEW d, Sound(h),
         NEW s, s = copyent(h, q, e, d)
  PROVE  /\ s \in Sheets
         /\ ~s.full => /\ ~h.full /\ q \in Pos /\ Sound(s) /\ (Alive(h) => Alive(s))
                       /\ Same(h, s, {q})
<1> DEFINE k == lookat(h, {q})
           n == clearent(k, q)
           w == n.ent[e]
           t == copye(Target(n, e), w.vf, d)
           r == lookat(n, {t})
<1>1. k \in Sheets /\ (~k.full => ~h.full /\ q \in Pos /\ k.tbl[q] \in Placed(k))
  BY Lookat
<1>2. ASSUME ~k.full
      PROVE  Sound(k) /\ (Alive(h) => Alive(k)) /\ Same(h, k, {}) /\ k.tbl[q] # NULL
  BY <1>1, <1>2, LookatGood DEF Placed
<1>3. n.full => n = k
  <2>1. CASE k.full
    BY <2>1 DEF clearent
  <2>2. CASE ~k.full
    <3> DEFINE y == Cleared(k.ent[k.tbl[q]])
    <3>1. n = Put(k, q, y)
      BY <2>2 DEF clearent
    <3>2. n.full = k.full
      <4> HIDE DEF n, y, k
      <4> QED BY <1>1, <3>1 DEF Put, Sheets
    <3> QED BY <3>2, <2>2
  <2> QED BY <2>1, <2>2
<1>4. CASE n.full
  <2>1. s = n
    BY <1>4 DEF copyent
  <2> QED BY <2>1, <1>3, <1>4, <1>1
<1>5. CASE ~n.full
  <2>1. ~k.full
    BY <1>5 DEF clearent
  <2>2. /\ q \in Pos /\ ~h.full /\ n \in Sheets /\ n.tbl = k.tbl
        /\ Sound(n) /\ (Alive(h) => Alive(n)) /\ Same(k, n, {q})
    <3> HIDE DEF n, k
    <3> QED BY <1>1, <1>2, <1>5, <2>1, ClearentGood DEF n
  <2>3. Same(h, n, {q}) /\ e \in Used(n)
    <3> HIDE DEF n, k
    <3>1. Same(h, n, {} \union {q})
      BY <1>2, <2>1, <2>2, SameTwice
    <3>2. {} \union {q} = {q}
      OBVIOUS
    <3>3. Same(h, n, {q})
      BY <3>1, <3>2
    <3> QED BY <3>3 DEF Same, Used, Saved
  <2>4. n.tbl[q] # NULL
    BY <2>1, <2>2, <1>2
  <2>5. e \in Ents /\ w \in EntTypes
    <3> HIDE DEF n
    <3> QED BY <2>2, <2>3, UsedEnts DEF Sheets, w
  <2>6. CASE w.expr # "none"
    <3>1. r \in Sheets /\ (~r.full => t \in Pos /\ r.tbl[t] \in Placed(r))
      <4> HIDE DEF n, t
      <4> QED BY <2>2, Lookat
    <3>2. s = IF r.full THEN r ELSE Put(r, q, [w EXCEPT !.vp = r.tbl[t]])
      <4>1. s = CASE n.full -> n
                  [] ~n.full /\ w.expr # "none" ->
                       IF r.full THEN r ELSE Put(r, q, [w EXCEPT !.vp = r.tbl[t]])
                  [] OTHER -> Put(n, q, w)
        BY DEF copyent
      <4> HIDE DEF n, w, r, t
      <4> QED BY <4>1, <1>5, <2>6
    <3>3. CASE r.full
      BY <3>1, <3>2, <3>3
    <3>4. CASE ~r.full
      <4> DEFINE y == [w EXCEPT !.vp = r.tbl[t]]
      <4>1. Sound(r) /\ (Alive(h) => Alive(r)) /\ Same(n, r, {})
        <5> HIDE DEF n, t
        <5> QED BY <2>2, <3>4, LookatGood
      <4>2. r.tbl[q] # NULL
        <5> HIDE DEF n, t, k
        <5>1. \A p \in Pos : r.tbl[p] = n.tbl[p] \/ n.tbl[p] = NULL
          <6>1. r = lookat(n, {t})
            OBVIOUS
          <6> DEFINE ps == {t}
          <6> HIDE DEF r, ps
          <6>2. r = lookat(n, ps)
            BY <6>1 DEF ps
          <6>3. \A p \in Pos : \/ r.tbl[p] = n.tbl[p]
                               \/ /\ n.tbl[p] = NULL /\ p \in ps /\ r.tbl[p] \in Free(n)
                                  /\ r.ent[r.tbl[p]] = [Blank EXCEPT !.pos = p]
            BY <2>2, <3>4, <6>2, Lookat
          <6> QED BY <6>3
        <5> HIDE DEF r
        <5> QED BY <5>1, <2>2, <2>4
      <4>3. y \in EntTypes /\ y.vp \in Placed(r)
        <5>1. r.tbl[t] \in Ents
          <6> HIDE DEF r
          <6> QED BY <3>1, <3>4, UsedEnts
        <5> HIDE DEF r, w, t
        <5> QED BY <5>1, <2>5, <3>1, <3>4 DEF EntTypes
      <4>4. s = Put(r, q, y)
        BY <3>2, <3>4
      <4>5. s \in Sheets /\ Sound(s) /\ (Alive(h) => Alive(s)) /\ Same(r, s, {q})
        <5> HIDE DEF r, y
        <5>1. s \in Sheets /\ Same(r, s, {q})
          BY <2>2, <3>1, <4>1, <4>2, <4>3, <4>4, PutGood, PutSame
        <5>2. Sound(s)
          <6>1. y.vp \in Used(r)
            BY <4>3 DEF Used
          <6> QED BY <2>2, <3>1, <3>4, <4>1, <4>2, <4>3, <4>4, <6>1, PutGood
        <5>3. ASSUME Alive(h)
              PROVE  Good(s)
          <6>1. Good(r)
            BY <4>1, <5>3 DEF Good
          <6> QED BY <2>2, <3>1, <4>2, <4>3, <4>4, <6>1, PutGood
        <5> QED BY <5>1, <5>2, <5>3 DEF Good
      <4>6. Same(h, s, {q})
        <5> HIDE DEF r, n
        <5>1. Same(h, r, {q} \union {})
          BY <2>3, <4>1, SameTwice
        <5>2. Same(h, s, ({q} \union {}) \union {q})
          BY <5>1, <4>5, SameTwice
        <5>3. ({q} \union {}) \union {q} = {q}
          OBVIOUS
        <5> QED BY <5>2, <5>3
      <4> QED BY <4>5, <4>6, <2>2
    <3> QED BY <3>3, <3>4
  <2>7. CASE w.expr = "none"
    <3>1. s = Put(n, q, w)
      <4>1. s = CASE n.full -> n
                  [] ~n.full /\ w.expr # "none" ->
                       IF r.full THEN r ELSE Put(r, q, [w EXCEPT !.vp = r.tbl[t]])
                  [] OTHER -> Put(n, q, w)
        BY DEF copyent
      <4> HIDE DEF n, w, r, t
      <4> QED BY <4>1, <1>5, <2>7
    <3>2. s \in Sheets /\ Sound(s) /\ (Alive(h) => Alive(s)) /\ Same(n, s, {q})
      <4> HIDE DEF n, w
      <4>1. n \in Sheets /\ n.tbl[q] # NULL /\ w \in EntTypes /\ Sound(n) /\ (Alive(h) => Alive(n))
        BY <2>2, <2>4, <2>5
      <4> SUFFICES ASSUME NEW m, m = n, NEW y, y = w
                   PROVE  s \in Sheets /\ Sound(s) /\ (Alive(h) => Alive(s)) /\ Same(m, s, {q})
        OBVIOUS
      <4>2. s = Put(m, q, y) /\ y.expr = "none"
        BY <2>7, <3>1
      <4>3. m \in Sheets /\ m.tbl[q] # NULL /\ y \in EntTypes /\ Sound(m) /\ (Alive(h) => Good(m))
        BY <4>1 DEF Good
      <4>4. s \in Sheets /\ Sound(s) /\ Same(m, s, {q}) /\ (Good(m) => Good(s))
        <5>1. Same(m, s, {q})
          BY <4>2, <4>3, <2>2, PutSame
        <5>2. s \in Sheets /\ Sound(s)
          BY <4>2, <4>3, <2>2, PutGood
        <5>3. Good(m) => Good(s)
          BY <4>2, <4>3, <2>2, PutGood
        <5> QED BY <5>1, <5>2, <5>3
      <4> QED BY <4>3, <4>4 DEF Good
    <3>3. Same(h, s, {q})
      <4> HIDE DEF n
      <4>1. Same(h, s, {q} \union {q})
        BY <2>3, <3>2, SameTwice
      <4>2. {q} \union {q} = {q}
        OBVIOUS
      <4> QED BY <4>1, <4>2
    <3> QED BY <3>2, <3>3, <2>2
  <2> QED BY <2>6, <2>7
<1> QED BY <1>4, <1>5

(* free_ent: cells go from the table to what was deleted.                  *)
LEMMA FreeEntGood ==
  ASSUME NEW h \in Sheets, NEW ps, Sound(h), NEW s, s = free_ent(h, ps)
  PROVE  /\ s \in Sheets /\ Sound(s) /\ (~s.full => ~h.full) /\ s.range = h.range
         /\ Used(s) = Used(h)
         /\ \A p \in Pos : s.tbl[p] = IF p \in ps THEN NULL ELSE h.tbl[p]
         /\ \A e \in Used(h) : /\ s.ent[e].pos = h.ent[e].pos /\ s.ent[e].expr = h.ent[e].expr
                               /\ Contents(s.ent[e]) = Contents(h.ent[e]) /\ s.ent[e].vp = h.ent[e].vp
         /\ \A e \in Placed(h) : h.ent[e].pos \notin ps => e \in Placed(s) /\ s.ent[e] = h.ent[e]
         /\ \A e \in Placed(s) : e \in Placed(h) /\ h.ent[e].pos \notin ps
         /\ ~s.full /\ Short(h.fix) => Short(s.fix)
<1> DEFINE gone == {h.tbl[p] : p \in ps \intersect Cells(h)}
<1>1. gone \subseteq Placed(h) /\ \A e \in gone : h.ent[e].pos \in ps
  BY DEF Cells, Placed, Sound
<1>2. \A e \in Placed(h) : h.ent[e].pos \in ps => e \in gone
  BY DEF Cells, Placed, Sound
<1>3. gone \subseteq Ents /\ Placed(h) \subseteq Ents
  BY <1>1, UsedEnts
<1>4. CASE gone = {}
  <2>1. s = h
    BY <1>4 DEF free_ent
  <2>2. \A p \in Pos : p \in ps => h.tbl[p] = NULL
    BY <1>4 DEF Cells
  <2>3. \A e \in Placed(h) : h.ent[e].pos \notin ps
    BY <1>2, <1>4
  <2> QED BY <2>1, <2>2, <2>3
<1>5. CASE gone # {}
  <2>1. s = [h EXCEPT !.tbl = [p \in Pos |-> IF p \in ps THEN NULL ELSE h.tbl[p]],
                      !.ent = [e \in Ents |-> IF e \in gone THEN [h.ent[e] EXCEPT !.locked = FALSE]
                                                            ELSE h.ent[e]],
                      !.fix = <<gone>> \o h.fix, !.full = h.full \/ Len(h.fix) = MaxSaved]
    BY <1>5 DEF free_ent
  <2> HIDE DEF gone
  <2>2. /\ s.tbl = [p \in Pos |-> IF p \in ps THEN NULL ELSE h.tbl[p]]
        /\ s.ent = [e \in Ents |-> IF e \in gone THEN [h.ent[e] EXCEPT !.locked = FALSE] ELSE h.ent[e]]
        /\ s.fix = <<gone>> \o h.fix /\ s.full = (h.full \/ Len(h.fix) = MaxSaved)
        /\ s.range = h.range
        /\ s = [tbl |-> s.tbl, ent |-> s.ent, fix |-> s.fix, range |-> s.range, full |-> s.full]
    BY <2>1 DEF Sheets
  <2>3. /\ s.fix \in Seq(SUBSET Ents) /\ Len(s.fix) = Len(h.fix) + 1
        /\ (\A i \in DOMAIN h.fix : h.fix[i] # {}) => \A i \in DOMAIN s.fix : s.fix[i] # {}
        /\ Saved(s) = Saved(h) \union gone
    <3>1. <<gone>> \in Seq(SUBSET Ents) /\ h.fix \in Seq(SUBSET Ents) /\ Len(<<gone>>) = 1
      BY <1>3 DEF Sheets
    <3>2. s.fix \in Seq(SUBSET Ents) /\ Len(s.fix) = Len(h.fix) + 1
      BY <3>1, <2>2
    <3>3. DOMAIN s.fix = 1 .. Len(h.fix) + 1 /\ DOMAIN h.fix = 1 .. Len(h.fix) /\ Len(h.fix) \in Nat
      BY <3>1, <3>2
    <3>4. s.fix[1] = gone /\ \A i \in 1 .. Len(h.fix) : s.fix[i + 1] = h.fix[i]
      BY <3>1, <2>2
    <3>5. ASSUME NEW e, e \in Saved(s)
          PROVE  e \in Saved(h) \union gone
      <4>1. PICK i \in 1 .. Len(h.fix) + 1 : e \in s.fix[i]
        BY <3>5, <3>3 DEF Saved, ToSet
      <4>2. CASE i = 1
        BY <4>1, <4>2, <3>4
      <4>3. CASE i # 1
        <5>1. i - 1 \in 1 .. Len(h.fix) /\ (i - 1) + 1 = i
          BY <4>3, <3>3
        <5>2. e \in h.fix[i - 1]
          BY <5>1, <4>1, <3>4
        <5> QED BY <5>1, <5>2, <3>3 DEF Saved, ToSet
      <4> QED BY <4>2, <4>3
    <3>6. ASSUME NEW e, e \in Saved(h) \union gone
          PROVE  e \in Saved(s)
      <4>1. CASE e \in gone
        <5>1. 1 \in DOMAIN s.fix
          BY <3>3
        <5> QED BY <5>1, <4>1, <3>4 DEF Saved, ToSet
      <4>2. CASE e \in Saved(h)
        <5>1. PICK i \in 1 .. Len(h.fix) : e \in h.fix[i]
          BY <4>2, <3>3 DEF Saved, ToSet
        <5>2. i + 1 \in DOMAIN s.fix /\ e \in s.fix[i + 1]
          BY <5>1, <3>3, <3>4
        <5> QED BY <5>2 DEF Saved, ToSet
      <4> QED BY <3>6, <4>1, <4>2
    <3>7. ASSUME \A i \in DOMAIN h.fix : h.fix[i] # {}, NEW i \in DOMAIN s.fix
          PROVE  s.fix[i] # {}
      <4>1. CASE i = 1
        BY <4>1, <3>4, <1>5
      <4>2. CASE i # 1
        <5>1. i - 1 \in 1 .. Len(h.fix) /\ (i - 1) + 1 = i
          BY <4>2, <3>3
        <5> QED BY <5>1, <3>3, <3>4, <3>7
      <4> QED BY <4>1, <4>2
    <3> QED BY <3>2, <3>5, <3>6, <3>7
  <2>4. \A e \in Ents : /\ s.ent[e] \in EntTypes
                        /\ s.ent[e].pos = h.ent[e].pos /\ s.ent[e].expr = h.ent[e].expr
                        /\ Contents(s.ent[e]) = Contents(h.ent[e]) /\ s.ent[e].vp = h.ent[e].vp
                        /\ e \notin gone => s.ent[e] = h.ent[e]
    <3> TAKE e \in Ents
    <3>1. h.ent[e] \in EntTypes
      BY DEF Sheets
    <3>2. s.ent[e] = IF e \in gone THEN [h.ent[e] EXCEPT !.locked = FALSE] ELSE h.ent[e]
      BY <2>2
    <3>3. CASE e \in gone
      <4>1. s.ent[e] = [h.ent[e] EXCEPT !.locked = FALSE]
        BY <3>2, <3>3
      <4> QED BY <4>1, <3>1, <3>3 DEF EntTypes, Contents
    <3>4. CASE e \notin gone
      BY <3>1, <3>2, <3>4
    <3> QED BY <3>3, <3>4
  <2>5. s \in Sheets
    <3>1. s.tbl \in [Pos -> Ents \union {NULL}]
      BY <2>2 DEF Sheets
    <3>2. s.ent \in [Ents -> EntTypes]
      BY <2>2, <2>4
    <3>3. s.full \in BOOLEAN /\ s.range \in Seq(Ents)
      BY <2>2 DEF Sheets
    <3> QED BY <2>2, <2>3, <3>1, <3>2, <3>3 DEF Sheets
  <2>6. Placed(s) = Placed(h) \ gone
    <3>1. \A p \in Pos : h.tbl[p] # NULL => h.ent[h.tbl[p]].pos = p /\ h.tbl[p] \in Placed(h)
      BY DEF Sound, Placed
    <3>2. \A p \in Pos : h.tbl[p] # NULL => (h.tbl[p] \in gone <=> p \in ps)
      BY <3>1, <1>1, <1>2
    <3>3. \A p \in Pos : s.tbl[p] = IF p \in ps THEN NULL ELSE h.tbl[p]
      BY <2>2
    <3> QED BY <3>2, <3>3 DEF Placed
  <2>7. Used(s) = Used(h)
    BY <2>3, <2>6, <1>1 DEF Used
  <2>8. Used(h) \subseteq Ents
    BY UsedEnts
  <2>9. Sound(s)
    <3>1. ASSUME NEW p \in Pos, s.tbl[p] # NULL
          PROVE  s.ent[s.tbl[p]].pos = p /\ s.tbl[p] \notin Saved(s)
      <4>1. s.tbl[p] = h.tbl[p] /\ s.tbl[p] \in Placed(s)
        BY <3>1, <2>2 DEF Placed
      <4> QED BY <4>1, <3>1, <2>3, <2>4, <2>6, <1>3 DEF Sound
    <3>2. \A e \in Used(s) : s.ent[e].expr # "none" => s.ent[e].vp \in Used(s)
      BY <2>4, <2>7, <2>8 DEF Sound
    <3>3. \A i \in DOMAIN s.range : s.range[i] \in Used(s)
      BY <2>2, <2>7 DEF Sound
    <3> QED BY <3>1, <3>2, <3>3 DEF Sound
  <2>10. \A e \in Placed(h) : h.ent[e].pos \notin ps => e \in Placed(s) /\ s.ent[e] = h.ent[e]
    BY <2>4, <2>6, <1>1, <1>3
  <2>11. \A e \in Placed(s) : e \in Placed(h) /\ h.ent[e].pos \notin ps
    BY <2>6, <1>2
  <2>12. (~s.full => ~h.full) /\ (~s.full /\ Short(h.fix) => Short(s.fix))
    <3>1. h.fix \in Seq(SUBSET Ents) /\ MaxSaved \in Nat
      BY SheetAssumption DEF Sheets
    <3>2. Len(h.fix) \in Nat
      BY <3>1
    <3>3. CASE h.full
      BY <3>3, <2>2
    <3>4. CASE Len(h.fix) = MaxSaved
      BY <3>4, <2>2
    <3>5. CASE ~h.full /\ Len(h.fix) # MaxSaved
      BY <3>1, <3>2, <3>5, <2>3 DEF Short
    <3> QED BY <3>3, <3>4, <3>5
  <2>13. \A p \in Pos : s.tbl[p] = IF p \in ps THEN NULL ELSE h.tbl[p]
    BY <2>2
  <2>14. \A e \in Used(h) : /\ s.ent[e].pos = h.ent[e].pos /\ s.ent[e].expr = h.ent[e].expr
                            /\ Contents(s.ent[e]) = Contents(h.ent[e]) /\ s.ent[e].vp = h.ent[e].vp
    BY <2>4, <2>8
  <2> QED BY <2>2, <2>5, <2>7, <2>9, <2>10, <2>11, <2>12, <2>13, <2>14
<1> QED BY <1>4, <1>5

(* flush_saved: what was deleted is free.                                  *)
LEMMA FlushGood ==
  ASSUME NEW h \in Sheets, Good(h), NEW s, s = flush_saved(h)
  PROVE  /\ s \in Sheets /\ Good(s) /\ s.full = h.full /\ s.tbl = h.tbl /\ s.range = h.range
         /\ s.fix = <<>> /\ Saved(s) = {} /\ Placed(s) = Placed(h)
         /\ \A e \in Placed(h) : s.ent[e] = h.ent[e]
<1>1. s = [[h EXCEPT !.ent = [e \in Ents |-> IF e \in Saved(h) THEN Blank ELSE h.ent[e]]]
             EXCEPT !.fix = <<>>]
  BY DEF flush_saved, Release
<1>2. /\ s.tbl = h.tbl /\ s.range = h.range /\ s.full = h.full /\ s.fix = <<>>
      /\ s.ent = [e \in Ents |-> IF e \in Saved(h) THEN Blank ELSE h.ent[e]]
      /\ s = [tbl |-> s.tbl, ent |-> s.ent, fix |-> s.fix, range |-> s.range, full |-> s.full]
  BY <1>1 DEF Sheets
<1>3. Blank \in EntTypes
  BY BlankEnt
<1>4. s \in Sheets
  <2>1. s.ent \in [Ents -> EntTypes]
    BY <1>2, <1>3 DEF Sheets
  <2>2. s.fix \in Seq(SUBSET Ents)
    BY <1>2
  <2> QED BY <1>2, <2>1, <2>2 DEF Sheets
<1>5. Saved(s) = {} /\ Placed(s) = Placed(h) /\ Used(s) = Placed(h)
  BY <1>2 DEF Saved, Placed, ToSet, Used
<1>6. \A e \in Placed(h) : s.ent[e] = h.ent[e]
  <2>1. \A e \in Placed(h) : e \in Ents /\ e \notin Saved(h)
    BY UsedEnts DEF Placed, Good, Sound
  <2> QED BY <2>1, <1>2
<1>7. Sound(s)
  <2>1. ASSUME NEW p \in Pos, s.tbl[p] # NULL
        PROVE  s.ent[s.tbl[p]].pos = p /\ s.tbl[p] \notin Saved(s)
    <3>1. s.tbl[p] \in Placed(h) /\ h.tbl[p] # NULL /\ s.tbl[p] = h.tbl[p]
      BY <2>1, <1>2 DEF Placed
    <3> QED BY <3>1, <1>5, <1>6 DEF Good, Sound
  <2>2. \A e \in Placed(h) : h.ent[e].expr # "none" => h.ent[e].vp \in Placed(h)
    BY DEF Good, Alive
  <2>3. \A i \in DOMAIN s.range : s.range[i] \in Placed(h)
    BY <1>2 DEF Good, Alive
  <2> QED BY <2>1, <2>2, <2>3, <1>5, <1>6 DEF Sound
<1>8. Alive(s)
  BY <1>2, <1>5, <1>6 DEF Good, Alive
<1> QED BY <1>2, <1>4, <1>5, <1>6, <1>7, <1>8 DEF Good

(* sync_refs: every reference leads to a cell of the table, at the place   *)
(* of what it referred to.                                                 *)
LEMMA SyncGood ==
  ASSUME NEW h \in Sheets, Sound(h), NEW s, s = sync_refs(h)
  PROVE  ~s.full =>
              /\ s \in Sheets /\ ~h.full /\ Good(s) /\ s.fix = h.fix /\ Placed(h) \subseteq Placed(s)
              /\ \A e \in Used(h) : /\ s.ent[e].pos = h.ent[e].pos /\ s.ent[e].expr = h.ent[e].expr
                                    /\ Contents(s.ent[e]) = Contents(h.ent[e]) /\ s.ent[e].locked = h.ent[e].locked
              /\ \A e \in Placed(h) : h.ent[e].expr # "none" =>
                   /\ h.ent[e].vp \in Placed(h) => s.ent[e].vp = h.ent[e].vp
                   /\ s.ent[e].vp \in Placed(s) /\ s.ent[s.ent[e].vp].pos = h.ent[h.ent[e].vp].pos
              /\ \A p \in Pos : h.tbl[p] # NULL => s.tbl[p] = h.tbl[p]
              /\ DOMAIN s.range = DOMAIN h.range
<1> DEFINE es == {e \in Placed(h) : h.ent[e].expr # "none"}
           ps == {Target(h, e) : e \in es} \union {h.ent[v].pos : v \in ToSet(h.range)}
           l == lookat(h, ps)
<1>1. s = [l EXCEPT !.ent = [e \in Ents |-> IF e \in es THEN [l.ent[e] EXCEPT !.vp = l.tbl[Target(h, e)]]
                                                        ELSE l.ent[e]],
                    !.range = [i \in DOMAIN l.range |-> l.tbl[h.ent[l.range[i]].pos]]]
  BY DEF sync_refs
<1>2. es \subseteq Placed(h) /\ Used(h) \subseteq Ents /\ Placed(h) \subseteq Used(h)
  BY UsedEnts
<1>3. \A e \in es : h.ent[e].vp \in Used(h) /\ Target(h, e) \in ps /\ Target(h, e) = h.ent[h.ent[e].vp].pos
  BY <1>2 DEF Sound, Target
<1>4. \A i \in DOMAIN h.range : h.range[i] \in Used(h) /\ h.ent[h.range[i]].pos \in ps
  BY DEF Sound, ToSet
<1>5. \A e \in es : h.ent[e].expr # "none"
  OBVIOUS
<1>6. \A e \in Placed(h) : h.ent[e].expr # "none" => e \in es
  OBVIOUS
<1> HIDE DEF es, ps
<1>7. l \in Sheets /\ (~l.full => ~h.full /\ (\A p \in ps : p \in Pos /\ l.tbl[p] \in Placed(l)))
  BY Lookat
<1>8. ~l.full => /\ \A e \in Used(h) : l.ent[e] = h.ent[e]
                 /\ l.fix = h.fix /\ l.range = h.range
                 /\ \A p \in Pos : l.tbl[p] = h.tbl[p] \/ h.tbl[p] = NULL
  <2>1. l = lookat(h, ps)
    OBVIOUS
  <2> HIDE DEF l
  <2> SUFFICES ASSUME ~l.full
               PROVE  /\ \A e \in Used(h) : l.ent[e] = h.ent[e]
                      /\ l.fix = h.fix /\ l.range = h.range
                      /\ \A p \in Pos : l.tbl[p] = h.tbl[p] \/ h.tbl[p] = NULL
    OBVIOUS
  <2>2. \A p \in Pos : \/ l.tbl[p] = h.tbl[p]
                       \/ /\ h.tbl[p] = NULL /\ p \in ps /\ l.tbl[p] \in Free(h)
                          /\ l.ent[l.tbl[p]] = [Blank EXCEPT !.pos = p]
    BY <2>1, Lookat
  <2>3. (\A e \in Used(h) : l.ent[e] = h.ent[e]) /\ l.fix = h.fix /\ l.range = h.range
    BY <2>1, Lookat
  <2> QED BY <2>2, <2>3
<1>9. ~l.full => Sound(l) /\ Same(h, l, {})
  BY LookatGood
<1> HIDE DEF l
<1>10. \A i \in DOMAIN h.range : h.ent[h.range[i]].pos \in Pos
  BY <1>4, <1>2 DEF Sheets, EntTypes
<1>11. /\ s.tbl = l.tbl /\ s.fix = l.fix /\ s.full = l.full
       /\ s.ent = [e \in Ents |-> IF e \in es THEN [l.ent[e] EXCEPT !.vp = l.tbl[Target(h, e)]]
                                              ELSE l.ent[e]]
       /\ s.range = [i \in DOMAIN l.range |-> l.tbl[h.ent[l.range[i]].pos]]
       /\ s = [tbl |-> s.tbl, ent |-> s.ent, fix |-> s.fix, range |-> s.range, full |-> s.full]
  BY <1>1, <1>7 DEF Sheets
<1>12. l.ent \in [Ents -> EntTypes] /\ l.tbl \in [Pos -> Ents \union {NULL}] /\ h.ent \in [Ents -> EntTypes]
  BY <1>7 DEF Sheets
<1>13. ASSUME ~l.full
       PROVE  /\ s \in Sheets /\ Placed(s) = Placed(l) /\ Saved(s) = Saved(l) /\ Used(s) = Used(l)
              /\ \A e \in Ents : e \notin es => s.ent[e] = l.ent[e]
              /\ \A e \in es : s.ent[e] = [l.ent[e] EXCEPT !.vp = l.tbl[Target(h, e)]]
              /\ \A e \in es : s.ent[e].vp = l.tbl[Target(h, e)] /\ s.ent[e].vp \in Placed(s)
              /\ \A e \in Ents : /\ s.ent[e].pos = l.ent[e].pos /\ s.ent[e].expr = l.ent[e].expr
                                 /\ Contents(s.ent[e]) = Contents(l.ent[e]) /\ s.ent[e].locked = l.ent[e].locked
              /\ \A i \in DOMAIN s.range : s.range[i] \in Placed(s)
              /\ DOMAIN s.range = DOMAIN h.range
  <2>1. \A e \in Ents : s.ent[e] = IF e \in es THEN [l.ent[e] EXCEPT !.vp = l.tbl[Target(h, e)]]
                                               ELSE l.ent[e]
    BY <1>11
  <2>2. Placed(s) = Placed(l) /\ Saved(s) = Saved(l) /\ Used(s) = Used(l)
    <3>1. s.tbl = l.tbl /\ s.fix = l.fix
      BY <1>11
    <3> QED BY <3>1 DEF Placed, Saved, Used
  <2>3. \A e \in es : e \in Ents /\ l.tbl[Target(h, e)] \in Placed(l) /\ l.tbl[Target(h, e)] \in Ents
    <3>1. Placed(l) \subseteq Ents
      BY <1>7, UsedEnts
    <3> QED BY <3>1, <1>2, <1>3, <1>7, <1>13
  <2>4. \A e \in es : s.ent[e] = [l.ent[e] EXCEPT !.vp = l.tbl[Target(h, e)]]
    BY <2>1, <2>3
  <2>5. \A e \in Ents : e \notin es => s.ent[e] = l.ent[e]
    BY <2>1
  <2>6. ASSUME NEW e \in es
        PROVE  /\ s.ent[e] \in EntTypes /\ s.ent[e].vp = l.tbl[Target(h, e)]
               /\ s.ent[e].pos = l.ent[e].pos /\ s.ent[e].expr = l.ent[e].expr
               /\ Contents(s.ent[e]) = Contents(l.ent[e]) /\ s.ent[e].locked = l.ent[e].locked
    <3>1. l.ent[e] \in EntTypes
      BY <1>12, <2>3
    <3> DEFINE y == l.tbl[Target(h, e)]
    <3>2. s.ent[e] = [l.ent[e] EXCEPT !.vp = y] /\ y \in Ents
      BY <2>3, <2>4
    <3> HIDE DEF y
    <3>3. /\ s.ent[e] \in EntTypes /\ s.ent[e].vp = y
          /\ s.ent[e].pos = l.ent[e].pos /\ s.ent[e].expr = l.ent[e].expr
          /\ Contents(s.ent[e]) = Contents(l.ent[e]) /\ s.ent[e].locked = l.ent[e].locked
      BY <3>1, <3>2 DEF EntTypes, Contents
    <3> QED BY <3>3 DEF y
  <2>7. s.ent \in [Ents -> EntTypes]
    BY <1>11, <1>12, <2>5, <2>6, ZenonT(60)
  <2>8. \A i \in DOMAIN h.range : s.range[i] \in Placed(l) /\ s.range[i] \in Ents
    <3>1. Placed(l) \subseteq Ents
      BY <1>7, UsedEnts
    <3>2. \A i \in DOMAIN h.range : s.range[i] = l.tbl[h.ent[h.range[i]].pos]
      <4>1. l.range = h.range
        BY <1>8, <1>13
      <4>2. s.range = [i \in DOMAIN h.range |-> l.tbl[h.ent[h.range[i]].pos]]
        BY <4>1, <1>11
      <4> QED BY <4>2
    <3>3. \A i \in DOMAIN h.range : l.tbl[h.ent[h.range[i]].pos] \in Placed(l)
      BY <1>4, <1>7, <1>13
    <3> QED BY <3>1, <3>2, <3>3
  <2>9. s.range \in Seq(Ents) /\ DOMAIN s.range = DOMAIN h.range
    <3>1. DOMAIN s.range = DOMAIN h.range /\ s.range = [i \in DOMAIN h.range |-> s.range[i]]
      BY <1>8, <1>11, <1>13
    <3>2. h.range \in Seq(Ents)
      BY DEF Sheets
    <3>3. DOMAIN h.range = 1 .. Len(h.range) /\ Len(h.range) \in Nat
      BY <3>2
    <3>4. s.range \in [1 .. Len(h.range) -> Ents]
      BY <3>1, <3>3, <2>8
    <3> QED BY <3>1, <3>3, <3>4
  <2>10. s \in Sheets
    BY <1>7, <1>11, <2>7, <2>9 DEF Sheets
  <2>11. \A e \in Ents : /\ s.ent[e].pos = l.ent[e].pos /\ s.ent[e].expr = l.ent[e].expr
                         /\ Contents(s.ent[e]) = Contents(l.ent[e]) /\ s.ent[e].locked = l.ent[e].locked
    BY <2>5, <2>6
  <2> QED BY <2>2, <2>3, <2>4, <2>5, <2>6, <2>8, <2>9, <2>10, <2>11
<1>14. SUFFICES ASSUME ~s.full
               PROVE  /\ s \in Sheets /\ ~h.full /\ Good(s) /\ s.fix = h.fix /\ Placed(h) \subseteq Placed(s)
                      /\ \A e \in Used(h) : /\ s.ent[e].pos = h.ent[e].pos /\ s.ent[e].expr = h.ent[e].expr
                                            /\ Contents(s.ent[e]) = Contents(h.ent[e]) /\ s.ent[e].locked = h.ent[e].locked
                      /\ \A e \in Placed(h) : h.ent[e].expr # "none" =>
                           /\ h.ent[e].vp \in Placed(h) => s.ent[e].vp = h.ent[e].vp
                           /\ s.ent[e].vp \in Placed(s) /\ s.ent[s.ent[e].vp].pos = h.ent[h.ent[e].vp].pos
                      /\ \A p \in Pos : h.tbl[p] # NULL => s.tbl[p] = h.tbl[p]
                      /\ DOMAIN s.range = DOMAIN h.range
  OBVIOUS
<1>15. ~l.full
  BY <1>11, <1>14
<1>16. s \in Sheets /\ ~h.full /\ s.fix = h.fix /\ DOMAIN s.range = DOMAIN h.range
  BY <1>7, <1>8, <1>11, <1>13, <1>15
<1>17. Placed(h) \subseteq Placed(s) /\ Used(h) \subseteq Used(s)
  BY <1>9, <1>13, <1>15 DEF Same, Used, Saved
<1>18. \A e \in Used(h) : /\ s.ent[e].pos = h.ent[e].pos /\ s.ent[e].expr = h.ent[e].expr
                          /\ Contents(s.ent[e]) = Contents(h.ent[e]) /\ s.ent[e].locked = h.ent[e].locked
  <2> TAKE e \in Used(h)
  <2>1. l.ent[e] = h.ent[e] /\ e \in Ents
    BY <1>2, <1>8, <1>15
  <2> QED BY <2>1, <1>13, <1>15
<1>19. ASSUME NEW p \in Pos, s.tbl[p] # NULL
       PROVE  s.ent[s.tbl[p]].pos = p /\ s.tbl[p] \notin Saved(s)
  <2>1. s.tbl[p] = l.tbl[p] /\ l.tbl[p] \in Ents
    <3>1. s.tbl = l.tbl
      BY <1>11
    <3>2. l.tbl[p] \in Ents \union {NULL} /\ l.tbl[p] # NULL
      BY <1>12, <1>19, <3>1
    <3> QED BY <3>1, <3>2
  <2>2. l.ent[l.tbl[p]].pos = p /\ l.tbl[p] \notin Saved(l)
    BY <2>1, <1>9, <1>15, <1>19 DEF Sound
  <2> QED BY <2>1, <2>2, <1>13, <1>15
<1>20. \A e \in Used(s) : s.ent[e].expr # "none" => s.ent[e].vp \in Used(s)
  <2> SUFFICES ASSUME NEW e \in Used(s), s.ent[e].expr # "none"
               PROVE  s.ent[e].vp \in Used(s)
    OBVIOUS
  <2>1. CASE e \in es
    BY <2>1, <1>13, <1>15 DEF Used
  <2>2. CASE e \notin es
    <3>1. e \in Used(l) /\ e \in Ents /\ s.ent[e] = l.ent[e]
      <4>1. Used(l) \subseteq Ents
        BY <1>7, UsedEnts
      <4> QED BY <4>1, <2>2, <1>13, <1>15
    <3> QED BY <3>1, <1>9, <1>13, <1>15 DEF Sound
  <2> QED BY <2>1, <2>2
<1>21. \A e \in Placed(s) : s.ent[e].expr # "none" => s.ent[e].vp \in Placed(s)
  <2> SUFFICES ASSUME NEW e \in Placed(s), s.ent[e].expr # "none"
               PROVE  e \in es
    BY <1>13, <1>15
  <2>1. PICK p \in Pos : l.tbl[p] = e /\ e # NULL
    BY <1>11 DEF Placed
  <2>2. \/ l.tbl[p] = h.tbl[p]
        \/ l.ent[e] = [Blank EXCEPT !.pos = p]
    <3>1. l = lookat(h, ps)
      BY DEF l
    <3>2. \A q \in Pos : \/ l.tbl[q] = h.tbl[q]
                         \/ /\ h.tbl[q] = NULL /\ q \in ps /\ l.tbl[q] \in Free(h)
                            /\ l.ent[l.tbl[q]] = [Blank EXCEPT !.pos = q]
      BY <3>1, <1>15, Lookat
    <3> QED BY <3>2, <2>1
  <2>3. e \in Ents /\ l.ent[e].expr # "none"
    <3>1. e \in Ents
      BY <2>1, <1>12
    <3> QED BY <3>1, <1>13, <1>15
  <2>4. l.tbl[p] = h.tbl[p]
    BY <2>2, <2>3 DEF Blank
  <2>5. e \in Placed(h)
    BY <2>1, <2>4 DEF Placed
  <2>6. l.ent[e] = h.ent[e]
    BY <2>5, <1>2, <1>8, <1>15
  <2> QED BY <2>3, <2>5, <2>6, <1>6
<1>22. Good(s)
  <2>1. Sound(s)
    BY <1>13, <1>15, <1>19, <1>20 DEF Sound, Used
  <2>2. Alive(s)
    BY <1>13, <1>15, <1>21 DEF Alive
  <2> QED BY <2>1, <2>2 DEF Good
<1>23. \A p \in Pos : h.tbl[p] # NULL => s.tbl[p] = h.tbl[p]
  BY <1>8, <1>11, <1>15
<1>24. ASSUME NEW e \in Placed(h), h.ent[e].expr # "none"
       PROVE  /\ h.ent[e].vp \in Placed(h) => s.ent[e].vp = h.ent[e].vp
              /\ s.ent[e].vp \in Placed(s) /\ s.ent[s.ent[e].vp].pos = h.ent[h.ent[e].vp].pos
  <2> DEFINE t == Target(h, e)
  <2>1. e \in es /\ t \in Pos /\ l.tbl[t] \in Placed(l) /\ t = h.ent[h.ent[e].vp].pos
    BY <1>3, <1>6, <1>7, <1>15, <1>24
  <2> HIDE DEF t
  <2>2. s.ent[e].vp = l.tbl[t] /\ s.ent[e].vp \in Placed(s)
    BY <2>1, <1>13, <1>15 DEF t
  <2>3. l.tbl[t] # NULL
    BY <2>1 DEF Placed
  <2>4. s.tbl[t] # NULL /\ s.tbl[t] = l.tbl[t]
    BY <2>3, <1>11
  <2>5. s.ent[s.ent[e].vp].pos = t
    <3>1. s.ent[s.tbl[t]].pos = t
      BY <2>1, <2>4, <1>19
    <3> QED BY <3>1, <2>2, <2>4
  <2>6. ASSUME h.ent[e].vp \in Placed(h)
        PROVE  s.ent[e].vp = h.ent[e].vp
    <3>1. PICK p \in Pos : h.tbl[p] = h.ent[e].vp /\ h.tbl[p] # NULL
      BY <2>6 DEF Placed
    <3>2. p = t
      BY <3>1, <2>1 DEF Sound
    <3> QED BY <3>1, <3>2, <2>2, <2>4, <1>23
  <2> QED BY <2>1, <2>2, <2>5, <2>6
<1> QED BY <1>16, <1>17, <1>18, <1>22, <1>23, <1>24

(* Moved: the cells of the table move, and take their references along.    *)
LEMMA MovedParts ==
  ASSUME NEW h \in Sheets, Sound(h), NEW f,
         \A p, q \in Pos : h.tbl[p] # NULL /\ h.tbl[q] # NULL /\ f[p] = f[q] => p = q,
         \A p \in Pos : h.tbl[p] # NULL => f[p] \in Pos,
         NEW s, s = Moved(h, f)
  PROVE  /\ s \in Sheets /\ s.full = h.full /\ Sound(s) /\ (Alive(h) => Alive(s))
         /\ Placed(s) = Placed(h) /\ s.fix = h.fix /\ s.range = h.range
         /\ \A e \in Used(h) : /\ s.ent[e].expr = h.ent[e].expr /\ Contents(s.ent[e]) = Contents(h.ent[e])
                               /\ s.ent[e].vp = h.ent[e].vp /\ s.ent[e].locked = h.ent[e].locked
         /\ \A e \in Saved(h) : s.ent[e] = h.ent[e]
         /\ \A e \in Placed(h) : s.ent[e].pos = f[h.ent[e].pos]
<1> DEFINE At(q) == CHOOSE p \in Cells(h) : f[p] = q
<1>1. /\ \A p \in Pos : h.tbl[p] # NULL => f[p] \in Pos
      /\ s = [h EXCEPT
                !.tbl = [q \in Pos |-> IF \E p \in Cells(h) : f[p] = q THEN h.tbl[At(q)] ELSE NULL],
                !.ent = [e \in Ents |-> IF e \in Placed(h) THEN [h.ent[e] EXCEPT !.pos = f[@]] ELSE h.ent[e]]]
  <2>3. CASE ~ \E p \in Cells(h) : f[p] \notin Pos
    <3>1. \A p \in Pos : h.tbl[p] # NULL => f[p] \in Pos
      BY <2>3 DEF Cells
    <3>2. s = [h EXCEPT
                 !.tbl = [q \in Pos |-> IF \E p \in Cells(h) : f[p] = q THEN h.tbl[At(q)] ELSE NULL],
                 !.ent = [e \in Ents |-> IF e \in Placed(h) THEN [h.ent[e] EXCEPT !.pos = f[@]] ELSE h.ent[e]]]
      BY <2>3 DEF Moved
    <3> QED BY <3>1, <3>2
  <2> QED BY <2>3 DEF Cells
<1>2. /\ s.tbl = [q \in Pos |-> IF \E p \in Cells(h) : f[p] = q THEN h.tbl[At(q)] ELSE NULL]
      /\ s.ent = [e \in Ents |-> IF e \in Placed(h) THEN [h.ent[e] EXCEPT !.pos = f[@]] ELSE h.ent[e]]
      /\ s.fix = h.fix /\ s.range = h.range /\ s.full = h.full
      /\ s = [tbl |-> s.tbl, ent |-> s.ent, fix |-> s.fix, range |-> s.range, full |-> s.full]
  <2> HIDE DEF At
  <2> QED BY <1>1 DEF Sheets
<1>3. ASSUME NEW p \in Pos, h.tbl[p] # NULL
      PROVE  s.tbl[f[p]] = h.tbl[p]
  <2>1. p \in Cells(h)
    BY <1>3 DEF Cells
  <2>2. At(f[p]) \in Cells(h) /\ f[At(f[p])] = f[p]
    BY <2>1
  <2> HIDE DEF At
  <2>3. At(f[p]) = p
    BY <2>1, <2>2 DEF Cells
  <2> QED BY <2>1, <2>3, <1>1, <1>2, <1>3
<1>4. ASSUME NEW q \in Pos, s.tbl[q] # NULL
      PROVE  \E p \in Pos : h.tbl[p] # NULL /\ f[p] = q /\ s.tbl[q] = h.tbl[p]
  <2>1. PICK p \in Cells(h) : f[p] = q
    BY <1>4, <1>2
  <2> QED BY <2>1, <1>3 DEF Cells
<1>5. Placed(s) = Placed(h)
  <2>1. \A e \in Placed(h) : e \in Placed(s)
    <3> SUFFICES ASSUME NEW p \in Pos, h.tbl[p] # NULL
                 PROVE  h.tbl[p] \in Placed(s)
      BY DEF Placed
    <3> QED BY <1>1, <1>3 DEF Placed
  <2>2. \A e \in Placed(s) : e \in Placed(h)
    <3> SUFFICES ASSUME NEW q \in Pos, s.tbl[q] # NULL
                 PROVE  s.tbl[q] \in Placed(h)
      BY DEF Placed
    <3> QED BY <1>4 DEF Placed
  <2> QED BY <2>1, <2>2
<1>6. Saved(s) = Saved(h) /\ Used(s) = Used(h) /\ Used(h) \subseteq Ents /\ Placed(h) \subseteq Used(h)
  BY <1>2, <1>5, UsedEnts DEF Saved, Used
<1>7. \A e \in Placed(h) : h.ent[e].pos \in Pos /\ h.tbl[h.ent[e].pos] = e /\ e # NULL
  BY DEF Placed, Sound
<1>8. ASSUME NEW e \in Ents
      PROVE  /\ s.ent[e] \in EntTypes
             /\ s.ent[e].expr = h.ent[e].expr /\ Contents(s.ent[e]) = Contents(h.ent[e])
             /\ s.ent[e].vp = h.ent[e].vp /\ s.ent[e].locked = h.ent[e].locked
             /\ e \in Placed(h) => s.ent[e].pos = f[h.ent[e].pos]
             /\ e \notin Placed(h) => s.ent[e] = h.ent[e]
  <2>1. h.ent[e] \in EntTypes
    BY DEF Sheets
  <2>2. CASE e \in Placed(h)
    <3>1. f[h.ent[e].pos] \in Pos
      BY <2>2, <1>1, <1>7
    <3>2. s.ent[e] = [h.ent[e] EXCEPT !.pos = f[h.ent[e].pos]]
      BY <2>2, <1>2
    <3> DEFINE y == f[h.ent[e].pos]
    <3>3. s.ent[e] = [h.ent[e] EXCEPT !.pos = y] /\ y \in Pos
      BY <3>1, <3>2
    <3> HIDE DEF y
    <3>4. /\ s.ent[e] \in EntTypes /\ s.ent[e].pos = y
          /\ s.ent[e].expr = h.ent[e].expr /\ Contents(s.ent[e]) = Contents(h.ent[e])
          /\ s.ent[e].vp = h.ent[e].vp /\ s.ent[e].locked = h.ent[e].locked
      BY <2>1, <3>3 DEF EntTypes, Contents
    <3> QED BY <2>2, <3>4 DEF y
  <2>3. CASE e \notin Placed(h)
    BY <2>1, <2>3, <1>2
  <2> QED BY <2>2, <2>3
<1>9. s \in Sheets
  <2>1. \A q \in Pos : s.tbl[q] \in Ents \union {NULL}
    BY <1>4 DEF Sheets
  <2>2. s.tbl \in [Pos -> Ents \union {NULL}]
    BY <2>1, <1>2
  <2>3. s.ent \in [Ents -> EntTypes]
    BY <1>2, <1>8
  <2> QED BY <1>2, <2>2, <2>3 DEF Sheets
<1>10. Sound(s)
  <2>1. ASSUME NEW q \in Pos, s.tbl[q] # NULL
        PROVE  s.ent[s.tbl[q]].pos = q /\ s.tbl[q] \notin Saved(s)
    <3>1. PICK p \in Pos : h.tbl[p] # NULL /\ f[p] = q /\ s.tbl[q] = h.tbl[p]
      BY <2>1, <1>4
    <3>2. h.tbl[p] \in Placed(h) /\ h.ent[h.tbl[p]].pos = p /\ h.tbl[p] \notin Saved(h)
      BY <3>1 DEF Placed, Sound
    <3> QED BY <3>1, <3>2, <1>6, <1>8
  <2>2. \A e \in Used(s) : s.ent[e].expr # "none" => s.ent[e].vp \in Used(s)
    BY <1>6, <1>8 DEF Sound
  <2>3. \A i \in DOMAIN s.range : s.range[i] \in Used(s)
    BY <1>2, <1>6 DEF Sound
  <2> QED BY <2>1, <2>2, <2>3 DEF Sound
<1>11. Alive(h) => Alive(s)
  BY <1>2, <1>5, <1>6, <1>8 DEF Alive
<1>12. \A e \in Saved(h) : s.ent[e] = h.ent[e]
  <2>1. \A e \in Saved(h) : e \notin Placed(h) /\ e \in Ents
    BY <1>6 DEF Placed, Sound, Used
  <2> QED BY <2>1, <1>8
<1>13. s.full = h.full /\ s.fix = h.fix /\ s.range = h.range
  BY <1>2
<1> QED BY <1>5, <1>6, <1>8, <1>9, <1>10, <1>11, <1>12, <1>13

LEMMA MovedGood ==
  ASSUME NEW h \in Sheets, Sound(h), NEW f,
         \A p, q \in Pos : h.tbl[p] # NULL /\ h.tbl[q] # NULL /\ f[p] = f[q] => p = q,
         NEW s, s = Moved(h, f)
  PROVE  /\ s \in Sheets /\ Sound(s)
         /\ ~s.full =>
              /\ ~h.full /\ (Alive(h) => Alive(s))
              /\ Placed(s) = Placed(h) /\ s.fix = h.fix /\ s.range = h.range
              /\ \A e \in Used(h) : /\ s.ent[e].expr = h.ent[e].expr /\ Contents(s.ent[e]) = Contents(h.ent[e])
                                    /\ s.ent[e].vp = h.ent[e].vp /\ s.ent[e].locked = h.ent[e].locked
              /\ \A e \in Saved(h) : s.ent[e] = h.ent[e]
              /\ \A e \in Placed(h) : s.ent[e].pos = f[h.ent[e].pos]
<1>1. CASE \A p \in Pos : h.tbl[p] # NULL => f[p] \in Pos
  BY <1>1, MovedParts
<1>2. CASE ~ \A p \in Pos : h.tbl[p] # NULL => f[p] \in Pos
  <2>1. s = [h EXCEPT !.full = TRUE]
    BY <1>2 DEF Moved, Cells, Full
  <2>2. /\ s.tbl = h.tbl /\ s.ent = h.ent /\ s.fix = h.fix /\ s.range = h.range /\ s.full
        /\ s \in Sheets
    BY <2>1 DEF Sheets
  <2>3. Placed(s) = Placed(h) /\ Saved(s) = Saved(h) /\ Used(s) = Used(h)
    BY <2>2 DEF Placed, Saved, Used
  <2>4. Sound(s)
    BY <2>2, <2>3 DEF Sound
  <2> QED BY <2>2, <2>4
<1> QED BY <1>1, <1>2

(* Positions are pairs of numbers.                                         *)
LEMMA PosPairs ==
  ASSUME NEW p \in Pos, NEW axis \in {1, 2}, NEW n
  PROVE  /\ p[axis] \in Int /\ p[3 - axis] \in Int /\ p = <<p[1], p[2]>>
         /\ [p EXCEPT ![axis] = n][axis] = n /\ [p EXCEPT ![axis] = n][3 - axis] = p[3 - axis]
<1>1. p \in Int \X Int
  BY SheetAssumption DEF Pos
<1>2. p[1] \in Int /\ p[2] \in Int /\ p = <<p[1], p[2]>> /\ DOMAIN p = {1, 2}
  BY <1>1
<1>3. CASE axis = 1
  BY <1>2, <1>3
<1>4. CASE axis = 2
  BY <1>2, <1>4
<1> QED BY <1>3, <1>4

LEMMA PosEqual ==
  ASSUME NEW p \in Pos, NEW q \in Pos, NEW axis \in {1, 2}, p[axis] = q[axis], p[3 - axis] = q[3 - axis]
  PROVE  p = q
<1>1. p = <<p[1], p[2]>> /\ q = <<q[1], q[2]>>
  BY PosPairs
<1>2. axis = 1 \/ axis = 2
  OBVIOUS
<1>3. CASE axis = 1
  <2>1. p[1] = q[1] /\ p[2] = q[2]
    BY <1>3
  <2> QED BY <1>1, <2>1
<1>4. CASE axis = 2
  <2>1. p[1] = q[1] /\ p[2] = q[2]
    BY <1>4
  <2> QED BY <1>1, <2>1
<1> QED BY <1>2, <1>3, <1>4

(* Inserting rows or columns: the new ones are empty.                      *)
LEMMA OpenGood ==
  ASSUME NEW h \in Sheets, Sound(h), NEW axis \in {1, 2}, NEW i \in Int, NEW n \in Nat,
         NEW s, s = Open(h, axis, i, n)
  PROVE  /\ s \in Sheets /\ Sound(s)
         /\ ~s.full =>
              /\ ~h.full /\ (Alive(h) => Alive(s))
              /\ Placed(s) = Placed(h) /\ s.fix = h.fix /\ s.range = h.range
              /\ \A e \in Used(h) : /\ s.ent[e].expr = h.ent[e].expr /\ Contents(s.ent[e]) = Contents(h.ent[e])
                                    /\ s.ent[e].vp = h.ent[e].vp /\ s.ent[e].locked = h.ent[e].locked
              /\ \A e \in Saved(h) : s.ent[e] = h.ent[e]
              /\ \A e \in Placed(h) : ~(i <= s.ent[e].pos[axis] /\ s.ent[e].pos[axis] < i + n)
<1> DEFINE f == [p \in Pos |-> IF p[axis] >= i THEN [p EXCEPT ![axis] = @ + n] ELSE p]
<1>1. s = Moved(h, f)
  BY DEF Open
<1>2. ASSUME NEW p \in Pos
      PROVE  /\ p[axis] \in Int /\ f[p][3 - axis] = p[3 - axis]
             /\ f[p][axis] = IF p[axis] >= i THEN p[axis] + n ELSE p[axis]
  <2>1. p[axis] \in Int
    BY PosPairs
  <2>2. CASE p[axis] >= i
    <3>1. f[p] = [p EXCEPT ![axis] = p[axis] + n]
      BY <2>2
    <3> QED BY <2>1, <2>2, <3>1, PosPairs
  <2>3. CASE ~(p[axis] >= i)
    <3>1. f[p] = p
      BY <2>3
    <3> QED BY <2>1, <2>3, <3>1
  <2> QED BY <2>2, <2>3
<1> HIDE DEF f
<1>3. ASSUME NEW p \in Pos, NEW q \in Pos, f[p] = f[q]
      PROVE  p = q
  <2>1. p[axis] = q[axis] /\ p[3 - axis] = q[3 - axis]
    BY <1>2, <1>3
  <2> QED BY <2>1, PosEqual
<1>4. ASSUME NEW e \in Placed(h)
      PROVE  ~(i <= f[h.ent[e].pos][axis] /\ f[h.ent[e].pos][axis] < i + n)
  <2>1. h.ent[e].pos \in Pos
    BY DEF Placed, Sound
  <2> QED BY <2>1, <1>2
<1>5. /\ s \in Sheets /\ Sound(s)
      /\ ~s.full =>
           /\ ~h.full /\ (Alive(h) => Alive(s))
           /\ Placed(s) = Placed(h) /\ s.fix = h.fix /\ s.range = h.range
           /\ \A e \in Used(h) : /\ s.ent[e].expr = h.ent[e].expr /\ Contents(s.ent[e]) = Contents(h.ent[e])
                                 /\ s.ent[e].vp = h.ent[e].vp /\ s.ent[e].locked = h.ent[e].locked
           /\ \A e \in Saved(h) : s.ent[e] = h.ent[e]
           /\ \A e \in Placed(h) : s.ent[e].pos = f[h.ent[e].pos]
  BY <1>1, <1>3, MovedGood
<1> QED BY <1>4, <1>5

(* Closing the gap of rows or columns that hold nothing.                   *)
LEMMA CloseGood ==
  ASSUME NEW h \in Sheets, Sound(h), NEW axis \in {1, 2}, NEW i \in Int, NEW n \in Nat,
         \A p \in Lines(axis, i, n) : h.tbl[p] = NULL,
         NEW s, s = Close(h, axis, i, n)
  PROVE  /\ s \in Sheets /\ Sound(s)
         /\ ~s.full =>
              /\ ~h.full /\ (Alive(h) => Alive(s))
              /\ Placed(s) = Placed(h) /\ s.fix = h.fix /\ s.range = h.range
              /\ \A e \in Used(h) : /\ s.ent[e].expr = h.ent[e].expr /\ Contents(s.ent[e]) = Contents(h.ent[e])
                                    /\ s.ent[e].vp = h.ent[e].vp /\ s.ent[e].locked = h.ent[e].locked
              /\ \A e \in Saved(h) : s.ent[e] = h.ent[e]
<1> DEFINE f == [p \in Pos |-> IF p[axis] >= i + n THEN [p EXCEPT ![axis] = @ - n] ELSE p]
<1>1. s = Moved(h, f)
  BY DEF Close
<1>2. ASSUME NEW p \in Pos
      PROVE  /\ p[axis] \in Int /\ f[p][3 - axis] = p[3 - axis]
             /\ f[p][axis] = IF p[axis] >= i + n THEN p[axis] - n ELSE p[axis]
  <2>1. p[axis] \in Int
    BY PosPairs
  <2>2. CASE p[axis] >= i + n
    <3>1. f[p] = [p EXCEPT ![axis] = p[axis] - n]
      BY <2>2
    <3> QED BY <2>1, <2>2, <3>1, PosPairs
  <2>3. CASE ~(p[axis] >= i + n)
    <3>1. f[p] = p
      BY <2>3
    <3> QED BY <2>1, <2>3, <3>1
  <2> QED BY <2>2, <2>3
<1> HIDE DEF f
<1>3. ASSUME NEW p \in Pos, NEW q \in Pos, h.tbl[p] # NULL, h.tbl[q] # NULL, f[p] = f[q]
      PROVE  p = q
  <2>1. ~(i <= p[axis] /\ p[axis] < i + n) /\ ~(i <= q[axis] /\ q[axis] < i + n)
    BY <1>3 DEF Lines
  <2>2. p[axis] = q[axis] /\ p[3 - axis] = q[3 - axis]
    BY <1>2, <1>3, <2>1
  <2> QED BY <2>2, PosEqual
<1> QED BY <1>1, <1>3, MovedGood

----------------------------------------------------------------------------
(* The sheet of the program                                                *)

(* What to_fix and the range can hold.                                     *)
Fits(h) == Short(h.fix) /\ (h.range = <<>> \/ DOMAIN h.range = {1, 2})

Inv == Now \in Sheets /\ Good(Now) /\ Fits(Now)

(* What is locked stays as it is.                                          *)
Keeps(h, s) ==
  \A e \in Placed(h) : h.ent[e].locked => e \in Placed(s) /\ Contents(s.ent[e]) = Contents(h.ent[e])

(* Formulas follow what they refer to; and locked ones do.                 *)
Refers(h, s, e) ==
  /\ h.ent[e].vp \in Placed(s) => s.ent[e].vp = h.ent[e].vp
  /\ h.ent[e].vp \notin Placed(s) => s.ent[s.ent[e].vp].pos = h.ent[h.ent[e].vp].pos
Follows(h, s) ==
  \A e \in Placed(h) \intersect Placed(s) : h.ent[e].expr # "none" /\ s.ent[e].expr # "none" =>
     Refers(h, s, e)
Points(h, s) == \A e \in Placed(h) : h.ent[e].locked /\ h.ent[e].expr # "none" => Refers(h, s, e)
Stands(h, s) == Keeps(h, s) /\ Points(h, s)

LEMMA FollowsPoints ==
  ASSUME NEW h, NEW s, Keeps(h, s), Follows(h, s)
  PROVE  Stands(h, s)
<1>1. ASSUME NEW e \in Placed(h), h.ent[e].locked, h.ent[e].expr # "none"
      PROVE  Refers(h, s, e)
  <2>1. e \in Placed(s) /\ Contents(s.ent[e]) = Contents(h.ent[e])
    BY <1>1 DEF Keeps
  <2>2. s.ent[e].expr = h.ent[e].expr
    BY <2>1 DEF Contents
  <2> QED BY <1>1, <2>1, <2>2 DEF Follows
<1> QED BY <1>1 DEF Stands, Points

LEMMA NowFields ==
  /\ Now.tbl = tbl /\ Now.ent = ent /\ Now.fix = to_fix /\ Now.range = range /\ Now.full = FALSE
  /\ \A p : Locked(p) <=> Now.tbl[p] # NULL /\ Now.ent[Now.tbl[p]].locked
BY DEF Now, Locked

LEMMA BecomesNow ==
  ASSUME NEW h \in Sheets, Becomes(h)
  PROVE  Now' = h
BY DEF Becomes, Now, Sheets

(* A step to a good sheet keeps the invariant.                             *)
LEMMA InvNext ==
  ASSUME NEW h \in Sheets, Good(h), Fits(h), Becomes(h)
  PROVE  Inv'
<1>1. Now' = h
  BY BecomesNow
<1> QED BY <1>1 DEF Inv


(* The gates that let commands write to locked cells are closed.           *)
Spare == Allowed \intersect {"typed", "label", "incr", "x", "copycell", "hole", "fill", "pull"} = {}

(* Cells of which no locked one is written are kept.                       *)
LEMMA SameKeeps ==
  ASSUME NEW g \in Sheets, Sound(g), NEW s, NEW ps, Same(g, s, ps),
         \A p \in ps : p \in Pos /\ g.tbl[p] # NULL => ~g.ent[g.tbl[p]].locked
  PROVE  Keeps(g, s) /\ (Alive(g) => Stands(g, s))
<1> SUFFICES ASSUME NEW e \in Placed(g), g.ent[e].locked
             PROVE  /\ e \in Placed(s) /\ Contents(s.ent[e]) = Contents(g.ent[e])
                    /\ Alive(g) /\ g.ent[e].expr # "none" => Refers(g, s, e)
  BY DEF Keeps, Points, Stands
<1>1. g.ent[e].pos \in Pos /\ g.tbl[g.ent[e].pos] = e /\ e # NULL
  BY DEF Placed, Sound
<1>2. g.ent[e].pos \notin ps
  BY <1>1
<1>3. s.ent[e] = g.ent[e]
  BY <1>2 DEF Same, Used
<1>4. Placed(g) \subseteq Placed(s)
  BY DEF Same
<1> QED BY <1>3, <1>4 DEF Alive, Refers

(* Cells of which none that was there is written refer to what they did.   *)
LEMMA SameFollows ==
  ASSUME NEW g \in Sheets, Good(g), NEW s, NEW ps, Same(g, s, ps),
         \A p \in ps : p \in Pos => g.tbl[p] = NULL
  PROVE  Follows(g, s)
<1> SUFFICES ASSUME NEW e \in Placed(g), g.ent[e].expr # "none"
             PROVE  s.ent[e] = g.ent[e] /\ g.ent[e].vp \in Placed(s)
  BY DEF Follows, Refers
<1>1. g.ent[e].pos \in Pos /\ g.tbl[g.ent[e].pos] = e /\ e # NULL
  BY DEF Placed, Good, Sound
<1>2. s.ent[e] = g.ent[e]
  BY <1>1 DEF Same, Used
<1> QED BY <1>2 DEF Good, Alive, Same

(* A command that writes some places.                                      *)
LEMMA Written ==
  ASSUME Inv, NEW s \in Sheets, Good(s), NEW ps, Same(Now, s, ps), Becomes(s)
  PROVE  /\ Inv'
         /\ (\A p \in ps : p \in Pos => ~Locked(p)) => Keeps(Now, Now') /\ Stands(Now, Now')
         /\ (\A p \in ps : p \in Pos => tbl[p] = NULL) => Follows(Now, Now')
<1>1. Now' = s
  BY BecomesNow
<1>2. Now \in Sheets /\ Good(Now) /\ Sound(Now) /\ Fits(s)
  BY DEF Inv, Good, Same, Fits
<1>3. Inv'
  BY <1>2, InvNext
<1>4. ASSUME \A p \in ps : p \in Pos => ~Locked(p)
      PROVE  Keeps(Now, s) /\ Stands(Now, s)
  <2>1. \A p \in ps : p \in Pos /\ Now.tbl[p] # NULL => ~Now.ent[Now.tbl[p]].locked
    BY <1>4, NowFields
  <2>2. Alive(Now)
    BY <1>2 DEF Good
  <2> QED BY <1>2, <2>1, <2>2, SameKeeps
<1>5. ASSUME \A p \in ps : p \in Pos => tbl[p] = NULL
      PROVE  Follows(Now, s)
  BY <1>2, <1>5, NowFields, SameFollows
<1> QED BY <1>1, <1>3, <1>4, <1>5

(* What spares a set of places does not write a locked one.                *)
LEMMA SparesNone ==
  ASSUME Spare, NEW ps,
         NEW gate \in {"typed", "label", "incr", "x", "copycell", "hole", "fill", "pull"}, Spares(ps, gate)
  PROVE  \A p \in ps : ~Locked(p)
BY DEF Spare, Spares

(* One cell is looked up and given something else to hold.                 *)
LEMMA PutNow ==
  ASSUME Inv, NEW h \in Sheets, Good(h), Same(Now, h, {}), NEW p \in Pos, h.tbl[p] \in Placed(h),
         NEW w \in EntTypes, w.expr # "none" => w.vp \in Placed(h),
         NEW s, s = Put(h, p, w)
  PROVE  s \in Sheets /\ Good(s) /\ s.full = h.full /\ s.tbl = h.tbl /\ Same(Now, s, {p})
<1>1. Sound(h) /\ h.tbl[p] # NULL
  BY UsedEnts DEF Good
<1>2. s \in Sheets /\ Same(h, s, {p}) /\ Good(s) /\ s.full = h.full /\ s.tbl = h.tbl
  BY <1>1, PutGood, PutSame
<1>3. Same(Now, s, {} \union {p})
  BY <1>2, SameTwice
<1>4. {} \union {p} = {p}
  OBVIOUS
<1> QED BY <1>2, <1>3, <1>4

LEMMA LookedUp ==
  ASSUME Inv, NEW ps, NEW h, h = lookat(Now, ps), ~h.full
  PROVE  /\ h \in Sheets /\ Good(h) /\ Alive(h) /\ Same(Now, h, {})
         /\ \A p \in ps : p \in Pos /\ h.tbl[p] \in Placed(h) /\ h.ent[h.tbl[p]] \in EntTypes
<1>1. Now \in Sheets /\ Sound(Now) /\ Alive(Now)
  BY DEF Inv, Good
<1>2. h \in Sheets /\ ps \subseteq Pos /\ \A p \in ps : h.tbl[p] \in Placed(h)
  BY <1>1, Lookat
<1>3. Good(h) /\ Alive(h) /\ Same(Now, h, {})
  BY <1>1, LookatGood DEF Good
<1>4. \A p \in ps : h.ent[h.tbl[p]] \in EntTypes
  BY <1>2, UsedEnts DEF Sheets
<1> QED BY <1>2, <1>3, <1>4

(* let, for a value.                                                       *)
LEMMA LetNum ==
  ASSUME Inv, NEW p \in Pos, NEW n \in Data, let_num(p, n)
  PROVE  Inv' /\ (Spare => Stands(Now, Now'))
<1> DEFINE h == lookat(Now, {p})
           y == h.ent[h.tbl[p]]
           z == IF y.expr = "str" THEN y ELSE NoExpr(y)
           w == [z EXCEPT !.v = n, !.valid = TRUE]
           s == Put(h, p, w)
<1>1. Spares({p}, "typed") /\ ~h.full /\ Becomes(s)
  BY DEF let_num
<1>2. /\ h \in Sheets /\ Good(h) /\ Alive(h) /\ Same(Now, h, {})
      /\ h.tbl[p] \in Placed(h) /\ y \in EntTypes
  BY <1>1, LookedUp
<1> HIDE DEF h
<1>3. z \in EntTypes /\ (z.expr # "none" => z = y)
  BY <1>2, NoExprEnt
<1>4. w \in EntTypes /\ w.expr = z.expr /\ w.vp = z.vp
  <2> HIDE DEF z, y
  <2> QED BY <1>3 DEF EntTypes
<1>5. w.expr # "none" => w.vp \in Placed(h)
  BY <1>2, <1>3, <1>4 DEF Alive
<1> HIDE DEF w
<1>6. s \in Sheets /\ Good(s) /\ Same(Now, s, {p})
  BY <1>2, <1>4, <1>5, PutNow
<1> HIDE DEF s
<1>7. Inv' /\ ((\A q \in {p} : q \in Pos => ~Locked(q)) => Stands(Now, Now'))
  BY <1>1, <1>6, Written
<1>8. Spare => ~Locked(p)
  BY <1>1, SparesNone
<1> QED BY <1>7, <1>8

(* let and slet, for a formula.                                            *)
LEMMA LetExpr ==
  ASSUME Inv, NEW p \in Pos, NEW expr \in {"num", "str"}, NEW q \in Pos, NEW vf \in Fixings,
         let_expr(p, expr, q, vf)
  PROVE  Inv' /\ (Spare => Stands(Now, Now'))
<1> DEFINE h == lookat(Now, {p, q})
           y == h.ent[h.tbl[p]]
           w == [y EXCEPT !.expr = expr, !.vf = vf, !.vp = h.tbl[q], !.valid = @ \/ expr = "num"]
           s == Put(h, p, w)
<1>1. Spares({p}, "typed") /\ ~h.full /\ Becomes(s)
  BY DEF let_expr
<1>2. /\ h \in Sheets /\ Good(h) /\ Same(Now, h, {})
      /\ h.tbl[p] \in Placed(h) /\ y \in EntTypes /\ h.tbl[q] \in Placed(h)
  BY <1>1, LookedUp
<1> HIDE DEF h
<1>3. h.tbl[q] \in Ents
  BY <1>2, UsedEnts
<1>4. w \in EntTypes /\ w.vp = h.tbl[q]
  <2>1. vf \in SUBSET {FIX_ROW, FIX_COL} /\ (y.valid \/ expr = "num") \in BOOLEAN
    BY SheetAssumption
  <2> HIDE DEF y
  <2> QED BY <1>2, <1>3, <2>1 DEF EntTypes
<1> HIDE DEF w
<1>5. s \in Sheets /\ Good(s) /\ Same(Now, s, {p})
  BY <1>2, <1>4, PutNow
<1> HIDE DEF s
<1>6. Inv' /\ ((\A r \in {p} : r \in Pos => ~Locked(r)) => Stands(Now, Now'))
  BY <1>1, <1>5, Written
<1>7. Spare => ~Locked(p)
  BY <1>1, SparesNone
<1> QED BY <1>6, <1>7

(* + and -                                                                 *)
LEMMA Incr ==
  ASSUME Inv, NEW p \in Pos, NEW n \in Data, incr(p, n)
  PROVE  Inv' /\ (Spare => Stands(Now, Now'))
<1> DEFINE y == ent[tbl[p]]
           w == [y EXCEPT !.v = n]
           s == Put(Now, p, w)
<1>1. tbl[p] # NULL /\ Spares({p}, "incr") /\ Becomes(s)
  BY DEF incr
<1>2. Now \in Sheets /\ Good(Now) /\ Alive(Now)
  BY DEF Inv, Good
<1>3. Now.tbl[p] \in Placed(Now) /\ Now.tbl[p] = tbl[p] /\ Now.ent = ent
  BY <1>1, NowFields DEF Placed
<1>4. y \in EntTypes
  BY <1>2, <1>3, UsedEnts DEF Sheets
<1>5. w \in EntTypes /\ w.expr = y.expr /\ w.vp = y.vp
  <2> HIDE DEF y
  <2> QED BY <1>4 DEF EntTypes
<1>6. w.expr # "none" => w.vp \in Placed(Now)
  BY <1>2, <1>3, <1>5 DEF Alive
<1>7. Same(Now, Now, {})
  BY DEF Same
<1> HIDE DEF w
<1>8. s \in Sheets /\ Good(s) /\ Same(Now, s, {p})
  BY <1>2, <1>3, <1>5, <1>6, <1>7, PutNow
<1> HIDE DEF s
<1>9. Inv' /\ ((\A q \in {p} : q \in Pos => ~Locked(q)) => Stands(Now, Now'))
  BY <1>1, <1>8, Written
<1>10. Spare => ~Locked(p)
  BY <1>1, SparesNone
<1> QED BY <1>9, <1>10

(* c                                                                       *)
LEMMA CopyCell ==
  ASSUME Inv, NEW p \in Pos, NEW q \in Pos, copycell(p, q)
  PROVE  Inv' /\ (Spare => Stands(Now, Now'))
<1> DEFINE s == copyent(Now, q, tbl[p], Minus(q, p))
<1>1. tbl[p] # NULL /\ Spares({q}, "copycell") /\ Becomes(s) /\ ~s.full
  BY DEF copycell, Becomes
<1>2. Now \in Sheets /\ Good(Now)
  BY DEF Inv
<1>3. tbl[p] \in Used(Now)
  BY <1>1, <1>2, NowFields, UsedEnts
<1>4. s \in Sheets /\ Good(s) /\ Same(Now, s, {q})
  BY <1>1, <1>2, <1>3, CopyentGood DEF Good
<1> HIDE DEF s
<1>5. Inv' /\ ((\A r \in {q} : r \in Pos => ~Locked(r)) => Stands(Now, Now'))
  BY <1>1, <1>4, Written
<1>6. Spare => ~Locked(q)
  BY <1>1, SparesNone
<1> QED BY <1>5, <1>6

(* v_name                                                                  *)
LEMMA VName ==
  ASSUME Inv, NEW p \in Pos, v_name(p)
  PROVE  Inv' /\ Keeps(Now, Now') /\ Follows(Now, Now')
<1> DEFINE s == lookat(Now, {p})
<1>1. Becomes(s) /\ ~s.full
  BY DEF v_name, Becomes
<1>2. Now \in Sheets /\ Good(Now)
  BY DEF Inv
<1>3. s \in Sheets /\ Good(s) /\ Same(Now, s, {})
  BY <1>1, <1>2, Lookat, LookatGood DEF Good
<1> QED BY <1>1, <1>3, Written


(* A step to a good sheet.                                                 *)
LEMMA Stepped ==
  ASSUME Inv, NEW s \in Sheets, Good(s), Fits(s), Becomes(s)
  PROVE  /\ Inv' /\ (Keeps(Now, s) => Keeps(Now, Now')) /\ (Follows(Now, s) => Follows(Now, Now'))
         /\ Stands(Now, s) => Stands(Now, Now')
<1>1. Now' = s
  BY BecomesNow
<1> QED BY <1>1, InvNext

(* Cells change what they hold, but refer to nothing new.                  *)
LEMMA EntsGood ==
  ASSUME NEW h \in Sheets, Good(h), NEW X \in [Ents -> EntTypes],
         \A e \in Used(h) : /\ X[e].pos = h.ent[e].pos
                            /\ X[e].expr # "none" => h.ent[e].expr # "none" /\ X[e].vp = h.ent[e].vp,
         NEW s, s = [h EXCEPT !.ent = X]
  PROVE  /\ s \in Sheets /\ Good(s) /\ s.full = h.full /\ s.ent = X
         /\ s.tbl = h.tbl /\ s.fix = h.fix /\ s.range = h.range /\ Placed(s) = Placed(h)
<1>1. /\ s.full = h.full /\ s.ent = X
      /\ s.tbl = h.tbl /\ s.fix = h.fix /\ s.range = h.range
      /\ s = [tbl |-> s.tbl, ent |-> s.ent, fix |-> s.fix, range |-> s.range, full |-> s.full]
  BY DEF Sheets
<1>2. s \in Sheets
  BY <1>1 DEF Sheets
<1>3. Placed(s) = Placed(h) /\ Saved(s) = Saved(h) /\ Used(s) = Used(h)
  BY <1>1 DEF Placed, Saved, Used
<1>4. Sound(s)
  <2>1. ASSUME NEW p \in Pos, s.tbl[p] # NULL
        PROVE  s.ent[s.tbl[p]].pos = p /\ s.tbl[p] \notin Saved(s)
    <3>1. h.tbl[p] \in Used(h) /\ h.ent[h.tbl[p]].pos = p /\ h.tbl[p] \notin Saved(h)
      BY <1>1, <2>1, UsedEnts DEF Good, Sound
    <3> QED BY <1>1, <1>3, <3>1
  <2>2. \A e \in Used(s) : s.ent[e].expr # "none" => s.ent[e].vp \in Used(s)
    BY <1>1, <1>3 DEF Good, Sound
  <2>3. \A i \in DOMAIN s.range : s.range[i] \in Used(s)
    BY <1>1, <1>3 DEF Good, Sound
  <2> QED BY <2>1, <2>2, <2>3 DEF Sound
<1>5. Alive(s)
  BY <1>1, <1>3 DEF Good, Alive, Used
<1> QED BY <1>1, <1>2, <1>3, <1>4, <1>5 DEF Good

(* The cells at some places come to hold something else, no new reference. *)
LEMMA ValuesGood ==
  ASSUME NEW h \in Sheets, Good(h), NEW ps, ps \subseteq Pos, NEW X \in [Ents -> EntTypes],
         \A e \in Ents : \/ X[e] = h.ent[e]
                         \/ /\ \E p \in ps : h.tbl[p] = e
                            /\ X[e].pos = h.ent[e].pos
                            /\ X[e].expr # "none" => h.ent[e].expr # "none" /\ X[e].vp = h.ent[e].vp,
         NEW s, s = [h EXCEPT !.ent = X]
  PROVE  s \in Sheets /\ Good(s) /\ s.full = h.full /\ s.ent = X /\ Same(h, s, ps)
<1>1. Used(h) \subseteq Ents
  BY UsedEnts
<1>2. \A e \in Used(h) : /\ X[e].pos = h.ent[e].pos
                         /\ X[e].expr # "none" => h.ent[e].expr # "none" /\ X[e].vp = h.ent[e].vp
  BY <1>1
<1>3. /\ s \in Sheets /\ Good(s) /\ s.full = h.full /\ s.ent = X
      /\ s.fix = h.fix /\ s.range = h.range /\ Placed(s) = Placed(h)
  BY <1>2, EntsGood
<1>4. ASSUME NEW e \in Used(h), e \in Saved(h) \/ h.ent[e].pos \notin ps
      PROVE  s.ent[e] = h.ent[e]
  <2>1. ~ \E p \in ps : h.tbl[p] = e
    <3> SUFFICES ASSUME NEW p \in ps, h.tbl[p] = e
                 PROVE  FALSE
      OBVIOUS
    <3>1. p \in Pos /\ h.tbl[p] # NULL
      BY UsedEnts
    <3> QED BY <1>4, <3>1 DEF Good, Sound
  <2> QED BY <1>1, <1>3, <2>1
<1>5. \A e \in Used(h) : s.ent[e].pos = h.ent[e].pos
  BY <1>2, <1>3
<1> QED BY <1>3, <1>4, <1>5 DEF Same

LEMMA InPos ==
  ASSUME NEW a \in Areas
  PROVE  In[a] \subseteq Pos /\ a[1] \in Pos /\ a[2] \in Pos
BY DEF In, Areas

(* /f                                                                      *)
LEMMA Fill ==
  ASSUME Inv, NEW a \in Areas, NEW byrows \in BOOLEAN, NEW n \in [In[a] -> Data], fill(a, byrows, n)
  PROVE  Inv' /\ (Spare => Stands(Now, Now'))
<1> DEFINE h == lookat(Now, In[a])
           ps == IF byrows THEN Unlocked(h, In[a]) ELSE In[a]
           X == [e \in Ents |-> IF \E p \in ps : h.tbl[p] = e
                                THEN [Cleared(h.ent[e]) EXCEPT !.v = n[h.ent[e].pos], !.valid = TRUE]
                                ELSE h.ent[e]]
           s == [h EXCEPT !.ent = X]
<1>1. (byrows \/ Spares(In[a], "fill")) /\ Becomes(s) /\ ~s.full
  BY DEF fill, Becomes
<1>2. Now \in Sheets /\ Good(Now)
  BY DEF Inv
<1>3. h \in Sheets
  BY <1>2, Lookat
<1>4. ps \subseteq In[a] /\ ps \subseteq Pos
  BY InPos DEF Unlocked
<1>5. ~h.full
  <2> HIDE DEF h, X
  <2> QED BY <1>1, <1>3 DEF Sheets
<1>6. Good(h) /\ Same(Now, h, {})
  BY <1>2, <1>5, LookatGood DEF Good
<1>7. \A p \in Unlocked(h, In[a]) : ~Locked(p)
  <2> SUFFICES ASSUME NEW p \in Unlocked(h, In[a]), Locked(p)
               PROVE  FALSE
    OBVIOUS
  <2>1. p \in Pos /\ ~h.ent[h.tbl[p]].locked
    BY InPos DEF Unlocked
  <2>2. Now.tbl[p] # NULL /\ Now.ent[Now.tbl[p]].locked
    BY NowFields
  <2>3. h.tbl[p] = Now.tbl[p] /\ (\A e \in Used(Now) : h.ent[e] = Now.ent[e])
    <3>1. \/ h.tbl[p] = Now.tbl[p]
          \/ /\ Now.tbl[p] = NULL /\ p \in In[a] /\ h.tbl[p] \in Free(Now)
             /\ h.ent[h.tbl[p]] = [Blank EXCEPT !.pos = p]
      BY <1>2, <1>5, <2>1, Lookat
    <3>2. \A e \in Used(Now) : h.ent[e] = Now.ent[e]
      BY <1>2, <1>5, Lookat
    <3> QED BY <2>2, <3>1, <3>2
  <2> QED BY <1>2, <2>1, <2>2, <2>3, UsedEnts
<1>8. Spare => \A p \in ps : ~Locked(p)
  BY <1>1, <1>7, SparesNone
<1> HIDE DEF h, ps
<1>9. ASSUME NEW e \in Ents, \E p \in ps : h.tbl[p] = e
      PROVE  X[e] \in EntTypes /\ X[e].pos = h.ent[e].pos /\ X[e].expr = "none"
  <2> DEFINE y == Cleared(h.ent[e])
  <2>1. PICK p \in ps : h.tbl[p] = e
    BY <1>9
  <2>2. h.ent[e].pos \in In[a]
    BY <1>4, <1>6, <2>1, SheetAssumption DEF Good, Sound
  <2>3. h.ent[e] \in EntTypes
    BY <1>3 DEF Sheets
  <2>4. y \in EntTypes /\ y.pos = h.ent[e].pos /\ y.expr = "none"
    BY <2>3, ClearedEnt
  <2>5. X[e] = [y EXCEPT !.v = n[h.ent[e].pos], !.valid = TRUE]
    BY <1>9
  <2> HIDE DEF y, X
  <2> QED BY <2>2, <2>4, <2>5 DEF EntTypes
<1>10. \A e \in Ents : (\E p \in ps : h.tbl[p] = e) \/ X[e] = h.ent[e]
  OBVIOUS
<1>11. X \in [Ents -> EntTypes]
  <2>1. \A e \in Ents : X[e] \in EntTypes
    <3> HIDE DEF X
    <3> QED BY <1>3, <1>9, <1>10 DEF Sheets
  <2> QED BY <2>1
<1> HIDE DEF X
<1>12. s \in Sheets /\ Good(s) /\ Same(h, s, ps)
  <2>1. \A e \in Ents : \/ X[e] = h.ent[e]
                        \/ /\ \E p \in ps : h.tbl[p] = e
                           /\ X[e].pos = h.ent[e].pos
                           /\ X[e].expr # "none" => h.ent[e].expr # "none" /\ X[e].vp = h.ent[e].vp
    BY <1>9, <1>10
  <2>2. s = [h EXCEPT !.ent = X]
    OBVIOUS
  <2> HIDE DEF s
  <2>3. h \in Sheets /\ Good(h) /\ ps \subseteq Pos
    BY <1>3, <1>4, <1>6
  <2> QED BY <1>11, <2>1, <2>2, <2>3, ValuesGood
<1> HIDE DEF s
<1>13. Same(Now, s, {} \union ps)
  BY <1>6, <1>12, SameTwice
<1>14. {} \union ps = ps
  OBVIOUS
<1>15. Inv' /\ ((\A p \in ps : p \in Pos => ~Locked(p)) => Stands(Now, Now'))
  BY <1>1, <1>12, <1>13, <1>14, Written
<1> QED BY <1>8, <1>15

(* /v                                                                      *)
LEMMA ValueizeArea ==
  ASSUME Inv, NEW a \in Areas, valueize_area(a)
  PROVE  Inv' /\ Stands(Now, Now')
<1> DEFINE ps == {p \in In[a] : ~Locked(p)}
           s == [Now EXCEPT !.ent = ent']
<1>1. Now \in Sheets /\ Good(Now)
  BY DEF Inv
<1>2. ps \subseteq Pos
  BY InPos
<1>3. /\ ent' = [e \in Ents |->
                   IF ent[e].expr # "none" /\ ~ent[e].locked /\ (\E p \in In[a] : tbl[p] = e)
                   THEN NoExpr(ent[e]) ELSE ent[e]]
      /\ tbl' = tbl /\ to_fix' = to_fix /\ range' = range
  BY DEF valueize_area
<1>4. \A e \in Ents : Now.ent[e] \in EntTypes
  BY <1>1 DEF Sheets
<1>5. ASSUME NEW e \in Ents
      PROVE  /\ ent'[e] \in EntTypes
             /\ \/ ent'[e] = Now.ent[e]
                \/ /\ \E p \in ps : Now.tbl[p] = e
                   /\ ent'[e].pos = Now.ent[e].pos /\ ent'[e].expr = "none"
  <2>1. CASE ent[e].expr # "none" /\ ~ent[e].locked /\ (\E p \in In[a] : tbl[p] = e)
    <3>1. ent'[e] = NoExpr(Now.ent[e])
      BY <1>3, <2>1, NowFields
    <3>2. \E p \in ps : Now.tbl[p] = e
      BY <2>1, NowFields
    <3> QED BY <1>4, <3>1, <3>2, NoExprEnt
  <2>2. CASE ~(ent[e].expr # "none" /\ ~ent[e].locked /\ (\E p \in In[a] : tbl[p] = e))
    BY <1>3, <1>4, <2>2, NowFields
  <2> QED BY <2>1, <2>2
<1>6. ent' \in [Ents -> EntTypes]
  BY <1>3, <1>5
<1>7. \A p \in ps : ~Locked(p)
  OBVIOUS
<1> HIDE DEF ps
<1>8. s \in Sheets /\ Good(s) /\ Same(Now, s, ps)
  <2> DEFINE X == ent'
             t == [Now EXCEPT !.ent = X]
  <2>1. X \in [Ents -> EntTypes] /\ s = t
    BY <1>6
  <2>2. \A e \in Ents : \/ X[e] = Now.ent[e]
                        \/ /\ \E p \in ps : Now.tbl[p] = e
                           /\ X[e].pos = Now.ent[e].pos
                           /\ X[e].expr # "none" => Now.ent[e].expr # "none" /\ X[e].vp = Now.ent[e].vp
    BY <1>5
  <2> HIDE DEF X, s
  <2>3. t \in Sheets /\ Good(t) /\ Same(Now, t, ps)
    BY <1>1, <1>2, <2>1, <2>2, ValuesGood
  <2> QED BY <2>1, <2>3
<1>9. Becomes(s)
  BY <1>1, <1>3, NowFields DEF Becomes, Sheets
<1> HIDE DEF s
<1> QED BY <1>7, <1>8, <1>9, Written

(* EvalAll: no reference changes, and nothing that is locked.              *)
LEMMA Evaluate ==
  ASSUME Inv, NEW n \in [Evaluated -> Data], EvalAll(n)
  PROVE  Inv' /\ Keeps(Now, Now') /\ Follows(Now, Now')
<1> DEFINE s == [Now EXCEPT !.ent = ent']
<1>1. Now \in Sheets /\ Good(Now) /\ Fits(Now)
  BY DEF Inv
<1>2. /\ ent' = [e \in Ents |->
                   IF e \notin Evaluated THEN ent[e]
                   ELSE IF ent[e].expr = "num" THEN [ent[e] EXCEPT !.v = n[e], !.valid = TRUE]
                   ELSE [ent[e] EXCEPT !.text = n[e]]]
      /\ tbl' = tbl /\ to_fix' = to_fix /\ range' = range
  BY DEF EvalAll
<1>3. ASSUME NEW e \in Ents
      PROVE  /\ ent'[e] \in EntTypes /\ ent'[e].pos = Now.ent[e].pos
             /\ ent'[e].expr = Now.ent[e].expr /\ ent'[e].vp = Now.ent[e].vp
             /\ Now.ent[e].locked => ent'[e] = Now.ent[e]
  <2> DEFINE y == ent[e]
             z == ent'[e]
  <2>1. y \in EntTypes /\ Now.ent[e] = y
    BY <1>1, NowFields DEF Sheets
  <2>2. CASE e \notin Evaluated
    <3>1. z = y
      BY <1>2, <2>2
    <3> HIDE DEF y, z
    <3> QED BY <2>1, <3>1 DEF z
  <2>3. CASE e \in Evaluated
    <3>1. n[e] \in Data /\ ~y.locked
      BY <2>3 DEF Evaluated
    <3>2. z = [y EXCEPT !.v = n[e], !.valid = TRUE] \/ z = [y EXCEPT !.text = n[e]]
      BY <1>2, <2>3
    <3> HIDE DEF y, z
    <3>3. z \in EntTypes /\ z.pos = y.pos /\ z.expr = y.expr /\ z.vp = y.vp
      BY <2>1, <3>1, <3>2 DEF EntTypes
    <3> QED BY <2>1, <3>1, <3>3 DEF z
  <2> QED BY <2>2, <2>3
<1>4. Used(Now) \subseteq Ents /\ Placed(Now) \subseteq Used(Now)
  BY <1>1, UsedEnts
<1>5. /\ s \in Sheets /\ Good(s) /\ s.ent = ent' /\ s.full = Now.full
      /\ s.tbl = Now.tbl /\ s.fix = Now.fix /\ s.range = Now.range /\ Placed(s) = Placed(Now)
  <2> DEFINE X == ent'
             t == [Now EXCEPT !.ent = X]
  <2>1. X \in [Ents -> EntTypes] /\ s = t /\ X = ent'
    BY <1>2, <1>3
  <2>2. \A e \in Used(Now) : /\ X[e].pos = Now.ent[e].pos
                             /\ X[e].expr # "none" => Now.ent[e].expr # "none" /\ X[e].vp = Now.ent[e].vp
    BY <1>3, <1>4
  <2> HIDE DEF X, s
  <2>3. /\ t \in Sheets /\ Good(t) /\ t.full = Now.full /\ t.ent = X
        /\ t.tbl = Now.tbl /\ t.fix = Now.fix /\ t.range = Now.range /\ Placed(t) = Placed(Now)
    BY <1>1, <2>1, <2>2, EntsGood
  <2> QED BY <2>1, <2>3
<1>6. Becomes(s)
  BY <1>2, <1>5, NowFields DEF Becomes
<1> HIDE DEF s
<1>7. Fits(s)
  BY <1>1, <1>5 DEF Fits
<1>8. Keeps(Now, s)
  BY <1>3, <1>4, <1>5 DEF Keeps
<1>9. Follows(Now, s)
  BY <1>1, <1>3, <1>4, <1>5 DEF Follows, Refers, Good, Alive
<1> QED BY <1>5, <1>6, <1>7, <1>8, <1>9, Stepped

(* lock_cells and unlock_cells                                             *)
LEMMA LockCells ==
  ASSUME Inv, NEW a \in Areas, NEW on \in BOOLEAN, lock(a, on)
  PROVE  Inv' /\ Keeps(Now, Now') /\ Follows(Now, Now')
<1> DEFINE h == lookat(Now, In[a])
           X == [e \in Ents |-> IF \E p \in In[a] : h.tbl[p] = e
                                THEN [h.ent[e] EXCEPT !.locked = on] ELSE h.ent[e]]
           s == [h EXCEPT !.ent = X]
<1>1. Becomes(s) /\ ~s.full
  BY DEF lock, Becomes
<1>2. Now \in Sheets /\ Good(Now)
  BY DEF Inv
<1>3. h \in Sheets
  BY <1>2, Lookat
<1>4. ~h.full
  <2> HIDE DEF h, X
  <2> QED BY <1>1, <1>3 DEF Sheets
<1>5. Good(h) /\ Same(Now, h, {})
  BY <1>2, <1>4, LookatGood DEF Good
<1> HIDE DEF h
<1>6. ASSUME NEW e \in Ents
      PROVE  /\ X[e] \in EntTypes /\ X[e].pos = h.ent[e].pos /\ X[e].expr = h.ent[e].expr
             /\ Contents(X[e]) = Contents(h.ent[e]) /\ X[e].vp = h.ent[e].vp
  <2>1. h.ent[e] \in EntTypes
    BY <1>3 DEF Sheets
  <2>2. X[e] = IF \E p \in In[a] : h.tbl[p] = e THEN [h.ent[e] EXCEPT !.locked = on] ELSE h.ent[e]
    OBVIOUS
  <2> HIDE DEF X
  <2> QED BY <2>1, <2>2 DEF EntTypes, Contents
<1>7. X \in [Ents -> EntTypes]
  BY <1>6
<1> HIDE DEF X
<1>8. Used(h) \subseteq Ents /\ Placed(Now) \subseteq Used(Now) /\ Used(Now) \subseteq Ents
  BY <1>2, <1>3, UsedEnts
<1>9. /\ s \in Sheets /\ Good(s) /\ s.ent = X
      /\ s.fix = h.fix /\ s.range = h.range /\ Placed(s) = Placed(h)
  BY <1>3, <1>5, <1>6, <1>7, <1>8, EntsGood
<1> HIDE DEF s
<1>10. Fits(s) /\ Placed(Now) \subseteq Placed(s) /\ \A e \in Used(Now) : h.ent[e] = Now.ent[e]
  BY <1>5, <1>9 DEF Same, Fits, Inv
<1>11. \A e \in Placed(Now) : /\ s.ent[e].expr = Now.ent[e].expr
                              /\ Contents(s.ent[e]) = Contents(Now.ent[e]) /\ s.ent[e].vp = Now.ent[e].vp
  BY <1>6, <1>8, <1>9, <1>10
<1>12. Keeps(Now, s)
  BY <1>10, <1>11 DEF Keeps
<1>13. Follows(Now, s)
  BY <1>2, <1>10, <1>11 DEF Follows, Refers, Good, Alive
<1> QED BY <1>1, <1>9, <1>10, <1>12, <1>13, Stepped

(* insertrow and opencol                                                   *)
LEMMA Inserted ==
  ASSUME Inv, NEW axis \in {1, 2}, NEW i \in Int, NEW n \in Nat, Becomes(Open(Now, axis, i, n))
  PROVE  Inv' /\ Keeps(Now, Now') /\ Follows(Now, Now')
<1> DEFINE s == Open(Now, axis, i, n)
<1>1. Now \in Sheets /\ Good(Now) /\ Sound(Now) /\ Alive(Now)
  BY DEF Inv, Good
<1>2. ~s.full
  BY DEF Becomes
<1>3. /\ s \in Sheets /\ Sound(s) /\ Alive(s)
      /\ Placed(s) = Placed(Now) /\ s.fix = Now.fix /\ s.range = Now.range
      /\ \A e \in Used(Now) : /\ s.ent[e].expr = Now.ent[e].expr /\ Contents(s.ent[e]) = Contents(Now.ent[e])
                              /\ s.ent[e].vp = Now.ent[e].vp /\ s.ent[e].locked = Now.ent[e].locked
  BY <1>1, <1>2, OpenGood
<1> HIDE DEF s
<1>4. Fits(s) /\ Good(s)
  BY <1>3 DEF Fits, Inv, Good
<1>5. Keeps(Now, s) /\ Follows(Now, s)
  BY <1>1, <1>3 DEF Keeps, Follows, Refers, Alive, Used
<1>6. Becomes(s)
  BY DEF s
<1> QED BY <1>3, <1>4, <1>5, <1>6, Stepped


(* The ents of one sheet refer in the other to what they referred to.      *)
SameRefs(h, s) == \A e \in Used(h) : s.ent[e].expr = h.ent[e].expr /\ s.ent[e].vp = h.ent[e].vp

(* A label: no reference changes.                                          *)
LEMMA LabelGood ==
  ASSUME Inv, NEW h \in Sheets, Good(h), Same(Now, h, {}), ~h.full,
         NEW q, NEW t \in Data, NEW s, s = label(h, q, t), ~s.full
  PROVE  /\ s \in Sheets /\ Good(s) /\ q \in Pos /\ Same(Now, s, {q})
         /\ \A p \in Pos : h.tbl[p] \in Placed(h) => s.tbl[p] = h.tbl[p] /\ s.tbl[p] \in Placed(s)
         /\ SameRefs(h, s)
<1> DEFINE n == lookat(h, {q})
           y == n.ent[n.tbl[q]]
           w == [y EXCEPT !.text = t]
<1>1. s = IF n.full THEN n ELSE Put(n, q, w)
  BY DEF label
<1>2. ~n.full /\ s = Put(n, q, w)
  BY <1>1
<1>3. /\ n \in Sheets /\ q \in Pos /\ n.tbl[q] \in Placed(n)
      /\ \A p \in Pos : n.tbl[p] = h.tbl[p] \/ h.tbl[p] = NULL
      /\ \A e \in Used(h) : n.ent[e] = h.ent[e]
  <2> DEFINE ps == {q}
  <2>1. n = lookat(h, ps) /\ q \in ps
    OBVIOUS
  <2> HIDE DEF ps, n
  <2>2. n \in Sheets /\ ps \subseteq Pos /\ \A p \in ps : n.tbl[p] \in Placed(n)
    BY <1>2, <2>1, Lookat
  <2>3. \A p \in Pos : \/ n.tbl[p] = h.tbl[p]
                       \/ /\ h.tbl[p] = NULL /\ p \in ps /\ n.tbl[p] \in Free(h)
                          /\ n.ent[n.tbl[p]] = [Blank EXCEPT !.pos = p]
    BY <1>2, <2>1, Lookat
  <2>4. \A e \in Used(h) : n.ent[e] = h.ent[e]
    BY <1>2, <2>1, Lookat
  <2> QED BY <2>1, <2>2, <2>3, <2>4
<1>4. Good(n) /\ Alive(n) /\ Same(h, n, {})
  BY <1>2, LookatGood DEF Good
<1>5. Same(Now, n, {})
  <2> HIDE DEF n
  <2>1. Same(Now, n, {} \union {}) /\ {} \union {} = {}
    BY <1>4, SameTwice
  <2> QED BY <2>1
<1> HIDE DEF n
<1>6. y \in EntTypes /\ Used(h) \subseteq Ents
  BY <1>3, UsedEnts DEF Sheets
<1>7. w \in EntTypes /\ w.expr = y.expr /\ w.vp = y.vp
  <2> HIDE DEF y
  <2> QED BY <1>6 DEF EntTypes
<1>8. w.expr # "none" => w.vp \in Placed(n)
  BY <1>3, <1>4, <1>7 DEF Alive
<1> HIDE DEF w
<1>9. s \in Sheets /\ Good(s) /\ s.tbl = n.tbl /\ Same(Now, s, {q})
  BY <1>2, <1>3, <1>4, <1>5, <1>7, <1>8, PutNow
<1>10. \A e \in Ents : e # n.tbl[q] => s.ent[e] = n.ent[e]
  BY <1>2, <1>3, <1>7, UsedEnts, PutGood
<1>11. s.ent[n.tbl[q]].expr = w.expr /\ s.ent[n.tbl[q]].vp = w.vp
  <2>1. n.tbl[q] \in Ents /\ n.ent \in [Ents -> EntTypes]
    BY <1>3, UsedEnts DEF Sheets
  <2>2. s.ent = [n.ent EXCEPT ![n.tbl[q]] = [w EXCEPT !.pos = n.ent[n.tbl[q]].pos]]
    BY <1>2, <1>3 DEF Put, Sheets
  <2> QED BY <1>7, <2>1, <2>2 DEF EntTypes
<1>12. \A p \in Pos : h.tbl[p] \in Placed(h) => s.tbl[p] = h.tbl[p] /\ s.tbl[p] \in Placed(s)
  BY <1>3, <1>9, UsedEnts DEF Placed
<1>13. ASSUME NEW e \in Used(h)
       PROVE  s.ent[e].expr = h.ent[e].expr /\ s.ent[e].vp = h.ent[e].vp
  <2>1. CASE e = n.tbl[q]
    BY <1>3, <1>7, <1>11, <2>1
  <2>2. CASE e # n.tbl[q]
    BY <1>3, <1>6, <1>10, <2>2
  <2> QED BY <2>1, <2>2
<1> QED BY <1>3, <1>9, <1>12, <1>13 DEF SameRefs

(* slet, for a text: the cell's own label, or its left or right neighbour's. *)
LEMMA Slet ==
  ASSUME Inv, NEW p \in Pos, NEW t \in Data, NEW flushdir \in BOOLEAN, slet(p, t, flushdir)
  PROVE  Inv' /\ (Spare => Stands(Now, Now'))
<1> DEFINE h == lookat(Now, {p})
           q == IF flushdir THEN p ELSE Beside(h, p)
           l == label(h, q, t)
           y == l.ent[l.tbl[p]]
           w == NoExpr(y)
           s == IF y.expr = "str" THEN Put(l, p, w) ELSE l
<1>1. /\ Spares({p}, "typed") /\ ~h.full /\ (q = p \/ Spares({q} \intersect Pos, "label"))
      /\ ~l.full /\ Becomes(s)
  BY DEF slet
<1>2. h \in Sheets /\ Good(h) /\ Same(Now, h, {}) /\ h.tbl[p] \in Placed(h)
  BY <1>1, LookedUp
<1> HIDE DEF h, q
<1>3. /\ l \in Sheets /\ Good(l) /\ q \in Pos /\ Same(Now, l, {q})
      /\ l.tbl[p] \in Placed(l)
  BY <1>1, <1>2, LabelGood
<1> HIDE DEF l
<1>4. l.tbl[p] # NULL /\ y \in EntTypes /\ Sound(l)
  BY <1>3, UsedEnts DEF Sheets, Good
<1>5. w \in EntTypes /\ w.expr = "none"
  BY <1>4, NoExprEnt
<1> HIDE DEF w
<1>6. s \in Sheets /\ Good(s) /\ Same(Now, s, {q} \union {p})
  <2>1. CASE s = l
    <3>1. Same(Now, l, {q} \union {p})
      BY <1>3 DEF Same
    <3> QED BY <1>3, <2>1, <3>1
  <2>2. CASE s = Put(l, p, w)
    <3>1. s \in Sheets /\ Same(l, s, {p}) /\ Good(s)
      BY <1>3, <1>4, <1>5, <2>2, PutGood, PutSame
    <3> QED BY <1>3, <3>1, SameTwice
  <2> QED BY <2>1, <2>2
<1> HIDE DEF s
<1>7. Inv' /\ ((\A r \in {q} \union {p} : r \in Pos => ~Locked(r)) => Stands(Now, Now'))
  BY <1>1, <1>6, Written
<1>8. Spare => ~Locked(p) /\ ~Locked(q)
  <2>1. Spare => ~Locked(p)
    BY <1>1, SparesNone
  <2>2. CASE q = p
    BY <2>1, <2>2
  <2>3. CASE Spares({q} \intersect Pos, "label")
    <3>1. Spare => \A r \in {q} \intersect Pos : ~Locked(r)
      BY <2>3, SparesNone
    <3> QED BY <1>3, <2>1, <3>1
  <2> QED BY <1>1, <2>2, <2>3
<1> QED BY <1>7, <1>8

(* The name of a range is kept.                                            *)
LEMMA NamedGood ==
  ASSUME NEW h \in Sheets, Good(h), NEW p \in Pos, NEW q \in Pos,
         h.tbl[p] \in Placed(h), h.tbl[q] \in Placed(h),
         NEW s, s = [h EXCEPT !.range = <<h.tbl[p], h.tbl[q]>>]
  PROVE  /\ s \in Sheets /\ Good(s) /\ s.full = h.full /\ s.tbl = h.tbl /\ s.ent = h.ent
         /\ s.fix = h.fix /\ DOMAIN s.range = {1, 2} /\ Placed(s) = Placed(h)
<1>1. /\ s.full = h.full /\ s.tbl = h.tbl /\ s.ent = h.ent
      /\ s.fix = h.fix /\ s.range = <<h.tbl[p], h.tbl[q]>>
      /\ s = [tbl |-> s.tbl, ent |-> s.ent, fix |-> s.fix, range |-> s.range, full |-> s.full]
  BY DEF Sheets
<1>2. h.tbl[p] \in Ents /\ h.tbl[q] \in Ents
  BY UsedEnts
<1>3. s.range \in Seq(Ents) /\ DOMAIN s.range = {1, 2}
  BY <1>1, <1>2
<1>4. s \in Sheets
  BY <1>1, <1>3 DEF Sheets
<1>5. Placed(s) = Placed(h) /\ Saved(s) = Saved(h) /\ Used(s) = Used(h)
  BY <1>1 DEF Placed, Saved, Used
<1>6. \A i \in DOMAIN s.range : s.range[i] \in Placed(s)
  BY <1>1, <1>3, <1>5
<1>7. Sound(s)
  BY <1>1, <1>5, <1>6 DEF Good, Sound, Used
<1>8. Alive(s)
  BY <1>1, <1>5, <1>6 DEF Good, Alive
<1> QED BY <1>1, <1>3, <1>4, <1>5, <1>7, <1>8 DEF Good

(* add_range                                                               *)
LEMMA AddRange ==
  ASSUME Inv, NEW a \in Areas, NEW t \in Data, add_range(a, t)
  PROVE  Inv' /\ (Spare => Keeps(Now, Now')) /\ Follows(Now, Now')
<1>1. Now \in Sheets /\ Good(Now) /\ a[1] \in Pos /\ a[2] \in Pos
  BY InPos DEF Inv
<1> DEFINE h    == lookat(Now, {a[1], a[2]})
           left == <<a[1][1], a[1][2] - 1>>
           l    == lookat(h, {left})
           q    == Beside(l, left)
           m    == label(l, q, t)
           named(s) == [s EXCEPT !.range = <<s.tbl[a[1]], s.tbl[a[2]]>>]
<1>2. /\ ~h.full
      /\ \/ /\ ~l.full /\ Spares({q} \intersect Pos, "label") /\ ~m.full /\ Becomes(named(m))
         \/ ~l.full /\ Becomes(named(l))
         \/ Becomes(named(h))
  BY DEF add_range
<1>3. h \in Sheets /\ h.tbl[a[1]] \in Placed(h) /\ h.tbl[a[2]] \in Placed(h)
  <2> DEFINE ps == {a[1], a[2]}
  <2>1. h = lookat(Now, ps) /\ a[1] \in ps /\ a[2] \in ps
    OBVIOUS
  <2>2. Now \in Sheets /\ Sound(Now) /\ ~h.full
    BY <1>1, <1>2 DEF Good
  <2> HIDE DEF ps, h
  <2>3. h \in Sheets /\ \A p \in ps \intersect Pos : h.tbl[p] \in Placed(h)
    BY <2>1, <2>2, Lookat
  <2> QED BY <1>1, <2>1, <2>3
<1>4. Good(h) /\ Same(Now, h, {})
  BY <1>1, <1>2, LookatGood, SMTT(20) DEF Good
<1> HIDE DEF h, left
<1>5. ASSUME ~l.full
      PROVE  /\ l \in Sheets /\ Good(l) /\ Same(Now, l, {}) /\ left \in Pos /\ l.tbl[left] \in Placed(l)
             /\ l.tbl[a[1]] \in Placed(l) /\ l.tbl[a[2]] \in Placed(l)
  <2>1. l \in Sheets /\ left \in Pos /\ l.tbl[left] \in Placed(l)
    BY <1>3, <1>5, Lookat
  <2>2. Good(l) /\ Same(h, l, {})
    BY <1>3, <1>4, <1>5, LookatGood DEF Good
  <2>3. Same(Now, l, {} \union {}) /\ {} \union {} = {}
    BY <1>4, <2>2, SameTwice
  <2>4. \A p \in Pos : \/ l.tbl[p] = h.tbl[p]
                       \/ /\ h.tbl[p] = NULL /\ p \in {left} /\ l.tbl[p] \in Free(h)
                          /\ l.ent[l.tbl[p]] = [Blank EXCEPT !.pos = p]
    BY <1>3, <1>5, Lookat
  <2>5. h.tbl[a[1]] # NULL /\ h.tbl[a[2]] # NULL
    BY <1>3, UsedEnts
  <2>6. l.tbl[a[1]] \in Placed(l) /\ l.tbl[a[2]] \in Placed(l)
    BY <1>1, <2>1, <2>4, <2>5, UsedEnts
  <2> QED BY <2>1, <2>2, <2>3, <2>6
<1> HIDE DEF l
<1>6. ASSUME NEW g \in Sheets, Good(g), g.tbl[a[1]] \in Placed(g), g.tbl[a[2]] \in Placed(g),
             Becomes(named(g)), g.fix = Now.fix
      PROVE  /\ Inv'
             /\ Keeps(Now, g) => Keeps(Now, Now')
             /\ Follows(Now, g) => Follows(Now, Now')
  <2> DEFINE s == named(g)
  <2>1. /\ s \in Sheets /\ Good(s) /\ s.tbl = g.tbl /\ s.ent = g.ent
        /\ s.fix = g.fix /\ DOMAIN s.range = {1, 2} /\ Placed(s) = Placed(g)
    BY <1>1, <1>6, NamedGood
  <2>2. Becomes(s)
    BY <1>6
  <2> HIDE DEF s
  <2>3. Fits(s)
    BY <1>6, <2>1 DEF Fits, Inv
  <2>4. Keeps(Now, g) => Keeps(Now, s)
    BY <2>1 DEF Keeps
  <2>5. Follows(Now, g) => Follows(Now, s)
    BY <2>1 DEF Follows, Refers
  <2> QED BY <2>1, <2>2, <2>3, <2>4, <2>5, Stepped
<1>7. ASSUME NEW g \in Sheets, Same(Now, g, {})
      PROVE  g.fix = Now.fix /\ Keeps(Now, g) /\ Follows(Now, g)
  <2>1. Sound(Now) /\ g.fix = Now.fix
    BY <1>1, <1>7 DEF Good, Same
  <2> QED BY <1>1, <1>7, <2>1, SameKeeps, SameFollows
<1> HIDE DEF named
<1>8. CASE Becomes(named(h))
  BY <1>3, <1>4, <1>6, <1>7, <1>8
<1>9. CASE ~l.full /\ Becomes(named(l))
  BY <1>5, <1>6, <1>7, <1>9
<1>10. CASE ~l.full /\ Spares({q} \intersect Pos, "label") /\ ~m.full /\ Becomes(named(m))
  <2> HIDE DEF q
  <2>1. /\ m \in Sheets /\ Good(m) /\ q \in Pos /\ Same(Now, m, {q})
        /\ m.tbl[a[1]] \in Placed(m) /\ m.tbl[a[2]] \in Placed(m)
        /\ \A e \in Used(l) : m.ent[e].expr = l.ent[e].expr /\ m.ent[e].vp = l.ent[e].vp
    <3>1. l \in Sheets /\ Good(l) /\ Same(Now, l, {}) /\ ~l.full /\ ~m.full
      BY <1>5, <1>10
    <3>3. m = label(l, q, t)
      OBVIOUS
    <3> HIDE DEF m
    <3>2. m \in Sheets /\ Good(m) /\ q \in Pos /\ Same(Now, m, {q})
      BY <3>1, <3>3, LabelGood
    <3>4. ASSUME NEW p \in Pos, l.tbl[p] \in Placed(l)
          PROVE  m.tbl[p] \in Placed(m)
      BY <3>1, <3>3, <3>4, LabelGood
    <3>5. SameRefs(l, m)
      BY <3>1, <3>3, LabelGood
    <3> QED BY <1>1, <1>5, <1>10, <3>2, <3>4, <3>5 DEF SameRefs
  <2> HIDE DEF m
  <2>2. m.fix = Now.fix /\ Placed(Now) \subseteq Placed(m) /\ Used(Now) \subseteq Used(l)
        /\ \A e \in Used(Now) : l.ent[e] = Now.ent[e]
    BY <1>5, <1>10, <2>1 DEF Same, Used, Saved
  <2>3. Inv' /\ (Keeps(Now, m) => Keeps(Now, Now')) /\ (Follows(Now, m) => Follows(Now, Now'))
    BY <1>6, <1>10, <2>1, <2>2
  <2>4. ASSUME Spare
        PROVE  Keeps(Now, m)
    <3>1. \A p \in {q} \intersect Pos : ~Locked(p)
      BY <1>10, <2>4, SparesNone
    <3>2. \A p \in {q} : p \in Pos /\ Now.tbl[p] # NULL => ~Now.ent[Now.tbl[p]].locked
      BY <3>1, NowFields
    <3>3. Sound(Now)
      BY <1>1 DEF Good
    <3> QED BY <1>1, <2>1, <3>2, <3>3, SameKeeps
  <2>5. Follows(Now, m)
    BY <1>1, <2>1, <2>2 DEF Follows, Refers, Good, Alive, Used
  <2> QED BY <2>3, <2>4, <2>5
<1> QED BY <1>2, <1>8, <1>9, <1>10

(* del_range                                                               *)
LEMMA DelRange ==
  ASSUME Inv, del_range
  PROVE  Inv' /\ Keeps(Now, Now') /\ Follows(Now, Now')
<1> DEFINE s == [Now EXCEPT !.range = <<>>]
<1>1. /\ s.full = FALSE /\ s.tbl = tbl /\ s.ent = ent /\ s.fix = to_fix /\ s.range = <<>>
      /\ s = [tbl |-> s.tbl, ent |-> s.ent, fix |-> s.fix, range |-> s.range, full |-> s.full]
  <2>1. Now \in Sheets
    BY DEF Inv
  <2> QED BY <2>1, NowFields DEF Sheets
<1> HIDE DEF s
<1>2. Now \in Sheets /\ Good(Now) /\ Fits(Now)
  BY DEF Inv
<1>3. Becomes(s)
  BY <1>1 DEF Becomes, del_range
<1>4. s \in Sheets
  <2>1. tbl \in [Pos -> Ents \union {NULL}] /\ ent \in [Ents -> EntTypes] /\ to_fix \in Seq(SUBSET Ents)
    BY <1>2, NowFields DEF Sheets
  <2>2. s.full \in BOOLEAN
    BY <1>1
  <2>3. <<>> \in Seq(Ents)
    OBVIOUS
  <2> QED BY <1>1, <2>1, <2>2, <2>3 DEF Sheets
<1>5. Placed(s) = Placed(Now) /\ Saved(s) = Saved(Now) /\ Used(s) = Used(Now)
  BY <1>1, NowFields DEF Placed, Saved, Used
<1>6. DOMAIN s.range = {}
  BY <1>1
<1>7. Good(s) /\ Fits(s)
  BY <1>1, <1>2, <1>5, <1>6, NowFields DEF Good, Sound, Alive, Fits
<1>8. Keeps(Now, s) /\ Follows(Now, s)
  BY <1>1, <1>2, <1>5, NowFields DEF Keeps, Follows, Refers, Good, Alive
<1> QED BY <1>3, <1>4, <1>7, <1>8, Stepped

(* erasedb: nothing that was deleted refers to a cell that goes.           *)
LEMMA EraseDb ==
  ASSUME Inv, "erasedb" \notin Allowed, erasedb
  PROVE  Inv' /\ Follows(Now, Now')
<1> DEFINE old == Placed(Now)
           s == [Release(Now, old) EXCEPT !.tbl = [p \in Pos |-> NULL], !.range = <<>>]
<1>1. Now \in Sheets /\ Good(Now) /\ Fits(Now)
  BY DEF Inv
<1>2. Becomes(s) /\ \A e \in Saved(Now) : ent[e].vp \notin old
  BY DEF erasedb
<1>3. /\ s.full = Now.full /\ s.fix = Now.fix /\ s.range = <<>>
      /\ s.tbl = [p \in Pos |-> NULL]
      /\ s.ent = [e \in Ents |-> IF e \in old THEN Blank ELSE Now.ent[e]]
      /\ s = [tbl |-> s.tbl, ent |-> s.ent, fix |-> s.fix, range |-> s.range, full |-> s.full]
  <2> DEFINE h == Now
  <2>1. h \in Sheets /\ h = Now
    BY <1>1
  <2>2. s = [[h EXCEPT !.ent = [e \in Ents |-> IF e \in old THEN Blank ELSE h.ent[e]]]
               EXCEPT !.tbl = [p \in Pos |-> NULL], !.range = <<>>]
    BY DEF Release
  <2> HIDE DEF old, h, s
  <2>3. /\ s.full = h.full /\ s.fix = h.fix /\ s.range = <<>>
        /\ s.tbl = [p \in Pos |-> NULL]
        /\ s.ent = [e \in Ents |-> IF e \in old THEN Blank ELSE h.ent[e]]
        /\ s = [tbl |-> s.tbl, ent |-> s.ent, fix |-> s.fix, range |-> s.range, full |-> s.full]
    BY <2>1, <2>2 DEF Sheets
  <2> QED BY <2>1, <2>3
<1> HIDE DEF s
<1>4. s \in Sheets
  <2>1. Blank \in EntTypes
    BY BlankEnt
  <2>2. s.ent \in [Ents -> EntTypes]
    BY <1>1, <1>3, <2>1 DEF Sheets
  <2>3. s.tbl \in [Pos -> Ents \union {NULL}]
    BY <1>3
  <2>4. s.fix \in Seq(SUBSET Ents) /\ s.full \in BOOLEAN /\ s.range \in Seq(Ents)
    BY <1>1, <1>3 DEF Sheets
  <2> QED BY <1>3, <2>2, <2>3, <2>4 DEF Sheets
<1>5. Placed(s) = {}
  BY <1>3 DEF Placed
<1>6. Saved(s) = Saved(Now) /\ Used(s) = Saved(Now)
  BY <1>3, <1>5 DEF Saved, Used
<1>7. \A e \in Saved(Now) : e \in Ents /\ e \notin old
  <2> SUFFICES ASSUME NEW e \in Saved(Now)
               PROVE  e \in Ents /\ e \notin old
    OBVIOUS
  <2>1. e \in Ents
    BY <1>1, UsedEnts
  <2>2. e \notin Placed(Now)
    BY <1>1, UsedEnts DEF Good, Sound
  <2> QED BY <2>1, <2>2
<1>8. \A e \in Saved(Now) : s.ent[e] = Now.ent[e] /\ Now.ent[e] = ent[e]
  BY <1>3, <1>7, NowFields
<1>9. Sound(s)
  <2>1. \A e \in Used(s) : s.ent[e].expr # "none" => s.ent[e].vp \in Used(s)
    BY <1>1, <1>2, <1>6, <1>8 DEF Good, Sound, Used
  <2>2. DOMAIN s.range = {}
    BY <1>3
  <2>3. \A p \in Pos : s.tbl[p] = NULL
    BY <1>3
  <2> QED BY <2>1, <2>2, <2>3 DEF Sound
<1>10. Good(s) /\ Fits(s)
  <2>1. DOMAIN s.range = {}
    BY <1>3
  <2> QED BY <1>1, <1>3, <1>5, <1>9, <2>1 DEF Good, Alive, Fits
<1>11. Follows(Now, s)
  BY <1>5 DEF Follows
<1> QED BY <1>2, <1>4, <1>10, <1>11, Stepped


----------------------------------------------------------------------------
(* What is deleted                                                         *)

(* erase_area: the cells that are not locked go.                           *)
LEMMA EraseGood ==
  ASSUME NEW h \in Sheets, Sound(h), NEW ps, ps \subseteq Pos, NEW s, s = erase_area(h, ps)
  PROVE  /\ s \in Sheets /\ Sound(s) /\ (~s.full => ~h.full) /\ s.range = h.range
         /\ Used(s) = Used(h) /\ Placed(s) \subseteq Placed(h)
         /\ \A p \in ps : h.tbl[p] # NULL /\ ~h.ent[h.tbl[p]].locked => s.tbl[p] = NULL
         /\ \A p \in Pos : s.tbl[p] = NULL \/ s.tbl[p] = h.tbl[p]
         /\ \A e \in Used(h) : /\ s.ent[e].pos = h.ent[e].pos /\ s.ent[e].expr = h.ent[e].expr
                               /\ Contents(s.ent[e]) = Contents(h.ent[e]) /\ s.ent[e].vp = h.ent[e].vp
         /\ \A e \in Placed(h) : h.ent[e].locked => e \in Placed(s) /\ s.ent[e] = h.ent[e]
         /\ \A e \in Placed(h) : h.ent[e].pos \notin ps => e \in Placed(s) /\ s.ent[e] = h.ent[e]
         /\ ~s.full /\ Short(h.fix) => Short(s.fix)
<1> DEFINE us == Unlocked(h, ps)
<1>1. s = free_ent(h, us)
  BY DEF erase_area
<1>2. /\ us \subseteq ps
      /\ \A p \in ps : p \in us <=> h.tbl[p] # NULL /\ ~h.ent[h.tbl[p]].locked
  BY DEF Unlocked, Cells
<1> HIDE DEF us
<1>3. /\ s \in Sheets /\ Sound(s) /\ (~s.full => ~h.full) /\ s.range = h.range
      /\ Used(s) = Used(h)
  BY <1>1, FreeEntGood
<1>4. \A p \in Pos : s.tbl[p] = IF p \in us THEN NULL ELSE h.tbl[p]
  BY <1>1, FreeEntGood
<1>5. \A e \in Used(h) : /\ s.ent[e].pos = h.ent[e].pos /\ s.ent[e].expr = h.ent[e].expr
                         /\ Contents(s.ent[e]) = Contents(h.ent[e]) /\ s.ent[e].vp = h.ent[e].vp
  BY <1>1, FreeEntGood
<1>6. \A e \in Placed(h) : h.ent[e].pos \notin us => e \in Placed(s) /\ s.ent[e] = h.ent[e]
  BY <1>1, FreeEntGood
<1>7. \A e \in Placed(s) : e \in Placed(h)
  BY <1>1, FreeEntGood
<1>8. ~s.full /\ Short(h.fix) => Short(s.fix)
  BY <1>1, FreeEntGood
<1>9. \A e \in Placed(h) : h.ent[e].locked => h.ent[e].pos \notin us
  <2> SUFFICES ASSUME NEW e \in Placed(h), h.ent[e].locked, h.ent[e].pos \in us
               PROVE  FALSE
    OBVIOUS
  <2>1. h.tbl[h.ent[e].pos] = e
    BY DEF Placed, Sound
  <2> QED BY <1>2, <2>1
<1>10. \A p \in ps : h.tbl[p] # NULL /\ ~h.ent[h.tbl[p]].locked => s.tbl[p] = NULL
  BY <1>2, <1>4
<1>11. \A p \in Pos : s.tbl[p] = NULL \/ s.tbl[p] = h.tbl[p]
  BY <1>4
<1>12. \A e \in Placed(h) : h.ent[e].pos \notin ps => e \in Placed(s) /\ s.ent[e] = h.ent[e]
  BY <1>2, <1>6
<1>13. \A e \in Placed(h) : h.ent[e].locked => e \in Placed(s) /\ s.ent[e] = h.ent[e]
  BY <1>6, <1>9
<1> QED BY <1>3, <1>5, <1>7, <1>8, <1>10, <1>11, <1>12, <1>13

(* From g cells are deleted and others may move; in m what is left of      *)
(* them still refers to what has been deleted, until sync_refs.            *)
Deleted(g, m) ==
  /\ Sound(m) /\ Used(m) = Placed(g) /\ Placed(m) \subseteq Placed(g) /\ m.range = g.range
  /\ \A e \in Placed(g) : /\ m.ent[e].expr = g.ent[e].expr
                          /\ Contents(m.ent[e]) = Contents(g.ent[e]) /\ m.ent[e].vp = g.ent[e].vp
  /\ \A e \in Saved(m) : m.ent[e].pos = g.ent[e].pos

LEMMA DeletedSync ==
  ASSUME NEW g \in Sheets, Good(g), NEW m \in Sheets, Deleted(g, m),
         NEW s, s = sync_refs(m), ~s.full
  PROVE  /\ s \in Sheets /\ Good(s) /\ s.fix = m.fix /\ DOMAIN s.range = DOMAIN g.range
         /\ Follows(g, s)
         /\ (\A e \in Placed(g) : g.ent[e].locked => e \in Placed(m)) => Keeps(g, s)
<1>1. /\ s \in Sheets /\ Good(s) /\ s.fix = m.fix /\ Placed(m) \subseteq Placed(s)
      /\ DOMAIN s.range = DOMAIN m.range
  BY SyncGood DEF Deleted
<1>2. \A e \in Used(m) : /\ s.ent[e].pos = m.ent[e].pos /\ s.ent[e].expr = m.ent[e].expr
                         /\ Contents(s.ent[e]) = Contents(m.ent[e]) /\ s.ent[e].locked = m.ent[e].locked
  BY SyncGood DEF Deleted
<1>3. \A e \in Placed(m) : m.ent[e].expr # "none" =>
         /\ m.ent[e].vp \in Placed(m) => s.ent[e].vp = m.ent[e].vp
         /\ s.ent[e].vp \in Placed(s) /\ s.ent[s.ent[e].vp].pos = m.ent[m.ent[e].vp].pos
  BY SyncGood DEF Deleted
<1>4. Saved(s) = Saved(m) /\ \A e \in Placed(s) : e \notin Saved(m)
  <2>1. Saved(s) = Saved(m)
    BY <1>1 DEF Saved
  <2>2. \A e \in Placed(s) : e \notin Saved(s)
    BY <1>1, UsedEnts DEF Good, Sound
  <2> QED BY <2>1, <2>2
<1>5. Follows(g, s)
  <2> SUFFICES ASSUME NEW e \in Placed(g) \intersect Placed(s), g.ent[e].expr # "none"
               PROVE  /\ g.ent[e].vp \in Placed(s) => s.ent[e].vp = g.ent[e].vp
                      /\ g.ent[e].vp \notin Placed(s) => s.ent[s.ent[e].vp].pos = g.ent[g.ent[e].vp].pos
    BY DEF Follows, Refers
  <2>1. e \in Placed(m)
    BY <1>4 DEF Deleted, Used
  <2>2. m.ent[e].expr # "none" /\ m.ent[e].vp = g.ent[e].vp
    BY DEF Deleted
  <2>3. g.ent[e].vp \in Used(m)
    BY DEF Good, Alive, Deleted
  <2>4. CASE g.ent[e].vp \in Placed(m)
    BY <1>1, <1>3, <2>1, <2>2, <2>4
  <2>5. CASE g.ent[e].vp \in Saved(m)
    <3>1. g.ent[e].vp \notin Placed(s) /\ m.ent[g.ent[e].vp].pos = g.ent[g.ent[e].vp].pos
      BY <1>4, <2>5 DEF Deleted
    <3> QED BY <1>3, <2>1, <2>2, <3>1
  <2> QED BY <2>3, <2>4, <2>5 DEF Used
<1>6. ASSUME \A e \in Placed(g) : g.ent[e].locked => e \in Placed(m)
      PROVE  Keeps(g, s)
  BY <1>1, <1>2, <1>6 DEF Keeps, Deleted
<1>7. DOMAIN s.range = DOMAIN g.range
  BY <1>1 DEF Deleted
<1> QED BY <1>1, <1>5, <1>6, <1>7

(* A command that begins with flush_saved, which nobody notices.           *)
LEMMA AfterFlush ==
  ASSUME NEW h \in Sheets, Good(h), NEW g, g = flush_saved(h), NEW s
  PROVE  /\ Keeps(g, s) => Keeps(h, s)
         /\ Follows(g, s) => Follows(h, s)
<1>1. Placed(g) = Placed(h) /\ \A e \in Placed(h) : g.ent[e] = h.ent[e]
  BY FlushGood
<1>2. Keeps(g, s) => Keeps(h, s)
  BY <1>1 DEF Keeps
<1>3. Follows(g, s) => Follows(h, s)
  BY <1>1 DEF Follows, Refers, Good, Alive
<1> QED BY <1>2, <1>3

(* And one that begins with lookat.                                        *)
LEMMA AfterLookat ==
  ASSUME NEW h \in Sheets, Good(h), NEW g, Same(h, g, {}), NEW s
  PROVE  /\ Keeps(g, s) => Keeps(h, s)
         /\ Follows(g, s) => Follows(h, s)
<1>1. /\ Placed(h) \subseteq Placed(g)
      /\ \A e \in Placed(h) : g.ent[e] = h.ent[e]
  BY DEF Same, Used
<1>2. Keeps(g, s) => Keeps(h, s)
  BY <1>1 DEF Keeps
<1>3. Follows(g, s) => Follows(h, s)
  BY <1>1 DEF Follows, Refers, Good, Alive
<1> QED BY <1>2, <1>3

(* The range still fits.                                                   *)
LEMMA FitsRange ==
  ASSUME NEW s \in Sheets, NEW h, Fits(h), Short(s.fix),
         DOMAIN s.range = DOMAIN h.range
  PROVE  Fits(s)
<1>1. s.range \in Seq(Ents)
  BY DEF Sheets
<1>2. ASSUME DOMAIN s.range = {}
      PROVE  s.range = <<>>
  <2> DEFINE r == s.range
  <2>1. r \in Seq(Ents) /\ DOMAIN r = 1 .. Len(r) /\ Len(r) \in Nat
    BY <1>1
  <2>2. DOMAIN r = {}
    BY <1>2
  <2> HIDE DEF r
  <2>3. ~(1 \in 1 .. Len(r))
    BY <2>1, <2>2
  <2>4. Len(r) = 0
    BY <2>1, <2>3
  <2>5. r = <<>>
    BY <2>1, <2>4
  <2> QED BY <2>5 DEF r
<1> QED BY <1>2 DEF Fits

(* x                                                                       *)
LEMMA XCommand ==
  ASSUME Inv, NEW axis \in {1, 2}, NEW p \in Pos, NEW n, x(axis, p, n)
  PROVE  Inv' /\ (Spare => Keeps(Now, Now')) /\ Follows(Now, Now')
<1> DEFINE qs == {q \in Pos : q[axis] = p[axis] /\ 0 <= q[3 - axis] - p[3 - axis]
                              /\ q[3 - axis] - p[3 - axis] < n}
           ps == IF Locked(p) THEN {} ELSE qs
           g == flush_saved(Now)
           m == free_ent(g, ps)
           s == sync_refs(m)
<1>1. (Locked(p) \/ Spares(qs, "x")) /\ Becomes(s) /\ ~s.full
  BY DEF x, Becomes
<1>2. Now \in Sheets /\ Good(Now) /\ Fits(Now) /\ ps \subseteq Pos
  BY DEF Inv
<1>3. Spare => \A q \in ps : ~Locked(q)
  BY <1>1, SparesNone
<1> HIDE DEF ps, qs
<1>4. /\ g \in Sheets /\ Good(g) /\ Sound(g) /\ g.tbl = Now.tbl /\ g.range = Now.range /\ g.fix = <<>>
      /\ Saved(g) = {} /\ Placed(g) = Placed(Now)
      /\ \A e \in Placed(Now) : g.ent[e] = Now.ent[e]
  BY <1>2, FlushGood DEF Good
<1> HIDE DEF g
<1>5. Short(g.fix)
  BY <1>4, SheetAssumption DEF Short
<1>6. /\ m \in Sheets /\ Sound(m) /\ m.range = g.range
      /\ Used(m) = Used(g) /\ (~m.full /\ Short(g.fix) => Short(m.fix))
      /\ \A e \in Used(g) : /\ m.ent[e].pos = g.ent[e].pos /\ m.ent[e].expr = g.ent[e].expr
                            /\ Contents(m.ent[e]) = Contents(g.ent[e]) /\ m.ent[e].vp = g.ent[e].vp
      /\ \A e \in Placed(g) : g.ent[e].pos \notin ps => e \in Placed(m)
      /\ \A e \in Placed(m) : e \in Placed(g)
  BY <1>4, FreeEntGood
<1> HIDE DEF m
<1>7. Deleted(g, m)
  BY <1>4, <1>6 DEF Deleted, Used
<1>8. /\ s \in Sheets /\ Good(s) /\ s.fix = m.fix /\ DOMAIN s.range = DOMAIN g.range
      /\ Follows(g, s)
      /\ (\A e \in Placed(g) : g.ent[e].locked => e \in Placed(m)) => Keeps(g, s)
  BY <1>1, <1>4, <1>6, <1>7, DeletedSync
<1>9. ~m.full
  BY <1>1, <1>6, SyncGood
<1> HIDE DEF s
<1>10. Fits(s)
  BY <1>2, <1>4, <1>5, <1>6, <1>8, <1>9, FitsRange
<1>11. ASSUME Spare
       PROVE  \A e \in Placed(g) : g.ent[e].locked => e \in Placed(m)
  <2> SUFFICES ASSUME NEW e \in Placed(g), g.ent[e].locked
               PROVE  g.ent[e].pos \notin ps
    BY <1>6
  <2>1. g.tbl[g.ent[e].pos] = e /\ e # NULL
    BY <1>4 DEF Placed, Sound
  <2>2. Locked(g.ent[e].pos)
    BY <1>4, <2>1, NowFields
  <2> QED BY <1>3, <1>11, <2>2
<1>12. Follows(Now, s) /\ (Spare => Keeps(Now, s))
  BY <1>2, <1>8, <1>11, AfterFlush DEF g
<1> QED BY <1>1, <1>8, <1>10, <1>12, Stepped


(* erase_area after flush_saved                                            *)
LEMMA Erased ==
  ASSUME NEW h \in Sheets, Good(h), NEW g, g = flush_saved(h), NEW ps, ps \subseteq Pos,
         NEW m, m = erase_area(g, ps)
  PROVE  /\ g \in Sheets /\ Good(g) /\ g.range = h.range /\ g.tbl = h.tbl /\ Placed(g) = Placed(h)
         /\ m \in Sheets /\ Deleted(g, m)
         /\ \A e \in Placed(g) : g.ent[e].locked => e \in Placed(m)
         /\ \A e \in Saved(m) : g.ent[e].pos \in ps
         /\ \A e \in Placed(h) : g.ent[e] = h.ent[e]
         /\ \A p \in ps : h.tbl[p] # NULL /\ ~h.ent[h.tbl[p]].locked => m.tbl[p] = NULL
         /\ \A p \in Pos : m.tbl[p] = NULL \/ m.tbl[p] = h.tbl[p]
         /\ ~m.full => Short(m.fix)
<1>1. /\ g \in Sheets /\ Good(g) /\ Sound(g) /\ g.tbl = h.tbl /\ g.range = h.range
      /\ g.fix = <<>> /\ Saved(g) = {} /\ Placed(g) = Placed(h)
      /\ \A e \in Placed(h) : g.ent[e] = h.ent[e]
  BY FlushGood DEF Good
<1>2. Short(g.fix)
  BY <1>1, SheetAssumption DEF Short
<1>3. Used(g) = Placed(g)
  BY <1>1 DEF Used
<1>4. /\ m \in Sheets /\ Sound(m) /\ m.range = g.range
      /\ Used(m) = Used(g) /\ Placed(m) \subseteq Placed(g)
      /\ ~m.full /\ Short(g.fix) => Short(m.fix)
  BY <1>1, EraseGood
<1>5. \A e \in Used(g) : /\ m.ent[e].pos = g.ent[e].pos /\ m.ent[e].expr = g.ent[e].expr
                         /\ Contents(m.ent[e]) = Contents(g.ent[e]) /\ m.ent[e].vp = g.ent[e].vp
  BY <1>1, EraseGood
<1>6. /\ \A p \in ps : g.tbl[p] # NULL /\ ~g.ent[g.tbl[p]].locked => m.tbl[p] = NULL
      /\ \A p \in Pos : m.tbl[p] = NULL \/ m.tbl[p] = g.tbl[p]
  BY <1>1, EraseGood
<1>7. /\ \A e \in Placed(g) : g.ent[e].locked => e \in Placed(m)
      /\ \A e \in Placed(g) : g.ent[e].pos \notin ps => e \in Placed(m)
  BY <1>1, EraseGood
<1>8. \A e \in Saved(m) : e \in Placed(g) /\ e \notin Placed(m)
  <2>1. \A e \in Saved(m) : e \in Used(m)
    BY DEF Used
  <2>2. \A e \in Placed(m) : e \notin Saved(m)
    BY <1>4, UsedEnts DEF Sound
  <2> QED BY <1>3, <1>4, <2>1, <2>2
<1>9. Deleted(g, m)
  BY <1>3, <1>4, <1>5, <1>8 DEF Deleted
<1>10. \A p \in ps : h.tbl[p] # NULL /\ ~h.ent[h.tbl[p]].locked => m.tbl[p] = NULL
  <2>1. \A p \in ps : h.tbl[p] # NULL => h.tbl[p] \in Placed(h)
    BY UsedEnts
  <2> QED BY <1>1, <1>6, <2>1
<1> QED BY <1>1, <1>2, <1>4, <1>6, <1>7, <1>8, <1>9, <1>10

(* eraser                                                                  *)
LEMMA Eraser ==
  ASSUME Inv, NEW a \in Areas, eraser(a)
  PROVE  Inv' /\ Keeps(Now, Now') /\ Follows(Now, Now')
<1> DEFINE h == lookat(Now, ToSet(a))
           g == flush_saved(h)
           m == erase_area(g, In[a])
           s == sync_refs(m)
<1>1. ~h.full /\ Becomes(s) /\ ~s.full
  BY DEF eraser, Becomes
<1>2. Now \in Sheets /\ Good(Now) /\ Fits(Now) /\ In[a] \subseteq Pos
  BY InPos DEF Inv
<1>3. h \in Sheets /\ Good(h) /\ Same(Now, h, {})
  BY <1>1, <1>2, Lookat, LookatGood DEF Good
<1> HIDE DEF h
<1>4. /\ g \in Sheets /\ Good(g) /\ g.range = h.range /\ m \in Sheets /\ Deleted(g, m)
      /\ \A e \in Placed(g) : g.ent[e].locked => e \in Placed(m)
      /\ ~m.full => Short(m.fix)
  BY <1>2, <1>3, Erased
<1> HIDE DEF m
<1>5. /\ s \in Sheets /\ Good(s) /\ s.fix = m.fix /\ DOMAIN s.range = DOMAIN g.range
      /\ Follows(g, s) /\ Keeps(g, s)
  <2> HIDE DEF g
  <2> QED BY <1>1, <1>4, DeletedSync
<1>6. ~m.full
  BY <1>1, <1>4, SyncGood DEF Deleted
<1> HIDE DEF s
<1>7. Follows(h, s) /\ Keeps(h, s)
  BY <1>3, <1>5, AfterFlush
<1> HIDE DEF g
<1>8. Follows(Now, s) /\ Keeps(Now, s)
  BY <1>2, <1>3, <1>7, AfterLookat
<1>9. Fits(s)
  <2>1. DOMAIN s.range = DOMAIN Now.range
    BY <1>3, <1>4, <1>5 DEF Same
  <2> QED BY <1>2, <1>4, <1>5, <1>6, <2>1, FitsRange
<1> QED BY <1>1, <1>5, <1>8, <1>9, Stepped

(* deleterow                                                               *)
LEMMA DeleteRow ==
  ASSUME Inv, NEW i \in Int, NEW n \in Nat, deleterow(i, n)
  PROVE  Inv' /\ Keeps(Now, Now') /\ Follows(Now, Now')
<1> DEFINE ps == Lines(1, i, n)
           g == flush_saved(Now)
           m == erase_area(g, ps)
           k == Close(m, 1, i, n)
           s == sync_refs(k)
<1>1. ~any_locked_cells(ps) /\ Becomes(s) /\ ~s.full
  BY DEF deleterow, Becomes
<1>2. Now \in Sheets /\ Good(Now) /\ Fits(Now) /\ ps \subseteq Pos
  BY DEF Inv, Lines
<1>3. /\ g \in Sheets /\ Good(g) /\ g.range = Now.range /\ m \in Sheets /\ Deleted(g, m)
      /\ \A e \in Placed(g) : g.ent[e].locked => e \in Placed(m)
      /\ ~m.full => Short(m.fix)
      /\ \A p \in ps : Now.tbl[p] # NULL /\ ~Now.ent[Now.tbl[p]].locked => m.tbl[p] = NULL
      /\ \A p \in Pos : m.tbl[p] = NULL \/ m.tbl[p] = Now.tbl[p]
  <2> HIDE DEF ps
  <2>1. g = flush_saved(Now) /\ m = erase_area(g, ps)
    OBVIOUS
  <2> HIDE DEF g, m
  <2> QED BY <1>2, <2>1, Erased
<1>4. \A p \in ps : m.tbl[p] = NULL
  <2> HIDE DEF m, ps
  <2> QED BY <1>1, <1>2, <1>3, NowFields DEF any_locked_cells
<1> HIDE DEF m
<1>5. ASSUME ~k.full
      PROVE  /\ k \in Sheets /\ ~m.full /\ Deleted(g, k) /\ k.fix = m.fix /\ Placed(k) = Placed(m)
  <2> HIDE DEF g
  <2>1. /\ k \in Sheets /\ ~m.full /\ Sound(k)
        /\ Placed(k) = Placed(m) /\ k.fix = m.fix /\ k.range = m.range
        /\ \A e \in Used(m) : /\ k.ent[e].expr = m.ent[e].expr /\ Contents(k.ent[e]) = Contents(m.ent[e])
                              /\ k.ent[e].vp = m.ent[e].vp /\ k.ent[e].locked = m.ent[e].locked
        /\ \A e \in Saved(m) : k.ent[e] = m.ent[e]
    <3> DEFINE axis == 1
    <3>1. k = Close(m, axis, i, n) /\ \A p \in Lines(axis, i, n) : m.tbl[p] = NULL
      BY <1>4
    <3>2. axis \in {1, 2}
      OBVIOUS
    <3> HIDE DEF axis, k
    <3> QED BY <1>3, <1>5, <3>1, <3>2, CloseGood DEF Deleted
  <2> HIDE DEF k
  <2>2. Saved(k) = Saved(m) /\ Used(k) = Used(m)
    BY <2>1 DEF Saved, Used
  <2>3. Used(m) = Placed(g)
    BY <1>3 DEF Deleted
  <2>4. \A e \in Placed(g) : /\ k.ent[e].expr = g.ent[e].expr
                             /\ Contents(k.ent[e]) = Contents(g.ent[e]) /\ k.ent[e].vp = g.ent[e].vp
    BY <1>3, <2>1, <2>3 DEF Deleted
  <2> QED BY <1>3, <2>1, <2>2, <2>4 DEF Deleted
<1>6. ~k.full
  <2>1. k \in Sheets /\ Sound(k)
    <3> DEFINE axis == 1
    <3>1. k = Close(m, axis, i, n) /\ \A p \in Lines(axis, i, n) : m.tbl[p] = NULL
      BY <1>4
    <3>2. axis \in {1, 2}
      OBVIOUS
    <3> HIDE DEF axis, k
    <3> QED BY <1>3, <3>1, <3>2, CloseGood DEF Deleted
  <2> HIDE DEF k
  <2> QED BY <1>1, <2>1, SyncGood
<1> HIDE DEF k
<1>7. /\ s \in Sheets /\ Good(s) /\ s.fix = k.fix /\ DOMAIN s.range = DOMAIN g.range
      /\ Follows(g, s) /\ Keeps(g, s)
  <2> HIDE DEF g
  <2> QED BY <1>1, <1>3, <1>5, <1>6, DeletedSync
<1> HIDE DEF s
<1>8. Follows(Now, s) /\ Keeps(Now, s)
  BY <1>2, <1>7, AfterFlush
<1> HIDE DEF g
<1>9. Fits(s)
  BY <1>2, <1>3, <1>5, <1>6, <1>7, FitsRange
<1> QED BY <1>1, <1>7, <1>8, <1>9, Stepped


(* What sync_refs made too large does not become smaller.                  *)
LEMMA CloseFull ==
  ASSUME NEW m \in Sheets, NEW axis, NEW i, NEW n, ~Close(sync_refs(m), axis, i, n).full
  PROVE  ~sync_refs(m).full
<1> DEFINE es == {e \in Placed(m) : m.ent[e].expr # "none"}
           ps == {Target(m, e) : e \in es} \union {m.ent[v].pos : v \in ToSet(m.range)}
           l == lookat(m, ps)
           X == [e \in Ents |-> IF e \in es THEN [l.ent[e] EXCEPT !.vp = l.tbl[Target(m, e)]]
                                            ELSE l.ent[e]]
           R == [j \in DOMAIN l.range |-> l.tbl[m.ent[l.range[j]].pos]]
           h == sync_refs(m)
           f == [p \in Pos |-> IF p[axis] >= i + n THEN [p EXCEPT ![axis] = @ - n] ELSE p]
           T == [q \in Pos |-> IF \E p \in Cells(h) : f[p] = q
                               THEN h.tbl[CHOOSE p \in Cells(h) : f[p] = q] ELSE NULL]
           Y == [e \in Ents |-> IF e \in Placed(h) THEN [h.ent[e] EXCEPT !.pos = f[@]] ELSE h.ent[e]]
           s == Close(h, axis, i, n)
<1>1. h = [l EXCEPT !.ent = X, !.range = R]
  BY DEF sync_refs
<1>2. l \in Sheets
  BY Lookat
<1> HIDE DEF es, ps, l, X, R
<1>3. h = [tbl |-> l.tbl, ent |-> X, fix |-> l.fix, range |-> R, full |-> l.full]
  BY <1>1, <1>2 DEF Sheets
<1> HIDE DEF h
<1>4. s = Full(h) \/ s = [h EXCEPT !.tbl = T, !.ent = Y]
  <2>1. s = Moved(h, f)
    BY DEF Close
  <2> HIDE DEF f, s
  <2> QED BY <2>1 DEF Moved
<1> HIDE DEF T, Y
<1>5. ~s.full
  BY DEF h
<1> HIDE DEF s
<1>6. l.full \in BOOLEAN
  BY <1>2 DEF Sheets
<1>7. ASSUME s = Full(h)
      PROVE  ~h.full
  BY <1>3, <1>5, <1>7 DEF Full
<1>8. ASSUME s = [h EXCEPT !.tbl = T, !.ent = Y]
      PROVE  ~h.full
  BY <1>3, <1>5, <1>6, <1>8
<1>9. ~h.full
  BY <1>4, <1>7, <1>8
<1> QED BY <1>9 DEF h

(* closecol: where nothing refers to a deleted column, free_ent finds      *)
(* nothing that sync_refs has put there.                                   *)
LEMMA CloseCol ==
  ASSUME Inv, "closecol" \notin Allowed, NEW i \in Int, NEW n \in Nat, closecol(i, n)
  PROVE  Inv' /\ Keeps(Now, Now') /\ Follows(Now, Now')
<1> DEFINE ps == Lines(2, i, n)
           g == flush_saved(Now)
           m == erase_area(g, ps)
           h == sync_refs(m)
           s == Close(h, 2, i, n)
<1>1. ~any_locked_cells(ps) /\ ps \intersect Cells(h) = {} /\ Becomes(s) /\ ~s.full
  <2>1. /\ ~any_locked_cells(ps) /\ ps \intersect Cells(h) = {}
        /\ Becomes(Close(free_ent(h, ps), 2, i, n))
    BY DEF closecol
  <2> HIDE DEF h, ps
  <2>2. free_ent(h, ps) = h
    BY <2>1 DEF free_ent
  <2> QED BY <2>1, <2>2 DEF Becomes
<1>2. Now \in Sheets /\ Good(Now) /\ Fits(Now) /\ ps \subseteq Pos
  BY DEF Inv, Lines
<1>3. /\ g \in Sheets /\ Good(g) /\ g.range = Now.range /\ m \in Sheets /\ Deleted(g, m)
      /\ \A e \in Placed(g) : g.ent[e].locked => e \in Placed(m)
      /\ ~m.full => Short(m.fix)
      /\ \A e \in Saved(m) : g.ent[e].pos \in ps
      /\ \A p \in ps : Now.tbl[p] # NULL /\ ~Now.ent[Now.tbl[p]].locked => m.tbl[p] = NULL
      /\ \A p \in Pos : m.tbl[p] = NULL \/ m.tbl[p] = Now.tbl[p]
  <2> HIDE DEF ps
  <2>1. g = flush_saved(Now) /\ m = erase_area(g, ps)
    OBVIOUS
  <2> HIDE DEF g, m
  <2> QED BY <1>2, <2>1, Erased
<1> HIDE DEF m
<1>4. ~h.full
  BY <1>1, <1>3, CloseFull
<1>5. /\ h \in Sheets /\ ~m.full /\ Good(h) /\ h.fix = m.fix /\ DOMAIN h.range = DOMAIN g.range
      /\ Follows(g, h) /\ Keeps(g, h)
  <2> HIDE DEF g
  <2>1. /\ h \in Sheets /\ Good(h) /\ h.fix = m.fix /\ DOMAIN h.range = DOMAIN g.range
        /\ Follows(g, h) /\ Keeps(g, h)
    BY <1>3, <1>4, DeletedSync
  <2>2. ~m.full
    BY <1>3, <1>4, SyncGood DEF Deleted
  <2> QED BY <2>1, <2>2
<1>6. \A e \in Placed(m) : m.ent[e].expr # "none" =>
         h.ent[e].vp \in Placed(h) /\ h.ent[h.ent[e].vp].pos = m.ent[m.ent[e].vp].pos
  BY <1>3, <1>4, SyncGood DEF Deleted
<1> HIDE DEF h
<1>7. \A p \in ps : h.tbl[p] = NULL
  BY <1>1, <1>2 DEF Cells
<1>8. /\ s \in Sheets /\ Good(s)
      /\ Placed(s) = Placed(h) /\ s.fix = h.fix /\ s.range = h.range
      /\ \A e \in Used(h) : /\ s.ent[e].expr = h.ent[e].expr /\ Contents(s.ent[e]) = Contents(h.ent[e])
                            /\ s.ent[e].vp = h.ent[e].vp
  <2> DEFINE axis == 2
  <2>1. s = Close(h, axis, i, n) /\ \A p \in Lines(axis, i, n) : h.tbl[p] = NULL
    BY <1>7
  <2>2. axis \in {1, 2}
    OBVIOUS
  <2> HIDE DEF axis, s
  <2> QED BY <1>1, <1>5, <2>1, <2>2, CloseGood DEF Good
<1> HIDE DEF s
<1>9. Fits(s)
  <2>1. Short(s.fix) /\ DOMAIN s.range = DOMAIN Now.range
    BY <1>3, <1>5, <1>8
  <2> QED BY <1>2, <1>8, <2>1, FitsRange
<1>10. Placed(h) \subseteq Used(h)
  BY DEF Used
<1>11. Keeps(g, s)
  BY <1>5, <1>8, <1>10 DEF Keeps
<1>12. ASSUME NEW e \in Placed(g), e \in Placed(h), g.ent[e].expr # "none"
       PROVE  g.ent[e].vp \in Placed(h)
  <2>1. \A d \in Saved(m) : d \notin Placed(h)
    <3>1. Saved(h) = Saved(m)
      BY <1>5 DEF Saved
    <3>2. \A d \in Placed(h) : d \notin Saved(h)
      BY <1>5, UsedEnts DEF Good, Sound
    <3> QED BY <3>1, <3>2
  <2>2. e \in Placed(m)
    BY <1>3, <1>12, <2>1 DEF Deleted, Used
  <2>3. m.ent[e].expr # "none" /\ m.ent[e].vp = g.ent[e].vp /\ g.ent[e].vp \in Used(m)
    BY <1>3, <1>12 DEF Deleted, Good, Alive
  <2>4. g.ent[e].vp \notin Saved(m)
    <3> SUFFICES ASSUME g.ent[e].vp \in Saved(m)
                 PROVE  FALSE
      OBVIOUS
    <3>1. m.ent[g.ent[e].vp].pos \in ps
      BY <1>3 DEF Deleted
    <3>2. h.ent[e].vp \in Placed(h) /\ h.ent[h.ent[e].vp].pos \in ps
      BY <1>6, <2>2, <2>3, <3>1
    <3>3. \A d \in Placed(h) : h.tbl[h.ent[d].pos] = d /\ d # NULL
      BY <1>5 DEF Good, Sound, Placed
    <3> QED BY <1>7, <3>2, <3>3
  <2>5. Placed(m) \subseteq Placed(h)
    BY <1>3, <1>4, SyncGood DEF Deleted, h
  <2> QED BY <2>3, <2>4, <2>5 DEF Used
<1>13. Follows(g, s)
  <2> SUFFICES ASSUME NEW e \in Placed(g) \intersect Placed(s), g.ent[e].expr # "none"
               PROVE  g.ent[e].vp \in Placed(s) /\ (s.ent[e].expr # "none" => s.ent[e].vp = g.ent[e].vp)
    BY DEF Follows, Refers
  <2>1. g.ent[e].vp \in Placed(h)
    BY <1>8, <1>12
  <2>2. s.ent[e].expr = h.ent[e].expr /\ s.ent[e].vp = h.ent[e].vp
    BY <1>8, <1>10
  <2>3. h.ent[e].expr # "none" => h.ent[e].vp = g.ent[e].vp
    BY <1>5, <1>8, <2>1 DEF Follows, Refers
  <2> QED BY <1>8, <2>1, <2>2, <2>3
<1>14. Keeps(Now, s) /\ Follows(Now, s)
  BY <1>2, <1>11, <1>13, AfterFlush
<1> QED BY <1>1, <1>8, <1>9, <1>14, Stepped DEF s


----------------------------------------------------------------------------
(* What is copied                                                          *)

(* dup copies a line to the one it has inserted.                           *)
DupLine(h, seq, d) ==
  LET Copy(a, p) == IF a.full \/ a.tbl[p] = NULL THEN a ELSE copyent(a, Plus(p, d), a.tbl[p], d)
  IN FoldLeft(Copy, h, seq)

LEMMA DupFold ==
  ASSUME NEW h \in Sheets, ~h.full => Good(h), NEW n \in Nat, NEW seq \in [1 .. n -> Pos], NEW d,
         NEW U, \A k \in 1 .. n : Plus(seq[k], d) \in U,
         NEW s, s = DupLine(h, seq, d)
  PROVE  s \in Sheets /\ (~s.full => ~h.full /\ Good(s) /\ Same(h, s, U))
<1> DEFINE Copy(a, p) == IF a.full \/ a.tbl[p] = NULL THEN a
                         ELSE copyent(a, Plus(p, d), a.tbl[p], d)
           Fine == {a \in Sheets : ~a.full => ~h.full /\ Good(a) /\ Same(h, a, U)}
           F == [z \in Fine \X (1 .. n) |-> Copy(z[1], seq[z[2]])]
           E(w) == [t \in SUBSET DOMAIN seq |->
                      IF t = {} THEN h ELSE Copy(w[t \ {Max(t)}], seq[Max(t)])]
           C == CHOOSE g : g = E(g)
<1>1. h \in Fine
  <2>1. Same(h, h, U)
    BY DEF Same
  <2> QED BY <2>1
<1>2. ASSUME NEW a \in Fine, NEW k \in 1 .. n
      PROVE  Copy(a, seq[k]) \in Fine
  <2> DEFINE p == seq[k]
             c == copyent(a, Plus(p, d), a.tbl[p], d)
  <2>1. CASE a.full \/ a.tbl[p] = NULL
    BY <2>1
  <2>2. CASE ~(a.full \/ a.tbl[p] = NULL)
    <3>1. Copy(a, p) = c
      BY <2>2
    <3>2. a \in Sheets /\ Good(a) /\ Same(h, a, U) /\ ~h.full /\ a.tbl[p] \in Used(a)
      BY <2>2, UsedEnts
    <3> HIDE DEF p
    <3>3. c \in Sheets /\ (~c.full => /\ Sound(c) /\ (Alive(a) => Alive(c))
                                      /\ Same(a, c, {Plus(p, d)}))
      <4> DEFINE e == a.tbl[p]
                 q == Plus(p, d)
      <4>1. Sound(a) /\ e \in Used(a)
        BY <3>2 DEF Good
      <4>2. c = copyent(a, q, e, d)
        OBVIOUS
      <4> HIDE DEF e, q, c
      <4>3. c \in Sheets /\ (~c.full => Sound(c) /\ (Alive(a) => Alive(c)) /\ Same(a, c, {q}))
        BY <3>2, <4>1, <4>2, CopyentGood
      <4> QED BY <4>3 DEF q
    <3> HIDE DEF c
    <3>4. ASSUME ~c.full
          PROVE  Good(c) /\ Same(h, c, U)
      <4>1. Same(h, c, U \union {Plus(p, d)})
        BY <3>2, <3>3, <3>4, SameTwice
      <4>2. U \union {Plus(p, d)} = U
        BY DEF p
      <4> QED BY <3>2, <3>3, <3>4, <4>1, <4>2 DEF Good
    <3>5. c \in Fine
      BY <3>2, <3>3, <3>4
    <3> QED BY <3>1, <3>5 DEF p
  <2> QED BY <2>1, <2>2
<1> HIDE DEF Copy, Fine
<1>3. F \in [Fine \X (1 .. n) -> Fine]
  BY <1>2
<1>4. \A a \in Fine : \A k \in 1 .. n : F[<<a, k>>] = Copy(a, seq[k])
  OBVIOUS
<1> HIDE DEF F
<1>5. DOMAIN seq = 1 .. n
  OBVIOUS
<1>6. \E g : g = E(g)
  <2>1. PICK g : IsFold(g, n, Fine, h, F)
    BY <1>1, <1>3, FoldExists
  <2>2. ASSUME NEW t \in SUBSET (1 .. n), t # {}
        PROVE  F[<<g[t \ {Max(t)}], Max(t)>>] = Copy(g[t \ {Max(t)}], seq[Max(t)])
    BY <1>4, <2>1, <2>2, MaxIn DEF IsFold
  <2>3. g = E(g)
    BY <1>5, <2>1, <2>2 DEF IsFold
  <2> QED BY <2>3
<1>7. C = E(C)
  <2> HIDE DEF E
  <2> QED BY <1>6, Zenon
<1>8. s = C[DOMAIN seq]
  BY Zenon DEF DupLine, FoldLeft, MapThenFoldSet, Copy
<1> HIDE DEF C
<1>9. C[{}] \in Fine
  BY <1>1, <1>7
<1>10. ASSUME NEW k \in 1 .. n, C[1 .. k - 1] \in Fine
       PROVE  C[1 .. k] \in Fine
  <2>1. /\ 1 .. k \in SUBSET (1 .. n) /\ 1 .. k # {}
        /\ Max(1 .. k) = k /\ (1 .. k) \ {k} = 1 .. k - 1
    BY Prefix
  <2>2. C[1 .. k] = Copy(C[(1 .. k) \ {Max(1 .. k)}], seq[Max(1 .. k)])
    BY <1>5, <1>7, <2>1
  <2>3. C[1 .. k] = Copy(C[1 .. k - 1], seq[k])
    BY <2>1, <2>2
  <2> QED BY <1>2, <1>10, <2>3
<1>11. C[1 .. n] \in Fine
  BY <1>9, <1>10, FoldReaches
<1> QED BY <1>5, <1>8, <1>11 DEF Fine


(* The lines that dup copies.                                              *)
LEMMA AlongLine ==
  ASSUME NEW axis \in {1, 2}, NEW i, i \in IF axis = 1 THEN 0 .. MaxRows - 1 ELSE 0 .. MaxCols - 1,
         NEW d, d = IF axis = 1 THEN <<1, 0>> ELSE <<0, 1>>
  PROVE  \E n \in Nat : /\ Along(axis, i) \in [1 .. n -> Pos]
                        /\ \A k \in 1 .. n : Plus(Along(axis, i)[k], d)[axis] = i + 1
<1>1. MaxRows \in Nat /\ MaxCols \in Nat
  BY SheetAssumption
<1>2. CASE axis = 1
  <2>1. Along(axis, i) = [c \in 1 .. MaxCols |-> <<i, c - 1>>] /\ i \in 0 .. MaxRows - 1 /\ d = <<1, 0>>
    BY <1>2 DEF Along
  <2>2. \A c \in 1 .. MaxCols : <<i, c - 1>> \in Pos
    BY <1>1, <2>1 DEF Pos
  <2>3. \A c \in 1 .. MaxCols : Plus(<<i, c - 1>>, d)[axis] = i + 1
    BY <1>1, <1>2, <2>1 DEF Plus
  <2> QED BY <1>1, <2>1, <2>2, <2>3
<1>3. CASE axis = 2
  <2>1. Along(axis, i) = [r \in 1 .. MaxRows |-> <<r - 1, i>>] /\ i \in 0 .. MaxCols - 1 /\ d = <<0, 1>>
    BY <1>3 DEF Along
  <2>2. \A r \in 1 .. MaxRows : <<r - 1, i>> \in Pos
    BY <1>1, <2>1 DEF Pos
  <2>3. \A r \in 1 .. MaxRows : Plus(<<r - 1, i>>, d)[axis] = i + 1
    BY <1>1, <1>3, <2>1 DEF Plus
  <2> QED BY <1>1, <2>1, <2>2, <2>3
<1> QED BY <1>2, <1>3

(* What is written to lines that have just been opened.                    *)
LEMMA OpenedWritten ==
  ASSUME Inv, NEW axis \in {1, 2}, NEW i \in Int, NEW n \in Nat,
         NEW h, h = Open(Now, axis, i, n), ~h.full,
         NEW U, \A q \in U : q \in Pos => i <= q[axis] /\ q[axis] < i + n,
         NEW s \in Sheets, Good(s), Same(h, s, U), Becomes(s)
  PROVE  Inv' /\ Keeps(Now, Now') /\ Follows(Now, Now')
<1>1. Now \in Sheets /\ Good(Now) /\ Sound(Now) /\ Alive(Now) /\ Fits(Now)
  BY DEF Inv, Good
<1>2. /\ h \in Sheets /\ Good(h) /\ Sound(h)
      /\ Placed(h) = Placed(Now) /\ h.fix = Now.fix /\ h.range = Now.range
      /\ \A e \in Used(Now) : /\ h.ent[e].expr = Now.ent[e].expr /\ Contents(h.ent[e]) = Contents(Now.ent[e])
                              /\ h.ent[e].vp = Now.ent[e].vp /\ h.ent[e].locked = Now.ent[e].locked
      /\ \A e \in Placed(Now) : ~(i <= h.ent[e].pos[axis] /\ h.ent[e].pos[axis] < i + n)
  BY <1>1, OpenGood DEF Good
<1>3. \A q \in U : q \in Pos => h.tbl[q] = NULL
  <2> SUFFICES ASSUME NEW q \in U, q \in Pos, h.tbl[q] # NULL
               PROVE  FALSE
    OBVIOUS
  <2>1. h.tbl[q] \in Placed(Now) /\ h.ent[h.tbl[q]].pos = q
    BY <1>2, UsedEnts DEF Sound
  <2> QED BY <1>2, <2>1
<1>4. Keeps(h, s)
  BY <1>2, <1>3, SameKeeps
<1>5. Follows(h, s)
  BY <1>2, <1>3, SameFollows
<1>6. Placed(Now) \subseteq Used(Now) /\ Placed(h) \subseteq Placed(s)
  BY DEF Used, Same
<1>7. Keeps(Now, s)
  BY <1>2, <1>4, <1>6 DEF Keeps
<1>8. Follows(Now, s)
  BY <1>1, <1>2, <1>5, <1>6 DEF Follows, Refers, Alive
<1>9. Fits(s)
  BY <1>1, <1>2 DEF Fits, Same
<1> QED BY <1>7, <1>8, <1>9, Stepped

(* dup                                                                     *)
LEMMA Dup ==
  ASSUME Inv, NEW axis \in {1, 2}, NEW i, dup(axis, i),
         i \in IF axis = 1 THEN 0 .. MaxRows - 1 ELSE 0 .. MaxCols - 1
  PROVE  Inv' /\ Keeps(Now, Now') /\ Follows(Now, Now')
<1> DEFINE d == IF axis = 1 THEN <<1, 0>> ELSE <<0, 1>>
           h == Open(Now, axis, i + 1, 1)
           seq == Along(axis, i)
           s == DupLine(h, seq, d)
           U == {q \in {Plus(p, d) : p \in Pos} : q[axis] = i + 1}
<1>1. Becomes(s) /\ ~s.full
  BY DEF dup, Becomes, DupLine
<1>2. Now \in Sheets /\ Sound(Now) /\ Alive(Now) /\ i + 1 \in Int
  BY SheetAssumption DEF Inv, Good
<1>3. PICK n \in Nat : seq \in [1 .. n -> Pos] /\ \A k \in 1 .. n : Plus(seq[k], d)[axis] = i + 1
  BY AlongLine, SMTT(20)
<1> HIDE DEF d, seq
<1>4. h \in Sheets /\ (~h.full => Good(h))
  BY <1>2, OpenGood DEF Good
<1>5. \A k \in 1 .. n : Plus(seq[k], d) \in U
  BY <1>3
<1> HIDE DEF U, h
<1>6. s \in Sheets /\ ~h.full /\ Good(s) /\ Same(h, s, U)
  BY <1>1, <1>3, <1>4, <1>5, DupFold
<1> HIDE DEF s
<1>7. \A q \in U : q \in Pos => i + 1 <= q[axis] /\ q[axis] < i + 1 + 1
  BY <1>2 DEF U
<1>8. h = Open(Now, axis, i + 1, 1)
  BY DEF h
<1> QED BY <1>1, <1>2, <1>6, <1>7, <1>8, OpenedWritten


(* The ents of a set in some order.                                        *)
LEMMA InOrder ==
  ASSUME NEW es \in SUBSET Ents
  PROVE  SetToSeq(es) \in Seq(es)
<1>1. IsFiniteSet(es)
  BY SheetAssumption, FS_Subset
<1> DEFINE n == Cardinality(es)
<1>2. n \in Nat /\ IsFiniteSet(1 .. n) /\ Cardinality(1 .. n) = n
  BY <1>1, FS_CardinalityType, FS_Interval
<1>3. \E f \in [1 .. n -> es] : IsInjective(f)
  <2> DEFINE I == 1 .. n
  <2>1. IsFiniteSet(I) /\ Cardinality(I) <= Cardinality(es)
    BY <1>2
  <2> HIDE DEF I, n
  <2>2. \E f \in [I -> es] : IsInjective(f)
    BY <1>1, <2>1, OneToOne
  <2> QED BY <2>2 DEF I
<1>4. SetToSeq(es) \in [1 .. n -> es]
  BY <1>3, Zenon DEF SetToSeq
<1> HIDE DEF n
<1> QED BY <1>2, <1>4

LEMMA OrderSeq ==
  ASSUME NEW fix \in Seq(SUBSET Ents)
  PROVE  Order(fix) \in Seq(UNION ToSet(fix))
<1> DEFINE n == Len(fix)
           Fine == Seq(UNION ToSet(fix))
           F == [z \in Fine \X (1 .. n) |-> z[1] \o SetToSeq(fix[z[2]])]
           E(w) == [t \in SUBSET DOMAIN fix |->
                      IF t = {} THEN <<>> ELSE w[t \ {Max(t)}] \o SetToSeq(fix[Max(t)])]
           C == CHOOSE g : g = E(g)
<1>1. n \in Nat /\ DOMAIN fix = 1 .. n /\ \A k \in 1 .. n : fix[k] \in SUBSET Ents
  OBVIOUS
<1> HIDE DEF n
<1>2. <<>> \in Fine
  OBVIOUS
<1>3. ASSUME NEW a \in Fine, NEW k \in 1 .. n
      PROVE  a \o SetToSeq(fix[k]) \in Fine
  <2>1. fix[k] \in SUBSET Ents /\ fix[k] \in ToSet(fix)
    BY <1>1 DEF ToSet
  <2>2. SetToSeq(fix[k]) \in Seq(fix[k]) /\ fix[k] \subseteq UNION ToSet(fix)
    BY <2>1, InOrder
  <2>3. SetToSeq(fix[k]) \in Fine
    BY <2>2
  <2> QED BY <2>3
<1> HIDE DEF Fine
<1>4. F \in [Fine \X (1 .. n) -> Fine]
  BY <1>3
<1>5. \A a \in Fine : \A k \in 1 .. n : F[<<a, k>>] = a \o SetToSeq(fix[k])
  OBVIOUS
<1> HIDE DEF F
<1>6. \E g : g = E(g)
  <2>1. PICK g : IsFold(g, n, Fine, <<>>, F)
    BY <1>1, <1>2, <1>4, FoldExists
  <2>2. ASSUME NEW t \in SUBSET (1 .. n), t # {}
        PROVE  F[<<g[t \ {Max(t)}], Max(t)>>] = g[t \ {Max(t)}] \o SetToSeq(fix[Max(t)])
    BY <1>1, <1>5, <2>1, <2>2, MaxIn DEF IsFold
  <2>3. g = E(g)
    BY <1>1, <2>1, <2>2 DEF IsFold
  <2> QED BY <2>3
<1>7. C = E(C)
  <2> HIDE DEF E
  <2> QED BY <1>6, Zenon
<1>8. Order(fix) = C[DOMAIN fix]
  BY Zenon DEF Order, FoldLeft, MapThenFoldSet
<1> HIDE DEF C
<1>9. C[{}] \in Fine
  BY <1>2, <1>7
<1>10. ASSUME NEW k \in 1 .. n, C[1 .. k - 1] \in Fine
       PROVE  C[1 .. k] \in Fine
  <2>1. /\ 1 .. k \in SUBSET (1 .. n) /\ 1 .. k # {}
        /\ Max(1 .. k) = k /\ (1 .. k) \ {k} = 1 .. k - 1
    BY <1>1, Prefix
  <2>2. C[1 .. k] = C[(1 .. k) \ {Max(1 .. k)}] \o SetToSeq(fix[Max(1 .. k)])
    BY <1>1, <1>7, <2>1
  <2>3. C[1 .. k] = C[1 .. k - 1] \o SetToSeq(fix[k])
    BY <2>1, <2>2
  <2> QED BY <1>3, <1>10, <2>3
<1>11. C[1 .. n] \in Fine
  BY <1>1, <1>9, <1>10, FoldReaches
<1> QED BY <1>1, <1>8, <1>11 DEF Fine

(* The pull commands copy what was deleted.                                *)
PullAll(h, seq, d) ==
  LET Pull(a, e) == IF a.full THEN a ELSE copyent(a, Plus(ent[e].pos, d), e, d)
  IN FoldLeft(Pull, h, seq)

LEMMA PullFold ==
  ASSUME NEW h \in Sheets, ~h.full => Good(h), NEW n \in Nat,
         NEW seq \in [1 .. n -> Ents], ~h.full => \A k \in 1 .. n : seq[k] \in Saved(h), NEW d,
         NEW U, \A k \in 1 .. n : Plus(ent[seq[k]].pos, d) \in U,
         NEW s, s = PullAll(h, seq, d)
  PROVE  s \in Sheets /\ (~s.full => ~h.full /\ Good(s) /\ Same(h, s, U))
<1> DEFINE Pull(a, e) == IF a.full THEN a ELSE copyent(a, Plus(ent[e].pos, d), e, d)
           Fine == {a \in Sheets : ~a.full => ~h.full /\ Good(a) /\ Same(h, a, U)}
           F == [z \in Fine \X (1 .. n) |-> Pull(z[1], seq[z[2]])]
           E(w) == [t \in SUBSET DOMAIN seq |->
                      IF t = {} THEN h ELSE Pull(w[t \ {Max(t)}], seq[Max(t)])]
           C == CHOOSE g : g = E(g)
<1>1. h \in Fine
  <2>1. Same(h, h, U)
    BY DEF Same
  <2> QED BY <2>1
<1>2. ASSUME NEW a \in Fine, NEW k \in 1 .. n
      PROVE  Pull(a, seq[k]) \in Fine
  <2> DEFINE e == seq[k]
             q == Plus(ent[e].pos, d)
             c == copyent(a, q, e, d)
  <2>1. CASE a.full
    BY <2>1
  <2>2. CASE ~a.full
    <3>1. Pull(a, e) = c
      BY <2>2
    <3>2. a \in Sheets /\ Good(a) /\ Sound(a) /\ Same(h, a, U) /\ ~h.full
      BY <2>2 DEF Good
    <3>3. e \in Used(a)
      BY <3>2 DEF Same, Used, Saved
    <3>4. q \in U
      OBVIOUS
    <3> HIDE DEF e, q
    <3>5. c \in Sheets /\ (~c.full => Sound(c) /\ (Alive(a) => Alive(c)) /\ Same(a, c, {q}))
      BY <3>2, <3>3, CopyentGood
    <3> HIDE DEF c
    <3>6. ASSUME ~c.full
          PROVE  Good(c) /\ Same(h, c, U)
      <4>1. Same(h, c, U \union {q})
        BY <3>2, <3>5, <3>6, SameTwice
      <4>2. U \union {q} = U
        BY <3>4
      <4> QED BY <3>2, <3>5, <3>6, <4>1, <4>2 DEF Good
    <3>7. c \in Fine
      BY <3>2, <3>5, <3>6
    <3> QED BY <3>1, <3>7 DEF e
  <2> QED BY <2>1, <2>2
<1> HIDE DEF Pull, Fine
<1>3. F \in [Fine \X (1 .. n) -> Fine]
  BY <1>2
<1>4. \A a \in Fine : \A k \in 1 .. n : F[<<a, k>>] = Pull(a, seq[k])
  OBVIOUS
<1> HIDE DEF F
<1>5. DOMAIN seq = 1 .. n
  OBVIOUS
<1>6. \E g : g = E(g)
  <2>1. PICK g : IsFold(g, n, Fine, h, F)
    BY <1>1, <1>3, FoldExists
  <2>2. ASSUME NEW t \in SUBSET (1 .. n), t # {}
        PROVE  F[<<g[t \ {Max(t)}], Max(t)>>] = Pull(g[t \ {Max(t)}], seq[Max(t)])
    BY <1>4, <2>1, <2>2, MaxIn DEF IsFold
  <2>3. g = E(g)
    BY <1>5, <2>1, <2>2 DEF IsFold
  <2> QED BY <2>3
<1>7. C = E(C)
  <2> HIDE DEF E
  <2> QED BY <1>6, Zenon
<1>8. s = C[DOMAIN seq]
  BY Zenon DEF PullAll, FoldLeft, MapThenFoldSet, Pull
<1> HIDE DEF C
<1>9. C[{}] \in Fine
  BY <1>1, <1>7
<1>10. ASSUME NEW k \in 1 .. n, C[1 .. k - 1] \in Fine
       PROVE  C[1 .. k] \in Fine
  <2>1. /\ 1 .. k \in SUBSET (1 .. n) /\ 1 .. k # {}
        /\ Max(1 .. k) = k /\ (1 .. k) \ {k} = 1 .. k - 1
    BY Prefix
  <2>2. C[1 .. k] = Pull(C[(1 .. k) \ {Max(1 .. k)}], seq[Max(1 .. k)])
    BY <1>5, <1>7, <2>1
  <2>3. C[1 .. k] = Pull(C[1 .. k - 1], seq[k])
    BY <2>1, <2>2
  <2> QED BY <1>2, <1>10, <2>3
<1>11. C[1 .. n] \in Fine
  BY <1>9, <1>10, FoldReaches
<1> QED BY <1>5, <1>8, <1>11 DEF Fine


(* What was deleted was in some places.                                    *)
Places == {ent[e].pos : e \in Saved(Now)}

LEMMA SavedPlaces ==
  ASSUME Inv, to_fix # <<>>
  PROVE  /\ Places # {} /\ Places \subseteq Pos
         /\ \E n \in Nat : /\ Order(to_fix) \in [1 .. n -> Ents]
                           /\ \A k \in 1 .. n : Order(to_fix)[k] \in Saved(Now)
<1>1. Now \in Sheets /\ to_fix \in Seq(SUBSET Ents) /\ Fits(Now)
  BY NowFields DEF Inv, Sheets
<1>2. Saved(Now) # {}
  <2>1. 1 \in DOMAIN to_fix
    BY <1>1
  <2>2. to_fix[1] # {}
    BY <1>1, <2>1, NowFields DEF Fits, Short
  <2> QED BY <2>1, <2>2, NowFields DEF Saved, ToSet
<1>3. Saved(Now) \subseteq Ents
  BY <1>1, UsedEnts
<1>4. \A e \in Ents : ent[e].pos \in Pos
  BY <1>1, NowFields DEF Sheets, EntTypes
<1>5. Order(to_fix) \in Seq(Saved(Now))
  BY <1>1, OrderSeq, NowFields DEF Saved
<1> DEFINE n == Len(Order(to_fix))
<1>6. /\ n \in Nat /\ Order(to_fix) \in [1 .. n -> Ents]
      /\ \A k \in 1 .. n : Order(to_fix)[k] \in Saved(Now)
  BY <1>3, <1>5
<1> HIDE DEF n
<1> QED BY <1>2, <1>3, <1>4, <1>6 DEF Places

LEMMA PullInto ==
  ASSUME Inv, to_fix # <<>>, NEW axis \in {1, 2}, NEW p \in Pos,
         NEW low, low = Min({q[axis] : q \in Places}),
         NEW high, high = Max({q[axis] : q \in Places}),
         NEW d, \A q \in Places : Plus(q, d)[axis] = q[axis] + (p[axis] - low),
         NEW h, h = Open(Now, axis, p[axis], high - low + 1),
         NEW s, s = PullAll(h, Order(to_fix), d), Becomes(s)
  PROVE  Inv' /\ Keeps(Now, Now') /\ Follows(Now, Now')
<1> DEFINE T == {q[axis] : q \in Places}
           N == IF axis = 1 THEN MaxRows - 1 ELSE MaxCols - 1
           U == {Plus(q, d) : q \in Places}
<1>1. Now \in Sheets /\ Sound(Now) /\ Good(Now) /\ Alive(Now)
  BY DEF Inv, Good
<1>2. Places # {} /\ Places \subseteq Pos
  BY SavedPlaces
<1>3. N \in Nat /\ \A q \in Pos : q[axis] \in 0 .. N
  BY SheetAssumption DEF Pos
<1> HIDE DEF N
<1>4. T # {} /\ T \in SUBSET (0 .. N) /\ T \in SUBSET Nat
  BY <1>2, <1>3
<1>5. low \in T /\ high \in T
  BY <1>3, <1>4, Smallest, Greatest
<1>6. \A t \in T : low <= t /\ t <= high
  BY <1>3, <1>4, Smallest, Greatest
<1>7. \A q \in Places : low <= q[axis] /\ q[axis] <= high /\ q[axis] \in Int
  BY <1>2, <1>3, <1>6
<1> HIDE DEF T
<1>8. low \in Int /\ high \in Int /\ p[axis] \in Int /\ high - low + 1 \in Nat
  <2>1. low \in 0 .. N /\ high \in 0 .. N /\ low <= high
    BY <1>4, <1>5, <1>6
  <2>2. p[axis] \in 0 .. N
    BY <1>3
  <2> QED BY <1>3, <2>1, <2>2
<1>9. h \in Sheets /\ (~h.full => Good(h) /\ h.fix = Now.fix)
  BY <1>1, <1>8, OpenGood DEF Good
<1>10. PICK n \in Nat : /\ Order(to_fix) \in [1 .. n -> Ents]
                        /\ \A k \in 1 .. n : Order(to_fix)[k] \in Saved(Now)
  BY SavedPlaces
<1>11. \A k \in 1 .. n : Plus(ent[Order(to_fix)[k]].pos, d) \in U
  BY <1>10 DEF Places
<1>12. ~h.full => \A k \in 1 .. n : Order(to_fix)[k] \in Saved(h)
  BY <1>9, <1>10 DEF Saved
<1>13. ~s.full
  BY DEF Becomes
<1>14. \A q \in U : q \in Pos => p[axis] <= q[axis] /\ q[axis] < p[axis] + (high - low + 1)
  <2> SUFFICES ASSUME NEW q \in Places
               PROVE  p[axis] <= Plus(q, d)[axis] /\ Plus(q, d)[axis] < p[axis] + (high - low + 1)
    OBVIOUS
  <2> DEFINE y == Plus(q, d)[axis]
             z == q[axis]
             o == p[axis]
  <2>1. y = z + (o - low) /\ low <= z /\ z <= high /\ z \in Int /\ o \in Int
    BY <1>7, <1>8
  <2> HIDE DEF y, z, o
  <2>2. o <= y /\ y < o + (high - low + 1)
    BY <1>8, <2>1
  <2> QED BY <2>2 DEF y, o
<1> HIDE DEF U
<1>15. s \in Sheets /\ ~h.full /\ Good(s) /\ Same(h, s, U)
  BY <1>9, <1>10, <1>11, <1>12, <1>13, PullFold
<1> QED BY <1>8, <1>14, <1>15, OpenedWritten

LEMMA PullCells ==
  ASSUME Inv, NEW mode \in {"r", "c", "m"}, NEW p \in Pos, pullcells(mode, p)
  PROVE  Inv' /\ (Spare => Stands(Now, Now'))
<1> DEFINE low1 == Min({q[1] : q \in Places})
           low2 == Min({q[2] : q \in Places})
           high1 == Max({q[1] : q \in Places})
           high2 == Max({q[2] : q \in Places})
           low == <<low1, low2>>
           high == <<high1, high2>>
           dd == CASE mode = "r" -> <<p[1] - low[1], 0>>
                   [] mode = "c" -> <<0, p[2] - low[2]>>
                   [] mode = "m" -> Minus(p, low)
           hh == CASE mode = "r" -> Open(Now, 1, p[1], high[1] - low[1] + 1)
                   [] mode = "c" -> Open(Now, 2, p[2], high[2] - low[2] + 1)
                   [] mode = "m" -> Now
<1>1. to_fix # <<>>
  BY DEF pullcells
<1>0. Becomes(PullAll(hh, Order(to_fix), dd))
  BY DEF pullcells, PullAll, Places
<1>2. CASE mode = "r"
  <2> DEFINE d == <<p[1] - low1, 0>>
             axis == 1
             h == Open(Now, 1, p[1], high1 - low1 + 1)
             s == PullAll(h, Order(to_fix), d)
  <2>1. Becomes(s)
    <3>1. dd = d /\ hh = h
      BY <1>2
    <3> HIDE DEF dd, hh, d, h
    <3> QED BY <1>0, <3>1
  <2>2. \A q \in Places : Plus(q, d)[axis] = q[axis] + (p[axis] - low1)
    BY DEF Plus
  <2>3. /\ low1 = Min({q[axis] : q \in Places}) /\ high1 = Max({q[axis] : q \in Places})
        /\ h = Open(Now, axis, p[axis], high1 - low1 + 1) /\ axis \in {1, 2}
    OBVIOUS
  <2>4. s = PullAll(h, Order(to_fix), d)
    OBVIOUS
  <2> HIDE DEF d, axis, h, s, low1, high1
  <2> QED BY <1>1, <2>1, <2>2, <2>3, <2>4, PullInto, FollowsPoints
<1>3. CASE mode = "c"
  <2> DEFINE d == <<0, p[2] - low2>>
             axis == 2
             h == Open(Now, 2, p[2], high2 - low2 + 1)
             s == PullAll(h, Order(to_fix), d)
  <2>1. Becomes(s)
    <3>1. dd = d /\ hh = h
      BY <1>3
    <3> HIDE DEF dd, hh, d, h
    <3> QED BY <1>0, <3>1
  <2>2. \A q \in Places : Plus(q, d)[axis] = q[axis] + (p[axis] - low2)
    BY DEF Plus
  <2>3. /\ low2 = Min({q[axis] : q \in Places}) /\ high2 = Max({q[axis] : q \in Places})
        /\ h = Open(Now, axis, p[axis], high2 - low2 + 1) /\ axis \in {1, 2}
    OBVIOUS
  <2>4. s = PullAll(h, Order(to_fix), d)
    OBVIOUS
  <2> HIDE DEF d, axis, h, s, low2, high2
  <2> QED BY <1>1, <2>1, <2>2, <2>3, <2>4, PullInto, FollowsPoints
<1>4. CASE mode = "m"
  <2> DEFINE d == Minus(p, low)
             U == {Plus(q, d) : q \in Places}
             s == PullAll(Now, Order(to_fix), d)
  <2>1. Becomes(s) /\ Spares(U \intersect Pos, "pull")
    <3>1. dd = d /\ hh = Now
      BY <1>4
    <3>2. Spares({Plus(q, dd) : q \in Places} \intersect Pos, "pull")
      BY <1>4 DEF pullcells, Places
    <3> HIDE DEF dd, hh, d
    <3> QED BY <1>0, <3>1, <3>2
  <2>2. Now \in Sheets /\ Good(Now) /\ ~s.full
    BY <2>1 DEF Inv, Becomes
  <2>3. PICK n \in Nat : /\ Order(to_fix) \in [1 .. n -> Ents]
                         /\ \A k \in 1 .. n : Order(to_fix)[k] \in Saved(Now)
    BY <1>1, SavedPlaces
  <2>4. \A k \in 1 .. n : Plus(ent[Order(to_fix)[k]].pos, d) \in U
    BY <2>3 DEF Places
  <2> HIDE DEF d, U
  <2>5. s \in Sheets /\ Good(s) /\ Same(Now, s, U)
    BY <2>2, <2>3, <2>4, PullFold
  <2> HIDE DEF s
  <2>6. Inv' /\ ((\A q \in U : q \in Pos => ~Locked(q)) => Stands(Now, Now'))
    BY <2>1, <2>5, Written
  <2>7. Spare => \A q \in U \intersect Pos : ~Locked(q)
    BY <2>1, SparesNone
  <2> QED BY <2>6, <2>7
<1> QED BY <1>2, <1>3, <1>4



----------------------------------------------------------------------------
(* /c                                                                      *)

(* Arithmetic: a product with a factor that is too large or negative, and  *)
(* a number divided by the width of an area.                               *)
LEMMA ProductOver ==
  ASSUME NEW h \in Nat, NEW w \in Nat, NEW q \in Int, q >= h
  PROVE  w * q >= w * h
OBVIOUS

LEMMA ProductUnder ==
  ASSUME NEW w \in Nat \ {0}, NEW q \in Int, q < 0
  PROVE  (w * q) + w <= 0
OBVIOUS

LEMMA Division ==
  ASSUME NEW w \in Nat \ {0}, NEW a \in Nat
  PROVE  a \div w \in Int /\ a % w \in 0 .. w - 1 /\ a = (w * (a \div w)) + (a % w)
<1>1. a \div w \in Int
  OBVIOUS
<1>2. a % w \in 0 .. w - 1
  OBVIOUS
<1>3. a = (w * (a \div w)) + (a % w)
  OBVIOUS
<1> QED BY <1>1, <1>2, <1>3

LEMMA Quotient ==
  ASSUME NEW h \in Nat, NEW w \in Nat \ {0}, NEW a \in Nat, a < w * h
  PROVE  a \div w \in 0 .. h - 1
<1> DEFINE q == a \div w
           r == a % w
<1>1. q \in Int /\ r \in 0 .. w - 1 /\ a = (w * q) + r
  BY Division
<1> HIDE DEF q, r
<1>2. w * q \in Int /\ w * h \in Int
  BY <1>1
<1>3. ~(q < 0)
  <2> SUFFICES ASSUME q < 0
               PROVE  FALSE
    OBVIOUS
  <2> DEFINE m == w * q
  <2>1. m \in Int /\ m + w <= 0 /\ a = m + r
    BY <1>1, <1>2, ProductUnder
  <2> HIDE DEF m
  <2> QED BY <1>1, <2>1
<1>4. ~(q >= h)
  <2> SUFFICES ASSUME q >= h
               PROVE  FALSE
    OBVIOUS
  <2> DEFINE m == w * q
             o == w * h
  <2>1. m \in Int /\ o \in Int /\ m >= o /\ a = m + r /\ a < o
    BY <1>1, <1>2, ProductOver
  <2> HIDE DEF m, o
  <2> QED BY <1>1, <2>1
<1> QED BY <1>1, <1>3, <1>4 DEF q

(* The cells of an area, by rows.                                          *)
LEMMA ByRowsIn ==
  ASSUME NEW h \in Nat \ {0}, NEW w \in Nat \ {0}
  PROVE  /\ h * w \in Nat
         /\ ByRows(h, w) \in [1 .. h * w -> (0 .. h - 1) \X (0 .. w - 1)]
<1>1. h * w \in Nat /\ h * w = w * h
  OBVIOUS
<1>2. ASSUME NEW k \in 1 .. h * w
      PROVE  (k - 1) \div w \in 0 .. h - 1 /\ (k - 1) % w \in 0 .. w - 1
  <2> DEFINE a == k - 1
             m == w * h
  <2>1. m \in Nat /\ k \in 1 .. m
    BY <1>1
  <2> HIDE DEF m
  <2>2. a \in Nat /\ a < m
    BY <2>1
  <2> HIDE DEF a
  <2>3. a \div w \in 0 .. h - 1
    BY <2>2, Quotient DEF m
  <2>4. a % w \in 0 .. w - 1
    BY <2>2, Division
  <2> QED BY <2>3, <2>4 DEF a
<1> QED BY <1>1, <1>2 DEF ByRows

(* The steps of a copy, for one of the places where it is repeated.        *)
BlockAt(areas, at) ==
  LET dst == areas[1]
      src == areas[2]
  IN [k \in 1 .. Size(src, 1) * Size(src, 2) |->
        LET d == ByRows(Size(src, 1), Size(src, 2))[k]
        IN <<Plus(src[1], d), Plus(Plus(dst[1], at), d)>>]
Blocks(areas, seq) == FoldLeft(LAMBDA s, at : s \o BlockAt(areas, at), <<>>, seq)

(* An area is not empty, and its cells are cells.                          *)
LEMMA SizeIn ==
  ASSUME NEW a \in Areas
  PROVE  /\ Size(a, 1) \in Nat \ {0} /\ Size(a, 2) \in Nat \ {0}
         /\ \A d \in (0 .. Size(a, 1) - 1) \X (0 .. Size(a, 2) - 1) : Plus(a[1], d) \in Pos
<1>1. /\ a[1] \in Pos /\ a[2] \in Pos /\ a[1][1] <= a[2][1] /\ a[1][2] <= a[2][2]
  BY DEF Areas
<1>2. MaxRows \in Nat \ {0} /\ MaxCols \in Nat \ {0}
  BY SheetAssumption
<1>3. /\ a[1][1] \in 0 .. MaxRows - 1 /\ a[1][2] \in 0 .. MaxCols - 1
      /\ a[2][1] \in 0 .. MaxRows - 1 /\ a[2][2] \in 0 .. MaxCols - 1
  BY <1>1 DEF Pos
<1>4. Size(a, 1) = a[2][1] - a[1][1] + 1 /\ Size(a, 2) = a[2][2] - a[1][2] + 1
  BY DEF Size
<1>5. Size(a, 1) \in Nat \ {0} /\ Size(a, 2) \in Nat \ {0}
  BY <1>1, <1>2, <1>3, <1>4
<1>6. ASSUME NEW d \in (0 .. Size(a, 1) - 1) \X (0 .. Size(a, 2) - 1)
      PROVE  Plus(a[1], d) \in Pos
  <2>1. d[1] \in 0 .. a[2][1] - a[1][1] /\ d[2] \in 0 .. a[2][2] - a[1][2]
    BY <1>3, <1>4
  <2>2. a[1][1] + d[1] \in 0 .. MaxRows - 1 /\ a[1][2] + d[2] \in 0 .. MaxCols - 1
    BY <1>2, <1>3, <2>1
  <2> QED BY <2>2 DEF Plus, Pos
<1> QED BY <1>5, <1>6

LEMMA BlockSeq ==
  ASSUME NEW areas \in Areas \X Areas, NEW at \in Int \X Int
  PROVE  BlockAt(areas, at) \in Seq(Pos \X (Int \X Int))
<1> DEFINE dst == areas[1]
           src == areas[2]
           m == Size(src, 1) * Size(src, 2)
           X == Pos \X (Int \X Int)
           B == ByRows(Size(src, 1), Size(src, 2))
<1>1. /\ Size(src, 1) \in Nat \ {0} /\ Size(src, 2) \in Nat \ {0}
      /\ \A d \in (0 .. Size(src, 1) - 1) \X (0 .. Size(src, 2) - 1) : Plus(src[1], d) \in Pos
  <2>1. src \in Areas
    OBVIOUS
  <2> HIDE DEF src
  <2> QED BY <2>1, SizeIn
<1>2. m \in Nat /\ B \in [1 .. m -> (0 .. Size(src, 1) - 1) \X (0 .. Size(src, 2) - 1)]
  BY <1>1, ByRowsIn
<1>3. BlockAt(areas, at) = [k \in 1 .. m |-> <<Plus(src[1], B[k]), Plus(Plus(dst[1], at), B[k])>>]
  BY DEF BlockAt
<1> HIDE DEF m, B
<1>4. ASSUME NEW k \in 1 .. m
      PROVE  <<Plus(src[1], B[k]), Plus(Plus(dst[1], at), B[k])>> \in X
  <2>1. Plus(src[1], B[k]) \in Pos
    BY <1>1, <1>2
  <2>2. B[k] \in Int \X Int
    BY <1>1, <1>2
  <2>3. dst[1] \in Int \X Int
    BY PosFinite DEF Areas, Pos
  <2>4. Plus(Plus(dst[1], at), B[k]) \in Int \X Int
    BY <2>2, <2>3 DEF Plus
  <2> QED BY <2>1, <2>4
<1> HIDE DEF X
<1>5. BlockAt(areas, at) \in [1 .. m -> X]
  BY <1>3, <1>4
<1>6. BlockAt(areas, at) \in Seq(X)
  BY <1>2, <1>5
<1> QED BY <1>6 DEF X

(* The blocks one after the other are a sequence of steps.                 *)
LEMMA BlocksSeq ==
  ASSUME NEW areas \in Areas \X Areas, NEW n \in Nat, NEW seq \in [1 .. n -> Int \X Int]
  PROVE  Blocks(areas, seq) \in Seq(Pos \X (Int \X Int))
<1> DEFINE Fine == Seq(Pos \X (Int \X Int))
           F == [z \in Fine \X (1 .. n) |-> z[1] \o BlockAt(areas, seq[z[2]])]
           E(w) == [t \in SUBSET DOMAIN seq |->
                      IF t = {} THEN <<>>
                      ELSE w[t \ {Max(t)}] \o BlockAt(areas, seq[Max(t)])]
           C == CHOOSE g : g = E(g)
<1>1. DOMAIN seq = 1 .. n
  OBVIOUS
<1>2. <<>> \in Fine
  OBVIOUS
<1>3. ASSUME NEW a \in Fine, NEW k \in 1 .. n
      PROVE  a \o BlockAt(areas, seq[k]) \in Fine
  <2>1. BlockAt(areas, seq[k]) \in Fine
    BY BlockSeq
  <2> QED BY <2>1
<1> HIDE DEF Fine
<1>4. F \in [Fine \X (1 .. n) -> Fine]
  BY <1>3
<1>5. \A a \in Fine : \A k \in 1 .. n : F[<<a, k>>] = a \o BlockAt(areas, seq[k])
  OBVIOUS
<1> HIDE DEF F
<1>6. \E g : g = E(g)
  <2>1. PICK g : IsFold(g, n, Fine, <<>>, F)
    BY <1>2, <1>4, FoldExists
  <2>2. ASSUME NEW t \in SUBSET (1 .. n), t # {}
        PROVE  F[<<g[t \ {Max(t)}], Max(t)>>] = g[t \ {Max(t)}] \o BlockAt(areas, seq[Max(t)])
    BY <1>5, <2>1, <2>2, MaxIn DEF IsFold
  <2>3. g = E(g)
    BY <1>1, <2>1, <2>2 DEF IsFold
  <2> QED BY <2>3
<1>7. C = E(C)
  <2> HIDE DEF E
  <2> QED BY <1>6, Zenon
<1>8. Blocks(areas, seq) = C[DOMAIN seq]
  BY Zenon DEF Blocks, FoldLeft, MapThenFoldSet
<1> HIDE DEF C
<1>9. C[{}] \in Fine
  BY <1>2, <1>7
<1>10. ASSUME NEW k \in 1 .. n, C[1 .. k - 1] \in Fine
       PROVE  C[1 .. k] \in Fine
  <2>1. /\ 1 .. k \in SUBSET (1 .. n) /\ 1 .. k # {}
        /\ Max(1 .. k) = k /\ (1 .. k) \ {k} = 1 .. k - 1
    BY Prefix
  <2>2. C[1 .. k] = C[(1 .. k) \ {Max(1 .. k)}] \o BlockAt(areas, seq[Max(1 .. k)])
    BY <1>1, <1>7, <2>1
  <2>3. C[1 .. k] = C[1 .. k - 1] \o BlockAt(areas, seq[k])
    BY <2>1, <2>2
  <2> QED BY <1>3, <1>10, <2>3
<1>11. C[1 .. n] \in Fine
  BY <1>9, <1>10, FoldReaches
<1> QED BY <1>1, <1>8, <1>11 DEF Fine

(* What /c copies are cells.                                               *)
LEMMA StepsSeq ==
  ASSUME NEW dst \in Areas, NEW src \in Areas
  PROVE  Steps[<<dst, src>>] \in Seq(Pos \X (Int \X Int))
<1> DEFINE areas == <<dst, src>>
           Times(a, axis) == IF Size(a[2], axis) = 1 THEN Size(a[1], axis) ELSE 1
           seq == ByRows(Times(areas, 1), Times(areas, 2))
           n == Times(areas, 1) * Times(areas, 2)
<1>1. Times(areas, 1) \in Nat \ {0} /\ Times(areas, 2) \in Nat \ {0}
  <2>1. areas[1] = dst /\ areas[2] = src
    OBVIOUS
  <2> HIDE DEF areas
  <2> QED BY <2>1, SizeIn
<1>2. areas \in Areas \X Areas
  OBVIOUS
<1>3. Steps = [a \in Areas \X Areas |-> Blocks(a, ByRows(Times(a, 1), Times(a, 2)))]
  BY Zenon DEF Steps, Blocks, BlockAt
<1> HIDE DEF areas
<1>4. Steps[areas] = Blocks(areas, seq)
  BY <1>2, <1>3, Zenon
<1> HIDE DEF Times
<1>5. n \in Nat /\ seq \in [1 .. n -> (0 .. Times(areas, 1) - 1) \X (0 .. Times(areas, 2) - 1)]
  BY <1>1, ByRowsIn
<1> HIDE DEF n
<1>6. seq \in [1 .. n -> Int \X Int]
  BY <1>1, <1>5
<1> HIDE DEF seq
<1>7. Blocks(areas, seq) \in Seq(Pos \X (Int \X Int))
  BY <1>2, <1>5, <1>6, BlocksSeq
<1> QED BY <1>4, <1>7 DEF areas

(* copyrtv: what is locked is not written, nor is what is not in U, if a   *)
(* cell that is not there is only copied into U.                           *)
CopiesTo(h, step, U) ==
  /\ step[1] \in Pos /\ step[2] \in Pos
  /\ h.tbl[step[1]] = NULL => step[2] \in U
Covers(h, U) == \A r \in Pos : r \in U \/ (h.tbl[r] # NULL /\ h.ent[h.tbl[r]].locked)
Stage(h, a, U) == a \in Sheets /\ (~a.full => ~h.full /\ Sound(a) /\ Same(h, a, U))

(* lookat and clearent again, as copyrtv uses them.                        *)
LEMMA LookatOne ==
  ASSUME NEW a \in Sheets, NEW q \in Pos, NEW n, n = lookat(a, {q}), ~n.full, a.tbl[q] # NULL
  PROVE  n.tbl[q] = a.tbl[q] /\ n.ent[n.tbl[q]] = a.ent[a.tbl[q]]
<1>1. n.tbl[q] = a.tbl[q]
  <2> DEFINE ps == {q}
  <2>1. n = lookat(a, ps)
    OBVIOUS
  <2> HIDE DEF ps
  <2>2. \A p \in Pos : \/ n.tbl[p] = a.tbl[p]
                       \/ /\ a.tbl[p] = NULL /\ p \in ps /\ n.tbl[p] \in Free(a)
                          /\ n.ent[n.tbl[p]] = [Blank EXCEPT !.pos = p]
    BY <2>1, Lookat
  <2> QED BY <2>2
<1>2. a.tbl[q] \in Used(a)
  BY UsedEnts
<1>3. \A r \in Used(a) : n.ent[r] = a.ent[r]
  BY Lookat
<1> QED BY <1>1, <1>2, <1>3

LEMMA ClearentFull ==
  ASSUME NEW a \in Sheets, NEW q \in Pos, ~a.full, a.tbl[q] # NULL, NEW s, s = clearent(a, q)
  PROVE  ~s.full
<1> DEFINE y == Cleared(a.ent[a.tbl[q]])
<1>1. s = Put(a, q, y)
  BY DEF clearent
<1> HIDE DEF y
<1>2. s.full = a.full
  BY <1>1 DEF Put, Sheets
<1> QED BY <1>2

(* One of its steps writes one place.                                      *)
LEMMA StageNext ==
  ASSUME NEW h, NEW U, NEW a, Stage(h, a, U), ~a.full, NEW q \in U, NEW s \in Sheets,
         ~s.full => Sound(s) /\ Same(a, s, {q})
  PROVE  Stage(h, s, U)
<1>1. ASSUME ~s.full
      PROVE  Same(h, s, U)
  <2>1. Same(h, s, U \union {q})
    BY <1>1, SameTwice DEF Stage
  <2>2. U \union {q} = U
    OBVIOUS
  <2> QED BY <2>1, <2>2
<1> QED BY <1>1 DEF Stage

(* What is not in U is locked at every stage, too.                         *)
LEMMA StageLocked ==
  ASSUME NEW h \in Sheets, Sound(h), NEW U, Covers(h, U), NEW a, Stage(h, a, U), ~a.full,
         NEW p \in Pos
  PROVE  /\ h.tbl[p] # NULL => a.tbl[p] = h.tbl[p]
         /\ p \notin U => a.tbl[p] # NULL /\ a.ent[a.tbl[p]].locked
<1>1. a \in Sheets /\ Sound(a) /\ Same(h, a, U)
  BY DEF Stage
<1>2. ASSUME h.tbl[p] # NULL
      PROVE  a.tbl[p] = h.tbl[p] /\ (p \notin U => a.ent[a.tbl[p]] = h.ent[h.tbl[p]])
  <2> DEFINE e == h.tbl[p]
  <2>1. e \in Used(h) /\ e \in Placed(h) /\ h.ent[e].pos = p /\ e # NULL
    BY <1>2, UsedEnts DEF Sound
  <2> HIDE DEF e
  <2>2. e \in Placed(a) /\ a.ent[e].pos = p /\ (p \notin U => a.ent[e] = h.ent[e])
    BY <1>1, <2>1 DEF Same
  <2>3. a.tbl[p] = e
    <3>1. PICK r \in Pos : a.tbl[r] = e
      BY <1>1, <2>2, UsedEnts
    <3>2. a.ent[e].pos = r
      BY <1>1, <2>1, <3>1 DEF Sound
    <3> QED BY <2>2, <3>1, <3>2
  <2> QED BY <2>2, <2>3 DEF e
<1> QED BY <1>2 DEF Covers

LEMMA CopyrtvGood ==
  ASSUME NEW h \in Sheets, Sound(h), NEW U, Covers(h, U), NEW step, CopiesTo(h, step, U),
         NEW a, Stage(h, a, U), NEW s, s = copyrtv(a, step)
  PROVE  Stage(h, s, U)
<1> DEFINE p == step[1]
           q == step[2]
           n == lookat(a, {q})
           e == a.tbl[p]
           d == Minus(q, p)
           c == copyent(a, q, e, d)
<1>1. CASE a.full
  BY <1>1 DEF copyrtv
<1>2. CASE ~a.full
  <2>1. p \in Pos /\ q \in Pos /\ (h.tbl[p] = NULL => q \in U)
    BY DEF CopiesTo
  <2>2. a \in Sheets /\ Sound(a)
    BY <1>2 DEF Stage
  <2>3. h.tbl[p] # NULL => a.tbl[p] = h.tbl[p]
    BY <1>2, <2>1, StageLocked
  <2>4. q \notin U => a.tbl[q] # NULL /\ a.ent[a.tbl[q]].locked
    BY <1>2, <2>1, StageLocked
  <2>5. s = IF e = NULL THEN (IF a.tbl[q] = NULL THEN a ELSE clearent(a, q))
            ELSE IF n.full \/ n.ent[n.tbl[q]].locked THEN n ELSE c
    BY <1>2 DEF copyrtv
  <2> HIDE DEF p, q
  <2>6. CASE e = NULL /\ a.tbl[q] = NULL
    BY <2>5, <2>6
  <2>7. CASE e = NULL /\ a.tbl[q] # NULL
    <3>1. q \in U
      BY <2>1, <2>3, <2>7
    <3>2. s = clearent(a, q)
      BY <2>5, <2>7
    <3>6. ~s.full
      BY <1>2, <2>1, <2>2, <2>7, <3>2, ClearentFull
    <3>7. s \in Sheets /\ Sound(s) /\ Same(a, s, {q})
      BY <1>2, <2>1, <2>2, <2>7, <3>2, <3>6, ClearentGood
    <3> QED BY <1>2, <3>1, <3>6, <3>7, StageNext
  <2>8. CASE e # NULL /\ (n.full \/ n.ent[n.tbl[q]].locked)
    <3>1. s = n
      BY <2>5, <2>8
    <3>2. n \in Sheets
      BY <2>2, Lookat
    <3>3. ~n.full => Sound(n) /\ Same(a, n, {})
      BY <2>2, LookatGood
    <3> HIDE DEF n
    <3>4. ASSUME ~n.full
          PROVE  Same(h, n, U)
      <4>1. Same(h, n, U \union {})
        BY <1>2, <3>3, <3>4, SameTwice DEF Stage
      <4>2. U \union {} = U
        OBVIOUS
      <4> QED BY <4>1, <4>2
    <3> QED BY <1>2, <3>1, <3>2, <3>3, <3>4 DEF Stage
  <2>9. CASE e # NULL /\ ~(n.full \/ n.ent[n.tbl[q]].locked)
    <3>1. s = c
      BY <2>5, <2>9
    <3>2. e \in Used(a)
      BY <2>1, <2>2, <2>9, UsedEnts
    <3>3. q \in U
      <4> SUFFICES ASSUME q \notin U
                   PROVE  FALSE
        OBVIOUS
      <4>1. a.tbl[q] # NULL /\ a.ent[a.tbl[q]].locked /\ a.tbl[q] \in Used(a)
        BY <2>1, <2>2, <2>4, UsedEnts
      <4>2. n = lookat(a, {q}) /\ ~n.full
        BY <2>9
      <4> HIDE DEF c, d, n, e
      <4>3. n.ent[n.tbl[q]] = a.ent[a.tbl[q]]
        BY <2>1, <2>2, <4>1, <4>2, LookatOne
      <4> QED BY <2>9, <4>1, <4>3
    <3> HIDE DEF e, d, n
    <3>4. s \in Sheets /\ (~s.full => Sound(s) /\ Same(a, s, {q}))
      BY <2>2, <3>1, <3>2, CopyentGood
    <3> QED BY <1>2, <3>3, <3>4, StageNext
  <2> QED BY <2>6, <2>7, <2>8, <2>9
<1> QED BY <1>1, <1>2

CopyAll(h, seq) == FoldLeft(copyrtv, h, seq)

(* All of its steps.                                                       *)
LEMMA CopyFold ==
  ASSUME NEW h \in Sheets, ~h.full, Sound(h), NEW U, Covers(h, U), NEW n \in Nat,
         NEW seq, DOMAIN seq = 1 .. n, \A k \in 1 .. n : CopiesTo(h, seq[k], U),
         NEW s, s = CopyAll(h, seq)
  PROVE  Stage(h, s, U)
<1> DEFINE Fine == {a \in Sheets : Stage(h, a, U)}
           F == [z \in Fine \X (1 .. n) |-> copyrtv(z[1], seq[z[2]])]
           E(w) == [t \in SUBSET DOMAIN seq |->
                      IF t = {} THEN h ELSE copyrtv(w[t \ {Max(t)}], seq[Max(t)])]
           C == CHOOSE g : g = E(g)
<1>1. h \in Fine
  <2>1. Same(h, h, U)
    BY DEF Same
  <2> QED BY <2>1 DEF Stage
<1>2. ASSUME NEW a \in Fine, NEW k \in 1 .. n
      PROVE  copyrtv(a, seq[k]) \in Fine
  <2> DEFINE c == copyrtv(a, seq[k])
             st == seq[k]
  <2>1. CopiesTo(h, st, U) /\ Stage(h, a, U) /\ c = copyrtv(a, st)
    OBVIOUS
  <2> HIDE DEF c, st
  <2>2. Stage(h, c, U)
    BY <2>1, CopyrtvGood
  <2>3. c \in Fine
    BY <2>2 DEF Stage
  <2> QED BY <2>3 DEF c
<1> HIDE DEF Fine
<1>3. F \in [Fine \X (1 .. n) -> Fine]
  BY <1>2
<1>4. \A a \in Fine : \A k \in 1 .. n : F[<<a, k>>] = copyrtv(a, seq[k])
  OBVIOUS
<1> HIDE DEF F
<1>6. \E g : g = E(g)
  <2>1. PICK g : IsFold(g, n, Fine, h, F)
    BY <1>1, <1>3, FoldExists
  <2>2. ASSUME NEW t \in SUBSET (1 .. n), t # {}
        PROVE  F[<<g[t \ {Max(t)}], Max(t)>>] = copyrtv(g[t \ {Max(t)}], seq[Max(t)])
    BY <1>4, <2>1, <2>2, MaxIn DEF IsFold
  <2>3. g = E(g)
    BY <2>1, <2>2 DEF IsFold
  <2> QED BY <2>3
<1>7. C = E(C)
  <2> HIDE DEF E
  <2> QED BY <1>6, Zenon
<1>8. s = C[DOMAIN seq]
  BY Zenon DEF CopyAll, FoldLeft, MapThenFoldSet
<1> HIDE DEF C
<1>9. C[{}] \in Fine
  BY <1>1, <1>7
<1>10. ASSUME NEW k \in 1 .. n, C[1 .. k - 1] \in Fine
       PROVE  C[1 .. k] \in Fine
  <2>1. /\ 1 .. k \in SUBSET (1 .. n) /\ 1 .. k # {}
        /\ Max(1 .. k) = k /\ (1 .. k) \ {k} = 1 .. k - 1
    BY Prefix
  <2>2. C[1 .. k] = copyrtv(C[(1 .. k) \ {Max(1 .. k)}], seq[Max(1 .. k)])
    BY <1>7, <2>1
  <2>3. C[1 .. k] = copyrtv(C[1 .. k - 1], seq[k])
    BY <2>1, <2>2
  <2> QED BY <1>2, <1>10, <2>3
<1>11. C[1 .. n] \in Fine
  BY <1>9, <1>10, FoldReaches
<1> QED BY <1>8, <1>11 DEF Fine


LEMMA CopyArea ==
  ASSUME Inv, NEW dst \in Areas, NEW src \in Areas, copy(dst, src)
  PROVE  Inv' /\ (Spare => Stands(Now, Now'))
<1> DEFINE l == lookat(Now, ToSet(dst) \union ToSet(src))
           h == erase_area(l, In[dst])
           seq == Steps[<<dst, src>>]
           c == CopyAll(h, seq)
           s == sync_refs(c)
           n == Len(seq)
           U == {r \in Pos : h.tbl[r] = NULL \/ ~h.ent[h.tbl[r]].locked}
<1>1. /\ \A step \in ToSet(seq) :
           step[2] \in Pos /\ (h.tbl[step[1]] = NULL => Spares({step[2]}, "hole"))
      /\ ~h.full /\ ~c.full /\ Becomes(s) /\ ~s.full
  BY DEF copy, CopyAll, Becomes
<1>2. Now \in Sheets /\ Good(Now) /\ Sound(Now) /\ Fits(Now) /\ In[dst] \subseteq Pos
  BY InPos DEF Inv, Good
<1>3. l \in Sheets
  BY <1>2, Lookat
<1>4. ~l.full
  <2>1. h = l \/ h.full = (l.full \/ Len(l.fix) = MaxSaved)
    <3> HIDE DEF l
    <3> QED BY <1>3 DEF erase_area, free_ent, Sheets
  <2> QED BY <1>1, <2>1
<1>5. /\ \A p \in Pos : \/ l.tbl[p] = Now.tbl[p]
                        \/ /\ Now.tbl[p] = NULL
                           /\ l.ent[l.tbl[p]] = [Blank EXCEPT !.pos = p]
      /\ \A e \in Used(Now) : l.ent[e] = Now.ent[e]
      /\ l.fix = Now.fix /\ l.range = Now.range
  <2> DEFINE g == Now
             ps == ToSet(dst) \union ToSet(src)
  <2>1. g \in Sheets /\ l = lookat(g, ps) /\ ~l.full
    BY <1>2, <1>4
  <2> HIDE DEF g, ps, l
  <2>2. \A p \in Pos : \/ l.tbl[p] = g.tbl[p]
                       \/ g.tbl[p] = NULL /\ l.ent[l.tbl[p]] = [Blank EXCEPT !.pos = p]
    BY <2>1, Lookat
  <2>3. (\A e \in Used(g) : l.ent[e] = g.ent[e]) /\ l.fix = g.fix /\ l.range = g.range
    BY <2>1, Lookat
  <2> QED BY <2>2, <2>3 DEF g
<1>6. Sound(l) /\ Placed(Now) \subseteq Placed(l)
  <2> DEFINE g == Now
             ps == ToSet(dst) \union ToSet(src)
  <2>1. g \in Sheets /\ Sound(g) /\ l = lookat(g, ps) /\ ~l.full
    BY <1>2, <1>4
  <2> HIDE DEF g, ps, l
  <2>2. Sound(l) /\ Same(g, l, {})
    BY <2>1, LookatGood
  <2> QED BY <2>2 DEF Same, g
<1> HIDE DEF l
<1>7. /\ h \in Sheets /\ Sound(h) /\ h.range = l.range
      /\ \A p \in In[dst] : l.tbl[p] # NULL /\ ~l.ent[l.tbl[p]].locked => h.tbl[p] = NULL
      /\ \A p \in Pos : h.tbl[p] = NULL \/ h.tbl[p] = l.tbl[p]
      /\ \A e \in Placed(l) : l.ent[e].locked => e \in Placed(h) /\ h.ent[e] = l.ent[e]
      /\ \A e \in Placed(l) : l.ent[e].pos \notin In[dst] => e \in Placed(h) /\ h.ent[e] = l.ent[e]
      /\ ~h.full /\ Short(l.fix) => Short(h.fix)
  BY <1>2, <1>3, <1>6, EraseGood
<1>17. Used(h) = Used(l) /\ \A e \in Used(l) : h.ent[e].pos = l.ent[e].pos
  BY <1>2, <1>3, <1>6, EraseGood
<1>8. n \in Nat /\ DOMAIN seq = 1 .. n /\ \A k \in 1 .. n : seq[k][1] \in Pos
  <2>1. seq \in Seq(Pos \X (Int \X Int))
    BY StepsSeq
  <2> HIDE DEF seq
  <2>2. \A k \in 1 .. n : seq[k] \in Pos \X (Int \X Int)
    BY <2>1
  <2> QED BY <2>1, <2>2
<1>9. \A k \in 1 .. n : /\ seq[k][2] \in Pos
                        /\ h.tbl[seq[k][1]] = NULL => Spares({seq[k][2]}, "hole")
  BY <1>1, <1>8 DEF ToSet
<1> HIDE DEF seq, n, h, U
<1>10. Stage(h, c, Pos)
  <2>1. Covers(h, Pos) /\ \A k \in 1 .. n : CopiesTo(h, seq[k], Pos)
    BY <1>8, <1>9 DEF Covers, CopiesTo
  <2> QED BY <1>1, <1>7, <1>8, <2>1, CopyFold
<1>11. c \in Sheets /\ Sound(c) /\ c.fix = h.fix /\ c.range = h.range
  BY <1>1, <1>10 DEF Stage, Same
<1>12. ASSUME Spare
       PROVE  Stage(h, c, U)
  <2>1. ASSUME NEW q \in Pos, ~Locked(q)
        PROVE  q \in U
    <3> SUFFICES ASSUME h.tbl[q] # NULL
                 PROVE  ~h.ent[h.tbl[q]].locked
      BY DEF U
    <3> DEFINE e == l.tbl[q]
    <3>1. h.tbl[q] = e /\ e # NULL /\ e \in Placed(l) /\ l.ent[e].pos = q
      BY <1>3, <1>6, <1>7, UsedEnts DEF Sound
    <3>2. ~l.ent[e].locked
      <4>1. CASE e = Now.tbl[q]
        <5>1. e \in Used(Now) /\ ~Now.ent[e].locked
          BY <1>2, <2>1, <3>1, <4>1, UsedEnts, NowFields
        <5> QED BY <1>5, <5>1
      <4>2. CASE e # Now.tbl[q]
        BY <1>5, <4>2 DEF Blank
      <4> QED BY <4>1, <4>2
    <3>3. q \notin In[dst]
      BY <1>7, <3>1, <3>2
    <3> HIDE DEF e
    <3> QED BY <1>7, <3>1, <3>2, <3>3
  <2>2. \A k \in 1 .. n : CopiesTo(h, seq[k], U)
    <3> SUFFICES ASSUME NEW k \in 1 .. n, h.tbl[seq[k][1]] = NULL
                 PROVE  seq[k][2] \in U
      BY <1>8, <1>9 DEF CopiesTo
    <3>1. ~Locked(seq[k][2])
      BY <1>9, <1>12, SparesNone
    <3> QED BY <1>9, <2>1, <3>1
  <2>3. Covers(h, U)
    BY DEF Covers, U
  <2> QED BY <1>1, <1>7, <1>8, <2>2, <2>3, CopyFold
<1> HIDE DEF c
<1>13. /\ s \in Sheets /\ Good(s) /\ s.fix = c.fix /\ Placed(c) \subseteq Placed(s)
       /\ \A e \in Used(c) : s.ent[e].expr = c.ent[e].expr /\ Contents(s.ent[e]) = Contents(c.ent[e])
       /\ \A e \in Placed(c) : c.ent[e].expr # "none" =>
            /\ c.ent[e].vp \in Placed(c) => s.ent[e].vp = c.ent[e].vp
            /\ s.ent[s.ent[e].vp].pos = c.ent[c.ent[e].vp].pos
       /\ DOMAIN s.range = DOMAIN c.range
  BY <1>1, <1>11, SyncGood
<1> HIDE DEF s
<1>14. Fits(s)
  <2>1. Short(s.fix) /\ DOMAIN s.range = DOMAIN Now.range
    BY <1>1, <1>2, <1>5, <1>7, <1>11, <1>13 DEF Fits
  <2> QED BY <1>2, <1>13, <2>1, FitsRange
<1>15. ASSUME Spare
       PROVE  Stands(Now, s)
  <2> SUFFICES ASSUME NEW e \in Placed(Now), Now.ent[e].locked
               PROVE  /\ e \in Placed(s) /\ Contents(s.ent[e]) = Contents(Now.ent[e])
                      /\ Now.ent[e].expr # "none" => Refers(Now, s, e)
    BY DEF Stands, Keeps, Points
  <2>1. e \in Placed(l) /\ l.ent[e] = Now.ent[e]
    BY <1>5, <1>6 DEF Used
  <2>2. e \in Placed(h) /\ h.ent[e] = Now.ent[e] /\ h.ent[e].locked
    BY <1>7, <2>1
  <2>3. h.tbl[h.ent[e].pos] = e /\ e # NULL /\ h.ent[e].pos \in Pos
    BY <1>7, <2>2 DEF Sound, Placed
  <2>4. h.ent[e].pos \notin U
    BY <2>2, <2>3 DEF U
  <2>5. Same(h, c, U)
    BY <1>1, <1>12, <1>15 DEF Stage
  <2>6. e \in Placed(c) /\ c.ent[e] = Now.ent[e]
    BY <2>2, <2>4, <2>5 DEF Same, Used
  <2>7. e \in Placed(s) /\ Contents(s.ent[e]) = Contents(Now.ent[e])
    BY <1>13, <2>6 DEF Used
  <2>8. ASSUME Now.ent[e].expr # "none"
        PROVE  Refers(Now, s, e)
    <3> DEFINE t == Now.ent[e].vp
    <3>1. t \in Placed(Now) /\ t \in Placed(l) /\ l.ent[t] = Now.ent[t]
      BY <1>2, <1>5, <1>6, <2>8 DEF Good, Alive, Used
    <3>2. t \in Used(h) /\ h.ent[t].pos = Now.ent[t].pos
      BY <1>17, <3>1 DEF Used
    <3>3. t \in Used(c) /\ c.ent[t].pos = Now.ent[t].pos
      BY <2>5, <3>2 DEF Same, Used, Saved
    <3>4. /\ t \in Placed(c) => s.ent[e].vp = t
          /\ s.ent[s.ent[e].vp].pos = c.ent[t].pos
      BY <1>13, <2>6, <2>8
    <3>5. t \in Placed(s) => t \in Placed(c)
      <4>1. Saved(s) = Saved(c) /\ Sound(s)
        BY <1>13 DEF Saved, Good
      <4>2. t \in Placed(s) => t \notin Saved(s)
        BY <4>1 DEF Sound, Placed
      <4> QED BY <3>3, <4>1, <4>2 DEF Used
    <3> QED BY <3>3, <3>4, <3>5 DEF Refers
  <2> QED BY <2>7, <2>8
<1>16. Inv' /\ (Stands(Now, s) => Stands(Now, Now'))
  BY <1>1, <1>13, <1>14, Stepped
<1> QED BY <1>15, <1>16



----------------------------------------------------------------------------
(* What every step keeps                                                   *)

(* The gates of what leaves references to ents that may be used again are  *)
(* closed.                                                                 *)
Guarded == Allowed \intersect {"closecol", "erasedb"} = {}

LEMMA Initially == Init => Inv
<1> SUFFICES ASSUME Init
             PROVE  Inv
  OBVIOUS
<1>2. Blank \in EntTypes /\ Blank.expr = "none"
  BY BlankEnt DEF Blank
<1>3. /\ tbl \in [Pos -> Ents \union {NULL}] /\ \A p \in Pos : tbl[p] = NULL
      /\ ent \in [Ents -> EntTypes] /\ \A e \in Ents : ent[e].expr = "none"
      /\ to_fix = <<>> /\ range = <<>>
  BY <1>2 DEF Init
<1>4. Now \in Sheets
  BY <1>3, NowFields DEF Now, Sheets
<1>5. Saved(Now) = {} /\ Placed(Now) = {}
  BY <1>3, NowFields DEF Saved, Placed, ToSet
<1>6. Good(Now)
  BY <1>3, <1>5, NowFields DEF Good, Sound, Alive, Used
<1>7. Fits(Now)
  BY <1>3, NowFields, SheetAssumption DEF Fits, Short
<1> QED BY <1>4, <1>6, <1>7 DEF Inv

LEMMA Stays ==
  ASSUME Inv, UNCHANGED vars
  PROVE  Inv' /\ Keeps(Now, Now') /\ Follows(Now, Now')
<1>1. Now' = Now
  BY DEF vars, Now
<1>2. Inv'
  BY <1>1 DEF Inv
<1>3. Keeps(Now, Now) /\ Follows(Now, Now)
  BY DEF Keeps, Follows, Refers, Inv, Good, Alive
<1> QED BY <1>1, <1>2, <1>3

LEMMA EditingStep ==
  ASSUME Inv, Editing
  PROVE  Inv' /\ (Spare => Stands(Now, Now'))
<1>1. ASSUME NEW p \in Pos, NEW n \in Data,
             let_num(p, n) \/ incr(p, n) \/ \E flushdir \in BOOLEAN : slet(p, n, flushdir)
      PROVE  Inv' /\ (Spare => Stands(Now, Now'))
  BY <1>1, LetNum, Incr, Slet
<1>2. ASSUME NEW p \in Pos, NEW q \in Pos,
             copycell(p, q) \/ \E vf \in Fixings, expr \in {"num", "str"} : let_expr(p, expr, q, vf)
      PROVE  Inv' /\ (Spare => Stands(Now, Now'))
  BY <1>2, CopyCell, LetExpr
<1>3. ASSUME NEW p \in Pos, NEW mode \in {"r", "c", "m"}, pullcells(mode, p)
      PROVE  Inv' /\ (Spare => Stands(Now, Now'))
  BY <1>3, PullCells
<1>4. ASSUME NEW a \in Areas,
             valueize_area(a) \/ \E byrows \in BOOLEAN, n \in [In[a] -> Data] : fill(a, byrows, n)
      PROVE  Inv' /\ (Spare => Stands(Now, Now'))
  BY <1>4, ValueizeArea, Fill
<1>5. ASSUME NEW a \in Areas, NEW b \in Areas, copy(a, b)
      PROVE  Inv' /\ (Spare => Stands(Now, Now'))
  BY <1>5, CopyArea
<1> QED BY <1>1, <1>2, <1>3, <1>4, <1>5 DEF Editing

(* Steps along an axis, of rows or of columns.                             *)
LEMMA LineStep ==
  ASSUME Inv, Guarded, NEW i, NEW n \in Nat,
         \/ i \in 0 .. MaxRows - 1 /\ (insertrow(i, n) \/ deleterow(i, n) \/ dup(1, i))
         \/ i \in 0 .. MaxCols - 1 /\ (opencol(i, n) \/ closecol(i, n) \/ dup(2, i))
  PROVE  Inv' /\ Keeps(Now, Now') /\ Follows(Now, Now')
<1>1. i \in Int
  OBVIOUS
<1>2. CASE insertrow(i, n)
  <2>1. Becomes(Open(Now, 1, i, n))
    BY <1>2 DEF insertrow
  <2> DEFINE axis == 1
  <2>2. axis \in {1, 2} /\ Becomes(Open(Now, axis, i, n))
    BY <2>1
  <2> HIDE DEF axis
  <2> QED BY <1>1, <2>2, Inserted
<1>3. CASE opencol(i, n)
  <2>1. Becomes(Open(Now, 2, i, n))
    BY <1>3 DEF opencol
  <2> DEFINE axis == 2
  <2>2. axis \in {1, 2} /\ Becomes(Open(Now, axis, i, n))
    BY <2>1
  <2> HIDE DEF axis
  <2> QED BY <1>1, <2>2, Inserted
<1>4. CASE deleterow(i, n)
  BY <1>1, <1>4, DeleteRow
<1>5. CASE closecol(i, n)
  BY <1>1, <1>5, CloseCol DEF Guarded
<1>6. CASE i \in 0 .. MaxRows - 1 /\ dup(1, i)
  <2> DEFINE axis == 1
  <2>1. axis \in {1, 2} /\ dup(axis, i) /\ i \in IF axis = 1 THEN 0 .. MaxRows - 1 ELSE 0 .. MaxCols - 1
    BY <1>6
  <2> HIDE DEF axis
  <2> QED BY <2>1, Dup
<1>7. CASE i \in 0 .. MaxCols - 1 /\ dup(2, i)
  <2> DEFINE axis == 2
  <2>1. axis \in {1, 2} /\ dup(axis, i) /\ i \in IF axis = 1 THEN 0 .. MaxRows - 1 ELSE 0 .. MaxCols - 1
    BY <1>7
  <2> HIDE DEF axis
  <2> QED BY <2>1, Dup
<1> QED BY <1>2, <1>3, <1>4, <1>5, <1>6, <1>7

(* Commands that erase or lock cells, or write beside them.                *)
LEMMA PlaceStep ==
  ASSUME Inv,
         \/ \E p \in Pos : v_name(p) \/ \E n : x(1, p, n) \/ x(2, p, n)
         \/ \E a \in Areas : eraser(a) \/ lock_cells(a) \/ unlock_cells(a) \/ \E t \in Data : add_range(a, t)
         \/ del_range
  PROVE  Inv' /\ (Spare => Keeps(Now, Now')) /\ Follows(Now, Now')
<1>1. ASSUME NEW p \in Pos, NEW n, x(1, p, n)
      PROVE  Inv' /\ (Spare => Keeps(Now, Now')) /\ Follows(Now, Now')
  <2> DEFINE axis == 1
  <2>1. axis \in {1, 2} /\ x(axis, p, n)
    BY <1>1
  <2> HIDE DEF axis
  <2> QED BY <2>1, XCommand
<1>2. ASSUME NEW p \in Pos, NEW n, x(2, p, n)
      PROVE  Inv' /\ (Spare => Keeps(Now, Now')) /\ Follows(Now, Now')
  <2> DEFINE axis == 2
  <2>1. axis \in {1, 2} /\ x(axis, p, n)
    BY <1>2
  <2> HIDE DEF axis
  <2> QED BY <2>1, XCommand
<1>3. ASSUME NEW p \in Pos, v_name(p)
      PROVE  Inv' /\ (Spare => Keeps(Now, Now')) /\ Follows(Now, Now')
  BY <1>3, VName
<1>4. ASSUME NEW a \in Areas, eraser(a) \/ \E t \in Data : add_range(a, t)
      PROVE  Inv' /\ (Spare => Keeps(Now, Now')) /\ Follows(Now, Now')
  BY <1>4, Eraser, AddRange
<1>5. ASSUME NEW a \in Areas, lock_cells(a) \/ unlock_cells(a)
      PROVE  Inv' /\ (Spare => Keeps(Now, Now')) /\ Follows(Now, Now')
  <2>1. \E on \in BOOLEAN : lock(a, on)
    BY <1>5 DEF lock_cells, unlock_cells
  <2> QED BY <2>1, LockCells
<1>6. CASE del_range
  BY <1>6, DelRange
<1> QED BY <1>1, <1>2, <1>3, <1>4, <1>5, <1>6

(* Every step keeps the invariant; what is locked is kept unless a file is *)
(* read, and formulas follow unless something is edited.                   *)
LEMMA Step ==
  ASSUME Inv, Guarded, [Next]_vars
  PROVE  /\ Inv'
         /\ Spare => Stands(Now, Now') \/ erasedb
         /\ Follows(Now, Now') \/ Editing
<1>1. CASE UNCHANGED vars
  BY <1>1, Stays, FollowsPoints
<1>2. CASE Editing
  BY <1>2, EditingStep
<1>3. CASE erasedb
  BY <1>3, EraseDb DEF Guarded
<1>4. ASSUME \/ \E p \in Pos : v_name(p) \/ \E n : x(1, p, n) \/ x(2, p, n)
             \/ \E a \in Areas : eraser(a) \/ lock_cells(a) \/ unlock_cells(a) \/ \E t \in Data : add_range(a, t)
             \/ del_range
      PROVE  Inv' /\ (Spare => Keeps(Now, Now')) /\ Follows(Now, Now')
  BY <1>4, PlaceStep
<1>5. ASSUME NEW i, NEW n \in 1 .. MaxArea,
             \/ i \in 0 .. MaxRows - 1 /\ (insertrow(i, n) \/ deleterow(i, n))
             \/ i \in 0 .. MaxCols - 1 /\ (opencol(i, n) \/ closecol(i, n))
      PROVE  Inv' /\ Keeps(Now, Now') /\ Follows(Now, Now')
  <2>1. n \in Nat
    BY SheetAssumption
  <2> QED BY <1>5, <2>1, LineStep
<1>6. ASSUME NEW i, (i \in 0 .. MaxRows - 1 /\ dup(1, i)) \/ (i \in 0 .. MaxCols - 1 /\ dup(2, i))
      PROVE  Inv' /\ Keeps(Now, Now') /\ Follows(Now, Now')
  <2>1. 0 \in Nat
    OBVIOUS
  <2> QED BY <1>6, <2>1, LineStep
<1>14. Keeps(Now, Now') /\ Follows(Now, Now') => Stands(Now, Now')
  BY FollowsPoints
<1>7. CASE \E p \in Pos, n \in 1 .. MaxArea : x(1, p, n) \/ (n > 1 /\ x(2, p, n))
  BY <1>4, <1>7, <1>14
<1>8. CASE \E p \in Pos : v_name(p)
  BY <1>4, <1>8, <1>14
<1>9. CASE \E n \in 1 .. MaxArea :
             \/ \E i \in 0 .. MaxRows - 1 : insertrow(i, n) \/ deleterow(i, n)
             \/ \E i \in 0 .. MaxCols - 1 : opencol(i, n) \/ closecol(i, n)
  BY <1>5, <1>9, <1>14
<1>10. CASE (\E i \in 0 .. MaxRows - 1 : dup(1, i)) \/ \E i \in 0 .. MaxCols - 1 : dup(2, i)
  BY <1>6, <1>10, <1>14
<1>11. CASE \E a \in Areas : eraser(a) \/ lock_cells(a) \/ unlock_cells(a) \/ \E t \in Data \ {0} : add_range(a, t)
  BY <1>4, <1>11, <1>14
<1>12. CASE del_range
  BY <1>4, <1>12, <1>14
<1>13. CASE \E n \in [Evaluated -> Data] : EvalAll(n)
  BY <1>13, Evaluate, FollowsPoints
<1> QED BY <1>1, <1>2, <1>3, <1>7, <1>8, <1>9, <1>10, <1>11, <1>12, <1>13 DEF Next

LEMMA Invariance == ASSUME Guarded PROVE Spec => []Inv
<1>1. Inv /\ [Next]_vars => Inv'
  BY Step
<1> QED BY Initially, <1>1, PTL DEF Spec

\* Cells point to ents, ents to places and to ents, and at most MaxSaved deletions
\* wait in to_fix.
THEOREM TypeCorrect == ASSUME Guarded PROVE Spec => []TypeOK
<1>1. Inv => TypeOK
  <2> SUFFICES ASSUME Inv
               PROVE  TypeOK
    OBVIOUS
  <2>1. Now \in Sheets /\ Fits(Now)
    BY DEF Inv
  <2>2. /\ tbl \in [Pos -> Ents \union {NULL}] /\ ent \in [Ents -> EntTypes]
        /\ to_fix \in Seq(SUBSET Ents) /\ range \in Seq(Ents) /\ Len(to_fix) <= MaxSaved
    BY <2>1, NowFields DEF Sheets, Fits, Short
  <2>3. range = <<>> \/ range \in Ents \X Ents
    <3>1. CASE range = <<>>
      BY <3>1
    <3>2. CASE DOMAIN range = {1, 2}
      <4>1. Len(range) = 2
        <5>1. Len(range) \in Nat /\ DOMAIN range = 1 .. Len(range)
          BY <2>2
        <5>2. 2 \in 1 .. Len(range) /\ 3 \notin 1 .. Len(range)
          BY <3>2, <5>1
        <5> QED BY <5>1, <5>2
      <4>2. range = <<range[1], range[2]>> /\ range[1] \in Ents /\ range[2] \in Ents
        BY <2>2, <4>1
      <4> QED BY <4>2
    <3> QED BY <2>1, <3>1, <3>2, NowFields DEF Fits
  <2> QED BY <2>2, <2>3 DEF TypeOK, EntTypes
<1> QED BY <1>1, Invariance, PTL

\* No formula and no named range refers to a cell that has been deleted, and every
\* cell knows where it is; what has been deleted refers to nothing that may be in use
\* again, so that it can be pulled.
THEOREM ReferencesAlive == ASSUME Guarded PROVE Spec => []RefsAlive
<1>1. Inv => RefsAlive
  <2> SUFFICES ASSUME Inv
               PROVE  RefsAlive
    OBVIOUS
  <2>1. Now \in Sheets /\ Sound(Now) /\ Alive(Now)
    BY DEF Inv, Good
  <2>2. \A p \in Cells(Now) : ent[tbl[p]].pos = p /\ tbl[p] \notin Saved(Now)
    BY <2>1, NowFields DEF Cells, Sound
  <2>3. \A e \in Placed(Now) : ent[e].expr # "none" => ent[e].vp \in Placed(Now)
    BY <2>1, NowFields DEF Alive
  <2>4. \A e \in Saved(Now) : ent[e].expr # "none" => ent[e].vp \notin Free(Now)
    <3>1. \A e \in Saved(Now) : ent[e].expr # "none" => ent[e].vp \in Used(Now)
      BY <2>1, NowFields DEF Sound, Used
    <3> QED BY <3>1 DEF Used, Free
  <2>5. ToSet(range) \subseteq Placed(Now)
    BY <2>1, NowFields DEF Alive, ToSet
  <2> QED BY <2>2, <2>3, <2>4, <2>5 DEF RefsAlive
<1> QED BY <1>1, Invariance, PTL

\* A formula that is not edited refers to the same cell after a command, wherever rows
\* and columns have moved the two, or to the cell that takes its place.
THEOREM ReferencesKept == ASSUME Guarded PROVE Spec => RefsKept
<1>1. Inv /\ [Next]_vars =>
        [\/ \A e \in Formulas \intersect Formulas' : Kept(ent[e].vp, ent'[e].vp)
         \/ Editing]_vars
  <2> SUFFICES ASSUME Inv, [Next]_vars, ~Editing,
                      NEW e \in Formulas \intersect Formulas'
               PROVE  Kept(ent[e].vp, ent'[e].vp)
    OBVIOUS
  <2>1. Follows(Now, Now')
    BY Step
  <2>2. Now'.ent = ent' /\ Now.ent = ent /\ Placed(Now)' = Placed(Now')
    BY DEF Now, Placed
  <2>3. /\ e \in Placed(Now) /\ e \in Placed(Now') /\ ent[e].expr # "none" /\ ent'[e].expr # "none"
    BY <2>2 DEF Formulas
  <2> QED BY <2>1, <2>2, <2>3 DEF Follows, Refers, Kept
<1> QED BY <1>1, Invariance, PTL DEF Spec, RefsKept

\* No command changes the value, the label or the expression of a locked cell, nor
\* which cell the expression refers to, and none deletes it, except that a new file
\* replaces the sheet.
THEOREM LockedStay == ASSUME Allowed = {} PROVE Spec => LockedKept
<1>1. Inv /\ [Next]_vars =>
        [\/ \A e \in Placed(Now) : ent[e].locked =>
              /\ e \in Placed(Now)' /\ Contents(ent'[e]) = Contents(ent[e])
              /\ ent[e].expr # "none" => Kept(ent[e].vp, ent'[e].vp)
         \/ erasedb]_vars
  <2> SUFFICES ASSUME Inv, [Next]_vars, ~erasedb, NEW e \in Placed(Now), ent[e].locked
               PROVE  /\ e \in Placed(Now)' /\ Contents(ent'[e]) = Contents(ent[e])
                      /\ ent[e].expr # "none" => Kept(ent[e].vp, ent'[e].vp)
    OBVIOUS
  <2>1. Keeps(Now, Now') /\ Points(Now, Now')
    BY Step DEF Guarded, Spare, Stands
  <2>2. Now'.ent = ent' /\ Now.ent = ent /\ Placed(Now)' = Placed(Now')
    BY DEF Now, Placed
  <2>3. e \in Placed(Now)' /\ Contents(ent'[e]) = Contents(ent[e])
    BY <2>1, <2>2 DEF Keeps
  <2>4. ent[e].expr # "none" => Kept(ent[e].vp, ent'[e].vp)
    BY <2>1, <2>2 DEF Points, Refers, Kept
  <2> QED BY <2>3, <2>4
<1>2. Guarded
  BY DEF Guarded
<1> QED BY <1>1, <1>2, Invariance, PTL DEF Spec, LockedKept
=============================================================================
