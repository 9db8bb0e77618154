--------------------------- MODULE AshVarsProofs ---------------------------
(***************************************************************************)
(* What is proved about variables, for any number of variables, functions  *)
(* in one another and local variables: no text and no list of parameters   *)
(* is used after it has been freed, each has one owner, what commands see  *)
(* is what the dynamic scoping of Scopes allows, and job control follows   *)
(* the option letter.                                                      *)
(***************************************************************************)
EXTENDS AshVars, SequenceTheorems, FiniteSetTheorems, WellFoundedInduction, TLAPS

-----------------------------------------------------------------------------
(* The local variables in the order in which they were made: the i-th of     *)
(* the k-th function is <<k, i>>.                                            *)

Ages(s) == UNION {{k} \X (1 .. Len(s[k].localvars)) : k \in 1 .. Len(s)}

Item(s, a) == s[a[1]].localvars[Len(s[a[1]].localvars) + 1 - a[2]]

Log(s) == [a \in Ages(s) |-> Item(s, a)]

Before(a, b) == a[1] < b[1] \/ (a[1] = b[1] /\ a[2] < b[2])

Earlier(f, a) == {b \in DOMAIN f : Before(b, a)}

\* lv keeps the text that v had.
Copy(lv, v) == lv.var = v /\ ~lv.created

-----------------------------------------------------------------------------
(* The invariant *)

\* e can be the state of v when the local variables at A of f have been made:
\* what it owns no copy has, and what it does not own one of them owns.
Suits(e, v, f, A) ==
    /\ e.here \/ e = Absent
    /\ \A a \in A : f[a].var = v => e.here /\ e.strfixed
    /\ ~e.textfixed => \A a \in A : Copy(f[a], v) => f[a].was.text # e.text
    /\ \A a \in A : Copy(f[a], v) => (f[a].was.readonly => e.readonly)
    /\ \A a \in A : f[a].var = v /\ f[a].created => ~e.readonly
    /\ e.textfixed /\ e.text # 0 /\ ~e.readonly =>
         \E a \in A : Copy(f[a], v) /\ f[a].was.text = e.text /\ ~f[a].was.textfixed

\* What a local variable has kept suited those made before it.
Linked(f, a) ==
    LET v == f[a].var
    IN  IF f[a].created
        THEN \A b \in Earlier(f, a) : f[b].var # v
        ELSE /\ f[a].was.here /\ (f[a].was.unset => f[a].was.strfixed)
             /\ Suits(f[a].was, v, f, Earlier(f, a))

Owned(tab, f) ==
    /\ \A v \in Vars : Suits(tab[v], v, f, DOMAIN f)
    /\ \A a \in DOMAIN f : f[a].var # "-" => Linked(f, a)

\* Lists of parameters have one owner each, but for the time between the two steps
\* in which the handler of a function restores them and leaves it.
ParamsOwned ==
    /\ pc = "unwind" => stack # <<>> /\ shellparam = Last(stack).saveparam
    /\ pc \in {"run", "return"} /\ shellparam.malloc # 0 =>
         \A k \in DOMAIN stack : stack[k].saveparam.malloc # shellparam.malloc
    /\ \A j, k \in DOMAIN stack :
         j # k /\ stack[j].saveparam.malloc # 0 => stack[j].saveparam.malloc # stack[k].saveparam.malloc

Var_t ==
    [here : BOOLEAN, text : Nat, val : Values, exported : BOOLEAN, readonly : BOOLEAN,
     unset : BOOLEAN, strfixed : BOOLEAN, textfixed : BOOLEAN]

Local_t ==
    [var : Vars, created : BOOLEAN, was : Var_t]
        \cup [var : {"-"}, created : {FALSE}, was : SUBSET Options]

Params_t == [malloc : Nat, args : Args]

Frame == [saveparam : Params_t, localvars : Seq(Local_t)]

Typed ==
    /\ vartab \in [Vars -> Var_t]
    /\ shellparam \in Params_t
    /\ optval \subseteq Options /\ jobctl \in BOOLEAN
    /\ stack \in Seq(Frame) /\ Len(stack) <= MaxDepth
    /\ pc \in {"run", "return", "unwind"}
    /\ pc = "return" => stack # <<>>

VarsInv == Typed /\ freed = {} /\ ParamsOwned /\ Owned(vartab, Log(stack))

-----------------------------------------------------------------------------
(* Numbers for new blocks *)

LEMMA HasMin == \A T : T \subseteq Nat /\ T # {} => \E x \in T : \A y \in T : x <= y
<1> DEFINE R == OpToRel(<, Nat)
<1>1. \A T : T \subseteq Nat /\ T # {} => \E x \in T : \A y \in T : ~ (<<y, x>> \in R)
  <2>1. IsWellFoundedOn(R, Nat)
    BY NatLessThanWellFounded
  <2> HIDE DEF R
  <2> QED
    BY <2>1, WFMin
<1>2. \A x, y \in Nat : <<y, x>> \in R <=> y < x
  BY DEF OpToRel
<1> HIDE DEF R
<1> SUFFICES ASSUME NEW T, T \subseteq Nat, T # {} PROVE \E x \in T : \A y \in T : x <= y
  OBVIOUS
<1>3. PICK x \in T : \A y \in T : ~ (<<y, x>> \in R)
  BY <1>1
<1>4. ASSUME NEW y \in T PROVE x <= y
  <2>1. x \in Nat /\ y \in Nat
    OBVIOUS
  <2>2. ~(y < x)
    BY <1>2, <1>3, <2>1
  <2> QED
    BY <2>1, <2>2
<1> QED
  BY <1>4

LEMMA MinFacts ==
  ASSUME NEW T, T \subseteq Nat, T # {}
  PROVE  Min(T) \in T /\ \A y \in T : Min(T) <= y
BY HasMin DEF Min

\* A new block is none of those in use.
LEMMA LowestFacts ==
  ASSUME NEW U, IsFiniteSet(U)
  PROVE  Lowest(U) \in Nat \ {0} /\ Lowest(U) \notin U
<1> DEFINE n == Cardinality(U)
           I == 1 .. n + 1
<1>1. n \in Nat
  BY FS_CardinalityType
<1>2. IsFiniteSet(I) /\ Cardinality(I) = n + 1
  <2>1. Cardinality(I) = IF 1 > n + 1 THEN 0 ELSE n + 1 - 1 + 1
    BY <1>1, FS_Interval
  <2> QED
    BY <1>1, <2>1, FS_Interval
<1>3. I \ U # {}
  <2> SUFFICES ASSUME I \ U = {} PROVE FALSE
    OBVIOUS
  <2>1. I \in SUBSET U
    OBVIOUS
  <2> HIDE DEF I
  <2>2. Cardinality(I) <= n
    BY <2>1, FS_Subset
  <2> QED
    BY <1>1, <1>2, <2>2
<1>4. \A x \in I \ U : x \in Nat \ {0} /\ x \notin U
  BY <1>1
<1>5. I \ U \subseteq Nat
  BY <1>4
<1>6. Min(I \ U) \in I \ U
  <2> HIDE DEF I
  <2> QED
    BY <1>3, <1>5, MinFacts
<1> QED
  BY <1>4, <1>6 DEF Lowest

-----------------------------------------------------------------------------
(* The local variables of a stack *)

LEMMA FrameFacts ==
  ASSUME NEW s \in Seq(Frame), NEW k \in 1 .. Len(s)
  PROVE  /\ Len(s) \in Nat /\ DOMAIN s = 1 .. Len(s)
         /\ s[k] \in Frame /\ s[k].saveparam \in Params_t /\ s[k].localvars \in Seq(Local_t)
         /\ Len(s[k].localvars) \in Nat /\ DOMAIN s[k].localvars = 1 .. Len(s[k].localvars)
<1>1. Len(s) \in Nat /\ DOMAIN s = 1 .. Len(s) /\ s[k] \in Frame
  BY LenProperties, ElementOfSeq
<1>2. s[k].saveparam \in Params_t /\ s[k].localvars \in Seq(Local_t)
  BY <1>1 DEF Frame
<1> QED
  BY <1>1, <1>2, LenProperties

LEMMA AgeFacts ==
  ASSUME NEW s \in Seq(Frame), NEW a
  PROVE  a \in Ages(s) <=> /\ a = <<a[1], a[2]>>
                           /\ a[1] \in 1 .. Len(s)
                           /\ a[2] \in 1 .. Len(s[a[1]].localvars)
BY DEF Ages

LEMMA ItemFacts ==
  ASSUME NEW s \in Seq(Frame), NEW a \in Ages(s)
  PROVE  /\ a[1] \in Nat /\ a[2] \in Nat
         /\ Item(s, a) \in Local_t /\ Log(s)[a] = Item(s, a)
<1>1. a[1] \in 1 .. Len(s) /\ a[2] \in 1 .. Len(s[a[1]].localvars)
  BY AgeFacts
<1>2. s[a[1]].localvars \in Seq(Local_t) /\ Len(s[a[1]].localvars) \in Nat /\ Len(s) \in Nat
  BY <1>1, FrameFacts
<1>3. Len(s[a[1]].localvars) + 1 - a[2] \in 1 .. Len(s[a[1]].localvars)
  BY <1>1, <1>2
<1>4. Item(s, a) \in Local_t
  BY <1>2, <1>3, ElementOfSeq DEF Item
<1> QED
  BY <1>1, <1>2, <1>4 DEF Log

\* g is f with one more local variable, made after the others.
Grows(f, g, new, lv) ==
    /\ DOMAIN g = DOMAIN f \cup {new} /\ new \notin DOMAIN f
    /\ g[new] = lv
    /\ \A a \in DOMAIN f : g[a] = f[a] /\ Before(a, new) /\ ~Before(new, a)
    /\ ~Before(new, new)

LEMMA PushLog ==
  ASSUME NEW s \in Seq(Frame), s # <<>>, NEW lv \in Local_t,
         NEW t, t = [s EXCEPT ![Len(s)].localvars = <<lv>> \o @]
  PROVE  /\ t \in Seq(Frame) /\ Len(t) = Len(s)
         /\ Grows(Log(s), Log(t), <<Len(s), Len(s[Len(s)].localvars) + 1>>, lv)
<1> DEFINE n == Len(s)
           l == s[n].localvars
           m == Len(l)
           new == <<n, m + 1>>
           e == [s[n] EXCEPT !.localvars = <<lv>> \o l]
<1>1. n \in Nat /\ n # 0 /\ n \in 1 .. Len(s)
  BY EmptySeq
<1>2. s[n] \in Frame /\ l \in Seq(Local_t) /\ m \in Nat /\ DOMAIN s = 1 .. n
  BY <1>1, FrameFacts
<1>3. /\ <<lv>> \o l \in Seq(Local_t) /\ Len(<<lv>> \o l) = m + 1
      /\ (<<lv>> \o l)[1] = lv /\ \A i \in 1 .. m : (<<lv>> \o l)[i + 1] = l[i]
  <2>1. <<lv>> \in Seq(Local_t) /\ Len(<<lv>>) = 1 /\ <<lv>>[1] = lv
    OBVIOUS
  <2>2. /\ <<lv>> \o l \in Seq(Local_t) /\ Len(<<lv>> \o l) = 1 + m
        /\ \A i \in 1 .. 1 + m : (<<lv>> \o l)[i] = IF i <= 1 THEN <<lv>>[i] ELSE l[i - 1]
    BY <1>2, <2>1, ConcatProperties
  <2>3. \A i \in 1 .. m : (i + 1) - 1 = i /\ ~(i + 1 <= 1) /\ i + 1 \in 1 .. 1 + m
    BY <1>2
  <2> QED
    BY <1>2, <2>1, <2>2, <2>3
<1>4. e \in Frame /\ e.localvars = <<lv>> \o l /\ t = [s EXCEPT ![n] = e]
  BY <1>2, <1>3 DEF Frame
<1>5. /\ t \in Seq(Frame) /\ Len(t) = n
      /\ \A k \in 1 .. n : t[k] = IF k = n THEN e ELSE s[k]
  <2> HIDE DEF e
  <2>1. /\ [s EXCEPT ![n] = e] \in Seq(Frame) /\ Len([s EXCEPT ![n] = e]) = Len(s)
        /\ \A j \in 1 .. Len(s) : [s EXCEPT ![n] = e][j] = IF j = n THEN e ELSE s[j]
    <3>1. n \in 1 .. Len(s) /\ e \in Frame
      BY <1>1, <1>4
    <3> HIDE DEF n
    <3> QED
      BY <3>1, ExceptSeq
  <2> QED
    BY <1>4, <2>1
<1>6. \A k \in 1 .. n : Len(t[k].localvars) = IF k = n THEN m + 1 ELSE Len(s[k].localvars)
  BY <1>3, <1>4, <1>5
<1>7. \A a : a \in Ages(t) <=> a \in Ages(s) \/ a = new
  <2> TAKE a
  <2>1. a \in Ages(t) <=> /\ a = <<a[1], a[2]>> /\ a[1] \in 1 .. n
                          /\ a[2] \in 1 .. IF a[1] = n THEN m + 1 ELSE Len(s[a[1]].localvars)
    <3>1. a \in Ages(t) <=> /\ a = <<a[1], a[2]>> /\ a[1] \in 1 .. Len(t)
                            /\ a[2] \in 1 .. Len(t[a[1]].localvars)
      <4>1. \A u \in Seq(Frame) : a \in Ages(u) <=>
              a = <<a[1], a[2]>> /\ a[1] \in 1 .. Len(u) /\ a[2] \in 1 .. Len(u[a[1]].localvars)
        BY AgeFacts
      <4>2. t \in Seq(Frame)
        BY <1>5
      <4> QED
        BY <4>1, <4>2
    <3> HIDE DEF m, e, l
    <3> QED
      BY <1>5, <1>6, <3>1
  <2>2. a \in Ages(s) <=> /\ a = <<a[1], a[2]>> /\ a[1] \in 1 .. n
                          /\ a[2] \in 1 .. Len(s[a[1]].localvars)
    BY AgeFacts
  <2>3. new[1] = n /\ new[2] = m + 1
    OBVIOUS
  <2>4. CASE a[1] = n
    BY <1>1, <1>2, <2>1, <2>2, <2>3, <2>4
  <2>5. CASE a[1] # n
    BY <2>1, <2>2, <2>3, <2>5
  <2> QED
    BY <2>4, <2>5
<1>8. new \notin Ages(s)
  BY <1>2, AgeFacts
<1>9. Item(t, new) = lv
  BY <1>1, <1>2, <1>3, <1>4, <1>5, <1>6 DEF Item
<1>10. ASSUME NEW a \in Ages(s)
       PROVE  Item(t, a) = Item(s, a) /\ Before(a, new) /\ ~Before(new, a)
  <2>1. a[1] \in 1 .. n /\ a[2] \in 1 .. Len(s[a[1]].localvars)
    BY AgeFacts
  <2>2. CASE a[1] # n
    BY <1>5, <2>1, <2>2 DEF Item, Before
  <2>3. CASE a[1] = n
    <3>1. m + 1 - a[2] \in 1 .. m /\ (m + 1) + 1 - a[2] = (m + 1 - a[2]) + 1
      <4>1. a[2] \in 1 .. m /\ m \in Nat
        BY <1>2, <2>1, <2>3
      <4> HIDE DEF m
      <4>2. PICK b \in 1 .. m : b = a[2]
        BY <4>1
      <4>3. m + 1 - b \in 1 .. m /\ (m + 1) + 1 - b = (m + 1 - b) + 1
        BY <4>1
      <4> QED
        BY <4>2, <4>3
    <3>2. Item(s, a) = l[m + 1 - a[2]] /\ Item(t, a) = (<<lv>> \o l)[(m + 1) + 1 - a[2]]
      BY <1>1, <1>3, <1>4, <1>5, <1>6, <2>3 DEF Item
    <3>3. Item(t, a) = Item(s, a)
      BY <1>3, <3>1, <3>2
    <3> QED
      BY <1>2, <2>1, <2>3, <3>3 DEF Before
  <2> QED
    BY <2>2, <2>3
<1>11. ~Before(new, new)
  BY <1>1, <1>2 DEF Before
<1> HIDE DEF n, l, m, new, e
<1>12. DOMAIN Log(t) = DOMAIN Log(s) \cup {new} /\ new \notin DOMAIN Log(s)
  BY <1>7, <1>8 DEF Log
<1>13. Log(t)[new] = lv
  BY <1>7, <1>9 DEF Log
<1>14. \A a \in DOMAIN Log(s) : Log(t)[a] = Log(s)[a] /\ Before(a, new) /\ ~Before(new, a)
  BY <1>7, <1>10 DEF Log
<1>15. new = <<Len(s), Len(s[Len(s)].localvars) + 1>> /\ n = Len(s)
  BY DEF new, m, l, n
<1> QED
  BY <1>5, <1>11, <1>12, <1>13, <1>14, <1>15 DEF Grows

LEMMA PopLog ==
  ASSUME NEW s \in Seq(Frame), s # <<>>, s[Len(s)].localvars # <<>>,
         NEW t, t = [s EXCEPT ![Len(s)].localvars = Tail(@)]
  PROVE  /\ t \in Seq(Frame) /\ Len(t) = Len(s) /\ t # <<>>
         /\ \A k \in 1 .. Len(s) : t[k].saveparam = s[k].saveparam
         /\ Head(s[Len(s)].localvars) \in Local_t
         /\ \E new : Grows(Log(t), Log(s), new, Head(s[Len(s)].localvars))
<1> DEFINE n == Len(s)
           l == s[n].localvars
           e == [s[n] EXCEPT !.localvars = Tail(l)]
           lv == Head(l)
<1>1. n \in Nat /\ n # 0 /\ n \in 1 .. Len(s)
  BY EmptySeq
<1>2. s[n] \in Frame /\ l \in Seq(Local_t) /\ l # <<>> /\ DOMAIN s = 1 .. n
  BY <1>1, FrameFacts
<1>3. lv \in Local_t /\ Tail(l) \in Seq(Local_t) /\ <<lv>> \o Tail(l) = l
  <2>1. lv \in Local_t /\ Tail(l) \in Seq(Local_t) /\ Len(Tail(l)) = Len(l) - 1
        /\ (\A i \in 1 .. Len(Tail(l)) : Tail(l)[i] = l[i + 1]) /\ lv = l[1]
    <3> HIDE DEF l
    <3> QED
      BY <1>2, HeadTailProperties
  <2>2. Len(l) \in Nat /\ Len(l) # 0
    BY <1>2, EmptySeq
  <2> HIDE DEF l, lv
  <2>3. <<lv>> \in Seq(Local_t) /\ Len(<<lv>>) = 1 /\ <<lv>>[1] = lv
    BY <2>1
  <2>4. /\ <<lv>> \o Tail(l) \in Seq(Local_t) /\ Len(<<lv>> \o Tail(l)) = 1 + Len(Tail(l))
        /\ \A i \in 1 .. 1 + Len(Tail(l)) :
             (<<lv>> \o Tail(l))[i] = IF i <= 1 THEN <<lv>>[i] ELSE Tail(l)[i - 1]
    BY <2>1, <2>3, ConcatProperties
  <2>5. Len(<<lv>> \o Tail(l)) = Len(l) /\ 1 + Len(Tail(l)) = Len(l)
    BY <2>1, <2>2, <2>4
  <2>6. ASSUME NEW i \in 1 .. Len(l) PROVE (<<lv>> \o Tail(l))[i] = l[i]
    <3>1. CASE i = 1
      BY <2>1, <2>3, <2>4, <2>5, <3>1
    <3>2. CASE i # 1
      <4>1. i - 1 \in 1 .. Len(Tail(l)) /\ (i - 1) + 1 = i /\ ~(i <= 1)
        BY <2>1, <2>2, <3>2
      <4> QED
        BY <2>1, <2>4, <2>5, <4>1
    <3> QED
      BY <3>1, <3>2
  <2> QED
    BY <1>2, <2>1, <2>4, <2>5, <2>6, SeqEqual
<1>4. e \in Frame /\ e.localvars = Tail(l) /\ e.saveparam = s[n].saveparam
      /\ t = [s EXCEPT ![n] = e] /\ s[n] = [e EXCEPT !.localvars = l]
  BY <1>2, <1>3 DEF Frame
<1>5. /\ t \in Seq(Frame) /\ Len(t) = n
      /\ \A k \in 1 .. n : t[k] = IF k = n THEN e ELSE s[k]
  <2> HIDE DEF e
  <2>1. /\ [s EXCEPT ![n] = e] \in Seq(Frame) /\ Len([s EXCEPT ![n] = e]) = Len(s)
        /\ \A j \in 1 .. Len(s) : [s EXCEPT ![n] = e][j] = IF j = n THEN e ELSE s[j]
    <3>1. n \in 1 .. Len(s) /\ e \in Frame
      BY <1>1, <1>4
    <3> HIDE DEF n
    <3> QED
      BY <3>1, ExceptSeq
  <2> QED
    BY <1>4, <2>1
<1>6. t[n].localvars = Tail(l) /\ t[n] = e
  BY <1>1, <1>4, <1>5
<1>7. s = [t EXCEPT ![n].localvars = <<lv>> \o @]
  <2> DEFINE back == [e EXCEPT !.localvars = <<lv>> \o Tail(l)]
  <2>1. back = s[n]
    BY <1>3, <1>4
  <2>2. [t EXCEPT ![n].localvars = <<lv>> \o @] = [t EXCEPT ![n] = back]
    BY <1>1, <1>5, <1>6
  <2>3. DOMAIN t = 1 .. n /\ DOMAIN s = 1 .. n /\ s = [k \in 1 .. n |-> s[k]]
    BY <1>2, <1>5, LenProperties
  <2> HIDE DEF back
  <2>4. [t EXCEPT ![n] = back] = [k \in 1 .. n |-> s[k]]
    BY <1>5, <2>1, <2>3
  <2> QED
    BY <2>2, <2>3, <2>4
<1>8. t # <<>> /\ Len(t) = n
  <2>1. Len(t) # 0
    BY <1>1, <1>5
  <2> QED
    BY <1>5, <2>1, EmptySeq
<1>9. Grows(Log(t), Log(s), <<Len(t), Len(t[Len(t)].localvars) + 1>>, lv)
  <2>1. s = [t EXCEPT ![Len(t)].localvars = <<lv>> \o @]
    BY <1>5, <1>7
  <2> HIDE DEF lv, n, l, e
  <2> QED
    BY <1>3, <1>5, <1>8, <2>1, PushLog
<1>10. \A k \in 1 .. n : t[k].saveparam = s[k].saveparam
  BY <1>4, <1>5
<1> QED
  BY <1>3, <1>5, <1>8, <1>9, <1>10

LEMMA EnterLog ==
  ASSUME NEW s \in Seq(Frame), NEW f \in Frame, f.localvars = <<>>
  PROVE  /\ Append(s, f) \in Seq(Frame) /\ Len(Append(s, f)) = Len(s) + 1
         /\ \A k \in 1 .. Len(s) : Append(s, f)[k] = s[k]
         /\ Append(s, f)[Len(s) + 1] = f
         /\ Log(Append(s, f)) = Log(s)
<1> DEFINE t == Append(s, f)
<1>1. /\ t \in Seq(Frame) /\ Len(t) = Len(s) + 1
      /\ \A k \in 1 .. Len(s) : t[k] = s[k]
      /\ t[Len(s) + 1] = f /\ Len(s) \in Nat
  BY AppendProperties, LenProperties
<1> HIDE DEF t
<1>2. Len(t[Len(s) + 1].localvars) = 0
  BY <1>1
<1>3. \A a : a \in Ages(t) <=> a \in Ages(s)
  <2> TAKE a
  <2>1. a \in Ages(t) <=> /\ a = <<a[1], a[2]>> /\ a[1] \in 1 .. Len(t)
                          /\ a[2] \in 1 .. Len(t[a[1]].localvars)
    BY <1>1, AgeFacts
  <2>2. a \in Ages(s) <=> /\ a = <<a[1], a[2]>> /\ a[1] \in 1 .. Len(s)
                          /\ a[2] \in 1 .. Len(s[a[1]].localvars)
    BY AgeFacts
  <2>3. CASE a[1] = Len(s) + 1
    BY <1>1, <1>2, <2>1, <2>2, <2>3
  <2>4. CASE a[1] # Len(s) + 1
    <3>1. a[1] \in 1 .. Len(t) <=> a[1] \in 1 .. Len(s)
      BY <1>1, <2>4
    <3> QED
      BY <1>1, <2>1, <2>2, <3>1
  <2> QED
    BY <2>3, <2>4
<1>4. Ages(t) = Ages(s)
  BY <1>3
<1>5. \A a \in Ages(s) : Item(t, a) = Item(s, a)
  BY <1>1, AgeFacts DEF Item
<1>6. Log(t) = Log(s)
  BY <1>4, <1>5 DEF Log
<1> QED
  BY <1>1, <1>6 DEF t

LEMMA LeaveLog ==
  ASSUME NEW s \in Seq(Frame), s # <<>>
  PROVE  /\ Front(s) \in Seq(Frame) /\ Len(s) = Len(Front(s)) + 1 /\ Len(Front(s)) \in Nat
         /\ Last(s) = s[Len(s)] /\ Last(s) \in Frame
         /\ \A k \in 1 .. Len(Front(s)) : Front(s)[k] = s[k]
         /\ Last(s).localvars = <<>> => Log(Front(s)) = Log(s)
<1>1. PICK k \in Nat \ {0} : k = Len(s)
  BY EmptySeq
<1>2. /\ \A i \in 1 .. k : s[i] \in Frame
      /\ \A i \in 1 .. k - 1 : s[i] \in Frame
  BY <1>1, ElementOfSeq
<1>3. /\ SubSeq(s, 1, k - 1) \in Seq(Frame)
      /\ Len(SubSeq(s, 1, k - 1)) = IF 1 <= k - 1 THEN (k - 1) - 1 + 1 ELSE 0
      /\ \A i \in 1 .. (k - 1) - 1 + 1 : SubSeq(s, 1, k - 1)[i] = s[1 + i - 1]
  BY <1>2, SubSeqProperties
<1>4. Front(s) \in Seq(Frame) /\ Len(Front(s)) = k - 1 /\ \A i \in 1 .. k - 1 : Front(s)[i] = s[i]
  BY <1>1, <1>3 DEF Front
<1>5. Last(s) \in Frame /\ Last(s) = s[k]
  BY <1>1, <1>2 DEF Last
<1>6. ASSUME Last(s).localvars = <<>> PROVE Log(Front(s)) = Log(s)
  <2> DEFINE t == Append(Front(s), Last(s))
  <2>1. /\ t \in Seq(Frame) /\ Len(t) = Len(Front(s)) + 1
        /\ \A i \in 1 .. Len(Front(s)) : t[i] = Front(s)[i]
        /\ t[Len(Front(s)) + 1] = Last(s)
        /\ Log(t) = Log(Front(s))
    <3>1. Front(s) \in Seq(Frame) /\ Last(s) \in Frame
      BY <1>4, <1>5
    <3> HIDE DEF Frame
    <3> QED
      BY <1>6, <3>1, EnterLog
  <2> HIDE DEF t
  <2>2. Len(t) = k /\ \A i \in 1 .. k : t[i] = s[i]
    BY <1>4, <1>5, <2>1
  <2>3. t = s
    BY <1>1, <2>1, <2>2, SeqEqual
  <2> QED
    BY <2>1, <2>3
<1> QED
  BY <1>1, <1>4, <1>5, <1>6

-----------------------------------------------------------------------------
(* Ownership when a variable changes and when a local variable is made or    *)
(* restored                                                                  *)

LEMMA SuitsSame ==
  ASSUME NEW e, NEW v, NEW f, NEW g, NEW A, \A a \in A : g[a] = f[a]
  PROVE  Suits(e, v, g, A) <=> Suits(e, v, f, A)
BY DEF Suits

\* What one variable has kept does not matter to another.
LEMMA SuitsOther ==
  ASSUME NEW e, NEW v, NEW f, NEW g, NEW new, NEW lv, Grows(f, g, new, lv), lv.var # v
  PROVE  Suits(e, v, g, DOMAIN g) <=> Suits(e, v, f, DOMAIN f)
<1>1. DOMAIN g = DOMAIN f \cup {new} /\ g[new] = lv /\ \A a \in DOMAIN f : g[a] = f[a]
  BY DEF Grows
<1>2. Suits(e, v, g, DOMAIN g) <=> Suits(e, v, g, DOMAIN f)
  BY <1>1 DEF Suits, Copy
<1>3. Suits(e, v, g, DOMAIN f) <=> Suits(e, v, f, DOMAIN f)
  BY <1>1, SuitsSame
<1> QED
  BY <1>2, <1>3

LEMMA EarlierFacts ==
  ASSUME NEW f, NEW g, NEW new, NEW lv, Grows(f, g, new, lv)
  PROVE  /\ Earlier(g, new) = DOMAIN f
         /\ \A a \in DOMAIN f : Earlier(g, a) = Earlier(f, a)
<1>1. DOMAIN g = DOMAIN f \cup {new}
      /\ (\A a \in DOMAIN f : Before(a, new) /\ ~Before(new, a)) /\ ~Before(new, new)
  BY DEF Grows
<1>2. Earlier(g, new) = DOMAIN f
  BY <1>1 DEF Earlier
<1>3. ASSUME NEW a \in DOMAIN f PROVE Earlier(g, a) = Earlier(f, a)
  BY <1>1, <1>3 DEF Earlier
<1> QED
  BY <1>2, <1>3

LEMMA LinkedSame ==
  ASSUME NEW f, NEW g, NEW new, NEW lv, Grows(f, g, new, lv), NEW a \in DOMAIN f
  PROVE  Linked(g, a) <=> Linked(f, a)
<1>1. g[a] = f[a] /\ \A b \in Earlier(f, a) : g[b] = f[b]
  BY DEF Grows, Earlier
<1>2. Earlier(g, a) = Earlier(f, a)
  BY EarlierFacts
<1>3. Suits(f[a].was, f[a].var, g, Earlier(f, a)) <=> Suits(f[a].was, f[a].var, f, Earlier(f, a))
  BY <1>1, SuitsSame
<1> QED
  BY <1>1, <1>2, <1>3 DEF Linked

LEMMA OwnedUpdate ==
  ASSUME NEW f, NEW tab \in [Vars -> Var_t], Owned(tab, f), NEW v \in Vars, NEW e,
         Suits(e, v, f, DOMAIN f)
  PROVE  Owned([tab EXCEPT ![v] = e], f)
<1>1. \A w \in Vars : [tab EXCEPT ![v] = e][w] = IF w = v THEN e ELSE tab[w]
  OBVIOUS
<1> QED
  BY <1>1 DEF Owned

LEMMA OwnedPush ==
  ASSUME NEW f, NEW g, NEW new, NEW lv, Grows(f, g, new, lv),
         NEW tab \in [Vars -> Var_t], Owned(tab, f), lv.var \in Vars, NEW e,
         Suits(e, lv.var, g, DOMAIN g), Linked(g, new)
  PROVE  Owned([tab EXCEPT ![lv.var] = e], g)
<1>1. \A w \in Vars : [tab EXCEPT ![lv.var] = e][w] = IF w = lv.var THEN e ELSE tab[w]
  OBVIOUS
<1>2. ASSUME NEW w \in Vars PROVE Suits([tab EXCEPT ![lv.var] = e][w], w, g, DOMAIN g)
  <2>1. CASE w = lv.var
    BY <1>1, <2>1
  <2>2. CASE w # lv.var
    <3>1. Suits(tab[w], w, f, DOMAIN f)
      BY DEF Owned
    <3>2. Suits(tab[w], w, g, DOMAIN g)
      BY <2>2, <3>1, SuitsOther
    <3> QED
      BY <1>1, <2>2, <3>2
  <2> QED
    BY <2>1, <2>2
<1>3. ASSUME NEW a \in DOMAIN g, g[a].var # "-" PROVE Linked(g, a)
  <2>1. CASE a = new
    BY <2>1
  <2>2. CASE a # new
    <3>1. a \in DOMAIN f /\ g[a] = f[a]
      BY <2>2 DEF Grows
    <3>2. Linked(f, a)
      BY <1>3, <3>1 DEF Owned
    <3> QED
      BY <3>1, <3>2, LinkedSame
  <2> QED
    BY <2>1, <2>2
<1> QED
  BY <1>2, <1>3 DEF Owned

LEMMA OwnedPop ==
  ASSUME NEW f, NEW g, NEW new, NEW lv, Grows(f, g, new, lv),
         NEW tab \in [Vars -> Var_t], Owned(tab, g), lv.var \in Vars, NEW e,
         Suits(e, lv.var, f, DOMAIN f)
  PROVE  Owned([tab EXCEPT ![lv.var] = e], f)
<1>1. \A w \in Vars : [tab EXCEPT ![lv.var] = e][w] = IF w = lv.var THEN e ELSE tab[w]
  OBVIOUS
<1>2. ASSUME NEW w \in Vars PROVE Suits([tab EXCEPT ![lv.var] = e][w], w, f, DOMAIN f)
  <2>1. CASE w = lv.var
    BY <1>1, <2>1
  <2>2. CASE w # lv.var
    <3>1. Suits(tab[w], w, g, DOMAIN g)
      BY DEF Owned
    <3>2. Suits(tab[w], w, f, DOMAIN f)
      BY <2>2, <3>1, SuitsOther
    <3> QED
      BY <1>1, <2>2, <3>2
  <2> QED
    BY <2>1, <2>2
<1>3. ASSUME NEW a \in DOMAIN f, f[a].var # "-" PROVE Linked(f, a)
  <2>1. a \in DOMAIN g /\ g[a] = f[a]
    BY DEF Grows
  <2>2. Linked(g, a)
    BY <1>3, <2>1 DEF Owned
  <2> QED
    BY <2>2, LinkedSame
<1> QED
  BY <1>2, <1>3 DEF Owned

\* local -
LEMMA OwnedOptions ==
  ASSUME NEW f, NEW g, NEW new, NEW lv, Grows(f, g, new, lv), lv.var = "-", NEW tab
  PROVE  Owned(tab, f) <=> Owned(tab, g)
<1>1. \A w \in Vars : Suits(tab[w], w, g, DOMAIN g) <=> Suits(tab[w], w, f, DOMAIN f)
  BY SuitsOther, VarsAssumption
<1>2. DOMAIN g = DOMAIN f \cup {new} /\ g[new] = lv /\ \A a \in DOMAIN f : g[a] = f[a]
  BY DEF Grows
<1>3. \A a \in DOMAIN f : Linked(g, a) <=> Linked(f, a)
  BY LinkedSame
<1>4. (\A a \in DOMAIN g : g[a].var # "-" => Linked(g, a))
        <=> (\A a \in DOMAIN f : f[a].var # "-" => Linked(f, a))
  BY <1>2, <1>3
<1> QED
  BY <1>1, <1>4 DEF Owned

-----------------------------------------------------------------------------
(* What the steps make of a variable                                         *)

\* The record of a variable.
Var_r(h, n, x, ex, r, u, s, t) ==
    [here |-> h, text |-> n, val |-> x, exported |-> ex, readonly |-> r, unset |-> u,
     strfixed |-> s, textfixed |-> t]

LEMMA Var_rFacts ==
  ASSUME NEW h \in BOOLEAN, NEW n \in Nat, NEW x \in Values, NEW ex \in BOOLEAN, NEW r \in BOOLEAN,
         NEW u \in BOOLEAN, NEW s \in BOOLEAN, NEW t \in BOOLEAN,
         NEW e, e = Var_r(h, n, x, ex, r, u, s, t)
  PROVE  /\ e \in Var_t /\ e.text = n
         /\ (e.here <=> h) /\ (e.readonly <=> r) /\ (e.unset <=> u)
         /\ (e.strfixed <=> s) /\ (e.textfixed <=> t)
<1>1. e \in Var_t
  BY DEF Var_r, Var_t
<1>2. /\ e.text = n /\ e.here = h /\ e.readonly = r /\ e.unset = u
      /\ e.strfixed = s /\ e.textfixed = t
  BY DEF Var_r
<1> QED
  BY <1>1, <1>2, Zenon

LEMMA VarFields ==
  ASSUME NEW e \in Var_t
  PROVE  /\ e.here \in BOOLEAN /\ e.text \in Nat /\ e.val \in Values /\ e.exported \in BOOLEAN
         /\ e.readonly \in BOOLEAN /\ e.unset \in BOOLEAN /\ e.strfixed \in BOOLEAN
         /\ e.textfixed \in BOOLEAN
         /\ e = Var_r(e.here, e.text, e.val, e.exported, e.readonly, e.unset, e.strfixed, e.textfixed)
BY DEF Var_t, Var_r

LEMMA EmptyIs == Empty \in Values /\ \A v \in Vars : Default[v] # Unset => Default[v] \in Values
BY VarsAssumption

LEMMA AbsentIs ==
  /\ Absent \in Var_t /\ Absent.text = 0 /\ ~Absent.here /\ ~Absent.readonly
  /\ ~Absent.strfixed /\ ~Absent.textfixed /\ ~Absent.unset
  /\ Absent = Var_r(FALSE, 0, Empty, FALSE, FALSE, FALSE, FALSE, FALSE)
<1>1. PICK f \in BOOLEAN : f = FALSE
  OBVIOUS
<1>2. Absent = Var_r(f, 0, Empty, f, f, f, f, f)
  BY <1>1 DEF Absent, Var_r
<1>3. /\ Absent \in Var_t /\ Absent.text = 0
      /\ (Absent.here <=> f) /\ (Absent.readonly <=> f) /\ (Absent.unset <=> f)
      /\ (Absent.strfixed <=> f) /\ (Absent.textfixed <=> f)
  <2>1. 0 \in Nat
    OBVIOUS
  <2> HIDE DEF Absent
  <2> QED
    BY <1>2, <2>1, EmptyIs, Var_rFacts
<1> QED
  BY <1>1, <1>2, <1>3, Zenon

LEMMA InitvarIs ==
  ASSUME NEW v \in Vars
  PROVE  /\ initvar(v) \in Var_t /\ initvar(v).text = 0 /\ initvar(v).here /\ ~initvar(v).readonly
         /\ initvar(v).strfixed /\ initvar(v).textfixed
<1> DEFINE x == IF Default[v] = Unset THEN Empty ELSE Default[v]
           e == initvar(v)
<1>1. PICK t \in BOOLEAN : t = TRUE
  OBVIOUS
<1>3. PICK u \in BOOLEAN : u = (Default[v] = Unset)
  BY Zenon
<1>4. e = [Absent EXCEPT !.here = t, !.val = x, !.unset = u, !.strfixed = t, !.textfixed = t]
  BY <1>1, <1>3, Zenon DEF initvar
<1>5. x \in Values
  BY EmptyIs
<1> HIDE DEF e, x
<1>6. PICK y \in Var_t : y = Absent
  BY AbsentIs
<1>7. e = [y EXCEPT !.here = t, !.val = x, !.unset = u, !.strfixed = t, !.textfixed = t]
  BY <1>4, <1>6
<1>8. e \in Var_t
  BY <1>5, <1>7 DEF Var_t
<1>9. e.text = y.text /\ (e.readonly <=> y.readonly)
  BY <1>7 DEF Var_t
<1>10. (e.here <=> t) /\ (e.strfixed <=> t) /\ (e.textfixed <=> t)
  BY <1>7 DEF Var_t
<1>11. e.text = 0 /\ ~e.readonly
  BY <1>6, <1>9, AbsentIs
<1> QED
  BY <1>1, <1>8, <1>10, <1>11, Zenon DEF e

LEMMA ImportedIs ==
  ASSUME NEW v \in Vars, NEW x \in Values
  PROVE  /\ Imported(v, x) \in Var_t /\ Imported(v, x).text = 0 /\ Imported(v, x).here
         /\ ~Imported(v, x).readonly /\ Imported(v, x).textfixed
<1> DEFINE e == Imported(v, x)
<1>1. PICK t \in BOOLEAN : t = TRUE
  OBVIOUS
<1>2. \A u \in BOOLEAN, y \in Var_t :
        LET z == [y EXCEPT !.here = t, !.val = x, !.exported = t, !.strfixed = u, !.textfixed = t]
        IN  /\ z \in Var_t /\ z.text = y.text /\ (z.here <=> t) /\ (z.readonly <=> y.readonly)
            /\ (z.textfixed <=> t)
  BY DEF Var_t
<1>3. PICK u \in BOOLEAN : u = (v \in Static)
  <2>1. (v \in Static) \in BOOLEAN
    OBVIOUS
  <2> WITNESS (v \in Static) \in BOOLEAN
  <2> QED
    OBVIOUS
<1>4. e = [Absent EXCEPT !.here = t, !.val = x, !.exported = t, !.strfixed = u, !.textfixed = t]
  BY <1>1, <1>3, Zenon DEF Imported
<1> HIDE DEF e
<1>6. /\ e \in Var_t /\ e.text = 0 /\ (e.here <=> t) /\ ~e.readonly /\ (e.textfixed <=> t)
  BY <1>2, <1>4, AbsentIs
<1> QED
  BY <1>1, <1>6, Zenon DEF e

LEMMA AssignedIs ==
  ASSUME NEW v \in Vars, NEW x \in Values, vartab[v] \in Var_t, Fresh(v) \in Nat
  PROVE  /\ Assigned(v, x) \in Var_t /\ Assigned(v, x).text = Fresh(v) /\ Assigned(v, x).here
         /\ ~Assigned(v, x).textfixed /\ ~Assigned(v, x).unset
         /\ (Assigned(v, x).readonly <=> vartab[v].readonly)
         /\ (Assigned(v, x).strfixed <=> vartab[v].strfixed)
<1> DEFINE e == Assigned(v, x)
           d == vartab[v]
<1>1. PICK f \in BOOLEAN : f = FALSE
  OBVIOUS
<1>2. PICK t \in BOOLEAN : t = TRUE
  OBVIOUS
<1>3. PICK n \in Nat : n = Fresh(v)
  OBVIOUS
<1>4. e = [d EXCEPT !.here = t, !.text = n, !.val = x, !.unset = f, !.textfixed = f]
  BY <1>1, <1>2, <1>3 DEF Assigned
<1>5. d \in Var_t
  OBVIOUS
<1>6. \A y \in Var_t :
        LET z == [y EXCEPT !.here = t, !.text = n, !.val = x, !.unset = f, !.textfixed = f]
        IN  /\ z \in Var_t /\ z.text = n /\ (z.here <=> t) /\ (z.readonly <=> y.readonly)
            /\ (z.unset <=> f) /\ (z.strfixed <=> y.strfixed) /\ (z.textfixed <=> f)
  BY DEF Var_t
<1>7. /\ e \in Var_t /\ e.text = n
      /\ (e.here <=> t) /\ (e.readonly <=> d.readonly) /\ (e.unset <=> f)
      /\ (e.strfixed <=> d.strfixed) /\ (e.textfixed <=> f)
  <2> HIDE DEF d, e
  <2> QED
    BY <1>4, <1>5, <1>6
<1> QED
  BY <1>1, <1>2, <1>3, <1>7, Zenon

LEMMA NewUnsetIs ==
  ASSUME NEW v \in Vars, Fresh(v) \in Nat
  PROVE  /\ NewUnset(v) \in Var_t /\ NewUnset(v).text = Fresh(v) /\ NewUnset(v).here
         /\ ~NewUnset(v).textfixed /\ ~NewUnset(v).readonly /\ ~NewUnset(v).strfixed
<1> DEFINE e == NewUnset(v)
<1>1. PICK t \in BOOLEAN : t = TRUE
  OBVIOUS
<1>2. PICK n \in Nat : n = Fresh(v)
  OBVIOUS
<1>3. e = [Absent EXCEPT !.here = t, !.text = n, !.unset = t]
  BY <1>1, <1>2 DEF NewUnset
<1>4. \A y \in Var_t :
        LET z == [y EXCEPT !.here = t, !.text = n, !.unset = t]
        IN  /\ z \in Var_t /\ z.text = n /\ (z.here <=> t) /\ (z.readonly <=> y.readonly)
            /\ (z.strfixed <=> y.strfixed) /\ (z.textfixed <=> y.textfixed)
  BY DEF Var_t
<1> HIDE DEF e
<1>5. /\ e \in Var_t /\ e.text = n /\ (e.here <=> t)
      /\ ~e.readonly /\ ~e.strfixed /\ ~e.textfixed
  BY <1>3, <1>4, AbsentIs
<1> QED
  BY <1>1, <1>2, <1>5, Zenon DEF e

\* What of d an owner looks at is as in e.
Like(d, e) ==
    /\ d.text = e.text /\ (d.here <=> e.here) /\ (d.readonly <=> e.readonly)
    /\ (d.strfixed <=> e.strfixed) /\ (d.textfixed <=> e.textfixed)

LEMMA ExportedIs ==
  ASSUME NEW e \in Var_t, NEW b \in BOOLEAN
  PROVE  [e EXCEPT !.exported = b] \in Var_t /\ Like([e EXCEPT !.exported = b], e)
BY DEF Var_t, Like

LEMMA HereIs ==
  ASSUME NEW e \in Var_t, NEW b \in BOOLEAN, e.here <=> b
  PROVE  [e EXCEPT !.here = b] = e
<1>1. e.here = b
  BY VarFields
<1> QED
  BY <1>1 DEF Var_t

LEMMA ReadonlyIs ==
  ASSUME NEW e \in Var_t
  PROVE  LET d == [e EXCEPT !.readonly = TRUE]
         IN  /\ d \in Var_t /\ d.text = e.text /\ (d.here <=> e.here) /\ d.readonly
             /\ (d.unset <=> e.unset) /\ (d.strfixed <=> e.strfixed) /\ (d.textfixed <=> e.textfixed)
<1> DEFINE d == [e EXCEPT !.readonly = TRUE]
<1>1. PICK t \in BOOLEAN : t = TRUE
  OBVIOUS
<1>2. d = [e EXCEPT !.readonly = t]
  BY <1>1
<1>3. \A y \in Var_t : LET z == [y EXCEPT !.readonly = t]
        IN /\ z \in Var_t /\ z.text = y.text /\ (z.here <=> y.here) /\ (z.readonly <=> t)
           /\ (z.unset <=> y.unset) /\ (z.strfixed <=> y.strfixed) /\ (z.textfixed <=> y.textfixed)
  BY DEF Var_t
<1>4. /\ d \in Var_t /\ d.text = e.text /\ (d.here <=> e.here) /\ (d.readonly <=> t)
      /\ (d.unset <=> e.unset) /\ (d.strfixed <=> e.strfixed) /\ (d.textfixed <=> e.textfixed)
  <2> HIDE DEF d
  <2> QED
    BY <1>2, <1>3
<1> QED
  BY <1>1, <1>4, Zenon

LEMMA StrfixedIs ==
  ASSUME NEW e \in Var_t
  PROVE  LET d == [e EXCEPT !.strfixed = TRUE]
         IN  /\ d \in Var_t /\ d.text = e.text /\ (d.here <=> e.here) /\ d.strfixed
             /\ (d.unset <=> e.unset) /\ (d.readonly <=> e.readonly) /\ (d.textfixed <=> e.textfixed)
<1> DEFINE d == [e EXCEPT !.strfixed = TRUE]
<1>1. PICK t \in BOOLEAN : t = TRUE
  OBVIOUS
<1>2. d = [e EXCEPT !.strfixed = t]
  BY <1>1
<1>3. \A y \in Var_t : LET z == [y EXCEPT !.strfixed = t]
        IN /\ z \in Var_t /\ z.text = y.text /\ (z.here <=> y.here) /\ (z.strfixed <=> t)
           /\ (z.unset <=> y.unset) /\ (z.readonly <=> y.readonly) /\ (z.textfixed <=> y.textfixed)
  BY DEF Var_t
<1>4. /\ d \in Var_t /\ d.text = e.text /\ (d.here <=> e.here) /\ (d.strfixed <=> t)
      /\ (d.unset <=> e.unset) /\ (d.readonly <=> e.readonly) /\ (d.textfixed <=> e.textfixed)
  <2> HIDE DEF d
  <2> QED
    BY <1>2, <1>3
<1> QED
  BY <1>1, <1>4, Zenon

LEMMA KeptIs ==
  ASSUME NEW e \in Var_t
  PROVE  /\ Kept(e) \in Var_t /\ Kept(e).text = e.text /\ (Kept(e).here <=> e.here)
         /\ Kept(e).strfixed /\ Kept(e).textfixed
         /\ (Kept(e).unset <=> e.unset) /\ (Kept(e).readonly <=> e.readonly)
<1> DEFINE d == Kept(e)
<1>1. PICK t \in BOOLEAN : t = TRUE
  OBVIOUS
<1>2. d = [e EXCEPT !.strfixed = t, !.textfixed = t]
  BY <1>1 DEF Kept
<1>3. \A y \in Var_t : LET z == [y EXCEPT !.strfixed = t, !.textfixed = t]
        IN /\ z \in Var_t /\ z.text = y.text /\ (z.here <=> y.here) /\ (z.strfixed <=> t)
           /\ (z.unset <=> y.unset) /\ (z.readonly <=> y.readonly) /\ (z.textfixed <=> t)
  BY DEF Var_t
<1>4. /\ d \in Var_t /\ d.text = e.text /\ (d.here <=> e.here) /\ (d.strfixed <=> t)
      /\ (d.unset <=> e.unset) /\ (d.readonly <=> e.readonly) /\ (d.textfixed <=> t)
  <2> HIDE DEF d
  <2> QED
    BY <1>2, <1>3
<1> QED
  BY <1>1, <1>4, Zenon

-----------------------------------------------------------------------------
(* The texts and the parameters that are kept                                *)

PlacesIn(s) == UNION {{k} \X DOMAIN s[k].localvars : k \in DOMAIN s}
AtIn(s, p) == s[p[1]].localvars[p[2]]
SharedIn(s, v) == {p \in PlacesIn(s) : Copy(AtIn(s, p), v)}
KeptIn(s, v) == {AtIn(s, p).was.text : p \in SharedIn(s, v)}

\* A local variable has kept text t of v.
Keeps(f, v, t) == \E a \in DOMAIN f : Copy(f[a], v) /\ f[a].was.text = t

LEMMA ImageFinite ==
  ASSUME NEW D, IsFiniteSet(D), NEW T, NEW f \in [D -> T], \A t \in T : \E x \in D : f[x] = t
  PROVE  IsFiniteSet(T)
<1>1. f \in Surjection(D, T)
  BY DEF Surjection
<1> QED
  BY <1>1, FS_Surjection

LEMMA PlaceFacts ==
  ASSUME NEW s \in Seq(Frame), NEW p
  PROVE  p \in PlacesIn(s) <=> /\ p = <<p[1], p[2]>>
                               /\ p[1] \in 1 .. Len(s)
                               /\ p[2] \in 1 .. Len(s[p[1]].localvars)
<1>1. DOMAIN s = 1 .. Len(s) /\ \A k \in 1 .. Len(s) : DOMAIN s[k].localvars = 1 .. Len(s[k].localvars)
  BY FrameFacts, LenProperties
<1> QED
  BY <1>1 DEF PlacesIn

\* The same local variable by its place and by its age.
LEMMA PlaceOfAge ==
  ASSUME NEW s \in Seq(Frame)
  PROVE  /\ \A a \in Ages(s) : \E p \in PlacesIn(s) : AtIn(s, p) = Log(s)[a]
         /\ \A p \in PlacesIn(s) : \E a \in Ages(s) : AtIn(s, p) = Log(s)[a]
<1> DEFINE swap(p) == <<p[1], Len(s[p[1]].localvars) + 1 - p[2]>>
<1>1. ASSUME NEW k \in 1 .. Len(s), NEW i \in 1 .. Len(s[k].localvars)
      PROVE  /\ Len(s[k].localvars) + 1 - i \in 1 .. Len(s[k].localvars)
             /\ Len(s[k].localvars) + 1 - (Len(s[k].localvars) + 1 - i) = i
  <2>1. PICK n \in Nat : n = Len(s[k].localvars)
    BY FrameFacts
  <2>2. n + 1 - i \in 1 .. n /\ n + 1 - (n + 1 - i) = i
    BY <2>1
  <2> QED
    BY <2>1, <2>2
<1>2. ASSUME NEW a \in Ages(s) PROVE \E p \in PlacesIn(s) : AtIn(s, p) = Log(s)[a]
  <2>1. a[1] \in 1 .. Len(s) /\ a[2] \in 1 .. Len(s[a[1]].localvars)
    BY AgeFacts
  <2>2. swap(a) \in PlacesIn(s)
    BY <1>1, <2>1, PlaceFacts
  <2>3. AtIn(s, swap(a)) = Item(s, a)
    BY <2>1 DEF AtIn, Item
  <2>4. Log(s)[a] = Item(s, a)
    BY ItemFacts
  <2> HIDE DEF swap
  <2> QED
    BY <2>2, <2>3, <2>4
<1>3. ASSUME NEW p \in PlacesIn(s) PROVE \E a \in Ages(s) : AtIn(s, p) = Log(s)[a]
  <2>1. p[1] \in 1 .. Len(s) /\ p[2] \in 1 .. Len(s[p[1]].localvars)
    BY PlaceFacts
  <2>2. swap(p) \in Ages(s)
    BY <1>1, <2>1, AgeFacts
  <2>3. swap(p)[1] = p[1] /\ swap(p)[2] = Len(s[p[1]].localvars) + 1 - p[2]
    OBVIOUS
  <2>4. AtIn(s, p) = Item(s, swap(p))
    BY <1>1, <2>1, <2>3 DEF AtIn, Item
  <2> HIDE DEF swap
  <2>5. Log(s)[swap(p)] = Item(s, swap(p))
    BY <2>2, ItemFacts
  <2> QED
    BY <2>2, <2>4, <2>5
<1> QED
  BY <1>2, <1>3

LEMMA KeptFacts ==
  ASSUME NEW s \in Seq(Frame), NEW v
  PROVE  /\ IsFiniteSet(KeptIn(s, v))
         /\ \A t : t \in KeptIn(s, v) <=> Keeps(Log(s), v, t)
<1>1. IsFiniteSet(PlacesIn(s))
  <2> DEFINE R == {{k} \X DOMAIN s[k].localvars : k \in DOMAIN s}
             f == [k \in DOMAIN s |-> {k} \X DOMAIN s[k].localvars]
  <2>1. Len(s) \in Nat /\ DOMAIN s = 1 .. Len(s)
    BY LenProperties
  <2>2. IsFiniteSet(DOMAIN s)
    BY <2>1, FS_Interval
  <2>3. f \in [DOMAIN s -> R] /\ \A t \in R : \E k \in DOMAIN s : f[k] = t
    OBVIOUS
  <2>4. IsFiniteSet(R)
    <3> HIDE DEF R, f
    <3> QED
      BY <2>2, <2>3, ImageFinite
  <2>5. ASSUME NEW T \in R PROVE IsFiniteSet(T)
    <3>1. PICK k \in DOMAIN s : T = {k} \X DOMAIN s[k].localvars
      OBVIOUS
    <3>2. Len(s[k].localvars) \in Nat /\ DOMAIN s[k].localvars = 1 .. Len(s[k].localvars)
      BY <2>1, FrameFacts
    <3>3. IsFiniteSet(DOMAIN s[k].localvars)
      BY <3>2, FS_Interval
    <3>4. IsFiniteSet({k})
      BY FS_Singleton
    <3> QED
      BY <3>1, <3>3, <3>4, FS_Product
  <2>6. IsFiniteSet(UNION R)
    <3> HIDE DEF R
    <3> QED
      BY <2>4, <2>5, FS_UNION
  <2> QED
    BY <2>6 DEF PlacesIn
<1>2. IsFiniteSet(SharedIn(s, v))
  <2>1. SharedIn(s, v) \in SUBSET PlacesIn(s)
    BY DEF SharedIn
  <2> QED
    BY <1>1, <2>1, FS_Subset
<1>3. IsFiniteSet(KeptIn(s, v))
  <2> DEFINE f == [p \in SharedIn(s, v) |-> AtIn(s, p).was.text]
  <2>1. f \in [SharedIn(s, v) -> KeptIn(s, v)] /\ \A t \in KeptIn(s, v) : \E p \in SharedIn(s, v) : f[p] = t
    BY DEF KeptIn
  <2> HIDE DEF f
  <2> QED
    BY <1>2, <2>1, ImageFinite
<1>4. DOMAIN Log(s) = Ages(s)
  BY DEF Log
<1>5. ASSUME NEW t PROVE t \in KeptIn(s, v) <=> Keeps(Log(s), v, t)
  BY <1>4, PlaceOfAge DEF KeptIn, SharedIn, Keeps
<1> QED
  BY <1>3, <1>5

LEMMA KeptTextsIs == \A v : KeptTexts(v) = KeptIn(stack, v)
BY DEF KeptTexts, Copies, Saves, Places, At, KeptIn, SharedIn, PlacesIn, AtIn, Copy

LEMMA CreatedIs ==
  ASSUME stack \in Seq(Frame), NEW v
  PROVE  Created(v) <=> \E a \in DOMAIN Log(stack) : Log(stack)[a].var = v /\ Log(stack)[a].created
<1>1. Created(v) <=> \E p \in PlacesIn(stack) : AtIn(stack, p).var = v /\ AtIn(stack, p).created
  BY DEF Created, Saves, Places, At, PlacesIn, AtIn
<1>2. DOMAIN Log(stack) = Ages(stack)
  BY DEF Log
<1> QED
  BY <1>1, <1>2, PlaceOfAge

LEMMA FreshFacts ==
  ASSUME stack \in Seq(Frame), NEW v
  PROVE  Fresh(v) \in Nat \ {0} /\ ~Keeps(Log(stack), v, Fresh(v))
<1> DEFINE K == KeptTexts(v) \ {0}
<1>1. K \in SUBSET KeptIn(stack, v)
  BY KeptTextsIs
<1>2. IsFiniteSet(K)
  BY <1>1, KeptFacts, FS_Subset
<1>3. Lowest(K) \in Nat \ {0} /\ Lowest(K) \notin K
  BY <1>2, LowestFacts
<1>4. Fresh(v) \notin KeptIn(stack, v)
  BY <1>3, KeptTextsIs DEF Fresh
<1> QED
  BY <1>3, <1>4, KeptFacts DEF Fresh

\* The new text of a variable made local with a value.
LEMMA NextFacts ==
  ASSUME stack \in Seq(Frame), NEW v, NEW n, n = Lowest((KeptTexts(v) \cup {vartab[v].text}) \ {0})
  PROVE  n \in Nat \ {0} /\ n # vartab[v].text /\ ~Keeps(Log(stack), v, n)
<1> DEFINE K == KeptTexts(v) \cup {vartab[v].text}
<1>1. IsFiniteSet(K)
  <2>1. IsFiniteSet(KeptTexts(v))
    BY KeptTextsIs, KeptFacts
  <2> QED
    BY <2>1, FS_AddElement
<1>2. K \ {0} \in SUBSET K
  OBVIOUS
<1>3. IsFiniteSet(K \ {0})
  <2> HIDE DEF K
  <2> QED
    BY <1>1, <1>2, FS_Subset
<1>4. Lowest(K \ {0}) \in Nat \ {0} /\ Lowest(K \ {0}) \notin K \ {0}
  BY <1>3, LowestFacts
<1>5. n \in Nat \ {0} /\ n \notin KeptIn(stack, v) /\ n # vartab[v].text
  BY <1>4, KeptTextsIs
<1> QED
  BY <1>5, KeptFacts

LEMMA FreshParamFacts ==
  ASSUME stack \in Seq(Frame)
  PROVE  /\ FreshParam \in Nat \ {0}
         /\ \A k \in DOMAIN stack : stack[k].saveparam.malloc # FreshParam
<1> DEFINE f == [k \in DOMAIN stack |-> stack[k].saveparam.malloc]
<1>1. Len(stack) \in Nat /\ DOMAIN stack = 1 .. Len(stack)
  BY LenProperties
<1>2. IsFiniteSet(DOMAIN stack)
  BY <1>1, FS_Interval
<1>3. f \in [DOMAIN stack -> KeptParams] /\ \A t \in KeptParams : \E x \in DOMAIN stack : f[x] = t
  BY DEF KeptParams
<1>4. IsFiniteSet(KeptParams)
  <2> HIDE DEF f
  <2> QED
    BY <1>2, <1>3, ImageFinite
<1>5. KeptParams \ {0} \in SUBSET KeptParams
  OBVIOUS
<1>6. IsFiniteSet(KeptParams \ {0})
  BY <1>4, <1>5, FS_Subset
<1>7. FreshParam \in Nat \ {0} /\ FreshParam \notin KeptParams \ {0}
  BY <1>6, LowestFacts DEF FreshParam
<1> QED
  BY <1>7 DEF KeptParams

\* Nothing that is still pointed to is freed.
LEMMA FreedNone ==
  ASSUME freed = {}, NEW F, NEW A, Frees(F, A), stack' \in Seq(Frame),
         \A b \in F \ A :
           \/ \E v \in Vars : \E t : b = <<v, t>> /\ (t = 0 \/ (vartab'[v].text # t /\ ~Keeps(Log(stack'), v, t)))
           \/ \E m : b = <<Param, m>> /\ (m = 0 \/ (/\ shellparam'.malloc # m
                                                    /\ \A k \in DOMAIN stack' : stack'[k].saveparam.malloc # m))
  PROVE  freed' = {}
<1>1. freed' \subseteq (F \ A) \cap Referenced'
  BY DEF Frees
<1> SUFFICES ASSUME NEW b \in (F \ A) \cap Referenced' PROVE FALSE
  BY <1>1
<1>2. \/ \E v \in Vars : \E t : b = <<v, t>> /\ t # 0 /\ t \in Texts(v)'
      \/ \E m : b = <<Param, m>> /\ m # 0 /\ m \in (KeptParams' \cup {shellparam'.malloc})
  <2>1. \/ \E v \in Vars : b \in {v} \X (Texts(v)' \ {0})
        \/ b \in {Param} \X ((KeptParams' \cup {shellparam'.malloc}) \ {0})
    BY DEF Referenced
  <2> QED
    BY <2>1
<1>3. Param \notin Vars
  BY VarsAssumption DEF Param
<1>4. CASE \E v \in Vars : \E t : b = <<v, t>> /\ t # 0 /\ t \in Texts(v)'
  <2>1. PICK v \in Vars : \E t : b = <<v, t>> /\ t # 0 /\ t \in Texts(v)'
    BY <1>4
  <2>0. PICK t : b = <<v, t>> /\ t # 0 /\ t \in Texts(v)'
    BY <2>1
  <2>2. vartab'[v].text # t /\ ~Keeps(Log(stack'), v, t)
    BY <1>3, <2>0
  <2>3. t \notin KeptIn(stack', v)
    BY <2>2, KeptFacts
  <2>4. KeptTexts(v)' = KeptIn(stack', v)
    BY DEF KeptTexts, Copies, Saves, Places, At, KeptIn, SharedIn, PlacesIn, AtIn, Copy
  <2> QED
    BY <2>0, <2>2, <2>3, <2>4 DEF Texts
<1>5. CASE \E m : b = <<Param, m>> /\ m # 0 /\ m \in (KeptParams' \cup {shellparam'.malloc})
  <2>1. PICK m : b = <<Param, m>> /\ m # 0 /\ m \in (KeptParams' \cup {shellparam'.malloc})
    BY <1>5
  <2>2. shellparam'.malloc # m /\ \A k \in DOMAIN stack' : stack'[k].saveparam.malloc # m
    BY <1>3, <2>1
  <2> QED
    BY <2>1, <2>2 DEF KeptParams
<1> QED
  BY <1>2, <1>4, <1>5

-----------------------------------------------------------------------------
(* What suits the local variables                                            *)

\* A variable with a new text of its own, unless it has lost readonly.
LEMMA SuitsNew ==
  ASSUME NEW e, NEW d, NEW v, NEW f, NEW A, Suits(e, v, f, A), d.here, ~d.textfixed,
         e.strfixed => d.strfixed, d.readonly <=> e.readonly,
         \A a \in A : Copy(f[a], v) => f[a].was.text # d.text
  PROVE  Suits(d, v, f, A)
BY DEF Suits

\* One that differs in nothing that matters.
LEMMA SuitsLike ==
  ASSUME NEW e, NEW d, NEW v, NEW f, NEW A, Suits(e, v, f, A), e.here, Like(d, e)
  PROVE  Suits(d, v, f, A)
BY DEF Suits, Like

LEMMA SuitsReadonly ==
  ASSUME NEW e, NEW d, NEW v, NEW f, NEW A, Suits(e, v, f, A), d.here, e.here, d.text = e.text,
         d.strfixed <=> e.strfixed, d.textfixed <=> e.textfixed, d.readonly,
         \A a \in A : ~(f[a].var = v /\ f[a].created)
  PROVE  Suits(d, v, f, A)
BY DEF Suits

\* A variable that nothing local has kept.
LEMMA SuitsFree ==
  ASSUME NEW d, NEW v, NEW f, NEW A, d.here \/ d = Absent, \A a \in A : f[a].var # v,
         d.textfixed /\ d.text # 0 => d.readonly
  PROVE  Suits(d, v, f, A)
BY DEF Suits, Copy

\* The text of a variable that owns it is in none of the copies.
LEMMA OwnText ==
  ASSUME NEW e, NEW v, NEW f, Suits(e, v, f, DOMAIN f), ~e.textfixed
  PROVE  ~Keeps(f, v, e.text)
BY DEF Suits, Keeps

\* The variable that is made local, with its text or another.
LEMMA SuitsKept ==
  ASSUME NEW e \in Var_t, NEW v, NEW f, NEW g, NEW new, NEW lv, Grows(f, g, new, lv),
         lv.var = v, ~lv.created, lv.was = e, Suits(e, v, f, DOMAIN f), e.here
  PROVE  /\ Suits(Kept(e), v, g, DOMAIN g)
         /\ \A d : /\ d.here /\ d.strfixed /\ ~d.textfixed /\ (d.readonly <=> e.readonly)
                   /\ d.text # e.text /\ ~Keeps(f, v, d.text)
                   => Suits(d, v, g, DOMAIN g)
<1>1. /\ DOMAIN g = DOMAIN f \cup {new} /\ g[new] = lv
      /\ \A a \in DOMAIN f : g[a] = f[a]
  BY DEF Grows
<1>2. ASSUME NEW d, d.here, d.strfixed, ~d.textfixed, d.readonly <=> e.readonly,
             d.text # e.text, ~Keeps(f, v, d.text)
      PROVE  Suits(d, v, g, DOMAIN g)
  <2>1. \A a \in DOMAIN f : Copy(f[a], v) => f[a].was.text # d.text
    BY <1>2 DEF Keeps
  <2>2. Suits(d, v, f, DOMAIN f)
    BY <1>2, <2>1, SuitsNew
  <2>3. Suits(d, v, g, DOMAIN f)
    BY <1>1, <2>2, SuitsSame
  <2> QED
    BY <1>1, <1>2, <2>3 DEF Suits, Copy
<1> DEFINE d == Kept(e)
<1>4. d.text = e.text /\ d.here /\ d.strfixed /\ d.textfixed /\ (d.readonly <=> e.readonly)
  BY KeptIs
<1> HIDE DEF d
<1>5. Suits(e, v, g, DOMAIN f)
  BY <1>1, SuitsSame
<1>6. \A a \in DOMAIN g : Copy(g[a], v) => (g[a].was.readonly => d.readonly)
  BY <1>1, <1>4, <1>5 DEF Suits
<1>7. \A a \in DOMAIN g : g[a].var = v /\ g[a].created => ~d.readonly
  BY <1>1, <1>4, <1>5 DEF Suits
<1>8. d.text # 0 /\ ~d.readonly =>
         \E a \in DOMAIN g : Copy(g[a], v) /\ g[a].was.text = d.text /\ ~g[a].was.textfixed
  <2>1. CASE e.textfixed
    BY <1>1, <1>4, <1>5, <2>1 DEF Suits
  <2>2. CASE ~e.textfixed
    BY <1>1, <1>4, <2>2 DEF Copy
  <2> QED
    BY <2>1, <2>2
<1>9. Suits(d, v, g, DOMAIN g)
  BY <1>4, <1>6, <1>7, <1>8 DEF Suits
<1> QED
  BY <1>2, <1>9 DEF d

\* After a refused local v=x, or when its restoration is cut.
LEMMA SuitsRefused ==
  ASSUME NEW e \in Var_t, NEW v, NEW f, NEW A, Suits(e, v, f, A), e.here,
         e.readonly \/ e.text = 0
  PROVE  Suits(Kept(e), v, f, A)
<1> DEFINE d == Kept(e)
<1>1. d.text = e.text /\ d.here /\ d.strfixed /\ d.textfixed /\ (d.readonly <=> e.readonly)
  BY KeptIs
<1> HIDE DEF d
<1>2. Suits(d, v, f, A)
  BY <1>1 DEF Suits
<1> QED
  BY <1>2 DEF d

LEMMA UnlinkedIs ==
  ASSUME NEW v \in Vars, vartab[v] \in Var_t, Fresh(v) \in Nat, vartab[v].here
  PROVE  /\ Unlinked(v) \in Var_t
         /\ \/ /\ ~vartab[v].strfixed /\ Unlinked(v) = Absent
               /\ UnsetFrees(v) => Frees(TextOf(v), {})
            \/ /\ vartab[v].strfixed
               /\ Unlinked(v).here /\ Unlinked(v).strfixed /\ ~Unlinked(v).textfixed
               /\ Unlinked(v).text = Fresh(v) /\ (Unlinked(v).readonly <=> vartab[v].readonly)
               /\ UnsetFrees(v) => Frees(TextOf(v), {<<v, Fresh(v)>>})
            \/ /\ vartab[v].strfixed /\ Like(Unlinked(v), vartab[v])
               /\ UnsetFrees(v) => Frees({}, {})
<1>1. PICK f \in BOOLEAN : f = FALSE
  OBVIOUS
<1>2. PICK t \in BOOLEAN : t = TRUE
  OBVIOUS
<1>3. \A e \in Var_t : LET d == [e EXCEPT !.exported = f, !.unset = t] IN d \in Var_t /\ Like(d, e)
  BY DEF Var_t, Like
<1>4. CASE ~vartab[v].strfixed
  <2>1. Unlinked(v) = Absent
    BY <1>4 DEF Unlinked
  <2>2. UnsetFrees(v) => Frees(TextOf(v), {})
    BY <1>4 DEF UnsetFrees
  <2> QED
    BY <1>4, <2>1, <2>2, AbsentIs
<1>5. CASE vartab[v].strfixed /\ vartab[v].val # Empty
  <2>1. Unlinked(v) = [Assigned(v, Empty) EXCEPT !.exported = f, !.unset = t]
    BY <1>1, <1>2, <1>5 DEF Unlinked
  <2>2. PICK e \in Var_t : e = Assigned(v, Empty)
    BY AssignedIs, EmptyIs
  <2>3. Unlinked(v) \in Var_t /\ Like(Unlinked(v), e)
    BY <1>3, <2>1, <2>2
  <2>4. /\ e.text = Fresh(v) /\ e.here /\ ~e.textfixed
        /\ (e.readonly <=> vartab[v].readonly) /\ (e.strfixed <=> vartab[v].strfixed)
    BY <2>2, AssignedIs, EmptyIs
  <2>5. UnsetFrees(v) => Frees(TextOf(v), {<<v, Fresh(v)>>})
    BY <1>5 DEF UnsetFrees
  <2> QED
    BY <1>5, <2>3, <2>4, <2>5 DEF Like
<1>6. CASE vartab[v].strfixed /\ vartab[v].val = Empty
  <2>1. Unlinked(v) = [vartab[v] EXCEPT !.exported = f, !.unset = t]
    BY <1>1, <1>2, <1>6 DEF Unlinked
  <2>2. Unlinked(v) \in Var_t /\ Like(Unlinked(v), vartab[v])
    BY <1>3, <2>1
  <2>3. UnsetFrees(v) => Frees({}, {})
    BY <1>6 DEF UnsetFrees
  <2> QED
    BY <1>6, <2>2, <2>3
<1> QED
  BY <1>4, <1>5, <1>6

-----------------------------------------------------------------------------
(* The steps                                                                 *)

\* The text that v has, and nobody else, is free when v gets another.
LEMMA OwnFreed ==
  ASSUME freed = {}, stack' \in Seq(Frame), NEW v \in Vars, NEW A, Frees(TextOf(v), A),
         \/ vartab[v].textfixed
         \/ <<v, vartab[v].text>> \in A
         \/ vartab'[v].text # vartab[v].text /\ ~Keeps(Log(stack'), v, vartab[v].text)
         \/ vartab[v].text = 0
  PROVE  freed' = {}
<1> DEFINE F == TextOf(v)
<1>1. \A b \in F \ A :
        b = <<v, vartab[v].text>>
          /\ (vartab[v].text = 0 \/ (vartab'[v].text # vartab[v].text /\ ~Keeps(Log(stack'), v, vartab[v].text)))
  BY DEF TextOf
<1>2. \A b \in F \ A :
           \/ \E w \in Vars : \E t : b = <<w, t>> /\ (t = 0 \/ (vartab'[w].text # t /\ ~Keeps(Log(stack'), w, t)))
           \/ \E m : b = <<Param, m>> /\ (m = 0 \/ (/\ shellparam'.malloc # m
                                                    /\ \A k \in DOMAIN stack' : stack'[k].saveparam.malloc # m))
  BY <1>1
<1> HIDE DEF F
<1>3. Frees(F, A)
  BY DEF F
<1> QED
  BY <1>2, <1>3, FreedNone

LEMMA ParamFreed ==
  ASSUME freed = {}, stack' \in Seq(Frame), NEW A, NEW m, Frees({<<Param, m>>}, A),
         \/ m = 0
         \/ shellparam'.malloc # m /\ \A k \in DOMAIN stack' : stack'[k].saveparam.malloc # m
  PROVE  freed' = {}
<1> DEFINE F == {<<Param, m>>}
<1>1. \A b \in F \ A :
        \/ \E v \in Vars : \E t : b = <<v, t>> /\ (t = 0 \/ (vartab'[v].text # t /\ ~Keeps(Log(stack'), v, t)))
        \/ \E n : b = <<Param, n>> /\ (n = 0 \/ (/\ shellparam'.malloc # n
                                                 /\ \A k \in DOMAIN stack' : stack'[k].saveparam.malloc # n))
  OBVIOUS
<1> HIDE DEF F
<1>2. Frees(F, A)
  BY DEF F
<1> QED
  BY <1>1, <1>2, FreedNone

LEMMA NoneFreed ==
  ASSUME freed = {}, NEW A, Frees({}, A)
  PROVE  freed' = {}
BY DEF Frees

\* The parameters are the same, here and in every function.
LEMMA ParamsSame ==
  ASSUME ParamsOwned, UNCHANGED <<pc, shellparam>>, stack \in Seq(Frame), stack' \in Seq(Frame),
         Len(stack') = Len(stack),
         \A k \in 1 .. Len(stack) : stack'[k].saveparam = stack[k].saveparam
  PROVE  ParamsOwned'
<1>1. DOMAIN stack = 1 .. Len(stack) /\ DOMAIN stack' = 1 .. Len(stack) /\ Len(stack) \in Nat
  BY LenProperties
<1>2. stack # <<>> => /\ Len(stack) \in 1 .. Len(stack) /\ stack' # <<>>
                      /\ Last(stack') = stack'[Len(stack)] /\ Last(stack) = stack[Len(stack)]
  BY <1>1, EmptySeq DEF Last
<1>3. (pc = "unwind" => stack # <<>> /\ shellparam = Last(stack).saveparam)'
  BY <1>1, <1>2 DEF ParamsOwned
<1> QED
  BY <1>1, <1>3 DEF ParamsOwned

\* A step that changes nothing but one variable.
LEMMA OneChanges ==
  ASSUME VarsInv, NEW v \in Vars, NEW e \in Var_t, vartab' = [vartab EXCEPT ![v] = e],
         UNCHANGED <<shellparam, optval, jobctl, stack, pc>>,
         Suits(e, v, Log(stack), DOMAIN Log(stack)), freed' = {}
  PROVE  VarsInv'
<1>1. Typed'
  BY DEF VarsInv, Typed
<1>2. ParamsOwned'
  BY DEF VarsInv, ParamsOwned
<1>3. vartab \in [Vars -> Var_t] /\ Owned(vartab, Log(stack))
  BY DEF VarsInv, Typed
<1>4. Owned([vartab EXCEPT ![v] = e], Log(stack))
  BY <1>3, OwnedUpdate
<1>5. Owned(vartab, Log(stack))'
  BY <1>4
<1> QED
  BY <1>1, <1>2, <1>5 DEF VarsInv

\* What the invariant says of one variable.
LEMMA VarInv ==
  ASSUME VarsInv, NEW v \in Vars
  PROVE  /\ stack \in Seq(Frame) /\ vartab \in [Vars -> Var_t] /\ vartab[v] \in Var_t /\ freed = {}
         /\ Suits(vartab[v], v, Log(stack), DOMAIN Log(stack))
         /\ Fresh(v) \in Nat \ {0} /\ ~Keeps(Log(stack), v, Fresh(v))
         /\ ~vartab[v].textfixed => ~Keeps(Log(stack), v, vartab[v].text)
<1>1. /\ stack \in Seq(Frame) /\ vartab \in [Vars -> Var_t] /\ freed = {}
      /\ Suits(vartab[v], v, Log(stack), DOMAIN Log(stack))
  BY DEF VarsInv, Typed, Owned
<1> QED
  BY <1>1, FreshFacts, OwnText

LEMMA setvarInv ==
  ASSUME VarsInv, NEW v \in Vars, setvar(v)
  PROVE  VarsInv'
<1> DEFINE f == Log(stack)
           d == vartab[v]
<1>1. /\ stack \in Seq(Frame) /\ vartab \in [Vars -> Var_t] /\ d \in Var_t /\ freed = {}
      /\ Suits(d, v, f, DOMAIN f) /\ Fresh(v) \in Nat \ {0} /\ ~Keeps(f, v, Fresh(v))
      /\ ~d.textfixed => ~Keeps(f, v, d.text)
  BY VarInv
<1>2. PICK x \in Values, exp \in BOOLEAN :
        vartab' = [vartab EXCEPT ![v] = [Assigned(v, x) EXCEPT !.exported = @ \/ exp]]
  BY DEF setvar
<1>3. PICK a \in Var_t : a = Assigned(v, x)
  BY <1>1, AssignedIs
<1>4. /\ a.text = Fresh(v) /\ a.here /\ ~a.textfixed
      /\ (a.readonly <=> d.readonly) /\ (a.strfixed <=> d.strfixed)
  BY <1>1, <1>3, AssignedIs
<1>5. PICK b \in BOOLEAN : b = (a.exported \/ exp)
  BY VarFields
<1> DEFINE e == [a EXCEPT !.exported = b]
<1>6. vartab' = [vartab EXCEPT ![v] = e]
  BY <1>2, <1>3, <1>5
<1>7. e \in Var_t /\ Like(e, a)
  BY ExportedIs
<1>8. UNCHANGED <<shellparam, optval, jobctl, stack, pc>> /\ Frees(TextOf(v), {<<v, Fresh(v)>>})
  BY DEF setvar
<1> HIDE DEF e, d
<1>9. Suits(e, v, f, DOMAIN f)
  <2>1. \A c \in DOMAIN f : Copy(f[c], v) => f[c].was.text # e.text
    BY <1>1, <1>4, <1>7 DEF Keeps, Like
  <2>2. e.here /\ ~e.textfixed /\ (d.strfixed => e.strfixed) /\ (e.readonly <=> d.readonly)
    BY <1>4, <1>7 DEF Like
  <2> HIDE DEF f
  <2> QED
    BY <1>1, <2>1, <2>2, SuitsNew
<1>10. freed' = {}
  <2>1. vartab'[v].text = Fresh(v)
    BY <1>1, <1>4, <1>6, <1>7 DEF Like
  <2>2. stack' = stack /\ stack' \in Seq(Frame)
    BY <1>1, <1>8
  <2>3. \/ d.textfixed \/ <<v, d.text>> \in {<<v, Fresh(v)>>}
        \/ vartab'[v].text # d.text /\ ~Keeps(Log(stack'), v, d.text)
    BY <1>1, <2>1, <2>2
  <2> QED
    BY <1>1, <1>8, <2>2, <2>3, OwnFreed DEF d
<1> QED
  BY <1>6, <1>7, <1>8, <1>9, <1>10, OneChanges

LEMMA unsetvarInv ==
  ASSUME VarsInv, NEW v \in Vars, unsetvar(v)
  PROVE  VarsInv'
<1> DEFINE f == Log(stack)
           d == vartab[v]
           e == Unlinked(v)
<1>1. /\ stack \in Seq(Frame) /\ vartab \in [Vars -> Var_t] /\ d \in Var_t /\ freed = {}
      /\ Suits(d, v, f, DOMAIN f) /\ Fresh(v) \in Nat \ {0} /\ ~Keeps(f, v, Fresh(v))
      /\ ~d.textfixed => ~Keeps(f, v, d.text)
  BY VarInv
<1>2. /\ d.here /\ ~d.readonly /\ vartab' = [vartab EXCEPT ![v] = e]
      /\ UNCHANGED <<shellparam, optval, jobctl, stack, pc>> /\ UnsetFrees(v)
  BY DEF unsetvar
<1>3. /\ e \in Var_t
      /\ \/ ~d.strfixed /\ e = Absent /\ Frees(TextOf(v), {})
         \/ /\ d.strfixed
            /\ e.here /\ e.strfixed /\ ~e.textfixed
            /\ e.text = Fresh(v) /\ (e.readonly <=> d.readonly)
            /\ Frees(TextOf(v), {<<v, Fresh(v)>>})
         \/ d.strfixed /\ Like(e, d) /\ Frees({}, {})
  BY <1>1, <1>2, UnlinkedIs
<1>4. stack' = stack /\ stack' \in Seq(Frame) /\ vartab'[v] = e
  BY <1>1, <1>2
<1> HIDE DEF e
<1>5. CASE ~d.strfixed /\ e = Absent /\ Frees(TextOf(v), {})
  <2>1. \A a \in DOMAIN f : f[a].var # v
    BY <1>1, <1>5 DEF Suits
  <2>2. ~Absent.textfixed /\ Absent.text = 0
    BY AbsentIs
  <2>3. Suits(e, v, f, DOMAIN f)
    <3> HIDE DEF f
    <3> QED
      BY <1>5, <2>1, <2>2, SuitsFree
  <2>4. \/ d.textfixed \/ d.text = 0
        \/ vartab'[v].text # d.text /\ ~Keeps(Log(stack'), v, d.text)
    BY <1>1, <1>4, <1>5, <2>2
  <2>5. freed' = {}
    BY <1>1, <1>4, <1>5, <2>4, OwnFreed DEF d
  <2> QED
    BY <1>2, <1>3, <2>3, <2>5, OneChanges
<1>6. CASE /\ d.strfixed
           /\ e.here /\ e.strfixed /\ ~e.textfixed
           /\ e.text = Fresh(v) /\ (e.readonly <=> d.readonly)
           /\ Frees(TextOf(v), {<<v, Fresh(v)>>})
  <2>1. \A c \in DOMAIN f : Copy(f[c], v) => f[c].was.text # e.text
    BY <1>1, <1>6 DEF Keeps
  <2>2. Suits(e, v, f, DOMAIN f)
    <3> HIDE DEF f, d
    <3> QED
      BY <1>1, <1>6, <2>1, SuitsNew
  <2>3. \/ d.textfixed \/ <<v, d.text>> \in {<<v, Fresh(v)>>}
        \/ vartab'[v].text # d.text /\ ~Keeps(Log(stack'), v, d.text)
    BY <1>1, <1>4, <1>6
  <2>4. freed' = {}
    BY <1>1, <1>4, <1>6, <2>3, OwnFreed DEF d
  <2> QED
    BY <1>2, <1>3, <2>2, <2>4, OneChanges
<1>7. CASE d.strfixed /\ Like(e, d) /\ Frees({}, {})
  <2>1. Suits(e, v, f, DOMAIN f)
    <3> HIDE DEF f, d
    <3> QED
      BY <1>1, <1>2, <1>7, SuitsLike
  <2>2. freed' = {}
    BY <1>1, <1>7, NoneFreed
  <2> QED
    BY <1>2, <1>3, <2>1, <2>2, OneChanges
<1> QED
  BY <1>3, <1>5, <1>6, <1>7

LEMMA exportcmdInv ==
  ASSUME VarsInv, Allowed = {}, NEW v \in Vars, exportcmd(v)
  PROVE  VarsInv'
<1> DEFINE f == Log(stack)
           d == vartab[v]
           e == IF d.here THEN d ELSE NewUnset(v)
<1>1. /\ stack \in Seq(Frame) /\ vartab \in [Vars -> Var_t] /\ d \in Var_t /\ freed = {}
      /\ Suits(d, v, f, DOMAIN f) /\ Fresh(v) \in Nat \ {0} /\ ~Keeps(f, v, Fresh(v))
  BY VarInv
<1>2. PICK t \in BOOLEAN : t = TRUE
  OBVIOUS
<1>3. /\ \/ vartab' = [vartab EXCEPT ![v] = [e EXCEPT !.exported = t]]
         \/ /\ ~Created(v)
            /\ vartab' = [vartab EXCEPT ![v] = [e EXCEPT !.readonly = TRUE]]
      /\ UNCHANGED <<shellparam, optval, jobctl, stack, pc>>
      /\ \E A : Frees({}, A)
  BY <1>2 DEF exportcmd
<1>4. freed' = {}
  BY <1>1, <1>3, NoneFreed
<1>5. e \in Var_t /\ e.here /\ Suits(e, v, f, DOMAIN f)
  <2>1. CASE d.here
    BY <1>1, <2>1
  <2>2. CASE ~d.here
    <3>1. e = NewUnset(v)
      BY <2>2
    <3>2. /\ e \in Var_t /\ e.here /\ ~e.textfixed
      BY <1>1, <3>1, NewUnsetIs
    <3>3. \A a \in DOMAIN f : f[a].var # v
      BY <1>1, <2>2 DEF Suits
    <3> HIDE DEF e, f
    <3> QED
      BY <3>2, <3>3, SuitsFree
  <2> QED
    BY <2>1, <2>2
<1> HIDE DEF e, d
<1>6. CASE vartab' = [vartab EXCEPT ![v] = [e EXCEPT !.exported = t]]
  <2>1. PICK n \in Var_t : n = [e EXCEPT !.exported = t] /\ Like(n, e)
    BY <1>5, ExportedIs
  <2>2. Suits(n, v, f, DOMAIN f)
    <3> HIDE DEF f
    <3> QED
      BY <1>5, <2>1, SuitsLike
  <2> QED
    BY <1>3, <1>4, <1>6, <2>1, <2>2, OneChanges
<1>7. CASE /\ ~Created(v)
           /\ vartab' = [vartab EXCEPT ![v] = [e EXCEPT !.readonly = TRUE]]
  <2> DEFINE r == [e EXCEPT !.readonly = TRUE]
  <2>1. /\ r \in Var_t /\ r.text = e.text /\ (r.here <=> e.here) /\ r.readonly
        /\ (r.strfixed <=> e.strfixed) /\ (r.textfixed <=> e.textfixed)
    BY <1>5, ReadonlyIs
  <2>2. vartab' = [vartab EXCEPT ![v] = r]
    BY <1>7
  <2> HIDE DEF r
  <2>3. \A a \in DOMAIN f : ~(f[a].var = v /\ f[a].created)
    BY <1>1, <1>7, CreatedIs
  <2>4. Suits(r, v, f, DOMAIN f)
    <3> HIDE DEF f
    <3> QED
      BY <1>5, <2>1, <2>3, SuitsReadonly
  <2> QED
    BY <1>3, <1>4, <2>1, <2>2, <2>4, OneChanges
<1> QED
  BY <1>3, <1>6, <1>7

LEMMA setparamInv ==
  ASSUME VarsInv, setparam
  PROVE  VarsInv'
<1>1. /\ stack \in Seq(Frame) /\ freed = {} /\ ParamsOwned /\ Typed /\ pc = "run"
      /\ Owned(vartab, Log(stack))
  BY DEF VarsInv, Typed, setparam
<1>2. PICK a \in Args : shellparam' = [malloc |-> FreshParam, args |-> a]
  BY DEF setparam
<1>3. UNCHANGED <<vartab, optval, jobctl, stack, pc>> /\ Frees({<<Param, shellparam.malloc>>}, {<<Param, FreshParam>>})
  BY DEF setparam
<1>4. FreshParam \in Nat \ {0} /\ \A k \in DOMAIN stack : stack[k].saveparam.malloc # FreshParam
  BY <1>1, FreshParamFacts
<1>5. shellparam' \in Params_t /\ shellparam'.malloc = FreshParam
  BY <1>2, <1>4 DEF Params_t
<1>6. Typed'
  BY <1>1, <1>3, <1>5 DEF Typed
<1>7. ParamsOwned'
  BY <1>1, <1>3, <1>4, <1>5 DEF ParamsOwned
<1>8. freed' = {}
  <2> DEFINE m == shellparam.malloc
             A == {<<Param, FreshParam>>}
  <2>1. \A k \in DOMAIN stack' : m # 0 => stack'[k].saveparam.malloc # m
    BY <1>1, <1>3 DEF ParamsOwned
  <2>2. stack' \in Seq(Frame) /\ Frees({<<Param, m>>}, A)
    BY <1>1, <1>3
  <2>3. CASE m = FreshParam
    <3>1. Frees({}, A)
      BY <1>3, <2>3 DEF Frees
    <3> QED
      BY <1>1, <3>1, NoneFreed
  <2>4. CASE m # FreshParam
    <3>1. m = 0 \/ (shellparam'.malloc # m /\ \A k \in DOMAIN stack' : stack'[k].saveparam.malloc # m)
      BY <1>5, <2>1, <2>4
    <3> HIDE DEF m, A
    <3> QED
      BY <1>1, <2>2, <3>1, ParamFreed
  <2> QED
    BY <2>3, <2>4
<1>9. Owned(vartab, Log(stack))'
  BY <1>1, <1>3
<1> QED
  BY <1>6, <1>7, <1>8, <1>9 DEF VarsInv

LEMMA setcmdInv ==
  ASSUME VarsInv, setcmd
  PROVE  VarsInv'
<1>1. UNCHANGED <<vartab, freed, shellparam, stack, pc>> /\ optval' \subseteq Options
  BY DEF setcmd
<1>2. jobctl' \in BOOLEAN
  BY DEF setcmd
<1>3. Typed'
  BY <1>1, <1>2 DEF VarsInv, Typed
<1>4. ParamsOwned'
  BY <1>1 DEF VarsInv, ParamsOwned
<1>5. Owned(vartab, Log(stack))'
  BY <1>1 DEF VarsInv
<1> QED
  BY <1>1, <1>3, <1>4, <1>5 DEF VarsInv

LEMMA ReturnInv ==
  ASSUME VarsInv, Return
  PROVE  VarsInv'
<1>1. UNCHANGED <<vartab, freed, shellparam, optval, jobctl, stack>> /\ pc = "run" /\ pc' = "return" /\ stack # <<>>
  BY DEF Return
<1>2. Typed'
  BY <1>1 DEF VarsInv, Typed
<1>3. ParamsOwned'
  BY <1>1 DEF VarsInv, ParamsOwned
<1>4. Owned(vartab, Log(stack))'
  BY <1>1 DEF VarsInv
<1> QED
  BY <1>1, <1>2, <1>3, <1>4 DEF VarsInv

LEMMA HandlerInv ==
  ASSUME VarsInv, NEW s, s \in Seq(Frame), stack' = s, Handler(s, {}),
         Len(s) <= Len(stack), \A k \in 1 .. Len(s) : s[k].saveparam = stack[k].saveparam,
         shellparam.malloc = 0 \/ \A k \in 1 .. Len(s) : stack[k].saveparam.malloc # shellparam.malloc
  PROVE  /\ ParamsOwned' /\ freed' = {} /\ shellparam' \in Params_t /\ pc' \in {"run", "unwind"}
<1> DEFINE m == shellparam.malloc
<1>1. /\ stack \in Seq(Frame) /\ freed = {} /\ shellparam \in Params_t /\ ParamsOwned
  BY DEF VarsInv, Typed
<1>2. /\ Len(s) \in Nat /\ DOMAIN s = 1 .. Len(s)
      /\ Len(stack) \in Nat /\ DOMAIN stack = 1 .. Len(stack) /\ DOMAIN s \subseteq DOMAIN stack
  BY <1>1, LenProperties
<1>3. \A j, k \in DOMAIN s :
        j # k /\ s[j].saveparam.malloc # 0 => s[j].saveparam.malloc # s[k].saveparam.malloc
  BY <1>1, <1>2 DEF ParamsOwned
<1>4. CASE s = <<>>
  <2>1. pc' = "run" /\ shellparam' = shellparam /\ Frees({}, {})
    BY <1>4 DEF Handler
  <2>2. freed' = {}
    BY <1>1, <2>1, NoneFreed
  <2>3. DOMAIN stack' = {}
    BY <1>4
  <2>4. ParamsOwned'
    BY <2>1, <2>3 DEF ParamsOwned
  <2> QED
    BY <1>1, <2>1, <2>2, <2>4
<1>5. CASE s # <<>>
  <2>1. pc' = "unwind" /\ shellparam' = Last(s).saveparam /\ Frees({} \cup {<<Param, m>>}, {})
    BY <1>5 DEF Handler
  <2>2. Len(s) \in 1 .. Len(s) /\ Last(s) = s[Len(s)]
    BY <1>2, <1>5, EmptySeq DEF Last
  <2>3. shellparam' \in Params_t
    BY <2>1, <2>2, FrameFacts
  <2>4. m = 0 \/ (shellparam'.malloc # m /\ \A k \in DOMAIN stack' : stack'[k].saveparam.malloc # m)
    BY <1>2, <2>1, <2>2
  <2>5. stack' \in Seq(Frame) /\ Frees({<<Param, m>>}, {})
    <3>1. {} \cup {<<Param, m>>} = {<<Param, m>>}
      OBVIOUS
    <3> QED
      BY <2>1, <3>1
  <2>6. freed' = {}
    <3> HIDE DEF m
    <3> QED
      BY <1>1, <2>4, <2>5, ParamFreed
  <2>7. ParamsOwned'
    BY <1>3, <1>5, <2>1 DEF ParamsOwned
  <2> QED
    BY <2>1, <2>3, <2>6, <2>7
<1> QED
  BY <1>4, <1>5

LEMMA RaiseInv ==
  ASSUME VarsInv, Raise
  PROVE  VarsInv'
<1>1. /\ pc = "run" /\ stack # <<>> /\ UNCHANGED <<vartab, optval, jobctl, stack>>
      /\ Handler(stack, {})
  BY DEF Raise
<1>2. stack \in Seq(Frame) /\ Typed /\ ParamsOwned /\ Owned(vartab, Log(stack))
      /\ DOMAIN stack = 1 .. Len(stack) /\ Len(stack) \in Nat
  BY LenProperties DEF VarsInv, Typed
<1>3. shellparam.malloc = 0 \/ \A k \in 1 .. Len(stack) : stack[k].saveparam.malloc # shellparam.malloc
  BY <1>1, <1>2 DEF ParamsOwned
<1>4. ParamsOwned' /\ freed' = {} /\ shellparam' \in Params_t /\ pc' \in {"run", "unwind"}
  BY <1>1, <1>2, <1>3, HandlerInv
<1>5. Typed'
  BY <1>1, <1>2, <1>4 DEF Typed
<1>6. Owned(vartab, Log(stack))'
  BY <1>1, <1>2
<1> QED
  BY <1>4, <1>5, <1>6 DEF VarsInv

LEMMA mklocal_errorInv ==
  ASSUME VarsInv, NEW v \in Vars, mklocal_error(v)
  PROVE  VarsInv'
<1> DEFINE f == Log(stack)
           d == vartab[v]
<1>1. /\ pc = "run" /\ stack # <<>> /\ d.readonly /\ vartab' = [vartab EXCEPT ![v] = Kept(d)]
      /\ UNCHANGED <<optval, jobctl, stack>>
      /\ UNCHANGED <<pc, freed, shellparam>> \/ Handler(stack, {})
  BY DEF mklocal_error
<1>2. /\ stack \in Seq(Frame) /\ vartab \in [Vars -> Var_t] /\ d \in Var_t /\ freed = {}
      /\ Suits(d, v, f, DOMAIN f)
  BY VarInv
<1>3. d.here
  BY <1>1, <1>2, AbsentIs DEF Suits
<1>4. Kept(d) \in Var_t /\ Suits(Kept(d), v, f, DOMAIN f)
  <2> HIDE DEF d, f
  <2> QED
    BY <1>1, <1>2, <1>3, KeptIs, SuitsRefused
<1> HIDE DEF d
<1>5. Typed /\ ParamsOwned /\ Owned(vartab, f) /\ DOMAIN stack = 1 .. Len(stack) /\ Len(stack) \in Nat
  BY <1>2, LenProperties DEF VarsInv
<1>6. ParamsOwned' /\ freed' = {} /\ shellparam' \in Params_t /\ pc' \in {"run", "unwind"}
  <2>1. CASE UNCHANGED <<pc, freed, shellparam>>
    BY <1>1, <1>2, <1>5, <2>1 DEF ParamsOwned, Typed
  <2>2. CASE Handler(stack, {})
    <3>1. shellparam.malloc = 0 \/ \A k \in 1 .. Len(stack) : stack[k].saveparam.malloc # shellparam.malloc
      BY <1>1, <1>5 DEF ParamsOwned
    <3> QED
      BY <1>1, <1>2, <1>5, <2>2, <3>1, HandlerInv
  <2> QED
    BY <1>1, <2>1, <2>2
<1>7. Typed'
  BY <1>1, <1>2, <1>4, <1>5, <1>6 DEF Typed
<1>8. Owned([vartab EXCEPT ![v] = Kept(d)], f)
  <2> HIDE DEF f
  <2> QED
    BY <1>2, <1>4, <1>5, OwnedUpdate
<1>9. Owned(vartab, Log(stack))'
  BY <1>1, <1>8
<1> QED
  BY <1>6, <1>7, <1>9 DEF VarsInv

LEMMA CallFunctionInv ==
  ASSUME VarsInv, CallFunction
  PROVE  VarsInv'
<1>1. /\ stack \in Seq(Frame) /\ freed = {} /\ ParamsOwned /\ Typed /\ pc = "run"
      /\ shellparam \in Params_t
      /\ Owned(vartab, Log(stack)) /\ Len(stack) \in Nat /\ DOMAIN stack = 1 .. Len(stack)
  BY LenProperties DEF VarsInv, Typed, CallFunction
<1> DEFINE fr == [saveparam |-> shellparam, localvars |-> <<>>]
<1>2. /\ Len(stack) < MaxDepth /\ stack' = Append(stack, fr)
      /\ UNCHANGED <<vartab, freed, optval, jobctl, pc>>
      /\ \E a \in Args : shellparam' = [malloc |-> 0, args |-> a]
  BY DEF CallFunction
<1>3. fr \in Frame /\ fr.localvars = <<>> /\ fr.saveparam = shellparam
  BY <1>1 DEF Frame
<1> HIDE DEF fr
<1>4. /\ stack' \in Seq(Frame) /\ Len(stack') = Len(stack) + 1
      /\ \A k \in 1 .. Len(stack) : stack'[k] = stack[k]
      /\ stack'[Len(stack) + 1] = fr
      /\ Log(stack') = Log(stack)
  BY <1>1, <1>2, <1>3, EnterLog
<1>5. shellparam' \in Params_t /\ shellparam'.malloc = 0
  BY <1>2 DEF Params_t
<1>6. Len(stack') <= MaxDepth
  BY <1>1, <1>2, <1>4, VarsAssumption
<1>7. Typed'
  BY <1>1, <1>2, <1>4, <1>5, <1>6 DEF Typed
<1>8. DOMAIN stack' = 1 .. Len(stack) + 1
  BY <1>4, LenProperties
<1>9. ASSUME NEW j \in DOMAIN stack', NEW k \in DOMAIN stack', j # k, stack'[j].saveparam.malloc # 0
      PROVE  stack'[j].saveparam.malloc # stack'[k].saveparam.malloc
  <2>1. CASE j \in 1 .. Len(stack) /\ k \in 1 .. Len(stack)
    BY <1>1, <1>4, <1>9, <2>1 DEF ParamsOwned
  <2>2. CASE j = Len(stack) + 1
    <3>1. k \in 1 .. Len(stack)
      BY <1>1, <1>8, <1>9, <2>2
    <3> QED
      BY <1>1, <1>3, <1>4, <1>9, <2>2, <3>1 DEF ParamsOwned
  <2>3. CASE k = Len(stack) + 1
    <3>1. j \in 1 .. Len(stack)
      BY <1>1, <1>8, <1>9, <2>3
    <3> QED
      BY <1>1, <1>3, <1>4, <1>9, <2>3, <3>1 DEF ParamsOwned
  <2> QED
    BY <1>1, <1>8, <2>1, <2>2, <2>3
<1>10. ParamsOwned'
  BY <1>1, <1>2, <1>5, <1>9 DEF ParamsOwned
<1>11. Owned(vartab, Log(stack))'
  BY <1>1, <1>2, <1>4
<1>12. freed' = {}
  BY <1>1, <1>2
<1> QED
  BY <1>7, <1>10, <1>11, <1>12 DEF VarsInv

\* A local variable more.
LEMMA PushInv ==
  ASSUME VarsInv, stack # <<>>, NEW lv \in Local_t, stack' = Push(lv),
         UNCHANGED <<shellparam, optval, jobctl, pc>>
  PROVE  /\ stack' \in Seq(Frame) /\ ParamsOwned'
         /\ vartab' \in [Vars -> Var_t] => Typed'
         /\ \E new : Grows(Log(stack), Log(stack'), new, lv)
<1>1. stack \in Seq(Frame) /\ Typed /\ ParamsOwned /\ Len(stack) \in Nat /\ DOMAIN stack = 1 .. Len(stack)
  BY LenProperties DEF VarsInv, Typed
<1>2. stack' = [stack EXCEPT ![Len(stack)].localvars = <<lv>> \o @]
  BY DEF Push
<1>3. /\ stack' \in Seq(Frame) /\ Len(stack') = Len(stack)
      /\ Grows(Log(stack), Log(stack'), <<Len(stack), Len(stack[Len(stack)].localvars) + 1>>, lv)
  BY <1>1, <1>2, PushLog
<1>4. ASSUME NEW k \in 1 .. Len(stack) PROVE stack'[k].saveparam = stack[k].saveparam
  <2>1. stack[k] \in Frame
    BY <1>1, FrameFacts
  <2>2. CASE k = Len(stack)
    <3>1. stack'[k] = [stack[k] EXCEPT !.localvars = <<lv>> \o @]
      BY <1>1, <1>2, <2>2
    <3> QED
      BY <2>1, <3>1 DEF Frame
  <2>3. CASE k # Len(stack)
    BY <1>1, <1>2, <2>3
  <2> QED
    BY <2>2, <2>3
<1>5. ParamsOwned'
  BY <1>1, <1>3, <1>4, ParamsSame
<1>6. stack' # <<>>
  BY <1>1, <1>3, EmptySeq
<1>7. vartab' \in [Vars -> Var_t] => Typed'
  BY <1>1, <1>3, <1>6 DEF Typed
<1> QED
  BY <1>3, <1>5, <1>7

LEMMA LocalIs ==
  ASSUME NEW v \in Vars, NEW e \in Var_t, NEW t \in BOOLEAN, NEW lv,
         lv = [var |-> v, created |-> t, was |-> e]
  PROVE  lv \in Local_t /\ lv.var = v /\ (lv.created <=> t) /\ lv.was = e
<1>1. lv \in [var : Vars, created : BOOLEAN, was : Var_t]
  OBVIOUS
<1>2. lv.var = v /\ lv.created = t /\ lv.was = e
  OBVIOUS
<1> QED
  BY <1>1, <1>2, Zenon DEF Local_t

LEMMA mklocalInv ==
  ASSUME VarsInv, NEW v \in Vars, mklocal(v)
  PROVE  VarsInv'
<1> DEFINE f == Log(stack)
           g == Log(stack')
           d == vartab[v]
           lv == LocalVar(v, TRUE)
<1>1. /\ stack \in Seq(Frame) /\ vartab \in [Vars -> Var_t] /\ d \in Var_t /\ freed = {}
      /\ Suits(d, v, f, DOMAIN f) /\ Fresh(v) \in Nat \ {0} /\ ~Keeps(f, v, Fresh(v))
  BY VarInv
<1>2. /\ stack # <<>> /\ ~d.here /\ stack' = Push(lv)
      /\ UNCHANGED <<shellparam, optval, jobctl, pc>>
      /\ Frees({}, {<<v, Fresh(v)>>})
  BY DEF mklocal
<1>3. PICK e : e \in {NewUnset(v)} \cup {Assigned(v, x) : x \in Values}
                 /\ vartab' = [vartab EXCEPT ![v] = [e EXCEPT !.strfixed = TRUE]]
  BY DEF mklocal
<1>4. d = Absent /\ \A a \in DOMAIN f : f[a].var # v
  BY <1>1, <1>2 DEF Suits
<1>5. e \in Var_t /\ e.here /\ ~e.textfixed /\ ~e.readonly
  <2>1. CASE e = NewUnset(v)
    BY <1>1, <2>1, NewUnsetIs
  <2>2. ASSUME NEW x \in Values, e = Assigned(v, x) PROVE e \in Var_t /\ e.here /\ ~e.textfixed /\ ~e.readonly
    BY <1>1, <1>4, <2>2, AssignedIs, AbsentIs
  <2> QED
    BY <1>3, <2>1, <2>2
<1> DEFINE n == [e EXCEPT !.strfixed = TRUE]
<1>6. n \in Var_t /\ n.here /\ n.strfixed /\ ~n.textfixed /\ ~n.readonly
  BY <1>5, StrfixedIs
<1>7. vartab' = [vartab EXCEPT ![v] = n]
  BY <1>3
<1> HIDE DEF n
<1>8. /\ lv \in Local_t /\ lv.var = v /\ lv.created
  <2>1. PICK t \in BOOLEAN : t = TRUE
    OBVIOUS
  <2>2. lv = [var |-> v, created |-> t, was |-> d]
    BY <2>1 DEF LocalVar
  <2> HIDE DEF lv, d
  <2>3. lv \in Local_t /\ lv.var = v /\ (lv.created <=> t)
    BY <1>1, <2>2, LocalIs
  <2> QED
    BY <2>1, <2>3
<1> HIDE DEF lv
<1>9. /\ stack' \in Seq(Frame) /\ ParamsOwned'
      /\ vartab' \in [Vars -> Var_t] => Typed'
      /\ \E new : Grows(f, g, new, lv)
  BY <1>2, <1>8, PushInv
<1>10. PICK new : Grows(f, g, new, lv)
  BY <1>9
<1>11. Typed'
  BY <1>1, <1>6, <1>7, <1>9
<1>12. freed' = {}
  BY <1>1, <1>2, NoneFreed
<1> HIDE DEF f, g, d
<1>13. /\ DOMAIN g = DOMAIN f \cup {new} /\ g[new] = lv /\ \A a \in DOMAIN f : g[a] = f[a]
       /\ Earlier(g, new) = DOMAIN f
  BY <1>10, EarlierFacts DEF Grows
<1>14. Suits(n, v, g, DOMAIN g)
  BY <1>4, <1>6, <1>8, <1>13 DEF Suits, Copy
<1>15. Linked(g, new)
  BY <1>4, <1>8, <1>13 DEF Linked
<1>16. Owned(vartab, f)
  BY DEF VarsInv, f
<1>17. Owned([vartab EXCEPT ![lv.var] = n], g)
  BY <1>1, <1>8, <1>10, <1>14, <1>15, <1>16, OwnedPush
<1>18. Owned(vartab, Log(stack))'
  BY <1>7, <1>8, <1>17 DEF g
<1> QED
  BY <1>9, <1>11, <1>12, <1>18 DEF VarsInv

LEMMA mklocal_existingInv ==
  ASSUME VarsInv, Allowed = {}, NEW v \in Vars, mklocal_existing(v)
  PROVE  VarsInv'
<1> DEFINE f == Log(stack)
           g == Log(stack')
           d == vartab[v]
           lv == LocalVar(v, FALSE)
           b == Lowest((KeptTexts(v) \cup {vartab[v].text}) \ {0})
<1>1. /\ stack \in Seq(Frame) /\ vartab \in [Vars -> Var_t] /\ d \in Var_t /\ freed = {}
      /\ Suits(d, v, f, DOMAIN f) /\ Fresh(v) \in Nat \ {0}
  BY VarInv
<1>2. /\ stack # <<>> /\ d.here /\ stack' = Push(lv) /\ (d.unset => d.strfixed)
      /\ UNCHANGED <<shellparam, optval, jobctl, pc>>
      /\ \/ vartab' = [vartab EXCEPT ![v] = Kept(d)] /\ UNCHANGED freed
         \/ /\ ~d.readonly
            /\ \E x \in Values :
                 vartab' = [vartab EXCEPT ![v] = [Assigned(v, x) EXCEPT !.strfixed = TRUE, !.text = b]]
            /\ Frees({}, {<<v, b>>})
  BY DEF mklocal_existing
<1>3. b \in Nat \ {0} /\ b # d.text /\ ~Keeps(f, v, b)
  BY <1>1, NextFacts
<1> HIDE DEF b
<1>4. freed' = {}
  BY <1>1, <1>2, NoneFreed
<1>5. /\ lv \in Local_t /\ lv.var = v /\ ~lv.created /\ lv.was = d
  <2>1. PICK t \in BOOLEAN : t = FALSE
    OBVIOUS
  <2>2. lv = [var |-> v, created |-> t, was |-> d]
    BY <2>1 DEF LocalVar
  <2> HIDE DEF lv, d
  <2>3. lv \in Local_t /\ lv.var = v /\ (lv.created <=> t) /\ lv.was = d
    BY <1>1, <2>2, LocalIs
  <2> QED
    BY <2>1, <2>3
<1> HIDE DEF lv
<1>6. /\ stack' \in Seq(Frame) /\ ParamsOwned'
      /\ vartab' \in [Vars -> Var_t] => Typed'
      /\ \E new : Grows(f, g, new, lv)
  BY <1>2, <1>5, PushInv
<1>7. PICK new : Grows(f, g, new, lv)
  BY <1>6
<1>8. Suits(Kept(d), v, g, DOMAIN g)
         /\ \A e : /\ e.here /\ e.strfixed /\ ~e.textfixed /\ (e.readonly <=> d.readonly)
                   /\ e.text # d.text /\ ~Keeps(f, v, e.text)
                   => Suits(e, v, g, DOMAIN g)
  <2> HIDE DEF f, g, d
  <2> QED
    BY <1>1, <1>2, <1>5, <1>7, SuitsKept
<1>9. PICK e \in Var_t : vartab' = [vartab EXCEPT ![v] = e] /\ Suits(e, v, g, DOMAIN g)
  <2>1. CASE vartab' = [vartab EXCEPT ![v] = Kept(d)]
    <3>1. Kept(d) \in Var_t
      BY <1>1, KeptIs
    <3> QED
      BY <1>8, <2>1, <3>1
  <2>2. ASSUME NEW x \in Values,
               vartab' = [vartab EXCEPT ![v] = [Assigned(v, x) EXCEPT !.strfixed = TRUE, !.text = b]]
        PROVE  \E e \in Var_t : vartab' = [vartab EXCEPT ![v] = e] /\ Suits(e, v, g, DOMAIN g)
    <3>1. PICK a \in Var_t : a = Assigned(v, x)
      BY <1>1, AssignedIs
    <3>2. a.here /\ ~a.textfixed /\ (a.readonly <=> d.readonly)
      BY <1>1, <3>1, AssignedIs
    <3>3. PICK t \in BOOLEAN : t = TRUE
      OBVIOUS
    <3> DEFINE n == [a EXCEPT !.strfixed = t, !.text = b]
    <3>4. /\ n \in Var_t /\ n.text = b /\ (n.here <=> a.here) /\ (n.strfixed <=> t)
          /\ (n.readonly <=> a.readonly) /\ (n.textfixed <=> a.textfixed)
      BY <1>3 DEF Var_t
    <3>5. vartab' = [vartab EXCEPT ![v] = n]
      BY <2>2, <3>1, <3>3
    <3> HIDE DEF n
    <3>6. Suits(n, v, g, DOMAIN g)
      <4>1. n.here /\ n.strfixed /\ ~n.textfixed /\ (n.readonly <=> d.readonly)
        BY <3>2, <3>3, <3>4
      <4> HIDE DEF f, g, d
      <4> QED
        BY <1>3, <1>8, <3>4, <4>1
    <3> QED
      BY <3>4, <3>5, <3>6
  <2> QED
    BY <1>2, <2>1, <2>2
<1>10. Typed'
  BY <1>1, <1>6, <1>9
<1> HIDE DEF f, g, d
<1>11. /\ DOMAIN g = DOMAIN f \cup {new} /\ g[new] = lv /\ \A a \in DOMAIN f : g[a] = f[a]
       /\ Earlier(g, new) = DOMAIN f
  BY <1>7, EarlierFacts DEF Grows
<1>12. Suits(d, v, g, DOMAIN f)
  BY <1>1, <1>11, SuitsSame
<1>13. Linked(g, new)
  BY <1>2, <1>5, <1>11, <1>12 DEF Linked
<1>14. Owned(vartab, f)
  BY DEF VarsInv, f
<1>15. Owned([vartab EXCEPT ![lv.var] = e], g)
  BY <1>1, <1>5, <1>7, <1>9, <1>13, <1>14, OwnedPush
<1>16. Owned(vartab, Log(stack))'
  BY <1>5, <1>9, <1>15 DEF g
<1> QED
  BY <1>4, <1>6, <1>10, <1>16 DEF VarsInv

LEMMA mklocal_optionsInv ==
  ASSUME VarsInv, mklocal_options
  PROVE  VarsInv'
<1> DEFINE lv == [var |-> "-", created |-> FALSE, was |-> optval]
<1>1. /\ stack # <<>> /\ stack' = Push(lv)
      /\ UNCHANGED <<vartab, freed, shellparam, optval, jobctl, pc>>
  BY DEF mklocal_options
<1>2. /\ Typed /\ freed = {} /\ vartab \in [Vars -> Var_t] /\ optval \subseteq Options
      /\ Owned(vartab, Log(stack))
  BY DEF VarsInv, Typed
<1>3. lv \in Local_t /\ lv.var = "-"
  <2>1. PICK t : t = FALSE
    OBVIOUS
  <2>2. lv = [var |-> "-", created |-> t, was |-> optval]
    BY <2>1
  <2>3. lv \in [var : {"-"}, created : {t}, was : SUBSET Options]
    BY <1>2, <2>2
  <2>4. lv \in [var : {"-"}, created : {FALSE}, was : SUBSET Options]
    BY <2>1, <2>3
  <2> QED
    BY <2>4 DEF Local_t
<1> HIDE DEF lv
<1>4. /\ stack' \in Seq(Frame) /\ ParamsOwned'
      /\ vartab' \in [Vars -> Var_t] => Typed'
      /\ \E new : Grows(Log(stack), Log(stack'), new, lv)
  BY <1>1, <1>3, PushInv
<1>5. Owned(vartab, Log(stack'))
  BY <1>2, <1>3, <1>4, OwnedOptions
<1> QED
  BY <1>1, <1>2, <1>4, <1>5 DEF VarsInv

LEMMA LocalFields ==
  ASSUME NEW lv \in Local_t
  PROVE  /\ lv.var # "-" => lv.var \in Vars /\ lv.was \in Var_t
         /\ lv.var = "-" => lv.was \subseteq Options
<1> DEFINE P == [var : Vars, created : BOOLEAN, was : Var_t]
           Q == [var : {"-"}, created : {FALSE}, was : SUBSET Options]
<1>1. CASE lv \in P
  <2>1. lv.var \in Vars /\ lv.was \in Var_t
    BY <1>1
  <2> QED
    BY <2>1, VarsAssumption
<1>2. CASE lv \in Q
  <2>1. PICK c \in SUBSET BOOLEAN : c = {FALSE}
    OBVIOUS
  <2>2. lv \in [var : {"-"}, created : c, was : SUBSET Options]
    BY <1>2, <2>1
  <2>3. lv.var = "-" /\ lv.was \in SUBSET Options
    BY <2>2
  <2> QED
    BY <2>3
<1>3. lv \in P \/ lv \in Q
  BY Zenon DEF Local_t
<1> QED
  BY <1>1, <1>2, <1>3

\* A local variable less.
LEMMA PopFacts ==
  ASSUME VarsInv, Popping, Locals # <<>>
  PROVE  /\ stack # <<>> /\ Popped \in Seq(Frame) /\ Len(Popped) = Len(stack) /\ Popped # <<>>
         /\ \A k \in 1 .. Len(stack) : Popped[k].saveparam = stack[k].saveparam
         /\ Head(Locals) \in Local_t
         /\ \E new : Grows(Log(Popped), Log(stack), new, Head(Locals))
<1>1. stack \in Seq(Frame) /\ pc \in {"run", "return", "unwind"} /\ (pc = "return" => stack # <<>>)
      /\ (pc = "unwind" => stack # <<>>)
  BY DEF VarsInv, Typed, ParamsOwned
<1>2. stack # <<>>
  BY <1>1 DEF Popping
<1>3. Locals = stack[Len(stack)].localvars
  BY DEF Locals, Last
<1>4. Popped = [stack EXCEPT ![Len(stack)].localvars = Tail(@)]
  BY DEF Popped
<1> HIDE DEF Popped, Locals
<1> QED
  BY <1>1, <1>2, <1>3, <1>4, PopLog

\* What a step that pops one leaves of the invariant, but for the table.
LEMMA PopInv ==
  ASSUME VarsInv, Popping, Locals # <<>>, stack' = Popped, UNCHANGED <<shellparam, jobctl, pc>>,
         optval' \subseteq Options
  PROVE  /\ stack' \in Seq(Frame) /\ ParamsOwned'
         /\ vartab' \in [Vars -> Var_t] => Typed'
<1>1. /\ stack # <<>> /\ Popped \in Seq(Frame) /\ Len(Popped) = Len(stack) /\ Popped # <<>>
      /\ \A k \in 1 .. Len(stack) : Popped[k].saveparam = stack[k].saveparam
  BY PopFacts
<1>2. Typed /\ ParamsOwned /\ stack \in Seq(Frame)
  BY DEF VarsInv, Typed
<1>3. ParamsOwned'
  BY <1>1, <1>2, ParamsSame
<1>4. vartab' \in [Vars -> Var_t] => Typed'
  BY <1>1, <1>2 DEF Typed
<1> QED
  BY <1>1, <1>3, <1>4

LEMMA PopOptionsInv ==
  ASSUME VarsInv, PopOptions
  PROVE  VarsInv'
<1> DEFINE lv == Head(Locals)
<1>1. /\ Popping /\ Locals # <<>> /\ lv.var = "-" /\ optval' = lv.was /\ stack' = Popped
      /\ UNCHANGED <<vartab, freed, shellparam, jobctl, pc>>
  BY DEF PopOptions
<1>2. lv \in Local_t /\ \E new : Grows(Log(Popped), Log(stack), new, lv)
  BY <1>1, PopFacts
<1> HIDE DEF lv
<1>3. optval' \subseteq Options
  BY <1>1, <1>2, LocalFields
<1>4. stack' \in Seq(Frame) /\ ParamsOwned' /\ (vartab' \in [Vars -> Var_t] => Typed')
  BY <1>1, <1>3, PopInv
<1>5. vartab \in [Vars -> Var_t] /\ Owned(vartab, Log(stack)) /\ freed = {}
  BY DEF VarsInv, Typed
<1>6. Owned(vartab, Log(Popped))
  BY <1>1, <1>2, <1>5, OwnedOptions
<1>7. Owned(vartab, Log(stack))'
  BY <1>1, <1>6
<1> QED
  BY <1>1, <1>4, <1>5, <1>7 DEF VarsInv

LEMMA PopVariableInv ==
  ASSUME VarsInv, PopVariable
  PROVE  VarsInv'
<1> DEFINE lv == Head(Locals)
           v == lv.var
           d == vartab[v]
           f == Log(Popped)
           g == Log(stack)
<1>1. /\ Popping /\ Locals # <<>> /\ v # "-" /\ stack' = Popped /\ UNCHANGED <<optval, jobctl>>
      /\ IF ~MustUnset(lv)
         THEN /\ vartab' = [vartab EXCEPT ![v] = [lv.was EXCEPT !.here = d.here]]
              /\ UNCHANGED <<pc, shellparam>>
              /\ Frees(TextOf(v), {})
         ELSE d.readonly \/ (/\ vartab' = [vartab EXCEPT ![v] = Unlinked(v)]
                             /\ UNCHANGED <<pc, shellparam>>
                             /\ UnsetFrees(v))
  BY DEF PopVariable
<1>2. lv \in Local_t /\ \E new : Grows(f, g, new, lv)
  BY <1>1, PopFacts
<1>3. PICK new : Grows(f, g, new, lv)
  BY <1>2
<1>4. v \in Vars /\ lv.was \in Var_t
  BY <1>1, <1>2, LocalFields
<1>5. /\ stack \in Seq(Frame) /\ vartab \in [Vars -> Var_t] /\ d \in Var_t /\ freed = {}
      /\ Suits(d, v, g, DOMAIN g) /\ Fresh(v) \in Nat \ {0}
      /\ ~d.textfixed => ~Keeps(g, v, d.text)
  BY <1>4, VarInv
<1>6. optval' \subseteq Options /\ Owned(vartab, g)
  BY <1>1 DEF VarsInv, Typed
<1> HIDE DEF lv, f, g
<1>7. /\ DOMAIN g = DOMAIN f \cup {new} /\ g[new] = lv /\ \A a \in DOMAIN f : g[a] = f[a]
      /\ Earlier(g, new) = DOMAIN f
  BY <1>3, EarlierFacts DEF Grows
<1>8. Linked(g, new)
  BY <1>1, <1>6, <1>7 DEF Owned
<1>9. d.here /\ d.strfixed /\ (lv.created => ~d.readonly)
  BY <1>5, <1>7 DEF Suits
<1>10. ~d.textfixed => ~Keeps(f, v, d.text)
  BY <1>5, <1>7 DEF Keeps
\* The invariant follows from what v has become.
<1>11. ASSUME NEW e \in Var_t, vartab' = [vartab EXCEPT ![v] = e], UNCHANGED <<pc, shellparam>>,
              Suits(e, v, f, DOMAIN f), freed' = {}
       PROVE  VarsInv'
  <2>1. Owned([vartab EXCEPT ![v] = e], f)
    <3>1. v = lv.var
      OBVIOUS
    <3> HIDE DEF v
    <3> QED
      BY <1>3, <1>4, <1>5, <1>6, <1>11, <3>1, OwnedPop
  <2>2. stack' \in Seq(Frame) /\ ParamsOwned' /\ (vartab' \in [Vars -> Var_t] => Typed')
    BY <1>1, <1>6, <1>11, PopInv
  <2>3. vartab' \in [Vars -> Var_t]
    BY <1>5, <1>11
  <2>4. Owned(vartab, Log(stack))'
    BY <1>1, <1>11, <2>1 DEF f
  <2> QED
    BY <1>11, <2>2, <2>3, <2>4 DEF VarsInv
<1>12. stack' \in Seq(Frame) /\ Log(stack') = f
  BY <1>1, PopFacts DEF f
<1>13. CASE ~lv.created
  <2>1. lv.was.here /\ (lv.was.unset => lv.was.strfixed) /\ Suits(lv.was, v, f, DOMAIN f)
    <3>1. Suits(lv.was, v, g, DOMAIN f)
      BY <1>7, <1>8, <1>13 DEF Linked
    <3>2. Suits(lv.was, v, f, DOMAIN f)
      BY <1>7, <3>1, SuitsSame
    <3> QED
      BY <1>7, <1>8, <1>13, <3>2 DEF Linked
  <2>2. ~MustUnset(lv)
    BY <1>13, <2>1 DEF MustUnset
  <2>3. [lv.was EXCEPT !.here = d.here] = lv.was
    <3>1. d.here \in BOOLEAN
      BY <1>5, VarFields
    <3> HIDE DEF d, v
    <3> QED
      BY <1>4, <1>9, <2>1, <3>1, HereIs
  <2>4. vartab' = [vartab EXCEPT ![v] = lv.was] /\ UNCHANGED <<pc, shellparam>> /\ Frees(TextOf(v), {})
    BY <1>1, <2>2, <2>3
  <2>5. ~d.textfixed => lv.was.text # d.text
    BY <1>5, <1>7, <1>13 DEF Suits, Copy
  <2>6. vartab'[v] = lv.was
    BY <1>4, <1>5, <2>4
  <2>7. freed' = {}
    BY <1>4, <1>5, <1>10, <1>12, <2>4, <2>5, <2>6, OwnFreed
  <2> QED
    BY <1>4, <1>11, <2>1, <2>4, <2>7
<1>14. CASE lv.created
  <2>1. MustUnset(lv) /\ ~d.readonly
    BY <1>9, <1>14 DEF MustUnset
  <2>2. vartab' = [vartab EXCEPT ![v] = Unlinked(v)] /\ UNCHANGED <<pc, shellparam>> /\ UnsetFrees(v)
    BY <1>1, <2>1
  <2>3. \A a \in DOMAIN f : f[a].var # v
    BY <1>7, <1>8, <1>14 DEF Linked
  <2> DEFINE e == Unlinked(v)
  <2>4. /\ e \in Var_t
        /\ \/ e.here /\ ~e.textfixed /\ e.text = Fresh(v) /\ Frees(TextOf(v), {<<v, Fresh(v)>>})
           \/ Like(e, d) /\ Frees({}, {})
    BY <1>4, <1>5, <1>9, <2>2, UnlinkedIs
  <2>5. vartab' = [vartab EXCEPT ![v] = e] /\ vartab'[v] = e
    BY <1>4, <1>5, <2>2
  <2> HIDE DEF e
  <2>6. CASE e.here /\ ~e.textfixed /\ e.text = Fresh(v) /\ Frees(TextOf(v), {<<v, Fresh(v)>>})
    <3>1. Suits(e, v, f, DOMAIN f)
      <4> HIDE DEF v
      <4> QED
        BY <2>3, <2>6, SuitsFree
    <3>2. \/ d.textfixed \/ <<v, d.text>> \in {<<v, Fresh(v)>>}
          \/ vartab'[v].text # d.text /\ ~Keeps(Log(stack'), v, d.text)
      BY <1>10, <1>12, <2>5, <2>6
    <3>3. freed' = {}
      BY <1>4, <1>5, <1>12, <2>6, <3>2, OwnFreed
    <3> QED
      BY <1>11, <2>2, <2>4, <2>5, <3>1, <3>3
  <2>7. CASE Like(e, d) /\ Frees({}, {})
    <3>1. d.textfixed /\ d.text # 0 => FALSE
      BY <1>5, <1>7, <1>14, <2>1, <2>3 DEF Suits, Copy
    <3>2. e.here /\ ~(e.textfixed /\ e.text # 0)
      BY <1>9, <2>7, <3>1 DEF Like
    <3>3. Suits(e, v, f, DOMAIN f)
      <4> HIDE DEF v
      <4> QED
        BY <2>3, <3>2, SuitsFree
    <3>4. freed' = {}
      BY <1>5, <2>7, NoneFreed
    <3> QED
      BY <1>11, <2>2, <2>4, <2>5, <3>3, <3>4
  <2> QED
    BY <2>4, <2>6, <2>7
<1> QED
  BY <1>13, <1>14

LEMMA PopCutInv ==
  ASSUME VarsInv, Allowed = {}, PopCut
  PROVE  VarsInv'
<1> DEFINE lv == Head(Locals)
           v == lv.var
           d == vartab[v]
           f == Log(Popped)
           g == Log(stack)
<1>1. /\ pc = "unwind" /\ Locals # <<>> /\ v # "-" /\ stack' = Popped /\ UNCHANGED <<vartab, optval, jobctl>>
      /\ shellparam.malloc = 0 /\ ~lv.created /\ lv.was.text = 0 /\ d = Kept(lv.was)
      /\ \E F \in {{}, TextOf(v)} : Handler(Popped, F)
  BY DEF PopCut, AsItWas
<1>2. /\ lv \in Local_t /\ \E new : Grows(f, g, new, lv)
      /\ stack # <<>> /\ Popped \in Seq(Frame) /\ Len(Popped) = Len(stack) /\ Popped # <<>>
      /\ \A k \in 1 .. Len(stack) : Popped[k].saveparam = stack[k].saveparam
  BY <1>1, PopFacts DEF Popping
<1>3. PICK new : Grows(f, g, new, lv)
  BY <1>2
<1>4. v \in Vars /\ lv.was \in Var_t
  BY <1>1, <1>2, LocalFields
<1>5. /\ vartab \in [Vars -> Var_t] /\ Owned(vartab, g) /\ Typed /\ Len(stack) \in Nat
      /\ optval \subseteq Options /\ jobctl \in BOOLEAN /\ Len(stack) <= MaxDepth
  BY LenProperties DEF VarsInv, Typed
<1>6. Handler(Popped, {})
  <2>1. d.textfixed
    BY <1>1, <1>4, KeptIs
  <2>2. TextOf(v) = {}
    BY <2>1 DEF TextOf
  <2> QED
    BY <1>1, <2>2
<1>7. ParamsOwned' /\ freed' = {} /\ shellparam' \in Params_t /\ pc' \in {"run", "unwind"}
  <2> HIDE DEF lv, v, d, f, g, Popped
  <2> QED
    BY <1>1, <1>2, <1>5, <1>6, HandlerInv
<1> HIDE DEF lv, f, g
<1>8. Typed'
  BY <1>1, <1>2, <1>5, <1>7 DEF Typed
<1>9. /\ DOMAIN g = DOMAIN f \cup {new} /\ g[new] = lv /\ \A a \in DOMAIN f : g[a] = f[a]
      /\ Earlier(g, new) = DOMAIN f
  BY <1>3, EarlierFacts DEF Grows
<1>10. Linked(g, new)
  BY <1>1, <1>5, <1>9 DEF Owned
<1>11. lv.was.here /\ Suits(lv.was, v, g, DOMAIN f)
  BY <1>1, <1>9, <1>10 DEF Linked
<1>12. Suits(lv.was, v, f, DOMAIN f)
  BY <1>9, <1>11, SuitsSame
<1>13. Suits(d, v, f, DOMAIN f)
  <2>1. Suits(Kept(lv.was), v, f, DOMAIN f)
    <3> HIDE DEF v
    <3> QED
      BY <1>1, <1>4, <1>11, <1>12, SuitsRefused
  <2> QED
    BY <1>1, <2>1
<1>14. Owned([vartab EXCEPT ![v] = d], f)
  <2>1. v = lv.var
    OBVIOUS
  <2> HIDE DEF v
  <2> QED
    BY <1>3, <1>4, <1>5, <1>13, <2>1, OwnedPop
<1>15. [vartab EXCEPT ![v] = d] = vartab
  BY <1>4, <1>5
<1>16. Owned(vartab, Log(stack))'
  BY <1>1, <1>14, <1>15 DEF f
<1> QED
  BY <1>7, <1>8, <1>16 DEF VarsInv

LEMMA PopFunctionInv ==
  ASSUME VarsInv, PopFunction
  PROVE  VarsInv'
<1>1. /\ Popping /\ Locals = <<>> /\ stack' = Front(stack) /\ UNCHANGED <<vartab, optval, jobctl>>
      /\ pc = "unwind" => Handler(Front(stack), {})
      /\ pc = "return" => /\ pc' = "run"
                          /\ shellparam' = Last(stack).saveparam
                          /\ Frees({<<Param, shellparam.malloc>>}, {})
  BY DEF PopFunction
<1>2. /\ stack \in Seq(Frame) /\ freed = {} /\ Typed /\ ParamsOwned
      /\ Owned(vartab, Log(stack)) /\ DOMAIN stack = 1 .. Len(stack) /\ Len(stack) \in Nat
  BY LenProperties DEF VarsInv, Typed
<1>3. stack # <<>> /\ pc \in {"return", "unwind"}
  BY <1>1, <1>2 DEF Popping, Typed, ParamsOwned
<1>4. /\ stack' \in Seq(Frame) /\ Len(stack) = Len(stack') + 1 /\ Len(stack') \in Nat
      /\ Last(stack) = stack[Len(stack)] /\ Last(stack) \in Frame
      /\ \A k \in 1 .. Len(stack') : stack'[k] = stack[k]
      /\ Log(stack') = Log(stack)
  BY <1>1, <1>2, <1>3, LeaveLog DEF Locals
<1>5. /\ Len(stack') < Len(stack) /\ Len(stack) \in 1 .. Len(stack)
      /\ DOMAIN stack' = 1 .. Len(stack') /\ DOMAIN stack' \subseteq DOMAIN stack
      /\ Len(stack) \in DOMAIN stack /\ Len(stack) \notin DOMAIN stack'
  BY <1>2, <1>4, LenProperties
<1>6. Last(stack).saveparam \in Params_t
  BY <1>4 DEF Frame
<1>7. ParamsOwned' /\ freed' = {} /\ shellparam' \in Params_t /\ pc' \in {"run", "unwind"}
  <2>1. CASE pc = "unwind"
    <3>1. shellparam = stack[Len(stack)].saveparam
      BY <1>2, <1>4, <2>1 DEF ParamsOwned
    <3>2. shellparam.malloc = 0 \/ \A k \in 1 .. Len(stack') : stack[k].saveparam.malloc # shellparam.malloc
      BY <1>2, <1>5, <3>1 DEF ParamsOwned
    <3>3. \A k \in 1 .. Len(stack') : stack'[k].saveparam = stack[k].saveparam
      BY <1>4
    <3>4. Handler(stack', {}) /\ Len(stack') <= Len(stack)
      BY <1>1, <1>5, <2>1, <1>2, <1>4
    <3> QED
      BY <1>4, <3>2, <3>3, <3>4, HandlerInv
  <2>2. CASE pc = "return"
    <3> DEFINE m == shellparam.malloc
    <3>1. /\ pc' = "run" /\ shellparam' = stack[Len(stack)].saveparam /\ Frees({<<Param, m>>}, {})
      BY <1>1, <1>4, <2>2
    <3>2. m = 0 \/ \A k \in DOMAIN stack : stack[k].saveparam.malloc # m
      BY <1>2, <2>2 DEF ParamsOwned
    <3>3. m = 0 \/ (shellparam'.malloc # m /\ \A k \in DOMAIN stack' : stack'[k].saveparam.malloc # m)
      BY <1>4, <1>5, <3>1, <3>2
    <3>4. freed' = {}
      <4> HIDE DEF m
      <4> QED
        BY <1>2, <1>4, <3>1, <3>3, ParamFreed
    <3>5. \A k \in DOMAIN stack' : shellparam'.malloc # 0 => stack'[k].saveparam.malloc # shellparam'.malloc
      BY <1>2, <1>4, <1>5, <3>1 DEF ParamsOwned
    <3>6. \A j, k \in DOMAIN stack' :
            j # k /\ stack'[j].saveparam.malloc # 0 => stack'[j].saveparam.malloc # stack'[k].saveparam.malloc
      BY <1>2, <1>4, <1>5 DEF ParamsOwned
    <3>7. ParamsOwned'
      BY <3>1, <3>5, <3>6 DEF ParamsOwned
    <3> QED
      BY <1>4, <1>6, <3>1, <3>4, <3>7
  <2> QED
    BY <1>3, <2>1, <2>2
<1>8. Len(stack') <= MaxDepth
  BY <1>2, <1>4, <1>5, VarsAssumption DEF Typed
<1>9. Typed'
  BY <1>1, <1>2, <1>4, <1>7, <1>8 DEF Typed
<1>10. Owned(vartab, Log(stack))'
  BY <1>1, <1>2, <1>4
<1> QED
  BY <1>7, <1>9, <1>10 DEF VarsInv

\* A text that nothing local has kept, since nothing is local.
LEMMA NothingLocal ==
  ASSUME NEW s, Len(s) = 0, NEW tab \in [Vars -> Var_t],
         \A v \in Vars : /\ tab[v].here \/ tab[v] = Absent
                         /\ tab[v].textfixed /\ tab[v].text # 0 => tab[v].readonly
  PROVE  Owned(tab, Log(s)) /\ DOMAIN Log(s) = {}
<1>1. DOMAIN Log(s) = {}
  <2>1. 1 .. Len(s) = {}
    OBVIOUS
  <2>2. \A a : a \notin Ages(s)
    BY <2>1 DEF Ages
  <2> QED
    BY <2>2 DEF Log
<1>2. ASSUME NEW v \in Vars PROVE Suits(tab[v], v, Log(s), {})
  BY DEF Suits
<1> QED
  BY <1>1, <1>2 DEF Owned

LEMMA ShellProcInv ==
  ASSUME VarsInv, Allowed = {}, ShellProc
  PROVE  VarsInv'
<1>1. /\ pc = "run" /\ stack = <<>> /\ UNCHANGED stack /\ pc' = "run"
      /\ optval' = {} /\ jobctl' = FALSE
      /\ \E a \in Args : shellparam' = [malloc |-> FreshParam, args |-> a]
  BY DEF ShellProc
<1>2. /\ vartab \in [Vars -> Var_t] /\ freed = {} /\ Typed /\ stack \in Seq(Frame)
  BY DEF VarsInv, Typed
<1>3. PICK given \in {{}} \cup {{v} : v \in {w \in Vars : ~vartab[w].readonly}}, x \in Values :
        LET set(v) == IF v \in given THEN [Assigned(v, x) EXCEPT !.exported = TRUE] ELSE vartab[v]
            forgotten(v) == IF v \in Static THEN initvar(v)
                            ELSE [Absent EXCEPT !.text = vartab[v].text, !.textfixed = vartab[v].textfixed]
        IN  /\ vartab' = [v \in Vars |-> IF set(v).exported THEN set(v)
                                         ELSE IF stack = <<>> /\ v \notin Static THEN Absent
                                         ELSE forgotten(v)]
            /\ Frees((UNION {TextOf(v) : v \in {w \in Vars : w \in given \/ ~vartab[w].exported}})
                        \cup {<<Param, shellparam.malloc>>},
                     {<<v, Fresh(v)>> : v \in given} \cup {<<Param, FreshParam>>})
  BY DEF ShellProc
<1> DEFINE new(v) == [Assigned(v, x) EXCEPT !.exported = TRUE]
           F == (UNION {TextOf(v) : v \in {w \in Vars : w \in given \/ ~vartab[w].exported}})
                        \cup {<<Param, shellparam.malloc>>}
           A == {<<v, Fresh(v)>> : v \in given} \cup {<<Param, FreshParam>>}
<1>4. Frees(F, A) /\ DOMAIN vartab' = Vars
  BY <1>3
<1>5. ASSUME NEW v \in given
      PROVE  vartab'[v] = new(v) /\ new(v) \in Var_t /\ new(v).here /\ ~new(v).textfixed
             /\ new(v).text = Fresh(v)
  <2>1. v \in Vars
    BY <1>3
  <2>2. vartab[v] \in Var_t /\ Fresh(v) \in Nat
    BY <2>1, VarInv
  <2>3. PICK a \in Var_t : a = Assigned(v, x)
    BY <2>1, <2>2, AssignedIs
  <2>4. a.text = Fresh(v) /\ a.here /\ ~a.textfixed
    BY <2>1, <2>2, <2>3, AssignedIs
  <2>5. PICK t \in BOOLEAN : t = TRUE
    OBVIOUS
  <2>6. new(v) = [a EXCEPT !.exported = t]
    BY <2>3, <2>5
  <2>7. new(v) \in Var_t /\ Like(new(v), a)
    <3> HIDE DEF new
    <3> QED
      BY <2>6, ExportedIs
  <2>8. new(v).exported = t
    <3>1. [a EXCEPT !.exported = t].exported = t
      BY DEF Var_t
    <3> HIDE DEF new
    <3> QED
      BY <2>6, <3>1
  <2>9. new(v).exported
    <3> HIDE DEF new
    <3> QED
      BY <2>5, <2>8, Zenon
  <2>10. vartab'[v] = new(v)
    BY <1>3, <2>1, <2>9
  <2> HIDE DEF new
  <2> QED
    BY <2>4, <2>7, <2>10 DEF Like
<1>6. ASSUME NEW v \in Vars, v \notin given
      PROVE  /\ vartab[v].exported => vartab'[v] = vartab[v]
             /\ ~vartab[v].exported => vartab'[v] \in {Absent, initvar(v)}
  BY <1>1, <1>3, <1>6
<1> HIDE DEF new, F, A
<1>7. ASSUME NEW v \in Vars
      PROVE  /\ vartab'[v] \in Var_t /\ (vartab'[v].here \/ vartab'[v] = Absent)
             /\ vartab'[v].textfixed /\ vartab'[v].text # 0 => vartab'[v].readonly
             /\ ~vartab[v].exported /\ v \notin given => vartab'[v].text = 0
  <2>1. CASE v \in given
    BY <1>5, <2>1
  <2>2. CASE v \notin given /\ ~vartab[v].exported
    BY <1>6, <2>2, AbsentIs, InitvarIs
  <2>3. CASE v \notin given /\ vartab[v].exported
    <3>1. vartab'[v] = vartab[v]
      BY <1>6, <2>3
    <3>2. vartab[v] \in Var_t /\ Suits(vartab[v], v, Log(stack), DOMAIN Log(stack))
      BY VarInv
    <3>3. DOMAIN Log(stack) = {}
      <4>1. 1 .. Len(stack) = {}
        BY <1>1
      <4> QED
        BY <4>1 DEF Log, Ages
    <3>4. vartab[v].here \/ vartab[v] = Absent
      BY <3>2 DEF Suits
    <3>5. vartab[v].textfixed /\ vartab[v].text # 0 => vartab[v].readonly
      BY <3>2, <3>3 DEF Suits
    <3> QED
      BY <2>3, <3>1, <3>2, <3>4, <3>5
  <2> QED
    BY <2>1, <2>2, <2>3
<1>8. vartab' \in [Vars -> Var_t]
  <2>1. vartab' = [v \in Vars |-> vartab'[v]]
    BY <1>3
  <2> QED
    BY <1>7, <2>1
<1>9. FreshParam \in Nat \ {0}
  BY <1>2, FreshParamFacts
<1>10. shellparam' \in Params_t /\ shellparam'.malloc = FreshParam
  BY <1>1, <1>9 DEF Params_t
<1>11. Typed'
  BY <1>1, <1>2, <1>8, <1>10 DEF Typed
<1>12. ParamsOwned'
  BY <1>1 DEF ParamsOwned
<1>13. stack' = <<>> /\ stack' \in Seq(Frame) /\ DOMAIN stack' = {}
  BY <1>1, <1>2
<1>14. Owned(vartab', Log(stack')) /\ DOMAIN Log(stack') = {}
  <2>1. Len(stack') = 0
    BY <1>13
  <2> QED
    BY <1>7, <1>8, <2>1, NothingLocal
<1>15. freed' = {}
  <2>1. ASSUME NEW b \in F \ A
        PROVE  \/ \E v \in Vars : \E t : b = <<v, t>> /\ (t = 0 \/ (vartab'[v].text # t /\ ~Keeps(Log(stack'), v, t)))
               \/ \E m : b = <<Param, m>> /\ (m = 0 \/ (/\ shellparam'.malloc # m
                                                        /\ \A k \in DOMAIN stack' : stack'[k].saveparam.malloc # m))
    <3>1. CASE b = <<Param, shellparam.malloc>>
      <4>1. shellparam.malloc # FreshParam
        BY <2>1, <3>1 DEF A
      <4> QED
        BY <1>10, <1>13, <3>1, <4>1
    <3>2. CASE \E v \in Vars : b \in TextOf(v) /\ (v \in given \/ ~vartab[v].exported)
      <4>1. PICK v \in Vars : b \in TextOf(v) /\ (v \in given \/ ~vartab[v].exported)
        BY <3>2
      <4>2. b = <<v, vartab[v].text>>
        BY <4>1 DEF TextOf
      <4>3. ~Keeps(Log(stack'), v, vartab[v].text)
        BY <1>14 DEF Keeps
      <4>4. CASE v \in given
        <5>1. vartab[v].text # Fresh(v)
          BY <2>1, <4>2, <4>4 DEF A
        <5> QED
          BY <1>5, <4>2, <4>3, <4>4, <5>1
      <4>5. CASE v \notin given
        BY <1>7, <4>1, <4>2, <4>3, <4>5
      <4> QED
        BY <4>4, <4>5
    <3>3. b \in F
      BY <2>1
    <3> QED
      BY <3>1, <3>2, <3>3 DEF F
  <2> QED
    BY <1>2, <1>4, <1>13, <2>1, FreedNone
<1>16. Owned(vartab, Log(stack))'
  BY <1>14
<1> QED
  BY <1>11, <1>12, <1>15, <1>16 DEF VarsInv

LEMMA InitInv ==
  ASSUME Init
  PROVE  VarsInv
<1>1. /\ \A v \in Vars :
           \/ vartab[v] = IF v \in Static THEN initvar(v) ELSE Absent
           \/ \E x \in Values : vartab[v] = Imported(v, x)
      /\ DOMAIN vartab = Vars
      /\ freed = {} /\ shellparam \in [malloc : {0}, args : Args] /\ optval \in SUBSET Options
      /\ jobctl = ("j" \in optval) /\ stack = <<>> /\ pc = "run"
  BY DEF Init
<1>2. \A v \in Vars : /\ vartab[v] \in Var_t /\ (vartab[v].here \/ vartab[v] = Absent)
                      /\ (vartab[v].textfixed /\ vartab[v].text # 0 => vartab[v].readonly)
  <2> TAKE v \in Vars
  <2>1. CASE vartab[v] = Absent
    BY <2>1, AbsentIs
  <2>2. CASE vartab[v] = initvar(v)
    BY <2>2, InitvarIs
  <2>3. ASSUME NEW x \in Values, vartab[v] = Imported(v, x)
        PROVE  /\ vartab[v] \in Var_t /\ (vartab[v].here \/ vartab[v] = Absent)
               /\ (vartab[v].textfixed /\ vartab[v].text # 0 => vartab[v].readonly)
    BY <2>3, ImportedIs
  <2>4. vartab[v] \in {Absent, initvar(v)} \/ \E x \in Values : vartab[v] = Imported(v, x)
    BY <1>1
  <2> QED
    BY <2>1, <2>2, <2>3, <2>4
<1>3. vartab = [v \in Vars |-> vartab[v]]
  BY DEF Init
<1>4. vartab \in [Vars -> Var_t]
  BY <1>2, <1>3
<1>5. stack \in Seq(Frame) /\ Len(stack) = 0
  BY <1>1
<1>6. Len(stack) <= MaxDepth
  BY <1>5, VarsAssumption
<1>7. shellparam \in Params_t /\ jobctl \in BOOLEAN
  BY <1>1 DEF Params_t
<1>8. Typed
  BY <1>1, <1>4, <1>5, <1>6, <1>7 DEF Typed
<1>9. ParamsOwned
  BY <1>1 DEF ParamsOwned
<1>10. Owned(vartab, Log(stack))
  BY <1>1, <1>2, <1>4, NothingLocal
<1> QED
  BY <1>1, <1>8, <1>9, <1>10 DEF VarsInv

-----------------------------------------------------------------------------
(* The owners of a text                                                      *)

AgeOf(s, p) == <<p[1], Len(s[p[1]].localvars) + 1 - p[2]>>

\* Of two local variables one was made before the other.
LEMMA AgeOrder ==
  ASSUME NEW s \in Seq(Frame), NEW p \in PlacesIn(s), NEW q \in PlacesIn(s), p # q
  PROVE  /\ AgeOf(s, p) \in Ages(s) /\ Log(s)[AgeOf(s, p)] = AtIn(s, p)
         /\ AgeOf(s, q) \in Ages(s) /\ Log(s)[AgeOf(s, q)] = AtIn(s, q)
         /\ Before(AgeOf(s, p), AgeOf(s, q)) \/ Before(AgeOf(s, q), AgeOf(s, p))
<1>1. ASSUME NEW r \in PlacesIn(s)
      PROVE  /\ AgeOf(s, r) \in Ages(s) /\ Log(s)[AgeOf(s, r)] = AtIn(s, r)
             /\ AgeOf(s, r)[1] = r[1] /\ r[1] \in Nat /\ r[2] \in Nat
             /\ Len(s[r[1]].localvars) \in Nat
             /\ AgeOf(s, r)[2] = Len(s[r[1]].localvars) + 1 - r[2]
             /\ r = <<r[1], r[2]>>
  <2>1. r[1] \in 1 .. Len(s) /\ r[2] \in 1 .. Len(s[r[1]].localvars) /\ r = <<r[1], r[2]>>
    BY PlaceFacts
  <2>2. PICK n \in Nat : n = Len(s[r[1]].localvars)
    BY <2>1, FrameFacts
  <2>3. n + 1 - r[2] \in 1 .. n /\ n + 1 - (n + 1 - r[2]) = r[2]
    BY <2>1, <2>2
  <2>4. AgeOf(s, r)[1] = r[1] /\ AgeOf(s, r)[2] = n + 1 - r[2] /\ AgeOf(s, r) = <<r[1], n + 1 - r[2]>>
    BY <2>2 DEF AgeOf
  <2>5. AgeOf(s, r) \in Ages(s)
    BY <2>1, <2>2, <2>3, <2>4, AgeFacts
  <2>6. Item(s, AgeOf(s, r)) = AtIn(s, r)
    BY <2>2, <2>3, <2>4 DEF Item, AtIn
  <2> QED
    BY <2>1, <2>2, <2>4, <2>5, <2>6, ItemFacts
<1>2. CASE p[1] # q[1]
  BY <1>1, <1>2 DEF Before
<1>3. CASE p[1] = q[1]
  <2>1. p[2] # q[2]
    BY <1>1, <1>3
  <2>2. PICK n \in Nat : n = Len(s[p[1]].localvars)
    BY <1>1
  <2>3. AgeOf(s, p)[2] = n + 1 - p[2] /\ AgeOf(s, q)[2] = n + 1 - q[2]
    BY <1>1, <1>3, <2>2
  <2>4. n + 1 - p[2] < n + 1 - q[2] \/ n + 1 - q[2] < n + 1 - p[2]
    BY <1>1, <2>1, <2>2
  <2> QED
    BY <1>1, <1>3, <2>3, <2>4 DEF Before
<1> QED
  BY <1>1, <1>2, <1>3

\* Local variable p has kept text t and will free it.
Owns(s, v, t, p) == /\ p \in PlacesIn(s) /\ Copy(AtIn(s, p), v)
                    /\ AtIn(s, p).was.text = t /\ ~AtIn(s, p).was.textfixed

\* No two local variables own the same text.
LEMMA OneCopyOwns ==
  ASSUME VarsInv, NEW v \in Vars, NEW t, NEW p, NEW q, Owns(stack, v, t, p), Owns(stack, v, t, q)
  PROVE  p = q
<1> DEFINE f == Log(stack)
<1>1. stack \in Seq(Frame) /\ Owned(vartab, f) /\ v # "-"
  BY VarsAssumption DEF VarsInv, Typed
<1> SUFFICES ASSUME p # q PROVE FALSE
  OBVIOUS
<1>2. PICK a \in Ages(stack), b \in Ages(stack) :
        /\ f[a] = AtIn(stack, p) /\ f[b] = AtIn(stack, q)
        /\ Before(a, b) \/ Before(b, a)
  BY <1>1, AgeOrder DEF Owns
<1>3. DOMAIN f = Ages(stack)
  BY DEF Log
<1> HIDE DEF f
<1>4. ASSUME NEW c \in DOMAIN f, NEW d \in DOMAIN f, Before(d, c),
             Copy(f[c], v), f[c].was.text = t, ~f[c].was.textfixed,
             Copy(f[d], v), f[d].was.text = t
      PROVE  FALSE
  <2>1. Linked(f, c)
    BY <1>1, <1>4 DEF Owned, Copy
  <2>2. Suits(f[c].was, v, f, Earlier(f, c))
    BY <1>4, <2>1 DEF Linked, Copy
  <2>3. d \in Earlier(f, c)
    BY <1>4 DEF Earlier
  <2> QED
    BY <1>4, <2>2, <2>3 DEF Suits
<1> QED
  BY <1>2, <1>3, <1>4 DEF Owns

\* A text that is kept, of a variable that is not read-only, is owned.
LEMMA SomeOwner ==
  ASSUME VarsInv, NEW v \in Vars, ~vartab[v].readonly, NEW t, t # 0,
         t = vartab[v].text \/ Keeps(Log(stack), v, t)
  PROVE  (vartab[v].text = t /\ ~vartab[v].textfixed) \/ \E p : Owns(stack, v, t, p)
<1> DEFINE f == Log(stack)
           d == vartab[v]
<1>1. stack \in Seq(Frame) /\ Owned(vartab, f) /\ v # "-" /\ Suits(d, v, f, DOMAIN f)
  BY VarsAssumption DEF VarsInv, Typed, Owned
<1>2. DOMAIN f = Ages(stack)
  BY DEF Log
<1>3. (\E a \in DOMAIN f : Copy(f[a], v) /\ f[a].was.text = t /\ ~f[a].was.textfixed)
        => \E p : Owns(stack, v, t, p)
  BY <1>1, <1>2, PlaceOfAge DEF Owns
<1> HIDE DEF f, d
<1>4. CASE t = d.text
  BY <1>1, <1>3, <1>4 DEF Suits, d
<1>5. ASSUME NEW a \in DOMAIN f, Copy(f[a], v), f[a].was.text = t
      PROVE  \E p : Owns(stack, v, t, p)
  <2>1. CASE ~f[a].was.textfixed
    BY <1>3, <1>5, <2>1
  <2>2. CASE f[a].was.textfixed
    <3>1. ~f[a].was.readonly
      BY <1>1, <1>5 DEF Suits, d
    <3>2. Linked(f, a)
      BY <1>1, <1>5 DEF Owned, Copy
    <3>3. Suits(f[a].was, v, f, Earlier(f, a))
      BY <1>5, <3>2 DEF Linked, Copy
    <3>4. \E b \in Earlier(f, a) : Copy(f[b], v) /\ f[b].was.text = t /\ ~f[b].was.textfixed
      BY <1>5, <2>2, <3>1, <3>3 DEF Suits
    <3>5. \E b \in DOMAIN f : Copy(f[b], v) /\ f[b].was.text = t /\ ~f[b].was.textfixed
      BY <3>4 DEF Earlier
    <3> QED
      BY <1>3, <3>5
  <2> QED
    BY <2>1, <2>2
<1>6. Keeps(f, v, t) => \E a \in DOMAIN f : Copy(f[a], v) /\ f[a].was.text = t
  BY DEF Keeps
<1> QED
  BY <1>4, <1>5, <1>6 DEF f, d

LEMMA OneOwner ==
  ASSUME VarsInv
  PROVE  OwnedOnce
<1> SUFFICES ASSUME NEW v \in Vars, NEW t \in Texts(v) \ {0}
             PROVE  LET owners == {e \in {<<<<>>, vartab[v]>>} \cup {<<p, At(p).was>> : p \in Copies(v)} :
                                      e[2].text = t /\ ~e[2].textfixed}
                    IN  Cardinality(owners) = 1 \/ (owners = {} /\ vartab[v].readonly)
  BY DEF OwnedOnce
<1> DEFINE self == <<<<>>, vartab[v]>>
           copies == {<<p, At(p).was>> : p \in Copies(v)}
           owners == {e \in {self} \cup copies : e[2].text = t /\ ~e[2].textfixed}
<1>1. /\ stack \in Seq(Frame) /\ Suits(vartab[v], v, Log(stack), DOMAIN Log(stack))
      /\ ~vartab[v].textfixed => ~Keeps(Log(stack), v, vartab[v].text)
  BY VarInv
<1>2. \A p : p \in Copies(v) <=> p \in PlacesIn(stack) /\ Copy(AtIn(stack, p), v)
  BY DEF Copies, Saves, Places, At, PlacesIn, AtIn, Copy
<1>3. \A p : At(p) = AtIn(stack, p)
  BY DEF At, AtIn
<1>4. \A e : e \in owners <=>
        \/ e = self /\ vartab[v].text = t /\ ~vartab[v].textfixed
        \/ \E p : e = <<p, AtIn(stack, p).was>> /\ Owns(stack, v, t, p)
  <2> TAKE e
  <2>1. self[2] = vartab[v]
    OBVIOUS
  <2>2. \A p : <<p, AtIn(stack, p).was>>[2] = AtIn(stack, p).was
    OBVIOUS
  <2>3. e \in copies <=> \E p : /\ e = <<p, AtIn(stack, p).was>>
                                /\ p \in PlacesIn(stack) /\ Copy(AtIn(stack, p), v)
    BY <1>2, <1>3
  <2>4. e \in owners <=> (e = self \/ e \in copies) /\ e[2].text = t /\ ~e[2].textfixed
    OBVIOUS
  <2> HIDE DEF self, copies, owners
  <2> QED
    BY <2>1, <2>2, <2>3, <2>4 DEF Owns
<1>5. t = vartab[v].text \/ Keeps(Log(stack), v, t)
  <2>1. t \in KeptTexts(v) \/ t = vartab[v].text
    BY DEF Texts
  <2> QED
    BY <1>1, <2>1, KeptTextsIs, KeptFacts
<1>6. \A p : Owns(stack, v, t, p) => Keeps(Log(stack), v, t)
  <2>1. DOMAIN Log(stack) = Ages(stack)
    BY DEF Log
  <2> QED
    BY <1>1, <2>1, PlaceOfAge DEF Owns, Keeps
<1>7. \A e, d \in owners : e = d
  <2> HIDE DEF owners
  <2> QED
    BY <1>1, <1>4, <1>6, OneCopyOwns
<1>8. ~vartab[v].readonly => owners # {}
  <2>1. ASSUME ~vartab[v].readonly PROVE \E e : e \in owners
    <3>1. t # 0
      OBVIOUS
    <3> HIDE DEF owners
    <3> QED
      BY <1>4, <1>5, <2>1, <3>1, SomeOwner
  <2> QED
    BY <2>1
<1> HIDE DEF owners
<1>9. ASSUME owners # {} PROVE Cardinality(owners) = 1
  <2>1. PICK e : e \in owners
    BY <1>9
  <2>2. owners = {e}
    BY <1>7, <2>1
  <2> QED
    BY <2>2, FS_Singleton
<1>10. Cardinality(owners) = 1 \/ (owners = {} /\ vartab[v].readonly)
  BY <1>8, <1>9
<1> QED
  BY <1>10 DEF owners

-----------------------------------------------------------------------------
(* Theorems                                                                  *)

LEMMA NextInv ==
  ASSUME VarsInv, Allowed = {}, [Next]_vars
  PROVE  VarsInv'
<1>1. CASE UNCHANGED vars
  <2>1. UNCHANGED <<vartab, freed, shellparam, optval, jobctl, stack, pc>>
    BY <1>1 DEF vars
  <2>2. Typed'
    BY <2>1 DEF VarsInv, Typed
  <2>3. ParamsOwned'
    BY <2>1 DEF VarsInv, ParamsOwned
  <2>4. Owned(vartab, Log(stack))'
    BY <2>1 DEF VarsInv
  <2> QED
    BY <2>1, <2>2, <2>3, <2>4 DEF VarsInv
<1>2. CASE Raise
  BY <1>2, RaiseInv
<1>3. CASE setparam
  BY <1>3, setparamInv
<1>4. CASE setcmd
  BY <1>4, setcmdInv
<1>5. CASE CallFunction
  BY <1>5, CallFunctionInv
<1>6. CASE mklocal_options
  BY <1>6, mklocal_optionsInv
<1>7. CASE Return
  BY <1>7, ReturnInv
<1>8. CASE PopOptions
  BY <1>8, PopOptionsInv
<1>9. CASE PopVariable
  BY <1>9, PopVariableInv
<1>10. CASE PopCut
  BY <1>10, PopCutInv
<1>11. CASE PopFunction
  BY <1>11, PopFunctionInv
<1>12. CASE ShellProc
  BY <1>12, ShellProcInv
<1>13. ASSUME NEW v \in Vars,
              \/ setvar(v) \/ unsetvar(v) \/ exportcmd(v)
              \/ mklocal(v) \/ mklocal_existing(v) \/ mklocal_error(v)
       PROVE  VarsInv'
  BY <1>13, setvarInv, unsetvarInv, exportcmdInv, mklocalInv, mklocal_existingInv, mklocal_errorInv
<1> QED
  BY <1>1, <1>2, <1>3, <1>4, <1>5, <1>6, <1>7, <1>8, <1>9, <1>10, <1>11, <1>12, <1>13 DEF Next

\* Where the shell is not exposed to the kinds of AllowedKinds: what each local
\* variable has kept suits those that were made before it, and the present state
\* of a variable suits them all.
THEOREM Invariance == ASSUME Allowed = {} PROVE Spec => []VarsInv
<1>1. Init => VarsInv
  BY InitInv
<1>2. VarsInv /\ [Next]_vars => VarsInv'
  BY NextInv
<1> QED
  BY <1>1, <1>2, PTL DEF Spec

\* The variables of the model have their types, whatever is called and abandoned.
THEOREM TypeCorrect == ASSUME Allowed = {} PROVE Spec => []TypeOK
<1>1. VarsInv => TypeOK
  BY DEF VarsInv, Typed, TypeOK, Var_t, Params_t
<1> QED
  BY <1>1, Invariance, PTL

\* No text and no list of parameters is freed while a variable, a local variable
\* or a function still points to it, for any nesting of functions and any number
\* of variables made local, assigned, unset, exported and restored.
THEOREM NothingDangles == ASSUME Allowed = {} PROVE Spec => []NoDangling
<1>1. VarsInv => NoDangling
  BY DEF VarsInv, NoDangling
<1> QED
  BY <1>1, Invariance, PTL

\* Every allocated text has exactly one owner that will free it, except that of a
\* read-only variable after a local v=x that was refused.
THEOREM TextsHaveOneOwner == ASSUME Allowed = {} PROVE Spec => []OwnedOnce
<1>1. VarsInv => OwnedOnce
  BY OneOwner
<1> QED
  BY <1>1, Invariance, PTL

-----------------------------------------------------------------------------
(* What functions keep                                                       *)

\* What a function keeps because of the local variable lv, if it is the oldest of
\* its name, and what it keeps when lv has been added.
Kept_by(lv) == IF lv.var = "-" THEN lv.was ELSE Attr(IF lv.created THEN Absent ELSE lv.was)

Extended(h, lv) ==
    [v \in DOMAIN h \cup {lv.var} |-> IF v \in DOMAIN h THEN h[v] ELSE Kept_by(lv)]

LEMMA MaxFacts ==
  ASSUME NEW n \in Nat, NEW T, T \subseteq 1 .. n, T # {}
  PROVE  Max(T) \in T /\ \A y \in T : y <= Max(T)
<1> DEFINE U == {n - x : x \in T}
<1>1. U \subseteq Nat /\ U # {}
  <2>1. \A x \in T : x \in 1 .. n
    OBVIOUS
  <2>2. \A x \in T : n - x \in Nat
    BY <2>1
  <2> QED
    BY <2>2
<1>2. PICK u \in U : \A w \in U : u <= w
  BY <1>1, HasMin
<1>3. PICK x \in T : u = n - x
  BY <1>2
<1>4. \A y \in T : x >= y
  <2> TAKE y \in T
  <2>1. n - x <= n - y
    BY <1>2, <1>3
  <2>2. x \in 1 .. n /\ y \in 1 .. n
    OBVIOUS
  <2> QED
    BY <2>1, <2>2
<1>5. Max(T) \in T /\ \A y \in T : Max(T) >= y
  BY <1>4 DEF Max
<1> QED
  BY <1>5

\* The index of the oldest local variable v in l.
Oldest(l, v, m) == m \in 1 .. Len(l) /\ l[m].var = v /\ \A j \in 1 .. Len(l) : l[j].var = v => j <= m

LEMMA HeldFacts ==
  ASSUME NEW l \in Seq(Local_t)
  PROVE  /\ \A v : v \in DOMAIN Held(l) <=> \E j \in 1 .. Len(l) : l[j].var = v
         /\ \A v, m : Oldest(l, v, m) => Held(l)[v] = Kept_by(l[m])
         /\ \A v \in DOMAIN Held(l) : \E m : Oldest(l, v, m)
         /\ Held(l) = [v \in DOMAIN Held(l) |-> Held(l)[v]]
<1> DEFINE I(v) == {i \in DOMAIN l : l[i].var = v}
           n == Len(l)
<1>1. n \in Nat /\ DOMAIN l = 1 .. n
  BY LenProperties
<1>2. Held(l) = [v \in {lv.var : lv \in Range(l)} |->
                    IF v = "-" THEN l[Max(I(v))].was
                    ELSE Attr(IF l[Max(I(v))].created THEN Absent ELSE l[Max(I(v))].was)]
  BY DEF Held
<1>3. \A v : v \in DOMAIN Held(l) <=> \E j \in 1 .. n : l[j].var = v
  BY <1>1, <1>2 DEF Range
<1>4. ASSUME NEW v, NEW j \in 1 .. n, l[j].var = v
      PROVE  Max(I(v)) \in I(v) /\ \A i \in I(v) : i <= Max(I(v))
  <2>1. I(v) \subseteq 1 .. n /\ I(v) # {}
    BY <1>1, <1>4
  <2> HIDE DEF I
  <2> QED
    BY <1>1, <2>1, MaxFacts
<1>5. ASSUME NEW v, NEW m, Oldest(l, v, m) PROVE Held(l)[v] = Kept_by(l[m])
  <2>1. m \in 1 .. n /\ l[m].var = v
    BY <1>5 DEF Oldest
  <2>2. Max(I(v)) \in I(v) /\ \A i \in I(v) : i <= Max(I(v))
    BY <1>4, <2>1
  <2>3. Max(I(v)) = m
    <3>1. m \in I(v) /\ Max(I(v)) \in 1 .. n /\ l[Max(I(v))].var = v
      BY <1>1, <2>1, <2>2
    <3>2. Max(I(v)) <= m
      BY <1>5, <3>1 DEF Oldest
    <3>3. m <= Max(I(v))
      BY <2>2, <3>1
    <3> QED
      BY <1>1, <2>1, <3>1, <3>2, <3>3
  <2>4. v \in DOMAIN Held(l)
    BY <1>3, <2>1
  <2> HIDE DEF I
  <2>5. Held(l)[v] = IF v = "-" THEN l[m].was ELSE Attr(IF l[m].created THEN Absent ELSE l[m].was)
    BY <1>2, <2>3, <2>4
  <2> QED
    BY <2>1, <2>5 DEF Kept_by
<1>6. ASSUME NEW v \in DOMAIN Held(l) PROVE \E m : Oldest(l, v, m)
  <2>1. Max(I(v)) \in I(v) /\ \A i \in I(v) : i <= Max(I(v))
    BY <1>3, <1>4
  <2>2. Oldest(l, v, Max(I(v)))
    BY <1>1, <2>1 DEF Oldest
  <2> QED
    BY <2>2
<1>7. Held(l) = [v \in DOMAIN Held(l) |-> Held(l)[v]]
  BY <1>2
<1> QED
  BY <1>3, <1>5, <1>6, <1>7

\* A local variable that is added goes before the others; the oldest of a name counts.
LEMMA HeldPush ==
  ASSUME NEW l \in Seq(Local_t), NEW lv \in Local_t
  PROVE  Held(<<lv>> \o l) = Extended(Held(l), lv)
<1> DEFINE t == <<lv>> \o l
           n == Len(l)
<1>1. /\ t \in Seq(Local_t) /\ Len(t) = n + 1 /\ n \in Nat
      /\ t[1] = lv /\ \A i \in 1 .. n : t[i + 1] = l[i]
  <2>1. <<lv>> \in Seq(Local_t) /\ Len(<<lv>>) = 1 /\ <<lv>>[1] = lv
    OBVIOUS
  <2>2. n \in Nat
    BY LenProperties
  <2>3. /\ t \in Seq(Local_t) /\ Len(t) = 1 + n
        /\ \A i \in 1 .. 1 + n : t[i] = IF i <= 1 THEN <<lv>>[i] ELSE l[i - 1]
    BY <2>1, ConcatProperties
  <2>4. \A i \in 1 .. n : (i + 1) - 1 = i /\ ~(i + 1 <= 1) /\ i + 1 \in 1 .. 1 + n
    BY <2>2
  <2> HIDE DEF t
  <2> QED
    BY <2>1, <2>2, <2>3, <2>4
<1> HIDE DEF t, n
<1>2. \A i \in 1 .. n + 1 : i # 1 => i - 1 \in 1 .. n /\ t[i] = l[i - 1]
  <2> TAKE i \in 1 .. n + 1
  <2> HAVE i # 1
  <2>1. i - 1 \in 1 .. n /\ (i - 1) + 1 = i
    BY <1>1
  <2> QED
    BY <1>1, <2>1
<1>3. DOMAIN Held(t) = DOMAIN Held(l) \cup {lv.var}
  <2>1. \A v : v \in DOMAIN Held(t) <=> \E j \in 1 .. n + 1 : t[j].var = v
    BY <1>1, HeldFacts
  <2>2. \A v : v \in DOMAIN Held(l) <=> \E j \in 1 .. n : l[j].var = v
    BY HeldFacts DEF n
  <2>3. ASSUME NEW v PROVE (\E j \in 1 .. n + 1 : t[j].var = v) <=> v = lv.var \/ \E j \in 1 .. n : l[j].var = v
    <3>1. ASSUME NEW j \in 1 .. n + 1, t[j].var = v PROVE v = lv.var \/ \E i \in 1 .. n : l[i].var = v
      BY <1>1, <1>2, <3>1
    <3>2. v = lv.var => 1 \in 1 .. n + 1 /\ t[1].var = v
      BY <1>1
    <3>3. ASSUME NEW j \in 1 .. n, l[j].var = v PROVE \E i \in 1 .. n + 1 : t[i].var = v
      <4>1. j + 1 \in 1 .. n + 1 /\ t[j + 1] = l[j]
        BY <1>1
      <4> QED
        BY <3>3, <4>1
    <3> QED
      BY <3>1, <3>2, <3>3
  <2> QED
    BY <2>1, <2>2, <2>3
<1>4. ASSUME NEW v \in DOMAIN Held(l) PROVE Held(t)[v] = Held(l)[v]
  <2>1. PICK m : Oldest(l, v, m)
    BY HeldFacts
  <2>2. Held(l)[v] = Kept_by(l[m])
    BY <2>1, HeldFacts
  <2>3. Oldest(t, v, m + 1) /\ t[m + 1] = l[m]
    <3>1. m \in 1 .. n /\ l[m].var = v /\ \A j \in 1 .. n : l[j].var = v => j <= m
      BY <2>1 DEF Oldest, n
    <3>2. m + 1 \in 1 .. n + 1 /\ t[m + 1] = l[m]
      BY <1>1, <3>1
    <3>3. ASSUME NEW j \in 1 .. n + 1, t[j].var = v PROVE j <= m + 1
      <4>1. CASE j = 1
        BY <3>1, <4>1
      <4>2. CASE j # 1
        <5>1. j - 1 \in 1 .. n /\ t[j] = l[j - 1]
          BY <1>2, <4>2
        <5>2. j - 1 <= m
          BY <3>1, <3>3, <5>1
        <5> QED
          BY <3>1, <5>2
      <4> QED
        BY <4>1, <4>2
    <3> QED
      BY <1>1, <3>1, <3>2, <3>3 DEF Oldest
  <2>4. Held(t)[v] = Kept_by(t[m + 1])
    BY <1>1, <2>3, HeldFacts
  <2> QED
    BY <2>2, <2>3, <2>4
<1>5. lv.var \notin DOMAIN Held(l) => Held(t)[lv.var] = Kept_by(lv)
  <2> HAVE lv.var \notin DOMAIN Held(l)
  <2>1. \A j \in 1 .. n : l[j].var # lv.var
    BY HeldFacts DEF n
  <2>2. Oldest(t, lv.var, 1)
    <3>1. 1 \in 1 .. n + 1 /\ t[1].var = lv.var
      BY <1>1
    <3>2. \A j \in 1 .. n + 1 : t[j].var = lv.var => j <= 1
      BY <1>2, <2>1
    <3> QED
      BY <1>1, <3>1, <3>2 DEF Oldest
  <2> QED
    BY <1>1, <2>2, HeldFacts
<1>6. Held(t) = [v \in DOMAIN Held(t) |-> Held(t)[v]]
  BY <1>1, HeldFacts
<1>7. Extended(Held(l), lv) = [v \in DOMAIN Held(t) |-> Held(t)[v]]
  BY <1>3, <1>4, <1>5 DEF Extended
<1> QED
  BY <1>6, <1>7 DEF t

LEMMA HeldNone == \A l : l = <<>> => DOMAIN Held(l) = {}
  BY DEF Held, Range

-----------------------------------------------------------------------------
(* What is seen of the variables                                             *)

\* What the functions of s keep.
Keeping(s) == [k \in DOMAIN s |-> Held(s[k].localvars)]

\* Of the functions in L, those that keep v; what v, which is x now, becomes when they
\* have been left.
Keepers(h, L, v) == {k \in L : v \in DOMAIN h[k]}

Now(x, h, L, v) == IF Keepers(h, L, v) = {} THEN x ELSE h[Min(Keepers(h, L, v))][v]

ScopeOf(h, f) ==
    [vars |-> [v \in DOMAIN h \ {"-"} |-> h[v]], args |-> f.saveparam.args,
     optval |-> IF "-" \in DOMAIN h THEN <<h["-"]>> ELSE <<>>]

\* What commands see when the functions in L of s have been left.
Shown(tab, args, letters, s, L) ==
    LET h == Keeping(s)
        now(v) == Now(Attr(tab[v]), h, L, v)
    IN  [value |-> [v \in Vars |-> now(v).value],
         exported |-> {v \in Vars : now(v).exported},
         readonly |-> {v \in Vars : now(v).readonly},
         args |-> IF L = {} THEN args ELSE s[Min(L)].saveparam.args,
         optval |-> Now(letters, h, L, "-"),
         scopes |-> [k \in DOMAIN s \ L |-> ScopeOf(h[k], s[k])]]

LEMMA EnvironmentIs ==
  ASSUME pc # "proc"
  PROVE  Environment = Shown(vartab, shellparam.args, optval, stack, Left)
<1> DEFINE held == [k \in DOMAIN stack |-> Held(stack[k].localvars)]
           keepers(v) == {k \in Left : v \in DOMAIN held[k]}
           after == [v \in Vars |-> IF keepers(v) = {} THEN Attr(vartab[v]) ELSE held[Min(keepers(v))][v]]
           scope(k) == [vars |-> [v \in DOMAIN held[k] \ {"-"} |-> held[k][v]],
                        args |-> stack[k].saveparam.args,
                        optval |-> IF "-" \in DOMAIN held[k] THEN <<held[k]["-"]>> ELSE <<>>]
<1>1. Environment =
        [value |-> [v \in Vars |-> after[v].value],
         exported |-> {v \in Vars : after[v].exported},
         readonly |-> {v \in Vars : after[v].readonly},
         args |-> IF Left = {} THEN shellparam.args ELSE stack[Min(Left)].saveparam.args,
         optval |-> IF keepers("-") = {} THEN optval ELSE held[Min(keepers("-"))]["-"],
         scopes |-> [k \in DOMAIN stack \ Left |-> scope(k)]]
  BY DEF Environment
<1>2. Keeping(stack) = held
  BY DEF Keeping
<1>3. \A v : keepers(v) = Keepers(held, Left, v)
  BY DEF Keepers
<1> HIDE DEF held, keepers
<1>4. \A v \in Vars : after[v] = Now(Attr(vartab[v]), held, Left, v)
  BY <1>3 DEF Now, after
<1>5. Now(optval, held, Left, "-") = IF keepers("-") = {} THEN optval ELSE held[Min(keepers("-"))]["-"]
  BY <1>3 DEF Now
<1>6. \A k : scope(k) = ScopeOf(held[k], stack[k])
  BY DEF ScopeOf, scope
<1> HIDE DEF after, scope
<1>7. Shown(vartab, shellparam.args, optval, stack, Left) =
        [value |-> [v \in Vars |-> after[v].value],
         exported |-> {v \in Vars : after[v].exported},
         readonly |-> {v \in Vars : after[v].readonly},
         args |-> IF Left = {} THEN shellparam.args ELSE stack[Min(Left)].saveparam.args,
         optval |-> IF keepers("-") = {} THEN optval ELSE held[Min(keepers("-"))]["-"],
         scopes |-> [k \in DOMAIN stack \ Left |-> scope(k)]]
  BY <1>2, <1>4, <1>5, <1>6 DEF Shown
<1> QED
  BY <1>1, <1>7

LEMMA KeepingIs ==
  ASSUME NEW s \in Seq(Frame), NEW k \in 1 .. Len(s)
  PROVE  DOMAIN Keeping(s) = 1 .. Len(s) /\ Keeping(s)[k] = Held(s[k].localvars)
BY FrameFacts DEF Keeping

\* Nothing has been left.
LEMMA NowHere ==
  ASSUME NEW x, NEW h, NEW v
  PROVE  Now(x, h, {}, v) = x
BY DEF Now, Keepers

\* k is the outermost function of L that keeps v.
First(h, L, v, k) == k \in L /\ v \in DOMAIN h[k] /\ \A j \in L : v \in DOMAIN h[j] => k <= j

LEMMA NowNone ==
  ASSUME NEW x, NEW h, NEW L, NEW v, \A k \in L : v \notin DOMAIN h[k]
  PROVE  Now(x, h, L, v) = x
BY DEF Now, Keepers

LEMMA FirstExists ==
  ASSUME NEW h, NEW L \in SUBSET Nat, NEW v, \E k \in L : v \in DOMAIN h[k]
  PROVE  \E k : First(h, L, v, k)
<1> DEFINE K == Keepers(h, L, v)
<1>1. K \subseteq Nat /\ K # {}
  BY DEF Keepers
<1>2. PICK k \in K : \A j \in K : k <= j
  BY <1>1, HasMin
<1>3. First(h, L, v, k)
  BY <1>2 DEF Keepers, First
<1> QED
  BY <1>3

LEMMA NowFirst ==
  ASSUME NEW h, NEW L \in SUBSET Nat, NEW v, NEW k, First(h, L, v, k), NEW x
  PROVE  Now(x, h, L, v) = h[k][v]
<1> DEFINE K == Keepers(h, L, v)
<1>1. K \subseteq Nat /\ k \in K /\ \A j \in K : k <= j
  BY DEF Keepers, First
<1>2. Now(x, h, L, v) = IF K = {} THEN x ELSE h[Min(K)][v]
  BY DEF Now
<1> HIDE DEF K
<1>3. Min(K) \in K /\ \A j \in K : Min(K) <= j
  BY <1>1, MinFacts
<1>4. Min(K) = k
  <2>1. k <= Min(K) /\ Min(K) <= k /\ k \in Nat /\ Min(K) \in Nat
    BY <1>1, <1>3
  <2> QED
    BY <2>1
<1> QED
  BY <1>1, <1>2, <1>4

\* What is seen depends on the functions that are left by what they keep only.
LEMMA NowSame ==
  ASSUME NEW x, NEW L \in SUBSET Nat, NEW h, NEW g, NEW v,
         \A k \in L : v \in DOMAIN g[k] <=> v \in DOMAIN h[k],
         \A k \in L : v \in DOMAIN h[k] => g[k][v] = h[k][v]
  PROVE  Now(x, g, L, v) = Now(x, h, L, v)
<1>1. CASE \A k \in L : v \notin DOMAIN h[k]
  <2>1. Now(x, h, L, v) = x
    BY <1>1, NowNone
  <2>2. Now(x, g, L, v) = x
    BY <1>1, NowNone
  <2> QED
    BY <2>1, <2>2
<1>2. CASE \E k \in L : v \in DOMAIN h[k]
  <2>1. PICK k : First(h, L, v, k)
    BY <1>2, FirstExists
  <2>2. First(g, L, v, k) /\ g[k][v] = h[k][v]
    BY <2>1 DEF First
  <2>3. Now(x, h, L, v) = h[k][v]
    BY <2>1, NowFirst
  <2>4. Now(x, g, L, v) = g[k][v]
    BY <2>2, NowFirst
  <2> QED
    BY <2>2, <2>3, <2>4
<1> QED
  BY <1>1, <1>2

\* The innermost function puts back the value of its local variable lv.
LEMMA NowPop ==
  ASSUME NEW n \in Nat, NEW L \in SUBSET (1 .. n), n \in L, NEW h, NEW g, NEW lv,
         h[n] = Extended(g[n], lv), \A k \in L : k # n => g[k] = h[k],
         NEW x, NEW y, NEW v, y = IF v = lv.var THEN Kept_by(lv) ELSE x
  PROVE  Now(y, g, L, v) = Now(x, h, L, v)
<1>0. L \in SUBSET Nat /\ \A k \in L : k <= n
  OBVIOUS
<1>1. DOMAIN h[n] = DOMAIN g[n] \cup {lv.var} /\ \A w \in DOMAIN g[n] : h[n][w] = g[n][w]
  BY DEF Extended
<1>2. lv.var \notin DOMAIN g[n] => h[n][lv.var] = Kept_by(lv)
  BY DEF Extended
<1>3. ASSUME v # lv.var \/ v \in DOMAIN g[n] PROVE Now(y, g, L, v) = Now(y, h, L, v)
  <2>1. \A k \in L : v \in DOMAIN g[k] <=> v \in DOMAIN h[k]
    BY <1>1, <1>3
  <2>2. \A k \in L : v \in DOMAIN h[k] => g[k][v] = h[k][v]
    BY <1>1, <1>3
  <2> QED
    BY <1>0, <2>1, <2>2, NowSame
<1>4. CASE v # lv.var
  BY <1>3, <1>4
<1>5. CASE v = lv.var /\ v \in DOMAIN g[n]
  <2>1. n \in L /\ v \in DOMAIN h[n]
    BY <1>1, <1>5
  <2>2. PICK k : First(h, L, v, k)
    BY <1>0, <2>1, FirstExists
  <2>3. Now(y, h, L, v) = h[k][v]
    BY <1>0, <2>2, NowFirst
  <2>4. Now(x, h, L, v) = h[k][v]
    BY <1>0, <2>2, NowFirst
  <2> QED
    BY <1>3, <1>5, <2>3, <2>4
<1>6. CASE v = lv.var /\ \A k \in L : v \notin DOMAIN g[k]
  <2>1. Now(y, g, L, v) = y
    BY <1>6, NowNone
  <2>2. First(h, L, v, n)
    BY <1>0, <1>1, <1>6 DEF First
  <2>3. Now(x, h, L, v) = h[n][v]
    BY <1>0, <2>2, NowFirst
  <2> QED
    BY <1>2, <1>6, <2>1, <2>3
<1>7. CASE v = lv.var /\ v \notin DOMAIN g[n] /\ \E k \in L : v \in DOMAIN g[k]
  <2>1. PICK k : First(g, L, v, k)
    BY <1>0, <1>7, FirstExists
  <2>2. Now(y, g, L, v) = g[k][v]
    BY <1>0, <2>1, NowFirst
  <2>3. k \in L /\ k # n /\ g[k] = h[k] /\ k <= n
    BY <1>0, <1>7, <2>1 DEF First
  <2>4. First(h, L, v, k)
    BY <1>7, <2>1, <2>3 DEF First
  <2>5. Now(x, h, L, v) = h[k][v]
    BY <1>0, <2>4, NowFirst
  <2> QED
    BY <2>2, <2>3, <2>5
<1> QED
  BY <1>4, <1>5, <1>6, <1>7

LEMMA ShownEqual ==
  ASSUME NEW tab, NEW args, NEW letters, NEW s, NEW L,
         NEW tab2, NEW args2, NEW letters2, NEW t, NEW M,
         \A v \in Vars : Now(Attr(tab[v]), Keeping(s), L, v) = Now(Attr(tab2[v]), Keeping(t), M, v),
         Now(letters, Keeping(s), L, "-") = Now(letters2, Keeping(t), M, "-"),
         (IF L = {} THEN args ELSE s[Min(L)].saveparam.args)
            = (IF M = {} THEN args2 ELSE t[Min(M)].saveparam.args),
         DOMAIN s \ L = DOMAIN t \ M,
         \A k \in DOMAIN s \ L : ScopeOf(Keeping(s)[k], s[k]) = ScopeOf(Keeping(t)[k], t[k])
  PROVE  Shown(tab, args, letters, s, L) = Shown(tab2, args2, letters2, t, M)
BY DEF Shown

LEMMA MinInterval == ASSUME NEW i \in Nat, NEW n \in Nat, i <= n PROVE Min(i .. n) = i
<1>1. i .. n \subseteq Nat /\ i .. n # {} /\ i \in i .. n
  OBVIOUS
<1>2. Min(i .. n) \in i .. n /\ Min(i .. n) <= i
  BY <1>1, MinFacts
<1> QED
  BY <1>2

\* Functions from the i-th on that are left, in Scopes and here.
LEMMA LeaveShown ==
  ASSUME NEW tab \in [Vars -> Var_t], NEW args, NEW letters, NEW s \in Seq(Frame), NEW i \in 1 .. Len(s)
  PROVE  S!Leave(Shown(tab, args, letters, s, {}), i) = Shown(tab, args, letters, s, i .. Len(s))
<1> DEFINE n == Len(s)
           h == Keeping(s)
           L == i .. n
           sc == [k \in 1 .. n |-> ScopeOf(h[k], s[k])]
           T == {ScopeOf(h[k], s[k]) : k \in 1 .. n}
           left == SubSeq(sc, i, n)
           low == SubSeq(sc, 1, i - 1)
           e == Shown(tab, args, letters, s, {})
           saver(v) == {k \in DOMAIN left : v \in DOMAIN left[k].vars}
           savers == {k \in DOMAIN left : left[k].optval # <<>>}
           of == [v \in Vars |-> IF saver(v) = {} THEN S!Attributes(e, v) ELSE left[Min(saver(v))].vars[v]]
<1>1. n \in Nat /\ i \in Nat /\ 1 <= i /\ i <= n /\ DOMAIN s = 1 .. n
  BY LenProperties
<1>2. /\ e.value = [v \in Vars |-> Attr(tab[v]).value]
      /\ e.exported = {v \in Vars : Attr(tab[v]).exported}
      /\ e.readonly = {v \in Vars : Attr(tab[v]).readonly}
      /\ e.args = args /\ e.optval = letters /\ e.scopes = sc
  <2>1. \A v \in Vars : Now(Attr(tab[v]), h, {}, v) = Attr(tab[v])
    BY NowHere
  <2>2. Now(letters, h, {}, "-") = letters
    BY NowHere
  <2>3. DOMAIN s \ {} = 1 .. n
    BY <1>1
  <2> HIDE DEF h
  <2> QED
    BY <2>1, <2>2, <2>3 DEF Shown, h
<1>3. sc \in Seq(T) /\ Len(sc) = n
  BY <1>1
<1>4. /\ left \in Seq(T) /\ Len(left) = n - i + 1 /\ DOMAIN left = 1 .. n - i + 1
      /\ \A k \in 1 .. n - i + 1 : left[k] = ScopeOf(h[i + k - 1], s[i + k - 1]) /\ i + k - 1 \in 1 .. n
  <2>1. \A k \in i .. n : sc[k] \in T
    BY <1>1
  <2> HIDE DEF T, sc
  <2>2. /\ left \in Seq(T) /\ Len(left) = IF i <= n THEN n - i + 1 ELSE 0
        /\ \A k \in 1 .. n - i + 1 : left[k] = sc[i + k - 1]
    BY <1>1, <1>3, <2>1, SubSeqProperties
  <2>3. \A k \in 1 .. n - i + 1 : i + k - 1 \in 1 .. n
    BY <1>1
  <2>4. \A k \in 1 .. n : sc[k] = ScopeOf(h[k], s[k])
    BY DEF sc
  <2> HIDE DEF left
  <2> QED
    BY <1>1, <2>2, <2>3, <2>4, LenProperties
<1>5. low = [k \in 1 .. i - 1 |-> ScopeOf(h[k], s[k])]
  <2>1. \A k \in 1 .. i - 1 : sc[k] \in T /\ k \in 1 .. n
    BY <1>1
  <2> HIDE DEF T, sc
  <2>2. /\ low \in Seq(T) /\ Len(low) = IF 1 <= i - 1 THEN (i - 1) - 1 + 1 ELSE 0
        /\ \A k \in 1 .. (i - 1) - 1 + 1 : low[k] = sc[1 + k - 1]
    BY <1>1, <1>3, <2>1, SubSeqProperties
  <2>3. Len(low) = i - 1
    BY <1>1, <2>2
  <2>4. \A k \in 1 .. i - 1 : low[k] = ScopeOf(h[k], s[k])
    <3>1. \A k \in 1 .. i - 1 : k \in 1 .. (i - 1) - 1 + 1 /\ 1 + k - 1 = k
      BY <1>1
    <3> QED
      BY <2>1, <2>2, <3>1 DEF sc
  <2> HIDE DEF low
  <2>5. low = [k \in 1 .. i - 1 |-> low[k]]
    BY <2>2, <2>3, LenProperties
  <2> QED
    BY <2>4, <2>5
<1>6. S!Leave(e, i) =
        [value |-> [v \in Vars |-> of[v].value],
         exported |-> {v \in Vars : of[v].exported},
         readonly |-> {v \in Vars : of[v].readonly},
         args |-> left[1].args,
         optval |-> IF savers = {} THEN e.optval ELSE Head(left[Min(savers)].optval),
         scopes |-> low]
  <2> DEFINE svr(x, v) == {k \in DOMAIN x : v \in DOMAIN x[k].vars}
             own(x) == [v \in Vars |-> IF svr(x, v) = {} THEN S!Attributes(e, v)
                                       ELSE x[Min(svr(x, v))].vars[v]]
             opt(x) == {k \in DOMAIN x : x[k].optval # <<>>}
             R(x, y) == [value |-> [v \in Vars |-> own(x)[v].value],
                         exported |-> {v \in Vars : own(x)[v].exported},
                         readonly |-> {v \in Vars : own(x)[v].readonly},
                         args |-> x[1].args,
                         optval |-> IF opt(x) = {} THEN e.optval ELSE Head(x[Min(opt(x))].optval),
                         scopes |-> y]
  <2>1. Len(e.scopes) = n /\ e.scopes = sc
    BY <1>2, <1>3
  <2> HIDE DEF e, sc, n
  <2>2. S!Leave(e, i) = R(SubSeq(e.scopes, i, Len(e.scopes)), SubSeq(e.scopes, 1, i - 1))
    BY Zenon DEF S!Leave, S!Min, Min
  <2>3. R(left, low) =
          [value |-> [v \in Vars |-> of[v].value],
           exported |-> {v \in Vars : of[v].exported},
           readonly |-> {v \in Vars : of[v].readonly},
           args |-> left[1].args,
           optval |-> IF savers = {} THEN e.optval ELSE Head(left[Min(savers)].optval),
           scopes |-> low]
    OBVIOUS
  <2> HIDE DEF R, of, savers
  <2> QED
    BY <2>1, <2>2, <2>3
<1> HIDE DEF sc, T, low, left
<1>7. \A f, g : /\ DOMAIN ScopeOf(f, g).vars = DOMAIN f \ {"-"}
                /\ \A v \in DOMAIN f \ {"-"} : ScopeOf(f, g).vars[v] = f[v]
                /\ ScopeOf(f, g).args = g.saveparam.args
                /\ ScopeOf(f, g).optval = IF "-" \in DOMAIN f THEN <<f["-"]>> ELSE <<>>
  BY DEF ScopeOf
<1>8. ASSUME NEW k \in L PROVE k - i + 1 \in 1 .. n - i + 1 /\ left[k - i + 1] = ScopeOf(h[k], s[k])
  <2>1. k \in i .. n
    OBVIOUS
  <2>2. k - i + 1 \in 1 .. n - i + 1 /\ i + (k - i + 1) - 1 = k
    BY <1>1, <2>1
  <2> QED
    BY <1>4, <2>2
<1>9. L \in SUBSET Nat /\ L # {} /\ Min(L) = i
  BY <1>1, MinInterval
\* A number k among those left, and the place of k in `left`.
<1>10. ASSUME NEW K, NEW v, NEW k, First(h, L, v, k),
              K = {j \in DOMAIN left : v \in DOMAIN h[i + j - 1]}
       PROVE  K # {} /\ Min(K) = k - i + 1 /\ left[Min(K)] = ScopeOf(h[k], s[k])
  <2>1. k \in L /\ v \in DOMAIN h[k] /\ \A j \in L : v \in DOMAIN h[j] => k <= j
    BY <1>10 DEF First
  <2> HIDE DEF h
  <2>2. k - i + 1 \in DOMAIN left /\ i + (k - i + 1) - 1 = k
    BY <1>1, <1>4, <1>8, <2>1
  <2>3. k - i + 1 \in K
    BY <1>10, <2>1, <2>2
  <2>4. K \subseteq Nat
    BY <1>1, <1>4, <1>10
  <2>5. Min(K) \in K /\ Min(K) <= k - i + 1
    BY <2>3, <2>4, MinFacts
  <2>6. i + Min(K) - 1 \in L /\ v \in DOMAIN h[i + Min(K) - 1]
    BY <1>1, <1>4, <1>10, <2>5
  <2>7. k <= i + Min(K) - 1
    BY <2>1, <2>6
  <2>8. Min(K) \in Nat /\ k \in Nat
    BY <1>9, <2>1, <2>4, <2>5
  <2>9. Min(K) = k - i + 1
    BY <1>1, <2>5, <2>7, <2>8
  <2> QED
    BY <1>8, <2>1, <2>3, <2>9
<1>11. ASSUME NEW K, NEW v, \A k \in L : v \notin DOMAIN h[k],
              K = {j \in DOMAIN left : v \in DOMAIN h[i + j - 1]}
       PROVE  K = {}
  <2>1. \A j \in DOMAIN left : i + j - 1 \in L
    BY <1>1, <1>4
  <2> QED
    BY <1>11, <2>1
<1>12. ASSUME NEW v \in Vars PROVE of[v] = Now(Attr(tab[v]), h, L, v)
  <2>1. v # "-"
    BY VarsAssumption
  <2>2. saver(v) = {j \in DOMAIN left : v \in DOMAIN h[i + j - 1]}
    <3>1. \A f, g : v \in DOMAIN ScopeOf(f, g).vars <=> v \in DOMAIN f
      BY <1>7, <2>1
    <3> HIDE DEF h, e
    <3>2. ASSUME NEW k \in DOMAIN left PROVE v \in DOMAIN left[k].vars <=> v \in DOMAIN h[i + k - 1]
      <4>1. left[k] = ScopeOf(h[i + k - 1], s[i + k - 1])
        BY <1>4
      <4> QED
        BY <3>1, <4>1
    <3> QED
      BY <3>2
  <2>3. of[v] = IF saver(v) = {} THEN S!Attributes(e, v) ELSE left[Min(saver(v))].vars[v]
    OBVIOUS
  <2>4. S!Attributes(e, v) = Attr(tab[v])
    <3>1. Attr(tab[v]).exported = tab[v].exported /\ Attr(tab[v]).readonly = tab[v].readonly
      BY DEF Attr
    <3>2. tab[v] \in Var_t
      OBVIOUS
    <3>3. tab[v].exported \in BOOLEAN /\ tab[v].readonly \in BOOLEAN
      BY <3>2, VarFields
    <3>4. (v \in e.exported) = tab[v].exported /\ (v \in e.readonly) = tab[v].readonly
      BY <1>2, <3>1, <3>3
    <3>5. e.value[v] = Attr(tab[v]).value
      BY <1>2
    <3> HIDE DEF e
    <3>6. S!Attributes(e, v) = [value |-> Attr(tab[v]).value, exported |-> tab[v].exported,
                                readonly |-> tab[v].readonly]
      BY <3>4, <3>5 DEF S!Attributes
    <3> QED
      BY <3>6 DEF Attr
  <2> HIDE DEF saver, of, e, h, L
  <2>5. CASE \A k \in L : v \notin DOMAIN h[k]
    <3>1. saver(v) = {}
      BY <1>11, <2>2, <2>5
    <3>2. Now(Attr(tab[v]), h, L, v) = Attr(tab[v])
      BY <2>5, NowNone
    <3> QED
      BY <2>3, <2>4, <3>1, <3>2
  <2>6. CASE \E k \in L : v \in DOMAIN h[k]
    <3>1. PICK k : First(h, L, v, k)
      BY <1>9, <2>6, FirstExists
    <3>2. saver(v) # {} /\ left[Min(saver(v))] = ScopeOf(h[k], s[k])
      BY <1>10, <2>2, <3>1
    <3>3. v \in DOMAIN h[k]
      BY <3>1 DEF First
    <3>4. of[v] = h[k][v]
      BY <1>7, <2>1, <2>3, <3>2, <3>3
    <3>5. Now(Attr(tab[v]), h, L, v) = h[k][v]
      BY <1>9, <3>1, NowFirst
    <3> QED
      BY <3>4, <3>5
  <2> QED
    BY <2>5, <2>6
<1>13. (IF savers = {} THEN e.optval ELSE Head(left[Min(savers)].optval)) = Now(letters, h, L, "-")
  <2>1. savers = {j \in DOMAIN left : "-" \in DOMAIN h[i + j - 1]}
    <3>1. \A x : <<x>> # <<>>
      OBVIOUS
    <3>2. \A f, g : ScopeOf(f, g).optval # <<>> <=> "-" \in DOMAIN f
      BY <1>7, <3>1
    <3> HIDE DEF h
    <3> QED
      BY <1>4, <3>2
  <2> HIDE DEF savers, e, h, L
  <2>2. CASE \A k \in L : "-" \notin DOMAIN h[k]
    <3>1. savers = {}
      BY <1>11, <2>1, <2>2
    <3>2. Now(letters, h, L, "-") = letters
      BY <2>2, NowNone
    <3> QED
      BY <1>2, <3>1, <3>2
  <2>3. CASE \E k \in L : "-" \in DOMAIN h[k]
    <3>1. PICK k : First(h, L, "-", k)
      BY <1>9, <2>3, FirstExists
    <3>2. savers # {} /\ left[Min(savers)] = ScopeOf(h[k], s[k])
      BY <1>10, <2>1, <3>1
    <3>3. "-" \in DOMAIN h[k]
      BY <3>1 DEF First
    <3>4. left[Min(savers)].optval = <<h[k]["-"]>>
      <4>1. ScopeOf(h[k], s[k]).optval = <<h[k]["-"]>>
        BY <3>3 DEF ScopeOf
      <4> QED
        BY <3>2, <4>1
    <3>5. Head(left[Min(savers)].optval) = h[k]["-"]
      BY <3>4
    <3>6. Now(letters, h, L, "-") = h[k]["-"]
      BY <1>9, <3>1, NowFirst
    <3> QED
      BY <3>2, <3>5, <3>6
  <2> QED
    BY <2>2, <2>3
<1>14. left[1].args = s[Min(L)].saveparam.args
  <2>1. 1 \in 1 .. n - i + 1 /\ i + 1 - 1 = i
    BY <1>1
  <2> QED
    BY <1>4, <1>7, <1>9, <2>1
<1>15. DOMAIN s \ L = 1 .. i - 1
  BY <1>1
<1> HIDE DEF of, savers, e, h, L, saver
<1>16. Shown(tab, args, letters, s, L) =
         [value |-> [v \in Vars |-> of[v].value],
          exported |-> {v \in Vars : of[v].exported},
          readonly |-> {v \in Vars : of[v].readonly},
          args |-> left[1].args,
          optval |-> IF savers = {} THEN e.optval ELSE Head(left[Min(savers)].optval),
          scopes |-> low]
  BY <1>5, <1>9, <1>12, <1>13, <1>14, <1>15 DEF Shown, h
<1>17. S!Leave(e, i) = Shown(tab, args, letters, s, L)
  BY <1>6, <1>16
<1> QED
  BY <1>17 DEF e, L, n

-----------------------------------------------------------------------------
(* What is seen of one variable                                              *)

LEMMA AttrIs ==
  ASSUME NEW e \in Var_t
  PROVE  /\ Attr(e).value = (IF e.here /\ ~e.unset THEN e.val ELSE Unset)
         /\ Attr(e).value \in Values \cup {Unset}
         /\ Attr(e).exported = e.exported /\ Attr(e).readonly = e.readonly
         /\ Attr(e).exported \in BOOLEAN /\ Attr(e).readonly \in BOOLEAN
<1>1. e.val \in Values /\ e.exported \in BOOLEAN /\ e.readonly \in BOOLEAN
  BY VarFields
<1>2. Attr(e) = [value |-> IF e.here /\ ~e.unset THEN e.val ELSE Unset,
                 exported |-> e.exported, readonly |-> e.readonly]
  BY DEF Attr
<1> HIDE DEF Var_t
<1>3. Attr(e).value = (IF e.here /\ ~e.unset THEN e.val ELSE Unset)
  BY <1>2
<1>4. Attr(e).exported = e.exported /\ Attr(e).readonly = e.readonly
  BY <1>2
<1> QED
  BY <1>1, <1>3, <1>4

Nothing == [value |-> Unset, exported |-> FALSE, readonly |-> FALSE]

LEMMA AttrAbsent == Attr(Absent) = Nothing
<1>1. ~Absent.here /\ Absent.exported = FALSE /\ Absent.readonly = FALSE
  BY DEF Absent
<1> QED
  BY <1>1 DEF Attr, Nothing

LEMMA AttrInitvar ==
  ASSUME NEW v \in Vars
  PROVE  Attr(initvar(v)) = [value |-> Default[v], exported |-> FALSE, readonly |-> FALSE]
<1>1. /\ initvar(v).here = TRUE /\ initvar(v).unset = (Default[v] = Unset)
      /\ initvar(v).val = (IF Default[v] = Unset THEN Empty ELSE Default[v])
      /\ initvar(v).exported = FALSE /\ initvar(v).readonly = FALSE
  BY DEF initvar, Absent
<1>2. (IF initvar(v).here /\ ~initvar(v).unset THEN initvar(v).val ELSE Unset) = Default[v]
  BY <1>1
<1> QED
  BY <1>1, <1>2 DEF Attr

LEMMA AttrImported ==
  ASSUME NEW v \in Vars, NEW x
  PROVE  Attr(Imported(v, x)) = [value |-> x, exported |-> TRUE, readonly |-> FALSE]
<1>1. /\ Imported(v, x).here = TRUE /\ Imported(v, x).unset = FALSE /\ Imported(v, x).val = x
      /\ Imported(v, x).exported = TRUE /\ Imported(v, x).readonly = FALSE
  BY DEF Imported, Absent
<1> QED
  BY <1>1 DEF Attr

LEMMA AttrAssigned ==
  ASSUME NEW v \in Vars, NEW x, vartab[v] \in Var_t
  PROVE  /\ Attr(Assigned(v, x)) =
              [value |-> x, exported |-> vartab[v].exported, readonly |-> vartab[v].readonly]
         /\ Assigned(v, x).exported = vartab[v].exported
<1>1. /\ Assigned(v, x).here = TRUE /\ Assigned(v, x).unset = FALSE /\ Assigned(v, x).val = x
      /\ Assigned(v, x).exported = vartab[v].exported /\ Assigned(v, x).readonly = vartab[v].readonly
  BY DEF Assigned, Var_t
<1> QED
  BY <1>1 DEF Attr

LEMMA AttrNewUnset == ASSUME NEW v PROVE Attr(NewUnset(v)) = Nothing
<1>1. /\ NewUnset(v).unset = TRUE /\ NewUnset(v).exported = FALSE /\ NewUnset(v).readonly = FALSE
  BY DEF NewUnset, Absent
<1> QED
  BY <1>1 DEF Attr, Nothing

LEMMA AttrSame ==
  ASSUME NEW e \in Var_t, NEW n
  PROVE  /\ Attr([e EXCEPT !.strfixed = TRUE]) = Attr(e)
         /\ Attr([e EXCEPT !.strfixed = TRUE, !.text = n]) = Attr(e)
         /\ Attr(Kept(e)) = Attr(e)
<1>1. ASSUME NEW d, d.here = e.here, d.val = e.val, d.exported = e.exported,
             d.readonly = e.readonly, d.unset = e.unset
      PROVE  Attr(d) = Attr(e)
  BY <1>1 DEF Attr
<1>2. Attr([e EXCEPT !.strfixed = TRUE]) = Attr(e)
  <2> DEFINE d == [e EXCEPT !.strfixed = TRUE]
  <2>1. d.here = e.here /\ d.val = e.val /\ d.exported = e.exported
        /\ d.readonly = e.readonly /\ d.unset = e.unset
    BY DEF Var_t
  <2> HIDE DEF d
  <2>2. Attr(d) = Attr(e)
    BY <1>1, <2>1
  <2> QED
    BY <2>2 DEF d
<1>3. Attr([e EXCEPT !.strfixed = TRUE, !.text = n]) = Attr(e)
  <2> DEFINE d == [e EXCEPT !.strfixed = TRUE, !.text = n]
  <2>1. d.here = e.here /\ d.val = e.val /\ d.exported = e.exported
        /\ d.readonly = e.readonly /\ d.unset = e.unset
    BY DEF Var_t
  <2> HIDE DEF d
  <2>2. Attr(d) = Attr(e)
    BY <1>1, <2>1
  <2> QED
    BY <2>2 DEF d
<1>4. Attr(Kept(e)) = Attr(e)
  <2> DEFINE d == Kept(e)
  <2>1. d.here = e.here /\ d.val = e.val /\ d.exported = e.exported
        /\ d.readonly = e.readonly /\ d.unset = e.unset
    BY DEF Kept, Var_t
  <2> HIDE DEF d
  <2>2. Attr(d) = Attr(e)
    BY <1>1, <2>1
  <2> QED
    BY <2>2 DEF d
<1> QED
  BY <1>2, <1>3, <1>4

\* export, readonly and unset.
LEMMA AttrMarked ==
  ASSUME NEW e \in Var_t, NEW b \in BOOLEAN
  PROVE  /\ Attr([e EXCEPT !.exported = b]) =
              [value |-> Attr(e).value, exported |-> b, readonly |-> e.readonly]
         /\ Attr([e EXCEPT !.readonly = TRUE]) =
              [value |-> Attr(e).value, exported |-> e.exported, readonly |-> TRUE]
<1>1. ASSUME NEW d, d.here = e.here, d.val = e.val, d.unset = e.unset
      PROVE  Attr(d) = [value |-> Attr(e).value, exported |-> d.exported, readonly |-> d.readonly]
  BY <1>1 DEF Attr
<1>2. Attr([e EXCEPT !.exported = b]) =
        [value |-> Attr(e).value, exported |-> b, readonly |-> e.readonly]
  <2> DEFINE d == [e EXCEPT !.exported = b]
  <2>1. d.here = e.here /\ d.val = e.val /\ d.exported = b
        /\ d.readonly = e.readonly /\ d.unset = e.unset
    BY DEF Var_t
  <2> HIDE DEF d
  <2>2. Attr(d) = [value |-> Attr(e).value, exported |-> b, readonly |-> e.readonly]
    BY <1>1, <2>1
  <2> QED
    BY <2>2 DEF d
<1>3. Attr([e EXCEPT !.readonly = TRUE]) =
        [value |-> Attr(e).value, exported |-> e.exported, readonly |-> TRUE]
  <2> DEFINE d == [e EXCEPT !.readonly = TRUE]
  <2>1. d.here = e.here /\ d.val = e.val /\ d.exported = e.exported
        /\ d.readonly = TRUE /\ d.unset = e.unset
    BY DEF Var_t
  <2> HIDE DEF d
  <2>2. Attr(d) = [value |-> Attr(e).value, exported |-> e.exported, readonly |-> TRUE]
    BY <1>1, <2>1
  <2> QED
    BY <2>2 DEF d
<1> QED
  BY <1>2, <1>3

LEMMA AttrUnlinked ==
  ASSUME NEW v \in Vars, vartab[v] \in Var_t, Fresh(v) \in Nat, vartab[v].readonly = FALSE
  PROVE  Attr(Unlinked(v)) = Nothing
<1>1. CASE ~vartab[v].strfixed
  <2>1. Unlinked(v) = Absent
    BY <1>1 DEF Unlinked
  <2> QED
    BY <2>1, AttrAbsent
<1>2. CASE vartab[v].strfixed
  <2> DEFINE e == IF vartab[v].val # Empty THEN Assigned(v, Empty) ELSE vartab[v]
             d == [e EXCEPT !.exported = FALSE, !.unset = TRUE]
  <2>1. e \in Var_t /\ e.readonly = FALSE
    <3>1. Assigned(v, Empty) \in Var_t /\ Assigned(v, Empty).readonly = vartab[v].readonly
      <4>1. Assigned(v, Empty) \in Var_t
        BY EmptyIs, AssignedIs
      <4>2. Assigned(v, Empty).readonly = vartab[v].readonly
        BY DEF Assigned, Var_t
      <4> QED
        BY <4>1, <4>2
    <3> QED
      BY <3>1
  <2>2. Unlinked(v) = d
    BY <1>2 DEF Unlinked
  <2> HIDE DEF e
  <2>3. d.unset = TRUE /\ d.exported = FALSE /\ d.readonly = FALSE
    BY <2>1 DEF Var_t
  <2> HIDE DEF d
  <2>4. Attr(d) = Nothing
    BY <2>3 DEF Attr, Nothing
  <2> QED
    BY <2>2, <2>4
<1> QED
  BY <1>1, <1>2

-----------------------------------------------------------------------------
(* Commands                                                                  *)

\* The record of what commands see, and its parts where no function is being left.
Env_r(x, ex, r, a, o, sc) ==
    [value |-> x, exported |-> ex, readonly |-> r, args |-> a, optval |-> o, scopes |-> sc]

ValueOf(tab) == [v \in Vars |-> Attr(tab[v]).value]
ExportedOf(tab) == {v \in Vars : Attr(tab[v]).exported}
ReadonlyOf(tab) == {v \in Vars : Attr(tab[v]).readonly}
ScopesOf(s) == [k \in DOMAIN s |-> ScopeOf(Keeping(s)[k], s[k])]

Here(tab, args, letters, s) ==
    Env_r(ValueOf(tab), ExportedOf(tab), ReadonlyOf(tab), args, letters, ScopesOf(s))

LEMMA ShownHere ==
  ASSUME NEW tab, NEW args, NEW letters, NEW s
  PROVE  Shown(tab, args, letters, s, {}) = Here(tab, args, letters, s)
<1> DEFINE h == Keeping(s)
<1>1. \A v \in Vars : Now(Attr(tab[v]), h, {}, v) = Attr(tab[v])
  BY NowHere
<1>2. Now(letters, h, {}, "-") = letters
  BY NowHere
<1>3. DOMAIN s \ {} = DOMAIN s
  OBVIOUS
<1> HIDE DEF h
<1> QED
  BY <1>1, <1>2, <1>3 DEF Shown, h, Here, Env_r, ValueOf, ExportedOf, ReadonlyOf, ScopesOf

Mapped == Environment = Shown(vartab, shellparam.args, optval, stack, Left)

MappedHere == pc = "run" => Environment = Here(vartab, shellparam.args, optval, stack)

LEMMA EnvMapped == VarsInv => Mapped
<1> HAVE VarsInv
<1>1. pc # "proc"
  BY DEF VarsInv, Typed
<1> QED
  BY <1>1, EnvironmentIs DEF Mapped

LEMMA EnvMappedHere == VarsInv => MappedHere
<1> SUFFICES ASSUME VarsInv, pc = "run"
             PROVE  Environment = Here(vartab, shellparam.args, optval, stack)
  BY DEF MappedHere
<1>1. Left = {}
  BY DEF Left
<1> QED
  BY <1>1, EnvMapped, ShownHere DEF Mapped

LEMMA EnvNext == VarsInv' => Mapped' /\ MappedHere'
<1>1. VarsInv => Mapped
  BY EnvMapped
<1>2. VarsInv => MappedHere
  BY EnvMappedHere
<1> QED
  BY <1>1, <1>2, PTL

Put(f, v, x) == [f EXCEPT ![v] = x]

\* One variable becomes d.
Becomes(tab, v, d, tab2) == v \in Vars /\ \A w \in Vars : tab2[w] = IF w = v THEN d ELSE tab[w]

LEMMA TableChanged ==
  ASSUME NEW tab, NEW v, NEW d, NEW tab2, Becomes(tab, v, d, tab2)
  PROVE  /\ ValueOf(tab2) = Put(ValueOf(tab), v, Attr(d).value)
         /\ ExportedOf(tab2) = IF Attr(d).exported THEN ExportedOf(tab) \cup {v} ELSE ExportedOf(tab) \ {v}
         /\ ReadonlyOf(tab2) = IF Attr(d).readonly THEN ReadonlyOf(tab) \cup {v} ELSE ReadonlyOf(tab) \ {v}
         /\ v \in ExportedOf(tab) <=> Attr(tab[v]).exported
         /\ v \in ReadonlyOf(tab) <=> Attr(tab[v]).readonly
<1>1. v \in Vars /\ \A w \in Vars : tab2[w] = IF w = v THEN d ELSE tab[w]
  BY DEF Becomes
<1>3. ValueOf(tab2) = Put(ValueOf(tab), v, Attr(d).value)
  BY <1>1 DEF ValueOf, Put
<1> QED
  BY <1>1, <1>3 DEF ExportedOf, ReadonlyOf

LEMMA EnvFields ==
  ASSUME NEW x, NEW ex, NEW r, NEW a, NEW o, NEW sc, NEW e, e = Env_r(x, ex, r, a, o, sc)
  PROVE  /\ e.value = x /\ e.exported = ex /\ e.readonly = r
         /\ e.args = a /\ e.optval = o /\ e.scopes = sc
BY DEF Env_r

\* A variable gets a value, and the set of exported variables changes.
Valued(e, v, x, ex) == [e EXCEPT !.value[v] = x, !.exported = ex]

LEMMA EnvValueExported ==
  ASSUME NEW x, NEW ex, NEW r, NEW a, NEW o, NEW sc, NEW e, e = Env_r(x, ex, r, a, o, sc),
         NEW v, NEW y, NEW new
  PROVE  Valued(e, v, y, new) = Env_r(Put(x, v, y), new, r, a, o, sc)
<1> DEFINE h == [e EXCEPT !.value[v] = y]
<1>1. e.value = x
  BY EnvFields
<1>2. h = [e EXCEPT !.value = [x EXCEPT ![v] = y]]
  BY <1>1
<1>3. h = Env_r([x EXCEPT ![v] = y], ex, r, a, o, sc)
  BY <1>2 DEF Env_r
<1> HIDE DEF h
<1>4. [h EXCEPT !.exported = new] = Env_r([x EXCEPT ![v] = y], new, r, a, o, sc)
  BY <1>3 DEF Env_r
<1> QED
  BY <1>4 DEF h, Put, Valued

Given(e, a, o) == [e EXCEPT !.args = a, !.optval = o]

LEMMA EnvArgsOptval ==
  ASSUME NEW x, NEW ex, NEW r, NEW a, NEW o, NEW sc, NEW e, e = Env_r(x, ex, r, a, o, sc),
         NEW new, NEW new2
  PROVE  Given(e, new, new2) = Env_r(x, ex, r, new, new2, sc)
<1> DEFINE h == [e EXCEPT !.args = new]
<1>1. h = Env_r(x, ex, r, new, o, sc)
  BY DEF Env_r
<1> HIDE DEF h
<1>2. [h EXCEPT !.optval = new2] = Env_r(x, ex, r, new, new2, sc)
  BY <1>1 DEF Env_r
<1> QED
  BY <1>2 DEF h, Given

LEMMA VisibleNow ==
  ASSUME VarsInv, pc = "run"
  PROVE  /\ Environment = Here(vartab, shellparam.args, optval, stack)
         /\ vartab \in [Vars -> Var_t] /\ stack \in Seq(Frame) /\ DOMAIN stack = 1 .. Len(stack)
         /\ Len(stack) \in Nat
         /\ shellparam.args \in Args /\ optval \subseteq Options
<1>1. shellparam.args \in Args
  BY DEF VarsInv, Typed, Params_t
<1>2. stack \in Seq(Frame)
  BY DEF VarsInv, Typed
<1> QED
  BY <1>1, <1>2, EnvMappedHere, LenProperties DEF MappedHere, VarsInv, Typed

LEMMA VisibleNext ==
  ASSUME VarsInv', pc' = "run"
  PROVE  Environment' = Here(vartab', shellparam'.args, optval', stack')
<1>1. MappedHere'
  BY EnvNext
<1> QED
  BY <1>1 DEF MappedHere

\* A command makes d of v.
LEMMA OneVisible ==
  ASSUME VarsInv, VarsInv', pc = "run", NEW v \in Vars, NEW d \in Var_t,
         vartab' = [vartab EXCEPT ![v] = d],
         UNCHANGED <<shellparam, optval, stack, pc>>
  PROVE  LET e == Environment
             ex == IF d.exported THEN e.exported \cup {v} ELSE e.exported \ {v}
             r == IF d.readonly THEN e.readonly \cup {v} ELSE e.readonly \ {v}
         IN  /\ e = Env_r(e.value, e.exported, e.readonly, e.args, e.optval, e.scopes)
             /\ Environment' = Env_r(Put(e.value, v, Attr(d).value), ex, r, e.args, e.optval, e.scopes)
             /\ v \in e.exported <=> vartab[v].exported
             /\ v \in e.readonly <=> vartab[v].readonly
             /\ e.value[v] = Attr(vartab[v]).value
             /\ Put(e.value, v, Attr(vartab[v]).value) = e.value
<1> DEFINE e == Environment
           ex == IF d.exported THEN e.exported \cup {v} ELSE e.exported \ {v}
           r == IF d.readonly THEN e.readonly \cup {v} ELSE e.readonly \ {v}
<1>1. /\ e = Here(vartab, shellparam.args, optval, stack)
      /\ vartab \in [Vars -> Var_t]
  BY VisibleNow
<1>2. Environment' = Here(vartab', shellparam.args, optval, stack)
  BY VisibleNext
<1> HIDE DEF e
<1>3. /\ e.value = ValueOf(vartab) /\ e.exported = ExportedOf(vartab)
      /\ e.readonly = ReadonlyOf(vartab) /\ e.args = shellparam.args /\ e.optval = optval
      /\ e.scopes = ScopesOf(stack)
  BY <1>1, EnvFields DEF Here
<1>4. e = Env_r(e.value, e.exported, e.readonly, e.args, e.optval, e.scopes)
  BY <1>1, <1>3 DEF Here
<1>5. Becomes(vartab, v, d, vartab')
  BY <1>1 DEF Becomes
<1>6. /\ Attr(d).exported = d.exported /\ Attr(d).readonly = d.readonly
      /\ Attr(vartab[v]).exported = vartab[v].exported /\ Attr(vartab[v]).readonly = vartab[v].readonly
  BY DEF Attr
<1>7. ValueOf(vartab') = Put(e.value, v, Attr(d).value)
  BY <1>3, <1>5, TableChanged
<1>8. ExportedOf(vartab') = ex
  <2>1. ExportedOf(vartab') = IF Attr(d).exported THEN ExportedOf(vartab) \cup {v} ELSE ExportedOf(vartab) \ {v}
    BY <1>5, TableChanged
  <2> QED
    BY <1>3, <1>6, <2>1
<1>9. ReadonlyOf(vartab') = r
  <2>1. ReadonlyOf(vartab') = IF Attr(d).readonly THEN ReadonlyOf(vartab) \cup {v} ELSE ReadonlyOf(vartab) \ {v}
    BY <1>5, TableChanged
  <2> QED
    BY <1>3, <1>6, <2>1
<1>10. (v \in e.exported <=> vartab[v].exported) /\ (v \in e.readonly <=> vartab[v].readonly)
  BY <1>3, <1>6 DEF ExportedOf, ReadonlyOf
<1>11. Environment' = Env_r(Put(e.value, v, Attr(d).value), ex, r, e.args, e.optval, e.scopes)
  BY <1>2, <1>3, <1>7, <1>8, <1>9 DEF Here
<1>12. e.value[v] = Attr(vartab[v]).value
  BY <1>3 DEF ValueOf
<1>13. Put(e.value, v, Attr(vartab[v]).value) = e.value
  BY <1>3 DEF ValueOf, Put
<1> QED
  BY <1>4, <1>10, <1>11, <1>12, <1>13 DEF e

LEMMA InAssign ==
  ASSUME NEW x, NEW ex, NEW r, NEW a, NEW o, NEW sc, NEW e, e = Env_r(x, ex, r, a, o, sc),
         NEW v, v \notin r, NEW y \in Values, NEW new, new = ex \/ new = ex \cup {v}
  PROVE  Env_r(Put(x, v, y), new, r, a, o, sc) \in S!Assign(e, v)
<1>1. e.readonly = r /\ e.exported = ex
  BY EnvFields
<1>2. Valued(e, v, y, new) \in S!Assign(e, v)
  <2>1. S!Assign(e, v) = {Valued(e, v, x2, ex2) : x2 \in IF v \in e.readonly THEN {} ELSE Values,
                                                 ex2 \in {e.exported, e.exported \cup {v}}}
    BY DEF S!Assign, Valued
  <2>2. y \in IF v \in e.readonly THEN {} ELSE Values
    BY <1>1
  <2>3. new \in {e.exported, e.exported \cup {v}}
    BY <1>1
  <2> QED
    BY <2>1, <2>2, <2>3
<1>3. Valued(e, v, y, new) = Env_r(Put(x, v, y), new, r, a, o, sc)
  BY EnvValueExported
<1> QED
  BY <1>2, <1>3

LEMMA DoesSetvar ==
  ASSUME VarsInv, VarsInv', NEW v \in Vars, setvar(v)
  PROVE  S!Next
<1> DEFINE e == Environment
<1>1. PICK x \in Values, exp \in BOOLEAN :
        vartab' = [vartab EXCEPT ![v] = [Assigned(v, x) EXCEPT !.exported = @ \/ exp]]
  BY DEF setvar
<1> DEFINE b == Assigned(v, x).exported \/ exp
           d == [Assigned(v, x) EXCEPT !.exported = b]
           new == IF d.exported THEN e.exported \cup {v} ELSE e.exported \ {v}
           r == IF d.readonly THEN e.readonly \cup {v} ELSE e.readonly \ {v}
<1>2. vartab[v] \in Var_t /\ Fresh(v) \in Nat
  BY VarInv
<1>3. pc = "run" /\ UNCHANGED <<shellparam, optval, stack, pc>> /\ ~vartab[v].readonly
  BY DEF setvar
<1>4. Assigned(v, x) \in Var_t /\ Assigned(v, x).exported = vartab[v].exported /\ b \in BOOLEAN
  BY <1>2, AssignedIs, AttrAssigned
<1>5. Attr(Assigned(v, x)).value = x /\ (Assigned(v, x).readonly <=> vartab[v].readonly)
  <2>1. Attr(Assigned(v, x)) =
          [value |-> x, exported |-> vartab[v].exported, readonly |-> vartab[v].readonly]
    BY <1>2, AttrAssigned
  <2> QED
    BY <1>2, <2>1, AssignedIs
<1> HIDE DEF b
<1>6. d \in Var_t /\ Attr(d).value = x /\ (d.exported <=> b) /\ ~d.readonly
  <2>1. d \in Var_t /\ d.exported = b /\ d.readonly = Assigned(v, x).readonly
    BY <1>4 DEF Var_t
  <2>2. Attr(d) = [value |-> Attr(Assigned(v, x)).value, exported |-> b, readonly |-> Assigned(v, x).readonly]
    BY <1>4, AttrMarked
  <2> HIDE DEF d
  <2> QED
    BY <1>3, <1>5, <2>1, <2>2
<1>7. vartab' = [vartab EXCEPT ![v] = d]
  BY <1>1 DEF b
<1> HIDE DEF d, e
<1>8. /\ e = Env_r(e.value, e.exported, e.readonly, e.args, e.optval, e.scopes)
      /\ Environment' = Env_r(Put(e.value, v, Attr(d).value), new, r, e.args, e.optval, e.scopes)
      /\ v \in e.exported <=> vartab[v].exported
      /\ v \in e.readonly <=> vartab[v].readonly
  BY <1>3, <1>6, <1>7, OneVisible DEF e
<1>9. r = e.readonly /\ v \notin e.readonly
  BY <1>3, <1>6, <1>8
<1>10. new = e.exported \/ new = e.exported \cup {v}
  <2>1. CASE d.exported
    BY <2>1
  <2>2. CASE ~d.exported
    <3>1. ~vartab[v].exported
      BY <1>4, <1>6, <2>2 DEF b
    <3> QED
      BY <1>8, <2>2, <3>1
  <2> QED
    BY <2>1, <2>2
<1>11. Environment' \in S!Assign(e, v)
  <2> HIDE DEF new, r
  <2> QED
    BY <1>6, <1>8, <1>9, <1>10, InAssign
<1> QED
  BY <1>11 DEF S!Next, e

LEMMA DoesUnset ==
  ASSUME VarsInv, VarsInv', NEW v \in Vars, unsetvar(v)
  PROVE  S!Next
<1> DEFINE e == Environment
           d == Unlinked(v)
           new == IF d.exported THEN e.exported \cup {v} ELSE e.exported \ {v}
           r == IF d.readonly THEN e.readonly \cup {v} ELSE e.readonly \ {v}
<1>1. vartab[v] \in Var_t /\ Fresh(v) \in Nat
  BY VarInv
<1>2. /\ pc = "run" /\ UNCHANGED <<shellparam, optval, stack, pc>>
      /\ vartab[v].here /\ ~vartab[v].readonly /\ vartab' = [vartab EXCEPT ![v] = d]
  BY DEF unsetvar
<1>3. d \in Var_t /\ Attr(d) = Nothing
  <2>1. vartab[v].readonly = FALSE
    BY <1>1, <1>2, VarFields
  <2> QED
    BY <1>1, <1>2, <2>1, UnlinkedIs, AttrUnlinked
<1> HIDE DEF d
<1>4. Attr(d).value = Unset /\ ~d.exported /\ ~d.readonly
  BY <1>3, AttrIs DEF Nothing
<1> HIDE DEF e
<1>5. /\ e = Env_r(e.value, e.exported, e.readonly, e.args, e.optval, e.scopes)
      /\ Environment' = Env_r(Put(e.value, v, Attr(d).value), new, r, e.args, e.optval, e.scopes)
      /\ v \in e.readonly <=> vartab[v].readonly
  BY <1>2, <1>3, OneVisible DEF e
<1>6. new = e.exported \ {v} /\ r = e.readonly /\ v \notin e.readonly
  BY <1>2, <1>4, <1>5
<1> HIDE DEF new, r
<1>7. Valued(e, v, Unset, e.exported \ {v})
        = Env_r(Put(e.value, v, Unset), e.exported \ {v}, e.readonly, e.args, e.optval, e.scopes)
  BY <1>5, EnvValueExported
<1>8. S!UnsetVar(e, v) = {Valued(e, v, Unset, e.exported \ {v})}
  BY <1>6 DEF S!UnsetVar, Valued
<1>9. Environment' \in S!UnsetVar(e, v)
  BY <1>4, <1>5, <1>6, <1>7, <1>8
<1> QED
  BY <1>9 DEF S!Next, e

LEMMA DoesExport ==
  ASSUME VarsInv, VarsInv', NEW v \in Vars, exportcmd(v)
  PROVE  S!Next
<1> DEFINE e == Environment
           was == IF vartab[v].here THEN vartab[v] ELSE NewUnset(v)
           d1 == [was EXCEPT !.exported = TRUE]
           d2 == [was EXCEPT !.readonly = TRUE]
           new(d) == IF d.exported THEN e.exported \cup {v} ELSE e.exported \ {v}
           r(d) == IF d.readonly THEN e.readonly \cup {v} ELSE e.readonly \ {v}
<1>1. vartab[v] \in Var_t /\ Fresh(v) \in Nat /\ (vartab[v].here \/ vartab[v] = Absent)
  BY VarInv DEF Suits
<1>2. pc = "run" /\ UNCHANGED <<shellparam, optval, stack, pc>>
  BY DEF exportcmd
<1>3. was \in Var_t /\ Attr(was) = Attr(vartab[v])
  <2>1. CASE vartab[v].here
    BY <1>1, <2>1
  <2>2. CASE ~vartab[v].here
    <3>1. was = NewUnset(v) /\ vartab[v] = Absent
      BY <1>1, <2>2
    <3> HIDE DEF was
    <3> QED
      BY <1>1, <3>1, NewUnsetIs, AttrNewUnset, AttrAbsent
  <2> QED
    BY <2>1, <2>2
<1>4. vartab' = [vartab EXCEPT ![v] = d1] \/ vartab' = [vartab EXCEPT ![v] = d2]
  BY DEF exportcmd
<1> HIDE DEF was, e
<1>5. was.exported = vartab[v].exported /\ was.readonly = vartab[v].readonly
  BY <1>1, <1>3, AttrIs
<1>6. /\ d1 \in Var_t /\ Attr(d1).value = Attr(vartab[v]).value /\ d1.exported = TRUE
      /\ d1.readonly = was.readonly
  <2>1. d1 \in Var_t /\ d1.exported = TRUE /\ d1.readonly = was.readonly
    BY <1>3 DEF Var_t
  <2>2. TRUE \in BOOLEAN
    OBVIOUS
  <2>3. Attr(d1) = [value |-> Attr(was).value, exported |-> TRUE, readonly |-> was.readonly]
    BY <1>3, <2>2, AttrMarked
  <2> HIDE DEF d1
  <2> QED
    BY <1>3, <2>1, <2>3
<1>7. /\ d2 \in Var_t /\ Attr(d2).value = Attr(vartab[v]).value /\ d2.exported = was.exported
      /\ d2.readonly = TRUE
  <2>1. d2 \in Var_t /\ d2.exported = was.exported /\ d2.readonly = TRUE
    BY <1>3 DEF Var_t
  <2>2. TRUE \in BOOLEAN
    OBVIOUS
  <2>3. Attr(d2) = [value |-> Attr(was).value, exported |-> was.exported, readonly |-> TRUE]
    BY <1>3, <2>2, AttrMarked
  <2> HIDE DEF d2
  <2> QED
    BY <1>3, <2>1, <2>3
<1> HIDE DEF d1, d2
<1>8. ASSUME NEW d \in Var_t, vartab' = [vartab EXCEPT ![v] = d], Attr(d).value = Attr(vartab[v]).value
      PROVE  /\ e = Env_r(e.value, e.exported, e.readonly, e.args, e.optval, e.scopes)
             /\ Environment' = Env_r(e.value, new(d), r(d), e.args, e.optval, e.scopes)
             /\ v \in e.exported <=> vartab[v].exported
             /\ v \in e.readonly <=> vartab[v].readonly
  <2>1. /\ e = Env_r(e.value, e.exported, e.readonly, e.args, e.optval, e.scopes)
        /\ Environment' = Env_r(Put(e.value, v, Attr(d).value), new(d), r(d), e.args, e.optval, e.scopes)
        /\ v \in e.exported <=> vartab[v].exported
        /\ v \in e.readonly <=> vartab[v].readonly
        /\ Put(e.value, v, Attr(vartab[v]).value) = e.value
    BY <1>2, <1>8, OneVisible DEF e
  <2> HIDE DEF new, r
  <2> QED
    BY <1>8, <2>1
<1>9. CASE vartab' = [vartab EXCEPT ![v] = d1]
  <2>1. /\ e = Env_r(e.value, e.exported, e.readonly, e.args, e.optval, e.scopes)
        /\ Environment' = Env_r(e.value, new(d1), r(d1), e.args, e.optval, e.scopes)
        /\ v \in e.readonly <=> vartab[v].readonly
    BY <1>6, <1>8, <1>9
  <2>2. new(d1) = e.exported \cup {v} /\ r(d1) = e.readonly
    BY <1>5, <1>6, <2>1
  <2> HIDE DEF new, r
  <2>3. Environment' = [e EXCEPT !.exported = e.exported \cup {v}]
    BY <2>1, <2>2 DEF Env_r
  <2> QED
    BY <2>3 DEF S!Next, S!Mark, e
<1>10. CASE vartab' = [vartab EXCEPT ![v] = d2]
  <2>1. /\ e = Env_r(e.value, e.exported, e.readonly, e.args, e.optval, e.scopes)
        /\ Environment' = Env_r(e.value, new(d2), r(d2), e.args, e.optval, e.scopes)
        /\ v \in e.exported <=> vartab[v].exported
    BY <1>7, <1>8, <1>10
  <2>2. new(d2) = e.exported /\ r(d2) = e.readonly \cup {v}
    BY <1>5, <1>7, <2>1
  <2> HIDE DEF new, r
  <2>3. Environment' = [e EXCEPT !.readonly = e.readonly \cup {v}]
    BY <2>1, <2>2 DEF Env_r
  <2> QED
    BY <2>3 DEF S!Next, S!Mark, e
<1> QED
  BY <1>4, <1>9, <1>10

LEMMA DoesSet ==
  ASSUME VarsInv, VarsInv', setparam \/ setcmd
  PROVE  S!Next
<1> DEFINE e == Environment
<1>1. pc = "run" /\ pc' = "run" /\ stack' = stack /\ vartab' = vartab
  BY DEF setparam, setcmd
<1>2. e = Here(vartab, shellparam.args, optval, stack)
  BY <1>1, VisibleNow
<1>3. Environment' = Here(vartab, shellparam'.args, optval', stack)
  BY <1>1, VisibleNext
<1>4. shellparam'.args \in Args /\ optval' \in SUBSET Options
  BY DEF VarsInv, Typed, Params_t
<1> HIDE DEF e
<1>5. Given(e, shellparam'.args, optval') = Environment'
  <2>1. Given(e, shellparam'.args, optval') =
          Env_r(ValueOf(vartab), ExportedOf(vartab), ReadonlyOf(vartab), shellparam'.args, optval',
                ScopesOf(stack))
    BY <1>2, EnvArgsOptval DEF Here
  <2> QED
    BY <1>3, <2>1 DEF Here
<1>6. Given(e, shellparam'.args, optval') \in S!Set(e)
  <2>1. S!Set(e) = {Given(e, a, o) : a \in Args, o \in SUBSET Options}
    BY DEF S!Set, Given
  <2> QED
    BY <1>4, <2>1
<1> QED
  BY <1>5, <1>6 DEF S!Next, e

-----------------------------------------------------------------------------
(* Functions are called, and get local variables                             *)

\* A function begins.
Entered(e, sc, a) == [e EXCEPT !.scopes = Append(@, sc), !.args = a]

LEMMA EnvEntered ==
  ASSUME NEW x, NEW ex, NEW r, NEW a, NEW o, NEW sc, NEW e, e = Env_r(x, ex, r, a, o, sc),
         NEW new, NEW new2
  PROVE  Entered(e, new, new2) = Env_r(x, ex, r, new2, o, Append(sc, new))
<1> DEFINE h == [e EXCEPT !.scopes = Append(@, new)]
<1>1. e.scopes = sc
  BY EnvFields
<1>2. h = [e EXCEPT !.scopes = Append(sc, new)]
  BY <1>1
<1>3. h = Env_r(x, ex, r, a, o, Append(sc, new))
  BY <1>2 DEF Env_r
<1> HIDE DEF h
<1>4. \A z : h = Env_r(x, ex, r, a, o, z) => [h EXCEPT !.args = new2] = Env_r(x, ex, r, new2, o, z)
  BY DEF Env_r
<1>5. [h EXCEPT !.args = new2] = Env_r(x, ex, r, new2, o, Append(sc, new))
  BY <1>3, <1>4, Zenon
<1> QED
  BY <1>5 DEF h, Entered

LEMMA DoesCall ==
  ASSUME VarsInv, VarsInv', CallFunction
  PROVE  S!Next
<1> DEFINE e == Environment
           f == [saveparam |-> shellparam, localvars |-> <<>>]
           t == Append(stack, f)
           n == Len(stack)
           scope == [vars |-> [v \in {} |-> Unset], args |-> e.args, optval |-> <<>>]
           T == {ScopeOf(Keeping(t)[k], t[k]) : k \in 1 .. n + 1}
<1>1. /\ pc = "run" /\ pc' = "run" /\ stack' = t /\ vartab' = vartab /\ optval' = optval
      /\ shellparam'.args \in Args
  <2>1. PICK a \in Args : shellparam' = [malloc |-> 0, args |-> a]
    BY DEF CallFunction
  <2> QED
    BY <2>1 DEF CallFunction
<1>2. e = Here(vartab, shellparam.args, optval, stack) /\ stack \in Seq(Frame) /\ n \in Nat
  BY <1>1, VisibleNow
<1>3. Environment' = Here(vartab, shellparam'.args, optval, t)
  BY <1>1, VisibleNext
<1>4. /\ t \in Seq(Frame) /\ Len(t) = n + 1 /\ t[n + 1] = f
      /\ \A k \in 1 .. n : t[k] = stack[k]
  <2>1. shellparam \in Params_t /\ <<>> \in Seq(Local_t)
    BY DEF VarsInv, Typed
  <2>2. f \in Frame /\ f.localvars = <<>>
    BY <2>1 DEF Frame
  <2> HIDE DEF f
  <2> QED
    BY <1>2, <2>2, EnterLog
<1> HIDE DEF e, t
<1>5. e.args = shellparam.args /\ e.scopes = ScopesOf(stack)
  BY <1>2, EnvFields DEF Here
<1>6. /\ DOMAIN stack = 1 .. n /\ DOMAIN t = 1 .. n + 1
      /\ \A k \in 1 .. n : Keeping(t)[k] = Keeping(stack)[k]
      /\ Keeping(t)[n + 1] = Held(<<>>)
  <2>1. DOMAIN stack = 1 .. n /\ DOMAIN t = 1 .. n + 1
    BY <1>2, <1>4, LenProperties
  <2>2. \A k \in 1 .. n : k \in 1 .. n + 1
    BY <1>2
  <2>3. n + 1 \in 1 .. n + 1
    BY <1>2
  <2> QED
    BY <1>4, <2>1, <2>2, <2>3 DEF Keeping
<1>7. ScopeOf(Held(<<>>), f) = scope
  <2>1. DOMAIN Held(<<>>) = {}
    BY HeldNone
  <2>2. [v \in DOMAIN Held(<<>>) \ {"-"} |-> Held(<<>>)[v]] = [v \in {} |-> Unset]
    BY <2>1
  <2>3. f.saveparam.args = e.args
    BY <1>5
  <2> HIDE DEF f
  <2> QED
    BY <2>1, <2>2, <2>3 DEF ScopeOf
<1> HIDE DEF f, scope
<1>8. ScopesOf(t) = Append(ScopesOf(stack), scope)
  <2>1. ScopesOf(stack) = [k \in 1 .. n |-> ScopeOf(Keeping(stack)[k], stack[k])]
    BY <1>6 DEF ScopesOf
  <2>2. ScopesOf(t) = [k \in 1 .. n + 1 |-> ScopeOf(Keeping(t)[k], t[k])]
    BY <1>6 DEF ScopesOf
  <2>3. \A k \in 1 .. n : ScopeOf(Keeping(t)[k], t[k]) = ScopeOf(Keeping(stack)[k], stack[k])
    BY <1>4, <1>6
  <2>4. ScopeOf(Keeping(t)[n + 1], t[n + 1]) = scope
    BY <1>4, <1>6, <1>7
  <2>5. /\ \A k \in 1 .. n : k \in 1 .. n + 1
        /\ n + 1 \in 1 .. n + 1
    BY <1>2
  <2>6. scope \in T /\ \A k \in 1 .. n : ScopeOf(Keeping(stack)[k], stack[k]) \in T
    BY <2>3, <2>4, <2>5
  <2> HIDE DEF T
  <2>7. ScopesOf(stack) \in Seq(T) /\ Len(ScopesOf(stack)) = n
    BY <1>2, <2>1, <2>6
  <2>8. /\ Append(ScopesOf(stack), scope) \in Seq(T)
        /\ Len(Append(ScopesOf(stack), scope)) = n + 1
        /\ \A k \in 1 .. n : Append(ScopesOf(stack), scope)[k] = ScopesOf(stack)[k]
        /\ Append(ScopesOf(stack), scope)[n + 1] = scope
    BY <2>6, <2>7, AppendProperties
  <2>9. \A k \in 1 .. n + 1 : ScopesOf(t)[k] = Append(ScopesOf(stack), scope)[k]
    <3> TAKE k \in 1 .. n + 1
    <3>1. CASE k = n + 1
      BY <2>2, <2>4, <2>8, <3>1
    <3>2. CASE k # n + 1
      <4>1. k \in 1 .. n
        BY <1>2, <3>2
      <4> QED
        BY <2>1, <2>2, <2>3, <2>8, <4>1
    <3> QED
      BY <3>1, <3>2
  <2>10. DOMAIN Append(ScopesOf(stack), scope) = 1 .. n + 1
    BY <2>8, LenProperties
  <2>11. Append(ScopesOf(stack), scope) = [k \in 1 .. n + 1 |-> Append(ScopesOf(stack), scope)[k]]
    BY <2>8, <2>10, LenProperties
  <2> QED
    BY <2>2, <2>9, <2>11
<1>9. Entered(e, scope, shellparam'.args) = Environment'
  BY <1>2, <1>3, <1>8, EnvEntered DEF Here
<1>10. S!Enter(e) = {Entered(e, scope, a) : a \in Args}
  BY DEF S!Enter, Entered, scope
<1>11. Environment' \in S!Enter(e)
  BY <1>1, <1>9, <1>10
<1> QED
  BY <1>11 DEF S!Next, e

\* A scope that has its own v, x outside.
Saved(vs, v, x) ==
    IF v \in DOMAIN vs THEN vs ELSE [w \in DOMAIN vs \cup {v} |-> IF w = v THEN x ELSE vs[w]]

WithVars(sc, z) == [sc EXCEPT !.vars = z]
WithOptval(sc, z) == [sc EXCEPT !.optval = z]

LEMMA ScopePush ==
  ASSUME NEW h, NEW lv, NEW f, NEW g, g.saveparam = f.saveparam
  PROVE  /\ lv.var # "-" => ScopeOf(Extended(h, lv), g) =
              WithVars(ScopeOf(h, f), Saved(ScopeOf(h, f).vars, lv.var, Kept_by(lv)))
         /\ lv.var = "-" => ScopeOf(Extended(h, lv), g) =
              WithOptval(ScopeOf(h, f), IF ScopeOf(h, f).optval = <<>> THEN <<Kept_by(lv)>>
                                        ELSE ScopeOf(h, f).optval)
<1> DEFINE x == Extended(h, lv)
           s == ScopeOf(h, f)
           own == [v \in DOMAIN x \ {"-"} |-> x[v]]
           opt == IF "-" \in DOMAIN x THEN <<x["-"]>> ELSE <<>>
<1>1. /\ DOMAIN x = DOMAIN h \cup {lv.var} /\ \A v \in DOMAIN h : x[v] = h[v]
      /\ lv.var \notin DOMAIN h => x[lv.var] = Kept_by(lv)
  BY DEF Extended
<1>2. s = [vars |-> [v \in DOMAIN h \ {"-"} |-> h[v]], args |-> f.saveparam.args,
           optval |-> IF "-" \in DOMAIN h THEN <<h["-"]>> ELSE <<>>]
  BY DEF ScopeOf
<1>3. ScopeOf(x, g) = [vars |-> own, args |-> f.saveparam.args, optval |-> opt]
  BY DEF ScopeOf
<1>4. /\ s.vars = [v \in DOMAIN h \ {"-"} |-> h[v]]
      /\ s.optval = IF "-" \in DOMAIN h THEN <<h["-"]>> ELSE <<>>
  BY <1>2
<1>5. \A y : <<y>> # <<>>
  OBVIOUS
<1>8. \A a, b, c, q, z : q = [vars |-> a, args |-> b, optval |-> c] =>
        /\ WithVars(q, z) = [vars |-> z, args |-> b, optval |-> c]
        /\ WithOptval(q, z) = [vars |-> a, args |-> b, optval |-> z]
  BY DEF WithVars, WithOptval
<1> HIDE DEF x, s
<1>9. s = [vars |-> s.vars, args |-> f.saveparam.args, optval |-> s.optval]
  BY <1>2, <1>4
<1>6. ASSUME lv.var # "-" PROVE ScopeOf(x, g) = WithVars(s, Saved(s.vars, lv.var, Kept_by(lv)))
  <2>1. opt = s.optval
    BY <1>1, <1>4, <1>6
  <2>2. own = Saved(s.vars, lv.var, Kept_by(lv))
    <3>1. DOMAIN s.vars = DOMAIN h \ {"-"} /\ \A v \in DOMAIN s.vars : s.vars[v] = h[v]
      BY <1>4
    <3>2. CASE lv.var \in DOMAIN h
      <4>1. own = s.vars
        BY <1>1, <1>4, <3>2
      <4> QED
        BY <1>6, <3>1, <3>2, <4>1 DEF Saved
    <3>3. CASE lv.var \notin DOMAIN h
      <4>1. DOMAIN x \ {"-"} = DOMAIN s.vars \cup {lv.var}
        BY <1>1, <1>6, <3>1
      <4>2. \A w \in DOMAIN s.vars \cup {lv.var} : x[w] = IF w = lv.var THEN Kept_by(lv) ELSE s.vars[w]
        BY <1>1, <3>1, <3>3
      <4> QED
        BY <3>1, <3>3, <4>1, <4>2 DEF Saved
    <3> QED
      BY <3>2, <3>3
  <2> HIDE DEF own, opt
  <2>3. WithVars(s, own) = [vars |-> own, args |-> f.saveparam.args, optval |-> s.optval]
    BY <1>8, <1>9
  <2> QED
    BY <1>3, <2>1, <2>2, <2>3
<1>7. ASSUME lv.var = "-"
      PROVE  ScopeOf(x, g) = WithOptval(s, IF s.optval = <<>> THEN <<Kept_by(lv)>> ELSE s.optval)
  <2>1. own = s.vars
    <3>1. DOMAIN x \ {"-"} = DOMAIN h \ {"-"}
      BY <1>1, <1>7
    <3> QED
      BY <1>1, <1>4, <3>1
  <2>2. opt = IF s.optval = <<>> THEN <<Kept_by(lv)>> ELSE s.optval
    <3>1. "-" \in DOMAIN x
      BY <1>1, <1>7
    <3> QED
      BY <1>1, <1>4, <1>5, <1>7, <3>1
  <2> HIDE DEF own, opt
  <2>3. WithOptval(s, opt) = [vars |-> s.vars, args |-> f.saveparam.args, optval |-> opt]
    BY <1>8, <1>9
  <2> QED
    BY <1>3, <2>1, <2>2, <2>3
<1> QED
  BY <1>6, <1>7 DEF x, s

\* The innermost function gets the local variable lv.
LEMMA PushKeeping ==
  ASSUME VarsInv, stack # <<>>, NEW lv \in Local_t, stack' = Push(lv)
  PROVE  LET n == Len(stack)
             h == Keeping(stack)[n]
         IN  /\ n \in Nat \ {0} /\ n \in DOMAIN stack /\ n \in DOMAIN ScopesOf(stack)
             /\ stack'[n].saveparam = stack[n].saveparam
             /\ ScopesOf(stack)[n] = ScopeOf(h, stack[n])
             /\ ScopesOf(stack') = Put(ScopesOf(stack), n, ScopeOf(Extended(h, lv), stack'[n]))
             /\ Len(ScopesOf(stack)) = n
<1> DEFINE n == Len(stack)
           l == stack[n].localvars
           h == Keeping(stack)[n]
<1>1. stack \in Seq(Frame)
  BY DEF VarsInv, Typed
<1>2. n \in Nat \ {0} /\ n \in 1 .. n
  BY <1>1, EmptySeq, LenProperties
<1>3. DOMAIN stack = 1 .. n /\ l \in Seq(Local_t) /\ stack[n] \in Frame
  BY <1>1, <1>2, FrameFacts
<1>4. stack' = [stack EXCEPT ![n] = [stack[n] EXCEPT !.localvars = <<lv>> \o l]]
  BY DEF Push
<1>5. /\ stack'[n].localvars = <<lv>> \o l /\ stack'[n].saveparam = stack[n].saveparam
      /\ DOMAIN stack' = 1 .. n /\ \A k \in 1 .. n : k # n => stack'[k] = stack[k]
  BY <1>2, <1>3, <1>4 DEF Frame
<1>6. h = Held(l) /\ Keeping(stack')[n] = Extended(h, lv)
  <2>1. h = Held(l)
    BY <1>2, <1>3 DEF Keeping
  <2>2. Keeping(stack')[n] = Held(<<lv>> \o l)
    BY <1>2, <1>5 DEF Keeping
  <2>3. Held(<<lv>> \o l) = Extended(Held(l), lv)
    BY <1>3, HeldPush
  <2> QED
    BY <2>1, <2>2, <2>3
<1> HIDE DEF h
<1>8. \A k \in 1 .. n : k # n => Keeping(stack')[k] = Keeping(stack)[k]
  BY <1>3, <1>5 DEF Keeping
<1>9. ScopesOf(stack) = [k \in 1 .. n |-> ScopeOf(Keeping(stack)[k], stack[k])]
  BY <1>3 DEF ScopesOf
<1>10. ScopesOf(stack') = [k \in 1 .. n |-> ScopeOf(Keeping(stack')[k], stack'[k])]
  BY <1>5 DEF ScopesOf
<1>11. ScopesOf(stack') = Put(ScopesOf(stack), n, ScopeOf(Extended(h, lv), stack'[n]))
  <2>1. \A k \in 1 .. n : ScopeOf(Keeping(stack')[k], stack'[k]) =
            IF k = n THEN ScopeOf(Extended(h, lv), stack'[n]) ELSE ScopeOf(Keeping(stack)[k], stack[k])
    BY <1>5, <1>6, <1>8
  <2> QED
    BY <1>9, <1>10, <2>1 DEF Put
<1>12. ScopesOf(stack)[n] = ScopeOf(h, stack[n]) /\ DOMAIN ScopesOf(stack) = 1 .. n
  BY <1>2, <1>9 DEF h
<1>13. Len(ScopesOf(stack)) = n
  BY <1>2, <1>9
<1> QED
  BY <1>2, <1>3, <1>5, <1>11, <1>12, <1>13 DEF h

LEMMA AttributesIs ==
  ASSUME NEW tab \in [Vars -> Var_t], NEW args, NEW letters, NEW s,
         NEW e, e = Here(tab, args, letters, s), NEW v \in Vars
  PROVE  S!Attributes(e, v) = Attr(tab[v])
<1>1. e.value = ValueOf(tab) /\ e.exported = ExportedOf(tab) /\ e.readonly = ReadonlyOf(tab)
  BY EnvFields DEF Here
<1>2. Attr(tab[v]).exported = tab[v].exported /\ Attr(tab[v]).readonly = tab[v].readonly
  BY DEF Attr
<1>3. tab[v] \in Var_t
  OBVIOUS
<1>4. tab[v].exported \in BOOLEAN /\ tab[v].readonly \in BOOLEAN
  BY <1>3, VarFields
<1>5. (v \in e.exported) = tab[v].exported /\ (v \in e.readonly) = tab[v].readonly
  BY <1>1, <1>2, <1>4 DEF ExportedOf, ReadonlyOf
<1>6. e.value[v] = Attr(tab[v]).value
  BY <1>1 DEF ValueOf
<1>7. S!Attributes(e, v) = [value |-> Attr(tab[v]).value, exported |-> tab[v].exported,
                            readonly |-> tab[v].readonly]
  BY <1>5, <1>6 DEF S!Attributes
<1> QED
  BY <1>7 DEF Attr

\* A variable becomes local to the innermost function, and gets a value.
Localized(e, n, q, v, x) == [e EXCEPT !.scopes[n].vars = q, !.value[v] = x]

LEMMA EnvLocalized ==
  ASSUME NEW x, NEW ex, NEW r, NEW a, NEW o, NEW sc, NEW e, e = Env_r(x, ex, r, a, o, sc),
         NEW n, NEW q, NEW v, NEW y
  PROVE  Localized(e, n, q, v, y) = Env_r(Put(x, v, y), ex, r, a, o, Put(sc, n, WithVars(sc[n], q)))
<1> DEFINE h == [e EXCEPT !.scopes[n].vars = q]
           new == Put(sc, n, WithVars(sc[n], q))
<1>1. e.scopes = sc
  BY EnvFields
<1>2. h = [e EXCEPT !.scopes = new]
  BY <1>1 DEF Put, WithVars
<1> HIDE DEF new
<1>3. h = Env_r(x, ex, r, a, o, new)
  BY <1>2 DEF Env_r
<1> HIDE DEF h
<1>4. h.value = x
  BY <1>3, EnvFields
<1>5. [h EXCEPT !.value[v] = y] = [h EXCEPT !.value = Put(x, v, y)]
  BY <1>4 DEF Put
<1>6. \A z : [h EXCEPT !.value = z] = Env_r(z, ex, r, a, o, new)
  BY <1>3 DEF Env_r
<1>7. [h EXCEPT !.value[v] = y] = Env_r(Put(x, v, y), ex, r, a, o, new)
  BY <1>5, <1>6
<1> QED
  BY <1>7 DEF h, new, Localized

LEMMA InLocal ==
  ASSUME NEW x, NEW ex, NEW r, NEW a, NEW o, NEW sc, NEW e, e = Env_r(x, ex, r, a, o, sc),
         NEW n \in Nat \ {0}, Len(sc) = n, NEW v, NEW y,
         y = x[v] \/ (v \notin r /\ y \in Values),
         NEW q, q = Saved(sc[n].vars, v, S!Attributes(e, v))
  PROVE  Env_r(Put(x, v, y), ex, r, a, o, Put(sc, n, WithVars(sc[n], q))) \in S!Local(e, v)
<1> DEFINE values == IF v \in e.readonly THEN {e.value[v]} ELSE Values \cup {e.value[v]}
<1>1. e.readonly = r /\ e.value = x /\ e.scopes = sc
  BY EnvFields
<1>2. S!Local(e, v) = IF n = 0 THEN {}
                      ELSE {Localized(e, n, Saved(sc[n].vars, v, S!Attributes(e, v)), v, z) : z \in values}
  <2>1. S!Local(e, v) =
          IF Len(e.scopes) = 0 THEN {}
          ELSE {Localized(e, Len(e.scopes), Saved(e.scopes[Len(e.scopes)].vars, v, S!Attributes(e, v)), v, z)
                  : z \in values}
    BY Zenon DEF S!Local, Localized, Saved
  <2> HIDE DEF values
  <2> QED
    BY <1>1, <2>1
<1>3. y \in values
  BY <1>1
<1> HIDE DEF values
<1>4. Localized(e, n, q, v, y) \in S!Local(e, v)
  BY <1>2, <1>3
<1> QED
  BY <1>4, EnvLocalized

LettersSaved(e, n, q) == [e EXCEPT !.scopes[n].optval = q]

LEMMA InLocalOptions ==
  ASSUME NEW x, NEW ex, NEW r, NEW a, NEW o, NEW sc, NEW e, e = Env_r(x, ex, r, a, o, sc),
         NEW n \in Nat \ {0}, Len(sc) = n,
         NEW q, q = IF sc[n].optval = <<>> THEN <<o>> ELSE sc[n].optval
  PROVE  Env_r(x, ex, r, a, o, Put(sc, n, WithOptval(sc[n], q))) \in S!LocalOptions(e)
<1>1. e.optval = o /\ e.scopes = sc
  BY EnvFields
<1>2. S!LocalOptions(e) = {LettersSaved(e, n, q)}
  BY <1>1 DEF S!LocalOptions, LettersSaved
<1>3. LettersSaved(e, n, q) = [e EXCEPT !.scopes = Put(sc, n, WithOptval(sc[n], q))]
  BY <1>1 DEF LettersSaved, Put, WithOptval
<1>4. LettersSaved(e, n, q) = Env_r(x, ex, r, a, o, Put(sc, n, WithOptval(sc[n], q)))
  BY <1>3 DEF Env_r
<1> QED
  BY <1>2, <1>4

\* One variable becomes d, which may have another value.
Valued_by(tab, v, d, tab2) ==
    /\ Becomes(tab, v, d, tab2)
    /\ Attr(d).exported = Attr(tab[v]).exported /\ Attr(d).readonly = Attr(tab[v]).readonly

LEMMA TableValued ==
  ASSUME NEW tab, NEW v, NEW d, NEW tab2, Valued_by(tab, v, d, tab2)
  PROVE  /\ ValueOf(tab2) = Put(ValueOf(tab), v, Attr(d).value)
         /\ ExportedOf(tab2) = ExportedOf(tab) /\ ReadonlyOf(tab2) = ReadonlyOf(tab)
<1>1. v \in Vars /\ \A w \in Vars : tab2[w] = IF w = v THEN d ELSE tab[w]
  BY DEF Valued_by, Becomes
<1>2. \A w \in Vars : Attr(tab2[w]).exported = Attr(tab[w]).exported
                    /\ Attr(tab2[w]).readonly = Attr(tab[w]).readonly
  BY <1>1 DEF Valued_by
<1>3. ValueOf(tab2) = Put(ValueOf(tab), v, Attr(d).value)
  BY <1>1 DEF ValueOf, Put
<1> QED
  BY <1>2, <1>3 DEF ExportedOf, ReadonlyOf

LEMMA ScopePushVar ==
  ASSUME NEW h, NEW lv, lv.var # "-",
         NEW f, NEW g, g.saveparam = f.saveparam, NEW s, s = ScopeOf(h, f)
  PROVE  ScopeOf(Extended(h, lv), g) = WithVars(s, Saved(s.vars, lv.var, Kept_by(lv)))
BY ScopePush

\* v becomes local to the innermost function, with value y.
LEMMA LocalStep ==
  ASSUME VarsInv, VarsInv', pc = "run", stack # <<>>, NEW v \in Vars,
         NEW lv \in Local_t, lv.var = v, Kept_by(lv) = Attr(vartab[v]), stack' = Push(lv),
         UNCHANGED <<shellparam, optval, pc>>,
         NEW d, vartab' = [vartab EXCEPT ![v] = d], NEW y,
         Attr(d) = [value |-> y, exported |-> vartab[v].exported, readonly |-> vartab[v].readonly],
         y = Attr(vartab[v]).value \/ (~vartab[v].readonly /\ y \in Values)
  PROVE  S!Next
<1> DEFINE e == Environment
           n == Len(stack)
           h == Keeping(stack)[n]
           sc == ScopesOf(stack)
           q == Saved(sc[n].vars, v, S!Attributes(e, v))
<1>1. /\ e = Here(vartab, shellparam.args, optval, stack)
      /\ vartab \in [Vars -> Var_t]
  BY VisibleNow
<1>2. Environment' = Here(vartab', shellparam.args, optval, stack')
  BY VisibleNext
<1> HIDE DEF e
<1>3. S!Attributes(e, v) = Attr(vartab[v])
  BY <1>1, AttributesIs
<1>4. /\ n \in Nat \ {0} /\ Len(sc) = n /\ sc[n] = ScopeOf(h, stack[n])
      /\ stack'[n].saveparam = stack[n].saveparam
      /\ ScopesOf(stack') = Put(sc, n, ScopeOf(Extended(h, lv), stack'[n]))
  BY PushKeeping
<1>5. v # "-"
  BY VarsAssumption
<1> HIDE DEF n, h, sc
<1>6. ScopeOf(Extended(h, lv), stack'[n]) = WithVars(sc[n], q)
  <2>1. lv.var # "-"
    BY <1>5
  <2>2. ScopeOf(Extended(h, lv), stack'[n]) = WithVars(sc[n], Saved(sc[n].vars, lv.var, Kept_by(lv)))
    BY <1>4, <2>1, ScopePushVar
  <2> QED
    BY <1>3, <2>2
<1>7. Becomes(vartab, v, d, vartab')
  BY <1>1 DEF Becomes
<1>8. /\ Attr(d).value = y /\ Attr(d).exported = vartab[v].exported
      /\ Attr(d).readonly = vartab[v].readonly
      /\ Attr(vartab[v]).exported = vartab[v].exported
      /\ Attr(vartab[v]).readonly = vartab[v].readonly
  <2>1. Attr(d).value = y /\ Attr(d).exported = vartab[v].exported
        /\ Attr(d).readonly = vartab[v].readonly
    OBVIOUS
  <2> QED
    BY <2>1 DEF Attr
<1>9. /\ ValueOf(vartab') = Put(ValueOf(vartab), v, y)
      /\ ExportedOf(vartab') = ExportedOf(vartab) /\ ReadonlyOf(vartab') = ReadonlyOf(vartab)
      /\ v \in ReadonlyOf(vartab) <=> vartab[v].readonly
  <2>1. Valued_by(vartab, v, d, vartab')
    BY <1>7, <1>8 DEF Valued_by
  <2>2. /\ ValueOf(vartab') = Put(ValueOf(vartab), v, Attr(d).value)
        /\ ExportedOf(vartab') = ExportedOf(vartab) /\ ReadonlyOf(vartab') = ReadonlyOf(vartab)
    BY <2>1, TableValued
  <2>3. v \in ReadonlyOf(vartab) <=> vartab[v].readonly
    BY <1>8 DEF ReadonlyOf
  <2> QED
    BY <1>8, <2>2, <2>3
<1>10. ValueOf(vartab)[v] = Attr(vartab[v]).value
  BY DEF ValueOf
<1>11. e = Env_r(ValueOf(vartab), ExportedOf(vartab), ReadonlyOf(vartab), shellparam.args, optval, sc)
  BY <1>1 DEF Here, sc
<1>12. Environment' = Env_r(Put(ValueOf(vartab), v, y), ExportedOf(vartab), ReadonlyOf(vartab),
                            shellparam.args, optval, Put(sc, n, WithVars(sc[n], q)))
  BY <1>2, <1>4, <1>6, <1>9 DEF Here
<1>13. y = ValueOf(vartab)[v] \/ (v \notin ReadonlyOf(vartab) /\ y \in Values)
  BY <1>9, <1>10
<1>14. Environment' \in S!Local(e, v)
  BY <1>4, <1>11, <1>12, <1>13, InLocal
<1> QED
  BY <1>14 DEF S!Next, e

LEMMA DoesMklocal ==
  ASSUME VarsInv, VarsInv', NEW v \in Vars, mklocal(v)
  PROVE  S!Next
<1> DEFINE lv == LocalVar(v, TRUE)
<1>1. /\ pc = "run" /\ stack # <<>> /\ ~vartab[v].here /\ stack' = Push(lv)
      /\ UNCHANGED <<shellparam, optval, pc>>
  BY DEF mklocal
<1>2. vartab[v] \in Var_t /\ Fresh(v) \in Nat /\ vartab[v] = Absent
  BY <1>1, VarInv DEF Suits
<1>3. lv \in Local_t /\ lv.var = v /\ Kept_by(lv) = Attr(vartab[v])
  <2>1. v # "-"
    BY VarsAssumption
  <2>2. lv = [var |-> v, created |-> TRUE, was |-> vartab[v]]
    BY DEF LocalVar
  <2> HIDE DEF lv
  <2>3. lv \in Local_t
    BY <1>2, <2>2 DEF Local_t
  <2>4. lv.var = v /\ lv.created = TRUE
    BY <2>2
  <2> QED
    BY <1>2, <2>1, <2>3, <2>4 DEF Kept_by
<1> HIDE DEF lv
<1>4. PICK e \in {NewUnset(v)} \cup {Assigned(v, x) : x \in Values} :
        vartab' = [vartab EXCEPT ![v] = [e EXCEPT !.strfixed = TRUE]]
  BY DEF mklocal
<1>5. Attr(vartab[v]) = Nothing /\ vartab[v].exported = FALSE /\ vartab[v].readonly = FALSE
  BY <1>2, AttrAbsent DEF Absent
<1> DEFINE d == [e EXCEPT !.strfixed = TRUE]
<1>6. e \in Var_t
  BY <1>2, <1>4, NewUnsetIs, AssignedIs
<1>7. Attr(d) = Attr(e)
  BY <1>6, AttrSame
<1> HIDE DEF d
<1>8. CASE e = NewUnset(v)
  <2>1. Attr(d) = [value |-> Unset, exported |-> vartab[v].exported, readonly |-> vartab[v].readonly]
    BY <1>5, <1>7, <1>8, AttrNewUnset DEF Nothing
  <2>2. Unset = Attr(vartab[v]).value
    BY <1>5 DEF Nothing
  <2>3. vartab' = [vartab EXCEPT ![v] = d]
    BY <1>4 DEF d
  <2> QED
    BY <1>1, <1>3, <2>1, <2>2, <2>3, LocalStep
<1>9. CASE \E x \in Values : e = Assigned(v, x)
  <2>0. PICK x \in Values : e = Assigned(v, x)
    BY <1>9
  <2>1. Attr(d) = [value |-> x, exported |-> vartab[v].exported, readonly |-> vartab[v].readonly]
    BY <1>2, <1>7, <2>0, AttrAssigned
  <2>3. vartab' = [vartab EXCEPT ![v] = d]
    BY <1>4 DEF d
  <2>4. ~vartab[v].readonly
    BY <1>5
  <2> QED
    BY <1>1, <1>3, <2>1, <2>3, <2>4, LocalStep
<1> QED
  BY <1>4, <1>8, <1>9

LEMMA DoesMklocalExisting ==
  ASSUME VarsInv, VarsInv', NEW v \in Vars, mklocal_existing(v)
  PROVE  S!Next
<1> DEFINE lv == LocalVar(v, FALSE)
           b == Lowest((KeptTexts(v) \cup {vartab[v].text}) \ {0})
<1>1. /\ pc = "run" /\ stack # <<>> /\ stack' = Push(lv)
      /\ UNCHANGED <<shellparam, optval, pc>>
      /\ \/ vartab' = [vartab EXCEPT ![v] = Kept(@)]
         \/ /\ ~vartab[v].readonly
            /\ \E x \in Values :
                 vartab' = [vartab EXCEPT ![v] = [Assigned(v, x) EXCEPT !.strfixed = TRUE, !.text = b]]
  BY DEF mklocal_existing
<1>2. vartab[v] \in Var_t /\ Fresh(v) \in Nat
  BY VarInv
<1>3. lv \in Local_t /\ lv.var = v /\ Kept_by(lv) = Attr(vartab[v])
  <2>1. v # "-"
    BY VarsAssumption
  <2>2. lv = [var |-> v, created |-> FALSE, was |-> vartab[v]]
    BY DEF LocalVar
  <2> HIDE DEF lv
  <2>3. lv \in Local_t
    BY <1>2, <2>2 DEF Local_t
  <2>4. lv.var = v /\ lv.created = FALSE /\ lv.was = vartab[v]
    BY <2>2
  <2> QED
    BY <1>2, <2>1, <2>3, <2>4 DEF Kept_by
<1> HIDE DEF lv, b
<1>4. CASE vartab' = [vartab EXCEPT ![v] = Kept(@)]
  <2> DEFINE d == Kept(vartab[v])
  <2>1. Attr(d) = Attr(vartab[v])
    BY <1>2, AttrSame
  <2>2. vartab' = [vartab EXCEPT ![v] = d]
    BY <1>4
  <2> HIDE DEF d
  <2>3. Attr(d) = [value |-> Attr(vartab[v]).value, exported |-> vartab[v].exported,
                   readonly |-> vartab[v].readonly]
    BY <2>1 DEF Attr
  <2> QED
    BY <1>1, <1>3, <2>2, <2>3, LocalStep
<1>5. ASSUME ~vartab[v].readonly, NEW x \in Values,
             vartab' = [vartab EXCEPT ![v] = [Assigned(v, x) EXCEPT !.strfixed = TRUE, !.text = b]]
      PROVE  S!Next
  <2> DEFINE d == [Assigned(v, x) EXCEPT !.strfixed = TRUE, !.text = b]
  <2>1. Assigned(v, x) \in Var_t
    BY <1>2, AssignedIs
  <2>2. Attr(d) = Attr(Assigned(v, x))
    BY <2>1, AttrSame
  <2>3. vartab' = [vartab EXCEPT ![v] = d]
    BY <1>5
  <2> HIDE DEF d
  <2>4. Attr(d) = [value |-> x, exported |-> vartab[v].exported, readonly |-> vartab[v].readonly]
    BY <1>2, <2>2, AttrAssigned
  <2> QED
    BY <1>1, <1>3, <1>5, <2>3, <2>4, LocalStep
<1> QED
  BY <1>1, <1>4, <1>5

LEMMA DoesMklocalOptions ==
  ASSUME VarsInv, VarsInv', mklocal_options
  PROVE  S!Next
<1> DEFINE e == Environment
           lv == [var |-> "-", created |-> FALSE, was |-> optval]
           n == Len(stack)
           h == Keeping(stack)[n]
           sc == ScopesOf(stack)
           q == IF sc[n].optval = <<>> THEN <<optval>> ELSE sc[n].optval
<1>1. /\ pc = "run" /\ stack # <<>> /\ stack' = Push(lv)
      /\ UNCHANGED <<vartab, shellparam, optval, pc>>
  BY DEF mklocal_options
<1>2. /\ e = Here(vartab, shellparam.args, optval, stack)
      /\ optval \subseteq Options
  BY <1>1, VisibleNow
<1>3. Environment' = Here(vartab, shellparam.args, optval, stack')
  BY <1>1, VisibleNext
<1> HIDE DEF e
<1>4. lv \in Local_t /\ lv.var = "-" /\ Kept_by(lv) = optval
  <2>1. lv \in [var : {"-"}, created : {FALSE}, was : SUBSET Options]
    BY <1>2
  <2>2. lv.var = "-" /\ lv.was = optval
    OBVIOUS
  <2> HIDE DEF lv
  <2> QED
    BY <2>1, <2>2 DEF Kept_by, Local_t
<1> HIDE DEF lv
<1>5. /\ n \in Nat \ {0} /\ Len(sc) = n /\ sc[n] = ScopeOf(h, stack[n])
      /\ stack'[n].saveparam = stack[n].saveparam
      /\ ScopesOf(stack') = Put(sc, n, ScopeOf(Extended(h, lv), stack'[n]))
  BY <1>1, <1>4, PushKeeping
<1> HIDE DEF n, h, sc
<1>6. ScopeOf(Extended(h, lv), stack'[n]) = WithOptval(sc[n], q)
  <2>1. ScopeOf(Extended(h, lv), stack'[n]) =
          WithOptval(ScopeOf(h, stack[n]), IF ScopeOf(h, stack[n]).optval = <<>> THEN <<Kept_by(lv)>>
                                           ELSE ScopeOf(h, stack[n]).optval)
    BY <1>4, <1>5, ScopePush
  <2> QED
    BY <1>4, <1>5, <2>1
<1>7. e = Env_r(ValueOf(vartab), ExportedOf(vartab), ReadonlyOf(vartab), shellparam.args, optval, sc)
  BY <1>2 DEF Here, sc
<1>8. Environment' = Env_r(ValueOf(vartab), ExportedOf(vartab), ReadonlyOf(vartab),
                           shellparam.args, optval, Put(sc, n, WithOptval(sc[n], q)))
  BY <1>3, <1>5, <1>6 DEF Here
<1>9. Environment' \in S!LocalOptions(e)
  BY <1>5, <1>7, <1>8, InLocalOptions
<1> QED
  BY <1>9 DEF S!Next, e

-----------------------------------------------------------------------------
(* Functions are left                                                        *)

LeftIs ==
    /\ pc = "run" => Left = {}
    /\ pc = "return" => Left = {Len(stack)}
    /\ pc = "unwind" => Left = DOMAIN stack

LEMMA LeftNow == LeftIs
BY DEF LeftIs, Left

LEMMA LeftNext == LeftIs'
BY LeftNow, PTL

\* A function returns, or all are abandoned; the table may have got flags.
LEMMA LeaveStep ==
  ASSUME VarsInv, VarsInv', pc = "run", stack # <<>>, UNCHANGED <<stack, optval>>,
         \A v \in Vars : Attr(vartab'[v]) = Attr(vartab[v]),
         pc' \in {"return", "unwind"}
  PROVE  S!Next
<1> DEFINE e == Environment
           n == Len(stack)
           i == IF pc' = "return" THEN n ELSE 1
           L == i .. n
           args == shellparam.args
<1>1. /\ vartab \in [Vars -> Var_t] /\ stack \in Seq(Frame) /\ DOMAIN stack = 1 .. n /\ n \in Nat
      /\ e = Here(vartab, args, optval, stack)
  BY VisibleNow
<1>2. n \in 1 .. n /\ 1 \in 1 .. n /\ i \in 1 .. n /\ n .. n = {n}
  BY <1>1, EmptySeq
<1>3. Left' = L
  <2>1. /\ pc' = "return" => Left' = {Len(stack')}
        /\ pc' = "unwind" => Left' = DOMAIN stack'
    BY LeftNext DEF LeftIs
  <2> QED
    BY <1>1, <1>2, <2>1
<1>4. Environment' = Shown(vartab', shellparam'.args, optval, stack, L)
  <2>1. Mapped'
    BY EnvNext
  <2> QED
    BY <1>3, <2>1 DEF Mapped
<1>5. L # {} /\ L \subseteq 1 .. n
  BY <1>1, <1>2
<1> HIDE DEF e, i, args, L
<1>6. Shown(vartab', shellparam'.args, optval, stack, L) = Shown(vartab, args, optval, stack, L)
  BY <1>5 DEF Shown
<1>7. S!Leave(Shown(vartab, args, optval, stack, {}), i) = Shown(vartab, args, optval, stack, L)
  BY <1>1, <1>2, LeaveShown DEF L
<1>8. Shown(vartab, args, optval, stack, {}) = e
  BY <1>1, ShownHere
<1>9. Environment' = S!Leave(e, i)
  BY <1>4, <1>6, <1>7, <1>8
<1>10. e.scopes = ScopesOf(stack)
  BY <1>1, EnvFields DEF Here
<1>11. DOMAIN e.scopes = 1 .. n /\ Len(e.scopes) = n
  <2>1. ScopesOf(stack) = [k \in 1 .. n |-> ScopeOf(Keeping(stack)[k], stack[k])]
    BY <1>1 DEF ScopesOf
  <2> QED
    BY <1>1, <1>10, <2>1
<1>12. i \in {1, n}
  BY DEF i
<1>13. i \in {1, Len(e.scopes)} \cap DOMAIN e.scopes
  BY <1>2, <1>11, <1>12
<1>14. Environment' \in S!Return(e)
  BY <1>9, <1>13 DEF S!Return
<1> QED
  BY <1>14 DEF S!Next, e

LEMMA DoesRaise ==
  ASSUME VarsInv, VarsInv', Raise \/ Return
  PROVE  S!Next
<1>1. /\ pc = "run" /\ stack # <<>> /\ UNCHANGED <<vartab, optval, stack>>
      /\ pc' \in {"return", "unwind"}
  BY DEF Raise, Return, Handler
<1> QED
  BY <1>1, LeaveStep

LEMMA DoesMklocalError ==
  ASSUME VarsInv, VarsInv', NEW v \in Vars, mklocal_error(v)
  PROVE  S!Next \/ Environment' = Environment
<1>1. /\ pc = "run" /\ stack # <<>> /\ UNCHANGED <<optval, stack>>
      /\ vartab' = [vartab EXCEPT ![v] = Kept(vartab[v])]
      /\ UNCHANGED <<pc, shellparam>> \/ pc' = "unwind"
  BY DEF mklocal_error, Handler
<1>2. vartab \in [Vars -> Var_t]
  BY DEF VarsInv, Typed
<1>3. \A w \in Vars : Attr(vartab'[w]) = Attr(vartab[w])
  <2> TAKE w \in Vars
  <2>1. vartab[w] \in Var_t
    BY <1>2
  <2>2. vartab'[w] = IF w = v THEN Kept(vartab[w]) ELSE vartab[w]
    BY <1>1, <1>2
  <2> QED
    BY <2>1, <2>2, AttrSame
<1>4. CASE pc' = "unwind"
  BY <1>1, <1>3, <1>4, LeaveStep
<1>5. CASE UNCHANGED <<pc, shellparam>>
  <2>1. Environment = Here(vartab, shellparam.args, optval, stack)
    BY <1>1, VisibleNow
  <2>2. Environment' = Here(vartab', shellparam.args, optval, stack)
    BY <1>1, <1>5, VisibleNext
  <2>3. /\ ValueOf(vartab') = ValueOf(vartab) /\ ExportedOf(vartab') = ExportedOf(vartab)
        /\ ReadonlyOf(vartab') = ReadonlyOf(vartab)
    BY <1>3 DEF ValueOf, ExportedOf, ReadonlyOf
  <2> QED
    BY <2>1, <2>2, <2>3 DEF Here
<1> QED
  BY <1>1, <1>4, <1>5

-----------------------------------------------------------------------------
(* What poplocalvars puts back nobody sees                                   *)

\* The innermost function has kept what it kept before its local variable lv was made.
LEMMA PopKeeping ==
  ASSUME VarsInv, Popping, Locals # <<>>, stack' = Popped
  PROVE  LET n == Len(stack)
         IN  /\ n \in Nat /\ n \in 1 .. n /\ DOMAIN stack = 1 .. n /\ DOMAIN stack' = 1 .. n
             /\ Keeping(stack)[n] = Extended(Keeping(stack')[n], Head(Locals))
             /\ \A k \in 1 .. n : /\ stack'[k].saveparam = stack[k].saveparam
                                  /\ k # n => /\ stack'[k] = stack[k]
                                              /\ Keeping(stack')[k] = Keeping(stack)[k]
<1> DEFINE n == Len(stack)
           l == stack[n].localvars
           lv == Head(l)
<1>1. /\ stack # <<>> /\ Popped \in Seq(Frame) /\ Len(Popped) = n
      /\ \A k \in 1 .. n : Popped[k].saveparam = stack[k].saveparam
      /\ Head(Locals) \in Local_t
  BY PopFacts
<1>2. stack \in Seq(Frame)
  BY DEF VarsInv, Typed
<1>3. n \in Nat /\ n \in 1 .. n /\ DOMAIN stack = 1 .. n /\ DOMAIN stack' = 1 .. n
  BY <1>1, <1>2, EmptySeq, LenProperties
<1>4. stack[n] \in Frame /\ l \in Seq(Local_t) /\ l # <<>> /\ Locals = l
  BY <1>2, <1>3, FrameFacts DEF Locals, Last
<1>5. stack' = [stack EXCEPT ![n] = [stack[n] EXCEPT !.localvars = Tail(l)]]
  BY DEF Popped
<1>6. stack'[n].localvars = Tail(l) /\ \A k \in 1 .. n : k # n => stack'[k] = stack[k]
  BY <1>3, <1>4, <1>5 DEF Frame
<1>7. Tail(l) \in Seq(Local_t) /\ lv \in Local_t /\ l = <<lv>> \o Tail(l)
  <2>1. Tail(l) \in Seq(Local_t) /\ lv \in Local_t
    BY <1>1, <1>4, HeadTailProperties
  <2>2. l = <<lv>> \o Tail(l)
    BY <1>4
  <2> QED
    BY <2>1, <2>2
<1> HIDE DEF l, lv, n
<1>8. Keeping(stack)[n] = Held(l) /\ Keeping(stack')[n] = Held(Tail(l))
  BY <1>3, <1>6 DEF Keeping, l
<1>9. Held(l) = Extended(Held(Tail(l)), lv)
  <2>1. Held(<<lv>> \o Tail(l)) = Extended(Held(Tail(l)), lv)
    BY <1>7, HeldPush
  <2> QED
    BY <1>7, <2>1
<1>10. \A k \in 1 .. n : k # n => Keeping(stack')[k] = Keeping(stack)[k]
  BY <1>3, <1>6 DEF Keeping
<1>11. \A k \in 1 .. n : stack'[k].saveparam = stack[k].saveparam
  BY <1>1
<1> QED
  BY <1>3, <1>4, <1>6, <1>8, <1>9, <1>10, <1>11 DEF n, lv

\* The functions that are left: the innermost is one of them.
LEMMA LeftPopping ==
  ASSUME VarsInv, Popping
  PROVE  Left \subseteq 1 .. Len(stack) /\ Len(stack) \in Left
<1>1. stack \in Seq(Frame) /\ stack # <<>> /\ pc \in {"return", "unwind"}
  BY DEF VarsInv, Typed, ParamsOwned, Popping
<1>2. DOMAIN stack = 1 .. Len(stack) /\ Len(stack) \in 1 .. Len(stack)
  BY <1>1, EmptySeq, LenProperties
<1> QED
  BY <1>1, <1>2, LeftNow DEF LeftIs

Pops(h, g, L, n, lv) ==
    /\ n \in Nat /\ L \in SUBSET (1 .. n) /\ n \in L
    /\ h[n] = Extended(g[n], lv) /\ \A k \in L : k # n => g[k] = h[k]

LEMMA NowPops ==
  ASSUME NEW h, NEW g, NEW L, NEW n, NEW lv, Pops(h, g, L, n, lv),
         NEW x, NEW y, NEW v, y = IF v = lv.var THEN Kept_by(lv) ELSE x
  PROVE  Now(y, g, L, v) = Now(x, h, L, v)
BY NowPop DEF Pops

\* A local variable has been put back.
LEMMA PopStep ==
  ASSUME VarsInv, VarsInv', Popping, Locals # <<>>, stack' = Popped, pc' = pc,
         NEW lv, lv = Head(Locals),
         \A v \in Vars : Attr(vartab'[v]) = IF v = lv.var THEN Kept_by(lv) ELSE Attr(vartab[v]),
         optval' = IF "-" = lv.var THEN Kept_by(lv) ELSE optval
  PROVE  Environment' = Environment
<1> DEFINE n == Len(stack)
           L == Left
           h == Keeping(stack)
           g == Keeping(stack')
<1>1. /\ n \in Nat /\ DOMAIN stack = 1 .. n /\ DOMAIN stack' = 1 .. n
      /\ h[n] = Extended(g[n], lv)
      /\ \A k \in 1 .. n : /\ stack'[k].saveparam = stack[k].saveparam
                           /\ k # n => stack'[k] = stack[k] /\ g[k] = h[k]
  BY PopKeeping
<1>2. L \in SUBSET (1 .. n) /\ n \in L
  BY LeftPopping
<1>3. Left' = L
  <2>1. Len(stack') = n
    BY PopFacts
  <2>2. pc \in {"return", "unwind"}
    BY DEF Popping, VarsInv, Typed
  <2>3. /\ pc' = "return" => Left' = {Len(stack')}
        /\ pc' = "unwind" => Left' = DOMAIN stack'
    BY LeftNext DEF LeftIs
  <2>4. /\ pc = "return" => Left = {Len(stack)}
        /\ pc = "unwind" => Left = DOMAIN stack
    BY LeftNow DEF LeftIs
  <2> QED
    BY <1>1, <2>1, <2>2, <2>3, <2>4
<1>4. Mapped /\ Mapped'
  BY EnvMapped, EnvNext
<1>5. Environment' = Shown(vartab', shellparam'.args, optval', stack', L)
  BY <1>3, <1>4 DEF Mapped
<1>6. Environment = Shown(vartab, shellparam.args, optval, stack, L)
  BY <1>4 DEF Mapped
<1> HIDE DEF n, L
<1>7. \A k \in L : k # n => g[k] = h[k]
  BY <1>1, <1>2
<1>8. ASSUME NEW x, NEW y, NEW v, y = IF v = lv.var THEN Kept_by(lv) ELSE x
      PROVE  Now(y, g, L, v) = Now(x, h, L, v)
  <2>1. Pops(h, g, L, n, lv)
    BY <1>1, <1>2, <1>7 DEF Pops
  <2> HIDE DEF g, h
  <2> QED
    BY <1>8, <2>1, NowPops
<1>9. \A v \in Vars : Now(Attr(vartab'[v]), g, L, v) = Now(Attr(vartab[v]), h, L, v)
  <2> HIDE DEF g, h
  <2> TAKE v \in Vars
  <2> DEFINE x == Attr(vartab[v])
             y == Attr(vartab'[v])
  <2>1. y = IF v = lv.var THEN Kept_by(lv) ELSE x
    OBVIOUS
  <2> HIDE DEF x, y
  <2>2. Now(y, g, L, v) = Now(x, h, L, v)
    BY <1>8, <2>1
  <2> QED
    BY <2>2 DEF x, y
<1>10. Now(optval', g, L, "-") = Now(optval, h, L, "-")
  <2> HIDE DEF g, h
  <2> QED
    BY <1>8
<1>11. Min(L) \in 1 .. n /\ L # {}
  <2>1. L \subseteq Nat /\ L # {}
    BY <1>2
  <2> QED
    BY <1>2, <2>1, MinFacts
<1>12. stack'[Min(L)].saveparam = stack[Min(L)].saveparam
  BY <1>1, <1>11
<1>13. DOMAIN stack' \ L = DOMAIN stack \ L
  BY <1>1
<1>14. \A k \in DOMAIN stack' \ L : ScopeOf(g[k], stack'[k]) = ScopeOf(h[k], stack[k])
  BY <1>1, <1>2
<1>15. Shown(vartab', shellparam'.args, optval', stack', L) = Shown(vartab, shellparam.args, optval, stack, L)
  BY <1>9, <1>10, <1>11, <1>12, <1>13, <1>14, ShownEqual
<1> QED
  BY <1>5, <1>6, <1>15

LEMMA DoesPopOptions ==
  ASSUME VarsInv, VarsInv', PopOptions
  PROVE  Environment' = Environment
<1> DEFINE lv == Head(Locals)
<1>1. /\ Popping /\ Locals # <<>> /\ lv.var = "-" /\ optval' = lv.was /\ stack' = Popped
      /\ UNCHANGED <<vartab, pc>>
  BY DEF PopOptions
<1> HIDE DEF lv
<1>2. \A v \in Vars : v # lv.var
  BY <1>1, VarsAssumption
<1>3. Kept_by(lv) = lv.was
  BY <1>1 DEF Kept_by
<1>4. \A v \in Vars : Attr(vartab'[v]) = IF v = lv.var THEN Kept_by(lv) ELSE Attr(vartab[v])
  BY <1>1, <1>2
<1>5. optval' = IF "-" = lv.var THEN Kept_by(lv) ELSE optval
  BY <1>1, <1>3
<1>6. lv = Head(Locals)
  BY DEF lv
<1> QED
  BY <1>1, <1>4, <1>5, <1>6, PopStep

\* The local variable that is put back next, and its variable.
LEMMA TopIs ==
  ASSUME VarsInv, Popping, Locals # <<>>, NEW lv, lv = Head(Locals), lv.var # "-"
  PROVE  LET d == vartab[lv.var]
         IN  /\ lv.var \in Vars /\ lv.was \in Var_t /\ vartab \in [Vars -> Var_t] /\ d \in Var_t
             /\ Fresh(lv.var) \in Nat /\ d.here
             /\ lv.created => ~d.readonly
             /\ ~lv.created => lv.was.here /\ (lv.was.unset => lv.was.strfixed)
<1> DEFINE v == lv.var
           d == vartab[v]
           f == Log(Popped)
           g == Log(stack)
<1>1. lv \in Local_t /\ \E new : Grows(f, g, new, lv)
  BY PopFacts
<1>2. PICK new : Grows(f, g, new, lv)
  BY <1>1
<1>3. v \in Vars /\ lv.was \in Var_t
  BY <1>1, LocalFields
<1>4. vartab \in [Vars -> Var_t] /\ d \in Var_t /\ Suits(d, v, g, DOMAIN g) /\ Fresh(v) \in Nat
  BY <1>3, VarInv
<1>5. Owned(vartab, g)
  BY DEF VarsInv
<1> HIDE DEF f, g
<1>6. new \in DOMAIN g /\ g[new] = lv
  BY <1>2 DEF Grows
<1>7. Linked(g, new)
  BY <1>5, <1>6 DEF Owned
<1>8. d.here /\ (lv.created => ~d.readonly)
  BY <1>4, <1>6 DEF Suits
<1>9. ~lv.created => lv.was.here /\ (lv.was.unset => lv.was.strfixed)
  BY <1>6, <1>7 DEF Linked
<1> QED
  BY <1>3, <1>4, <1>8, <1>9

LEMMA DoesPopVariable ==
  ASSUME VarsInv, VarsInv', PopVariable
  PROVE  Environment' = Environment
<1> DEFINE lv == Head(Locals)
           d == vartab[lv.var]
<1>1. /\ Popping /\ Locals # <<>> /\ lv.var # "-" /\ stack' = Popped /\ UNCHANGED optval
      /\ IF ~MustUnset(lv)
         THEN /\ vartab' = [vartab EXCEPT ![lv.var] = [lv.was EXCEPT !.here = d.here]]
              /\ UNCHANGED pc
         ELSE d.readonly \/ (/\ vartab' = [vartab EXCEPT ![lv.var] = Unlinked(lv.var)]
                             /\ UNCHANGED pc)
  BY DEF PopVariable
<1>2. /\ lv.var \in Vars /\ lv.was \in Var_t /\ vartab \in [Vars -> Var_t] /\ d \in Var_t
      /\ Fresh(lv.var) \in Nat /\ d.here
      /\ lv.created => ~d.readonly
      /\ ~lv.created => lv.was.here /\ (lv.was.unset => lv.was.strfixed)
  BY <1>1, TopIs
<1>0. lv = Head(Locals)
  OBVIOUS
<1> HIDE DEF lv
<1>3. \E e : vartab' = [vartab EXCEPT ![lv.var] = e] /\ Attr(e) = Kept_by(lv) /\ pc' = pc
  <2>1. CASE ~lv.created
    <3>1. ~MustUnset(lv)
      BY <1>2, <2>1 DEF MustUnset
    <3>2. [lv.was EXCEPT !.here = d.here] = lv.was
      <4>1. d.here \in BOOLEAN
        BY <1>2, VarFields
      <4> HIDE DEF d
      <4> QED
        BY <1>2, <2>1, <4>1, HereIs
    <3>3. Kept_by(lv) = Attr(lv.was)
      BY <1>1, <2>1 DEF Kept_by
    <3> QED
      BY <1>1, <3>1, <3>2, <3>3
  <2>2. CASE lv.created
    <3>1. MustUnset(lv) /\ ~d.readonly
      BY <1>2, <2>2 DEF MustUnset
    <3>2. d.readonly = FALSE
      <4>1. d.readonly \in BOOLEAN
        BY <1>2, VarFields
      <4> QED
        BY <3>1, <4>1
    <3>3. Attr(Unlinked(lv.var)) = Nothing
      BY <1>2, <3>2, AttrUnlinked
    <3>4. Kept_by(lv) = Nothing
      BY <1>1, <2>2, AttrAbsent DEF Kept_by
    <3> QED
      BY <1>1, <3>1, <3>3, <3>4
  <2> QED
    BY <2>1, <2>2
<1>4. \A v \in Vars : Attr(vartab'[v]) = IF v = lv.var THEN Kept_by(lv) ELSE Attr(vartab[v])
  BY <1>2, <1>3
<1>5. optval' = IF "-" = lv.var THEN Kept_by(lv) ELSE optval
  BY <1>1
<1>6. pc' = pc
  BY <1>3
<1> QED
  BY <1>0, <1>1, <1>4, <1>5, <1>6, PopStep

LEMMA DoesPopCut ==
  ASSUME VarsInv, VarsInv', Allowed = {}, PopCut
  PROVE  Environment' = Environment
<1> DEFINE lv == Head(Locals)
           d == vartab[lv.var]
<1>1. /\ pc = "unwind" /\ Locals # <<>> /\ lv.var # "-" /\ stack' = Popped
      /\ UNCHANGED <<vartab, optval>>
      /\ ~lv.created /\ d = Kept(lv.was)
      /\ \E F : Handler(Popped, F)
  BY DEF PopCut, AsItWas
<1>2. Popping
  BY <1>1 DEF Popping
<1>3. lv.var \in Vars /\ lv.was \in Var_t /\ vartab \in [Vars -> Var_t]
  BY <1>1, <1>2, TopIs
<1>4. pc' = pc
  <2>1. Popped # <<>>
    BY <1>1, <1>2, PopFacts
  <2> QED
    BY <1>1, <2>1 DEF Handler
<1>0. lv = Head(Locals)
  OBVIOUS
<1> HIDE DEF lv
<1>5. Kept_by(lv) = Attr(d)
  <2>1. Kept_by(lv) = Attr(lv.was)
    BY <1>1 DEF Kept_by
  <2> QED
    BY <1>1, <1>3, <2>1, AttrSame
<1>6. \A v \in Vars : Attr(vartab'[v]) = IF v = lv.var THEN Kept_by(lv) ELSE Attr(vartab[v])
  BY <1>1, <1>3, <1>5
<1>7. optval' = IF "-" = lv.var THEN Kept_by(lv) ELSE optval
  BY <1>1
<1> QED
  BY <1>0, <1>1, <1>2, <1>4, <1>6, <1>7, PopStep

\* A function that keeps nothing does not count.
Leaves(h, L, g, M, n) ==
    /\ L \in SUBSET Nat /\ n \in L /\ M = L \ {n}
    /\ (\A v : v \notin DOMAIN h[n]) /\ \A k \in M : g[k] = h[k]

LEMMA NowLeave ==
  ASSUME NEW h, NEW L, NEW g, NEW M, NEW n, Leaves(h, L, g, M, n), NEW x, NEW v
  PROVE  Now(x, g, M, v) = Now(x, h, L, v)
<1> DEFINE K == Keepers(h, L, v)
<1>0. /\ L \in SUBSET Nat /\ n \in L /\ M = L \ {n}
      /\ (\A w : w \notin DOMAIN h[n]) /\ \A k \in M : g[k] = h[k]
  BY DEF Leaves
<1>1. Keepers(g, M, v) = K /\ K \subseteq M /\ K \subseteq Nat
  BY <1>0 DEF Keepers
<1> HIDE DEF K
<1>2. CASE K = {}
  <2>1. Now(x, g, M, v) = x
    BY <1>1, <1>2 DEF Now
  <2>2. Now(x, h, L, v) = x
    BY <1>2 DEF Now, K
  <2> QED
    BY <2>1, <2>2
<1>3. CASE K # {}
  <2>1. Min(K) \in M
    BY <1>1, <1>3, MinFacts
  <2>2. Now(x, g, M, v) = g[Min(K)][v]
    BY <1>1, <1>3 DEF Now
  <2>3. Now(x, h, L, v) = h[Min(K)][v]
    BY <1>3 DEF Now, K
  <2>4. g[Min(K)] = h[Min(K)]
    BY <1>0, <2>1
  <2> QED
    BY <2>2, <2>3, <2>4
<1> QED
  BY <1>2, <1>3

LEMMA DoesPopFunction ==
  ASSUME VarsInv, VarsInv', PopFunction
  PROVE  Environment' = Environment
<1> DEFINE n == Len(stack)
           L == Left
           M == L \ {n}
           h == Keeping(stack)
           g == Keeping(stack')
<1>1. /\ Popping /\ Locals = <<>> /\ stack' = Front(stack) /\ UNCHANGED <<vartab, optval>>
      /\ pc = "unwind" => Handler(Front(stack), {})
      /\ pc = "return" => pc' = "run" /\ shellparam' = Last(stack).saveparam
  BY DEF PopFunction
<1>2. /\ stack \in Seq(Frame) /\ DOMAIN stack = 1 .. n /\ n \in Nat /\ pc \in {"return", "unwind"}
      /\ stack # <<>> /\ (pc = "unwind" => shellparam = Last(stack).saveparam)
  BY <1>1, LenProperties DEF VarsInv, Typed, ParamsOwned, Popping
<1>3. /\ stack' \in Seq(Frame) /\ n = Len(stack') + 1 /\ Len(stack') \in Nat
      /\ Last(stack) = stack[n] /\ \A k \in 1 .. Len(stack') : stack'[k] = stack[k]
  BY <1>1, <1>2, LeaveLog
<1>4. DOMAIN stack' = 1 .. n - 1 /\ Len(stack') = n - 1 /\ (\A k \in 1 .. n - 1 : stack'[k] = stack[k])
      /\ 1 .. n - 1 = (1 .. n) \ {n}
  BY <1>3, LenProperties
<1>5. L \subseteq 1 .. n /\ n \in L
  BY <1>1, LeftPopping
<1>6. /\ pc = "return" => L = {n}
      /\ pc = "unwind" => L = 1 .. n
  BY <1>2, LeftNow DEF LeftIs
<1>7. Left' = M
  <2>1. /\ pc' = "run" => Left' = {}
        /\ pc' = "unwind" => Left' = DOMAIN stack'
    BY LeftNext DEF LeftIs
  <2>2. CASE pc = "return"
    BY <1>1, <1>6, <2>1, <2>2
  <2>3. CASE pc = "unwind" /\ stack' = <<>>
    <3>1. pc' = "run"
      BY <1>1, <2>3 DEF Handler
    <3>2. n = 1
      BY <1>3, <2>3
    <3> QED
      BY <1>6, <2>1, <2>3, <3>1, <3>2
  <2>4. CASE pc = "unwind" /\ stack' # <<>>
    <3>1. pc' = "unwind"
      BY <1>1, <2>4 DEF Handler
    <3> QED
      BY <1>4, <1>6, <2>1, <2>4, <3>1
  <2> QED
    BY <1>2, <2>2, <2>3, <2>4
<1>8. Environment' = Shown(vartab', shellparam'.args, optval', stack', M)
  <2>1. Mapped'
    BY EnvNext
  <2> QED
    BY <1>7, <2>1 DEF Mapped
<1>9. Environment = Shown(vartab, shellparam.args, optval, stack, L)
  BY EnvMapped DEF Mapped
<1>10. (\A v : v \notin DOMAIN h[n]) /\ \A k \in M : g[k] = h[k]
  <2>1. Locals = stack[n].localvars
    BY <1>3 DEF Locals
  <2>2. DOMAIN h[n] = {}
    <3>1. h[n] = Held(stack[n].localvars)
      BY <1>2, <1>5 DEF Keeping
    <3> QED
      BY <1>1, <2>1, <3>1, HeldNone
  <2>3. \A k \in M : k \in 1 .. n - 1
    BY <1>4, <1>5
  <2> QED
    BY <1>2, <1>4, <2>2, <2>3 DEF Keeping
<1>11. L \in SUBSET Nat
  BY <1>2, <1>5
<1>12. DOMAIN stack' \ M = DOMAIN stack \ L
  BY <1>2, <1>4, <1>5
<1>13. (IF M = {} THEN shellparam'.args ELSE stack'[Min(M)].saveparam.args)
         = (IF L = {} THEN shellparam.args ELSE stack[Min(L)].saveparam.args)
  <2>1. CASE M = {}
    <3>1. L = {n} /\ {n} = n .. n
      BY <1>2, <1>5, <2>1
    <3>2. Min(L) = n
      <4> HIDE DEF n
      <4>0. n \in Nat /\ n <= n
        BY <1>2
      <4>1. Min(n .. n) = n
        BY <4>0, MinInterval
      <4> QED
        BY <3>1, <4>1
    <3>3. shellparam' = stack[n].saveparam
      <4>1. CASE pc = "return"
        BY <1>1, <1>3, <4>1
      <4>2. CASE pc = "unwind"
        <5>1. stack' = <<>>
          <6>1. 1 .. n - 1 = {}
            BY <1>4, <1>6, <2>1, <4>2
          <6>2. Len(stack') = 0
            BY <1>2, <1>3, <1>4, <6>1
          <6> QED
            BY <1>3, <6>2, EmptySeq
        <5> QED
          BY <1>1, <1>2, <1>3, <4>2, <5>1 DEF Handler
      <4> QED
        BY <1>2, <4>1, <4>2
    <3> QED
      BY <2>1, <3>1, <3>2, <3>3
  <2>2. CASE M # {}
    <3>1. pc = "unwind" /\ L = 1 .. n /\ M = 1 .. n - 1
      BY <1>2, <1>4, <1>6, <2>2
    <3>2. 1 <= n - 1 /\ n - 1 \in Nat
      BY <1>2, <1>3, <1>4, <2>2, <3>1
    <3>3. Min(M) = 1 /\ Min(L) = 1
      <4> HIDE DEF n
      <4>1. 1 <= n
        BY <1>2, <3>2
      <4>2. Min(1 .. n - 1) = 1
        BY <3>2, MinInterval
      <4>3. Min(1 .. n) = 1
        BY <1>2, <4>1, MinInterval
      <4> QED
        BY <3>1, <4>2, <4>3
    <3>4. stack'[1] = stack[1]
      BY <1>4, <3>2
    <3> QED
      BY <1>5, <2>2, <3>3, <3>4
  <2> QED
    BY <2>1, <2>2
<1> HIDE DEF L, M
<1>14. \A k \in DOMAIN stack' \ M : ScopeOf(g[k], stack'[k]) = ScopeOf(h[k], stack[k])
  BY <1>2, <1>4 DEF Keeping
<1>15. ASSUME NEW x, NEW v PROVE Now(x, g, M, v) = Now(x, h, L, v)
  <2>1. Leaves(h, L, g, M, n)
    BY <1>5, <1>10, <1>11 DEF Leaves, M
  <2> HIDE DEF g, h
  <2> QED
    BY <2>1, NowLeave
<1>16. Shown(vartab', shellparam'.args, optval', stack', M) = Shown(vartab, shellparam.args, optval, stack, L)
  <2>1. vartab' = vartab /\ optval' = optval
    BY <1>1
  <2>2. /\ \A v \in Vars : Now(Attr(vartab'[v]), g, M, v) = Now(Attr(vartab[v]), h, L, v)
        /\ Now(optval', g, M, "-") = Now(optval, h, L, "-")
    <3> HIDE DEF g, h
    <3> QED
      BY <1>15, <2>1
  <2> QED
    BY <1>12, <1>13, <1>14, <2>2, ShownEqual
<1> QED
  BY <1>8, <1>9, <1>16

-----------------------------------------------------------------------------
(* Shell procedures, the beginning, and any step                             *)

LEMMA NoScopes == \A s : s = <<>> => ScopesOf(s) = <<>>
<1> TAKE s
<1> HAVE s = <<>>
<1>1. DOMAIN s = {}
  OBVIOUS
<1>2. ScopesOf(s) = [k \in {} |-> ScopeOf(Keeping(s)[k], s[k])]
  BY <1>1 DEF ScopesOf
<1> QED
  BY <1>2

\* The environment of a shell procedure.
Shell_r(e, a, given) ==
    [value |-> [v \in Vars |-> IF v \in DOMAIN given THEN given[v]
                               ELSE IF v \in e.exported THEN e.value[v] ELSE Default[v]],
     exported |-> e.exported \cup DOMAIN given, readonly |-> e.readonly \cap e.exported,
     args |-> a, optval |-> {}, scopes |-> <<>>]

LEMMA InShellProc ==
  ASSUME NEW e, NEW a \in Args, NEW G, G \subseteq Vars \ e.readonly, NEW f \in [G -> Values]
  PROVE  Shell_r(e, a, f) \in S!ShellProc(e)
<1> DEFINE givens == UNION {[H -> Values] : H \in SUBSET (Vars \ e.readonly)}
<1>1. f \in givens
  OBVIOUS
<1>2. S!ShellProc(e) = {Shell_r(e, b, g) : b \in Args, g \in givens}
  BY DEF S!ShellProc, Shell_r
<1> HIDE DEF givens
<1> QED
  BY <1>1, <1>2

LEMMA DoesShellProc ==
  ASSUME VarsInv, VarsInv', Allowed = {}, ShellProc
  PROVE  S!Next
<1> DEFINE e == Environment
<1>1. /\ pc = "run" /\ stack = <<>> /\ stack' = <<>> /\ pc' = "run" /\ optval' = {}
      /\ shellparam'.args \in Args
  <2>1. PICK a \in Args : shellparam' = [malloc |-> FreshParam, args |-> a]
    BY DEF ShellProc
  <2> QED
    BY <2>1 DEF ShellProc
<1>2. /\ vartab \in [Vars -> Var_t]
      /\ e = Here(vartab, shellparam.args, optval, stack)
  BY <1>1, VisibleNow
<1>3. Environment' = Here(vartab', shellparam'.args, {}, <<>>)
  BY <1>1, VisibleNext
<1>4. PICK given \in {{}} \cup {{v} : v \in {w \in Vars : ~vartab[w].readonly}}, x \in Values :
        LET set(v) == IF v \in given THEN [Assigned(v, x) EXCEPT !.exported = TRUE] ELSE vartab[v]
            forgotten(v) == IF v \in Static THEN initvar(v)
                            ELSE [Absent EXCEPT !.text = vartab[v].text, !.textfixed = vartab[v].textfixed]
        IN  vartab' = [v \in Vars |-> IF set(v).exported THEN set(v)
                                      ELSE IF stack = <<>> /\ v \notin Static THEN Absent
                                      ELSE forgotten(v)]
  BY DEF ShellProc
<1> DEFINE f == [v \in given |-> x]
           new(v) == [Assigned(v, x) EXCEPT !.exported = TRUE]
<1>5. given \subseteq Vars /\ \A v \in given : ~vartab[v].readonly
  BY <1>4
<1>6. ASSUME NEW v \in given
      PROVE  Attr(vartab'[v]) = [value |-> x, exported |-> TRUE, readonly |-> FALSE]
  <2>1. v \in Vars /\ ~vartab[v].readonly
    BY <1>5
  <2>2. vartab[v] \in Var_t /\ Fresh(v) \in Nat
    BY <2>1, VarInv
  <2>3. PICK b \in Var_t : b = Assigned(v, x)
    BY <2>1, <2>2, AssignedIs
  <2>4. Attr(b) = [value |-> x, exported |-> vartab[v].exported, readonly |-> vartab[v].readonly]
    BY <2>1, <2>2, <2>3, AttrAssigned
  <2>5. b.readonly = FALSE /\ Attr(b).value = x
    <3>1. vartab[v].readonly \in BOOLEAN
      BY <2>2, VarFields
    <3>2. Attr(b).value = x /\ Attr(b).readonly = vartab[v].readonly
      BY <2>4
    <3>3. Attr(b).readonly = b.readonly
      BY DEF Attr
    <3> QED
      BY <2>1, <3>1, <3>2, <3>3
  <2>6. PICK t \in BOOLEAN : t = TRUE
    OBVIOUS
  <2>7. new(v) = [b EXCEPT !.exported = t]
    BY <2>3, <2>6
  <2>8. Attr([b EXCEPT !.exported = t]) = [value |-> Attr(b).value, exported |-> t, readonly |-> b.readonly]
    BY AttrMarked
  <2>9. new(v).exported
    <3>1. [b EXCEPT !.exported = t].exported = t
      BY DEF Var_t
    <3> HIDE DEF new
    <3> QED
      BY <2>6, <2>7, <3>1, Zenon
  <2>10. vartab'[v] = new(v)
    BY <1>4, <2>1, <2>9
  <2> HIDE DEF new
  <2> QED
    BY <2>5, <2>6, <2>7, <2>8, <2>10
<1>7. ASSUME NEW v \in Vars, v \notin given, vartab[v].exported
      PROVE  vartab'[v] = vartab[v]
  BY <1>4, <1>7
<1>8. ASSUME NEW v \in Vars, v \notin given, ~vartab[v].exported
      PROVE  Attr(vartab'[v]) = [value |-> Default[v], exported |-> FALSE, readonly |-> FALSE]
  <2>1. CASE v \in Static
    <3>1. vartab'[v] = initvar(v)
      BY <1>1, <1>4, <1>8, <2>1
    <3> QED
      BY <3>1, AttrInitvar
  <2>2. CASE v \notin Static
    <3>1. vartab'[v] = Absent
      BY <1>1, <1>4, <1>8, <2>2
    <3>2. Default[v] = Unset
      BY <2>2, VarsAssumption
    <3> QED
      BY <3>1, <3>2, AttrAbsent DEF Nothing
  <2> QED
    BY <2>1, <2>2
<1> HIDE DEF e, new
<1>9. /\ e.value = ValueOf(vartab) /\ e.exported = ExportedOf(vartab) /\ e.readonly = ReadonlyOf(vartab)
  BY <1>2, EnvFields DEF Here
<1>10. \A v \in Vars : /\ v \in e.exported <=> vartab[v].exported
                       /\ v \in e.readonly <=> vartab[v].readonly
                       /\ e.value[v] = Attr(vartab[v]).value
  BY <1>9 DEF ValueOf, ExportedOf, ReadonlyOf, Attr
<1>11. e.exported \subseteq Vars /\ e.readonly \subseteq Vars
  BY <1>9 DEF ExportedOf, ReadonlyOf
<1>12. DOMAIN f = given /\ (\A v \in given : f[v] = x) /\ f \in [given -> Values]
  OBVIOUS
<1> HIDE DEF f
<1>13. ASSUME NEW v \in Vars
       PROVE  /\ Attr(vartab'[v]).value = IF v \in DOMAIN f THEN f[v]
                                          ELSE IF v \in e.exported THEN e.value[v] ELSE Default[v]
              /\ Attr(vartab'[v]).exported <=> v \in e.exported \cup DOMAIN f
              /\ Attr(vartab'[v]).readonly <=> v \in e.readonly \cap e.exported
  <2>1. CASE v \in given
    BY <1>5, <1>6, <1>10, <1>12, <2>1
  <2>2. CASE v \notin given /\ vartab[v].exported
    <3>1. vartab'[v] = vartab[v]
      BY <1>7, <2>2
    <3>2. Attr(vartab[v]).exported = vartab[v].exported /\ Attr(vartab[v]).readonly = vartab[v].readonly
      BY DEF Attr
    <3> QED
      BY <1>10, <1>12, <2>2, <3>1, <3>2
  <2>3. CASE v \notin given /\ ~vartab[v].exported
    <3>1. /\ Attr(vartab'[v]).value = Default[v] /\ Attr(vartab'[v]).exported = FALSE
          /\ Attr(vartab'[v]).readonly = FALSE
      <4>1. Attr(vartab'[v]) = [value |-> Default[v], exported |-> FALSE, readonly |-> FALSE]
        BY <1>8, <2>3
      <4> QED
        BY <4>1
    <3> QED
      BY <1>10, <1>12, <2>3, <3>1
  <2> QED
    BY <2>1, <2>2, <2>3
<1>14. Environment' = Shell_r(e, shellparam'.args, f)
  <2>1. ValueOf(vartab') = [v \in Vars |-> IF v \in DOMAIN f THEN f[v]
                                            ELSE IF v \in e.exported THEN e.value[v] ELSE Default[v]]
    BY <1>13 DEF ValueOf
  <2>2. ExportedOf(vartab') = e.exported \cup DOMAIN f
    BY <1>5, <1>11, <1>12, <1>13 DEF ExportedOf
  <2>3. ReadonlyOf(vartab') = e.readonly \cap e.exported
    BY <1>11, <1>13 DEF ReadonlyOf
  <2>4. ScopesOf(<<>>) = <<>>
    BY NoScopes
  <2> QED
    BY <1>3, <2>1, <2>2, <2>3, <2>4 DEF Here, Env_r, Shell_r
<1>15. given \subseteq Vars \ e.readonly
  BY <1>5, <1>10
<1>16. Environment' \in S!ShellProc(e)
  BY <1>1, <1>12, <1>14, <1>15, InShellProc
<1> QED
  BY <1>16 DEF S!Next, e

LEMMA InitMaps ==
  ASSUME Init
  PROVE  S!Init
<1> DEFINE e == Environment
<1>1. /\ \A v \in Vars :
           \/ vartab[v] = IF v \in Static THEN initvar(v) ELSE Absent
           \/ \E x \in Values : vartab[v] = Imported(v, x)
      /\ stack = <<>> /\ pc = "run"
  BY DEF Init
<1>2. /\ e = Here(vartab, shellparam.args, optval, stack)
      /\ vartab \in [Vars -> Var_t] /\ shellparam.args \in Args /\ optval \subseteq Options
  BY <1>1, InitInv, VisibleNow
<1>3. ASSUME NEW v \in Vars
      PROVE  Attr(vartab[v]).value \in Values \cup {Unset} /\ Attr(vartab[v]).readonly = FALSE
  <2>1. vartab[v] \in Var_t
    BY <1>2
  <2>2. CASE vartab[v] = Absent
    BY <2>2, AttrAbsent DEF Nothing
  <2>3. CASE vartab[v] = initvar(v)
    <3>1. Attr(vartab[v]).readonly = FALSE
      BY <2>3, AttrInitvar
    <3> QED
      BY <2>1, <3>1, AttrIs
  <2>4. ASSUME NEW x \in Values, vartab[v] = Imported(v, x)
        PROVE  Attr(vartab[v]).value \in Values \cup {Unset} /\ Attr(vartab[v]).readonly = FALSE
    BY <2>4, AttrImported
  <2> QED
    BY <1>1, <2>2, <2>3, <2>4
<1> HIDE DEF e
<1>4. /\ e.value = ValueOf(vartab) /\ e.exported = ExportedOf(vartab) /\ e.readonly = ReadonlyOf(vartab)
      /\ e.args = shellparam.args /\ e.optval = optval /\ e.scopes = ScopesOf(stack)
  BY <1>2, EnvFields DEF Here
<1>5. e = Env_r(e.value, e.exported, e.readonly, e.args, e.optval, e.scopes)
  BY <1>2, <1>4 DEF Here
<1>6. e.value \in [Vars -> Values \cup {Unset}]
  BY <1>3, <1>4 DEF ValueOf
<1>7. e.exported \in SUBSET Vars /\ e.readonly = {} /\ e.readonly \in SUBSET Vars
  BY <1>3, <1>4 DEF ExportedOf, ReadonlyOf
<1>8. e.args \in Args /\ e.optval \in SUBSET Options /\ e.scopes = <<>>
  BY <1>1, <1>2, <1>4, NoScopes
<1>9. e \in S!Environment
  <2>1. e.scopes \in {<<>>}
    BY <1>8
  <2> QED
    BY <1>5, <1>6, <1>7, <1>8, <2>1 DEF S!Environment, Env_r
<1>10. e \in {d \in S!Environment : d.readonly = {}}
  BY <1>7, <1>9
<1> QED
  BY <1>10, Zenon DEF S!Init, e

LEMMA StepMaps ==
  ASSUME VarsInv, VarsInv', Allowed = {}, [Next]_vars
  PROVE  S!Next \/ Environment' = Environment
<1>1. CASE UNCHANGED vars
  <2>1. vartab' = vartab /\ shellparam' = shellparam /\ optval' = optval /\ stack' = stack /\ pc' = pc
    BY <1>1 DEF vars
  <2>2. Left' = Left
    BY <2>1 DEF Left
  <2>3. Mapped /\ Mapped'
    BY EnvMapped, EnvNext
  <2> QED
    BY <2>1, <2>2, <2>3 DEF Mapped
<1>2. CASE Raise \/ Return
  BY <1>2, DoesRaise
<1>3. CASE setparam \/ setcmd
  BY <1>3, DoesSet
<1>4. CASE CallFunction
  BY <1>4, DoesCall
<1>5. CASE mklocal_options
  BY <1>5, DoesMklocalOptions
<1>6. CASE PopOptions
  BY <1>6, DoesPopOptions
<1>7. CASE PopVariable
  BY <1>7, DoesPopVariable
<1>8. CASE PopCut
  BY <1>8, DoesPopCut
<1>9. CASE PopFunction
  BY <1>9, DoesPopFunction
<1>10. CASE ShellProc
  BY <1>10, DoesShellProc
<1>11. ASSUME NEW v \in Vars, setvar(v) \/ unsetvar(v) \/ exportcmd(v)
       PROVE  S!Next
  BY <1>11, DoesSetvar, DoesUnset, DoesExport
<1>12. ASSUME NEW v \in Vars, mklocal(v) \/ mklocal_existing(v)
       PROVE  S!Next
  BY <1>12, DoesMklocal, DoesMklocalExisting
<1>13. ASSUME NEW v \in Vars, mklocal_error(v)
       PROVE  S!Next \/ Environment' = Environment
  BY <1>13, DoesMklocalError
<1> QED
  BY <1>1, <1>2, <1>3, <1>4, <1>5, <1>6, <1>7, <1>8, <1>9, <1>10, <1>11, <1>12, <1>13 DEF Next

\* Variables, option letters and parameters are scoped dynamically, as Scopes has it:
\* whatever functions make local, when they have returned or have been abandoned
\* commands see what was there before, while poplocalvars puts it back piece by piece.
THEOREM Refinement == ASSUME Allowed = {} PROVE Spec => Implements
<1>1. Init => S!Init
  BY InitMaps
<1>2. VarsInv /\ VarsInv' /\ [Next]_vars => [S!Next]_Environment
  BY StepMaps
<1> QED
  BY <1>1, <1>2, Invariance, PTL DEF Spec, Implements, S!Spec

-----------------------------------------------------------------------------
(* Job control *)

\* Job control is what the option j says, and will be when each local - is undone:
\* commands change it together with the letter, and the letter not at all while some
\* function has options of its own.
JobctlInv ==
    /\ jobctl <=> "j" \in optval
    /\ \A a \in DOMAIN Log(stack) :
         Log(stack)[a].var = "-" => ("j" \in Log(stack)[a].was <=> "j" \in optval)

LEMMA NothingLogged == DOMAIN Log(<<>>) = {}
<1>1. 1 .. Len(<<>>) = {}
  OBVIOUS
<1>2. \A a : a \notin Ages(<<>>)
  BY <1>1 DEF Ages
<1> QED
  BY <1>2 DEF Log

LEMMA NoOptionsSaved ==
  ASSUME stack \in Seq(Frame), Saves("-") = {}
  PROVE  \A a \in DOMAIN Log(stack) : Log(stack)[a].var # "-"
<1>1. \A p \in PlacesIn(stack) : AtIn(stack, p).var # "-"
  BY DEF Saves, Places, At, PlacesIn, AtIn
<1>2. DOMAIN Log(stack) = Ages(stack)
  BY DEF Log
<1> QED
  BY <1>1, <1>2, PlaceOfAge

\* A local variable more.
LEMMA JobctlPush ==
  ASSUME VarsInv, JobctlInv, stack # <<>>, NEW lv \in Local_t, stack' = Push(lv),
         lv.var = "-" => lv.was = optval, UNCHANGED <<optval, jobctl>>
  PROVE  JobctlInv'
<1>1. stack \in Seq(Frame) /\ stack' = [stack EXCEPT ![Len(stack)].localvars = <<lv>> \o @]
  BY DEF VarsInv, Typed, Push
<1>2. PICK new : Grows(Log(stack), Log(stack'), new, lv)
  BY <1>1, PushLog
<1>3. \A a \in DOMAIN Log(stack') : IF a = new THEN Log(stack')[a] = lv
                                    ELSE a \in DOMAIN Log(stack) /\ Log(stack')[a] = Log(stack)[a]
  BY <1>2 DEF Grows
<1> QED
  BY <1>3 DEF JobctlInv

\* One less.
LEMMA JobctlPop ==
  ASSUME VarsInv, JobctlInv, Popping, Locals # <<>>, stack' = Popped, jobctl' = jobctl,
         optval' = optval \/ (Head(Locals).var = "-" /\ optval' = Head(Locals).was)
  PROVE  JobctlInv'
<1>1. PICK new : Grows(Log(Popped), Log(stack), new, Head(Locals))
  BY PopFacts
<1>2. new \in DOMAIN Log(stack) /\ Log(stack)[new] = Head(Locals)
      /\ \A a \in DOMAIN Log(stack') : a \in DOMAIN Log(stack) /\ Log(stack')[a] = Log(stack)[a]
  BY <1>1 DEF Grows
<1>3. "j" \in optval' <=> "j" \in optval
  BY <1>2 DEF JobctlInv
<1> QED
  BY <1>2, <1>3 DEF JobctlInv

LEMMA JobctlStep ==
  ASSUME VarsInv, JobctlInv, Allowed = {}, [Next]_vars
  PROVE  JobctlInv'
<1>0. stack \in Seq(Frame) /\ jobctl \in BOOLEAN /\ optval \subseteq Options
  BY DEF VarsInv, Typed
<1>1. CASE UNCHANGED <<stack, optval, jobctl>>
  BY <1>1 DEF JobctlInv
<1>2. CASE Raise \/ setparam \/ Return
  BY <1>1, <1>2 DEF Raise, setparam, Return
<1>3. CASE setcmd
  <2>1. /\ stack' = stack /\ jobctl' = ("j" \in optval')
        /\ ("j" \in optval') = ("j" \in optval) \/ Saves("-") = {}
    BY <1>3 DEF setcmd
  <2>2. jobctl' <=> "j" \in optval'
    BY <2>1
  <2>3. CASE ("j" \in optval') = ("j" \in optval)
    BY <2>1, <2>2, <2>3 DEF JobctlInv
  <2>4. CASE Saves("-") = {}
    BY <1>0, <2>1, <2>2, <2>4, NoOptionsSaved DEF JobctlInv
  <2> QED
    BY <2>1, <2>3, <2>4
<1>4. CASE CallFunction
  <2>1. PICK f : f = [saveparam |-> shellparam, localvars |-> <<>>]
    OBVIOUS
  <2>2. f \in Frame /\ f.localvars = <<>>
    BY <2>1 DEF Frame, VarsInv, Typed
  <2>3. stack' = Append(stack, f) /\ UNCHANGED <<optval, jobctl>>
    BY <1>4, <2>1 DEF CallFunction
  <2>4. Log(stack') = Log(stack)
    BY <1>0, <2>2, <2>3, EnterLog
  <2> QED
    BY <2>3, <2>4 DEF JobctlInv
<1>5. CASE mklocal_options
  <2>1. PICK lv : lv = [var |-> "-", created |-> FALSE, was |-> optval]
    OBVIOUS
  <2>2. lv \in Local_t /\ lv.was = optval
    BY <1>0, <2>1 DEF Local_t
  <2>3. stack # <<>> /\ stack' = Push(lv) /\ UNCHANGED <<optval, jobctl>>
    BY <1>5, <2>1 DEF mklocal_options
  <2> QED
    BY <2>2, <2>3, JobctlPush
<1>6. ASSUME NEW v \in Vars, mklocal(v) \/ mklocal_existing(v) PROVE JobctlInv'
  <2>1. PICK c \in BOOLEAN : /\ stack # <<>> /\ stack' = Push(LocalVar(v, c))
                             /\ UNCHANGED <<optval, jobctl>>
    BY <1>6 DEF mklocal, mklocal_existing
  <2>2. LocalVar(v, c) \in Local_t /\ LocalVar(v, c).var = v
    BY DEF LocalVar, Local_t, VarsInv, Typed
  <2>3. v # "-"
    BY VarsAssumption
  <2> QED
    BY <2>1, <2>2, <2>3, JobctlPush
<1>7. ASSUME NEW v \in Vars, setvar(v) \/ unsetvar(v) \/ exportcmd(v) \/ mklocal_error(v)
      PROVE  JobctlInv'
  BY <1>1, <1>7 DEF setvar, unsetvar, exportcmd, mklocal_error
<1>8. CASE PopOptions
  BY <1>8, JobctlPop DEF PopOptions
<1>9. CASE PopVariable \/ PopCut
  <2>1. Popping /\ Locals # <<>> /\ stack' = Popped /\ UNCHANGED <<optval, jobctl>>
    BY <1>9 DEF PopVariable, PopCut, Popping
  <2> QED
    BY <2>1, JobctlPop
<1>10. CASE PopFunction
  <2>1. stack # <<>>
    BY <1>10 DEF PopFunction, Popping, VarsInv, Typed, ParamsOwned
  <2>2. Last(stack).localvars = <<>> /\ stack' = Front(stack) /\ UNCHANGED <<optval, jobctl>>
    BY <1>10 DEF PopFunction, Locals
  <2>3. Log(stack') = Log(stack)
    BY <1>0, <2>1, <2>2, LeaveLog
  <2> QED
    BY <2>2, <2>3 DEF JobctlInv
<1>11. CASE ShellProc
  <2>1. stack = <<>> /\ stack' = stack /\ optval' = {} /\ jobctl' = FALSE
    BY <1>11 DEF ShellProc
  <2>2. DOMAIN Log(stack) = {}
    BY <2>1, NothingLogged
  <2> QED
    BY <2>1, <2>2 DEF JobctlInv
<1> QED
  BY <1>1, <1>2, <1>3, <1>4, <1>5, <1>6, <1>7, <1>8, <1>9, <1>10, <1>11 DEF Next, vars

\* Wherever a command runs, job control is on exactly if the letter j is set, also after
\* functions with options of their own have returned or been abandoned.
THEOREM JobctlIsRight == ASSUME Allowed = {} PROVE Spec => []JobctlAgrees
<1>1. Init => JobctlInv
  <2> SUFFICES ASSUME Init PROVE JobctlInv
    OBVIOUS
  <2>1. stack = <<>> /\ (jobctl <=> "j" \in optval)
    BY DEF Init
  <2>2. DOMAIN Log(stack) = {}
    BY <2>1, NothingLogged
  <2> QED
    BY <2>1, <2>2 DEF JobctlInv
<1>2. VarsInv /\ JobctlInv /\ [Next]_vars => JobctlInv'
  BY JobctlStep
<1>3. VarsInv /\ JobctlInv => JobctlAgrees
  BY DEF VarsInv, Typed, JobctlInv, JobctlAgrees
<1> QED
  BY <1>1, <1>2, <1>3, Invariance, PTL DEF Spec

=============================================================================
