--------------------------- MODULE AshEvalProofs ---------------------------
(***************************************************************************)
(* What is proved about the evaluation of parse trees, for every depth of  *)
(* commands inside one another: loopnest, funcnest and the stack of texts  *)
(* say what is being executed; and what evalskip and the flags of evaltree *)
(* do is what Control says of break, continue, return, subshells and -e.   *)
(***************************************************************************)
EXTENDS AshEval, SequenceTheorems, FiniteSetTheorems, WellFoundedInduction, TLAPS

-----------------------------------------------------------------------------
(* The greatest of a bounded set of numbers                                *)

LEMMA HasMin == \A T : T \subseteq Nat /\ T # {} => \E x \in T : \A y \in T : x <= y
<1> DEFINE R == OpToRel(<, Nat)
<1>1. \A T : T \subseteq Nat /\ T # {} => \E x \in T : \A y \in T : ~ (<<y, x>> \in R)
  <2>1. IsWellFoundedOn(R, Nat)
    BY NatLessThanWellFounded
  <2> HIDE DEF R
  <2> QED
    BY <2>1, WFMin
<1>2. \A x, y \in Nat : <<y, x>> \in R <=> y < x
  BY DEF OpToRel
<1> HIDE DEF R
<1> SUFFICES ASSUME NEW T, T \subseteq Nat, T # {} PROVE \E x \in T : \A y \in T : x <= y
  OBVIOUS
<1>3. PICK x \in T : \A y \in T : ~ (<<y, x>> \in R)
  BY <1>1
<1>4. ASSUME NEW y \in T PROVE x <= y
  <2>1. x \in Nat /\ y \in Nat
    OBVIOUS
  <2>2. ~(y < x)
    BY <1>2, <1>3, <2>1
  <2> QED
    BY <2>1, <2>2
<1> QED
  BY <1>4

LEMMA MaxFacts ==
  ASSUME NEW m \in Nat, NEW T, T # {}, \A x \in T : x \in Nat /\ x <= m
  PROVE  /\ Max(T) \in T /\ \A y \in T : y <= Max(T)
         /\ \A x \in T : (\A y \in T : y <= x) => Max(T) = x
<1> DEFINE U == {u \in Nat : \A x \in T : x <= u}
<1>1. PICK u \in U : \A v \in U : u <= v
  <2>1. m \in U
    OBVIOUS
  <2>2. U \subseteq Nat /\ U # {}
    BY <2>1
  <2> HIDE DEF U
  <2> QED
    BY <2>2, HasMin
<1>2. u \in T
  <2>1. SUFFICES ASSUME u \notin T PROVE FALSE
    OBVIOUS
  <2>2. \A x \in T : x <= u - 1 /\ 0 <= u - 1
    BY <2>1
  <2>3. u - 1 \in U
    BY <2>2
  <2> QED
    BY <1>1, <2>3
<1>3. u \in T /\ \A y \in T : u >= y
  BY <1>1, <1>2
<1> HIDE DEF U
<1>4. Max(T) \in T /\ \A y \in T : Max(T) >= y
  BY <1>3 DEF Max
<1>5. ASSUME NEW x \in T, \A y \in T : y <= x PROVE Max(T) = x
  <2>1. Max(T) <= x /\ x <= Max(T) /\ x \in Nat /\ Max(T) \in Nat
    BY <1>4, <1>5
  <2> QED
    BY <2>1
<1>6. \A y \in T : y <= Max(T)
  BY <1>4
<1> QED
  BY <1>4, <1>5, <1>6

LEMMA MinOfTwo ==
  ASSUME NEW m \in Nat, NEW n \in Nat
  PROVE  Min({m, n}) = IF m <= n THEN m ELSE n
<1>1. PICK k \in {m, n} : \A y \in {m, n} : k <= y
  BY HasMin
<1>2. Min({m, n}) \in {m, n} /\ \A y \in {m, n} : Min({m, n}) <= y
  BY <1>1 DEF Min
<1> QED
  BY <1>2

-----------------------------------------------------------------------------
(* What is counted in a stack of calls                                     *)

Of(s, kinds) == {i \in DOMAIN s : s[i].kind \in kinds}

Base(s) == Max({0} \union Of(s, Forks))

Reading(s) == {i \in DOMAIN s : i > Base(s) /\ s[i].kind \in Texts}

Count(s, kinds) == Cardinality(Of(s, kinds))

Files(s) == Cardinality(Reading(s))

LEMMA OfFacts ==
  ASSUME NEW s \in Seq(Call), NEW kinds
  PROVE  /\ Len(s) \in Nat /\ DOMAIN s = 1 .. Len(s)
         /\ \A i \in Of(s, kinds) : i \in Nat /\ 1 <= i /\ i <= Len(s)
         /\ IsFiniteSet(Of(s, kinds)) /\ Count(s, kinds) \in Nat /\ Count(s, kinds) <= Len(s)
<1>1. Len(s) \in Nat /\ DOMAIN s = 1 .. Len(s)
  BY LenProperties
<1>2. IsFiniteSet(1 .. Len(s)) /\ Cardinality(1 .. Len(s)) = Len(s)
  BY <1>1, FS_Interval
<1>3. Of(s, kinds) \subseteq 1 .. Len(s)
  BY <1>1 DEF Of
<1>4. IsFiniteSet(Of(s, kinds)) /\ Count(s, kinds) <= Len(s)
  BY <1>2, <1>3, FS_Subset DEF Count
<1> QED
  BY <1>1, <1>3, <1>4, FS_CardinalityType DEF Count

LEMMA BaseFacts ==
  ASSUME NEW s \in Seq(Call)
  PROVE  /\ Base(s) \in Nat /\ Base(s) <= Len(s)
         /\ Base(s) # 0 => Base(s) \in Of(s, Forks)
         /\ \A i \in Of(s, Forks) : i <= Base(s)
         /\ \A b \in {0} \union Of(s, Forks) : (\A i \in Of(s, Forks) : i <= b) => Base(s) = b
<1> DEFINE T == {0} \union Of(s, Forks)
<1>1. T # {} /\ \A x \in T : x \in Nat /\ x <= Len(s)
  BY OfFacts
<1>2. Len(s) \in Nat
  BY OfFacts
<1>3. /\ Max(T) \in T /\ \A y \in T : y <= Max(T)
      /\ \A x \in T : (\A y \in T : y <= x) => Max(T) = x
  <2> HIDE DEF T
  <2> QED
    BY <1>1, <1>2, MaxFacts
<1>4. Base(s) = Max(T)
  BY DEF Base
<1>5. ASSUME NEW b \in T, \A i \in Of(s, Forks) : i <= b PROVE Base(s) = b
  <2>1. \A y \in T : y <= b
    BY <1>1, <1>5
  <2> QED
    BY <1>3, <1>4, <2>1
<1> QED
  BY <1>1, <1>3, <1>4, <1>5

LEMMA ReadingFacts ==
  ASSUME NEW s \in Seq(Call)
  PROVE  /\ IsFiniteSet(Reading(s)) /\ Files(s) \in Nat /\ Files(s) <= Len(s)
         /\ \A i \in Reading(s) : i \in Nat /\ 1 <= i /\ i <= Len(s)
<1>1. IsFiniteSet(Of(s, Texts)) /\ Count(s, Texts) \in Nat /\ Count(s, Texts) <= Len(s)
      /\ Len(s) \in Nat /\ \A i \in Of(s, Texts) : i \in Nat /\ 1 <= i /\ i <= Len(s)
  BY OfFacts
<1>2. Reading(s) \subseteq Of(s, Texts)
  BY DEF Reading, Of
<1>3. IsFiniteSet(Reading(s)) /\ Files(s) <= Count(s, Texts)
  BY <1>1, <1>2, FS_Subset DEF Files, Count
<1>4. Files(s) \in Nat
  BY <1>3, FS_CardinalityType DEF Files
<1> QED
  BY <1>1, <1>2, <1>3, <1>4

\* One more call.
LEMMA PushOf ==
  ASSUME NEW s \in Seq(Call), NEW f \in Call, NEW kinds
  PROVE  /\ Append(s, f) \in Seq(Call) /\ Len(Append(s, f)) = Len(s) + 1
         /\ Of(Append(s, f), kinds) =
              Of(s, kinds) \union IF f.kind \in kinds THEN {Len(s) + 1} ELSE {}
         /\ Count(Append(s, f), kinds) = Count(s, kinds) + IF f.kind \in kinds THEN 1 ELSE 0
<1>1. /\ Append(s, f) \in Seq(Call) /\ Len(Append(s, f)) = Len(s) + 1
      /\ \A i \in 1 .. Len(s) : Append(s, f)[i] = s[i]
      /\ Append(s, f)[Len(s) + 1] = f
  BY AppendProperties
<1>2. Len(s) \in Nat /\ DOMAIN s = 1 .. Len(s) /\ DOMAIN Append(s, f) = 1 .. Len(s) + 1
  BY <1>1, LenProperties
<1>3. Of(Append(s, f), kinds) = Of(s, kinds) \union IF f.kind \in kinds THEN {Len(s) + 1} ELSE {}
  <2>1. \A i : i \in Of(Append(s, f), kinds) <=>
                 i \in Of(s, kinds) \/ (i = Len(s) + 1 /\ f.kind \in kinds)
    BY <1>1, <1>2 DEF Of
  <2> QED
    BY <2>1
<1>4. Len(s) + 1 \notin Of(s, kinds) /\ IsFiniteSet(Of(s, kinds)) /\ Count(s, kinds) \in Nat
  BY OfFacts
<1>5. Count(Append(s, f), kinds) = Count(s, kinds) + IF f.kind \in kinds THEN 1 ELSE 0
  <2>1. CASE f.kind \in kinds
    BY <1>3, <1>4, <2>1, FS_AddElement DEF Count
  <2>2. CASE f.kind \notin kinds
    BY <1>3, <1>4, <2>2 DEF Count
  <2> QED
    BY <2>1, <2>2
<1> QED
  BY <1>1, <1>3, <1>5

LEMMA PushFiles ==
  ASSUME NEW s \in Seq(Call), NEW f \in Call
  PROVE  /\ Base(Append(s, f)) = IF f.kind \in Forks THEN Len(s) + 1 ELSE Base(s)
         /\ Files(Append(s, f)) = IF f.kind \in Forks THEN 0
                                  ELSE IF f.kind \in Texts THEN Files(s) + 1
                                  ELSE Files(s)
<1> DEFINE t == Append(s, f)
<1>1. t \in Seq(Call) /\ Len(t) = Len(s) + 1 /\ Len(s) \in Nat
      /\ Of(t, Forks) = Of(s, Forks) \union IF f.kind \in Forks THEN {Len(s) + 1} ELSE {}
  BY PushOf, OfFacts
<1>2. /\ DOMAIN t = 1 .. Len(s) + 1 /\ DOMAIN s = 1 .. Len(s)
      /\ \A i \in 1 .. Len(s) : t[i] = s[i]
      /\ t[Len(s) + 1] = f
  BY <1>1, OfFacts, AppendProperties
<1>3. \A i \in Of(s, Forks) : i \in Nat /\ i <= Len(s)
  BY OfFacts
<1>4. Base(t) = IF f.kind \in Forks THEN Len(s) + 1 ELSE Base(s)
  <2>1. CASE f.kind \in Forks
    <3>1. Len(s) + 1 \in Of(t, Forks) /\ \A i \in Of(t, Forks) : i <= Len(s) + 1
      BY <1>1, <1>3, <2>1
    <3> HIDE DEF t
    <3> QED
      BY <1>1, <2>1, <3>1, BaseFacts
  <2>2. CASE f.kind \notin Forks
    BY <1>1, <2>2 DEF Base
  <2> QED
    BY <2>1, <2>2
<1> HIDE DEF t
<1>5. CASE f.kind \in Forks
  <2>1. ASSUME NEW i \in Reading(t) PROVE FALSE
    BY <1>1, <1>2, <1>4, <1>5, <2>1 DEF Reading
  <2>2. Reading(t) = {}
    BY <2>1
  <2> QED
    BY <1>4, <1>5, <2>2, FS_EmptySet DEF Files, t
<1>6. CASE f.kind \notin Forks
  <2>0. Base(s) \in Nat /\ Base(s) <= Len(s) /\ Base(t) = Base(s)
    BY <1>4, <1>6, BaseFacts
  <2>1. \A i : i \in Reading(t) <=> i \in Reading(s) \/ (i = Len(s) + 1 /\ f.kind \in Texts)
    BY <1>1, <1>2, <2>0 DEF Reading
  <2>2. Len(s) + 1 \notin Reading(s) /\ IsFiniteSet(Reading(s)) /\ Files(s) \in Nat
    BY <1>1, ReadingFacts
  <2>3. CASE f.kind \in Texts
    <3>1. Reading(t) = Reading(s) \union {Len(s) + 1}
      BY <2>1, <2>3
    <3> QED
      BY <1>4, <1>6, <2>2, <2>3, <3>1, FS_AddElement DEF Files, t
  <2>4. CASE f.kind \notin Texts
    <3>1. Reading(t) = Reading(s)
      BY <2>1, <2>4
    <3> QED
      BY <1>4, <1>6, <2>4, <3>1 DEF Files, t
  <2> QED
    BY <2>3, <2>4
<1> QED
  BY <1>5, <1>6

\* The stack is the call on top of the rest.
LEMMA TopFacts ==
  ASSUME stack \in Seq(Call), stack # <<>>
  PROVE  Below \in Seq(Call) /\ Top \in Call /\ stack = Append(Below, Top)
         /\ Len(stack) = Len(Below) + 1 /\ Len(Below) \in Nat
<1>1. PICK k \in Nat \ {0} : k = Len(stack)
  BY EmptySeq
<1>2. /\ \A i \in 1 .. k : stack[i] \in Call
      /\ \A i \in 1 .. k - 1 : stack[i] \in Call
  BY <1>1, ElementOfSeq
<1>3. /\ SubSeq(stack, 1, k - 1) \in Seq(Call)
      /\ Len(SubSeq(stack, 1, k - 1)) = IF 1 <= k - 1 THEN (k - 1) - 1 + 1 ELSE 0
      /\ \A i \in 1 .. (k - 1) - 1 + 1 : SubSeq(stack, 1, k - 1)[i] = stack[1 + i - 1]
  BY <1>2, SubSeqProperties
<1>4. Below \in Seq(Call) /\ Len(Below) = k - 1 /\ \A i \in 1 .. k - 1 : Below[i] = stack[i]
  BY <1>1, <1>3 DEF Below
<1>5. Top \in Call /\ Top = stack[k]
  BY <1>1, <1>2 DEF Top
<1>6. /\ Append(Below, Top) \in Seq(Call) /\ Len(Append(Below, Top)) = k
      /\ \A i \in 1 .. k - 1 : Append(Below, Top)[i] = stack[i]
      /\ Append(Below, Top)[k] = stack[k]
  <2>1. /\ Append(Below, Top) \in Seq(Call) /\ Len(Append(Below, Top)) = Len(Below) + 1
        /\ \A i \in 1 .. Len(Below) : Append(Below, Top)[i] = Below[i]
        /\ Append(Below, Top)[Len(Below) + 1] = Top
    BY <1>4, <1>5, AppendProperties
  <2>2. Len(Below) = k - 1 /\ Len(Below) + 1 = k
    BY <1>4
  <2> QED
    BY <1>4, <1>5, <2>1, <2>2
<1>7. \A i \in 1 .. k : Append(Below, Top)[i] = stack[i]
  BY <1>6
<1>8. stack = Append(Below, Top)
  BY <1>1, <1>6, <1>7, SeqEqual
<1> QED
  BY <1>1, <1>4, <1>5, <1>8

-----------------------------------------------------------------------------
(* The invariant                                                           *)

Agree(loops, functions, files, s) ==
  loops = Count(s, Loops) /\ functions = Count(s, {"function"}) /\ files = Files(s)

Skips(skip, n) ==
  /\ skip \in {0, SKIPBREAK, SKIPCONT, SKIPFUNC} /\ n \in 0 .. MaxDepth
  /\ skip # 0 => n > 0

StackTyped(s) == s \in Seq(Call) /\ Len(s) <= MaxDepth

Counted == StackTyped(stack) /\ Agree(loopnest, funcnest, parsefiles, stack)

Others ==
  /\ Skips(evalskip, skipcount)
  /\ exitstatus \in EXIT_STATUS /\ eflag \in BOOLEAN
  /\ pc \in {"call", "expanded", "out", "back", "exited"}

EvalInv == Others /\ Counted

LEMMA Kinds3 ==
  /\ \A k \in Loops : k \notin Texts \union Forks /\ k # "function"
  /\ \A k \in Texts : k \notin Forks /\ k # "function"
  /\ "function" \notin Forks
  /\ "lc" \notin Loops \union Texts \union Forks /\ "lc" # "function"
BY DEF Loops, Texts, Forks

LEMMA Numbers ==
  ASSUME Counted
  PROVE  /\ MaxDepth \in Nat /\ Len(stack) \in Nat /\ Len(stack) <= MaxDepth
         /\ loopnest \in Nat /\ funcnest \in Nat /\ parsefiles \in Nat
         /\ loopnest <= Len(stack) /\ funcnest <= Len(stack) /\ parsefiles <= Len(stack)
BY OfFacts, ReadingFacts, EvalAssumption DEF Counted, StackTyped, Agree

LEMMA PushCounted ==
  ASSUME Counted, NEW f \in Call, Len(stack) < MaxDepth, stack' = Append(stack, f),
         loopnest' = IF f.kind \in Loops THEN loopnest + 1 ELSE loopnest,
         funcnest' = IF f.kind = "function" THEN funcnest + 1 ELSE funcnest,
         parsefiles' = IF f.kind \in Forks THEN 0
                       ELSE IF f.kind \in Texts THEN parsefiles + 1 ELSE parsefiles
  PROVE  Counted'
<1>1. stack \in Seq(Call) /\ Len(stack) \in Nat /\ MaxDepth \in Nat
  BY Numbers DEF Counted, StackTyped
<1>2. stack' \in Seq(Call) /\ Len(stack') = Len(stack) + 1
  BY <1>1, PushOf
<1>3. /\ Count(stack', Loops) = Count(stack, Loops) + IF f.kind \in Loops THEN 1 ELSE 0
      /\ Count(stack', {"function"}) =
           Count(stack, {"function"}) + IF f.kind \in {"function"} THEN 1 ELSE 0
      /\ Count(stack, Loops) \in Nat /\ Count(stack, {"function"}) \in Nat
  BY <1>1, PushOf, OfFacts
<1>4. Files(stack') = IF f.kind \in Forks THEN 0
                      ELSE IF f.kind \in Texts THEN Files(stack) + 1 ELSE Files(stack)
  BY <1>1, PushFiles
<1>5. loopnest' = Count(stack', Loops) /\ funcnest' = Count(stack', {"function"})
  BY <1>3 DEF Counted, Agree
<1>6. parsefiles' = Files(stack')
  BY <1>4 DEF Counted, Agree
<1> QED
  BY <1>1, <1>2, <1>5, <1>6 DEF Counted, Agree, StackTyped

\* The call on top goes on with another part.
LEMMA ReplaceCounted ==
  ASSUME Counted, stack # <<>>, NEW f \in Call, f.kind = Top.kind,
         stack' = Append(Below, f), UNCHANGED <<loopnest, funcnest, parsefiles>>
  PROVE  Counted'
<1>1. /\ stack \in Seq(Call) /\ Len(stack) \in Nat /\ MaxDepth \in Nat /\ Len(stack) <= MaxDepth
      /\ Below \in Seq(Call) /\ Top \in Call /\ stack = Append(Below, Top)
  BY Numbers, TopFacts DEF Counted, StackTyped
<1>2. stack' \in Seq(Call) /\ Len(stack') = Len(Below) + 1 /\ Len(stack) = Len(Below) + 1
  BY <1>1, PushOf
<1>3. ASSUME NEW kinds PROVE Count(stack', kinds) = Count(stack, kinds)
  BY <1>1, PushOf
<1>4. Files(stack') = Files(stack)
  BY <1>1, PushFiles
<1> QED
  BY <1>1, <1>2, <1>3, <1>4 DEF Counted, Agree, StackTyped

\* The call on top, which is no child process, is over.
LEMMA PopCounted ==
  ASSUME Counted, stack # <<>>, Top.kind \notin Forks, stack' = Below,
         loopnest' = IF Top.kind \in Loops THEN loopnest - 1 ELSE loopnest,
         funcnest' = IF Top.kind = "function" THEN funcnest - 1 ELSE funcnest,
         parsefiles' = IF Top.kind \in Texts THEN parsefiles - 1 ELSE parsefiles
  PROVE  Counted'
<1>1. /\ stack \in Seq(Call) /\ Len(stack) \in Nat /\ MaxDepth \in Nat /\ Len(stack) <= MaxDepth
      /\ Below \in Seq(Call) /\ Top \in Call /\ stack = Append(Below, Top)
      /\ Len(stack) = Len(Below) + 1 /\ Len(Below) \in Nat
  BY Numbers, TopFacts DEF Counted, StackTyped
<1>3. /\ Count(stack, Loops) = Count(Below, Loops) + IF Top.kind \in Loops THEN 1 ELSE 0
      /\ Count(stack, {"function"}) =
           Count(Below, {"function"}) + IF Top.kind \in {"function"} THEN 1 ELSE 0
      /\ Count(Below, Loops) \in Nat /\ Count(Below, {"function"}) \in Nat
  BY <1>1, PushOf, OfFacts
<1>4. Files(stack) = IF Top.kind \in Texts THEN Files(Below) + 1 ELSE Files(Below)
  BY <1>1, PushFiles
<1>f. Files(Below) \in Nat
  BY <1>1, ReadingFacts
<1>5. loopnest' = Count(Below, Loops) /\ funcnest' = Count(Below, {"function"})
  BY <1>3 DEF Counted, Agree
<1>6. parsefiles' = Files(Below)
  BY <1>4, <1>f DEF Counted, Agree
<1> QED
  BY <1>1, <1>5, <1>6 DEF Counted, Agree, StackTyped

LEMMA SameCounted ==
  ASSUME Counted, UNCHANGED <<stack, loopnest, funcnest, parsefiles>>
  PROVE  Counted'
BY DEF Counted, Agree, StackTyped

LEMMA EmptyCounted ==
  ASSUME stack' = <<>>, loopnest' = 0, funcnest' = 0, parsefiles' = 0
  PROVE  Counted'
<1>1. PICK s \in Seq(Call) : s = <<>> /\ Len(s) = 0
  BY EmptySeq
<1>2. ASSUME NEW kinds PROVE Count(s, kinds) = 0
  <2>1. Count(s, kinds) \in Nat /\ Count(s, kinds) <= 0
    BY <1>1, OfFacts
  <2> QED
    BY <2>1
<1>3. Files(s) = 0
  <2>1. Files(s) \in Nat /\ Files(s) <= 0
    BY <1>1, ReadingFacts
  <2> QED
    BY <2>1
<1>4. Agree(0, 0, 0, s) /\ StackTyped(s)
  BY <1>1, <1>2, <1>3, EvalAssumption DEF Agree, StackTyped
<1> QED
  BY <1>1, <1>4 DEF Counted

-----------------------------------------------------------------------------
(* The steps                                                               *)

LEMMA Flags == EvExit \in BOOLEAN /\ EvTested \in BOOLEAN /\ ErrExit \in BOOLEAN
BY DEF EvExit, EvTested, ErrExit

LEMMA ClampedFacts ==
  ASSUME EvalInv, NEW n \in 0 .. MaxSkip
  PROVE  Clamped(n) \in 0 .. MaxDepth
<1>1. loopnest \in Nat /\ loopnest <= MaxDepth /\ MaxDepth \in Nat
  BY Numbers DEF EvalInv
<1>2. n \in Nat
  BY EvalAssumption
<1> QED
  BY <1>1, <1>2, MinOfTwo DEF Clamped

\* Simple commands.
LEMMA CommandStep ==
  ASSUME EvalInv,
         \/ \E s \in EXIT_STATUS : evalcommand(s) \/ returncmd(s)
         \/ \E n \in 0 .. MaxSkip : breakcmd(SKIPBREAK, n) \/ breakcmd(SKIPCONT, n)
         \/ \E n \in 1 .. MaxSkip : evalbackcmd_break(SKIPBREAK, n) \/ evalbackcmd_break(SKIPCONT, n)
         \/ \E s \in EXIT_STATUS : evalbackcmd_return(s)
  PROVE  EvalInv'
<1>0. UNCHANGED <<stack, loopnest, funcnest, parsefiles>>
  BY DEF evalcommand, Done, returncmd, breakcmd, evalbackcmd_break, evalbackcmd_return, nests
<1>1. Counted'
  BY <1>0, SameCounted DEF EvalInv
<1>2. CASE \E s \in EXIT_STATUS : evalcommand(s)
  BY <1>1, <1>2 DEF EvalInv, Others, evalcommand, Done, skips
<1>3. ASSUME NEW s \in EXIT_STATUS, returncmd(s) PROVE Others'
  <2>1. exitstatus' = s /\ pc' = "out" /\ eflag' = eflag
    BY <1>3 DEF returncmd
  <2>2. Skips(evalskip', skipcount')
    <3>1. CASE funcnest > 0
      <4>1. MaxDepth >= 1 /\ MaxDepth \in Nat
        BY <3>1, Numbers DEF EvalInv
      <4> QED
        BY <1>3, <3>1, <4>1 DEF returncmd, Skipping, Skips
    <3>2. CASE ~(funcnest > 0)
      BY <1>3, <3>2 DEF returncmd, EvalInv, Others, skips
    <3> QED
      BY <3>1, <3>2
  <2> QED
    BY <1>3, <2>1, <2>2 DEF EvalInv, Others
<1>4. ASSUME NEW n \in 0 .. MaxSkip, NEW k \in {SKIPBREAK, SKIPCONT}, breakcmd(k, n)
      PROVE  Others'
  <2>1. exitstatus' = 0 /\ pc' = "out" /\ eflag' = eflag
    BY <1>4 DEF breakcmd
  <2>2. Skips(evalskip', skipcount')
    <3>1. CASE Clamped(n) > 0
      BY <1>4, <3>1, ClampedFacts DEF breakcmd, Skipping, Skips
    <3>2. CASE ~(Clamped(n) > 0)
      BY <1>4, <3>2 DEF breakcmd, EvalInv, Others, skips
    <3> QED
      BY <3>1, <3>2
  <2> QED
    BY <2>1, <2>2 DEF EvalInv, Others, EXIT_STATUS
<1>5. ASSUME NEW n \in 1 .. MaxSkip, NEW k \in {SKIPBREAK, SKIPCONT}, evalbackcmd_break(k, n)
      PROVE  Others'
  <2>1. exitstatus' = 0 /\ pc' = "expanded" /\ eflag' = eflag
        /\ Clamped(n) > 0 /\ evalskip' = k /\ skipcount' = Clamped(n)
    BY <1>5 DEF evalbackcmd_break, Skipping
  <2>2. n \in 0 .. MaxSkip
    BY EvalAssumption
  <2>3. Skips(evalskip', skipcount')
    BY <2>1, <2>2, ClampedFacts DEF Skips
  <2> QED
    BY <2>1, <2>3 DEF EvalInv, Others, EXIT_STATUS
<1>6. ASSUME NEW s \in EXIT_STATUS, evalbackcmd_return(s) PROVE Others'
  <2>1. MaxDepth >= 1 /\ MaxDepth \in Nat
    BY <1>6, Numbers DEF evalbackcmd_return, EvalInv
  <2>2. Skips(evalskip', skipcount')
    BY <1>6, <2>1 DEF evalbackcmd_return, Skipping, Skips
  <2> QED
    BY <1>6, <2>2 DEF evalbackcmd_return, EvalInv, Others
<1> QED
  BY <1>1, <1>2, <1>3, <1>4, <1>5, <1>6 DEF EvalInv

\* What changes nothing but where the evaluation is, or the flag of -e.
LEMMA QuietStep ==
  ASSUME Allowed = {}, EvalInv,
         setcmd \/ NotBegun \/ evaltree_NULL \/ exitshell \/ cmdloop \/ exitcmd
  PROVE  EvalInv'
<1>0. /\ UNCHANGED <<stack, loopnest, funcnest, parsefiles, skips>>
      /\ pc' \in {"call", "expanded", "out", "back", "exited"}
  BY DEF setcmd, NotBegun, evaltree_NULL, exitshell, cmdloop, exitcmd, nests
<1>1. Counted' /\ Skips(evalskip', skipcount')
  BY <1>0, SameCounted DEF EvalInv, Others, skips
<1>2. exitstatus' \in EXIT_STATUS
  BY DEF setcmd, NotBegun, evaltree_NULL, exitshell, cmdloop, exitcmd, EvalInv, Others, EXIT_STATUS
<1>3. eflag' \in BOOLEAN
  <2>1. CASE setcmd
    <3>1. eflag' = ~eflag
      BY <2>1 DEF setcmd
    <3> QED
      BY <3>1, Zenon
  <2>2. CASE NotBegun \/ evaltree_NULL \/ exitshell \/ cmdloop \/ exitcmd
    <3>1. eflag' = eflag
      BY <2>2 DEF NotBegun, evaltree_NULL, exitshell, cmdloop, exitcmd
    <3> QED
      BY <3>1 DEF EvalInv, Others
  <2> QED
    BY <2>1, <2>2
<1> QED
  BY <1>0, <1>1, <1>2, <1>3 DEF EvalInv, Others

LEMMA EnteredFacts ==
  ASSUME NEW kind \in Kinds
  PROVE  Entered(kind) \in Call /\ Entered(kind).kind = kind
<1>1. PICK e \in BOOLEAN, t \in BOOLEAN : e = EvExit /\ t = (EvTested /\ kind # "background")
  BY Flags, Zenon
<1>2. Entered(kind) = [kind |-> kind, at |-> IF kind = "for" THEN "second" ELSE "first",
                       last |-> 0, exit |-> e, tested |-> t]
  BY <1>1 DEF Entered
<1> QED
  BY <1>2 DEF Call, EXIT_STATUS

\* A compound command, a text, a child process or a trap's action begins.
LEMMA PushStep ==
  ASSUME EvalInv,
         \/ \E k \in Kinds : evaltree(k)
         \/ dotrap
  PROVE  EvalInv'
<1>1. ASSUME NEW kind \in Kinds, evaltree(kind) PROVE EvalInv'
  <2>1. /\ kind \notin Forks /\ Len(stack) < MaxDepth /\ pc' = "call"
        /\ stack' = Append(stack, Entered(kind))
        /\ loopnest' = IF kind \in Loops THEN loopnest + 1 ELSE loopnest
        /\ funcnest' = IF kind = "function" THEN funcnest + 1 ELSE funcnest
        /\ exitstatus' = IF kind = "for" THEN 0 ELSE exitstatus
        /\ parsefiles' = IF kind \in Texts THEN parsefiles + 1 ELSE parsefiles
        /\ UNCHANGED <<skips, eflag>>
    BY <1>1 DEF evaltree, Evaluating, pushfile
  <2>2. Counted'
    BY <2>1, EnteredFacts, PushCounted DEF EvalInv
  <2> QED
    BY <2>1, <2>2 DEF EvalInv, Others, skips, EXIT_STATUS
<1>2. CASE dotrap
  <2> DEFINE f == [kind |-> "trap", at |-> "first", last |-> exitstatus,
                   exit |-> FALSE, tested |-> FALSE]
  <2>1. /\ "trap" \in Kinds /\ Len(stack) < MaxDepth /\ pc' = "call"
        /\ stack' = Append(stack, f) /\ parsefiles' = parsefiles + 1
        /\ UNCHANGED <<skips, nests, exitstatus, eflag>>
    BY <1>2 DEF dotrap, pushfile
  <2>2. f \in Call /\ f.kind = "trap"
    BY <2>1, Zenon DEF Call, EvalInv, Others
  <2> HIDE DEF f
  <2>3. "trap" \in Texts /\ "trap" \notin Forks \union Loops /\ "trap" # "function"
    BY DEF Texts, Forks, Loops
  <2>4. Counted'
    BY <2>1, <2>2, <2>3, PushCounted DEF EvalInv, nests
  <2> QED
    BY <2>1, <2>4 DEF EvalInv, Others, skips
<1> QED
  BY <1>1, <1>2

LEMMA ForkStep ==
  ASSUME EvalInv, evalsubshell("subshell") \/ evalsubshell("background") \/ evalpipe
  PROVE  EvalInv'
<1>1. ASSUME NEW kind \in Kinds \intersect Forks, Forked(kind) PROVE EvalInv'
  <2>1. /\ Len(stack) < MaxDepth /\ pc' = "call" /\ stack' = Append(stack, Entered(kind))
        /\ parsefiles' = 0 /\ UNCHANGED <<skips, nests, exitstatus, eflag>>
    BY <1>1 DEF Forked, Evaluating, closescript, popallfiles
  <2>2. kind \notin Loops /\ kind # "function"
    BY DEF Forks, Loops
  <2>3. Counted'
    BY <2>1, <2>2, EnteredFacts, PushCounted DEF EvalInv, nests
  <2> QED
    BY <2>1, <2>3 DEF EvalInv, Others, skips
<1>2. ASSUME NEW s \in EXIT_STATUS, Done(s) PROVE EvalInv'
  <2>1. UNCHANGED <<stack, loopnest, funcnest, parsefiles>>
    BY <1>2 DEF Done, nests
  <2>2. Counted'
    BY <2>1, SameCounted DEF EvalInv
  <2> QED
    BY <1>2, <2>2 DEF Done, EvalInv, Others, skips
<1>3. exitstatus \in EXIT_STATUS
  BY DEF EvalInv, Others
<1>4. (\E kind \in Kinds \intersect Forks : Forked(kind)) \/ \E s \in EXIT_STATUS : Done(s)
  BY <1>3 DEF evalsubshell, evalpipe, Forks
<1> QED
  BY <1>1, <1>2, <1>4

\* The call on top goes on, or is over.
LEMMA ContinueCounted ==
  ASSUME EvalInv, stack # <<>>, NEW f \in Call, f.kind = Top.kind, Continues(f)
  PROVE  EvalInv'
<1>1. stack' = Append(Below, f) /\ pc' = "call"
      /\ UNCHANGED <<skips, nests, exitstatus, eflag, parsefiles>>
  BY DEF Continues
<1>2. Counted'
  BY <1>1, ReplaceCounted DEF EvalInv, nests
<1> QED
  BY <1>1, <1>2 DEF EvalInv, Others, skips

LEMMA EndsCounted ==
  ASSUME EvalInv, stack # <<>>, Top.kind \notin Forks \union Loops, Ends,
         funcnest' = IF Top.kind = "function" THEN funcnest - 1 ELSE funcnest,
         parsefiles' = IF Top.kind \in Texts THEN parsefiles - 1 ELSE parsefiles,
         loopnest' = loopnest, exitstatus' = exitstatus, Skips(evalskip', skipcount')
  PROVE  EvalInv'
<1>1. stack' = Below /\ pc' = "out" /\ eflag' = eflag
  BY DEF Ends
<1>2. Counted'
  BY <1>1, PopCounted DEF EvalInv
<1> QED
  BY <1>1, <1>2 DEF EvalInv, Others

LEMMA SecondFacts ==
  ASSUME EvalInv, stack # <<>>
  PROVE  Second(Top) \in Call /\ Second(Top).kind = Top.kind
<1>1. Top \in Call
  BY TopFacts DEF EvalInv, Counted, StackTyped
<1> QED
  BY <1>1 DEF Second, Call

LEMMA CompoundStep ==
  ASSUME EvalInv,
         \/ evaltree_semi \/ evaltree_andor \/ evaltree_one
         \/ \E e \in BOOLEAN : evaltree_if(e)
  PROVE  EvalInv'
<1>1. /\ stack # <<>> /\ Top.kind \in {"semi", "and", "or", "if", "case", "redir"}
      /\ \/ Continues(Second(Top))
         \/ Ends /\ UNCHANGED <<skips, nests, exitstatus, parsefiles>>
  BY DEF evaltree_semi, evaltree_andor, evaltree_if, evaltree_one, Returns
<1>2. CASE Continues(Second(Top))
  BY <1>1, <1>2, SecondFacts, ContinueCounted
<1>3. CASE Ends /\ UNCHANGED <<skips, nests, exitstatus, parsefiles>>
  <2>1. Top.kind \notin Forks \union Loops \union Texts /\ Top.kind # "function"
    BY <1>1 DEF Forks, Loops, Texts
  <2>2. Skips(evalskip', skipcount')
    BY <1>3 DEF EvalInv, Others, skips
  <2> QED
    BY <1>1, <1>3, <2>1, <2>2, EndsCounted DEF nests
<1> QED
  BY <1>1, <1>2, <1>3

\* The end of a function, and the commands of a text.
LEMMA TextStep ==
  ASSUME EvalInv, evalcommand_function \/ evalstring_next \/ evalstring_end
  PROVE  EvalInv'
<1>1. CASE evalcommand_function
  <2>1. /\ stack # <<>> /\ Top.kind = "function" /\ Ends /\ funcnest' = funcnest - 1
        /\ UNCHANGED <<loopnest, exitstatus, parsefiles>>
        /\ IF evalskip = SKIPFUNC THEN Skipping(0, 0) ELSE UNCHANGED skips
    BY <1>1 DEF evalcommand_function, Returns
  <2>2. Top.kind \notin Forks \union Loops \union Texts
    BY <2>1 DEF Forks, Loops, Texts
  <2>3. Skips(evalskip', skipcount')
    BY <2>1, EvalAssumption DEF Skipping, EvalInv, Others, skips, Skips
  <2> QED
    BY <2>1, <2>2, <2>3, EndsCounted
<1>2. CASE evalstring_next
  <2>1. stack # <<>> /\ Continues(Top) /\ Top \in Call
    BY <1>2, TopFacts DEF evalstring_next, Returns, EvalInv, Counted, StackTyped
  <2> QED
    BY <2>1, ContinueCounted
<1>3. CASE evalstring_end
  <2>1. /\ stack # <<>> /\ Top.kind \in Texts \union {"lc"} /\ Ends
        /\ parsefiles' = IF Top.kind \in Texts THEN parsefiles - 1 ELSE parsefiles
        /\ UNCHANGED <<skips, nests, exitstatus>>
    BY <1>3 DEF evalstring_end, Returns, popfile
  <2>2. Top.kind \notin Forks \union Loops /\ Top.kind # "function"
    BY <2>1, Kinds3
  <2>3. Skips(evalskip', skipcount')
    BY <2>1 DEF EvalInv, Others, skips
  <2> QED
    BY <2>1, <2>2, <2>3, EndsCounted DEF nests
<1> QED
  BY <1>1, <1>2, <1>3

LEMMA SkipTyped ==
  ASSUME EvalInv, NEW A, NEW B, Skip(A, B)
  PROVE  Skips(evalskip', skipcount') /\ (A \/ B)
<1>1. /\ evalskip # 0
      /\ skipcount' = IF evalskip = SKIPFUNC THEN skipcount ELSE skipcount - 1
      /\ evalskip' = IF evalskip # SKIPFUNC /\ Mine THEN 0 ELSE evalskip
  BY DEF Skip
<1>2. A \/ B
  BY DEF Skip
<1>3. Skips(evalskip, skipcount) /\ MaxDepth \in Nat
  BY EvalAssumption DEF EvalInv, Others
<1>4. Skips(evalskip', skipcount')
  BY <1>1, <1>3 DEF Skips, Mine
<1> QED
  BY <1>2, <1>4

LEMMA LoopStep ==
  ASSUME EvalInv, evalloop \/ \E e \in BOOLEAN : evalfor(e)
  PROVE  EvalInv'
<1>0. exitstatus \in EXIT_STATUS /\ eflag \in BOOLEAN /\ Skips(evalskip, skipcount)
  BY DEF EvalInv, Others
<1>1. CASE evalloop
  <2>1. /\ stack # <<>> /\ Top.kind \in {"while", "until"} /\ UNCHANGED <<funcnest, eflag, parsefiles>>
        /\ \/ Skip(Test, EndLoop)
           \/ UNCHANGED skips /\ (Test \/ Body \/ EndLoop)
    BY <1>1 DEF evalloop, Returns
  <2>2. Skips(evalskip', skipcount') /\ (Test \/ Body \/ EndLoop)
    BY <2>1, <1>0, SkipTyped DEF skips
  <2>3. Top \in Call
    BY <2>1, TopFacts DEF EvalInv, Counted, StackTyped
  <2>4. Status \in EXIT_STATUS
    BY <1>0, <2>3 DEF Status, Call
  <2>5. CASE Test
    <3> DEFINE f == [Top EXCEPT !.at = "first", !.last = Status]
    <3>1. f \in Call /\ f.kind = Top.kind
      BY <2>3, <2>4 DEF Call
    <3>2. stack' = Append(Below, f) /\ pc' = "call" /\ UNCHANGED <<loopnest, exitstatus>>
      BY <2>5 DEF Test
    <3> HIDE DEF f
    <3>3. Counted'
      BY <2>1, <3>1, <3>2, ReplaceCounted DEF EvalInv
    <3> QED
      BY <1>0, <2>1, <2>2, <3>2, <3>3 DEF EvalInv, Others
  <2>6. CASE Body
    <3>1. stack' = Append(Below, Second(Top)) /\ pc' = "call" /\ UNCHANGED <<loopnest, exitstatus>>
      BY <2>6 DEF Body
    <3>2. Counted'
      BY <2>1, <3>1, SecondFacts, ReplaceCounted DEF EvalInv
    <3> QED
      BY <1>0, <2>1, <2>2, <3>1, <3>2 DEF EvalInv, Others
  <2>7. CASE EndLoop
    <3>1. stack' = Below /\ pc' = "out" /\ loopnest' = loopnest - 1 /\ exitstatus' = Status
      BY <2>7 DEF EndLoop
    <3>2. Top.kind \in Loops /\ Top.kind \notin Texts \union Forks /\ Top.kind # "function"
      BY <2>1 DEF Loops, Texts, Forks
    <3>3. Counted'
      BY <2>1, <3>1, <3>2, PopCounted DEF EvalInv
    <3> QED
      BY <1>0, <2>1, <2>2, <2>4, <3>1, <3>3 DEF EvalInv, Others
  <2> QED
    BY <2>2, <2>5, <2>6, <2>7
<1>2. CASE \E e \in BOOLEAN : evalfor(e)
  <2>1. /\ stack # <<>> /\ Top.kind = "for" /\ UNCHANGED <<funcnest, eflag, parsefiles>>
        /\ \/ Skip(Word, EndFor) \/ Skip(EndFor, EndFor)
           \/ UNCHANGED skips /\ (Word \/ EndFor)
    BY <1>2 DEF evalfor, Returns
  <2>2. Skips(evalskip', skipcount') /\ (Word \/ EndFor)
    BY <2>1, <1>0, SkipTyped DEF skips
  <2>3. CASE Word
    <3>1. UNCHANGED <<stack, loopnest, funcnest, parsefiles, exitstatus>> /\ pc' = "call"
      BY <2>1, <2>3 DEF Word
    <3>2. Counted'
      BY <3>1, SameCounted DEF EvalInv
    <3> QED
      BY <1>0, <2>1, <2>2, <3>1, <3>2 DEF EvalInv, Others
  <2>4. CASE EndFor
    <3>1. stack' = Below /\ pc' = "out" /\ loopnest' = loopnest - 1 /\ exitstatus' = exitstatus
      BY <2>4 DEF EndFor
    <3>2. Top.kind \in Loops /\ Top.kind \notin Texts \union Forks /\ Top.kind # "function"
      BY <2>1 DEF Loops, Texts, Forks
    <3>3. Counted'
      BY <2>1, <3>1, <3>2, PopCounted DEF EvalInv
    <3> QED
      BY <1>0, <2>1, <2>2, <3>1, <3>3 DEF EvalInv, Others
  <2> QED
    BY <2>2, <2>3, <2>4
<1> QED
  BY <1>1, <1>2

\* An error that a builtin catches: nothing that is counted is among what is forgotten.
LEMMA CutFacts ==
  ASSUME NEW s \in Seq(Call), NEW c \in 1 .. Len(s)
  PROVE  LET cut == SubSeq(s, 1, c - 1)
         IN  /\ cut \in Seq(Call) /\ Len(cut) = c - 1 /\ DOMAIN cut = 1 .. c - 1
             /\ \A i \in 1 .. c - 1 : cut[i] = s[i]
<1>1. c \in Nat \ {0} /\ Len(s) \in Nat
  BY LenProperties
<1>2. \A i \in 1 .. c - 1 : s[i] \in Call
  BY <1>1, ElementOfSeq
<1>3. /\ SubSeq(s, 1, c - 1) \in Seq(Call)
      /\ Len(SubSeq(s, 1, c - 1)) = IF 1 <= c - 1 THEN (c - 1) - 1 + 1 ELSE 0
      /\ \A i \in 1 .. (c - 1) - 1 + 1 : SubSeq(s, 1, c - 1)[i] = s[1 + i - 1]
  BY <1>1, <1>2, SubSeqProperties
<1>4. Len(SubSeq(s, 1, c - 1)) = c - 1
  BY <1>1, <1>3
<1>5. \A i \in 1 .. c - 1 : SubSeq(s, 1, c - 1)[i] = s[i]
  BY <1>1, <1>3
<1>6. DOMAIN SubSeq(s, 1, c - 1) = 1 .. c - 1
  BY <1>3, <1>4, LenProperties
<1> QED
  BY <1>3, <1>4, <1>5, <1>6

LEMMA ErrorStep ==
  ASSUME Allowed = {}, EvalInv, error
  PROVE  EvalInv'
<1> DEFINE c == Catcher
           T == {0} \union {i \in DOMAIN stack : stack[i].kind = "lc"}
           counted == Loops \union Texts \union Forks \union {"function"}
<1>0. stack \in Seq(Call) /\ Len(stack) \in Nat /\ DOMAIN stack = 1 .. Len(stack)
  BY LenProperties DEF EvalInv, Counted, StackTyped
<1>1. /\ c # 0 /\ Forgotten \intersect counted = {}
      /\ stack' = SubSeq(stack, 1, c - 1) /\ pc' = "out" /\ exitstatus' = 1
      /\ UNCHANGED <<skips, nests, eflag, parsefiles>>
  BY DEF error
<1>2. c \in 1 .. Len(stack) /\ stack[c].kind = "lc"
  <2>1. T # {} /\ \A x \in T : x \in Nat /\ x <= Len(stack)
    BY <1>0
  <2>2. Max(T) \in T
    <3> HIDE DEF T
    <3> QED
      BY <1>0, <2>1, MaxFacts
  <2> QED
    BY <1>0, <1>1, <2>2 DEF Catcher
<1>3. \A i \in DOMAIN stack : i >= c => stack[i].kind \notin counted
  <2>1. \A i \in c + 1 .. Len(stack) : stack[i].kind \notin counted
    BY <1>1 DEF Forgotten
  <2>2. "lc" \notin counted
    BY DEF Loops, Texts, Forks
  <2> HIDE DEF counted
  <2> QED
    BY <1>0, <1>2, <2>1, <2>2
<1>4. /\ stack' \in Seq(Call) /\ Len(stack') = c - 1 /\ DOMAIN stack' = 1 .. c - 1
      /\ \A i \in 1 .. c - 1 : stack'[i] = stack[i]
  BY <1>0, <1>1, <1>2, CutFacts
<1> HIDE DEF c
<1>5. ASSUME NEW kinds \in SUBSET counted PROVE Of(stack', kinds) = Of(stack, kinds)
  <2>1. \A i : i \in Of(stack', kinds) <=> i \in Of(stack, kinds)
    BY <1>0, <1>2, <1>3, <1>4 DEF Of
  <2> QED
    BY <2>1
<1>6. Count(stack', Loops) = Count(stack, Loops)
      /\ Count(stack', {"function"}) = Count(stack, {"function"})
  BY <1>5 DEF Count
<1>7. Files(stack') = Files(stack)
  <2>1. Of(stack', Texts) = Of(stack, Texts) /\ Base(stack') = Base(stack)
    BY <1>5 DEF Base
  <2>2. Reading(stack') = Reading(stack)
    BY <2>1 DEF Of, Reading
  <2> QED
    BY <2>2 DEF Files
<1>8. Counted'
  <2>1. Len(stack') <= MaxDepth
    BY <1>0, <1>2, <1>4, EvalAssumption DEF EvalInv, Counted, StackTyped
  <2> QED
    BY <1>1, <1>4, <1>6, <1>7, <2>1 DEF EvalInv, Counted, StackTyped, Agree, nests
<1> QED
  BY <1>1, <1>8 DEF EvalInv, Others, skips, EXIT_STATUS

LEMMA InterruptStep ==
  ASSUME EvalInv, onint
  PROVE  EvalInv'
<1>1. /\ stack' = <<>> /\ pc' = "call" /\ evalskip' = 0 /\ loopnest' = 0 /\ funcnest' = 0
      /\ parsefiles' = 0 /\ exitstatus' \in {exitstatus, 1} /\ UNCHANGED <<skipcount, eflag>>
  BY DEF onint, reset, popallfiles
<1>2. Counted'
  BY <1>1, EmptyCounted
<1> QED
  BY <1>1, <1>2 DEF EvalInv, Others, Skips, EXIT_STATUS

LEMMA StepInv ==
  ASSUME Allowed = {}, EvalInv, [Next]_vars
  PROVE  EvalInv'
<1>1. CASE UNCHANGED vars
  <2>1. Counted'
    BY <1>1, SameCounted DEF vars, nests, EvalInv
  <2> QED
    BY <1>1, <2>1 DEF vars, skips, EvalInv, Others
<1>2. CASE Next
  BY <1>2, CommandStep, QuietStep, PushStep, ForkStep, CompoundStep, TextStep, LoopStep,
     ErrorStep, InterruptStep DEF Next
<1> QED
  BY <1>1, <1>2

LEMMA Starts ==
  ASSUME Init
  PROVE  EvalInv
<1>1. PICK s \in Seq(Call) : s = <<>> /\ Len(s) = 0
  BY EmptySeq
<1>2. ASSUME NEW kinds PROVE Count(s, kinds) = 0
  <2>1. Count(s, kinds) \in Nat /\ Count(s, kinds) <= 0
    BY <1>1, OfFacts
  <2> QED
    BY <2>1
<1>3. Files(s) = 0
  <2>1. Files(s) \in Nat /\ Files(s) <= 0
    BY <1>1, ReadingFacts
  <2> QED
    BY <2>1
<1>4. Counted
  BY <1>1, <1>2, <1>3, EvalAssumption DEF Init, Counted, StackTyped, Agree
<1>5. eflag \in BOOLEAN
  BY Zenon DEF Init
<1>6. Skips(evalskip, skipcount) /\ exitstatus \in EXIT_STATUS /\ pc = "call"
  BY EvalAssumption DEF Init, Skips, EXIT_STATUS
<1> QED
  BY <1>4, <1>5, <1>6 DEF EvalInv, Others

\* Whatever is evaluated, broken off, interrupted or forked, the counters and flags
\* of eval.c agree with the calls of evaltree.
THEOREM Invariance ==
  ASSUME Allowed = {}
  PROVE  Spec => []EvalInv
<1>1. Init => EvalInv
  BY Starts
<1>2. EvalInv /\ [Next]_vars => EvalInv'
  BY StepInv
<1> QED
  BY <1>1, <1>2, PTL DEF Spec

\* evalskip, skipcount, loopnest, funcnest, exitstatus, eflag and the stack of texts
\* always hold values of their types; no more than MaxDepth calls are counted.
THEOREM TypeCorrect ==
  ASSUME Allowed = {}
  PROVE  Spec => []TypeOK
<1>1. EvalInv => TypeOK
  <2> SUFFICES ASSUME EvalInv PROVE TypeOK
    OBVIOUS
  <2>1. loopnest \in 0 .. MaxDepth /\ funcnest \in 0 .. MaxDepth /\ parsefiles \in 0 .. MaxDepth
    BY Numbers DEF EvalInv
  <2> QED
    BY <2>1 DEF EvalInv, Others, Counted, StackTyped, Skips, TypeOK
<1> QED
  BY <1>1, Invariance, PTL

\* loopnest and funcnest count the loops and functions being executed, and the text
\* read next is the innermost loop of commands of this process, whatever was left by
\* break, return, errors, interrupts or a fork.
THEOREM CountersAreRight ==
  ASSUME Allowed = {}
  PROVE  Spec => []CountsAgree
<1>1. EvalInv => CountsAgree
  <2>1. LastFork = Base(stack)
    BY DEF LastFork, Base, Of
  <2>2. \A i : stack[i].kind \in {"function"} <=> stack[i].kind = "function"
    OBVIOUS
  <2>3. Of(stack, {"function"}) = {i \in DOMAIN stack : stack[i].kind = "function"}
    BY <2>2 DEF Of
  <2> QED
    BY <2>1, <2>3 DEF EvalInv, Counted, Agree, Count, Files, Reading, Of, CountsAgree
<1> QED
  BY <1>1, Invariance, PTL

-----------------------------------------------------------------------------
(* What Control says of a stack, in the terms above                        *)

Since(s, i) == {j \in Of(s, Loops) : j >= i}

LoopAt(s, n) == Max({0} \union {i \in Of(s, Loops) : Cardinality(Since(s, i)) >= n})

FunctionAt(s) == Max({0} \union Of(s, {"function"}))

LEMMA SameOperators ==
  ASSUME NEW s, NEW n
  PROVE  /\ P!Base(s) = Base(s) /\ C!Base(s) = Base(s)
         /\ P!Loop(s, n) = LoopAt(s, n) /\ C!Loop(s, n) = LoopAt(s, n)
         /\ P!Function(s) = FunctionAt(s) /\ C!Function(s) = FunctionAt(s)
<1>1. \A k : P!Of(s, k) = Of(s, k) /\ C!Of(s, k) = Of(s, k)
  BY DEF P!Of, C!Of, Of
<1>2. P!Loops = Loops /\ C!Loops = Loops /\ P!Subshells = Forks /\ C!Subshells = Forks
  BY DEF P!Loops, C!Loops, Loops, P!Subshells, C!Subshells, Forks
<1>3. \A T : P!Max(T) = Max(T) /\ C!Max(T) = Max(T)
  BY DEF P!Max, C!Max, Max
<1>4. P!Base(s) = Base(s) /\ C!Base(s) = Base(s)
  <2>1. P!Base(s) = Max({0} \union Of(s, Forks))
    BY <1>1, <1>2, <1>3 DEF P!Base
  <2>2. C!Base(s) = Max({0} \union Of(s, Forks))
    BY <1>1, <1>2, <1>3 DEF C!Base
  <2> QED
    BY <2>1, <2>2 DEF Base
<1>5. P!Function(s) = FunctionAt(s) /\ C!Function(s) = FunctionAt(s)
  <2>1. P!Function(s) = Max({0} \union Of(s, {"function"}))
    BY <1>1, <1>3 DEF P!Function
  <2>2. C!Function(s) = Max({0} \union Of(s, {"function"}))
    BY <1>1, <1>3 DEF C!Function
  <2> QED
    BY <2>1, <2>2 DEF FunctionAt
<1>c. \A T : P!Cardinality(T) = Cardinality(T) /\ C!Cardinality(T) = Cardinality(T)
  BY DEF P!Cardinality, C!Cardinality, Cardinality
<1>6. P!Loop(s, n) = LoopAt(s, n) /\ C!Loop(s, n) = LoopAt(s, n)
  <2>1. P!Of(s, P!Loops) = Of(s, Loops) /\ C!Of(s, C!Loops) = Of(s, Loops)
    BY <1>1, <1>2
  <2>2. P!Loop(s, n) = P!Max({0} \union {i \in Of(s, Loops) :
                                       Cardinality({j \in Of(s, Loops) : j >= i}) >= n})
    BY <1>c, <2>1 DEF P!Loop
  <2>3. C!Loop(s, n) = C!Max({0} \union {i \in Of(s, Loops) :
                                       Cardinality({j \in Of(s, Loops) : j >= i}) >= n})
    BY <1>c, <2>1 DEF C!Loop
  <2> QED
    BY <1>3, <2>2, <2>3 DEF LoopAt, Since
<1> QED
  BY <1>4, <1>5, <1>6

LEMMA SinceFacts ==
  ASSUME NEW s \in Seq(Call), NEW i
  PROVE  IsFiniteSet(Since(s, i)) /\ Cardinality(Since(s, i)) \in Nat
<1>1. IsFiniteSet(Of(s, Loops)) /\ Since(s, i) \subseteq Of(s, Loops)
  BY OfFacts DEF Since
<1> QED
  BY <1>1, FS_Subset, FS_CardinalityType

LEMMA LoopFacts ==
  ASSUME NEW s \in Seq(Call), NEW n
  PROVE  /\ LoopAt(s, n) \in Nat /\ LoopAt(s, n) <= Len(s)
         /\ LoopAt(s, n) # 0 => LoopAt(s, n) \in Of(s, Loops)
         /\ \A i \in Of(s, Loops) : Cardinality(Since(s, i)) >= n => i <= LoopAt(s, n)
         /\ \A i \in Of(s, Loops) :
              Cardinality(Since(s, i)) >= n /\ (\A j \in Of(s, Loops) : j <= i) => LoopAt(s, n) = i
<1> DEFINE T == {0} \union {i \in Of(s, Loops) : Cardinality(Since(s, i)) >= n}
<1>1. Len(s) \in Nat /\ T # {} /\ \A x \in T : x \in Nat /\ x <= Len(s)
  BY OfFacts
<1>2. /\ Max(T) \in T /\ \A y \in T : y <= Max(T)
      /\ \A x \in T : (\A y \in T : y <= x) => Max(T) = x
  <2> HIDE DEF T
  <2> QED
    BY <1>1, MaxFacts
<1>3. LoopAt(s, n) = Max(T)
  BY DEF LoopAt
<1> HIDE DEF LoopAt
<1>4. ASSUME NEW i \in Of(s, Loops), Cardinality(Since(s, i)) >= n, \A j \in Of(s, Loops) : j <= i
      PROVE  Max(T) = i
  <2>1. i \in T /\ i \in Nat /\ \A y \in T : y <= i
    BY <1>4, OfFacts
  <2> QED
    BY <1>2, <2>1
<1> QED
  BY <1>1, <1>2, <1>3, <1>4

LEMMA PushLoop ==
  ASSUME NEW s \in Seq(Call), NEW f \in Call, NEW n \in Nat \ {0}
  PROVE  LoopAt(Append(s, f), n) =
           IF f.kind \notin Loops THEN LoopAt(s, n)
           ELSE IF n = 1 THEN Len(s) + 1 ELSE LoopAt(s, n - 1)
<1> DEFINE t == Append(s, f)
           L == Len(s) + 1
<1>1. /\ t \in Seq(Call) /\ Len(t) = L /\ Len(s) \in Nat
      /\ Of(t, Loops) = Of(s, Loops) \union IF f.kind \in Loops THEN {L} ELSE {}
      /\ \A i \in Of(s, Loops) : i \in Nat /\ i <= Len(s)
  BY PushOf, OfFacts
<1> HIDE DEF t
<1>2. CASE f.kind \notin Loops
  <2>1. Of(t, Loops) = Of(s, Loops)
    BY <1>1, <1>2
  <2> QED
    BY <1>2, <2>1 DEF LoopAt, Since, t
<1>3. CASE f.kind \in Loops
  <2>1. Of(t, Loops) = Of(s, Loops) \union {L} /\ L \notin Of(s, Loops) /\ L \in Nat
    BY <1>1, <1>3
  <2>2. Since(t, L) = {L}
    BY <1>1, <2>1 DEF Since
  <2>3. Cardinality(Since(t, L)) = 1
    BY <2>2, FS_Singleton
  <2>4. ASSUME NEW i \in Of(s, Loops)
        PROVE  /\ Cardinality(Since(t, i)) = Cardinality(Since(s, i)) + 1
               /\ Cardinality(Since(s, i)) \in Nat
    <3>1. Since(t, i) = Since(s, i) \union {L} /\ L \notin Since(s, i)
      BY <1>1, <2>1 DEF Since
    <3>2. IsFiniteSet(Since(s, i)) /\ Cardinality(Since(s, i)) \in Nat
      BY SinceFacts
    <3> QED
      BY <3>1, <3>2, FS_AddElement
  <2>5. CASE n = 1
    <3>1. LoopAt(t, n) = L
      BY <1>1, <2>1, <2>3, <2>5, LoopFacts
    <3> QED
      BY <1>3, <2>5, <3>1 DEF t
  <2>6. CASE n # 1
    <3>1. \A i : /\ i \in Of(t, Loops) /\ Cardinality(Since(t, i)) >= n
                 <=> i \in Of(s, Loops) /\ Cardinality(Since(s, i)) >= n - 1
      BY <2>1, <2>3, <2>4, <2>6
    <3>2. {i \in Of(t, Loops) : Cardinality(Since(t, i)) >= n}
            = {i \in Of(s, Loops) : Cardinality(Since(s, i)) >= n - 1}
      BY <3>1
    <3> QED
      BY <1>3, <2>6, <3>2 DEF LoopAt, t
  <2> QED
    BY <2>5, <2>6
<1> QED
  BY <1>2, <1>3

LEMMA FunctionFacts ==
  ASSUME NEW s \in Seq(Call)
  PROVE  /\ FunctionAt(s) \in Nat /\ FunctionAt(s) <= Len(s)
         /\ FunctionAt(s) # 0 => FunctionAt(s) \in Of(s, {"function"})
         /\ \A i \in Of(s, {"function"}) : i <= FunctionAt(s)
         /\ \A i \in Of(s, {"function"}) :
              (\A j \in Of(s, {"function"}) : j <= i) => FunctionAt(s) = i
<1> DEFINE T == {0} \union Of(s, {"function"})
<1>1. Len(s) \in Nat /\ T # {} /\ \A x \in T : x \in Nat /\ x <= Len(s)
  BY OfFacts
<1>2. /\ Max(T) \in T /\ \A y \in T : y <= Max(T)
      /\ \A x \in T : (\A y \in T : y <= x) => Max(T) = x
  <2> HIDE DEF T
  <2> QED
    BY <1>1, MaxFacts
<1>3. FunctionAt(s) = Max(T)
  BY DEF FunctionAt
<1>4. ASSUME NEW i \in Of(s, {"function"}), \A j \in Of(s, {"function"}) : j <= i
      PROVE  Max(T) = i
  <2>1. i \in T /\ i \in Nat /\ \A y \in T : y <= i
    BY <1>4, OfFacts
  <2> QED
    BY <1>2, <2>1
<1> QED
  BY <1>1, <1>2, <1>3, <1>4

LEMMA PushFunction ==
  ASSUME NEW s \in Seq(Call), NEW f \in Call
  PROVE  FunctionAt(Append(s, f)) = IF f.kind = "function" THEN Len(s) + 1 ELSE FunctionAt(s)
<1> DEFINE t == Append(s, f)
<1>1. /\ t \in Seq(Call) /\ Len(t) = Len(s) + 1 /\ Len(s) \in Nat
      /\ Of(t, {"function"}) = Of(s, {"function"})
           \union IF f.kind \in {"function"} THEN {Len(s) + 1} ELSE {}
      /\ \A i \in Of(s, {"function"}) : i \in Nat /\ i <= Len(s)
  BY PushOf, OfFacts
<1> HIDE DEF t
<1>2. CASE f.kind = "function"
  <2>1. Len(s) + 1 \in Of(t, {"function"}) /\ \A j \in Of(t, {"function"}) : j <= Len(s) + 1
    BY <1>1, <1>2
  <2> QED
    BY <1>1, <1>2, <2>1, FunctionFacts DEF t
<1>3. CASE f.kind # "function"
  <2>1. Of(t, {"function"}) = Of(s, {"function"})
    BY <1>1, <1>3
  <2> QED
    BY <1>3, <2>1 DEF FunctionAt, t
<1> QED
  BY <1>2, <1>3

-----------------------------------------------------------------------------
(* What a place in the evaluation says of the calls around it              *)

Passers == {"case", "redir", "semi", "and", "or", "if"}

Tests(f) == f.at = "first" /\ f.kind \in {"and", "or", "if", "while", "until"}

\* A call made from the n-th of s is the last thing a child does, or is tested.
ExitAt(s, n) == \E b \in 1 .. n : s[b].kind \in Forks /\ \A j \in b + 1 .. n : Passes(s[j])

TestedAt(s, n) ==
  \E b \in 1 .. n : Tests(s[b]) /\ \A j \in b + 1 .. n : Passes(s[j]) \/ s[j].kind = "subshell"

FrameFits(f, s, n) ==
  /\ f.kind = "for" => f.at = "second" /\ f.last = 0
  /\ f.kind \in Texts => f.at = "first"
  /\ f.kind \in Passers => (f.exit <=> ExitAt(s, n))
  /\ f.kind \in Passers \union {"subshell"} => (f.tested <=> TestedAt(s, n))

FramesFit(s) == \A i \in 1 .. Len(s) : FrameFits(s[i], s, i - 1)

\* While commands are skipped, what is to be left is there to be left.
SkipsFit ==
  /\ pc \in {"call", "back"} => evalskip = 0
  /\ evalskip \in {SKIPBREAK, SKIPCONT} => skipcount <= loopnest
  /\ evalskip = SKIPFUNC => funcnest > 0 /\ ~InTest

PlaceInv == EvalInv /\ FramesFit(stack) /\ SkipsFit

LEMMA AtSame ==
  ASSUME NEW s, NEW t, NEW n \in Nat, \A j \in 1 .. n : t[j] = s[j]
  PROVE  (ExitAt(t, n) <=> ExitAt(s, n)) /\ (TestedAt(t, n) <=> TestedAt(s, n))
BY DEF ExitAt, TestedAt

LEMMA AtTop ==
  ASSUME NEW s, NEW n \in Nat \ {0}
  PROVE  /\ ExitAt(s, n) <=> s[n].kind \in Forks \/ (Passes(s[n]) /\ ExitAt(s, n - 1))
         /\ TestedAt(s, n) <=>
              Tests(s[n]) \/ ((Passes(s[n]) \/ s[n].kind = "subshell") /\ TestedAt(s, n - 1))
<1> DEFINE K(j) == s[j].kind \in Forks
           P1(j) == Passes(s[j])
           T(j) == Tests(s[j])
           P2(j) == Passes(s[j]) \/ s[j].kind = "subshell"
<1>1. ExitAt(s, n) <=> \E b \in 1 .. n : K(b) /\ \A j \in b + 1 .. n : P1(j)
  BY DEF ExitAt
<1>2. ExitAt(s, n - 1) <=> \E b \in 1 .. n - 1 : K(b) /\ \A j \in b + 1 .. n - 1 : P1(j)
  BY DEF ExitAt
<1>3. TestedAt(s, n) <=> \E b \in 1 .. n : T(b) /\ \A j \in b + 1 .. n : P2(j)
  BY DEF TestedAt
<1>4. TestedAt(s, n - 1) <=> \E b \in 1 .. n - 1 : T(b) /\ \A j \in b + 1 .. n - 1 : P2(j)
  BY DEF TestedAt
<1> HIDE DEF K, P1, T, P2
<1>5. ExitAt(s, n) <=> K(n) \/ (P1(n) /\ ExitAt(s, n - 1))
  BY <1>1, <1>2
<1>6. TestedAt(s, n) <=> T(n) \/ (P2(n) /\ TestedAt(s, n - 1))
  BY <1>3, <1>4
<1> QED
  BY <1>5, <1>6 DEF K, P1, T, P2

\* The flags with which evaltree is called say where the call is made.
LEMMA EvFacts ==
  ASSUME stack \in Seq(Call), FramesFit(stack)
  PROVE  (EvExit <=> ExitAt(stack, Len(stack))) /\ (EvTested <=> TestedAt(stack, Len(stack)))
<1>1. CASE stack = <<>>
  <2>1. Len(stack) = 0
    BY <1>1, EmptySeq
  <2>2. ~ExitAt(stack, 0) /\ ~TestedAt(stack, 0)
    BY DEF ExitAt, TestedAt
  <2> QED
    BY <1>1, <2>1, <2>2 DEF EvExit, EvTested
<1>2. CASE stack # <<>>
  <2>1. PICK n \in Nat \ {0} : n = Len(stack)
    BY <1>2, EmptySeq
  <2>2. Top = stack[n] /\ FrameFits(Top, stack, n - 1)
    BY <2>1 DEF Top, FramesFit
  <2>3. Passes(Top) => Top.kind \in Passers
    BY DEF Passes, Passers
  <2>4. EvExit <=> Top.kind \in Forks \/ (Passes(Top) /\ ExitAt(stack, n - 1))
    BY <1>2, <2>2, <2>3 DEF EvExit, FrameFits
  <2>5. EvTested <=>
          Tests(Top) \/ ((Passes(Top) \/ Top.kind = "subshell") /\ TestedAt(stack, n - 1))
    BY <1>2, <2>2, <2>3 DEF EvTested, FrameFits, Tests
  <2> QED
    BY <2>1, <2>2, <2>4, <2>5, AtTop
<1> QED
  BY <1>1, <1>2

LEMMA PrefixFits ==
  ASSUME NEW s \in Seq(Call), NEW t \in Seq(Call), FramesFit(s), Len(t) <= Len(s),
         \A i \in 1 .. Len(t) : t[i] = s[i]
  PROVE  FramesFit(t)
<1>1. Len(s) \in Nat /\ Len(t) \in Nat
  BY OfFacts
<1>2. SUFFICES ASSUME NEW i \in 1 .. Len(t) PROVE FrameFits(t[i], t, i - 1)
  BY DEF FramesFit
<1>3. FrameFits(s[i], s, i - 1) /\ t[i] = s[i] /\ i - 1 \in Nat /\ \A j \in 1 .. i - 1 : t[j] = s[j]
  BY <1>1 DEF FramesFit
<1> QED
  BY <1>3, AtSame DEF FrameFits

LEMMA PushFits ==
  ASSUME NEW s \in Seq(Call), NEW f \in Call, FramesFit(s), FrameFits(f, s, Len(s))
  PROVE  FramesFit(Append(s, f))
<1> DEFINE t == Append(s, f)
<1>1. /\ t \in Seq(Call) /\ Len(t) = Len(s) + 1 /\ Len(s) \in Nat
      /\ \A i \in 1 .. Len(s) : t[i] = s[i]
      /\ t[Len(s) + 1] = f
  BY AppendProperties, OfFacts
<1> HIDE DEF t
<1>2. ASSUME NEW i \in 1 .. Len(t) PROVE FrameFits(t[i], t, i - 1)
  <2>1. /\ i - 1 \in Nat /\ \A j \in 1 .. i - 1 : t[j] = s[j]
        /\ i \in 1 .. Len(s) \/ i = Len(s) + 1
    BY <1>1
  <2>2. FrameFits(t[i], s, i - 1)
    BY <1>1, <2>1 DEF FramesFit
  <2> QED
    BY <2>1, <2>2, AtSame DEF FrameFits
<1> QED
  BY <1>2 DEF FramesFit, t

LEMMA BelowFits ==
  ASSUME stack \in Seq(Call), stack # <<>>, FramesFit(stack)
  PROVE  FramesFit(Below) /\ FrameFits(Top, Below, Len(Below))
<1>1. /\ Below \in Seq(Call) /\ Top \in Call /\ stack = Append(Below, Top)
      /\ Len(stack) = Len(Below) + 1 /\ Len(Below) \in Nat
  BY TopFacts
<1>2. (\A i \in 1 .. Len(Below) : stack[i] = Below[i]) /\ stack[Len(Below) + 1] = Top
  BY <1>1, AppendProperties
<1>3. FramesFit(Below)
  <2>1. Len(Below) <= Len(stack) /\ \A i \in 1 .. Len(Below) : Below[i] = stack[i]
    BY <1>1, <1>2
  <2> QED
    BY <1>1, <2>1, PrefixFits
<1>4. FrameFits(Top, stack, Len(Below))
  BY <1>1, <1>2 DEF FramesFit
<1> QED
  BY <1>1, <1>2, <1>3, <1>4, AtSame DEF FrameFits

LEMMA EnteredFits ==
  ASSUME NEW kind \in Kinds, stack \in Seq(Call), FramesFit(stack)
  PROVE  FrameFits(Entered(kind), stack, Len(stack))
<1>1. PICK e \in BOOLEAN, t \in BOOLEAN : e = EvExit /\ t = (EvTested /\ kind # "background")
  BY Flags, Zenon
<1>2. Entered(kind) = [kind |-> kind, at |-> IF kind = "for" THEN "second" ELSE "first",
                       last |-> 0, exit |-> e, tested |-> t]
  BY <1>1 DEF Entered
<1>3. (e <=> ExitAt(stack, Len(stack)))
      /\ (kind # "background" => (t <=> TestedAt(stack, Len(stack))))
  BY <1>1, EvFacts
<1>4. "background" \notin Passers \union {"subshell"} /\ "for" \notin Texts
  BY DEF Passers, Texts
<1>5. CASE kind = "background"
  BY <1>2, <1>3, <1>4, <1>5 DEF FrameFits, Passers
<1>6. CASE kind # "background"
  BY <1>2, <1>3, <1>4, <1>6 DEF FrameFits
<1> QED
  BY <1>5, <1>6

LEMMA ErrorCuts ==
  ASSUME EvalInv, error
  PROVE  /\ Catcher \in 1 .. Len(stack) /\ stack[Catcher].kind = "lc"
         /\ stack' = SubSeq(stack, 1, Catcher - 1)
         /\ stack' \in Seq(Call) /\ Len(stack') = Catcher - 1
         /\ \A i \in 1 .. Len(stack') : stack'[i] = stack[i]
<1> DEFINE T == {0} \union {i \in DOMAIN stack : stack[i].kind = "lc"}
<1>1. stack \in Seq(Call) /\ Len(stack) \in Nat /\ DOMAIN stack = 1 .. Len(stack)
  BY LenProperties DEF EvalInv, Counted, StackTyped
<1>2. Catcher # 0 /\ stack' = SubSeq(stack, 1, Catcher - 1)
  BY DEF error
<1>3. T # {} /\ \A x \in T : x \in Nat /\ x <= Len(stack)
  BY <1>1
<1>4. Max(T) \in T
  <2> HIDE DEF T
  <2> QED
    BY <1>1, <1>3, MaxFacts
<1>5. Catcher \in 1 .. Len(stack) /\ stack[Catcher].kind = "lc"
  BY <1>1, <1>2, <1>4 DEF Catcher
<1>6. stack' \in Seq(Call) /\ Len(stack') = Catcher - 1
      /\ \A i \in 1 .. Catcher - 1 : stack'[i] = stack[i]
  BY <1>1, <1>2, <1>5, CutFacts
<1> QED
  BY <1>2, <1>5, <1>6

\* What a step can do to the stack.
LEMMA StackStep ==
  ASSUME Allowed = {}, EvalInv, Next
  PROVE  \/ stack' = stack
         \/ \E kind \in Kinds : stack' = Append(stack, Entered(kind))
         \/ dotrap
         \/ stack # <<>> /\ stack' = Below
         \/ stack # <<>> /\ Top.kind \in Passers \ {"case", "redir"} /\ stack' = Append(Below, Second(Top))
         \/ /\ stack # <<>> /\ Top.kind \in {"while", "until"}
            /\ \E a \in {"first", "second"}, s \in EXIT_STATUS :
                 stack' = Append(Below, [Top EXCEPT !.at = a, !.last = s])
         \/ error
         \/ stack' = <<>>
<1>1. CASE \/ \E s \in EXIT_STATUS : evalcommand(s) \/ returncmd(s)
           \/ \E n \in 0 .. MaxSkip : breakcmd(SKIPBREAK, n) \/ breakcmd(SKIPCONT, n)
           \/ \E n \in 1 .. MaxSkip : evalbackcmd_break(SKIPBREAK, n) \/ evalbackcmd_break(SKIPCONT, n)
           \/ \E s \in EXIT_STATUS : evalbackcmd_return(s)
  BY <1>1 DEF evalcommand, Done, returncmd, breakcmd, evalbackcmd_break, evalbackcmd_return
<1>2. CASE setcmd \/ NotBegun \/ evaltree_NULL \/ exitshell \/ cmdloop \/ exitcmd
  BY <1>2 DEF setcmd, NotBegun, evaltree_NULL, exitshell, cmdloop, exitcmd
<1>3. CASE \E k \in Kinds : evaltree(k)
  BY <1>3 DEF evaltree, Evaluating
<1>4. CASE evalsubshell("subshell") \/ evalsubshell("background") \/ evalpipe
  BY <1>4 DEF evalsubshell, evalpipe, Forked, Evaluating, Done
<1>5. CASE evaltree_semi \/ evaltree_andor \/ evaltree_one \/ \E e \in BOOLEAN : evaltree_if(e)
  BY <1>5 DEF evaltree_semi, evaltree_andor, evaltree_one, evaltree_if, Returns, Continues, Ends, Passers
<1>6. CASE evalcommand_function \/ evalstring_end
  BY <1>6 DEF evalcommand_function, evalstring_end, Returns, Ends
<1>7. CASE evalstring_next
  <2>1. stack # <<>> /\ stack' = Append(Below, Top) /\ stack \in Seq(Call)
    BY <1>7 DEF evalstring_next, Returns, Continues, EvalInv, Counted, StackTyped
  <2> QED
    BY <2>1, TopFacts
<1>8. CASE evalloop
  <2>1. stack # <<>> /\ Top.kind \in {"while", "until"} /\ (Test \/ Body \/ EndLoop)
    BY <1>8 DEF evalloop, Returns, Skip
  <2>2. Top \in Call /\ exitstatus \in EXIT_STATUS
    BY <2>1, TopFacts DEF EvalInv, Others, Counted, StackTyped
  <2>3. Status \in EXIT_STATUS /\ Top.last \in EXIT_STATUS
    BY <2>2 DEF Status, Call
  <2>4. Second(Top) = [Top EXCEPT !.at = "second", !.last = Top.last]
    BY <2>2 DEF Second, Call
  <2> QED
    BY <2>1, <2>3, <2>4 DEF Test, Body, EndLoop
<1>9. CASE \E e \in BOOLEAN : evalfor(e)
  <2>1. stack # <<>> /\ (Word \/ EndFor)
    BY <1>9 DEF evalfor, Returns, Skip
  <2> QED
    BY <2>1 DEF Word, EndFor
<1>10. CASE onint
  BY <1>10 DEF onint
<1> QED
  BY <1>1, <1>2, <1>3, <1>4, <1>5, <1>6, <1>7, <1>8, <1>9, <1>10 DEF Next

LEMMA FramesStep ==
  ASSUME Allowed = {}, PlaceInv, Next
  PROVE  FramesFit(stack')
<1>0. stack \in Seq(Call) /\ FramesFit(stack) /\ EvalInv /\ exitstatus \in EXIT_STATUS
  BY DEF PlaceInv, EvalInv, Others, Counted, StackTyped
<1>1. CASE stack' = stack
  BY <1>0, <1>1
<1>2. ASSUME NEW kind \in Kinds, stack' = Append(stack, Entered(kind)) PROVE FramesFit(stack')
  BY <1>0, <1>2, EnteredFacts, EnteredFits, PushFits
<1>3. CASE dotrap
  <2> DEFINE f == [kind |-> "trap", at |-> "first", last |-> exitstatus,
                   exit |-> FALSE, tested |-> FALSE]
  <2>1. "trap" \in Kinds /\ stack' = Append(stack, f)
    BY <1>3 DEF dotrap
  <2>2. f \in Call
    BY <1>0, <2>1, Zenon DEF Call
  <2>3. FrameFits(f, stack, Len(stack))
    BY DEF FrameFits, Passers
  <2> HIDE DEF f
  <2> QED
    BY <1>0, <2>1, <2>2, <2>3, PushFits
<1>4. CASE stack # <<>> /\ stack' = Below
  BY <1>0, <1>4, BelowFits
<1>5. ASSUME stack # <<>>, Top.kind \in {"semi", "and", "or", "if", "while", "until"},
             NEW a \in {"first", "second"}, NEW s \in EXIT_STATUS,
             stack' = Append(Below, [Top EXCEPT !.at = a, !.last = s])
      PROVE  FramesFit(stack')
  <2> DEFINE f == [Top EXCEPT !.at = a, !.last = s]
  <2>1. Below \in Seq(Call) /\ Top \in Call /\ FramesFit(Below) /\ FrameFits(Top, Below, Len(Below))
    BY <1>0, <1>5, TopFacts, BelowFits
  <2>2. f \in Call /\ f.kind = Top.kind /\ f.exit = Top.exit /\ f.tested = Top.tested
    BY <2>1 DEF Call
  <2>3. FrameFits(f, Below, Len(Below))
    BY <1>5, <2>1, <2>2 DEF FrameFits, Texts
  <2> HIDE DEF f
  <2> QED
    BY <1>5, <2>1, <2>2, <2>3, PushFits DEF f
<1>6. CASE /\ stack # <<>> /\ Top.kind \in Passers \ {"case", "redir"}
           /\ stack' = Append(Below, Second(Top))
  <2>1. Top \in Call /\ Top.last \in EXIT_STATUS
    BY <1>0, <1>6, TopFacts DEF Call
  <2>2. Second(Top) = [Top EXCEPT !.at = "second", !.last = Top.last]
    BY <2>1 DEF Second, Call
  <2> QED
    BY <1>5, <1>6, <2>1, <2>2 DEF Passers
<1>7. CASE error
  <2>1. Catcher \in 1 .. Len(stack) /\ stack' \in Seq(Call) /\ Len(stack') = Catcher - 1
        /\ \A i \in 1 .. Len(stack') : stack'[i] = stack[i]
    BY <1>0, <1>7, ErrorCuts
  <2>2. Len(stack') <= Len(stack)
    BY <1>0, <2>1, OfFacts
  <2> QED
    BY <1>0, <2>1, <2>2, PrefixFits
<1>8. CASE stack' = <<>>
  <2>1. Len(stack') = 0
    BY <1>8, EmptySeq
  <2> QED
    BY <2>1 DEF FramesFit
<1> QED
  BY <1>0, <1>1, <1>2, <1>3, <1>4, <1>5, <1>6, <1>7, <1>8, StackStep

\* Without a call there is nothing to leave.
LEMMA EmptySkips ==
  ASSUME EvalInv, SkipsFit, stack = <<>>
  PROVE  evalskip = 0
<1>1. Len(stack) = 0 /\ stack \in Seq(Call)
  BY EmptySeq DEF EvalInv, Counted, StackTyped
<1>2. loopnest = 0 /\ funcnest = 0
  BY <1>1, Numbers DEF EvalInv
<1>3. Skips(evalskip, skipcount)
  BY DEF EvalInv, Others
<1> QED
  BY <1>2, <1>3, EvalAssumption DEF SkipsFit, Skips

\* The functions return one by one while evalskip is set.
LEMMA PopSkips ==
  ASSUME EvalInv, SkipsFit, stack # <<>>, evalskip # 0, stack' = Below, pc' = "out",
         UNCHANGED evalskip, evalskip = SKIPFUNC => Top.kind # "function",
         funcnest' = IF Top.kind = "function" THEN funcnest - 1 ELSE funcnest,
         \/ UNCHANGED <<skipcount, loopnest>>
         \/ skipcount' = skipcount - 1 /\ loopnest' = loopnest - 1
         \/ evalskip = SKIPFUNC
  PROVE  SkipsFit'
<1>1. /\ stack \in Seq(Call) /\ Below \in Seq(Call) /\ Top \in Call /\ stack = Append(Below, Top)
      /\ Len(stack) = Len(Below) + 1 /\ Len(Below) \in Nat
  BY TopFacts DEF EvalInv, Counted, StackTyped
<1>2. /\ DOMAIN stack = 1 .. Len(Below) + 1 /\ DOMAIN Below = 1 .. Len(Below)
      /\ \A i \in 1 .. Len(Below) : stack[i] = Below[i]
      /\ stack[Len(Below) + 1] = Top
  BY <1>1, OfFacts, AppendProperties
<1>3. Skips(evalskip, skipcount) /\ loopnest \in Nat /\ MaxDepth \in Nat
  BY Numbers DEF EvalInv, Others
<1>4. evalskip \in {SKIPBREAK, SKIPCONT} => skipcount' <= loopnest'
  BY <1>3 DEF SkipsFit, Skips, SKIPBREAK, SKIPCONT, SKIPFUNC
<1>5. ASSUME evalskip = SKIPFUNC PROVE funcnest' > 0 /\ ~InTest'
  <2>1. funcnest > 0 /\ funcnest' = funcnest /\ Top.kind # "function" /\ ~InTest
    BY <1>5 DEF SkipsFit
  <2>2. ASSUME NEW i \in 1 .. Len(Below), Below[i].kind \in {"while", "until"},
               Below[i].at = "first",
               \A j \in i + 1 .. Len(Below) : Below[j].kind # "function"
        PROVE  FALSE
    <3>1. i \in DOMAIN stack /\ stack[i].kind \in {"while", "until"} /\ stack[i].at = "first"
      BY <1>1, <1>2, <2>2
    <3>2. \A j \in i + 1 .. Len(stack) : stack[j].kind # "function"
      BY <1>1, <1>2, <2>1, <2>2
    <3> QED
      BY <2>1, <3>1, <3>2 DEF InTest
  <2>3. ~InTest'
    BY <1>2, <2>2 DEF InTest
  <2> QED
    BY <2>1, <2>3
<1> QED
  BY <1>4, <1>5 DEF SkipsFit

LEMMA SkipsStep ==
  ASSUME Allowed = {}, PlaceInv, Next
  PROVE  SkipsFit'
<1>0. /\ EvalInv /\ SkipsFit /\ Skips(evalskip, skipcount) /\ stack \in Seq(Call)
      /\ loopnest \in Nat /\ funcnest \in Nat
  BY Numbers DEF PlaceInv, EvalInv, Others, Counted, StackTyped
<1>z. ASSUME evalskip' = 0 PROVE SkipsFit'
  BY <1>z DEF SkipsFit, SKIPBREAK, SKIPCONT, SKIPFUNC
<1>s. ASSUME UNCHANGED <<skips, nests, stack>>, pc' \notin {"call", "back"} PROVE SkipsFit'
  BY <1>0, <1>s DEF SkipsFit, InTest, skips, nests
<1>1. CASE \E s \in EXIT_STATUS : evalcommand(s)
  BY <1>0, <1>1, <1>z DEF evalcommand, Evaluates, Done, SkipsFit, skips
<1>2. ASSUME NEW s \in EXIT_STATUS, returncmd(s) PROVE SkipsFit'
  <2>1. evalskip = 0
    BY <1>0, <1>2 DEF returncmd, Evaluates, SkipsFit
  <2>2. CASE funcnest > 0
    <3>1. ~InTest /\ evalskip' = SKIPFUNC /\ UNCHANGED <<nests, stack>> /\ pc' = "out"
      BY <1>2, <2>2 DEF returncmd, Skipping
    <3>2. ~InTest' /\ funcnest' > 0
      BY <2>2, <3>1 DEF InTest, nests
    <3> QED
      BY <3>1, <3>2 DEF SkipsFit, SKIPBREAK, SKIPCONT, SKIPFUNC
  <2>3. CASE ~(funcnest > 0)
    BY <1>2, <1>z, <2>1, <2>3 DEF returncmd, skips
  <2> QED
    BY <2>2, <2>3
<1>3. ASSUME NEW n \in 0 .. MaxSkip, NEW k \in {SKIPBREAK, SKIPCONT}, breakcmd(k, n)
      PROVE  SkipsFit'
  <2>1. evalskip = 0
    BY <1>0, <1>3 DEF breakcmd, Evaluates, SkipsFit
  <2>2. CASE Clamped(n) > 0
    <3>1. evalskip' = k /\ skipcount' = Clamped(n) /\ UNCHANGED nests /\ pc' = "out"
      BY <1>3, <2>2 DEF breakcmd, Skipping
    <3>2. Clamped(n) <= loopnest
      BY <1>0, EvalAssumption, MinOfTwo DEF Clamped
    <3> QED
      BY <3>1, <3>2 DEF SkipsFit, SKIPBREAK, SKIPCONT, SKIPFUNC, nests
  <2>3. CASE ~(Clamped(n) > 0)
    BY <1>3, <1>z, <2>1, <2>3 DEF breakcmd, skips
  <2> QED
    BY <2>2, <2>3
<1>4. ASSUME NEW n \in 1 .. MaxSkip, NEW k \in {SKIPBREAK, SKIPCONT}, evalbackcmd_break(k, n)
      PROVE  SkipsFit'
  <2>1. evalskip' = k /\ skipcount' = Clamped(n) /\ UNCHANGED nests /\ pc' = "expanded"
    BY <1>4 DEF evalbackcmd_break, Skipping
  <2>2. Clamped(n) <= loopnest
    BY <1>0, EvalAssumption, MinOfTwo DEF Clamped
  <2> QED
    BY <2>1, <2>2 DEF SkipsFit, SKIPBREAK, SKIPCONT, SKIPFUNC, nests
<1>r. ASSUME NEW s \in EXIT_STATUS, evalbackcmd_return(s) PROVE SkipsFit'
  <2>1. /\ funcnest > 0 /\ ~InTest /\ evalskip' = SKIPFUNC
        /\ UNCHANGED <<nests, stack>> /\ pc' = "expanded"
    BY <1>r DEF evalbackcmd_return, Skipping
  <2>2. ~InTest' /\ funcnest' > 0
    BY <2>1 DEF InTest, nests
  <2> QED
    BY <2>1, <2>2 DEF SkipsFit, SKIPBREAK, SKIPCONT, SKIPFUNC
<1>5. CASE setcmd \/ evaltree_NULL \/ (\E k \in Kinds : evaltree(k))
           \/ evalsubshell("subshell") \/ evalsubshell("background") \/ evalpipe
  <2>1. pc = "call" /\ UNCHANGED skips
    BY <1>5 DEF setcmd, evaltree_NULL, evaltree, evalsubshell, evalpipe, Evaluates, Forked, Done
  <2> QED
    BY <1>0, <1>z, <2>1 DEF SkipsFit, skips
<1>6. CASE NotBegun \/ exitshell \/ exitcmd
  BY <1>6, <1>s DEF NotBegun, exitshell, exitcmd
<1>7. CASE cmdloop
  BY <1>0, <1>7, <1>z, EmptySkips DEF cmdloop, skips
<1>8. CASE dotrap
  BY <1>8, <1>z DEF dotrap, skips
<1>9. CASE onint
  BY <1>9, <1>z DEF onint, reset
<1>10. CASE error
  BY <1>0, <1>10, <1>z DEF error, Evaluates, SkipsFit, skips
<1>11. CASE evaltree_semi \/ evaltree_andor \/ evaltree_one \/ \E e \in BOOLEAN : evaltree_if(e)
  <2>1. /\ stack # <<>> /\ Top.kind # "function"
        /\ \/ UNCHANGED skips /\ evalskip = 0
           \/ stack' = Below /\ pc' = "out" /\ UNCHANGED <<skips, nests>>
    BY <1>11 DEF evaltree_semi, evaltree_andor, evaltree_one, evaltree_if, Returns, Continues, Ends
  <2>2. CASE evalskip = 0
    BY <1>z, <2>1, <2>2 DEF skips
  <2>3. CASE evalskip # 0
    BY <1>0, <2>1, <2>3, PopSkips DEF skips, nests
  <2> QED
    BY <2>2, <2>3
<1>12. CASE evalcommand_function
  <2>1. /\ stack # <<>> /\ Top.kind = "function" /\ stack' = Below /\ pc' = "out"
        /\ funcnest' = funcnest - 1 /\ UNCHANGED loopnest
        /\ IF evalskip = SKIPFUNC THEN Skipping(0, 0) ELSE UNCHANGED skips
    BY <1>12 DEF evalcommand_function, Returns, Ends
  <2>2. CASE evalskip = SKIPFUNC
    BY <1>z, <2>1, <2>2 DEF Skipping
  <2>3. CASE evalskip = 0
    BY <1>z, <2>1, <2>3 DEF skips, SKIPFUNC
  <2>4. CASE evalskip # 0 /\ evalskip # SKIPFUNC
    BY <1>0, <2>1, <2>4, PopSkips DEF skips
  <2> QED
    BY <2>2, <2>3, <2>4
<1>13. CASE evalstring_next
  BY <1>13, <1>z DEF evalstring_next, Continues, skips
<1>14. CASE evalstring_end
  <2>1. /\ stack # <<>> /\ Top.kind # "function" /\ stack' = Below /\ pc' = "out"
        /\ UNCHANGED <<skips, nests>>
    BY <1>14 DEF evalstring_end, Returns, Ends, Texts
  <2>2. CASE evalskip = 0
    BY <1>z, <2>1, <2>2 DEF skips
  <2>3. CASE evalskip # 0
    BY <1>0, <2>1, <2>3, PopSkips DEF skips, nests
  <2> QED
    BY <2>2, <2>3
<1>15. CASE evalloop \/ \E e \in BOOLEAN : evalfor(e)
  <2>1. /\ stack # <<>> /\ Top.kind # "function" /\ UNCHANGED funcnest
        /\ \/ evalskip = 0 /\ UNCHANGED skips
           \/ /\ evalskip # 0
              /\ skipcount' = IF evalskip = SKIPFUNC THEN skipcount ELSE skipcount - 1
              /\ evalskip' = IF evalskip # SKIPFUNC /\ Mine THEN 0 ELSE evalskip
              /\ ~(evalskip = SKIPCONT /\ Mine) => EndLoop \/ EndFor
    BY <1>15 DEF evalloop, evalfor, Returns, Skip
  <2>2. CASE evalskip' = 0
    BY <1>z, <2>2
  <2>3. CASE evalskip' # 0
    <3>1. evalskip # 0 /\ evalskip' = evalskip /\ (evalskip = SKIPFUNC \/ ~Mine)
      BY <2>1, <2>3 DEF skips
    <3>2. stack' = Below /\ pc' = "out" /\ loopnest' = loopnest - 1
      BY <2>1, <3>1 DEF EndLoop, EndFor, SKIPCONT, SKIPFUNC
    <3> QED
      BY <1>0, <2>1, <3>1, <3>2, PopSkips
  <2> QED
    BY <2>2, <2>3
<1> QED
  BY <1>1, <1>2, <1>3, <1>4, <1>r, <1>5, <1>6, <1>7, <1>8, <1>9, <1>10, <1>11, <1>12, <1>13, <1>14,
     <1>15 DEF Next

LEMMA StepPlace ==
  ASSUME Allowed = {}, PlaceInv, [Next]_vars
  PROVE  PlaceInv'
<1>1. EvalInv'
  BY StepInv DEF PlaceInv
<1>2. CASE Next
  BY <1>1, <1>2, FramesStep, SkipsStep DEF PlaceInv
<1>3. CASE UNCHANGED vars
  <2>1. FramesFit(stack')
    BY <1>3 DEF vars, PlaceInv
  <2>2. SkipsFit'
    BY <1>3 DEF vars, skips, nests, PlaceInv, SkipsFit, InTest
  <2> QED
    BY <1>1, <2>1, <2>2 DEF PlaceInv
<1> QED
  BY <1>2, <1>3

LEMMA PlaceStarts ==
  ASSUME Init
  PROVE  PlaceInv
<1>1. Len(stack) = 0
  BY EmptySeq DEF Init
<1>2. FramesFit(stack)
  BY <1>1 DEF FramesFit
<1>3. SkipsFit
  BY DEF Init, SkipsFit, SKIPBREAK, SKIPCONT, SKIPFUNC
<1> QED
  BY <1>2, <1>3, Starts DEF PlaceInv

LEMMA PlaceInvariance ==
  ASSUME Allowed = {}
  PROVE  Spec => []PlaceInv
<1>1. Init => PlaceInv
  BY PlaceStarts
<1>2. PlaceInv /\ [Next]_vars => PlaceInv'
  BY StepPlace
<1> QED
  BY <1>1, <1>2, PTL DEF Spec

-----------------------------------------------------------------------------
(* What the evaluation is to Control                                       *)

Con(f) == [kind |-> f.kind, at |-> f.at, last |-> f.last]

PlainOf(s) == [i \in DOMAIN s |-> Con(s[i])]

LEMMA ConFacts ==
  ASSUME NEW f \in Call
  PROVE  /\ Con(f) \in C!Construct
         /\ Con(f).kind = f.kind /\ Con(f).at = f.at /\ Con(f).last = f.last
BY DEF Con, Call, C!Construct

LEMMA PlainFacts ==
  ASSUME NEW s \in Seq(Call)
  PROVE  /\ PlainOf(s) \in Seq(C!Construct) /\ Len(PlainOf(s)) = Len(s)
         /\ DOMAIN PlainOf(s) = 1 .. Len(s) /\ Len(s) \in Nat
         /\ \A i \in 1 .. Len(s) : PlainOf(s)[i] = Con(s[i])
<1>1. Len(s) \in Nat /\ DOMAIN s = 1 .. Len(s) /\ \A i \in 1 .. Len(s) : s[i] \in Call
  BY LenProperties, ElementOfSeq
<1>2. /\ DOMAIN PlainOf(s) = 1 .. Len(s)
      /\ \A i \in 1 .. Len(s) : PlainOf(s)[i] = Con(s[i]) /\ Con(s[i]) \in C!Construct
  BY <1>1, ConFacts DEF PlainOf
<1>3. PlainOf(s) \in [1 .. Len(s) -> C!Construct]
  BY <1>1, <1>2 DEF PlainOf
<1>4. PlainOf(s) \in Seq(C!Construct)
  BY <1>1, <1>3, SeqDef
<1>5. Len(PlainOf(s)) = Len(s)
  BY <1>1, <1>2, <1>4, LenProperties
<1> QED
  BY <1>1, <1>2, <1>4, <1>5

\* It has the loops, functions and children of the calls.
LEMMA PlainHas ==
  ASSUME NEW s \in Seq(Call), NEW n
  PROVE  /\ \A kinds : Of(PlainOf(s), kinds) = Of(s, kinds)
         /\ Base(PlainOf(s)) = Base(s) /\ LoopAt(PlainOf(s), n) = LoopAt(s, n)
         /\ FunctionAt(PlainOf(s)) = FunctionAt(s)
<1>1. ASSUME NEW kinds PROVE Of(PlainOf(s), kinds) = Of(s, kinds)
  <2>1. DOMAIN s = 1 .. Len(s) /\ \A i \in 1 .. Len(s) : PlainOf(s)[i].kind = s[i].kind
    BY PlainFacts, OfFacts, ElementOfSeq, ConFacts
  <2> QED
    BY <2>1, PlainFacts DEF Of
<1>2. Of(PlainOf(s), Forks) = Of(s, Forks) /\ Of(PlainOf(s), Loops) = Of(s, Loops)
      /\ Of(PlainOf(s), {"function"}) = Of(s, {"function"})
  BY <1>1
<1>3. Base(PlainOf(s)) = Base(s)
  BY <1>2 DEF Base
<1>4. FunctionAt(PlainOf(s)) = FunctionAt(s)
  BY <1>2 DEF FunctionAt
<1>5. \A i : Since(PlainOf(s), i) = Since(s, i)
  BY <1>2 DEF Since
<1>6. LoopAt(PlainOf(s), n) = LoopAt(s, n)
  <2>1. ASSUME NEW i PROVE Cardinality(Since(PlainOf(s), i)) >= n <=> Cardinality(Since(s, i)) >= n
    BY <1>5
  <2>2. {i \in Of(s, Loops) : Cardinality(Since(PlainOf(s), i)) >= n}
          = {i \in Of(s, Loops) : Cardinality(Since(s, i)) >= n}
    BY <2>1
  <2> QED
    BY <1>2, <2>2 DEF LoopAt
<1> QED
  BY <1>1, <1>3, <1>4, <1>6

LEMMA PlainPush ==
  ASSUME NEW s \in Seq(Call), NEW f \in Call
  PROVE  PlainOf(Append(s, f)) = Append(PlainOf(s), Con(f))
<1> DEFINE t == Append(s, f)
           u == Append(PlainOf(s), Con(f))
<1>1. /\ t \in Seq(Call) /\ Len(t) = Len(s) + 1 /\ Len(s) \in Nat
      /\ \A i \in 1 .. Len(s) : t[i] = s[i]
      /\ t[Len(s) + 1] = f
  BY AppendProperties, OfFacts
<1>2. PlainOf(s) \in Seq(C!Construct) /\ Con(f) \in C!Construct /\ Len(PlainOf(s)) = Len(s)
      /\ \A i \in 1 .. Len(s) : PlainOf(s)[i] = Con(s[i])
  BY PlainFacts, ConFacts
<1>3. /\ u \in Seq(C!Construct) /\ Len(u) = Len(s) + 1
      /\ \A i \in 1 .. Len(s) : u[i] = Con(s[i])
      /\ u[Len(s) + 1] = Con(f)
  BY <1>2, AppendProperties
<1> HIDE DEF t, u
<1>4. PlainOf(t) \in Seq(C!Construct) /\ Len(PlainOf(t)) = Len(s) + 1
      /\ \A i \in 1 .. Len(s) + 1 : PlainOf(t)[i] = Con(t[i])
  BY <1>1, PlainFacts
<1>5. \A i \in 1 .. Len(s) + 1 : PlainOf(t)[i] = u[i]
  BY <1>1, <1>3, <1>4
<1>6. PlainOf(t) = u
  BY <1>3, <1>4, <1>5, SeqEqual
<1> QED
  BY <1>6 DEF t, u

\* The first k elements.
LEMMA FirstFacts ==
  ASSUME NEW S, NEW s \in Seq(S), NEW k \in 0 .. Len(s)
  PROVE  LET cut == SubSeq(s, 1, k)
         IN  /\ cut \in Seq(S) /\ Len(cut) = k /\ DOMAIN cut = 1 .. k
             /\ \A i \in 1 .. k : cut[i] = s[i]
<1>1. Len(s) \in Nat /\ k \in Nat
  BY LenProperties
<1>2. \A i \in 1 .. k : s[i] \in S
  BY <1>1, ElementOfSeq
<1>3. /\ SubSeq(s, 1, k) \in Seq(S)
      /\ Len(SubSeq(s, 1, k)) = IF 1 <= k THEN k - 1 + 1 ELSE 0
      /\ \A i \in 1 .. k - 1 + 1 : SubSeq(s, 1, k)[i] = s[1 + i - 1]
  BY <1>1, <1>2, SubSeqProperties
<1>4. Len(SubSeq(s, 1, k)) = k
  BY <1>1, <1>3
<1>5. \A i \in 1 .. k : SubSeq(s, 1, k)[i] = s[i]
  BY <1>1, <1>3
<1>6. DOMAIN SubSeq(s, 1, k) = 1 .. k
  BY <1>3, <1>4, LenProperties
<1> QED
  BY <1>3, <1>4, <1>5, <1>6

LEMMA PlainCut ==
  ASSUME NEW s \in Seq(Call), NEW k \in 0 .. Len(s)
  PROVE  PlainOf(SubSeq(s, 1, k)) = SubSeq(PlainOf(s), 1, k)
<1> DEFINE t == SubSeq(s, 1, k)
           u == SubSeq(PlainOf(s), 1, k)
<1>0. Len(s) \in Nat /\ k \in Nat /\ PlainOf(s) \in Seq(C!Construct) /\ Len(PlainOf(s)) = Len(s)
      /\ \A i \in 1 .. Len(s) : PlainOf(s)[i] = Con(s[i])
  BY PlainFacts
<1>1. t \in Seq(Call) /\ Len(t) = k /\ \A i \in 1 .. k : t[i] = s[i]
  BY FirstFacts
<1>2. u \in Seq(C!Construct) /\ Len(u) = k /\ \A i \in 1 .. k : u[i] = PlainOf(s)[i]
  BY <1>0, FirstFacts
<1> HIDE DEF t, u
<1>3. PlainOf(t) \in Seq(C!Construct) /\ Len(PlainOf(t)) = k
      /\ \A i \in 1 .. k : PlainOf(t)[i] = Con(t[i])
  BY <1>1, PlainFacts
<1>4. \A i \in 1 .. k : PlainOf(t)[i] = u[i]
  <2>1. ASSUME NEW i \in 1 .. k PROVE PlainOf(t)[i] = u[i]
    <3>1. i \in 1 .. Len(s)
      BY <1>0
    <3> QED
      BY <1>0, <1>1, <1>2, <1>3, <3>1
  <2> QED
    BY <2>1
<1>5. PlainOf(t) = u
  BY <1>2, <1>3, <1>4, SeqEqual
<1> QED
  BY <1>5 DEF t, u

\* Cutting what has been pushed, and cutting twice.
LEMMA CutPush ==
  ASSUME NEW S, NEW s \in Seq(S), NEW f \in S
  PROVE  /\ SubSeq(Append(s, f), 1, Len(s)) = s
         /\ \A k \in 0 .. Len(s) : SubSeq(Append(s, f), 1, k) = SubSeq(s, 1, k)
<1> DEFINE t == Append(s, f)
<1>1. /\ t \in Seq(S) /\ Len(t) = Len(s) + 1 /\ Len(s) \in Nat
      /\ \A i \in 1 .. Len(s) : t[i] = s[i]
  BY AppendProperties, LenProperties
<1> HIDE DEF t
<1>2. ASSUME NEW k \in 0 .. Len(s) PROVE SubSeq(t, 1, k) = SubSeq(s, 1, k)
  <2>1. k \in 0 .. Len(t) /\ k \in Nat
    BY <1>1
  <2>2. SubSeq(t, 1, k) \in Seq(S) /\ Len(SubSeq(t, 1, k)) = k
        /\ \A i \in 1 .. k : SubSeq(t, 1, k)[i] = t[i]
    BY <1>1, <2>1, FirstFacts
  <2>3. SubSeq(s, 1, k) \in Seq(S) /\ Len(SubSeq(s, 1, k)) = k
        /\ \A i \in 1 .. k : SubSeq(s, 1, k)[i] = s[i]
    BY FirstFacts
  <2>4. \A i \in 1 .. k : SubSeq(t, 1, k)[i] = SubSeq(s, 1, k)[i]
    BY <1>1, <2>1, <2>2, <2>3
  <2> QED
    BY <2>2, <2>3, <2>4, SeqEqual
<1>3. SubSeq(s, 1, Len(s)) = s
  <2>1. Len(s) \in 0 .. Len(s)
    BY <1>1
  <2>2. SubSeq(s, 1, Len(s)) \in Seq(S) /\ Len(SubSeq(s, 1, Len(s))) = Len(s)
        /\ \A i \in 1 .. Len(s) : SubSeq(s, 1, Len(s))[i] = s[i]
    BY <2>1, FirstFacts
  <2> QED
    BY <2>2, SeqEqual
<1>4. Len(s) \in 0 .. Len(s)
  BY <1>1
<1> QED
  BY <1>2, <1>3, <1>4 DEF t

LEMMA MaxOfTwo ==
  ASSUME NEW a \in Int, NEW b \in Nat
  PROVE  C!Max({a, b}) = IF a > b THEN a ELSE b
<1>1. CASE a > b
  <2>1. a \in Nat /\ {a, b} # {} /\ \A x \in {a, b} : x \in Nat /\ x <= a
    BY <1>1
  <2>2. Max({a, b}) = a
    BY <2>1, MaxFacts
  <2> QED
    BY <1>1, <2>2 DEF C!Max, Max
<1>2. CASE ~(a > b)
  <2>1. PICK x \in {a, b} : \A y \in {a, b} : x >= y
    BY <1>2
  <2>2. C!Max({a, b}) \in {a, b} /\ \A y \in {a, b} : C!Max({a, b}) >= y
    BY <2>1 DEF C!Max
  <2> QED
    BY <1>2, <2>2
<1> QED
  BY <1>1, <1>2

\* What is left to do of s when break and the like have left what they are to
\* leave: its first part, and for continue the loop that goes on.
LeftAt(s, n) == IF LoopAt(s, n) - 1 > Base(s) THEN LoopAt(s, n) - 1 ELSE Base(s)

ReturnAt(s) == IF FunctionAt(s) - 1 > Base(s) THEN FunctionAt(s) - 1 ELSE Base(s)

Going(s, n) == LoopAt(s, n) > Base(s)

Again(f) == [kind |-> f.kind, at |-> "second", last |-> 0]

First(s, k) == PlainOf(SubSeq(s, 1, k))

Rest(skip, n, s) ==
  IF skip = 0 THEN PlainOf(s)
  ELSE IF skip = SKIPFUNC THEN First(s, ReturnAt(s))
  ELSE IF skip = SKIPCONT /\ Going(s, n)
       THEN Append(First(s, LoopAt(s, n) - 1), Again(s[LoopAt(s, n)]))
       ELSE First(s, LeftAt(s, n))

PhaseOf(skip, n, s, place) ==
  IF place = "exited" THEN "exited"
  ELSE IF skip = 0 THEN IF place = "back" THEN "out" ELSE place
  ELSE IF skip = SKIPFUNC THEN "returned"
  ELSE IF skip = SKIPCONT /\ Going(s, n) THEN "continuing" ELSE "left"

Told(skip, status) == IF skip \in {SKIPBREAK, SKIPCONT} THEN 0 ELSE status

LEMMA LeftFacts ==
  ASSUME NEW s \in Seq(Call), NEW n
  PROVE  /\ LeftAt(s, n) \in 0 .. Len(s) /\ ReturnAt(s) \in 0 .. Len(s)
         /\ Going(s, n) => LoopAt(s, n) - 1 \in 0 .. Len(s) /\ LoopAt(s, n) \in 1 .. Len(s)
BY LoopFacts, FunctionFacts, BaseFacts, OfFacts DEF LeftAt, ReturnAt, Going

\* Control's words for them, about the constructs of s.
LEMMA RestFacts ==
  ASSUME NEW s \in Seq(Call), NEW n
  PROVE  LET p == PlainOf(s)
         IN  /\ C!Left(p, n) = First(s, LeftAt(s, n))
             /\ C!Returned(p) = First(s, ReturnAt(s))
             /\ C!Stays(p, n) <=> Going(s, n)
             /\ C!Continued(p, n) = IF Going(s, n)
                                    THEN Append(First(s, LoopAt(s, n) - 1), Again(s[LoopAt(s, n)]))
                                    ELSE First(s, Base(s))
<1> DEFINE p == PlainOf(s)
<1>1. /\ C!Base(p) = Base(s) /\ C!Loop(p, n) = LoopAt(s, n) /\ C!Function(p) = FunctionAt(s)
  BY SameOperators, PlainHas
<1>2. LoopAt(s, n) \in Nat /\ FunctionAt(s) \in Nat /\ Base(s) \in Nat /\ Base(s) <= Len(s)
      /\ Len(s) \in Nat
  BY LoopFacts, FunctionFacts, BaseFacts, OfFacts
<1>3. C!Max({LoopAt(s, n) - 1, Base(s)}) = LeftAt(s, n)
  BY <1>2, MaxOfTwo DEF LeftAt
<1>4. C!Max({FunctionAt(s) - 1, Base(s)}) = ReturnAt(s)
  BY <1>2, MaxOfTwo DEF ReturnAt
<1>5. \A k \in 0 .. Len(s) : SubSeq(p, 1, k) = First(s, k)
  BY PlainCut DEF First
<1>6. Going(s, n) => p[LoopAt(s, n)].kind = s[LoopAt(s, n)].kind
  <2>1. SUFFICES ASSUME Going(s, n) PROVE p[LoopAt(s, n)].kind = s[LoopAt(s, n)].kind
    OBVIOUS
  <2>2. LoopAt(s, n) \in 1 .. Len(s)
    BY <2>1, LeftFacts
  <2> QED
    BY <2>2, PlainFacts, ElementOfSeq, ConFacts
<1> HIDE DEF p
<1>7. C!Left(p, n) = First(s, LeftAt(s, n))
  BY <1>1, <1>3, <1>5, LeftFacts DEF C!Left
<1>8. C!Returned(p) = First(s, ReturnAt(s))
  BY <1>1, <1>4, <1>5, LeftFacts DEF C!Returned
<1>9. C!Stays(p, n) <=> Going(s, n)
  BY <1>1 DEF C!Stays, Going
<1>10. C!Continued(p, n) = IF Going(s, n)
                           THEN Append(First(s, LoopAt(s, n) - 1), Again(s[LoopAt(s, n)]))
                           ELSE First(s, Base(s))
  <2>1. CASE Going(s, n)
    <3>1. SubSeq(p, 1, LoopAt(s, n) - 1) = First(s, LoopAt(s, n) - 1)
      BY <1>5, <2>1, LeftFacts
    <3> QED
      BY <1>1, <1>6, <1>9, <2>1, <3>1 DEF C!Continued, Again
  <2>2. CASE ~Going(s, n)
    <3>1. SubSeq(p, 1, Base(s)) = First(s, Base(s))
      BY <1>2, <1>5
    <3> QED
      BY <1>1, <1>9, <2>2, <3>1 DEF C!Continued
  <2> QED
    BY <2>1, <2>2
<1> QED
  BY <1>7, <1>8, <1>9, <1>10 DEF p

LEMMA FirstPush ==
  ASSUME NEW s \in Seq(Call), NEW f \in Call, NEW k \in 0 .. Len(s)
  PROVE  First(Append(s, f), k) = First(s, k)
BY CutPush DEF First

LEMMA FirstAll ==
  ASSUME NEW s \in Seq(Call), NEW f \in Call
  PROVE  First(Append(s, f), Len(s)) = PlainOf(s)
BY CutPush DEF First

LEMMA RestCases ==
  ASSUME NEW s, NEW n
  PROVE  /\ Rest(0, n, s) = PlainOf(s)
         /\ Rest(SKIPFUNC, n, s) = First(s, ReturnAt(s))
         /\ Rest(SKIPBREAK, n, s) = First(s, LeftAt(s, n))
         /\ Going(s, n) => Rest(SKIPCONT, n, s) =
                             Append(First(s, LoopAt(s, n) - 1), Again(s[LoopAt(s, n)]))
         /\ ~Going(s, n) => Rest(SKIPCONT, n, s) = First(s, LeftAt(s, n))
BY DEF Rest, SKIPBREAK, SKIPCONT, SKIPFUNC

LEMMA PhaseCases ==
  ASSUME NEW s, NEW n, NEW p
  PROVE  /\ \A skip : PhaseOf(skip, n, s, "exited") = "exited"
         /\ PhaseOf(0, n, s, p) = IF p = "back" THEN "out" ELSE p
         /\ p # "exited" => /\ PhaseOf(SKIPFUNC, n, s, p) = "returned"
                            /\ PhaseOf(SKIPBREAK, n, s, p) = "left"
                            /\ Going(s, n) => PhaseOf(SKIPCONT, n, s, p) = "continuing"
                            /\ ~Going(s, n) => PhaseOf(SKIPCONT, n, s, p) = "left"
BY DEF PhaseOf, SKIPBREAK, SKIPCONT, SKIPFUNC

\* A call that is not what is meant returns, and the same is left to do.
LEMMA RestSame ==
  ASSUME NEW s \in Seq(Call), NEW f \in Call, f.kind \notin Forks,
         NEW skip \in {SKIPBREAK, SKIPCONT, SKIPFUNC}, NEW n \in Nat \ {0},
         skip = SKIPFUNC => f.kind # "function",
         NEW m \in Nat,
         IF skip # SKIPFUNC /\ f.kind \in Loops THEN n > 1 /\ m = n - 1 ELSE m = n
  PROVE  /\ Rest(skip, n, Append(s, f)) = Rest(skip, m, s)
         /\ \A p : PhaseOf(skip, n, Append(s, f), p) = PhaseOf(skip, m, s, p)
<1> DEFINE t == Append(s, f)
<1>1. /\ Base(t) = Base(s) /\ Base(s) \in Nat /\ Base(s) <= Len(s) /\ Len(s) \in Nat
      /\ LoopAt(s, m) \in Nat /\ LoopAt(s, m) <= Len(s)
  BY PushFiles, BaseFacts, LoopFacts, OfFacts
<1>2. skip # SKIPFUNC => LoopAt(t, n) = LoopAt(s, m)
  BY PushLoop
<1>3. skip = SKIPFUNC => FunctionAt(t) = FunctionAt(s)
  BY PushFunction
<1>4. /\ skip # SKIPFUNC => LeftAt(t, n) = LeftAt(s, m) /\ (Going(t, n) <=> Going(s, m))
      /\ skip = SKIPFUNC => ReturnAt(t) = ReturnAt(s)
  BY <1>1, <1>2, <1>3 DEF LeftAt, Going, ReturnAt
<1>5. LoopAt(s, m) \in 1 .. Len(s) => t[LoopAt(s, m)] = s[LoopAt(s, m)]
  BY AppendProperties
<1>6. /\ First(t, LeftAt(s, m)) = First(s, LeftAt(s, m)) /\ First(t, ReturnAt(s)) = First(s, ReturnAt(s))
      /\ Going(s, m) => First(t, LoopAt(s, m) - 1) = First(s, LoopAt(s, m) - 1)
  BY FirstPush, LeftFacts
<1> HIDE DEF t
<1>7. Rest(skip, n, t) = Rest(skip, m, s)
  <2>1. CASE skip = SKIPFUNC
    BY <1>4, <1>6, <2>1, RestCases
  <2>2. CASE skip = SKIPBREAK
    <3>1. skip # SKIPFUNC
      BY <2>2 DEF SKIPBREAK, SKIPFUNC
    <3> QED
      BY <1>4, <1>6, <2>2, <3>1, RestCases
  <2>3. CASE skip = SKIPCONT
    <3>1. skip # SKIPFUNC
      BY <2>3 DEF SKIPCONT, SKIPFUNC
    <3>2. CASE Going(s, m)
      <4>1. t[LoopAt(s, m)] = s[LoopAt(s, m)] /\ LoopAt(t, n) = LoopAt(s, m)
        BY <1>2, <1>5, <3>1, <3>2, LeftFacts
      <4>2. First(t, LoopAt(t, n) - 1) = First(s, LoopAt(s, m) - 1) /\ Going(t, n)
        BY <1>4, <1>6, <3>1, <3>2, <4>1
      <4>3. Rest(SKIPCONT, n, t) = Append(First(t, LoopAt(t, n) - 1), Again(t[LoopAt(t, n)]))
        BY <4>2, RestCases
      <4>4. Rest(SKIPCONT, m, s) = Append(First(s, LoopAt(s, m) - 1), Again(s[LoopAt(s, m)]))
        BY <3>2, RestCases
      <4> QED
        BY <2>3, <4>1, <4>2, <4>3, <4>4, Zenon
    <3>3. CASE ~Going(s, m)
      BY <1>4, <1>6, <2>3, <3>1, <3>3, RestCases
    <3> QED
      BY <3>2, <3>3
  <2> QED
    BY <2>1, <2>2, <2>3
<1>8. \A p : PhaseOf(skip, n, t, p) = PhaseOf(skip, m, s, p)
  BY <1>4 DEF PhaseOf, SKIPBREAK, SKIPCONT, SKIPFUNC
<1> QED
  BY <1>7, <1>8 DEF t

\* The loop or the function that is meant has come to the top.
LEMMA RestHere ==
  ASSUME NEW s \in Seq(Call), NEW f \in Call
  PROVE  /\ f.kind \in Loops => /\ Rest(SKIPBREAK, 1, Append(s, f)) = PlainOf(s)
                                /\ Rest(SKIPCONT, 1, Append(s, f)) = Append(PlainOf(s), Again(f))
                                /\ Going(Append(s, f), 1)
         /\ f.kind = "function" => \A n : Rest(SKIPFUNC, n, Append(s, f)) = PlainOf(s)
<1> DEFINE t == Append(s, f)
<1>1. Len(s) \in Nat /\ Base(s) \in Nat /\ Base(s) <= Len(s) /\ t[Len(s) + 1] = f
  BY BaseFacts, OfFacts, AppendProperties
<1>2. First(t, Len(s)) = PlainOf(s)
  BY FirstAll
<1>3. CASE f.kind \in Loops
  <2>1. LoopAt(t, 1) = Len(s) + 1 /\ Base(t) = Base(s)
    BY <1>3, PushLoop, PushFiles, Kinds3
  <2> HIDE DEF t
  <2>2. LeftAt(t, 1) = Len(s) /\ Going(t, 1) /\ LoopAt(t, 1) - 1 = Len(s)
    BY <1>1, <2>1 DEF LeftAt, Going
  <2>3. Rest(SKIPBREAK, 1, t) = PlainOf(s)
    BY <1>2, <2>2 DEF Rest, SKIPBREAK, SKIPFUNC, SKIPCONT
  <2>4. Rest(SKIPCONT, 1, t) = Append(PlainOf(s), Again(f))
    BY <1>1, <1>2, <2>1, <2>2 DEF Rest, SKIPBREAK, SKIPFUNC, SKIPCONT
  <2> QED
    BY <1>3, <2>2, <2>3, <2>4, Kinds3 DEF t
<1>4. CASE f.kind = "function"
  <2>1. FunctionAt(t) = Len(s) + 1 /\ Base(t) = Base(s)
    BY <1>4, PushFunction, PushFiles, Kinds3
  <2> HIDE DEF t
  <2>2. ReturnAt(t) = Len(s)
    BY <1>1, <2>1 DEF ReturnAt
  <2>3. \A n : Rest(SKIPFUNC, n, t) = PlainOf(s)
    BY <1>2, <2>2 DEF Rest, SKIPFUNC
  <2> QED
    BY <1>4, <2>3, Kinds3 DEF t
<1> QED
  BY <1>3, <1>4

MappedTo == /\ Remaining = Rest(evalskip, skipcount, stack)
            /\ Phase = PhaseOf(evalskip, skipcount, stack, pc)

LEMMA Mapped ==
  EvalInv => MappedTo
<1> SUFFICES ASSUME EvalInv PROVE MappedTo
  OBVIOUS
<1>1. stack \in Seq(Call) /\ evalskip \in {0, SKIPBREAK, SKIPCONT, SKIPFUNC}
      /\ Base(stack) \in Nat /\ LoopAt(stack, skipcount) \in Nat
  BY BaseFacts, LoopFacts DEF EvalInv, Others, Skips, Counted, StackTyped
<1>2. Plain = PlainOf(stack)
  BY DEF Plain, PlainOf, Con
<1>3. /\ P!Left(Plain, skipcount) = C!Left(Plain, skipcount)
      /\ P!Continued(Plain, skipcount) = C!Continued(Plain, skipcount)
      /\ P!Returned(Plain) = C!Returned(Plain)
      /\ P!Stays(Plain, skipcount) <=> C!Stays(Plain, skipcount)
  <2>1. \A T : P!Max(T) = C!Max(T)
    BY DEF P!Max, C!Max
  <2>2. P!Stays(Plain, skipcount) <=> C!Stays(Plain, skipcount)
    BY SameOperators DEF P!Stays, C!Stays
  <2>3. P!Left(Plain, skipcount) = C!Left(Plain, skipcount) /\ P!Returned(Plain) = C!Returned(Plain)
    BY <2>1, SameOperators DEF P!Left, C!Left, P!Returned, C!Returned
  <2>4. P!Continued(Plain, skipcount) = C!Continued(Plain, skipcount)
    BY <2>1, <2>2, SameOperators DEF P!Continued, C!Continued
  <2> QED
    BY <2>2, <2>3, <2>4
<1>4. /\ P!Left(Plain, skipcount) = First(stack, LeftAt(stack, skipcount))
      /\ P!Returned(Plain) = First(stack, ReturnAt(stack))
      /\ P!Stays(Plain, skipcount) <=> Going(stack, skipcount)
      /\ P!Continued(Plain, skipcount) =
           IF Going(stack, skipcount)
           THEN Append(First(stack, LoopAt(stack, skipcount) - 1),
                       Again(stack[LoopAt(stack, skipcount)]))
           ELSE First(stack, Base(stack))
  BY <1>1, <1>2, <1>3, RestFacts
<1>5. ~Going(stack, skipcount) => LeftAt(stack, skipcount) = Base(stack)
  BY <1>1 DEF Going, LeftAt
<1>6. Remaining = Rest(evalskip, skipcount, stack)
  <2>1. CASE evalskip = 0
    BY <1>2, <2>1 DEF Remaining, Rest, SKIPBREAK, SKIPCONT, SKIPFUNC
  <2>2. CASE evalskip = SKIPBREAK
    BY <1>4, <2>2 DEF Remaining, Rest, SKIPBREAK, SKIPCONT, SKIPFUNC
  <2>3. CASE evalskip = SKIPCONT
    BY <1>4, <1>5, <2>3 DEF Remaining, Rest, SKIPBREAK, SKIPCONT, SKIPFUNC
  <2>4. CASE evalskip = SKIPFUNC
    BY <1>4, <2>4 DEF Remaining, Rest, SKIPBREAK, SKIPCONT, SKIPFUNC
  <2> QED
    BY <1>1, <2>1, <2>2, <2>3, <2>4
<1>7. Phase = PhaseOf(evalskip, skipcount, stack, pc)
  <2>1. CASE pc = "exited"
    BY <2>1 DEF Phase, PhaseOf
  <2>2. CASE pc # "exited" /\ evalskip = 0
    BY <2>2 DEF Phase, PhaseOf, SKIPCONT, SKIPFUNC
  <2>3. CASE pc # "exited" /\ evalskip # 0
    BY <1>1, <1>4, <2>3 DEF Phase, PhaseOf, SKIPBREAK, SKIPCONT, SKIPFUNC
  <2> QED
    BY <2>1, <2>2, <2>3
<1> QED
  BY <1>6, <1>7 DEF MappedTo

LEMMA MappedNext ==
  EvalInv' => MappedTo'
<1>1. EvalInv => MappedTo
  BY Mapped
<1> QED
  BY <1>1, PTL

\* While nothing is skipped the constructs are the calls.
Settled == evalskip = 0 => /\ Remaining = PlainOf(stack)
                           /\ Phase = IF pc = "back" THEN "out" ELSE pc

LEMMA Settles == EvalInv => Settled
<1> SUFFICES ASSUME EvalInv, evalskip = 0
             PROVE  Remaining = PlainOf(stack) /\ Phase = IF pc = "back" THEN "out" ELSE pc
  BY DEF Settled
<1>1. Remaining = Rest(0, skipcount, stack) /\ Phase = PhaseOf(0, skipcount, stack, pc)
  BY Mapped DEF MappedTo
<1> QED
  BY <1>1, RestCases, PhaseCases

LEMMA SettlesNext == EvalInv' => Settled'
<1>1. EvalInv => Settled
  BY Settles
<1> QED
  BY <1>1, PTL

LEMMA DoesCommand ==
  ASSUME EvalInv, EvalInv', evalskip = 0, pc = "call", evalskip' = 0, pc' \in {"out", "back"},
         UNCHANGED <<stack, eflag>>
  PROVE  C!Command(exitstatus')
<1>1. Remaining = PlainOf(stack) /\ Phase = "call"
  BY Settles DEF Settled
<1>2. Remaining' = PlainOf(stack') /\ Phase' = "out"
  BY SettlesNext DEF Settled
<1> QED
  BY <1>1, <1>2 DEF C!Command, SKIPBREAK, SKIPCONT

LEMMA DoesSet ==
  ASSUME EvalInv, EvalInv', evalskip = 0, pc = "call", setcmd
  PROVE  C!Set
<1>1. Remaining = PlainOf(stack) /\ Phase = "call"
  BY Settles DEF Settled
<1>2. Remaining' = PlainOf(stack') /\ Phase' = "out" /\ evalskip' = 0 /\ UNCHANGED stack
  BY SettlesNext DEF Settled, setcmd, skips
<1> QED
  BY <1>1, <1>2 DEF C!Set, setcmd, SKIPBREAK, SKIPCONT

LEMMA DoesEnter ==
  ASSUME EvalInv, EvalInv', evalskip = 0, pc = "call", NEW kind \in Kinds, Evaluating(kind),
         UNCHANGED <<evalskip, eflag>>, exitstatus' = IF kind = "for" THEN 0 ELSE exitstatus
  PROVE  C!Enter(kind)
<1>0. stack \in Seq(Call)
  BY DEF EvalInv, Counted, StackTyped
<1>1. Remaining = PlainOf(stack) /\ Phase = "call"
  BY Settles DEF Settled
<1>2. /\ Len(stack) < MaxDepth /\ stack' = Append(stack, Entered(kind))
      /\ Remaining' = PlainOf(stack') /\ Phase' = "call"
  BY SettlesNext DEF Settled, Evaluating
<1>3. Entered(kind) \in Call
  BY EnteredFacts
<1>4. Con(Entered(kind)) = [kind |-> kind, last |-> 0,
                            at   |-> IF kind = "for" THEN "second" ELSE "first"]
  BY DEF Con, Entered
<1>5. PlainOf(stack') = Append(PlainOf(stack), Con(Entered(kind)))
  BY <1>0, <1>2, <1>3, PlainPush
<1>6. Len(PlainOf(stack)) < MaxDepth
  BY <1>0, <1>2, PlainFacts
<1> QED
  BY <1>1, <1>2, <1>4, <1>5, <1>6 DEF C!Enter, SKIPBREAK, SKIPCONT

LEMMA DoesTrap ==
  ASSUME EvalInv, EvalInv', evalskip = 0, dotrap
  PROVE  C!Trap
<1> DEFINE f == [kind |-> "trap", at |-> "first", last |-> exitstatus,
                 exit |-> FALSE, tested |-> FALSE]
<1>0. stack \in Seq(Call) /\ exitstatus \in EXIT_STATUS
  BY DEF EvalInv, Others, Counted, StackTyped
<1>1. Remaining = PlainOf(stack) /\ Phase = "out"
  BY Settles DEF Settled, dotrap
<1>2. /\ Len(stack) < MaxDepth /\ stack' = Append(stack, f) /\ "trap" \in Kinds
      /\ evalskip' = 0 /\ UNCHANGED <<exitstatus, eflag>> /\ pc' = "call"
  BY DEF dotrap, skips
<1>3. Remaining' = PlainOf(stack') /\ Phase' = "call"
  BY <1>2, SettlesNext DEF Settled
<1>4. f \in Call /\ Con(f) = [kind |-> "trap", at |-> "first", last |-> exitstatus]
  BY <1>0, <1>2 DEF Con, Call
<1> HIDE DEF f
<1>5. PlainOf(stack') = Append(PlainOf(stack), Con(f))
  BY <1>0, <1>2, <1>4, PlainPush
<1>6. Len(PlainOf(stack)) < MaxDepth
  BY <1>0, <1>2, PlainFacts
<1> QED
  BY <1>1, <1>2, <1>3, <1>4, <1>5, <1>6 DEF C!Trap, SKIPBREAK, SKIPCONT

LEMMA LevelsFacts ==
  ASSUME EvalInv, NEW n \in 0 .. MaxSkip
  PROVE  /\ C!Levels(PlainOf(stack), Clamped(n)) = Clamped(n)
         /\ Clamped(n) \in 0 .. MaxDepth
<1>1. /\ stack \in Seq(Call) /\ loopnest = Cardinality(Of(stack, Loops)) /\ loopnest \in Nat
      /\ n \in Nat /\ MaxDepth \in Nat /\ Clamped(n) \in 0 .. MaxDepth
  BY Numbers, ClampedFacts, EvalAssumption DEF EvalInv, Counted, StackTyped, Agree, Count
<1>2. C!Of(PlainOf(stack), C!Loops) = Of(stack, Loops)
  <2>1. C!Of(PlainOf(stack), C!Loops) = Of(PlainOf(stack), Loops)
    BY DEF C!Of, Of, C!Loops, Loops
  <2> QED
    BY <1>1, <2>1, PlainHas
<1>3. C!Levels(PlainOf(stack), Clamped(n)) = Min({Clamped(n), loopnest})
  <2>1. C!Cardinality(Of(stack, Loops)) = loopnest
    BY <1>1 DEF C!Cardinality, Cardinality
  <2>2. \A T : C!Min(T) = Min(T)
    BY DEF C!Min, Min
  <2> QED
    BY <1>2, <2>1, <2>2 DEF C!Levels
<1>4. Clamped(n) <= loopnest
  BY <1>1, MinOfTwo DEF Clamped
<1> QED
  BY <1>1, <1>3, <1>4, MinOfTwo

\* break and continue, also in backquotes.
LEMMA DoesSkip ==
  ASSUME EvalInv, EvalInv', evalskip = 0, pc = "call", NEW k \in {SKIPBREAK, SKIPCONT},
         NEW n \in 0 .. MaxSkip, Clamped(n) > 0, Skipping(k, Clamped(n)), UNCHANGED <<stack, eflag>>,
         pc' # "exited"
  PROVE  \E m \in 1 .. MaxDepth : C!Break(m) \/ C!Continue(m)
<1> DEFINE m == Clamped(n)
           p == PlainOf(stack)
<1>1. stack \in Seq(Call) /\ m \in 1 .. MaxDepth /\ C!Levels(p, m) = m
  BY LevelsFacts DEF EvalInv, Counted, StackTyped
<1>2. Remaining = p /\ Phase = "call"
  BY Settles DEF Settled
<1>3. evalskip' = k /\ skipcount' = m /\ stack' = stack
  BY DEF Skipping
<1>4. Remaining' = Rest(k, m, stack) /\ Phase' = PhaseOf(k, m, stack, pc')
  BY <1>3, MappedNext DEF MappedTo
<1>5. /\ C!Left(p, m) = First(stack, LeftAt(stack, m))
      /\ C!Stays(p, m) <=> Going(stack, m)
      /\ C!Continued(p, m) = IF Going(stack, m)
                             THEN Append(First(stack, LoopAt(stack, m) - 1),
                                         Again(stack[LoopAt(stack, m)]))
                             ELSE First(stack, Base(stack))
  BY <1>1, RestFacts
<1>6. ~Going(stack, m) => LeftAt(stack, m) = Base(stack)
  <2>1. LoopAt(stack, m) \in Nat /\ Base(stack) \in Nat
    BY <1>1, LoopFacts, BaseFacts
  <2> QED
    BY <2>1 DEF Going, LeftAt
<1> HIDE DEF m, p
<1>7. CASE k = SKIPBREAK
  <2>1. Remaining' = C!Left(p, m) /\ Phase' = "left"
    BY <1>4, <1>5, <1>7, RestCases, PhaseCases
  <2>2. C!Break(m)
    BY <1>1, <1>2, <1>3, <1>7, <2>1 DEF C!Break, SKIPBREAK, SKIPCONT
  <2> QED
    BY <1>1, <2>2
<1>8. CASE k = SKIPCONT
  <2>1. /\ Remaining' = C!Continued(p, m)
        /\ Phase' = IF C!Stays(p, m) THEN "continuing" ELSE "left"
    <3>1. CASE Going(stack, m)
      BY <1>4, <1>5, <1>8, <3>1, RestCases, PhaseCases
    <3>2. CASE ~Going(stack, m)
      BY <1>4, <1>5, <1>6, <1>8, <3>2, RestCases, PhaseCases
    <3> QED
      BY <3>1, <3>2
  <2>2. C!Continue(m)
    BY <1>1, <1>2, <1>3, <1>8, <2>1 DEF C!Continue, SKIPBREAK, SKIPCONT
  <2> QED
    BY <1>1, <2>2
<1> QED
  BY <1>7, <1>8

LEMMA DoesReturn ==
  ASSUME EvalInv, EvalInv', evalskip = 0, pc = "call", funcnest > 0, Skipping(SKIPFUNC, 1),
         UNCHANGED <<stack, eflag>>, pc' # "exited"
  PROVE  C!Return(exitstatus')
<1> DEFINE p == PlainOf(stack)
<1>1. stack \in Seq(Call) /\ funcnest = Cardinality(Of(stack, {"function"}))
  BY DEF EvalInv, Counted, StackTyped, Agree, Count
<1>2. Remaining = p /\ Phase = "call"
  BY Settles DEF Settled
<1>3. evalskip' = SKIPFUNC /\ skipcount' = 1 /\ stack' = stack
  BY DEF Skipping
<1>4. Remaining' = Rest(SKIPFUNC, 1, stack) /\ Phase' = PhaseOf(SKIPFUNC, 1, stack, pc')
  BY <1>3, MappedNext DEF MappedTo
<1>5. C!Returned(p) = First(stack, ReturnAt(stack))
  BY <1>1, RestFacts
<1>6. C!Function(p) # 0
  <2>1. C!Function(p) = FunctionAt(stack)
    BY <1>1, SameOperators, PlainHas
  <2>2. PICK i : i \in Of(stack, {"function"})
    <3>1. SUFFICES ASSUME Of(stack, {"function"}) = {} PROVE FALSE
      OBVIOUS
    <3> QED
      BY <1>1, <3>1, FS_EmptySet
  <2>3. i \in Nat /\ 1 <= i /\ i <= FunctionAt(stack) /\ FunctionAt(stack) \in Nat
    BY <1>1, <2>2, OfFacts, FunctionFacts
  <2> QED
    BY <2>1, <2>3
<1> HIDE DEF p
<1>7. Remaining' = C!Returned(p) /\ Phase' = "returned"
  BY <1>4, <1>5, RestCases, PhaseCases
<1> QED
  BY <1>2, <1>3, <1>6, <1>7 DEF C!Return, SKIPBREAK, SKIPCONT, SKIPFUNC

\* When a construct goes on, and when it is over.
On(f, s) ==
  \/ f.kind = "semi" /\ f.at = "first"
  \/ f.kind = "and" /\ f.at = "first" /\ s = 0
  \/ f.kind = "or" /\ f.at = "first" /\ s # 0
  \/ f.kind = "if" /\ f.at = "first"
  \/ f.kind = "while" /\ (f.at = "second" \/ s = 0)
  \/ f.kind = "until" /\ (f.at = "second" \/ s # 0)
  \/ f.kind \in {"for", "eval", "trap"}

Off(f, s) ==
  \/ f.kind = "semi" /\ f.at # "first"
  \/ f.kind = "and" /\ ~(f.at = "first" /\ s = 0)
  \/ f.kind = "or" /\ ~(f.at = "first" /\ s # 0)
  \/ f.kind = "if" /\ ~(f.at = "first" /\ s = 0)
  \/ f.kind = "while" /\ ~(f.at = "second" \/ s = 0)
  \/ f.kind = "until" /\ ~(f.at = "second" \/ s # 0)
  \/ f.kind \notin {"semi", "and", "or", "if", "while", "until"}

LEMMA OnFacts ==
  ASSUME NEW f, NEW s
  PROVE  /\ On(f, s) => TRUE \in C!GoesOn(f, s)
         /\ Off(f, s) => FALSE \in C!GoesOn(f, s)
<1>1. ASSUME On(f, s) PROVE TRUE \in C!GoesOn(f, s)
  <2>1. CASE f.kind = "semi"
    BY <1>1, <2>1 DEF On, C!GoesOn
  <2>2. CASE f.kind \in {"and", "or"}
    BY <1>1, <2>2 DEF On, C!GoesOn
  <2>3. CASE f.kind = "if"
    BY <1>1, <2>3 DEF On, C!GoesOn
  <2>4. CASE f.kind \in {"while", "until"}
    BY <1>1, <2>4 DEF On, C!GoesOn
  <2>5. CASE f.kind \in {"for", "eval", "trap"}
    BY <2>5 DEF C!GoesOn
  <2> QED
    BY <1>1, <2>1, <2>2, <2>3, <2>4, <2>5 DEF On
<1>2. ASSUME Off(f, s) PROVE FALSE \in C!GoesOn(f, s)
  <2>1. CASE f.kind = "semi"
    BY <1>2, <2>1 DEF Off, C!GoesOn
  <2>2. CASE f.kind \in {"and", "or"}
    BY <1>2, <2>2 DEF Off, C!GoesOn
  <2>3. CASE f.kind = "if"
    BY <1>2, <2>3 DEF Off, C!GoesOn
  <2>4. CASE f.kind \in {"while", "until"}
    BY <1>2, <2>4 DEF Off, C!GoesOn
  <2>5. CASE f.kind \notin {"semi", "and", "or", "if", "while", "until"}
    BY <2>5 DEF C!GoesOn
  <2> QED
    BY <2>1, <2>2, <2>3, <2>4, <2>5
<1> QED
  BY <1>1, <1>2

LEMMA TopPlain ==
  ASSUME EvalInv, evalskip = 0, stack # <<>>
  PROVE  /\ Remaining # <<>> /\ C!Top = Con(Top) /\ C!Below = PlainOf(Below)
         /\ Top \in Call /\ Con(Top) \in C!Construct /\ Below \in Seq(Call)
         /\ Con(Top).kind = Top.kind /\ Con(Top).at = Top.at /\ Con(Top).last = Top.last
<1>1. /\ stack \in Seq(Call) /\ Below \in Seq(Call) /\ Top \in Call /\ stack = Append(Below, Top)
      /\ Len(stack) = Len(Below) + 1 /\ Len(Below) \in Nat
  BY TopFacts DEF EvalInv, Counted, StackTyped
<1>2. Remaining = Append(PlainOf(Below), Con(Top))
  BY <1>1, PlainPush, Settles DEF Settled
<1>3. PlainOf(Below) \in Seq(C!Construct) /\ Len(PlainOf(Below)) = Len(Below)
      /\ Con(Top) \in C!Construct
  BY <1>1, PlainFacts, ConFacts
<1>4. /\ Len(Remaining) = Len(Below) + 1 /\ Remaining[Len(Below) + 1] = Con(Top)
      /\ SubSeq(Remaining, 1, Len(Below)) = PlainOf(Below)
  BY <1>1, <1>2, <1>3, AppendProperties, CutPush
<1>5. Remaining # <<>>
  BY <1>1, <1>4, EmptySeq
<1>6. C!Top = Con(Top)
  BY <1>4 DEF C!Top
<1>7. C!Below = PlainOf(Below)
  <2>1. Len(Remaining) - 1 = Len(Below)
    BY <1>1, <1>4
  <2> QED
    BY <1>4, <2>1 DEF C!Below
<1> QED
  BY <1>1, <1>3, <1>5, <1>6, <1>7, ConFacts

LEMMA ResumeForms ==
  ASSUME Phase = "out", Remaining # <<>>, C!Top.kind \notin C!Subshells, UNCHANGED eflag,
         \/ /\ TRUE \in C!GoesOn(C!Top, Told(evalskip, exitstatus))
            /\ Phase' = "call" /\ Told(evalskip', exitstatus') = Told(evalskip, exitstatus)
            /\ Remaining' = Append(C!Below,
                 [C!Top EXCEPT !.at = C!Part(C!Top),
                               !.last = IF C!Top.kind \in {"while", "until"} /\ C!Top.at = "second"
                                        THEN Told(evalskip, exitstatus) ELSE @])
         \/ /\ FALSE \in C!GoesOn(C!Top, Told(evalskip, exitstatus))
            /\ Remaining' = C!Below /\ Phase' = Phase
            /\ Told(evalskip', exitstatus') = C!Result(C!Top, Told(evalskip, exitstatus))
  PROVE  C!Resume
BY Zenon DEF C!Resume, Told

\* The call on top is over.
LEMMA DoesEnd ==
  ASSUME EvalInv, EvalInv', evalskip = 0, pc \in {"out", "back"}, stack # <<>>,
         Top.kind \notin Forks, Off(Con(Top), exitstatus), stack' = Below, pc' = "out",
         UNCHANGED <<evalskip, eflag>>, exitstatus' = C!Result(Con(Top), exitstatus)
  PROVE  C!Resume
<1>1. Phase = "out" /\ Phase' = "out" /\ Remaining' = PlainOf(Below)
  BY Settles, SettlesNext DEF Settled
<1>2. /\ Remaining # <<>> /\ C!Top = Con(Top) /\ C!Below = PlainOf(Below)
      /\ Con(Top).kind = Top.kind
  BY TopPlain
<1>3. FALSE \in C!GoesOn(Con(Top), exitstatus)
  BY OnFacts
<1>4. Con(Top).kind \notin C!Subshells
  BY <1>2 DEF C!Subshells, Forks
<1>5. Told(evalskip, exitstatus) = exitstatus /\ Told(evalskip', exitstatus') = exitstatus'
  BY DEF Told, SKIPBREAK, SKIPCONT
<1> QED
  BY <1>1, <1>2, <1>3, <1>4, <1>5, ResumeForms

\* It goes on, as f.
LEMMA DoesGoOn ==
  ASSUME EvalInv, EvalInv', evalskip = 0, pc \in {"out", "back"}, stack # <<>>,
         Top.kind \notin Forks, On(Con(Top), exitstatus),
         NEW f \in Call, stack' = Append(Below, f), f.kind = Top.kind,
         f.at = C!Part(Con(Top)),
         f.last = IF Top.kind \in {"while", "until"} /\ Top.at = "second"
                  THEN exitstatus ELSE Top.last,
         pc' = "call", UNCHANGED <<evalskip, eflag, exitstatus>>
  PROVE  C!Resume
<1>1. Phase = "out" /\ Phase' = "call" /\ Remaining' = PlainOf(Append(Below, f))
  BY Settles, SettlesNext DEF Settled
<1>2. /\ Remaining # <<>> /\ C!Top = Con(Top) /\ C!Below = PlainOf(Below)
      /\ Below \in Seq(Call) /\ Top \in Call /\ Con(Top) \in C!Construct
      /\ Con(Top).kind = Top.kind /\ Con(Top).at = Top.at /\ Con(Top).last = Top.last
  BY TopPlain
<1>3. TRUE \in C!GoesOn(Con(Top), exitstatus)
  BY OnFacts
<1>4. Con(Top).kind \notin C!Subshells
  BY <1>2 DEF C!Subshells, Forks
<1>5. Remaining' = Append(PlainOf(Below), Con(f))
  BY <1>1, <1>2, PlainPush
<1>6. Con(f) = [Con(Top) EXCEPT !.at = C!Part(Con(Top)),
                 !.last = IF Con(Top).kind \in {"while", "until"} /\ Con(Top).at = "second"
                          THEN exitstatus ELSE @]
  <2> DEFINE g == Con(Top)
             a == C!Part(g)
             l == IF g.kind \in {"while", "until"} /\ g.at = "second" THEN exitstatus ELSE g.last
  <2>1. g = [kind |-> g.kind, at |-> g.at, last |-> g.last]
    BY <1>2 DEF Con
  <2>2. Con(f) = [kind |-> g.kind, at |-> a, last |-> l]
    BY <1>2 DEF Con
  <2> HIDE DEF g, a, l
  <2>3. [g EXCEPT !.at = a, !.last = l] = [kind |-> g.kind, at |-> a, last |-> l]
    <3> DEFINE h == [g EXCEPT !.at = a]
    <3>1. h = [kind |-> g.kind, at |-> a, last |-> g.last]
      BY <2>1
    <3>2. [g EXCEPT !.at = a, !.last = l] = [h EXCEPT !.last = l]
      OBVIOUS
    <3> HIDE DEF h
    <3>3. [h EXCEPT !.last = l] = [kind |-> g.kind, at |-> a, last |-> l]
      BY <3>1
    <3> QED
      BY <3>2, <3>3
  <2>4. Con(f) = [g EXCEPT !.at = a, !.last = l]
    BY <2>2, <2>3, Zenon
  <2> QED
    BY <2>4 DEF g, a, l
<1>7. Told(evalskip, exitstatus) = exitstatus /\ Told(evalskip', exitstatus') = exitstatus'
  BY DEF Told, SKIPBREAK, SKIPCONT
<1> QED
  BY <1>1, <1>2, <1>3, <1>4, <1>5, <1>6, <1>7, ResumeForms, Zenon

LEMMA TopFits ==
  ASSUME PlaceInv, stack # <<>>
  PROVE  /\ Top \in Call /\ Below \in Seq(Call) /\ stack = Append(Below, Top)
         /\ Top.kind = "for" => Top.at = "second" /\ Top.last = 0
         /\ Top.kind \in Texts => Top.at = "first"
         /\ Top.at \in {"first", "second"} /\ Top.last \in EXIT_STATUS
<1>1. /\ Top \in Call /\ Below \in Seq(Call) /\ stack = Append(Below, Top)
      /\ Len(stack) = Len(Below) + 1 /\ Len(Below) \in Nat
  BY TopFacts DEF PlaceInv, EvalInv, Counted, StackTyped
<1>2. FrameFits(Top, stack, Len(stack) - 1)
  <2>1. Len(stack) \in 1 .. Len(stack)
    BY <1>1
  <2> QED
    BY <2>1 DEF PlaceInv, FramesFit, Top
<1>3. Top.at \in {"first", "second"} /\ Top.last \in EXIT_STATUS
  BY <1>1 DEF Call
<1> QED
  BY <1>1, <1>2, <1>3 DEF FrameFits

\* What the evaluation of a construct does when nothing is skipped.
LEMMA DoesConstruct ==
  ASSUME PlaceInv, EvalInv', evalskip = 0,
         \/ evaltree_semi \/ evaltree_andor \/ evaltree_one
         \/ \E e \in BOOLEAN : evaltree_if(e)
  PROVE  C!Resume
<1>0. /\ EvalInv /\ stack # <<>> /\ pc \in {"out", "back"} /\ UNCHANGED skips
      /\ Top.kind \in {"semi", "and", "or", "if", "case", "redir"}
  BY DEF PlaceInv, evaltree_semi, evaltree_andor, evaltree_one, evaltree_if, Returns, Continues
<1>1. /\ Top \in Call /\ Top.at \in {"first", "second"}
      /\ Con(Top).kind = Top.kind /\ Con(Top).at = Top.at /\ Con(Top).last = Top.last
  BY <1>0, TopFits, ConFacts
<1>2. Top.kind \notin Forks \union {"while", "until", "trap", "for", "eval"}
  BY <1>0 DEF Forks
<1>3. CASE /\ Continues(Second(Top)) /\ On(Con(Top), exitstatus)
           /\ Top.kind \in {"semi", "and", "or", "if"}
  <2>1. /\ Second(Top) \in Call /\ Second(Top).kind = Top.kind /\ Second(Top).at = "second"
        /\ Second(Top).last = Top.last
    BY <1>1 DEF Second, Call
  <2>2. C!Part(Con(Top)) = "second"
    BY <1>1, <1>2 DEF C!Part, C!Strings
  <2> QED
    BY <1>0, <1>2, <1>3, <2>1, <2>2, DoesGoOn DEF Continues, skips
<1>4. CASE Ends /\ UNCHANGED exitstatus /\ Off(Con(Top), exitstatus)
  <2>1. C!Result(Con(Top), exitstatus) = exitstatus
    BY <1>1, <1>2 DEF C!Result
  <2> QED
    BY <1>0, <1>2, <1>4, <2>1, DoesEnd DEF Ends, skips
<1>5. CASE evaltree_semi
  BY <1>1, <1>3, <1>4, <1>5 DEF evaltree_semi, On, Off
<1>6. CASE evaltree_andor
  BY <1>1, <1>3, <1>4, <1>6 DEF evaltree_andor, On, Off
<1>7. CASE evaltree_one
  BY <1>1, <1>4, <1>7 DEF evaltree_one, Off
<1>8. ASSUME NEW e \in BOOLEAN, evaltree_if(e) PROVE C!Resume
  BY <1>1, <1>3, <1>4, <1>8 DEF evaltree_if, On, Off
<1> QED
  BY <1>5, <1>6, <1>7, <1>8

LEMMA DoesLoop ==
  ASSUME PlaceInv, EvalInv', evalskip = 0, evalloop
  PROVE  C!Resume
<1>0. /\ EvalInv /\ stack # <<>> /\ pc \in {"out", "back"} /\ UNCHANGED <<skips, eflag>>
      /\ Top.kind \in {"while", "until"}
      /\ CASE Top.at = "second" -> Test
           [] Top.at = "first" /\ ((exitstatus = 0) <=> (Top.kind = "while")) -> Body
           [] OTHER -> EndLoop
  BY DEF PlaceInv, evalloop, Returns, Skip
<1>1. /\ Top \in Call /\ Top.at \in {"first", "second"}
      /\ Con(Top).kind = Top.kind /\ Con(Top).at = Top.at /\ Con(Top).last = Top.last
  BY <1>0, TopFits, ConFacts
<1>2. Top.kind \notin Forks \union {"for", "eval", "trap"}
  BY <1>0 DEF Forks
<1>3. exitstatus \in EXIT_STATUS
  BY <1>0 DEF EvalInv, Others
<1>4. CASE Top.at = "second"
  <2> DEFINE f == [Top EXCEPT !.at = "first", !.last = exitstatus]
  <2>1. pc' = "call" /\ UNCHANGED exitstatus /\ stack' = Append(Below, f)
    BY <1>0, <1>4 DEF Test, Status
  <2>2. f \in Call /\ f.kind = Top.kind /\ f.at = "first" /\ f.last = exitstatus
    BY <1>1, <1>3 DEF Call
  <2>3. C!Part(Con(Top)) = "first" /\ On(Con(Top), exitstatus)
    BY <1>0, <1>1, <1>2, <1>4 DEF C!Part, C!Strings, On
  <2> HIDE DEF f
  <2> QED
    BY <1>0, <1>2, <1>4, <2>1, <2>2, <2>3, DoesGoOn DEF skips
<1>5. CASE Top.at = "first" /\ ((exitstatus = 0) <=> (Top.kind = "while"))
  <2>1. pc' = "call" /\ UNCHANGED exitstatus /\ stack' = Append(Below, Second(Top))
    BY <1>0, <1>5 DEF Body
  <2>2. /\ Second(Top) \in Call /\ Second(Top).kind = Top.kind /\ Second(Top).at = "second"
        /\ Second(Top).last = Top.last
    BY <1>1 DEF Second, Call
  <2>3. C!Part(Con(Top)) = "second" /\ On(Con(Top), exitstatus)
    BY <1>0, <1>1, <1>2, <1>5 DEF C!Part, C!Strings, On
  <2> QED
    BY <1>0, <1>2, <1>5, <2>1, <2>2, <2>3, DoesGoOn DEF skips
<1>6. CASE Top.at = "first" /\ ~((exitstatus = 0) <=> (Top.kind = "while"))
  <2>1. pc' = "out" /\ exitstatus' = Top.last /\ stack' = Below
    BY <1>0, <1>6 DEF EndLoop, Status
  <2>2. C!Result(Con(Top), exitstatus) = Top.last /\ Off(Con(Top), exitstatus)
    BY <1>0, <1>1, <1>6 DEF C!Result, Off
  <2> QED
    BY <1>0, <1>2, <2>1, <2>2, DoesEnd DEF skips
<1> QED
  BY <1>1, <1>4, <1>5, <1>6

LEMMA DoesFor ==
  ASSUME PlaceInv, EvalInv', evalskip = 0, NEW more \in BOOLEAN, evalfor(more)
  PROVE  C!Resume
<1>0. /\ EvalInv /\ stack # <<>> /\ pc \in {"out", "back"} /\ UNCHANGED <<skips, eflag>>
      /\ Top.kind = "for" /\ (Word \/ EndFor)
  BY DEF PlaceInv, evalfor, Returns, Skip
<1>1. /\ Top \in Call /\ Top.at = "second" /\ stack = Append(Below, Top)
      /\ Con(Top).kind = Top.kind /\ Con(Top).at = Top.at /\ Con(Top).last = Top.last
  BY <1>0, TopFits, ConFacts
<1>2. /\ Top.kind \notin Forks
      /\ C!Part(Con(Top)) = "second" /\ C!Result(Con(Top), exitstatus) = exitstatus
      /\ On(Con(Top), exitstatus) /\ Off(Con(Top), exitstatus)
  BY <1>0, <1>1 DEF C!Part, C!Strings, C!Result, On, Off, Forks
<1>3. CASE Word
  BY <1>0, <1>1, <1>2, <1>3, DoesGoOn DEF skips, Word
<1>4. CASE EndFor
  BY <1>0, <1>2, <1>4, DoesEnd DEF skips, EndFor
<1> QED
  BY <1>0, <1>3, <1>4

\* Functions and texts.
LEMMA DoesText ==
  ASSUME Allowed = {}, PlaceInv, EvalInv', evalskip = 0,
         evalcommand_function \/ evalstring_next \/ evalstring_end
  PROVE  C!Resume
<1>0. /\ EvalInv /\ stack # <<>> /\ pc \in {"out", "back"} /\ UNCHANGED <<skips, eflag>>
      /\ Top.kind \in {"function", "eval", "trap", "lc"}
  BY DEF PlaceInv, evalcommand_function, evalstring_next, evalstring_end, Returns, Continues,
         Ends, Texts, SKIPFUNC
<1>1. /\ Top \in Call /\ stack = Append(Below, Top) /\ (Top.kind \in Texts => Top.at = "first")
      /\ Con(Top).kind = Top.kind /\ Con(Top).at = Top.at /\ Con(Top).last = Top.last
  BY <1>0, TopFits, ConFacts
<1>2. Top.kind \notin Forks
  BY <1>0 DEF Forks
<1>3. CASE evalstring_next
  <2>1. Top.kind \in {"eval", "trap"} /\ Continues(Top)
    BY <1>3 DEF evalstring_next, Texts
  <2>2. C!Part(Con(Top)) = Top.at /\ On(Con(Top), exitstatus)
    BY <1>1, <2>1 DEF C!Part, C!Strings, On, Texts
  <2> QED
    BY <1>0, <1>1, <1>2, <2>1, <2>2, DoesGoOn DEF skips, Continues
<1>4. CASE evalcommand_function \/ evalstring_end
  <2>1. Ends /\ UNCHANGED exitstatus
    BY <1>4 DEF evalcommand_function, evalstring_end
  <2>2. Top.kind = "trap" => exitstatus = Top.last
    BY <1>4 DEF evalcommand_function, evalstring_end
  <2>3. C!Result(Con(Top), exitstatus) = exitstatus /\ Off(Con(Top), exitstatus)
    BY <1>0, <1>1, <2>2 DEF C!Result, Off
  <2> QED
    BY <1>0, <1>2, <2>1, <2>3, DoesEnd DEF skips, Ends
<1> QED
  BY <1>3, <1>4

\* The functions return one by one: nothing for Control.
LEMMA DoesUnwind ==
  ASSUME EvalInv, EvalInv', evalskip # 0, stack # <<>>, pc = "out", pc' = "out", stack' = Below,
         Top.kind \notin Forks, UNCHANGED <<evalskip, eflag>>,
         evalskip = SKIPFUNC => Top.kind # "function" /\ UNCHANGED exitstatus,
         skipcount' = IF evalskip # SKIPFUNC /\ Top.kind \in Loops
                      THEN skipcount - 1 ELSE skipcount
  PROVE  UNCHANGED C!vars
<1>1. /\ Top \in Call /\ Below \in Seq(Call) /\ stack = Append(Below, Top)
      /\ evalskip \in {SKIPBREAK, SKIPCONT, SKIPFUNC}
      /\ skipcount \in Nat \ {0} /\ skipcount' \in Nat \ {0}
  BY TopFacts, EvalAssumption DEF EvalInv, Others, Skips, Counted, StackTyped
<1>2. IF evalskip # SKIPFUNC /\ Top.kind \in Loops
      THEN skipcount > 1 /\ skipcount' = skipcount - 1 ELSE skipcount' = skipcount
  BY <1>1
<1>3. /\ Rest(evalskip, skipcount, stack) = Rest(evalskip, skipcount', Below)
      /\ \A p : PhaseOf(evalskip, skipcount, stack, p) = PhaseOf(evalskip, skipcount', Below, p)
  BY <1>1, <1>2, RestSame
<1>4. Remaining' = Remaining /\ Phase' = Phase
  BY <1>3, Mapped, MappedNext DEF MappedTo
<1>5. (IF evalskip \in {SKIPBREAK, SKIPCONT} THEN 0 ELSE exitstatus)'
        = IF evalskip \in {SKIPBREAK, SKIPCONT} THEN 0 ELSE exitstatus
  BY <1>1
<1> QED
  BY <1>4, <1>5 DEF C!vars

\* The loop that break leaves, and the function that return ends.
LEMMA DoesLand ==
  ASSUME EvalInv, EvalInv', stack # <<>>, pc = "out", pc' = "out", stack' = Below,
         evalskip' = 0, UNCHANGED eflag,
         \/ evalskip = SKIPBREAK /\ skipcount = 1 /\ Top.kind \in Loops
         \/ evalskip = SKIPFUNC /\ Top.kind = "function" /\ UNCHANGED exitstatus
  PROVE  C!Land
<1>1. /\ Top \in Call /\ Below \in Seq(Call) /\ stack = Append(Below, Top)
      /\ exitstatus' \in EXIT_STATUS
  BY TopFacts DEF EvalInv, Others, Counted, StackTyped
<1>2. Remaining = PlainOf(Below)
  BY <1>1, RestHere, Mapped DEF MappedTo
<1>3. /\ evalskip = SKIPBREAK => Phase = "left"
      /\ evalskip = SKIPFUNC => Phase = "returned"
  BY PhaseCases, Mapped DEF MappedTo
<1>4. Remaining' = PlainOf(Below) /\ Phase' = "out"
  BY SettlesNext DEF Settled
<1>5. CASE evalskip = SKIPBREAK
  BY <1>1, <1>2, <1>3, <1>4, <1>5 DEF C!Land, SKIPBREAK, SKIPCONT
<1>6. CASE evalskip = SKIPFUNC
  BY <1>1, <1>2, <1>3, <1>4, <1>6 DEF C!Land, SKIPBREAK, SKIPCONT, SKIPFUNC
<1> QED
  BY <1>5, <1>6

\* The loop that continue goes on with.
LEMMA AgainTop ==
  ASSUME EvalInv, stack # <<>>, evalskip = SKIPCONT, skipcount = 1, Top.kind \in Loops, pc = "out"
  PROVE  /\ Phase = "continuing" /\ C!Top = Again(Top) /\ C!Below = PlainOf(Below)
         /\ Remaining = Append(PlainOf(Below), Again(Top))
         /\ Top \in Call /\ Below \in Seq(Call) /\ stack = Append(Below, Top)
<1>1. /\ Top \in Call /\ Below \in Seq(Call) /\ stack = Append(Below, Top)
      /\ Len(stack) = Len(Below) + 1 /\ Len(Below) \in Nat
  BY TopFacts DEF EvalInv, Counted, StackTyped
<1>2. Remaining = Append(PlainOf(Below), Again(Top)) /\ Going(stack, 1)
  BY <1>1, RestHere, Mapped DEF MappedTo
<1>3. Phase = "continuing"
  BY <1>2, PhaseCases, Mapped DEF MappedTo
<1>4. PlainOf(Below) \in Seq(C!Construct) /\ Len(PlainOf(Below)) = Len(Below)
      /\ Again(Top) \in C!Construct
  BY <1>1, PlainFacts DEF Again, Call, C!Construct, EXIT_STATUS
<1>5. /\ Len(Remaining) = Len(Below) + 1 /\ Remaining[Len(Below) + 1] = Again(Top)
      /\ SubSeq(Remaining, 1, Len(Below)) = PlainOf(Below)
  BY <1>1, <1>2, <1>4, AppendProperties, CutPush
<1>6. C!Top = Again(Top)
  BY <1>5 DEF C!Top
<1>7. C!Below = PlainOf(Below)
  <2>1. Len(Remaining) - 1 = Len(Below)
    BY <1>1, <1>5
  <2> QED
    BY <1>5, <2>1 DEF C!Below
<1> QED
  BY <1>1, <1>2, <1>3, <1>6, <1>7

LEMMA DoesContinue ==
  ASSUME PlaceInv, EvalInv', stack # <<>>, evalskip = SKIPCONT, skipcount = 1, pc = "out",
         evalskip' = 0, UNCHANGED eflag,
         \/ Top.kind \in {"while", "until"} /\ Test
         \/ Top.kind = "for" /\ (Word \/ EndFor)
  PROVE  C!GoOn
<1>0. EvalInv /\ Top.kind \in Loops
  BY DEF PlaceInv, Loops
<1>1. /\ Phase = "continuing" /\ C!Top = Again(Top) /\ C!Below = PlainOf(Below)
      /\ Remaining = Append(PlainOf(Below), Again(Top))
      /\ Top \in Call /\ Below \in Seq(Call) /\ stack = Append(Below, Top)
  BY <1>0, AgainTop
<1>2. exitstatus' \in EXIT_STATUS /\ exitstatus \in EXIT_STATUS
  BY DEF PlaceInv, EvalInv, Others
<1>3. Again(Top).kind = Top.kind
  BY DEF Again
<1>4. CASE Top.kind = "for" /\ Word
  <2>1. stack' = stack /\ pc' = "call"
    BY <1>4 DEF Word
  <2>2. Con(Top) = Again(Top)
    BY <1>4, TopFits DEF Con, Again
  <2>3. PlainOf(stack) = Append(PlainOf(Below), Again(Top))
    BY <1>1, <2>2, PlainPush
  <2>4. Phase' = "call" /\ Remaining' = Remaining
    BY <1>1, <2>1, <2>3, SettlesNext DEF Settled
  <2> QED
    BY <1>1, <1>2, <1>3, <1>4, <2>4 DEF C!GoOn, SKIPBREAK, SKIPCONT
<1>5. CASE Top.kind = "for" /\ EndFor
  <2>1. stack' = Below /\ pc' = "out"
    BY <1>5 DEF EndFor
  <2>2. Phase' = "out" /\ Remaining' = PlainOf(Below)
    BY <2>1, SettlesNext DEF Settled
  <2> QED
    BY <1>1, <1>2, <1>3, <1>5, <2>2 DEF C!GoOn, SKIPBREAK, SKIPCONT
<1>6. CASE Top.kind \in {"while", "until"} /\ Test
  <2> DEFINE f == [Top EXCEPT !.at = "first", !.last = Status]
  <2>1. stack' = Append(Below, f) /\ pc' = "call"
    BY <1>6 DEF Test
  <2>2. Status \in EXIT_STATUS
    BY <1>1, <1>2 DEF Status, Call
  <2>3. f \in Call /\ f.kind = Top.kind /\ f.at = "first" /\ f.last = Status
    BY <1>1, <2>2 DEF Call
  <2> HIDE DEF f
  <2>4. Phase' = "call" /\ Remaining' = PlainOf(Append(Below, f))
    BY <2>1, SettlesNext DEF Settled
  <2>5. Remaining' = Append(PlainOf(Below), Con(f))
    BY <1>1, <2>3, <2>4, PlainPush
  <2>6. Con(f) = [kind |-> Top.kind, at |-> "first", last |-> Status]
    BY <2>3 DEF Con
  <2>7. Con(f) = [Again(Top) EXCEPT !.at = "first", !.last = Status]
    <3> DEFINE g == Again(Top)
               h == [g EXCEPT !.at = "first"]
               l == Status
    <3>1. g = [kind |-> Top.kind, at |-> "second", last |-> 0]
      BY DEF Again
    <3>2. Con(f) = [kind |-> Top.kind, at |-> "first", last |-> l]
      BY <2>6
    <3> HIDE DEF g, l
    <3>3. h = [kind |-> Top.kind, at |-> "first", last |-> 0]
      BY <3>1
    <3>4. [g EXCEPT !.at = "first", !.last = l] = [h EXCEPT !.last = l]
      OBVIOUS
    <3> HIDE DEF h
    <3>5. [h EXCEPT !.last = l] = [kind |-> Top.kind, at |-> "first", last |-> l]
      BY <3>3
    <3>6. Con(f) = [g EXCEPT !.at = "first", !.last = l]
      BY <3>2, <3>4, <3>5
    <3> QED
      BY <3>6 DEF g, l
  <2>8. \E s \in EXIT_STATUS :
          Remaining' = Append(C!Below, [C!Top EXCEPT !.at = "first", !.last = s])
    BY <1>1, <2>2, <2>5, <2>7, Zenon
  <2>9. (IF evalskip \in {SKIPBREAK, SKIPCONT} THEN 0 ELSE exitstatus)' \in EXIT_STATUS
    BY <1>2 DEF EXIT_STATUS
  <2>10. C!Top.kind # "for"
    BY <1>1, <1>3, <1>6
  <2> QED
    BY <1>1, <2>4, <2>8, <2>9, <2>10, Zenon DEF C!GoOn
<1> QED
  BY <1>4, <1>5, <1>6

\* What backquotes set makes evalfor and evalcase return.
Expanded == pc = "expanded" => evalskip # 0

LEMMA ExpandedStep ==
  ASSUME EvalInv, Expanded, [Next]_vars
  PROVE  Expanded'
<1>1. CASE \/ \E n \in 1 .. MaxSkip : evalbackcmd_break(SKIPBREAK, n) \/ evalbackcmd_break(SKIPCONT, n)
           \/ \E s \in EXIT_STATUS : evalbackcmd_return(s)
  BY <1>1 DEF Expanded, evalbackcmd_break, evalbackcmd_return, Skipping, SKIPBREAK, SKIPCONT, SKIPFUNC
<1>2. ASSUME pc' # "expanded" PROVE Expanded'
  BY <1>2 DEF Expanded
<1>3. CASE \/ \E s \in EXIT_STATUS : evalcommand(s) \/ returncmd(s)
           \/ \E n \in 0 .. MaxSkip : breakcmd(SKIPBREAK, n) \/ breakcmd(SKIPCONT, n)
           \/ \E k \in Kinds : evaltree(k)
           \/ evalsubshell("subshell") \/ evalsubshell("background") \/ evalpipe
  BY <1>2, <1>3 DEF evalcommand, returncmd, breakcmd, evaltree, evalsubshell, evalpipe, Done,
     Forked, Evaluating
<1>4. CASE setcmd \/ NotBegun \/ evaltree_NULL \/ dotrap \/ exitshell \/ evaltree_semi
           \/ evaltree_andor \/ evaltree_one
  BY <1>2, <1>4 DEF setcmd, NotBegun, evaltree_NULL, dotrap, exitshell, evaltree_semi,
     evaltree_andor, evaltree_one, Continues, Ends
<1>5. CASE evalloop \/ \E e \in BOOLEAN : evaltree_if(e) \/ evalfor(e)
  <2>1. CASE evalloop
    <3>1. Test \/ Body \/ EndLoop
      BY <2>1 DEF evalloop, Skip
    <3> QED
      BY <1>2, <3>1 DEF Test, Body, EndLoop
  <2>2. ASSUME NEW e \in BOOLEAN, evalfor(e) PROVE Expanded'
    BY <1>2, <2>2 DEF evalfor, Skip, Word, EndFor
  <2>3. ASSUME NEW e \in BOOLEAN, evaltree_if(e) PROVE Expanded'
    BY <1>2, <2>3 DEF evaltree_if, Continues, Ends
  <2> QED
    BY <1>5, <2>1, <2>2, <2>3
<1>6. CASE evalcommand_function \/ evalstring_next \/ evalstring_end \/ cmdloop
           \/ error \/ exitcmd \/ onint
  BY <1>2, <1>6 DEF evalcommand_function, evalstring_next, evalstring_end, cmdloop, error,
     exitcmd, onint, Continues, Ends
<1>7. CASE UNCHANGED vars
  BY <1>7 DEF vars, skips, Expanded
<1> QED
  BY <1>1, <1>3, <1>4, <1>5, <1>6, <1>7 DEF Next

LEMMA EmptyPlain == PlainOf(<<>>) = <<>>
<1>1. <<>> \in Seq(Call) /\ Len(<<>>) = 0
  BY EmptySeq
<1>2. PlainOf(<<>>) \in Seq(C!Construct) /\ Len(PlainOf(<<>>)) = 0
  BY <1>1, PlainFacts
<1> QED
  BY <1>2, EmptySeq

LEMMA DoesNotBegin ==
  ASSUME EvalInv, EvalInv', Expanded, NotBegun
  PROVE  UNCHANGED C!vars
<1>1. /\ evalskip \in {SKIPBREAK, SKIPCONT, SKIPFUNC} /\ pc = "expanded" /\ pc' = "out"
      /\ UNCHANGED <<evalskip, skipcount, stack, exitstatus, eflag>>
  BY DEF EvalInv, Others, Skips, Expanded, NotBegun, skips
<1>2. Remaining' = Remaining
  BY <1>1, Mapped, MappedNext DEF MappedTo
<1>3. PhaseOf(evalskip, skipcount, stack, "out") = PhaseOf(evalskip, skipcount, stack, "expanded")
  BY <1>1 DEF PhaseOf, SKIPBREAK, SKIPCONT, SKIPFUNC
<1>4. Phase' = Phase
  BY <1>1, <1>3, Mapped, MappedNext DEF MappedTo
<1> QED
  BY <1>1, <1>2, <1>4 DEF C!vars

LEMMA DoesNext ==
  ASSUME PlaceInv, EvalInv', cmdloop
  PROVE  C!NextCommand
<1>1. /\ EvalInv /\ pc = "out" /\ stack = <<>> /\ pc' = "call"
      /\ UNCHANGED <<evalskip, exitstatus, eflag, stack>>
  BY DEF PlaceInv, cmdloop, skips
<1>2. evalskip = 0
  BY <1>1, EmptySkips DEF PlaceInv
<1>3. Remaining = <<>> /\ Phase = "out" /\ Remaining' = Remaining /\ Phase' = "call"
  BY <1>1, <1>2, EmptyPlain, Settles, SettlesNext DEF Settled
<1> QED
  BY <1>1, <1>3 DEF C!NextCommand

\* What is left to do is about as deep in child processes as the calls are.
LEMMA NoBase ==
  ASSUME NEW r, Of(r, Forks) = {}
  PROVE  C!Base(r) = 0
<1>1. \A x \in {0} : x \in Nat /\ x <= 0
  OBVIOUS
<1>2. Max({0}) = 0
  BY <1>1, MaxFacts
<1>3. {0} \union Of(r, Forks) = {0}
  OBVIOUS
<1> QED
  BY <1>2, <1>3, SameOperators DEF Base

LEMMA FirstHas ==
  ASSUME NEW s \in Seq(Call), NEW k \in 0 .. Len(s)
  PROVE  /\ First(s, k) \in Seq(C!Construct) /\ Len(First(s, k)) = k
         /\ \A i \in 1 .. k : First(s, k)[i].kind = s[i].kind
         /\ \A kinds : Of(First(s, k), kinds) = {i \in Of(s, kinds) : i <= k}
<1> DEFINE t == SubSeq(s, 1, k)
<1>1. /\ t \in Seq(Call) /\ Len(t) = k /\ DOMAIN t = 1 .. k /\ k \in Nat /\ k <= Len(s)
      /\ DOMAIN s = 1 .. Len(s) /\ Len(s) \in Nat
      /\ \A i \in 1 .. k : t[i] = s[i]
  BY FirstFacts, OfFacts
<1>2. First(s, k) = PlainOf(t)
  BY DEF First
<1> HIDE DEF t
<1>3. /\ PlainOf(t) \in Seq(C!Construct) /\ Len(PlainOf(t)) = k
      /\ \A i \in 1 .. k : PlainOf(t)[i] = Con(t[i]) /\ t[i] \in Call
  BY <1>1, PlainFacts, ElementOfSeq
<1>4. \A i \in 1 .. k : PlainOf(t)[i].kind = s[i].kind
  BY <1>1, <1>3, ConFacts
<1>5. ASSUME NEW kinds PROVE Of(PlainOf(t), kinds) = {i \in Of(s, kinds) : i <= k}
  <2>1. Of(PlainOf(t), kinds) = Of(t, kinds)
    BY <1>1, PlainHas
  <2>2. Of(t, kinds) = {i \in Of(s, kinds) : i <= k}
    BY <1>1 DEF Of
  <2> QED
    BY <2>1, <2>2
<1> QED
  BY <1>2, <1>3, <1>4, <1>5

LEMMA RestInShell ==
  ASSUME NEW s \in Seq(Call), Of(s, Forks) = {}, NEW n,
         NEW skip \in {0, SKIPBREAK, SKIPCONT, SKIPFUNC}
  PROVE  C!Base(Rest(skip, n, s)) = 0
<1>1. ASSUME NEW k \in 0 .. Len(s) PROVE C!Base(First(s, k)) = 0
  BY FirstHas, NoBase
<1>2. CASE skip = 0
  <2>1. Of(PlainOf(s), Forks) = {}
    BY PlainHas
  <2> QED
    BY <1>2, <2>1, RestCases, NoBase
<1>3. CASE skip = SKIPFUNC
  BY <1>1, <1>3, RestCases, LeftFacts
<1>4. CASE skip = SKIPBREAK \/ (skip = SKIPCONT /\ ~Going(s, n))
  BY <1>1, <1>4, RestCases, LeftFacts
<1>5. CASE skip = SKIPCONT /\ Going(s, n)
  <2> DEFINE k == LoopAt(s, n) - 1
             f == Again(s[LoopAt(s, n)])
             r == Append(First(s, k), f)
  <2>1. Rest(skip, n, s) = r
    BY <1>5, RestCases
  <2>2. k \in 0 .. Len(s) /\ LoopAt(s, n) \in 1 .. Len(s) /\ LoopAt(s, n) \in Of(s, Loops)
    BY <1>5, LeftFacts, LoopFacts
  <2>3. f \in C!Construct /\ f.kind \notin Forks
    <3>1. s[LoopAt(s, n)] \in Call /\ s[LoopAt(s, n)].kind \in Loops
      BY <2>2, ElementOfSeq DEF Of
    <3>2. s[LoopAt(s, n)].kind \in Kinds
      BY <3>1 DEF Call
    <3> QED
      BY <3>1, <3>2, Kinds3 DEF Again, C!Construct, EXIT_STATUS
  <2> HIDE DEF f
  <2>4. First(s, k) \in Seq(C!Construct) /\ Len(First(s, k)) = k /\ Of(First(s, k), Forks) = {}
    BY <2>2, FirstHas
  <2>5. /\ DOMAIN First(s, k) = 1 .. k /\ k \in Nat
        /\ DOMAIN r = 1 .. k + 1 /\ r[k + 1] = f /\ \A i \in 1 .. k : r[i] = First(s, k)[i]
    BY <2>2, <2>3, <2>4, AppendProperties, LenProperties
  <2> HIDE DEF r, k
  <2>6. Of(r, Forks) = {}
    BY <2>3, <2>4, <2>5 DEF Of
  <2> QED
    BY <2>1, <2>6, NoBase
<1> QED
  BY <1>2, <1>3, <1>4, <1>5

LEMMA DoesAbandon ==
  ASSUME EvalInv, EvalInv', onint
  PROVE  C!Abandon
<1>1. /\ pc # "exited" /\ ~Child /\ stack' = <<>> /\ pc' = "call" /\ evalskip' = 0
      /\ UNCHANGED eflag
  BY DEF onint, reset
<1>2. /\ stack \in Seq(Call) /\ evalskip \in {0, SKIPBREAK, SKIPCONT, SKIPFUNC}
      /\ pc \in {"call", "expanded", "out", "back"} /\ exitstatus' \in EXIT_STATUS
  BY <1>1 DEF EvalInv, Others, Skips, Counted, StackTyped
<1>3. Of(stack, Forks) = {}
  BY <1>1 DEF Child, Of
<1>4. C!Base(Remaining) = 0
  BY <1>2, <1>3, RestInShell, Mapped DEF MappedTo
<1>5. Phase # "exited"
  BY <1>2, Mapped DEF MappedTo, PhaseOf
<1>6. Remaining' = <<>> /\ Phase' = "call"
  BY <1>1, EmptyPlain, SettlesNext DEF Settled
<1> QED
  BY <1>1, <1>2, <1>4, <1>5, <1>6 DEF C!Abandon, SKIPBREAK, SKIPCONT, EXIT_STATUS

LEMMA DoesRecover ==
  ASSUME Allowed = {}, EvalInv, EvalInv', evalskip = 0, pc = "call", error
  PROVE  C!Recover
<1> DEFINE p == PlainOf(stack)
<1>1. /\ Catcher \in 1 .. Len(stack) /\ stack[Catcher].kind = "lc"
      /\ stack' = SubSeq(stack, 1, Catcher - 1)
      /\ stack \in Seq(Call) /\ Len(stack) \in Nat /\ DOMAIN stack = 1 .. Len(stack)
  BY ErrorCuts, OfFacts DEF EvalInv, Counted, StackTyped
<1>2. /\ Remaining = p /\ Phase = "call" /\ Phase' = "out" /\ Remaining' = PlainOf(stack')
      /\ evalskip' = 0 /\ exitstatus' = 1 /\ UNCHANGED eflag
  BY Settles, SettlesNext DEF Settled, error, skips
<1>3. Of(p, {"lc"}) = Of(stack, {"lc"}) /\ C!Base(p) = Base(stack)
  BY <1>1, PlainHas, SameOperators
<1>4. Catcher \in Of(stack, {"lc"}) /\ \A i \in Of(stack, {"lc"}) : i <= Catcher
  <2> DEFINE T == {0} \union {i \in DOMAIN stack : stack[i].kind = "lc"}
  <2>1. T # {} /\ \A x \in T : x \in Nat /\ x <= Len(stack)
    BY <1>1
  <2>2. \A y \in T : y <= Max(T)
    <3> HIDE DEF T
    <3> QED
      BY <1>1, <2>1, MaxFacts
  <2> QED
    BY <1>1, <2>2 DEF Catcher, Of
<1>5. C!Max(Of(stack, {"lc"})) = Catcher
  <2>1. \A x \in Of(stack, {"lc"}) : x \in Nat /\ x <= Len(stack)
    BY <1>1, OfFacts
  <2>2. Max(Of(stack, {"lc"})) = Catcher
    BY <1>1, <1>4, <2>1, MaxFacts
  <2> QED
    BY <2>2 DEF C!Max, Max
<1>6. Base(stack) < Catcher
  <2>1. SUFFICES ASSUME Base(stack) >= Catcher PROVE FALSE
    BY <1>1, BaseFacts
  <2>2. Base(stack) \in Of(stack, Forks) /\ Base(stack) \in Nat
    BY <1>1, <2>1, BaseFacts
  <2>3. Base(stack) \in DOMAIN stack /\ stack[Base(stack)].kind \in Forks
    BY <2>2 DEF Of
  <2>4. Base(stack) # Catcher
    BY <1>1, <2>3, Kinds3
  <2>5. Base(stack) \in Catcher + 1 .. Len(stack)
    BY <1>1, <2>1, <2>2, <2>3, <2>4
  <2>6. stack[Base(stack)].kind \in Forgotten
    BY <2>5 DEF Forgotten
  <2>7. Forgotten \intersect (Loops \union Texts \union Forks \union {"function"}) = {}
    BY DEF error
  <2> QED
    BY <2>3, <2>6, <2>7
<1>7. Remaining' = SubSeq(p, 1, Catcher - 1)
  <2>1. Catcher - 1 \in 0 .. Len(stack)
    BY <1>1
  <2> QED
    BY <1>1, <1>2, <2>1, PlainCut
<1>8. C!Of(p, {"lc"}) = Of(stack, {"lc"})
  BY <1>3 DEF C!Of, Of
<1> HIDE DEF p
<1>9. C!Of(p, {"lc"}) # {} /\ C!Max(C!Of(p, {"lc"})) = Catcher /\ Catcher > C!Base(p)
  BY <1>1, <1>3, <1>4, <1>5, <1>6, <1>8, BaseFacts
<1>10. (IF evalskip \in {SKIPBREAK, SKIPCONT} THEN 0 ELSE exitstatus)' \in EXIT_STATUS \ {0}
  BY <1>2 DEF SKIPBREAK, SKIPCONT, EXIT_STATUS
<1> QED
  BY <1>2, <1>7, <1>9, <1>10 DEF C!Recover

\* A call with EV_EXIT is the last thing of a child process.
LEMMA DoesExitOver ==
  ASSUME PlaceInv, pc = "out", EvExit
  PROVE  C!Over /\ Phase \in {"out", "left", "returned"}
<1> DEFINE L == Len(stack)
<1>1. /\ stack \in Seq(Call) /\ FramesFit(stack) /\ L \in Nat /\ DOMAIN stack = 1 .. L
      /\ evalskip \in {0, SKIPBREAK, SKIPCONT, SKIPFUNC} /\ EvalInv
  BY OfFacts DEF PlaceInv, EvalInv, Others, Skips, Counted, StackTyped
<1>2. PICK b \in 1 .. L : stack[b].kind \in Forks /\ \A j \in b + 1 .. L : Passes(stack[j])
  BY <1>1, EvFacts DEF ExitAt
<1>3. \A j \in b + 1 .. L : stack[j].kind \notin Forks \union Loops \union {"function"}
  <2>1. ASSUME NEW j \in b + 1 .. L PROVE stack[j].kind \in Passers
    BY <1>2 DEF Passes, Passers
  <2> QED
    BY <2>1 DEF Passers, Forks, Loops
<1>4. Base(stack) = b
  <2>1. b \in Of(stack, Forks) /\ \A i \in Of(stack, Forks) : i <= b
    BY <1>1, <1>2, <1>3 DEF Of
  <2> QED
    BY <1>1, <2>1, BaseFacts
<1> HIDE DEF L
<1>5. CASE evalskip = 0
  <2>1. Remaining = PlainOf(stack) /\ Phase = "out"
    BY <1>1, <1>5, Settles DEF Settled
  <2>2. C!Base(Remaining) = b /\ Len(Remaining) = L
    BY <1>1, <1>4, <2>1, SameOperators, PlainHas, PlainFacts DEF L
  <2>3. ASSUME NEW i \in b + 1 .. L PROVE C!Last(Remaining[i])
    <3>1. i \in 1 .. L /\ Passes(stack[i])
      BY <1>1, <1>2
    <3>2. stack[i] \in Call /\ Remaining[i] = Con(stack[i])
      BY <1>1, <2>1, <3>1, PlainFacts, ElementOfSeq DEF L
    <3>3. Con(stack[i]).kind = stack[i].kind /\ Con(stack[i]).at = stack[i].at
      BY <3>2, ConFacts
    <3> QED
      BY <3>1, <3>2, <3>3 DEF Passes, C!Last
  <2>4. b # 0
    BY <1>1, <1>2
  <2> QED
    BY <2>1, <2>2, <2>3, <2>4 DEF C!Over
<1>6. CASE evalskip # 0
  <2>1. /\ LoopAt(stack, skipcount) \in Nat /\ FunctionAt(stack) \in Nat /\ b \in Nat
        /\ LoopAt(stack, skipcount) <= L /\ FunctionAt(stack) <= L
        /\ LoopAt(stack, skipcount) # 0 => LoopAt(stack, skipcount) \in Of(stack, Loops)
        /\ FunctionAt(stack) # 0 => FunctionAt(stack) \in Of(stack, {"function"})
    BY <1>1, LoopFacts, FunctionFacts DEF L
  <2>2. LoopAt(stack, skipcount) <= b
    <3>1. SUFFICES ASSUME LoopAt(stack, skipcount) > b PROVE FALSE
      BY <2>1
    <3>2. LoopAt(stack, skipcount) \in b + 1 .. L /\ stack[LoopAt(stack, skipcount)].kind \in Loops
      BY <1>1, <2>1, <3>1 DEF Of
    <3> QED
      BY <1>3, <3>2
  <2>3. FunctionAt(stack) <= b
    <3>1. SUFFICES ASSUME FunctionAt(stack) > b PROVE FALSE
      BY <2>1
    <3>2. FunctionAt(stack) \in b + 1 .. L /\ stack[FunctionAt(stack)].kind = "function"
      BY <1>1, <2>1, <3>1 DEF Of
    <3> QED
      BY <1>3, <3>2
  <2>4. /\ ~Going(stack, skipcount) /\ LeftAt(stack, skipcount) = b /\ ReturnAt(stack) = b
    BY <1>4, <2>1, <2>2, <2>3 DEF Going, LeftAt, ReturnAt
  <2>5. Remaining = First(stack, b) /\ Phase \in {"left", "returned"}
    <3>1. Remaining = Rest(evalskip, skipcount, stack)
          /\ Phase = PhaseOf(evalskip, skipcount, stack, "out")
      BY <1>1, Mapped DEF MappedTo
    <3>2. CASE evalskip = SKIPFUNC
      BY <2>4, <3>1, <3>2, RestCases, PhaseCases
    <3>3. CASE evalskip = SKIPBREAK
      BY <2>4, <3>1, <3>3, RestCases, PhaseCases
    <3>4. CASE evalskip = SKIPCONT
      BY <2>4, <3>1, <3>4, RestCases, PhaseCases
    <3> QED
      BY <1>1, <1>6, <3>2, <3>3, <3>4
  <2>6. b \in 0 .. Len(stack)
    BY <1>1, <1>2 DEF L
  <2>7. /\ Len(First(stack, b)) = b
        /\ Of(First(stack, b), Forks) = {i \in Of(stack, Forks) : i <= b}
    BY <1>1, <2>6, FirstHas
  <2>8. Of(First(stack, b), Forks) = Of(stack, Forks)
    BY <1>1, <1>4, <2>7, BaseFacts
  <2>9. C!Base(First(stack, b)) = b
    BY <1>4, <2>8, SameOperators DEF Base
  <2>10. b # 0
    BY <1>1, <1>2
  <2> QED
    BY <2>1, <2>5, <2>7, <2>9, <2>10 DEF C!Over
<1> QED
  BY <1>5, <1>6

\* A command that fails with -e and without EV_TESTED is in no condition.
LEMMA DoesExitFails ==
  ASSUME PlaceInv, pc = "out", ErrExit
  PROVE  C!Fails
<1>1. /\ stack \in Seq(Call) /\ FramesFit(stack) /\ Len(stack) \in Nat
      /\ evalskip \in {0, SKIPBREAK, SKIPCONT, SKIPFUNC} /\ EvalInv
  BY OfFacts DEF PlaceInv, EvalInv, Others, Skips, Counted, StackTyped
<1>2. eflag /\ exitstatus # 0 /\ ~TestedAt(stack, Len(stack))
  BY <1>1, EvFacts DEF ErrExit
<1>3. CASE evalskip = 0
  <2>1. Remaining = PlainOf(stack) /\ Phase = "out"
    BY <1>1, <1>3, Settles DEF Settled
  <2>2. /\ Len(Remaining) = Len(stack) /\ DOMAIN Remaining = 1 .. Len(stack)
        /\ \A i \in 1 .. Len(stack) : Remaining[i] = Con(stack[i]) /\ stack[i] \in Call
    BY <1>1, <2>1, PlainFacts, ElementOfSeq
  <2>3. ASSUME NEW i \in 1 .. Len(stack)
        PROVE  /\ C!Controls(Remaining[i]) => Tests(stack[i])
               /\ C!Last(Remaining[i]) => Passes(stack[i])
               /\ Remaining[i].kind = stack[i].kind
    <3>1. Remaining[i].kind = stack[i].kind /\ Remaining[i].at = stack[i].at
      BY <2>2, ConFacts
    <3> QED
      BY <3>1 DEF C!Controls, Tests, C!Last, Passes
  <2>4. ASSUME C!Tested(Remaining) PROVE FALSE
    <3>1. PICK i \in DOMAIN Remaining :
            /\ C!Controls(Remaining[i])
            /\ \A j \in i + 1 .. Len(Remaining) :
                 C!Last(Remaining[j]) \/ Remaining[j].kind = "subshell"
      BY <2>4 DEF C!Tested
    <3>2. i \in 1 .. Len(stack) /\ Tests(stack[i])
      BY <2>2, <2>3, <3>1
    <3>3. \A j \in i + 1 .. Len(stack) : Passes(stack[j]) \/ stack[j].kind = "subshell"
      <4>1. ASSUME NEW j \in i + 1 .. Len(stack)
            PROVE  Passes(stack[j]) \/ stack[j].kind = "subshell"
        <5>1. j \in 1 .. Len(stack) /\ j \in i + 1 .. Len(Remaining)
          BY <1>1, <2>2, <3>2
        <5> QED
          BY <2>3, <3>1, <5>1
      <4> QED
        BY <4>1
    <3> QED
      BY <1>2, <3>2, <3>3 DEF TestedAt
  <2> QED
    BY <1>2, <1>3, <2>1, <2>4 DEF C!Fails, SKIPBREAK, SKIPCONT
<1>4. CASE evalskip # 0
  <2>1. Phase \in {"left", "returned", "continuing"}
    BY <1>1, <1>4, Mapped DEF MappedTo, PhaseOf
  <2> QED
    BY <1>2, <2>1 DEF C!Fails
<1> QED
  BY <1>3, <1>4

LEMMA DoesExit ==
  ASSUME PlaceInv, EvalInv', pc' = "exited",
         UNCHANGED <<skips, exitstatus, eflag, stack>>,
         \/ pc = "out" /\ (EvExit \/ ErrExit)
         \/ pc = "call"
  PROVE  C!Exit
<1>1. EvalInv /\ UNCHANGED <<evalskip, skipcount, exitstatus, eflag, stack>>
  BY DEF PlaceInv, skips
<1>2. Remaining' = Remaining /\ Phase' = "exited"
  BY <1>1, PhaseCases, Mapped, MappedNext DEF MappedTo
<1>3. \/ Phase = "call"
      \/ Phase \in {"out", "left", "returned"} /\ C!Over
      \/ C!Fails
  <2>1. CASE pc = "call"
    BY <1>1, <2>1, Settles DEF Settled, PlaceInv, SkipsFit
  <2>2. CASE pc = "out" /\ EvExit
    BY <2>2, DoesExitOver
  <2>3. CASE pc = "out" /\ ErrExit
    BY <2>3, DoesExitFails
  <2> QED
    BY <2>1, <2>2, <2>3
<1> QED
  BY <1>1, <1>2, <1>3 DEF C!Exit

\* A loop that finds evalskip set.
LEMMA DoesSkippedLoop ==
  ASSUME PlaceInv, EvalInv', evalskip # 0, pc = "out", stack # <<>>, Top.kind \in Loops,
         UNCHANGED eflag,
         skipcount' = IF evalskip = SKIPFUNC THEN skipcount ELSE skipcount - 1,
         evalskip' = IF evalskip # SKIPFUNC /\ Mine THEN 0 ELSE evalskip,
         IF evalskip = SKIPCONT /\ Mine
         THEN \/ Top.kind \in {"while", "until"} /\ Test
              \/ Top.kind = "for" /\ (Word \/ EndFor)
         ELSE /\ stack' = Below /\ pc' = "out"
              /\ exitstatus' = IF Top.kind = "for" THEN exitstatus ELSE Status
  PROVE  UNCHANGED C!vars \/ C!Land \/ C!GoOn
<1>1. /\ EvalInv /\ evalskip \in {SKIPBREAK, SKIPCONT, SKIPFUNC} /\ skipcount \in Nat \ {0}
  BY EvalAssumption DEF PlaceInv, EvalInv, Others, Skips
<1>2. Mine <=> skipcount = 1
  BY <1>1 DEF Mine
<1>3. Top.kind \notin Forks /\ Top.kind # "function"
  BY Kinds3
<1>4. CASE evalskip = SKIPFUNC
  <2>1. ASSUME Top.kind # "for" PROVE Top.at = "second"
    <3>1. Top.kind \in {"while", "until"} /\ Len(stack) \in DOMAIN stack
          /\ Top.at \in {"first", "second"} /\ Len(stack) \in Nat
      BY <1>1, <2>1, TopFits, TopFacts, OfFacts
         DEF Loops, PlaceInv, EvalInv, Counted, StackTyped
    <3>2. ~InTest
      BY <1>4 DEF PlaceInv, SkipsFit
    <3>3. \A j \in Len(stack) + 1 .. Len(stack) : stack[j].kind # "function"
      BY <3>1
    <3> QED
      BY <3>1, <3>2, <3>3 DEF InTest, Top
  <2>2. UNCHANGED exitstatus
    BY <1>4, <2>1 DEF Status, SKIPFUNC, SKIPCONT
  <2>3. /\ stack' = Below /\ pc' = "out" /\ UNCHANGED <<evalskip, skipcount>>
    BY <1>4 DEF SKIPFUNC, SKIPCONT
  <2> QED
    BY <1>1, <1>3, <1>4, <2>2, <2>3, DoesUnwind
<1>5. CASE evalskip # SKIPFUNC /\ ~Mine
  <2>1. stack' = Below /\ pc' = "out" /\ UNCHANGED evalskip /\ skipcount' = skipcount - 1
    BY <1>5
  <2> QED
    BY <1>1, <1>3, <1>5, <2>1, DoesUnwind
<1>6. CASE evalskip = SKIPBREAK /\ Mine
  <2>1. stack' = Below /\ pc' = "out" /\ evalskip' = 0
    BY <1>6 DEF SKIPFUNC, SKIPCONT, SKIPBREAK
  <2> QED
    BY <1>1, <1>2, <1>6, <2>1, DoesLand
<1>7. CASE evalskip = SKIPCONT /\ Mine
  <2>1. evalskip' = 0
    BY <1>7 DEF SKIPFUNC, SKIPCONT
  <2> QED
    BY <1>1, <1>2, <1>7, <2>1, DoesContinue
<1> QED
  BY <1>1, <1>4, <1>5, <1>6, <1>7

\* A construct that has ended: nothing is skipped, or it is unwound.
LEMMA DoesReturned ==
  ASSUME Allowed = {}, PlaceInv, EvalInv',
         \/ evaltree_semi \/ evaltree_andor \/ evaltree_one \/ evalloop
         \/ \E e \in BOOLEAN : evaltree_if(e) \/ evalfor(e)
         \/ evalcommand_function \/ evalstring_next \/ evalstring_end
  PROVE  C!Resume \/ UNCHANGED C!vars \/ C!Land \/ C!GoOn
<1>1. CASE evalskip = 0
  BY <1>1, DoesConstruct, DoesLoop, DoesFor, DoesText
<1>2. CASE evalskip # 0
  <2>0. EvalInv /\ evalskip \in {SKIPBREAK, SKIPCONT, SKIPFUNC}
    BY <1>2 DEF PlaceInv, EvalInv, Others, Skips
  <2>s. ASSUME Returns PROVE stack # <<>> /\ pc = "out"
    BY <1>2, <2>s DEF Returns, PlaceInv, SkipsFit
  <2>1. CASE \/ evaltree_semi \/ evaltree_andor \/ evaltree_one
             \/ \E e \in BOOLEAN : evaltree_if(e)
    <3>1. /\ stack # <<>> /\ pc = "out" /\ Ends /\ UNCHANGED <<skips, exitstatus>>
          /\ Top.kind \in {"semi", "and", "or", "if", "case", "redir"}
      BY <1>2, <2>1, <2>s DEF evaltree_semi, evaltree_andor, evaltree_one, evaltree_if
    <3>2. Top.kind \notin Forks \union Loops /\ Top.kind # "function"
      BY <3>1 DEF Forks, Loops
    <3> QED
      BY <1>2, <2>0, <3>1, <3>2, DoesUnwind DEF Ends, skips
  <2>2. CASE evalcommand_function
    <3>1. /\ stack # <<>> /\ pc = "out" /\ Ends /\ UNCHANGED exitstatus /\ Top.kind = "function"
          /\ IF evalskip = SKIPFUNC THEN Skipping(0, 0) ELSE UNCHANGED skips
      BY <2>2, <2>s DEF evalcommand_function
    <3>2. Top.kind \notin Forks \union Loops
      BY <3>1, Kinds3
    <3>3. CASE evalskip = SKIPFUNC
      BY <2>0, <3>1, <3>3, DoesLand DEF Ends, Skipping
    <3>4. CASE evalskip # SKIPFUNC
      BY <1>2, <2>0, <3>1, <3>2, <3>4, DoesUnwind DEF Ends, skips
    <3> QED
      BY <3>3, <3>4
  <2>3. CASE evalstring_next \/ evalstring_end
    <3>1. /\ stack # <<>> /\ pc = "out" /\ Ends /\ UNCHANGED <<skips, exitstatus>>
          /\ Top.kind \in {"eval", "trap", "lc"}
      BY <1>2, <2>3, <2>s DEF evalstring_next, evalstring_end, Texts
    <3>2. Top.kind \notin Forks \union Loops /\ Top.kind # "function"
      BY <3>1 DEF Forks, Loops
    <3> QED
      BY <1>2, <2>0, <3>1, <3>2, DoesUnwind DEF Ends, skips
  <2>4. CASE evalloop
    <3>1. /\ stack # <<>> /\ pc = "out" /\ UNCHANGED eflag /\ Top.kind \in {"while", "until"}
          /\ Skip(Test, EndLoop)
      BY <1>2, <2>4, <2>s DEF evalloop
    <3>2. Top.kind \in Loops /\ Top.kind # "for"
      BY <3>1 DEF Loops
    <3>3. /\ skipcount' = IF evalskip = SKIPFUNC THEN skipcount ELSE skipcount - 1
          /\ evalskip' = IF evalskip # SKIPFUNC /\ Mine THEN 0 ELSE evalskip
          /\ IF evalskip = SKIPCONT /\ Mine THEN Test ELSE EndLoop
      BY <3>1 DEF Skip
    <3>4. EndLoop => stack' = Below /\ pc' = "out" /\ exitstatus' = Status
      BY DEF EndLoop
    <3> QED
      BY <1>2, <3>1, <3>2, <3>3, <3>4, DoesSkippedLoop
  <2>5. ASSUME NEW more \in BOOLEAN, evalfor(more)
        PROVE  UNCHANGED C!vars \/ C!Land \/ C!GoOn
    <3>1. /\ stack # <<>> /\ pc = "out" /\ UNCHANGED eflag /\ Top.kind = "for"
          /\ skipcount' = IF evalskip = SKIPFUNC THEN skipcount ELSE skipcount - 1
          /\ evalskip' = IF evalskip # SKIPFUNC /\ Mine THEN 0 ELSE evalskip
          /\ IF evalskip = SKIPCONT /\ Mine THEN Word \/ EndFor ELSE EndFor
      BY <1>2, <2>5, <2>s DEF evalfor, Skip
    <3>2. Top.kind \in Loops
      BY <3>1 DEF Loops
    <3>3. EndFor => stack' = Below /\ pc' = "out" /\ exitstatus' = exitstatus
      BY DEF EndFor
    <3> QED
      BY <1>2, <3>1, <3>2, <3>3, DoesSkippedLoop
  <2> QED
    BY <2>1, <2>2, <2>3, <2>4, <2>5
<1> QED
  BY <1>1, <1>2

\* A command that begins.
LEMMA DoesBegin ==
  ASSUME Allowed = {}, PlaceInv, EvalInv',
         \/ \E s \in EXIT_STATUS : evalcommand(s) \/ returncmd(s)
         \/ \E n \in 0 .. MaxSkip : breakcmd(SKIPBREAK, n) \/ breakcmd(SKIPCONT, n)
         \/ \E n \in 1 .. MaxSkip : evalbackcmd_break(SKIPBREAK, n) \/ evalbackcmd_break(SKIPCONT, n)
         \/ \E s \in EXIT_STATUS : evalbackcmd_return(s)
         \/ \E k \in Kinds : evaltree(k)
         \/ evalsubshell("subshell") \/ evalsubshell("background") \/ evalpipe
         \/ setcmd \/ evaltree_NULL \/ error
  PROVE  C!Next
<1>1. /\ EvalInv /\ pc = "call" /\ evalskip = 0 /\ exitstatus \in EXIT_STATUS
      /\ exitstatus' \in EXIT_STATUS
  <2>1. pc = "call"
    BY DEF evalcommand, returncmd, breakcmd, evalbackcmd_break, evalbackcmd_return, evaltree, evalsubshell, evalpipe, setcmd,
       evaltree_NULL, error, Evaluates
  <2> QED
    BY <2>1 DEF PlaceInv, SkipsFit, EvalInv, Others
<1>c. ASSUME UNCHANGED <<stack, eflag, evalskip>>, pc' \in {"out", "back"} PROVE C!Next
  <2>1. C!Command(exitstatus')
    BY <1>1, <1>c, DoesCommand
  <2> QED
    BY <1>1, <2>1 DEF C!Next
<1>d. ASSUME NEW s \in EXIT_STATUS, Done(s) PROVE C!Next
  BY <1>c, <1>d DEF Done, skips
<1>f. ASSUME NEW k \in Kinds, k # "for", Forked(k) PROVE C!Next
  <2>1. C!Enter(k)
    BY <1>1, <1>f, DoesEnter DEF Forked, skips
  <2> QED
    BY <2>1 DEF C!Next
<1>1a. ASSUME NEW s \in EXIT_STATUS, evalcommand(s) PROVE C!Next
  BY <1>d, <1>1a DEF evalcommand
<1>2. ASSUME NEW s \in EXIT_STATUS, returncmd(s) PROVE C!Next
  <2>1. CASE funcnest > 0
    <3>1. C!Return(exitstatus')
      BY <1>1, <1>2, <2>1, DoesReturn DEF returncmd
    <3> QED
      BY <1>1, <3>1 DEF C!Next
  <2>2. CASE ~(funcnest > 0)
    BY <1>2, <1>c, <2>2 DEF returncmd, skips
  <2> QED
    BY <2>1, <2>2
<1>b. ASSUME \E m \in 1 .. MaxDepth : C!Break(m) \/ C!Continue(m) PROVE C!Next
  BY <1>b DEF C!Next
<1>3. ASSUME NEW k \in {SKIPBREAK, SKIPCONT}, NEW n \in 0 .. MaxSkip, breakcmd(k, n) PROVE C!Next
  <2>1. CASE Clamped(n) > 0
    BY <1>1, <1>3, <1>b, <2>1, DoesSkip DEF breakcmd
  <2>2. CASE ~(Clamped(n) > 0)
    BY <1>3, <1>c, <2>2 DEF breakcmd, skips
  <2> QED
    BY <2>1, <2>2
<1>4. ASSUME NEW k \in {SKIPBREAK, SKIPCONT}, NEW n \in 1 .. MaxSkip, evalbackcmd_break(k, n)
      PROVE  C!Next
  <2>1. n \in 0 .. MaxSkip
    BY EvalAssumption
  <2> QED
    BY <1>1, <1>4, <1>b, <2>1, DoesSkip DEF evalbackcmd_break
<1>r. ASSUME NEW s \in EXIT_STATUS, evalbackcmd_return(s) PROVE C!Next
  <2>1. C!Return(exitstatus')
    BY <1>1, <1>r, DoesReturn DEF evalbackcmd_return
  <2> QED
    BY <1>1, <2>1 DEF C!Next
<1>5. ASSUME NEW k \in Kinds, evaltree(k) PROVE C!Next
  <2>1. C!Enter(k)
    BY <1>1, <1>5, DoesEnter DEF evaltree, skips
  <2> QED
    BY <2>1 DEF C!Next
<1>6. ASSUME NEW k \in {"subshell", "background"}, evalsubshell(k) PROVE C!Next
  BY <1>1, <1>6, <1>d, <1>f DEF evalsubshell
<1>7. CASE evalpipe
  BY <1>7, <1>d, <1>f DEF evalpipe
<1>8. CASE setcmd
  BY <1>1, <1>8, DoesSet DEF C!Next
<1>9. CASE evaltree_NULL
  BY <1>9, <1>c DEF evaltree_NULL, skips
<1>10. CASE error
  BY <1>1, <1>10, DoesRecover DEF C!Next
<1> QED
  BY <1>1a, <1>2, <1>3, <1>4, <1>r, <1>5, <1>6, <1>7, <1>8, <1>9, <1>10

LEMMA StepMaps ==
  ASSUME Allowed = {}, PlaceInv, PlaceInv', Expanded, [Next]_vars
  PROVE  [C!Next]_(C!vars)
<1>0. EvalInv /\ EvalInv'
  BY DEF PlaceInv
<1>1. CASE \/ \E s \in EXIT_STATUS : evalcommand(s) \/ returncmd(s)
           \/ \E n \in 0 .. MaxSkip : breakcmd(SKIPBREAK, n) \/ breakcmd(SKIPCONT, n)
           \/ \E n \in 1 .. MaxSkip : evalbackcmd_break(SKIPBREAK, n) \/ evalbackcmd_break(SKIPCONT, n)
           \/ \E s \in EXIT_STATUS : evalbackcmd_return(s)
           \/ \E k \in Kinds : evaltree(k)
           \/ evalsubshell("subshell") \/ evalsubshell("background") \/ evalpipe
           \/ setcmd \/ evaltree_NULL \/ error
  <2>1. C!Next
    BY <1>0, <1>1, DoesBegin
  <2> QED
    BY <2>1
<1>2. CASE NotBegun
  <2>1. UNCHANGED C!vars
    BY <1>0, <1>2, DoesNotBegin
  <2> QED
    BY <2>1
<1>3. CASE dotrap
  <2>1. C!Trap
    BY <1>0, <1>3, DoesTrap DEF dotrap
  <2> QED
    BY <2>1 DEF C!Next
<1>4. CASE exitshell \/ exitcmd
  <2>1. C!Exit
    BY <1>0, <1>4, DoesExit DEF exitshell, exitcmd, Evaluates
  <2> QED
    BY <2>1 DEF C!Next
<1>5. CASE \/ evaltree_semi \/ evaltree_andor \/ evaltree_one \/ evalloop
           \/ \E e \in BOOLEAN : evaltree_if(e) \/ evalfor(e)
           \/ evalcommand_function \/ evalstring_next \/ evalstring_end
  <2>1. C!Resume \/ UNCHANGED C!vars \/ C!Land \/ C!GoOn
    BY <1>0, <1>5, DoesReturned
  <2> QED
    BY <2>1 DEF C!Next
<1>6. CASE cmdloop
  <2>1. C!NextCommand
    BY <1>0, <1>6, DoesNext
  <2> QED
    BY <2>1 DEF C!Next
<1>7. CASE onint
  <2>1. C!Abandon
    BY <1>0, <1>7, DoesAbandon
  <2> QED
    BY <2>1 DEF C!Next
<1>8. CASE UNCHANGED vars
  <2>1. UNCHANGED C!vars
    <3>1. UNCHANGED <<evalskip, skipcount, stack, pc, exitstatus, eflag>>
      BY <1>8 DEF vars, skips
    <3>2. Remaining' = Remaining /\ Phase' = Phase
      BY <1>0, <3>1, Mapped, MappedNext DEF MappedTo
    <3> QED
      BY <3>1, <3>2 DEF C!vars
  <2> QED
    BY <2>1
<1> QED
  BY <1>1, <1>2, <1>3, <1>4, <1>5, <1>6, <1>7, <1>8 DEF Next

LEMMA InitMaps ==
  ASSUME Init
  PROVE  C!Init
<1>1. EvalInv /\ evalskip = 0
  BY PlaceStarts DEF PlaceInv, Init
<1>2. Remaining = <<>> /\ Phase = "call"
  BY <1>1, EmptyPlain, Settles DEF Settled, Init
<1> QED
  BY <1>1, <1>2 DEF C!Init, Init

\* What evalskip and the flags of evaltree do step by step, where no gate
\* lets it go wrong, is the break, continue, return, subshell and -e that
\* Control describes, however deep the commands are inside one another.
THEOREM Refinement ==
  ASSUME Allowed = {}
  PROVE  Spec => Implements
<1>1. Init => C!Init
  BY InitMaps
<1>2. PlaceInv /\ PlaceInv' /\ Expanded /\ [Next]_vars => [C!Next]_(C!vars)
  BY StepMaps
<1>3. Init => Expanded
  BY DEF Init, Expanded
<1>4. PlaceInv /\ Expanded /\ [Next]_vars => Expanded'
  BY ExpandedStep DEF PlaceInv
<1>5. Spec => []PlaceInv
  BY PlaceInvariance
<1> QED
  BY <1>1, <1>2, <1>3, <1>4, <1>5, PTL DEF Spec, Implements, C!Spec

=============================================================================
