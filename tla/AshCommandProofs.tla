-------------------------- MODULE AshCommandProofs --------------------------
(***************************************************************************)
(* What is proved about the two tables ash keeps for its commands.         *)
(*                                                                         *)
(* The hash table (AshExec), for every PATH, every set of files and        *)
(* functions called to every depth: an entry that is not marked is what    *)
(* the search of PATH would find, and find_command finds what it would     *)
(* without its table (CommandSearch).                                      *)
(*                                                                         *)
(* The job table (AshJobs), for every number of pids, every table size and *)
(* every pipeline length.                                                  *)
(***************************************************************************)
EXTENDS AshExec, AshJobs, SequenceTheorems, WellFoundedInduction, TLAPS

-----------------------------------------------------------------------------
(* First positions *)

LEMMA HasMin == \A T : T \subseteq Nat /\ T # {} => \E x \in T : \A y \in T : x <= y
<1> DEFINE R == OpToRel(<, Nat)
<1>1. \A T : T \subseteq Nat /\ T # {} => \E x \in T : \A y \in T : ~ (<<y, x>> \in R)
  <2>1. IsWellFoundedOn(R, Nat)
    BY NatLessThanWellFounded
  <2> HIDE DEF R
  <2> QED
    BY <2>1, WFMin
<1>2. \A x, y \in Nat : <<y, x>> \in R <=> y < x
  BY DEF OpToRel
<1> HIDE DEF R
<1> SUFFICES ASSUME NEW T, T \subseteq Nat, T # {} PROVE \E x \in T : \A y \in T : x <= y
  OBVIOUS
<1>3. PICK x \in T : \A y \in T : ~ (<<y, x>> \in R)
  BY <1>1
<1>4. ASSUME NEW y \in T PROVE x <= y
  <2>1. x \in Nat /\ y \in Nat
    OBVIOUS
  <2>2. ~(y < x)
    BY <1>2, <1>3, <2>1
  <2> QED
    BY <2>1, <2>2
<1> QED
  BY <1>4

LEMMA MinFacts ==
  ASSUME NEW T, T \subseteq Nat, T # {}
  PROVE  Min(T) \in T /\ \A y \in T : Min(T) <= y
BY HasMin DEF Min

\* First: the least of a set of positions, 0 if there is none.
LEMMA FirstFacts ==
  ASSUME NEW m \in Nat, NEW T, T \subseteq 1 .. m
  PROVE  /\ First(T) \in 0 .. m
         /\ First(T) = 0 <=> T = {}
         /\ T # {} => First(T) \in T /\ \A y \in T : First(T) <= y
         /\ \A x \in T : (\A y \in T : x <= y) => First(T) = x
<1>0. T \subseteq Nat /\ \A y \in T : y \in Nat /\ 1 <= y /\ y <= m
  OBVIOUS
<1>1. T # {} => First(T) \in T /\ \A y \in T : First(T) <= y
  BY <1>0, MinFacts DEF First
<1>2. T = {} => First(T) = 0
  BY DEF First
<1>3. ASSUME NEW x \in T, \A y \in T : x <= y PROVE First(T) = x
  <2>1. First(T) \in T /\ First(T) <= x /\ x <= First(T)
    BY <1>1, <1>3
  <2>2. First(T) \in Nat /\ x \in Nat
    BY <1>0, <2>1
  <2> QED
    BY <2>1, <2>2
<1>4. ASSUME T # {} PROVE First(T) # 0 /\ First(T) \in 0 .. m
  <2>1. First(T) \in T
    BY <1>1, <1>4
  <2>2. First(T) \in Nat /\ 1 <= First(T) /\ First(T) <= m
    BY <1>0, <2>1
  <2> QED
    BY <2>2
<1> QED
  BY <1>1, <1>2, <1>3, <1>4

LEMMA PathFacts ==
  ASSUME NEW q \in Paths
  PROVE  /\ q \in Seq(Entries) /\ q # <<>> /\ Len(q) \in Nat /\ Len(q) # 0
         /\ DOMAIN q = 1 .. Len(q)
         /\ \A i \in 1 .. Len(q) : q[i] \in Entries
<1>1. q \in Seq(Entries) /\ q # <<>>
  BY SearchAssumption
<1> QED
  BY <1>1, LenProperties, ElementOfSeq, EmptySeq

LEMMA SearchFacts ==
  ASSUME NEW q \in Paths, NEW n, NEW d
  PROVE  /\ Search(n, q, d) \in 0 .. Len(q)
         /\ Search(n, q, d) = 0 => \A i \in 1 .. Len(q) : ~Holds(q[i], n, d)
         /\ Search(n, q, d) # 0 =>
              /\ Holds(q[Search(n, q, d)], n, d)
              /\ \A i \in 1 .. Len(q) : Holds(q[i], n, d) => Search(n, q, d) <= i
         /\ \A i \in 1 .. Len(q) :
              /\ Holds(q[i], n, d)
              /\ \A k \in 1 .. Len(q) : Holds(q[k], n, d) => i <= k
              => Search(n, q, d) = i
<1> DEFINE T == {i \in 1 .. Len(q) : Holds(q[i], n, d)}
<1>1. Len(q) \in Nat /\ Search(n, q, d) = First(T) /\ T \subseteq 1 .. Len(q)
  BY PathFacts DEF Search
<1>2. \A i : i \in T <=> i \in 1 .. Len(q) /\ Holds(q[i], n, d)
  OBVIOUS
<1> HIDE DEF T
<1> QED
  BY <1>1, <1>2, FirstFacts

LEMMA BltinFacts ==
  ASSUME NEW q \in Paths
  PROVE  /\ Bltin(q) \in 0 .. Len(q)
         /\ Bltin(q) = 0 => \A i \in 1 .. Len(q) : q[i].opt # "builtin"
         /\ Bltin(q) # 0 =>
              /\ q[Bltin(q)].opt = "builtin"
              /\ \A i \in 1 .. Len(q) : q[i].opt = "builtin" => Bltin(q) <= i
         /\ \A i \in 1 .. Len(q) :
              /\ q[i].opt = "builtin"
              /\ \A k \in 1 .. Len(q) : q[k].opt = "builtin" => i <= k
              => Bltin(q) = i
<1> DEFINE T == {i \in 1 .. Len(q) : q[i].opt = "builtin"}
<1>1. Len(q) \in Nat /\ Bltin(q) = First(T) /\ T \subseteq 1 .. Len(q)
  BY PathFacts DEF Bltin
<1>2. \A i : i \in T <=> i \in 1 .. Len(q) /\ q[i].opt = "builtin"
  OBVIOUS
<1> HIDE DEF T
<1> QED
  BY <1>1, <1>2, FirstFacts

\* Up to the first change two PATHs are the same.
LEMMA FirstChangeFacts ==
  ASSUME NEW old \in Paths, NEW new \in Paths
  PROVE  /\ FirstChange(old, new) \in 1 .. Len(new) + 1
         /\ \A i \in 1 .. FirstChange(old, new) - 1 :
              i \in 1 .. Len(old) /\ i \in 1 .. Len(new) /\ old[i] = new[i]
<1> DEFINE T == {i \in 1 .. Len(new) + 1 : i > Len(new) \/ i > Len(old) \/ old[i] # new[i]}
           c == FirstChange(old, new)
<1>1. Len(new) \in Nat /\ Len(old) \in Nat
  BY PathFacts
<1>2. \A i : i \in T <=> /\ i \in 1 .. Len(new) + 1
                         /\ i > Len(new) \/ i > Len(old) \/ old[i] # new[i]
  OBVIOUS
<1>3. c = Min(T)
  BY DEF FirstChange
<1> HIDE DEF T, c
<1>4. T \subseteq Nat /\ T # {}
  <2>1. Len(new) + 1 \in T
    BY <1>1, <1>2
  <2>2. \A i \in T : i \in Nat
    BY <1>1, <1>2
  <2> QED
    BY <2>1, <2>2
<1>5. c \in T /\ \A y \in T : c <= y
  BY <1>3, <1>4, MinFacts
<1>6. c \in 1 .. Len(new) + 1
  BY <1>2, <1>5
<1>7. ASSUME NEW i \in 1 .. c - 1
      PROVE  i \in 1 .. Len(old) /\ i \in 1 .. Len(new) /\ old[i] = new[i]
  <2>1. i \notin T /\ i \in 1 .. Len(new) + 1
    BY <1>1, <1>5, <1>6
  <2> QED
    BY <1>1, <1>2, <2>1
<1> QED
  BY <1>6, <1>7 DEF c

-----------------------------------------------------------------------------
(* The invariant *)

Entry_t == [type : {"none", "normal", "builtin", "function"}, index : Nat, rehash : BOOLEAN]

Frame == [kind : {"call"}, path : Paths \cup {<<>>}, exported : BOOLEAN]
             \cup [kind : {"read"}, name : Names]

Typed ==
    /\ path \in Paths /\ exported \in BOOLEAN /\ cwd \in Dirs
    /\ table \in [Names -> Entry_t]
    /\ builtinloc \in Nat
    /\ stack \in Seq(Frame) /\ Len(stack) <= MaxDepth

\* A position from which the search for n along q may go on as if it had begun
\* there, as far as directories are concerned that cd does not change.
Fixed(q, i) == q[i].opt # "builtin" /\ q[i].dir # Here

Leads(n, q, d, at) ==
    /\ at \in 1 .. Len(q)
    /\ \A i \in 1 .. Len(q) : i < at /\ Fixed(q, i) => ~Holds(q[i], n, d)
    /\ Fixed(q, at) => Holds(q[at], n, d)

\* What an entry of the table promises; an unmarked one is what Search finds.
Empty(e) == e.type = "none" /\ e.index = 0 /\ ~e.rehash

Function(e) == e.type = "function" /\ e.index = 0 /\ ~e.rehash

Normal(e, n, loc, q, d) ==
    /\ e.type = "normal"
    /\ e.index \in 1 .. Len(q) /\ q[e.index].opt = "none"
    /\ n \in Builtins => loc > 0
    /\ ~e.rehash => e.index = Search(n, q, d)
    /\ e.rehash => Leads(n, q, d, e.index)

Builtin(e, n, loc, q, d) ==
    /\ e.type = "builtin" /\ n \in Builtins
    /\ loc > 0 /\ ~e.rehash => loc = Search(n, q, d)
    /\ e.rehash => loc > 0 /\ Leads(n, q, d, loc)

Fits(e, n, loc, q, d) ==
    Empty(e) \/ Function(e) \/ Normal(e, n, loc, q, d) \/ Builtin(e, n, loc, q, d)

TableFits(t, loc, q, d) ==
    loc = Bltin(q) /\ \A n \in Names : t[n] \in Entry_t /\ Fits(t[n], n, loc, q, d)

ExecInv == Typed /\ TableFits(table, builtinloc, path, cwd)

-----------------------------------------------------------------------------
(* Entries *)

Marked(e, b) == [e EXCEPT !.rehash = b]

LEMMA MarkedFacts ==
  ASSUME NEW e \in Entry_t, NEW b \in BOOLEAN
  PROVE  /\ Marked(e, b) \in Entry_t
         /\ Marked(e, b).type = e.type /\ Marked(e, b).index = e.index
         /\ Marked(e, b).rehash = b
         /\ e.rehash = b => Marked(e, b) = e
BY DEF Entry_t, Marked

LEMMA UnmarkedFacts ==
  ASSUME NEW e \in Entry_t
  PROVE  /\ Marked(e, FALSE) \in Entry_t
         /\ Marked(e, FALSE).type = e.type /\ Marked(e, FALSE).index = e.index
         /\ ~Marked(e, FALSE).rehash
         /\ ~e.rehash => Marked(e, FALSE) = e
<1>1. PICK b \in BOOLEAN : b = FALSE
  OBVIOUS
<1>2. e.rehash \in BOOLEAN
  BY DEF Entry_t
<1>3. ~e.rehash => e.rehash = b
  BY <1>1, <1>2
<1>4. /\ Marked(e, b) \in Entry_t
      /\ Marked(e, b).type = e.type /\ Marked(e, b).index = e.index
      /\ Marked(e, b).rehash = b
      /\ e.rehash = b => Marked(e, b) = e
  BY MarkedFacts
<1> QED
  BY <1>1, <1>3, <1>4

LEMMA NewEntryFacts ==
  /\ NoEntry \in Entry_t /\ Empty(NoEntry)
  /\ \A t \in {"normal", "builtin"}, i \in Nat :
       /\ Entry(t, i) \in Entry_t
       /\ Entry(t, i).type = t /\ Entry(t, i).index = i /\ ~Entry(t, i).rehash
BY DEF NoEntry, Entry_t, Empty, Entry

\* What the search does not find elsewhere it finds at the position of the entry.
LEMMA SearchLeads ==
  ASSUME NEW q \in Paths, NEW n, NEW d, Search(n, q, d) # 0
  PROVE  Leads(n, q, d, Search(n, q, d))
<1>1. Search(n, q, d) \in 1 .. Len(q) /\ Len(q) \in Nat
  BY SearchFacts, PathFacts
<1>2. \A i \in 1 .. Len(q) : i < Search(n, q, d) => ~Holds(q[i], n, d)
  BY <1>1, SearchFacts
<1> QED
  BY <1>1, <1>2, SearchFacts DEF Leads

\* Skipping absolute directories up to where an entry leads makes no difference.
LEMMA StopIsSearch ==
  ASSUME NEW n, NEW prev, path \in Paths, prev = 0 \/ Leads(n, path, cwd, prev)
  PROVE  StopAt(n, prev) = Search(n, path, cwd)
<1>1. Len(path) \in Nat /\ DOMAIN path = 1 .. Len(path)
  BY PathFacts
<1>2. \A i \in 1 .. Len(path) :
        (IF Absolute(i) /\ i <= prev THEN i = prev ELSE Holds(path[i], n, cwd))
          <=> Holds(path[i], n, cwd)
  <2> SUFFICES ASSUME NEW i \in 1 .. Len(path), Absolute(i), i <= prev
               PROVE  i = prev <=> Holds(path[i], n, cwd)
    OBVIOUS
  <2>1. Leads(n, path, cwd, prev)
    OBVIOUS
  <2>2. prev \in Nat /\ i \in Nat
    BY <2>1, <1>1 DEF Leads
  <2>3. CASE i = prev
    BY <2>1, <2>3 DEF Leads, Absolute, Fixed
  <2>4. CASE i # prev
    <3>1. i < prev
      BY <2>2, <2>4
    <3> QED
      BY <2>1, <2>4, <3>1 DEF Leads, Absolute, Fixed
  <2> QED
    BY <2>3, <2>4
<1>3. {i \in DOMAIN path : IF Absolute(i) /\ i <= prev THEN i = prev ELSE Holds(path[i], n, cwd)}
        = {i \in DOMAIN path : Holds(path[i], n, cwd)}
  BY <1>1, <1>2
<1> QED
  BY <1>3 DEF StopAt, Search

\* What cd leaves of an entry that is marked.
LEMMA LeadsAnywhere ==
  ASSUME NEW q \in Paths, NEW n, NEW d, NEW e, NEW at, Leads(n, q, d, at)
  PROVE  Leads(n, q, e, at)
<1>1. \A i \in 1 .. Len(q) : Fixed(q, i) => (Holds(q[i], n, e) <=> Holds(q[i], n, d))
  BY DEF Fixed, Holds, padvance
<1> QED
  BY <1>1 DEF Leads

-----------------------------------------------------------------------------
(* Changing PATH *)

SameBefore(old, new, from) ==
    \A i \in Nat : 0 < i /\ i < from =>
        i \in 1 .. Len(old) /\ i \in 1 .. Len(new) /\ old[i] = new[i]

LEMMA SamePrefix ==
  ASSUME NEW old \in Paths, NEW new \in Paths, NEW n, NEW d, NEW from \in Int,
         SameBefore(old, new, from), NEW at \in Nat, 0 < at, at < from
  PROVE  /\ at = Search(n, old, d) => at = Search(n, new, d)
         /\ at = Bltin(old) => at = Bltin(new)
         /\ Leads(n, old, d, at) => Leads(n, new, d, at)
<1>1. Len(old) \in Nat /\ Len(new) \in Nat
  BY PathFacts
<1>2. at \in 1 .. Len(old) /\ at \in 1 .. Len(new) /\ at # 0 /\ old[at] = new[at]
  BY DEF SameBefore
<1>3. \A k \in 1 .. Len(new) : k < at => k \in 1 .. Len(old) /\ old[k] = new[k]
  <2> SUFFICES ASSUME NEW k \in 1 .. Len(new), k < at
               PROVE  k \in 1 .. Len(old) /\ old[k] = new[k]
    OBVIOUS
  <2>1. k \in Nat /\ 0 < k /\ k < from
    BY <1>1
  <2> QED
    BY <2>1 DEF SameBefore
<1>4. ASSUME at = Search(n, old, d) PROVE at = Search(n, new, d)
  <2>1. Holds(new[at], n, d)
    BY <1>2, <1>4, SearchFacts
  <2>2. ASSUME NEW k \in 1 .. Len(new), Holds(new[k], n, d) PROVE at <= k
    <3>1. ~(k < at)
      <4> SUFFICES ASSUME k < at PROVE FALSE
        OBVIOUS
      <4>1. k \in 1 .. Len(old) /\ Holds(old[k], n, d)
        BY <1>3, <2>2
      <4>2. at <= k
        BY <1>2, <1>4, <4>1, SearchFacts
      <4> QED
        BY <1>1, <4>2
    <3> QED
      BY <1>1, <3>1
  <2> QED
    BY <1>2, <2>1, <2>2, SearchFacts
<1>5. ASSUME at = Bltin(old) PROVE at = Bltin(new)
  <2>1. new[at].opt = "builtin"
    BY <1>2, <1>5, BltinFacts
  <2>2. ASSUME NEW k \in 1 .. Len(new), new[k].opt = "builtin" PROVE at <= k
    <3>1. ~(k < at)
      <4> SUFFICES ASSUME k < at PROVE FALSE
        OBVIOUS
      <4>1. k \in 1 .. Len(old) /\ old[k].opt = "builtin"
        BY <1>3, <2>2
      <4>2. at <= k
        BY <1>2, <1>5, <4>1, BltinFacts
      <4> QED
        BY <1>1, <4>2
    <3> QED
      BY <1>1, <3>1
  <2> QED
    BY <1>2, <2>1, <2>2, BltinFacts
<1>6. ASSUME Leads(n, old, d, at) PROVE Leads(n, new, d, at)
  BY <1>2, <1>3, <1>6 DEF Leads, Fixed
<1> QED
  BY <1>4, <1>5, <1>6

LEMMA ClearFacts ==
  ASSUME NEW t, NEW loc, NEW from, NEW n \in Names
  PROVE  LET r == clearcmdentry(t, loc, from)[n]
         IN  \/ r = NoEntry
             \/ /\ r = t[n]
                /\ t[n].type = "normal" => ~(t[n].index >= from)
                /\ t[n].type = "builtin" => ~(loc >= from)
BY DEF clearcmdentry

\* changepath: what is left in the table is right for the new PATH.
LEMMA ChangePathFits ==
  ASSUME NEW old \in Paths, NEW new \in Paths, NEW d, NEW t, NEW loc, TableFits(t, loc, old, d)
  PROVE  TableFits(changepath(t, loc, old, new).table, changepath(t, loc, old, new).loc, new, d)
<1> DEFINE bltin == Bltin(new)
           from == IF loc > 0 /\ bltin = 0 THEN 1 ELSE FirstChange(old, new)
           zap == ZapFrom(loc, bltin)
           r == clearcmdentry(t, zap, from)
<1>1. changepath(t, loc, old, new).table = r /\ changepath(t, loc, old, new).loc = bltin
  BY DEF changepath
<1>2. /\ loc = Bltin(old) /\ loc \in 0 .. Len(old) /\ bltin \in 0 .. Len(new)
      /\ Len(old) \in Nat /\ Len(new) \in Nat
  BY BltinFacts, PathFacts DEF TableFits
<1>3. from \in Int /\ (loc > 0 /\ bltin = 0 => from = 1)
  BY <1>2, FirstChangeFacts
<1>4. SameBefore(old, new, from)
  BY <1>3, FirstChangeFacts DEF SameBefore
<1>5. zap = IF loc = 0 /\ bltin > 0 THEN bltin ELSE loc
  BY DEF ZapFrom
<1>6. ASSUME NEW n \in Names PROVE r[n] \in Entry_t /\ Fits(r[n], n, bltin, new, d)
  <2>0. t[n] \in Entry_t /\ Fits(t[n], n, loc, old, d)
    BY DEF TableFits
  <2>1. \/ r[n] = NoEntry
        \/ /\ r[n] = t[n]
           /\ t[n].type = "normal" => ~(t[n].index >= from)
           /\ t[n].type = "builtin" => ~(zap >= from)
    BY ClearFacts
  <2> HIDE DEF r, zap, from
  <2>2. CASE r[n] = NoEntry
    BY <2>2, NewEntryFacts DEF Fits
  <2>3. CASE r[n] = t[n] /\ (Empty(t[n]) \/ Function(t[n]))
    BY <2>0, <2>3 DEF Fits
  <2>4. CASE r[n] = t[n] /\ r[n] # NoEntry /\ Normal(t[n], n, loc, old, d)
    <3> DEFINE at == t[n].index
    <3>1. at \in 1 .. Len(old) /\ ~(at >= from)
      BY <2>1, <2>4 DEF Normal
    <3>2. at \in Nat /\ 0 < at /\ at < from
      BY <1>2, <1>3, <3>1
    <3>3. at \in 1 .. Len(new) /\ new[at] = old[at]
      BY <1>4, <3>2 DEF SameBefore
    <3>4. /\ at = Search(n, old, d) => at = Search(n, new, d)
          /\ Leads(n, old, d, at) => Leads(n, new, d, at)
      BY <1>3, <1>4, <3>2, SamePrefix
    <3>5. loc > 0 => bltin > 0
      BY <1>2, <1>3, <3>2
    <3> HIDE DEF bltin
    <3> QED
      BY <2>0, <2>4, <3>3, <3>4, <3>5 DEF Fits, Normal
  <2>5. CASE r[n] = t[n] /\ r[n] # NoEntry /\ Builtin(t[n], n, loc, old, d)
    <3>1. ~(zap >= from) /\ zap \in Nat
      BY <1>2, <1>5, <2>1, <2>5 DEF Builtin
    <3>2. CASE loc > 0
      <4>1. bltin > 0 /\ loc \in Nat /\ 0 < loc /\ loc < from
        BY <1>2, <1>3, <1>5, <3>1, <3>2
      <4>2. /\ bltin = loc
            /\ loc = Search(n, old, d) => loc = Search(n, new, d)
            /\ Leads(n, old, d, loc) => Leads(n, new, d, loc)
        BY <1>2, <1>3, <1>4, <4>1, SamePrefix
      <4> QED
        BY <2>0, <2>5, <4>2 DEF Fits, Builtin
    <3>3. CASE loc = 0 /\ bltin > 0
      <4>1. bltin \in Nat /\ 0 < bltin /\ bltin < from
        BY <1>2, <1>3, <1>5, <3>1, <3>3
      <4>2. bltin \in 1 .. Len(old) /\ old[bltin] = new[bltin]
        BY <1>4, <4>1 DEF SameBefore
      <4>3. new[bltin].opt = "builtin"
        BY <1>2, <3>3, BltinFacts
      <4>4. \A i \in 1 .. Len(old) : old[i].opt # "builtin"
        BY <1>2, <3>3, BltinFacts
      <4> QED
        BY <4>2, <4>3, <4>4
    <3>4. CASE loc = 0 /\ bltin = 0
      BY <2>0, <2>5, <3>4 DEF Fits, Builtin
    <3> QED
      BY <1>2, <3>2, <3>3, <3>4
  <2> QED
    BY <2>0, <2>1, <2>2, <2>3, <2>4, <2>5 DEF Fits
<1> QED
  BY <1>1, <1>6 DEF TableFits

-----------------------------------------------------------------------------
(* find_command *)

LEMMA ResolveIs ==
  ASSUME ExecInv, NEW n \in Names
  PROVE  S!Resolve(n) =
           IF table[n].type = "function" THEN Found("function", n)
           ELSE IF n \in Builtins /\ builtinloc = 0 THEN Found("builtin", n)
           ELSE IF Search(n, path, cwd) = 0 THEN Found("unknown", n)
           ELSE IF path[Search(n, path, cwd)].opt = "none"
                THEN Program(n, padvance(path[Search(n, path, cwd)], cwd))
           ELSE Found(path[Search(n, path, cwd)].opt, n)
<1>1. S!Search(n, path, cwd) = Search(n, path, cwd) /\ S!Bltin(path) = Bltin(path)
  BY DEF S!Search, S!Bltin, S!First, S!Holds, S!padvance, S!Min,
         Search, Bltin, First, Holds, padvance, Min
<1>2. builtinloc = Bltin(path)
  BY DEF ExecInv, TableFits
<1>3. n \in {m \in Names : table[m].type = "function"} <=> table[n].type = "function"
  OBVIOUS
<1> QED
  BY <1>1, <1>2, <1>3 DEF S!Resolve, S!Found, S!Program, S!padvance, Found, Program, padvance

LEMMA ShellexecFacts ==
  ASSUME path \in Paths, NEW n, NEW i \in 1 .. Len(path), path[i].opt = "none",
         Holds(path[i], n, cwd)
  PROVE  shellexec(n, i) = Program(n, padvance(path[i], cwd))
<1> DEFINE T == {k \in i .. Len(path) :
                   path[k].opt = "none" /\ <<padvance(path[k], cwd), n>> \in Programs}
<1>1. Len(path) \in Nat
  BY PathFacts
<1>2. i \in T
  BY <1>1 DEF Holds
<1>3. T \subseteq 1 .. Len(path) /\ \A k \in T : i <= k
  BY <1>1
<1>4. First(T) = i
  <2> HIDE DEF T
  <2> QED
    BY <1>1, <1>2, <1>3, FirstFacts
<1>5. shellexec(n, i) = LET j == First(T)
                        IN  IF j = 0 THEN Found("unknown", n)
                            ELSE Program(n, padvance(path[j], cwd))
  BY DEF shellexec
<1> HIDE DEF T
<1> QED
  BY <1>4, <1>5

LEMMA NewTable ==
  ASSUME ExecInv, NEW n \in Names, NEW f \in Entry_t, Fits(f, n, builtinloc, path, cwd),
         table' = [table EXCEPT ![n] = f], path' = path, cwd' = cwd, builtinloc' = builtinloc
  PROVE  /\ table' \in [Names -> Entry_t]
         /\ TableFits(table', builtinloc', path', cwd')
<1>1. table \in [Names -> Entry_t]
  BY DEF ExecInv, Typed
<1>2. table' \in [Names -> Entry_t] /\ table'[n] = f
      /\ \A m \in Names : m # n => table'[m] = table[m]
  BY <1>1
<1> QED
  BY <1>2 DEF ExecInv, TableFits

LEMMA EntryFacts ==
  ASSUME ExecInv, NEW n \in Names
  PROVE  /\ table[n] \in Entry_t
         /\ Fits(table[n], n, builtinloc, path, cwd)
         /\ table[n].type \in {"none", "normal", "builtin", "function"}
         /\ table[n].rehash \in BOOLEAN
BY DEF ExecInv, TableFits, Entry_t

\* An entry of the table that is not marked is right, which is what find_command
\* takes it for.
LEMMA HitIsRight ==
  ASSUME ExecInv, NEW n \in Names, Hit(table[n])
  PROVE  /\ S!Resolve(n) = IF table[n].type = "normal" THEN shellexec(n, table[n].index)
                           ELSE Found(table[n].type, n)
         /\ S!Resolve(n).kind # "func"
<1> DEFINE e == table[n]
<1>0. path \in Paths /\ builtinloc = Bltin(path) /\ builtinloc \in Nat /\ Len(path) \in Nat
  BY PathFacts DEF ExecInv, Typed, TableFits
<1>k. \A k, d : Found(k, n).kind = k /\ Program(n, d).kind = "program"
  BY DEF Found, Program
<1> USE <1>k
<1>1. CASE Function(e)
  BY <1>1, ResolveIs DEF Function
<1>2. CASE Normal(e, n, builtinloc, path, cwd)
  <2>1. /\ e.type = "normal" /\ e.index = Search(n, path, cwd) /\ e.index \in 1 .. Len(path)
        /\ path[e.index].opt = "none" /\ (n \in Builtins => builtinloc # 0)
    BY <1>0, <1>2 DEF Normal, Hit
  <2>2. Holds(path[e.index], n, cwd) /\ e.index # 0
    BY <1>0, <2>1, SearchFacts
  <2>3. shellexec(n, e.index) = Program(n, padvance(path[e.index], cwd))
    BY <1>0, <2>1, <2>2, ShellexecFacts
  <2> QED
    BY <2>1, <2>2, <2>3, ResolveIs
<1>3. CASE Builtin(e, n, builtinloc, path, cwd)
  <2>1. e.type = "builtin" /\ n \in Builtins /\ ~e.rehash
    BY <1>3 DEF Builtin, Hit
  <2>2. CASE builtinloc = 0
    BY <2>1, <2>2, ResolveIs
  <2>3. CASE builtinloc > 0
    <3>1. builtinloc = Search(n, path, cwd) /\ path[builtinloc].opt = "builtin"
      BY <1>0, <1>3, <2>1, <2>3, BltinFacts DEF Builtin
    <3> QED
      BY <1>0, <2>1, <2>3, <3>1, ResolveIs
  <2> QED
    BY <1>0, <2>2, <2>3
<1> QED
  BY <1>1, <1>2, <1>3, EntryFacts DEF Fits, Empty, Hit

FunctionsKept ==
    \A m \in Names : table'[m].type = "function" <=> table[m].type = "function"

Answered(n) == found' = S!Resolve(n) /\ S!Resolve(n).kind # "func"

LEMMA FindStep ==
  ASSUME ExecInv, NEW n \in Names, NEW e,
         \/ e = table[n]
         \/ e = NoEntry /\ table[n].type \in {"normal", "builtin"},
         find_command(n, e)
  PROVE  ExecInv' /\ FunctionsKept /\ (Answered(n) \/ found' = NotFound)
<1>0. /\ path \in Paths /\ builtinloc = Bltin(path) /\ builtinloc \in Nat /\ Len(path) \in Nat
      /\ stack \in Seq(Frame) /\ Len(stack) <= MaxDepth /\ table \in [Names -> Entry_t]
  BY PathFacts DEF ExecInv, Typed, TableFits
<1>u. path' = path /\ exported' = exported /\ cwd' = cwd /\ builtinloc' = builtinloc
  BY DEF find_command
<1>e. e \in Entry_t /\ Fits(e, n, builtinloc, path, cwd)
  BY EntryFacts, NewEntryFacts DEF Fits
<1>k. \A k, d : Found(k, n).kind = k /\ Program(n, d).kind = "program"
  BY DEF Found, Program
<1>1. ASSUME NEW f \in Entry_t, Fits(f, n, builtinloc, path, cwd), table' = [table EXCEPT ![n] = f],
             f.type = "function" <=> table[n].type = "function",
             stack' \in Seq(Frame), Len(stack') <= MaxDepth
      PROVE  ExecInv' /\ FunctionsKept
  <2>1. table' \in [Names -> Entry_t] /\ TableFits(table', builtinloc', path', cwd')
    BY <1>1, <1>u, NewTable
  <2>2. FunctionsKept
    BY <1>0, <1>1 DEF FunctionsKept
  <2>3. ExecInv'
    BY <1>1, <1>u, <2>1 DEF ExecInv, Typed
  <2> QED
    BY <2>2, <2>3
<1>2. ASSUME NEW f \in Entry_t, Success(n, f),
             Fits(Marked(f, FALSE), n, builtinloc, path, cwd),
             f.type = "function" <=> table[n].type = "function"
      PROVE  /\ ExecInv' /\ FunctionsKept
             /\ found' = IF f.type = "normal" THEN shellexec(n, f.index) ELSE Found(f.type, n)
  <2>1. /\ Marked(f, FALSE) \in Entry_t /\ Marked(f, FALSE).type = f.type
        /\ table' = [table EXCEPT ![n] = Marked(f, FALSE)] /\ stack' = stack
    BY <1>2, UnmarkedFacts DEF Success, Marked
  <2> QED
    BY <1>0, <1>1, <1>2, <2>1 DEF Success
<1>3. CASE Hit(e)
  <2>1. e = table[n]
    BY <1>3, NewEntryFacts DEF Hit, Empty
  <2>2. Marked(e, FALSE) = e /\ e.type # "none"
    BY <1>3, <1>e, UnmarkedFacts DEF Hit
  <2> QED
    BY <1>2, <1>3, <1>e, <2>1, <2>2, HitIsRight DEF find_command, Answered
<1>f. ~Hit(e) => table[n].type # "function" /\ e.type # "function" /\ (Empty(e) \/ e = table[n])
  BY <1>e, EntryFacts, NewEntryFacts DEF Fits, Function, Normal, Builtin, Empty, Hit
<1>4. CASE ~Hit(e) /\ builtinloc = 0 /\ n \in Builtins
  <2> DEFINE f == Entry("builtin", 0)
  <2>1. f \in Entry_t /\ f.type = "builtin" /\ ~f.rehash /\ Marked(f, FALSE) = f
    BY NewEntryFacts, UnmarkedFacts
  <2>2. Success(n, f)
    BY <1>4 DEF find_command
  <2> HIDE DEF f
  <2>3. Fits(f, n, builtinloc, path, cwd)
    BY <1>4, <2>1 DEF Fits, Builtin
  <2>4. ExecInv' /\ FunctionsKept /\ found' = Found("builtin", n)
    BY <1>2, <1>4, <1>f, <2>1, <2>2, <2>3
  <2>5. S!Resolve(n) = Found("builtin", n)
    BY <1>4, <1>f, ResolveIs
  <2> QED
    BY <1>k, <2>4, <2>5 DEF Answered
<1>5. CASE ~Hit(e) /\ ~(builtinloc = 0 /\ n \in Builtins)
  <2> DEFINE i == Search(n, path, cwd)
  <2>1. PICK prev \in Prev(e) : SearchPath(n, e, prev)
    BY <1>5 DEF find_command
  <2>2. \/ prev = 0 /\ Empty(e)
        \/ /\ Leads(n, path, cwd, prev) /\ e = table[n]
           /\ \/ Normal(e, n, builtinloc, path, cwd) /\ prev = e.index
              \/ e.type = "builtin" /\ prev = builtinloc /\ builtinloc > 0
    <3>1. Empty(e) => prev = 0
      BY <2>1 DEF Prev, Empty
    <3>2. Normal(e, n, builtinloc, path, cwd) => prev = e.index /\ Leads(n, path, cwd, prev)
      BY <1>5, <2>1 DEF Prev, Normal, Hit
    <3>3. Builtin(e, n, builtinloc, path, cwd) =>
            /\ e.type = "builtin" /\ prev = builtinloc /\ builtinloc > 0
            /\ Leads(n, path, cwd, prev)
      BY <1>5, <2>1 DEF Prev, Builtin, Hit
    <3>4. ~Function(e)
      BY <1>5, <1>f DEF Function
    <3> QED
      BY <1>5, <1>e, <1>f, <3>1, <3>2, <3>3, <3>4 DEF Fits, Empty, Normal
  <2>3. StopAt(n, prev) = i
    BY <1>0, <2>2, StopIsSearch
  <2>4. /\ i \in 0 .. Len(path)
        /\ i # 0 => /\ Holds(path[i], n, cwd) /\ path[i] \in Entries
                    /\ path[i].opt \in {"none", "builtin", "func"}
    <3>1. i \in 0 .. Len(path) /\ (i # 0 => Holds(path[i], n, cwd))
      BY <1>0, SearchFacts
    <3>2. i # 0 => path[i] \in Entries
      BY <1>0, <3>1, PathFacts
    <3> QED
      BY <3>1, <3>2 DEF Entries
  <2>r. S!Resolve(n) =
           IF i = 0 THEN Found("unknown", n)
           ELSE IF path[i].opt = "none" THEN Program(n, padvance(path[i], cwd))
           ELSE Found(path[i].opt, n)
    BY <1>5, <1>f, ResolveIs
  <2> HIDE DEF i
  <2>5. CASE i = 0
    <3>1. Failure(n)
      BY <2>1, <2>3, <2>5 DEF SearchPath
    <3>2. NoEntry.type # "function" /\ Fits(NoEntry, n, builtinloc, path, cwd)
      BY NewEntryFacts DEF Fits, Empty
    <3>3. ExecInv' /\ FunctionsKept
      BY <1>0, <1>1, <1>5, <1>f, <3>1, <3>2, NewEntryFacts DEF Failure
    <3> QED
      BY <1>k, <2>5, <2>r, <3>1, <3>3 DEF Failure, Answered
  <2>6. CASE i # 0 /\ Absolute(i) /\ i = prev
    <3>1. Success(n, e)
      BY <2>1, <2>3, <2>6 DEF SearchPath
    <3>2. Normal(e, n, builtinloc, path, cwd) /\ e.index = i
      <4>1. builtinloc > 0 => path[builtinloc].opt = "builtin"
        BY <1>0, BltinFacts
      <4> QED
        BY <2>2, <2>6, <4>1 DEF Absolute
    <3>3. /\ Marked(e, FALSE) \in Entry_t /\ Marked(e, FALSE).type = e.type
          /\ Marked(e, FALSE).index = e.index /\ ~Marked(e, FALSE).rehash
      BY <1>e, UnmarkedFacts
    <3>4. Fits(Marked(e, FALSE), n, builtinloc, path, cwd)
      BY <3>2, <3>3 DEF Fits, Normal, i
    <3>5. ExecInv' /\ FunctionsKept /\ found' = shellexec(n, i)
      BY <1>2, <1>5, <1>e, <1>f, <3>1, <3>2, <3>4 DEF Normal
    <3>6. path[i].opt = "none" /\ i \in 1 .. Len(path)
      BY <3>2 DEF Normal
    <3>7. shellexec(n, i) = Program(n, padvance(path[i], cwd))
      BY <1>0, <2>4, <2>6, <3>6, ShellexecFacts
    <3> QED
      BY <1>k, <2>6, <2>r, <3>5, <3>6, <3>7 DEF Answered
  <2>7. CASE i # 0 /\ ~(Absolute(i) /\ i = prev) /\ path[i].opt = "func"
    <3>1. readcmdfile(n, e)
      BY <2>1, <2>3, <2>7 DEF SearchPath
    <3>2. stack' \in Seq(Frame) /\ Len(stack') <= MaxDepth
      <4>1. Reading(n) \in Frame
        BY DEF Reading, Frame
      <4>2. stack' \in Seq(Frame) /\ Len(stack') = Len(stack) + 1
        BY <1>0, <3>1, <4>1, AppendProperties DEF readcmdfile
      <4> QED
        BY <1>0, <3>1, <4>2, LenProperties, ExecAssumption DEF readcmdfile
    <3>3. ExecInv' /\ FunctionsKept
      BY <1>1, <1>5, <1>e, <1>f, <3>1, <3>2 DEF readcmdfile
    <3> QED
      BY <3>1, <3>3 DEF readcmdfile
  <2>8. CASE i # 0 /\ ~(Absolute(i) /\ i = prev) /\ path[i].opt # "func"
    <3> DEFINE f == IF path[i].opt = "none" THEN Entry("normal", i) ELSE Entry("builtin", 0)
    <3>1. Success(n, f)
      BY <2>1, <2>3, <2>8 DEF SearchPath
    <3>2. CASE path[i].opt = "none"
      <4> DEFINE g == Entry("normal", i)
      <4>1. /\ g \in Entry_t /\ g.type = "normal" /\ g.index = i /\ ~g.rehash
            /\ Marked(g, FALSE) = g
        <5>1. i \in Nat
          BY <1>0, <2>4
        <5>2. g \in Entry_t /\ g.type = "normal" /\ g.index = i /\ ~g.rehash
          BY <5>1, NewEntryFacts
        <5> QED
          BY <5>2, UnmarkedFacts
      <4>2. Success(n, g)
        BY <3>1, <3>2
      <4> HIDE DEF g, f
      <4>3. Fits(g, n, builtinloc, path, cwd)
        BY <1>0, <1>5, <2>4, <2>8, <3>2, <4>1 DEF Fits, Normal, i
      <4>4. ExecInv' /\ FunctionsKept /\ found' = shellexec(n, i)
        BY <1>2, <1>5, <1>f, <4>1, <4>2, <4>3
      <4>5. shellexec(n, i) = Program(n, padvance(path[i], cwd))
        BY <1>0, <2>4, <2>8, <3>2, ShellexecFacts
      <4> QED
        BY <1>k, <2>8, <2>r, <3>2, <4>4, <4>5 DEF Answered
    <3>3. CASE path[i].opt = "builtin"
      <4> DEFINE g == Entry("builtin", 0)
      <4>1. g \in Entry_t /\ g.type = "builtin" /\ ~g.rehash /\ Marked(g, FALSE) = g
        BY NewEntryFacts, UnmarkedFacts
      <4>2. Success(n, g)
        BY <3>1, <3>3
      <4> HIDE DEF g, f
      <4>3. n \in Builtins
        BY <2>4, <2>8, <3>3 DEF Holds
      <4>4. builtinloc = i
        <5>1. ASSUME NEW k \in 1 .. Len(path), path[k].opt = "builtin" PROVE i <= k
          <6>1. Holds(path[k], n, cwd)
            BY <4>3, <5>1 DEF Holds
          <6> QED
            BY <1>0, <2>8, <6>1, SearchFacts DEF i
        <5> QED
          BY <1>0, <2>4, <2>8, <3>3, <5>1, BltinFacts
      <4>5. Fits(g, n, builtinloc, path, cwd)
        BY <4>1, <4>3, <4>4 DEF Fits, Builtin, i
      <4>6. ExecInv' /\ FunctionsKept /\ found' = Found("builtin", n)
        BY <1>2, <1>5, <1>f, <4>1, <4>2, <4>5
      <4> QED
        BY <1>k, <2>8, <2>r, <3>3, <4>6 DEF Answered
    <3> QED
      BY <2>4, <2>8, <3>2, <3>3
  <2> QED
    BY <2>5, <2>6, <2>7, <2>8
<1> QED
  BY <1>3, <1>4, <1>5

-----------------------------------------------------------------------------
(* The other steps *)

\* hash -r, and the part of changepath that deletes, forget no function.
LEMMA ClearKeepsFunctions ==
  ASSUME ExecInv, NEW loc, NEW from, NEW n \in Names
  PROVE  clearcmdentry(table, loc, from)[n].type = "function" <=> table[n].type = "function"
BY ClearFacts DEF clearcmdentry, NoEntry

LEMMA ForgetStep ==
  ASSUME ExecInv, hash_r
  PROVE  ExecInv' /\ FunctionsKept
<1> DEFINE r == clearcmdentry(table, builtinloc, 1)
<1>1. table' = r /\ UNCHANGED <<path, exported, cwd, builtinloc, stack>>
  BY DEF hash_r
<1>2. ASSUME NEW n \in Names PROVE r[n] \in Entry_t /\ Fits(r[n], n, builtinloc, path, cwd)
  BY ClearFacts, EntryFacts, NewEntryFacts DEF Fits
<1>3. r = [n \in Names |-> r[n]]
  BY DEF clearcmdentry
<1>4. FunctionsKept
  BY <1>1, ClearKeepsFunctions DEF FunctionsKept
<1> HIDE DEF r
<1>5. table' \in [Names -> Entry_t]
  BY <1>1, <1>2, <1>3
<1> QED
  BY <1>1, <1>2, <1>4, <1>5 DEF ExecInv, Typed, TableFits

LEMMA cdStep ==
  ASSUME ExecInv, cd
  PROVE  ExecInv' /\ FunctionsKept
<1> DEFINE r == hashcd(table)
<1>0. path \in Paths /\ builtinloc = Bltin(path) /\ builtinloc \in Nat
  BY DEF ExecInv, Typed, TableFits
<1>1. table' = r /\ UNCHANGED <<path, exported, builtinloc, stack>> /\ cwd' \in Dirs
  BY DEF cd
<1>t. PICK b \in BOOLEAN : b = TRUE
  OBVIOUS
<1>2. ASSUME NEW n \in Names
      PROVE  /\ r[n] \in Entry_t /\ Fits(r[n], n, builtinloc, path, cwd')
             /\ r[n].type = table[n].type
  <2> DEFINE e == table[n]
  <2>1. r[n] = IF e.type = "normal" \/ (e.type = "builtin" /\ builtinloc > 0) THEN Marked(e, b) ELSE e
    BY <1>t DEF hashcd, Marked
  <2>2. e \in Entry_t /\ Fits(e, n, builtinloc, path, cwd)
    BY EntryFacts
  <2>3. /\ Marked(e, b) \in Entry_t /\ Marked(e, b).type = e.type
        /\ Marked(e, b).index = e.index /\ Marked(e, b).rehash
    BY <1>t, <2>2, MarkedFacts
  <2> HIDE DEF r, e
  <2>4. CASE Empty(e) \/ Function(e)
    BY <2>1, <2>2, <2>4 DEF Fits, Empty, Function, e
  <2>5. CASE Normal(e, n, builtinloc, path, cwd)
    <3>1. r[n] = Marked(e, b) /\ e.index # 0
      BY <1>0, <2>1, <2>5, PathFacts DEF Normal
    <3>2. Leads(n, path, cwd, e.index)
      BY <1>0, <2>5, <3>1, SearchLeads DEF Normal
    <3>3. Leads(n, path, cwd', e.index)
      BY <1>0, <3>2, LeadsAnywhere
    <3>4. Normal(r[n], n, builtinloc, path, cwd')
      BY <2>3, <2>5, <3>1, <3>3 DEF Normal
    <3> QED
      BY <2>3, <3>1, <3>4 DEF Fits, e
  <2>6. CASE Builtin(e, n, builtinloc, path, cwd) /\ builtinloc = 0
    BY <2>1, <2>2, <2>6 DEF Fits, Builtin, e
  <2>7. CASE Builtin(e, n, builtinloc, path, cwd) /\ builtinloc > 0
    <3>1. r[n] = Marked(e, b)
      BY <2>1, <2>7 DEF Builtin
    <3>2. Leads(n, path, cwd, builtinloc)
      BY <1>0, <2>7, SearchLeads DEF Builtin
    <3>3. Leads(n, path, cwd', builtinloc)
      BY <1>0, <3>2, LeadsAnywhere
    <3>4. Builtin(r[n], n, builtinloc, path, cwd')
      BY <2>3, <2>7, <3>1, <3>3 DEF Builtin
    <3> QED
      BY <2>3, <3>1, <3>4 DEF Fits, e
  <2> QED
    BY <1>0, <2>2, <2>4, <2>5, <2>6, <2>7 DEF Fits
<1>3. r = [n \in Names |-> r[n]]
  BY DEF hashcd
<1> HIDE DEF r
<1>4. table' \in [Names -> Entry_t]
  BY <1>1, <1>2, <1>3
<1> QED
  BY <1>0, <1>1, <1>2, <1>4 DEF ExecInv, Typed, TableFits, FunctionsKept

LEMMA setvareqStep ==
  ASSUME ExecInv, NEW p \in Paths, setvareq(p), cwd' = cwd, stack' = stack, exported' \in BOOLEAN
  PROVE  ExecInv' /\ FunctionsKept
<1> DEFINE c == changepath(table, builtinloc, path, p)
<1>1. path' = p /\ table' = c.table /\ builtinloc' = c.loc
  BY DEF setvareq
<1>2. path \in Paths /\ TableFits(table, builtinloc, path, cwd)
  BY DEF ExecInv, Typed
<1>3. TableFits(c.table, c.loc, p, cwd)
  BY <1>2, ChangePathFits
<1>4. c.table = [n \in Names |-> c.table[n]] /\ c.loc \in Nat
  <2>1. c.loc \in 0 .. Len(p) /\ Len(p) \in Nat
    BY BltinFacts, PathFacts DEF changepath
  <2> QED
    BY <2>1 DEF changepath, clearcmdentry
<1>5. FunctionsKept
  BY <1>1, ClearKeepsFunctions DEF FunctionsKept, changepath
<1> HIDE DEF c
<1>6. table' \in [Names -> Entry_t]
  BY <1>1, <1>3, <1>4 DEF TableFits
<1> QED
  BY <1>1, <1>3, <1>4, <1>5, <1>6 DEF ExecInv, Typed

LEMMA StackFacts ==
  ASSUME ExecInv, stack # <<>>
  PROVE  /\ Last(stack) \in Frame /\ Front(stack) \in Seq(Frame)
         /\ Len(Front(stack)) <= MaxDepth
         /\ <<Last(stack)>> \in Seq(Frame)
<1>1. stack \in Seq(Frame) /\ Len(stack) \in Nat /\ Len(stack) # 0 /\ Len(stack) <= MaxDepth
  BY LenProperties, EmptySeq DEF ExecInv, Typed
<1>2. Last(stack) \in Frame
  BY <1>1, ElementOfSeq DEF Last
<1>3. Front(stack) \in Seq(Frame) /\ Len(Front(stack)) = Len(stack) - 1
  <2>1. PICK k \in Nat \ {0} : k = Len(stack)
    BY <1>1
  <2>2. \A i \in 1 .. k - 1 : stack[i] \in Frame
    BY <1>1, <2>1, ElementOfSeq
  <2>3. /\ SubSeq(stack, 1, k - 1) \in Seq(Frame)
        /\ Len(SubSeq(stack, 1, k - 1)) = IF 1 <= k - 1 THEN (k - 1) - 1 + 1 ELSE 0
    BY <2>2, SubSeqProperties
  <2>4. (IF 1 <= k - 1 THEN (k - 1) - 1 + 1 ELSE 0) = k - 1
    OBVIOUS
  <2> QED
    BY <2>1, <2>3, <2>4 DEF Front
<1> QED
  BY <1>1, <1>2, <1>3, ExecAssumption

LEMMA FrameFacts ==
  ASSUME NEW f \in Frame, f.kind = "call"
  PROVE  /\ f \in [kind : {"call"}, path : Paths \cup {<<>>}, exported : BOOLEAN]
         /\ f.path # <<>> => f.path \in Paths
         /\ f.exported \in BOOLEAN
BY DEF Frame

LEMMA OutermostFacts ==
  ASSUME NEW s \in Seq(Frame), Saved(s) # {}
  PROVE  Outermost(s).path \in Paths /\ Outermost(s).exported \in BOOLEAN
<1>1. DOMAIN s = 1 .. Len(s) /\ Len(s) \in Nat
  BY LenProperties
<1>2. Saved(s) \subseteq Nat /\ \A k \in Saved(s) : k \in 1 .. Len(s)
  BY <1>1 DEF Saved
<1>3. Min(Saved(s)) \in Saved(s)
  BY <1>2, MinFacts
<1>4. Outermost(s) \in Frame /\ Outermost(s).kind = "call" /\ Outermost(s).path # <<>>
  BY <1>2, <1>3, ElementOfSeq DEF Saved, Outermost
<1> QED
  BY <1>4, FrameFacts

\* What poplocalvars restores is what the table would be right for as it is.
LEMMA PopFits ==
  ASSUME ~StalePath, ExecInv, NEW s \in Seq(Frame), poplocalvars(s)
  PROVE  /\ path' \in Paths /\ exported' \in BOOLEAN
         /\ TableFits(table, builtinloc, path', cwd)
<1>1. CASE Saved(s) = {}
  BY <1>1 DEF poplocalvars, ExecInv, Typed
<1>2. CASE Saved(s) # {}
  <2> DEFINE q == Outermost(s).path
             c == changepath(table, builtinloc, path, q)
  <2>1. q \in Paths /\ Outermost(s).exported \in BOOLEAN
    BY <1>2, OutermostFacts
  <2>2. path' = q /\ exported' = Outermost(s).exported
        /\ c = [table |-> table, loc |-> builtinloc]
    BY <1>2 DEF poplocalvars, Unaffected
  <2>3. TableFits(c.table, c.loc, q, cwd)
    BY <2>1, ChangePathFits DEF ExecInv, Typed
  <2>4. c.table = table /\ c.loc = builtinloc
    BY <2>2
  <2> HIDE DEF c, q
  <2> QED
    BY <2>1, <2>2, <2>3, <2>4
<1> QED
  BY <1>1, <1>2

LEMMA LeaveStep ==
  ASSUME ~StalePath, ExecInv, FunctionReturns \/ Unwind
  PROVE  ExecInv' /\ FunctionsKept
<1>1. /\ stack # <<>> /\ table' = table /\ cwd' = cwd /\ builtinloc' = builtinloc
      /\ \/ poplocalvars(<<Last(stack)>>) /\ stack' = Front(stack)
         \/ poplocalvars(stack) /\ stack' = <<>>
  BY DEF FunctionReturns, Unwind
<1>2. stack' \in Seq(Frame) /\ Len(stack') <= MaxDepth
  <2>1. CASE stack' = Front(stack)
    BY <1>1, <2>1, StackFacts
  <2>2. CASE stack' = <<>>
    <3>1. <<>> \in Seq(Frame) /\ Len(<<>>) = 0
      BY EmptySeq
    <3> QED
      BY <2>2, <3>1, ExecAssumption
  <2> QED
    BY <1>1, <2>1, <2>2
<1>3. path' \in Paths /\ exported' \in BOOLEAN /\ TableFits(table, builtinloc, path', cwd)
  <2>1. stack \in Seq(Frame)
    BY DEF ExecInv, Typed
  <2> QED
    BY <1>1, <2>1, StackFacts, PopFits
<1> QED
  BY <1>1, <1>2, <1>3 DEF ExecInv, Typed, FunctionsKept

LEMMA QuietStep ==
  ASSUME ExecInv, export \/ CallFunction \/ mklocal
  PROVE  ExecInv' /\ FunctionsKept
<1>1. /\ table' = table /\ cwd' = cwd /\ builtinloc' = builtinloc /\ path' = path
      /\ exported' \in BOOLEAN
  BY DEF export, CallFunction, mklocal, ExecInv, Typed
<1>s. stack \in Seq(Frame) /\ Len(stack) \in Nat /\ Len(stack) <= MaxDepth /\ DOMAIN stack = 1 .. Len(stack)
  BY LenProperties DEF ExecInv, Typed
<1>2. stack' \in Seq(Frame) /\ Len(stack') <= MaxDepth
  <2>1. CASE export
    BY <1>s, <2>1 DEF export
  <2>2. CASE CallFunction
    <3>1. Call \in Frame
      BY DEF Call, Frame
    <3>2. stack' \in Seq(Frame) /\ Len(stack') = Len(stack) + 1
      BY <1>s, <2>2, <3>1, AppendProperties DEF CallFunction
    <3> QED
      BY <1>s, <2>2, <3>2, ExecAssumption DEF CallFunction
  <2>3. CASE mklocal
    <3> DEFINE new == [stack[Len(stack)] EXCEPT !.path = path, !.exported = exported]
    <3>1. stack # <<>> /\ Last(stack).kind = "call" /\ stack' = [stack EXCEPT ![Len(stack)] = new]
      BY <2>3 DEF mklocal
    <3>2. Last(stack) \in [kind : {"call"}, path : Paths \cup {<<>>}, exported : BOOLEAN]
      BY <3>1, StackFacts, FrameFacts
    <3>3. new \in Frame
      BY <3>2 DEF Last, Frame, ExecInv, Typed
    <3>4. Len(stack) \in 1 .. Len(stack)
      BY <1>s, <3>1, EmptySeq
    <3> HIDE DEF new
    <3> QED
      BY <1>s, <3>1, <3>3, <3>4, ExceptSeq
  <2> QED
    BY <2>1, <2>2, <2>3
<1> QED
  BY <1>1, <1>2 DEF ExecInv, Typed, FunctionsKept

LEMMA defunStep ==
  ASSUME ~StaleMark, ExecInv, NEW n \in Names, defun(n)
  PROVE  /\ ExecInv'
         /\ \A m \in Names : table'[m].type = "function" <=> table[m].type = "function" \/ m = n
<1> DEFINE f == [table[n] EXCEPT !.type = "function", !.index = 0]
<1>1. /\ table' = [table EXCEPT ![n] = f] /\ ~table[n].rehash
      /\ UNCHANGED <<path, exported, cwd, builtinloc, stack>>
  BY DEF defun
<1>2. f \in Entry_t /\ Function(f)
  BY <1>1, EntryFacts DEF Entry_t, Function
<1> HIDE DEF f
<1>3. table' \in [Names -> Entry_t] /\ TableFits(table', builtinloc', path', cwd')
  BY <1>1, <1>2, NewTable DEF Fits
<1>4. ExecInv'
  BY <1>1, <1>3 DEF ExecInv, Typed
<1> QED
  BY <1>1, <1>2, <1>4 DEF ExecInv, Typed, Function

LEMMA unsetfuncStep ==
  ASSUME ExecInv, NEW n \in Names, unsetfunc(n)
  PROVE  /\ ExecInv'
         /\ \A m \in Names : table'[m].type = "function" <=> table[m].type = "function" /\ m # n
<1>1. table' = [table EXCEPT ![n] = NoEntry] /\ UNCHANGED <<path, exported, cwd, builtinloc, stack>>
  BY DEF unsetfunc
<1>2. table' \in [Names -> Entry_t] /\ TableFits(table', builtinloc', path', cwd')
  BY <1>1, NewEntryFacts, NewTable DEF Fits
<1>3. ExecInv'
  BY <1>1, <1>2 DEF ExecInv, Typed
<1> QED
  BY <1>1, <1>3, NewEntryFacts DEF ExecInv, Typed, Empty

LEMMA ReadDoneStep ==
  ASSUME ExecInv, ReadDone
  PROVE  ExecInv' /\ FunctionsKept /\ \E n \in Names : Answered(n)
<1> DEFINE n == Last(stack).name
<1>1. /\ stack # <<>> /\ Last(stack).kind = "read" /\ table[n].type = "function"
      /\ table' = [table EXCEPT ![n].rehash = FALSE] /\ found' = Found("function", n)
      /\ stack' = Front(stack) /\ UNCHANGED <<path, exported, cwd, builtinloc>>
  BY DEF ReadDone
<1>2. n \in Names
  BY <1>1, StackFacts DEF Frame
<1>3. Function(table[n])
  BY <1>1, <1>2, EntryFacts DEF Fits, Empty, Normal, Builtin
<1> HIDE DEF n
<1>4. table' = [table EXCEPT ![n] = Marked(table[n], FALSE)]
  BY <1>1 DEF Marked
<1>5. Marked(table[n], FALSE) = table[n]
  BY <1>2, <1>3, EntryFacts, UnmarkedFacts DEF Function
<1>6. table' = table
  BY <1>4, <1>5 DEF ExecInv, Typed
<1>7. Answered(n)
  BY <1>1, <1>2, ResolveIs DEF Answered, Found
<1>8. ExecInv'
  BY <1>1, <1>6, StackFacts DEF ExecInv, Typed
<1> QED
  BY <1>2, <1>6, <1>7, <1>8 DEF FunctionsKept

NoFunctionIn(t) == \A m \in Names : t[m].type # "function"

\* deletefuncs keeps the rest of a table as it is.
LEMMA NoFunctionsFits ==
  ASSUME NEW t, NEW loc, NEW q, NEW d, TableFits(t, loc, q, d), NEW u,
         u = [n \in Names |-> IF t[n].type = "function" THEN NoEntry ELSE t[n]]
  PROVE  TableFits(u, loc, q, d) /\ NoFunctionIn(u) /\ u \in [Names -> Entry_t]
<1>1. ASSUME NEW n \in Names
      PROVE  /\ u[n] \in Entry_t /\ Fits(u[n], n, loc, q, d) /\ u[n].type # "function"
  <2>1. CASE t[n].type = "function"
    BY <2>1, NewEntryFacts DEF Fits, Empty
  <2>2. CASE t[n].type # "function"
    BY <2>2 DEF TableFits
  <2> QED
    BY <2>1, <2>2
<1> QED
  BY <1>1 DEF TableFits, NoFunctionIn

\* The child of a shell procedure: its PATH is what its table is right for.
LEMMA ShellProcStep ==
  ASSUME ~StalePath, ExecInv, ShellProc
  PROVE  ExecInv' /\ NoFunctionIn(table') /\ found' = NotFound
<1> DEFINE c(assigned, q) ==
             IF assigned THEN changepath(table, builtinloc, path, q)
             ELSE [table |-> table, loc |-> builtinloc]
           t(assigned, q) ==
             [n \in Names |-> IF c(assigned, q).table[n].type = "function" THEN NoEntry
                              ELSE c(assigned, q).table[n]]
           p(assigned, q) == IF assigned THEN q ELSE path
           r(assigned, q) ==
             IF Saved(stack) # {} THEN Outermost(stack).path
             ELSE IF assigned \/ exported THEN p(assigned, q)
             ELSE DefaultPath
<1>1. PICK a \in BOOLEAN, q \in Paths :
        /\ Unaffected(t(a, q), c(a, q).loc, p(a, q), r(a, q))
        /\ path' = r(a, q)
        /\ exported' = IF Saved(stack) # {} THEN Outermost(stack).exported ELSE a \/ exported
        /\ table' = t(a, q)
        /\ builtinloc' = c(a, q).loc
  BY DEF ShellProc
<1>2. stack' = <<>> /\ found' = NotFound /\ cwd' = cwd
  BY DEF ShellProc
<1>3. path \in Paths /\ TableFits(table, builtinloc, path, cwd) /\ stack \in Seq(Frame)
      /\ exported \in BOOLEAN
  BY DEF ExecInv, Typed
<1>4. p(a, q) \in Paths /\ TableFits(c(a, q).table, c(a, q).loc, p(a, q), cwd)
  <2>1. CASE a
    BY <1>3, <2>1, ChangePathFits
  <2>2. CASE ~a
    BY <1>3, <2>2
  <2> QED
    BY <2>1, <2>2
<1>5. r(a, q) \in Paths
  BY <1>3, <1>4, OutermostFacts, ExecAssumption
<1>6. exported' \in BOOLEAN
  BY <1>1, <1>3, OutermostFacts
<1> DEFINE u == t(a, q)
           v == changepath(u, c(a, q).loc, p(a, q), r(a, q))
<1>7. TableFits(u, c(a, q).loc, p(a, q), cwd) /\ NoFunctionIn(u) /\ u \in [Names -> Entry_t]
  <2> HIDE DEF c, p
  <2> QED
    BY <1>4, NoFunctionsFits
<1>8. TableFits(v.table, v.loc, r(a, q), cwd)
  <2> HIDE DEF t, c, p, r, u
  <2> QED
    BY <1>4, <1>5, <1>7, ChangePathFits DEF u
<1>9. v = [table |-> u, loc |-> c(a, q).loc]
  <2> HIDE DEF t, c, p, r
  <2> QED
    BY <1>1 DEF Unaffected
<1>10. TableFits(table', builtinloc', path', cwd')
  <2> HIDE DEF t, c, p, r
  <2>1. v.table = u /\ v.loc = c(a, q).loc
    BY <1>9
  <2> QED
    BY <1>1, <1>2, <1>8, <2>1
<1>11. builtinloc' \in Nat
  BY <1>1, <1>5, <1>10, BltinFacts, PathFacts DEF TableFits
<1>12. <<>> \in Seq(Frame) /\ Len(<<>>) = 0
  BY EmptySeq
<1> HIDE DEF t, c, p, r
<1> QED
  BY <1>1, <1>2, <1>3, <1>5, <1>6, <1>7, <1>10, <1>11, <1>12, ExecAssumption DEF ExecInv, Typed

-----------------------------------------------------------------------------
(* The specification *)

\* The table is empty, and builtinloc is that of the PATH it starts with.
LEMMA Starts ==
  ASSUME ~NoPath, ExecInit
  PROVE  ExecInv
<1>1. /\ cwd \in Dirs /\ table = [n \in Names |-> NoEntry] /\ stack = <<>> /\ path \in Paths
      /\ exported = TRUE /\ builtinloc = Bltin(path)
  BY DEF ExecInit
<1>2. builtinloc \in Nat
  BY <1>1, BltinFacts, PathFacts
<1>3. <<>> \in Seq(Frame) /\ Len(<<>>) = 0
  BY EmptySeq
<1>4. TableFits(table, builtinloc, path, cwd)
  BY <1>1, NewEntryFacts DEF TableFits, Fits
<1> QED
  BY <1>1, <1>2, <1>3, <1>4, NewEntryFacts, ExecAssumption DEF ExecInv, Typed

\* find_command is called with the entry of the name, or with none once hash has
\* deleted that of a program or a builtin.
LEMMA SearchStep ==
  ASSUME ExecInv, NEW n \in Names, Lookup(n) \/ hashcmd(n)
  PROVE  ExecInv' /\ FunctionsKept /\ (Answered(n) \/ found' = NotFound)
<1>1. CASE Lookup(n)
  BY <1>1, FindStep DEF Lookup
<1>2. CASE hashcmd(n)
  <2>1. CASE table[n].type = "normal" \/ (table[n].type = "builtin" /\ builtinloc > 0)
    BY <1>2, <2>1, FindStep DEF hashcmd
  <2>2. CASE ~(table[n].type = "normal" \/ (table[n].type = "builtin" /\ builtinloc > 0))
    BY <1>2, <2>2, FindStep DEF hashcmd
  <2> QED
    BY <2>1, <2>2
<1> QED
  BY <1>1, <1>2

\* Both assignments to PATH.
LEMMA AssignStep ==
  ASSUME ExecInv, Assign \/ unsetvar
  PROVE  ExecInv' /\ FunctionsKept
<1>1. PICK p \in Paths : setvareq(p) /\ cwd' = cwd /\ stack' = stack /\ exported' \in BOOLEAN
  BY DEF Assign, unsetvar, ExecInv, Typed
<1> QED
  BY <1>1, setvareqStep

LEMMA StepInv ==
  ASSUME ~StalePath, ~StaleMark, ExecInv, [ExecNext]_ExecVars
  PROVE  ExecInv'
<1>1. CASE hash_r
  BY <1>1, ForgetStep
<1>2. CASE cd
  BY <1>2, cdStep
<1>3. CASE Assign \/ unsetvar
  BY <1>3, AssignStep
<1>4. CASE export \/ CallFunction \/ mklocal
  BY <1>4, QuietStep
<1>5. CASE FunctionReturns \/ Unwind
  BY <1>5, LeaveStep
<1>6. CASE ReadDone
  BY <1>6, ReadDoneStep
<1>7. CASE ShellProc
  BY <1>7, ShellProcStep
<1>8. ASSUME NEW n \in Names, Lookup(n) \/ hashcmd(n) PROVE ExecInv'
  BY <1>8, SearchStep
<1>9. ASSUME NEW n \in Names, defun(n) PROVE ExecInv'
  BY <1>9, defunStep
<1>10. ASSUME NEW n \in Names, unsetfunc(n) PROVE ExecInv'
  BY <1>10, unsetfuncStep
<1>11. CASE UNCHANGED ExecVars
  BY <1>11 DEF ExecVars, ExecInv, Typed, TableFits
<1> QED
  BY <1>1, <1>2, <1>3, <1>4, <1>5, <1>6, <1>7, <1>8, <1>9, <1>10, <1>11 DEF ExecNext

\* Whatever is called, cd'd to and assigned, each entry of the table promises what
\* its kind and its mark say.
THEOREM Invariance ==
  ASSUME ~NoPath, ~StalePath, ~StaleMark
  PROVE  ExecSpec => []ExecInv
<1>1. ExecInit => ExecInv
  BY Starts
<1>2. ExecInv /\ [ExecNext]_ExecVars => ExecInv'
  BY StepInv
<1> QED
  BY <1>1, <1>2, PTL DEF ExecSpec

\* cmdtable, builtinloc and the frames of local variables always hold values of
\* their types, and no more frames than the bound.
THEOREM ExecTypeCorrect ==
  ASSUME ~NoPath, ~StalePath, ~StaleMark
  PROVE  ExecSpec => []ExecTypeOK
<1>1. ExecInv => ExecTypeOK
  BY DEF ExecInv, Typed, ExecTypeOK, Entry_t
<1> QED
  BY <1>1, Invariance, PTL

\* cmdlookup: an entry that is not marked rehash is what a search of PATH from its
\* beginning finds in the current directory.
THEOREM TableIsRight ==
  ASSUME ~NoPath, ~StalePath, ~StaleMark
  PROVE  ExecSpec => []HashedIsFound
<1>1. ExecInv => HashedIsFound
  <2> SUFFICES ASSUME ExecInv, NEW n \in Names, Hit(table[n])
               PROVE  CASE table[n].type = "normal" ->
                              /\ n \in Builtins => builtinloc > 0
                              /\ table[n].index = Search(n, path, cwd)
                              /\ path[table[n].index].opt = "none"
                        [] table[n].type = "builtin" ->
                              /\ n \in Builtins
                              /\ builtinloc > 0 => builtinloc = Search(n, path, cwd)
                        [] OTHER -> TRUE
    BY DEF HashedIsFound
  <2>1. Fits(table[n], n, builtinloc, path, cwd) /\ ~table[n].rehash
    BY EntryFacts DEF Hit
  <2>2. CASE table[n].type = "normal"
    BY <2>1, <2>2 DEF Fits, Empty, Function, Normal, Builtin
  <2>3. CASE table[n].type = "builtin"
    BY <2>1, <2>3 DEF Fits, Empty, Function, Normal, Builtin
  <2>4. CASE table[n].type # "normal" /\ table[n].type # "builtin"
    BY <2>4
  <2> QED
    BY <2>2, <2>3, <2>4
<1> QED
  BY <1>1, Invariance, PTL

\* hashcd and find_command's "prev": where a marked entry lets the search begin,
\* no absolute directory before it has the command, and it has if it is absolute.
THEOREM MarksLead ==
  ASSUME ~NoPath, ~StalePath, ~StaleMark
  PROVE  ExecSpec => []MarkedStillLeads
<1>1. ExecInv => MarkedStillLeads
  <2> SUFFICES ASSUME ExecInv, NEW n \in Names, table[n].rehash,
                      NEW prev \in Prev(table[n])
               PROVE  /\ prev \in DOMAIN path
                      /\ \A i \in 1 .. prev - 1 : Absolute(i) => ~Holds(path[i], n, cwd)
                      /\ Absolute(prev) => Holds(path[prev], n, cwd)
    BY DEF MarkedStillLeads
  <2>0. Fits(table[n], n, builtinloc, path, cwd)
    BY EntryFacts
  <2>1. Leads(n, path, cwd, prev)
    <3>1. table[n].type = "normal" \/ table[n].type = "builtin"
      BY <2>0 DEF Fits, Empty, Function, Normal, Builtin
    <3>2. CASE table[n].type = "normal"
      BY <2>0, <3>2 DEF Fits, Empty, Function, Normal, Builtin, Prev
    <3>3. CASE table[n].type = "builtin"
      BY <2>0, <3>3 DEF Fits, Empty, Function, Normal, Builtin, Prev
    <3> QED
      BY <3>1, <3>2, <3>3
  <2>2. Len(path) \in Nat /\ DOMAIN path = 1 .. Len(path)
    BY PathFacts DEF ExecInv, Typed
  <2> QED
    BY <2>1, <2>2 DEF Leads, Fixed, Absolute
<1> QED
  BY <1>1, Invariance, PTL

\* builtinloc says where PATH has %builtin, whoever changed PATH.
THEOREM BuiltinIsWhere ==
  ASSUME ~NoPath, ~StalePath, ~StaleMark
  PROVE  ExecSpec => []BuiltinlocAgrees
<1>1. ExecInv => BuiltinlocAgrees
  BY DEF ExecInv, TableFits, BuiltinlocAgrees
<1> QED
  BY <1>1, Invariance, PTL

-----------------------------------------------------------------------------
(* The table is only a cache: the steps of CommandSearch *)

functions == {n \in Names : table[n].type = "function"}

LEMMA FunctionsStay ==
  ASSUME FunctionsKept
  PROVE  functions' = functions
BY DEF FunctionsKept, functions

LEMMA SameVars ==
  ASSUME ExecInv, UNCHANGED ExecVars
  PROVE  UNCHANGED S!vars
BY DEF ExecVars, S!vars

\* A PATH that is or may be another one, the functions and the directory the same.
LEMMA PathStep ==
  ASSUME ExecInv', FunctionsKept, cwd' = cwd, found' = NotFound
  PROVE  S!ChangePath
<1>1. functions' = functions
  BY FunctionsStay
<1>2. path' \in Paths
  BY DEF ExecInv, Typed
<1> QED
  BY <1>1, <1>2 DEF S!ChangePath, S!Forget, S!NotFound, NotFound, functions

\* What find_command and ReadDone answer is what CommandSearch answers.
LEMMA AnswerStep ==
  ASSUME NEW n \in Names, Answered(n), FunctionsKept, path' = path, cwd' = cwd
  PROVE  S!Find(n)
<1>1. functions' = functions
  BY FunctionsStay
<1> QED
  BY <1>1 DEF S!Find, Answered, functions

LEMMA StepRefines ==
  ASSUME ~StalePath, ~StaleMark, ExecInv, ExecInv', [ExecNext]_ExecVars
  PROVE  [S!Next]_(S!vars)
<1>0. NotFound = S!NotFound
  BY DEF NotFound, S!NotFound
<1>1. CASE hash_r \/ Assign \/ unsetvar \/ export \/ CallFunction \/ mklocal \/ FunctionReturns \/ Unwind
  <2>1. FunctionsKept
    BY <1>1, ForgetStep, AssignStep, QuietStep, LeaveStep
  <2>2. cwd' = cwd /\ found' = NotFound
    BY <1>1 DEF hash_r, Assign, unsetvar, setvareq, export, CallFunction, mklocal, FunctionReturns, Unwind
  <2> QED
    BY <2>1, <2>2, PathStep DEF S!Next
<1>2. CASE cd
  <2>1. functions' = functions
    BY <1>2, cdStep, FunctionsStay
  <2>2. cwd' \in Dirs /\ found' = NotFound /\ path' = path
    BY <1>2 DEF cd
  <2>3. S!ChangeDirectory
    BY <1>0, <2>1, <2>2 DEF S!ChangeDirectory, S!Forget, functions
  <2> QED
    BY <2>3 DEF S!Next
<1>3. CASE ReadDone
  <2>1. path' = path /\ cwd' = cwd
    BY <1>3 DEF ReadDone
  <2>2. \E n \in Names : S!Find(n)
    BY <1>3, <2>1, ReadDoneStep, AnswerStep
  <2> QED
    BY <2>2 DEF S!Next
<1>4. CASE ShellProc
  <2>1. functions' = {}
    BY <1>4, ShellProcStep DEF NoFunctionIn, functions
  <2>2. path' \in Paths /\ cwd' = cwd /\ found' = NotFound
    BY <1>4, ShellProcStep DEF ShellProc, ExecInv, Typed
  <2>3. S!ShellProc
    BY <1>0, <2>1, <2>2 DEF S!ShellProc, S!Forget, functions
  <2> QED
    BY <2>3 DEF S!Next
<1>5. ASSUME NEW n \in Names, Lookup(n) \/ hashcmd(n)
      PROVE  S!Find(n) \/ S!ChangePath
  <2>1. FunctionsKept /\ (Answered(n) \/ found' = NotFound)
    BY <1>5, SearchStep
  <2>2. path' = path /\ cwd' = cwd
    BY <1>5 DEF Lookup, hashcmd, find_command
  <2> QED
    BY <2>1, <2>2, AnswerStep, PathStep
<1>6. ASSUME NEW n \in Names, defun(n)
      PROVE  S!Define(n)
  <2>1. functions' = functions \cup {n}
    BY <1>6, defunStep DEF functions
  <2> QED
    BY <1>0, <1>6, <2>1 DEF S!Define, S!Forget, defun, functions
<1>7. ASSUME NEW n \in Names, unsetfunc(n)
      PROVE  S!Unset(n)
  <2>1. functions' = functions \ {n}
    BY <1>7, unsetfuncStep DEF functions
  <2> QED
    BY <1>0, <1>7, <2>1 DEF S!Unset, S!Forget, unsetfunc, functions
<1>8. CASE UNCHANGED ExecVars
  BY <1>8, SameVars
<1> QED
  BY <1>1, <1>2, <1>3, <1>4, <1>5, <1>6, <1>7, <1>8 DEF ExecNext, S!Next

\* The shell finds, through its table, what searching PATH anew would find.
THEOREM Refinement ==
  ASSUME ~NoPath, ~StalePath, ~StaleMark
  PROVE  ExecSpec => Implements
<1>1. ExecInit => S!Init
  BY NewEntryFacts DEF ExecInit, S!Init, NoEntry, NotFound, S!NotFound
<1>2. ExecInv /\ ExecInv' /\ [ExecNext]_ExecVars => [S!Next]_(S!vars)
  BY StepRefines
<1> QED
  BY <1>1, <1>2, Invariance, PTL DEF ExecSpec, Implements, S!Spec

----------------------------------------------------------------------------
(* Lemmas about the operators on the processes of a job.                   *)

(* A report changes the status of the processes with that pid, and only it.*)
LEMMA ReportProperties ==
  ASSUME NEW procs \in Seq(Proc), NEW p, NEW s \in {"running", "stopped", "exited"}
  PROVE  /\ Report(procs, p, s) \in Seq(Proc)
         /\ DOMAIN Report(procs, p, s) = DOMAIN procs
         /\ \A i \in DOMAIN procs :
              /\ Report(procs, p, s)[i].pid = procs[i].pid
              /\ Report(procs, p, s)[i].status =
                   IF procs[i].pid = p THEN s ELSE procs[i].status
<1> DEFINE r == Report(procs, p, s)
<1>1. Len(procs) \in Nat /\ DOMAIN procs = 1 .. Len(procs)
  BY LenProperties
<1>2. \A i \in 1 .. Len(procs) : procs[i] \in Proc
  BY ElementOfSeq
<1>3. r = [i \in 1 .. Len(procs) |->
             IF procs[i].pid = p THEN [procs[i] EXCEPT !.status = s] ELSE procs[i]]
  BY <1>1 DEF Report
<1>4. r \in [1 .. Len(procs) -> Proc]
  BY <1>2, <1>3 DEF Proc
<1>5. r \in Seq(Proc)
  BY <1>1, <1>4, SeqDef
<1>6. \A i \in DOMAIN procs : r[i].pid = procs[i].pid
                              /\ r[i].status = IF procs[i].pid = p THEN s ELSE procs[i].status
  BY <1>1, <1>2, <1>3 DEF Proc
<1> QED BY <1>1, <1>3, <1>5, <1>6

(* restartjob turns "stopped" into "running" and nothing else.             *)
LEMMA RestartedProperties ==
  ASSUME NEW procs \in Seq(Proc)
  PROVE  /\ Restarted(procs) \in Seq(Proc)
         /\ DOMAIN Restarted(procs) = DOMAIN procs
         /\ \A i \in DOMAIN procs :
              /\ Restarted(procs)[i].pid = procs[i].pid
              /\ Restarted(procs)[i].status =
                   IF procs[i].status = "stopped" THEN "running" ELSE procs[i].status
<1> DEFINE r == Restarted(procs)
<1>1. Len(procs) \in Nat /\ DOMAIN procs = 1 .. Len(procs)
  BY LenProperties
<1>2. \A i \in 1 .. Len(procs) : procs[i] \in Proc
  BY ElementOfSeq
<1>3. r = [i \in 1 .. Len(procs) |->
             IF procs[i].status = "stopped"
             THEN [procs[i] EXCEPT !.status = "running"] ELSE procs[i]]
  BY <1>1 DEF Restarted
<1>4. r \in [1 .. Len(procs) -> Proc]
  BY <1>2, <1>3 DEF Proc
<1>5. r \in Seq(Proc)
  BY <1>1, <1>4, SeqDef
<1>6. \A i \in DOMAIN procs :
        /\ r[i].pid = procs[i].pid
        /\ r[i].status = IF procs[i].status = "stopped" THEN "running" ELSE procs[i].status
  BY <1>1, <1>2, <1>3 DEF Proc
<1> QED BY <1>1, <1>3, <1>5, <1>6

(* forkshell adds one running process at the end.                          *)
LEMMA ForkedProperties ==
  ASSUME NEW procs \in Seq(Proc), NEW p \in Pids
  PROVE  LET r == Append(procs, [pid |-> p, status |-> "running"])
         IN /\ r \in Seq(Proc)
            /\ DOMAIN r = DOMAIN procs \union {Len(procs) + 1}
            /\ Len(procs) + 1 \notin DOMAIN procs
            /\ \A i \in DOMAIN procs : r[i] = procs[i]
            /\ r[Len(procs) + 1] = [pid |-> p, status |-> "running"]
            /\ 1 \in DOMAIN r
            /\ r[1].pid = IF procs = <<>> THEN p ELSE procs[1].pid
<1> DEFINE q == [pid |-> p, status |-> "running"]
           r == Append(procs, q)
<1>1. q \in Proc
  BY DEF Proc
<1>2. Len(procs) \in Nat /\ DOMAIN procs = 1 .. Len(procs)
  BY LenProperties
<1>3. /\ r \in Seq(Proc) /\ Len(r) = Len(procs) + 1
      /\ \A i \in 1 .. Len(procs) : r[i] = procs[i]
      /\ r[Len(procs) + 1] = q
  BY <1>1, AppendProperties
<1>4. DOMAIN r = 1 .. Len(procs) + 1
  BY <1>3, LenProperties
<1>5. procs # <<>> => Len(procs) >= 1
  BY <1>2, EmptySeq
<1>6. procs = <<>> => Len(procs) = 0
  BY EmptySeq
<1>7. r[1].pid = IF procs = <<>> THEN p ELSE procs[1].pid
  BY <1>2, <1>3, <1>5, <1>6
<1> QED BY <1>2, <1>3, <1>4, <1>7

----------------------------------------------------------------------------
(* Type correctness, with what it needs of the shell's locals.             *)

LocalsOK ==
  /\ pc \in {"forking", "forked", "waitforjob"} => jp \in Slots
  /\ pc = "forking" => cmd.left >= 1
  /\ got.stage = "none" => got = Nothing
  /\ got.stage # "none" => pc \in {"waitforjob", "wait"} \union Listing
  /\ got.stage = "reaped" =>
       /\ got.pid \in Pids /\ got.status \in {"stopped", "exited"}
       /\ got.status = "exited" <=> kid[got.pid].st = "free"

TypeInv == TypeOK /\ LocalsOK

LEMMA UnusedIsJob == Unused \in Job /\ \A n \in Nat : NewJob(n) \in Job
BY EmptySeq DEF Unused, NewJob, Job

(* Marking a job as changed touches nothing else of any job.               *)
LEMMA MarkEffect ==
  ASSUME TypeOK, MarkChanged
  PROVE  /\ jobtab' \in [Slots -> Job]
         /\ \A j \in Slots : /\ jobtab'[j].used = jobtab[j].used
                             /\ jobtab'[j].state = jobtab[j].state
                             /\ jobtab'[j].procs = jobtab[j].procs
<1> DEFINE k == got.job
           new == [jobtab[k] EXCEPT !.changed = TRUE]
<1>1. jobtab' = jobtab \/ (k # 0 /\ jobtab' = [jobtab EXCEPT ![k] = new])
  BY DEF MarkChanged
<1>2. k \in Slots \union {0} /\ jobtab \in [Slots -> Job]
  BY ConstantsAssumption DEF TypeOK, Slots
<1>3. k # 0 => /\ new \in Job /\ new.used = jobtab[k].used
               /\ new.state = jobtab[k].state /\ new.procs = jobtab[k].procs
  BY <1>2 DEF Job
<1> HIDE DEF k, new
<1>4. jobtab' \in [Slots -> Job]
  BY <1>1, <1>2, <1>3
<1> SUFFICES ASSUME NEW j \in Slots
             PROVE  /\ jobtab'[j].used = jobtab[j].used
                    /\ jobtab'[j].state = jobtab[j].state
                    /\ jobtab'[j].procs = jobtab[j].procs
  BY <1>4
<1>5. jobtab'[j] = jobtab[j] \/ (k # 0 /\ k = j /\ jobtab'[j] = new)
  BY <1>1, <1>2
<1> QED BY <1>3, <1>5

LEMMA InitTyped == Init => TypeInv
<1> SUFFICES ASSUME Init PROVE TypeInv
  OBVIOUS
<1>1. jobtab \in [Slots -> Job] /\ \A j \in Slots : Used(j) => j <= njobs
  BY UnusedIsJob DEF Init, Used, Unused
<1>2. kid \in [Pids -> Kid]
  BY DEF Init, Kid, FreeKid
<1>3. /\ njobs \in 0 .. MaxJobs /\ curjob \in 0 .. MaxJobs /\ jp \in 0 .. MaxJobs
      /\ cmd \in [left : 0 .. MaxPipe, mode : Modes, intoff : BOOLEAN]
  BY ConstantsAssumption DEF Init, NoCmd, Modes
<1>4. got \in [stage : {"none", "reaped", "recorded"}, pid : Pids \union {NoPid},
               status : {"running", "stopped", "exited"}, job : 0 .. MaxJobs]
  BY ConstantsAssumption DEF Init, Nothing
<1> QED BY <1>1, <1>2, <1>3, <1>4 DEF Init, TypeInv, TypeOK, LocalsOK, Nothing

LEMMA MakejobTyped ==
  ASSUME TypeInv, NEW j \in Slots, NEW n \in 1 .. MaxPipe, makejob(j, n)
  PROVE  /\ jobtab' \in [Slots -> Job] /\ njobs' \in 0 .. MaxJobs
         /\ \A k \in Slots : jobtab'[k].used => k <= njobs'
         /\ \A k \in Slots : k # j =>
              /\ jobtab'[k].used = jobtab[k].used
              /\ jobtab'[k].state = jobtab[k].state
              /\ jobtab'[k].changed = jobtab[k].changed
              /\ jobtab'[k].procs = jobtab[k].procs
         /\ jobtab'[j] = NewJob(n)
         /\ ~Used(j)
<1>1. n \in Nat /\ NewJob(n) \in Job
  BY ConstantsAssumption, UnusedIsJob
<1>2. \A k \in Slots : jobtab[k] \in Job /\ Moved(jobtab)[k] \in Job
  <2>1. \A k \in Slots : jobtab[k] \in Job
    BY DEF TypeInv, TypeOK
  <2> SUFFICES ASSUME NEW k \in Slots PROVE jobtab[k] \in Job /\ Moved(jobtab)[k] \in Job
    OBVIOUS
  <2> QED BY <2>1 DEF Moved, Job
<1>3. \A k \in Slots : /\ Moved(jobtab)[k].used = jobtab[k].used
                       /\ Moved(jobtab)[k].state = jobtab[k].state
                       /\ Moved(jobtab)[k].changed = jobtab[k].changed
                       /\ Moved(jobtab)[k].procs = jobtab[k].procs
  BY <1>2 DEF Moved, Job
<1>4. Moved(jobtab) = [k \in Slots |-> Moved(jobtab)[k]]
  BY DEF Moved
<1>5. CASE FirstFree(j) /\ jobtab' = [jobtab EXCEPT ![j] = NewJob(n)] /\ njobs' = njobs
  BY <1>1, <1>2, <1>5 DEF TypeInv, TypeOK, FirstFree, Used, Slots
<1>6. CASE /\ TableFull /\ j = njobs + 1 /\ njobs + JobChunk <= MaxJobs
           /\ jobtab' = [Moved(jobtab) EXCEPT ![j] = NewJob(n)]
           /\ njobs' = njobs + JobChunk
  <2>1. /\ jobtab'[j] = NewJob(n) /\ NewJob(n).used
        /\ \A k \in Slots : k # j => jobtab'[k] = Moved(jobtab)[k]
    BY <1>4, <1>6 DEF NewJob, Unused
  <2>2. njobs' \in 0 .. MaxJobs /\ njobs < njobs' /\ j <= njobs' /\ ~(j <= njobs)
    BY <1>6, ConstantsAssumption DEF TypeInv, TypeOK, Slots
  <2>3. jobtab' \in [Slots -> Job]
    BY <1>1, <1>2, <1>4, <1>6
  <2>4. \A k \in Slots : Used(k) => k <= njobs
    BY DEF TypeInv, TypeOK
  <2>5. \A k \in Slots : jobtab'[k].used => k <= njobs'
    BY <1>3, <2>1, <2>2, <2>4 DEF Used, Slots, TypeInv, TypeOK
  <2> QED BY <1>3, <2>1, <2>2, <2>3, <2>4, <2>5
<1> QED BY <1>5, <1>6 DEF makejob

(* Every step keeps the types.                                             *)
LEMMA StepTyped == TypeInv /\ [Next]_vars => TypeInv'
<1> SUFFICES ASSUME TypeInv, [Next]_vars PROVE TypeInv'
  OBVIOUS
<1> USE DEF TypeInv
<1>t. /\ Nothing.stage = "none" /\ Nothing.status = "running"
      /\ Nothing \in [stage : {"none", "reaped", "recorded"}, pid : Pids \union {NoPid},
                      status : {"running", "stopped", "exited"}, job : 0 .. MaxJobs]
      /\ NoCmd \in [left : 0 .. MaxPipe, mode : Modes, intoff : BOOLEAN]
      /\ FreeKid \in Kid /\ FreeKid.st = "free" /\ ~FreeKid.told
      /\ Unused \in Job /\ ~Unused.used
  BY ConstantsAssumption, UnusedIsJob DEF Nothing, NoCmd, Modes, FreeKid, Kid, Unused
<1>k. \A p \in Pids : kid[p] \in Kid
  BY DEF TypeOK
<1>j. \A j \in Slots : jobtab[j] \in Job
  BY DEF TypeOK
<1>1. ASSUME NEW j \in Slots, NEW n \in 1 .. MaxPipe, NEW m \in Modes, StartCommand(j, n, m)
      PROVE TypeInv'
  <2>1. makejob(j, n)
    BY <1>1 DEF StartCommand
  <2>2. jobtab' \in [Slots -> Job] /\ njobs' \in 0 .. MaxJobs
        /\ \A k \in Slots : jobtab'[k].used => k <= njobs'
    BY <2>1, MakejobTyped
  <2> QED BY <1>1, <2>2, ConstantsAssumption
          DEF StartCommand, TypeOK, LocalsOK, Listing, Used, Slots
<1>2. ASSUME NEW p \in Pids, forkshell(p) PROVE TypeInv'
  <2> DEFINE r == Append(jobtab[jp].procs, [pid |-> p, status |-> "running"])
  <2>1. jp \in Slots /\ cmd.left \in 1 .. MaxPipe /\ got = Nothing
    BY <1>2 DEF forkshell, TypeOK, LocalsOK, Listing
  <2>2. jobtab[jp].procs \in Seq(Proc)
    BY <1>j, <2>1 DEF Job
  <2>3. r \in Seq(Proc)
    BY <2>2, ForkedProperties
  <2>4. jobtab' = [jobtab EXCEPT ![jp].procs = r]
    BY <1>2 DEF forkshell
  <2>5. jobtab' \in [Slots -> Job] /\ \A k \in Slots : jobtab'[k].used = jobtab[k].used
    <3> DEFINE new == [jobtab[jp] EXCEPT !.procs = r]
    <3>1. new \in Job /\ new.used = jobtab[jp].used
      BY <1>j, <2>1, <2>3 DEF Job
    <3>2. jobtab' = [jobtab EXCEPT ![jp] = new]
      BY <2>4
    <3> HIDE DEF new, r
    <3>3. jobtab \in [Slots -> Job]
      BY DEF TypeOK
    <3> QED BY <2>1, <3>1, <3>2, <3>3
  <2>6. kid' \in [Pids -> Kid]
    <3>1. IF jobtab[jp].procs = <<>> THEN TRUE ELSE jobtab[jp].procs[1].pid \in Pids
      <4>1. jobtab[jp].procs # <<>> => 1 \in 1 .. Len(jobtab[jp].procs)
        BY <2>2, EmptySeq
      <4>2. \A i \in 1 .. Len(jobtab[jp].procs) : jobtab[jp].procs[i] \in Proc
        BY <2>2, ElementOfSeq
      <4> QED BY <4>1, <4>2 DEF Proc
    <3> QED BY <1>2, <1>k, <3>1 DEF forkshell, TypeOK, Kid
  <2>7. cmd' \in [left : 0 .. MaxPipe, mode : Modes, intoff : BOOLEAN]
        /\ pc' \in {"forking", "forked"} /\ (pc' = "forking" => cmd'.left >= 1)
    <3>1. cmd' = [cmd EXCEPT !.left = cmd.left - 1]
          /\ pc' = IF cmd.left = 1 THEN "forked" ELSE "forking"
      BY <1>2 DEF forkshell
    <3>2. cmd.left - 1 \in 0 .. MaxPipe /\ (cmd.left # 1 => cmd.left - 1 >= 1)
      BY <2>1, ConstantsAssumption
    <3> QED BY <3>1, <3>2 DEF TypeOK
  <2> QED BY <1>2, <1>t, <2>1, <2>5, <2>6, <2>7 DEF forkshell, TypeOK, LocalsOK, Used
<1>3. ASSUME NEW p \in Pids, openhere(p) PROVE TypeInv'
  <2>1. kid' \in [Pids -> Kid] /\ got = Nothing
    BY <1>3 DEF openhere, TypeOK, LocalsOK, Kid, Listing
  <2> QED BY <1>3, <1>t, <2>1 DEF openhere, TypeOK, LocalsOK, Used
<1>4. CASE error
  <2>1. got = Nothing
    BY <1>4 DEF error, TypeOK, LocalsOK, Listing
  <2> QED BY <1>4, <1>t, <2>1, ConstantsAssumption DEF error, TypeOK, LocalsOK, Used, Listing
<1>5. CASE AfterFork
  <2>1. got = Nothing
    BY <1>5 DEF AfterFork, TypeOK, LocalsOK, Listing
  <2> QED BY <1>5, <1>t, <2>1, ConstantsAssumption DEF AfterFork, TypeOK, LocalsOK, Used, Listing
<1>6. ASSUME NEW p \in Pids, wait3(p) PROVE TypeInv'
  <2>1. kid' \in [Pids -> Kid]
    <3> DEFINE new == [kid[p] EXCEPT !.told = TRUE]
    <3>1. kid' \in {[kid EXCEPT ![p] = FreeKid], [kid EXCEPT ![p] = new]}
      BY <1>6 DEF wait3
    <3>2. FreeKid \in Kid /\ new \in Kid
      BY <1>k DEF FreeKid, Kid
    <3>3. kid \in [Pids -> Kid]
      BY DEF TypeOK
    <3> HIDE DEF new
    <3> QED BY <3>1, <3>2, <3>3
  <2>2. /\ got' \in [stage : {"none", "reaped", "recorded"}, pid : Pids \union {NoPid},
                     status : {"running", "stopped", "exited"}, job : 0 .. MaxJobs]
        /\ got'.stage = "reaped" /\ got'.pid = p
        /\ got'.status = IF kid[p].st = "zombie" THEN "exited" ELSE "stopped"
    BY <1>6, <1>t, ConstantsAssumption DEF wait3, Nothing
  <2>3. kid[p].st = "zombie" => kid'[p].st = "free"
    BY <1>6, <1>t DEF wait3, TypeOK
  <2>4. kid[p].st # "zombie" => kid'[p].st = "stopped"
    BY <1>6, <1>k DEF wait3, TypeOK, CanReport, Kid
  <2>5. pc \in {"waitforjob", "wait"} \union Listing
    BY <1>6 DEF wait3, InWait
  <2> QED BY <1>6, <2>1, <2>2, <2>3, <2>4, <2>5 DEF wait3, TypeOK, LocalsOK, Used
<1>7. ASSUME NEW t \in 0 .. MaxJobs, dowait(t) PROVE TypeInv'
  <2>1. /\ got' \in [stage : {"none", "reaped", "recorded"}, pid : Pids \union {NoPid},
                     status : {"running", "stopped", "exited"}, job : 0 .. MaxJobs]
        /\ got'.stage = "recorded"
    BY <1>7, <1>t DEF dowait, Nothing
  <2>2. ASSUME NEW k \in Slots PROVE jobtab'[k] \in Job /\ jobtab'[k].used = jobtab[k].used
    <3>1. jobtab[k].procs \in Seq(Proc) /\ jobtab[k] \in Job
      BY <1>j DEF Job
    <3>2. Report(jobtab[k].procs, got.pid, got.status) \in Seq(Proc)
      BY <3>1, ReportProperties DEF TypeOK
    <3>3. jobtab'[k] = Recorded(jobtab[k], got.pid, got.status)
      BY <1>7 DEF dowait
    <3> QED BY <3>1, <3>2, <3>3 DEF Recorded, NewState, Job
  <2>3. curjob' \in 0 .. MaxJobs
    BY <1>7, ConstantsAssumption DEF dowait, CurAfterDone, TypeOK
  <2>4. jobtab' = [k \in Slots |-> jobtab'[k]]
    BY <1>7 DEF dowait
  <2>5. jobtab' \in [Slots -> Job]
    BY <2>2, <2>4
  <2> QED BY <1>7, <2>1, <2>2, <2>3, <2>5 DEF dowait, TypeOK, LocalsOK, Used
<1>8. CASE MarkChanged
  <2>1. jobtab' \in [Slots -> Job] /\ \A k \in Slots : jobtab'[k].used = jobtab[k].used
    BY <1>8, MarkEffect
  <2> QED BY <1>8, <1>t, <2>1 DEF MarkChanged, TypeOK, LocalsOK, Used
<1>9. ASSUME NEW j, curjob' \in {curjob, 0, jp}, jobtab' \in {jobtab, freejob(jobtab, j)}
      PROVE /\ jobtab' \in [Slots -> Job] /\ curjob' \in 0 .. MaxJobs
            /\ \A k \in Slots : jobtab'[k].used => jobtab[k].used
  BY <1>9, <1>t, ConstantsAssumption DEF freejob, TypeOK
<1>10. CASE waitforjob
  <2>1. /\ jobtab' \in {jobtab, freejob(jobtab, jp)} /\ curjob' \in {curjob, 0, jp}
        /\ got = Nothing
    BY <1>10 DEF waitforjob, CurAfterFree
  <2> QED BY <1>9, <1>10, <1>t, <2>1, ConstantsAssumption
          DEF waitforjob, TypeOK, LocalsOK, Used, Listing
<1>11. CASE WaitReturns
  <2>1. /\ jobtab' \in {jobtab, freejob(jobtab, jp)} /\ curjob' \in {curjob, 0, jp}
        /\ got = Nothing
    BY <1>11 DEF WaitReturns, CurAfterFree
  <2> QED BY <1>9, <1>11, <1>t, <2>1, ConstantsAssumption
          DEF WaitReturns, TypeOK, LocalsOK, Used, Listing
<1>12. ASSUME NEW last \in 0 .. MaxJobs, NEW half \in BOOLEAN, showjobs(last, half)
       PROVE TypeInv'
  <2>1. ASSUME NEW k \in Slots
        PROVE jobtab'[k] \in Job /\ (jobtab'[k].used => jobtab[k].used)
    <3>1. jobtab'[k] \in {jobtab[k], Unused, Printed(jobtab[k])}
      BY <1>12 DEF showjobs, Listed
    <3>2. Unused \in Job /\ ~Unused.used
      BY EmptySeq DEF Unused, Job
    <3>3. Printed(jobtab[k]) \in Job /\ Printed(jobtab[k]).used = jobtab[k].used
      BY <1>j DEF Printed, Job
    <3> QED BY <1>j, <3>1, <3>2, <3>3
  <2>2. jobtab' = [k \in Slots |-> jobtab'[k]] /\ curjob' \in {0, curjob} /\ got = Nothing
    BY <1>12 DEF showjobs
  <2>3. jobtab' \in [Slots -> Job]
    BY <2>1, <2>2
  <2> QED BY <1>12, <1>t, <2>1, <2>2, <2>3, ConstantsAssumption
          DEF showjobs, TypeOK, LocalsOK, Used, Listing
<1>13. ASSUME NEW j \in 0 .. MaxJobs, waitcmd(j) PROVE TypeInv'
  BY <1>13, <1>t DEF waitcmd, TypeOK, LocalsOK, Used, Listing
<1>14. CASE jobscmd
  BY <1>14, <1>t DEF jobscmd, TypeOK, LocalsOK, Used, Listing
<1>15. CASE Prompt
  BY <1>15, <1>t DEF Prompt, TypeOK, LocalsOK, Used, Listing
<1>16. CASE TrapAction
  BY <1>16, <1>t DEF TrapAction, TypeOK, LocalsOK, Used, Listing
<1>17. ASSUME NEW j \in Slots, restartjob(j)
       PROVE /\ jobtab' \in [Slots -> Job] /\ kid' \in [Pids -> Kid]
             /\ \A k \in Slots : jobtab'[k].used = jobtab[k].used
             /\ \A p \in Pids : kid'[p].st = "free" <=> kid[p].st = "free"
  <2>1. jobtab[j].procs \in Seq(Proc)
    BY <1>j DEF Job
  <2>2. Restarted(jobtab[j].procs) \in Seq(Proc)
    BY <2>1, RestartedProperties
  <2>3. CASE jobtab[j].state = "done"
    BY <1>17, <2>3 DEF restartjob, TypeOK
  <2>4. CASE jobtab[j].state # "done"
    <3>1. jobtab' \in [Slots -> Job] /\ \A k \in Slots : jobtab'[k].used = jobtab[k].used
      <4> DEFINE new == [jobtab[j] EXCEPT !.procs = Restarted(jobtab[j].procs),
             !.state = IF \E i \in DOMAIN jobtab[j].procs : jobtab[j].procs[i].status = "stopped"
                       THEN "running" ELSE jobtab[j].state]
      <4>1. jobtab' = [jobtab EXCEPT ![j] = new]
        BY <1>17, <2>4 DEF restartjob
      <4>2. new \in Job /\ new.used = jobtab[j].used
        BY <1>j, <2>2 DEF Job
      <4> HIDE DEF new
      <4> QED BY <1>j, <4>1, <4>2 DEF TypeOK
    <3>2. \A p \in Pids : /\ Continued(kid[p]) \in Kid
                          /\ Continued(kid[p]).st = "free" <=> kid[p].st = "free"
      BY <1>k DEF Continued, Kid
    <3> QED BY <1>17, <1>k, <2>4, <3>1, <3>2 DEF restartjob
  <2> QED BY <2>3, <2>4
<1>18. ASSUME NEW j \in Slots, fgcmd(j) PROVE TypeInv'
  <2>1. restartjob(j) /\ pc = "ready" /\ got = Nothing
    BY <1>18 DEF fgcmd, Restartable, LocalsOK, TypeOK, Listing
  <2>2. /\ jobtab' \in [Slots -> Job] /\ kid' \in [Pids -> Kid]
        /\ \A k \in Slots : jobtab'[k].used = jobtab[k].used
    BY <1>17, <2>1
  <2>3. jp' = j /\ j \in 0 .. MaxJobs
    BY <1>18, ConstantsAssumption DEF fgcmd, Slots
  <2> QED BY <1>18, <1>t, <2>1, <2>2, <2>3 DEF fgcmd, TypeOK, LocalsOK, Used, Listing
<1>19. ASSUME NEW j \in Slots, bgcmd(j) PROVE TypeInv'
  <2>1. restartjob(j) /\ pc = "ready" /\ got = Nothing
    BY <1>19 DEF bgcmd, Restartable, LocalsOK, TypeOK, Listing
  <2> QED BY <1>17, <1>19, <1>t, <2>1 DEF bgcmd, TypeOK, LocalsOK, Used, Listing
<1>20. CASE onint
  BY <1>20, <1>t, ConstantsAssumption DEF onint, TypeOK, LocalsOK, Used, Listing
<1>21. ASSUME NEW p \in Pids, Exit(p) \/ Killed(p) \/ Stop(p) \/ Cont(p) PROVE TypeInv'
  <2> DEFINE Kept == kid' \in [Pids -> Kid]
                     /\ \A q \in Pids : kid'[q].st = "free" <=> kid[q].st = "free"
  <2>1. Kept
    <3>1. CASE Exit(p)
      BY <3>1, <1>k DEF Exit, TypeOK, Kid
    <3>2. CASE Killed(p)
      <4> DEFINE new == [kid[p] EXCEPT !.st = "zombie", !.told = FALSE]
      <4>1. kid' = [kid EXCEPT ![p] = new]
        BY <3>2 DEF Killed
      <4>2. new \in Kid /\ new.st # "free" /\ kid[p].st # "free"
        BY <3>2, <1>k DEF Killed, Kid
      <4>3. kid \in [Pids -> Kid]
        BY DEF TypeOK
      <4> HIDE DEF new
      <4> QED BY <4>1, <4>2, <4>3
    <3>3. CASE Stop(p)
      BY <3>3, <1>k DEF Stop, TypeOK, Kid
    <3>4. CASE Cont(p)
      <4> DEFINE new == Continued(kid[p])
      <4>1. kid' = [kid EXCEPT ![p] = new]
        BY <3>4 DEF Cont
      <4>2. new \in Kid /\ new.st # "free" /\ kid[p].st # "free"
        BY <3>4, <1>k DEF Cont, Continued, Kid
      <4>3. kid \in [Pids -> Kid]
        BY DEF TypeOK
      <4> HIDE DEF new
      <4> QED BY <4>1, <4>2, <4>3
    <3> QED BY <1>21, <3>1, <3>2, <3>3, <3>4
  <2> QED BY <1>21, <2>1 DEF Exit, Killed, Stop, Cont, TypeOK, LocalsOK, Used
<1>22. CASE UNCHANGED vars
  BY <1>22 DEF vars, TypeOK, LocalsOK, Used
<1> QED
  <2>1. CASE Create
    BY <2>1, <1>1, <1>2, <1>3, <1>4, <1>5 DEF Create
  <2>2. CASE Reap
    BY <2>2, <1>6, <1>7, <1>8 DEF Reap
  <2>3. CASE Return
    BY <2>3, <1>10, <1>11, <1>12 DEF Return, TypeOK
  <2>4. CASE Command
    BY <2>4, <1>13, <1>14, <1>15, <1>16, <1>18, <1>19 DEF Command
  <2>5. CASE Signal
    BY <2>5, <1>12, <1>20 DEF Signal
  <2>6. CASE Children
    BY <2>6, <1>21 DEF Children
  <2> QED BY <1>22, <2>1, <2>2, <2>3, <2>4, <2>5, <2>6 DEF Next

(* The job table and the shell's locals are always well formed.            *)
THEOREM Typing == Spec => []TypeInv
BY InitTyped, StepTyped, PTL DEF Spec

(* jobtab, curjob, backgndpid and the kernel's record of the children       *)
(* always hold values of their types.                                       *)
THEOREM TypeCorrect == Spec => []TypeOK
BY Typing, PTL DEF TypeInv

----------------------------------------------------------------------------
(* Most steps neither add a process, nor change what is known of one, nor  *)
(* change a child: at most they free jobs, make an empty one or move on.   *)

Quiet ==
  /\ kid' = kid
  /\ got'.stage = "reaped" => got' = got
  /\ ~SigintRaises /\ got.stage = "reaped" => got' = got
  /\ \A j \in Slots : jobtab'[j].used =>
       \/ jobtab'[j].procs = <<>>
       \/ /\ jobtab[j].used
          /\ jobtab'[j].procs = jobtab[j].procs
          /\ jobtab'[j].state = jobtab[j].state

LEMMA QuietSteps ==
  ASSUME TypeInv,
         \/ \E j \in Slots, n \in 1 .. MaxPipe, m \in Modes : StartCommand(j, n, m)
         \/ error \/ AfterFork \/ MarkChanged \/ Return \/ Signal
         \/ jobscmd \/ Prompt \/ TrapAction \/ \E j \in 0 .. MaxJobs : waitcmd(j)
         \/ UNCHANGED vars
  PROVE  Quiet
<1> USE DEF TypeInv
<1>j. \A j \in Slots : jobtab[j] \in Job
  BY DEF TypeOK
<1>n. Nothing.stage = "none" /\ ~Unused.used
  BY DEF Nothing, Unused
<1>1. ASSUME NEW j \in Slots, NEW n \in 1 .. MaxPipe, NEW m \in Modes, StartCommand(j, n, m)
      PROVE Quiet
  <2>1. NewJob(n).procs = <<>>
    BY DEF NewJob, Unused
  <2>2. makejob(j, n) /\ kid' = kid /\ got' = got
    BY <1>1 DEF StartCommand
  <2> QED BY <2>1, <2>2, MakejobTyped DEF Quiet
<1>2. CASE MarkChanged
  <2>1. \A j \in Slots : /\ jobtab'[j].used = jobtab[j].used
                         /\ jobtab'[j].procs = jobtab[j].procs
                         /\ jobtab'[j].state = jobtab[j].state
    BY <1>2, MarkEffect DEF TypeInv
  <2> QED BY <1>2, <1>n, <2>1 DEF MarkChanged, Quiet
<1>3. ASSUME NEW j, jobtab' \in {jobtab, freejob(jobtab, j)}, kid' = kid, got' = got PROVE Quiet
  BY <1>3, <1>n DEF Quiet, freejob, TypeOK
<1>4. CASE Return
  <2>1. CASE waitforjob \/ WaitReturns
    BY <2>1, <1>3 DEF waitforjob, WaitReturns
  <2>2. CASE showjobs(njobs, FALSE)
    BY <2>2, <1>j, <1>n DEF showjobs, Listed, Printed, Passed, Job, Quiet
  <2> QED BY <1>4, <2>1, <2>2 DEF Return
<1>5. CASE Signal
  <2>1. CASE onint
    BY <1>n, <2>1 DEF onint, Quiet
  <2>2. ASSUME NEW last \in 0 .. MaxJobs, NEW half \in BOOLEAN, showjobs(last, half) PROVE Quiet
    BY <2>2, <1>j, <1>n DEF showjobs, Listed, Printed, Passed, Job, Quiet
  <2> QED BY <1>5, <2>1, <2>2 DEF Signal
<1>6. CASE \/ error \/ AfterFork \/ jobscmd \/ Prompt \/ TrapAction
           \/ (\E j \in 0 .. MaxJobs : waitcmd(j)) \/ UNCHANGED vars
  BY <1>6 DEF error, AfterFork, jobscmd, Prompt, TrapAction, waitcmd, vars, Quiet
<1> QED BY <1>1, <1>2, <1>4, <1>5, <1>6

(* The steps that are not quiet.                                           *)
LEMMA StepCases ==
  ASSUME TypeInv, [Next]_vars
  PROVE  \/ Quiet
         \/ \E p \in Pids : \/ forkshell(p) \/ openhere(p) \/ wait3(p)
                           \/ Exit(p) \/ Killed(p) \/ Stop(p) \/ Cont(p)
         \/ \E t \in 0 .. MaxJobs : dowait(t)
         \/ \E j \in Slots : restartjob(j) /\ (fgcmd(j) \/ bgcmd(j))
BY QuietSteps DEF Next, Create, Reap, Command, Children, fgcmd, bgcmd

----------------------------------------------------------------------------
(* The state of a job is what its processes say.                           *)

AgreeInv == /\ StateAgrees
            /\ pc = "forking" => Used(jp) /\ jobtab[jp].state = "running"

(* What restartjob does to the table, when the job is not done.            *)
LEMMA RestartEffect ==
  ASSUME TypeInv, NEW k \in Slots, restartjob(k), jobtab[k].state # "done"
  PROVE  /\ \A j \in Slots : j # k => jobtab'[j] = jobtab[j]
         /\ jobtab'[k].used = jobtab[k].used
         /\ jobtab'[k].procs = Restarted(jobtab[k].procs)
         /\ jobtab'[k].state =
              IF \E i \in DOMAIN jobtab[k].procs : jobtab[k].procs[i].status = "stopped"
              THEN "running" ELSE jobtab[k].state
<1> DEFINE new == [jobtab[k] EXCEPT !.procs = Restarted(jobtab[k].procs),
             !.state = IF \E i \in DOMAIN jobtab[k].procs : jobtab[k].procs[i].status = "stopped"
                       THEN "running" ELSE jobtab[k].state]
<1>1. jobtab' = [jobtab EXCEPT ![k] = new]
  BY DEF restartjob
<1>2. /\ new.used = jobtab[k].used /\ new.procs = Restarted(jobtab[k].procs)
      /\ new.state = IF \E i \in DOMAIN jobtab[k].procs : jobtab[k].procs[i].status = "stopped"
                     THEN "running" ELSE jobtab[k].state
  BY DEF TypeInv, TypeOK, Job
<1> HIDE DEF new
<1> QED BY <1>1, <1>2 DEF TypeInv, TypeOK

(* The effect of a report on the state, as dowait computes it.             *)
LEMMA ReportAgrees ==
  ASSUME NEW procs \in Seq(Proc), NEW p, NEW s \in {"stopped", "exited"}
  PROVE  NewState(Report(procs, p, s), JobState(procs)) = JobState(Report(procs, p, s))
<1> DEFINE r == Report(procs, p, s)
<1>1. /\ DOMAIN r = DOMAIN procs
      /\ \A i \in DOMAIN procs :
           r[i].status = IF procs[i].pid = p THEN s ELSE procs[i].status
  BY ReportProperties
<1>2. ~Settled(r) => ~Settled(procs)
  BY <1>1 DEF Settled
<1> QED BY <1>2 DEF NewState, JobState

LEMMA AgreeStep ==
  ASSUME TypeInv, AgreeInv, [Next]_vars
  PROVE  AgreeInv'
<1> USE DEF TypeInv
<1>j. \A j \in Slots : jobtab[j] \in Job /\ jobtab[j].procs \in Seq(Proc)
  BY DEF TypeOK, Job
<1>1. pc' = "forking" => jobtab'[jp'].used /\ jobtab'[jp'].state = "running"
  <2>1. ASSUME NEW j \in Slots, NEW n \in 1 .. MaxPipe, NEW m \in Modes, StartCommand(j, n, m)
        PROVE jobtab'[jp'].used /\ jobtab'[jp'].state = "running"
    <3>1. makejob(j, n) /\ jp' = j
      BY <2>1 DEF StartCommand
    <3>2. jobtab'[j] = NewJob(n)
      BY <3>1, MakejobTyped
    <3> QED BY <3>1, <3>2 DEF NewJob, Unused
  <2>2. ASSUME NEW p \in Pids, forkshell(p)
        PROVE jobtab'[jp'].used /\ jobtab'[jp'].state = "running"
    BY <2>2, <1>j DEF forkshell, AgreeInv, Used, Job, TypeOK, LocalsOK
  <2>3. pc' = "forking" /\ pc # "forking" =>
          \E j \in Slots, n \in 1 .. MaxPipe, m \in Modes : StartCommand(j, n, m)
    BY DEF Next, Create, Reap, Return, Command, Signal, Children, vars, forkshell, openhere,
           error, AfterFork, wait3, dowait, MarkChanged, waitforjob, WaitReturns, showjobs,
           jobscmd, Prompt, TrapAction, waitcmd, fgcmd, bgcmd, onint, Exit, Killed, Stop, Cont
  <2>4. pc = "forking" /\ pc' = "forking" =>
          \/ \E p \in Pids : forkshell(p)
          \/ jobtab' = jobtab /\ jp' = jp
    BY DEF Next, Create, Reap, Return, Command, Signal, Children, vars, StartCommand, openhere,
           error, AfterFork, wait3, dowait, MarkChanged, waitforjob, WaitReturns, showjobs,
           jobscmd, Prompt, TrapAction, waitcmd, fgcmd, bgcmd, onint, Exit, Killed, Stop, Cont,
           Restartable, InWait, LocalsOK, Listing
  <2> QED BY <2>1, <2>2, <2>3, <2>4 DEF AgreeInv, Used
<1>2. StateAgrees'
  <2> SUFFICES ASSUME NEW j \in Slots, jobtab'[j].used, jobtab'[j].procs # <<>>
               PROVE  jobtab'[j].state = JobState(jobtab'[j].procs)
    BY DEF StateAgrees, Used
  <2>0. Used(j) /\ jobtab[j].procs # <<>> => jobtab[j].state = JobState(jobtab[j].procs)
    BY DEF AgreeInv, StateAgrees
  <2>1. CASE Quiet
    BY <2>0, <2>1 DEF Quiet, Used
  <2>2. ASSUME NEW p \in Pids, forkshell(p)
        PROVE jobtab'[j].state = JobState(jobtab'[j].procs)
    <3> DEFINE r == Append(jobtab[jp].procs, [pid |-> p, status |-> "running"])
    <3>1. jp \in Slots /\ jobtab[jp].state = "running" /\ jobtab' = [jobtab EXCEPT ![jp].procs = r]
      BY <2>2 DEF forkshell, AgreeInv, LocalsOK
    <3>2. ~Settled(r)
      BY <1>j, <3>1, ForkedProperties DEF Settled
    <3>3. j = jp => jobtab'[j].procs = r /\ jobtab'[j].state = "running"
      BY <1>j, <3>1 DEF TypeOK, Job
    <3>4. j # jp => jobtab'[j] = jobtab[j]
      BY <3>1 DEF TypeOK
    <3> HIDE DEF r
    <3> QED BY <2>0, <3>2, <3>3, <3>4 DEF JobState, Used
  <2>3. ASSUME NEW t \in 0 .. MaxJobs, dowait(t)
        PROVE jobtab'[j].state = JobState(jobtab'[j].procs)
    <3> DEFINE procs == jobtab[j].procs
               r == Report(procs, got.pid, got.status)
    <3>1. jobtab'[j] = Recorded(jobtab[j], got.pid, got.status)
          /\ got.status \in {"stopped", "exited"}
      BY <2>3 DEF dowait, LocalsOK
    <3>2. Used(j) /\ jobtab'[j].procs = r /\ jobtab'[j].state = NewState(r, jobtab[j].state)
      BY <1>j, <3>1 DEF Recorded, Used, Job
    <3>3. procs # <<>>
      <4>1. procs = <<>> => r = <<>>
        BY <3>1, <1>j, ReportProperties, EmptySeq, SeqEqual DEF Report
      <4> QED BY <3>2, <4>1
    <3>4. jobtab[j].state = JobState(procs)
      BY <2>0, <3>2, <3>3
    <3> QED BY <1>j, <3>1, <3>2, <3>4, ReportAgrees
  <2>4. ASSUME NEW k \in Slots, restartjob(k)
        PROVE jobtab'[j].state = JobState(jobtab'[j].procs)
    <3> DEFINE procs == jobtab[k].procs
               r == Restarted(procs)
               stops == \E i \in DOMAIN procs : procs[i].status = "stopped"
    <3>1. CASE j # k \/ jobtab[k].state = "done"
      BY <2>0, <2>4, <3>1 DEF restartjob, TypeOK, Used
    <3>2. CASE j = k /\ jobtab[k].state # "done"
      <4>1. /\ jobtab'[j].procs = r /\ Used(j)
            /\ jobtab'[j].state = IF stops THEN "running" ELSE jobtab[j].state
        BY <2>4, <3>2, RestartEffect DEF Used
      <4>2. procs # <<>>
        BY <3>2, <4>1, <1>j, RestartedProperties, EmptySeq DEF Restarted
      <4>3. /\ DOMAIN r = DOMAIN procs
            /\ \A i \in DOMAIN procs :
                 r[i].status = IF procs[i].status = "stopped" THEN "running" ELSE procs[i].status
        BY <1>j, RestartedProperties
      <4>4. stops => ~Settled(r)
        BY <4>3 DEF Settled
      <4>5. ~stops => (Settled(r) <=> Settled(procs)) /\ (Finished(r) <=> Finished(procs))
        BY <4>3 DEF Settled, Finished
      <4> HIDE DEF r, stops, procs
      <4> QED BY <2>0, <3>2, <4>1, <4>2, <4>4, <4>5 DEF JobState, procs
    <3> QED BY <3>1, <3>2
  <2>5. (\E p \in Pids : openhere(p) \/ wait3(p) \/ Exit(p) \/ Killed(p) \/ Stop(p) \/ Cont(p))
        => jobtab' = jobtab
    BY DEF openhere, wait3, Exit, Killed, Stop, Cont
  <2> QED BY <2>0, <2>1, <2>2, <2>3, <2>4, <2>5, StepCases DEF Used
<1> QED BY <1>1, <1>2 DEF AgreeInv, Used

(* dowait, restartjob, forkshell and an abandoned command never leave a    *)
(* job in a state its processes do not have, whatever the signals, traps   *)
(* and pids.                                                               *)
THEOREM StatesAgree == Spec => []StateAgrees
<1>1. Init => AgreeInv
  BY DEF Init, AgreeInv, StateAgrees, Used, Unused
<1>2. TypeInv /\ AgreeInv /\ [Next]_vars => AgreeInv'
  BY AgreeStep
<1>3. AgreeInv => StateAgrees
  BY DEF AgreeInv
<1> QED BY <1>1, <1>2, <1>3, Typing, PTL DEF Spec

----------------------------------------------------------------------------
(* A process the table shows as exited is no child any more, as long as    *)
(* the kernel does not reissue a pid the table still remembers.            *)

ExitedIsFree ==
  \A j \in Slots : Used(j) => \A i \in DOMAIN jobtab[j].procs :
    jobtab[j].procs[i].status = "exited" => kid[jobtab[j].procs[i].pid].st = "free"

LEMMA ProcOfJob ==
  ASSUME NEW procs \in Seq(Proc), NEW i \in DOMAIN procs
  PROVE  procs[i] \in Proc /\ procs # <<>>
<1>1. DOMAIN procs = 1 .. Len(procs)
  BY LenProperties
<1>2. i \in 1 .. Len(procs)
  BY <1>1
<1>3. procs[i] \in Proc
  BY <1>2, ElementOfSeq
<1> QED BY <1>2, <1>3, EmptySeq

(* A new child has a pid that no job remembers.                            *)
LEMMA FreshPid ==
  ASSUME ~PidReuse, NEW p \in Pids, Available(p), NEW j \in Slots, Used(j),
         NEW i \in DOMAIN jobtab[j].procs
  PROVE  jobtab[j].procs[i].pid # p
BY DEF Available, InJob

LEMMA ExitedIsFreeStep ==
  ASSUME ~PidReuse, TypeInv, ExitedIsFree, [Next]_vars
  PROVE  ExitedIsFree'
<1> USE DEF TypeInv
<1>j. \A j \in Slots : jobtab[j] \in Job /\ jobtab[j].procs \in Seq(Proc)
  BY DEF TypeOK, Job
<1>p. \A j \in Slots : \A i \in DOMAIN jobtab[j].procs : jobtab[j].procs[i].pid \in Pids
  BY <1>j, ProcOfJob DEF Proc
<1> SUFFICES ASSUME NEW j \in Slots, jobtab'[j].used,
                    NEW i \in DOMAIN jobtab'[j].procs, jobtab'[j].procs[i].status = "exited"
             PROVE  kid'[jobtab'[j].procs[i].pid].st = "free"
  BY DEF ExitedIsFree, Used
<1>0. /\ Used(j) /\ i \in DOMAIN jobtab[j].procs
      /\ jobtab'[j].procs[i].pid = jobtab[j].procs[i].pid
      /\ jobtab[j].procs[i].status = "exited"
      /\ kid'[jobtab[j].procs[i].pid].st = kid[jobtab[j].procs[i].pid].st
      => kid'[jobtab'[j].procs[i].pid].st = "free"
  BY DEF ExitedIsFree
<1>1. CASE Quiet
  <2>1. jobtab'[j].procs # <<>>
    OBVIOUS
  <2> QED BY <1>0, <1>1, <2>1 DEF Quiet, Used
<1>2. ASSUME NEW p \in Pids, forkshell(p) PROVE kid'[jobtab'[j].procs[i].pid].st = "free"
  <2> DEFINE r == Append(jobtab[jp].procs, [pid |-> p, status |-> "running"])
  <2>1. jp \in Slots /\ jobtab' = [jobtab EXCEPT ![jp].procs = r] /\ Available(p)
        /\ \A q \in Pids : q # p => kid'[q] = kid[q]
    BY <1>2 DEF forkshell, LocalsOK, TypeOK
  <2>2. CASE j # jp
    <3>1. jobtab'[j] = jobtab[j]
      BY <2>1, <2>2 DEF TypeOK
    <3> QED BY <1>0, <1>p, <2>1, <3>1, FreshPid DEF Used
  <2>3. CASE j = jp
    <3>1. jobtab'[j].procs = r /\ Used(j)
      BY <1>j, <2>1, <2>3 DEF TypeOK, Job, Used
    <3>2. i \in DOMAIN jobtab[j].procs /\ r[i] = jobtab[j].procs[i]
      BY <1>j, <2>3, <3>1, ForkedProperties
    <3> QED BY <1>0, <1>p, <2>1, <3>1, <3>2, FreshPid
  <2> QED BY <2>2, <2>3
<1>3. ASSUME NEW p \in Pids, openhere(p) PROVE kid'[jobtab'[j].procs[i].pid].st = "free"
  <2>1. jobtab' = jobtab /\ Available(p) /\ \A q \in Pids : q # p => kid'[q] = kid[q]
    BY <1>3 DEF openhere, TypeOK
  <2> QED BY <1>0, <1>p, <2>1, FreshPid DEF Used
<1>4. ASSUME NEW p \in Pids, \/ wait3(p) \/ Exit(p) \/ Killed(p) \/ Stop(p) \/ Cont(p)
      PROVE kid'[jobtab'[j].procs[i].pid].st = "free"
  <2>1. /\ jobtab' = jobtab /\ kid[p].st # "free" /\ \A q \in Pids : q # p => kid'[q] = kid[q]
    BY <1>4 DEF wait3, CanReport, Exit, Killed, Stop, Cont, TypeOK
  <2> QED BY <1>0, <1>p, <2>1 DEF ExitedIsFree, Used
<1>5. ASSUME NEW t \in 0 .. MaxJobs, dowait(t) PROVE kid'[jobtab'[j].procs[i].pid].st = "free"
  <2>1. /\ jobtab'[j] = Recorded(jobtab[j], got.pid, got.status) /\ kid' = kid
        /\ got.status \in {"stopped", "exited"}
        /\ got.status = "exited" => kid[got.pid].st = "free"
    BY <1>5 DEF dowait, LocalsOK
  <2>2. Used(j) /\ jobtab'[j].procs = Report(jobtab[j].procs, got.pid, got.status)
    BY <1>j, <2>1 DEF Recorded, Used, Job
  <2>3. /\ i \in DOMAIN jobtab[j].procs
        /\ jobtab'[j].procs[i].pid = jobtab[j].procs[i].pid
        /\ jobtab'[j].procs[i].status = IF jobtab[j].procs[i].pid = got.pid THEN got.status
                                        ELSE jobtab[j].procs[i].status
    BY <1>j, <2>1, <2>2, ReportProperties
  <2> QED BY <1>0, <2>1, <2>2, <2>3
<1>6. ASSUME NEW k \in Slots, restartjob(k) PROVE kid'[jobtab'[j].procs[i].pid].st = "free"
  <2>1. CASE jobtab[k].state = "done"
    BY <1>0, <1>6, <2>1 DEF restartjob, Used
  <2>2. CASE jobtab[k].state # "done"
    <3>1. \A q \in Pids : kid[q].st = "free" => kid'[q].st = "free"
      BY <1>6, <2>2 DEF restartjob, Continued
    <3>2. CASE j # k
      BY <1>0, <1>6, <1>p, <2>2, <3>1, <3>2, RestartEffect DEF ExitedIsFree, Used
    <3>3. CASE j = k
      <4>1. jobtab'[j].procs = Restarted(jobtab[j].procs) /\ Used(j)
        BY <1>6, <2>2, <3>3, RestartEffect DEF Used
      <4>2. /\ i \in DOMAIN jobtab[j].procs
            /\ jobtab'[j].procs[i].pid = jobtab[j].procs[i].pid
            /\ jobtab[j].procs[i].status = "exited"
        BY <1>j, <4>1, RestartedProperties
      <4> QED BY <1>p, <3>1, <4>1, <4>2 DEF ExitedIsFree
    <3> QED BY <3>2, <3>3
  <2> QED BY <2>1, <2>2
<1> QED BY <1>1, <1>2, <1>3, <1>4, <1>5, <1>6, StepCases

(* A done job has no process left: the shell never reports a job finished  *)
(* while one of its processes lives, also when commands are interrupted.   *)
THEOREM DoneJobsAreDead ==
  ASSUME ~PidReuse
  PROVE  Spec => []DoneIsDead
<1>1. Init => ExitedIsFree
  BY DEF Init, ExitedIsFree, Used, Unused
<1>2. TypeInv /\ ExitedIsFree /\ [Next]_vars => ExitedIsFree'
  BY ExitedIsFreeStep
<1>3. TypeInv /\ StateAgrees /\ ExitedIsFree => DoneIsDead
  <2> SUFFICES ASSUME TypeInv, StateAgrees, ExitedIsFree, NEW j \in Slots, Used(j),
                      jobtab[j].state = "done", NEW i \in DOMAIN jobtab[j].procs
               PROVE  kid[jobtab[j].procs[i].pid].st = "free"
    BY DEF DoneIsDead
  <2>1. jobtab[j].procs \in Seq(Proc)
    BY DEF TypeInv, TypeOK, Job
  <2>2. jobtab[j].procs # <<>> /\ jobtab[j].procs[i] \in Proc
    BY <2>1, EmptySeq, LenProperties, ElementOfSeq
  <2>3. Settled(jobtab[j].procs) /\ Finished(jobtab[j].procs)
    BY <2>2 DEF StateAgrees, JobState
  <2>4. jobtab[j].procs[i].status = "exited"
    BY <2>2, <2>3 DEF Settled, Finished, Proc
  <2> QED BY <2>4 DEF ExitedIsFree
<1> QED BY <1>1, <1>2, <1>3, Typing, StatesAgree, PTL DEF Spec

----------------------------------------------------------------------------
(* No status is lost.  Besides NoLostStatus itself the invariant says that *)
(* a process not known to have exited is still a child (what fg and bg     *)
(* need), that a child is in the group of its job's first process or in    *)
(* the shell's, and that no running child's stop counts as reported.       *)

Reaped(p) == got.stage = "reaped" /\ got.pid = p
StillChild(q) == q.status # "exited" => kid[q.pid].st # "free" \/ Reaped(q.pid)
InGroup(q, leader) == kid[q.pid].st # "free" => kid[q.pid].grp \in {NoPid, leader}
NotLost(q) == q.status = "running" => Outstanding(q.pid) \/ Missed(q.pid)
Tracked(q, leader) == NotLost(q) /\ StillChild(q) /\ InGroup(q, leader)

TrackInv ==
  /\ \A j \in Slots : Used(j) => \A i \in DOMAIN jobtab[j].procs :
       Tracked(jobtab[j].procs[i], jobtab[j].procs[1].pid)
  /\ \A p \in Pids : kid[p].st = "run" => ~kid[p].told

(* What a child does by itself, or a signal to it: only its own state      *)
(* changes, and no running child has its stop marked as reported.          *)
LEMMA ChildStep ==
  ASSUME TypeInv, TrackInv, NEW p \in Pids,
         Exit(p) \/ Killed(p) \/ Stop(p) \/ Cont(p)
  PROVE  /\ jobtab' = jobtab /\ got' = got
         /\ \A x \in Pids : x # p => kid'[x] = kid[x]
         /\ kid[p].st # "free" /\ kid'[p].grp = kid[p].grp
         /\ \/ kid'[p].st = "zombie"
            \/ kid'[p].st \in {"run", "stopped"} /\ ~kid'[p].told
<1>1. kid \in [Pids -> Kid] /\ kid[p] \in Kid
  BY DEF TypeInv, TypeOK
<1>2. kid[p].st = "run" => ~kid[p].told
  BY DEF TrackInv
<1>3. CASE Exit(p)
  BY <1>1, <1>3 DEF Exit, Kid
<1>4. CASE Killed(p)
  <2> DEFINE new == [kid[p] EXCEPT !.st = "zombie", !.told = FALSE]
  <2>1. kid' = [kid EXCEPT ![p] = new] /\ kid[p].st = "stopped"
    BY <1>1, <1>4, Zenon DEF Killed
  <2>2. new.st = "zombie" /\ new.grp = kid[p].grp
    BY <1>1 DEF Kid
  <2> HIDE DEF new
  <2>3. kid'[p] = new /\ \A x \in Pids : x # p => kid'[x] = kid[x]
    BY <1>1, <2>1
  <2> QED BY <1>4, <2>1, <2>2, <2>3 DEF Killed
<1>5. CASE Stop(p)
  BY <1>1, <1>2, <1>5 DEF Stop, Kid
<1>6. CASE Cont(p)
  <2> DEFINE new == Continued(kid[p])
  <2>1. kid' = [kid EXCEPT ![p] = new] /\ kid[p].st = "stopped"
    BY <1>6 DEF Cont
  <2>2. new.st = "run" /\ ~new.told /\ new.grp = kid[p].grp
    BY <1>1, <2>1 DEF Kid, Continued
  <2> HIDE DEF new
  <2>3. kid'[p] = new /\ \A x \in Pids : x # p => kid'[x] = kid[x]
    BY <1>1, <2>1
  <2> QED BY <1>6, <2>1, <2>2, <2>3 DEF Cont
<1> QED BY <1>3, <1>4, <1>5, <1>6

LEMMA TrackStep ==
  ASSUME ~PidReuse, ~SigintRaises, TypeInv, TrackInv, [Next]_vars
  PROVE  TrackInv'
<1> USE DEF TypeInv
<1>j. \A j \in Slots : jobtab[j] \in Job /\ jobtab[j].procs \in Seq(Proc)
  BY DEF TypeOK, Job
<1>p. \A j \in Slots : \A i \in DOMAIN jobtab[j].procs :
        jobtab[j].procs[i] \in Proc /\ jobtab[j].procs[i].pid \in Pids
  BY <1>j, ProcOfJob DEF Proc
<1>k. \A p \in Pids : kid[p] \in Kid
  BY DEF TypeOK
<1>t. ASSUME NEW p \in Pids, kid'[p].st = "run" PROVE ~kid'[p].told
  <2>1. ASSUME NEW q \in Pids, forkshell(q) \/ openhere(q) \/ wait3(q) PROVE ~kid'[p].told
    <3>1. \A x \in Pids : x # q => kid'[x] = kid[x]
      BY <1>k, <2>1 DEF forkshell, openhere, wait3, TypeOK
    <3>2. CASE p # q
      BY <1>t, <3>1, <3>2 DEF TrackInv
    <3>3. CASE p = q /\ (forkshell(q) \/ openhere(q))
      BY <3>3 DEF forkshell, openhere, TypeOK
    <3>4. CASE p = q /\ wait3(q)
      <4>1. kid'[q] = IF kid[q].st = "zombie" THEN FreeKid ELSE [kid[q] EXCEPT !.told = TRUE]
        BY <3>4 DEF wait3, TypeOK
      <4>2. kid'[q].st # "run"
        BY <1>k, <3>4, <4>1 DEF wait3, CanReport, FreeKid, Kid
      <4> QED BY <1>t, <3>4, <4>2
    <3> QED BY <2>1, <3>2, <3>3, <3>4
  <2>2. ASSUME NEW q \in Pids, Exit(q) \/ Killed(q) \/ Stop(q) \/ Cont(q) PROVE ~kid'[p].told
    BY <1>t, <2>2, ChildStep DEF TrackInv
  <2>3. ASSUME NEW k \in Slots, restartjob(k) PROVE ~kid'[p].told
    <3>1. kid'[p] = kid[p] \/ kid'[p] = Continued(kid[p])
      BY <2>3 DEF restartjob
    <3>2. kid[p].st = "run" => ~kid[p].told
      BY DEF TrackInv
    <3> QED BY <1>t, <1>k, <3>1, <3>2 DEF Continued, Kid
  <2>4. Quiet \/ (\E t \in 0 .. MaxJobs : dowait(t)) => kid' = kid
    BY DEF Quiet, dowait
  <2> QED BY <1>t, <2>1, <2>2, <2>3, <2>4, StepCases DEF TrackInv
<1> SUFFICES ASSUME NEW j \in Slots, jobtab'[j].used, NEW i \in DOMAIN jobtab'[j].procs
             PROVE  Tracked(jobtab[j].procs[i], jobtab[j].procs[1].pid)'
  BY <1>t DEF TrackInv, Used
<1> DEFINE q == jobtab[j].procs[i]
<1>0. ASSUME jobtab'[j].procs = jobtab[j].procs, Used(j), kid'[q.pid] = kid[q.pid],
             Reaped(q.pid) => Reaped(q.pid)'
      PROVE  Tracked(jobtab[j].procs[i], jobtab[j].procs[1].pid)'
  <2>1. Tracked(q, jobtab[j].procs[1].pid)
    BY <1>0 DEF TrackInv
  <2> QED BY <1>0, <2>1 DEF Tracked, NotLost, StillChild, InGroup, Outstanding, Missed, Reaped
<1>1. CASE Quiet
  BY <1>0, <1>1 DEF Quiet, Used, Reaped
<1>2. ASSUME NEW p \in Pids, forkshell(p)
      PROVE Tracked(jobtab[j].procs[i], jobtab[j].procs[1].pid)'
  <2> DEFINE procs == jobtab[jp].procs
             r == Append(procs, [pid |-> p, status |-> "running"])
             leader == IF procs = <<>> THEN p ELSE procs[1].pid
  <2>1. /\ jp \in Slots /\ jobtab' = [jobtab EXCEPT ![jp].procs = r] /\ Available(p)
        /\ got' = got /\ kid'[p].st = "run" /\ kid'[p].grp \in {NoPid, leader}
        /\ \A x \in Pids : x # p => kid'[x] = kid[x]
    BY <1>2 DEF forkshell, LocalsOK, TypeOK
  <2>2. CASE j # jp
    <3>1. jobtab'[j] = jobtab[j] /\ Used(j)
      BY <2>1, <2>2 DEF TypeOK, Used
    <3>2. q.pid # p /\ q.pid \in Pids
      BY <1>p, <2>1, <3>1, FreshPid
    <3>3. kid'[q.pid] = kid[q.pid] /\ jobtab'[j].procs = jobtab[j].procs
      BY <2>1, <3>1, <3>2
    <3> QED BY <1>0, <2>1, <3>1, <3>3 DEF Reaped
  <2>3. CASE j = jp
    <3>1. jobtab'[j].procs = r /\ Used(j)
      BY <1>j, <2>1, <2>3 DEF TypeOK, Job, Used
    <3>2. r[1].pid = leader
      BY <1>j, <2>1, ForkedProperties
    <3>3. CASE i \in DOMAIN procs
      <4>1. r[i] = q /\ procs # <<>>
        BY <1>j, <2>1, <2>3, <3>3, ForkedProperties, ProcOfJob
      <4>2. kid'[q.pid] = kid[q.pid] /\ Tracked(q, leader)
        BY <1>p, <2>1, <2>3, <3>1, <3>3, <4>1, FreshPid DEF TrackInv
      <4>3. Tracked(q, leader) /\ kid'[q.pid] = kid[q.pid] /\ got' = got
        BY <4>2, <2>1
      <4> HIDE DEF r, leader, q
      <4> QED BY <3>1, <3>2, <4>1, <4>3
              DEF Tracked, NotLost, StillChild, InGroup, Outstanding, Missed, Reaped
    <3>4. CASE i \notin DOMAIN procs
      <4>1. r[i] = [pid |-> p, status |-> "running"]
        BY <1>j, <2>1, <2>3, <3>1, <3>4, ForkedProperties
      <4> HIDE DEF r, leader
      <4>2. /\ jobtab'[j].procs[i].pid = p /\ jobtab'[j].procs[1].pid = leader
            /\ jobtab'[j].procs[i].status = "running"
        BY <3>1, <3>2, <4>1
      <4>3. NotLost(jobtab[j].procs[i])'
        BY <2>1, <4>2 DEF NotLost, Outstanding
      <4>4. StillChild(jobtab[j].procs[i])'
        BY <2>1, <4>2 DEF StillChild
      <4>5. InGroup(jobtab[j].procs[i], jobtab[j].procs[1].pid)'
        BY <2>1, <4>2 DEF InGroup
      <4> QED BY <4>3, <4>4, <4>5 DEF Tracked
    <3> QED BY <3>3, <3>4
  <2> QED BY <2>2, <2>3
<1>3. ASSUME NEW p \in Pids, openhere(p)
      PROVE Tracked(jobtab[j].procs[i], jobtab[j].procs[1].pid)'
  <2>1. /\ jobtab' = jobtab /\ got' = got /\ Available(p)
        /\ \A x \in Pids : x # p => kid'[x] = kid[x]
    BY <1>3 DEF openhere, TypeOK
  <2> QED BY <1>0, <1>p, <2>1, FreshPid DEF Used, Reaped
<1>4. ASSUME NEW p \in Pids, wait3(p)
      PROVE Tracked(jobtab[j].procs[i], jobtab[j].procs[1].pid)'
  <2>1. /\ jobtab' = jobtab /\ ~Reaped(q.pid) /\ Reaped(p)'
        /\ \A x \in Pids : x # p => kid'[x] = kid[x]
        /\ kid'[p].st = "free" \/ (kid'[p].grp = kid[p].grp /\ kid[p].st # "free")
    BY <1>4, <1>k DEF wait3, Nothing, Reaped, FreeKid, TypeOK, Kid, CanReport
  <2>2. CASE q.pid # p
    BY <1>0, <1>p, <2>1, <2>2 DEF Used
  <2>3. CASE q.pid = p
    <3>1. Tracked(q, jobtab[j].procs[1].pid) /\ jobtab'[j].procs = jobtab[j].procs
      BY <2>1 DEF TrackInv, Used
    <3> QED BY <2>1, <2>3, <3>1 DEF Tracked, NotLost, StillChild, InGroup, Outstanding, Reaped
  <2> QED BY <2>2, <2>3
<1>5. ASSUME NEW t \in 0 .. MaxJobs, dowait(t)
      PROVE Tracked(jobtab[j].procs[i], jobtab[j].procs[1].pid)'
  <2> DEFINE r == Report(jobtab[j].procs, got.pid, got.status)
  <2>1. /\ jobtab'[j] = Recorded(jobtab[j], got.pid, got.status) /\ kid' = kid
        /\ got.stage = "reaped" /\ got.status \in {"stopped", "exited"}
        /\ got.status = "stopped" => kid[got.pid].st # "free"
    BY <1>5 DEF dowait, LocalsOK
  <2>2. Used(j) /\ jobtab'[j].procs = r
    BY <1>j, <2>1 DEF Recorded, Used, Job
  <2>3. /\ DOMAIN r = DOMAIN jobtab[j].procs
        /\ \A x \in DOMAIN r :
             /\ r[x].pid = jobtab[j].procs[x].pid
             /\ r[x].status = IF jobtab[j].procs[x].pid = got.pid THEN got.status
                              ELSE jobtab[j].procs[x].status
    BY <1>j, <2>1, ReportProperties
  <2>4. Tracked(q, jobtab[j].procs[1].pid)
    BY <2>2, <2>3 DEF TrackInv
  <2>5. 1 \in DOMAIN r
    BY <1>j, <2>2, <2>3, LenProperties
  <2> HIDE DEF r
  <2> QED BY <2>1, <2>2, <2>3, <2>4, <2>5
          DEF Tracked, NotLost, StillChild, InGroup, Outstanding, Missed, Reaped
<1>6. ASSUME NEW k \in Slots, restartjob(k), fgcmd(k) \/ bgcmd(k)
      PROVE Tracked(jobtab[j].procs[i], jobtab[j].procs[1].pid)'
  <2> DEFINE leader == jobtab[k].procs[1].pid
             r == Restarted(jobtab[k].procs)
  <2>1. got' = got /\ jobctl /\ Used(k) /\ leader \in Pids
    <3>1. got' = got /\ jobctl /\ Used(k) /\ jobtab[k].procs # <<>>
      BY <1>6 DEF fgcmd, bgcmd, Restartable
    <3>2. 1 \in DOMAIN jobtab[k].procs
      BY <1>j, <3>1, EmptySeq, LenProperties
    <3> QED BY <1>p, <3>1, <3>2
  <2>2. CASE jobtab[k].state = "done"
    BY <1>0, <1>6, <2>1, <2>2 DEF restartjob, Used, Reaped
  <2>3. CASE jobtab[k].state # "done"
    <3>1. \A p \in Pids : kid'[p] = IF kid[p].grp = leader THEN Continued(kid[p]) ELSE kid[p]
      BY <1>6, <2>3 DEF restartjob
    <3>2. \A p \in Pids : /\ kid'[p].grp = kid[p].grp
                          /\ (kid'[p].st = "free") <=> (kid[p].st = "free")
                          /\ kid[p].st = "stopped" /\ kid[p].grp = leader => kid'[p].st = "run"
                          /\ kid[p].grp # leader => kid'[p] = kid[p]
                          /\ kid[p].st # "stopped" => kid'[p].st = kid[p].st
      <4> SUFFICES ASSUME NEW p \in Pids
                   PROVE  /\ kid'[p].grp = kid[p].grp
                          /\ (kid'[p].st = "free") <=> (kid[p].st = "free")
                          /\ kid[p].st = "stopped" /\ kid[p].grp = leader => kid'[p].st = "run"
                          /\ kid[p].grp # leader => kid'[p] = kid[p]
                          /\ kid[p].st # "stopped" => kid'[p].st = kid[p].st
        OBVIOUS
      <4>1. kid'[p] = IF kid[p].grp = leader THEN Continued(kid[p]) ELSE kid[p]
        BY <3>1
      <4> HIDE DEF leader
      <4>2. CASE kid[p].st = "stopped" /\ kid[p].grp = leader
        <5>1. kid'[p] = [kid[p] EXCEPT !.st = "run", !.told = FALSE]
          BY <4>1, <4>2 DEF Continued
        <5>2. kid'[p].st = "run" /\ kid'[p].grp = kid[p].grp
          BY <1>k, <5>1 DEF Kid
        <5> QED BY <4>2, <5>2
      <4>3. CASE ~(kid[p].st = "stopped" /\ kid[p].grp = leader)
        <5>1. kid'[p] = kid[p]
          BY <4>1, <4>3 DEF Continued
        <5> QED BY <4>3, <5>1
      <4> QED BY <4>2, <4>3
    <3>3. Used(j) /\ DOMAIN jobtab'[j].procs = DOMAIN jobtab[j].procs
          /\ \A x \in DOMAIN jobtab[j].procs :
               /\ jobtab'[j].procs[x].pid = jobtab[j].procs[x].pid
               /\ \/ jobtab'[j].procs[x].status = jobtab[j].procs[x].status
                  \/ /\ j = k /\ jobtab[j].procs[x].status = "stopped"
                     /\ jobtab'[j].procs[x].status = "running"
      BY <1>j, <1>6, <2>3, RestartEffect, RestartedProperties DEF Used
    <3>4. /\ Tracked(q, jobtab[j].procs[1].pid) /\ q \in Proc /\ q.pid \in Pids
          /\ 1 \in DOMAIN jobtab[j].procs
      BY <1>j, <1>p, <3>3, LenProperties DEF TrackInv
    <3>5. StillChild(jobtab[j].procs[i])' /\ InGroup(jobtab[j].procs[i], jobtab[j].procs[1].pid)'
      <4>1. StillChild(q) /\ InGroup(q, jobtab[j].procs[1].pid)
        BY <3>4 DEF Tracked
      <4>2. /\ jobtab'[j].procs[i].pid = q.pid
            /\ jobtab'[j].procs[1].pid = jobtab[j].procs[1].pid
            /\ jobtab'[j].procs[i].status # "exited" => q.status # "exited"
        BY <3>3, <3>4
      <4>3. kid'[q.pid].grp = kid[q.pid].grp /\ (kid'[q.pid].st = "free" <=> kid[q.pid].st = "free")
        BY <3>2, <3>4
      <4>4. StillChild(jobtab[j].procs[i])'
        BY <2>1, <4>1, <4>2, <4>3 DEF StillChild, Reaped
      <4>5. InGroup(jobtab[j].procs[i], jobtab[j].procs[1].pid)'
        BY <4>1, <4>2, <4>3 DEF InGroup
      <4> QED BY <4>4, <4>5
    <3>6. NotLost(jobtab[j].procs[i])'
      <4>1. CASE q.status = "running"
        <5>1. Outstanding(q.pid) \/ Missed(q.pid)
          BY <3>4, <4>1 DEF Tracked, NotLost
        <5>2. CASE got.stage = "reaped" /\ got.pid = q.pid
          BY <2>1, <3>3, <5>2 DEF NotLost, Outstanding
        <5>3. CASE kid[q.pid].st \in {"run", "zombie"}
          <6>1. kid'[q.pid].st \in {"run", "zombie"}
            BY <3>2, <3>4, <5>3
          <6> QED BY <3>3, <6>1 DEF NotLost, Outstanding
        <5>4. CASE kid[q.pid].st = "stopped" /\ kid[q.pid].grp = leader
          <6>1. kid'[q.pid].st \in {"run", "zombie"}
            BY <3>2, <3>4, <5>4
          <6> QED BY <3>3, <6>1 DEF NotLost, Outstanding
        <5>5. CASE kid[q.pid].grp # leader
          <6>1. kid'[q.pid] = kid[q.pid]
            BY <3>2, <3>4, <5>5
          <6> QED BY <2>1, <3>3, <5>1, <6>1 DEF NotLost, Outstanding, Missed
        <5>6. \/ got.stage = "reaped" /\ got.pid = q.pid
              \/ kid[q.pid].st \in {"run", "zombie"} \/ kid[q.pid].st = "stopped"
          BY <5>1 DEF Outstanding, Missed
        <5> QED BY <5>2, <5>3, <5>4, <5>5, <5>6, Zenon
      <4>2. CASE q.status # "running" /\ j = k /\ q.status = "stopped"
        <5>1. kid[q.pid].st # "free" \/ Reaped(q.pid)
          BY <3>4, <4>2 DEF Tracked, StillChild
        <5>2. kid[q.pid].st # "free" => kid[q.pid].grp \in {NoPid, leader}
          BY <3>4, <4>2 DEF Tracked, InGroup
        <5>3. CASE kid[q.pid].st = "free"
          BY <2>1, <3>3, <5>1, <5>3 DEF NotLost, Outstanding, Reaped
        <5>4. CASE kid[q.pid].st \in {"run", "zombie"}
          <6>1. kid'[q.pid].st \in {"run", "zombie"}
            BY <3>2, <3>4, <5>4
          <6> QED BY <3>3, <6>1 DEF NotLost, Outstanding
        <5>5. CASE kid[q.pid].st = "stopped" /\ kid[q.pid].grp = leader
          <6>1. kid'[q.pid].st \in {"run", "zombie"}
            BY <3>2, <3>4, <5>5
          <6> QED BY <3>3, <6>1 DEF NotLost, Outstanding
        <5>6. CASE kid[q.pid].st = "stopped" /\ kid[q.pid].grp = NoPid
          <6>1. kid'[q.pid] = kid[q.pid]
            BY <2>1, <3>2, <3>4, <5>6, ConstantsAssumption
          <6> QED BY <2>1, <3>3, <5>6, <6>1 DEF NotLost, Missed
        <5>7. kid[q.pid].st \in {"free", "run", "stopped", "zombie"}
          BY <1>k, <3>4 DEF Kid
        <5>8. kid[q.pid].st # "free" => kid[q.pid].grp = NoPid \/ kid[q.pid].grp = leader
          BY <5>2
        <5>9. \/ kid[q.pid].st = "free" \/ kid[q.pid].st \in {"run", "zombie"}
              \/ kid[q.pid].st = "stopped"
          BY <5>7
        <5> HIDE DEF leader, q
        <5>10. kid[q.pid].st = "stopped" => kid[q.pid].st # "free"
          OBVIOUS
        <5> QED BY <5>3, <5>4, <5>5, <5>6, <5>8, <5>9, <5>10
      <4> QED BY <3>3, <4>1, <4>2 DEF NotLost
    <3> QED BY <3>5, <3>6 DEF Tracked
  <2> QED BY <2>2, <2>3
<1>7. ASSUME NEW p \in Pids, Exit(p) \/ Killed(p) \/ Stop(p) \/ Cont(p)
      PROVE Tracked(jobtab[j].procs[i], jobtab[j].procs[1].pid)'
  <2>1. /\ jobtab' = jobtab /\ got' = got
        /\ \A x \in Pids : x # p => kid'[x] = kid[x]
        /\ kid[p].st # "free" /\ kid'[p].grp = kid[p].grp
        /\ \/ kid'[p].st = "zombie"
           \/ kid'[p].st \in {"run", "stopped"} /\ ~kid'[p].told
    BY <1>7, ChildStep
  <2>3. CASE q.pid # p
    BY <1>0, <1>p, <2>1, <2>3 DEF Used, Reaped
  <2>4. CASE q.pid = p
    <3>1. Tracked(q, jobtab[j].procs[1].pid)
      BY <2>1 DEF TrackInv, Used
    <3> QED BY <2>1, <2>4, <3>1 DEF Tracked, NotLost, StillChild, InGroup, Outstanding
  <2> QED BY <2>3, <2>4
<1> QED BY <1>1, <1>2, <1>3, <1>4, <1>5, <1>6, <1>7, StepCases

(* Every process shown as running will be heard of again, provided that no *)
(* SIGINT can tear wait3 from the recording of what it returned and that   *)
(* pids the table remembers are not reissued.                              *)
THEOREM StatusNeverLost ==
  ASSUME ~PidReuse, ~SigintRaises
  PROVE  Spec => []NoLostStatus
<1>1. Init => TrackInv
  BY DEF Init, TrackInv, Used, Unused, FreeKid
<1>2. TypeInv /\ TrackInv /\ [Next]_vars => TrackInv'
  BY TrackStep
<1>3. TrackInv => NoLostStatus
  BY DEF TrackInv, NoLostStatus, Tracked, NotLost
<1> QED BY <1>1, <1>2, <1>3, Typing, PTL DEF Spec

----------------------------------------------------------------------------
(* The current job can be continued.  What makes this inductive is that    *)
(* the job a command is being forked into or waited for stays in use.      *)

TargetUsed == pc \in {"forking", "forked", "waitforjob"} => Used(jp)

CurInv == CurrentJobAlive /\ TargetUsed

LEMMA TargetUsedStep ==
  ASSUME TypeInv, TargetUsed, [Next]_vars
  PROVE  TargetUsed'
<1> USE DEF TypeInv
<1>j. \A j \in Slots : jobtab[j] \in Job /\ jobtab[j].procs \in Seq(Proc)
  BY DEF TypeOK, Job
<1>1. ASSUME NEW j \in Slots, NEW n \in 1 .. MaxPipe, NEW m \in Modes, StartCommand(j, n, m)
      PROVE TargetUsed'
  <2>1. makejob(j, n) /\ jp' = j
    BY <1>1 DEF StartCommand
  <2>2. jobtab'[j] = NewJob(n)
    BY <2>1, MakejobTyped
  <2> QED BY <2>1, <2>2 DEF NewJob, Unused, TargetUsed, Used
<1>2. ASSUME NEW p \in Pids, forkshell(p) PROVE TargetUsed'
  BY <1>2, <1>j DEF forkshell, TargetUsed, Used, Job, TypeOK, LocalsOK
<1>3. ASSUME NEW j \in Slots, fgcmd(j) PROVE TargetUsed'
  <2>1. restartjob(j) /\ Used(j) /\ jp' = j
    BY <1>3 DEF fgcmd, Restartable
  <2>2. CASE jobtab[j].state = "done"
    BY <2>1, <2>2 DEF restartjob, TargetUsed, Used
  <2>3. CASE jobtab[j].state # "done"
    BY <2>1, <2>3, RestartEffect DEF TargetUsed, Used
  <2> QED BY <2>2, <2>3
<1>4. ASSUME NEW t \in 0 .. MaxJobs, dowait(t) PROVE TargetUsed'
  <2>1. pc' = pc /\ jp' = jp
        /\ \A j \in Slots : jobtab'[j] = Recorded(jobtab[j], got.pid, got.status)
    BY <1>4 DEF dowait
  <2>2. \A j \in Slots : jobtab'[j].used = jobtab[j].used
    BY <1>j, <2>1 DEF Recorded, Job
  <2> QED BY <2>1, <2>2 DEF TargetUsed, Used, LocalsOK
<1>5. CASE MarkChanged
  <2>1. \A j \in Slots : jobtab'[j].used = jobtab[j].used
    BY <1>5, MarkEffect DEF TypeInv
  <2> QED BY <1>5, <2>1 DEF MarkChanged, TargetUsed, Used, LocalsOK
<1>6. CASE Return \/ (Command /\ \A j \in Slots : ~fgcmd(j)) \/ Signal
  BY <1>6 DEF Return, Command, Signal, TargetUsed, waitforjob, WaitReturns, showjobs, jobscmd,
              Prompt, TrapAction, waitcmd, bgcmd, Restartable, onint
<1>7. \/ error \/ AfterFork \/ UNCHANGED vars
      \/ \E p \in Pids : openhere(p) \/ wait3(p) \/ Exit(p) \/ Killed(p) \/ Stop(p) \/ Cont(p)
      => TargetUsed'
  BY DEF error, AfterFork, vars, openhere, wait3, Exit, Killed, Stop, Cont, TargetUsed, Used
<1> QED
  BY <1>1, <1>2, <1>3, <1>4, <1>5, <1>6, <1>7 DEF Next, Create, Reap, Command, Children

LEMMA CurrentStep ==
  ASSUME TypeInv, CurInv, [Next]_vars
  PROVE  CurrentJobAlive'
<1> USE DEF TypeInv
<1>j. \A j \in Slots : jobtab[j] \in Job /\ jobtab[j].procs \in Seq(Proc)
  BY DEF TypeOK, Job
<1>c. curjob # 0 => curjob \in Slots /\ Used(curjob) /\ jobtab[curjob].state # "done"
  BY DEF CurInv, CurrentJobAlive, TypeOK, Slots
<1>n. ~Unused.used /\ Unused \in Job
  BY UnusedIsJob DEF Unused
<1> USE DEF CurrentJobAlive, Used
<1>0. ASSUME curjob' = curjob,
             \A j \in Slots : Used(j) => jobtab'[j].used /\ jobtab'[j].state = jobtab[j].state
      PROVE  CurrentJobAlive'
  BY <1>0, <1>c
<1>1. ASSUME NEW j \in Slots, NEW n \in 1 .. MaxPipe, NEW m \in Modes, StartCommand(j, n, m)
      PROVE CurrentJobAlive'
  <2>1. makejob(j, n) /\ curjob' = curjob
    BY <1>1 DEF StartCommand
  <2>2. \A k \in Slots : Used(k) => k # j
    BY <2>1, MakejobTyped
  <2> QED BY <1>0, <2>1, <2>2, MakejobTyped
<1>2. ASSUME NEW p \in Pids, forkshell(p) PROVE CurrentJobAlive'
  <2>1. \A j \in Slots : jobtab'[j].used = jobtab[j].used /\ jobtab'[j].state = jobtab[j].state
    BY <1>2, <1>j DEF forkshell, Job, TypeOK, LocalsOK
  <2> QED BY <1>0, <1>2, <2>1 DEF forkshell
<1>3. ASSUME NEW k \in Slots, restartjob(k), fgcmd(k) \/ bgcmd(k) PROVE CurrentJobAlive'
  <2>1. curjob' = curjob
    BY <1>3 DEF fgcmd, bgcmd
  <2>2. CASE jobtab[k].state = "done"
    BY <1>0, <1>3, <2>1, <2>2 DEF restartjob
  <2>3. CASE jobtab[k].state # "done"
    BY <1>3, <1>c, <2>1, <2>3, RestartEffect
  <2> QED BY <2>2, <2>3
<1>4. ASSUME NEW t \in 0 .. MaxJobs, dowait(t) PROVE CurrentJobAlive'
  <2>1. /\ curjob' = CurAfterDone(jobtab')
        /\ \A j \in Slots : jobtab'[j] = Recorded(jobtab[j], got.pid, got.status)
    BY <1>4 DEF dowait
  <2>2. \A j \in Slots : jobtab'[j].used = jobtab[j].used
    BY <1>j, <2>1 DEF Recorded, Job
  <2> QED BY <1>c, <2>1, <2>2 DEF CurAfterDone
<1>5. CASE MarkChanged
  <2>1. \A j \in Slots : jobtab'[j].used = jobtab[j].used /\ jobtab'[j].state = jobtab[j].state
    BY <1>5, MarkEffect DEF TypeInv
  <2> QED BY <1>0, <1>5, <2>1 DEF MarkChanged
<1>6. CASE waitforjob
  <2>1. jp \in Slots /\ Used(jp) /\ jobtab[jp].state # "running"
    BY <1>6 DEF waitforjob, LocalsOK, CurInv, TargetUsed
  <2>2. CASE jobtab[jp].state = "done"
    BY <1>6, <1>c, <2>1, <2>2 DEF waitforjob, freejob, CurAfterFree, TypeOK
  <2>3. CASE jobtab[jp].state # "done"
    BY <1>6, <2>1, <2>3 DEF waitforjob
  <2> QED BY <2>2, <2>3
<1>7. CASE WaitReturns
  <2>1. \/ jobtab' = jobtab /\ curjob' = curjob
        \/ jobtab' = freejob(jobtab, jp) /\ curjob' = CurAfterFree(jp)
    BY <1>7 DEF WaitReturns
  <2> QED BY <1>c, <2>1 DEF freejob, CurAfterFree, TypeOK
<1>8. ASSUME NEW last \in 0 .. MaxJobs, NEW half \in BOOLEAN, showjobs(last, half)
      PROVE CurrentJobAlive'
  <2>1. /\ curjob' = 0 \/ curjob' = curjob
        /\ curjob \in Slots /\ ~jobtab'[curjob].used => curjob' = 0
    BY <1>8 DEF showjobs
  <2>2. ASSUME NEW j \in Slots, Used(j), jobtab[j].state # "done"
        PROVE jobtab'[j].used => jobtab'[j].state # "done"
    BY <1>8, <1>j, <1>n, <2>2 DEF showjobs, Listed, Printed, Passed, Job
  <2> QED BY <1>c, <2>1, <2>2
<1>9. \/ error \/ AfterFork \/ jobscmd \/ Prompt \/ TrapAction \/ onint \/ UNCHANGED vars
      \/ (\E j \in 0 .. MaxJobs : waitcmd(j))
      \/ \E p \in Pids : openhere(p) \/ wait3(p) \/ Exit(p) \/ Killed(p) \/ Stop(p) \/ Cont(p)
      => jobtab' = jobtab /\ curjob' = curjob
  BY DEF error, AfterFork, jobscmd, Prompt, TrapAction, onint, waitcmd, vars, openhere, wait3,
         Exit, Killed, Stop, Cont
<1>10. showjobs(njobs, FALSE) => CurrentJobAlive'
  BY <1>8 DEF TypeOK
<1>11. \A k \in Slots : fgcmd(k) \/ bgcmd(k) => CurrentJobAlive'
  BY <1>3 DEF fgcmd, bgcmd
<1> QED
  BY <1>0, <1>1, <1>2, <1>4, <1>5, <1>6, <1>7, <1>8, <1>9, <1>10, <1>11
  DEF Next, Create, Reap, Return, Command, Signal, Children

(* A stopped foreground job becomes current, a job that ends or is freed   *)
(* stops being current: dowait, waitforjob, wait and showjobs between them *)
(* never leave curjob at a job that fg could not continue.                 *)
THEOREM CurrentIsAlive == Spec => []CurrentJobAlive
<1>1. Init => CurInv
  BY DEF Init, CurInv, CurrentJobAlive, TargetUsed
<1>2. TypeInv /\ CurInv /\ [Next]_vars => CurInv'
  BY CurrentStep, TargetUsedStep DEF CurInv
<1>3. CurInv => CurrentJobAlive
  BY DEF CurInv
<1> QED BY <1>1, <1>2, <1>3, Typing, PTL DEF Spec

----------------------------------------------------------------------------
(* A job is forgotten only when none of its processes is alive.            *)

LEMMA FreeingStep ==
  ASSUME iflag, TypeInv, DoneIsDead, [Next]_vars, NEW j \in Slots, Used(j), ~jobtab'[j].used,
         NEW i \in DOMAIN jobtab[j].procs
  PROVE  kid[jobtab[j].procs[i].pid].st = "free"
<1> USE DEF TypeInv
<1>j. \A k \in Slots : jobtab[k] \in Job /\ jobtab[k].procs \in Seq(Proc)
  BY DEF TypeOK, Job
<1>0. SUFFICES jobtab[j].state = "done"
  BY DEF DoneIsDead
<1>p. jobtab[j].procs # <<>>
  BY <1>j, ProcOfJob
<1>1. ASSUME NEW k \in Slots, NEW n \in 1 .. MaxPipe, NEW m \in Modes, StartCommand(k, n, m)
      PROVE FALSE
  <2>1. makejob(k, n)
    BY <1>1 DEF StartCommand
  <2> QED BY <2>1, MakejobTyped DEF Used
<1>2. ASSUME NEW p \in Pids, forkshell(p) PROVE FALSE
  <2>1. \A k \in Slots : jobtab'[k].used = jobtab[k].used
    BY <1>2, <1>j DEF forkshell, Job, TypeOK, LocalsOK
  <2> QED BY <2>1 DEF Used
<1>3. ASSUME NEW k \in Slots, restartjob(k) PROVE FALSE
  <2>1. CASE jobtab[k].state = "done"
    BY <1>3, <2>1 DEF restartjob, Used
  <2>2. CASE jobtab[k].state # "done"
    BY <1>3, <2>2, RestartEffect DEF Used
  <2> QED BY <2>1, <2>2
<1>4. ASSUME NEW t \in 0 .. MaxJobs, dowait(t) PROVE FALSE
  <2>1. \A k \in Slots : jobtab'[k] = Recorded(jobtab[k], got.pid, got.status)
    BY <1>4 DEF dowait
  <2> QED BY <1>j, <2>1 DEF Recorded, Job, Used
<1>5. CASE MarkChanged
  <2>1. \A k \in Slots : jobtab'[k].used = jobtab[k].used
    BY <1>5, MarkEffect DEF TypeInv
  <2> QED BY <2>1 DEF Used
<1>6. CASE waitforjob
  <2>1. \/ jobtab[jp].state = "done" /\ jobtab' = freejob(jobtab, jp)
        \/ jobtab' = jobtab
    BY <1>6 DEF waitforjob
  <2> QED BY <2>1 DEF freejob, TypeOK, Used
<1>7. CASE WaitReturns
  BY <1>7 DEF WaitReturns, Used
<1>8. ASSUME NEW last \in 0 .. MaxJobs, NEW half \in BOOLEAN, showjobs(last, half)
      PROVE jobtab[j].state = "done"
  <2>1. jobtab'[j] \in {Listed(jobtab[j]), Printed(jobtab[j]), jobtab[j]}
    BY <1>8 DEF showjobs
  <2>2. Printed(jobtab[j]).used
    BY <1>j DEF Printed, Job, Used
  <2>3. ~Listed(jobtab[j]).used
    BY <2>1, <2>2 DEF Used
  <2> QED BY <1>p, <2>2, <2>3 DEF Listed, Used
<1>9. \/ error \/ AfterFork \/ jobscmd \/ Prompt \/ TrapAction \/ onint \/ UNCHANGED vars
      \/ (\E k \in 0 .. MaxJobs : waitcmd(k))
      \/ \E p \in Pids : openhere(p) \/ wait3(p) \/ Exit(p) \/ Killed(p) \/ Stop(p) \/ Cont(p)
      => jobtab' = jobtab
  BY DEF error, AfterFork, jobscmd, Prompt, TrapAction, onint, waitcmd, vars, openhere, wait3,
         Exit, Killed, Stop, Cont
<1>10. showjobs(njobs, FALSE) => jobtab[j].state = "done"
  BY <1>8 DEF TypeOK
<1>11. jobtab' = jobtab => FALSE
  BY DEF Used
<1>12. \A k \in Slots : ~fgcmd(k) /\ ~bgcmd(k)
  BY <1>3 DEF fgcmd, bgcmd
<1> QED
  BY <1>1, <1>2, <1>4, <1>5, <1>6, <1>7, <1>8, <1>9, <1>10, <1>11, <1>12
  DEF Next, Create, Reap, Return, Command, Signal, Children

(* An interactive shell never forgets a process that lives: freejob is     *)
(* only reached for a job whose processes have all been waited for.  (One  *)
(* that is not interactive frees a stopped job when wait returns.)         *)
THEOREM NothingAliveForgotten ==
  ASSUME ~PidReuse, iflag
  PROVE  Spec => FreedWhenDead
<1> DEFINE A == \A j \in Slots : Used(j) /\ ~jobtab'[j].used =>
                  \A i \in DOMAIN jobtab[j].procs : kid[jobtab[j].procs[i].pid].st = "free"
<1>1. TypeInv /\ DoneIsDead /\ [Next]_vars => [A]_vars
  BY FreeingStep
<1>2. FreedWhenDead <=> [][A]_vars
  BY PTL DEF FreedWhenDead
<1>3. Spec => []DoneIsDead
  BY DoneJobsAreDead
<1> HIDE DEF A
<1> QED BY <1>1, <1>2, <1>3, Typing, PTL DEF Spec

----------------------------------------------------------------------------
(* A pid the table remembers belongs to one job, since the kernel hands    *)
(* out none that is remembered: so $! leads to one job, and what dowait    *)
(* records concerns one job.                                               *)

SamePids(a, b) == DOMAIN a = DOMAIN b /\ \A i \in DOMAIN a : a[i].pid = b[i].pid

LEMMA SameInterval ==
  ASSUME NEW m \in Nat, NEW n \in Nat, 1 .. m = 1 .. n
  PROVE  m = n
<1>1. \A i \in Int : i \in 1 .. m <=> i \in 1 .. n
  OBVIOUS
<1>2. m # 0 => m \in 1 .. n
  BY <1>1
<1>3. n # 0 => n \in 1 .. m
  BY <1>1
<1> QED BY <1>2, <1>3

LEMMA SamePidsFacts ==
  ASSUME NEW a \in Seq(Proc), NEW b \in Seq(Proc), SamePids(a, b), NEW p
  PROVE  /\ InJob(p, a) <=> InJob(p, b)
         /\ Len(a) = Len(b) /\ (a = <<>> <=> b = <<>>)
         /\ a # <<>> => a[Len(a)].pid = b[Len(b)].pid
<1>1. /\ DOMAIN a = 1 .. Len(a) /\ Len(a) \in Nat
      /\ DOMAIN b = 1 .. Len(b) /\ Len(b) \in Nat
  BY LenProperties
<1>2. Len(a) = Len(b)
  <2>1. 1 .. Len(a) = 1 .. Len(b)
    BY <1>1 DEF SamePids
  <2> QED BY <1>1, <2>1, SameInterval
<1>3. (a = <<>> <=> Len(a) = 0) /\ (b = <<>> <=> Len(b) = 0)
  BY EmptySeq
<1>4. a # <<>> => Len(a) \in DOMAIN a
  BY <1>1, <1>3
<1> QED BY <1>2, <1>3, <1>4 DEF SamePids, InJob

(* Only forkshell adds a process to a job.                                 *)
LEMMA PidsKept ==
  ASSUME TypeInv, [Next]_vars, \A p \in Pids : ~forkshell(p),
         NEW j \in Slots, jobtab'[j].used, jobtab'[j].procs # <<>>
  PROVE  Used(j) /\ SamePids(jobtab'[j].procs, jobtab[j].procs)
<1> USE DEF TypeInv
<1>j. \A k \in Slots : jobtab[k] \in Job /\ jobtab[k].procs \in Seq(Proc)
  BY DEF TypeOK, Job
<1>0. jobtab'[j] = jobtab[j] => Used(j) /\ SamePids(jobtab'[j].procs, jobtab[j].procs)
  BY DEF Used, SamePids
<1>1. CASE Quiet
  BY <1>1 DEF Quiet, Used, SamePids
<1>2. ASSUME NEW t \in 0 .. MaxJobs, dowait(t)
      PROVE  Used(j) /\ SamePids(jobtab'[j].procs, jobtab[j].procs)
  <2>1. jobtab'[j] = Recorded(jobtab[j], got.pid, got.status)
        /\ got.status \in {"stopped", "exited"}
    BY <1>2 DEF dowait, LocalsOK
  <2>2. Used(j) /\ jobtab'[j].procs = Report(jobtab[j].procs, got.pid, got.status)
    BY <1>j, <2>1 DEF Recorded, Used, Job
  <2> QED BY <1>j, <2>1, <2>2, ReportProperties DEF SamePids
<1>3. ASSUME NEW k \in Slots, restartjob(k)
      PROVE  Used(j) /\ SamePids(jobtab'[j].procs, jobtab[j].procs)
  <2>1. CASE jobtab[k].state = "done"
    BY <1>0, <1>3, <2>1 DEF restartjob
  <2>2. CASE jobtab[k].state # "done" /\ j # k
    BY <1>0, <1>3, <2>2, RestartEffect
  <2>3. CASE jobtab[k].state # "done" /\ j = k
    <3>1. Used(j) /\ jobtab'[j].procs = Restarted(jobtab[j].procs)
      BY <1>3, <2>3, RestartEffect DEF Used
    <3> QED BY <1>j, <3>1, RestartedProperties DEF SamePids
  <2> QED BY <2>1, <2>2, <2>3
<1>4. (\E p \in Pids : openhere(p) \/ wait3(p) \/ Exit(p) \/ Killed(p) \/ Stop(p) \/ Cont(p))
      => jobtab' = jobtab
  BY DEF openhere, wait3, Exit, Killed, Stop, Cont
<1> QED BY <1>0, <1>1, <1>2, <1>3, <1>4, StepCases

OnePlace ==
  \A j, k \in Slots : \A p \in Pids :
    Used(j) /\ Used(k) /\ InJob(p, jobtab[j].procs) /\ InJob(p, jobtab[k].procs) => j = k

(* What forkshell does to the table.                                       *)
LEMMA ForkEffect ==
  ASSUME ~PidReuse, TypeInv, TargetUsed, NEW p \in Pids, forkshell(p)
  PROVE  /\ jp \in Slots /\ Used(jp)
         /\ \A j \in Slots : /\ jobtab'[j].used = jobtab[j].used
                             /\ jobtab'[j].state = jobtab[j].state
                             /\ jobtab'[j].changed = jobtab[j].changed
                             /\ j # jp => jobtab'[j].procs = jobtab[j].procs
                             /\ Used(j) => ~InJob(p, jobtab[j].procs)
         /\ \A q : InJob(q, jobtab'[jp].procs) <=> InJob(q, jobtab[jp].procs) \/ q = p
         /\ jobtab'[jp].procs # <<>>
         /\ jobtab'[jp].procs[Len(jobtab'[jp].procs)].pid = p
<1> DEFINE procs == jobtab[jp].procs
           r == Append(procs, [pid |-> p, status |-> "running"])
<1>j. \A j \in Slots : jobtab[j] \in Job /\ jobtab[j].procs \in Seq(Proc)
  BY DEF TypeInv, TypeOK, Job
<1>1. jp \in Slots /\ Used(jp) /\ jobtab' = [jobtab EXCEPT ![jp].procs = r] /\ Available(p)
  BY DEF forkshell, TypeInv, LocalsOK, TargetUsed
<1>2. \A j \in Slots : /\ jobtab'[j].used = jobtab[j].used
                       /\ jobtab'[j].state = jobtab[j].state
                       /\ jobtab'[j].changed = jobtab[j].changed
                       /\ j # jp => jobtab'[j].procs = jobtab[j].procs
  BY <1>1, <1>j DEF TypeInv, TypeOK, Job
<1>3. jobtab'[jp].procs = r
  BY <1>1, <1>j DEF TypeInv, TypeOK, Job
<1>4. \A j \in Slots : Used(j) => ~InJob(p, jobtab[j].procs)
  BY <1>1 DEF Available
<1>5. /\ r \in Seq(Proc)
      /\ DOMAIN r = DOMAIN procs \union {Len(procs) + 1}
      /\ \A i \in DOMAIN procs : r[i] = procs[i]
      /\ r[Len(procs) + 1] = [pid |-> p, status |-> "running"]
  BY <1>1, <1>j, ForkedProperties
<1>6. r[Len(procs) + 1].pid = p
  BY <1>5
<1>7. \A q : InJob(q, r) <=> InJob(q, procs) \/ q = p
  <2> HIDE DEF r, procs
  <2> QED BY <1>5, <1>6 DEF InJob
<1>8. Len(r) = Len(procs) + 1 /\ r # <<>>
  <2>1. [pid |-> p, status |-> "running"] \in Proc
    BY DEF Proc
  <2> QED BY <1>1, <1>j, <2>1, AppendProperties
<1> HIDE DEF r, procs
<1>9. r[Len(r)].pid = p
  BY <1>6, <1>8
<1> QED BY <1>1, <1>2, <1>3, <1>4, <1>7, <1>8, <1>9 DEF procs

LEMMA OnePlaceStep ==
  ASSUME ~PidReuse, TypeInv, TargetUsed, OnePlace, [Next]_vars
  PROVE  OnePlace'
<1>1. CASE \E p \in Pids : forkshell(p)
  BY <1>1, ForkEffect DEF OnePlace, Used
<1>2. CASE \A p \in Pids : ~forkshell(p)
  <2>1. ASSUME NEW j \in Slots, jobtab'[j].used, NEW p, InJob(p, jobtab'[j].procs)
        PROVE  Used(j) /\ InJob(p, jobtab[j].procs)
    <3>1. jobtab'[j].procs # <<>>
      BY <2>1, EmptySeq DEF InJob
    <3> QED BY <1>2, <2>1, <3>1, PidsKept DEF SamePids, InJob
  <2> QED BY <2>1 DEF OnePlace, Used
<1> QED BY <1>1, <1>2

(* A job that holds $! holds it last, and none holds it but the one the    *)
(* background command made.                                                *)
BackgroundLast ==
  /\ \A j \in Slots : Used(j) /\ InJob(backgndpid, jobtab[j].procs) => LastPid(j, backgndpid)
  /\ pc = "forking" /\ cmd.mode # "BG" => ~InJob(backgndpid, jobtab[jp].procs)

LEMMA BackgroundStep ==
  ASSUME ~PidReuse, TypeInv, TargetUsed, BackgroundLast, [Next]_vars
  PROVE  BackgroundLast'
<1> USE DEF TypeInv
<1>j. \A j \in Slots : jobtab[j] \in Job /\ jobtab[j].procs \in Seq(Proc)
  BY DEF TypeOK, Job
<1>1. ASSUME NEW p \in Pids, forkshell(p) PROVE BackgroundLast'
  <2>1. /\ backgndpid' = IF cmd.mode = "BG" THEN p ELSE backgndpid
        /\ cmd'.mode = cmd.mode /\ jp' = jp /\ pc = "forking" /\ backgndpid # p
    BY <1>1 DEF forkshell, Available, TypeOK
  <2>2. ASSUME NEW j \in Slots, jobtab'[j].used, InJob(backgndpid', jobtab'[j].procs)
        PROVE  LastPid(j, backgndpid)'
    <3>1. CASE cmd.mode = "BG"
      <4>1. j = jp
        BY <1>1, <2>1, <2>2, <3>1, ForkEffect DEF Used
      <4> QED BY <1>1, <2>1, <2>2, <3>1, <4>1, ForkEffect DEF LastPid, Used
    <3>2. CASE cmd.mode # "BG"
      <4>1. ~InJob(backgndpid', jobtab'[jp].procs)
        BY <1>1, <2>1, <3>2, ForkEffect DEF BackgroundLast
      <4>2. j # jp
        BY <2>2, <4>1
      <4> QED BY <1>1, <2>1, <2>2, <3>2, <4>2, ForkEffect DEF LastPid, Used, BackgroundLast
    <3> QED BY <3>1, <3>2
  <2>3. cmd.mode # "BG" => ~InJob(backgndpid', jobtab'[jp].procs)
    BY <1>1, <2>1, ForkEffect DEF BackgroundLast
  <2> QED BY <2>1, <2>2, <2>3 DEF BackgroundLast, Used
<1>2. CASE \A p \in Pids : ~forkshell(p)
  <2>1. backgndpid' = backgndpid
    BY <1>2 DEF Next, Create, Reap, Return, Command, Signal, Children, vars, StartCommand, openhere,
           error, AfterFork, wait3, dowait, MarkChanged, waitforjob, WaitReturns, showjobs,
           jobscmd, Prompt, TrapAction, waitcmd, fgcmd, bgcmd, onint, Exit, Killed, Stop, Cont
  <2>2. ASSUME NEW j \in Slots, jobtab'[j].used, InJob(backgndpid, jobtab'[j].procs)
        PROVE  Used(j) /\ InJob(backgndpid, jobtab[j].procs) /\ LastPid(j, backgndpid)'
    <3>1. jobtab'[j].procs # <<>>
      BY <2>2, EmptySeq DEF InJob
    <3>2. Used(j) /\ SamePids(jobtab'[j].procs, jobtab[j].procs)
      BY <1>2, <2>2, <3>1, PidsKept
    <3>3. InJob(backgndpid, jobtab[j].procs)
      BY <2>2, <3>2 DEF SamePids, InJob
    <3>4. LastPid(j, backgndpid)
      BY <3>2, <3>3 DEF BackgroundLast
    <3>5. jobtab'[j].procs \in Seq(Proc) /\ jobtab[j].procs \in Seq(Proc)
      <4>1. jobtab' \in [Slots -> Job]
        BY StepTyped DEF TypeOK
      <4> QED BY <1>j, <4>1 DEF Job
    <3>6. /\ Len(jobtab'[j].procs) = Len(jobtab[j].procs)
          /\ jobtab'[j].procs[Len(jobtab'[j].procs)].pid = jobtab[j].procs[Len(jobtab[j].procs)].pid
      BY <3>1, <3>2, <3>5, SamePidsFacts
    <3> QED BY <2>1, <2>2, <3>1, <3>2, <3>3, <3>4, <3>6 DEF LastPid, Used
  <2>3. CASE pc = "forking"
    <3>1. pc' = "forking" => jobtab' = jobtab /\ jp' = jp /\ cmd' = cmd
      BY <1>2, <2>3 DEF Next, Create, Reap, Return, Command, Signal, Children, vars, StartCommand,
           openhere, error, AfterFork, wait3, dowait, MarkChanged, waitforjob, WaitReturns,
           showjobs, jobscmd, Prompt, TrapAction, waitcmd, fgcmd, bgcmd, onint, Exit, Killed, Stop,
           Cont, Restartable, InWait, LocalsOK, Listing
    <3>2. pc' = "forking" /\ cmd'.mode # "BG" => ~InJob(backgndpid', jobtab'[jp'].procs)
      BY <2>1, <2>3, <3>1 DEF BackgroundLast
    <3>3. \A j \in Slots : Used(j)' /\ InJob(backgndpid, jobtab[j].procs)' => LastPid(j, backgndpid)'
      BY <2>1, <2>2 DEF Used
    <3> QED BY <3>2, <3>3 DEF BackgroundLast
  <2>4. CASE pc # "forking"
    <3>1. pc' = "forking" => jobtab'[jp'].procs = <<>>
      <4>1. pc' = "forking" =>
              \E j \in Slots, n \in 1 .. MaxPipe, m \in Modes : StartCommand(j, n, m)
        BY <2>4 DEF Next, Create, Reap, Return, Command, Signal, Children, vars, forkshell, openhere,
           error, AfterFork, wait3, dowait, MarkChanged, waitforjob, WaitReturns, showjobs,
           jobscmd, Prompt, TrapAction, waitcmd, fgcmd, bgcmd, onint, Exit, Killed, Stop, Cont
      <4>2. ASSUME NEW j \in Slots, NEW n \in 1 .. MaxPipe, NEW m \in Modes, StartCommand(j, n, m)
            PROVE  jobtab'[jp'].procs = <<>>
        <5>1. makejob(j, n) /\ jp' = j
          BY <4>2 DEF StartCommand
        <5>2. jobtab'[j] = NewJob(n)
          BY <5>1, MakejobTyped
        <5> QED BY <5>1, <5>2 DEF NewJob, Unused
      <4> QED BY <4>1, <4>2
    <3>2. ~InJob(backgndpid, <<>>)
      BY EmptySeq DEF InJob
    <3> QED BY <2>1, <2>2, <3>1, <3>2 DEF BackgroundLast, Used
  <2> QED BY <2>3, <2>4
<1> QED BY <1>1, <1>2

(* wait $! finds the job that is running it: getjob looks at the last      *)
(* process of each job, forkshell sets backgndpid at every process of a    *)
(* pipeline, and no other job has the pid.                                 *)
THEOREM BackgroundIsFound ==
  ASSUME ~PidReuse
  PROVE  Spec => []WaitBackground
<1> DEFINE BackInv == TargetUsed /\ OnePlace /\ BackgroundLast
<1>1. Init => BackInv
  BY DEF Init, TargetUsed, OnePlace, BackgroundLast, Used, Unused
<1>2. TypeInv /\ BackInv /\ [Next]_vars => BackInv'
  BY TargetUsedStep, OnePlaceStep, BackgroundStep
<1>3. TypeInv /\ BackInv => WaitBackground
  <2> SUFFICES ASSUME TypeInv, BackInv, NEW j \in Slots, Used(j), InJob(backgndpid, jobtab[j].procs)
               PROVE  getjob(backgndpid, j)
    BY DEF WaitBackground
  <2>1. \A k \in Slots : jobtab[k].procs \in Seq(Proc)
    BY DEF TypeInv, TypeOK, Job
  <2>2. LastPid(j, backgndpid)
    BY DEF BackgroundLast
  <2>3. ASSUME NEW k \in 1 .. j - 1, LastPid(k, backgndpid) PROVE FALSE
    <3>1. k \in Slots /\ k # j
      BY ConstantsAssumption DEF Slots
    <3>2. Len(jobtab[k].procs) \in DOMAIN jobtab[k].procs
      BY <2>1, <2>3, <3>1, EmptySeq, LenProperties DEF LastPid
    <3>3. InJob(backgndpid, jobtab[k].procs) /\ Used(k)
      BY <2>3, <3>2 DEF LastPid, InJob
    <3>4. backgndpid \in Pids
      BY <2>1, <2>3, <3>1, <3>2, ProcOfJob DEF LastPid, Proc
    <3> QED BY <3>1, <3>3, <3>4 DEF OnePlace
  <2> QED BY <2>2, <2>3 DEF getjob
<1> HIDE DEF BackInv
<1> QED BY <1>1, <1>2, <1>3, Typing, PTL DEF Spec

----------------------------------------------------------------------------
(* The user hears of every job.                                            *)

LEMMA AnnouncedStep ==
  ASSUME ~PidReuse, ~SigintRaises, ~TtyLost,
         TypeInv, AgreeInv, TargetUsed, OnePlace, DoneIsAnnounced, [Next]_vars
  PROVE  DoneIsAnnounced'
<1> USE DEF TypeInv
<1>j. \A j \in Slots : jobtab[j] \in Job /\ jobtab[j].procs \in Seq(Proc)
  BY DEF TypeOK, Job
<1> DEFINE Told(j) == \/ jobtab[j].changed
                      \/ WaitedFor(j)
                      \/ got.stage = "recorded" /\ got.job = j
<1> SUFFICES ASSUME iflag, NEW j \in Slots, jobtab'[j].used, jobtab'[j].state = "done",
                    jobtab'[j].procs # <<>>
             PROVE  Told(j)'
  BY DEF DoneIsAnnounced, Used
<1>0. Used(j) /\ jobtab[j].state = "done" /\ jobtab[j].procs # <<>> => Told(j)
  BY DEF DoneIsAnnounced
<1>1. ASSUME NEW k \in Slots, NEW n \in 1 .. MaxPipe, NEW m \in Modes, StartCommand(k, n, m)
      PROVE  Told(j)'
  <2>1. makejob(k, n) /\ pc = "ready" /\ got' = got
    BY <1>1 DEF StartCommand
  <2>2. jobtab'[k] = NewJob(n) /\ NewJob(n).state = "running"
    BY <2>1, MakejobTyped DEF NewJob, Unused
  <2>3. /\ Used(j) /\ jobtab[j].state = "done" /\ jobtab[j].procs # <<>>
        /\ jobtab'[j].changed = jobtab[j].changed
    BY <2>1, <2>2, MakejobTyped DEF Used
  <2> QED BY <1>0, <2>1, <2>3 DEF WaitedFor
<1>2. ASSUME NEW p \in Pids, forkshell(p) PROVE Told(j)'
  <2>1. /\ Used(j) /\ jobtab[j].state = "done" /\ jobtab'[j].changed = jobtab[j].changed
        /\ j = jp \/ jobtab[j].procs # <<>>
    BY <1>2, ForkEffect DEF Used
  <2>2. pc = "forking" /\ got' = got /\ jobtab[jp].state = "running"
    BY <1>2 DEF forkshell, AgreeInv
  <2>3. j # jp
    BY <2>1, <2>2
  <2> QED BY <1>0, <2>1, <2>2, <2>3 DEF WaitedFor
<1>3. CASE \/ error \/ AfterFork \/ jobscmd \/ Prompt \/ TrapAction \/ UNCHANGED vars
           \/ (\E k \in 0 .. MaxJobs : waitcmd(k))
           \/ \E p \in Pids : openhere(p) \/ wait3(p) \/ Exit(p) \/ Killed(p) \/ Stop(p) \/ Cont(p)
  <2>1. /\ jobtab' = jobtab
        /\ pc = "waitforjob" => pc' = pc /\ jp' = jp
        /\ got' = got \/ got = Nothing
    BY <1>3 DEF error, AfterFork, jobscmd, Prompt, TrapAction, waitcmd, vars, openhere, wait3,
         Exit, Killed, Stop, Cont
  <2>2. Nothing.stage # "recorded"
    BY DEF Nothing
  <2> QED BY <1>0, <2>1, <2>2 DEF WaitedFor, Used
<1>4. ASSUME NEW t \in 0 .. MaxJobs, dowait(t) PROVE Told(j)'
  <2>1. /\ jobtab'[j] = Recorded(jobtab[j], got.pid, got.status)
        /\ got.stage = "reaped" /\ got.pid \in Pids /\ got.status \in {"stopped", "exited"}
        /\ thisjob(t, got.pid) /\ pc' = pc /\ jp' = jp
        /\ got' = [Nothing EXCEPT !.stage = "recorded", !.job = t]
    BY <1>4 DEF dowait, LocalsOK
  <2>2. got'.stage = "recorded" /\ got'.job = t
    BY <2>1 DEF Nothing
  <2>3. /\ Used(j) /\ jobtab'[j].procs = Report(jobtab[j].procs, got.pid, got.status)
        /\ jobtab'[j].state = NewState(Report(jobtab[j].procs, got.pid, got.status), jobtab[j].state)
        /\ jobtab'[j].changed = jobtab[j].changed
    BY <1>j, <2>1 DEF Recorded, Used, Job
  <2>4. /\ DOMAIN jobtab'[j].procs = DOMAIN jobtab[j].procs
        /\ \A i \in DOMAIN jobtab[j].procs :
             jobtab'[j].procs[i].status = IF jobtab[j].procs[i].pid = got.pid THEN got.status
                                          ELSE jobtab[j].procs[i].status
    BY <1>j, <2>1, <2>3, ReportProperties
  <2>5. jobtab[j].procs # <<>>
    <3>1. SamePids(jobtab'[j].procs, jobtab[j].procs)
      BY <1>j, <2>1, <2>3, ReportProperties DEF SamePids
    <3>2. jobtab'[j].procs \in Seq(Proc)
      BY <1>j, <2>1, <2>3, ReportProperties
    <3> QED BY <1>j, <3>1, <3>2, SamePidsFacts
  <2>6. CASE InJob(got.pid, jobtab[j].procs)
    <3>1. Matches(j, got.pid)
      BY <2>3, <2>6 DEF Matches
    <3>2. t # 0 /\ Matches(t, got.pid)
      BY <2>1, <3>1 DEF thisjob
    <3>3. t \in Slots
      BY <3>2 DEF Slots
    <3>4. t = j
      BY <2>1, <3>1, <3>2, <3>3 DEF OnePlace, Matches
    <3> QED BY <2>2, <3>4
  <2>7. CASE ~InJob(got.pid, jobtab[j].procs)
    <3>1. \A i \in DOMAIN jobtab[j].procs :
            jobtab'[j].procs[i].status = jobtab[j].procs[i].status
      BY <2>4, <2>7 DEF InJob
    <3>2. JobState(jobtab'[j].procs) = JobState(jobtab[j].procs)
      BY <2>4, <3>1 DEF JobState, Settled, Finished
    <3>3. jobtab[j].state = JobState(jobtab[j].procs)
      BY <2>3, <2>5 DEF AgreeInv, StateAgrees
    <3>4. jobtab'[j].state = JobState(jobtab'[j].procs)
      BY <1>j, <2>1, <2>3, <3>3, ReportAgrees
    <3>5. Told(j)
      BY <1>0, <2>3, <2>5, <3>2, <3>3, <3>4
    <3> QED BY <2>1, <2>3, <3>5 DEF WaitedFor
  <2> QED BY <2>6, <2>7
<1>5. CASE MarkChanged
  <2>1. /\ jobtab'[j].used = jobtab[j].used /\ jobtab'[j].state = jobtab[j].state
        /\ jobtab'[j].procs = jobtab[j].procs
    BY <1>5, MarkEffect DEF TypeInv
  <2>2. Told(j) /\ pc' = pc /\ jp' = jp
    BY <1>0, <1>5, <2>1 DEF MarkChanged, Used
  <2>3. CASE WaitedFor(j)
    BY <2>2, <2>3 DEF WaitedFor
  <2>4. CASE ~WaitedFor(j) /\ got.job = j
    <3>1. jobtab' = [jobtab EXCEPT ![j] = [jobtab[j] EXCEPT !.changed = TRUE]]
      BY <1>5, <2>4 DEF MarkChanged, Slots
    <3>2. jobtab'[j] = [jobtab[j] EXCEPT !.changed = TRUE]
      BY <3>1 DEF TypeOK
    <3>3. jobtab'[j].changed
      BY <1>j, <3>2 DEF Job
    <3> QED BY <3>3
  <2>5. CASE ~WaitedFor(j) /\ got.job # j
    <3>1. jobtab'[j] = jobtab[j]
      BY <1>5, <2>5 DEF MarkChanged, TypeOK
    <3> QED BY <2>2, <2>5, <3>1
  <2> QED BY <2>3, <2>4, <2>5
<1>6. CASE waitforjob
  <2>1. /\ jobtab' = jobtab \/ (jobtab[jp].state = "done" /\ jobtab' = freejob(jobtab, jp))
        /\ jobtab[jp].state = "done" => jobtab' = freejob(jobtab, jp)
        /\ pc = "waitforjob" /\ got' = got /\ jp \in Slots
    BY <1>6 DEF waitforjob, LocalsOK
  <2>2. j # jp
    BY <2>1 DEF freejob, Unused, TypeOK
  <2>3. jobtab'[j] = jobtab[j]
    BY <2>1, <2>2 DEF freejob, TypeOK
  <2> QED BY <1>0, <2>1, <2>2, <2>3 DEF WaitedFor, Used
<1>7. CASE WaitReturns
  <2>1. jobtab' = jobtab /\ pc = "wait" /\ got' = got
    BY <1>7 DEF WaitReturns
  <2> QED BY <1>0, <2>1 DEF WaitedFor, Used
<1>8. ASSUME NEW last \in 0 .. MaxJobs, NEW half \in BOOLEAN, showjobs(last, half) PROVE Told(j)'
  <2>1. /\ last >= njobs /\ got = Nothing /\ pc \in Listing /\ njobs \in Nat /\ last \in Nat
        /\ jobtab'[j] = IF j <= last THEN Listed(jobtab[j])
             ELSE IF half /\ j = last + 1 /\ jobtab[j].procs # <<>> THEN Printed(jobtab[j])
             ELSE jobtab[j]
    BY <1>8, ConstantsAssumption DEF showjobs, TypeOK
  <2>2. ~half
    BY <1>8, <2>1 DEF showjobs
  <2>3. jobtab'[j] # Unused
    BY DEF Unused
  <2>4. Used(j)
    BY <1>j, <2>1, <2>2, <2>3 DEF Listed, Passed, Printed, Job, Used
  <2>5. j <= last
    BY <2>1, <2>4, ConstantsAssumption DEF TypeOK, Slots
  <2>6. jobtab[j].procs # <<>> /\ jobtab[j].state = "done" /\ Passed(jobtab[j])
        /\ jobtab'[j] = jobtab[j]
    BY <1>j, <2>1, <2>3, <2>5 DEF Listed, Printed, Job
  <2>7. Told(j) /\ ~jobtab[j].changed
    BY <1>0, <2>4, <2>6 DEF Passed, Used
  <2> QED BY <2>1, <2>7 DEF Nothing, WaitedFor, Listing
<1>9. ASSUME NEW k \in Slots, restartjob(k), fgcmd(k) \/ bgcmd(k) PROVE Told(j)'
  <2>1. pc = "ready" /\ got' = got
    BY <1>9 DEF fgcmd, bgcmd, Restartable
  <2>2. CASE jobtab[k].state = "done" \/ j # k
    <3>1. jobtab'[j] = jobtab[j]
      BY <1>9, <2>2, RestartEffect DEF restartjob
    <3> QED BY <1>0, <2>1, <3>1 DEF WaitedFor, Used
  <2>3. CASE jobtab[k].state # "done" /\ j = k
    BY <1>9, <2>3, RestartEffect
  <2> QED BY <2>2, <2>3
<1>10. showjobs(njobs, FALSE) => Told(j)'
  BY <1>8 DEF TypeOK
<1>11. \A k \in Slots : fgcmd(k) \/ bgcmd(k) => Told(j)'
  BY <1>9 DEF fgcmd, bgcmd
<1>12. ~onint
  BY DEF onint
<1> HIDE DEF Told
<1> QED
  BY <1>1, <1>2, <1>3, <1>4, <1>5, <1>6, <1>7, <1>8, <1>10, <1>11, <1>12
  DEF Next, Create, Reap, Return, Command, Signal, Children

(* The user of an interactive shell hears of every job that ends while the *)
(* shell is not waiting for it: dowait marks it changed, and the mark goes *)
(* only when showjobs has printed the job and freed it.  (A job waited for *)
(* is forgotten when the terminal cannot be taken back.)                   *)
THEOREM EndsAreAnnounced ==
  ASSUME ~PidReuse, ~SigintRaises, ~TtyLost
  PROVE  Spec => []DoneIsAnnounced
<1> DEFINE I == AgreeInv /\ TargetUsed /\ OnePlace /\ DoneIsAnnounced
<1>1. Init => I
  BY DEF Init, AgreeInv, StateAgrees, TargetUsed, OnePlace, DoneIsAnnounced, Used, Unused
<1>2. TypeInv /\ I /\ [Next]_vars => I'
  BY AgreeStep, TargetUsedStep, OnePlaceStep, AnnouncedStep
<1>3. I => DoneIsAnnounced
  OBVIOUS
<1> HIDE DEF I
<1> QED BY <1>1, <1>2, <1>3, Typing, PTL DEF Spec

----------------------------------------------------------------------------
(* Only a failed command leaves a job without processes.                   *)

NoneEmpty ==
  \A j \in Slots : Used(j) /\ jobtab[j].procs = <<>> =>
    pc \in {"error", "prompt"} \/ (pc = "forking" /\ jp = j)

(* Only forkshell puts a process into a job, and no step but it and        *)
(* makejob changes which jobs have processes.                              *)
LEMMA EmptyKept ==
  ASSUME TypeInv, [Next]_vars, NEW j \in Slots, jobtab'[j].used, jobtab'[j].procs = <<>>
  PROVE  \/ Used(j) /\ jobtab[j].procs = <<>>
         \/ pc' = "forking" /\ jp' = j
<1> USE DEF TypeInv
<1>j. \A k \in Slots : jobtab[k] \in Job /\ jobtab[k].procs \in Seq(Proc)
  BY DEF TypeOK, Job
<1>0. jobtab'[j] = jobtab[j] => Used(j) /\ jobtab[j].procs = <<>>
  BY DEF Used
<1>n. ~Unused.used
  BY DEF Unused
<1>1. ASSUME NEW k \in Slots, NEW n \in 1 .. MaxPipe, NEW m \in Modes, StartCommand(k, n, m)
      PROVE  \/ Used(j) /\ jobtab[j].procs = <<>>
             \/ pc' = "forking" /\ jp' = j
  <2>1. makejob(k, n) /\ pc' = "forking" /\ jp' = k
    BY <1>1 DEF StartCommand
  <2>2. j # k => jobtab'[j].used = jobtab[j].used /\ jobtab'[j].procs = jobtab[j].procs
    BY <2>1, MakejobTyped
  <2> QED BY <2>1, <2>2 DEF Used
<1>2. ASSUME NEW p \in Pids, forkshell(p) PROVE Used(j) /\ jobtab[j].procs = <<>>
  <2> DEFINE r == Append(jobtab[jp].procs, [pid |-> p, status |-> "running"])
  <2>1. jp \in Slots /\ jobtab' = [jobtab EXCEPT ![jp].procs = r]
    BY <1>2 DEF forkshell, LocalsOK
  <2>2. r # <<>>
    <3>1. [pid |-> p, status |-> "running"] \in Proc
      BY DEF Proc
    <3> QED BY <1>j, <2>1, <3>1, AppendProperties
  <2> HIDE DEF r
  <2>3. j # jp
    BY <1>j, <2>1, <2>2 DEF TypeOK, Job
  <2>4. jobtab'[j] = jobtab[j]
    BY <2>1, <2>3 DEF TypeOK
  <2> QED BY <1>0, <2>4
<1>3. ASSUME NEW t \in 0 .. MaxJobs, dowait(t) PROVE Used(j) /\ jobtab[j].procs = <<>>
  <2>1. jobtab'[j] = Recorded(jobtab[j], got.pid, got.status)
        /\ got.status \in {"stopped", "exited"}
    BY <1>3 DEF dowait, LocalsOK
  <2>2. Used(j) /\ jobtab'[j].procs = Report(jobtab[j].procs, got.pid, got.status)
    BY <1>j, <2>1 DEF Recorded, Used, Job
  <2>3. SamePids(jobtab'[j].procs, jobtab[j].procs) /\ jobtab'[j].procs \in Seq(Proc)
    BY <1>j, <2>1, <2>2, ReportProperties DEF SamePids
  <2> QED BY <1>j, <2>2, <2>3, SamePidsFacts
<1>4. CASE MarkChanged
  <2>1. jobtab'[j].used = jobtab[j].used /\ jobtab'[j].procs = jobtab[j].procs
    BY <1>4, <1>j DEF MarkChanged, TypeOK, Job
  <2> QED BY <2>1 DEF Used
<1>5. ASSUME NEW k, jobtab' \in {jobtab, freejob(jobtab, k)} PROVE Used(j) /\ jobtab[j].procs = <<>>
  BY <1>5, <1>0, <1>n DEF freejob, TypeOK
<1>6. CASE waitforjob \/ WaitReturns
  BY <1>5, <1>6 DEF waitforjob, WaitReturns
<1>7. ASSUME NEW last \in 0 .. MaxJobs, NEW half \in BOOLEAN, showjobs(last, half)
      PROVE  Used(j) /\ jobtab[j].procs = <<>>
  <2>1. jobtab'[j] \in {Unused, jobtab[j], Printed(jobtab[j])}
    BY <1>7 DEF showjobs, Listed
  <2>2. Printed(jobtab[j]).used = jobtab[j].used /\ Printed(jobtab[j]).procs = jobtab[j].procs
    BY <1>j DEF Printed, Job
  <2> QED BY <1>0, <1>n, <2>1, <2>2 DEF Used
<1>8. ASSUME NEW k \in Slots, restartjob(k) PROVE Used(j) /\ jobtab[j].procs = <<>>
  <2>1. CASE jobtab[k].state = "done"
    BY <1>0, <1>8, <2>1 DEF restartjob
  <2>2. CASE jobtab[k].state # "done" /\ j # k
    BY <1>0, <1>8, <2>2, RestartEffect
  <2>3. CASE jobtab[k].state # "done" /\ j = k
    <3>1. Used(j) /\ jobtab'[j].procs = Restarted(jobtab[j].procs)
      BY <1>8, <2>3, RestartEffect DEF Used
    <3>2. SamePids(jobtab'[j].procs, jobtab[j].procs) /\ jobtab'[j].procs \in Seq(Proc)
      BY <1>j, <3>1, RestartedProperties DEF SamePids
    <3> QED BY <1>j, <3>1, <3>2, SamePidsFacts
  <2> QED BY <2>1, <2>2, <2>3
<1>9. CASE \/ error \/ AfterFork \/ jobscmd \/ Prompt \/ TrapAction \/ UNCHANGED vars \/ onint
           \/ (\E k \in 0 .. MaxJobs : waitcmd(k))
           \/ \E p \in Pids : openhere(p) \/ wait3(p) \/ Exit(p) \/ Killed(p) \/ Stop(p) \/ Cont(p)
  <2>1. jobtab' = jobtab
    BY <1>9 DEF error, AfterFork, jobscmd, Prompt, TrapAction, waitcmd, vars, openhere, wait3,
         Exit, Killed, Stop, Cont, onint
  <2> QED BY <1>0, <2>1
<1>10. showjobs(njobs, FALSE) => Used(j) /\ jobtab[j].procs = <<>>
  BY <1>7 DEF TypeOK
<1>11. \A k \in Slots : fgcmd(k) \/ bgcmd(k) => Used(j) /\ jobtab[j].procs = <<>>
  BY <1>8 DEF fgcmd, bgcmd
<1> QED
  BY <1>1, <1>2, <1>3, <1>4, <1>6, <1>7, <1>9, <1>10, <1>11
  DEF Next, Create, Reap, Return, Command, Signal, Children

LEMMA EmptyStep ==
  ASSUME ~TrapCommands, TypeInv, NoneEmpty, [Next]_vars
  PROVE  NoneEmpty'
<1> SUFFICES ASSUME NEW j \in Slots, jobtab'[j].used, jobtab'[j].procs = <<>>,
                    Used(j), jobtab[j].procs = <<>>
             PROVE  pc' \in {"error", "prompt"} \/ (pc' = "forking" /\ jp' = j)
  BY EmptyKept DEF NoneEmpty, Used
<1>1. pc \in {"error", "prompt"} \/ (pc = "forking" /\ jp = j)
  BY DEF NoneEmpty
<1>2. ASSUME NEW last \in 0 .. MaxJobs, NEW half \in BOOLEAN, showjobs(last, half)
      PROVE  pc' \in {"error", "prompt"}
  <2>1. CASE last < njobs
    BY <1>2, <2>1 DEF showjobs
  <2>2. CASE ~(last < njobs)
    <3>1. j <= last
      BY <2>2, ConstantsAssumption DEF TypeInv, TypeOK, Slots, Used
    <3>2. jobtab'[j] = Unused
      BY <1>2, <3>1 DEF showjobs, Listed
    <3> QED BY <3>2 DEF Unused
  <2> QED BY <2>1, <2>2
<1>3. ASSUME NEW p \in Pids, forkshell(p) PROVE FALSE
  <2> DEFINE r == Append(jobtab[jp].procs, [pid |-> p, status |-> "running"])
  <2>1. pc = "forking" /\ j = jp /\ jobtab' = [jobtab EXCEPT ![jp].procs = r]
    BY <1>1, <1>3 DEF forkshell
  <2>2. r # <<>>
    <3>1. [pid |-> p, status |-> "running"] \in Proc
      BY DEF Proc
    <3>2. jobtab[jp].procs \in Seq(Proc)
      BY <2>1 DEF TypeInv, TypeOK, Job
    <3> QED BY <3>1, <3>2, AppendProperties
  <2> HIDE DEF r
  <2>3. jobtab[j] \in Job /\ jobtab'[j].procs = r
    BY <2>1 DEF TypeInv, TypeOK, Job
  <2> QED BY <2>2, <2>3
<1>4. CASE Create
  BY <1>1, <1>3, <1>4 DEF Create, StartCommand, openhere, error, AfterFork
<1>5. CASE Reap
  BY <1>1, <1>5 DEF Reap, wait3, dowait, MarkChanged
<1>6. CASE Return
  BY <1>1, <1>2, <1>6 DEF Return, waitforjob, WaitReturns, TypeInv, TypeOK
<1>7. CASE Command
  BY <1>1, <1>7 DEF Command, jobscmd, Prompt, TrapAction, waitcmd, fgcmd, bgcmd, Restartable
<1>8. CASE Signal
  BY <1>1, <1>2, <1>8 DEF Signal, onint
<1>9. CASE Children \/ UNCHANGED vars
  BY <1>1, <1>9 DEF Children, Exit, Killed, Stop, Cont, vars
<1> QED BY <1>4, <1>5, <1>6, <1>7, <1>8, <1>9 DEF Next

(* Only a failed command leaves a job without processes behind, and no     *)
(* later command meets it: showjobs frees it before the next prompt, when  *)
(* no action of a trap runs commands before.                               *)
THEOREM NoJobIsEmpty ==
  ASSUME ~TrapCommands
  PROVE  Spec => []NoEmptyJob
<1>1. Init => NoneEmpty
  BY DEF Init, NoneEmpty, Used, Unused
<1>2. TypeInv /\ NoneEmpty /\ [Next]_vars => NoneEmpty'
  BY EmptyStep
<1>3. NoneEmpty => NoEmptyJob
  BY DEF NoneEmpty, NoEmptyJob
<1> QED BY <1>1, <1>2, <1>3, Typing, PTL DEF Spec

(* The job named by wait stays in use while it is waited for.              *)
WaitedUsed == pc \in {"waitforjob", "wait"} /\ jp # 0 => Used(jp)

LEMMA WaitedUsedStep ==
  ASSUME TypeInv, TargetUsed, WaitedUsed, [Next]_vars
  PROVE  WaitedUsed'
<1> USE DEF TypeInv
<1>1. TargetUsed'
  BY TargetUsedStep
<1> SUFFICES ASSUME pc' = "wait", jp' # 0 PROVE jobtab'[jp'].used
  BY <1>1 DEF WaitedUsed, TargetUsed, Used
<1>2. ASSUME NEW k \in 0 .. MaxJobs, waitcmd(k) PROVE jobtab'[jp'].used
  BY <1>2 DEF waitcmd, Used
<1>3. ASSUME pc = "wait", jp' = jp, \A j \in Slots : Used(j) => jobtab'[j].used
      PROVE  jobtab'[jp'].used
  <2>1. jp \in Slots
    BY <1>3, ConstantsAssumption DEF TypeOK, Slots
  <2> QED BY <1>3, <2>1 DEF WaitedUsed
<1>4. ASSUME NEW t \in 0 .. MaxJobs, dowait(t) PROVE jobtab'[jp'].used
  <2>1. \A j \in Slots : jobtab'[j].used = jobtab[j].used
    BY <1>4 DEF dowait, Recorded, TypeOK, Job
  <2> QED BY <1>3, <1>4, <2>1 DEF dowait, Used
<1>5. CASE MarkChanged
  <2>1. \A j \in Slots : jobtab'[j].used = jobtab[j].used
    BY <1>5 DEF MarkChanged, TypeOK, Job
  <2> QED BY <1>3, <1>5, <2>1 DEF MarkChanged, Used
<1>6. ASSUME NEW p \in Pids, openhere(p) \/ wait3(p) \/ Exit(p) \/ Killed(p) \/ Stop(p) \/ Cont(p)
      PROVE jobtab'[jp'].used
  BY <1>3, <1>6 DEF openhere, wait3, Exit, Killed, Stop, Cont, Used
<1>7. ~Return /\ ~Signal
  BY DEF Return, Signal, waitforjob, WaitReturns, showjobs, onint
<1>8. CASE Create \/ Command \/ UNCHANGED vars
  BY <1>2, <1>3, <1>6, <1>8 DEF Create, StartCommand, forkshell, error, AfterFork,
     Command, jobscmd, Prompt, TrapAction, fgcmd, bgcmd, Restartable, vars, Used
<1> QED BY <1>4, <1>5, <1>6, <1>7, <1>8 DEF Next, Reap, Children

(* waitforjob and wait do not sit on a job that no child of the shell can  *)
(* finish: each job they still wait for has a process whose end or stop    *)
(* wait3 is yet to report.  An interrupt can leave a job without one, and  *)
(* so can a failed fork when a trap's action waits, and, under job         *)
(* control, a stopped command substitution.                                *)
THEOREM WaitsHaveChildren ==
  ASSUME ~PidReuse, ~SigintRaises, ~TrapCommands, ~jobctl
  PROVE  Spec => []WaitHasChild
<1>1. Init => TargetUsed /\ WaitedUsed
  BY DEF Init, TargetUsed, WaitedUsed
<1>2. TypeInv /\ TargetUsed /\ WaitedUsed /\ [Next]_vars => (TargetUsed /\ WaitedUsed)'
  BY TargetUsedStep, WaitedUsedStep
<1>3. TypeInv /\ TargetUsed /\ WaitedUsed /\ StateAgrees /\ NoLostStatus /\ NoEmptyJob => WaitHasChild
  <2> SUFFICES ASSUME TypeInv, TargetUsed, WaitedUsed, StateAgrees, NoLostStatus, NoEmptyJob,
                      pc \in {"waitforjob", "wait"}, NEW j \in Awaited, jobtab[j].state = "running"
               PROVE  \E i \in DOMAIN jobtab[j].procs :
                         /\ jobtab[j].procs[i].status = "running"
                         /\ Outstanding(jobtab[j].procs[i].pid)
    BY DEF WaitHasChild
  <2>1. j \in Slots /\ Used(j)
    BY ConstantsAssumption DEF Awaited, WaitedUsed, TypeInv, TypeOK, Slots
  <2>2. jobtab[j].procs # <<>>
    BY <2>1 DEF NoEmptyJob
  <2>3. ~Settled(jobtab[j].procs)
    BY <2>1, <2>2 DEF StateAgrees, JobState
  <2>4. PICK i \in DOMAIN jobtab[j].procs : jobtab[j].procs[i].status = "running"
    BY <2>3 DEF Settled
  <2>5. Outstanding(jobtab[j].procs[i].pid) \/ Missed(jobtab[j].procs[i].pid)
    BY <2>1, <2>4 DEF NoLostStatus
  <2>6. Outstanding(jobtab[j].procs[i].pid)
    BY <2>5 DEF Missed
  <2> QED BY <2>4, <2>6
<1> QED BY <1>1, <1>2, <1>3, Typing, StatesAgree, StatusNeverLost, NoJobIsEmpty, PTL DEF Spec

----------------------------------------------------------------------------
(* A done job stays done.                                                  *)

(* What wait3 has reported is not about a process known to have exited.    *)
ReapedIsNew ==
  got.stage = "reaped" => \A j \in Slots : Used(j) => \A i \in DOMAIN jobtab[j].procs :
    jobtab[j].procs[i].pid = got.pid => jobtab[j].procs[i].status # "exited"

LEMMA ReapedStep ==
  ASSUME ~PidReuse, TypeInv, ExitedIsFree, ReapedIsNew, [Next]_vars
  PROVE  ReapedIsNew'
<1> USE DEF TypeInv
<1> SUFFICES ASSUME got'.stage = "reaped", NEW j \in Slots, jobtab'[j].used,
                    NEW i \in DOMAIN jobtab'[j].procs, jobtab'[j].procs[i].pid = got'.pid
             PROVE  jobtab'[j].procs[i].status # "exited"
  BY DEF ReapedIsNew, Used
<1>n. Nothing.stage = "none"
  BY DEF Nothing
<1>1. ASSUME NEW p \in Pids, wait3(p) PROVE jobtab'[j].procs[i].status # "exited"
  <2>1. jobtab' = jobtab /\ got'.pid = p
    BY <1>1 DEF wait3, Nothing
  <2>2. kid[p].st # "free"
    BY <1>1 DEF wait3, CanReport
  <2> QED BY <2>1, <2>2 DEF ExitedIsFree, Used
<1>2. ASSUME NEW t \in 0 .. MaxJobs, dowait(t) PROVE FALSE
  BY <1>2 DEF dowait, Nothing
<1>3. ASSUME got' = got, jobtab' = jobtab PROVE jobtab'[j].procs[i].status # "exited"
  BY <1>3 DEF ReapedIsNew, Used
<1>4. ASSUME got' = got, pc \notin {"waitforjob", "wait"} \union Listing PROVE FALSE
  BY <1>4 DEF LocalsOK
<1>5. ASSUME got' = got, got = Nothing PROVE FALSE
  BY <1>5, <1>n
<1>6. CASE Create
  BY <1>3, <1>4, <1>6 DEF Create, StartCommand, forkshell, openhere, error, AfterFork, Listing
<1>7. CASE Reap
  BY <1>1, <1>2, <1>7, <1>n DEF Reap, MarkChanged
<1>8. CASE Return
  BY <1>5, <1>8 DEF Return, waitforjob, WaitReturns, showjobs
<1>9. CASE Command
  BY <1>3, <1>4, <1>9 DEF Command, jobscmd, Prompt, TrapAction, waitcmd, fgcmd, bgcmd, Restartable, Listing
<1>10. CASE Signal
  BY <1>5, <1>10, <1>n DEF Signal, onint, showjobs
<1>11. CASE Children \/ UNCHANGED vars
  BY <1>3, <1>11 DEF Children, Exit, Killed, Stop, Cont, vars
<1> QED BY <1>6, <1>7, <1>8, <1>9, <1>10, <1>11 DEF Next

LEMMA FinalStep ==
  ASSUME TypeInv, AgreeInv, ReapedIsNew, [Next]_vars,
         NEW j \in Slots, Used(j), jobtab[j].state = "done", jobtab[j].procs # <<>>, jobtab'[j].used
  PROVE  jobtab'[j].state = "done" /\ jobtab'[j].procs = jobtab[j].procs
<1> USE DEF TypeInv
<1>j. \A k \in Slots : jobtab[k] \in Job /\ jobtab[k].procs \in Seq(Proc)
  BY DEF TypeOK, Job
<1> DEFINE Same == jobtab'[j].state = "done" /\ jobtab'[j].procs = jobtab[j].procs
<1>0. jobtab'[j] = jobtab[j] => Same
  OBVIOUS
<1>n. ~Unused.used
  BY DEF Unused
<1>1. ASSUME NEW k \in Slots, NEW n \in 1 .. MaxPipe, NEW m \in Modes, StartCommand(k, n, m)
      PROVE  Same
  <2>1. makejob(k, n)
    BY <1>1 DEF StartCommand
  <2>2. /\ ~Used(k)
        /\ j # k => jobtab'[j].state = jobtab[j].state /\ jobtab'[j].procs = jobtab[j].procs
    BY <2>1, MakejobTyped
  <2> QED BY <2>2
<1>2. ASSUME NEW p \in Pids, forkshell(p) PROVE Same
  <2>1. /\ jp # j
        /\ jobtab' = [jobtab EXCEPT ![jp].procs =
             Append(jobtab[jp].procs, [pid |-> p, status |-> "running"])]
    BY <1>2 DEF forkshell, AgreeInv
  <2>2. jobtab'[j] = jobtab[j]
    BY <2>1 DEF TypeOK
  <2> QED BY <1>0, <2>2
<1>3. ASSUME NEW t \in 0 .. MaxJobs, dowait(t) PROVE Same
  <2> DEFINE procs == jobtab[j].procs
             r == Report(procs, got.pid, got.status)
  <2>1. /\ jobtab'[j] = Recorded(jobtab[j], got.pid, got.status) /\ got.stage = "reaped"
        /\ got.status \in {"stopped", "exited"}
    BY <1>3 DEF dowait, LocalsOK
  <2>2. jobtab'[j].procs = r /\ jobtab'[j].state = NewState(r, jobtab[j].state)
    BY <1>j, <2>1 DEF Recorded, Used, Job
  <2>3. JobState(procs) = "done"
    BY DEF AgreeInv, StateAgrees
  <2>4. Settled(procs) /\ Finished(procs)
    BY <2>3 DEF JobState
  <2>5. \A i \in DOMAIN procs : procs[i].status = "exited" /\ procs[i].pid # got.pid
    <3> TAKE i \in DOMAIN procs
    <3>1. procs[i] \in Proc
      BY <1>j, ProcOfJob
    <3>2. procs[i].status = "exited"
      BY <2>4, <3>1 DEF Settled, Finished, Proc
    <3>3. procs[i].pid # got.pid
      BY <2>1, <3>2 DEF ReapedIsNew
    <3> QED BY <3>2, <3>3
  <2>6. r = [i \in DOMAIN procs |-> procs[i]]
    BY <2>5 DEF Report
  <2>7. procs = [i \in DOMAIN procs |-> procs[i]]
    <3>1. procs \in [1 .. Len(procs) -> Proc] /\ DOMAIN procs = 1 .. Len(procs)
      BY <1>j, LenProperties
    <3> QED BY <3>1
  <2>8. r = procs
    BY <2>6, <2>7
  <2>9. NewState(procs, jobtab[j].state) = "done"
    BY <2>4 DEF NewState
  <2> HIDE DEF r, procs
  <2> QED BY <2>2, <2>8, <2>9 DEF procs
<1>4. CASE MarkChanged
  <2>1. jobtab'[j].state = jobtab[j].state /\ jobtab'[j].procs = jobtab[j].procs
    BY <1>4, <1>j DEF MarkChanged, TypeOK, Job
  <2> QED BY <2>1
<1>5. ASSUME NEW k, jobtab' \in {jobtab, freejob(jobtab, k)} PROVE Same
  BY <1>5, <1>0, <1>n DEF freejob, TypeOK
<1>6. CASE waitforjob \/ WaitReturns
  BY <1>5, <1>6 DEF waitforjob, WaitReturns
<1>7. ASSUME NEW last \in 0 .. MaxJobs, NEW half \in BOOLEAN, showjobs(last, half) PROVE Same
  <2>1. jobtab'[j] \in {Unused, jobtab[j], Printed(jobtab[j])}
    BY <1>7 DEF showjobs, Listed
  <2>2. Printed(jobtab[j]).state = jobtab[j].state /\ Printed(jobtab[j]).procs = jobtab[j].procs
    BY <1>j DEF Printed, Job
  <2> QED BY <1>n, <2>1, <2>2
<1>8. ASSUME NEW k \in Slots, restartjob(k) PROVE Same
  <2>1. CASE jobtab[k].state = "done"
    BY <1>0, <1>8, <2>1 DEF restartjob
  <2>2. CASE jobtab[k].state # "done"
    <3>1. j # k
      BY <2>2
    <3> QED BY <1>0, <1>8, <2>2, <3>1, RestartEffect
  <2> QED BY <2>1, <2>2
<1>9. CASE \/ error \/ AfterFork \/ jobscmd \/ Prompt \/ TrapAction \/ UNCHANGED vars \/ onint
           \/ (\E k \in 0 .. MaxJobs : waitcmd(k))
           \/ \E p \in Pids : openhere(p) \/ wait3(p) \/ Exit(p) \/ Killed(p) \/ Stop(p) \/ Cont(p)
  <2>1. jobtab' = jobtab
    BY <1>9 DEF error, AfterFork, jobscmd, Prompt, TrapAction, waitcmd, vars, openhere, wait3,
         Exit, Killed, Stop, Cont, onint
  <2> QED BY <1>0, <2>1
<1>10. showjobs(njobs, FALSE) => Same
  BY <1>7 DEF TypeOK
<1>11. \A k \in Slots : fgcmd(k) \/ bgcmd(k) => Same
  BY <1>8 DEF fgcmd, bgcmd
<1>12. Same
  <2>1. CASE Create
    BY <1>1, <1>2, <1>9, <2>1 DEF Create
  <2>2. CASE Reap
    BY <1>3, <1>4, <1>9, <2>2 DEF Reap
  <2>3. CASE Return
    BY <1>6, <1>10, <2>3 DEF Return
  <2>4. CASE Command
    BY <1>9, <1>11, <2>4 DEF Command
  <2>5. CASE Signal
    BY <1>7, <1>9, <2>5 DEF Signal
  <2>6. CASE Children \/ UNCHANGED vars
    BY <1>9, <2>6 DEF Children
  <2> QED BY <2>1, <2>2, <2>3, <2>4, <2>5, <2>6 DEF Next
<1> QED BY <1>12

(* A done job stays done, with the statuses it has, until it is freed:     *)
(* neither dowait, fg and bg nor a new command changes it, also when       *)
(* interrupts abandon commands.                                            *)
THEOREM DoneStaysDone ==
  ASSUME ~PidReuse
  PROVE  Spec => DoneIsFinal
<1> DEFINE I == AgreeInv /\ ExitedIsFree /\ ReapedIsNew
<1>1. Init => I
  BY DEF Init, AgreeInv, StateAgrees, ExitedIsFree, ReapedIsNew, Used, Unused, Nothing
<1>2. TypeInv /\ I /\ [Next]_vars => I'
  BY AgreeStep, ExitedIsFreeStep, ReapedStep
<1>3. TypeInv /\ I /\ [Next]_vars =>
        [\A j \in Slots :
           Used(j) /\ jobtab[j].state = "done" /\ jobtab[j].procs # <<>> =>
             \/ ~jobtab'[j].used
             \/ /\ jobtab'[j].state = "done"
                /\ jobtab'[j].procs = jobtab[j].procs]_vars
  BY FinalStep
<1> HIDE DEF I
<1> QED BY <1>1, <1>2, <1>3, Typing, PTL DEF Spec, DoneIsFinal

=============================================================================
