------------------------------- MODULE Sheet -------------------------------
(***************************************************************************)
(* The cells of the spreadsheet calculator sc and the references between   *)
(* them.  A cell is a struct ent that the table tbl points to; a formula   *)
(* or a named range refers to a cell by a pointer to its ent, so it goes   *)
(* with the cell when rows or columns are inserted and deleted.  Deleted   *)
(* ents wait in the list to_fix, from which the pull commands take them,   *)
(* until the next deletion; sync_refs must have led every reference to     *)
(* them elsewhere before they are used again.                              *)
(***************************************************************************)
EXTENDS Integers, Sequences, FiniteSets, FiniteSetsExt, SequencesExt

CONSTANTS
  MaxRows, MaxCols,  \* BOUND: size of the table, which does not grow
  Ents, NULL,        \* BOUND: the ents that can be in use, and no ent
  MaxArea,           \* BOUND: cells of an area, rows or columns at a time
  MaxSaved,          \* BOUND: deletions to_fix holds
  MaxDatum,          \* BOUND: values and texts that are told apart
  Fixings,           \* what references are fixed in: $K$20, K$20, ...
  Allowed            \* what passing runs leave out, see Gates

(* "closecol": a deleted column that a formula or a range refers to.       *)
(* "erasedb": a new sheet is read while deleted cells refer to the old.    *)
(* The others let commands write to locked cells: "typed": let and label,  *)
(* for a cell that is not under the cursor; "label": text put beside a     *)
(* number or a name; "incr": + and -; "x": x with a count; "copycell": c;  *)
(* "hole": the copying of an absent cell; "fill": /f by columns; "pull".   *)
Gates == {"closecol", "erasedb", "typed", "label", "incr", "x", "copycell", "hole", "fill", "pull"}

FIX_ROW == 1
FIX_COL == 2

ASSUME SheetAssumption ==
  /\ {MaxRows, MaxCols, MaxArea, MaxSaved, MaxDatum} \subseteq Nat \ {0}
  /\ IsFiniteSet(Ents) /\ NULL \notin Ents
  /\ Fixings \subseteq SUBSET {FIX_ROW, FIX_COL} /\ Allowed \subseteq Gates

Pos  == (0 .. MaxRows - 1) \X (0 .. MaxCols - 1)

(* A cell's value and its label; 0 is both the value 0 and no label.       *)
Data == 0 .. MaxDatum

(* The parts of struct ent that matter: its own idea of row and col, the   *)
(* flags is_locked and is_valid, and what it holds: a value, a text and an *)
(* expression, for a number or a string, of which one reference is kept.   *)
Blank == [pos |-> <<0, 0>>, locked |-> FALSE, valid |-> FALSE, v |-> 0, text |-> 0,
          expr |-> "none", vf |-> {}, vp |-> NULL]

VARIABLES
  tbl,       \* tbl[p]: the ent at p, or NULL
  ent,       \* the ents; those neither in tbl nor in to_fix are free
  to_fix,    \* deleted ents, the last command's first
  range      \* r_left and r_right of the named range, if there is one

vars == <<tbl, ent, to_fix, range>>

Init == /\ tbl = [p \in Pos |-> NULL] /\ ent = [e \in Ents |-> Blank]
        /\ to_fix = <<>> /\ range = <<>>

(* A command's steps are functions from sheets to sheets; full marks one   *)
(* that went beyond a bound.                                               *)
Now == [tbl |-> tbl, ent |-> ent, fix |-> to_fix, range |-> range, full |-> FALSE]
Becomes(h) == ~h.full /\ tbl' = h.tbl /\ ent' = h.ent /\ to_fix' = h.fix /\ range' = h.range
Full(h) == [h EXCEPT !.full = TRUE]

Cells(h) == {p \in Pos : h.tbl[p] # NULL}
Placed(h) == {h.tbl[p] : p \in Pos} \ {NULL}
Saved(h) == UNION ToSet(h.fix)
Free(h) == Ents \ (Placed(h) \union Saved(h))
Locked(p) == tbl[p] # NULL /\ ent[tbl[p]].locked
Spares(ps, gate) == gate \in Allowed \/ \A p \in ps : ~Locked(p)
Is_valid(h, p) == p \in Cells(h) /\ h.ent[h.tbl[p]].valid

----------------------------------------------------------------------------
(* lookat, for all of a set of places: ents are taken from freeents, which *)
(* of them does not matter.                                                *)
lookat(h, ps) ==
  LET new == ps \ Cells(h)
      Taken == CHOOSE f \in [new -> Free(h)] : IsInjective(f)
  IN IF ~(ps \subseteq Pos) \/ Cardinality(new) > Cardinality(Free(h)) THEN Full(h)
     ELSE IF new = {} THEN h
     ELSE [h EXCEPT
       !.tbl = [p \in Pos |-> IF p \in new THEN Taken[p] ELSE @[p]],
       !.ent = [e \in Ents |-> IF \E p \in new : Taken[p] = e
                               THEN [Blank EXCEPT !.pos = CHOOSE p \in new : Taken[p] = e]
                               ELSE @[e]]]

(* free_ent for the ents of some places, as one command's entry in to_fix. *)
free_ent(h, ps) ==
  LET gone == {h.tbl[p] : p \in ps \intersect Cells(h)}
  IN IF gone = {} THEN h
     ELSE [h EXCEPT !.tbl = [p \in Pos |-> IF p \in ps THEN NULL ELSE @[p]],
                    !.ent = [e \in Ents |-> IF e \in gone THEN [@[e] EXCEPT !.locked = FALSE]
                                                          ELSE @[e]],
                    !.fix = <<gone>> \o @, !.full = @ \/ Len(h.fix) = MaxSaved]

(* Once they are free nothing of the ents matters, as RefsAlive shows.     *)
Release(h, es) == [h EXCEPT !.ent = [e \in Ents |-> IF e \in es THEN Blank ELSE @[e]]]
flush_saved(h) == [Release(h, Saved(h)) EXCEPT !.fix = <<>>]

Unlocked(h, ps) == {p \in ps \intersect Cells(h) : ~h.ent[h.tbl[p]].locked}
erase_area_locked(h, ps) == free_ent(h, ps)                       \* mutant
erase_area(h, ps) == free_ent(h, Unlocked(h, ps))

(* Every reference is looked up again where its ent says it is.            *)
Target(h, e) == h.ent[h.ent[e].vp].pos
sync_refs_cells(h) ==                                             \* mutant
  LET es == {e \in Placed(h) : h.ent[e].expr # "none"}
      s  == lookat(h, {Target(h, e) : e \in es})
  IN [s EXCEPT !.ent = [e \in Ents |-> IF e \in es THEN [@[e] EXCEPT !.vp = s.tbl[Target(h, e)]]
                                                    ELSE @[e]]]
sync_refs(h) ==
  LET es == {e \in Placed(h) : h.ent[e].expr # "none"}
      s  == lookat(h, {Target(h, e) : e \in es} \union {h.ent[v].pos : v \in ToSet(h.range)})
  IN [s EXCEPT !.ent = [e \in Ents |-> IF e \in es THEN [@[e] EXCEPT !.vp = s.tbl[Target(h, e)]]
                                                    ELSE @[e]],
               !.range = [i \in DOMAIN @ |-> s.tbl[h.ent[@[i]].pos]]]

(* The rows or columns (axis 1 or 2) from i on move by n.                  *)
Moved(h, f) ==
  IF \E p \in Cells(h) : f[p] \notin Pos THEN Full(h)
  ELSE [h EXCEPT
    !.tbl = [q \in Pos |-> IF \E p \in Cells(h) : f[p] = q
                           THEN @[CHOOSE p \in Cells(h) : f[p] = q] ELSE NULL],
    !.ent = [e \in Ents |-> IF e \in Placed(h) THEN [h.ent[e] EXCEPT !.pos = f[@]] ELSE @[e]]]
Open(h, axis, i, n) ==
  Moved(h, [p \in Pos |-> IF p[axis] >= i THEN [p EXCEPT ![axis] = @ + n] ELSE p])
Close(h, axis, i, n) ==
  Moved(h, [p \in Pos |-> IF p[axis] >= i + n THEN [p EXCEPT ![axis] = @ - n] ELSE p])
Lines(axis, i, n) == {p \in Pos : i <= p[axis] /\ p[axis] < i + n}

(* copyent with copye: a reference moves by d except where it is fixed.    *)
Plus(p, d) == <<p[1] + d[1], p[2] + d[2]>>
Minus(p, q) == <<p[1] - q[1], p[2] - q[2]>>
copye(p, vf, d) ==
  LET At(axis, fix) == IF fix \in vf THEN p[axis] ELSE Max({0, p[axis] + d[axis]})
  IN <<At(1, FIX_ROW), At(2, FIX_COL)>>
Put(h, p, x) == [h EXCEPT !.ent[h.tbl[p]] = [x EXCEPT !.pos = h.ent[h.tbl[p]].pos]]
NoExpr(x) == [x EXCEPT !.expr = "none", !.vf = {}, !.vp = NULL]
Cleared(x) == [NoExpr(x) EXCEPT !.valid = FALSE, !.v = 0, !.text = 0]
clearent(h, p) == IF h.full THEN h ELSE Put(h, p, Cleared(h.ent[h.tbl[p]]))

(* The cell at q is cleared and becomes a copy of e, which may be itself.  *)
copyent(h, q, e, d) ==
  LET n == clearent(lookat(h, {q}), q)
      x == n.ent[e]
      t == copye(Target(n, e), x.vf, d)
      s == lookat(n, {t})
  IN CASE n.full -> n
       [] ~n.full /\ x.expr # "none" -> IF s.full THEN s ELSE Put(s, q, [x EXCEPT !.vp = s.tbl[t]])
       [] OTHER -> Put(n, q, x)

----------------------------------------------------------------------------
Areas == {a \in Pos \X Pos : /\ a[1][1] <= a[2][1] /\ a[1][2] <= a[2][2]
                             /\ (a[2][1] - a[1][1] + 1) * (a[2][2] - a[1][2] + 1) <= MaxArea}
In == [a \in Areas |-> {p \in Pos : /\ a[1][1] <= p[1] /\ p[1] <= a[2][1]
                                    /\ a[1][2] <= p[2] /\ p[2] <= a[2][2]}]

(* A command typed for a cell: a value, or a formula that refers to q.  A  *)
(* value leaves the expression of a text, a text that of a number.         *)
let_num(p, n) ==
  LET h == lookat(Now, {p})
      x == h.ent[h.tbl[p]]
  IN /\ Spares({p}, "typed") /\ ~h.full
     /\ Becomes(Put(h, p, [(IF x.expr = "str" THEN x ELSE NoExpr(x)) EXCEPT !.v = n, !.valid = TRUE]))
let_expr(p, expr, q, vf) ==
  LET h == lookat(Now, {p, q})
  IN /\ Spares({p}, "typed") /\ ~h.full
     /\ Becomes(Put(h, p, [h.ent[h.tbl[p]] EXCEPT !.expr = expr, !.vf = vf, !.vp = h.tbl[q],
                                                  !.valid = @ \/ expr = "num"]))

(* A label of a cell that has a value goes to a neighbour without one.     *)
Beside(h, p) ==
  LET left  == <<p[1], p[2] - 1>>
      right == <<p[1], p[2] + 1>>
  IN CASE ~Is_valid(h, p)                     -> p
       [] Is_valid(h, p) /\ p[2] > 0 /\ ~Is_valid(h, left) -> left
       [] OTHER -> IF Is_valid(h, right) THEN p ELSE right
label(h, p, s) ==
  LET n == lookat(h, {p})
  IN IF n.full THEN n ELSE Put(n, p, [n.ent[n.tbl[p]] EXCEPT !.text = s])
slet(p, s, flushdir) ==
  LET h == lookat(Now, {p})
      q == IF flushdir THEN p ELSE Beside(h, p)
      l == label(h, q, s)
      x == l.ent[l.tbl[p]]
  IN /\ Spares({p}, "typed") /\ ~h.full /\ (q = p \/ Spares({q} \intersect Pos, "label"))
     /\ ~l.full /\ Becomes(IF x.expr = "str" THEN Put(l, p, NoExpr(x)) ELSE l)

(* + and -, which do not ask whether the cell is locked.                   *)
incr(p, n) ==
  /\ tbl[p] # NULL /\ ent[tbl[p]].expr # "num" /\ n # ent[tbl[p]].v
  /\ Spares({p}, "incr") /\ Becomes(Put(Now, p, [ent[tbl[p]] EXCEPT !.v = n]))

(* The expressions are evaluated; what they yield is n.                    *)
Evaluated == {e \in Placed(Now) : ~ent[e].locked /\ ent[e].expr # "none"}
EvalAll(n) ==
  /\ UNCHANGED <<tbl, to_fix, range>>
  /\ ent' = [e \in Ents |->
       IF e \notin Evaluated THEN ent[e]
       ELSE IF ent[e].expr = "num" THEN [ent[e] EXCEPT !.v = n[e], !.valid = TRUE]
       ELSE [ent[e] EXCEPT !.text = n[e]]]

(* v_name, for the line to be edited or saved: a cell may come to be.      *)
v_name(p) == Becomes(lookat(Now, {p}))

insertrow(i, n) == Becomes(Open(Now, 1, i, n))
opencol(i, n)   == Becomes(Open(Now, 2, i, n))

any_locked_cells(ps) == \E p \in ps : Locked(p)
deleterow_flush(i, n) ==                                          \* mutant
  LET ps == Lines(1, i, n)
  IN /\ ~any_locked_cells(ps)
     /\ Becomes(sync_refs(Close(flush_saved(erase_area(Now, ps)), 1, i, n)))
deleterow(i, n) ==
  LET ps == Lines(1, i, n)
  IN /\ ~any_locked_cells(ps)
     /\ Becomes(sync_refs(Close(erase_area(flush_saved(Now), ps), 1, i, n)))

(* References to a column are looked up before the other columns move, and *)
(* the cells this puts there are deleted again.  maxcol may be any column. *)
closecol(i, n) ==
  LET ps == Lines(2, i, n)
      h  == sync_refs(erase_area(flush_saved(Now), ps))
  IN /\ i + n <= MaxCols /\ ~any_locked_cells(ps)
     /\ ps \intersect Cells(h) # {} => "closecol" \in Allowed
     /\ Becomes(Close(free_ent(h, ps), 2, i, n))

(* Append a copy of a row or column.                                       *)
Along(axis, i) == IF axis = 1 THEN [c \in 1 .. MaxCols |-> <<i, c - 1>>]
                              ELSE [r \in 1 .. MaxRows |-> <<r - 1, i>>]
dup(axis, i) ==
  LET d == IF axis = 1 THEN <<1, 0>> ELSE <<0, 1>>
      Copy(h, p) == IF h.full \/ h.tbl[p] = NULL THEN h ELSE copyent(h, Plus(p, d), h.tbl[p], d)
  IN Becomes(FoldLeft(Copy, Open(Now, axis, i + 1, 1), Along(axis, i)))

(* What was deleted last comes first, so of two ents that were deleted in  *)
(* one place the older one stays.                                          *)
Order(fix) == FoldLeft(LAMBDA s, es : s \o SetToSeq(es), <<>>, fix)
pullcells(mode, p) ==
  LET places == {ent[e].pos : e \in Saved(Now)}
      low  == <<Min({q[1] : q \in places}), Min({q[2] : q \in places})>>
      high == <<Max({q[1] : q \in places}), Max({q[2] : q \in places})>>
      d == CASE mode = "r" -> <<p[1] - low[1], 0>>
             [] mode = "c" -> <<0, p[2] - low[2]>>
             [] mode = "m" -> Minus(p, low)
      h == CASE mode = "r" -> Open(Now, 1, p[1], high[1] - low[1] + 1)
             [] mode = "c" -> Open(Now, 2, p[2], high[2] - low[2] + 1)
             [] mode = "m" -> Now
      Pull(s, e) == IF s.full THEN s ELSE copyent(s, Plus(ent[e].pos, d), e, d)
  IN /\ to_fix # <<>>
     /\ mode = "m" => Spares({Plus(q, d) : q \in places} \intersect Pos, "pull")
     /\ Becomes(FoldLeft(Pull, h, Order(to_fix)))

(* c: the marked cell is copied to the current one.                        *)
copycell(p, q) ==
  /\ tbl[p] # NULL /\ Spares({q}, "copycell")
  /\ Becomes(copyent(Now, q, tbl[p], Minus(q, p)))

(* /c.  The corners of areas that are typed come to be; where the          *)
(* destination is larger than the source it is copied again.               *)
Size(a, axis) == a[2][axis] - a[1][axis] + 1
ByRows(height, width) == [k \in 1 .. height * width |-> <<(k - 1) \div width, (k - 1) % width>>]
Steps == [areas \in Areas \X Areas |->
  LET dst == areas[1]
      src == areas[2]
      Times(axis) == IF Size(src, axis) = 1 THEN Size(dst, axis) ELSE 1
      Block(at) == [k \in 1 .. Size(src, 1) * Size(src, 2) |->
                      LET d == ByRows(Size(src, 1), Size(src, 2))[k]
                      IN <<Plus(src[1], d), Plus(Plus(dst[1], at), d)>>]
  IN FoldLeft(LAMBDA s, at : s \o Block(at), <<>>, ByRows(Times(1), Times(2)))]
copyrtv(h, step) ==
  LET p == step[1]
      q == step[2]
      n == lookat(h, {q})
  IN IF h.full THEN h
     ELSE IF h.tbl[p] = NULL THEN (IF h.tbl[q] = NULL THEN h ELSE clearent(h, q))
     ELSE IF n.full \/ n.ent[n.tbl[q]].locked THEN n
     ELSE copyent(h, q, h.tbl[p], Minus(q, p))
copy(dst, src) ==
  LET h == erase_area(lookat(Now, ToSet(dst) \union ToSet(src)), In[dst])
      c == FoldLeft(copyrtv, h, Steps[<<dst, src>>])
  IN /\ \A step \in ToSet(Steps[<<dst, src>>]) :
          step[2] \in Pos /\ (h.tbl[step[1]] = NULL => Spares({step[2]}, "hole"))
     /\ ~h.full /\ ~c.full /\ Becomes(sync_refs(c))

(* x, and /x.                                                              *)
x(axis, p, n) ==
  LET ps == {q \in Pos : q[axis] = p[axis] /\ 0 <= q[3 - axis] - p[3 - axis] /\ q[3 - axis] - p[3 - axis] < n}
  IN /\ Locked(p) \/ Spares(ps, "x")
     /\ Becomes(sync_refs(free_ent(flush_saved(Now), IF Locked(p) THEN {} ELSE ps)))
eraser(a) ==
  LET h == lookat(Now, ToSet(a))
  IN ~h.full /\ Becomes(sync_refs(erase_area(flush_saved(h), In[a])))

(* /f passes over locked cells unless it goes by columns.                  *)
fill(a, byrows, n) ==
  /\ byrows \/ Spares(In[a], "fill")
  /\ LET h  == lookat(Now, In[a])
         ps == IF byrows THEN Unlocked(h, In[a]) ELSE In[a]
     IN Becomes([h EXCEPT !.ent = [e \in Ents |->
          IF \E p \in ps : h.tbl[p] = e THEN [Cleared(@[e]) EXCEPT !.v = n[h.ent[e].pos], !.valid = TRUE]
                                       ELSE @[e]]])

valueize_area(a) ==
  /\ UNCHANGED <<tbl, to_fix, range>>
  /\ ent' = [e \in Ents |->
       IF ent[e].expr # "none" /\ ~ent[e].locked /\ (\E p \in In[a] : tbl[p] = e)
       THEN NoExpr(ent[e]) ELSE ent[e]]

lock(a, on) ==
  LET h == lookat(Now, In[a])
  IN Becomes([h EXCEPT !.ent = [e \in Ents |->
       IF \E p \in In[a] : h.tbl[p] = e THEN [@[e] EXCEPT !.locked = on] ELSE @[e]]])
lock_cells(a)   == lock(a, TRUE)
unlock_cells(a) == lock(a, FALSE)

(* A single cell's name s is also put beside it, if that place is empty.   *)
add_range(a, s) ==
  LET h    == lookat(Now, {a[1], a[2]})
      left == <<a[1][1], a[1][2] - 1>>
      l    == lookat(h, {left})
      c    == l.ent[l.tbl[left]]
      q    == Beside(l, left)
      named(g) == [g EXCEPT !.range = <<g.tbl[a[1]], g.tbl[a[2]]>>]
  IN /\ range = <<>> /\ ~h.full
     /\ IF a[1] = a[2] /\ left \in Pos
        THEN /\ ~l.full
             /\ IF c.text = 0 /\ c.expr = "none" /\ c.v = 0
                THEN /\ Spares({q} \intersect Pos, "label")
                     /\ ~label(l, q, s).full /\ Becomes(named(label(l, q, s)))
                ELSE Becomes(named(l))
        ELSE Becomes(named(h))
del_range == range # <<>> /\ range' = <<>> /\ UNCHANGED <<tbl, ent, to_fix>>

(* A new file is read: cells go, what was deleted stays.                   *)
erasedb ==
  LET old == Placed(Now)
  IN /\ (\E e \in Saved(Now) : ent[e].vp \in old) => "erasedb" \in Allowed
     /\ Becomes([Release(Now, old) EXCEPT !.tbl = [p \in Pos |-> NULL], !.range = <<>>])

Editing ==
  \/ \E p \in Pos :
       \/ \E n \in Data : let_num(p, n) \/ incr(p, n) \/ \E flushdir \in BOOLEAN : slet(p, n, flushdir)
       \/ \E q \in Pos : \/ copycell(p, q)
                        \/ \E vf \in Fixings, expr \in {"num", "str"} : let_expr(p, expr, q, vf)
       \/ \E mode \in {"r", "c", "m"} : pullcells(mode, p)
  \/ \E a \in Areas : \/ valueize_area(a)
                      \/ \E byrows \in BOOLEAN, n \in [In[a] -> Data] : fill(a, byrows, n)
                      \/ \E b \in Areas : copy(a, b)

Next ==
  \/ Editing
  \/ \E p \in Pos, n \in 1 .. MaxArea : x(1, p, n) \/ (n > 1 /\ x(2, p, n))
  \/ \E p \in Pos : v_name(p)
  \/ \E n \in 1 .. MaxArea :
       \/ \E i \in 0 .. MaxRows - 1 : insertrow(i, n) \/ deleterow(i, n)
       \/ \E i \in 0 .. MaxCols - 1 : opencol(i, n) \/ closecol(i, n)
  \/ \E i \in 0 .. MaxRows - 1 : dup(1, i)
  \/ \E i \in 0 .. MaxCols - 1 : dup(2, i)
  \/ \E a \in Areas : eraser(a) \/ lock_cells(a) \/ unlock_cells(a) \/ \E s \in Data \ {0} : add_range(a, s)
  \/ \E n \in [Evaluated -> Data] : EvalAll(n)
  \/ del_range \/ erasedb

Spec == Init /\ [][Next]_vars

----------------------------------------------------------------------------
TypeOK ==
  /\ tbl \in [Pos -> Ents \union {NULL}]
  /\ ent \in [Ents -> [pos : Pos, locked : BOOLEAN, valid : BOOLEAN, v : Data, text : Data,
                       expr : {"none", "num", "str"}, vf : SUBSET {FIX_ROW, FIX_COL},
                       vp : Ents \union {NULL}]]
  /\ to_fix \in Seq(SUBSET Ents) /\ Len(to_fix) <= MaxSaved
  /\ range = <<>> \/ range \in Ents \X Ents

(* Every ent is in one place and knows it, and no formula and no range     *)
(* refers to a cell that has been deleted; nor does a deleted cell, which  *)
(* pull may bring back, refer to one whose ent may be in use again.        *)
RefsAlive ==
  /\ \A p \in Cells(Now) : ent[tbl[p]].pos = p /\ tbl[p] \notin Saved(Now)
  /\ \A e \in Placed(Now) : ent[e].expr # "none" => ent[e].vp \in Placed(Now)
  /\ \A e \in Saved(Now) : ent[e].expr # "none" => ent[e].vp \notin Free(Now)
  /\ ToSet(range) \subseteq Placed(Now)

(* Unless it is edited, a formula refers to the same cell as before,       *)
(* wherever rows and columns have moved the two; and when that cell is     *)
(* deleted, to the one that takes its place.                               *)
Formulas == {e \in Placed(Now) : ent[e].expr # "none"}
Kept(v, w) == IF v \in Placed(Now)' THEN w = v ELSE ent'[w].pos = ent[v].pos
RefsKept ==
  [][\/ \A e \in Formulas \intersect Formulas' : Kept(ent[e].vp, ent'[e].vp)
     \/ Editing]_vars

(* A locked cell cannot be changed until it is unlocked: neither its value *)
(* nor its label nor its expression, nor what that refers to.  It moves    *)
(* with its row or column, and only a new file replaces it.                *)
Contents(c) == <<c.valid, c.v, c.text, c.expr, c.vf>>
LockedKept ==
  [][\/ \A e \in Placed(Now) : ent[e].locked =>
           /\ e \in Placed(Now)' /\ Contents(ent'[e]) = Contents(ent[e])
           /\ ent[e].expr # "none" => Kept(ent[e].vp, ent'[e].vp)
     \/ erasedb]_vars
=============================================================================
