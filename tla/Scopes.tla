------------------------------- MODULE Scopes -------------------------------
(***************************************************************************)
(* What the shell promises of variables (var.c with its callers in eval.c, *)
(* options.c and exec.c): dynamic scoping.  A function may make variables  *)
(* and the option letters its own; when it returns, or is abandoned,       *)
(* they and the positional parameters are what they were.                  *)
(***************************************************************************)
EXTENDS Integers, Sequences, FiniteSetsExt, SequencesExt

CONSTANTS
    Vars,           \* names of variables
    Values,         \* values a variable can have
    Unset,          \* the value of a variable that has none, not in Values
    Default,        \* what initvar gives each variable: a value or Unset
    Options,        \* option letters
    Args            \* lists of positional parameters

VARIABLE env    \* what commands see, and the scopes of functions, innermost last

Environment ==
    [value : [Vars -> Values \cup {Unset}], exported : SUBSET Vars, readonly : SUBSET Vars,
     args : Args, optval : SUBSET Options, scopes : {<<>>}]

Attributes(e, v) ==
    [value |-> e.value[v], exported |-> v \in e.exported, readonly |-> v \in e.readonly]

Init == env \in {e \in Environment : e.readonly = {}}

-----------------------------------------------------------------------------
(* What e may become by one command *)

Assign(e, v) ==
    {[e EXCEPT !.value[v] = x, !.exported = exp] :
        x \in IF v \in e.readonly THEN {} ELSE Values, exp \in {e.exported, e.exported \cup {v}}}

UnsetVar(e, v) ==
    IF v \in e.readonly THEN {} ELSE {[e EXCEPT !.value[v] = Unset, !.exported = @ \ {v}]}

Mark(e, v) ==
    {[e EXCEPT !.exported = @ \cup {v}], [e EXCEPT !.readonly = @ \cup {v}]}

Set(e) == {[e EXCEPT !.args = a, !.optval = o] : a \in Args, o \in SUBSET Options}

\* A scope remembers what was there when it began to have its own.
Enter(e) ==
    LET scope == [vars |-> [v \in {} |-> Unset], args |-> e.args, optval |-> <<>>]
    IN  {[e EXCEPT !.scopes = Append(@, scope), !.args = a] : a \in Args}

\* A variable that becomes local inherits its value; it may get another at once.
Local(e, v) ==
    LET n == Len(e.scopes)
        saved(vs) == IF v \in DOMAIN vs THEN vs
                     ELSE [w \in DOMAIN vs \cup {v} |-> IF w = v THEN Attributes(e, v) ELSE vs[w]]
        values == IF v \in e.readonly THEN {e.value[v]} ELSE Values \cup {e.value[v]}
    IN  IF n = 0 THEN {} ELSE {[e EXCEPT !.scopes[n].vars = saved(@), !.value[v] = x] : x \in values}

LocalOptions(e) ==
    LET n == Len(e.scopes)
    IN  IF n = 0 THEN {} ELSE {[e EXCEPT !.scopes[n].optval = IF @ = <<>> THEN <<e.optval>> ELSE @]}

\* The scopes from the i-th on are left: what the outermost of them saved counts.
Leave(e, i) ==
    LET left == SubSeq(e.scopes, i, Len(e.scopes))
        saver(v) == {k \in DOMAIN left : v \in DOMAIN left[k].vars}
        of == [v \in Vars |-> IF saver(v) = {} THEN Attributes(e, v) ELSE left[Min(saver(v))].vars[v]]
        savers == {k \in DOMAIN left : left[k].optval # <<>>}
    IN  [value |-> [v \in Vars |-> of[v].value],
         exported |-> {v \in Vars : of[v].exported},
         readonly |-> {v \in Vars : of[v].readonly},
         args |-> left[1].args,
         optval |-> IF savers = {} THEN e.optval ELSE Head(left[Min(savers)].optval),
         scopes |-> SubSeq(e.scopes, 1, i - 1)]

\* It returns, or an exception leaves all functions.
Return(e) == {Leave(e, i) : i \in {1, Len(e.scopes)} \cap DOMAIN e.scopes}

\* A shell procedure gets the exported variables, among them those assigned before
\* its name, and its own parameters; everything else is as in a new shell.
ShellProc(e) ==
    {[value |-> [v \in Vars |-> IF v \in DOMAIN given THEN given[v]
                                ELSE IF v \in e.exported THEN e.value[v] ELSE Default[v]],
      exported |-> e.exported \cup DOMAIN given, readonly |-> e.readonly \cap e.exported,
      args |-> a, optval |-> {}, scopes |-> <<>>] :
        a \in Args, given \in UNION {[G -> Values] : G \in SUBSET (Vars \ e.readonly)}}

\* One command makes f of e.
Next ==
    \E e \in {env}, f \in {env'} :
        \/ f \in Set(e) \/ f \in Enter(e) \/ f \in LocalOptions(e) \/ f \in Return(e)
        \/ \E v \in Vars : f \in Assign(e, v) \/ f \in UnsetVar(e, v) \/ f \in Mark(e, v) \/ f \in Local(e, v)
        \/ f \in ShellProc(e)

Spec == Init /\ [][Next]_env
=============================================================================
