------------------------------ MODULE AshVars ------------------------------
(***************************************************************************)
(* Variables (var.c): their texts in allocated memory, the flags that say  *)
(* who frees what, the local variables of functions and their restoration  *)
(* when a function returns or is abandoned (evalcommand in eval.c).        *)
(***************************************************************************)
EXTENDS Integers, Sequences, FiniteSetsExt, SequencesExt

CONSTANTS
    Vars, Values, Unset, Default, Args, Options,    \* see Scopes
    Empty,          \* the value of a variable set to nothing
    Static,         \* the variables initvar makes (vps1 and so on)
    MaxDepth,       \* bound on functions in one another
    MaxLocals,      \* bound on local variables of all functions together
    MaxParams,      \* bound on lists of parameters that set allocates and functions keep
    Allowed         \* what the shell is exposed to: see AllowedKinds

AllowedKinds ==
    { "unset",      \* variables that are unset but exported or read-only made local
      "readonly",   \* variables created by local made read-only
      "options",    \* job control turned on or off where options are local
      "proc",       \* shell procedures run by functions
      "interrupt" } \* a second SIGINT while the first abandons functions

ASSUME VarsAssumption ==
    /\ Unset \notin Values /\ Default \in [Vars -> Values \cup {Unset}]
    /\ Empty \in Values
    /\ {"-", "param"} \cap Vars = {}      \* no names: local -, and the tag Param
    /\ Static \subseteq Vars
    /\ \A v \in Vars \ Static : Default[v] = Unset
    /\ MaxDepth \in Nat /\ MaxLocals \in Nat /\ MaxParams \in Nat
    /\ Allowed \subseteq AllowedKinds

VARIABLES
    vartab,         \* name -> struct var, with `here` for being linked in the table
    freed,          \* what has been freed and is still pointed to
    shellparam,     \* the positional parameters
    optval,         \* the option letters that are set
    jobctl,         \* what setjobctl has made of it
    stack,          \* frames of functions: saveparam and localvars, innermost last
    pc              \* "run", "return" from the innermost function, "unwind", "proc"

vars == <<vartab, freed, shellparam, optval, jobctl, stack, pc>>

-----------------------------------------------------------------------------
(* A text is a number and what it says; 0 is one that is not allocated.  The *)
(* numbers only tell the allocated texts of one variable from one another.   *)

Absent ==
    [here |-> FALSE, text |-> 0, val |-> Empty, exported |-> FALSE, readonly |-> FALSE,
     unset |-> FALSE, strfixed |-> FALSE, textfixed |-> FALSE]

initvar(v) ==
    [Absent EXCEPT !.here = TRUE, !.val = IF Default[v] = Unset THEN Empty ELSE Default[v],
                   !.unset = Default[v] = Unset, !.strfixed = TRUE, !.textfixed = TRUE]

\* A variable of the environment.
Imported(v, x) ==
    [Absent EXCEPT !.here = TRUE, !.val = x, !.exported = TRUE,
                   !.strfixed = v \in Static, !.textfixed = TRUE]

Init ==
    /\ vartab \in [Vars -> UNION {{Absent, initvar(v)} \cup {Imported(v, x) : x \in Values} : v \in Vars}]
    /\ \A v \in Vars :
         \/ vartab[v] = IF v \in Static THEN initvar(v) ELSE Absent
         \/ \E x \in Values : vartab[v] = Imported(v, x)
    /\ freed = {}
    /\ shellparam \in [malloc : {0}, args : Args]
    /\ optval \in SUBSET Options
    /\ jobctl = ("j" \in optval)
    /\ stack = <<>>
    /\ pc = "run"

\* The local variables of functions, by function and place; those of v.
Places == UNION {{k} \X DOMAIN stack[k].localvars : k \in DOMAIN stack}
At(p) == stack[p[1]].localvars[p[2]]
Saves(v) == {p \in Places : At(p).var = v}
Copies(v) == {p \in Saves(v) : ~At(p).created}

\* The texts of v that local variables keep, and its present one.
KeptTexts(v) == {At(p).was.text : p \in Copies(v)}
Texts(v) == KeptTexts(v) \cup (IF vartab[v].here \/ Copies(v) # {} THEN {vartab[v].text} ELSE {})

KeptParams == {stack[k].saveparam.malloc : k \in DOMAIN stack}

\* Allocated blocks by what they are for: what something still points to.
Param == "param"
Referenced ==
    (UNION {{v} \X (Texts(v) \ {0}) : v \in Vars})
        \cup ({Param} \X ((KeptParams \cup {shellparam.malloc}) \ {0}))

Lowest(used) == Min((1 .. Cardinality(used) + 1) \ used)

\* Where the next text of v goes; that of the old one is free if nobody keeps it.
Fresh(v) == Lowest(KeptTexts(v) \ {0})
FreshParam == Lowest(KeptParams \ {0})

\* ckfree of the blocks in F, before or after those in A have been allocated.
Frees(F, A) == freed' = ((freed \cup F) \ A) \cap Referenced'

TextOf(v) == IF vartab[v].textfixed THEN {} ELSE {<<v, vartab[v].text>>}

\* setvareq gives v a new text with value x; it frees TextOf(v).
Assigned(v, x) ==
    [vartab[v] EXCEPT !.here = TRUE, !.text = Fresh(v), !.val = x, !.unset = FALSE, !.textfixed = FALSE]

-----------------------------------------------------------------------------
(* Exceptions *)

\* The handler of the innermost function of s first restores the parameters, then
\* the variables.
Handler(s, F) ==
    IF s = <<>> THEN pc' = "run" /\ UNCHANGED shellparam /\ Frees(F, {})
    ELSE /\ pc' = "unwind"
         /\ shellparam' = Last(s).saveparam
         /\ Frees(F \cup {<<Param, shellparam.malloc>>}, {})

\* error() in a command that is no builtin, or SIGINT.
Raise ==
    /\ pc = "run"
    /\ stack # <<>>
    /\ UNCHANGED <<vartab, optval, jobctl, stack>>
    /\ Handler(stack, {})

-----------------------------------------------------------------------------
(* Commands *)

\* v=x, export v=x.  To assign to a read-only variable is an error (Raise) that
\* a builtin catches: then nothing happens.
setvar(v) ==
    /\ pc = "run"
    /\ ~vartab[v].readonly
    /\ \E x \in Values, exp \in BOOLEAN :
         vartab' = [vartab EXCEPT ![v] = [Assigned(v, x) EXCEPT !.exported = @ \/ exp]]
    /\ UNCHANGED <<shellparam, optval, jobctl, stack, pc>>
    /\ Frees(TextOf(v), {<<v, Fresh(v)>>})

\* What unsetvar leaves of a variable.
Unlinked(v) ==
    IF vartab[v].strfixed
    THEN [(IF vartab[v].val # Empty THEN Assigned(v, Empty) ELSE vartab[v]) EXCEPT
            !.exported = FALSE, !.unset = TRUE]
    ELSE Absent

UnsetFrees(v) ==
    IF ~vartab[v].strfixed THEN Frees(TextOf(v), {})
    ELSE IF vartab[v].val # Empty THEN Frees(TextOf(v), {<<v, Fresh(v)>>})
    ELSE Frees({}, {})

unsetvar(v) ==
    /\ pc = "run"
    /\ vartab[v].here /\ ~vartab[v].readonly
    /\ vartab' = [vartab EXCEPT ![v] = Unlinked(v)]
    /\ UNCHANGED <<shellparam, optval, jobctl, stack, pc>>
    /\ UnsetFrees(v)

\* export v, readonly v
NewUnset(v) == [Absent EXCEPT !.here = TRUE, !.text = Fresh(v), !.unset = TRUE]

\* v was made in a function that is still being evaluated.
Created(v) == \E p \in Saves(v) : At(p).created

exportcmd(v) ==
    LET e == IF vartab[v].here THEN vartab[v] ELSE NewUnset(v)
    IN  /\ pc = "run"
        /\ \/ vartab' = [vartab EXCEPT ![v] = [e EXCEPT !.exported = TRUE]]
           \/ /\ "readonly" \in Allowed \/ ~Created(v)
              /\ vartab' = [vartab EXCEPT ![v] = [e EXCEPT !.readonly = TRUE]]
        /\ UNCHANGED <<shellparam, optval, jobctl, stack, pc>>
        /\ Frees({}, IF vartab[v].here THEN {} ELSE {<<v, Fresh(v)>>})

\* set -- args: setparam
setparam ==
    /\ pc = "run"
    /\ Cardinality(KeptParams \ {0}) < MaxParams
    /\ \E a \in Args : shellparam' = [malloc |-> FreshParam, args |-> a]
    /\ UNCHANGED <<vartab, optval, jobctl, stack, pc>>
    /\ Frees({<<Param, shellparam.malloc>>}, {<<Param, FreshParam>>})

setcmd ==
    /\ pc = "run"
    /\ optval' \in SUBSET Options
    /\ \/ "options" \in Allowed
       \/ ("j" \in optval') = ("j" \in optval)
       \/ Saves("-") = {}
    /\ jobctl' = ("j" \in optval')
    /\ UNCHANGED <<vartab, freed, shellparam, stack, pc>>

-----------------------------------------------------------------------------
(* Functions *)

NumLocals == Cardinality(Places)

CallFunction ==
    /\ pc = "run"
    /\ Len(stack) < MaxDepth
    /\ stack' = Append(stack, [saveparam |-> shellparam, localvars |-> <<>>])
    /\ \E a \in Args : shellparam' = [malloc |-> 0, args |-> a]
    /\ UNCHANGED <<vartab, freed, optval, jobctl, pc>>

Push(lv) ==
    [stack EXCEPT ![Len(stack)].localvars = <<lv>> \o @]

\* The flags are saved after VTEXTFIXED has been set.
LocalVar_late(v, created) ==
    [var |-> v, created |-> created, was |-> [vartab[v] EXCEPT !.textfixed = TRUE]]

\* struct localvar: the text and flags of the variable when it was made local.
LocalVar(v, created) ==
    [var |-> v, created |-> created, was |-> vartab[v]]

\* mklocal, by local or by an assignment before the function's name
mklocal(v) ==
    /\ pc = "run"
    /\ stack # <<>> /\ NumLocals < MaxLocals
    /\ ~vartab[v].here                                 \* it is created, unset or with a value
    /\ stack' = Push(LocalVar(v, TRUE))
    /\ \E e \in {NewUnset(v)} \cup {Assigned(v, x) : x \in Values} :
         vartab' = [vartab EXCEPT ![v] = [e EXCEPT !.strfixed = TRUE]]
    /\ UNCHANGED <<shellparam, optval, jobctl, pc>>
    /\ Frees({}, {<<v, Fresh(v)>>})

\* Both the variable and the saved copy own the text.
Kept_both(e) == [e EXCEPT !.strfixed = TRUE]

\* It exists: the local variable keeps its text.
Kept(e) == [e EXCEPT !.strfixed = TRUE, !.textfixed = TRUE]

mklocal_existing(v) ==
    /\ pc = "run"
    /\ stack # <<>> /\ NumLocals < MaxLocals
    /\ vartab[v].here
    /\ "unset" \in Allowed \/ ~(vartab[v].unset /\ ~vartab[v].strfixed)
    /\ stack' = Push(LocalVar(v, FALSE))
    /\ UNCHANGED <<shellparam, optval, jobctl, pc>>
    /\ LET b == Lowest((KeptTexts(v) \cup {vartab[v].text}) \ {0})
       IN  \/ /\ vartab' = [vartab EXCEPT ![v] = Kept(@)]
              /\ UNCHANGED freed
           \/ /\ ~vartab[v].readonly
              /\ \E x \in Values :
                   vartab' = [vartab EXCEPT ![v] =
                                 [Assigned(v, x) EXCEPT !.strfixed = TRUE, !.text = b]]
              /\ Frees({}, {<<v, b>>})

\* The error of local v=x for a read-only v comes after its flags are set.
mklocal_error(v) ==
    /\ pc = "run"
    /\ stack # <<>>
    /\ vartab[v].readonly
    /\ vartab' = [vartab EXCEPT ![v] = Kept(@)]
    /\ UNCHANGED <<optval, jobctl, stack>>
    /\ \/ UNCHANGED <<pc, freed, shellparam>>          \* local is a builtin
       \/ Handler(stack, {})

\* local -
mklocal_options ==
    /\ pc = "run"
    /\ stack # <<>> /\ NumLocals < MaxLocals
    /\ stack' = Push([var |-> "-", created |-> FALSE, was |-> optval])
    /\ UNCHANGED <<vartab, freed, shellparam, optval, jobctl, pc>>

Return ==
    /\ pc = "run"
    /\ stack # <<>>
    /\ pc' = "return"
    /\ UNCHANGED <<vartab, freed, shellparam, optval, jobctl, stack>>

-----------------------------------------------------------------------------
(* poplocalvars *)

Popping == pc \in {"return", "unwind", "proc"}
Locals == Last(stack).localvars
Popped == [stack EXCEPT ![Len(stack)].localvars = Tail(@)]

PopOptions ==
    /\ Popping
    /\ Locals # <<>> /\ Head(Locals).var = "-"
    /\ optval' = Head(Locals).was
    /\ stack' = Popped
    /\ UNCHANGED <<vartab, freed, shellparam, jobctl, pc>>

\* poplocalvars that unsets whatever had no value, by one flag.
MustUnset_flag(lv) == lv.created \/ lv.was.unset

\* The test of flags by which poplocalvars knows a variable that did not exist.
MustUnset(lv) == lv.created \/ (lv.was.unset /\ ~lv.was.strfixed)

PopVariable ==
    /\ Popping
    /\ Locals # <<>> /\ Head(Locals).var # "-"
    /\ stack' = Popped
    /\ UNCHANGED <<optval, jobctl>>
    /\ LET lv == Head(Locals)
           v == lv.var
       IN  IF ~MustUnset(lv)
           THEN /\ vartab' = [vartab EXCEPT ![v] = [lv.was EXCEPT !.here = vartab[v].here]]
                /\ UNCHANGED <<pc, shellparam>>
                /\ Frees(TextOf(v), {})
           ELSE IF vartab[v].readonly                  \* an error in poplocalvars
           THEN /\ UNCHANGED vartab
                /\ Handler(Popped, {})
           ELSE /\ vartab' = [vartab EXCEPT ![v] = Unlinked(v)]
                /\ UNCHANGED <<pc, shellparam>>
                /\ UnsetFrees(v)

\* The variable is still what it was, in memory that is not allocated; nor are the
\* parameters.
AsItWas(lv) ==
    /\ shellparam.malloc = 0
    /\ ~lv.created /\ lv.was.text = 0 /\ vartab[lv.var] = Kept(lv.was)

\* A second SIGINT, in the handler entered for the first, enters it again: after
\* localvars has moved on, or after the text has been freed.
PopCut ==
    /\ pc = "unwind"
    /\ Locals # <<>> /\ Head(Locals).var # "-"
    /\ "interrupt" \in Allowed \/ AsItWas(Head(Locals))
    /\ stack' = Popped
    /\ UNCHANGED <<vartab, optval, jobctl>>
    /\ \E F \in {{}, TextOf(Head(Locals).var)} : Handler(Popped, F)

\* The end of a function.
PopFunction ==
    /\ Popping
    /\ Locals = <<>>
    /\ stack' = Front(stack)
    /\ UNCHANGED <<vartab, optval, jobctl>>
    /\ CASE pc = "unwind" -> Handler(Front(stack), {})
         [] pc = "return" ->
              /\ pc' = "run"
              /\ shellparam' = Last(stack).saveparam
              /\ Frees({<<Param, shellparam.malloc>>}, {})
         [] pc = "proc" ->
              /\ pc' = IF Front(stack) = <<>> THEN "run" ELSE "proc"
              /\ UNCHANGED shellparam
              /\ Frees({<<Param, Last(stack).saveparam.malloc>>}, {})

-----------------------------------------------------------------------------
(* A program is a shell procedure (tryexec): the child, with v=x if that was *)
(* assigned before its name, forgets the variables that are not exported     *)
(* (shprocvar), makes those of initvar again, and leaves its functions by    *)
(* EXSHELLPROC, which frees the parameters they saved.                       *)

ShellProc ==
    /\ pc = "run"
    /\ "proc" \in Allowed \/ stack = <<>>
    /\ \E given \in {{}} \cup {{v} : v \in {w \in Vars : ~vartab[w].readonly}}, x \in Values :
        LET set(v) == IF v \in given THEN [Assigned(v, x) EXCEPT !.exported = TRUE] ELSE vartab[v]
            forgotten(v) == IF v \in Static THEN initvar(v)
                            ELSE [Absent EXCEPT !.text = vartab[v].text, !.textfixed = vartab[v].textfixed]
        IN  /\ vartab' = [v \in Vars |-> IF set(v).exported THEN set(v)
                                         ELSE IF stack = <<>> /\ v \notin Static THEN Absent
                                         ELSE forgotten(v)]
            /\ \E a \in Args : shellparam' = [malloc |-> FreshParam, args |-> a]
            /\ optval' = {}
            /\ jobctl' = FALSE
            /\ pc' = IF stack = <<>> THEN "run" ELSE "proc"
            /\ UNCHANGED stack
            /\ Frees((UNION {TextOf(v) : v \in {w \in Vars : w \in given \/ ~vartab[w].exported}})
                        \cup {<<Param, shellparam.malloc>>},
                     {<<v, Fresh(v)>> : v \in given} \cup {<<Param, FreshParam>>})

Next ==
    \/ Raise \/ setparam \/ setcmd \/ CallFunction \/ mklocal_options \/ Return
    \/ PopOptions \/ PopVariable \/ PopCut \/ PopFunction \/ ShellProc
    \/ \E v \in Vars : setvar(v) \/ unsetvar(v) \/ exportcmd(v) 
                    \/ mklocal(v) \/ mklocal_existing(v) \/ mklocal_error(v)

Spec == Init /\ [][Next]_vars

-----------------------------------------------------------------------------
(* Properties *)

TypeOK ==
    /\ vartab \in [Vars -> [here : BOOLEAN, text : Nat, val : Values,
                            exported : BOOLEAN, readonly : BOOLEAN, unset : BOOLEAN,
                            strfixed : BOOLEAN, textfixed : BOOLEAN]]
    /\ freed \subseteq (Vars \cup {Param}) \X Nat
    /\ shellparam \in [malloc : Nat, args : Args]
    /\ optval \subseteq Options /\ jobctl \in BOOLEAN
    /\ Len(stack) <= MaxDepth
    /\ pc \in {"run", "return", "unwind", "proc"}

\* No variable, saved local variable or list of parameters points to a text that
\* has been freed, whatever was made local, assigned, unset and abandoned: ckfree
\* in setvareq, unsetvar, poplocalvars and freeparam is for the last owner.
NoDangling == freed = {}

\* An allocated text has exactly one owner that will free it, so that none is freed
\* twice and none is lost: when local shares one between a variable and its saved
\* copies, VTEXTFIXED is clear in one of them.  Only the text of a read-only variable
\* may have none, after a local v=x that was refused.
OwnedOnce ==
    \A v \in Vars : \A t \in Texts(v) \ {0} :
        LET owners == {e \in {<<<<>>, vartab[v]>>} \cup {<<p, At(p).was>> : p \in Copies(v)} :
                          e[2].text = t /\ ~e[2].textfixed}
        IN  Cardinality(owners) = 1 \/ (owners = {} /\ vartab[v].readonly)

\* Where commands run, job control is what the option says, also after a function
\* that had options of its own has returned.
JobctlAgrees == pc = "run" => jobctl = ("j" \in optval)

\* The mapping to Scopes: functions that are being left count as left, their
\* variables as what poplocalvars has yet to make them.
Left ==
    CASE pc = "return" -> {Len(stack)}
      [] pc = "unwind" -> DOMAIN stack
      [] OTHER -> {}

Attr(e) == [value |-> IF e.here /\ ~e.unset THEN e.val ELSE Unset,
            exported |-> e.exported, readonly |-> e.readonly]

\* What a function keeps of each variable that is local to it: the oldest copy.
Held(localvars) ==
    LET oldest(v) == localvars[Max({i \in DOMAIN localvars : localvars[i].var = v})]
    IN  [v \in {lv.var : lv \in Range(localvars)} |->
            IF v = "-" THEN oldest(v).was
            ELSE Attr(IF oldest(v).created THEN Absent ELSE oldest(v).was)]

Environment ==
    LET held == [k \in DOMAIN stack |-> Held(stack[k].localvars)]
        left == Left
        keepers(v) == {k \in left : v \in DOMAIN held[k]}
        after == [v \in Vars |-> IF keepers(v) = {} THEN Attr(vartab[v]) ELSE held[Min(keepers(v))][v]]
        scope(k) == [vars |-> [v \in DOMAIN held[k] \ {"-"} |-> held[k][v]],
                     args |-> stack[k].saveparam.args,
                     optval |-> IF "-" \in DOMAIN held[k] THEN <<held[k]["-"]>> ELSE <<>>]
    IN  [value |-> [v \in Vars |-> after[v].value],
         exported |-> {v \in Vars : after[v].exported},
         readonly |-> {v \in Vars : after[v].readonly},
         args |-> IF left = {} THEN shellparam.args ELSE stack[Min(left)].saveparam.args,
         optval |-> IF keepers("-") = {} THEN optval ELSE held[Min(keepers("-"))]["-"],
         scopes |-> IF pc = "proc" THEN <<>> ELSE [k \in DOMAIN stack \ left |-> scope(k)]]

S == INSTANCE Scopes WITH env <- Environment
Implements == S!Spec
=============================================================================
