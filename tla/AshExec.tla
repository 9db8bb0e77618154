------------------------------ MODULE AshExec ------------------------------
(***************************************************************************)
(* The hash table of commands (exec.c) and what invalidates it: cd marks   *)
(* entries, an assignment to PATH deletes those from the first changed     *)
(* entry on, functions come and go.                                        *)
(***************************************************************************)
EXTENDS PathSearch, SequencesExt

CONSTANTS
    DefaultPath,    \* what initvar gives PATH
    MaxDepth,       \* bound on functions and files being evaluated at once
    NoPath,         \* the environment may have no PATH
    StalePath,      \* PATH is restored and reset whatever the table holds
    StaleMark       \* functions may be defined over marked entries

ASSUME ExecAssumption ==
    /\ DefaultPath \in Paths
    /\ MaxDepth \in Nat
    /\ {NoPath, StalePath, StaleMark} \subseteq BOOLEAN

VARIABLES
    path,           \* the text of PATH
    exported,       \* it has VEXPORT
    cwd,            \* the current directory
    table,          \* cmdtable: name -> [type, index, rehash]
    builtinloc,
    stack,          \* functions and %func files being evaluated, innermost last
    found           \* what the last step found, or NotFound

ExecVars == <<path, exported, cwd, table, builtinloc, stack, found>>

NoEntry == [type |-> "none", index |-> 0, rehash |-> FALSE]

Entry(t, i) == [type |-> t, index |-> i, rehash |-> FALSE]

\* A call that has not made PATH local has nothing to restore.
Call == [kind |-> "call", path |-> <<>>, exported |-> FALSE]

Reading(n) == [kind |-> "read", name |-> n]

ExecInit ==
    /\ found = NotFound
    /\ cwd \in Dirs
    /\ table = [n \in Names |-> NoEntry]
    /\ stack = <<>>
    /\ \/ /\ path \in Paths
          /\ exported = TRUE
          /\ builtinloc = Bltin(path)
       \/ /\ NoPath
          /\ path = DefaultPath
          /\ exported = FALSE
          /\ builtinloc = 1        \* it is 0 in the code until PATH is assigned

-----------------------------------------------------------------------------
(* Invalidation *)

clearcmdentry(t, loc, from) ==
    [n \in Names |->
        IF \/ t[n].type = "normal" /\ t[n].index >= from
           \/ t[n].type = "builtin" /\ loc >= from
        THEN NoEntry
        ELSE t[n]]

FirstChange_next(old, new) ==                                        \* mutant
    1 + Min({i \in 1 .. Len(new) + 1 :
            i > Len(new) \/ i > Len(old) \/ old[i] # new[i]})
FirstChange(old, new) ==
    Min({i \in 1 .. Len(new) + 1 :
            i > Len(new) \/ i > Len(old) \/ old[i] # new[i]})

\* Where %builtin counts as being while entries are deleted ("zap builtins").
ZapFrom(loc, bltin) == IF loc = 0 /\ bltin > 0 THEN bltin ELSE loc

changepath(t, loc, old, new) ==
    LET bltin == Bltin(new)
        from == IF loc > 0 /\ bltin = 0 THEN 1 ELSE FirstChange(old, new)
    IN  [table |-> clearcmdentry(t, ZapFrom(loc, bltin), from), loc |-> bltin]

hashcd(t) ==
    [n \in Names |->
        IF t[n].type = "normal" \/ (t[n].type = "builtin" /\ builtinloc > 0)
        THEN [t[n] EXCEPT !.rehash = TRUE]
        ELSE t[n]]

\* PATH may be given the value p without changepath: the table would not change.
Unaffected(t, loc, old, new) ==
    StalePath \/ changepath(t, loc, old, new) = [table |-> t, loc |-> loc]
-----------------------------------------------------------------------------
(* find_command.  e is the entry the name has: that of the table, unless     *)
(* hash has just deleted it.                                               *)

\* The directory from which shellexec runs a command hashed at position i: a
\* marked or stale position is where it begins, not where it must stop.
shellexec(n, i) ==
    LET j == First({k \in i .. Len(path) :
                        path[k].opt = "none" /\ <<padvance(path[k], cwd), n>> \in Programs})
    IN  IF j = 0 THEN Found("unknown", n) ELSE Program(n, padvance(path[j], cwd))

\* It ends with entry e in the table.
Success(n, e) ==
    /\ table' = [table EXCEPT ![n] = [e EXCEPT !.rehash = FALSE]]
    /\ found' = IF e.type = "normal" THEN shellexec(n, e.index) ELSE Found(e.type, n)
    /\ UNCHANGED stack

\* It ends with no entry.
Failure(n) ==
    /\ table' = [table EXCEPT ![n] = NoEntry]
    /\ found' = Found("unknown", n)
    /\ UNCHANGED stack

\* It reads a file of functions, which may do anything: see ReadDone.
readcmdfile(n, e) ==
    /\ Len(stack) < MaxDepth
    /\ stack' = Append(stack, Reading(n))
    /\ table' = [table EXCEPT ![n] = e]
    /\ found' = NotFound

\* "If name is in the table, and not invalidated by cd, we're done."
Hit(e) == e.type # "none" /\ ~e.rehash

\* Up to where absolute directories need not be searched again.  For a function
\* over a marked entry the code reads half a pointer.
Prev(e) ==
    CASE e.type = "builtin" -> {builtinloc}
      [] e.type = "function" -> {0, Len(path) + 1}
      [] OTHER -> {e.index}

Absolute(i) == path[i].opt # "builtin" /\ path[i].dir # Here

Stop_relative(n, prev) ==                                            \* mutant
    First({i \in DOMAIN path :
            IF i <= prev THEN i = prev ELSE Holds(path[i], n, cwd)})
\* The entry of PATH at which the search stops.
StopAt(n, prev) ==
    First({i \in DOMAIN path :
            IF Absolute(i) /\ i <= prev THEN i = prev ELSE Holds(path[i], n, cwd)})

SearchPath(n, e, prev) ==
    LET i == StopAt(n, prev)
    IN  IF i = 0 THEN Failure(n)
        ELSE IF Absolute(i) /\ i = prev THEN Success(n, e)
        ELSE IF path[i].opt = "func" THEN readcmdfile(n, e)
        ELSE Success(n, IF path[i].opt = "none" THEN Entry("normal", i) ELSE Entry("builtin", 0))

find_command(n, e) ==
    /\ UNCHANGED <<path, exported, cwd, builtinloc>>
    /\ IF Hit(e) THEN Success(n, e)
       ELSE IF builtinloc = 0 /\ n \in Builtins THEN Success(n, Entry("builtin", 0))
       ELSE \E prev \in Prev(e) : SearchPath(n, e, prev)

\* A command is looked for: evalcommand and prehash.
Lookup(n) == find_command(n, table[n])

\* hash looks for it anew.
hashcmd(n) ==
    find_command(n, IF \/ table[n].type = "normal"
                       \/ table[n].type = "builtin" /\ builtinloc > 0
                    THEN NoEntry
                    ELSE table[n])

hash_r ==
    /\ table' = clearcmdentry(table, builtinloc, 1)
    /\ found' = NotFound
    /\ UNCHANGED <<path, exported, cwd, builtinloc, stack>>

-----------------------------------------------------------------------------
(* cd and PATH *)

\* docd, updatepwd
cd ==
    /\ cwd' \in Dirs
    /\ table' = hashcd(table)
    /\ found' = NotFound
    /\ UNCHANGED <<path, exported, builtinloc, stack>>

\* setvareq of PATH
setvareq(p) ==
    LET c == changepath(table, builtinloc, path, p)
    IN  /\ path' = p
        /\ table' = c.table
        /\ builtinloc' = c.loc
        /\ found' = NotFound

Assign == \E p \in Paths : setvareq(p) /\ UNCHANGED <<exported, cwd, stack>>

\* unsetvar sets it to nothing, one empty entry, unless that is what it is.
unsetvar ==
    LET p == <<[dir |-> Here, opt |-> "none"]>>
    IN  /\ p \in Paths
        /\ setvareq(p)
        /\ exported' = FALSE
        /\ UNCHANGED <<cwd, stack>>

export ==
    /\ exported' = TRUE
    /\ found' = NotFound
    /\ UNCHANGED <<path, cwd, table, builtinloc, stack>>

-----------------------------------------------------------------------------
(* Functions *)

defun(n) ==
    /\ StaleMark \/ ~table[n].rehash
    /\ table' = [table EXCEPT ![n] = [@ EXCEPT !.type = "function", !.index = 0]]
    /\ found' = NotFound
    /\ UNCHANGED <<path, exported, cwd, builtinloc, stack>>

unsetfunc(n) ==
    /\ table[n].type = "function"
    /\ table' = [table EXCEPT ![n] = NoEntry]
    /\ found' = NotFound
    /\ UNCHANGED <<path, exported, cwd, builtinloc, stack>>

CallFunction ==
    /\ \E n \in Names : Hit(table[n]) /\ table[n].type = "function"
    /\ Len(stack) < MaxDepth
    /\ stack' = Append(stack, Call)
    /\ found' = NotFound
    /\ UNCHANGED <<path, exported, cwd, table, builtinloc>>

\* mklocal, by local or by an assignment before the function's name.  What counts
\* when it returns is what was saved first.
mklocal ==
    /\ stack # <<>>
    /\ Last(stack).kind = "call"
    /\ Last(stack).path = <<>>
    /\ stack' = [stack EXCEPT ![Len(stack)] =
                    [@ EXCEPT !.path = path, !.exported = exported]]
    /\ found' = NotFound
    /\ UNCHANGED <<path, exported, cwd, table, builtinloc>>

\* The frames of s that have a PATH to restore; what poplocalvars leaves of PATH
\* when all of s is left is what the outermost has.
Saved(s) == {k \in DOMAIN s : s[k].kind = "call" /\ s[k].path # <<>>}
Outermost(s) == s[Min(Saved(s))]

poplocalvars(s) ==
    IF Saved(s) = {} THEN UNCHANGED <<path, exported>>
    ELSE /\ Unaffected(table, builtinloc, path, Outermost(s).path)
         /\ path' = Outermost(s).path
         /\ exported' = Outermost(s).exported

FunctionReturns ==
    /\ stack # <<>>
    /\ Last(stack).kind = "call"
    /\ poplocalvars(<<Last(stack)>>)
    /\ stack' = Front(stack)
    /\ found' = NotFound
    /\ UNCHANGED <<cwd, table, builtinloc>>

\* An error or an interrupt leaves all functions and files.
Unwind ==
    /\ stack # <<>>
    /\ poplocalvars(stack)
    /\ stack' = <<>>
    /\ found' = NotFound
    /\ UNCHANGED <<cwd, table, builtinloc>>

\* find_command goes on after the file has been read; if that has not defined the
\* function it is an error.
ReadDone ==
    /\ stack # <<>>
    /\ Last(stack).kind = "read"
    /\ LET n == Last(stack).name
       IN  /\ table[n].type = "function"
           /\ table' = [table EXCEPT ![n].rehash = FALSE]
           /\ found' = Found("function", n)
    /\ stack' = Front(stack)
    /\ UNCHANGED <<path, exported, cwd, builtinloc>>

\* A program turns out to be a shell procedure: the child, with PATH=q if that is
\* assigned before the name, forgets functions (deletefuncs), variables that are
\* not exported (shprocvar), and the functions it was in.  The table stays.
ShellProc ==
    /\ found.kind = "program"
    /\ \E assigned \in BOOLEAN, q \in Paths :
        LET c == IF assigned THEN changepath(table, builtinloc, path, q)
                 ELSE [table |-> table, loc |-> builtinloc]
            t == [n \in Names |-> IF c.table[n].type = "function" THEN NoEntry ELSE c.table[n]]
            p == IF assigned THEN q ELSE path
            r == IF Saved(stack) # {} THEN Outermost(stack).path
                 ELSE IF assigned \/ exported THEN p
                 ELSE DefaultPath
        IN  /\ ~assigned => q = path
            /\ Unaffected(t, c.loc, p, r)
            /\ path' = r
            /\ exported' = IF Saved(stack) # {} THEN Outermost(stack).exported
                           ELSE assigned \/ exported
            /\ table' = t
            /\ builtinloc' = c.loc
    /\ stack' = <<>>
    /\ found' = NotFound
    /\ UNCHANGED cwd

-----------------------------------------------------------------------------
ExecNext ==
    \/ hash_r \/ cd \/ Assign \/ unsetvar \/ export
    \/ CallFunction \/ mklocal \/ FunctionReturns \/ Unwind \/ ReadDone \/ ShellProc
    \/ \E n \in Names : Lookup(n) \/ hashcmd(n) \/ defun(n) \/ unsetfunc(n)

ExecSpec == ExecInit /\ [][ExecNext]_ExecVars

-----------------------------------------------------------------------------
(* Properties *)

ExecTypeOK ==
    /\ path \in Paths
    /\ exported \in BOOLEAN
    /\ cwd \in Dirs
    /\ table \in [Names -> [type : {"none", "normal", "builtin", "function"},
                            index : Nat, rehash : BOOLEAN]]
    /\ builtinloc \in Nat
    /\ Len(stack) <= MaxDepth

\* An entry that is not marked is what a search of PATH from its beginning would
\* find in the current directory: cd, assignments to PATH, functions, hash and
\* shell procedures between them leave no stale entry (find_command's first test).
HashedIsFound ==
    \A n \in Names : Hit(table[n]) =>
        CASE table[n].type = "normal" ->
                /\ n \in Builtins => builtinloc > 0
                /\ table[n].index = Search(n, path, cwd)
                /\ path[table[n].index].opt = "none"
          [] table[n].type = "builtin" ->
                /\ n \in Builtins
                /\ builtinloc > 0 => builtinloc = Search(n, path, cwd)
          [] OTHER -> TRUE

\* What a marked entry still promises, the reason why find_command may skip
\* absolute directories up to the position of the entry: none before it has the
\* command, and if that position is absolute, it has.
MarkedStillLeads ==
    \A n \in Names : table[n].rehash =>
        \A prev \in Prev(table[n]) :
            /\ prev \in DOMAIN path
            /\ \A i \in 1 .. prev - 1 : Absolute(i) => ~Holds(path[i], n, cwd)
            /\ Absolute(prev) => Holds(path[prev], n, cwd)

\* builtinloc says where PATH has %builtin, whoever changed PATH.
BuiltinlocAgrees == builtinloc = Bltin(path)

\* The shell finds what CommandSearch finds.
S == INSTANCE CommandSearch WITH
        functions <- {n \in Names : table[n].type = "function"}
Implements == S!Spec
=============================================================================
