--------------------------- MODULE CommandSearch ---------------------------
(***************************************************************************)
(* What the shell promises of a command name, as find_command (exec.c)     *)
(* would do without its hash table: a function of that name; else, if PATH *)
(* has no %builtin entry, a builtin; else the first entry of PATH that has *)
(* the command, as PATH and the current directory are now.                 *)
(***************************************************************************)
EXTENDS PathSearch

VARIABLES
    path,           \* the value of PATH
    cwd,            \* the current directory
    functions,      \* the names that are functions
    found           \* what the last step found, or NotFound

vars == <<path, cwd, functions, found>>

Resolve(n) ==
    LET i == Search(n, path, cwd)
    IN  IF n \in functions THEN Found("function", n)
        ELSE IF n \in Builtins /\ Bltin(path) = 0 THEN Found("builtin", n)
        ELSE IF i = 0 THEN Found("unknown", n)
        ELSE IF path[i].opt = "none" THEN Program(n, padvance(path[i], cwd))
        ELSE Found(path[i].opt, n)

Init ==
    /\ path \in Paths
    /\ cwd \in Dirs
    /\ functions = {}
    /\ found = NotFound

\* A file that defines functions ("func") has to be read before its are found.
Find(n) ==
    /\ Resolve(n).kind # "func"
    /\ found' = Resolve(n)
    /\ UNCHANGED <<path, cwd, functions>>

Forget == found' = NotFound

ChangeDirectory == cwd' \in Dirs /\ Forget /\ UNCHANGED <<path, functions>>

ChangePath == path' \in Paths /\ Forget /\ UNCHANGED <<cwd, functions>>

Define(n) == functions' = functions \cup {n} /\ Forget /\ UNCHANGED <<path, cwd>>

Unset(n) == functions' = functions \ {n} /\ Forget /\ UNCHANGED <<path, cwd>>

\* A shell procedure starts without functions.
ShellProc == path' \in Paths /\ functions' = {} /\ Forget /\ UNCHANGED cwd

Next ==
    \/ ChangeDirectory
    \/ ChangePath
    \/ ShellProc
    \/ \E n \in Names : Find(n) \/ Define(n) \/ Unset(n)

Spec == Init /\ [][Next]_vars
=============================================================================
