---------------------------- MODULE PathSearch -----------------------------
(***************************************************************************)
(* PATH as a sequence of entries, each a directory and a flag, and the     *)
(* search of a command along it (exec.c).  Positions count from 1; 0 is    *)
(* the -1 of the code.  The files do not change.                           *)
(***************************************************************************)
EXTENDS Integers, Sequences, FiniteSetsExt

CONSTANTS
    Names,          \* command names
    Builtins,       \* those that are builtins
    Dirs,           \* directories
    Here,           \* the directory of an empty entry: the current one
    Paths,          \* values of PATH
    Programs,       \* the <<directory, name>> of executable files
    FuncFiles       \* those of the files that define functions (%func)

Entries == [dir : Dirs \cup {Here}, opt : {"none", "builtin", "func"}]

ASSUME SearchAssumption ==
    /\ Builtins \subseteq Names
    /\ Here \notin Dirs
    /\ Paths \subseteq Seq(Entries) \ {<<>>}

\* The directory that entry e names when d is the current directory.
padvance(e, d) == IF e.dir = Here THEN d ELSE e.dir

Holds(e, n, d) ==
    \/ e.opt = "builtin" /\ n \in Builtins
    \/ e.opt = "func" /\ <<padvance(e, d), n>> \in FuncFiles
    \/ e.opt = "none" /\ <<padvance(e, d), n>> \in Programs

First(S) == IF S = {} THEN 0 ELSE Min(S)

Bltin(p) == First({i \in DOMAIN p : p[i].opt = "builtin"})

Search(n, p, d) == First({i \in DOMAIN p : Holds(p[i], n, d)})

\* What find_command can tell of a name.
NotFound == [kind |-> "none"]
Program(n, d) == [kind |-> "program", name |-> n, dir |-> d]
Found(kind, n) == [kind |-> kind, name |-> n]
=============================================================================
