----------------------------- MODULE MCAshExec -----------------------------
(***************************************************************************)
(* Instances of AshExec for TLC: PATHs over the current directory, two     *)
(* directories, one of them with functions too, and %builtin.              *)
(***************************************************************************)
EXTENDS AshExec

CONSTANTS a, b, w, x, y

ExecDirs == {a, b, w}

Dot == [dir |-> Here, opt |-> "none"]
A == [dir |-> a, opt |-> "none"]
B == [dir |-> b, opt |-> "none"]
FuncA == [dir |-> a, opt |-> "func"]
BuiltinEntry == [dir |-> Here, opt |-> "builtin"]

\* Every PATH of at most two different entries over one directory, and some over
\* two, so that a search has something to skip.
SearchPaths ==
    LET e == {Dot, A, FuncA, BuiltinEntry}
    IN  UNION { {<<i>> : i \in e},
                {<<i, j>> : i \in e, j \in e} \ {<<i, i>> : i \in e},
                {<<B, A>>, <<Dot, B, A>>, <<B, BuiltinEntry>>} }

Initially == <<Dot, A>>

\* x is a builtin too, y a function in a.
Executables == { <<a, x>>, <<b, x>>, <<w, y>>, <<b, y>> }
FunctionFiles == { <<a, y>> }
=============================================================================
