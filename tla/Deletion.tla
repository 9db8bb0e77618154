------------------------------ MODULE Deletion ------------------------------
(***************************************************************************)
(* delete, undelete and expunge: a file is deleted by giving its name the  *)
(* mark ".#", recovered by taking the mark off, and destroyed later.  The  *)
(* tools keep no record but the names, find files first and work through   *)
(* their list by path afterwards.  Each system call is a step; it can fail *)
(* and the tool can be killed before it.                                   *)
(***************************************************************************)
EXTENDS Naturals, Sequences, FiniteSets

CONSTANTS
    Files, Dirs,    \* nodes of the file system
    Root,           \* the directory the tools are run in
    Names,          \* names without their marks
    Star,            \* the pattern *
    Nowhere, None,
    MaxDepth,       \* bound on the length of paths
    Allowed         \* what the tools are exposed to: see AllowedKinds

AllowedKinds ==
    { "half",       \* an end between the renames that one undelete takes
      "clash",      \* recovery through a marked directory that has a living namesake
      "stale",      \* agreeing to overwrite a directory with files of the list in it
      "age",        \* expunge -t of a directory whose members are older than itself
      "race" }      \* the user makes files while a tool runs

Nodes == Files \cup Dirs
Places == [dir : Dirs \cup {Root}, name : Names, del : BOOLEAN]

ASSUME DeletionAssumption ==
    /\ Files \cap Dirs = {} /\ Root \notin Nodes /\ None \notin Nodes
    /\ Nowhere \notin Places
    /\ Star \notin Names
    /\ MaxDepth \in Nat
    /\ Allowed \subseteq AllowedKinds

VARIABLES
    where,          \* the place of each node: a directory, a name, a mark
    fresh,          \* nodes whose ctime is younger than the t of expunge -t
    aged,           \* marked nodes whose deletion is as old as that
    tool, opts, pc, \* the tool that runs, its options and where it is
    stack,          \* delete: the directories it is in
    todo,           \* undelete and expunge: the leaves left in the tree
    at,             \* the node or leaf at hand
    name,           \* undelete: its path on the disk
    victim,         \* what is being unlinked to make room
    agreed,         \* what the user has agreed to overwrite
    chosen,         \* what was found and chosen to be worked on
    outcome         \* error_occurred, and HISTORY: what was spared, for the user said no

fs == <<where, fresh, aged>>
list == <<stack, todo, chosen>>
hand == <<at, name, victim, agreed>>
vars == <<fs, tool, opts, pc, list, hand, outcome>>

-----------------------------------------------------------------------------
(* Paths *)

Exists(n) == where[n] # Nowhere
Members(d) == {n \in Nodes : Exists(n) /\ where[n].dir = d}

Path[n \in Nodes] ==
    IF ~Exists(n) THEN <<>>
    ELSE LET c == [name |-> where[n].name, del |-> where[n].del]
         IN  IF where[n].dir = Root THEN <<c>> ELSE Append(Path[where[n].dir], c)

Lookup(p) == IF \E n \in Nodes : Exists(n) /\ Path[n] = p
             THEN CHOOSE n \in Nodes : Exists(n) /\ Path[n] = p
             ELSE None

Extends(p, q) == Len(p) >= Len(q) /\ SubSeq(p, 1, Len(q)) = q
Below(n) == {m \in Nodes : Exists(m) /\ Extends(Path[m], Path[n])}

Marks(p) == {i \in DOMAIN p : p[i].del}
Unmarked(p, I) == [i \in DOMAIN p |-> IF i \in I THEN [p[i] EXCEPT !.del = FALSE] ELSE p[i]]
convert_to_user_name(p) == Unmarked(p, DOMAIN p)

Live(n) == Exists(n) /\ Marks(Path[n]) = {}

-----------------------------------------------------------------------------
(* What find_matches finds *)

Matches(p, pattern) ==
    Len(p) = Len(pattern) /\ \A i \in DOMAIN p : pattern[i] \in {Star, p[i].name}

Matched(pattern) == {n \in Nodes : Exists(n) /\ Matches(Path[n], pattern)}

\* Marked nodes under n, to which only directories lead that are searched.
do_recurs(n, marked, unmarked) ==
    {m \in Below(n) \ {n} :
        /\ where[m].del
        /\ \A k \in Below(n) \ {n, m} :
             m \in Below(k) => IF where[k].del THEN marked ELSE unmarked}

find_matches(pattern, contents, marked, unmarked) ==
    {n \in Matched(pattern) : where[n].del}
        \cup IF contents THEN UNION {do_recurs(n, marked, unmarked) : n \in Matched(pattern)}
             ELSE {}

\* Of two paths with one user name that is better whose first mark comes later.
choose_better(p, q) ==
    \E i \in DOMAIN p : ~p[i].del /\ q[i].del /\ \A j \in 1 .. i - 1 : p[j] = q[j]

unique(found) ==
    {n \in found :
        ~ \E m \in found : /\ convert_to_user_name(Path[m]) = convert_to_user_name(Path[n])
                           /\ choose_better(Path[m], Path[n])}

-----------------------------------------------------------------------------
(* The file system and the user *)

Clean == [error |-> FALSE, spared |-> {}]
set_error == [outcome EXCEPT !.error = TRUE]
set_status(N) == [outcome EXCEPT !.spared = @ \cup N]

Init ==
    /\ where = [n \in Nodes |-> Nowhere] /\ fresh = {} /\ aged = {}
    /\ tool = "none" /\ opts = {} /\ pc = "idle"
    /\ stack = <<>> /\ todo = {} /\ chosen = {}
    /\ at = None /\ name = <<>> /\ victim = None /\ agreed = {}
    /\ outcome = Clean

Touched(d) == {d} \cap Nodes

Create(n) ==
    /\ tool = "none" \/ "race" \in Allowed
    /\ ~Exists(n)
    /\ \E d \in {Root} \cup {e \in Dirs : Live(e) /\ Len(Path[e]) < MaxDepth}, m \in Names :
         /\ \A k \in Members(d) : where[k].name # m \/ where[k].del
         /\ where' = [where EXCEPT ![n] = [dir |-> d, name |-> m, del |-> FALSE]]
         /\ fresh' = fresh \cup {n} \cup Touched(d)
    /\ UNCHANGED <<aged, tool, opts, pc, list, hand, outcome>>

DaysPass ==
    /\ tool = "none"
    /\ fresh' = {}
    /\ aged' = {n \in Nodes : Exists(n) /\ where[n].del}
    /\ UNCHANGED <<where, tool, opts, pc, list, hand, outcome>>

\* unlink and rmdir
Unlink(n) ==
    /\ Members(n) = {}
    /\ where' = [where EXCEPT ![n] = Nowhere]
    /\ fresh' = (fresh \cup Touched(where[n].dir)) \ {n}
    /\ aged' = aged \ {n}

\* rename gives node n the mark del, and replaces what is there.
CanRename(n, del) ==
    \A t \in Members(where[n].dir) :
        where[t].name = where[n].name /\ where[t].del = del
            => (n \in Dirs <=> t \in Dirs) /\ Members(t) = {}

Rename(n, del) ==
    LET there == {t \in Members(where[n].dir) : where[t].name = where[n].name /\ where[t].del = del}
    IN  /\ CanRename(n, del)
        /\ where' = [m \in Nodes |-> IF m \in there THEN Nowhere
                                     ELSE IF m = n THEN [where[n] EXCEPT !.del = del] ELSE where[m]]
        /\ fresh' = (fresh \ there) \cup {n} \cup Touched(where[n].dir)
        /\ aged' = aged \ (there \cup {n})

Idle ==
    /\ tool' = "none" /\ opts' = {} /\ pc' = "idle"
    /\ stack' = <<>> /\ todo' = {} /\ chosen' = {}
    /\ at' = None /\ name' = <<>> /\ victim' = None /\ agreed' = {}
    /\ outcome' = Clean

\* undelete has begun to rename a path and is not through with it.
Half == pc = "rename" /\ tool = "undelete" /\ name # at.path /\ Marks(name) # {}

\* A signal, or the end of input at a question.
Kill ==
    /\ tool # "none" /\ pc # "end"
    /\ ~Half \/ "half" \in Allowed
    /\ Idle
    /\ UNCHANGED fs

End ==
    /\ pc = "end"
    /\ Idle
    /\ UNCHANGED fs

-----------------------------------------------------------------------------
(* delete *)

delete_main ==
    /\ tool = "none"
    /\ \E n \in {m \in Nodes : Live(m)},
          o \in {{}, {"r"}, {"F"}, {"r", "F"}, {"D"}} :
         /\ opts' = o /\ at' = n /\ chosen' = {n}
    /\ tool' = "delete" /\ pc' = "delete"
    /\ UNCHANGED <<fs, stack, todo, name, victim, agreed, outcome>>

\* delete() returns to recursive_delete(), or to main: n is deleted or kept.
Return(n, kept) ==
    /\ IF stack = <<>>
       THEN pc' = "end" /\ UNCHANGED stack
       ELSE LET top == Head(stack)
            IN  /\ pc' = "readdir"
                /\ stack' = <<[top EXCEPT !.left = @ \ {n}, !.bad = @ \/ kept]>> \o Tail(stack)
    /\ at' = None /\ victim' = None
    /\ UNCHANGED <<tool, opts, todo, chosen, name, agreed>>

\* Any call of delete() may fail.
delete_error ==
    /\ tool = "delete" /\ pc \in {"delete", "move", "unlink", "rename"}
    /\ Return(at, TRUE) /\ outcome' = set_error
    /\ UNCHANGED fs

Entries(d) == {n \in Members(d) : ~where[n].del}

\* The user says no: to a directory met on the way, or to the move.
delete_refused ==
    /\ tool = "delete"
    /\ \/ pc = "move"
       \/ /\ pc = "delete" /\ stack # <<>>
          /\ at \in Dirs /\ "r" \in opts /\ ("F" \in opts \/ Entries(at) # {})
    /\ Return(at, TRUE) /\ outcome' = set_status({at})
    /\ UNCHANGED fs

\* The cases in which delete() goes on.
delete ==
    /\ tool = "delete" /\ pc = "delete"
    /\ \/ /\ at \in Files /\ "D" \notin opts
          /\ pc' = "move" /\ UNCHANGED <<stack, at>>
       \/ /\ at \in Dirs /\ "F" \notin opts /\ Entries(at) = {}
          /\ pc' = "move" /\ UNCHANGED <<stack, at>>
       \/ /\ at \in Dirs /\ "r" \in opts /\ ("F" \in opts \/ Entries(at) # {})
          /\ pc' = "readdir" /\ at' = None
          /\ stack' = <<[dir |-> at, left |-> Entries(at), bad |-> FALSE]>> \o stack
    /\ UNCHANGED <<fs, tool, opts, todo, chosen, name, victim, agreed, outcome>>

\* A mutant: the status of the members is forgotten.
recursive_delete_anyway ==
    /\ tool = "delete" /\ pc = "readdir"
    /\ LET top == Head(stack)
       IN  \/ /\ \E n \in top.left : at' = n
              /\ pc' = "delete"
              /\ UNCHANGED <<stack, outcome>>
           \/ /\ top.left = {}
              /\ at' = top.dir /\ stack' = Tail(stack)
              /\ pc' = "move"
              /\ UNCHANGED outcome
    /\ UNCHANGED <<fs, tool, opts, todo, chosen, name, victim, agreed>>

recursive_delete ==
    /\ tool = "delete" /\ pc = "readdir"
    /\ LET top == Head(stack)
       IN  \/ /\ \E n \in top.left : at' = n
              /\ pc' = "delete"
              /\ UNCHANGED <<stack, outcome>>
           \/ /\ top.left = {} /\ ~top.bad
              /\ at' = top.dir /\ stack' = Tail(stack)
              /\ pc' = "move"
              /\ UNCHANGED outcome
    /\ UNCHANGED <<fs, tool, opts, todo, chosen, name, victim, agreed>>

\* A directory keeps its name when a member does.
recursive_delete_error ==
    /\ tool = "delete" /\ pc = "readdir"
    /\ Head(stack).left = {} /\ Head(stack).bad
    /\ at' = Head(stack).dir /\ stack' = Tail(stack)
    /\ pc' = "delete_failed"
    /\ UNCHANGED <<fs, tool, opts, todo, chosen, name, victim, agreed, outcome>>

recursive_delete_return ==
    /\ pc = "delete_failed"
    /\ Return(at, TRUE) /\ outcome' = set_status({at})
    /\ UNCHANGED fs

\* do_move makes room for the new mark.
Previous(n) == {m \in Members(where[n].dir) : where[m].name = where[n].name /\ where[m].del}

do_move ==
    /\ tool = "delete" /\ pc = "move"
    /\ IF Previous(at) = {}
       THEN pc' = "rename" /\ UNCHANGED victim
       ELSE pc' = "unlink" /\ victim' \in Previous(at)
    /\ UNCHANGED <<fs, tool, opts, list, at, name, agreed, outcome>>

\* One unlink or rmdir of those that unlink_completely makes, members first.
unlink_completely ==
    /\ pc = "unlink"
    /\ \E n \in Below(victim) :
         /\ Unlink(n)
         /\ IF n = victim THEN pc' = "rename" /\ victim' = None ELSE UNCHANGED <<pc, victim>>
    /\ UNCHANGED <<tool, opts, list, at, name, agreed, outcome>>

delete_rename ==
    /\ tool = "delete" /\ pc = "rename"
    /\ Rename(at, TRUE)
    /\ Return(at, FALSE) /\ UNCHANGED outcome

-----------------------------------------------------------------------------
(* undelete and expunge *)

Patterns == UNION {[1 .. k -> Names \cup {Star}] : k \in 1 .. MaxDepth}

\* do_match takes plain files for directories where the pattern goes on.
Sound(pattern) ==
    \A k \in 1 .. Len(pattern) - 1, n \in Files :
        Exists(n) => ~Matches(Path[n], SubSeq(pattern, 1, k))

Leaves(N) == {[path |-> Path[n], node |-> n] : n \in N}

\* The marked directories around n that are not recovered themselves.
Through(n, N) == {k \in Dirs \ N : k # n /\ Exists(k) /\ n \in Below(k) /\ where[k].del}
Namesakes(k) == {m \in Members(where[k].dir) : where[m].name = where[k].name /\ ~where[m].del}

\* unique() leaves a null pointer in the list when it drops two, and undelete dies.
undelete_main ==
    /\ tool = "none"
    /\ \E pattern \in Patterns, o \in {{}, {"r"}, {"R"}, {"f"}, {"r", "f"}} :
         LET found == find_matches(pattern, "R" \notin o, "r" \in o, FALSE)
         IN  /\ Sound(pattern)
             /\ found # {}
             /\ Cardinality(found \ unique(found)) < 2
             /\ \/ "clash" \in Allowed
                \/ \A n \in unique(found) : \A k \in Through(n, unique(found)) : Namesakes(k) = {}
             /\ todo' = Leaves(unique(found)) /\ chosen' = unique(found) /\ opts' = o
    /\ tool' = "undelete" /\ pc' = "leaf"
    /\ UNCHANGED <<fs, stack, hand, outcome>>

\* recurs_and_undelete: the tree is made from a list sorted by user names, and a
\* directory comes before what is in it.
recurs_and_undelete ==
    /\ tool = "undelete" /\ pc = "leaf"
    /\ \E l \in todo :
         /\ \A m \in todo \ {l} :
              ~Extends(convert_to_user_name(l.path), convert_to_user_name(m.path))
         /\ at' = l /\ name' = l.path /\ todo' = todo \ {l}
    /\ pc' = "ask"
    /\ UNCHANGED <<fs, tool, opts, stack, chosen, victim, agreed, outcome>>

\* What lstat(user_name) finds.
Intact == Lookup(convert_to_user_name(at.path))

\* A mutant: the question is left out.
do_undelete_unasked ==
    /\ tool = "undelete" /\ pc = "ask"
    /\ IF Intact = None THEN pc' = "rename" /\ UNCHANGED victim
       ELSE pc' = "unlink" /\ victim' = Intact
    /\ UNCHANGED <<fs, tool, opts, list, at, name, agreed, outcome>>

do_undelete ==
    /\ tool = "undelete" /\ pc = "ask"
    /\ \/ /\ Intact = None \/ "f" \in opts
          /\ pc' = "rename"
          /\ agreed' = IF Intact = None THEN {} ELSE {Intact}
          /\ UNCHANGED victim
       \/ /\ Intact # None /\ "f" \notin opts
          /\ "stale" \in Allowed \/ \A l \in todo : l.node \notin Below(Intact)
          /\ pc' = "unlink" /\ victim' = Intact /\ agreed' = Below(Intact)
    /\ UNCHANGED <<fs, tool, opts, list, at, name, outcome>>

\* do_file_rename takes the marks off from the last one to the first, in one
\* directory after the other.
ToRename == LET last == CHOOSE i \in Marks(name) : \A j \in Marks(name) : j <= i
            IN  SubSeq(name, 1, last)

\* rename(2) cannot succeed.
Stuck == Lookup(ToRename) = None \/ ~CanRename(Lookup(ToRename), FALSE)

\* The leaves under one that stays are left alone.
LeafStays ==
    /\ todo' = {l \in todo : ~Extends(l.path, at.path)}
    /\ pc' = "leaf" /\ at' = None /\ name' = <<>> /\ victim' = None /\ agreed' = {}
    /\ UNCHANGED <<fs, tool, opts, stack, chosen>>

do_undelete_error ==
    /\ tool = "undelete" /\ pc \in {"ask", "unlink", "rename"}
    /\ pc = "rename" => Marks(name) # {}
    /\ ~Half \/ "half" \in Allowed \/ Stuck
    /\ LeafStays /\ outcome' = set_error

do_undelete_refused ==
    /\ tool = "undelete" /\ pc = "ask"
    /\ LeafStays
    /\ outcome' = set_status({l.node : l \in {m \in todo : Extends(m.path, at.path)} \cup {at}})

\* A mutant: only the last mark is taken off.
do_file_rename_once ==
    /\ tool = "undelete" /\ pc = "rename"
    /\ Marks(name) # {}
    /\ ~Stuck
    /\ Rename(Lookup(ToRename), FALSE)
    /\ name' = convert_to_user_name(name)
    /\ UNCHANGED <<tool, opts, pc, list, at, victim, agreed, outcome>>

do_file_rename ==
    /\ tool = "undelete" /\ pc = "rename"
    /\ Marks(name) # {}
    /\ ~Stuck
    /\ Rename(Lookup(ToRename), FALSE)
    /\ name' = Unmarked(name, {Len(ToRename)})
    /\ UNCHANGED <<tool, opts, pc, list, at, victim, agreed, outcome>>

\* The directories on the path have new names in the tree as well.
Renamed(p, q) ==
    [i \in DOMAIN q |->
        IF i <= Len(p) /\ SubSeq(q, 1, i) = SubSeq(p, 1, i) THEN [q[i] EXCEPT !.del = FALSE] ELSE q[i]]

\* A mutant: the tree is left as it is.
change_path_not ==
    /\ tool = "undelete" /\ pc = "rename"
    /\ Marks(name) = {}
    /\ pc' = "leaf" /\ at' = None /\ name' = <<>> /\ agreed' = {}
    /\ UNCHANGED <<fs, tool, opts, list, victim, outcome>>

change_path ==
    /\ tool = "undelete" /\ pc = "rename"
    /\ Marks(name) = {}
    /\ todo' = {[l EXCEPT !.path = Renamed(at.path, @)] : l \in todo}
    /\ pc' = "leaf" /\ at' = None /\ name' = <<>> /\ agreed' = {}
    /\ UNCHANGED <<fs, tool, opts, stack, chosen, victim, outcome>>

TreeDone ==
    /\ pc = "leaf" /\ todo = {}
    /\ pc' = "end"
    /\ UNCHANGED <<fs, tool, opts, list, hand, outcome>>

\* A mutant: directories are not asked for their age.
timed_out_files(found, o) ==
    IF "t" \in o THEN {n \in found : n \in Files => n \notin fresh} ELSE found

\* What is old enough to go.
timed_out(found, o) ==
    IF "t" \in o THEN found \ fresh ELSE found

\* Directories the user has named that are too young, with members that are not: their
\* leaves are freed twice, and used.
TooYoung(found, pattern) ==
    {n \in found \cap fresh \cap Matched(pattern) : \E m \in found \ fresh : m # n /\ m \in Below(n)}

expunge_main ==
    /\ tool = "none"
    /\ \E pattern \in Patterns, o \in SUBSET {"r", "t"} :
         LET found == find_matches(pattern, TRUE, TRUE, "r" \in o)
             young == TooYoung(found, pattern)
             kept == timed_out(found, o) \cup IF "t" \in o THEN young ELSE {}
         IN  /\ Sound(pattern)
             /\ kept # {}
             /\ "t" \notin o \/ "age" \in Allowed \/ young = {}
             /\ todo' = Leaves(kept) /\ chosen' = kept /\ opts' = o
    /\ tool' = "expunge" /\ pc' = "leaf"
    /\ UNCHANGED <<fs, stack, hand, outcome>>

\* Members come before their directory, which is not touched when one of them stays.
expunge_specified ==
    /\ tool = "expunge" /\ pc = "leaf"
    /\ \E l \in todo :
         /\ \A m \in todo \ {l} : ~Extends(m.path, l.path)
         /\ at' = l /\ todo' = todo \ {l}
    /\ pc' = "expunge"
    /\ UNCHANGED <<fs, tool, opts, stack, chosen, name, victim, agreed, outcome>>

really_do_expunge ==
    /\ pc = "expunge"
    /\ Lookup(at.path) # None
    /\ Unlink(Lookup(at.path))
    /\ pc' = "leaf" /\ at' = None
    /\ UNCHANGED <<tool, opts, list, name, victim, agreed, outcome>>

\* The directories around a file that stays are left alone.
MemberStays ==
    /\ pc = "expunge"
    /\ todo' = {l \in todo : ~Extends(at.path, l.path)}
    /\ pc' = "leaf" /\ at' = None
    /\ UNCHANGED <<fs, tool, opts, stack, chosen, name, victim, agreed>>

really_do_expunge_error == MemberStays /\ outcome' = set_error

really_do_expunge_refused ==
    /\ MemberStays
    /\ outcome' = set_status({l.node : l \in {m \in todo : Extends(at.path, m.path)} \cup {at}})

Next ==
    \/ \E n \in Nodes : Create(n)
    \/ DaysPass \/ Kill \/ End
    \/ delete_main \/ delete \/ delete_error \/ delete_refused \/ recursive_delete \/ recursive_delete_error
    \/ recursive_delete_return \/ do_move \/ unlink_completely \/ delete_rename
    \/ undelete_main \/ recurs_and_undelete \/ do_undelete \/ do_undelete_error \/ do_undelete_refused
    \/ do_file_rename \/ change_path \/ TreeDone
    \/ expunge_main \/ expunge_specified \/ really_do_expunge \/ really_do_expunge_error
    \/ really_do_expunge_refused

Spec == Init /\ [][Next]_vars

-----------------------------------------------------------------------------
(* Properties *)

TypeOK ==
    /\ where \in [Nodes -> Places \cup {Nowhere}]
    /\ \A m, n \in Nodes : Exists(m) /\ where[m] = where[n] => m = n
    /\ fresh \subseteq Nodes /\ aged \subseteq Nodes
    /\ pc \in {"idle", "delete", "move", "unlink", "rename", "readdir", "delete_failed",
               "leaf", "ask", "expunge", "end"}
    /\ pc = "idle" <=> tool = "none"
    /\ chosen \subseteq Nodes /\ outcome \in [error : BOOLEAN, spared : SUBSET Nodes]
    /\ \A l \in todo : l.node \in Nodes /\ l.path # <<>>
    /\ \A i \in DOMAIN stack : stack[i].left \subseteq Entries(stack[i].dir)

\* Whatever is in a marked directory is marked too, whichever steps of a delete -r
\* or an undelete failed and wherever it was killed: expunge can empty the directory,
\* and undelete find what is in it.
MarkedInside ==
    ~Half => \A n \in Nodes : Exists(n) /\ ~where[n].del => Live(n)

\* The paths in the tree lead to the files they were made for, though directories on
\* the way have been renamed since.
TreeAgrees ==
    pc \in {"leaf", "ask", "expunge"} => \A l \in todo : Lookup(l.path) = l.node

\* A tool that ends without an error has done what was asked, to all it chose, except
\* to what the user refused and what goes with that: the directories around what is
\* not deleted or expunged, and what is in a directory that is not undeleted.
DoneAsAsked ==
    pc = "end" /\ ~outcome.error =>
        \A n \in chosen \ outcome.spared :
            CASE tool = "delete" -> Exists(n) /\ where[n].del
              [] tool = "undelete" -> Live(n)
              [] tool = "expunge" -> ~Exists(n)

\* A file that is not marked, nor in a marked directory, is destroyed only by an
\* undelete, and only when the user has agreed to that or asked for it with -f.
LiveIsKept ==
    [][\A n \in Nodes : Live(n) /\ where'[n] = Nowhere => n \in agreed]_vars

\* expunge -t spares what was deleted later than that.
AgeIsRespected ==
    [][\A n \in Nodes : tool = "expunge" /\ "t" \in opts /\ Exists(n) /\ where'[n] = Nowhere
         => n \in aged]_vars
=============================================================================
