--------------------------- MODULE Redirections ---------------------------
(***************************************************************************)
(* What the redirections of ash promise: a command sees the descriptors it *)
(* was given, and when it completes or is abandoned each descriptor it had *)
(* redirected leads where it led before.  Commands nest.  What exec        *)
(* redirects stays redirected.                                             *)
(***************************************************************************)
EXTENDS Integers, Sequences

CONSTANTS
  Fds,      \* the descriptors a command can name
  Files,    \* what a descriptor may be open on
  Memory,   \* the buffer that collects a builtin's output in backquotes
  Closed    \* not open

VARIABLES
  dest,     \* where each descriptor leads
  saved,    \* for each command under way, innermost last: the descriptors
            \* it has redirected and where they led before
  lasting   \* the redirections being made are those of exec

vars == <<dest, saved, lasting>>

Init == dest \in [Fds -> Files \union {Closed}] /\ saved = <<>> /\ lasting \in BOOLEAN

Innermost == saved[Len(saved)]

(* A command begins, perhaps with some descriptors leading to memory.      *)
Begin(F) ==
  /\ saved' = Append(saved, [f \in F |-> dest[f]])
  /\ dest' = [f \in Fds |-> IF f \in F THEN Memory ELSE dest[f]]
  /\ lasting' = FALSE

Exec == lasting' = TRUE /\ UNCHANGED <<dest, saved>>

(* It redirects f, or gives it up; where f led is noted the first time.    *)
Noting(f) == [g \in DOMAIN Innermost \union {f} |->
                IF g \in DOMAIN Innermost THEN Innermost[g] ELSE dest[f]]
Redirect(f, d) ==
  /\ dest' = [dest EXCEPT ![f] = d]
  /\ IF lasting THEN UNCHANGED saved
     ELSE /\ saved # <<>>
          /\ saved' = [saved EXCEPT ![Len(saved)] = Noting(f)]
  /\ UNCHANGED lasting

(* The innermost command completes, or is abandoned.                       *)
Complete ==
  /\ saved # <<>>
  /\ dest' = [f \in Fds |-> IF f \in DOMAIN Innermost THEN Innermost[f] ELSE dest[f]]
  /\ saved' = SubSeq(saved, 1, Len(saved) - 1)
  /\ UNCHANGED lasting

(* A program is executed instead of the shell: nothing will be restored.   *)
Discard ==
  /\ saved' = [i \in DOMAIN saved |-> <<>>] /\ lasting' = TRUE
  /\ UNCHANGED dest

Next ==
  \/ \E F \in {{}, {1}} : Begin(F)
  \/ \E f \in Fds, d \in Files \union {Closed} : Redirect(f, d)
  \/ \E f, g \in Fds : Redirect(f, dest[g])
  \/ Exec \/ Complete \/ Discard

Spec == Init /\ [][Next]_vars
=============================================================================
