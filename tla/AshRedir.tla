----------------------------- MODULE AshRedir -----------------------------
(***************************************************************************)
(* Redirection in ash (redir.c): redirect moves the descriptors a command  *)
(* redirects out of the way and popredir moves them back, also when an     *)
(* error or an interrupt makes main's reset unwind every command at once.  *)
(*                                                                         *)
(* The shell is interactive.  SIGINT may arrive between any two steps that *)
(* INTOFF does not hold together.  exec in backquotes is left out, and so  *)
(* is a fork that fails in openhere, where both ends of the pipe stay open.*)
(***************************************************************************)
EXTENDS Integers, Sequences, FiniteSets

CONSTANTS
  Named,          \* descriptors 0 .. Named-1 can be redirected; 10 in the code
  Limit,          \* the process may have descriptors 0 .. Limit-1
  Files,          \* what descriptors may be open on
  Memory,         \* memout, which collects a builtin's output in backquotes
  Closed,         \* not open
  MaxNest,        \* BOUND: redirected commands inside one another
  PopInterrupts   \* SIGINT may arrive in popredir where it is not held

EMPTY  == -2      \* not redirected by this command
CLOSED == -1      \* redirected, and not open before

ASSUME RedirAssumption ==
  /\ Named \in Nat \ {0, 1} /\ Limit \in Nat /\ Limit >= Named /\ MaxNest \in Nat
  /\ Memory # Closed /\ {Memory, Closed} \intersect Files = {}
  /\ PopInterrupts \in BOOLEAN

VARIABLES
  fds,        \* the process's descriptors
  redirlist,  \* a frame for each redirected command, innermost last
  pc,         \* what the shell is doing
  fd,         \* the descriptor being redirected or restored
  push,       \* redirect was called with REDIR_PUSH
  memory,     \* descriptors whose output goes to memout
  suppress,   \* INTOFF
  resetting   \* popredir was called by reset

vars == <<fds, redirlist, pc, fd, push, memory, suppress, resetting>>

Fds   == 0 .. Named - 1
All   == 0 .. Limit - 1
Slots == Named .. Limit - 1

(* "compound" stands for a compound command with redirections and for the  *)
(* builtins eval and "."; the builtins of the other kinds run no commands. *)
Kinds == {"compound", "function", "builtin", "backquote"}
Frame == [renamed : [Fds -> {EMPTY, CLOSED} \union Slots], kind : Kinds]

Init ==
  /\ fds \in [All -> Files \union {Closed}] /\ \A f \in Slots : fds[f] = Closed
  /\ redirlist = <<>> /\ pc = "run" /\ fd = 0 /\ push = FALSE /\ memory = {}
  /\ suppress = FALSE /\ resetting = FALSE

Top == redirlist[Len(redirlist)]
Old(f) == Top.renamed[f]
Free(f) == fds[f] = Closed

----------------------------------------------------------------------------
(* redirect.                                                               *)

(* A command with redirections to be undone, and one without (exec).       *)
Evaluates == redirlist # <<>> => Top.kind \in {"compound", "function"}

redirect(kind) ==
  /\ pc = "run" /\ Evaluates /\ Len(redirlist) < MaxNest
  /\ redirlist' = Append(redirlist, [renamed |-> [f \in Fds |-> EMPTY], kind |-> kind])
  /\ push' = TRUE /\ memory' = IF kind = "backquote" THEN {1} ELSE {}
  /\ pc' = "redirect"
  /\ UNCHANGED <<fds, fd, suppress, resetting>>

exec ==
  /\ pc = "run" /\ Evaluates
  /\ push' = FALSE /\ memory' = {} /\ pc' = "redirect"
  /\ UNCHANGED <<fds, redirlist, fd, suppress, resetting>>

(* A child about to execute a program: clearredir, then its redirections.  *)
Cleared_kept == redirlist                                         \* mutant
Cleared == [i \in DOMAIN redirlist |->
              [redirlist[i] EXCEPT !.renamed = [f \in Fds |-> EMPTY]]]

clearredir ==
  /\ pc = "run" /\ Evaluates
  /\ fds' = [f \in All |->
       IF \E i \in DOMAIN redirlist, g \in Fds : redirlist[i].renamed[g] = f
       THEN Closed ELSE fds[f]]
  /\ redirlist' = Cleared
  /\ push' = FALSE /\ memory' = {} /\ pc' = "program"
  /\ UNCHANGED <<fd, suppress, resetting>>

(* copyfd(f, 10): the lowest free descriptor above the named ones.         *)
Base == Named
copyfd(slot) == /\ slot \in Base .. Limit - 1 /\ Free(slot)
                /\ \A s \in Base .. slot - 1 : ~Free(s)

MustSave_always(f) == push                                        \* mutant
MustSave(f) == push /\ Old(f) = EMPTY
Saved(f, slot) == redirlist' = [redirlist EXCEPT ![Len(redirlist)].renamed[f] = slot]

Renamable == pc \in {"redirect", "program"}

(* With openredirect's memory[fd] = 0, as nothing reads it in between.     *)
save(f) ==
  /\ Renamable /\ fd' = f /\ memory' = memory \ {f}
  /\ pc' = IF pc = "program" THEN "openprogram" ELSE "open"
  /\ \/ /\ MustSave(f) /\ ~Free(f)
        /\ \E slot \in All :
             /\ copyfd(slot) /\ Saved(f, slot)
             /\ fds' = [fds EXCEPT ![slot] = fds[f], ![f] = Closed]
     \/ /\ MustSave(f) /\ Free(f)
        /\ Saved(f, CLOSED) /\ UNCHANGED fds
     \/ /\ ~MustSave(f)
        /\ fds' = [fds EXCEPT ![f] = Closed] /\ UNCHANGED redirlist
  /\ UNCHANGED <<push, suppress, resetting>>

(* error: with interrupts held from then on; a child exits instead.        *)
error ==
  /\ pc' = IF pc \in {"program", "openprogram"} THEN "exited" ELSE "reset"
  /\ suppress' = TRUE
  /\ UNCHANGED <<redirlist, fd, push, memory, resetting>>

OutOfDescriptors ==
  /\ Renamable /\ UNCHANGED fds
  /\ \E f \in Fds : MustSave(f) /\ ~Free(f) /\ \A slot \in Slots : ~Free(slot)
  /\ error

(* openredirect, for the kinds of redirection.  What open or pipe returns  *)
(* is not above fd, which is closed, and is moved there.                   *)
Opening == pc \in {"open", "openprogram"}
Opened == /\ pc' = IF pc = "open" THEN "redirect" ELSE "program"
          /\ UNCHANGED <<redirlist, fd, push, suppress, resetting>>

(* A file, or the pipe that a here document has been written to.           *)
openredirect_file(file) ==
  /\ Opening /\ Opened
  /\ fds' = [fds EXCEPT ![fd] = file] /\ UNCHANGED memory

openredirect_dup(g) ==
  /\ Opening /\ Opened
  /\ IF g \in memory THEN memory' = memory \union {fd} /\ UNCHANGED fds
     ELSE fds' = [fds EXCEPT ![fd] = fds[g]] /\ UNCHANGED memory

openredirect_close ==
  /\ Opening /\ Opened /\ UNCHANGED <<fds, memory>>

(* The file cannot be opened, or there is no pipe for a here document.     *)
CannotOpen == Opening /\ error /\ UNCHANGED fds

Redirected ==
  /\ pc = "redirect" /\ pc' = "run"
  /\ UNCHANGED <<fds, redirlist, fd, push, memory, suppress, resetting>>

----------------------------------------------------------------------------
(* popredir.                                                               *)

(* The innermost command completes.  Only a function restores the          *)
(* descriptors with interrupts held.                                       *)
Complete ==
  /\ pc = "run" /\ redirlist # <<>>
  /\ pc' = "pop" /\ fd' = 0 /\ memory' = {} /\ suppress' = (Top.kind = "function")
  /\ UNCHANGED <<fds, redirlist, push, resetting>>

(* The command fails, and nothing catches the error short of main.         *)
Fails == pc = "run" /\ error /\ UNCHANGED fds

popredir_close ==
  /\ pc = "pop" /\ fd < Named
  /\ IF Old(fd) = EMPTY THEN fd' = fd + 1 /\ UNCHANGED <<fds, pc>>
     ELSE /\ fds' = [fds EXCEPT ![fd] = Closed]
          /\ IF Old(fd) = CLOSED THEN fd' = fd + 1 /\ UNCHANGED pc
                                 ELSE pc' = "popcopy" /\ UNCHANGED fd
  /\ UNCHANGED <<redirlist, push, memory, suppress, resetting>>

popredir_copy ==
  /\ pc = "popcopy" /\ pc' = "popdrop"
  /\ fds' = [fds EXCEPT ![fd] = fds[Old(fd)]]
  /\ UNCHANGED <<redirlist, fd, push, memory, suppress, resetting>>

Dropped_not == fds                                                \* mutant
Dropped == [fds EXCEPT ![Old(fd)] = Closed]
popredir_drop ==
  /\ pc = "popdrop" /\ pc' = "pop" /\ fds' = Dropped /\ fd' = fd + 1
  /\ UNCHANGED <<redirlist, push, memory, suppress, resetting>>

popredir_done ==
  /\ pc = "pop" /\ fd = Named
  /\ redirlist' = SubSeq(redirlist, 1, Len(redirlist) - 1) /\ fd' = 0
  /\ IF resetting THEN pc' = "reset" /\ UNCHANGED suppress
                  ELSE pc' = "run" /\ suppress' = FALSE
  /\ UNCHANGED <<fds, push, memory, resetting>>

(* reset, called by main's handler before its FORCEINTON.                  *)
reset ==
  /\ pc = "reset" /\ fd' = 0 /\ memory' = {}
  /\ IF redirlist = <<>> THEN pc' = "run" /\ resetting' = FALSE /\ suppress' = FALSE
                         ELSE pc' = "pop" /\ resetting' = TRUE /\ UNCHANGED suppress
  /\ UNCHANGED <<fds, redirlist, push>>

Popping == pc \in {"pop", "popcopy", "popdrop"}

(* SIGINT raises EXINT wherever it is not held.                            *)
onint ==
  /\ ~suppress /\ pc \notin {"program", "openprogram", "exited"}
  /\ Popping => PopInterrupts
  /\ pc' = "reset"
  /\ UNCHANGED <<fds, redirlist, fd, push, memory, suppress, resetting>>

----------------------------------------------------------------------------
openredirect ==
  \/ \E file \in Files : openredirect_file(file)
  \/ \E g \in Fds : openredirect_dup(g)
  \/ openredirect_close \/ CannotOpen

popredir == popredir_close \/ popredir_copy \/ popredir_drop \/ popredir_done

Next ==
  \/ \E k \in Kinds : redirect(k)
  \/ \E f \in Fds : save(f)
  \/ exec \/ clearredir \/ OutOfDescriptors \/ openredirect \/ Redirected
  \/ Complete \/ Fails \/ popredir \/ reset \/ onint

Spec == Init /\ [][Next]_vars

----------------------------------------------------------------------------
(* Properties.                                                             *)

(* The variables keep their types; a saved descriptor is above the ones a  *)
(* command can name.                                                       *)
TypeOK ==
  /\ fds \in [All -> Files \union {Closed}] /\ redirlist \in Seq(Frame)
  /\ pc \in {"run", "redirect", "open", "pop", "popcopy", "popdrop", "reset",
             "program", "openprogram", "exited"}
  /\ fd \in 0 .. Named /\ memory \subseteq Fds
  /\ {push, suppress, resetting} \subseteq BOOLEAN

(* Frame i has yet to restore f from a saved descriptor.                   *)
Pending(i, f) ==
  /\ redirlist[i].renamed[f] \in Slots
  /\ ~(Popping /\ i = Len(redirlist) /\ f < fd)

(* Whatever interrupts it, the shell never restores a descriptor from one  *)
(* that is closed (popredir of a frame whose copies are still open).       *)
SavedAlive ==
  \A i \in DOMAIN redirlist, f \in Fds :
    Pending(i, f) => ~Free(redirlist[i].renamed[f])

(* A descriptor above the named ones is open only as the one copy some     *)
(* frame has yet to restore: redirect and popredir leave none behind, no   *)
(* two frames share one, and a program that is executed inherits none.     *)
NoLeak ==
  \A slot \in Slots : ~Free(slot) =>
    Cardinality({c \in (DOMAIN redirlist) \X Fds :
                   Pending(c[1], c[2]) /\ redirlist[c[1]].renamed[c[2]] = slot}) = 1

(* The refinement.  What is in popredir's hands counts as restored.        *)
Restored(f) ==
  CASE Old(f) = EMPTY \/ f < fd -> fds[f]
    [] Old(f) = CLOSED /\ f >= fd -> Closed
    [] OTHER -> fds[Old(f)]

Visible(f) ==
  CASE Popping -> Restored(f)
    [] f \in memory -> Memory
    [] OTHER -> fds[f]

Before(frame) ==
  [f \in {g \in Fds : frame.renamed[g] # EMPTY}
           \union (IF frame.kind = "backquote" THEN {1} ELSE {}) |->
     CASE frame.renamed[f] = EMPTY  -> fds[f]
       [] frame.renamed[f] = CLOSED -> Closed
       [] OTHER                     -> fds[frame.renamed[f]]]

UnderWay == IF Popping THEN SubSeq(redirlist, 1, Len(redirlist) - 1) ELSE redirlist

R == INSTANCE Redirections WITH
       dest    <- [f \in Fds |-> Visible(f)],
       saved   <- [i \in DOMAIN UnderWay |-> Before(UnderWay[i])],
       lasting <- ~push

(* Commands see the redirections they asked for and no others, and what    *)
(* they redirected is as before when they complete, fail or are            *)
(* interrupted (redirect, popredir and RESET implement Redirections).      *)
Implements == R!Spec
=============================================================================
