----------------------------- MODULE AshTraps -----------------------------
(***************************************************************************)
(* Signals and traps in ash (trap.c): the trap builtin, setsignal, onsig,  *)
(* dotrap, and what set, exec of a shell procedure and forkshell do to the *)
(* handlers.                                                               *)
(*                                                                         *)
(* One shell process is followed; when it forks, the child is.  A signal   *)
(* may arrive between any two steps.                                       *)
(***************************************************************************)
EXTENDS AshSignals, Integers, Sequences

CONSTANTS
  MAXSIG,        \* signals are 1 .. MAXSIG
  SIGINT,        \* the interrupt signal
  Quiet,         \* signals an interactive shell ignores (SIGQUIT, SIGTERM)
  Background,    \* signals a child in the background ignores (SIGINT, SIGQUIT)
  Tty,           \* signals job control ignores (SIGTSTP, SIGTTOU)
  MaxSent,       \* BOUND: signals sent in a run
  MaxNest,       \* BOUND: trap actions running inside one another
  BadOptions,    \* set may be given an illegal option after a legal one
  ShellProcs,    \* children may execute shell procedures
  StaleScan      \* a signal may arrive that dotrap's scan has already passed

Sigs == 1 .. MAXSIG

ASSUME TrapAssumption ==
  /\ MAXSIG \in Nat \ {0} /\ SIGINT \in Sigs
  /\ Quiet \subseteq Sigs \ {SIGINT} /\ Tty \subseteq Sigs \ ({SIGINT} \union Quiet)
  /\ Background \subseteq {SIGINT} \union Quiet
  /\ MaxSent \in Nat /\ MaxNest \in Nat
  /\ {BadOptions, ShellProcs, StaleScan} \subseteq BOOLEAN

VARIABLES
  trap,            \* trap[s]: NULL, the empty string or an action; 0 is exit
  sigmode,         \* what the shell believes it has told the kernel
  disp,            \* what the kernel does with the signal
  entry,           \* the signals ignored on entry to the shell
  gotsig,          \* signals whose trap has yet to run
  sigpending,      \* some signal has been received
  rootshell, iflag, jflag,
  is_interactive,  \* the value of iflag setinteractive has acted upon
  jobctl,          \* the value of jflag setjobctl has acted upon
  nojob,           \* HISTORY: in a FORK_NOJOB child of a shell under job control
  todo,            \* the loops over signals still to be run, in order
  pc,              \* what the shell is doing
  scan,            \* dotrap's loop index
  dots,            \* the trap actions being evaluated, innermost last
  sent             \* signals sent so far

flags == <<rootshell, iflag, jflag, is_interactive, jobctl, nojob>>
handlers == <<trap, sigmode, disp>>
vars == <<trap, sigmode, disp, entry, gotsig, sigpending, intpending,
          rootshell, iflag, jflag, is_interactive, jobctl, nojob,
          todo, pc, scan, dots, sent>>

Alive == pc \notin {"exited", "crashed"}

(* A loop that makes the change op to each signal of S, in ascending order.*)
Each(op, S) == IF S = {} THEN <<>> ELSE <<[op |-> op, sigs |-> S]>>
setinteractive(on) == IF on = is_interactive THEN <<>>
                      ELSE Each("set", {SIGINT} \union Quiet)
setjobctl(on) == IF on = jobctl \/ ~rootshell THEN <<>> ELSE Each("set", Tty)

Init ==
  /\ trap = [s \in 0 .. MAXSIG |-> "NULL"]
  /\ sigmode = [s \in Sigs |-> "unknown"]
  /\ entry \in SUBSET Sigs
  /\ disp = [s \in Sigs |-> IF s \in entry THEN "ign" ELSE "dfl"]
  /\ gotsig = [s \in Sigs |-> FALSE] /\ sigpending = FALSE /\ intpending = FALSE
  /\ rootshell = TRUE /\ iflag \in BOOLEAN /\ jflag \in BOOLEAN
  /\ (jflag => iflag)
  /\ is_interactive = iflag /\ jobctl = jflag      \* procargs
  /\ nojob = FALSE
  /\ todo = (IF iflag THEN Each("set", {SIGINT} \union Quiet) ELSE <<>>) \o
            (IF jflag THEN Each("set", Tty) ELSE <<>>)
  /\ pc = "start" /\ scan = 1 /\ dots = <<>> /\ sent = 0

----------------------------------------------------------------------------
(* setsignal.                                                              *)

(* The mode a signal is to have.                                           *)
Wanted(s) ==
  CASE trap[s] = "empty"  -> "IGN"
    [] trap[s] = "action" -> "CATCH"
    [] OTHER -> IF rootshell /\ iflag /\ s = SIGINT THEN "CATCH"
                ELSE IF rootshell /\ iflag /\ s \in Quiet THEN "IGN"
                ELSE IF rootshell /\ jflag /\ s \in Tty THEN "IGN"
                ELSE "DFL"
DispOf(mode) == CASE mode = "DFL" -> "dfl" [] mode = "CATCH" -> "catch" [] OTHER -> "ign"

(* The first loop has come to s, and what is left when s is done.          *)
Current(s) == s \in Head(todo).sigs /\ \A r \in Head(todo).sigs : s <= r
Remaining(s) == Each(Head(todo).op, Head(todo).sigs \ {s}) \o Tail(todo)

(* Held: the changes being made are inside INTOFF, which those of the trap *)
(* and set commands of the root shell are, those of exec are not.          *)
Held == todo # <<>> /\ rootshell /\ pc \notin {"start", "exec"}

(* A SIGINT that is not trapped: back to the command loop, or exit.        *)
InExit == \E d \in DOMAIN dots : dots[d].sig = 0
RaiseInt ==
  /\ intpending' = FALSE /\ todo' = <<>> /\ dots' = <<>>
  /\ pc' = IF rootshell /\ iflag /\ pc # "start" /\ ~InExit THEN "check" ELSE "exited"

(* The last of the changes is followed by INTON.                           *)
NextChange(s) ==
  IF Remaining(s) = <<>> /\ intpending THEN RaiseInt
  ELSE todo' = Remaining(s) /\ UNCHANGED <<intpending, pc, dots>>

(* The first time, the signal is ignored to learn what it was before.      *)
Probe(s) == IF disp[s] = "ign" THEN "HARD_IGN" ELSE "IGN"
setsignal_probe ==
  /\ Alive /\ todo # <<>> /\ Head(todo).op = "set"
  /\ \E s \in Sigs :
       /\ Current(s) /\ sigmode[s] = "unknown"
       /\ sigmode' = [sigmode EXCEPT ![s] = Probe(s)]
       /\ disp' = [disp EXCEPT ![s] = "ign"]
  /\ UNCHANGED <<trap, entry, gotsig, sigpending, intpending, flags, todo, pc, scan,
                 dots, sent>>

NewDisp_rootOnly(s) == IF rootshell THEN DispOf(Wanted(s)) ELSE disp[s] \* mutant
NewDisp(s) == DispOf(Wanted(s))
Fixed_never(mode) == FALSE                                        \* mutant
Fixed(mode) == mode = "HARD_IGN"
setsignal ==
  /\ Alive /\ todo # <<>> /\ Head(todo).op = "set"
  /\ \E s \in Sigs :
       /\ Current(s) /\ sigmode[s] # "unknown"
       /\ IF Fixed(sigmode[s]) \/ sigmode[s] = Wanted(s) THEN UNCHANGED <<sigmode, disp>>
          ELSE /\ sigmode' = [sigmode EXCEPT ![s] = Wanted(s)]
               /\ disp' = [disp EXCEPT ![s] = NewDisp(s)]
       /\ NextChange(s)
  /\ UNCHANGED <<trap, entry, gotsig, sigpending, flags, scan, sent>>

(* clear_traps, for one signal or exit: an action is removed, and the      *)
(* handler with it; an ignored signal stays ignored.                       *)
clear_traps ==
  /\ Alive /\ todo # <<>> /\ Head(todo).op = "clear"
  /\ \E s \in 0 .. MAXSIG :
       /\ Current(s)
       /\ IF trap[s] = "action"
          THEN /\ trap' = [trap EXCEPT ![s] = "NULL"]
               /\ todo' = Each("set", {s} \ {0}) \o Remaining(s)
               /\ UNCHANGED <<intpending, pc, dots>>
          ELSE NextChange(s) /\ UNCHANGED trap
  /\ UNCHANGED <<sigmode, disp, entry, gotsig, sigpending, flags, scan, sent>>

(* ignoresig, and the loop of trap.c's SHELLPROC ("keep").                 *)
ignoresig ==
  /\ Alive /\ todo # <<>> /\ Head(todo).op \in {"ignore", "keep"}
  /\ \E s \in Sigs :
       /\ Current(s)
       /\ sigmode' = IF Head(todo).op = "ignore" \/ sigmode[s] = "IGN"
                     THEN [sigmode EXCEPT ![s] = "HARD_IGN"] ELSE sigmode
       /\ disp' = IF Head(todo).op = "ignore" /\ sigmode[s] \notin {"IGN", "HARD_IGN"}
                  THEN [disp EXCEPT ![s] = "ign"] ELSE disp
       /\ NextChange(s)
  /\ UNCHANGED <<trap, entry, gotsig, sigpending, flags, scan, sent>>

----------------------------------------------------------------------------
(* Commands.  evaltree checks sigpending when one is finished.             *)

Ready == pc = "cmd" /\ todo = <<>>
Executing == pc = "exec" /\ todo = <<>>

(* A trap action whose text is freed while evalstring reads from it.       *)
Freed(s) == [d \in DOMAIN dots |->
               IF dots[d].sig = s THEN [dots[d] EXCEPT !.live = FALSE] ELSE dots[d]]

trapcmd(s, action) ==
  /\ Ready
  /\ trap' = [trap EXCEPT ![s] = action]
  /\ dots' = IF s = 0 THEN dots ELSE Freed(s)
  /\ todo' = IF s = 0 THEN <<>> ELSE Each("set", {s})
  /\ pc' = "check"
  /\ UNCHANGED <<sigmode, disp, entry, gotsig, sigpending, intpending, flags, scan, sent>>

(* set +-i +-j: the flags first, then the handlers.  A later illegal       *)
(* option makes the command fail in between.                               *)
setcmd(i, j, bad) ==
  /\ Ready /\ (bad => BadOptions)
  /\ iflag' = i /\ jflag' = j
  /\ IF bad THEN UNCHANGED <<is_interactive, jobctl, todo>>
     ELSE /\ todo' = setinteractive(i) \o setjobctl(j)
          /\ is_interactive' = i
          /\ jobctl' = IF rootshell THEN j ELSE jobctl
  /\ pc' = "check"
  /\ UNCHANGED <<handlers, entry, gotsig, sigpending, intpending, rootshell, nojob, scan,
                 dots, sent>>

(* exec with a program: the shell gives up its flags and their handlers,   *)
(* and is replaced, if it does not end in an error or in a ShellProc.      *)
execcmd ==
  /\ Ready
  /\ iflag' = FALSE /\ jflag' = FALSE /\ is_interactive' = FALSE
  /\ jobctl' = IF rootshell THEN FALSE ELSE jobctl
  /\ todo' = setinteractive(FALSE) \o setjobctl(FALSE)
  /\ pc' = "exec"
  /\ UNCHANGED <<handlers, entry, gotsig, sigpending, intpending, rootshell, nojob, scan,
                 dots, sent>>

shellexec ==
  /\ Executing /\ pc' = "exited"
  /\ UNCHANGED <<handlers, entry, gotsig, sigpending, intpending, flags, todo, scan, dots, sent>>

(* Any other command, failing or not.                                      *)
OtherCommand ==
  /\ Ready /\ pc' = "check"
  /\ UNCHANGED <<handlers, entry, gotsig, sigpending, intpending, flags, todo, scan, dots, sent>>

(* An error returns an interactive shell to its command loop, and ends the *)
(* exit trap.  (In any other shell it amounts to exitshell.)               *)
CommandFails ==
  /\ Ready /\ (InExit \/ (rootshell /\ iflag)) /\ dots' = <<>>
  /\ pc' = IF InExit THEN "exited" ELSE "check"
  /\ UNCHANGED <<handlers, entry, gotsig, sigpending, intpending, flags, todo, scan, sent>>

(* The child of forkshell.                                                 *)
Resets_notInteractive(mode) == IF mode = "BG"                     \* mutant
  THEN Each("ignore", Background) ELSE <<>>
Resets(mode) ==
  (IF rootshell /\ mode # "NOJOB" /\ jflag THEN Each("set", Tty)
   ELSE IF mode = "BG" THEN Each("ignore", Background) ELSE <<>>) \o
  (IF rootshell /\ iflag THEN Each("set", {SIGINT} \union Quiet) ELSE <<>>)
forkshell(mode) ==
  /\ Ready
  /\ rootshell' = FALSE /\ jobctl' = FALSE
  /\ nojob' = (nojob \/ (mode = "NOJOB" /\ rootshell /\ jflag))
  /\ todo' = Each("clear", 0 .. MAXSIG) \o Resets(mode)
  /\ dots' = <<>>                   \* the child does not return to them
  /\ UNCHANGED <<handlers, entry, gotsig, sigpending, intpending, iflag, jflag,
                 is_interactive, pc, scan, sent>>

(* A child, or an exec, that executes a shell procedure becomes a shell of *)
(* its own.                                                                *)
ShellProc ==
  /\ ShellProcs /\ ((Ready /\ ~rootshell) \/ Executing)
  /\ rootshell' = TRUE /\ iflag' = FALSE /\ jflag' = FALSE /\ jobctl' = FALSE
  /\ todo' = Each("clear", 0 .. MAXSIG) \o Each("keep", Sigs)
  /\ pc' = "check" /\ dots' = <<>>
  /\ UNCHANGED <<handlers, entry, gotsig, sigpending, intpending, is_interactive, nojob, scan,
                 sent>>

(* exitshell runs the exit trap, once, and never comes back.  (An exec     *)
(* that fails ends here.)                                                  *)
exitshell ==
  /\ Ready \/ Executing
  /\ IF trap[0] = "action"
     THEN /\ trap' = [trap EXCEPT ![0] = "NULL"]
          /\ dots' = <<[sig |-> 0, live |-> TRUE]>> /\ pc' = "cmd"
     ELSE pc' = "exited" /\ UNCHANGED <<trap, dots>>
  /\ UNCHANGED <<sigmode, disp, entry, gotsig, sigpending, intpending, flags, todo, scan, sent>>

----------------------------------------------------------------------------
(* dotrap.                                                                 *)

CheckSignals ==
  /\ pc \in {"start", "check"} /\ todo = <<>>
  /\ IF sigpending THEN pc' = "scan" /\ scan' = 1 ELSE pc' = "cmd" /\ UNCHANGED scan
  /\ UNCHANGED <<handlers, entry, gotsig, sigpending, intpending, flags, todo, dots, sent>>

(* The scan finds a signal and evaluates its action: evalstring(NULL) is   *)
(* the end of the shell.  Afterwards the scan starts over.                 *)
Resume_next == scan + 1                                           \* mutant
Resume == 1
dotrap_found ==
  /\ pc = "scan" /\ scan <= MAXSIG /\ gotsig[scan]
  /\ gotsig' = [gotsig EXCEPT ![scan] = FALSE]
  /\ CASE trap[scan] = "NULL"   -> pc' = "crashed" /\ UNCHANGED <<dots, scan>>
       [] trap[scan] = "empty"  -> scan' = Resume /\ UNCHANGED <<dots, pc>>
       [] OTHER -> /\ dots' = Append(dots, [sig |-> scan, live |-> TRUE])
                   /\ pc' = "cmd" /\ UNCHANGED scan
  /\ UNCHANGED <<handlers, entry, sigpending, intpending, flags, todo, sent>>

dotrap_next ==
  /\ pc = "scan" /\ scan <= MAXSIG /\ ~gotsig[scan] /\ scan' = scan + 1
  /\ UNCHANGED <<handlers, entry, gotsig, sigpending, intpending, flags, todo, pc, dots, sent>>

(* The action has been evaluated.                                          *)
dotrap_evaluated ==
  /\ Ready /\ dots # <<>>
  /\ dots' = SubSeq(dots, 1, Len(dots) - 1)
  /\ IF dots[Len(dots)].sig = 0 THEN pc' = "exited" /\ UNCHANGED scan
                                ELSE pc' = "scan" /\ scan' = Resume
  /\ UNCHANGED <<handlers, entry, gotsig, sigpending, intpending, flags, todo, sent>>

dotrap_done ==
  /\ pc = "scan" /\ scan > MAXSIG
  /\ sigpending' = FALSE /\ pc' = "cmd"
  /\ UNCHANGED <<handlers, entry, gotsig, intpending, flags, todo, scan, dots, sent>>

----------------------------------------------------------------------------
(* A signal is delivered.                                                  *)

onsig(s) ==
  IF s = SIGINT /\ trap[s] = "NULL"
  THEN /\ IF Held THEN intpending' = TRUE /\ UNCHANGED <<todo, pc, dots>> ELSE RaiseInt
       /\ UNCHANGED <<gotsig, sigpending>>
  ELSE /\ gotsig' = [gotsig EXCEPT ![s] = TRUE] /\ sigpending' = TRUE
       /\ UNCHANGED <<intpending, todo, pc, dots>>

Signal(s) ==
  /\ Alive /\ sent < MaxSent /\ Len(dots) < MaxNest
  /\ pc = "scan" /\ s < scan => StaleScan
  /\ sent' = sent + 1
  /\ CASE disp[s] = "catch" -> onsig(s)
       [] disp[s] = "ign"   -> UNCHANGED <<gotsig, sigpending, intpending, todo, pc, dots>>
       [] disp[s] = "dfl"   -> /\ pc' = IF s \in Tty THEN pc ELSE "exited"
                               /\ UNCHANGED <<gotsig, sigpending, intpending, todo, dots>>
  /\ UNCHANGED <<handlers, entry, flags, scan>>

----------------------------------------------------------------------------
Change == setsignal_probe \/ setsignal \/ clear_traps \/ ignoresig

Command ==
  \/ \E s \in 0 .. MAXSIG, a \in {"NULL", "empty", "action"} : trapcmd(s, a)
  \/ \E i, j, bad \in BOOLEAN : setcmd(i, j, bad)
  \/ \E m \in {"FG", "BG", "NOJOB"} : forkshell(m)
  \/ OtherCommand \/ CommandFails \/ execcmd \/ shellexec \/ ShellProc \/ exitshell

dotrap == CheckSignals \/ dotrap_found \/ dotrap_next \/ dotrap_done

Next == \/ Change \/ Command \/ dotrap \/ dotrap_evaluated
        \/ \E s \in Sigs : Signal(s)

Spec == Init /\ [][Next]_vars

(* The shell keeps running, and execs what it is to exec; a trap action    *)
(* may go on for ever, but every process comes to the end of a command     *)
(* that forks no further one.                                              *)
FairSpec == /\ Spec /\ WF_vars(Change) /\ WF_vars(dotrap) /\ WF_vars(shellexec)
            /\ SF_vars(OtherCommand)

----------------------------------------------------------------------------
TypeOK ==
  /\ trap \in [0 .. MAXSIG -> {"NULL", "empty", "action"}]
  /\ sigmode \in [Sigs -> {"unknown", "DFL", "CATCH", "IGN", "HARD_IGN"}]
  /\ disp \in [Sigs -> {"dfl", "catch", "ign"}] /\ entry \subseteq Sigs
  /\ gotsig \in [Sigs -> BOOLEAN]
  /\ {sigpending, intpending, rootshell, iflag, jflag, is_interactive, jobctl, nojob}
        \subseteq BOOLEAN
  /\ todo \in Seq([op : {"set", "clear", "ignore", "keep"}, sigs : SUBSET (0 .. MAXSIG)])
  /\ pc \in {"start", "cmd", "exec", "check", "scan", "exited", "crashed"}
  /\ scan \in 1 .. MAXSIG + 1
  /\ dots \in Seq([sig : 0 .. MAXSIG, live : BOOLEAN])
  /\ sent \in 0 .. MaxSent

AtRest == Alive /\ todo = <<>>

(* What the shell believes of a signal's handler is what the kernel has,   *)
(* across trap, set, fork, a shell procedure and a SIGINT amid them.       *)
ModeAgrees ==
  \A s \in Sigs : sigmode[s] # "unknown" /\ (AtRest \/ sigmode[s] = "HARD_IGN")
                 => disp[s] = DispOf(sigmode[s])

(* The handler in force is the one the traps and the flags call for, in a  *)
(* subshell too and on the way to an exec, whatever order they were        *)
(* changed in.  (A command substitution of a shell under job control, and  *)
(* the children of one, go on ignoring SIGTSTP; no other child does.)      *)
WantedInForce ==
  AtRest => \A s \in Sigs :
    \/ sigmode[s] \in {Wanted(s), "HARD_IGN"}
    \/ sigmode[s] = "unknown" /\ Wanted(s) = "DFL"
    \/ s \in Tty /\ nojob

(* A signal ignored on entry to the shell is ignored for good.             *)
EntryIgnored == \A s \in entry : disp[s] = "ign"

(* A signal whose trap has yet to run is announced by sigpending, without  *)
(* which nobody looks for it.                                              *)
Announced == \A s \in Sigs : gotsig[s] => sigpending

(* The trap of every signal received is run, unless the trap is taken back *)
(* or the shell exits first.                                               *)
TrapRuns == \A s \in Sigs :
  gotsig[s] /\ trap[s] = "action" ~> ~gotsig[s] \/ trap[s] # "action" \/ ~Alive
=============================================================================
