--------------------------- MODULE AshInterrupts ---------------------------
(***************************************************************************)
(* Interrupts and exceptions in ash (error.c, error.h) and the handlers in *)
(* main.c and eval.c: INTOFF and INTON nest by counting in suppressint, a  *)
(* SIGINT meanwhile is held in intpending, and raise longjmps to the       *)
(* innermost handler.                                                      *)
(*                                                                         *)
(* The C stack is abstracted to the frames that matter: critical sections  *)
(* and functions with a setjmp.  The shell is an interactive root shell    *)
(* without a trap on SIGINT, which may arrive between any two steps.       *)
(*                                                                         *)
(* AshTraps has the other signals.  What both modules define, vars, Init   *)
(* and so on, has Int before its name here: AshSignalsProofs extends both. *)
(***************************************************************************)
EXTENDS AshSignals, Integers, Sequences, FiniteSets

CONSTANTS
  MaxDepth,         \* BOUND: frames on the stack
  BackquoteErrors   \* a builtin run by a command substitution may fail

ASSUME InterruptsAssumption == MaxDepth \in Nat /\ BackquoteErrors \in BOOLEAN

(* expbackq's INTOFF section is a "backquote" until its command has run or *)
(* been forked and "reading" thereafter; a "wait" is that of waitforjob.   *)
(* "eval" stands for the builtins eval and ".", which evaluate commands;   *)
(* "bltin" for bltin and exec, which do not.                               *)
Offs     == {"section", "backquote", "reading", "wait"}
Catchers == {"builtin", "bltin", "eval", "function"}
Frame    == [kind : Offs \union Catchers, savehandler : Nat]

VARIABLES
  suppressint,   \* INTOFFs that have not met their INTON
  stack,         \* the frames, innermost last
  handler,       \* the frame raise jumps to; 0 is main's
  exception      \* the exception the handler is to deal with, or "none"

IntVars == <<suppressint, intpending, stack, handler, exception>>

IntInit == /\ suppressint = 0 /\ intpending = FALSE
           /\ stack = <<>> /\ handler = 0 /\ exception = "none"

Running == exception = "none"
Kind == IF stack = <<>> THEN "main" ELSE stack[Len(stack)].kind
Evaluates == Kind \in {"main", "eval", "function"}
Room == Len(stack) < MaxDepth
Pop(s) == SubSeq(s, 1, Len(s) - 1)
Sections == {i \in DOMAIN stack : stack[i].kind \in Offs}

----------------------------------------------------------------------------
(* raise: what lies above the handler's frame is gone.                     *)
raise(e, h) == /\ exception' = e /\ handler' = h
               /\ stack' = SubSeq(stack, 1, h)

(* onint, given the values suppressint and handler have by then.           *)
onint(held, h) ==
  IF held # 0 THEN intpending' = TRUE /\ UNCHANGED <<exception, stack, handler>>
              ELSE intpending' = FALSE /\ raise("EXINT", h)

SigInt == onint(suppressint, handler) /\ UNCHANGED suppressint

(* A regular builtin is being run by expbackq.                             *)
InBackquotes == /\ handler > 1 /\ stack[handler].kind = "builtin"
                /\ stack[handler - 1].kind = "reading"

(* error: a SIGINT that is held is forgotten.                              *)
error ==
  /\ Running
  /\ InBackquotes => BackquoteErrors
  /\ intpending' = FALSE /\ suppressint' = suppressint + 1
  /\ raise("EXERROR", handler)

(* Where the code enters a critical section: builtins and the shell itself *)
(* do anywhere, and sections nest; words are expanded before a command is  *)
(* run, also before one inside backquotes; jobs are waited for with        *)
(* interrupts already off.                                                 *)
MayEnter(kind) ==
  \/ kind = "section" /\ Kind \notin {"backquote", "wait"}
  \/ kind = "backquote" /\ (Evaluates \/ Kind = "backquote")
  \/ kind = "wait" /\ Kind \in {"section", "reading"}
INTOFF(kind) ==
  /\ Running /\ Room /\ MayEnter(kind)
  /\ suppressint' = suppressint + 1
  /\ stack' = Append(stack, [kind |-> kind, savehandler |-> 0])
  /\ UNCHANGED <<intpending, handler, exception>>

Delivers_early(n) == n <= 1 /\ intpending                         \* mutant
Delivers(n) == n = 0 /\ intpending
INTON ==
  /\ Running /\ Kind \in {"section", "reading"}
  /\ suppressint' = suppressint - 1
  /\ IF Delivers(suppressint')
     THEN intpending' = FALSE /\ raise("EXINT", handler)
     ELSE stack' = Pop(stack) /\ UNCHANGED <<intpending, handler, exception>>

(* waitforjob drops a SIGINT that came while it waited, and sends itself   *)
(* one if the job died of it.                                              *)
waitforjob(died) ==
  /\ Running /\ Kind = "wait"
  /\ suppressint' = suppressint - 1
  /\ IF suppressint = 1 /\ died
     THEN intpending' = FALSE /\ raise("EXINT", handler)
     ELSE /\ intpending' = died /\ stack' = Pop(stack)
          /\ UNCHANGED <<handler, exception>>

(* evalcommand runs a function or a builtin behind a handler of its own.   *)
(* Inside backquotes only builtins run in this process, eval and . apart.  *)
Evaluated == IF Kind = "backquote" THEN [stack EXCEPT ![Len(stack)].kind = "reading"]
                                   ELSE stack
MayCall(kind) == Evaluates \/ (Kind = "backquote" /\ kind \in {"builtin", "bltin"})
Call(kind) ==
  /\ Running /\ Room /\ MayCall(kind)
  /\ stack' = Append(Evaluated, [kind |-> kind, savehandler |-> handler])
  /\ handler' = Len(stack) + 1
  /\ UNCHANGED <<suppressint, intpending, exception>>

(* Any other command inside backquotes is forked.                          *)
evalbackcmd ==
  /\ Running /\ Kind = "backquote" /\ stack' = Evaluated
  /\ UNCHANGED <<suppressint, intpending, handler, exception>>

Restored_none(f) == handler                                       \* mutant
Restored(f) == f.savehandler
Return ==
  /\ Running /\ Kind \in Catchers
  /\ stack' = Pop(stack) /\ handler' = Restored(stack[Len(stack)])
  /\ UNCHANGED <<suppressint, intpending, exception>>

----------------------------------------------------------------------------
(* The handlers.                                                           *)

(* Main's: FORCEINTON, and the next command.                               *)
MainHandler ==
  /\ ~Running /\ handler = 0
  /\ suppressint' = 0 /\ intpending' = FALSE
  /\ exception' = IF intpending THEN "EXINT" ELSE "none"
  /\ UNCHANGED <<stack, handler>>

(* A regular builtin's error ends here; everything else is passed on.      *)
Swallows_all(kind, e) == kind = "builtin"                         \* mutant
Swallows(kind, e) == kind = "builtin" /\ e = "EXERROR"

PassOn ==
  /\ ~Running /\ handler # 0 /\ ~Swallows(Kind, exception)
  /\ raise(exception, Restored(stack[handler]))
  /\ UNCHANGED <<suppressint, intpending>>

Forced_keep(n) == n                                               \* mutant
Forced(n) == 0                    \* FORCEINTON
Swallow ==
  /\ ~Running /\ handler # 0 /\ Swallows(Kind, exception)
  /\ suppressint' = Forced(suppressint) /\ intpending' = FALSE
  /\ IF intpending THEN raise("EXINT", Restored(stack[handler]))
     ELSE /\ exception' = "none" /\ stack' = Pop(stack)
          /\ handler' = Restored(stack[handler])

----------------------------------------------------------------------------
IntNext ==
  \/ SigInt \/ error \/ INTON \/ evalbackcmd \/ Return
  \/ \E k \in Offs : INTOFF(k)
  \/ \E k \in Catchers : Call(k)
  \/ \E d \in BOOLEAN : waitforjob(d)
  \/ MainHandler \/ PassOn \/ Swallow

IntSpec == IntInit /\ [][IntNext]_IntVars

----------------------------------------------------------------------------
IntTypeOK ==
  /\ suppressint \in Int /\ intpending \in BOOLEAN
  /\ stack \in Seq(Frame) /\ handler \in Nat
  /\ exception \in {"none", "EXINT", "EXERROR"}

(* The count of INTOFFs is the number of critical sections being executed, *)
(* however they and the handlers nest and whatever was raised before.      *)
CountIsDepth == Running => suppressint = Cardinality(Sections)

(* A SIGINT is not left pending when nothing holds it any more.            *)
PendingIsHeld == Running /\ intpending => suppressint # 0

(* An exception goes to the innermost function waiting for one, never to   *)
(* one that has returned.                                                  *)
HandlerIsInnermost ==
  /\ handler \in 0 .. Len(stack)
  /\ handler # 0 => stack[handler].kind \in Catchers
  /\ \A i \in DOMAIN stack : i > handler => stack[i].kind \in Offs

(* An interrupt abandons every command up to the main loop: no handler on  *)
(* the way lets the shell go on.                                           *)
InterruptReachesMain ==
  [][exception = "EXINT" /\ exception' # "EXINT" => stack = <<>> /\ handler = 0]_IntVars

(* An interrupt cuts no critical section short: none is being executed,    *)
(* unless it is the outermost one, at its INTON.                           *)
NoSectionCut ==
  [][Running /\ exception' = "EXINT" =>
       Sections \subseteq (IF suppressint' = suppressint THEN {} ELSE {Len(stack)})]_IntVars
=============================================================================
