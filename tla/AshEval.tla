------------------------------ MODULE AshEval ------------------------------
(***************************************************************************)
(* The evaluation of parse trees in ash (eval.c), with the loops that read *)
(* commands in main.c and trap.c.  break, continue and return set evalskip *)
(* and the functions that evaluate return one by one until one of them     *)
(* finds that it is the one meant; the flags EV_EXIT and EV_TESTED travel  *)
(* with the calls.  Control says what should come of it.  Texts are read   *)
(* from a stack of files and strings (input.c) that calls push and pop.    *)
(*                                                                         *)
(* The C stack is a sequence of calls of evaltree that evaluate something  *)
(* in turn.  One process is followed: at a fork either side.               *)
(***************************************************************************)
EXTENDS Integers, Sequences, FiniteSets, FiniteSetsExt

CONSTANTS
  Kinds,       \* the constructs and texts to evaluate
  MaxDepth,    \* BOUND: calls of evaltree inside one another
  MaxSkip,     \* BOUND: the argument of break and continue
  Allowed      \* what passing runs leave out, see Gates

(* "lines": a command follows on a later line of a text after one that set *)
(* evalskip.  "backquote": break or return inside backquotes.  "trap": a   *)
(* trap's action while commands are skipped.  "trapstatus": an action with *)
(* a status of its own.  "test": return in the condition of a loop.        *)
(* "lc": an error in commands that a regular builtin (lc, hash) evaluates, *)
(* with loops, functions, forks or texts on the way.                       *)
(* "empty": a subshell without a command, which the parser lets pass.      *)
Gates == {"lines", "backquote", "trap", "trapstatus", "test", "lc", "empty"}

ASSUME EvalAssumption ==
  /\ MaxDepth \in Nat /\ MaxSkip \in Nat \ {0} /\ Allowed \subseteq Gates

EXIT_STATUS == {0, 1}
SKIPBREAK == 1
SKIPCONT  == 2
SKIPFUNC  == 3

(* semi is NSEMI, and so on; eval stands for evalstring and cmdloop in     *)
(* eval, "." and files of functions, trap for the one in dotrap, lc for a  *)
(* regular builtin that evaluates; process is a child of evalpipe,         *)
(* evalbackcmd or evalcommand.                                             *)
Loops == {"while", "until", "for"}
Texts == {"eval", "trap"}
Forks == {"subshell", "background", "process"}

(* exit and tested are the flags evaltree was called with; status is       *)
(* evalloop's variable, or exitstatus when dotrap began.                   *)
Call == [kind : Kinds, at : {"first", "second"}, last : EXIT_STATUS,
         exit : BOOLEAN, tested : BOOLEAN]

VARIABLES
  evalskip, skipcount, loopnest, funcnest, exitstatus, eflag,   \* as in eval.c
  parsefiles,  \* input.c: entries above basepf
  stack,    \* calls of evaltree, innermost last; empty in main's cmdloop
  pc        \* "call": evaltree begins; "expanded": words have set evalskip;
            \* "out": it is at out; "back": it has returned; "exited"

skips == <<evalskip, skipcount>>
nests == <<loopnest, funcnest>>
vars  == <<skips, nests, exitstatus, eflag, parsefiles, stack, pc>>

Init == /\ evalskip = 0 /\ skipcount = 0 /\ loopnest = 0 /\ funcnest = 0
        /\ exitstatus = 0 /\ eflag = FALSE /\ parsefiles = 0 /\ stack = <<>> /\ pc = "call"

Top == stack[Len(stack)]
Below == SubSeq(stack, 1, Len(stack) - 1)
Child == \E i \in DOMAIN stack : stack[i].kind \in Forks

----------------------------------------------------------------------------
(* The flags of the call that f makes now.                                 *)
Passes(f) == \/ f.kind \in {"case", "redir"}
             \/ f.kind \in {"semi", "and", "or", "if"} /\ f.at = "second"
EvExit == stack # <<>> /\ (Top.kind \in Forks \/ (Passes(Top) /\ Top.exit))
EvTested ==
  /\ stack # <<>>
  /\ \/ Top.at = "first" /\ Top.kind \in {"and", "or", "if", "while", "until"}
     \/ Passes(Top) /\ Top.tested
     \/ Top.kind = "subshell" /\ Top.tested

(* Once its words are expanded only evalfor and evalcase look at evalskip; *)
(* any other command is evaluated whatever the backquotes in them did.     *)
Evaluates == pc = "call" \/ (pc = "expanded" /\ "backquote" \in Allowed)

(* A simple command that evaluates nothing: a program, a builtin, one that *)
(* is not found, a definition of a function.                               *)
Done(s) == exitstatus' = s /\ pc' = "out" /\ UNCHANGED <<skips, nests, eflag, parsefiles, stack>>
evalcommand(s) == Evaluates /\ Done(s)

setcmd == /\ Evaluates /\ eflag' = ~eflag /\ exitstatus' = 0 /\ pc' = "out"
          /\ UNCHANGED <<skips, nests, parsefiles, stack>>

Clamped(n) == Min({n, loopnest})
Skipping(kind, n) == evalskip' = kind /\ skipcount' = n
breakcmd(kind, n) ==
  /\ Evaluates /\ exitstatus' = 0 /\ pc' = "out"
  /\ IF Clamped(n) > 0 THEN Skipping(kind, Clamped(n)) ELSE UNCHANGED skips
  /\ UNCHANGED <<nests, eflag, parsefiles, stack>>

(* Loops of the function whose condition is being evaluated keep the       *)
(* status of their last body.                                              *)
InTest == \E i \in DOMAIN stack : /\ stack[i].kind \in {"while", "until"} /\ stack[i].at = "first"
                                  /\ \A j \in i + 1 .. Len(stack) : stack[j].kind # "function"
returncmd(s) ==
  /\ Evaluates /\ exitstatus' = s /\ pc' = "out"
  /\ (funcnest > 0 /\ InTest) => "test" \in Allowed
  /\ IF funcnest > 0 THEN Skipping(SKIPFUNC, 1) ELSE UNCHANGED skips
  /\ UNCHANGED <<nests, eflag, parsefiles, stack>>

(* Builtins in backquotes run in this process, so they concern the loops   *)
(* and the function around the command whose words are being expanded.     *)
evalbackcmd_break(kind, n) ==
  /\ pc = "call" /\ Clamped(n) > 0 /\ Skipping(kind, Clamped(n)) /\ pc' = "expanded"
  /\ exitstatus' = 0 /\ UNCHANGED <<nests, eflag, parsefiles, stack>>
evalbackcmd_return(s) ==
  /\ pc = "call" /\ funcnest > 0 /\ Skipping(SKIPFUNC, 1) /\ pc' = "expanded"
  /\ InTest => "test" \in Allowed
  /\ exitstatus' = s /\ UNCHANGED <<nests, eflag, parsefiles, stack>>

(* evalfor and evalcase find evalskip set after expansion.                 *)
NotBegun == /\ pc = "expanded" /\ pc' = "out"
            /\ UNCHANGED <<skips, nests, exitstatus, eflag, parsefiles, stack>>

Entered(kind) == [kind |-> kind, at |-> IF kind = "for" THEN "second" ELSE "first",
                  last |-> 0, exit |-> EvExit, tested |-> EvTested /\ kind # "background"]
Evaluating(kind) == Len(stack) < MaxDepth /\ pc' = "call" /\ stack' = Append(stack, Entered(kind))

(* The text being read is on top; the end of one is popped, and an error   *)
(* that main handles, or a fork, drops all.                                *)
pushfile == parsefiles' = parsefiles + 1
popfile  == parsefiles' = parsefiles - 1
popallfiles == parsefiles' = 0

(* Compound commands, functions, and builtins that evaluate.               *)
evaltree(kind) ==
  /\ Evaluates /\ kind \notin Forks \union {"trap"} /\ Evaluating(kind)
  /\ loopnest' = IF kind \in Loops THEN loopnest + 1 ELSE loopnest
  /\ funcnest' = IF kind = "function" THEN funcnest + 1 ELSE funcnest
  /\ exitstatus' = IF kind = "for" THEN 0 ELSE exitstatus
  /\ IF kind \in Texts THEN pushfile ELSE UNCHANGED parsefiles
  /\ UNCHANGED <<skips, eflag>>

(* The child evaluates the list; the parent waits for it, or goes on.      *)
closescript == popallfiles
Forked(kind) == Evaluating(kind) /\ closescript /\ UNCHANGED <<skips, nests, exitstatus, eflag>>
evalsubshell(kind) ==
  /\ Evaluates /\ kind \in Kinds
  /\ \/ Forked(kind)
     \/ kind = "subshell" /\ \E s \in EXIT_STATUS : Done(s)
     \/ kind = "background" /\ Done(exitstatus)

(* The processes of a pipeline or of backquotes, and evalcommand's fork.   *)
evalpipe ==
  /\ Evaluates /\ "process" \in Kinds
  /\ Forked("process") \/ \E s \in EXIT_STATUS : Done(s)

(* Where the parser lets a command be missing, evaltree(NULL) returns at   *)
(* once, without regard to traps and flags: a child meant to exit then     *)
(* executes what follows the subshell.                                     *)
evaltree_NULL ==
  /\ pc = "call" /\ stack # <<>> /\ (Top.kind \in Forks => "empty" \in Allowed)
  /\ IF Top.kind \in Forks THEN stack' = Below /\ pc' = "out" ELSE pc' = "back" /\ UNCHANGED stack
  /\ UNCHANGED <<skips, nests, exitstatus, eflag, parsefiles>>

----------------------------------------------------------------------------
(* evaltree at out: first the traps, then the flags, then its caller.      *)
dotrap ==
  /\ pc = "out" /\ "trap" \in Kinds /\ Len(stack) < MaxDepth
  /\ evalskip = 0 \/ "trap" \in Allowed
  /\ stack' = Append(stack, [kind |-> "trap", at |-> "first", last |-> exitstatus,
                             exit |-> FALSE, tested |-> FALSE])
  /\ pc' = "call" /\ pushfile /\ UNCHANGED <<skips, nests, exitstatus, eflag>>

ErrExit == eflag /\ exitstatus # 0 /\ ~EvTested
exitshell ==
  /\ pc = "out" /\ (EvExit \/ ErrExit) /\ pc' = "exited"
  /\ UNCHANGED <<skips, nests, exitstatus, eflag, parsefiles, stack>>

Returns == stack # <<>> /\ (pc = "back" \/ (pc = "out" /\ ~EvExit /\ ~ErrExit))
Second(f) == [f EXCEPT !.at = "second"]
Continues(f) == /\ pc' = "call" /\ stack' = Append(Below, f)
                /\ UNCHANGED <<skips, nests, exitstatus, eflag, parsefiles>>
Ends == stack' = Below /\ pc' = "out" /\ UNCHANGED eflag

evaltree_semi ==
  /\ Returns /\ Top.kind = "semi"
  /\ IF Top.at = "first" /\ evalskip = 0
     THEN Continues(Second(Top))
     ELSE Ends /\ UNCHANGED <<skips, nests, exitstatus, parsefiles>>

evaltree_andor ==
  /\ Returns /\ Top.kind \in {"and", "or"}
  /\ IF Top.at = "first" /\ evalskip = 0 /\ ((exitstatus = 0) <=> (Top.kind = "and"))
     THEN Continues(Second(Top))
     ELSE Ends /\ UNCHANGED <<skips, nests, exitstatus, parsefiles>>

evaltree_if(elsepart) ==
  /\ Returns /\ Top.kind = "if"
  /\ IF Top.at = "first" /\ evalskip = 0 /\ (exitstatus = 0 \/ elsepart)
     THEN Continues(Second(Top))
     ELSE Ends /\ UNCHANGED <<skips, nests, exitstatus, parsefiles>>

(* evalcase, and a redirected command, evaluate one thing.                 *)
evaltree_one ==
  /\ Returns /\ Top.kind \in {"case", "redir"}
  /\ Ends /\ UNCHANGED <<skips, nests, exitstatus, parsefiles>>

(* The loops' common code: what a loop does when it finds evalskip set.    *)
Mine_late == skipcount - 1 < 0                                    \* mutant
Mine == skipcount - 1 <= 0
Skip(continues, ends) ==
  /\ evalskip # 0
  /\ skipcount' = IF evalskip = SKIPFUNC THEN skipcount ELSE skipcount - 1
  /\ evalskip' = IF evalskip # SKIPFUNC /\ Mine THEN 0 ELSE evalskip
  /\ IF evalskip = SKIPCONT /\ Mine THEN continues ELSE ends

(* status: after a body, its status; the test leaves it alone.             *)
Status == IF Top.at = "second" THEN exitstatus ELSE Top.last
Test == /\ pc' = "call" /\ UNCHANGED <<loopnest, exitstatus>>
        /\ stack' = Append(Below, [Top EXCEPT !.at = "first", !.last = Status])
Body == /\ pc' = "call" /\ UNCHANGED <<loopnest, exitstatus>>
        /\ stack' = Append(Below, Second(Top))
EndLoop == /\ loopnest' = loopnest - 1 /\ exitstatus' = Status
           /\ stack' = Below /\ pc' = "out"
evalloop ==
  /\ Returns /\ Top.kind \in {"while", "until"} /\ UNCHANGED <<funcnest, eflag, parsefiles>>
  /\ \/ Skip(Test, EndLoop)
     \/ /\ evalskip = 0 /\ UNCHANGED skips
        /\ CASE Top.at = "second" -> Test
             [] Top.at = "first" /\ ((exitstatus = 0) <=> (Top.kind = "while")) -> Body
             [] OTHER -> EndLoop

Word == pc' = "call" /\ UNCHANGED <<loopnest, exitstatus, stack>>
EndFor == /\ loopnest' = loopnest - 1 /\ stack' = Below /\ pc' = "out" /\ UNCHANGED exitstatus
evalfor(more) ==
  /\ Returns /\ Top.kind = "for" /\ UNCHANGED <<funcnest, eflag, parsefiles>>
  /\ LET next == IF more THEN Word ELSE EndFor
     IN  Skip(next, EndFor) \/ (evalskip = 0 /\ UNCHANGED skips /\ next)

(* The end of a function ends a return.                                    *)
evalcommand_function ==
  /\ Returns /\ Top.kind = "function" /\ Ends
  /\ funcnest' = funcnest - 1 /\ UNCHANGED <<loopnest, exitstatus, parsefiles>>
  /\ IF evalskip = SKIPFUNC THEN Skipping(0, 0) ELSE UNCHANGED skips

(* evalstring and cmdloop go on to the next line whatever evalskip says.   *)
evalstring_next ==
  /\ Returns /\ Top.kind \in Texts /\ (evalskip = 0 \/ "lines" \in Allowed)
  /\ Continues(Top)

evalstring_end ==
  /\ Returns /\ Top.kind \in Texts \union {"lc"} /\ Ends
  /\ (Top.kind = "trap" /\ exitstatus # Top.last) => evalskip # 0 \/ "trapstatus" \in Allowed
  /\ IF Top.kind \in Texts THEN popfile ELSE UNCHANGED parsefiles
  /\ UNCHANGED <<skips, nests, exitstatus>>

cmdloop == /\ pc = "out" /\ stack = <<>> /\ ~ErrExit
           /\ pc' = "call" /\ UNCHANGED <<skips, nests, exitstatus, eflag, parsefiles, stack>>

----------------------------------------------------------------------------
(* An error: functions, eval and . pass exceptions on, other builtins end  *)
(* with the error, and what was being evaluated inside them is forgotten.  *)
Catcher == Max({0} \union {i \in DOMAIN stack : stack[i].kind = "lc"})
Forgotten == {stack[i].kind : i \in Catcher + 1 .. Len(stack)}
error ==
  /\ Evaluates /\ Catcher # 0
  /\ Forgotten \intersect (Loops \union Texts \union Forks \union {"function"}) # {} => "lc" \in Allowed
  /\ stack' = SubSeq(stack, 1, Catcher - 1) /\ pc' = "out" /\ exitstatus' = 1
  /\ UNCHANGED <<skips, nests, eflag, parsefiles>>

(* The exit command, and main's handler in a child or a script.            *)
exitcmd ==
  /\ Evaluates /\ pc' = "exited"
  /\ UNCHANGED <<skips, nests, exitstatus, eflag, parsefiles, stack>>

(* An error in an interactive shell, or SIGINT: main's handler calls       *)
(* reset() and goes on.  A builtin it goes through has set exitstatus.     *)
InBuiltin == Evaluates \/ \E i \in DOMAIN stack : stack[i].kind \in {"eval", "lc"}
reset_skip == evalskip' = 0 /\ popallfiles /\ UNCHANGED <<nests, skipcount>>     \* mutant
reset == evalskip' = 0 /\ loopnest' = 0 /\ funcnest' = 0 /\ popallfiles /\ UNCHANGED skipcount
onint ==
  /\ pc # "exited" /\ ~Child
  /\ stack' = <<>> /\ pc' = "call" /\ reset /\ UNCHANGED eflag
  /\ exitstatus' = exitstatus \/ (InBuiltin /\ exitstatus' = 1)

----------------------------------------------------------------------------
Next ==
  \/ \E s \in EXIT_STATUS : evalcommand(s) \/ returncmd(s)
  \/ \E n \in 0 .. MaxSkip : breakcmd(SKIPBREAK, n) \/ breakcmd(SKIPCONT, n)
  \/ \E n \in 1 .. MaxSkip : evalbackcmd_break(SKIPBREAK, n) \/ evalbackcmd_break(SKIPCONT, n)
  \/ \E s \in EXIT_STATUS : evalbackcmd_return(s)
  \/ \E k \in Kinds : evaltree(k)
  \/ evalsubshell("subshell") \/ evalsubshell("background") \/ evalpipe
  \/ setcmd \/ NotBegun \/ evaltree_NULL
  \/ dotrap \/ exitshell \/ evaltree_semi \/ evaltree_andor
  \/ \E e \in BOOLEAN : evaltree_if(e) \/ evalfor(e)
  \/ evaltree_one \/ evalloop \/ evalcommand_function
  \/ evalstring_next \/ evalstring_end \/ cmdloop
  \/ error \/ exitcmd \/ onint

Spec == Init /\ [][Next]_vars

----------------------------------------------------------------------------
TypeOK ==
  /\ evalskip \in {0, SKIPBREAK, SKIPCONT, SKIPFUNC} /\ skipcount \in 0 .. MaxDepth
  /\ loopnest \in 0 .. MaxDepth /\ funcnest \in 0 .. MaxDepth
  /\ exitstatus \in EXIT_STATUS /\ eflag \in BOOLEAN /\ parsefiles \in 0 .. MaxDepth
  /\ stack \in Seq(Call) /\ pc \in {"call", "expanded", "out", "back", "exited"}

LastFork == Max({0} \union {i \in DOMAIN stack : stack[i].kind \in Forks})

(* loopnest and funcnest count the loops and functions being executed,     *)
(* whatever was left by break, return, errors, interrupts or a fork: the   *)
(* argument of break is clamped by the one, and return asks the other.     *)
(* The text read next is that of the innermost loop of commands this       *)
(* process executes, never one that was abandoned or that is its parent's. *)
CountsAgree ==
  /\ loopnest = Cardinality({i \in DOMAIN stack : stack[i].kind \in Loops})
  /\ funcnest = Cardinality({i \in DOMAIN stack : stack[i].kind = "function"})
  /\ parsefiles = Cardinality({i \in DOMAIN stack : i > LastFork /\ stack[i].kind \in Texts})

(* Every command evaluated is one that Control would run at that point, and*)
(* every exit of the shell one that it allows: what evalskip and the flags *)
(* do step by step is the break, continue, return, subshell and -e of the  *)
(* manual.  While evalskip is set, the construct it is to leave counts as  *)
(* left.                                                                   *)
Plain == [i \in DOMAIN stack |-> [kind |-> stack[i].kind, at |-> stack[i].at, last |-> stack[i].last]]
P == INSTANCE Control WITH Statuses <- EXIT_STATUS, stack <- Plain, phase <- pc, status <- exitstatus

Remaining == CASE evalskip = 0         -> Plain
               [] evalskip = SKIPBREAK -> P!Left(Plain, skipcount)
               [] evalskip = SKIPCONT  -> P!Continued(Plain, skipcount)
               [] evalskip = SKIPFUNC  -> P!Returned(Plain)
Phase == IF pc = "exited" THEN "exited"
         ELSE CASE evalskip = 0 -> IF pc = "back" THEN "out" ELSE pc
                [] evalskip = SKIPFUNC -> "returned"
                [] evalskip = SKIPCONT /\ P!Stays(Plain, skipcount) -> "continuing"
                [] OTHER -> "left"
C == INSTANCE Control WITH Statuses <- EXIT_STATUS, stack <- Remaining, phase <- Phase,
       status <- IF evalskip \in {SKIPBREAK, SKIPCONT} THEN 0 ELSE exitstatus
Implements == C!Spec
=============================================================================
