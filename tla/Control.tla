------------------------------ MODULE Control ------------------------------
(***************************************************************************)
(* The control structure that eval.c gives to commands, without its means: *)
(* which command runs next, what break, continue and return leave, when a  *)
(* subshell is over, and when -e ends the shell.  A construct being        *)
(* executed is an element of stack, innermost last; what its parts are is  *)
(* not decided before they begin.                                          *)
(***************************************************************************)
EXTENDS Integers, Sequences, FiniteSets, FiniteSetsExt

CONSTANTS
  Kinds,      \* the constructs commands are built from
  Statuses,   \* exit statuses, among them 0
  MaxDepth    \* BOUND: constructs inside one another

Loops     == {"while", "until", "for"}
Strings   == {"eval", "trap"}                        \* commands read from a text
Subshells == {"subshell", "background", "process"}
Construct == [kind : Kinds, at : {"first", "second"}, last : Statuses]

VARIABLES
  stack,    \* the constructs being executed
  phase,    \* see Phases
  status,   \* of the last command
  eflag     \* set -e

vars == <<stack, phase, status, eflag>>

(* A part is about to begin ("call") or has ended ("out"), or break, or a  *)
(* return, is on its way out of what it leaves, or continue on its way to  *)
(* the loop it goes on with.                                               *)
Phases == {"call", "out", "left", "returned", "continuing", "exited"}

Init == stack = <<>> /\ phase = "call" /\ status = 0 /\ eflag = FALSE

Top == stack[Len(stack)]
Below == SubSeq(stack, 1, Len(stack) - 1)
Of(s, kinds) == {i \in DOMAIN s : s[i].kind \in kinds}
Base(s) == Max({0} \union Of(s, Subshells))

(* The n-th innermost loop, and the innermost function; 0 if there is none.*)
Loop(s, n) == Max({0} \union {i \in Of(s, Loops) : Cardinality({j \in Of(s, Loops) : j >= i}) >= n})
Function(s) == Max({0} \union Of(s, {"function"}))

----------------------------------------------------------------------------
Command(s) == phase = "call" /\ phase' = "out" /\ status' = s /\ UNCHANGED <<stack, eflag>>

Set == phase = "call" /\ phase' = "out" /\ status' = 0 /\ eflag' = ~eflag /\ UNCHANGED stack

Enter(kind) ==
  /\ phase = "call" /\ Len(stack) < MaxDepth /\ UNCHANGED <<phase, eflag>>
  /\ stack' = Append(stack, [kind |-> kind, last |-> 0,
                             at   |-> IF kind = "for" THEN "second" ELSE "first"])
  /\ status' = IF kind = "for" THEN 0 ELSE status

(* What follows when the present part of a construct has ended: the        *)
(* condition of a while or if, the left side of && or ||, one command of a *)
(* text or of a list, a body.                                              *)
GoesOn(f, s) ==
  CASE f.kind = "semi"  -> {f.at = "first"}
    [] f.kind = "and"   -> {f.at = "first" /\ s = 0}
    [] f.kind = "or"    -> {f.at = "first" /\ s # 0}
    [] f.kind = "if"    -> IF f.at = "first" /\ s # 0 THEN BOOLEAN ELSE {f.at = "first"}
    [] f.kind = "while" -> {f.at = "second" \/ s = 0}
    [] f.kind = "until" -> {f.at = "second" \/ s # 0}
    [] f.kind \in {"for", "eval", "trap"} -> BOOLEAN
    [] OTHER            -> {FALSE}
Part(f) == CASE f.kind \in Strings -> "first"
             [] f.kind = "for" -> "second"
             [] f.kind \in {"while", "until"} /\ f.at = "second" -> "first"
             [] OTHER -> "second"

(* A loop's status is that of its last body; a trap changes none.          *)
Result(f, s) == IF f.kind \in {"while", "until", "trap"} THEN f.last ELSE s
Resume ==
  /\ phase = "out" /\ stack # <<>> /\ Top.kind \notin Subshells /\ UNCHANGED eflag
  /\ \E on \in GoesOn(Top, status) :
       IF on
       THEN /\ phase' = "call" /\ UNCHANGED status
            /\ stack' = Append(Below,
                 [Top EXCEPT !.at = Part(Top),
                             !.last = IF Top.kind \in {"while", "until"} /\ Top.at = "second"
                                       THEN status ELSE @])
       ELSE stack' = Below /\ UNCHANGED phase /\ status' = Result(Top, status)

NextCommand == /\ phase = "out" /\ stack = <<>>
               /\ phase' = "call" /\ UNCHANGED <<stack, status, eflag>>

(* A trap's action runs between two parts.                                 *)
Trap == /\ phase = "out" /\ Len(stack) < MaxDepth
        /\ stack' = Append(stack, [kind |-> "trap", at |-> "first", last |-> status])
        /\ phase' = "call" /\ UNCHANGED <<status, eflag>>

----------------------------------------------------------------------------
(* break n and continue n concern the n innermost loops, or all there are, *)
(* and return the innermost function; a subshell ends at its edge.         *)
Levels(s, n) == Min({n, Cardinality(Of(s, Loops))})
Left(s, n) == SubSeq(s, 1, Max({Loop(s, n) - 1, Base(s)}))
Returned(s) == SubSeq(s, 1, Max({Function(s) - 1, Base(s)}))
Stays(s, n) == Loop(s, n) > Base(s)
Continued(s, n) ==
  IF Stays(s, n) THEN Append(SubSeq(s, 1, Loop(s, n) - 1),
                             [kind |-> s[Loop(s, n)].kind, at |-> "second", last |-> 0])
                 ELSE SubSeq(s, 1, Base(s))

Break(n) == /\ phase = "call" /\ Levels(stack, n) > 0
            /\ stack' = Left(stack, Levels(stack, n))
            /\ phase' = "left" /\ status' = 0 /\ UNCHANGED eflag

Continue(n) == /\ phase = "call" /\ Levels(stack, n) > 0
               /\ stack' = Continued(stack, Levels(stack, n))
               /\ phase' = IF Stays(stack, Levels(stack, n)) THEN "continuing" ELSE "left"
               /\ status' = 0 /\ UNCHANGED eflag

Return(s) == /\ phase = "call" /\ Function(stack) # 0
             /\ stack' = Returned(stack)
             /\ phase' = "returned" /\ status' = s /\ UNCHANGED eflag

(* What was left has ended; a function with the status return was given.   *)
Land ==
  /\ phase \in {"left", "returned"} /\ phase' = "out"
  /\ status' \in IF phase = "left" THEN Statuses ELSE {status}
  /\ UNCHANGED <<stack, eflag>>

GoOn ==
  /\ phase = "continuing" /\ UNCHANGED eflag /\ status' \in Statuses
  /\ \/ /\ Top.kind = "for" /\ phase' = "call" /\ UNCHANGED stack
     \/ /\ Top.kind = "for" /\ phase' = "out" /\ stack' = Below
     \/ /\ Top.kind # "for" /\ phase' = "call"
        /\ \E s \in Statuses :
             stack' = Append(Below, [Top EXCEPT !.at = "first", !.last = s])

----------------------------------------------------------------------------
(* The construct at i ends when its present part does.                     *)
Last(f) == \/ f.kind \in {"case", "redir"}
           \/ f.kind \in {"semi", "and", "or", "if"} /\ f.at = "second"

(* The part that has just ended is a condition, or the last thing in one.  *)
Controls(f) == f.at = "first" /\ f.kind \in {"if", "while", "until", "and", "or"}
Tested(s) == \E i \in DOMAIN s : /\ Controls(s[i])
                                 /\ \A j \in i + 1 .. Len(s) : Last(s[j]) \/ s[j].kind = "subshell"

(* A subshell is over when its list is, or what leaves it left it.         *)
Over == /\ Base(stack) # 0
        /\ \A i \in Base(stack) + 1 .. Len(stack) : phase = "out" /\ Last(stack[i])

(* -e ends the shell when a command fails that is not tested; what left    *)
(* something counts as a command too.                                      *)
Fails == /\ eflag
         /\ \/ phase = "out" /\ status # 0 /\ ~Tested(stack)
            \/ phase \in {"left", "returned", "continuing"}

Exit == /\ \/ phase = "call"                                 \* exit, or an error
           \/ phase \in {"out", "left", "returned"} /\ Over
           \/ Fails
        /\ phase' = "exited" /\ UNCHANGED <<stack, status, eflag>>

(* An error in what lc evaluates ends lc.                                  *)
Recover == /\ phase = "call" /\ Of(stack, {"lc"}) # {} /\ Max(Of(stack, {"lc"})) > Base(stack)
           /\ stack' = SubSeq(stack, 1, Max(Of(stack, {"lc"})) - 1)
           /\ phase' = "out" /\ status' \in Statuses \ {0} /\ UNCHANGED eflag

(* An error or an interrupt brings an interactive shell back to its prompt.*)
Abandon == /\ phase # "exited" /\ Base(stack) = 0
           /\ stack' = <<>> /\ phase' = "call" /\ status' \in Statuses /\ UNCHANGED eflag

Next == \/ \E s \in Statuses : Command(s) \/ Return(s)
        \/ \E k \in Kinds : Enter(k)
        \/ \E n \in 1 .. MaxDepth : Break(n) \/ Continue(n)
        \/ Set \/ Resume \/ NextCommand \/ Trap \/ Land \/ GoOn \/ Exit \/ Recover \/ Abandon

Spec == Init /\ [][Next]_vars
=============================================================================
