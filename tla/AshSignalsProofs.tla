------------------------- MODULE AshSignalsProofs -------------------------
(***************************************************************************)
(* What is proved about signals and traps (AshTraps), for every number of  *)
(* signals, trap actions nested to every depth and signals at every        *)
(* moment; and about interrupts and exceptions (AshInterrupts), for stacks *)
(* of every depth: how critical sections and handlers nest on the C stack, *)
(* and what the count in suppressint and the handlers owe to that.         *)
(***************************************************************************)
EXTENDS AshTraps, AshInterrupts, SequenceTheorems, FiniteSetTheorems, TLAPS

Modes == {"unknown", "DFL", "CATCH", "IGN", "HARD_IGN"}
Disps == {"dfl", "catch", "ign"}
Ops   == {"set", "clear", "ignore", "keep"}
Loop  == [op : Ops, sigs : SUBSET (0 .. MAXSIG)]

----------------------------------------------------------------------------
(* What the shell believes and what the kernel has.                        *)

TrapTyped == trap \in [0 .. MAXSIG -> {"NULL", "empty", "action"}]
HandlersTyped == sigmode \in [Sigs -> Modes] /\ disp \in [Sigs -> Disps]

(* Belief and kernel agree at every moment, even amid the changes.         *)
Agreed == \A s \in Sigs : sigmode[s] # "unknown" => disp[s] = DispOf(sigmode[s])

(* A signal ignored on entry has not been looked at or is known to be.     *)
EntryKnown ==
  \A s \in Sigs \intersect entry :
    disp[s] = "ign" /\ sigmode[s] \in {"unknown", "HARD_IGN"}

KernelInv == TrapTyped /\ HandlersTyped /\ Agreed /\ EntryKnown /\ entry \subseteq Sigs

LEMMA WantedTyped ==
  ASSUME NEW s
  PROVE  Wanted(s) \in {"DFL", "CATCH", "IGN"}
BY DEF Wanted

LEMMA DispTyped ==
  ASSUME NEW m \in Modes
  PROVE  DispOf(m) \in Disps /\ (m \in {"IGN", "HARD_IGN"} => DispOf(m) = "ign")
BY DEF DispOf, Modes, Disps

(* The handlers are changed by setsignal, ignoresig and SHELLPROC alone.   *)
LEMMA WhoChangesHandlers ==
  ASSUME [Next]_vars
  PROVE  \/ setsignal_probe \/ setsignal \/ ignoresig
         \/ UNCHANGED <<sigmode, disp, entry>>
<1>1. clear_traps => UNCHANGED <<sigmode, disp, entry>>
  BY DEF clear_traps
<1>2. Command => UNCHANGED <<sigmode, disp, entry>>
  BY DEF Command, trapcmd, setcmd, forkshell, OtherCommand, CommandFails, execcmd, shellexec,
         ShellProc, exitshell, handlers
<1>3. dotrap \/ dotrap_evaluated => UNCHANGED <<sigmode, disp, entry>>
  BY DEF dotrap, CheckSignals, dotrap_found, dotrap_next, dotrap_done, dotrap_evaluated,
         handlers
<1>4. \A s : Signal(s) => UNCHANGED <<sigmode, disp, entry>>
  BY DEF Signal, handlers
<1> QED BY <1>1, <1>2, <1>3, <1>4 DEF Next, Change, vars

LEMMA WhoChangesTraps ==
  ASSUME [Next]_vars
  PROVE  \/ trap' = trap
         \/ \E s \in 0 .. MAXSIG, a \in {"NULL", "empty", "action"} : trap' = [trap EXCEPT ![s] = a]
<1>1. clear_traps => \/ trap' = trap
                     \/ \E s \in 0 .. MAXSIG : trap' = [trap EXCEPT ![s] = "NULL"]
  BY DEF clear_traps
<1>2. setsignal_probe \/ setsignal \/ ignoresig => trap' = trap
  BY DEF setsignal_probe, setsignal, ignoresig
<1>3. exitshell => trap' = trap \/ trap' = [trap EXCEPT ![0] = "NULL"]
  BY DEF exitshell
<1>4. 0 \in 0 .. MAXSIG
  BY TrapAssumption
<1>5. \A s, a : trapcmd(s, a) => trap' = [trap EXCEPT ![s] = a]
  BY DEF trapcmd
<1>6. Command => \/ exitshell \/ trap' = trap
                 \/ \E s \in 0 .. MAXSIG, a \in {"NULL", "empty", "action"} : trapcmd(s, a)
  BY DEF Command, setcmd, forkshell, OtherCommand, CommandFails, execcmd, shellexec, ShellProc,
         handlers
<1>7. dotrap \/ dotrap_evaluated => trap' = trap
  BY DEF dotrap, CheckSignals, dotrap_found, dotrap_next, dotrap_done, dotrap_evaluated, handlers
<1>8. \A s : Signal(s) => trap' = trap
  BY DEF Signal, handlers
<1> QED BY <1>1, <1>2, <1>3, <1>4, <1>5, <1>6, <1>7, <1>8 DEF Next, Change, vars

LEMMA InitKernel == Init => KernelInv
<1> SUFFICES ASSUME Init PROVE KernelInv
  OBVIOUS
<1>1. HandlersTyped
  BY DEF Init, HandlersTyped, Modes, Disps
<1>2. TrapTyped
  BY DEF Init, TrapTyped
<1> QED BY <1>1, <1>2 DEF Init, KernelInv, Agreed, EntryKnown

LEMMA StepKernel == KernelInv /\ [Next]_vars => KernelInv'
<1> SUFFICES ASSUME KernelInv, [Next]_vars PROVE KernelInv'
  OBVIOUS
<1>0. TrapTyped'
  BY WhoChangesTraps DEF KernelInv, TrapTyped
<1>1. CASE setsignal_probe
  <2>1. PICK s \in Sigs :
          /\ sigmode' = [sigmode EXCEPT ![s] = Probe(s)]
          /\ disp' = [disp EXCEPT ![s] = "ign"]
          /\ sigmode[s] = "unknown" /\ entry' = entry
    BY <1>1 DEF setsignal_probe
  <2>2. Probe(s) \in {"IGN", "HARD_IGN"} /\ (disp[s] = "ign" => Probe(s) = "HARD_IGN")
    BY DEF Probe
  <2>3. HandlersTyped'
    BY <2>1, <2>2 DEF KernelInv, HandlersTyped, Modes, Disps
  <2>4. Agreed'
    BY <2>1, <2>2 DEF KernelInv, HandlersTyped, Agreed, DispOf
  <2>5. EntryKnown'
    BY <2>1, <2>2 DEF KernelInv, HandlersTyped, EntryKnown
  <2> QED BY <1>0, <2>1, <2>3, <2>4, <2>5 DEF KernelInv
<1>2. CASE setsignal
  <2>1. PICK s \in Sigs :
          /\ sigmode[s] # "unknown"
          /\ IF Fixed(sigmode[s]) \/ sigmode[s] = Wanted(s) THEN UNCHANGED <<sigmode, disp>>
             ELSE /\ sigmode' = [sigmode EXCEPT ![s] = Wanted(s)]
                  /\ disp' = [disp EXCEPT ![s] = NewDisp(s)]
    BY <1>2 DEF setsignal
  <2>2. entry' = entry
    BY <1>2 DEF setsignal
  <2>3. CASE UNCHANGED <<sigmode, disp>>
    BY <1>0, <2>2, <2>3 DEF KernelInv, HandlersTyped, Agreed, EntryKnown
  <2>4. ASSUME /\ sigmode[s] # "HARD_IGN" /\ sigmode' = [sigmode EXCEPT ![s] = Wanted(s)]
               /\ disp' = [disp EXCEPT ![s] = DispOf(Wanted(s))]
        PROVE  KernelInv'
    <3>1. Wanted(s) \in Modes /\ DispOf(Wanted(s)) \in Disps
      BY WantedTyped, DispTyped DEF Modes
    <3>2. HandlersTyped'
      BY <2>4, <3>1 DEF KernelInv, HandlersTyped
    <3>3. Agreed'
      BY <2>4 DEF KernelInv, HandlersTyped, Agreed
    <3>4. s \notin entry
      BY <2>1, <2>4 DEF KernelInv, EntryKnown
    <3>5. EntryKnown'
      BY <2>2, <2>4, <3>4 DEF KernelInv, HandlersTyped, EntryKnown
    <3> QED BY <1>0, <2>2, <3>2, <3>3, <3>5 DEF KernelInv
  <2> QED BY <2>1, <2>3, <2>4 DEF Fixed, NewDisp
<1>3. CASE ignoresig
  <2>1. PICK s \in Sigs :
          /\ sigmode' = IF Head(todo).op = "ignore" \/ sigmode[s] = "IGN"
                        THEN [sigmode EXCEPT ![s] = "HARD_IGN"] ELSE sigmode
          /\ disp' = IF Head(todo).op = "ignore" /\ sigmode[s] \notin {"IGN", "HARD_IGN"}
                     THEN [disp EXCEPT ![s] = "ign"] ELSE disp
    BY <1>3 DEF ignoresig
  <2>2. entry' = entry
    BY <1>3 DEF ignoresig
  <2>3. HandlersTyped'
    BY <2>1 DEF KernelInv, HandlersTyped, Modes, Disps
  <2>4. Agreed'
    <3>1. sigmode[s] \in {"IGN", "HARD_IGN"} => disp[s] = "ign"
      BY DEF KernelInv, Agreed, DispOf
    <3> QED BY <2>1, <3>1 DEF KernelInv, HandlersTyped, Agreed, DispOf
  <2>5. EntryKnown'
    BY <2>1, <2>2 DEF KernelInv, HandlersTyped, EntryKnown
  <2> QED BY <1>0, <2>2, <2>3, <2>4, <2>5 DEF KernelInv
<1>4. CASE UNCHANGED <<sigmode, disp, entry>>
  BY <1>0, <1>4 DEF KernelInv, HandlersTyped, Agreed, EntryKnown
<1> QED BY <1>1, <1>2, <1>3, <1>4, WhoChangesHandlers

(* What the shell believes of a signal's handler is what the kernel has,   *)
(* across trap, set, fork, a shell procedure and a SIGINT amid them.       *)
THEOREM ModesAgree == Spec => []ModeAgrees
<1>1. KernelInv => ModeAgrees
  BY DEF KernelInv, Agreed, ModeAgrees
<1> QED BY <1>1, InitKernel, StepKernel, PTL DEF Spec

(* A signal ignored on entry to the shell is ignored for good, in the      *)
(* shell and in all its children and shell procedures.                     *)
THEOREM EntriesIgnored == Spec => []EntryIgnored
<1>1. KernelInv => EntryIgnored
  BY DEF KernelInv, EntryKnown, EntryIgnored
<1> QED BY <1>1, InitKernel, StepKernel, PTL DEF Spec

----------------------------------------------------------------------------
(* Signals received.                                                       *)

(* dotrap's scan has left no signal behind it.                             *)
ScanInv ==
  /\ scan \in Nat /\ gotsig \in [Sigs -> BOOLEAN]
  /\ pc = "scan" => \A r \in Sigs : r < scan => ~gotsig[r]
  /\ \A s \in Sigs : gotsig[s] => sigpending

LEMMA InitScan == Init => ScanInv
BY DEF Init, ScanInv

LEMMA StepScan ==
  ASSUME ~StaleScan, ScanInv, KernelInv, [Next]_vars
  PROVE  ScanInv'
<1>0. MAXSIG \in Nat /\ \A r \in Sigs : r \in Nat /\ r >= 1 /\ r <= MAXSIG
  BY TrapAssumption DEF Sigs
<1> USE DEF ScanInv
<1>1. ASSUME UNCHANGED <<gotsig, sigpending, scan>>, pc' = pc \/ pc' # "scan"
      PROVE  ScanInv'
  BY <1>1
<1>2. CASE Change
  <2>1. UNCHANGED <<gotsig, sigpending, scan>>
    BY <1>2 DEF Change, setsignal_probe, setsignal, clear_traps, ignoresig
  <2>2. \A s : NextChange(s) => pc' = pc \/ pc' # "scan"
    BY DEF NextChange, RaiseInt
  <2>3. pc' = pc \/ pc' # "scan"
    BY <1>2, <2>2 DEF Change, setsignal_probe, setsignal, clear_traps, ignoresig
  <2> QED BY <1>1, <2>1, <2>3
<1>3. CASE Command
  <2>1. UNCHANGED <<gotsig, sigpending, scan>> /\ pc' \in {pc, "cmd", "exec", "check", "exited"}
    BY <1>3 DEF Command, trapcmd, setcmd, forkshell, OtherCommand, CommandFails, execcmd, shellexec,
                ShellProc, exitshell
  <2> QED BY <1>1, <2>1
<1>4. CASE CheckSignals
  <2>1. UNCHANGED <<gotsig, sigpending>>
    BY <1>4 DEF CheckSignals, handlers
  <2>2. (pc' = "scan" /\ scan' = 1) \/ (pc' = "cmd" /\ scan' = scan)
    BY <1>4 DEF CheckSignals
  <2> QED BY <1>0, <2>1, <2>2
<1>5. CASE dotrap_found
  <2>1. sigpending' = sigpending /\ gotsig' = [gotsig EXCEPT ![scan] = FALSE]
    BY <1>5 DEF dotrap_found, handlers
  <2>2. scan \in 0 .. MAXSIG
    BY <1>0, <1>5 DEF dotrap_found
  <2>3. trap[scan] \in {"NULL", "empty", "action"}
    BY <2>2 DEF KernelInv, TrapTyped
  <2>4. scan' = 1 \/ (scan' = scan /\ pc' # "scan")
    BY <1>5, <2>3 DEF dotrap_found, Resume
  <2>5. gotsig' \in [Sigs -> BOOLEAN] /\ \A s \in Sigs : gotsig'[s] => gotsig[s]
    <3>1. gotsig' \in [Sigs -> BOOLEAN]
      BY <2>1
    <3>2. \A s \in Sigs : gotsig'[s] = IF s = scan THEN FALSE ELSE gotsig[s]
      BY <2>1
    <3> QED BY <3>1, <3>2
  <2>6. pc' = "scan" => \A r \in Sigs : ~(r < scan')
    BY <1>0, <2>4
  <2>7. scan' \in Nat
    BY <2>4
  <2> QED BY <2>1, <2>5, <2>6, <2>7
<1>6. CASE dotrap_next
  BY <1>0, <1>6 DEF dotrap_next, handlers
<1>7. CASE dotrap_done
  <2>1. \A s \in Sigs : ~gotsig[s]
    <3>1. pc = "scan" /\ scan > MAXSIG
      BY <1>7 DEF dotrap_done
    <3>2. \A s \in Sigs : s < scan
      BY <1>0, <3>1
    <3>3. \A r \in Sigs : r < scan => ~gotsig[r]
      BY <3>1
    <3> QED BY <3>2, <3>3
  <2>2. pc' = "cmd"
    BY <1>7 DEF dotrap_done
  <2>3. UNCHANGED <<gotsig, scan>>
    BY <1>7 DEF dotrap_done, handlers
  <2> QED BY <2>1, <2>2, <2>3
<1>8. CASE dotrap_evaluated
  <2>1. UNCHANGED <<gotsig, sigpending>>
    BY <1>8 DEF dotrap_evaluated, handlers
  <2>2. (pc' # "scan" /\ scan' = scan) \/ scan' = 1
    BY <1>8 DEF dotrap_evaluated, Resume
  <2> QED BY <1>0, <2>1, <2>2
<1>9. ASSUME NEW s \in Sigs, Signal(s)
      PROVE  ScanInv'
  <2>1. scan' = scan /\ (pc = "scan" => ~(s < scan))
    BY <1>9 DEF Signal, handlers
  <2>2. disp[s] = "catch" \/ disp[s] = "ign" \/ disp[s] = "dfl"
    BY DEF KernelInv, HandlersTyped, Disps
  <2>3. onsig(s) => pc' = pc \/ pc' # "scan"
    BY DEF onsig, RaiseInt
  <2>4. pc' = pc \/ pc' # "scan"
    BY <1>9, <2>2, <2>3 DEF Signal
  <2>5. onsig(s) => \/ gotsig' = gotsig /\ sigpending' = sigpending
                    \/ gotsig' = [gotsig EXCEPT ![s] = TRUE] /\ sigpending' = TRUE
    BY DEF onsig
  <2>6. \/ gotsig' = gotsig /\ sigpending' = sigpending
        \/ gotsig' = [gotsig EXCEPT ![s] = TRUE] /\ sigpending' = TRUE
    BY <1>9, <2>2, <2>5 DEF Signal
  <2> QED BY <1>1, <2>1, <2>4, <2>6
<1>10. CASE UNCHANGED vars
  BY <1>1, <1>10 DEF vars
<1> QED BY <1>2, <1>3, <1>4, <1>5, <1>6, <1>7, <1>8, <1>9, <1>10 DEF Next, dotrap

(* A signal whose trap has yet to run is announced by sigpending, if none  *)
(* arrives behind dotrap's scan.                                           *)
THEOREM SignalsAnnounced ==
  ASSUME ~StaleScan PROVE Spec => []Announced
<1>1. ScanInv /\ KernelInv /\ [Next]_vars => ScanInv'
  BY StepScan
<1>2. ScanInv => Announced
  BY DEF ScanInv, Announced
<1> QED BY <1>1, <1>2, InitScan, InitKernel, StepKernel, PTL DEF Spec

----------------------------------------------------------------------------
(* The handlers in force and the loops still to be run.                    *)

(* What WantedInForce asks of a signal.                                    *)
Good(s) ==
  \/ sigmode[s] \in {Wanted(s), "HARD_IGN"}
  \/ sigmode[s] = "unknown" /\ Wanted(s) = "DFL"
  \/ s \in Tty /\ nojob

(* One of the loops q will call setsignal for s.                           *)
Due(q, s) == \E i \in 1 .. Len(q) : q[i].op = "set" /\ s \in q[i].sigs

LEMMA EachFacts ==
  ASSUME NEW op \in Ops, NEW S \in SUBSET (0 .. MAXSIG)
  PROVE  /\ Each(op, S) \in Seq(Loop)
         /\ \A s : Due(Each(op, S), s) <=> op = "set" /\ s \in S
<1>1. CASE S = {}
  BY <1>1 DEF Each, Due
<1>2. CASE S # {}
  <2>1. [op |-> op, sigs |-> S] \in Loop
    BY DEF Loop
  <2>2. Each(op, S) = <<[op |-> op, sigs |-> S]>>
    BY <1>2 DEF Each
  <2> QED BY <2>1, <2>2 DEF Due
<1> QED BY <1>1, <1>2

LEMMA DueConcat ==
  ASSUME NEW q \in Seq(Loop), NEW r \in Seq(Loop)
  PROVE  /\ q \o r \in Seq(Loop)
         /\ \A s : Due(q \o r, s) <=> Due(q, s) \/ Due(r, s)
<1>1. Len(q) \in Nat /\ Len(r) \in Nat
  BY LenProperties
<1>2. /\ q \o r \in Seq(Loop) /\ Len(q \o r) = Len(q) + Len(r)
      /\ \A i \in 1 .. Len(q) + Len(r) :
           (q \o r)[i] = IF i <= Len(q) THEN q[i] ELSE r[i - Len(q)]
  BY ConcatProperties
<1>3. ASSUME NEW s, Due(q \o r, s)
      PROVE  Due(q, s) \/ Due(r, s)
  <2>1. PICK i \in 1 .. Len(q) + Len(r) : (q \o r)[i].op = "set" /\ s \in (q \o r)[i].sigs
    BY <1>2, <1>3 DEF Due
  <2>2. CASE i <= Len(q)
    BY <1>1, <1>2, <2>1, <2>2 DEF Due
  <2>3. CASE ~(i <= Len(q))
    <3>1. i - Len(q) \in 1 .. Len(r) /\ (q \o r)[i] = r[i - Len(q)]
      BY <1>1, <1>2, <2>3
    <3> QED BY <2>1, <3>1 DEF Due
  <2> QED BY <2>2, <2>3
<1>4. ASSUME NEW s, Due(q, s)
      PROVE  Due(q \o r, s)
  <2>1. PICK i \in 1 .. Len(q) : q[i].op = "set" /\ s \in q[i].sigs
    BY <1>4 DEF Due
  <2>2. i \in 1 .. Len(q) + Len(r) /\ (q \o r)[i] = q[i]
    BY <1>1, <1>2
  <2> QED BY <1>2, <2>1, <2>2 DEF Due
<1>5. ASSUME NEW s, Due(r, s)
      PROVE  Due(q \o r, s)
  <2>1. PICK i \in 1 .. Len(r) : r[i].op = "set" /\ s \in r[i].sigs
    BY <1>5 DEF Due
  <2>2. i + Len(q) \in 1 .. Len(q) + Len(r) /\ ~(i + Len(q) <= Len(q))
        /\ (i + Len(q)) - Len(q) = i
    BY <1>1
  <2>3. (q \o r)[i + Len(q)] = r[i]
    BY <1>2, <2>2
  <2> QED BY <1>2, <2>1, <2>2, <2>3 DEF Due
<1> QED BY <1>2, <1>3, <1>4, <1>5

(* What is left after s is due as before, but for s itself.                *)
LEMMA RemainingFacts ==
  ASSUME todo \in Seq(Loop), todo # <<>>, NEW s
  PROVE  /\ Head(todo) \in Loop /\ Remaining(s) \in Seq(Loop)
         /\ \A r : Due(todo, r) =>
              \/ Due(Remaining(s), r)
              \/ r = s /\ Head(todo).op = "set"
<1> DEFINE h == Head(todo)
<1>1. h \in Loop /\ Tail(todo) \in Seq(Loop)
      /\ Len(todo) \in Nat /\ Len(todo) >= 1 /\ h = todo[1]
      /\ Len(Tail(todo)) = Len(todo) - 1
      /\ \A i \in 1 .. Len(Tail(todo)) : Tail(todo)[i] = todo[i + 1]
  <2>1. todo \in Seq(Loop) /\ todo # <<>>
    OBVIOUS
  <2>2. Len(todo) \in Nat /\ Len(todo) >= 1
    BY <2>1, LenProperties, EmptySeq
  <2>3. 1 \in 1 .. Len(todo) /\ todo[1] \in Loop
    BY <2>1, <2>2, ElementOfSeq
  <2> QED BY <2>1, <2>2, <2>3, HeadTailProperties
<1>2. h.op \in Ops /\ h.sigs \ {s} \in SUBSET (0 .. MAXSIG)
  BY <1>1 DEF Loop
<1> DEFINE e == Each(h.op, h.sigs \ {s})
<1>3. e \in Seq(Loop) /\ \A r : Due(e, r) <=> h.op = "set" /\ r \in h.sigs \ {s}
  BY <1>2, EachFacts
<1>4. Remaining(s) = e \o Tail(todo)
  BY DEF Remaining
<1> HIDE DEF h, e
<1>5. /\ Remaining(s) \in Seq(Loop)
      /\ \A r : Due(Remaining(s), r) <=> Due(e, r) \/ Due(Tail(todo), r)
  <2>1. e \in Seq(Loop) /\ Tail(todo) \in Seq(Loop)
    BY <1>1, <1>3
  <2>2. /\ e \o Tail(todo) \in Seq(Loop)
        /\ \A r : Due(e \o Tail(todo), r) <=> Due(e, r) \/ Due(Tail(todo), r)
    BY <2>1, DueConcat
  <2> QED BY <2>2, <1>4
<1>6. ASSUME NEW r, Due(todo, r)
      PROVE  (h.op = "set" /\ r \in h.sigs) \/ Due(Tail(todo), r)
  <2>1. PICK i \in 1 .. Len(todo) : todo[i].op = "set" /\ r \in todo[i].sigs
    BY <1>6 DEF Due
  <2>2. CASE i = 1
    BY <1>1, <2>1, <2>2
  <2>3. CASE i # 1
    <3>1. i - 1 \in 1 .. Len(Tail(todo)) /\ Tail(todo)[i - 1] = todo[i]
      BY <1>1, <2>3
    <3> QED BY <2>1, <3>1 DEF Due
  <2> QED BY <2>2, <2>3
<1> QED BY <1>1, <1>3, <1>5, <1>6 DEF h

(* A handler that is not the one called for is due to be set.              *)
GoodOrDue == Alive => \A s \in Sigs : Good(s) \/ Due(todo, s)

(* What setinteractive and setjobctl remember is what set asked for.       *)
FlagsInv == is_interactive = iflag /\ (rootshell => jobctl = jflag)

WantInv == todo \in Seq(Loop) /\ GoodOrDue /\ FlagsInv

LEMMA SignalSets ==
  /\ {SIGINT} \union Quiet \in SUBSET (0 .. MAXSIG) /\ Background \in SUBSET (0 .. MAXSIG)
  /\ Tty \in SUBSET (0 .. MAXSIG)
  /\ Sigs \in SUBSET (0 .. MAXSIG)
  /\ \A s \in Tty : s # SIGINT /\ s \notin Quiet
BY TrapAssumption DEF Sigs

(* Where neither traps nor flags nor beliefs change, nothing gets worse.   *)
LEMMA GoodKept ==
  ASSUME NEW s, trap'[s] = trap[s], sigmode'[s] = sigmode[s],
         UNCHANGED <<rootshell, iflag, jflag, nojob>>, Good(s)
  PROVE  Good(s)'
BY DEF Good, Wanted

(* A change to s does its part and leaves the rest as due as before.       *)
LEMMA ChangeKeeps ==
  ASSUME WantInv, NEW s, Alive, todo # <<>>, NextChange(s), UNCHANGED flags,
         \A r \in Sigs \ {s} : trap'[r] = trap[r] /\ sigmode'[r] = sigmode[r],
         s \in Sigs => Good(s)' \/ (Head(todo).op # "set" /\ trap'[s] = trap[s]
                                                        /\ sigmode'[s] = sigmode[s])
  PROVE  WantInv'
<1>1. /\ Remaining(s) \in Seq(Loop)
      /\ \A r : Due(todo, r) => Due(Remaining(s), r) \/ (r = s /\ Head(todo).op = "set")
  BY RemainingFacts DEF WantInv
<1>2. todo' = Remaining(s) \/ (Remaining(s) = <<>> /\ todo' = <<>>)
  BY DEF NextChange, RaiseInt
<1>3. todo' = Remaining(s)
  BY <1>2
<1>4. FlagsInv'
  BY DEF flags, WantInv, FlagsInv
<1>5. ASSUME NEW r \in Sigs PROVE Good(r)' \/ Due(todo', r)
  <2>1. Good(r) \/ Due(todo, r)
    BY DEF WantInv, GoodOrDue
  <2>2. CASE trap'[r] = trap[r] /\ sigmode'[r] = sigmode[r]
                /\ ~(r = s /\ Head(todo).op = "set")
    BY <1>1, <1>3, <2>1, <2>2, GoodKept DEF flags
  <2>3. CASE Good(r)'
    BY <2>3
  <2>4. CASE r = s /\ Head(todo).op = "set"
    BY <2>4
  <2> QED BY <2>2, <2>3, <2>4
<1> QED BY <1>1, <1>3, <1>4, <1>5 DEF WantInv, GoodOrDue

LEMMA SetsignalKeeps ==
  ASSUME WantInv, KernelInv, setsignal
  PROVE  WantInv'
<1>1. PICK s \in Sigs :
        /\ IF Fixed(sigmode[s]) \/ sigmode[s] = Wanted(s) THEN UNCHANGED <<sigmode, disp>>
           ELSE /\ sigmode' = [sigmode EXCEPT ![s] = Wanted(s)]
                /\ disp' = [disp EXCEPT ![s] = NewDisp(s)]
        /\ NextChange(s)
  BY DEF setsignal
<1>2. Alive /\ todo # <<>> /\ UNCHANGED flags /\ trap' = trap
  BY DEF setsignal
<1>3. sigmode \in [Sigs -> Modes]
  BY DEF KernelInv, HandlersTyped
<1>4. \A r \in Sigs \ {s} : sigmode'[r] = sigmode[r]
  BY <1>1, <1>3
<1>5. Wanted(s)' = Wanted(s)
  BY <1>2 DEF Wanted, flags
<1>6. sigmode'[s] \in {Wanted(s), "HARD_IGN"}
  BY <1>1, <1>3 DEF Fixed
<1>7. Good(s)'
  BY <1>5, <1>6 DEF Good
<1> QED BY <1>1, <1>2, <1>4, <1>7, ChangeKeeps

LEMMA ProbeKeeps ==
  ASSUME WantInv, KernelInv, setsignal_probe
  PROVE  WantInv'
<1>1. PICK s \in Sigs : Current(s) /\ sigmode' = [sigmode EXCEPT ![s] = Probe(s)]
  BY DEF setsignal_probe
<1>2. Alive /\ todo # <<>> /\ Head(todo).op = "set" /\ UNCHANGED <<flags, todo, pc, trap>>
  BY DEF setsignal_probe
<1>3. sigmode \in [Sigs -> Modes] /\ todo \in Seq(Loop)
  BY DEF KernelInv, HandlersTyped, WantInv
<1>4. Due(todo, s)
  <2>1. 1 \in 1 .. Len(todo) /\ Head(todo) = todo[1]
    BY <1>2, <1>3, LenProperties, EmptySeq, HeadTailProperties
  <2> QED BY <1>1, <1>2, <2>1 DEF Due, Current
<1>5. ASSUME NEW r \in Sigs PROVE Good(r)' \/ Due(todo', r)
  <2>1. CASE r = s
    BY <1>2, <1>4, <2>1
  <2>2. CASE r # s
    <3>1. sigmode'[r] = sigmode[r] /\ trap'[r] = trap[r]
      BY <1>1, <1>2, <1>3, <2>2
    <3>2. Good(r) \/ Due(todo, r)
      BY <1>2 DEF WantInv, GoodOrDue
    <3> QED BY <1>2, <3>1, <3>2, GoodKept DEF flags
  <2> QED BY <2>1, <2>2
<1>6. FlagsInv'
  BY <1>2 DEF flags, WantInv, FlagsInv
<1> QED BY <1>2, <1>3, <1>5, <1>6 DEF WantInv, GoodOrDue

LEMMA IgnoresigKeeps ==
  ASSUME WantInv, KernelInv, ignoresig
  PROVE  WantInv'
<1>1. PICK s \in Sigs :
        /\ sigmode' = IF Head(todo).op = "ignore" \/ sigmode[s] = "IGN"
                      THEN [sigmode EXCEPT ![s] = "HARD_IGN"] ELSE sigmode
        /\ NextChange(s)
  BY DEF ignoresig
<1>2. Alive /\ todo # <<>> /\ Head(todo).op # "set" /\ UNCHANGED flags /\ trap' = trap
  BY DEF ignoresig
<1>3. sigmode \in [Sigs -> Modes]
  BY DEF KernelInv, HandlersTyped
<1>4. \A r \in Sigs \ {s} : sigmode'[r] = sigmode[r]
  BY <1>1, <1>3
<1>5. sigmode'[s] = "HARD_IGN" \/ sigmode'[s] = sigmode[s]
  BY <1>1, <1>3
<1>6. sigmode'[s] = "HARD_IGN" => Good(s)'
  BY DEF Good
<1> QED BY <1>1, <1>2, <1>4, <1>5, <1>6, ChangeKeeps

LEMMA ClearKeeps ==
  ASSUME WantInv, KernelInv, clear_traps
  PROVE  WantInv'
<1>1. PICK s \in 0 .. MAXSIG :
        IF trap[s] = "action"
        THEN /\ trap' = [trap EXCEPT ![s] = "NULL"]
             /\ todo' = Each("set", {s} \ {0}) \o Remaining(s)
             /\ UNCHANGED <<intpending, pc, dots>>
        ELSE NextChange(s) /\ UNCHANGED trap
  BY DEF clear_traps
<1>2. Alive /\ todo # <<>> /\ Head(todo).op = "clear" /\ UNCHANGED flags /\ sigmode' = sigmode
  BY DEF clear_traps
<1>3. CASE NextChange(s) /\ UNCHANGED trap
  BY <1>2, <1>3, ChangeKeeps
<1>4. CASE /\ trap' = [trap EXCEPT ![s] = "NULL"]
           /\ todo' = Each("set", {s} \ {0}) \o Remaining(s)
           /\ UNCHANGED pc
  <2> DEFINE e == Each("set", {s} \ {0})
  <2>1. e \in Seq(Loop) /\ \A r : Due(e, r) <=> r \in {s} \ {0}
    BY EachFacts DEF Ops
  <2>2. Remaining(s) \in Seq(Loop) /\ \A r : Due(todo, r) => Due(Remaining(s), r)
    BY <1>2, RemainingFacts DEF WantInv
  <2>3. todo' \in Seq(Loop) /\ \A r : Due(todo', r) <=> Due(e, r) \/ Due(Remaining(s), r)
    <3> HIDE DEF e
    <3>1. /\ e \o Remaining(s) \in Seq(Loop)
          /\ \A r : Due(e \o Remaining(s), r) <=> Due(e, r) \/ Due(Remaining(s), r)
      BY <2>1, <2>2, DueConcat
    <3> QED BY <1>4, <3>1 DEF e
  <2>4. ASSUME NEW r \in Sigs PROVE Good(r)' \/ Due(todo', r)
    <3>1. Good(r) \/ Due(todo, r)
      BY <1>2 DEF WantInv, GoodOrDue
    <3>2. CASE r = s
      <4>1. r # 0
        BY DEF Sigs
      <4> QED BY <2>1, <2>3, <3>2, <4>1
    <3>3. CASE r # s
      <4>1. trap'[r] = trap[r] /\ sigmode'[r] = sigmode[r]
        BY <1>2, <1>4, <3>3, SignalSets DEF KernelInv, TrapTyped
      <4> QED BY <1>2, <2>2, <2>3, <3>1, <4>1, GoodKept DEF flags
    <3> QED BY <3>2, <3>3
  <2>5. FlagsInv'
    BY <1>2 DEF flags, WantInv, FlagsInv
  <2> QED BY <2>3, <2>4, <2>5 DEF WantInv, GoodOrDue
<1> QED BY <1>1, <1>3, <1>4

(* A command starts with nothing left to do.                               *)
LEMMA ReadyGood ==
  ASSUME WantInv, Ready
  PROVE  Alive /\ \A s \in Sigs : Good(s)
<1>1. Alive /\ todo = <<>>
  BY DEF Ready, Alive
<1>2. \A s : ~Due(todo, s)
  BY <1>1 DEF Due
<1> QED BY <1>1, <1>2 DEF WantInv, GoodOrDue

LEMMA TrapcmdKeeps ==
  ASSUME WantInv, KernelInv, NEW s \in 0 .. MAXSIG, NEW a, trapcmd(s, a)
  PROVE  WantInv'
<1>1. \A r \in Sigs : Good(r)
  BY ReadyGood DEF trapcmd
<1>2. /\ trap' = [trap EXCEPT ![s] = a] /\ sigmode' = sigmode /\ UNCHANGED flags
      /\ todo' = IF s = 0 THEN <<>> ELSE Each("set", {s})
  BY DEF trapcmd
<1>3. Each("set", {s}) \in Seq(Loop) /\ Due(Each("set", {s}), s)
  BY EachFacts DEF Ops
<1>4. todo' \in Seq(Loop)
  BY <1>2, <1>3
<1>5. ASSUME NEW r \in Sigs PROVE Good(r)' \/ Due(todo', r)
  <2>1. CASE r = s
    BY <1>2, <1>3, <2>1 DEF Sigs
  <2>2. CASE r # s
    <3>1. trap'[r] = trap[r]
      BY <1>2, <2>2, SignalSets DEF KernelInv, TrapTyped
    <3> QED BY <1>1, <1>2, <3>1, GoodKept DEF flags
  <2> QED BY <2>1, <2>2
<1>6. FlagsInv'
  BY <1>2 DEF flags, WantInv, FlagsInv
<1> QED BY <1>4, <1>5, <1>6 DEF WantInv, GoodOrDue

LEMMA SetcmdKeeps ==
  ASSUME ~BadOptions, WantInv, NEW i \in BOOLEAN, NEW j \in BOOLEAN, NEW bad \in BOOLEAN,
         setcmd(i, j, bad)
  PROVE  WantInv'
<1> DEFINE q == setinteractive(i)
           r == setjobctl(j)
           I == {SIGINT} \union Quiet
<1>1. \A s \in Sigs : Good(s)
  BY ReadyGood DEF setcmd
<1>2. /\ iflag' = i /\ jflag' = j /\ todo' = q \o r /\ is_interactive' = i
      /\ jobctl' = (IF rootshell THEN j ELSE jobctl)
      /\ UNCHANGED <<trap, sigmode, rootshell, nojob>>
  BY DEF setcmd, handlers
<1>3. /\ q \in Seq(Loop)
      /\ ~(i = is_interactive) => \A s \in I : Due(q, s)
  BY SignalSets, EachFacts DEF setinteractive, Ops
<1>4. /\ r \in Seq(Loop)
      /\ ~(j = jobctl) /\ rootshell => \A s \in Tty : Due(r, s)
  BY SignalSets, EachFacts DEF setjobctl, Ops
<1> HIDE DEF q, r
<1>5. todo' \in Seq(Loop) /\ \A s : Due(todo', s) <=> Due(q, s) \/ Due(r, s)
  BY <1>2, <1>3, <1>4, DueConcat
<1>6. is_interactive = iflag /\ (rootshell => jobctl = jflag)
  BY DEF WantInv, FlagsInv
<1>7. ASSUME NEW s \in Sigs PROVE Good(s)' \/ Due(todo', s)
  <2>1. CASE s \in I
    <3>1. CASE i = is_interactive
      <4>1. Wanted(s)' = Wanted(s)
        BY <1>2, <1>6, <2>1, <3>1, SignalSets DEF Wanted
      <4> QED BY <1>1, <1>2, <4>1 DEF Good
    <3>2. CASE ~(i = is_interactive)
      BY <1>3, <1>5, <2>1, <3>2
    <3> QED BY <3>1, <3>2
  <2>2. CASE s \in Tty /\ rootshell
    <3>1. CASE j = jobctl
      <4>1. Wanted(s)' = Wanted(s)
        BY <1>2, <1>6, <2>2, <3>1, SignalSets DEF Wanted
      <4> QED BY <1>1, <1>2, <4>1 DEF Good
    <3>2. CASE ~(j = jobctl)
      BY <1>4, <1>5, <2>2, <3>2
    <3> QED BY <3>1, <3>2
  <2>3. CASE s \in Tty /\ ~rootshell
    <3>1. Wanted(s)' = Wanted(s)
      BY <1>2, <2>3, SignalSets DEF Wanted
    <3> QED BY <1>1, <1>2, <3>1 DEF Good
  <2>4. CASE s \notin I /\ s \notin Tty
    <3>1. Wanted(s)' = Wanted(s)
      BY <1>2, <2>4 DEF Wanted
    <3> QED BY <1>1, <1>2, <3>1 DEF Good
  <2> QED BY <2>1, <2>2, <2>3, <2>4
<1>8. FlagsInv'
  <2>1. is_interactive' = iflag'
    BY <1>2
  <2>2. rootshell' => jobctl' = jflag'
    BY <1>2
  <2> QED BY <2>1, <2>2 DEF FlagsInv
<1> QED BY <1>5, <1>7, <1>8 DEF WantInv, GoodOrDue

LEMMA ExeccmdKeeps ==
  ASSUME WantInv, execcmd
  PROVE  WantInv'
<1> DEFINE q == setinteractive(FALSE)
           r == setjobctl(FALSE)
           I == {SIGINT} \union Quiet
<1>1. \A s \in Sigs : Good(s)
  BY ReadyGood DEF execcmd
<1>2. /\ ~iflag' /\ ~jflag' /\ todo' = q \o r /\ is_interactive' = FALSE /\ iflag' = FALSE
      /\ jflag' = FALSE /\ jobctl' = (IF rootshell THEN FALSE ELSE jobctl)
      /\ UNCHANGED <<trap, sigmode, rootshell, nojob>>
  BY DEF execcmd, handlers
<1>3. /\ q \in Seq(Loop)
      /\ ~(FALSE = is_interactive) => \A s \in I : Due(q, s)
  BY SignalSets, EachFacts DEF setinteractive, Ops
<1>4. /\ r \in Seq(Loop)
      /\ ~(FALSE = jobctl) /\ rootshell => \A s \in Tty : Due(r, s)
  BY SignalSets, EachFacts DEF setjobctl, Ops
<1> HIDE DEF q, r
<1>5. todo' \in Seq(Loop) /\ \A s : Due(todo', s) <=> Due(q, s) \/ Due(r, s)
  BY <1>2, <1>3, <1>4, DueConcat
<1>6. is_interactive = iflag /\ (rootshell => jobctl = jflag)
  BY DEF WantInv, FlagsInv
<1>7. ASSUME NEW s \in Sigs PROVE Good(s)' \/ Due(todo', s)
  <2>1. CASE s \in I /\ ~(FALSE = is_interactive)
    BY <1>3, <1>5, <2>1
  <2>2. CASE s \in Tty /\ rootshell /\ ~(FALSE = jobctl)
    BY <1>4, <1>5, <2>2
  <2>3. CASE /\ ~(s \in I /\ ~(FALSE = is_interactive))
             /\ ~(s \in Tty /\ rootshell /\ ~(FALSE = jobctl))
    <3>1. Wanted(s)' = Wanted(s)
      BY <1>2, <1>6, <2>3, SignalSets DEF Wanted
    <3> QED BY <1>1, <1>2, <3>1 DEF Good
  <2> QED BY <2>1, <2>2, <2>3
<1>8. FlagsInv'
  <2>1. is_interactive' = iflag'
    BY <1>2
  <2>2. rootshell' => jobctl' = jflag'
    BY <1>2
  <2> QED BY <2>1, <2>2 DEF FlagsInv
<1> QED BY <1>5, <1>7, <1>8 DEF WantInv, GoodOrDue

(* The child gives up what the parent caught, and what a child of an       *)
(* interactive shell is not to ignore is set again.                        *)
LEMMA ForkshellKeeps ==
  ASSUME WantInv, NEW m, forkshell(m)
  PROVE  WantInv'
<1> DEFINE I == {SIGINT} \union Quiet
           c == Each("clear", 0 .. MAXSIG)
           q == IF rootshell /\ m # "NOJOB" /\ jflag THEN Each("set", Tty)
                ELSE IF m = "BG" THEN Each("ignore", Background) ELSE <<>>
           r == IF rootshell /\ iflag THEN Each("set", I) ELSE <<>>
<1>1. \A s \in Sigs : Good(s)
  BY ReadyGood DEF forkshell
<1>2. /\ ~rootshell' /\ todo' = c \o (q \o r)
      /\ nojob' = (nojob \/ (m = "NOJOB" /\ rootshell /\ jflag))
      /\ UNCHANGED <<trap, sigmode, iflag, jflag, is_interactive>>
  BY DEF forkshell, handlers, Resets
<1>3. c \in Seq(Loop)
  BY EachFacts DEF Ops
<1>4. /\ q \in Seq(Loop)
      /\ rootshell /\ m # "NOJOB" /\ jflag => \A s \in Tty : Due(q, s)
  <2>1. /\ Each("set", Tty) \in Seq(Loop) /\ Each("ignore", Background) \in Seq(Loop)
        /\ <<>> \in Seq(Loop) /\ \A s \in Tty : Due(Each("set", Tty), s)
    BY SignalSets, EachFacts, EmptySeq DEF Ops
  <2> QED BY <2>1
<1>5. r \in Seq(Loop) /\ (rootshell /\ iflag => \A s \in I : Due(r, s))
  <2>1. Each("set", I) \in Seq(Loop) /\ <<>> \in Seq(Loop) /\ \A s \in I : Due(Each("set", I), s)
    BY SignalSets, EachFacts, EmptySeq DEF Ops
  <2> QED BY <2>1
<1> HIDE DEF c, q, r
<1>6. q \o r \in Seq(Loop) /\ \A s : Due(q, s) \/ Due(r, s) => Due(q \o r, s)
  BY <1>4, <1>5, DueConcat
<1>7. todo' \in Seq(Loop) /\ \A s : Due(q \o r, s) => Due(todo', s)
  BY <1>2, <1>3, <1>6, DueConcat
<1>8. ASSUME NEW s \in Sigs PROVE Good(s)' \/ Due(todo', s)
  <2>1. CASE s \in I /\ rootshell /\ iflag
    BY <1>5, <1>6, <1>7, <2>1
  <2>2. CASE s \in Tty /\ rootshell /\ m # "NOJOB" /\ jflag
    BY <1>4, <1>6, <1>7, <2>2
  <2>3. CASE s \in Tty /\ rootshell /\ m = "NOJOB" /\ jflag
    BY <1>2, <2>3 DEF Good
  <2>4. CASE s \in Tty /\ ~(rootshell /\ jflag)
    <3>1. Wanted(s)' = Wanted(s)
      BY <1>2, <2>4, SignalSets DEF Wanted
    <3> QED BY <1>1, <1>2, <3>1 DEF Good
  <2>5. CASE s \notin Tty /\ ~(s \in I /\ rootshell /\ iflag)
    <3>1. Wanted(s)' = Wanted(s)
      BY <1>2, <2>5 DEF Wanted
    <3> QED BY <1>1, <1>2, <2>5, <3>1 DEF Good
  <2> QED BY <2>1, <2>2, <2>3, <2>4, <2>5
<1>9. FlagsInv'
  BY <1>2 DEF WantInv, FlagsInv
<1> QED BY <1>7, <1>8, <1>9 DEF WantInv, GoodOrDue

(* A shell on its way to an exec has given up its command loop.            *)
ExecInv == pc = "exec" => ~iflag

LEMMA StepExec == ExecInv /\ KernelInv /\ [Next]_vars => ExecInv'
<1> SUFFICES ASSUME ExecInv, KernelInv, [Next]_vars, pc' = "exec" PROVE ~iflag'
  BY DEF ExecInv
<1>1. RaiseInt => pc' # "exec"
  BY DEF RaiseInt
<1>2. Change => pc' = pc /\ iflag' = iflag
  BY <1>1 DEF Change, setsignal_probe, setsignal, clear_traps, ignoresig, NextChange, flags
<1>3. Command => (pc' = pc /\ iflag' = iflag) \/ ~iflag'
  <2>1. execcmd => ~iflag'
    BY DEF execcmd
  <2>2. \A s, a, i, j, b : ~trapcmd(s, a) /\ ~setcmd(i, j, b)
    BY DEF trapcmd, setcmd
  <2>3. ~OtherCommand /\ ~CommandFails /\ ~shellexec /\ ~ShellProc
    BY DEF OtherCommand, CommandFails, shellexec, ShellProc
  <2>4. \A m : forkshell(m) => pc' = pc /\ iflag' = iflag
    BY DEF forkshell
  <2>5. ~exitshell
    BY DEF exitshell
  <2> QED BY <2>1, <2>2, <2>3, <2>4, <2>5 DEF Command
<1>4. ~CheckSignals /\ ~dotrap_done
  BY DEF CheckSignals, dotrap_done
<1>5. dotrap_next \/ dotrap_evaluated \/ dotrap_found => iflag' = iflag /\ pc # "exec"
  BY DEF dotrap_next, dotrap_evaluated, dotrap_found, Ready, flags
<1>6. dotrap_next => pc' = pc
  BY DEF dotrap_next
<1>7. ~dotrap_evaluated
  BY DEF dotrap_evaluated, Ready
<1>8. ~dotrap_found
  BY DEF dotrap_found
<1>9. ASSUME NEW s \in Sigs, Signal(s) PROVE pc' = pc /\ iflag' = iflag
  <2>1. disp[s] = "catch" \/ disp[s] = "ign" \/ disp[s] = "dfl"
    BY DEF KernelInv, HandlersTyped, Disps
  <2>2. onsig(s) => pc' = pc
    BY <1>1 DEF onsig
  <2> QED BY <1>9, <2>1, <2>2 DEF Signal, flags
<1> QED BY <1>2, <1>3, <1>4, <1>5, <1>6, <1>7, <1>8, <1>9 DEF Next, dotrap, ExecInv, vars

LEMMA SignalKeeps ==
  ASSUME WantInv, ExecInv, KernelInv, NEW s \in Sigs, Signal(s)
  PROVE  WantInv'
<1>1. /\ Alive
      /\ UNCHANGED <<trap, sigmode, rootshell, iflag, jflag, is_interactive, jobctl, nojob>>
  BY DEF Signal, handlers, flags
<1>2. disp[s] = "catch" \/ disp[s] = "ign" \/ disp[s] = "dfl"
  BY DEF KernelInv, HandlersTyped, Disps
<1>3. RaiseInt /\ ~Held => todo' = <<>> /\ (todo = <<>> \/ pc' = "exited")
  BY DEF RaiseInt, Held, ExecInv
<1>4. onsig(s) => todo' = todo \/ (todo' = <<>> /\ pc' = "exited")
  BY <1>3 DEF onsig
<1>5. todo' = todo \/ (todo' = <<>> /\ pc' = "exited")
  BY <1>2, <1>4 DEF Signal
<1>6. todo' \in Seq(Loop)
  BY <1>5, EmptySeq DEF WantInv
<1>7. FlagsInv'
  BY <1>1 DEF WantInv, FlagsInv
<1>8. GoodOrDue'
  <2>1. CASE pc' = "exited"
    BY <2>1 DEF GoodOrDue, Alive
  <2>2. CASE todo' = todo
    BY <1>1, <2>2, GoodKept DEF GoodOrDue, WantInv
  <2> QED BY <1>5, <2>1, <2>2
<1> QED BY <1>6, <1>7, <1>8 DEF WantInv

(* Everything else leaves the handlers and the loops alone.                *)
LEMMA RestKeeps ==
  ASSUME WantInv, KernelInv,
         \/ OtherCommand \/ CommandFails \/ shellexec \/ exitshell
         \/ dotrap \/ dotrap_evaluated \/ UNCHANGED vars
  PROVE  WantInv'
<1>1. UNCHANGED <<sigmode, rootshell, iflag, jflag, is_interactive, jobctl, nojob, todo>>
  BY DEF OtherCommand, CommandFails, shellexec, exitshell, dotrap, CheckSignals, dotrap_found,
         dotrap_next, dotrap_done, dotrap_evaluated, vars, handlers, flags
<1>2. \A s \in Sigs : trap'[s] = trap[s]
  <2>1. trap' = trap \/ trap' = [trap EXCEPT ![0] = "NULL"]
    BY DEF OtherCommand, CommandFails, shellexec, exitshell, dotrap, CheckSignals, dotrap_found,
         dotrap_next, dotrap_done, dotrap_evaluated, vars, handlers
  <2>2. 0 \notin Sigs /\ Sigs \subseteq 0 .. MAXSIG
    BY SignalSets DEF Sigs
  <2> QED BY <2>1, <2>2 DEF KernelInv, TrapTyped
<1>3. Alive' => Alive
  BY DEF OtherCommand, CommandFails, shellexec, exitshell, dotrap, CheckSignals, dotrap_found,
         dotrap_next, dotrap_done, dotrap_evaluated, vars, Ready, Executing, Alive
<1>4. FlagsInv'
  BY <1>1 DEF WantInv, FlagsInv
<1>5. GoodOrDue'
  BY <1>1, <1>2, <1>3, GoodKept DEF GoodOrDue, WantInv
<1> QED BY <1>1, <1>4, <1>5 DEF WantInv

LEMMA InitWants == Init => WantInv
<1> SUFFICES ASSUME Init PROVE WantInv
  OBVIOUS
<1> DEFINE I == {SIGINT} \union Quiet
           q == IF iflag THEN Each("set", I) ELSE <<>>
           r == IF jflag THEN Each("set", Tty) ELSE <<>>
<1>1. todo = q \o r
  BY DEF Init
<1>2. q \in Seq(Loop) /\ (iflag => \A s \in I : Due(q, s))
  <2>1. Each("set", I) \in Seq(Loop) /\ <<>> \in Seq(Loop) /\ \A s \in I : Due(Each("set", I), s)
    BY SignalSets, EachFacts, EmptySeq DEF Ops
  <2> QED BY <2>1
<1>3. r \in Seq(Loop) /\ (jflag => \A s \in Tty : Due(r, s))
  <2>1. /\ Each("set", Tty) \in Seq(Loop) /\ <<>> \in Seq(Loop)
        /\ \A s \in Tty : Due(Each("set", Tty), s)
    BY SignalSets, EachFacts, EmptySeq DEF Ops
  <2> QED BY <2>1
<1> HIDE DEF q, r
<1>4. todo \in Seq(Loop) /\ \A s : Due(todo, s) <=> Due(q, s) \/ Due(r, s)
  BY <1>1, <1>2, <1>3, DueConcat
<1>5. ASSUME NEW s \in Sigs PROVE Good(s) \/ Due(todo, s)
  <2>1. trap[s] = "NULL" /\ sigmode[s] = "unknown"
    BY SignalSets DEF Init
  <2>2. CASE (s \in I /\ iflag) \/ (s \in Tty /\ jflag)
    BY <1>2, <1>3, <1>4, <2>2
  <2>3. CASE ~((s \in I /\ iflag) \/ (s \in Tty /\ jflag))
    <3>1. Wanted(s) = "DFL"
      BY <2>1, <2>3 DEF Wanted
    <3> QED BY <2>1, <3>1 DEF Good
  <2> QED BY <2>2, <2>3
<1>6. FlagsInv
  BY DEF Init, FlagsInv
<1> QED BY <1>4, <1>5, <1>6 DEF WantInv, GoodOrDue

LEMMA StepWants ==
  ASSUME ~BadOptions, ~ShellProcs, KernelInv, WantInv, ExecInv, [Next]_vars
  PROVE  WantInv'
<1>1. CASE Change
  BY <1>1, ProbeKeeps, SetsignalKeeps, ClearKeeps, IgnoresigKeeps DEF Change
<1>2. CASE Command
  <2>1. ~ShellProc
    BY DEF ShellProc
  <2> QED BY <1>2, <2>1, TrapcmdKeeps, SetcmdKeeps, ForkshellKeeps, ExeccmdKeeps, RestKeeps
    DEF Command
<1>3. CASE dotrap \/ dotrap_evaluated \/ UNCHANGED vars
  BY <1>3, RestKeeps
<1> QED BY <1>1, <1>2, <1>3, SignalKeeps DEF Next

(* The handler in force is the one the traps and the flags call for, in a  *)
(* subshell too, whatever order they were changed in, if set is given no   *)
(* illegal option and no child executes a shell procedure.                 *)
THEOREM HandlersInForce ==
  ASSUME ~BadOptions, ~ShellProcs PROVE Spec => []WantedInForce
<1>1. WantInv => WantedInForce
  BY DEF WantInv, GoodOrDue, Good, Due, WantedInForce, AtRest
<1>2. KernelInv /\ WantInv /\ ExecInv /\ [Next]_vars => WantInv'
  BY StepWants
<1>3. Init => ExecInv
  BY DEF Init, ExecInv
<1> QED BY <1>1, <1>2, <1>3, InitKernel, StepKernel, InitWants, StepExec, PTL DEF Spec

----------------------------------------------------------------------------
(* Type correctness.                                                       *)

Dot == [sig : 0 .. MAXSIG, live : BOOLEAN]

PlaceOK ==
  /\ pc \in {"start", "cmd", "exec", "check", "scan", "exited", "crashed"}
  /\ scan \in 1 .. MAXSIG + 1 /\ dots \in Seq(Dot) /\ sent \in 0 .. MaxSent

LEMMA StepPlace ==
  ASSUME PlaceOK, KernelInv, [Next]_vars
  PROVE  PlaceOK'
<1>0. MAXSIG \in Nat /\ MAXSIG >= 1 /\ MaxSent \in Nat
  BY TrapAssumption
<1>1. pc' \in {"start", "cmd", "exec", "check", "scan", "exited", "crashed"}
  <2>1. \A s : NextChange(s) => pc' = pc \/ pc' \in {"check", "exited"}
    BY DEF NextChange, RaiseInt
  <2>2. Change => pc' = pc \/ pc' \in {"check", "exited"}
    BY <2>1 DEF Change, setsignal_probe, setsignal, clear_traps, ignoresig
  <2>3. Command => pc' = pc \/ pc' \in {"cmd", "exec", "check", "exited"}
    BY DEF Command, trapcmd, setcmd, forkshell, OtherCommand, CommandFails, execcmd, shellexec,
           ShellProc, exitshell
  <2>4. CheckSignals \/ dotrap_next \/ dotrap_done \/ dotrap_evaluated =>
          pc' = pc \/ pc' \in {"cmd", "scan", "exited"}
    BY DEF CheckSignals, dotrap_next, dotrap_done, dotrap_evaluated
  <2>5. ASSUME dotrap_found PROVE pc' = pc \/ pc' \in {"cmd", "crashed"}
    <3>1. scan \in 0 .. MAXSIG
      BY <1>0, <2>5 DEF dotrap_found, PlaceOK
    <3>2. trap[scan] \in {"NULL", "empty", "action"}
      BY <3>1 DEF KernelInv, TrapTyped
    <3> QED BY <2>5, <3>2 DEF dotrap_found
  <2>6. ASSUME NEW s \in Sigs, Signal(s) PROVE pc' = pc \/ pc' \in {"check", "exited"}
    <3>1. disp[s] = "catch" \/ disp[s] = "ign" \/ disp[s] = "dfl"
      BY DEF KernelInv, HandlersTyped, Disps
    <3>2. onsig(s) => pc' = pc \/ pc' \in {"check", "exited"}
      BY DEF onsig, RaiseInt
    <3> QED BY <2>6, <3>1, <3>2 DEF Signal
  <2> QED BY <2>2, <2>3, <2>4, <2>5, <2>6 DEF PlaceOK, Next, dotrap, vars
<1>2. scan' \in 1 .. MAXSIG + 1
  <2>1. dotrap_found => scan' = scan \/ scan' = 1
    <3>1. dotrap_found => scan \in 0 .. MAXSIG
      BY <1>0 DEF dotrap_found, PlaceOK
    <3>2. dotrap_found => trap[scan] \in {"NULL", "empty", "action"}
      BY <3>1 DEF KernelInv, TrapTyped
    <3> QED BY <3>2 DEF dotrap_found, Resume
  <2>2. dotrap_next => scan <= MAXSIG /\ scan' = scan + 1
    BY DEF dotrap_next
  <2>3. CheckSignals \/ dotrap_done \/ dotrap_evaluated => scan' = scan \/ scan' = 1
    BY DEF CheckSignals, dotrap_done, dotrap_evaluated, Resume
  <2>4. Change \/ Command => scan' = scan
    BY DEF Change, setsignal_probe, setsignal, clear_traps, ignoresig,
           Command, trapcmd, setcmd, forkshell, OtherCommand, CommandFails, execcmd, shellexec,
           ShellProc, exitshell
  <2>5. \A s : Signal(s) => scan' = scan
    BY DEF Signal
  <2>6. scan' = scan \/ scan' = 1 \/ (scan <= MAXSIG /\ scan' = scan + 1)
    BY <2>1, <2>2, <2>3, <2>4, <2>5 DEF Next, dotrap, vars
  <2> QED BY <1>0, <2>6 DEF PlaceOK
<1>3. dots' \in Seq(Dot)
  <2>0. dots \in Seq(Dot) /\ <<>> \in Seq(Dot)
    BY EmptySeq DEF PlaceOK
  <2>1. \A s : NextChange(s) => dots' = dots \/ dots' = <<>>
    BY DEF NextChange, RaiseInt
  <2>2. Change => dots' = dots \/ dots' = <<>>
    BY <2>1 DEF Change, setsignal_probe, setsignal, clear_traps, ignoresig
  <2>3. \A i, j, b, m : setcmd(i, j, b) \/ forkshell(m) \/ OtherCommand \/ CommandFails \/ execcmd
          \/ shellexec \/ ShellProc
          => dots' = dots \/ dots' = <<>>
    BY DEF setcmd, forkshell, OtherCommand, CommandFails, execcmd, shellexec, ShellProc
  <2>4. ASSUME NEW s \in 0 .. MAXSIG, NEW a, trapcmd(s, a) PROVE dots' \in Seq(Dot)
    <3>1. Freed(s) \in Seq(Dot)
      <4>1. Len(dots) \in Nat /\ DOMAIN dots = 1 .. Len(dots)
        BY <2>0, LenProperties
      <4>2. \A d \in 1 .. Len(dots) : dots[d] \in Dot
        BY <2>0, ElementOfSeq
      <4>3. Freed(s) \in [1 .. Len(dots) -> Dot]
        BY <4>1, <4>2 DEF Freed, Dot
      <4> QED BY <4>1, <4>3, SeqDef
    <3> QED BY <2>0, <2>4, <3>1 DEF trapcmd
  <2>5. exitshell => dots' = dots \/ dots' = <<[sig |-> 0, live |-> TRUE]>>
    BY DEF exitshell
  <2>6. [sig |-> 0, live |-> TRUE] \in Dot
    BY <1>0 DEF Dot
  <2>7. <<[sig |-> 0, live |-> TRUE]>> \in Seq(Dot)
    <3> DEFINE d == [sig |-> 0, live |-> TRUE]
    <3>1. d \in Dot
      BY <2>6
    <3> HIDE DEF d
    <3>2. <<d>> \in Seq(Dot)
      BY <3>1
    <3> QED BY <3>2 DEF d
  <2>8. ASSUME dotrap_found PROVE dots' \in Seq(Dot)
    <3>1. scan \in 0 .. MAXSIG
      BY <1>0, <2>8 DEF dotrap_found, PlaceOK
    <3>2. trap[scan] \in {"NULL", "empty", "action"}
      BY <3>1 DEF KernelInv, TrapTyped
    <3>3. [sig |-> scan, live |-> TRUE] \in Dot
      BY <3>1 DEF Dot
    <3>4. Append(dots, [sig |-> scan, live |-> TRUE]) \in Seq(Dot)
      BY <2>0, <3>3, AppendProperties
    <3>5. dots' = dots \/ dots' = Append(dots, [sig |-> scan, live |-> TRUE])
      BY <2>8, <3>2 DEF dotrap_found
    <3> QED BY <2>0, <3>4, <3>5
  <2>9. ASSUME dotrap_evaluated PROVE dots' \in Seq(Dot)
    <3>1. dots # <<>> /\ dots' = SubSeq(dots, 1, Len(dots) - 1)
      BY <2>9 DEF dotrap_evaluated
    <3>2. Len(dots) \in Nat /\ Len(dots) >= 1
      BY <2>0, <3>1, LenProperties, EmptySeq
    <3>3. 1 \in 1 .. Len(dots) + 1 /\ Len(dots) - 1 \in 1 - 1 .. Len(dots)
      BY <3>2
    <3> QED BY <2>0, <3>1, <3>3, SubSeqProperties
  <2>10. CheckSignals \/ dotrap_next \/ dotrap_done => dots' = dots
    BY DEF CheckSignals, dotrap_next, dotrap_done
  <2>11. ASSUME NEW s \in Sigs, Signal(s) PROVE dots' = dots \/ dots' = <<>>
    <3>1. disp[s] = "catch" \/ disp[s] = "ign" \/ disp[s] = "dfl"
      BY DEF KernelInv, HandlersTyped, Disps
    <3>2. onsig(s) => dots' = dots \/ dots' = <<>>
      BY DEF onsig, RaiseInt
    <3> QED BY <2>11, <3>1, <3>2 DEF Signal
  <2>12. Command => dots' \in Seq(Dot)
    BY <2>0, <2>3, <2>4, <2>5, <2>7 DEF Command
  <2> QED BY <2>0, <2>2, <2>8, <2>9, <2>10, <2>11, <2>12 DEF Next, dotrap, vars
<1>4. sent' \in 0 .. MaxSent
  <2>1. \A s : Signal(s) => sent < MaxSent /\ sent' = sent + 1
    BY DEF Signal
  <2>2. Change \/ Command \/ dotrap \/ dotrap_evaluated \/ UNCHANGED vars => sent' = sent
    BY DEF Change, setsignal_probe, setsignal, clear_traps, ignoresig,
           Command, trapcmd, setcmd, forkshell, OtherCommand, CommandFails, execcmd, shellexec,
           ShellProc, exitshell,
           dotrap, CheckSignals, dotrap_found, dotrap_next, dotrap_done, dotrap_evaluated, vars
  <2>3. sent' = sent \/ (sent < MaxSent /\ sent' = sent + 1)
    BY <2>1, <2>2 DEF Next
  <2> QED BY <1>0, <2>3 DEF PlaceOK
<1> QED BY <1>1, <1>2, <1>3, <1>4 DEF PlaceOK

(* The loops to be run, whatever set and fork and shell procedures add.    *)
LoopsOK == todo \in Seq(Loop)

LEMMA InitLoops == Init => LoopsOK
BY InitWants DEF WantInv, LoopsOK

LEMMA StepLoops ==
  ASSUME LoopsOK, KernelInv, [Next]_vars
  PROVE  LoopsOK'
<1> DEFINE I == {SIGINT} \union Quiet
<1>0. <<>> \in Seq(Loop) /\ todo \in Seq(Loop)
  BY EmptySeq DEF LoopsOK
<1>1. ASSUME NEW op \in Ops PROVE Each(op, Tty) \in Seq(Loop) /\ Each(op, I) \in Seq(Loop)
                               /\ Each(op, Background) \in Seq(Loop)
                               /\ Each(op, 0 .. MAXSIG) \in Seq(Loop)
                               /\ Each(op, Sigs) \in Seq(Loop)
  BY SignalSets, EachFacts
<1>2. "set" \in Ops /\ "clear" \in Ops /\ "ignore" \in Ops /\ "keep" \in Ops
  BY DEF Ops
<1>3. ASSUME NEW q, NEW r, q \in Seq(Loop), r \in Seq(Loop) PROVE q \o r \in Seq(Loop)
  BY <1>3, DueConcat
<1>4. ASSUME todo # <<>>, NEW s PROVE Remaining(s) \in Seq(Loop)
  BY <1>0, <1>4, RemainingFacts
<1>5. ASSUME Change PROVE LoopsOK'
  <2>1. todo # <<>>
    BY <1>5 DEF Change, setsignal_probe, setsignal, clear_traps, ignoresig
  <2>2. \A s : NextChange(s) => todo' \in Seq(Loop)
    BY <1>0, <1>4, <2>1 DEF NextChange, RaiseInt
  <2>3. ASSUME clear_traps PROVE todo' \in Seq(Loop)
    <3>1. PICK s \in 0 .. MAXSIG :
            \/ todo' = Each("set", {s} \ {0}) \o Remaining(s)
            \/ NextChange(s)
      BY <2>3 DEF clear_traps
    <3>2. {s} \ {0} \in SUBSET (0 .. MAXSIG)
      OBVIOUS
    <3>3. Each("set", {s} \ {0}) \in Seq(Loop)
      BY <1>2, <3>2, EachFacts
    <3>4. Remaining(s) \in Seq(Loop)
      BY <1>4, <2>1
    <3>5. Each("set", {s} \ {0}) \o Remaining(s) \in Seq(Loop)
      BY <1>3, <3>3, <3>4
    <3> QED BY <2>2, <3>1, <3>5
  <2>4. setsignal_probe => todo' = todo
    BY DEF setsignal_probe
  <2>5. setsignal \/ ignoresig => \E s : NextChange(s)
    BY DEF setsignal, ignoresig
  <2> QED BY <1>0, <1>5, <2>2, <2>3, <2>4, <2>5 DEF Change, LoopsOK
<1>6. ASSUME NEW i \in BOOLEAN, NEW j \in BOOLEAN, NEW bad \in BOOLEAN, setcmd(i, j, bad)
      PROVE  LoopsOK'
  <2>1. setinteractive(i) \in Seq(Loop) /\ setjobctl(j) \in Seq(Loop)
    BY <1>0, <1>1, <1>2 DEF setinteractive, setjobctl
  <2>2. setinteractive(i) \o setjobctl(j) \in Seq(Loop)
    BY <1>3, <2>1
  <2>3. todo' = todo \/ todo' = setinteractive(i) \o setjobctl(j)
    BY <1>6 DEF setcmd
  <2> QED BY <1>0, <2>2, <2>3 DEF LoopsOK
<1>7. ASSUME NEW m, forkshell(m) PROVE LoopsOK'
  <2> DEFINE c == Each("clear", 0 .. MAXSIG)
             q == IF rootshell /\ m # "NOJOB" /\ jflag THEN Each("set", Tty)
                  ELSE IF m = "BG" THEN Each("ignore", Background) ELSE <<>>
             r == IF rootshell /\ iflag THEN Each("set", I) ELSE <<>>
  <2>1. c \in Seq(Loop) /\ q \in Seq(Loop) /\ r \in Seq(Loop)
    BY <1>0, <1>1, <1>2
  <2>2. todo' = c \o (q \o r)
    BY <1>7 DEF forkshell, Resets
  <2> HIDE DEF c, q, r
  <2>3. q \o r \in Seq(Loop)
    BY <1>3, <2>1
  <2>4. c \o (q \o r) \in Seq(Loop)
    BY <1>3, <2>1, <2>3
  <2> QED BY <2>2, <2>4 DEF LoopsOK
<1>8. ASSUME ShellProc PROVE LoopsOK'
  <2>1. Each("clear", 0 .. MAXSIG) \in Seq(Loop) /\ Each("keep", Sigs) \in Seq(Loop)
    BY <1>1, <1>2
  <2>2. Each("clear", 0 .. MAXSIG) \o Each("keep", Sigs) \in Seq(Loop)
    BY <1>3, <2>1
  <2> QED BY <1>8, <2>2 DEF LoopsOK, ShellProc
<1>9. ASSUME NEW s \in 0 .. MAXSIG, NEW a, trapcmd(s, a) PROVE LoopsOK'
  <2>1. s \in 0 .. MAXSIG
    OBVIOUS
  <2>2. Each("set", {s}) \in Seq(Loop)
    BY <1>2, <2>1, EachFacts
  <2> QED BY <1>0, <1>9, <2>2 DEF LoopsOK, trapcmd
<1>10. ASSUME NEW s \in Sigs, Signal(s) PROVE LoopsOK'
  <2>1. disp[s] = "catch" \/ disp[s] = "ign" \/ disp[s] = "dfl"
    BY DEF KernelInv, HandlersTyped, Disps
  <2>2. onsig(s) => todo' = todo \/ todo' = <<>>
    BY DEF onsig, RaiseInt
  <2> QED BY <1>0, <1>10, <2>1, <2>2 DEF Signal, LoopsOK
<1>11. OtherCommand \/ CommandFails \/ shellexec \/ exitshell \/ dotrap \/ dotrap_evaluated
         \/ UNCHANGED vars => todo' = todo
  BY DEF OtherCommand, CommandFails, shellexec, exitshell, dotrap, CheckSignals, dotrap_found,
         dotrap_next, dotrap_done, dotrap_evaluated, vars
<1>12. ASSUME execcmd PROVE LoopsOK'
  <2>1. setinteractive(FALSE) \in Seq(Loop) /\ setjobctl(FALSE) \in Seq(Loop)
    BY <1>0, <1>1, <1>2 DEF setinteractive, setjobctl
  <2>2. setinteractive(FALSE) \o setjobctl(FALSE) \in Seq(Loop)
    BY <1>3, <2>1
  <2> QED BY <1>12, <2>2 DEF execcmd, LoopsOK
<1>13. Command => LoopsOK'
  BY <1>0, <1>6, <1>7, <1>8, <1>9, <1>11, <1>12 DEF Command, LoopsOK
<1> QED BY <1>0, <1>5, <1>10, <1>11, <1>13 DEF Next, LoopsOK

GotOK == gotsig \in [Sigs -> BOOLEAN]

LEMMA StepGot ==
  ASSUME GotOK, KernelInv, [Next]_vars
  PROVE  GotOK'
<1>1. dotrap_found => gotsig' = [gotsig EXCEPT ![scan] = FALSE]
  BY DEF dotrap_found
<1>2. Change \/ Command \/ CheckSignals \/ dotrap_next \/ dotrap_done \/ dotrap_evaluated
        \/ UNCHANGED vars => gotsig' = gotsig
  BY DEF Change, setsignal_probe, setsignal, clear_traps, ignoresig,
         Command, trapcmd, setcmd, forkshell, OtherCommand, CommandFails, execcmd, shellexec,
         ShellProc, exitshell, CheckSignals, dotrap_next, dotrap_done, dotrap_evaluated, vars
<1>3. ASSUME NEW s \in Sigs, Signal(s)
      PROVE  gotsig' = gotsig \/ gotsig' = [gotsig EXCEPT ![s] = TRUE]
  <2>1. disp[s] = "catch" \/ disp[s] = "ign" \/ disp[s] = "dfl"
    BY DEF KernelInv, HandlersTyped, Disps
  <2>2. onsig(s) => gotsig' = gotsig \/ gotsig' = [gotsig EXCEPT ![s] = TRUE]
    BY DEF onsig
  <2> QED BY <1>3, <2>1, <2>2 DEF Signal
<1> QED BY <1>1, <1>2, <1>3 DEF GotOK, Next, dotrap

FlagsOK ==
  /\ sigpending \in BOOLEAN /\ intpending \in BOOLEAN
  /\ rootshell \in BOOLEAN /\ iflag \in BOOLEAN /\ jflag \in BOOLEAN
  /\ is_interactive \in BOOLEAN /\ jobctl \in BOOLEAN /\ nojob \in BOOLEAN

LEMMA StepFlags ==
  ASSUME FlagsOK, KernelInv, [Next]_vars
  PROVE  FlagsOK'
<1>1. sigpending' = sigpending \/ sigpending' \in BOOLEAN
  <2>1. \A s : onsig(s) => sigpending' = sigpending \/ sigpending' = TRUE
    BY DEF onsig
  <2>2. ASSUME NEW s \in Sigs, Signal(s) PROVE sigpending' = sigpending \/ sigpending' = TRUE
    <3>1. disp[s] = "catch" \/ disp[s] = "ign" \/ disp[s] = "dfl"
      BY DEF KernelInv, HandlersTyped, Disps
    <3> QED BY <2>1, <2>2, <3>1 DEF Signal
  <2>3. dotrap_done => sigpending' = FALSE
    BY DEF dotrap_done
  <2>4. Change \/ Command \/ CheckSignals \/ dotrap_next \/ dotrap_found \/ dotrap_evaluated
          \/ UNCHANGED vars => sigpending' = sigpending
    BY DEF Change, setsignal_probe, setsignal, clear_traps, ignoresig, Command, trapcmd, setcmd,
           forkshell, OtherCommand, CommandFails, execcmd, shellexec,
           ShellProc, exitshell, CheckSignals,
           dotrap_next, dotrap_found, dotrap_evaluated, vars
  <2> QED BY <2>2, <2>3, <2>4 DEF Next, dotrap
<1>2. intpending' = intpending \/ intpending' = TRUE \/ intpending' = FALSE
  <2>1. \A s : NextChange(s) => intpending' = intpending \/ intpending' = FALSE
    BY DEF NextChange, RaiseInt
  <2>2. Change => intpending' = intpending \/ intpending' = FALSE
    BY <2>1 DEF Change, setsignal_probe, setsignal, clear_traps, ignoresig
  <2>3. \A s : onsig(s) => intpending' = intpending \/ intpending' = TRUE \/ intpending' = FALSE
    BY DEF onsig, RaiseInt
  <2>4. ASSUME NEW s \in Sigs, Signal(s)
        PROVE  intpending' = intpending \/ intpending' = TRUE \/ intpending' = FALSE
    <3>1. disp[s] = "catch" \/ disp[s] = "ign" \/ disp[s] = "dfl"
      BY DEF KernelInv, HandlersTyped, Disps
    <3> QED BY <2>3, <2>4, <3>1 DEF Signal
  <2>5. Command \/ dotrap \/ dotrap_evaluated \/ UNCHANGED vars => intpending' = intpending
    BY DEF Command, trapcmd, setcmd, forkshell, OtherCommand, CommandFails, execcmd, shellexec,
           ShellProc, exitshell,
           dotrap, CheckSignals, dotrap_next, dotrap_found, dotrap_done, dotrap_evaluated, vars
  <2> QED BY <2>2, <2>4, <2>5 DEF Next
<1>3. \/ UNCHANGED flags
      \/ \E i, j, bad \in BOOLEAN : setcmd(i, j, bad)
      \/ \E m : forkshell(m)
      \/ execcmd \/ ShellProc
  <2>1. Change \/ dotrap \/ dotrap_evaluated => UNCHANGED flags
    BY DEF Change, setsignal_probe, setsignal, clear_traps, ignoresig, dotrap, CheckSignals,
           dotrap_next, dotrap_found, dotrap_done, dotrap_evaluated
  <2>2. \A s, a : trapcmd(s, a) \/ OtherCommand \/ CommandFails \/ shellexec \/ exitshell
          => UNCHANGED flags
    BY DEF trapcmd, OtherCommand, CommandFails, shellexec, exitshell
  <2>3. UNCHANGED vars => UNCHANGED flags
    BY DEF vars, flags
  <2>4. \A s : Signal(s) => UNCHANGED flags
    BY DEF Signal
  <2> QED BY <2>1, <2>2, <2>3, <2>4 DEF Next, Command
<1>4. ASSUME NEW i \in BOOLEAN, NEW j \in BOOLEAN, NEW bad \in BOOLEAN, setcmd(i, j, bad)
      PROVE  /\ rootshell' \in BOOLEAN /\ iflag' \in BOOLEAN /\ jflag' \in BOOLEAN
             /\ is_interactive' \in BOOLEAN /\ jobctl' \in BOOLEAN /\ nojob' \in BOOLEAN
  BY <1>4, Zenon DEF setcmd, FlagsOK
<1>5. ASSUME NEW m, forkshell(m)
      PROVE  /\ rootshell' \in BOOLEAN /\ iflag' \in BOOLEAN /\ jflag' \in BOOLEAN
             /\ is_interactive' \in BOOLEAN /\ jobctl' \in BOOLEAN /\ nojob' \in BOOLEAN
  BY <1>5, Zenon DEF forkshell, FlagsOK
<1>6. ASSUME execcmd \/ ShellProc
      PROVE  /\ rootshell' \in BOOLEAN /\ iflag' \in BOOLEAN /\ jflag' \in BOOLEAN
             /\ is_interactive' \in BOOLEAN /\ jobctl' \in BOOLEAN /\ nojob' \in BOOLEAN
  BY <1>6, Zenon DEF execcmd, ShellProc, FlagsOK
<1>7. ASSUME UNCHANGED flags
      PROVE  /\ rootshell' \in BOOLEAN /\ iflag' \in BOOLEAN /\ jflag' \in BOOLEAN
             /\ is_interactive' \in BOOLEAN /\ jobctl' \in BOOLEAN /\ nojob' \in BOOLEAN
  BY <1>7, Zenon DEF flags, FlagsOK
<1>8. sigpending' \in BOOLEAN /\ intpending' \in BOOLEAN
  BY <1>1, <1>2, Zenon DEF FlagsOK
<1> QED BY <1>3, <1>4, <1>5, <1>6, <1>7, <1>8, Zenon DEF FlagsOK

(* Every variable keeps to its type, whatever is trapped, set, forked or   *)
(* signalled, and in whatever order.                                       *)
THEOREM TrapsTypeCorrect == Spec => []TypeOK
<1>1. Init => PlaceOK /\ GotOK
  <2>1. <<>> \in Seq(Dot)
    BY EmptySeq
  <2> QED BY <2>1, TrapAssumption DEF Init, PlaceOK, GotOK
<1>2. Init => FlagsOK
  BY Zenon DEF Init, FlagsOK
<1>3. KernelInv /\ PlaceOK /\ [Next]_vars => PlaceOK'
  BY StepPlace
<1>4. KernelInv /\ LoopsOK /\ [Next]_vars => LoopsOK'
  BY StepLoops
<1>5. KernelInv /\ GotOK /\ [Next]_vars => GotOK'
  BY StepGot
<1>6. KernelInv /\ FlagsOK /\ [Next]_vars => FlagsOK'
  BY StepFlags
<1>7. ASSUME KernelInv, PlaceOK, LoopsOK, GotOK, FlagsOK PROVE TypeOK
  <2>1. {sigpending, intpending, rootshell, iflag, jflag, is_interactive, jobctl, nojob}
          \subseteq BOOLEAN
    BY <1>7, Zenon DEF FlagsOK
  <2>2. todo \in Seq([op : {"set", "clear", "ignore", "keep"}, sigs : SUBSET (0 .. MAXSIG)])
    BY <1>7 DEF LoopsOK, Loop, Ops
  <2>3. dots \in Seq([sig : 0 .. MAXSIG, live : BOOLEAN])
    BY <1>7 DEF PlaceOK, Dot
  <2>4. /\ trap \in [0 .. MAXSIG -> {"NULL", "empty", "action"}]
        /\ sigmode \in [Sigs -> {"unknown", "DFL", "CATCH", "IGN", "HARD_IGN"}]
        /\ disp \in [Sigs -> {"dfl", "catch", "ign"}] /\ entry \subseteq Sigs
    BY <1>7 DEF KernelInv, TrapTyped, HandlersTyped, Modes, Disps
  <2>5. /\ gotsig \in [Sigs -> BOOLEAN]
        /\ pc \in {"start", "cmd", "exec", "check", "scan", "exited", "crashed"}
        /\ scan \in 1 .. MAXSIG + 1 /\ sent \in 0 .. MaxSent
    BY <1>7 DEF GotOK, PlaceOK
  <2> QED BY <2>1, <2>2, <2>3, <2>4, <2>5 DEF TypeOK
<1> QED BY <1>1, <1>2, <1>3, <1>4, <1>5, <1>6, <1>7, InitKernel, StepKernel, InitLoops, PTL
    DEF Spec

----------------------------------------------------------------------------
(* How frames nest.                                                        *)

Evaluators == {"eval", "function"}

(* h is the last frame of the first n that has a handler, 0 if none has.   *)
Innermost(s, h, n) ==
  /\ h \in 0 .. n
  /\ h # 0 => s[h].kind \in Catchers
  /\ \A i \in h + 1 .. n : s[i].kind \in Offs

(* Every frame with a handler has saved the one that was in force.         *)
Chained(s) ==
  \A i \in 1 .. Len(s) :
    s[i].kind \in Catchers => Innermost(s, s[i].savehandler, i - 1)

Below(s, i, K) == \A j \in 1 .. i - 1 : s[j].kind \in K

(* What a frame may lie on: only builtins lie above a section, and only    *)
(* directly above a substitution's.                                        *)
Fits(s, i, kind) ==
  /\ kind \in Evaluators => Below(s, i, Evaluators)
  /\ kind \in {"backquote", "reading"} => Below(s, i, Evaluators \union {"backquote"})
  /\ kind \in {"builtin", "bltin"} =>
       \/ Below(s, i, Evaluators)
       \/ i > 1 /\ s[i - 1].kind = "reading"

Shaped(s) == \A i \in 1 .. Len(s) : Fits(s, i, s[i].kind)

SectionsOf(s) == {i \in 1 .. Len(s) : s[i].kind \in Offs}

----------------------------------------------------------------------------
(* The invariant.                                                          *)

NestInv ==
  /\ stack \in Seq(Frame) /\ handler \in Nat
  /\ exception \in {"none", "EXINT", "EXERROR"}
  /\ Chained(stack) /\ Shaped(stack)
  /\ Innermost(stack, handler, Len(stack))
  /\ ~Running => handler = Len(stack)

(* An error a builtin's handler is to swallow was not raised inside        *)
(* backquotes: no section is open below.                                   *)
ErrorInv ==
  exception = "EXERROR" /\ handler # 0 /\ stack[handler].kind = "builtin"
    => Below(stack, handler, Evaluators)

----------------------------------------------------------------------------
(* Lemmas about stacks.                                                    *)

LEMMA StackFacts ==
  ASSUME NEW s \in Seq(Frame)
  PROVE  /\ Len(s) \in Nat /\ DOMAIN s = 1 .. Len(s)
         /\ s = <<>> <=> Len(s) = 0
         /\ \A i \in 1 .. Len(s) : s[i] \in Frame /\ s[i].kind \in Offs \union Catchers
                                   /\ s[i].savehandler \in Nat
<1>1. Len(s) \in Nat /\ DOMAIN s = 1 .. Len(s)
  BY LenProperties
<1>2. s = <<>> <=> Len(s) = 0
  BY EmptySeq
<1>3. \A i \in 1 .. Len(s) : s[i] \in Frame
  BY ElementOfSeq
<1> QED BY <1>1, <1>2, <1>3 DEF Frame

LEMMA KindsDisjoint ==
  \A k : k \in Offs => k \notin Catchers
BY DEF Offs, Catchers

(* A stack that is cut off at a frame keeps its order.                     *)
LEMMA CutKept ==
  ASSUME NEW s \in Seq(Frame), NEW h \in 0 .. Len(s), Chained(s), Shaped(s)
  PROVE  LET r == SubSeq(s, 1, h)
         IN /\ r \in Seq(Frame) /\ Len(r) = h
            /\ \A i \in 1 .. h : r[i] = s[i]
            /\ Chained(r) /\ Shaped(r)
            /\ \A k : Innermost(s, k, h) => Innermost(r, k, h)
            /\ SectionsOf(r) = {i \in SectionsOf(s) : i <= h}
<1> DEFINE r == SubSeq(s, 1, h)
<1>1. Len(s) \in Nat /\ h \in Nat
  BY StackFacts
<1>2. r \in Seq(Frame) /\ Len(r) = h /\ \A i \in 1 .. h : r[i] = s[i]
  <2>1. 1 \in 1 .. Len(s) + 1 /\ h \in 1 - 1 .. Len(s)
    BY <1>1
  <2>2. /\ r \in Seq(Frame)
        /\ Len(r) = (IF 1 <= h THEN h - 1 + 1 ELSE 0)
        /\ \A i \in 1 .. h - 1 + 1 : r[i] = s[1 + i - 1]
    BY <2>1, SubSeqProperties
  <2> QED BY <2>2, <1>1
<1> HIDE DEF r
<1>3. \A k, n : n \in 0 .. h /\ Innermost(s, k, n) => Innermost(r, k, n)
  BY <1>1, <1>2 DEF Innermost
<1>4. Chained(r)
  <2> SUFFICES ASSUME NEW i \in 1 .. Len(r), r[i].kind \in Catchers
               PROVE  Innermost(r, r[i].savehandler, i - 1)
    BY DEF Chained
  <2>1. i \in 1 .. Len(s) /\ r[i] = s[i] /\ i - 1 \in 0 .. h
    BY <1>1, <1>2
  <2> QED BY <2>1, <1>3 DEF Chained
<1>5. Shaped(r)
  <2> SUFFICES ASSUME NEW i \in 1 .. Len(r)
               PROVE  Fits(r, i, r[i].kind)
    BY DEF Shaped
  <2>1. i \in 1 .. Len(s) /\ r[i] = s[i]
    BY <1>1, <1>2
  <2>2. \A j \in 1 .. i - 1 : r[j] = s[j]
    BY <1>1, <1>2
  <2>3. Fits(s, i, r[i].kind)
    BY <2>1 DEF Shaped
  <2>4. i > 1 => i - 1 \in 1 .. i - 1
    BY <2>1, <1>1
  <2> QED BY <2>2, <2>3, <2>4 DEF Fits, Below
<1>6. SectionsOf(r) = {i \in SectionsOf(s) : i <= h}
  BY <1>1, <1>2 DEF SectionsOf
<1> QED BY <1>1, <1>2, <1>3, <1>4, <1>5, <1>6 DEF r

(* A frame pushed keeps it too, if it fits and has saved the handler.      *)
LEMMA PushKept ==
  ASSUME NEW s \in Seq(Frame), NEW f \in Frame, Chained(s), Shaped(s),
         f.kind \in Catchers => Innermost(s, f.savehandler, Len(s)),
         Fits(s, Len(s) + 1, f.kind)
  PROVE  LET r == Append(s, f)
         IN /\ r \in Seq(Frame) /\ Len(r) = Len(s) + 1
            /\ \A i \in 1 .. Len(s) : r[i] = s[i]
            /\ r[Len(s) + 1] = f
            /\ Chained(r) /\ Shaped(r)
            /\ f.kind \in Catchers => Innermost(r, Len(r), Len(r))
            /\ \A k : f.kind \in Offs /\ Innermost(s, k, Len(s)) => Innermost(r, k, Len(r))
            /\ SectionsOf(r) = SectionsOf(s) \union
                                 (IF f.kind \in Offs THEN {Len(s) + 1} ELSE {})
<1> DEFINE r == Append(s, f)
<1>1. Len(s) \in Nat
  BY StackFacts
<1>2. /\ r \in Seq(Frame) /\ Len(r) = Len(s) + 1
      /\ \A i \in 1 .. Len(s) : r[i] = s[i]
      /\ r[Len(s) + 1] = f
  BY AppendProperties
<1> HIDE DEF r
<1>3. \A k, n : n \in 0 .. Len(s) /\ Innermost(s, k, n) => Innermost(r, k, n)
  BY <1>1, <1>2 DEF Innermost
<1>4. Chained(r)
  <2> SUFFICES ASSUME NEW i \in 1 .. Len(r), r[i].kind \in Catchers
               PROVE  Innermost(r, r[i].savehandler, i - 1)
    BY DEF Chained
  <2>1. CASE i = Len(s) + 1
    <3>1. r[i] = f /\ i - 1 = Len(s) /\ i - 1 \in 0 .. Len(s)
      BY <2>1, <1>1, <1>2
    <3> QED BY <3>1, <1>3
  <2>2. CASE i # Len(s) + 1
    <3>1. i \in 1 .. Len(s) /\ r[i] = s[i] /\ i - 1 \in 0 .. Len(s)
      BY <2>2, <1>1, <1>2
    <3> QED BY <3>1, <1>3 DEF Chained
  <2> QED BY <2>1, <2>2
<1>5. Shaped(r)
  <2> SUFFICES ASSUME NEW i \in 1 .. Len(r)
               PROVE  Fits(r, i, r[i].kind)
    BY DEF Shaped
  <2>1. \A j \in 1 .. i - 1 : r[j] = s[j]
    BY <1>1, <1>2
  <2>2. Fits(s, i, r[i].kind)
    <3>1. CASE i = Len(s) + 1
      BY <3>1, <1>2
    <3>2. CASE i # Len(s) + 1
      <4>1. i \in 1 .. Len(s) /\ r[i] = s[i]
        BY <3>2, <1>1, <1>2
      <4> QED BY <4>1 DEF Shaped
    <3> QED BY <3>1, <3>2
  <2>3. i > 1 => i - 1 \in 1 .. i - 1
    BY <1>1, <1>2
  <2> QED BY <2>1, <2>2, <2>3 DEF Fits, Below
<1>6. f.kind \in Catchers => Innermost(r, Len(r), Len(r))
  BY <1>1, <1>2 DEF Innermost
<1>7. \A k : f.kind \in Offs /\ Innermost(s, k, Len(s)) => Innermost(r, k, Len(r))
  BY <1>1, <1>2 DEF Innermost
<1>8. SectionsOf(r) = SectionsOf(s) \union (IF f.kind \in Offs THEN {Len(s) + 1} ELSE {})
  BY <1>1, <1>2 DEF SectionsOf
<1> QED BY <1>1, <1>2, <1>4, <1>5, <1>6, <1>7, <1>8 DEF r

(* So does the turn of a substitution to reading.                          *)
LEMMA ReadingKept ==
  ASSUME NEW s \in Seq(Frame), Chained(s), Shaped(s),
         Len(s) # 0, s[Len(s)].kind = "backquote"
  PROVE  LET r == [s EXCEPT ![Len(s)].kind = "reading"]
         IN /\ r \in Seq(Frame) /\ Len(r) = Len(s)
            /\ r[Len(s)].kind = "reading"
            /\ Chained(r) /\ Shaped(r)
            /\ \A k : Innermost(s, k, Len(s)) => Innermost(r, k, Len(r))
            /\ SectionsOf(r) = SectionsOf(s)
<1> DEFINE n == Len(s)
           r == [s EXCEPT ![Len(s)].kind = "reading"]
<1>1. n \in Nat /\ n \in 1 .. n /\ DOMAIN s = 1 .. n /\ s[n] \in Frame
  BY StackFacts
<1> DEFINE f == [s[n] EXCEPT !.kind = "reading"]
<1>2. f \in Frame /\ f.kind = "reading"
  BY <1>1 DEF Frame, Offs
<1>3. r = [s EXCEPT ![n] = f]
  OBVIOUS
<1>4. r \in Seq(Frame) /\ Len(r) = n /\ \A i \in 1 .. n : r[i] = IF i = n THEN f ELSE s[i]
  BY <1>1, <1>2, <1>3, ExceptSeq
<1> HIDE DEF r, f, n
<1>5. "reading" \in Offs /\ "backquote" \in Offs /\ "reading" \notin Catchers
      /\ "reading" \notin Evaluators \union {"builtin", "bltin"} /\ s[n].kind = "backquote"
  BY DEF Offs, Catchers, Evaluators, n
<1>6. \A k, m : m \in 0 .. n /\ Innermost(s, k, m) => Innermost(r, k, m)
  <2> SUFFICES ASSUME NEW k, NEW m \in 0 .. n, Innermost(s, k, m)
               PROVE  Innermost(r, k, m)
    OBVIOUS
  <2>1. k \in 0 .. m /\ k # n
    BY <1>1, <1>5, KindsDisjoint DEF Innermost
  <2>2. k # 0 => r[k] = s[k]
    BY <2>1, <1>1, <1>4
  <2>3. \A i \in k + 1 .. m : r[i].kind \in Offs
    BY <2>1, <1>1, <1>2, <1>4, <1>5 DEF Innermost
  <2> QED BY <2>1, <2>2, <2>3 DEF Innermost
<1>7. Chained(r)
  <2> SUFFICES ASSUME NEW i \in 1 .. n, r[i].kind \in Catchers
               PROVE  Innermost(r, r[i].savehandler, i - 1)
    BY <1>4 DEF Chained
  <2>1. r[i] = s[i] /\ i - 1 \in 0 .. n
    BY <1>1, <1>2, <1>4, <1>5
  <2> QED BY <2>1, <1>6 DEF Chained, n
<1>8. Shaped(r)
  <2> SUFFICES ASSUME NEW i \in 1 .. n
               PROVE  Fits(r, i, r[i].kind)
    BY <1>4 DEF Shaped
  <2>1. \A j \in 1 .. i - 1 : r[j] = s[j]
    BY <1>1, <1>4
  <2>2. Fits(s, i, s[i].kind)
    BY DEF Shaped, n
  <2>3. i > 1 => i - 1 \in 1 .. i - 1
    BY <1>1
  <2>4. Fits(s, i, r[i].kind)
    BY <2>2, <1>1, <1>2, <1>4, <1>5 DEF Fits
  <2> QED BY <2>1, <2>4, <2>3 DEF Fits, Below
<1>9. SectionsOf(r) = SectionsOf(s)
  BY <1>1, <1>2, <1>4, <1>5 DEF SectionsOf, n
<1>10. \A k : Innermost(s, k, n) => Innermost(r, k, Len(r))
  BY <1>1, <1>4, <1>6
<1>11. r[n].kind = "reading"
  BY <1>1, <1>2, <1>4
<1> QED BY <1>4, <1>7, <1>8, <1>9, <1>10, <1>11 DEF r, n

----------------------------------------------------------------------------
(* Nesting is kept by every step.                                          *)

LEMMA RaiseKeeps ==
  ASSUME NestInv, NEW e \in {"EXINT", "EXERROR"}, NEW h,
         Innermost(stack, h, handler) \/ h = handler,
         raise(e, h)
  PROVE  NestInv'
<1>1. handler \in 0 .. Len(stack) /\ Len(stack) \in Nat
  BY StackFacts DEF NestInv, Innermost
<1>2. Innermost(stack, h, h) /\ h \in 0 .. Len(stack)
  BY <1>1 DEF NestInv, Innermost
<1>3. /\ stack' \in Seq(Frame) /\ Len(stack') = h
      /\ Chained(stack') /\ Shaped(stack') /\ Innermost(stack', h, h)
  BY <1>1, <1>2, CutKept DEF NestInv, raise
<1> QED BY <1>1, <1>2, <1>3 DEF raise, NestInv

LEMMA OnintKeeps ==
  ASSUME NestInv, NEW held, onint(held, handler)
  PROVE  NestInv'
<1>1. CASE held # 0
  BY <1>1 DEF onint, NestInv, Running
<1>2. CASE held = 0
  BY <1>2, RaiseKeeps DEF onint, NestInv
<1> QED BY <1>1, <1>2

LEMMA PopKeeps ==
  ASSUME NestInv, Running, stack # <<>>, stack' = Pop(stack), exception' = exception,
         IF Kind \in Catchers THEN handler' = stack[Len(stack)].savehandler
                              ELSE handler' = handler
  PROVE  NestInv'
<1> DEFINE n == Len(stack)
<1>1. /\ n \in Nat /\ n \in 1 .. n /\ n - 1 \in 0 .. n /\ stack \in Seq(Frame)
      /\ stack[n].kind \in Offs \union Catchers
  BY StackFacts DEF NestInv
<1>2. Innermost(stack, handler', n - 1)
  <2>1. CASE Kind \in Catchers
    BY <2>1, <1>1 DEF Kind, NestInv, Chained
  <2>2. CASE Kind \notin Catchers
    BY <2>2, <1>1 DEF Kind, NestInv, Innermost
  <2> QED BY <2>1, <2>2
<1>3. /\ stack' \in Seq(Frame) /\ Len(stack') = n - 1 /\ Chained(stack') /\ Shaped(stack')
      /\ Innermost(stack', handler', n - 1)
  BY <1>1, <1>2, CutKept DEF NestInv, Pop
<1>4. handler' \in Nat
  BY <1>1, <1>2 DEF Innermost
<1> QED BY <1>3, <1>4 DEF NestInv, Running

LEMMA PushKeeps ==
  ASSUME NestInv, Running, NEW s \in Seq(Frame), NEW f \in Frame,
         Chained(s), Shaped(s), Innermost(s, handler, Len(s)),
         f.kind \in Catchers => f.savehandler = handler,
         Fits(s, Len(s) + 1, f.kind),
         stack' = Append(s, f), exception' = exception,
         handler' = IF f.kind \in Catchers THEN Len(s) + 1 ELSE handler
  PROVE  NestInv'
<1>1. Len(s) \in Nat /\ f.kind \in Offs \union Catchers /\ handler \in Nat
  BY StackFacts DEF Frame, NestInv
<1>2. /\ stack' \in Seq(Frame) /\ Len(stack') = Len(s) + 1
      /\ Chained(stack') /\ Shaped(stack')
      /\ f.kind \in Catchers => Innermost(stack', Len(stack'), Len(stack'))
      /\ f.kind \in Offs => Innermost(stack', handler, Len(stack'))
  BY PushKept
<1>3. f.kind \in Catchers => Innermost(stack', handler', Len(stack'))
  BY <1>2
<1>4. f.kind \in Offs => Innermost(stack', handler', Len(stack'))
  BY <1>2, KindsDisjoint
<1> QED BY <1>1, <1>2, <1>3, <1>4 DEF NestInv, Running

(* What the top of the stack says of all of it.                            *)
LEMMA TopFacts ==
  ASSUME NestInv
  PROVE  /\ Len(stack) \in Nat /\ (stack = <<>> <=> Len(stack) = 0)
         /\ Kind # "main" => Len(stack) # 0 /\ Kind = stack[Len(stack)].kind
         /\ Evaluates => Below(stack, Len(stack) + 1, Evaluators)
         /\ Kind \in {"backquote", "reading"} =>
              Below(stack, Len(stack) + 1, Evaluators \union {Kind, "backquote"})
<1> DEFINE n == Len(stack)
<1>1. n \in Nat /\ (stack = <<>> <=> n = 0) /\ (n # 0 => n \in 1 .. n)
  BY StackFacts DEF NestInv
<1>2. Kind # "main" => n # 0 /\ Kind = stack[n].kind
  BY <1>1 DEF Kind
<1>3. Kind # "main" => Fits(stack, n, Kind)
  BY <1>1, <1>2 DEF NestInv, Shaped
<1>4. Evaluates => Below(stack, n + 1, Evaluators)
  <2>1. CASE n = 0
    BY <2>1 DEF Below
  <2>2. ASSUME n # 0, Evaluates
        PROVE  Below(stack, n + 1, Evaluators)
    <3>1. Kind \in Evaluators /\ Kind = stack[n].kind
      <4>1. Kind = stack[n].kind /\ Kind \in Offs \union Catchers
        BY <2>2, <1>1, StackFacts DEF Kind, NestInv
      <4> QED BY <2>2, <4>1 DEF Evaluates, Evaluators, Offs, Catchers
    <3>2. Below(stack, n, Evaluators)
      BY <3>1, <1>3 DEF Fits, Evaluators
    <3> QED BY <3>1, <3>2, <1>1 DEF Below
  <2> QED BY <2>1, <2>2
<1>5. ASSUME Kind \in {"backquote", "reading"}
      PROVE  Below(stack, n + 1, Evaluators \union {Kind, "backquote"})
  <2>1. Kind = stack[n].kind /\ Below(stack, n, Evaluators \union {"backquote"})
    BY <1>5, <1>2, <1>3 DEF Fits
  <2> QED BY <2>1, <1>1 DEF Below
<1> QED BY <1>1, <1>2, <1>4, <1>5

LEMMA IntoffKeeps ==
  ASSUME NestInv, NEW k \in Offs, INTOFF(k)
  PROVE  NestInv'
<1> DEFINE f == [kind |-> k, savehandler |-> 0]
<1>1. f \in Frame /\ f.kind = k /\ k \notin Catchers
  BY KindsDisjoint DEF Frame
<1>2. Fits(stack, Len(stack) + 1, k)
  <2>1. k \notin Evaluators /\ k \notin {"builtin", "bltin", "reading"}
    BY DEF INTOFF, MayEnter, Offs, Evaluators
  <2>2. CASE k = "backquote"
    <3>1. Evaluates \/ Kind = "backquote"
      BY <2>2 DEF INTOFF, MayEnter
    <3>2. Below(stack, Len(stack) + 1, Evaluators \union {"backquote"})
      BY <3>1, TopFacts DEF Below
    <3> QED BY <2>1, <3>2 DEF Fits
  <2>3. CASE k # "backquote"
    BY <2>1, <2>3 DEF Fits
  <2> QED BY <2>2, <2>3
<1>3. /\ stack \in Seq(Frame) /\ Chained(stack) /\ Shaped(stack)
      /\ Innermost(stack, handler, Len(stack))
  BY DEF NestInv
<1>4. Running /\ stack' = Append(stack, f) /\ exception' = exception /\ handler' = handler
  BY DEF INTOFF
<1>5. NestInv'
  BY <1>1, <1>2, <1>3, <1>4, PushKeeps
<1> QED BY <1>5 DEF NestInv, INTOFF

(* The stack a called function or builtin finds below its frame.           *)
LEMMA EvaluatedFacts ==
  ASSUME NestInv
  PROVE  /\ Evaluated \in Seq(Frame) /\ Len(Evaluated) = Len(stack)
         /\ Chained(Evaluated) /\ Shaped(Evaluated)
         /\ Innermost(Evaluated, handler, Len(Evaluated))
         /\ SectionsOf(Evaluated) = SectionsOf(stack)
         /\ Kind # "backquote" => Evaluated = stack
         /\ Kind = "backquote" => Len(stack) > 0 /\ Evaluated[Len(stack)].kind = "reading"
<1>1. Kind = "backquote" => Len(stack) # 0 /\ Kind = stack[Len(stack)].kind
  BY TopFacts
<1>2. /\ stack \in Seq(Frame) /\ Len(stack) \in Nat /\ Chained(stack) /\ Shaped(stack)
      /\ Innermost(stack, handler, Len(stack))
  BY TopFacts DEF NestInv
<1>3. CASE Kind = "backquote"
  BY <1>1, <1>2, <1>3, ReadingKept DEF Evaluated
<1>4. CASE Kind # "backquote"
  BY <1>2, <1>4 DEF Evaluated
<1> QED BY <1>3, <1>4

LEMMA CallKeeps ==
  ASSUME NestInv, NEW k \in Catchers, Call(k)
  PROVE  NestInv'
<1> DEFINE f == [kind |-> k, savehandler |-> handler]
<1>1. f \in Frame /\ f.kind = k /\ f.savehandler = handler
  BY DEF Frame, NestInv
<1>2. Fits(Evaluated, Len(Evaluated) + 1, k)
  <2>1. Len(stack) \in Nat /\ Len(Evaluated) = Len(stack) /\ k \notin {"backquote", "reading"}
    BY TopFacts, EvaluatedFacts DEF Catchers
  <2>2. CASE Evaluates
    <3>1. Evaluated = stack /\ Below(stack, Len(stack) + 1, Evaluators)
      BY <2>2, TopFacts, EvaluatedFacts DEF Evaluates
    <3> QED BY <2>1, <3>1 DEF Fits
  <2>3. CASE ~Evaluates
    <3>1. Kind = "backquote" /\ k \in {"builtin", "bltin"}
      BY <2>3 DEF Call, MayCall
    <3>2. Len(stack) > 0 /\ Evaluated[Len(stack)].kind = "reading"
      BY <3>1, EvaluatedFacts
    <3> QED BY <2>1, <3>1, <3>2 DEF Fits, Evaluators
  <2> QED BY <2>2, <2>3
<1>3. /\ Running /\ stack' = Append(Evaluated, f) /\ exception' = exception
      /\ handler' = IF f.kind \in Catchers THEN Len(Evaluated) + 1 ELSE handler
  BY EvaluatedFacts DEF Call
<1>4. NestInv'
  BY <1>1, <1>2, <1>3, EvaluatedFacts, PushKeeps
<1> QED BY <1>4 DEF NestInv, Call

LEMMA InitNests == IntInit => NestInv
<1> SUFFICES ASSUME IntInit PROVE NestInv
  OBVIOUS
<1>1. stack \in Seq(Frame) /\ Len(stack) = 0
  BY EmptySeq DEF IntInit
<1> QED BY <1>1 DEF IntInit, NestInv, Chained, Shaped, Innermost, Running

LEMMA StepNests == NestInv /\ [IntNext]_IntVars => NestInv'
<1> SUFFICES ASSUME NestInv, [IntNext]_IntVars PROVE NestInv'
  OBVIOUS
<1>1. ASSUME SigInt PROVE NestInv'
  BY <1>1, OnintKeeps DEF SigInt
<1>2. ASSUME error PROVE NestInv'
  BY <1>2, RaiseKeeps DEF error
<1>3. ASSUME INTON PROVE NestInv'
  <2>1. CASE Delivers(suppressint')
    BY <1>3, <2>1, RaiseKeeps DEF INTON
  <2>2. CASE ~Delivers(suppressint')
    <3>1. Kind \notin Catchers /\ stack # <<>>
      BY <1>3, TopFacts DEF INTON, Catchers
    <3> QED BY <1>3, <2>2, <3>1, PopKeeps DEF INTON
  <2> QED BY <2>1, <2>2
<1>4. ASSUME evalbackcmd PROVE NestInv'
  BY <1>4, EvaluatedFacts DEF evalbackcmd, NestInv, Running
<1>5. ASSUME Return PROVE NestInv'
  <2>1. stack # <<>>
    BY <1>5, TopFacts DEF Return, Catchers
  <2> QED BY <1>5, <2>1, PopKeeps DEF Return, Restored
<1>6. ASSUME NEW d \in BOOLEAN, waitforjob(d) PROVE NestInv'
  <2>1. CASE suppressint = 1 /\ d
    BY <1>6, <2>1, RaiseKeeps DEF waitforjob
  <2>2. CASE ~(suppressint = 1 /\ d)
    <3>1. Kind \notin Catchers /\ stack # <<>>
      BY <1>6, TopFacts DEF waitforjob, Catchers
    <3> QED BY <1>6, <2>2, <3>1, PopKeeps DEF waitforjob
  <2> QED BY <2>1, <2>2
<1>7. ASSUME MainHandler PROVE NestInv'
  BY <1>7 DEF MainHandler, NestInv, Running
<1>8. ASSUME ~Running, handler # 0
      PROVE  /\ Innermost(stack, Restored(stack[handler]), handler - 1)
             /\ Innermost(stack, Restored(stack[handler]), handler) \/ Kind \in Catchers
             /\ handler = Len(stack) /\ Len(stack) \in Nat
  <2>1. handler = Len(stack) /\ handler \in 1 .. Len(stack) /\ stack[handler].kind \in Catchers
    BY <1>8, TopFacts DEF NestInv, Innermost
  <2> QED BY <2>1, TopFacts DEF NestInv, Chained, Restored, Kind
<1>9. ASSUME ~Running, handler # 0, NEW e \in {"EXINT", "EXERROR"},
             raise(e, Restored(stack[handler]))
      PROVE  NestInv'
  <2> DEFINE h == Restored(stack[handler])
  <2>1. Innermost(stack, h, handler - 1) /\ handler = Len(stack) /\ Len(stack) \in Nat
    BY <1>8, <1>9
  <2>2. h \in 0 .. Len(stack) /\ Innermost(stack, h, h)
    BY <1>9, <2>1 DEF Innermost
  <2>3. /\ stack' \in Seq(Frame) /\ Len(stack') = h
        /\ Chained(stack') /\ Shaped(stack') /\ Innermost(stack', h, h)
    BY <1>9, <2>2, CutKept DEF NestInv, raise
  <2> QED BY <1>9, <2>2, <2>3 DEF raise, NestInv
<1>10. ASSUME PassOn PROVE NestInv'
  <2>1. exception \in {"EXINT", "EXERROR"}
    BY <1>10 DEF PassOn, Running, NestInv
  <2> QED BY <1>9, <1>10, <2>1 DEF PassOn
<1>11. ASSUME Swallow PROVE NestInv'
  <2>1. CASE intpending
    <3>1. ~Running /\ handler # 0 /\ raise("EXINT", Restored(stack[handler]))
      BY <1>11, <2>1 DEF Swallow
    <3> QED BY <1>9, <3>1
  <2>2. CASE ~intpending
    <3> DEFINE h == Restored(stack[handler])
    <3>1. Innermost(stack, h, handler - 1) /\ handler = Len(stack) /\ Len(stack) \in Nat
      BY <1>8, <1>11 DEF Swallow
    <3>2. handler - 1 \in 0 .. Len(stack) /\ h \in Nat
      BY <1>11, <3>1 DEF Swallow, Innermost
    <3>3. /\ stack' \in Seq(Frame) /\ Len(stack') = handler - 1
          /\ Chained(stack') /\ Shaped(stack') /\ Innermost(stack', h, handler - 1)
      BY <1>11, <2>2, <3>1, <3>2, CutKept DEF NestInv, Swallow, Pop
    <3> QED BY <1>11, <2>2, <3>1, <3>2, <3>3 DEF Swallow, NestInv, Running, Forced
  <2> QED BY <2>1, <2>2
<1>12. CASE UNCHANGED IntVars
  BY <1>12 DEF IntVars, NestInv, Running
<1> QED BY <1>1, <1>2, <1>3, <1>4, <1>5, <1>6, <1>7, <1>10, <1>11, <1>12,
           IntoffKeeps, CallKeeps DEF IntNext

----------------------------------------------------------------------------
(* Type correctness: the two variables of error.c keep their types too.    *)
THEOREM InterruptsTypeCorrect == IntSpec => []IntTypeOK
<1> DEFINE IntOK == suppressint \in Int
           BoolOK == intpending \in BOOLEAN
<1>1. IntInit => IntOK /\ BoolOK
  <2>1. IntInit => suppressint = 0 /\ intpending = FALSE
    BY DEF IntInit
  <2>2. IntInit => IntOK
    BY <2>1
  <2>3. IntInit => BoolOK
    BY <2>1, Zenon
  <2> QED BY <2>2, <2>3
<1>2. IntOK /\ [IntNext]_IntVars => IntOK'
  <2> SUFFICES ASSUME IntOK, [IntNext]_IntVars PROVE IntOK'
    OBVIOUS
  <2>1. \A d : waitforjob(d) => suppressint' = suppressint - 1
    BY DEF waitforjob
  <2>2. Swallow => suppressint' = 0
    BY DEF Swallow, Forced
  <2>3. \/ suppressint' = suppressint \/ suppressint' = suppressint + 1
        \/ suppressint' = suppressint - 1 \/ suppressint' = 0
    BY <2>1, <2>2 DEF IntNext, IntVars, SigInt, error, INTOFF, INTON, Call, evalbackcmd, Return,
       MainHandler, PassOn
  <2> QED BY <2>3
<1>3. BoolOK /\ [IntNext]_IntVars => BoolOK'
  <2> SUFFICES ASSUME BoolOK, [IntNext]_IntVars PROVE BoolOK'
    OBVIOUS
  <2>1. ASSUME NEW d \in BOOLEAN, waitforjob(d)
        PROVE  intpending' = FALSE \/ intpending' = d
    BY <2>1 DEF waitforjob
  <2>2. INTON \/ SigInt => intpending' = intpending \/ intpending' = FALSE \/ intpending' = TRUE
    BY DEF INTON, SigInt, onint
  <2>3. error \/ MainHandler \/ Swallow => intpending' = FALSE
    BY DEF error, MainHandler, Swallow
  <2>4. ASSUME NEW k, INTOFF(k) \/ Call(k) PROVE intpending' = intpending
    BY <2>4 DEF INTOFF, Call
  <2>5. evalbackcmd \/ Return \/ PassOn \/ UNCHANGED IntVars => intpending' = intpending
    BY DEF evalbackcmd, Return, PassOn, IntVars
  <2> QED BY <2>1, <2>2, <2>3, <2>4, <2>5 DEF IntNext
<1>4. NestInv /\ IntOK /\ BoolOK => IntTypeOK
  BY DEF NestInv, IntTypeOK
<1> QED BY <1>1, <1>2, <1>3, <1>4, InitNests, StepNests, PTL DEF IntSpec

(* An exception goes to the innermost function waiting for one, whatever   *)
(* functions, builtins and sections are nested and abandoned.              *)
THEOREM HandlersAreInnermost == IntSpec => []HandlerIsInnermost
<1>1. NestInv => HandlerIsInnermost
  BY StackFacts DEF NestInv, Innermost, HandlerIsInnermost
<1> QED BY <1>1, InitNests, StepNests, PTL DEF IntSpec

(* An interrupt passes every handler up to the main loop: only there is it *)
(* dealt with, with nothing left on the stack.                             *)
THEOREM InterruptsReachMain == IntSpec => InterruptReachesMain
<1>1. ASSUME NestInv, [IntNext]_IntVars, exception = "EXINT", exception' # "EXINT"
      PROVE  stack = <<>> /\ handler = 0
  <2>1. ~Running
    BY <1>1 DEF Running
  <2>2. ~SigInt
    BY <1>1 DEF SigInt, onint, raise
  <2>3. ~PassOn /\ ~Swallow
    BY <1>1 DEF PassOn, Swallow, Swallows, raise
  <2>4. \A d : ~waitforjob(d)
    BY <2>1 DEF waitforjob
  <2>5. \A k : ~INTOFF(k) /\ ~Call(k)
    BY <2>1 DEF INTOFF, Call
  <2>6. ~error /\ ~INTON /\ ~evalbackcmd /\ ~Return
    BY <2>1 DEF error, INTON, evalbackcmd, Return
  <2>7. MainHandler
    BY <1>1, <2>2, <2>3, <2>4, <2>5, <2>6 DEF IntNext, IntVars
  <2>8. handler = 0
    BY <2>7 DEF MainHandler
  <2>9. Len(stack) = 0
    BY <1>1, <2>1, <2>8 DEF NestInv
  <2> QED BY <1>1, <2>8, <2>9, StackFacts DEF NestInv
<1>2. NestInv /\ [IntNext]_IntVars =>
        [exception = "EXINT" /\ exception' # "EXINT" => stack = <<>> /\ handler = 0]_IntVars
  BY <1>1
<1> QED BY <1>2, InitNests, StepNests, PTL DEF IntSpec, InterruptReachesMain

----------------------------------------------------------------------------
(* Counting.                                                               *)

LEMMA SectionsCounted ==
  ASSUME NEW s \in Seq(Frame)
  PROVE  /\ IsFiniteSet(SectionsOf(s)) /\ Cardinality(SectionsOf(s)) \in Nat
         /\ Cardinality(SectionsOf(s)) = 0 <=> SectionsOf(s) = {}
<1>1. Len(s) \in Nat
  BY StackFacts
<1>2. IsFiniteSet(1 .. Len(s))
  BY <1>1, FS_Interval
<1>3. IsFiniteSet(SectionsOf(s))
  BY <1>2, FS_Subset DEF SectionsOf
<1> QED BY <1>3, FS_CardinalityType, FS_EmptySet

(* Pushing or popping a section counts by one.                             *)
LEMMA PushCounts ==
  ASSUME NEW s \in Seq(Frame), NEW r \in Seq(Frame), NEW n, n \notin SectionsOf(s),
         SectionsOf(r) = SectionsOf(s) \union {n}
  PROVE  Cardinality(SectionsOf(r)) = Cardinality(SectionsOf(s)) + 1
BY SectionsCounted, FS_AddElement

LEMMA PopCounts ==
  ASSUME NestInv, stack # <<>>
  PROVE  LET r == Pop(stack)
         IN /\ r \in Seq(Frame)
            /\ Kind \in Offs =>
                 Cardinality(SectionsOf(r)) = Cardinality(SectionsOf(stack)) - 1
            /\ Kind \in Catchers => SectionsOf(r) = SectionsOf(stack)
<1> DEFINE n == Len(stack)
           r == Pop(stack)
<1>1. stack \in Seq(Frame) /\ n \in Nat /\ n \in 1 .. n /\ n - 1 \in 0 .. n
  BY StackFacts DEF NestInv
<1>2. r \in Seq(Frame) /\ SectionsOf(r) = {i \in SectionsOf(stack) : i <= n - 1}
  BY <1>1, CutKept DEF NestInv, Pop
<1>3. Kind = stack[n].kind
  BY DEF Kind
<1>4. ASSUME Kind \in Offs
      PROVE  Cardinality(SectionsOf(r)) = Cardinality(SectionsOf(stack)) - 1
  <2>1. n \in SectionsOf(stack) /\ SectionsOf(r) = SectionsOf(stack) \ {n}
    BY <1>1, <1>2, <1>3, <1>4 DEF SectionsOf
  <2> QED BY <2>1, <1>1, SectionsCounted, FS_RemoveElement
<1>5. ASSUME Kind \in Catchers
      PROVE  SectionsOf(r) = SectionsOf(stack)
  <2>1. n \notin SectionsOf(stack)
    BY <1>3, <1>5, KindsDisjoint DEF SectionsOf
  <2> QED BY <2>1, <1>1, <1>2 DEF SectionsOf
<1> QED BY <1>2, <1>4, <1>5

LEMMA SectionsAre == NestInv => Sections = SectionsOf(stack)
BY StackFacts DEF NestInv, Sections, SectionsOf

(* Where an error in backquotes does not reach the builtin's handler, no   *)
(* section is open below a handler that swallows one.                      *)
LEMMA ErrorStep ==
  ASSUME ~BackquoteErrors, NestInv, ErrorInv, [IntNext]_IntVars
  PROVE  ErrorInv'
<1> DEFINE Kept == UNCHANGED <<exception, stack, handler>>
<1>1. exception' = "EXERROR" => error \/ PassOn \/ Kept
  <2> SUFFICES ASSUME exception' = "EXERROR" PROVE error \/ PassOn \/ Kept
    OBVIOUS
  <2>1. SigInt => Kept
    BY DEF SigInt, onint, raise
  <2>2. ~INTON /\ ~evalbackcmd /\ ~Return
    BY DEF INTON, evalbackcmd, Return, Running, raise
  <2>3. \A k : ~INTOFF(k) /\ ~Call(k)
    BY DEF INTOFF, Call, Running
  <2>4. \A d : ~waitforjob(d)
    BY DEF waitforjob, Running, raise
  <2>5. ~MainHandler /\ ~Swallow
    BY DEF MainHandler, Swallow, raise
  <2> QED BY <2>1, <2>2, <2>3, <2>4, <2>5 DEF IntNext, IntVars
<1>2. ASSUME error, handler' # 0, stack'[handler'].kind = "builtin"
      PROVE  Below(stack', handler', Evaluators)
  <2>1. handler' = handler /\ handler \in 1 .. Len(stack) /\ Len(stack) \in Nat
    BY <1>2, StackFacts DEF error, raise, NestInv, Innermost
  <2>2. \A i \in 1 .. handler : stack'[i] = stack[i]
    BY <1>2, <2>1, CutKept DEF error, raise, NestInv
  <2>3. stack[handler].kind = "builtin"
    BY <1>2, <2>1, <2>2
  <2>4. Below(stack, handler, Evaluators)
    BY <1>2, <2>1, <2>3 DEF error, InBackquotes, NestInv, Shaped, Fits
  <2> QED BY <2>1, <2>2, <2>4 DEF Below
<1>3. ASSUME PassOn, exception = "EXERROR", handler' # 0, stack'[handler'].kind = "builtin"
      PROVE  FALSE
  <2> DEFINE h == stack[handler].savehandler
  <2>1. /\ handler = Len(stack) /\ handler \in 1 .. Len(stack) /\ Len(stack) \in Nat
        /\ stack[handler].kind \in Catchers /\ Kind = stack[handler].kind
    BY <1>3, StackFacts DEF PassOn, NestInv, Innermost, Kind
  <2>2. Innermost(stack, h, handler - 1) /\ handler' = h /\ stack' = SubSeq(stack, 1, h)
    BY <1>3, <2>1 DEF PassOn, raise, Restored, NestInv, Chained
  <2>3. h \in 1 .. handler - 1 /\ stack[h].kind = "builtin"
    <3>1. h \in 1 .. handler - 1 /\ h \in 0 .. Len(stack)
      BY <1>3, <2>1, <2>2 DEF Innermost
    <3>2. stack'[h] = stack[h]
      BY <2>2, <3>1, CutKept DEF NestInv
    <3> QED BY <1>3, <2>2, <3>1, <3>2
  <2>4. ~Below(stack, handler, Evaluators)
    BY <2>3 DEF Below, Evaluators
  <2>5. stack[handler].kind = "bltin"
    BY <1>3, <2>1, <2>4 DEF PassOn, Swallows, Catchers, NestInv, Shaped, Fits, Evaluators
  <2>6. handler > 1 /\ stack[handler - 1].kind = "reading"
    BY <2>1, <2>4, <2>5 DEF NestInv, Shaped, Fits
  <2>7. Below(stack, handler - 1, Evaluators \union {"backquote"})
    <3>1. handler - 1 \in 1 .. Len(stack)
      BY <2>1, <2>6
    <3> QED BY <3>1, <2>1, <2>6 DEF NestInv, Shaped, Fits
  <2>8. h \in 1 .. (handler - 1) - 1
    BY <2>1, <2>3, <2>6
  <2> QED BY <2>3, <2>7, <2>8 DEF Below, Evaluators
<1>4. exception' = "EXERROR" /\ PassOn => exception = "EXERROR"
  BY DEF PassOn, raise
<1>5. Kept => ErrorInv'
  BY DEF ErrorInv, Below
<1> QED BY <1>1, <1>2, <1>3, <1>4, <1>5 DEF ErrorInv

LEMMA InitCounts == IntInit => ErrorInv /\ CountIsDepth
<1> SUFFICES ASSUME IntInit PROVE ErrorInv /\ CountIsDepth
  OBVIOUS
<1>1. NestInv /\ stack = <<>>
  BY InitNests DEF IntInit
<1>2. Sections = {}
  BY <1>1, SectionsAre, StackFacts DEF SectionsOf, NestInv
<1> QED BY <1>2, FS_EmptySet DEF IntInit, ErrorInv, CountIsDepth

(* The steps that leave the shell running keep the count.                  *)
LEMMA CountStep ==
  ASSUME NestInv, ErrorInv, CountIsDepth, [IntNext]_IntVars, Running'
  PROVE  suppressint' = Cardinality(SectionsOf(stack'))
<1> DEFINE N == Cardinality(SectionsOf(stack))
<1>1. NestInv' /\ stack \in Seq(Frame) /\ stack' \in Seq(Frame) /\ N \in Nat
  BY StepNests, SectionsCounted DEF NestInv
<1>2. Running => suppressint = N
  BY SectionsAre DEF CountIsDepth
<1>3. CASE MainHandler
  <2>1. handler = 0 /\ ~Running /\ stack' = stack /\ suppressint' = 0
    BY <1>3 DEF MainHandler
  <2>2. Len(stack) = 0
    BY <2>1 DEF NestInv
  <2>3. SectionsOf(stack) = {}
    BY <2>2 DEF SectionsOf
  <2> QED BY <2>1, <2>3, FS_EmptySet
<1>4. CASE Swallow
  <2>1. /\ handler # 0 /\ handler = Len(stack) /\ handler \in Nat /\ Kind = stack[handler].kind
        /\ stack # <<>>
    BY <1>4, StackFacts DEF Swallow, NestInv, Kind
  <2>2. /\ stack[handler].kind = "builtin" /\ exception = "EXERROR"
        /\ stack' = Pop(stack) /\ suppressint' = 0
    BY <1>4, <2>1, <1>1 DEF Swallow, Swallows, Forced, raise, Running
  <2>3. Below(stack, handler, Evaluators)
    BY <2>1, <2>2 DEF ErrorInv
  <2>4. SectionsOf(stack) = {}
    <3>1. \A i \in 1 .. handler : stack[i].kind \in Evaluators \union {"builtin"}
      BY <2>1, <2>2, <2>3 DEF Below
    <3> QED BY <2>1, <3>1 DEF SectionsOf, Evaluators, Offs
  <2>5. SectionsOf(stack') = SectionsOf(stack)
    BY <2>1, <2>2, PopCounts DEF Catchers
  <2> QED BY <2>2, <2>4, <2>5, FS_EmptySet
<1>5. ASSUME NEW k \in Offs, INTOFF(k)
      PROVE  suppressint' = Cardinality(SectionsOf(stack'))
  <2> DEFINE f == [kind |-> k, savehandler |-> 0]
  <2>1. stack' = Append(stack, f) /\ f \in Frame /\ suppressint' = suppressint + 1 /\ Running
    BY <1>5 DEF INTOFF, Frame
  <2>2. SectionsOf(stack') = SectionsOf(stack) \union {Len(stack) + 1}
    BY <1>1, <2>1, AppendProperties, StackFacts DEF SectionsOf
  <2>3. Len(stack) + 1 \notin SectionsOf(stack)
    BY <1>1, StackFacts DEF SectionsOf
  <2> QED BY <1>1, <1>2, <2>1, <2>2, <2>3, PushCounts
<1>6. ASSUME NEW k \in Catchers, Call(k)
      PROVE  suppressint' = Cardinality(SectionsOf(stack'))
  <2> DEFINE f == [kind |-> k, savehandler |-> handler]
  <2>1. /\ stack' = Append(Evaluated, f) /\ f \in Frame /\ suppressint' = suppressint /\ Running
        /\ k \notin Offs
    BY <1>6, KindsDisjoint DEF Call, Frame, NestInv
  <2>2. Evaluated \in Seq(Frame) /\ SectionsOf(Evaluated) = SectionsOf(stack)
    BY EvaluatedFacts
  <2>3. SectionsOf(stack') = SectionsOf(Evaluated)
    BY <2>1, <2>2, AppendProperties, StackFacts DEF SectionsOf
  <2> QED BY <1>2, <2>1, <2>2, <2>3
<1>7. CASE evalbackcmd
  BY <1>2, <1>7, EvaluatedFacts DEF evalbackcmd
<1>8. CASE INTON
  <2>1. /\ Running /\ Kind \in Offs /\ stack # <<>> /\ stack' = Pop(stack)
        /\ suppressint' = suppressint - 1
    BY <1>8, TopFacts DEF INTON, Offs, Running, raise
  <2> QED BY <1>2, <2>1, PopCounts
<1>9. ASSUME NEW d \in BOOLEAN, waitforjob(d)
      PROVE  suppressint' = Cardinality(SectionsOf(stack'))
  <2>1. /\ Running /\ Kind \in Offs /\ stack # <<>> /\ stack' = Pop(stack)
        /\ suppressint' = suppressint - 1
    BY <1>9, TopFacts DEF waitforjob, Offs, Running, raise
  <2> QED BY <1>2, <2>1, PopCounts
<1>10. CASE Return
  <2>1. Running /\ Kind \in Catchers /\ stack # <<>> /\ stack' = Pop(stack)
        /\ suppressint' = suppressint
    BY <1>10, TopFacts DEF Return, Catchers
  <2> QED BY <1>2, <2>1, PopCounts
<1>11. CASE SigInt
  BY <1>2, <1>11 DEF SigInt, onint, raise, Running
<1>12. ~error /\ ~PassOn
  BY DEF error, PassOn, raise, Running
<1>13. CASE UNCHANGED IntVars
  BY <1>2, <1>13 DEF IntVars, Running
<1> QED BY <1>3, <1>4, <1>5, <1>6, <1>7, <1>8, <1>9, <1>10, <1>11, <1>12, <1>13 DEF IntNext

LEMMA CountKept ==
  ASSUME ~BackquoteErrors, NestInv, ErrorInv, CountIsDepth, [IntNext]_IntVars
  PROVE  ErrorInv' /\ CountIsDepth'
<1>1. NestInv'
  BY StepNests
<1>2. Sections' = SectionsOf(stack')
  BY <1>1, StackFacts DEF NestInv, Sections, SectionsOf
<1> QED BY <1>2, ErrorStep, CountStep DEF CountIsDepth

(* suppressint is the number of critical sections being executed, however  *)
(* they and the handlers nest and whatever was raised before.              *)
THEOREM CountsAreDepths ==
  ASSUME ~BackquoteErrors PROVE IntSpec => []CountIsDepth
<1>1. NestInv /\ ErrorInv /\ CountIsDepth /\ [IntNext]_IntVars => ErrorInv' /\ CountIsDepth'
  BY CountKept
<1> QED BY <1>1, InitNests, StepNests, InitCounts, PTL DEF IntSpec

(* An interrupt cuts no critical section short but the outermost one, at   *)
(* its INTON, whether it was sent, held or the death of a job.             *)
THEOREM SectionsNotCut ==
  ASSUME ~BackquoteErrors PROVE IntSpec => NoSectionCut
<1> DEFINE Cut == Running /\ exception' = "EXINT"
           Ends == IF suppressint' = suppressint THEN {} ELSE {Len(stack)}
<1>1. ASSUME NestInv, CountIsDepth, [IntNext]_IntVars, Cut
      PROVE  Sections \subseteq Ends
  <2>1. /\ Sections = SectionsOf(stack) /\ stack \in Seq(Frame) /\ Len(stack) \in Nat
        /\ suppressint = Cardinality(SectionsOf(stack)) /\ suppressint \in Nat
    BY <1>1, SectionsAre, SectionsCounted, StackFacts DEF CountIsDepth, NestInv
  <2>2. CASE SigInt
    <3>1. suppressint = 0
      BY <1>1, <2>2 DEF SigInt, onint, Running
    <3> QED BY <2>1, <3>1, SectionsCounted
  <2>3. ASSUME suppressint = 1, suppressint' = 0, Kind \in Offs, stack # <<>>
        PROVE  Sections \subseteq Ends
    <3>1. Cardinality(SectionsOf(Pop(stack))) = 0 /\ Pop(stack) \in Seq(Frame)
      BY <1>1, <2>1, <2>3, PopCounts
    <3>2. SectionsOf(Pop(stack)) = {}
      BY <3>1, SectionsCounted
    <3>3. Len(stack) - 1 \in 0 .. Len(stack)
      BY <2>1, <2>3, StackFacts
    <3>4. {i \in SectionsOf(stack) : i <= Len(stack) - 1} = {}
      BY <1>1, <2>1, <3>2, <3>3, CutKept DEF Pop, NestInv
    <3>5. \A i \in SectionsOf(stack) : i = Len(stack)
      <4>1. \A i \in SectionsOf(stack) : i \in 1 .. Len(stack) /\ ~(i <= Len(stack) - 1)
        BY <3>4 DEF SectionsOf
      <4> QED BY <2>1, <4>1
    <3>6. Ends = {Len(stack)}
      BY <2>3
    <3> QED BY <2>1, <3>5, <3>6
  <2>4. CASE INTON
    <3>1. suppressint' = suppressint - 1 /\ suppressint' = 0 /\ Kind \in Offs /\ stack # <<>>
      BY <1>1, <2>4, TopFacts DEF INTON, Running, Delivers, Offs
    <3> QED BY <2>1, <2>3, <3>1
  <2>5. ASSUME NEW d \in BOOLEAN, waitforjob(d)
        PROVE  Sections \subseteq Ends
    <3>1. suppressint' = suppressint - 1 /\ suppressint = 1 /\ Kind \in Offs /\ stack # <<>>
      BY <1>1, <2>5, TopFacts DEF waitforjob, Running, Offs
    <3> QED BY <2>1, <2>3, <3>1
  <2>6. ~error /\ ~evalbackcmd /\ ~Return
    BY <1>1 DEF error, evalbackcmd, Return, Running, raise
  <2>7. \A k : ~INTOFF(k) /\ ~Call(k)
    BY <1>1 DEF INTOFF, Call, Running
  <2>8. ~MainHandler /\ ~PassOn /\ ~Swallow
    BY <1>1 DEF MainHandler, PassOn, Swallow
  <2>9. ~UNCHANGED IntVars
    BY <1>1 DEF IntVars, Running
  <2> QED BY <1>1, <2>2, <2>4, <2>5, <2>6, <2>7, <2>8, <2>9 DEF IntNext
<1>2. NestInv /\ CountIsDepth /\ [IntNext]_IntVars => [Cut => Sections \subseteq Ends]_IntVars
  BY <1>1
<1>3. NestInv /\ ErrorInv /\ CountIsDepth /\ [IntNext]_IntVars => ErrorInv' /\ CountIsDepth'
  BY CountKept
<1> QED BY <1>2, <1>3, InitNests, StepNests, InitCounts, PTL DEF IntSpec, NoSectionCut

(* No SIGINT stays pending in a shell that runs with interrupts on.        *)
THEOREM PendingsAreHeld ==
  ASSUME ~BackquoteErrors PROVE IntSpec => []PendingIsHeld
<1>1. IntInit => PendingIsHeld
  BY DEF IntInit, PendingIsHeld
<1>2. ASSUME NestInv, CountIsDepth, PendingIsHeld, [IntNext]_IntVars, Running', intpending'
      PROVE  suppressint' # 0
  <2>1. Running => suppressint \in Nat
    BY <1>2, SectionsAre, SectionsCounted DEF CountIsDepth, NestInv
  <2>2. Running /\ intpending => suppressint # 0
    BY <1>2 DEF PendingIsHeld
  <2>3. ASSUME SigInt PROVE suppressint' # 0
    <3>1. ~(intpending' = FALSE)
      BY <1>2
    <3> QED BY <2>3, <3>1 DEF SigInt, onint
  <2>4. ASSUME INTON PROVE suppressint' # 0
    <3>1. ~Delivers(suppressint') /\ intpending' = intpending
      BY <1>2, <2>4 DEF INTON, raise, Running
    <3>2. intpending
      BY <1>2, <3>1
    <3> QED BY <3>1, <3>2 DEF Delivers
  <2>5. ASSUME NEW d \in BOOLEAN, waitforjob(d) PROVE suppressint' # 0
    <3>1. Running /\ suppressint' = suppressint - 1
      BY <2>5 DEF waitforjob
    <3>2. ~(suppressint = 1 /\ d) /\ intpending' = d
      BY <1>2, <2>5 DEF waitforjob, raise, Running
    <3>3. d
      BY <1>2, <3>2
    <3> QED BY <2>1, <3>1, <3>2, <3>3
  <2>6. ~error /\ ~MainHandler /\ ~Swallow
    <3>1. ~(intpending' = FALSE)
      BY <1>2
    <3> QED BY <3>1 DEF error, MainHandler, Swallow
  <2>7. ~PassOn
    BY <1>2 DEF PassOn, raise, Running
  <2>8. ASSUME NEW k, INTOFF(k) PROVE suppressint' # 0
    <3>1. Running /\ suppressint' = suppressint + 1
      BY <2>8 DEF INTOFF
    <3> QED BY <2>1, <3>1
  <2>9. ASSUME NEW k, Call(k) PROVE suppressint' # 0
    <3>1. Running /\ suppressint' = suppressint /\ intpending' = intpending
      BY <2>9 DEF Call
    <3>2. intpending
      BY <1>2, <3>1
    <3> QED BY <2>2, <3>1, <3>2
  <2>10. ASSUME evalbackcmd \/ Return \/ UNCHANGED IntVars PROVE suppressint' # 0
    <3>1. Running /\ suppressint' = suppressint /\ intpending' = intpending
      BY <1>2, <2>10 DEF evalbackcmd, Return, IntVars, Running
    <3>2. intpending
      BY <1>2, <3>1
    <3> QED BY <2>2, <3>1, <3>2
  <2> QED BY <1>2, <2>3, <2>4, <2>5, <2>6, <2>7, <2>8, <2>9, <2>10 DEF IntNext
<1>3. NestInv /\ CountIsDepth /\ PendingIsHeld /\ [IntNext]_IntVars => PendingIsHeld'
  BY <1>2 DEF PendingIsHeld
<1>4. NestInv /\ ErrorInv /\ CountIsDepth /\ [IntNext]_IntVars => ErrorInv' /\ CountIsDepth'
  BY CountKept
<1> QED BY <1>1, <1>3, <1>4, InitNests, StepNests, InitCounts, PTL DEF IntSpec
=============================================================================
