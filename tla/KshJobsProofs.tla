--------------------------- MODULE KshJobsProofs ---------------------------
(***************************************************************************)
(* Proofs about pd-ksh's processes and jobs: that the table never loses    *)
(* sight of a child, never keeps one the kernel has forgotten, that        *)
(* j_waitj follows its own pipeline, that every end is announced, and that *)
(* a job number means one job.                                             *)
(***************************************************************************)
EXTENDS KshJobs, WellFoundedInduction, TLAPS

-----------------------------------------------------------------------------
(* Greatest elements *)

LEMMA HasMin == \A T : T \subseteq Nat /\ T # {} => \E x \in T : \A y \in T : x <= y
<1> DEFINE R == OpToRel(<, Nat)
<1>1. \A T : T \subseteq Nat /\ T # {} => \E x \in T : \A y \in T : ~ (<<y, x>> \in R)
  <2>1. IsWellFoundedOn(R, Nat)
    BY NatLessThanWellFounded
  <2> HIDE DEF R
  <2> QED
    BY <2>1, WFMin
<1>2. \A x, y \in Nat : <<y, x>> \in R <=> y < x
  BY DEF OpToRel
<1> HIDE DEF R
<1> SUFFICES ASSUME NEW T, T \subseteq Nat, T # {} PROVE \E x \in T : \A y \in T : x <= y
  OBVIOUS
<1>3. PICK x \in T : \A y \in T : ~ (<<y, x>> \in R)
  BY <1>1
<1>4. ASSUME NEW y \in T PROVE x <= y
  <2>1. x \in Nat /\ y \in Nat
    OBVIOUS
  <2>2. ~(y < x)
    BY <1>2, <1>3, <2>1
  <2> QED
    BY <2>1, <2>2
<1> QED
  BY <1>4

LEMMA HasMax ==
  ASSUME NEW n \in Nat, NEW S, S \subseteq 0 .. n, S # {}
  PROVE  Max(S) \in S /\ \A y \in S : Max(S) >= y
<1> DEFINE T == {x \in Nat : x <= n /\ n - x \in S}
<1>1. T \subseteq Nat /\ T # {}
  <2>1. PICK s : s \in S
    OBVIOUS
  <2>2. n - s \in T
    BY <2>1
  <2> QED
    BY <2>2
<1>2. PICK x \in T : \A y \in T : x <= y
  BY <1>1, HasMin
<1>3. ASSUME NEW y \in S PROVE n - x >= y
  <2>1. n - y \in T
    OBVIOUS
  <2> QED
    BY <1>2, <2>1
<1> QED
  BY <1>2, <1>3 DEF Max

\* The last of the entries of some kind.
LEMMA LastFacts ==
  ASSUME NEW n \in Nat, NEW S, S \subseteq 1 .. n
  PROVE  /\ S = {} => Last(S) = 0
         /\ S # {} => Last(S) \in S /\ \A y \in S : Last(S) >= y
<1>1. S \subseteq 0 .. n
  OBVIOUS
<1> QED
  BY <1>1, HasMax DEF Last

-----------------------------------------------------------------------------
(* The invariant *)

Proc == [state : {"free", "run", "stop", "ended"}, notify : BOOLEAN,
         prev : 0 .. MaxProcs, proc : Pids \cup {None}, pgrp : Pids \cup {None},
         job : 0 .. MaxJob, out : BOOLEAN]

Typed ==
    /\ procs \in Seq(Proc) /\ Len(procs) \in 0 .. MaxProcs
    /\ lastjob \in 0 .. MaxJob
    /\ monitor \in BOOLEAN /\ talking \in BOOLEAN /\ lastj \in 0 .. Len(procs)
    /\ pc \in {"ready", "fork", "forked", "started", "pipe", "reading", "wait",
               "print", "free", "clear", "resume", "exited"}
    /\ cur \in 0 .. Len(procs) /\ (cur = 0 <=> pc \in {"ready", "exited"})
    /\ flags \subseteq {"in", "out", "bg", "xcom", "intr", "again"}
    /\ child \in Pids \cup {None}
    /\ kid \in [Pids -> {"none", "run", "stopped", "dead"}]
    /\ news \subseteq Pids
    /\ group \in [Pids -> Pids \cup {None}]
    /\ chld \in BOOLEAN

News(p) == p \in news /\ (monitor => chld)

\* What the kernel has news of: a child that has ended is news until it is reaped.
KernelInv ==
    /\ \A p \in news : kid[p] \in {"dead", "stopped"}
    /\ \A p \in Pids : kid[p] = "dead" => News(p)

\* An entry has its process from the moment exchild has written it there, and no
\* two entries have the same.
EntryInv ==
    /\ \A s \in 1 .. Len(procs) : procs[s].state = "free" => procs[s].proc = None
    /\ \A s \in 1 .. Len(procs) : procs[s].state \in {"stop", "ended"} => procs[s].proc \in Pids
    /\ \A s \in 1 .. Len(procs) :
         procs[s].state = "run" /\ procs[s].proc = None => pc \in {"fork", "forked"} /\ s = cur
    /\ pc \in {"fork", "forked"} => procs[cur].state = "run" /\ procs[cur].proc = None
    /\ \A s, t \in 1 .. Len(procs) :
         procs[s].proc # None /\ procs[s].proc = procs[t].proc => s = t
    /\ pc = "forked" =>
         /\ child \in Pids /\ \A s \in 1 .. Len(procs) : procs[s].proc # child
         /\ kid[child] = "run" \/ (kid[child] # "none" /\ News(child))

\* What the table says of a process, and what the kernel knows.
StateInv ==
    \A s \in 1 .. Len(procs) :
        /\ procs[s].state = "ended" => kid[procs[s].proc] = "none"
        /\ procs[s].state \in {"run", "stop"} /\ procs[s].proc # None =>
             kid[procs[s].proc] # "none" /\ group[procs[s].proc] = procs[s].pgrp
        /\ procs[s].state = "run" /\ procs[s].proc # None /\ ~(pc = "resume" /\ s = cur) =>
             kid[procs[s].proc] = "run" \/ News(procs[s].proc)

\* Processes of pipelines and of $() do not stop.
PipedInv ==
    /\ \A s \in 1 .. Len(procs) :
         procs[s].proc # None /\ (procs[s].out \/ procs[s].prev # 0) =>
             procs[s].state # "stop" /\ kid[procs[s].proc] # "stopped"
    /\ pc = "forked" /\ flags \cap {"in", "out"} # {} => kid[child] # "stopped"

\* The entry exchild is at, and the one wait, fg or bg has found.
FlagInv ==
    /\ pc \in {"fork", "forked", "started"} =>
         /\ procs[cur].state # "free" /\ procs[cur].job = lastjob
         /\ procs[cur].out <=> "out" \in flags
         /\ procs[cur].prev # 0 <=> "in" \in flags
         /\ "intr" \notin flags /\ ("xcom" \in flags => "bg" \notin flags)
    /\ pc = "pipe" =>
         /\ "out" \in flags /\ "intr" \notin flags /\ ("xcom" \in flags => "bg" \notin flags)
         /\ procs[cur].state # "free" => procs[cur].job = lastjob
    /\ pc = "reading" => flags \in {{}, {"again"}}
    /\ pc = "wait" /\ "intr" \in flags => procs[cur].prev = 0
    /\ pc = "resume" => procs[cur].state # "free" /\ ~procs[cur].out
    /\ pc \in {"fork", "forked", "started", "pipe"} =>
         \A s \in 1 .. Len(procs) : s > cur => procs[s].state # "free"

\* The last process of a pipeline is waited for, announced and freed.
TailInv ==
    \A s \in 1 .. Len(procs) :
        procs[s].state # "free" /\ ~procs[s].out /\ procs[s].prev # 0 =>
            \/ pc \in {"fork", "forked", "started"} /\ s = cur
            \/ pc = "wait" /\ (s = cur \/ procs[s].state = "ended")
            \/ pc \in {"print", "free"} /\ s <= cur /\ procs[s].state = "ended"
            \/ pc = "clear" /\ s < cur /\ procs[s].state = "ended"

\* S holds the entry at hand and whatever comes before its members.
Line(S) ==
    /\ cur \in S
    /\ \A s \in S :
         /\ procs[s].state = "free" =>
              "bg" \in flags /\ (pc = "wait" \/ (pc = "pipe" /\ s = cur))
         /\ procs[s].prev # 0 =>
              /\ procs[s].prev \in S
              /\ procs[procs[s].prev].job = procs[s].job \/ procs[s].state = "free"
         /\ pc \in {"fork", "forked", "started", "pipe"} /\ procs[s].prev = cur => s = cur

LineInv ==
    pc \in {"fork", "forked", "started", "pipe", "reading", "wait"} /\ "again" \notin flags =>
        \E S \in SUBSET (1 .. Len(procs)) : Line(S)

\* Ends that need no notice are those j_waitj has seen; j_notify frees them.
NoticeInv ==
    /\ \A s \in 1 .. Len(procs) :
         procs[s].state = "ended" /\ ~procs[s].notify =>
            \/ pc = "wait"
            \/ pc \in {"print", "free"} /\ s <= cur
            \/ pc = "clear" /\ s < cur
    /\ pc = "free" /\ talking /\ procs[cur].state = "ended" => ~procs[cur].notify
    /\ pc = "clear" => procs[cur].state # "ended"

\* No process of W runs, and from j_lastj one gets by way of W to x or to the end.
Behind(W, x) ==
    /\ lastj \in W \cup {x}
    /\ \A w \in W : procs[w].state # "run" /\ (procs[w].prev # 0 => procs[w].prev \in W \cup {x})

\* What the shell has behind it while it waits for a pipeline in $(), it meets again in
\* the same state when it waits for j_lastj the second time.
AgainInv ==
    /\ pc = "started" => lastj = cur
    /\ "again" \in flags => flags = {"again"} /\ pc \in {"reading", "wait"}
    /\ pc = "wait" /\ "xcom" \in flags => \E W \in SUBSET (1 .. Len(procs)) : Behind(W, cur)
    /\ pc \in {"print", "free", "clear"} /\ "xcom" \in flags =>
         \E W \in SUBSET (1 .. Len(procs)) : lastj \in W /\ Behind(W, lastj)
    /\ "again" \in flags =>
         \E W \in SUBSET (1 .. Len(procs)) : cur \in W /\ lastj \in W /\ Behind(W, lastj)

KInv == Typed /\ KernelInv /\ EntryInv /\ StateInv /\ PipedInv /\ FlagInv /\ TailInv
          /\ LineInv /\ NoticeInv /\ AgainInv

-----------------------------------------------------------------------------
(* Entries and the table *)

Noticed(e, n) == [e EXCEPT !.notify = n]
InState(e, n) == [e EXCEPT !.state = n]
Reporting(e, n) == [e EXCEPT !.notify = TRUE, !.state = n]
Holding(e, p, g) == [e EXCEPT !.proc = p, !.pgrp = g]

LEMMA NoticedFacts ==
  ASSUME NEW e \in Proc, NEW n \in BOOLEAN
  PROVE  LET f == Noticed(e, n)
         IN  /\ f \in Proc
             /\ f.notify = n /\ f.state = e.state /\ f.proc = e.proc /\ f.pgrp = e.pgrp
             /\ f.job = e.job /\ f.out = e.out /\ f.prev = e.prev
BY DEF Noticed, Proc

LEMMA InStateFacts ==
  ASSUME NEW e \in Proc, NEW n \in {"free", "run", "stop", "ended"}
  PROVE  LET f == InState(e, n)
         IN  /\ f \in Proc
             /\ f.state = n /\ f.notify = e.notify /\ f.proc = e.proc /\ f.pgrp = e.pgrp
             /\ f.job = e.job /\ f.out = e.out /\ f.prev = e.prev
BY DEF InState, Proc

LEMMA ReportingFacts ==
  ASSUME NEW e \in Proc, NEW n \in {"free", "run", "stop", "ended"}
  PROVE  LET f == Reporting(e, n)
         IN  /\ f \in Proc
             /\ f.state = n /\ f.notify /\ f.proc = e.proc /\ f.pgrp = e.pgrp
             /\ f.job = e.job /\ f.out = e.out /\ f.prev = e.prev
BY DEF Reporting, Proc

LEMMA FreedFacts ==
  ASSUME NEW e \in Proc, KshAssumption
  PROVE  /\ Freed(e) \in Proc
         /\ Freed(e).state = "free" /\ Freed(e).proc = None /\ Freed(e).pgrp = None
         /\ Freed(e).job = 0 /\ ~Freed(e).out
         /\ Freed(e).prev = e.prev /\ Freed(e).notify = e.notify
<1>0. PICK b \in BOOLEAN : b = FALSE
  BY Zenon
<1>1. PICK n \in Pids \cup {None}, m \in 0 .. MaxJob : n = None /\ m = 0
  BY DEF KshAssumption
<1>2. Freed(e) = [e EXCEPT !.state = "free", !.proc = n, !.pgrp = n, !.job = m, !.out = b]
  BY <1>0, <1>1 DEF Freed
<1>3. ASSUME NEW f, f = [e EXCEPT !.state = "free", !.proc = n, !.pgrp = n, !.job = m, !.out = b]
      PROVE  /\ f \in Proc
             /\ f.state = "free" /\ f.proc = n /\ f.pgrp = n /\ f.job = m /\ f.out = b
             /\ f.prev = e.prev /\ f.notify = e.notify
  BY <1>3 DEF Proc
<1> QED
  BY <1>0, <1>1, <1>2, <1>3

LEMMA PrintFacts ==
  ASSUME NEW e \in Proc, KshAssumption
  PROVE  /\ j_print(e) \in Proc
         /\ e.state = "ended" => j_print(e) = Freed(e)
         /\ e.state # "ended" => j_print(e) = e
BY FreedFacts DEF j_print

LEMMA TypedFacts ==
  ASSUME Typed, NEW s \in 1 .. Len(procs)
  PROVE  /\ procs[s] \in Proc
         /\ procs[s].state \in {"free", "run", "stop", "ended"}
         /\ procs[s].prev \in 0 .. MaxProcs /\ procs[s].job \in 0 .. MaxJob
         /\ procs[s].proc \in Pids \cup {None} /\ procs[s].pgrp \in Pids \cup {None}
<1>1. procs[s] \in Proc
  BY DEF Typed
<1> QED
  BY <1>1 DEF Proc

\* What is behind stays there, as long as no process is made to run.
LEMMA AgainKept ==
  ASSUME AgainInv, Len(procs') = Len(procs), lastj' = lastj, pc' # "started",
         \A s \in 1 .. Len(procs) :
            procs'[s].prev = procs[s].prev /\ (procs[s].state # "run" => procs'[s].state # "run"),
         flags' = flags /\ (pc' = pc \/ {pc, pc'} \subseteq {"print", "free", "clear"}),
         cur' = cur \/ {pc, pc'} \subseteq {"print", "free", "clear"}
  PROVE  AgainInv'
<1>2. "again" \in flags' => flags' = {"again"} /\ pc' \in {"reading", "wait"} /\ cur' = cur
  BY DEF AgainInv
<1>3. pc' = "wait" /\ "xcom" \in flags' => \E W \in SUBSET (1 .. Len(procs)) : Behind(W, cur)'
  <2> SUFFICES ASSUME pc' = "wait", "xcom" \in flags'
               PROVE  \E W \in SUBSET (1 .. Len(procs)) : Behind(W, cur)'
    OBVIOUS
  <2>1. PICK W \in SUBSET (1 .. Len(procs)) : Behind(W, cur)
    BY DEF AgainInv
  <2>2. Behind(W, cur)'
    BY <2>1 DEF Behind
  <2> QED
    BY <2>2
<1>4. pc' \in {"print", "free", "clear"} /\ "xcom" \in flags' =>
         \E W \in SUBSET (1 .. Len(procs)) : (lastj \in W /\ Behind(W, lastj))'
  <2> SUFFICES ASSUME pc' \in {"print", "free", "clear"}, "xcom" \in flags'
               PROVE  \E W \in SUBSET (1 .. Len(procs)) : (lastj \in W /\ Behind(W, lastj))'
    OBVIOUS
  <2>1. PICK W \in SUBSET (1 .. Len(procs)) : lastj \in W /\ Behind(W, lastj)
    BY DEF AgainInv
  <2>2. (lastj \in W /\ Behind(W, lastj))'
    BY <2>1 DEF Behind
  <2> QED
    BY <2>2
<1>5. "again" \in flags' =>
         \E W \in SUBSET (1 .. Len(procs)) : (cur \in W /\ lastj \in W /\ Behind(W, lastj))'
  <2> SUFFICES ASSUME "again" \in flags'
               PROVE  \E W \in SUBSET (1 .. Len(procs)) : (cur \in W /\ lastj \in W /\ Behind(W, lastj))'
    OBVIOUS
  <2>1. PICK W \in SUBSET (1 .. Len(procs)) : cur \in W /\ lastj \in W /\ Behind(W, lastj)
    BY DEF AgainInv
  <2>2. (cur \in W /\ lastj \in W /\ Behind(W, lastj))'
    BY <1>2, <2>1 DEF Behind
  <2> QED
    BY <2>2
<1> QED
  BY <1>2, <1>3, <1>4, <1>5 DEF AgainInv

-----------------------------------------------------------------------------
(* The kernel *)

LEMMA ExitStep ==
  ASSUME KInv, NEW p \in Pids, Exit(p)
  PROVE  KInv'
<1>1. Typed'
  BY DEF KInv, Typed, Exit, table, shell, steady
<1>2. KernelInv'
  BY DEF KInv, Typed, KernelInv, News, Exit, table, shell, steady
<1>3. EntryInv'
  BY DEF KInv, Typed, EntryInv, KernelInv, News, Exit, table, shell, steady
<1>4. StateInv'
  BY DEF KInv, Typed, EntryInv, StateInv, KernelInv, News, Exit, table, shell, steady
<1>5. PipedInv'
  BY DEF KInv, Typed, PipedInv, EntryInv, Exit, table, shell, steady
<1>6. FlagInv'
  BY DEF KInv, Typed, FlagInv, EntryInv, Exit, table, shell, steady
<1>7. TailInv'
  BY DEF KInv, Typed, TailInv, FlagInv, Exit, table, shell, steady
<1>8. LineInv'
  BY DEF KInv, Typed, LineInv, FlagInv, Line, Exit, table, shell, steady
<1>9. NoticeInv'
  BY DEF KInv, Typed, NoticeInv, Exit, table, shell, steady
<1>10. AgainInv'
  BY DEF KInv, AgainInv, Behind, FlagInv, Exit, table, shell, steady
<1> QED
  BY <1>1, <1>2, <1>3, <1>4, <1>5, <1>6, <1>7, <1>8, <1>9, <1>10 DEF KInv

LEMMA StopStep ==
  ASSUME KInv, NEW p \in Pids, Stop(p), Allowed = {}
  PROVE  KInv'
<1>1. Typed'
  BY DEF KInv, Typed, Stop, Piped, table, shell, steady
<1>2. KernelInv'
  BY DEF KInv, Typed, KernelInv, News, Stop, Piped, table, shell, steady
<1>3. EntryInv'
  BY DEF KInv, Typed, EntryInv, KernelInv, News, Stop, Piped, table, shell, steady
<1>4. StateInv'
  BY DEF KInv, Typed, EntryInv, StateInv, KernelInv, News, Stop, Piped, table, shell, steady
<1>5. PipedInv'
  BY DEF KInv, Typed, PipedInv, EntryInv, Stop, Piped, table, shell, steady
<1>6. FlagInv'
  BY DEF KInv, Typed, FlagInv, EntryInv, Stop, Piped, table, shell, steady
<1>7. TailInv'
  BY DEF KInv, Typed, TailInv, FlagInv, Stop, Piped, table, shell, steady
<1>8. LineInv'
  BY DEF KInv, Typed, LineInv, FlagInv, Line, Stop, Piped, table, shell, steady
<1>9. NoticeInv'
  BY DEF KInv, Typed, NoticeInv, Stop, Piped, table, shell, steady
<1>10. AgainInv'
  BY DEF KInv, AgainInv, Behind, FlagInv, Stop, Piped, table, shell, steady
<1> QED
  BY <1>1, <1>2, <1>3, <1>4, <1>5, <1>6, <1>7, <1>8, <1>9, <1>10 DEF KInv

LEMMA ContStep ==
  ASSUME KInv, NEW p \in Pids, Cont(p)
  PROVE  KInv'
<1>1. Typed'
  BY DEF KInv, Typed, Cont, table, shell, steady
<1>2. KernelInv'
  BY DEF KInv, Typed, KernelInv, News, Cont, table, shell, steady
<1>3. EntryInv'
  BY DEF KInv, Typed, EntryInv, KernelInv, News, Cont, table, shell, steady
<1>4. StateInv'
  BY DEF KInv, Typed, EntryInv, StateInv, KernelInv, News, Cont, table, shell, steady
<1>5. PipedInv'
  BY DEF KInv, Typed, PipedInv, EntryInv, Cont, table, shell, steady
<1>6. FlagInv'
  BY DEF KInv, Typed, FlagInv, EntryInv, Cont, table, shell, steady
<1>7. TailInv'
  BY DEF KInv, Typed, TailInv, FlagInv, Cont, table, shell, steady
<1>8. LineInv'
  BY DEF KInv, Typed, LineInv, FlagInv, Line, Cont, table, shell, steady
<1>9. NoticeInv'
  BY DEF KInv, Typed, NoticeInv, Cont, table, shell, steady
<1>10. AgainInv'
  BY DEF KInv, AgainInv, Behind, FlagInv, Cont, table, shell, steady
<1> QED
  BY <1>1, <1>2, <1>3, <1>4, <1>5, <1>6, <1>7, <1>8, <1>9, <1>10 DEF KInv

LEMMA ForkStep ==
  ASSUME KInv, fork, Allowed = {}, KshAssumption
  PROVE  KInv'
<1>1. Typed'
  BY DEF KInv, Typed, fork, table, steady
<1>2. KernelInv'
  BY DEF KInv, Typed, KernelInv, News, fork, table, steady
<1>3. EntryInv'
  BY DEF KInv, Typed, EntryInv, KernelInv, News, fork, table, steady
<1>4. StateInv'
  BY DEF KInv, Typed, EntryInv, StateInv, KernelInv, News, fork, table, steady
<1>5. PipedInv'
  BY DEF KInv, Typed, PipedInv, EntryInv, fork, table, steady
<1>6. FlagInv'
  BY DEF KInv, Typed, FlagInv, EntryInv, fork, table, steady
<1>7. TailInv'
  BY DEF KInv, Typed, TailInv, FlagInv, fork, table, steady
<1>8. LineInv'
  BY DEF KInv, Typed, LineInv, FlagInv, Line, fork, table, steady
<1>9. NoticeInv'
  BY DEF KInv, Typed, NoticeInv, fork, table, steady
<1>10. AgainInv'
  BY DEF KInv, AgainInv, Behind, FlagInv, fork, table, steady
<1> QED
  BY <1>1, <1>2, <1>3, <1>4, <1>5, <1>6, <1>7, <1>8, <1>9, <1>10 DEF KInv

LEMMA WaitLastStep ==
  ASSUME KInv, waitlast
  PROVE  KInv'
<1>1. Typed'
  BY DEF KInv, Typed, waitlast, table, steady, kernel
<1>2. KernelInv'
  BY DEF KInv, Typed, KernelInv, News, waitlast, table, steady, kernel
<1>3. EntryInv'
  BY DEF KInv, Typed, EntryInv, KernelInv, News, waitlast, table, steady, kernel
<1>4. StateInv'
  BY DEF KInv, Typed, EntryInv, StateInv, KernelInv, News, waitlast, table, steady, kernel
<1>5. PipedInv'
  BY DEF KInv, Typed, PipedInv, EntryInv, waitlast, table, steady, kernel
<1>6. FlagInv'
  BY DEF KInv, Typed, FlagInv, EntryInv, waitlast, table, steady, kernel
<1>7. TailInv'
  BY DEF KInv, Typed, TailInv, FlagInv, waitlast, table, steady, kernel
<1>8. LineInv'
  BY DEF KInv, Typed, LineInv, FlagInv, Line, waitlast, table, steady, kernel
<1>9. NoticeInv'
  BY DEF KInv, Typed, NoticeInv, waitlast, table, steady, kernel
<1>10. AgainInv'
  BY DEF KInv, AgainInv, Behind, FlagInv, waitlast, table, steady, kernel
<1> QED
  BY <1>1, <1>2, <1>3, <1>4, <1>5, <1>6, <1>7, <1>8, <1>9, <1>10 DEF KInv

LEMMA BreakStep ==
  ASSUME KInv, Break, KshAssumption
  PROVE  KInv'
<1>1. Typed'
  BY DEF KInv, Typed, Break, Prompt, table, steady, kernel
<1>2. KernelInv'
  BY DEF KInv, Typed, KernelInv, News, Break, Prompt, table, steady, kernel
<1>3. EntryInv'
  BY DEF KInv, Typed, EntryInv, KernelInv, News, Break, Prompt, table, steady, kernel
<1>4. StateInv'
  BY DEF KInv, Typed, EntryInv, StateInv, KernelInv, News, Break, Prompt, table, steady, kernel
<1>5. PipedInv'
  BY DEF KInv, Typed, PipedInv, EntryInv, Break, Prompt, table, steady, kernel
<1>6. FlagInv'
  BY DEF KInv, Typed, FlagInv, EntryInv, Break, Prompt, table, steady, kernel
<1>7. TailInv'
  BY DEF KInv, Typed, TailInv, FlagInv, Break, Prompt, table, steady, kernel
<1>8. LineInv'
  BY DEF KInv, Typed, LineInv, FlagInv, Line, Break, Prompt, table, steady, kernel
<1>9. NoticeInv'
  BY DEF KInv, Typed, NoticeInv, Break, Prompt, table, steady, kernel
<1>10. AgainInv'
  BY DEF KInv, AgainInv, Behind, FlagInv, Break, Prompt, table, steady, kernel
<1> QED
  BY <1>1, <1>2, <1>3, <1>4, <1>5, <1>6, <1>7, <1>8, <1>9, <1>10 DEF KInv

LEMMA PromptStep ==
  ASSUME KInv, prompt
  PROVE  KInv'
<1>1. Typed'
  BY DEF KInv, Typed, prompt, Prompt, table, steady, kernel
<1>2. KernelInv'
  BY DEF KInv, Typed, KernelInv, News, prompt, Prompt, table, steady, kernel
<1>3. EntryInv'
  BY DEF KInv, Typed, EntryInv, KernelInv, News, prompt, Prompt, table, steady, kernel
<1>4. StateInv'
  BY DEF KInv, Typed, EntryInv, StateInv, KernelInv, News, prompt, Prompt, table, steady, kernel
<1>5. PipedInv'
  BY DEF KInv, Typed, PipedInv, EntryInv, prompt, Prompt, table, steady, kernel
<1>6. FlagInv'
  BY DEF KInv, Typed, FlagInv, EntryInv, prompt, Prompt, table, steady, kernel
<1>7. TailInv'
  BY DEF KInv, Typed, TailInv, FlagInv, prompt, Prompt, table, steady, kernel
<1>8. LineInv'
  BY DEF KInv, Typed, LineInv, FlagInv, Line, prompt, Prompt, table, steady, kernel
<1>9. NoticeInv'
  BY DEF KInv, Typed, NoticeInv, prompt, Prompt, table, steady, kernel
<1>10. AgainInv'
  BY DEF KInv, AgainInv, Behind, FlagInv, prompt, Prompt, table, steady, kernel
<1> QED
  BY <1>1, <1>2, <1>3, <1>4, <1>5, <1>6, <1>7, <1>8, <1>9, <1>10 DEF KInv

LEMMA KillStep ==
  ASSUME KInv, killpg, KshAssumption
  PROVE  KInv'
<1>0. procs' = procs /\ monitor' = monitor /\ group' = group /\ chld' = chld
      /\ pc = "resume" /\ pc' \in {"ready", "wait"}
  BY DEF killpg, table, steady
<1>00. \A p \in Pids : /\ kid'[p] = IF p \in Members /\ kid[p] = "stopped" THEN "run" ELSE kid[p]
                       /\ p \in news' <=> p \in news /\ ~(p \in Members /\ kid[p] = "stopped")
  BY DEF killpg, KInv, Typed
<1>1. Typed'
  BY DEF KInv, Typed, killpg, Members, table, steady
<1>2. KernelInv'
  BY DEF KInv, Typed, KernelInv, News, killpg, Members, table, steady
<1>3. EntryInv'
  BY DEF KInv, Typed, EntryInv, KernelInv, News, killpg, Members, table, steady
<1>4. StateInv'
  <2> SUFFICES ASSUME NEW s \in 1 .. Len(procs)
               PROVE  /\ procs[s].state = "ended" => kid'[procs[s].proc] = "none"
                      /\ procs[s].state \in {"run", "stop"} /\ procs[s].proc # None =>
                           kid'[procs[s].proc] # "none" /\ group[procs[s].proc] = procs[s].pgrp
                      /\ procs[s].state = "run" /\ procs[s].proc # None =>
                           kid'[procs[s].proc] = "run" \/ News(procs[s].proc)'
    BY <1>0 DEF StateInv
  <2>1. procs[s] \in Proc /\ procs[s].proc \in Pids \cup {None}
    BY TypedFacts DEF KInv
  <2>2. CASE procs[s].proc = None
    BY <2>1, <2>2 DEF KInv, EntryInv, KshAssumption
  <2>3. CASE procs[s].proc \in Pids
    <3>1. procs[s].state = "run" /\ s = cur /\ kid[procs[s].proc] # "none" => procs[s].proc \in Members
      BY <2>3 DEF KInv, StateInv, Members, KshAssumption
    <3>2. kid[procs[s].proc] \in {"none", "run", "stopped", "dead"}
      BY <2>3 DEF KInv, Typed
    <3> QED
      BY <1>0, <1>00, <2>3, <3>1, <3>2 DEF KInv, StateInv, KernelInv, EntryInv, News, KshAssumption
  <2> QED
    BY <2>1, <2>2, <2>3
<1>5. PipedInv'
  BY <1>0, <1>00, TypedFacts DEF KInv, PipedInv
<1>6. FlagInv'
  BY DEF KInv, Typed, FlagInv, EntryInv, killpg, Members, table, steady
<1>7. TailInv'
  BY DEF KInv, Typed, TailInv, FlagInv, killpg, Members, table, steady
<1>8. LineInv'
  <2>1. procs[cur].prev = 0 /\ procs[cur].state # "free" /\ cur \in 1 .. Len(procs)
    BY <1>0 DEF KInv, Typed, FlagInv, TailInv, Proc
  <2>2. pc' = "wait" => cur' = cur
    BY DEF killpg
  <2>3. SUFFICES ASSUME pc' = "wait" PROVE \E S \in SUBSET (1 .. Len(procs)) : Line(S)'
    BY <1>0 DEF LineInv
  <2>5. PICK S : S = {cur}
    OBVIOUS
  <2>6. Line(S)'
    BY <2>2, <2>3, <2>5, <1>0, <2>1 DEF Line
  <2> QED
    BY <2>1, <2>5, <2>6
<1>9. NoticeInv'
  BY DEF KInv, Typed, NoticeInv, killpg, Members, table, steady
<1>10. AgainInv'
  BY DEF KInv, AgainInv, Behind, FlagInv, killpg, Members, table, steady
<1> QED
  BY <1>1, <1>2, <1>3, <1>4, <1>5, <1>6, <1>7, <1>8, <1>9, <1>10 DEF KInv

LEMMA KillErrorStep ==
  ASSUME KInv, killpg_error
  PROVE  KInv'
<1>1. Typed'
  BY DEF KInv, Typed, killpg_error, Members, Prompt, table, steady, kernel
<1>2. KernelInv'
  BY DEF KInv, Typed, KernelInv, News, killpg_error, Members, Prompt, table, steady, kernel
<1>3. EntryInv'
  BY DEF KInv, Typed, EntryInv, KernelInv, News, killpg_error, Members, Prompt, table, steady, kernel
<1>4. StateInv'
  <2>1. \A s \in 1 .. Len(procs) : procs[s] \in Proc /\ procs[s].proc \in Pids \cup {None}
    BY TypedFacts DEF KInv
  <2>2. ~(procs[cur].state = "run" /\ procs[cur].proc # None)
    BY <2>1 DEF KInv, Typed, StateInv, killpg_error, Members
  <2> QED
    BY <2>2 DEF KInv, StateInv, News, killpg_error, table, steady, kernel
<1>5. PipedInv'
  BY DEF KInv, Typed, PipedInv, EntryInv, killpg_error, Members, Prompt, table, steady, kernel
<1>6. FlagInv'
  BY DEF KInv, Typed, FlagInv, EntryInv, killpg_error, Members, Prompt, table, steady, kernel
<1>7. TailInv'
  BY DEF KInv, Typed, TailInv, FlagInv, killpg_error, Members, Prompt, table, steady, kernel
<1>8. LineInv'
  BY DEF KInv, Typed, LineInv, FlagInv, Line, killpg_error, Members, Prompt, table, steady, kernel
<1>9. NoticeInv'
  BY DEF KInv, Typed, NoticeInv, killpg_error, Members, Prompt, table, steady, kernel
<1>10. AgainInv'
  BY DEF KInv, AgainInv, Behind, FlagInv, killpg_error, Members, Prompt, table, steady, kernel
<1> QED
  BY <1>1, <1>2, <1>3, <1>4, <1>5, <1>6, <1>7, <1>8, <1>9, <1>10 DEF KInv

LEMMA ChangeStep ==
  ASSUME KInv, j_change, Allowed = {}
  PROVE  KInv'
<1>1. Typed'
  BY DEF KInv, Typed, j_change, table, shell
<1>2. KernelInv'
  BY DEF KInv, Typed, KernelInv, News, j_change, table, shell
<1>3. EntryInv'
  BY DEF KInv, Typed, EntryInv, KernelInv, News, j_change, table, shell
<1>4. StateInv'
  BY DEF KInv, Typed, EntryInv, StateInv, KernelInv, News, j_change, table, shell
<1>5. PipedInv'
  BY DEF KInv, Typed, PipedInv, EntryInv, j_change, table, shell
<1>6. FlagInv'
  BY DEF KInv, Typed, FlagInv, EntryInv, j_change, table, shell
<1>7. TailInv'
  BY DEF KInv, Typed, TailInv, FlagInv, j_change, table, shell
<1>8. LineInv'
  BY DEF KInv, Typed, LineInv, FlagInv, Line, j_change, table, shell
<1>9. NoticeInv'
  BY DEF KInv, Typed, NoticeInv, j_change, table, shell
<1>10. AgainInv'
  BY DEF KInv, AgainInv, Behind, FlagInv, j_change, table, shell
<1> QED
  BY <1>1, <1>2, <1>3, <1>4, <1>5, <1>6, <1>7, <1>8, <1>9, <1>10 DEF KInv

-----------------------------------------------------------------------------
(* j_sigchld *)

LEMMA EntryOfFacts ==
  ASSUME Typed, EntryInv, KshAssumption, NEW p \in Pids, NEW s \in 1 .. Len(procs)
  PROVE  EntryOf(p) = s <=> procs[s].proc = p
<1> DEFINE S == {t \in DOMAIN procs : procs[t].state # "free" /\ procs[t].proc = p}
<1>1. DOMAIN procs = 1 .. Len(procs) /\ Len(procs) \in Nat
  BY DEF Typed
<1>2. S \subseteq 1 .. Len(procs) /\ EntryOf(p) = Last(S)
  BY <1>1 DEF EntryOf
<1>3. \A t \in 1 .. Len(procs) : t \in S <=> procs[t].proc = p
  BY <1>1 DEF EntryInv, KshAssumption
<1> HIDE DEF S
<1>a. /\ S = {} => Last(S) = 0
      /\ S # {} => Last(S) \in S
  BY <1>1, <1>2, LastFacts
<1>4. CASE procs[s].proc = p
  <2>1. s \in S /\ Last(S) \in S
    BY <1>1, <1>2, <1>3, <1>4, <1>a
  <2>2. procs[Last(S)].proc = p /\ Last(S) \in 1 .. Len(procs) /\ p # None
    BY <2>1, <1>2, <1>3 DEF KshAssumption
  <2> QED
    BY <1>2, <1>4, <2>2 DEF EntryInv
<1>5. CASE EntryOf(p) = s
  <2>1. S # {}
    BY <1>1, <1>2, <1>5, <1>a
  <2> QED
    BY <1>1, <1>2, <1>3, <1>5, <2>1, <1>a
<1> QED
  BY <1>4, <1>5

\* The entries of the processes in P, and only those, are said to have ended or stopped.
LEMMA ReportedFacts ==
  ASSUME Typed, EntryInv, KshAssumption, NEW P \in SUBSET Pids, procs' = Reported(P)
  PROVE  /\ procs' \in Seq(Proc) /\ Len(procs') = Len(procs)
         /\ \A s \in 1 .. Len(procs) :
              /\ procs'[s].proc = procs[s].proc /\ procs'[s].pgrp = procs[s].pgrp
              /\ procs'[s].job = procs[s].job /\ procs'[s].prev = procs[s].prev
              /\ procs'[s].out = procs[s].out
              /\ procs[s].proc \in P => procs'[s].notify
              /\ procs[s].proc \in P =>
                   procs'[s].state = IF kid[procs[s].proc] = "stopped" THEN "stop" ELSE "ended"
              /\ procs[s].proc \notin P => procs'[s] = procs[s]
<1> DEFINE new(s) == IF kid[procs[s].proc] = "stopped" THEN "stop" ELSE "ended"
           e(s) == Reporting(procs[s], new(s))
           r(s) == IF procs[s].proc \in P THEN e(s) ELSE procs[s]
<1>1. DOMAIN procs = 1 .. Len(procs) /\ Len(procs) \in Nat
  BY DEF Typed
<1>2. \A s \in 1 .. Len(procs) : (\E p \in P : EntryOf(p) = s) <=> procs[s].proc \in P
  BY EntryOfFacts
<1>3. procs' = [s \in 1 .. Len(procs) |-> r(s)]
  BY <1>1, <1>2, Zenon DEF Reported, Reporting
<1>4. ASSUME NEW s \in 1 .. Len(procs)
      PROVE  /\ e(s) \in Proc
             /\ e(s).state = new(s) /\ e(s).notify /\ e(s).proc = procs[s].proc
             /\ e(s).pgrp = procs[s].pgrp /\ e(s).job = procs[s].job
             /\ e(s).out = procs[s].out /\ e(s).prev = procs[s].prev
  <2>1. procs[s] \in Proc /\ new(s) \in {"free", "run", "stop", "ended"}
    BY TypedFacts
  <2> HIDE DEF new
  <2> QED
    BY <2>1, ReportingFacts
<1>5. \A s \in 1 .. Len(procs) : r(s) \in Proc
  BY <1>4, TypedFacts
<1> HIDE DEF e, new
<1>6. procs' \in Seq(Proc) /\ Len(procs') = Len(procs)
  <2> HIDE DEF r
  <2> QED
    BY <1>1, <1>3, <1>5
<1>7. \A s \in 1 .. Len(procs) : procs'[s] = r(s)
  BY <1>3
<1> QED
  BY <1>4, <1>6, <1>7 DEF new

\* Whatever of its news the kernel tells: the table says it, and forgets who has ended.
LEMMA ReportStep ==
  ASSUME KInv, KshAssumption, NEW P \in SUBSET news,
         procs' = Reported(P), Reap(P), news' = news \ P, chld' \in BOOLEAN,
         news' = {} \/ ~monitor, pc \notin {"forked", "free", "clear"},
         pc = "wait" => procs[cur].state = "run",
         UNCHANGED <<lastjob, shell, steady>>
  PROVE  KInv'
<1>1. P \in SUBSET Pids /\ \A p \in P : kid[p] \in {"dead", "stopped"}
  BY DEF KInv, Typed, KernelInv
<1>2. /\ procs' \in Seq(Proc) /\ Len(procs') = Len(procs)
      /\ \A s \in 1 .. Len(procs) :
           /\ procs'[s].proc = procs[s].proc /\ procs'[s].pgrp = procs[s].pgrp
           /\ procs'[s].job = procs[s].job /\ procs'[s].prev = procs[s].prev
           /\ procs'[s].out = procs[s].out
           /\ procs[s].proc \in P => procs'[s].notify
           /\ procs[s].proc \in P =>
                procs'[s].state = IF kid[procs[s].proc] = "stopped" THEN "stop" ELSE "ended"
           /\ procs[s].proc \notin P => procs'[s] = procs[s]
  BY <1>1, ReportedFacts DEF KInv
<1>3. /\ \A p \in Pids : /\ kid'[p] = IF p \in P /\ kid[p] = "dead" THEN "none" ELSE kid[p]
                         /\ group'[p] = IF p \in P /\ kid[p] = "dead" THEN None ELSE group[p]
      /\ kid' \in [Pids -> {"none", "run", "stopped", "dead"}]
      /\ group' \in [Pids -> Pids \cup {None}]
  BY DEF Reap, Dead, KInv, Typed
<1>4. /\ pc' = pc /\ cur' = cur /\ flags' = flags /\ child' = child /\ lastjob' = lastjob
      /\ monitor' = monitor /\ talking' = talking /\ lastj' = lastj
  BY DEF shell, steady
<1>5. \A s \in 1 .. Len(procs) : procs[s].proc \in Pids \cup {None}
  BY TypedFacts DEF KInv
<1>6. \A s \in 1 .. Len(procs) : procs[s].proc \in P => procs[s].state \in {"run", "stop"}
  <2> SUFFICES ASSUME NEW s \in 1 .. Len(procs), procs[s].proc \in P
               PROVE  procs[s].state \in {"run", "stop"}
    OBVIOUS
  <2>1. procs[s].proc # None /\ kid[procs[s].proc] # "none"
    BY <1>1 DEF KshAssumption
  <2>2. procs[s].state \in {"free", "run", "stop", "ended"}
    BY TypedFacts DEF KInv
  <2> QED
    BY <2>1, <2>2 DEF KInv, EntryInv, StateInv
<1>7. Typed'
  BY <1>2, <1>3, <1>4 DEF KInv, Typed
<1>8. KernelInv'
  BY <1>1, <1>3, <1>4 DEF KInv, Typed, KernelInv, News
<1>9. EntryInv'
  <2>1. \A s \in 1 .. Len(procs) : procs'[s].state = "free" => procs[s].state = "free"
    BY <1>2
  <2>2. \A s \in 1 .. Len(procs) :
          procs'[s].state \in {"stop", "ended"} => procs[s].proc \in Pids
    BY <1>1, <1>2 DEF KInv, EntryInv
  <2>3. \A s \in 1 .. Len(procs) :
          procs'[s].state = "run" => procs[s].state = "run"
    BY <1>2
  <2>4. pc = "fork" => procs'[cur].state = "run" /\ procs'[cur].proc = None
    BY <1>1, <1>2 DEF KInv, Typed, EntryInv, KshAssumption
  <2> QED
    BY <1>2, <1>4, <2>1, <2>2, <2>3, <2>4 DEF KInv, EntryInv
<1>10. StateInv'
  <2> SUFFICES ASSUME NEW s \in 1 .. Len(procs)
               PROVE  /\ procs'[s].state = "ended" => kid'[procs[s].proc] = "none"
                      /\ procs'[s].state \in {"run", "stop"} /\ procs[s].proc # None =>
                           kid'[procs[s].proc] # "none" /\ group'[procs[s].proc] = procs[s].pgrp
                      /\ procs'[s].state = "run" /\ procs[s].proc # None
                           /\ ~(pc = "resume" /\ s = cur) =>
                           kid'[procs[s].proc] = "run" \/ News(procs[s].proc)'
    BY <1>2, <1>4 DEF StateInv
  <2>1. CASE procs[s].proc \in P
    BY <1>1, <1>2, <1>3, <1>6, <2>1 DEF KInv, StateInv, KshAssumption
  <2>2. CASE procs[s].proc \notin P /\ procs[s].proc \in Pids
    BY <1>2, <1>3, <1>4, <2>2 DEF KInv, StateInv, News
  <2>3. CASE procs[s].proc = None
    BY <1>1, <1>2, <2>3 DEF KInv, EntryInv, KshAssumption
  <2> QED
    BY <1>5, <2>1, <2>2, <2>3
<1>11. PipedInv'
  <2>1. \A s \in 1 .. Len(procs) :
          procs[s].proc # None /\ kid'[procs[s].proc] = "stopped" => kid[procs[s].proc] = "stopped"
    BY <1>3, <1>5
  <2>2. \A s \in 1 .. Len(procs) :
          procs'[s].state = "stop" => procs[s].state = "stop" \/ kid[procs[s].proc] = "stopped"
    BY <1>2
  <2> QED
    BY <1>2, <1>4, <2>1, <2>2 DEF KInv, PipedInv
<1>12. \A s \in 1 .. Len(procs) : procs'[s].state = "free" <=> procs[s].state = "free"
  BY <1>2, <1>6
<1>13. FlagInv'
  BY <1>2, <1>4, <1>12 DEF KInv, Typed, FlagInv
<1>14. TailInv'
  <2>1. \A s \in 1 .. Len(procs) : procs[s].state = "ended" => procs'[s].state = "ended"
    BY <1>2, <1>6
  <2> QED
    BY <1>2, <1>4, <1>12, <2>1 DEF KInv, Typed, TailInv
<1>15. LineInv'
  <2> SUFFICES ASSUME pc \in {"fork", "forked", "started", "pipe", "reading", "wait"},
                      "again" \notin flags
               PROVE  \E S \in SUBSET (1 .. Len(procs)) : Line(S)'
    BY <1>2, <1>4 DEF LineInv
  <2>1. PICK S \in SUBSET (1 .. Len(procs)) : Line(S)
    BY DEF KInv, LineInv
  <2>2. Line(S)'
    <3>1. cur' \in S
      BY <1>4, <2>1 DEF Line
    <3>2. ASSUME NEW s \in S
          PROVE  /\ procs'[s].state = "free" =>
                      "bg" \in flags' /\ (pc' = "wait" \/ (pc' = "pipe" /\ s = cur'))
                 /\ procs'[s].prev # 0 => procs'[s].prev \in S
                 /\ pc' \in {"fork", "forked", "started", "pipe"} /\ procs'[s].prev = cur' => s = cur'
      BY <1>2, <1>4, <1>12, <2>1 DEF Line
    <3>3. ASSUME NEW s \in S, procs'[s].prev # 0
          PROVE  procs'[procs'[s].prev].job = procs'[s].job \/ procs'[s].state = "free"
      <4>0. procs'[s].prev = procs[s].prev
        BY <1>2
      <4>a. procs[s].prev \in S /\ (procs[procs[s].prev].job = procs[s].job \/ procs[s].state = "free")
        BY <2>1, <3>3, <4>0 DEF Line
      <4>1. /\ procs[s].prev \in 1 .. Len(procs) /\ procs'[s].prev = procs[s].prev
            /\ procs[procs[s].prev].job = procs[s].job \/ procs[s].state = "free"
        BY <4>0, <4>a
      <4> QED
        BY <1>2, <1>12, <4>1
    <3> QED
      BY <3>1, <3>2, <3>3 DEF Line
  <2> QED
    BY <2>2
<1>16. NoticeInv'
  <2>1. \A s \in 1 .. Len(procs) :
          procs'[s].state = "ended" /\ ~procs'[s].notify => procs[s].state = "ended" /\ ~procs[s].notify
    BY <1>2
  <2> QED
    BY <1>2, <1>4, <2>1 DEF KInv, NoticeInv
<1>17. AgainInv'
  <2>1. \A s \in 1 .. Len(procs) : procs[s].state # "run" => procs'[s].state # "run"
    BY <1>2
  <2> QED
    BY <1>2, <1>4, <2>1, AgainKept DEF KInv, AgainInv, Behind
<1> QED
  BY <1>7, <1>8, <1>9, <1>10, <1>11, <1>13, <1>14, <1>15, <1>16, <1>17 DEF KInv

LEMMA SignalStep ==
  ASSUME KInv, KshAssumption, Allowed = {}, j_sigchld
  PROVE  KInv'
<1>1. pc \notin {"forked", "free", "clear"} /\ (pc = "wait" => procs[cur].state = "run")
  BY DEF j_sigchld, Unblocked
<1>2. news \in SUBSET news /\ news' = news \ news /\ news' = {} /\ chld' \in BOOLEAN
  BY DEF j_sigchld
<1> QED
  BY <1>1, <1>2, ReportStep DEF j_sigchld

LEMMA SignalWaitStep ==
  ASSUME KInv, KshAssumption, j_sigchld_wait
  PROVE  KInv'
<1>1. PICK p \in Pids : /\ kid[p] = "dead" /\ procs' = Reported({p}) /\ Reap({p})
                        /\ news' = news \ {p}
  BY DEF j_sigchld_wait
<1>2. {p} \in SUBSET news /\ chld' \in BOOLEAN
  BY <1>1 DEF j_sigchld_wait, KInv, Typed, KernelInv, News
<1> QED
  BY <1>1, <1>2, ReportStep DEF j_sigchld_wait

-----------------------------------------------------------------------------
(* Entries that are freed *)

Freeing(F) == [s \in DOMAIN procs |-> IF s \in F THEN Freed(procs[s]) ELSE procs[s]]

Ended == {s \in 1 .. Len(procs) : procs[s].state = "ended"}

LEMMA FreeingFacts ==
  ASSUME Typed, KshAssumption, NEW F \in SUBSET (1 .. Len(procs)), procs' = Freeing(F)
  PROVE  /\ procs' \in Seq(Proc) /\ Len(procs') = Len(procs)
         /\ \A s \in 1 .. Len(procs) :
              /\ procs'[s].prev = procs[s].prev
              /\ s \in F => /\ procs'[s].state = "free" /\ procs'[s].proc = None
                            /\ procs'[s].pgrp = None /\ procs'[s].job = 0 /\ ~procs'[s].out
              /\ s \notin F => procs'[s] = procs[s]
<1>1. DOMAIN procs = 1 .. Len(procs) /\ Len(procs) \in Nat
  BY DEF Typed
<1> DEFINE r(s) == IF s \in F THEN Freed(procs[s]) ELSE procs[s]
<1>2. \A s \in 1 .. Len(procs) : r(s) \in Proc
  BY TypedFacts, FreedFacts
<1>3. procs' = [s \in 1 .. Len(procs) |-> r(s)]
  BY <1>1 DEF Freeing
<1>4. procs' \in Seq(Proc) /\ Len(procs') = Len(procs)
  <2> HIDE DEF r
  <2> QED
    BY <1>1, <1>2, <1>3
<1>5. \A s \in 1 .. Len(procs) : procs'[s] = r(s)
  BY <1>3
<1>6. \A s \in 1 .. Len(procs) :
        /\ Freed(procs[s]).state = "free" /\ Freed(procs[s]).proc = None
        /\ Freed(procs[s]).pgrp = None /\ Freed(procs[s]).job = 0 /\ Freed(procs[s]).out = FALSE
        /\ Freed(procs[s]).prev = procs[s].prev
  BY TypedFacts, FreedFacts
<1> QED
  BY <1>4, <1>5, <1>6

LEMMA FreeingNone ==
  ASSUME Typed
  PROVE  procs = Freeing({})
<1>1. procs = [s \in DOMAIN procs |-> procs[s]]
  BY DEF Typed
<1> QED
  BY <1>1 DEF Freeing

LEMMA FreeingOne ==
  ASSUME Typed, NEW s \in 1 .. Len(procs)
  PROVE  [procs EXCEPT ![s] = Freed(@)] = Freeing({s})
<1>1. procs = [t \in DOMAIN procs |-> procs[t]]
  BY DEF Typed
<1> QED
  BY <1>1 DEF Freeing

LEMMA PrintingOne ==
  ASSUME Typed, NEW s \in 1 .. Len(procs)
  PROVE  [procs EXCEPT ![s] = j_print(@)] = Freeing({s} \cap Ended)
<1>1. procs = [t \in DOMAIN procs |-> procs[t]] /\ s \in DOMAIN procs
  BY DEF Typed
<1>2. CASE procs[s].state = "ended"
  <2>1. {s} \cap Ended = {s} /\ j_print(procs[s]) = Freed(procs[s])
    BY <1>2 DEF Ended, j_print
  <2> QED
    BY <1>1, <2>1 DEF Freeing
<1>3. CASE procs[s].state # "ended"
  <2>1. {s} \cap Ended = {} /\ j_print(procs[s]) = procs[s]
    BY <1>3 DEF Ended, j_print
  <2> QED
    BY <1>1, <2>1 DEF Freeing
<1> QED
  BY <1>2, <1>3

LEMMA PrintingAll ==
  ASSUME Typed
  PROVE  [s \in DOMAIN procs |-> j_print(procs[s])] = Freeing(Ended)
<1>1. DOMAIN procs = 1 .. Len(procs)
  BY DEF Typed
<1> QED
  BY <1>1 DEF Freeing, Ended, j_print

\* Freeing entries whose processes have ended loses nothing.
LEMMA FreeStep ==
  ASSUME KInv, KshAssumption, NEW F \in SUBSET (1 .. Len(procs)), procs' = Freeing(F),
         \A s \in F : procs[s].state = "ended" \/ (pc = "fork" /\ s = cur),
         pc = "fork" => cur \in F, pc \notin {"forked", "resume"}, pc' \notin {"fork", "forked"},
         UNCHANGED <<steady, kernel>>
  PROVE  KernelInv' /\ EntryInv' /\ StateInv' /\ PipedInv'
<1>1. /\ procs' \in Seq(Proc) /\ Len(procs') = Len(procs)
      /\ \A s \in 1 .. Len(procs) :
           /\ procs'[s].prev = procs[s].prev
           /\ s \in F => /\ procs'[s].state = "free" /\ procs'[s].proc = None
                         /\ procs'[s].pgrp = None /\ procs'[s].job = 0 /\ ~procs'[s].out
           /\ s \notin F => procs'[s] = procs[s]
  BY FreeingFacts DEF KInv
<1>2. /\ kid' = kid /\ news' = news /\ group' = group /\ chld' = chld
      /\ monitor' = monitor /\ talking' = talking
  BY DEF steady, kernel
<1>3. KernelInv'
  BY <1>2 DEF KInv, KernelInv, News
<1>4. EntryInv'
  <2>1. \A s \in 1 .. Len(procs) :
          procs'[s].state = "run" /\ procs'[s].proc = None => pc = "fork" /\ s = cur /\ s \notin F
    BY <1>1 DEF KInv, EntryInv
  <2>2. \A s, t \in 1 .. Len(procs) :
          procs'[s].proc # None /\ procs'[s].proc = procs'[t].proc => s = t
    BY <1>1 DEF KInv, EntryInv
  <2>3. \A s \in 1 .. Len(procs) : procs'[s].state = "free" => procs'[s].proc = None
    BY <1>1 DEF KInv, EntryInv
  <2>4. \A s \in 1 .. Len(procs) :
          procs'[s].state \in {"stop", "ended"} => procs'[s].proc \in Pids
    BY <1>1 DEF KInv, EntryInv
  <2> QED
    BY <1>1, <2>1, <2>2, <2>3, <2>4 DEF EntryInv
<1>5. StateInv'
  BY <1>1, <1>2 DEF KInv, StateInv, News
<1>6. PipedInv'
  BY <1>1, <1>2 DEF KInv, PipedInv
<1> QED
  BY <1>3, <1>4, <1>5, <1>6

LEMMA JobsStep ==
  ASSUME KInv, KshAssumption, j_jobs
  PROVE  KInv'
<1>f. PICK F \in SUBSET (1 .. Len(procs)) : F = Ended /\ procs' = Freeing(F)
  BY PrintingAll DEF KInv, j_jobs, Ended
<1>e. /\ procs' \in Seq(Proc) /\ Len(procs') = Len(procs)
      /\ \A s \in 1 .. Len(procs) :
           /\ procs'[s].prev = procs[s].prev
           /\ s \in F => /\ procs'[s].state = "free" /\ procs'[s].proc = None
                         /\ procs'[s].pgrp = None /\ procs'[s].job = 0 /\ ~procs'[s].out
           /\ s \notin F => procs'[s] = procs[s]
  BY <1>f, FreeingFacts DEF KInv
<1>1. KernelInv' /\ EntryInv' /\ StateInv' /\ PipedInv'
  BY <1>f, FreeStep DEF j_jobs, shell, Ended
<1>2. Typed'
  BY <1>e DEF KInv, Typed, j_jobs, shell, steady, kernel
<1>3. FlagInv'
  BY DEF FlagInv, j_jobs, shell
<1>4. TailInv'
  BY <1>e, <1>f DEF KInv, TailInv, j_jobs, shell, Ended
<1>5. LineInv'
  BY DEF LineInv, j_jobs, shell
<1>6. NoticeInv'
  BY <1>e, <1>f DEF NoticeInv, j_jobs, shell, Ended
<1>7. AgainInv'
  BY DEF KInv, AgainInv, j_jobs, shell
<1> QED
  BY <1>1, <1>2, <1>3, <1>4, <1>5, <1>6, <1>7 DEF KInv

LEMMA ForkErrorStep ==
  ASSUME KInv, KshAssumption, fork_error
  PROVE  KInv'
<1>c. cur \in 1 .. Len(procs)
  BY DEF KInv, Typed, fork_error
<1>f. PICK F \in SUBSET (1 .. Len(procs)) : F = {cur} /\ procs' = Freeing(F)
  BY <1>c, FreeingOne DEF KInv, fork_error
<1>e. /\ procs' \in Seq(Proc) /\ Len(procs') = Len(procs)
      /\ \A s \in 1 .. Len(procs) :
           /\ procs'[s].prev = procs[s].prev
           /\ s \in F => /\ procs'[s].state = "free" /\ procs'[s].proc = None
                         /\ procs'[s].pgrp = None /\ procs'[s].job = 0 /\ ~procs'[s].out
           /\ s \notin F => procs'[s] = procs[s]
  BY <1>f, FreeingFacts DEF KInv
<1>1. KernelInv' /\ EntryInv' /\ StateInv' /\ PipedInv'
  <2>1. pc = "fork" /\ pc' \in {"print", "exited"}
    BY DEF fork_error, Prompt
  <2> QED
    BY <1>f, <2>1, FreeStep DEF fork_error
<1>2. Typed'
  BY <1>c, <1>e DEF KInv, Typed, fork_error, Prompt, steady, kernel
<1>3. FlagInv'
  BY DEF FlagInv, fork_error, Prompt
<1>4. TailInv'
  BY <1>c, <1>e, <1>f DEF KInv, TailInv, fork_error, Prompt
<1>5. LineInv'
  BY DEF LineInv, fork_error, Prompt
<1>6. NoticeInv'
  BY <1>c, <1>e, <1>f DEF KInv, NoticeInv, fork_error, Prompt
<1>7. AgainInv'
  BY DEF KInv, AgainInv, fork_error, Prompt
<1> QED
  BY <1>1, <1>2, <1>3, <1>4, <1>5, <1>6, <1>7 DEF KInv

LEMMA NotifyPrintStep ==
  ASSUME KInv, KshAssumption, j_notify_print
  PROVE  KInv'
<1>c. cur \in 1 .. Len(procs)
  BY DEF KInv, Typed, j_notify_print
<1>f. PICK F \in SUBSET (1 .. Len(procs)) :
        /\ F \subseteq {cur} \cap Ended /\ procs' = Freeing(F)
        /\ procs[cur].state = "ended" /\ procs[cur].notify /\ talking => F = {cur}
  <2>1. CASE procs[cur].state # "free" /\ procs[cur].notify /\ talking
    <3>1. {cur} \cap Ended \in SUBSET (1 .. Len(procs)) /\ procs' = Freeing({cur} \cap Ended)
      BY <1>c, <2>1, PrintingOne DEF KInv, j_notify_print, Ended
    <3>2. procs[cur].state = "ended" => {cur} \cap Ended = {cur}
      BY <1>c DEF Ended
    <3> QED
      BY <3>1, <3>2
  <2>2. CASE ~(procs[cur].state # "free" /\ procs[cur].notify /\ talking)
    <3>1. {} \in SUBSET (1 .. Len(procs)) /\ {} \subseteq {cur} \cap Ended /\ procs' = Freeing({})
      BY <2>2, FreeingNone DEF KInv, j_notify_print
    <3> QED
      BY <2>2, <3>1
  <2> QED
    BY <2>1, <2>2
<1>e. /\ procs' \in Seq(Proc) /\ Len(procs') = Len(procs)
      /\ \A s \in 1 .. Len(procs) :
           /\ procs'[s].prev = procs[s].prev
           /\ s \in F => /\ procs'[s].state = "free" /\ procs'[s].proc = None
                         /\ procs'[s].pgrp = None /\ procs'[s].job = 0 /\ ~procs'[s].out
           /\ s \notin F => procs'[s] = procs[s]
  BY <1>f, FreeingFacts DEF KInv
<1>1. KernelInv' /\ EntryInv' /\ StateInv' /\ PipedInv'
  BY <1>f, FreeStep DEF j_notify_print, Ended
<1>2. Typed'
  BY <1>c, <1>e DEF KInv, Typed, j_notify_print, steady, kernel
<1>3. FlagInv'
  BY DEF FlagInv, j_notify_print
<1>4. TailInv'
  BY <1>c, <1>e, <1>f DEF KInv, TailInv, j_notify_print
<1>5. LineInv'
  BY DEF LineInv, j_notify_print
<1>6. NoticeInv'
  BY <1>c, <1>e, <1>f DEF KInv, NoticeInv, j_notify_print, steady
<1>7. AgainInv'
  <2>1. \A s \in 1 .. Len(procs) : procs[s].state # "run" => procs'[s].state # "run"
    BY <1>e
  <2> QED
    BY <1>e, <2>1, AgainKept DEF KInv, j_notify_print, steady
<1> QED
  BY <1>1, <1>2, <1>3, <1>4, <1>5, <1>6, <1>7 DEF KInv

LEMMA NotifyFreeStep ==
  ASSUME KInv, KshAssumption, j_notify_free
  PROVE  KInv'
<1>c. cur \in 1 .. Len(procs)
  BY DEF KInv, Typed, j_notify_free
<1>f. PICK F \in SUBSET (1 .. Len(procs)) : F = {cur} \cap Ended /\ procs' = Freeing(F)
  <2>1. CASE procs[cur].state = "ended"
    <3>1. {cur} = {cur} \cap Ended
      BY <1>c, <2>1 DEF Ended
    <3> QED
      BY <1>c, <2>1, <3>1, FreeingOne DEF KInv, j_notify_free
  <2>2. CASE procs[cur].state # "ended"
    <3>1. {} = {cur} \cap Ended
      BY <2>2 DEF Ended
    <3> QED
      BY <1>c, <2>2, <3>1, FreeingNone DEF KInv, j_notify_free
  <2> QED
    BY <2>1, <2>2
<1>e. /\ procs' \in Seq(Proc) /\ Len(procs') = Len(procs)
      /\ \A s \in 1 .. Len(procs) :
           /\ procs'[s].prev = procs[s].prev
           /\ s \in F => /\ procs'[s].state = "free" /\ procs'[s].proc = None
                         /\ procs'[s].pgrp = None /\ procs'[s].job = 0 /\ ~procs'[s].out
           /\ s \notin F => procs'[s] = procs[s]
  BY <1>f, FreeingFacts DEF KInv
<1>1. KernelInv' /\ EntryInv' /\ StateInv' /\ PipedInv'
  BY <1>f, FreeStep DEF j_notify_free, Ended
<1>2. Typed'
  BY <1>c, <1>e DEF KInv, Typed, j_notify_free, steady, kernel
<1>3. FlagInv'
  BY DEF FlagInv, j_notify_free
<1>4. TailInv'
  BY <1>c, <1>e, <1>f DEF KInv, Typed, TailInv, j_notify_free, Ended
<1>5. LineInv'
  BY DEF LineInv, j_notify_free
<1>6. NoticeInv'
  BY <1>c, <1>e, <1>f DEF KInv, Typed, NoticeInv, j_notify_free, steady, Ended
<1>7. AgainInv'
  <2>1. \A s \in 1 .. Len(procs) : procs[s].state # "run" => procs'[s].state # "run"
    BY <1>e
  <2> QED
    BY <1>e, <2>1, AgainKept DEF KInv, j_notify_free, steady
<1> QED
  BY <1>1, <1>2, <1>3, <1>4, <1>5, <1>6, <1>7 DEF KInv

LEMMA StartedStep ==
  ASSUME KInv, KshAssumption, Started
  PROVE  KInv'
<1>c. cur \in 1 .. Len(procs)
  BY DEF KInv, Typed, Started
<1>f. PICK F \in SUBSET (1 .. Len(procs)) :
        /\ F \subseteq {cur} \cap Ended /\ procs' = Freeing(F)
        /\ "bg" \notin flags => F = {}
  <2>1. CASE "bg" \in flags /\ talking
    <3>1. {cur} \cap Ended \in SUBSET (1 .. Len(procs)) /\ procs' = Freeing({cur} \cap Ended)
      BY <1>c, <2>1, PrintingOne DEF KInv, Started, Ended
    <3> QED
      BY <2>1, <3>1
  <2>2. CASE ~("bg" \in flags /\ talking)
    <3>1. {} \in SUBSET (1 .. Len(procs)) /\ {} \subseteq {cur} \cap Ended /\ procs' = Freeing({})
      BY <2>2, FreeingNone DEF KInv, Started
    <3> QED
      BY <3>1
  <2> QED
    BY <2>1, <2>2
<1>p. /\ pc = "started" /\ pc' \in {"reading", "pipe", "ready", "wait"}
      /\ pc' = "reading" => flags = {"out", "xcom"}
      /\ pc' = "pipe" => "out" \in flags
      /\ pc' = "ready" <=> flags = {"bg"}
      /\ pc' = "wait" <=> "out" \notin flags /\ flags # {"bg"}
      /\ lastjob' = lastjob
      /\ child' = None /\ steady' = steady /\ kernel' = kernel
  BY DEF Started
<1>q. /\ pc' = "pipe" => flags' = flags
      /\ pc' = "wait" => flags' = flags \cap {"bg", "xcom"}
      /\ pc' \in {"reading", "ready"} => flags' = {}
      /\ cur' = IF pc' = "ready" THEN 0 ELSE cur
  BY <1>p DEF Started
<1>e. /\ procs' \in Seq(Proc) /\ Len(procs') = Len(procs)
      /\ \A s \in 1 .. Len(procs) :
           /\ procs'[s].prev = procs[s].prev
           /\ s \in F => /\ procs'[s].state = "free" /\ procs'[s].proc = None
                         /\ procs'[s].pgrp = None /\ procs'[s].job = 0 /\ ~procs'[s].out
           /\ s \notin F => procs'[s] = procs[s]
  BY <1>f, FreeingFacts DEF KInv
<1>1. KernelInv' /\ EntryInv' /\ StateInv' /\ PipedInv'
  BY <1>f, <1>p, FreeStep DEF Ended
<1>2. Typed'
  <2>1. child' \in Pids \cup {None} /\ lastjob' \in 0 .. MaxJob
    BY <1>p DEF KInv, Typed
  <2>2. /\ monitor' \in BOOLEAN /\ talking' \in BOOLEAN /\ chld' \in BOOLEAN /\ lastj' = lastj
        /\ kid' \in [Pids -> {"none", "run", "stopped", "dead"}] /\ news' \subseteq Pids
        /\ group' \in [Pids -> Pids \cup {None}]
    BY <1>p DEF KInv, Typed, steady, kernel
  <2>3. flags' \subseteq {"in", "out", "bg", "xcom", "intr", "again"}
    BY <1>p, <1>q DEF KInv, Typed
  <2>4. cur' \in 0 .. Len(procs) /\ (cur' = 0 <=> pc' = "ready")
    BY <1>c, <1>q
  <2> QED
    BY <1>e, <1>p, <2>1, <2>2, <2>3, <2>4 DEF KInv, Typed
<1>3. FlagInv'
  BY <1>c, <1>e, <1>f, <1>p, <1>q DEF KInv, FlagInv, Ended
<1>4. TailInv'
  BY <1>c, <1>e, <1>f, <1>p, <1>q DEF KInv, TailInv, FlagInv
<1>5. LineInv'
  <2>0. "again" \notin flags
    BY <1>p DEF KInv, AgainInv
  <2> SUFFICES ASSUME pc' # "ready"
               PROVE  \E S \in SUBSET (1 .. Len(procs)) : Line(S)'
    BY <1>e, <1>p DEF LineInv
  <2>1. PICK S \in SUBSET (1 .. Len(procs)) : Line(S)
    BY <1>p, <2>0 DEF KInv, LineInv
  <2>2. \A s \in S : procs[s].state # "free"
    BY <1>p, <2>1 DEF Line
  <2>3. cur' = cur /\ (pc' # "reading" /\ "bg" \in flags => "bg" \in flags')
    BY <1>p, <1>q
  <2>4. \A s \in F : s = cur /\ "bg" \in flags /\ pc' \in {"pipe", "wait"}
    BY <1>f, <1>p DEF KInv, FlagInv
  <2>5. Line(S)'
    <3>1. \A s \in S : procs'[s].state = "free" => s = cur /\ "bg" \in flags' /\ pc' \in {"pipe", "wait"}
      BY <1>e, <2>2, <2>3, <2>4
    <3>2. \A s \in S : /\ procs'[s].prev = procs[s].prev
                       /\ procs[s].prev = cur => s = cur
                       /\ procs[s].prev # 0 =>
                            procs[s].prev \in S /\ procs[procs[s].prev].job = procs[s].job
      BY <1>e, <1>p, <2>1, <2>2 DEF Line
    <3>3. ASSUME NEW s \in S, procs'[s].prev # 0, procs'[s].state # "free"
          PROVE  procs'[procs'[s].prev].job = procs'[s].job
      <4>0. s \in 1 .. Len(procs) /\ procs'[s].state # "free"
        BY <3>3
      <4>1. s \notin F
        BY <1>e, <4>0
      <4>a. procs[s].prev \in F => s \in F
        BY <2>4, <3>2
      <4>b. procs[s].prev \notin F
        BY <4>1, <4>a
      <4>2. procs[s].prev \in 1 .. Len(procs) /\ procs[s].prev # 0
        BY <3>2, <3>3
      <4> QED
        BY <1>e, <3>2, <3>3, <4>0, <4>1, <4>b, <4>2
    <3> QED
      BY <2>1, <2>3, <3>1, <3>2, <3>3 DEF Line
  <2> QED
    BY <2>5
<1>6. NoticeInv'
  BY <1>c, <1>e, <1>f, <1>p, <1>q DEF KInv, NoticeInv
<1>7. AgainInv'
  <2>1. pc' # "started" /\ "again" \notin flags' /\ lastj = cur
    BY <1>p, <1>q DEF KInv, AgainInv
  <2>2. pc' = "wait" => Behind({}, cur)'
    BY <1>p, <1>q, <2>1 DEF Behind, steady
  <2> QED
    BY <1>p, <1>q, <2>1, <2>2 DEF AgainInv
<1> QED
  BY <1>1, <1>2, <1>3, <1>4, <1>5, <1>6, <1>7 DEF KInv

-----------------------------------------------------------------------------
(* Entries that change *)

LEMMA NoticedTable ==
  ASSUME Typed, NEW s \in 1 .. Len(procs), NEW n \in BOOLEAN,
         procs' = [procs EXCEPT ![s] = Noticed(procs[s], n)]
  PROVE  /\ procs' \in Seq(Proc) /\ Len(procs') = Len(procs)
         /\ procs'[s].notify = n
         /\ \A t \in 1 .. Len(procs) :
              /\ procs'[t].state = procs[t].state /\ procs'[t].proc = procs[t].proc
              /\ procs'[t].pgrp = procs[t].pgrp /\ procs'[t].job = procs[t].job
              /\ procs'[t].out = procs[t].out /\ procs'[t].prev = procs[t].prev
              /\ t # s => procs'[t] = procs[t]
<1>2. PICK e : e = Noticed(procs[s], n)
  OBVIOUS
<1>3. /\ e \in Proc
      /\ e.notify = n /\ e.state = procs[s].state /\ e.proc = procs[s].proc
      /\ e.pgrp = procs[s].pgrp /\ e.job = procs[s].job /\ e.out = procs[s].out
      /\ e.prev = procs[s].prev
  <2>1. procs[s] \in Proc
    BY TypedFacts
  <2> QED
    BY <1>2, <2>1, NoticedFacts
<1>4. /\ procs' \in Seq(Proc) /\ Len(procs') = Len(procs) /\ procs'[s] = e
      /\ \A t \in 1 .. Len(procs) : t # s => procs'[t] = procs[t]
  BY <1>2, <1>3 DEF Typed
<1> QED
  BY <1>3, <1>4

LEMMA InStateTable ==
  ASSUME Typed, NEW s \in 1 .. Len(procs), NEW n \in {"free", "run", "stop", "ended"},
         procs' = [procs EXCEPT ![s] = InState(procs[s], n)]
  PROVE  /\ procs' \in Seq(Proc) /\ Len(procs') = Len(procs)
         /\ procs'[s].state = n
         /\ \A t \in 1 .. Len(procs) :
              /\ procs'[t].notify = procs[t].notify /\ procs'[t].proc = procs[t].proc
              /\ procs'[t].pgrp = procs[t].pgrp /\ procs'[t].job = procs[t].job
              /\ procs'[t].out = procs[t].out /\ procs'[t].prev = procs[t].prev
              /\ t # s => procs'[t] = procs[t]
<1>2. PICK e : e = InState(procs[s], n)
  OBVIOUS
<1>3. /\ e \in Proc
      /\ e.state = n /\ e.notify = procs[s].notify /\ e.proc = procs[s].proc
      /\ e.pgrp = procs[s].pgrp /\ e.job = procs[s].job /\ e.out = procs[s].out
      /\ e.prev = procs[s].prev
  <2>1. procs[s] \in Proc
    BY TypedFacts
  <2> QED
    BY <1>2, <2>1, InStateFacts
<1>4. /\ procs' \in Seq(Proc) /\ Len(procs') = Len(procs) /\ procs'[s] = e
      /\ \A t \in 1 .. Len(procs) : t # s => procs'[t] = procs[t]
  BY <1>2, <1>3 DEF Typed
<1> QED
  BY <1>3, <1>4

LEMMA NotifyClearStep ==
  ASSUME KInv, KshAssumption, j_notify_clear
  PROVE  KInv'
<1>c. cur \in 1 .. Len(procs) /\ Len(procs) \in Nat /\ cur \in Nat
  BY DEF KInv, Typed, j_notify_clear
<1>e. /\ procs' \in Seq(Proc) /\ Len(procs') = Len(procs)
      /\ \A t \in 1 .. Len(procs) :
           /\ procs'[t].state = procs[t].state /\ procs'[t].proc = procs[t].proc
           /\ procs'[t].pgrp = procs[t].pgrp /\ procs'[t].job = procs[t].job
           /\ procs'[t].out = procs[t].out /\ procs'[t].prev = procs[t].prev
           /\ t # cur => procs'[t] = procs[t]
  <2>1. procs' = [procs EXCEPT ![cur] = Noticed(procs[cur], FALSE)] /\ FALSE \in BOOLEAN
    BY Zenon DEF j_notify_clear, Noticed
  <2> QED
    BY <1>c, <2>1, NoticedTable, Zenon DEF KInv
<1>p. /\ pc = "clear" /\ "again" \notin flags
      /\ \/ cur > 1 /\ pc' = "print" /\ cur' = cur - 1 /\ flags' = flags
         \/ cur = 1 /\ "xcom" \in flags /\ pc' = "reading" /\ cur' = lastj /\ flags' = {"again"}
         \/ cur = 1 /\ "xcom" \notin flags /\ pc' = "ready" /\ cur' = 0 /\ flags' = flags
      /\ lastjob' = lastjob /\ child' = child
      /\ monitor' = monitor /\ talking' = talking /\ lastj' = lastj
      /\ kid' = kid /\ news' = news /\ group' = group /\ chld' = chld
  BY <1>c DEF j_notify_clear, steady, kernel, KInv, AgainInv
<1>b. ASSUME "xcom" \in flags
      PROVE  \E W \in SUBSET (1 .. Len(procs)) : (lastj \in W /\ Behind(W, lastj))'
  <2>1. PICK W \in SUBSET (1 .. Len(procs)) : lastj \in W /\ Behind(W, lastj)
    BY <1>b, <1>p DEF KInv, AgainInv
  <2>2. (lastj \in W /\ Behind(W, lastj))'
    BY <1>e, <1>p, <2>1 DEF Behind
  <2> QED
    BY <2>2
<1>1. Typed'
  <2>1. "xcom" \in flags => lastj \in 1 .. Len(procs)
    BY <1>b, <1>p
  <2>2. cur' \in 0 .. Len(procs) /\ (cur' = 0 <=> pc' \in {"ready", "exited"})
    BY <1>c, <1>p, <2>1
  <2>3. pc' \in {"print", "reading", "ready"}
        /\ flags' \subseteq {"in", "out", "bg", "xcom", "intr", "again"}
    BY <1>p DEF KInv, Typed
  <2> QED
    BY <1>e, <1>p, <2>2, <2>3 DEF KInv, Typed
<1>2. KernelInv'
  BY <1>c, <1>e, <1>p DEF KInv, Typed, KernelInv, News
<1>3. EntryInv'
  BY <1>c, <1>e, <1>p DEF KInv, EntryInv, News
<1>4. StateInv'
  BY <1>c, <1>e, <1>p DEF KInv, Typed, EntryInv, StateInv, KernelInv, News
<1>5. PipedInv'
  BY <1>c, <1>e, <1>p DEF KInv, Typed, PipedInv, EntryInv
<1>6. FlagInv'
  BY <1>c, <1>e, <1>p DEF KInv, Typed, FlagInv
<1>7. TailInv'
  BY <1>c, <1>e, <1>p DEF KInv, Typed, TailInv
<1>8. LineInv'
  BY <1>p DEF LineInv
<1>9. NoticeInv'
  <2>1. ASSUME NEW s \in 1 .. Len(procs), procs'[s].state = "ended", ~procs'[s].notify
        PROVE  pc' = "print" /\ s <= cur'
    <3>1. procs[cur].state # "ended"
      BY <1>p DEF KInv, NoticeInv
    <3>2. s # cur
      BY <1>e, <2>1, <3>1
    <3>3. procs[s].state = "ended" /\ ~procs[s].notify
      BY <1>e, <2>1, <3>2
    <3>4. s < cur
      BY <1>p, <2>1, <3>3 DEF KInv, NoticeInv
    <3> QED
      BY <1>c, <1>p, <2>1, <3>4
  <2>2. pc' \in {"print", "reading", "ready"}
    BY <1>p
  <2> QED
    BY <1>e, <2>1, <2>2 DEF NoticeInv
<1>10. AgainInv'
  BY <1>b, <1>e, <1>p DEF AgainInv
<1> QED
  BY <1>1, <1>2, <1>3, <1>4, <1>5, <1>6, <1>7, <1>8, <1>9, <1>10 DEF KInv

LEMMA WaitStep ==
  ASSUME KInv, KshAssumption, j_waitj
  PROVE  KInv'
<1>c. cur \in 1 .. Len(procs) /\ Len(procs) \in Nat /\ cur \in Nat
  BY DEF KInv, Typed, j_waitj
<1>e. /\ procs' \in Seq(Proc) /\ Len(procs') = Len(procs)
      /\ \A t \in 1 .. Len(procs) :
           /\ procs'[t].state = procs[t].state /\ procs'[t].proc = procs[t].proc
           /\ procs'[t].pgrp = procs[t].pgrp /\ procs'[t].job = procs[t].job
           /\ procs'[t].out = procs[t].out /\ procs'[t].prev = procs[t].prev
           /\ t # cur => procs'[t] = procs[t]
           /\ procs[t].state # "ended" => procs'[t] = procs[t]
  <2>1. PICK n \in BOOLEAN :
          procs' = IF procs[cur].state = "ended" THEN [procs EXCEPT ![cur].notify = n] ELSE procs
    <3>1. procs[cur].notify \in BOOLEAN
      <4>1. procs[cur] \in Proc
        BY <1>c, TypedFacts DEF KInv
      <4> QED
        BY <4>1 DEF Proc
    <3> QED
      BY <3>1, Zenon DEF j_waitj
  <2>2. CASE procs[cur].state = "ended"
    <3>1. procs' = [procs EXCEPT ![cur] = Noticed(procs[cur], n)]
      BY <2>1, <2>2, Zenon DEF Noticed
    <3> QED
      BY <1>c, <2>2, <3>1, NoticedTable DEF KInv
  <2>3. CASE procs[cur].state # "ended"
    <3>1. procs' = procs
      BY <2>1, <2>3
    <3> QED
      BY <3>1 DEF KInv, Typed
  <2> QED
    BY <2>2, <2>3
<1>p. /\ pc = "wait" /\ procs[cur].state # "run"
      /\ \/ procs[cur].prev # 0 /\ cur' = procs[cur].prev /\ pc' = pc /\ flags' = flags
         \/ procs[cur].prev = 0 /\ pc' = "print" /\ cur' = Len(procs)
            /\ flags' = flags \cap {"xcom"}
      /\ lastjob' = lastjob /\ child' = child
      /\ monitor' = monitor /\ talking' = talking /\ lastj' = lastj
      /\ kid' = kid /\ news' = news /\ group' = group /\ chld' = chld
  BY DEF j_waitj, Prompt, steady, kernel
<1>r. cur' \in 1 .. Len(procs)
  <2>0. PICK S \in SUBSET (1 .. Len(procs)) : cur \in S /\ (procs[cur].prev # 0 => procs[cur].prev \in S)
    <3>1. CASE "again" \notin flags
      BY <1>p, <3>1 DEF KInv, LineInv, Line
    <3>2. CASE "again" \in flags
      BY <3>2 DEF KInv, AgainInv, Behind
    <3> QED
      BY <3>1, <3>2
  <2>1. procs[cur].prev # 0 => procs[cur].prev \in 1 .. Len(procs)
    BY <2>0
  <2>2. CASE cur' = procs[cur].prev /\ procs[cur].prev # 0
    BY <2>1, <2>2
  <2>3. CASE cur' = Len(procs)
    BY <1>c, <2>3
  <2> QED
    BY <1>p, <2>2, <2>3
<1>1. Typed'
  <2>1. cur' \in 0 .. Len(procs) /\ (cur' = 0 <=> pc' \in {"ready", "exited"})
    BY <1>c, <1>p, <1>r
  <2>2. flags' \subseteq {"in", "out", "bg", "xcom", "intr", "again"} /\ pc' \in {"wait", "print"}
    BY <1>p DEF KInv, Typed
  <2> QED
    BY <1>e, <1>p, <2>1, <2>2 DEF KInv, Typed
<1>2. KernelInv'
  BY <1>c, <1>e, <1>p, <1>r DEF KInv, Typed, KernelInv, News
<1>3. EntryInv'
  <2>1. \A s \in 1 .. Len(procs) : procs'[s].state = procs[s].state /\ procs'[s].proc = procs[s].proc
    BY <1>e
  <2> QED
    BY <1>e, <1>p, <2>1, SMTT(30) DEF KInv, EntryInv
<1>4. StateInv'
  BY <1>c, <1>e, <1>p, <1>r DEF KInv, Typed, EntryInv, StateInv, KernelInv, News
<1>5. PipedInv'
  BY <1>c, <1>e, <1>p, <1>r DEF KInv, Typed, PipedInv, EntryInv
<1>6. FlagInv'
  BY <1>c, <1>e, <1>p, <1>r DEF KInv, Typed, FlagInv
<1>7. TailInv'
  <2>1. procs[cur].state = "ended" \/ procs[cur].state = "free" \/ procs[cur].prev = 0 \/ procs[cur].out
    <3>1. procs[cur].state \in {"free", "run", "stop", "ended"}
      BY <1>c, TypedFacts DEF KInv
    <3>2. procs[cur].state = "stop" => procs[cur].proc # None
      BY <1>c DEF KInv, EntryInv, KshAssumption
    <3> QED
      BY <1>c, <1>p, <3>1, <3>2 DEF KInv, PipedInv
  <2> QED
    BY <1>c, <1>e, <1>p, <1>r, <2>1 DEF KInv, TailInv
<1>8. LineInv'
  <2> SUFFICES ASSUME pc' = "wait", "again" \notin flags'
               PROVE  \E T \in SUBSET (1 .. Len(procs)) : Line(T)'
    BY <1>e, <1>p DEF LineInv
  <2>0. PICK S \in SUBSET (1 .. Len(procs)) : Line(S)
    BY <1>p DEF KInv, LineInv
  <2>1. Line(S)'
    <3>1. cur' \in S /\ flags' = flags
      BY <1>p, <2>0 DEF Line
    <3>2. ASSUME NEW s \in S
          PROVE  /\ procs'[s].state = "free" => "bg" \in flags'
                 /\ procs'[s].prev # 0 => procs'[s].prev \in S
      BY <1>e, <2>0, <3>1 DEF Line
    <3>3. ASSUME NEW s \in S, procs'[s].prev # 0
          PROVE  procs'[procs'[s].prev].job = procs'[s].job \/ procs'[s].state = "free"
      <4>0. procs'[s].prev = procs[s].prev
        BY <1>e
      <4>a. procs[s].prev \in S /\ (procs[procs[s].prev].job = procs[s].job \/ procs[s].state = "free")
        BY <2>0, <3>3, <4>0 DEF Line
      <4>1. /\ procs[s].prev \in 1 .. Len(procs) /\ procs'[s].prev = procs[s].prev
            /\ procs[procs[s].prev].job = procs[s].job \/ procs[s].state = "free"
        BY <4>0, <4>a
      <4> QED
        BY <1>e, <4>1
    <3> QED
      BY <1>p, <3>1, <3>2, <3>3 DEF Line
  <2> QED
    BY <2>1
<1>9. NoticeInv'
  BY <1>c, <1>e, <1>p, <1>r DEF KInv, Typed, NoticeInv
<1>10. AgainInv'
  <2>1. pc' \in {"wait", "print"} /\ ("again" \in flags => flags = {"again"})
    BY <1>p DEF KInv, AgainInv
  <2>2. ASSUME "xcom" \in flags
        PROVE  \E W \in SUBSET (1 .. Len(procs)) :
                 (IF pc = "wait" THEN Behind(W, cur) ELSE lastj \in W /\ Behind(W, lastj))'
    <3>1. PICK W \in SUBSET (1 .. Len(procs)) : Behind(W, cur)
      BY <1>p, <2>2 DEF KInv, AgainInv
    <3>2. PICK V \in SUBSET (1 .. Len(procs)) : V = W \cup {cur}
      BY <1>c
    <3>3. \A w \in V : procs'[w].state # "run" /\ procs'[w].prev = procs[w].prev
      BY <1>e, <1>p, <3>1, <3>2 DEF Behind
    <3>4. \A w \in V : procs[w].prev # 0 => procs[w].prev \in V \/ (w = cur /\ procs[w].prev = procs[cur].prev)
      BY <3>1, <3>2 DEF Behind
    <3>5. (IF pc = "wait" THEN Behind(V, cur) ELSE lastj \in V /\ Behind(V, lastj))'
      BY <1>p, <3>1, <3>2, <3>3, <3>4 DEF Behind
    <3> QED
      BY <3>5
  <2>3. ASSUME "again" \in flags, pc' = "wait"
        PROVE  \E W \in SUBSET (1 .. Len(procs)) : (cur \in W /\ lastj \in W /\ Behind(W, lastj))'
    <3>1. PICK W \in SUBSET (1 .. Len(procs)) : cur \in W /\ lastj \in W /\ Behind(W, lastj)
      BY <2>3 DEF KInv, AgainInv
    <3>2. (cur \in W /\ lastj \in W /\ Behind(W, lastj))'
      BY <1>e, <1>p, <2>3, <3>1 DEF Behind
    <3> QED
      BY <3>2
  <2> QED
    BY <1>e, <1>p, <2>1, <2>2, <2>3 DEF AgainInv
<1> QED
  BY <1>1, <1>2, <1>3, <1>4, <1>5, <1>6, <1>7, <1>8, <1>9, <1>10 DEF KInv

LEMMA RegisteredStep ==
  ASSUME KInv, KshAssumption, Registered
  PROVE  KInv'
<1>c. cur \in 1 .. Len(procs) /\ child \in Pids /\ pc = "forked"
  BY DEF KInv, Typed, EntryInv, Registered
<1>q. PICK S \in SUBSET (1 .. Len(procs)) : Line(S)
  BY <1>c DEF KInv, LineInv, AgainInv
<1>g. PICK g \in Pids \cup {None} :
        /\ procs' = [procs EXCEPT ![cur] = Holding(procs[cur], child, g)]
        /\ group' = [group EXCEPT ![child] = g]
  <2> DEFINE g == IF ~monitor \/ "xcom" \in flags THEN None
                  ELSE IF "in" \in flags THEN procs[procs[cur].prev].pgrp
                  ELSE child
  <2>1. "in" \in flags => procs[procs[cur].prev].pgrp \in Pids \cup {None}
    <3>1. "in" \in flags => procs[cur].prev \in 1 .. Len(procs)
      BY <1>c, <1>q DEF KInv, FlagInv, Line
    <3> QED
      BY <3>1, TypedFacts DEF KInv
  <2>2. g \in Pids \cup {None}
    BY <1>c, <2>1
  <2>3. /\ procs' = [procs EXCEPT ![cur] = Holding(procs[cur], child, g)]
        /\ group' = [group EXCEPT ![child] = g]
    BY Zenon DEF Registered, Holding
  <2> HIDE DEF g
  <2> QED
    BY <2>2, <2>3
<1>e. /\ procs' \in Seq(Proc) /\ Len(procs') = Len(procs)
      /\ procs'[cur].proc = child /\ procs'[cur].pgrp = g
      /\ \A t \in 1 .. Len(procs) :
           /\ procs'[t].notify = procs[t].notify /\ procs'[t].state = procs[t].state
           /\ procs'[t].job = procs[t].job
           /\ procs'[t].out = procs[t].out /\ procs'[t].prev = procs[t].prev
           /\ t # cur => procs'[t] = procs[t]
  <2>1. PICK e : e = Holding(procs[cur], child, g)
    OBVIOUS
  <2>2. procs[cur] \in Proc /\ child \in Pids \cup {None}
    BY <1>c, TypedFacts DEF KInv
  <2>3. /\ e \in Proc
        /\ e.state = procs[cur].state /\ e.notify = procs[cur].notify /\ e.proc = child
        /\ e.pgrp = g /\ e.job = procs[cur].job /\ e.out = procs[cur].out
        /\ e.prev = procs[cur].prev
    BY <2>1, <2>2 DEF Holding, Proc
  <2>4. /\ procs' \in Seq(Proc) /\ Len(procs') = Len(procs) /\ procs'[cur] = e
        /\ \A t \in 1 .. Len(procs) : t # cur => procs'[t] = procs[t]
    BY <1>c, <1>g, <2>1, <2>3 DEF KInv, Typed
  <2> QED
    BY <2>3, <2>4
<1>h. /\ group' \in [Pids -> Pids \cup {None}] /\ group'[child] = g
      /\ \A p \in Pids : p # child => group'[p] = group[p]
  BY <1>c, <1>g DEF KInv, Typed
<1>p. /\ pc' = "started" /\ cur' = cur /\ lastjob' = lastjob /\ flags' = flags /\ child' = child
      /\ monitor' = monitor /\ talking' = talking /\ lastj' = cur /\ "again" \notin flags
      /\ kid' = kid /\ news' = news /\ chld' = chld
  BY DEF Registered, steady, KInv, AgainInv
<1>s. procs[cur].state = "run" /\ kid[child] # "none" /\ child # None
      /\ (kid[child] = "run" \/ News(child))
  BY <1>c DEF KInv, EntryInv, KshAssumption
<1>t. \A s \in 1 .. Len(procs) : procs[s].proc \in Pids \cup {None} /\ procs[s].proc # child
  BY <1>c, TypedFacts DEF KInv, EntryInv
<1>1. Typed'
  BY <1>c, <1>e, <1>h, <1>p, <1>s, <1>t DEF KInv, Typed
<1>2. KernelInv'
  BY <1>c, <1>e, <1>h, <1>p, <1>s, <1>t DEF KInv, Typed, KernelInv, News
<1>3. EntryInv'
  <2>1. \A s, t \in 1 .. Len(procs) :
          procs'[s].proc # None /\ procs'[s].proc = procs'[t].proc => s = t
    BY <1>c, <1>e, <1>t DEF KInv, EntryInv
  <2>2. \A s \in 1 .. Len(procs) :
          /\ procs'[s].state = "free" => procs'[s].proc = None
          /\ procs'[s].state \in {"stop", "ended"} => procs'[s].proc \in Pids
          /\ procs'[s].state = "run" => procs'[s].proc # None
    BY <1>c, <1>e, <1>s, <1>t DEF KInv, EntryInv
  <2> QED
    BY <1>e, <1>p, <2>1, <2>2 DEF EntryInv
<1>4. StateInv'
  <2> SUFFICES ASSUME NEW s \in 1 .. Len(procs)
               PROVE  /\ procs[s].state = "ended" => kid[procs'[s].proc] = "none"
                      /\ procs[s].state \in {"run", "stop"} /\ procs'[s].proc # None =>
                           kid[procs'[s].proc] # "none" /\ group'[procs'[s].proc] = procs'[s].pgrp
                      /\ procs[s].state = "run" /\ procs'[s].proc # None =>
                           kid[procs'[s].proc] = "run" \/ News(procs'[s].proc)
    BY <1>e, <1>p DEF StateInv, News
  <2>1. CASE s = cur
    BY <1>e, <1>h, <1>s, <2>1
  <2>2. CASE s # cur
    BY <1>c, <1>e, <1>h, <1>t, <2>2 DEF KInv, StateInv
  <2> QED
    BY <2>1, <2>2
<1>5. PipedInv'
  <2> SUFFICES ASSUME NEW s \in 1 .. Len(procs), procs'[s].proc # None,
                      procs[s].out \/ procs[s].prev # 0
               PROVE  procs[s].state # "stop" /\ kid[procs'[s].proc] # "stopped"
    BY <1>e, <1>p DEF PipedInv
  <2>1. CASE s = cur
    BY <1>c, <1>e, <1>s, <2>1 DEF KInv, PipedInv, FlagInv
  <2>2. CASE s # cur
    BY <1>c, <1>e, <2>2 DEF KInv, PipedInv
  <2> QED
    BY <2>1, <2>2
<1>6. FlagInv'
  BY <1>c, <1>e, <1>h, <1>p, <1>s, <1>t DEF KInv, Typed, FlagInv
<1>7. TailInv'
  BY <1>c, <1>e, <1>h, <1>p, <1>s, <1>t DEF KInv, Typed, TailInv
<1>8. LineInv'
  <2>1. Line(S)'
    <3>1. cur' \in S
      BY <1>p, <1>q DEF Line
    <3>2. ASSUME NEW s \in S
          PROVE  /\ procs'[s].state # "free"
                 /\ procs'[s].prev # 0 => procs'[s].prev \in S
                 /\ procs'[s].prev = cur => s = cur
      BY <1>c, <1>e, <1>q DEF Line
    <3>3. ASSUME NEW s \in S, procs'[s].prev # 0
          PROVE  procs'[procs'[s].prev].job = procs'[s].job
      <4>1. /\ procs[s].prev \in 1 .. Len(procs) /\ procs'[s].prev = procs[s].prev
            /\ procs[procs[s].prev].job = procs[s].job
        BY <1>c, <1>e, <1>q, <3>2, <3>3 DEF Line
      <4> QED
        BY <1>e, <4>1
    <3> QED
      BY <1>p, <3>1, <3>2, <3>3 DEF Line
  <2> QED
    BY <1>e, <2>1 DEF LineInv
<1>9. NoticeInv'
  BY <1>c, <1>e, <1>h, <1>p, <1>s, <1>t DEF KInv, Typed, NoticeInv
<1>10. AgainInv'
  BY <1>p DEF AgainInv
<1> QED
  BY <1>1, <1>2, <1>3, <1>4, <1>5, <1>6, <1>7, <1>8, <1>9, <1>10 DEF KInv

\* A job that is found by its number is at rest, and no pipeline that is being waited for.
LEMMA NamedFacts ==
  ASSUME KInv, pc = "ready", NEW s \in Named
  PROVE  s \in 1 .. Len(procs) /\ procs[s].state # "free" /\ ~procs[s].out /\ procs[s].prev = 0
<1>1. s \in 1 .. Len(procs) /\ procs[s].state # "free" /\ ~procs[s].out
  BY DEF KInv, Typed, Named
<1>2. procs[s].prev = 0
  BY <1>1 DEF KInv, TailInv
<1> QED
  BY <1>1, <1>2

LEMMA WaitForStep ==
  ASSUME KInv, KshAssumption, Allowed = {}, waitfor
  PROVE  KInv'
<1>a. pc = "ready"
  BY DEF waitfor
<1>b. PICK s \in Named :
        /\ ~(talking /\ procs[s].state = "ended") /\ cur' = s
        /\ procs' = IF talking THEN [procs EXCEPT ![s] = j_print(@)] ELSE procs
  BY DEF waitfor
<1>n. s \in 1 .. Len(procs) /\ procs[s].state # "free" /\ ~procs[s].out /\ procs[s].prev = 0
  BY <1>a, NamedFacts
<1>e. procs' = procs
  <2>1. CASE talking
    <3>1. {s} \cap Ended = {} /\ procs' = Freeing({s} \cap Ended)
      BY <1>b, <1>n, <2>1, PrintingOne DEF KInv, Ended
    <3> QED
      BY <3>1, FreeingNone DEF KInv
  <2>2. CASE ~talking
    BY <1>b, <2>2
  <2> QED
    BY <2>1, <2>2
<1>p. /\ pc' = "wait" /\ cur' = s /\ lastjob' = lastjob /\ flags' = {"intr"} /\ child' = child
      /\ monitor' = monitor /\ talking' = talking /\ lastj' = lastj
      /\ kid' = kid /\ news' = news /\ group' = group /\ chld' = chld
  BY <1>b DEF waitfor, steady, kernel
<1>1. Typed'
  BY <1>a, <1>e, <1>n, <1>p DEF KInv, Typed
<1>2. KernelInv'
  BY <1>a, <1>e, <1>n, <1>p DEF KInv, Typed, KernelInv, News
<1>3. EntryInv'
  BY <1>a, <1>e, <1>n, <1>p DEF KInv, EntryInv, News
<1>4. StateInv'
  BY <1>a, <1>e, <1>n, <1>p DEF KInv, Typed, EntryInv, StateInv, KernelInv, News
<1>5. PipedInv'
  BY <1>a, <1>e, <1>n, <1>p DEF KInv, Typed, PipedInv, EntryInv
<1>6. FlagInv'
  BY <1>a, <1>e, <1>n, <1>p DEF KInv, Typed, FlagInv
<1>7. TailInv'
  BY <1>a, <1>e, <1>n, <1>p DEF KInv, Typed, TailInv
<1>8. LineInv'
  <2> SUFFICES ASSUME pc' = "wait" PROVE \E S \in SUBSET (1 .. Len(procs)) : Line(S)'
    BY <1>e, <1>p DEF LineInv
  <2>1. PICK S : S = {s}
    OBVIOUS
  <2>2. Line(S)'
    BY <1>e, <1>n, <1>p, <2>1 DEF Line
  <2> QED
    BY <1>n, <2>1, <2>2
<1>9. NoticeInv'
  BY <1>a, <1>e, <1>n, <1>p DEF KInv, Typed, NoticeInv
<1>10. AgainInv'
  BY <1>p DEF AgainInv
<1> QED
  BY <1>1, <1>2, <1>3, <1>4, <1>5, <1>6, <1>7, <1>8, <1>9, <1>10 DEF KInv

LEMMA ResumeStep ==
  ASSUME KInv, KshAssumption, Allowed = {}, j_resume
  PROVE  KInv'
<1>a. pc = "ready"
  BY DEF j_resume
<1>b. PICK s \in Named, f \in {{}, {"bg"}} :
        /\ procs[s].pgrp # None /\ procs[s].state # "ended" /\ cur' = s /\ flags' = f
        /\ procs' = [procs EXCEPT ![s].state = "run"]
  BY DEF j_resume
<1>n. s \in 1 .. Len(procs) /\ procs[s].state # "free" /\ ~procs[s].out /\ procs[s].prev = 0
  BY <1>a, NamedFacts
<1>e. /\ procs' \in Seq(Proc) /\ Len(procs') = Len(procs)
      /\ procs'[s].state = "run"
      /\ \A t \in 1 .. Len(procs) :
           /\ procs'[t].notify = procs[t].notify /\ procs'[t].proc = procs[t].proc
           /\ procs'[t].pgrp = procs[t].pgrp /\ procs'[t].job = procs[t].job
           /\ procs'[t].out = procs[t].out /\ procs'[t].prev = procs[t].prev
           /\ t # s => procs'[t] = procs[t]
  <2>1. procs' = [procs EXCEPT ![s] = InState(procs[s], "run")]
    BY <1>b, Zenon DEF InState
  <2> QED
    BY <1>n, <2>1, InStateTable DEF KInv
<1>p. /\ pc' = "resume" /\ cur' = s /\ lastjob' = lastjob /\ flags' \subseteq {"bg"} /\ child' = child
      /\ monitor' = monitor /\ talking' = talking /\ lastj' = lastj
      /\ kid' = kid /\ news' = news /\ group' = group /\ chld' = chld
  BY <1>b DEF j_resume, steady, kernel
<1>s. procs[s].state \in {"run", "stop"} /\ procs[s].proc \in Pids /\ procs[s].proc # None
  <2>1. procs[s].state \in {"free", "run", "stop", "ended"} /\ procs[s].proc \in Pids \cup {None}
    BY <1>n, TypedFacts DEF KInv
  <2> QED
    BY <1>a, <1>b, <1>n, <2>1 DEF KInv, EntryInv, KshAssumption
<1>1. Typed'
  BY <1>a, <1>e, <1>n, <1>p, <1>s DEF KInv, Typed
<1>2. KernelInv'
  BY <1>a, <1>e, <1>n, <1>p, <1>s DEF KInv, Typed, KernelInv, News
<1>3. EntryInv'
  BY <1>a, <1>e, <1>n, <1>p, <1>s DEF KInv, EntryInv, News
<1>4. StateInv'
  BY <1>a, <1>e, <1>n, <1>p, <1>s DEF KInv, Typed, EntryInv, StateInv, KernelInv, News
<1>5. PipedInv'
  BY <1>a, <1>e, <1>n, <1>p, <1>s DEF KInv, Typed, PipedInv, EntryInv
<1>6. FlagInv'
  BY <1>a, <1>e, <1>n, <1>p, <1>s DEF KInv, Typed, FlagInv
<1>7. TailInv'
  BY <1>a, <1>e, <1>n, <1>p, <1>s DEF KInv, Typed, TailInv
<1>8. LineInv'
  BY <1>p DEF LineInv
<1>9. NoticeInv'
  BY <1>a, <1>e, <1>n, <1>p, <1>s DEF KInv, Typed, NoticeInv
<1>10. AgainInv'
  BY <1>p DEF AgainInv
<1> QED
  BY <1>1, <1>2, <1>3, <1>4, <1>5, <1>6, <1>7, <1>8, <1>9, <1>10 DEF KInv

-----------------------------------------------------------------------------
(* exchild *)

LEMMA NewJobFacts ==
  ASSUME Typed, KshAssumption
  PROVE  j_newjob \in Nat
<1> DEFINE J == {procs[s].job : s \in {t \in DOMAIN procs : procs[t].state # "free"}}
<1>1. DOMAIN procs = 1 .. Len(procs)
  BY DEF Typed
<1>2. {0} \cup J \subseteq 0 .. MaxJob /\ {0} \cup J # {} /\ MaxJob \in Nat
  BY <1>1, TypedFacts DEF KshAssumption
<1> HIDE DEF J
<1>3. Max({0} \cup J) \in 0 .. MaxJob
  <2>1. PICK T : T = {0} \cup J
    OBVIOUS
  <2> QED
    BY <1>2, <2>1, HasMax
<1>4. PICK m \in 0 .. MaxJob : m = Max({0} \cup J)
  BY <1>3
<1>5. j_newjob = IF lastjob + 1 > m THEN m + 1 ELSE lastjob + 1
  BY <1>4 DEF j_newjob, J
<1> QED
  BY <1>2, <1>4, <1>5 DEF Typed

\* The first free entry of the list, or a new one.
LEMMA AllocateFacts ==
  ASSUME KInv, KshAssumption, NEW f, Allocate(f)
  PROVE  /\ cur' \in 1 .. Len(procs) + 1 /\ procs' \in Seq(Proc) /\ Len(procs') <= MaxProcs
         /\ Len(procs') = IF cur' = Len(procs) + 1 THEN Len(procs) + 1 ELSE Len(procs)
         /\ \A s \in 1 .. Len(procs) : s > cur' => procs[s].state # "free"
         /\ cur' <= Len(procs) => procs[cur'].state = "free"
         /\ cur' = Len(procs) + 1 => \A s \in 1 .. Len(procs) : procs[s].state # "free"
         /\ procs'[cur'].state = "run" /\ procs'[cur'].proc = None
         /\ procs'[cur'].prev = IF "in" \in f THEN cur ELSE 0
         /\ procs'[cur'].job = lastjob' /\ (procs'[cur'].out <=> "out" \in f)
         /\ \A s \in 1 .. Len(procs) : s # cur' => procs'[s] = procs[s]
         /\ lastjob' \in 0 .. MaxJob /\ ("in" \in f => lastjob' = lastjob)
         /\ pc' = "fork" /\ flags' = f
         /\ child' = child /\ monitor' = monitor /\ talking' = talking /\ lastj' = lastj
         /\ kid' = kid /\ news' = news /\ group' = group /\ chld' = chld
<1>1. DOMAIN procs = 1 .. Len(procs) /\ Len(procs) \in Nat /\ Len(procs) <= MaxProcs
      /\ procs \in Seq(Proc) /\ cur \in 0 .. Len(procs) /\ MaxProcs \in Nat /\ MaxJob \in Nat
  BY DEF KInv, Typed, KshAssumption
<1> DEFINE F == {s \in DOMAIN procs : procs[s].state = "free"}
           free == Last(F)
           j == IF free = 0 THEN Len(procs) + 1 ELSE free
           job == IF "in" \in f THEN lastjob ELSE j_newjob
           n == free # 0 /\ procs[j].notify
           prev == IF "in" \in f THEN cur ELSE 0
           out == "out" \in f
           e == [state |-> "run", notify |-> n, prev |-> prev, proc |-> None, pgrp |-> None,
                 job |-> job, out |-> out]
<1>2. /\ j <= MaxProcs /\ job <= MaxJob
      /\ procs' = IF free = 0 THEN Append(procs, e) ELSE [procs EXCEPT ![j] = e]
      /\ lastjob' = job /\ pc' = "fork" /\ cur' = j /\ flags' = f
      /\ UNCHANGED <<child, steady, kernel>>
  BY Zenon DEF Allocate
<1>3. /\ F = {} => free = 0
      /\ F # {} => free \in F /\ \A s \in F : free >= s
  BY <1>1, LastFacts
<1>4. F \subseteq 1 .. Len(procs) /\ \A s \in 1 .. Len(procs) : s \in F <=> procs[s].state = "free"
  BY <1>1
<1>5. job \in 0 .. MaxJob
  BY <1>1, <1>2, NewJobFacts DEF KInv, Typed
<1>6. n \in BOOLEAN /\ out \in BOOLEAN
  <2>1. n \in BOOLEAN
    OBVIOUS
  <2>2. out \in BOOLEAN
    OBVIOUS
  <2> QED
    BY <2>1, <2>2
<1>7. prev \in 0 .. MaxProcs /\ None \in Pids \cup {None}
  BY <1>1
<1> HIDE DEF F, free
<1>8. /\ F = {} => j = Len(procs) + 1 /\ free = 0
      /\ F # {} => j = free /\ free # 0 /\ j \in 1 .. Len(procs)
  BY <1>1, <1>3, <1>4 DEF F
<1> HIDE DEF j, job, n, prev, out
<1>9. /\ e \in Proc /\ e.state = "run" /\ e.proc = None /\ e.prev = prev /\ e.job = job
      /\ e.out = out
  BY <1>5, <1>6, <1>7 DEF Proc
<1>12. e.out <=> "out" \in f
  BY <1>9 DEF out
<1>13. /\ lastjob' = job /\ ("in" \in f => lastjob' = lastjob) /\ lastjob' \in 0 .. MaxJob
       /\ prev = IF "in" \in f THEN cur ELSE 0
  BY <1>2, <1>5 DEF job, prev
<1>14. /\ j <= MaxProcs /\ pc' = "fork" /\ cur' = j /\ flags' = f /\ lastj' = lastj
       /\ child' = child /\ monitor' = monitor /\ talking' = talking
       /\ kid' = kid /\ news' = news /\ group' = group /\ chld' = chld
  BY <1>2 DEF steady, kernel
<1> HIDE DEF e
<1>10. CASE F = {}
  <2>1. procs' = Append(procs, e) /\ j = Len(procs) + 1
    BY <1>2, <1>8, <1>10
  <2>2. /\ procs' \in Seq(Proc) /\ Len(procs') = Len(procs) + 1 /\ procs'[j] = e
        /\ \A s \in 1 .. Len(procs) : procs'[s] = procs[s]
    BY <1>1, <1>9, <2>1
  <2>a. cur' = j /\ cur' \in 1 .. Len(procs) + 1 /\ Len(procs') <= MaxProcs
        /\ Len(procs') = IF cur' = Len(procs) + 1 THEN Len(procs) + 1 ELSE Len(procs)
    <3>1. Len(procs') = IF j = Len(procs) + 1 THEN Len(procs) + 1 ELSE Len(procs)
      BY <1>1, <2>1, <2>2
    <3>2. j \in 1 .. Len(procs) + 1 /\ Len(procs') <= MaxProcs
      BY <1>1, <1>14, <2>1, <2>2
    <3> QED
      BY <1>14, <3>1, <3>2
  <2>b. /\ \A s \in 1 .. Len(procs) : s > j => procs[s].state # "free"
        /\ j <= Len(procs) => procs[j].state = "free"
        /\ j = Len(procs) + 1 => \A s \in 1 .. Len(procs) : procs[s].state # "free"
    BY <1>1, <1>4, <1>10, <2>1
  <2>c. /\ procs'[j].state = "run" /\ procs'[j].proc = None /\ procs'[j].prev = prev
        /\ procs'[j].job = job /\ (procs'[j].out <=> "out" \in f)
    BY <1>9, <1>12, <2>2
  <2>d. \A s \in 1 .. Len(procs) : s # j => procs'[s] = procs[s]
    BY <2>2
  <2> QED
    BY <1>13, <1>14, <2>2, <2>a, <2>b, <2>c, <2>d
<1>11. CASE F # {}
  <2>0. j \in 1 .. Len(procs) /\ j # Len(procs) + 1
    BY <1>1, <1>8, <1>11
  <2>1. procs' = [procs EXCEPT ![j] = e] /\ j \in 1 .. Len(procs)
    BY <1>2, <1>8, <1>11
  <2>2. /\ procs' \in Seq(Proc) /\ Len(procs') = Len(procs) /\ procs'[j] = e
        /\ \A s \in 1 .. Len(procs) : s # j => procs'[s] = procs[s]
    BY <1>1, <1>9, <2>1
  <2>3. procs[j].state = "free" /\ \A s \in 1 .. Len(procs) : s > j => procs[s].state # "free"
    BY <1>1, <1>3, <1>4, <1>8, <1>11, <2>1
  <2>a. cur' = j /\ cur' \in 1 .. Len(procs) + 1 /\ Len(procs') <= MaxProcs
        /\ Len(procs') = IF cur' = Len(procs) + 1 THEN Len(procs) + 1 ELSE Len(procs)
    <3>1. Len(procs') = IF j = Len(procs) + 1 THEN Len(procs) + 1 ELSE Len(procs)
      BY <2>0, <2>2
    <3>2. j \in 1 .. Len(procs) + 1 /\ Len(procs') <= MaxProcs
      BY <1>1, <1>14, <2>1, <2>2
    <3> QED
      BY <1>14, <3>1, <3>2
  <2>b. /\ \A s \in 1 .. Len(procs) : s > j => procs[s].state # "free"
        /\ j <= Len(procs) => procs[j].state = "free"
        /\ j = Len(procs) + 1 => \A s \in 1 .. Len(procs) : procs[s].state # "free"
    BY <1>1, <2>1, <2>3
  <2>c. /\ procs'[j].state = "run" /\ procs'[j].proc = None /\ procs'[j].prev = prev
        /\ procs'[j].job = job /\ (procs'[j].out <=> "out" \in f)
    BY <1>9, <1>12, <2>2
  <2>d. \A s \in 1 .. Len(procs) : s # j => procs'[s] = procs[s]
    BY <2>2
  <2> QED
    BY <1>13, <1>14, <2>2, <2>a, <2>b, <2>c, <2>d
<1> QED
  BY <1>10, <1>11

LEMMA AllocateStep ==
  ASSUME KInv, KshAssumption, NEW f, Allocate(f), pc \in {"ready", "pipe"},
         "in" \in f <=> pc = "pipe", f \subseteq {"in", "out", "bg", "xcom"},
         "xcom" \in f => "bg" \notin f
  PROVE  KInv'
<1>a. Len(procs) \in Nat /\ cur \in 0 .. Len(procs) /\ cur' \in 1 .. Len(procs) + 1
  BY AllocateFacts DEF KInv, Typed
<1>b. /\ procs' \in Seq(Proc) /\ Len(procs') \in 0 .. MaxProcs /\ cur' \in 1 .. Len(procs')
      /\ Len(procs) <= Len(procs')
      /\ \A s \in 1 .. Len(procs') : s # cur' => s \in 1 .. Len(procs) /\ procs'[s] = procs[s]
  BY <1>a, AllocateFacts DEF KshAssumption
<1>e. /\ \A s \in 1 .. Len(procs) : s > cur' => procs[s].state # "free"
      /\ cur' <= Len(procs) => procs[cur'].state = "free"
      /\ cur' = Len(procs) + 1 => \A s \in 1 .. Len(procs) : procs[s].state # "free"
      /\ procs'[cur'].state = "run" /\ procs'[cur'].proc = None
      /\ procs'[cur'].prev = IF "in" \in f THEN cur ELSE 0
      /\ procs'[cur'].job = lastjob' /\ (procs'[cur'].out <=> "out" \in f)
  BY AllocateFacts
<1>p. /\ lastjob' \in 0 .. MaxJob /\ ("in" \in f => lastjob' = lastjob)
      /\ pc' = "fork" /\ flags' = f
      /\ child' = child /\ monitor' = monitor /\ talking' = talking /\ lastj' = lastj
      /\ kid' = kid /\ news' = news /\ group' = group /\ chld' = chld
  BY AllocateFacts
<1>c. pc = "pipe" => cur \in 1 .. Len(procs)
  BY <1>a DEF KInv, Typed
<1>1. Typed'
  BY <1>a, <1>b, <1>c, <1>e, <1>p DEF KInv, Typed
<1>2. KernelInv'
  BY <1>a, <1>b, <1>c, <1>e, <1>p DEF KInv, Typed, KernelInv, News
<1>3. EntryInv'
  <2>1. \A s, t \in 1 .. Len(procs') :
          procs'[s].proc # None /\ procs'[s].proc = procs'[t].proc => s = t
    <3> SUFFICES ASSUME NEW s \in 1 .. Len(procs'), NEW t \in 1 .. Len(procs'),
                        procs'[s].proc # None, procs'[s].proc = procs'[t].proc
                 PROVE  s = t
      OBVIOUS
    <3>1. s # cur' /\ t # cur'
      BY <1>e
    <3>2. /\ s \in 1 .. Len(procs) /\ procs'[s] = procs[s]
          /\ t \in 1 .. Len(procs) /\ procs'[t] = procs[t]
      BY <1>b, <3>1
    <3> QED
      BY <3>2 DEF KInv, EntryInv
  <2>2. \A s \in 1 .. Len(procs') :
          /\ procs'[s].state = "free" => procs'[s].proc = None
          /\ procs'[s].state \in {"stop", "ended"} => procs'[s].proc \in Pids
          /\ procs'[s].state = "run" /\ procs'[s].proc = None => s = cur'
    <3> TAKE s \in 1 .. Len(procs')
    <3>1. CASE s = cur'
      BY <1>e, <3>1
    <3>2. CASE s # cur'
      BY <1>b, <3>2 DEF KInv, EntryInv
    <3> QED
      BY <3>1, <3>2
  <2> QED
    BY <1>e, <1>p, <2>1, <2>2 DEF EntryInv
<1>4. StateInv'
  <2> SUFFICES ASSUME NEW s \in 1 .. Len(procs')
               PROVE  /\ procs'[s].state = "ended" => kid[procs'[s].proc] = "none"
                      /\ procs'[s].state \in {"run", "stop"} /\ procs'[s].proc # None =>
                           kid[procs'[s].proc] # "none" /\ group[procs'[s].proc] = procs'[s].pgrp
                      /\ procs'[s].state = "run" /\ procs'[s].proc # None =>
                           kid[procs'[s].proc] = "run" \/ News(procs'[s].proc)
    BY <1>p DEF StateInv, News
  <2>1. CASE s = cur'
    BY <1>e, <2>1
  <2>2. CASE s # cur'
    BY <1>b, <2>2 DEF KInv, StateInv
  <2> QED
    BY <2>1, <2>2
<1>5. PipedInv'
  BY <1>a, <1>b, <1>c, <1>e, <1>p DEF KInv, Typed, PipedInv, EntryInv
<1>6. FlagInv'
  BY <1>a, <1>b, <1>c, <1>e, <1>p DEF KInv, Typed, FlagInv
<1>7. TailInv'
  BY <1>a, <1>b, <1>c, <1>e, <1>p DEF KInv, Typed, TailInv
<1>8. LineInv'
  <2>1. CASE pc = "ready" \/ cur' = cur
    <3>1. PICK S : S = {cur'}
      OBVIOUS
    <3>2. Line(S)'
      BY <1>b, <1>e, <1>p, <2>1, <3>1 DEF Line
    <3> QED
      BY <1>b, <3>1, <3>2 DEF LineInv
  <2>2. CASE pc = "pipe" /\ cur' # cur
    <3>1. PICK S \in SUBSET (1 .. Len(procs)) : Line(S)
      BY <2>2 DEF KInv, LineInv, AgainInv
    <3>2. procs[cur].state # "free" /\ procs[cur].job = lastjob
      BY <1>a, <1>c, <1>e, <2>2 DEF KInv, FlagInv
    <3>3. \A s \in S : procs[s].state # "free"
      BY <2>2, <3>1, <3>2 DEF Line
    <3>4. cur' \notin S /\ cur \in S
      BY <1>a, <1>e, <3>1, <3>3 DEF Line
    <3>5. PICK T : T = S \cup {cur'}
      OBVIOUS
    <3>6. T \in SUBSET (1 .. Len(procs'))
      <4>1. \A s \in S : s \in 1 .. Len(procs')
        BY <1>a, <1>b
      <4> QED
        BY <1>b, <3>5, <4>1
    <3>7. ASSUME NEW s \in S
          PROVE  /\ procs'[s] = procs[s] /\ s # cur'
                 /\ procs[s].prev # 0 =>
                      procs[s].prev \in S /\ procs'[procs[s].prev] = procs[procs[s].prev]
                 /\ procs[s].prev # 0 => procs[procs[s].prev].job = procs[s].job
                 /\ procs[s].prev # cur'
      <4>1. s # cur' /\ s \in 1 .. Len(procs')
        BY <3>4, <3>5, <3>6
      <4>2. procs[s].prev # 0 => procs[s].prev \in S /\ procs[procs[s].prev].job = procs[s].job
        BY <3>1, <3>3 DEF Line
      <4>3. procs[s].prev # 0 => procs[s].prev # cur' /\ procs[s].prev \in 1 .. Len(procs')
        BY <3>4, <3>5, <3>6, <4>2
      <4> QED
        BY <1>a, <1>b, <4>1, <4>2, <4>3
    <3>8. Line(T)'
      <4>1. procs'[cur'].prev = cur /\ procs'[cur].job = lastjob /\ procs'[cur'].job = lastjob
        BY <1>e, <1>p, <2>2, <3>2, <3>4, <3>7
      <4>2. ASSUME NEW s \in S
            PROVE  /\ procs'[s].state # "free"
                   /\ procs'[s].prev # 0 =>
                        procs'[s].prev \in T /\ procs'[procs'[s].prev].job = procs'[s].job
                   /\ procs'[s].prev # cur'
        BY <3>3, <3>5, <3>7
      <4> QED
        BY <1>e, <1>p, <3>4, <3>5, <4>1, <4>2 DEF Line
    <3> QED
      BY <3>6, <3>8 DEF LineInv
  <2> QED
    BY <2>1, <2>2
<1>9. NoticeInv'
  BY <1>a, <1>b, <1>c, <1>e, <1>p DEF KInv, Typed, NoticeInv
<1>10. AgainInv'
  BY <1>p DEF AgainInv
<1> QED
  BY <1>1, <1>2, <1>3, <1>4, <1>5, <1>6, <1>7, <1>8, <1>9, <1>10 DEF KInv

LEMMA ExchildStep ==
  ASSUME KInv, KshAssumption, exchild \/ exchild_piped
  PROVE  KInv'
<1>1. CASE exchild
  <2>1. PICK f \in {{}, {"bg"}, {"out"}, {"out", "bg"}, {"out", "xcom"}} : Allocate(f)
    BY <1>1 DEF exchild
  <2>2. pc = "ready" /\ "in" \notin f /\ f \subseteq {"in", "out", "bg", "xcom"}
        /\ ("xcom" \in f => "bg" \notin f)
    BY <1>1 DEF exchild
  <2> QED
    BY <2>1, <2>2, AllocateStep
<1>2. CASE exchild_piped
  <2>1. PICK u \in {{}, {"out"}} : Allocate((flags \ {"out"}) \cup {"in"} \cup u)
    BY <1>2 DEF exchild_piped
  <2>2. PICK f : f = (flags \ {"out"}) \cup {"in"} \cup u
    OBVIOUS
  <2>3. pc = "pipe" /\ "intr" \notin flags /\ "again" \notin flags
        /\ ("xcom" \in flags => "bg" \notin flags)
        /\ flags \subseteq {"in", "out", "bg", "xcom", "intr", "again"}
    BY <1>2 DEF exchild_piped, KInv, Typed, FlagInv, AgainInv
  <2>4. "in" \in f /\ f \subseteq {"in", "out", "bg", "xcom"} /\ ("xcom" \in f => "bg" \notin f)
    BY <2>2, <2>3
  <2> QED
    BY <2>1, <2>2, <2>3, <2>4, AllocateStep
<1> QED
  BY <1>1, <1>2

\* With nothing to run, j_lastj must be an entry that is free.
LEMMA EmptyStep ==
  ASSUME KInv, Allowed = {}, comsub_empty
  PROVE  KInv'
<1>p. /\ pc = "ready" /\ pc' = "reading" /\ cur' = lastj /\ flags' = {"again"}
      /\ lastj # 0 /\ procs[lastj].state = "free" /\ procs[lastj].prev = 0
      /\ procs' = procs /\ lastjob' = lastjob /\ child' = child
      /\ monitor' = monitor /\ talking' = talking /\ lastj' = lastj
      /\ kid' = kid /\ news' = news /\ group' = group /\ chld' = chld
  BY DEF comsub_empty, table, steady, kernel
<1>l. lastj \in 1 .. Len(procs)
  BY <1>p DEF KInv, Typed
<1>1. Typed'
  BY <1>l, <1>p DEF KInv, Typed
<1>2. KernelInv' /\ EntryInv' /\ StateInv' /\ PipedInv'
  BY <1>p DEF KInv, KernelInv, EntryInv, StateInv, PipedInv, News
<1>3. FlagInv' /\ TailInv' /\ LineInv' /\ NoticeInv'
  BY <1>p DEF KInv, FlagInv, TailInv, LineInv, NoticeInv
<1>4. AgainInv'
  <2>1. PICK W \in SUBSET (1 .. Len(procs)) : W = {lastj}
    BY <1>l
  <2>2. (cur \in W /\ lastj \in W /\ Behind(W, lastj))'
    BY <1>p, <2>1 DEF Behind
  <2> QED
    BY <1>p, <2>2 DEF AgainInv
<1> QED
  BY <1>1, <1>2, <1>3, <1>4 DEF KInv

-----------------------------------------------------------------------------
(* Invariance *)

LEMMA KInitInv == KshAssumption /\ Init => KInv
<1> SUFFICES ASSUME KshAssumption, Init PROVE KInv
  OBVIOUS
<1>1. procs = <<>> /\ Len(procs) = 0 /\ lastjob = 0 /\ pc = "ready" /\ cur = 0 /\ flags = {} /\ lastj = 0
      /\ child = None /\ kid = [p \in Pids |-> "none"] /\ news = {}
      /\ group = [p \in Pids |-> None] /\ chld = FALSE
  BY DEF Init
<1>2. Typed
  <2>1. monitor \in BOOLEAN /\ talking \in BOOLEAN
    BY Zenon DEF Init
  <2>2. chld \in BOOLEAN
    BY <1>1, Zenon
  <2>3. procs \in Seq(Proc)
    BY <1>1
  <2> QED
    BY <1>1, <2>1, <2>2, <2>3 DEF Typed, KshAssumption
<1>3. KernelInv /\ EntryInv /\ StateInv /\ PipedInv /\ FlagInv /\ TailInv /\ LineInv /\ NoticeInv
      /\ AgainInv
  BY <1>1 DEF KernelInv, EntryInv, StateInv, PipedInv, FlagInv, TailInv, LineInv, NoticeInv,
             AgainInv
<1> QED
  BY <1>2, <1>3 DEF KInv

LEMMA KNextInv ==
  ASSUME KInv, KshAssumption, Allowed = {}, [Next]_vars
  PROVE  KInv'
<1>1. ASSUME NEW p \in Pids, Exit(p) \/ Stop(p) \/ Cont(p) PROVE KInv'
  BY <1>1, ExitStep, StopStep, ContStep
<1>2. CASE exchild \/ exchild_piped \/ comsub_empty
  BY <1>2, ExchildStep, EmptyStep
<1>3. CASE fork \/ fork_error \/ Registered \/ Started \/ waitlast
  BY <1>3, ForkStep, ForkErrorStep, RegisteredStep, StartedStep, WaitLastStep
<1>4. CASE j_waitj \/ j_sigchld_wait \/ j_sigchld \/ Break
  BY <1>4, WaitStep, SignalWaitStep, SignalStep, BreakStep
<1>5. CASE prompt \/ j_notify_print \/ j_notify_free \/ j_notify_clear
  BY <1>5, PromptStep, NotifyPrintStep, NotifyFreeStep, NotifyClearStep
<1>6. CASE waitfor \/ j_jobs \/ j_resume \/ killpg \/ killpg_error \/ j_change
  BY <1>6, WaitForStep, JobsStep, ResumeStep, KillStep, KillErrorStep, ChangeStep
<1>7. CASE UNCHANGED vars
  BY <1>7 DEF vars, table, shell, steady, kernel, KInv, Typed, KernelInv, EntryInv, StateInv,
              PipedInv, FlagInv, TailInv, LineInv, Line, NoticeInv, News,
              AgainInv, Behind
<1> QED
  BY <1>1, <1>2, <1>3, <1>4, <1>5, <1>6, <1>7 DEF Next

\* The invariant holds whatever happens between the shell, its children and the kernel.
LEMMA KInvariance == ASSUME Allowed = {} PROVE Spec => []KInv
<1>1. Init => KInv
  BY KInitInv, KshAssumption
<1>2. KInv /\ [Next]_vars => KInv'
  BY KNextInv, KshAssumption
<1> QED
  BY <1>1, <1>2, PTL DEF Spec

-----------------------------------------------------------------------------
(* Theorems *)

\* The table, the shell and what the kernel knows keep their types: cur is an entry of
\* the list wherever the code uses it, job numbers never fall below 0.
THEOREM TypeCorrect == ASSUME Allowed = {} PROVE Spec => []TypeOK
<1>1. KInv => TypeOK
  <2> SUFFICES ASSUME KInv PROVE TypeOK
    OBVIOUS
  <2> DEFINE P == [state : {"free", "run", "stop", "ended"}, notify : BOOLEAN,
                   prev : 0 .. MaxProcs, proc : Pids \cup {None}, pgrp : Pids \cup {None},
                   job : Nat, out : BOOLEAN]
  <2>1. \A e \in Proc : e \in P
    BY KshAssumption DEF Proc, KshAssumption
  <2>2. procs \in Seq(P)
    <3> HIDE DEF P
    <3> QED
      BY <2>1 DEF KInv, Typed
  <2> QED
    BY <2>2 DEF KInv, Typed, TypeOK
<1> QED
  BY <1>1, KInvariance, PTL

\* Nothing j_sigchld does, whenever it comes between exchild, j_waitj, j_notify, fg and bg,
\* loses a child: an entry that says a process runs is right, or a SIGCHLD is underway.
THEOREM NothingIsLost == ASSUME Allowed = {} PROVE Spec => []RunsOrNews
<1>1. KInv => RunsOrNews
  <2> SUFFICES ASSUME KInv PROVE RunsOrNews
    OBVIOUS
  <2>1. DOMAIN procs = 1 .. Len(procs)
    BY DEF KInv, Typed
  <2> QED
    BY <2>1 DEF KInv, StateInv, News, RunsOrNews
<1> QED
  BY <1>1, KInvariance, PTL

\* An entry marked as ended has been reaped, and one marked as stopped has not: fg and bg
\* never signal, and wait never awaits, a process id the kernel has taken back.
THEOREM EndsAreReaped == ASSUME Allowed = {} PROVE Spec => []EndedIsGone
<1>1. KInv => EndedIsGone
  <2> SUFFICES ASSUME KInv PROVE EndedIsGone
    OBVIOUS
  <2>1. DOMAIN procs = 1 .. Len(procs)
    BY DEF KInv, Typed
  <2> QED
    BY <2>1, KshAssumption DEF KInv, StateInv, EntryInv, EndedIsGone, KshAssumption
<1> QED
  BY <1>1, KInvariance, PTL

\* j_waitj follows the pipeline it was called for, through entries that are not freed or
\* given away under its feet.
THEOREM PipelinesHoldTogether == ASSUME Allowed = {} PROVE Spec => []WaitsForItsOwn
<1>1. KInv => WaitsForItsOwn
  <2> SUFFICES ASSUME KInv, pc = "wait" PROVE WaitsForItsOwn
    BY DEF WaitsForItsOwn
  <2>0. "again" \in flags => procs[cur].state # "run"
    BY DEF KInv, AgainInv, Behind
  <2>a. SUFFICES ASSUME "again" \notin flags PROVE WaitsForItsOwn
    BY <2>0 DEF WaitsForItsOwn
  <2>1. PICK S \in SUBSET (1 .. Len(procs)) : Line(S)
    BY <2>a DEF KInv, LineInv
  <2> QED
    BY <2>1, <2>a DEF Line, WaitsForItsOwn
<1> QED
  BY <1>1, KInvariance, PTL

\* An interactive shell announces every end it has not waited for before j_notify frees
\* the entry.
THEOREM EndsAreAnnounced == ASSUME Allowed = {} PROVE Spec => []Announced
<1>1. KInv => Announced
  <2> SUFFICES ASSUME KInv PROVE Announced
    OBVIOUS
  <2>1. DOMAIN procs = 1 .. Len(procs)
    BY DEF KInv, Typed
  <2> QED
    BY <2>1 DEF KInv, NoticeInv, Announced
<1> QED
  BY <1>1, KInvariance, PTL

-----------------------------------------------------------------------------
(* Job numbers *)

\* A pipeline that is not complete yet: its members so far have their output piped.
Open == pc = "pipe" \/ (pc \in {"fork", "forked", "started"} /\ "out" \in flags)

JobInv ==
    /\ \A s \in 1 .. Len(procs) : procs[s].state # "free" => procs[s].job <= lastjob
    /\ Open => \A s \in 1 .. Len(procs) :
                   procs[s].state # "free" /\ procs[s].job = lastjob => procs[s].out
    /\ \A s, t \in 1 .. Len(procs) :
          /\ procs[s].state # "free" /\ procs[t].state # "free"
          /\ ~procs[s].out /\ ~procs[t].out
          /\ procs[s].job = procs[t].job
          => s = t

\* Most steps give nobody a number, though they may free entries.
KeepsJobs ==
    /\ Len(procs') = Len(procs)
    /\ \A s \in 1 .. Len(procs) : procs'[s].state # "free" =>
          /\ procs[s].state # "free"
          /\ procs'[s].job = procs[s].job /\ (procs'[s].out <=> procs[s].out)

LEMMA KeptJobs ==
  ASSUME JobInv, KeepsJobs, lastjob' = lastjob, Open' => Open
  PROVE  JobInv'
<1>1. (\A s \in 1 .. Len(procs) : procs[s].state # "free" => procs[s].job <= lastjob)'
  BY DEF JobInv, KeepsJobs
<1>2. (Open => \A s \in 1 .. Len(procs) :
                   procs[s].state # "free" /\ procs[s].job = lastjob => procs[s].out)'
  BY DEF JobInv, KeepsJobs
<1>3. (\A s, t \in 1 .. Len(procs) :
          /\ procs[s].state # "free" /\ procs[t].state # "free"
          /\ ~procs[s].out /\ ~procs[t].out
          /\ procs[s].job = procs[t].job
          => s = t)'
  BY DEF JobInv, KeepsJobs
<1> QED
  BY <1>1, <1>2, <1>3 DEF JobInv

LEMMA FreeingKeepsJobs ==
  ASSUME Typed, KshAssumption, NEW F \in SUBSET (1 .. Len(procs)), procs' = Freeing(F)
  PROVE  KeepsJobs
BY FreeingFacts DEF KeepsJobs

LEMMA PrintingKeepsJobs ==
  ASSUME Typed, KshAssumption, NEW s \in 1 .. Len(procs),
         procs' = [procs EXCEPT ![s] = j_print(@)]
  PROVE  KeepsJobs
<1>1. {s} \cap Ended \in SUBSET (1 .. Len(procs)) /\ procs' = Freeing({s} \cap Ended)
  BY PrintingOne
<1> QED
  BY <1>1, FreeingKeepsJobs

LEMMA ReportKeepsJobs ==
  ASSUME KInv, KshAssumption, NEW P \in SUBSET Pids, procs' = Reported(P)
  PROVE  KeepsJobs
<1>1. /\ Len(procs') = Len(procs)
      /\ \A s \in 1 .. Len(procs) :
           /\ procs'[s].job = procs[s].job /\ procs'[s].out = procs[s].out
           /\ procs[s].proc \notin P => procs'[s] = procs[s]
  BY ReportedFacts DEF KInv
<1>2. \A s \in 1 .. Len(procs) : procs[s].state = "free" => procs[s].proc \notin P
  BY DEF KInv, EntryInv, KshAssumption
<1> QED
  BY <1>1, <1>2 DEF KeepsJobs

LEMMA RegisteredKeepsJobs ==
  ASSUME KInv, Registered
  PROVE  KeepsJobs
<1>1. procs \in Seq(Proc) /\ cur \in 1 .. Len(procs)
  BY DEF KInv, Typed, Registered
<1>2. PICK g : procs' = [procs EXCEPT ![cur] = Holding(procs[cur], child, g)]
  BY Zenon DEF Registered, Holding
<1>3. PICK e : e = Holding(procs[cur], child, g)
  OBVIOUS
<1>4. e.state = procs[cur].state /\ e.job = procs[cur].job /\ e.out = procs[cur].out
  <2>1. procs[cur] \in Proc
    BY <1>1
  <2> QED
    BY <1>3, <2>1 DEF Holding, Proc
<1>5. procs' = [procs EXCEPT ![cur] = e]
  BY <1>2, <1>3
<1>6. Len(procs') = Len(procs) /\ procs'[cur] = e
      /\ \A s \in 1 .. Len(procs) : s # cur => procs'[s] = procs[s]
  BY <1>1, <1>5
<1> QED
  BY <1>4, <1>6 DEF KeepsJobs

\* A new job has a number above all that are in use.
LEMMA NewJobAbove ==
  ASSUME Typed, KshAssumption,
         \A s \in 1 .. Len(procs) : procs[s].state # "free" => procs[s].job <= lastjob
  PROVE  \A s \in 1 .. Len(procs) : procs[s].state # "free" => procs[s].job < j_newjob
<1> DEFINE J == {procs[s].job : s \in {t \in DOMAIN procs : procs[t].state # "free"}}
<1>1. DOMAIN procs = 1 .. Len(procs)
  BY DEF Typed
<1>2. {0} \cup J \subseteq 0 .. MaxJob /\ {0} \cup J # {} /\ MaxJob \in Nat
  BY <1>1, TypedFacts DEF KshAssumption
<1>3. \A j \in {0} \cup J : j <= lastjob
  BY <1>1 DEF Typed
<1>4. \A s \in 1 .. Len(procs) : procs[s].state # "free" => procs[s].job \in {0} \cup J
  BY <1>1
<1> HIDE DEF J
<1>5. PICK T : T = {0} \cup J
  OBVIOUS
<1>6. Max(T) \in T /\ \A y \in T : Max(T) >= y
  BY <1>2, <1>5, HasMax
<1>7. PICK m \in 0 .. MaxJob : m = Max({0} \cup J)
  BY <1>2, <1>5, <1>6
<1>8. m <= lastjob /\ \A y \in {0} \cup J : y <= m
  BY <1>3, <1>5, <1>6, <1>7
<1>9. j_newjob = IF lastjob + 1 > m THEN m + 1 ELSE lastjob + 1
  BY <1>7 DEF j_newjob, J
<1>10. j_newjob = m + 1
  BY <1>2, <1>7, <1>8, <1>9 DEF Typed
<1>11. SUFFICES ASSUME NEW s \in 1 .. Len(procs), procs[s].state # "free"
                PROVE  procs[s].job < j_newjob
  OBVIOUS
<1>12. PICK k \in 0 .. MaxJob : k = procs[s].job /\ k \in {0} \cup J
  BY <1>2, <1>4, <1>11
<1>13. k <= m
  BY <1>8, <1>12
<1> QED
  BY <1>2, <1>10, <1>12, <1>13

LEMMA AllocateJobs ==
  ASSUME KInv, KshAssumption, JobInv, NEW f, Allocate(f), "in" \in f => pc = "pipe"
  PROVE  JobInv'
<1>1. /\ cur' \in 1 .. Len(procs) + 1
      /\ Len(procs') = IF cur' = Len(procs) + 1 THEN Len(procs) + 1 ELSE Len(procs)
      /\ procs'[cur'].job = lastjob' /\ (procs'[cur'].out <=> "out" \in f)
      /\ \A s \in 1 .. Len(procs) : s # cur' => procs'[s] = procs[s]
      /\ lastjob' \in 0 .. MaxJob /\ ("in" \in f => lastjob' = lastjob)
      /\ pc' = "fork" /\ flags' = f
  BY AllocateFacts
<1>2. "in" \notin f => lastjob' = j_newjob
  BY Zenon DEF Allocate
<1>3. Len(procs) \in Nat /\ lastjob \in 0 .. MaxJob
  BY DEF KInv, Typed
<1>4. \A s \in 1 .. Len(procs') : s # cur' => s \in 1 .. Len(procs) /\ procs'[s] = procs[s]
  BY <1>1, <1>3
<1>5. \A s \in 1 .. Len(procs) : procs[s].state # "free" => procs[s].job \in Int
  BY TypedFacts DEF KInv
<1>6. ASSUME NEW s \in 1 .. Len(procs), procs[s].state # "free"
      PROVE  procs[s].job <= lastjob' /\ (procs[s].job = lastjob' => procs[s].out)
  <2>1. CASE "in" \in f
    BY <1>1, <1>6, <2>1 DEF JobInv, Open
  <2>2. CASE "in" \notin f
    <3>1. procs[s].job < lastjob'
      BY <1>2, <1>6, <2>2, NewJobAbove DEF KInv, JobInv
    <3> QED
      BY <1>1, <1>5, <1>6, <3>1
  <2> QED
    BY <2>1, <2>2
<1>7. \A s \in 1 .. Len(procs') : procs'[s].state # "free" => procs'[s].job <= lastjob'
  BY <1>1, <1>4, <1>6
<1>8. Open' => \A s \in 1 .. Len(procs') :
                 procs'[s].state # "free" /\ procs'[s].job = lastjob' => procs'[s].out
  BY <1>1, <1>4, <1>6 DEF Open
<1>9. ASSUME NEW s \in 1 .. Len(procs'), NEW t \in 1 .. Len(procs'),
             procs'[s].state # "free", procs'[t].state # "free",
             ~procs'[s].out, ~procs'[t].out, procs'[s].job = procs'[t].job
      PROVE  s = t
  <2>1. CASE s # cur' /\ t # cur'
    BY <1>4, <1>9, <2>1 DEF JobInv
  <2>2. CASE s = cur' /\ t # cur'
    BY <1>1, <1>4, <1>6, <1>9, <2>2
  <2>3. CASE s # cur' /\ t = cur'
    BY <1>1, <1>4, <1>6, <1>9, <2>3
  <2> QED
    BY <2>1, <2>2, <2>3
<1> QED
  BY <1>7, <1>8, <1>9 DEF JobInv

LEMMA JobStep ==
  ASSUME KInv, KshAssumption, JobInv, Allowed = {}, [Next]_vars
  PROVE  JobInv'
<1> USE DEF table, shell, steady, kernel
<1>0. cur \in 0 .. Len(procs) /\ (cur = 0 <=> pc \in {"ready", "exited"})
      /\ DOMAIN procs = 1 .. Len(procs)
  BY DEF KInv, Typed
<1>1. ASSUME procs' = procs, lastjob' = lastjob, Open' => Open
      PROVE  JobInv'
  <2>1. KeepsJobs
    BY <1>1 DEF KeepsJobs
  <2> QED
    BY <1>1, <2>1, KeptJobs
<1>2. CASE \E p \in Pids : Exit(p) \/ Stop(p) \/ Cont(p)
  BY <1>1, <1>2 DEF Exit, Stop, Cont, Open
<1>3. CASE fork \/ waitlast \/ Break \/ prompt \/ comsub_empty
  BY <1>1, <1>3 DEF fork, comsub_empty, waitlast, Break, prompt, Prompt, Open
<1>4. CASE killpg \/ killpg_error \/ j_change
  BY <1>1, <1>4 DEF killpg, killpg_error, j_change, Prompt, Open
<1>5. CASE exchild \/ exchild_piped
  <2>1. CASE exchild
    <3>1. PICK f \in {{}, {"bg"}, {"out"}, {"out", "bg"}, {"out", "xcom"}} : Allocate(f)
      BY <2>1 DEF exchild
    <3>2. "in" \notin f
      OBVIOUS
    <3> QED
      BY <3>1, <3>2, AllocateJobs
  <2>2. CASE exchild_piped
    <3>1. PICK u \in {{}, {"out"}} : Allocate((flags \ {"out"}) \cup {"in"} \cup u)
      BY <2>2 DEF exchild_piped
    <3>2. PICK f : f = (flags \ {"out"}) \cup {"in"} \cup u
      OBVIOUS
    <3>3. pc = "pipe"
      BY <2>2 DEF exchild_piped
    <3> QED
      BY <3>1, <3>2, <3>3, AllocateJobs
  <2> QED
    BY <1>5, <2>1, <2>2
<1>6. CASE fork_error
  <2>1. cur \in 1 .. Len(procs) /\ {cur} \in SUBSET (1 .. Len(procs))
    BY <1>0, <1>6 DEF fork_error
  <2>2. procs' = Freeing({cur}) /\ lastjob' = lastjob
    BY <1>6, <2>1, FreeingOne DEF KInv, fork_error
  <2>3. KeepsJobs
    BY <2>1, <2>2, FreeingKeepsJobs DEF KInv
  <2> QED
    BY <1>6, <2>2, <2>3, KeptJobs DEF fork_error, Prompt, Open
<1>7. CASE Registered
  <2>1. KeepsJobs
    BY <1>7, RegisteredKeepsJobs
  <2> QED
    BY <1>7, <2>1, KeptJobs DEF Registered, Open
<1>8. CASE Started
  <2>1. cur \in 1 .. Len(procs)
    BY <1>0, <1>8 DEF Started
  <2>2. KeepsJobs
    <3>1. CASE procs' = procs
      BY <3>1 DEF KeepsJobs
    <3>2. CASE procs' = [procs EXCEPT ![cur] = j_print(@)]
      BY <2>1, <3>2, PrintingKeepsJobs DEF KInv
    <3> QED
      BY <1>8, <3>1, <3>2 DEF Started
  <2>3. lastjob' = lastjob /\ (Open' => Open)
    BY <1>8 DEF Started, Open
  <2> QED
    BY <2>2, <2>3, KeptJobs
<1>9. CASE j_sigchld
  <2>1. KeepsJobs
    BY <1>9, ReportKeepsJobs DEF j_sigchld, KInv, Typed
  <2> QED
    BY <1>9, <2>1, KeptJobs DEF j_sigchld, Open
<1>10. CASE j_sigchld_wait
  <2>1. PICK p \in Pids : procs' = Reported({p})
    BY <1>10 DEF j_sigchld_wait
  <2>2. KeepsJobs
    BY <2>1, ReportKeepsJobs
  <2> QED
    BY <1>10, <2>2, KeptJobs DEF j_sigchld_wait, Open
<1>11. ASSUME NEW n \in BOOLEAN, pc # "ready", pc # "exited",
              procs' = [procs EXCEPT ![cur].notify = n]
       PROVE  KeepsJobs
  <2>1. cur \in 1 .. Len(procs)
    BY <1>0, <1>11
  <2>2. procs' = [procs EXCEPT ![cur] = Noticed(procs[cur], n)]
    BY <1>11, Zenon DEF Noticed
  <2>3. /\ Len(procs') = Len(procs)
        /\ \A t \in 1 .. Len(procs) :
             /\ procs'[t].job = procs[t].job /\ procs'[t].out = procs[t].out
             /\ procs'[t].state = procs[t].state
    BY <2>1, <2>2, NoticedTable DEF KInv
  <2> QED
    BY <2>3 DEF KeepsJobs
<1>12. CASE j_waitj
  <2>1. procs[cur].notify \in BOOLEAN /\ FALSE \in BOOLEAN
    <3>1. cur \in 1 .. Len(procs)
      BY <1>0, <1>12 DEF j_waitj
    <3>2. procs[cur] \in Proc
      BY <3>1, TypedFacts DEF KInv
    <3> QED
      BY <3>2 DEF Proc
  <2>2. PICK n \in BOOLEAN :
          procs' = IF procs[cur].state = "ended" THEN [procs EXCEPT ![cur].notify = n] ELSE procs
    BY <1>12, <2>1, Zenon DEF j_waitj
  <2>3. KeepsJobs
    <3>1. CASE procs' = procs
      BY <3>1 DEF KeepsJobs
    <3>2. CASE procs' = [procs EXCEPT ![cur].notify = n]
      BY <1>11, <1>12, <3>2 DEF j_waitj
    <3> QED
      BY <2>2, <3>1, <3>2
  <2>4. lastjob' = lastjob /\ pc' \in {"wait", "print"}
    BY <1>12 DEF j_waitj, Prompt
  <2> QED
    BY <2>3, <2>4, KeptJobs DEF Open
<1>13. CASE j_notify_clear
  <2>1. KeepsJobs
    BY <1>11, <1>13 DEF j_notify_clear
  <2> QED
    BY <1>13, <2>1, KeptJobs DEF j_notify_clear, Open
<1>14. CASE j_notify_print
  <2>1. KeepsJobs
    <3>0. cur \in 1 .. Len(procs)
      BY <1>0, <1>14 DEF j_notify_print
    <3>1. CASE procs' = procs
      BY <3>1 DEF KeepsJobs
    <3>2. CASE procs' = [procs EXCEPT ![cur] = j_print(@)]
      BY <3>0, <3>2, PrintingKeepsJobs DEF KInv
    <3> QED
      BY <1>14, <3>1, <3>2 DEF j_notify_print
  <2> QED
    BY <1>14, <2>1, KeptJobs DEF j_notify_print, Open
<1>15. CASE j_notify_free
  <2>1. cur \in 1 .. Len(procs) /\ {cur} \in SUBSET (1 .. Len(procs))
    BY <1>0, <1>15 DEF j_notify_free
  <2>2. KeepsJobs
    <3>1. CASE procs' = procs
      BY <3>1 DEF KeepsJobs
    <3>2. CASE procs' = [procs EXCEPT ![cur] = Freed(@)]
      BY <2>1, <3>2, FreeingOne, FreeingKeepsJobs DEF KInv
    <3> QED
      BY <1>15, <3>1, <3>2 DEF j_notify_free
  <2> QED
    BY <1>15, <2>2, KeptJobs DEF j_notify_free, Open
<1>16. CASE waitfor
  <2>1. PICK s \in DOMAIN procs :
          procs' = IF talking THEN [procs EXCEPT ![s] = j_print(@)] ELSE procs
    BY <1>16 DEF waitfor, Named
  <2>2. KeepsJobs
    <3>1. CASE procs' = procs
      BY <3>1 DEF KeepsJobs
    <3>2. CASE procs' = [procs EXCEPT ![s] = j_print(@)]
      BY <1>0, <2>1, <3>2, PrintingKeepsJobs DEF KInv
    <3> QED
      BY <2>1, <3>1, <3>2
  <2> QED
    BY <1>16, <2>2, KeptJobs DEF waitfor, Open
<1>17. CASE j_jobs
  <2>1. Ended \in SUBSET (1 .. Len(procs)) /\ procs' = Freeing(Ended)
    BY <1>17, PrintingAll DEF KInv, j_jobs, Ended
  <2>2. KeepsJobs
    BY <2>1, FreeingKeepsJobs DEF KInv
  <2> QED
    BY <1>17, <2>2, KeptJobs DEF j_jobs, Open
<1>18. CASE j_resume
  <2>1. PICK s \in Named : procs' = [procs EXCEPT ![s].state = "run"]
    BY <1>18 DEF j_resume
  <2>2. s \in 1 .. Len(procs) /\ procs[s].state # "free"
    BY <1>0, <2>1 DEF Named
  <2>3. procs' = [procs EXCEPT ![s] = InState(procs[s], "run")] /\ procs \in Seq(Proc)
    BY <2>1, Zenon DEF InState, KInv, Typed
  <2>4. PICK e : e = InState(procs[s], "run")
    OBVIOUS
  <2>5. KeepsJobs
    <3>1. e.job = procs[s].job /\ e.out = procs[s].out
      <4>1. procs[s] \in Proc
        BY <2>2, <2>3
      <4> QED
        BY <2>4, <4>1 DEF InState, Proc
    <3>2. procs' = [procs EXCEPT ![s] = e]
      BY <2>3, <2>4
    <3>3. /\ Len(procs') = Len(procs) /\ procs'[s] = e
          /\ \A t \in 1 .. Len(procs) : t # s => procs'[t] = procs[t]
      BY <2>2, <2>3, <3>2
    <3> QED
      BY <2>2, <3>1, <3>3 DEF KeepsJobs
  <2> QED
    BY <1>18, <2>5, KeptJobs DEF j_resume, Open
<1>19. CASE UNCHANGED vars
  BY <1>1, <1>19 DEF vars, Open
<1> QED
  BY <1>2, <1>3, <1>4, <1>5, <1>6, <1>7, <1>8, <1>9, <1>10, <1>12, <1>13, <1>14, <1>15,
     <1>16, <1>17, <1>18, <1>19 DEF Next

\* A job number means one job, also after jobs have ended and numbers have been given again:
\* of the entries in use only the last process of one job answers to a number, so j_search
\* is not ambiguous.
THEOREM JobsAreUnique == ASSUME Allowed = {} PROVE Spec => []JobUnique
<1>1. Init => JobInv
  BY DEF Init, JobInv, Open
<1>2. KInv /\ JobInv /\ [Next]_vars => JobInv'
  BY JobStep, KshAssumption
<1>3. KInv /\ JobInv => JobUnique
  <2> SUFFICES ASSUME KInv, JobInv PROVE JobUnique
    OBVIOUS
  <2>1. DOMAIN procs = 1 .. Len(procs)
    BY DEF KInv, Typed
  <2> QED
    BY <2>1 DEF JobInv, JobUnique
<1> QED
  BY <1>1, <1>2, <1>3, KInvariance, PTL DEF Spec

=============================================================================
