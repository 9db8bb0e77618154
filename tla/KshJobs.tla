------------------------------ MODULE KshJobs ------------------------------
(***************************************************************************)
(* Processes and jobs of pd-ksh (jobs.c): a table of processes that a      *)
(* SIGCHLD handler changes under the shell's feet when job control is on,  *)
(* and that the shell itself fills from wait() when it is off.             *)
(***************************************************************************)
EXTENDS Integers, Sequences, FiniteSetsExt

CONSTANTS
    Pids,           \* process ids the kernel has
    None,           \* no process
    MaxProcs,       \* bound on the length of the list procs
    MaxJob,         \* bound on job numbers, which go up as long as some job is left
    Allowed         \* what the shell is exposed to: see AllowedKinds

AllowedKinds ==
    { "fork",       \* SIGCHLD between fork and the assignment of j->proc
      "notify",     \* SIGCHLD in the middle of j_notify's work on an entry
      "resume",     \* fg and bg of a job that has ended and is not announced yet
      "print",      \* wait for such a job in an interactive shell
      "pipestop",   \* processes of pipelines and of $() that stop
      "pids",       \* ids reissued while an entry remembers them
      "monitor",    \* set -m and set +m while there are children
      "empty" }     \* a command substitution without a command

ASSUME KshAssumption ==
    /\ None \notin Pids
    /\ MaxProcs \in Nat /\ MaxJob \in Nat
    /\ Allowed \subseteq AllowedKinds

VARIABLES
    procs,          \* the list, its head being the last of the sequence
    lastjob,        \* j_lastjob
    monitor,        \* flag[FMONITOR]
    talking,        \* flag[FTALKING]
    lastj,          \* j_lastj, 0 for NULL
    pc, cur, flags, \* where the shell is, the entry it is at, and how it got there
    child,          \* what fork has returned
    kid, news,      \* children by state, and those the kernel has news of
    group,          \* the process group of each child
    chld            \* SIGCHLD is pending

table == <<procs, lastjob>>
shell == <<pc, cur, flags, child>>
steady == <<monitor, talking, lastj>>
kernel == <<kid, news, group, chld>>
vars == <<table, shell, steady, kernel>>

Entry(s) == procs[s]

\* What is read of an entry once its state is JFREE.
Freed(e) == [e EXCEPT !.state = "free", !.proc = None, !.pgrp = None, !.job = 0, !.out = FALSE]

\* j_print frees the entry of a process that has ended.
j_print(e) == IF e.state = "ended" THEN Freed(e) ELSE e

Init ==
    /\ procs = <<>> /\ lastjob = 0
    /\ monitor \in BOOLEAN /\ talking \in BOOLEAN /\ (monitor => talking)
    /\ lastj = 0
    /\ pc = "ready" /\ cur = 0 /\ flags = {} /\ child = None
    /\ kid = [p \in Pids |-> "none"] /\ news = {}
    /\ group = [p \in Pids |-> None] /\ chld = FALSE

-----------------------------------------------------------------------------
(* The kernel *)

Exit(p) ==
    /\ kid[p] \in {"run", "stopped"}
    /\ kid' = [kid EXCEPT ![p] = "dead"]
    /\ news' = news \cup {p}
    /\ chld' = monitor
    /\ UNCHANGED <<table, shell, steady, group>>

\* The process is one of several, or of a command substitution.
Piped(p) ==
    \/ pc \in {"forked", "started"} /\ p = child /\ flags \cap {"in", "out"} # {}
    \/ \E s \in DOMAIN procs : procs[s].proc = p /\ (procs[s].out \/ procs[s].prev # 0)

Stop(p) ==
    /\ monitor
    /\ kid[p] = "run"
    /\ "pipestop" \in Allowed \/ ~Piped(p)
    /\ kid' = [kid EXCEPT ![p] = "stopped"]
    /\ news' = news \cup {p}
    /\ chld' = TRUE
    /\ UNCHANGED <<table, shell, steady, group>>

\* Somebody else sends SIGCONT; the kernel has no news of that.
Cont(p) ==
    /\ kid[p] = "stopped"
    /\ kid' = [kid EXCEPT ![p] = "run"]
    /\ news' = news \ {p}
    /\ UNCHANGED <<table, shell, steady, group, chld>>

-----------------------------------------------------------------------------
(* j_sigchld *)

Last(S) == IF S = {} THEN 0 ELSE Max(S)

\* The entry that is found for process p.
EntryOf(p) == Last({s \in DOMAIN procs : procs[s].state # "free" /\ procs[s].proc = p})

\* A mutant: a process that stops counts as one that ends.
Reported_stopped(P) ==
    [s \in DOMAIN procs |->
        IF \E p \in P : EntryOf(p) = s THEN [procs[s] EXCEPT !.notify = TRUE, !.state = "ended"]
        ELSE procs[s]]

\* What waitpid tells of the processes in P.
Reported(P) ==
    [s \in DOMAIN procs |->
        IF \E p \in P : EntryOf(p) = s
        THEN [procs[s] EXCEPT !.notify = TRUE,
                 !.state = IF kid[procs[s].proc] = "stopped" THEN "stop" ELSE "ended"]
        ELSE procs[s]]

Dead(P) == {p \in P : kid[p] = "dead"}
Reap(P) ==
    /\ kid' = [p \in Pids |-> IF p \in Dead(P) THEN "none" ELSE kid[p]]
    /\ group' = [p \in Pids |-> IF p \in Dead(P) THEN None ELSE group[p]]

\* j_waitj blocks the signal and lets it in where it sleeps.
Unblocked ==
    CASE pc = "wait" -> procs[cur].state = "run"
      [] pc = "forked" -> "fork" \in Allowed
      [] pc \in {"free", "clear"} -> "notify" \in Allowed
      [] OTHER -> TRUE

\* A mutant: one waitpid for each signal.
j_sigchld_once ==
    /\ monitor /\ chld /\ Unblocked
    /\ \E p \in news : procs' = Reported({p}) /\ Reap({p}) /\ news' = news \ {p}
    /\ chld' = FALSE
    /\ UNCHANGED <<lastjob, shell, steady>>

\* As a signal handler it takes all the news there are.
j_sigchld ==
    /\ monitor /\ chld /\ Unblocked
    /\ procs' = Reported(news)
    /\ Reap(news)
    /\ news' = {}
    /\ chld' = FALSE
    /\ UNCHANGED <<lastjob, shell, steady>>

\* Called by j_waitj it waits for one process to end.
j_sigchld_wait ==
    /\ pc = "wait" /\ ~monitor
    /\ procs[cur].state = "run"
    /\ \E p \in Pids :
         /\ kid[p] = "dead"
         /\ procs' = Reported({p})
         /\ Reap({p})
         /\ news' = news \ {p}
    /\ UNCHANGED <<lastjob, shell, steady, chld>>

-----------------------------------------------------------------------------
(* exchild *)

\* Job numbers go up, and down again to one more than the highest in use.
j_newjob ==
    LET highest == Max({0} \cup {procs[s].job : s \in {t \in DOMAIN procs : procs[t].state # "free"}})
    IN  IF lastjob + 1 > highest THEN highest + 1 ELSE lastjob + 1

\* A mutant: the head of the list stands for j_lastj.
Allocate_head(f) ==
    LET free == Last({s \in DOMAIN procs : procs[s].state = "free"})
        j == IF free = 0 THEN Len(procs) + 1 ELSE free
        job == IF "in" \in f THEN lastjob ELSE j_newjob
        e == [state |-> "run", notify |-> free # 0 /\ procs[j].notify,
              prev |-> IF "in" \in f THEN Len(procs) ELSE 0, proc |-> None, pgrp |-> None,
              job |-> job, out |-> "out" \in f]
    IN  /\ j <= MaxProcs /\ job <= MaxJob
        /\ procs' = IF free = 0 THEN Append(procs, e) ELSE [procs EXCEPT ![j] = e]
        /\ lastjob' = job
        /\ pc' = "fork" /\ cur' = j /\ flags' = f
        /\ UNCHANGED <<child, steady, kernel>>

\* It takes the first free entry of the list, or puts a new one at the head.
Allocate(f) ==
    LET free == Last({s \in DOMAIN procs : procs[s].state = "free"})
        j == IF free = 0 THEN Len(procs) + 1 ELSE free
        job == IF "in" \in f THEN lastjob ELSE j_newjob
        e == [state |-> "run", notify |-> free # 0 /\ procs[j].notify,
              prev |-> IF "in" \in f THEN cur ELSE 0, proc |-> None, pgrp |-> None,
              job |-> job, out |-> "out" \in f]
    IN  /\ j <= MaxProcs /\ job <= MaxJob
        /\ procs' = IF free = 0 THEN Append(procs, e) ELSE [procs EXCEPT ![j] = e]
        /\ lastjob' = job
        /\ pc' = "fork" /\ cur' = j /\ flags' = f
        /\ UNCHANGED <<child, steady, kernel>>

\* Commands, asynchronous ones, pipelines (with & too, though it then waits), and
\* command substitution, whose pipelines the shell runs itself.
exchild ==
    /\ pc = "ready"
    /\ \E f \in {{}, {"bg"}, {"out"}, {"out", "bg"}, {"out", "xcom"}} : Allocate(f)

exchild_piped ==
    /\ pc = "pipe"
    /\ \E o \in {{}, {"out"}} : Allocate((flags \ {"out"}) \cup {"in"} \cup o)

\* A command substitution without a command: execute(NULL) starts nothing.
comsub_empty ==
    /\ pc = "ready"
    /\ "empty" \in Allowed \/ (lastj # 0 /\ procs[lastj].state = "free" /\ procs[lastj].prev = 0)
    /\ IF lastj = 0 THEN pc' = "exited" /\ UNCHANGED <<cur, flags>>      \* a null pointer
       ELSE pc' = "reading" /\ cur' = lastj /\ flags' = {"again"}
    /\ UNCHANGED <<table, child, steady, kernel>>

\* j_notify starts at the head of the list; f is what is remembered meanwhile.
Prompt(f) == pc' = "print" /\ cur' = Len(procs) /\ flags' = f

\* errorf; a shell that is not interactive exits.
fork_error ==
    /\ pc = "fork"
    /\ procs' = [procs EXCEPT ![cur] = Freed(@)]
    /\ IF talking THEN Prompt({}) ELSE pc' = "exited" /\ cur' = 0 /\ flags' = {}
    /\ UNCHANGED <<lastjob, child, steady, kernel>>

fork ==
    /\ pc = "fork"
    /\ \E p \in Pids :
         /\ kid[p] = "none"
         /\ "pids" \in Allowed \/ \A s \in DOMAIN procs : procs[s].proc # p
         /\ child' = p
         /\ kid' = [kid EXCEPT ![p] = "run"]
    /\ pc' = "forked"
    /\ UNCHANGED <<table, cur, flags, steady, news, group, chld>>

\* j->proc and j->pgrp; the child calls setpgid too.
Registered ==
    LET pgrp == IF ~monitor \/ "xcom" \in flags THEN None
                ELSE IF "in" \in flags THEN procs[procs[cur].prev].pgrp
                ELSE child
    IN  /\ pc = "forked"
        /\ procs' = [procs EXCEPT ![cur] = [@ EXCEPT !.proc = child, !.pgrp = pgrp]]
        /\ group' = [group EXCEPT ![child] = pgrp]
        /\ lastj' = cur
        /\ pc' = "started"
        /\ UNCHANGED <<lastjob, cur, flags, child, monitor, talking, kid, news, chld>>

\* An asynchronous command is announced, a member of a pipeline has successors or
\* is waited for, and so is a simple command.  The output of a single command in $() is
\* read first; the processes of a pipeline there are waited for like any other's.
Started ==
    /\ pc = "started"
    /\ child' = None
    /\ procs' = IF "bg" \in flags /\ talking THEN [procs EXCEPT ![cur] = j_print(@)] ELSE procs
    /\ IF flags = {"bg"} THEN pc' = "ready" /\ cur' = 0 /\ flags' = {}
       ELSE /\ UNCHANGED cur
            /\ \/ "out" \in flags /\ pc' = "pipe" /\ UNCHANGED flags
               \/ flags = {"out", "xcom"} /\ pc' = "reading" /\ flags' = {}
               \/ "out" \notin flags /\ pc' = "wait" /\ flags' = flags \cap {"bg", "xcom"}
    /\ UNCHANGED <<lastjob, steady, kernel>>

\* The output of a command substitution has been read.
waitlast ==
    /\ pc = "reading"
    /\ pc' = "wait"
    /\ UNCHANGED <<table, cur, flags, child, steady, kernel>>

-----------------------------------------------------------------------------
(* j_waitj *)

\* A mutant: without the call of j_notify at the end.
j_waitj_quiet ==
    /\ pc = "wait"
    /\ procs[cur].state # "run"
    /\ \E n \in {FALSE, procs[cur].notify} :
         procs' = IF procs[cur].state = "ended" THEN [procs EXCEPT ![cur].notify = n] ELSE procs
    /\ IF procs[cur].prev # 0
       THEN cur' = procs[cur].prev /\ UNCHANGED <<pc, flags>>
       ELSE pc' = "ready" /\ cur' = 0 /\ flags' = {}
    /\ UNCHANGED <<lastjob, child, steady, kernel>>

\* The member of the pipeline at hand runs no more; some ends need no notice.
j_waitj ==
    /\ pc = "wait"
    /\ procs[cur].state # "run"
    /\ \E n \in {FALSE, procs[cur].notify} :
         procs' = IF procs[cur].state = "ended" THEN [procs EXCEPT ![cur].notify = n] ELSE procs
    /\ IF procs[cur].prev # 0
       THEN cur' = procs[cur].prev /\ UNCHANGED <<pc, flags>>
       ELSE Prompt(flags \cap {"xcom"})
    /\ UNCHANGED <<lastjob, child, steady, kernel>>

\* SIGINT, which the wait command heeds.
Break ==
    /\ pc = "wait" /\ "intr" \in flags
    /\ Prompt({})
    /\ UNCHANGED <<table, child, steady, kernel>>

-----------------------------------------------------------------------------
(* j_notify, at the end of j_waitj and before each prompt *)

prompt ==
    /\ pc = "ready" /\ procs # <<>>
    /\ Prompt({})
    /\ UNCHANGED <<table, child, steady, kernel>>

j_notify_print ==
    /\ pc = "print"
    /\ procs' = IF procs[cur].state # "free" /\ procs[cur].notify /\ talking
                THEN [procs EXCEPT ![cur] = j_print(@)]
                ELSE procs
    /\ pc' = "free"
    /\ UNCHANGED <<lastjob, cur, flags, child, steady, kernel>>

j_notify_free ==
    /\ pc = "free"
    /\ procs' = IF procs[cur].state = "ended" THEN [procs EXCEPT ![cur] = Freed(@)] ELSE procs
    /\ pc' = "clear"
    /\ UNCHANGED <<lastjob, cur, flags, child, steady, kernel>>

\* After a pipeline in $() its output is read, and j_lastj waited for a second time.
j_notify_clear ==
    /\ pc = "clear"
    /\ procs' = [procs EXCEPT ![cur].notify = FALSE]
    /\ CASE cur > 1 -> pc' = "print" /\ cur' = cur - 1 /\ UNCHANGED flags
         [] cur = 1 /\ "xcom" \in flags -> pc' = "reading" /\ cur' = lastj /\ flags' = {"again"}
         [] OTHER -> pc' = "ready" /\ cur' = 0 /\ UNCHANGED flags
    /\ UNCHANGED <<lastjob, child, steady, kernel>>

-----------------------------------------------------------------------------
(* Commands *)

\* The entries that are found for a job number.
Named == {s \in DOMAIN procs :
            /\ procs[s].state # "free" /\ ~procs[s].out
            /\ \A t \in DOMAIN procs :
                 (t > s /\ procs[t].state # "free" /\ ~procs[t].out) => procs[t].job # procs[s].job}

waitfor ==
    /\ pc = "ready"
    /\ \E s \in Named :
         /\ "print" \in Allowed \/ ~(talking /\ procs[s].state = "ended")
         /\ procs' = IF talking THEN [procs EXCEPT ![s] = j_print(@)] ELSE procs
         /\ cur' = s
    /\ pc' = "wait" /\ flags' = {"intr"}
    /\ UNCHANGED <<lastjob, child, steady, kernel>>

j_jobs ==
    /\ pc = "ready"
    /\ procs' = [s \in DOMAIN procs |-> j_print(procs[s])]
    /\ UNCHANGED <<lastjob, shell, steady, kernel>>

\* fg and bg
j_resume ==
    /\ pc = "ready" /\ monitor
    /\ \E s \in Named, f \in {{}, {"bg"}} :
         /\ procs[s].pgrp # None
         /\ "resume" \in Allowed \/ procs[s].state # "ended"
         /\ procs' = [procs EXCEPT ![s].state = "run"]
         /\ cur' = s /\ flags' = f
    /\ pc' = "resume"
    /\ UNCHANGED <<lastjob, child, steady, kernel>>

Members == {p \in Pids : kid[p] # "none" /\ group[p] = procs[cur].pgrp}

killpg ==
    /\ pc = "resume"
    /\ Members # {}
    /\ kid' = [p \in Pids |-> IF p \in Members /\ kid[p] = "stopped" THEN "run" ELSE kid[p]]
    /\ news' = {p \in news : ~(p \in Members /\ kid[p] = "stopped")}
    /\ IF "bg" \in flags THEN pc' = "ready" /\ cur' = 0 ELSE pc' = "wait" /\ UNCHANGED cur
    /\ flags' = {}
    /\ UNCHANGED <<table, child, steady, group, chld>>

killpg_error ==
    /\ pc = "resume"
    /\ Members = {}
    /\ Prompt({})
    /\ UNCHANGED <<table, child, steady, kernel>>

\* set -m and set +m.  A SIGCHLD that nobody handled is gone.
j_change ==
    /\ pc = "ready" /\ talking
    /\ "monitor" \in Allowed \/ \A p \in Pids : kid[p] = "none"
    /\ monitor' = ~monitor
    /\ chld' = FALSE
    /\ UNCHANGED <<table, shell, talking, lastj, kid, news, group>>

Next ==
    \/ exchild \/ exchild_piped \/ comsub_empty \/ fork \/ fork_error \/ Registered \/ Started
    \/ waitlast \/ j_waitj \/ j_sigchld_wait \/ Break
    \/ prompt \/ j_notify_print \/ j_notify_free \/ j_notify_clear
    \/ waitfor \/ j_jobs \/ j_resume \/ killpg \/ killpg_error \/ j_change
    \/ j_sigchld
    \/ \E p \in Pids : Exit(p) \/ Stop(p) \/ Cont(p)

Spec == Init /\ [][Next]_vars

-----------------------------------------------------------------------------
(* Properties *)

TypeOK ==
    /\ procs \in Seq([state : {"free", "run", "stop", "ended"}, notify : BOOLEAN,
                      prev : 0 .. MaxProcs, proc : Pids \cup {None}, pgrp : Pids \cup {None},
                      job : Nat, out : BOOLEAN])
    /\ lastjob \in Nat
    /\ pc \in {"ready", "fork", "forked", "started", "pipe", "reading", "wait",
               "print", "free", "clear", "resume", "exited"}
    /\ cur \in 0 .. Len(procs) /\ (cur = 0 <=> pc \in {"ready", "exited"})
    /\ child \in Pids \cup {None}
    /\ kid \in [Pids -> {"none", "run", "stopped", "dead"}]
    /\ news \subseteq Pids

\* The table says of a process that it runs only while the kernel has it running or
\* has news of it, and a SIGCHLD underway under job control: whatever j_sigchld took
\* and whenever it came, nothing is lost, and j_waitj does not sleep forever.
RunsOrNews ==
    \A s \in DOMAIN procs :
        /\ procs[s].state = "run" /\ procs[s].proc # None
        /\ ~(pc = "resume" /\ s = cur)                 \* SIGCONT is yet to be sent
        => LET p == procs[s].proc IN kid[p] = "run" \/ (p \in news /\ (monitor => chld))

\* What the table calls ended the kernel has forgotten; what it calls stopped is there.
EndedIsGone ==
    \A s \in DOMAIN procs :
        /\ procs[s].state = "ended" => kid[procs[s].proc] = "none"
        /\ procs[s].state = "stop" => kid[procs[s].proc] # "none"

\* A job number means one job, also after jobs have ended and numbers have been
\* given again: j_search is not ambiguous.
JobUnique ==
    \A s, t \in DOMAIN procs :
        /\ procs[s].state # "free" /\ procs[t].state # "free"
        /\ ~procs[s].out /\ ~procs[t].out
        /\ procs[s].job = procs[t].job
        => s = t

\* j_waitj looks at processes of the job it waits for, none of which has been freed, if
\* the shell does not wait for it twice, as it does for a pipeline in $(): then nobody
\* else has its entries yet, and there is nothing to wait for.  Only a pipeline with &
\* is announced, and perhaps freed, before it is waited for (jobs.c:264-283).
WaitsForItsOwn ==
    pc = "wait" =>
        /\ IF "again" \in flags THEN procs[cur].state # "run"
           ELSE "bg" \notin flags => procs[cur].state # "free"
        /\ (procs[cur].prev # 0 /\ "again" \notin flags) =>
             /\ procs[procs[cur].prev].state # "free" \/ "bg" \in flags
             /\ procs[procs[cur].prev].job = procs[cur].job \/ procs[cur].state = "free"

\* "wait for all members of pipeline" (jobs.c:300): the walk from a process to the one
\* before it in the pipeline leads on.
WalkLeadsOn ==
    pc = "wait" => procs[cur].prev # cur

\* An interactive shell announces the end of every process it has not waited for
\* before it frees the entry.
Announced ==
    /\ pc = "ready" => \A s \in DOMAIN procs : procs[s].state = "ended" => procs[s].notify
    /\ pc = "free" /\ talking /\ procs[cur].state = "ended" => ~procs[cur].notify
=============================================================================
