------------------------------ MODULE AshJobs ------------------------------
(***************************************************************************)
(* The job table of ash (jobs.c): how the shell creates children, learns   *)
(* of their exits and stops through wait3, and forgets about them.         *)
(*                                                                         *)
(* One shell process runs commands (fork a pipeline in the foreground, the *)
(* background or for a command substitution; wait; jobs; fg; bg) while the *)
(* kernel lets its children exit, stop and continue at any moment.  A      *)
(* keyboard interrupt may abandon a command wherever the code has not put  *)
(* INTOFF around it.                                                       *)
(***************************************************************************)
EXTENDS Integers, Sequences, FiniteSets

CONSTANTS
  Pids,          \* process ids the kernel may hand out
  NoPid,         \* no process id (-1 in the code)
  MaxJobs,       \* BOUND: largest size the job table may grow to
  JobChunk,      \* makejob enlarges the table by this much; 4 in the code
  MaxPipe,       \* BOUND: longest pipeline
  iflag,         \* interactive shell
  jobctl,        \* job control is on: jobs get process groups of their own
  SigintRaises,  \* SIGINT raises EXINT: interactive and no trap on SIGINT
  TtyLost,       \* TIOCSPGRP may fail: the terminal has gone
  TrapCommands,  \* a pending trap may run commands before the next prompt
  PidReuse       \* the kernel may reissue a pid the shell still remembers

ASSUME ConstantsAssumption ==
  /\ NoPid \notin Pids
  /\ MaxJobs \in Nat /\ JobChunk \in Nat \ {0} /\ MaxPipe \in Nat \ {0}
  /\ {iflag, jobctl, SigintRaises, TtyLost, TrapCommands, PidReuse} \subseteq BOOLEAN
  /\ SigintRaises => iflag

VARIABLES
  jobtab,      \* the job table; slots beyond njobs do not exist yet
  njobs,       \* size of the table
  curjob,      \* current job (the last one stopped in the foreground), or 0
  backgndpid,  \* $!
  kid,         \* the kernel's view of the shell's children
  pc,          \* what the shell is doing
  jp,          \* the job it is doing it to, or 0 (NULL)
  cmd,         \* the command being forked: forks left, mode, INTOFF held
  got          \* locals of dowait between wait3 and its return

vars == <<jobtab, njobs, curjob, backgndpid, kid, pc, jp, cmd, got>>

Slots == 1 .. MaxJobs
Modes == {"FG", "BG", "NOJOB"}

Proc == [pid : Pids, status : {"running", "stopped", "exited"}]

(* ps says where the processes are stored: in ps0 inside the table, in a   *)
(* block of their own, or ("stale") in a table that has been freed.        *)
Job == [used : BOOLEAN, state : {"running", "stopped", "done"},
        changed : BOOLEAN, ps : {"ps0", "heap", "stale"}, procs : Seq(Proc)]

(* told: this stop has been reported by wait3.  grp: process group leader, *)
(* NoPid for the shell's own group.                                        *)
Kid == [st : {"free", "run", "stopped", "zombie"}, told : BOOLEAN,
        grp : Pids \union {NoPid}]

Nothing == [stage |-> "none", pid |-> NoPid, status |-> "running", job |-> 0]
NoCmd   == [left |-> 0, mode |-> "FG", intoff |-> FALSE]
FreeKid == [st |-> "free", told |-> FALSE, grp |-> NoPid]

(* The fields of an unused slot are dead: makejob sets them all.           *)
Unused  == [used |-> FALSE, state |-> "running", changed |-> FALSE,
            ps |-> "ps0", procs |-> <<>>]

Init ==
  /\ jobtab = [j \in Slots |-> Unused] /\ njobs = 0
  /\ curjob = 0 /\ backgndpid = NoPid
  /\ kid = [p \in Pids |-> FreeKid]
  /\ pc = "ready" /\ jp = 0 /\ cmd = NoCmd /\ got = Nothing

----------------------------------------------------------------------------
(* The operations on the table.                                            *)

Used(j) == jobtab[j].used
InJob(p, procs) == \E i \in DOMAIN procs : procs[i].pid = p

freejob(tab, j) == [tab EXCEPT ![j] = Unused]
CurAfterFree(j) == IF curjob = j THEN 0 ELSE curjob

(* getjob with a process id: the first job whose last process has it.      *)
LastPid(j, p) == /\ Used(j) /\ jobtab[j].procs # <<>>
                 /\ jobtab[j].procs[Len(jobtab[j].procs)].pid = p
getjob_firstProc(p, j) == Used(j) /\ jobtab[j].procs[1].pid = p \* mutant
getjob(p, j) == LastPid(j, p) /\ \A k \in 1 .. j-1 : ~LastPid(k, p)

(* restartjob: SIGCONT goes to the group led by the first process.         *)
Restarted(procs) == [i \in DOMAIN procs |->
  IF procs[i].status = "stopped" THEN [procs[i] EXCEPT !.status = "running"]
                                 ELSE procs[i]]
Continued(k) == IF k.st = "stopped" THEN [k EXCEPT !.st = "run", !.told = FALSE]
                                    ELSE k
restartjob(j) ==
  LET procs == jobtab[j].procs
      stops == \E i \in DOMAIN procs : procs[i].status = "stopped"
  IN IF jobtab[j].state = "done" THEN UNCHANGED <<jobtab, kid>>
     ELSE /\ kid' = [p \in Pids |-> IF kid[p].grp = procs[1].pid
                                    THEN Continued(kid[p]) ELSE kid[p]]
          /\ jobtab' = [jobtab EXCEPT
               ![j].procs = Restarted(procs),
               ![j].state = IF stops THEN "running" ELSE jobtab[j].state]

(* dowait: record that p has status s in every used job, and settle the    *)
(* state of every job none of whose processes is running.                  *)
Settled_lastOnly(procs) == procs # <<>> => procs[Len(procs)].status # "running" \* mutant
Settled_stopIsRunning(procs) == \A i \in DOMAIN procs : procs[i].status = "exited" \* mutant
Settled(procs)  == \A i \in DOMAIN procs : procs[i].status # "running"
Finished(procs) == \A i \in DOMAIN procs : procs[i].status # "stopped"
Report_firstOnly(procs, p, s) == [i \in DOMAIN procs |->                \* mutant
  IF procs[i].pid = p /\ i = 1 THEN [procs[i] EXCEPT !.status = s] ELSE procs[i]]
Report(procs, p, s) == [i \in DOMAIN procs |->
  IF procs[i].pid = p THEN [procs[i] EXCEPT !.status = s] ELSE procs[i]]
NewState_neverStopped(procs, old) == IF ~Settled(procs) THEN old ELSE "done" \* mutant
NewState(procs, old) ==
  IF ~Settled(procs) THEN old
  ELSE IF Finished(procs) THEN "done" ELSE "stopped"
Recorded(job, p, s) ==
  LET procs == Report(job.procs, p, s)
  IN IF job.used
     THEN [job EXCEPT !.procs = procs, !.state = NewState(procs, job.state)]
     ELSE job
Matches(j, p) == Used(j) /\ InJob(p, jobtab[j].procs)
thisjob(t, p) == IF t = 0 THEN \A j \in Slots : ~Matches(j, p)
                 ELSE Matches(t, p) /\ \A j \in t+1 .. MaxJobs : ~Matches(j, p)

----------------------------------------------------------------------------
(* Creating processes.                                                     *)

FirstFree(j) == j <= njobs /\ ~Used(j) /\ \A k \in 1 .. j-1 : Used(k)

(* makejob: the lowest unused slot, or the first of JobChunk new ones.     *)
(* The table is copied by bcopy, so a ps that designated its own ps0 is    *)
(* left pointing into the table that has been freed.                       *)
TableFull == \A k \in 1 .. njobs : Used(k)
Moved(tab) == [j \in Slots |->
  IF tab[j].used /\ tab[j].ps = "ps0" THEN [tab[j] EXCEPT !.ps = "stale"] ELSE tab[j]]
NewJob(n) == [Unused EXCEPT !.used = TRUE, !.ps = IF n > 1 THEN "heap" ELSE "ps0"]

makejob(j, n) ==
  \/ /\ FirstFree(j)
     /\ jobtab' = [jobtab EXCEPT ![j] = NewJob(n)]
     /\ UNCHANGED njobs
  \/ /\ TableFull /\ j = njobs + 1 /\ njobs + JobChunk <= MaxJobs
     /\ jobtab' = [Moved(jobtab) EXCEPT ![j] = NewJob(n)]
     /\ njobs' = njobs + JobChunk

(* The kernel hands out p: not a child and not the leader of a group; and  *)
(* unless PidReuse, not a pid the shell still remembers.                   *)
Available(p) ==
  /\ kid[p].st = "free" /\ \A q \in Pids : kid[q].grp # p
  /\ \/ PidReuse
     \/ p # backgndpid /\ \A j \in Slots : Used(j) => ~InJob(p, jobtab[j].procs)

(* A command that needs n processes.  evalpipe and expbackq hold INTOFF    *)
(* from before makejob until the last fork; a simple command does not.     *)
StartCommand(j, n, mode) ==
  /\ pc = "ready" /\ (mode = "NOJOB" => n = 1)
  /\ Cardinality({p \in Pids : Available(p)}) >= n   \* BOUND: pids left
  /\ makejob(j, n)
  /\ pc' = "forking" /\ jp' = j
  /\ cmd' = [left |-> n, mode |-> mode, intoff |-> (n > 1 \/ mode = "NOJOB")]
  /\ UNCHANGED <<curjob, backgndpid, kid, got>>

(* forkshell, in the parent.  The child puts itself in the group of the    *)
(* first process of the job under job control, unless FORK_NOJOB.          *)
forkshell(p) ==
  LET procs == jobtab[jp].procs
      leader == IF procs = <<>> THEN p ELSE procs[1].pid
  IN /\ pc = "forking" /\ Available(p)
     /\ kid' = [kid EXCEPT ![p] = [st |-> "run", told |-> FALSE,
          grp |-> IF jobctl /\ cmd.mode # "NOJOB" THEN leader ELSE NoPid]]
     /\ jobtab' = [jobtab EXCEPT ![jp].procs =
          Append(procs, [pid |-> p, status |-> "running"])]
     /\ backgndpid' = IF cmd.mode = "BG" THEN p ELSE backgndpid
     /\ cmd' = [cmd EXCEPT !.left = cmd.left - 1]
     /\ pc' = IF cmd.left = 1 THEN "forked" ELSE "forking"
     /\ UNCHANGED <<njobs, curjob, jp, got>>

(* "Cannot fork", or "TIOCSPGRP failed" when waitforjob takes back the     *)
(* terminal: error abandons the command and leaves the job as it is.  (A   *)
(* shell that is not interactive exits, and the model says no more of      *)
(* it.)                                                                    *)
error ==
  /\ iflag
  /\ \/ pc = "forking"
     \/ /\ TtyLost /\ jobctl
        /\ pc = "waitforjob" /\ got = Nothing /\ jobtab[jp].state # "running"
  /\ pc' = "error" /\ jp' = 0 /\ cmd' = NoCmd
  /\ UNCHANGED <<jobtab, njobs, curjob, backgndpid, kid, got>>

(* All forked: wait for it in the foreground, or go on.                    *)
AfterFork ==
  /\ pc = "forked" /\ cmd' = NoCmd
  /\ IF cmd.mode = "BG" THEN pc' = "ready" /\ jp' = 0
                        ELSE pc' = "waitforjob" /\ UNCHANGED jp
  /\ UNCHANGED <<jobtab, njobs, curjob, backgndpid, kid, got>>

(* openhere: a long here document is written by a child with no job.       *)
openhere(p) ==
  /\ pc = "ready" /\ Available(p)
  /\ kid' = [kid EXCEPT ![p] = [st |-> "run", told |-> FALSE, grp |-> NoPid]]
  /\ UNCHANGED <<jobtab, njobs, curjob, backgndpid, pc, jp, cmd, got>>

----------------------------------------------------------------------------
(* dowait, in the three steps an interrupt can separate.                   *)

CanReport(p) == kid[p].st = "zombie" \/ (kid[p].st = "stopped" /\ ~kid[p].told)

Listing == {"jobs", "prompt"}     \* showjobs(0) and showjobs(1)
InWait  == \/ pc = "waitforjob" /\ jobtab[jp].state = "running"
           \/ pc = "wait" /\ IF jp # 0 THEN jobtab[jp].state = "running"
                ELSE \E j \in Slots : Used(j) /\ jobtab[j].state = "running"
           \/ pc \in Listing

wait3(p) ==
  /\ got = Nothing /\ InWait /\ CanReport(p)
  /\ kid' = [kid EXCEPT ![p] = IF kid[p].st = "zombie" THEN FreeKid
                               ELSE [kid[p] EXCEPT !.told = TRUE]]
  /\ got' = [Nothing EXCEPT !.stage = "reaped", !.pid = p,
               !.status = IF kid[p].st = "zombie" THEN "exited" ELSE "stopped"]
  /\ UNCHANGED <<jobtab, njobs, curjob, backgndpid, pc, jp, cmd>>

(* The loop over the table, under INTOFF; no current job once it is done.  *)
CurAfterDone_kept(tab) == curjob                                \* mutant
CurAfterDone(tab) ==
  IF \E j \in Slots : /\ curjob = j /\ jobtab[j].state # "done"
                      /\ tab[j].state = "done"
  THEN 0 ELSE curjob
dowait(t) ==
  /\ got.stage = "reaped" /\ thisjob(t, got.pid)
  /\ jobtab' = [j \in Slots |-> Recorded(jobtab[j], got.pid, got.status)]
  /\ curjob' = CurAfterDone(jobtab')
  /\ got' = [Nothing EXCEPT !.stage = "recorded", !.job = t]
  /\ UNCHANGED <<njobs, backgndpid, kid, pc, jp, cmd>>

(* After INTON: a job the shell is not waiting for is marked changed.      *)
WaitedFor_any(j) == pc = "waitforjob"                           \* mutant
WaitedFor(j) == pc = "waitforjob" /\ jp = j
MarkChanged ==
  /\ got.stage = "recorded" /\ got' = Nothing
  /\ jobtab' = IF iflag /\ got.job # 0 /\ ~WaitedFor(got.job)
               THEN [jobtab EXCEPT ![got.job].changed = TRUE] ELSE jobtab
  /\ UNCHANGED <<njobs, curjob, backgndpid, kid, pc, jp, cmd>>

----------------------------------------------------------------------------
(* Waiting and listing.                                                    *)

(* waitforjob returns: a stopped job becomes current, a done one is freed. *)
waitforjob ==
  /\ pc = "waitforjob" /\ got = Nothing /\ jobtab[jp].state # "running"
  /\ IF jobtab[jp].state = "done"
     THEN jobtab' = freejob(jobtab, jp) /\ curjob' = CurAfterFree(jp)
     ELSE curjob' = jp /\ UNCHANGED jobtab
  /\ pc' = "ready" /\ jp' = 0
  /\ UNCHANGED <<njobs, backgndpid, kid, cmd, got>>

(* wait [job]: with no job (j = 0) until no used job has state 0.          *)
waitcmd(j) ==
  /\ pc = "ready" /\ (j # 0 => Used(j))
  /\ pc' = "wait" /\ jp' = j
  /\ UNCHANGED <<jobtab, njobs, curjob, backgndpid, kid, cmd, got>>

WaitReturns ==
  /\ pc = "wait" /\ got = Nothing /\ ~InWait
  /\ IF jp # 0 /\ ~iflag
     THEN jobtab' = freejob(jobtab, jp) /\ curjob' = CurAfterFree(jp)
     ELSE UNCHANGED <<jobtab, curjob>>
  /\ pc' = "ready" /\ jp' = 0
  /\ UNCHANGED <<njobs, backgndpid, kid, cmd, got>>

(* The jobs command, and the prompt of an interactive shell.               *)
jobscmd ==
  /\ pc = "ready" /\ pc' = "jobs"
  /\ UNCHANGED <<jobtab, njobs, curjob, backgndpid, kid, jp, cmd, got>>

Prompt ==
  /\ pc \in {"ready", "error"} /\ iflag /\ pc' = "prompt"
  /\ UNCHANGED <<jobtab, njobs, curjob, backgndpid, kid, jp, cmd, got>>

(* showjobs once wait3 has nothing more to say: the jobs up to last are    *)
(* dealt with, which is all of them unless SIGINT cuts the listing short;  *)
(* the next one may then have been printed and not yet freed (halfway).    *)
Passed(job) == ~job.used \/ (pc = "prompt" /\ ~job.changed)
Printed(job) == [job EXCEPT !.changed = FALSE]
Listed_freesStopped(job) == IF job.procs = <<>> THEN Unused     \* mutant
               ELSE IF Passed(job) THEN job
               ELSE IF job.state # "running" THEN Unused ELSE Printed(job)
Listed(job) == IF job.procs = <<>> THEN Unused
               ELSE IF Passed(job) THEN job
               ELSE IF job.state = "done" THEN Unused ELSE Printed(job)

showjobs(last, halfway) ==
  /\ pc \in Listing /\ got = Nothing /\ \A p \in Pids : ~CanReport(p)
  /\ last < njobs => SigintRaises
  /\ halfway => last < njobs /\ ~Passed(jobtab[last + 1])
  /\ jobtab' = [j \in Slots |->
       IF j <= last THEN Listed(jobtab[j])
       ELSE IF halfway /\ j = last + 1 /\ jobtab[j].procs # <<>> THEN Printed(jobtab[j])
       ELSE jobtab[j]]
  /\ curjob' = IF \E j \in Slots : curjob = j /\ ~jobtab'[j].used THEN 0 ELSE curjob
  /\ pc' = IF last < njobs THEN "error" ELSE "ready"
  /\ UNCHANGED <<njobs, backgndpid, kid, jp, cmd, got>>

(* fg and bg, of a job made under job control.                             *)
Restartable(j) == pc = "ready" /\ jobctl /\ Used(j) /\ jobtab[j].procs # <<>>

fgcmd(j) ==
  /\ Restartable(j) /\ restartjob(j)
  /\ pc' = "waitforjob" /\ jp' = j
  /\ UNCHANGED <<njobs, curjob, backgndpid, cmd, got>>

bgcmd(j) ==
  /\ Restartable(j) /\ restartjob(j)
  /\ UNCHANGED <<njobs, curjob, backgndpid, pc, jp, cmd, got>>

----------------------------------------------------------------------------
(* SIGINT and traps.                                                       *)

(* onint raises EXINT wherever interrupts are not held: main's handler     *)
(* abandons the command and returns to the prompt.                         *)
onint ==
  /\ SigintRaises
  /\ \/ pc \in {"ready", "wait"} \union Listing
     \/ pc = "forking" /\ ~cmd.intoff
     \/ pc = "forked" /\ cmd.mode # "NOJOB"
  /\ pc' = "error" /\ jp' = 0 /\ cmd' = NoCmd /\ got' = Nothing
  /\ UNCHANGED <<jobtab, njobs, curjob, backgndpid, kid>>

(* cmdloop calls dotrap before showjobs: the action of a pending trap runs *)
(* commands while the abandoned command's job is still in the table.       *)
TrapAction ==
  /\ TrapCommands /\ pc = "error" /\ pc' = "ready"
  /\ UNCHANGED <<jobtab, njobs, curjob, backgndpid, kid, jp, cmd, got>>

----------------------------------------------------------------------------
(* The children, and whoever sends them signals.                           *)

Exit(p) ==
  /\ kid[p].st = "run" /\ kid' = [kid EXCEPT ![p].st = "zombie"]
  /\ UNCHANGED <<jobtab, njobs, curjob, backgndpid, pc, jp, cmd, got>>

Killed(p) ==
  /\ kid[p].st = "stopped" /\ kid' = [kid EXCEPT ![p].st = "zombie", ![p].told = FALSE]
  /\ UNCHANGED <<jobtab, njobs, curjob, backgndpid, pc, jp, cmd, got>>

Stop(p) ==
  /\ kid[p].st = "run" /\ kid' = [kid EXCEPT ![p].st = "stopped"]
  /\ UNCHANGED <<jobtab, njobs, curjob, backgndpid, pc, jp, cmd, got>>

Cont(p) ==
  /\ kid[p].st = "stopped" /\ kid' = [kid EXCEPT ![p] = Continued(kid[p])]
  /\ UNCHANGED <<jobtab, njobs, curjob, backgndpid, pc, jp, cmd, got>>

----------------------------------------------------------------------------
Create == \/ \E j \in Slots, n \in 1 .. MaxPipe, m \in Modes : StartCommand(j, n, m)
          \/ \E p \in Pids : forkshell(p) \/ openhere(p)
          \/ error \/ AfterFork

Reap == (\E p \in Pids : wait3(p)) \/ (\E t \in 0 .. MaxJobs : dowait(t)) \/ MarkChanged

Return == waitforjob \/ WaitReturns \/ showjobs(njobs, FALSE)

Command == \/ jobscmd \/ Prompt \/ TrapAction
           \/ \E j \in 0 .. MaxJobs : waitcmd(j)
           \/ \E j \in Slots : fgcmd(j) \/ bgcmd(j)

Signal == \/ onint
          \/ \E last \in 0 .. MaxJobs, halfway \in BOOLEAN :
               last < njobs /\ showjobs(last, halfway)

Children == \E p \in Pids : Exit(p) \/ Killed(p) \/ Stop(p) \/ Cont(p)

Next == Create \/ Reap \/ Return \/ Command \/ Signal \/ Children

Spec == Init /\ [][Next]_vars

(* The shell runs whenever it can, and a command that is let run ends: its *)
(* stops and continues may recur, hence strong fairness.                   *)
FairSpec ==
  /\ Spec /\ WF_vars(Reap \/ Return \/ AfterFork)
  /\ \A p \in Pids : SF_vars(Exit(p))

----------------------------------------------------------------------------
TypeOK ==
  /\ jobtab \in [Slots -> Job] /\ njobs \in 0 .. MaxJobs
  /\ curjob \in 0 .. MaxJobs /\ backgndpid \in Pids \union {NoPid}
  /\ kid \in [Pids -> Kid]
  /\ pc \in {"ready", "forking", "forked", "waitforjob", "wait", "error"} \union Listing
  /\ jp \in 0 .. MaxJobs
  /\ cmd \in [left : 0 .. MaxPipe, mode : Modes, intoff : BOOLEAN]
  /\ got \in [stage : {"none", "reaped", "recorded"}, pid : Pids \union {NoPid},
              status : {"running", "stopped", "exited"}, job : 0 .. MaxJobs]
  /\ \A j \in Slots : Used(j) => j <= njobs

----------------------------------------------------------------------------
(* Properties.                                                             *)

(* The state of a job is what the statuses of its processes say it is:     *)
(* done when all have exited, stopped when none runs and some are stopped. *)
(* dowait, restartjob, makejob and forkshell must agree on it, also for    *)
(* jobs whose creation was abandoned half way.                             *)
JobState(procs) ==
  IF ~Settled(procs) THEN "running" ELSE IF Finished(procs) THEN "done" ELSE "stopped"
StateAgrees ==
  \A j \in Slots : Used(j) /\ jobtab[j].procs # <<>> =>
                     jobtab[j].state = JobState(jobtab[j].procs)

(* wait3 will still report something about p, or has just done so.         *)
Outstanding(p) == \/ kid[p].st \in {"run", "zombie"}
                  \/ kid[p].st = "stopped" /\ ~kid[p].told
                  \/ got.stage = "reaped" /\ got.pid = p

(* No status is lost: a process the table shows as running is one whose    *)
(* end or stop the kernel has yet to report.  (Except a stopped command    *)
(* substitution under job control, which restartjob's killpg misses.)      *)
Missed(p) == jobctl /\ kid[p].st = "stopped" /\ kid[p].grp = NoPid
NoLostStatus ==
  \A j \in Slots : Used(j) => \A i \in DOMAIN jobtab[j].procs :
     jobtab[j].procs[i].status = "running" =>
        Outstanding(jobtab[j].procs[i].pid) \/ Missed(jobtab[j].procs[i].pid)

(* waitforjob and wait never loop on a job that no child of the shell can  *)
(* finish: each job they still wait for has a process wait3 will report.   *)
Awaited == IF jp # 0 THEN {jp} ELSE {j \in Slots : Used(j)}
WaitHasChild ==
  pc \in {"waitforjob", "wait"} =>
    \A j \in Awaited : jobtab[j].state = "running" =>
      \E i \in DOMAIN jobtab[j].procs :
         /\ jobtab[j].procs[i].status = "running"
         /\ Outstanding(jobtab[j].procs[i].pid)

(* A done job has no process left: none of its pids is a child any more.   *)
DoneIsDead ==
  \A j \in Slots : Used(j) /\ jobtab[j].state = "done" =>
    \A i \in DOMAIN jobtab[j].procs : kid[jobtab[j].procs[i].pid].st = "free"

(* The user hears of every job: one that is done or was stopped while the  *)
(* shell was not waiting for it is marked changed until it has been listed,*)
(* so a done job always leaves the table at the next prompt.               *)
DoneIsAnnounced ==
  iflag => \A j \in Slots :
    Used(j) /\ jobtab[j].state = "done" /\ jobtab[j].procs # <<>> =>
      \/ jobtab[j].changed
      \/ WaitedFor(j)
      \/ got.stage = "recorded" /\ got.job = j

(* The current job can be continued: it is in use and not done.            *)
CurrentJobAlive ==
  curjob # 0 => Used(curjob) /\ jobtab[curjob].state # "done"

(* Only a failed command leaves a job without processes behind, and no     *)
(* later command meets it: showjobs frees it before the next prompt.       *)
NoEmptyJob ==
  pc \in {"ready", "waitforjob", "wait", "jobs"} =>
    \A j \in Slots : Used(j) => jobtab[j].procs # <<>>

(* wait $! waits for the last background command: the pid leads getjob to  *)
(* the job that is running it.                                             *)
WaitBackground ==
  \A j \in Slots :
    /\ Used(j) /\ jobtab[j].state = "running"
    /\ InJob(backgndpid, jobtab[j].procs)
    => getjob(backgndpid, j)

(* A job's processes live where the job says: in ps0 of its own table slot *)
(* or in a block it owns.                                                  *)
PsInTable == \A j \in Slots : Used(j) => jobtab[j].ps # "stale"

(* A done job stays done, with the statuses it has, until it is freed.     *)
DoneIsFinal ==
  [][\A j \in Slots :
       Used(j) /\ jobtab[j].state = "done" /\ jobtab[j].procs # <<>> =>
         \/ ~jobtab'[j].used
         \/ /\ jobtab'[j].state = "done"
            /\ jobtab'[j].procs = jobtab[j].procs]_vars

(* The shell forgets a job only when none of its processes is alive.       *)
FreedWhenDead ==
  [][\A j \in Slots : Used(j) /\ ~jobtab'[j].used =>
       \A i \in DOMAIN jobtab[j].procs :
          kid[jobtab[j].procs[i].pid].st = "free"]_vars

(* Every wait ends when the commands it waits for do.                      *)
WaitforjobEnds == pc = "waitforjob" ~> pc # "waitforjob"
WaitEnds == pc = "wait" ~> pc # "wait"
=============================================================================
