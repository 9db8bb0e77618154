# A verification project for the shells and tools of this repository

The repository collects shells, shell tools and a little Java for the web. Its
largest piece of program logic with state, concurrency and failure is **ash**
(`src/Other Scripts/ash`, Kenneth Almquist's shell, about 11,000 lines of C):
signals interrupt it between any two instructions, its children run beside it,
exceptions are `longjmp`s, and most of its state is global. Most of this project
is about ash: seven of its components have a model. Three other programs have one
for the part of them where state is hardest to keep right: the job table of
**pd-ksh** (`src/Other Scripts/pd-ksh/ksh`), the tools **delete, undelete and
expunge** (`src/Shell Scripts/delete/delete`), and the cells of the spreadsheet
**sc** (`src/Shell Scripts/sc/sc`). File names without a directory are those of ash
in sections about ash, and of the program a section is about elsewhere.

Contents: 1 the systems, 2 the modules, 3 the runs, 4 fairness, 5 the proofs,
6 disagreements between code and documents, 7 what is not modelled, 8 the plan.

## 1. The systems

### 1.1 Components of ash

| component | state | operations | modelled by |
| --- | --- | --- | --- |
| job table (`jobs.c`, `jobs.h`) | `jobtab`, `njobs`, `curjob`, `backgndpid`; the kernel's children | `makejob`, `forkshell`, `waitforjob`, `dowait`, `wait`, `jobs`/`showjobs`, `fg`, `bg`, `getjob`, `freejob` | AshJobs |
| signals and traps (`trap.c`) | `trap[]`, `sigmode[]`, `gotsig[]`, `sigpending`, `is_interactive` | `trap`, `setsignal`, `ignoresig`, `onsig`, `dotrap`, `clear_traps`, `setinteractive`, `exitshell` | AshTraps |
| interrupts and exceptions (`error.c`, `error.h`) | `suppressint`, `intpending`, `handler`, `exception` | `INTOFF`, `INTON`, `FORCEINTON`, `onint`, `raise`, `error`, and each function with a `setjmp` | AshInterrupts |
| redirection (`redir.c`) | the process's descriptors, `redirlist` | `redirect`, `openredirect`, `popredir`, `clearredir`, RESET | AshRedir, Redirections |
| command search (`exec.c`) | the hash table, `rehash` bits, `builtinloc` | `find_command`, `hashcd`, `changepath`, `clearcmdentry`, `defun`, `unsetfunc`, `hash`, `shellexec` | AshExec, PathSearch, CommandSearch |
| variables (`var.c`) | the table, texts in allocated memory, `localvars` | `setvareq`, `mklocal`, `poplocalvars`, `export`, `readonly`, `unset`, `shprocvar` | AshVars, Scopes |
| evaluation (`eval.c`) | `evalskip`, `skipcount`, `loopnest`, `funcnest`, `exitstatus`, `handler` | `evaltree` and the functions for each kind of node, `evalcommand`, `evalbackcmd`, `eval`, `.`, `break`, `continue`, `return`, `exec` | AshEval, Control; its frames in AshInterrupts, its redirections in AshRedir, its forks in AshJobs, its functions' variables in AshVars |
| input (`input.c`) | `parsefile` and its string stack | `setinputfile`, `setinputstring`, `popfile`, `popallfiles`, `closescript`, `pushstring` | AshEval, for the stack of files |
| main loop (`main.c`) | `state`, `rootpid`, `rootshell` | `main` with its handler, `cmdloop`, `exit` | the handler in AshInterrupts, AshRedir and AshEval, `cmdloop` in AshEval, its calls in AshJobs and AshTraps |
| options (`options.c`) | option letters, positional parameters | `set`, `shift`, `getopts` | AshTraps for `-i` and `-j`, AshVars for local options and parameters, AshEval for `-e` |
| current directory (`cd.c`) | `curdir` | `cd`, `pwd` | AshExec, for what `cd` does to the hash table |
| stack allocation (`memalloc.c`) | `stackp`, `stacknxt`, `stacknleft`, the marks | `stalloc`, `setstackmark`, `popstackmark`, `growstackblock`, `stunalloc` | planned |
| the debugging allocator (`mymalloc.c`) | a heap of blocks with sizes | `malloc`, `free`, `realloc` | planned |
| mail, read, umask, test, expr, echo | a few variables each | builtins | not modelled |
| lexer, parser, expansion, output | text | | not modelled |
| generators (`mkinit.c`, `mknodes.c`, `mksyntax.c`, `mksignames.c`) | none at run time | they write C at build time | not modelled |

### 1.2 How they interact

* `cmdloop` alternates `dotrap` (if `sigpending`), `showjobs(1)` at the prompt of
  an interactive shell, parsing, and `evaltree`.
* `evalcommand` expands words, finds the command (`find_command`), makes a job
  (`makejob`), forks (`forkshell`, which in the child clears traps and resets
  handlers), waits (`waitforjob`, `dowait`), and redirects (`redirect`,
  `popredir`) around functions and builtins. A function's local variables are
  restored by `poplocalvars` when it returns or an exception goes through it.
* `setvareq` of PATH calls `changepath`, `cd` calls `hashcd`: both invalidate the
  table `find_command` trusts. `poplocalvars` and `shprocvar` call neither.
* `break`, `continue` and `return` set `evalskip`; every loop in `eval.c`, `main.c`
  and `trap.c` that evaluates commands must look at it.
* `eval`, `.`, traps and files of functions push a text to read on the stack of
  `input.c` and pop it when it has ended; an exception pops what it abandons.
* The kernel calls `onsig`; for an untrapped SIGINT that is `onint`, which
  raises EXINT at once unless `suppressint` is not 0, and otherwise leaves
  `intpending` for the `INTON` that brings it to 0.
* `raise` jumps to `handler`; `evalcommand` puts its own there around functions
  and builtins; main's runs `reset()` (generated from the RESET sections of all
  files: `popredir` for every frame, `popallfiles`, `evalskip`, `loopnest`, ...)
  and `FORCEINTON`.
* `set -i` and `set -j` call `setinteractive` and `setjobctl`, which call
  `setsignal`; `trap` calls it too; so do forks and shell procedures.

### 1.3 The other programs

| program | state | operations | modelled by |
| --- | --- | --- | --- |
| pd-ksh, jobs (`jobs.c`) | the list `procs`, `j_lastj`, `j_lastjob`, `sm_default`; the kernel's children | `exchild`, `waitlast`, `j_waitj`, `comsub`, the SIGCHLD handler `j_sigchld`, `waitfor`, `fg`/`bg` (`j_resume`), `j_jobs`, `j_notify`, `j_change` | KshJobs |
| delete, undelete, expunge | the names in the file system; the tree of directories and leaves (`directories.c`) | delete (also `-r`, `-F`, `-D`), undelete (`-r`, `-c`, `-f`), expunge (`-t`, ...), system call by system call | Deletion |
| sc, cells (`cmds.c`, `sc.c`, `interp.c`, `range.c`) | `tbl`, the ents it points to, `freeents`, `to_fix`, named ranges | every command that edits, copies, moves, locks, deletes or pulls cells, `sync_refs` | Sheet |

`es-0.84` and `es-0.9-alpha1` (a functional shell with a copying collector),
`pcal`, `ipl`, `index`, `jot`, `vis`, `qterm`, `stat`, `grabchars`, `bsdtar`
(single-pass tools), shell archives, and Java beans and pages under
`src/mhealth` and `src/web` have no model; `PROJECT.json` lists each with the
reason.

### 1.4 What is hard, and what makes each component correct

* **Job table.** A child's exit, stop or continuation, SIGINT and pid reuse
  interleave with loops over a table that moves. Correct when no status that
  `wait3` reports is lost, each job's state is what its processes' statuses
  say, a done job is dead, stays done and is announced, a job is only freed
  when dead, the current job can be continued, and every wait ends.
* **Traps.** Handlers depend on traps, two flags and `rootshell`; the kernel's
  view, `sigmode` and the wanted mode must agree whatever changed last, with a
  signal between any two steps. A received signal's trap must run.
* **Interrupts.** Counting must survive `longjmp`: whoever catches resets it,
  nobody else's section may be cut, no interrupt may be forgotten, and no
  exception may jump into a function that has returned.
* **Redirection.** Whatever fails or interrupts in whatever command of a nest,
  each descriptor gets back what it had, from a copy that is still open, and no
  copy stays behind or reaches a program.
* **Command search.** The table is a cache over PATH, the directory and the
  functions. Correct when an entry that is used is what a search would find now.
* **Variables.** A variable and its saved copies share texts and decide by flags
  who frees them. Correct when each text is freed once, after its last use, and
  commands see dynamic scoping.
* **Evaluation.** Leaving a loop or a function is a matter of many functions each
  testing a flag in time; the counts that clamp `break` and enable `return`, and
  the stack of texts being read, must survive exceptions and forks.
* **pd-ksh's jobs.** A signal handler changes the list the shell walks. Correct when
  no status is lost, `j_waitj` looks at processes of its own job, and every end is
  announced.
* **Deletion.** The only record is a mark in names, and each tool finds paths first
  and works through them later, one system call at a time. Correct when marked
  directories hold only marked files, paths keep up with renamed directories, and
  nothing is destroyed that was not to be.
* **Cells.** Formulas point to cells, and cells move and are freed. Correct when no
  reference is left to a freed cell, references go with what they refer to, and
  locked cells stay as they are.

The hazards, each at its line and with the properties that watch it, are in
`PROJECT.json`.

## 2. The modules

Each `MC...` module instantiates its component for TLC, each `...Proofs` module holds what is
proved about it (section 5). In each component's
module an operator marked as a mutant is a plausible wrong version of its
neighbour; nothing uses it. Where the code has a defect that breaks a property, a
constant lets the behaviour in or keeps it out: a Boolean of its own, or an
element of the set `Allowed` with what each element means listed above it. The
runs leave it out, so that what they show holds besides the defect, and
section 6 says which property fails with it.

### 2.1 AshJobs

One shell process and its children. `jobtab`, `njobs`, `curjob` and `backgndpid`
are the C globals (a job is named by its index; 0 is `NULL`). `kid` is the
kernel's record of the children: `free`, `run`, `stopped` (and whether `wait3`
has told it), `zombie`, and the process group. `pc`, `jp`, `cmd` and `got` are
the shell's control state: what it is doing, to which job, how many forks of
the command are left, and the locals of `dowait`.

| action | code |
| --- | --- |
| `StartCommand`, `makejob` | `evalpipe`, `evalsubshell`, `evalcommand`, `expbackq` up to `makejob` (`jobs.c:406`), which may enlarge the table |
| `forkshell`, `AfterFork`, `openhere` | `forkshell` in the parent, what follows the last fork, and the process that writes a here document |
| `error` | a fork that fails, or `TIOCSPGRP` failing when `waitforjob` takes back the terminal |
| `wait3`, `dowait`, `MarkChanged` | `dowait` cut where an interrupt can cut it: after the system call, after the loop over the table, after `changed` |
| `waitforjob`, `waitcmd`, `WaitReturns`, `jobscmd`, `Prompt`, `showjobs`, `fgcmd`, `bgcmd` | the commands and the prompt |
| `onint`, `TrapAction` | SIGINT wherever it is not held, and `dotrap` before the prompt |
| `Exit`, `Killed`, `Stop`, `Cont` | the children and whoever signals them |

Decisions worth knowing:

* An exit status is only "exited": no property tells one from another.
* `jobctl` is a constant of a run, so `job.jobctl` is `jobctl` and is not a field.
* `fg` and `bg` of a job they reject change nothing and are not actions.
* An error in a non-interactive shell ends it; the model stops there.
* `TtyLost` lets `TIOCSPGRP` fail, under job control, since the terminal has gone.
* The fields of a slot that is not used are kept at one value, since `makejob`
  sets them all before they are read.
* `JobChunk` is 4 in the code. The runs take `MaxJobs`, so that the table does not
  grow; with less it does (section 6).
* `Available` hands out pids the table does not remember unless `PidReuse`.

### 2.2 AshTraps

One process; at `forkshell` the child is followed, at `ShellProc` it becomes a
shell of its own. `trap`, `sigmode`, `gotsig`, `sigpending`, `intpending` and the
flags are the C variables; `disp` is the kernel's disposition and `entry` the
signals ignored when the shell began. `todo` is what a command still has to do about
handlers, a sequence of loops `[op, sigs]`, each over the signals it has yet to come to:
`setinteractive`, `setjobctl`, `clear_traps` and the
child's part of `forkshell` are loops over `setsignal` or `ignoresig`, in the order of the signals' numbers
(`Current`, `Remaining`), and a signal can arrive
between two of their steps, also between `signal(SIG_IGN)`, by which `setsignal` learns a
disposition, and what follows. `Background` are the signals a child in the background ignores
(SIGINT and SIGQUIT). `execcmd` gives up the flags and their handlers (`pc = "exec"`), after which the
shell is replaced (`shellexec`), executes a shell procedure, or exits because nothing was found. `nojob` is a history
variable: this process comes from a command substitution of a shell with job control,
which keeps ignoring SIGTSTP. `dots` are the trap actions being evaluated,
innermost last; `dotrap` runs an action as ordinary commands and starts its scan
over. `MaxSent` and `MaxNest` bound signals and nesting.

### 2.3 AshInterrupts

The C stack reduced to frames that matter: `INTOFF` sections, those of
`expbackq` (before and after its command has run) and `waitforjob`, and the
functions with a `setjmp`. `handler` is an index into it, 0 for main's. SIGINT and
errors may come at every step. `error` forgets a held SIGINT
(`CLEAR_PENDING_INT`) and counts one more `INTOFF`; whoever catches resets the
count. `MaxDepth` bounds the stack. Its `IntVars`, `IntInit`, `IntNext`, `IntSpec`
and `IntTypeOK` have names of their own, and `intpending` is declared in AshSignals, which
AshTraps extends too, so that one module can hold the theorems about both.

### 2.4 AshRedir and Redirections

`Redirections` states the promise: a command's redirections take effect, and
when it completes or is abandoned each descriptor leads where it led before;
what `exec` redirects lasts; an executed program discards everything.

`AshRedir` is `redir.c` with its callers: `fds` is the process's descriptor
table, each frame of `redirlist` has `renamed[]` with `EMPTY` (-2), `CLOSED`
(-1) or the descriptor that holds the copy. `save` is the loop body of `redirect` up to
its `INTON`, `openredirect_*` the body of `openredirect` (one `INTOFF` section),
and `popredir` is three steps for each descriptor because nothing holds interrupts
there. `memory` is the array of that name: output of a builtin in backquotes
that goes to `memout`. `reset` is main's handler unwinding every frame.
The model covers the root shell, interactive, and the child that executes a
program. The refinement mapping (`R`, at the end of the module) counts a frame
`popredir` has begun on as restored, reading `renamed[]` for the descriptors it has
not come to.

Decisions: `open` and `pipe` return a descriptor not above the one just
closed, so `movefd` always succeeds; `memory[fd] = 0` is taken with the step
before it, since nothing reads it in between; `Base` is 10 in the code and
`Named` in an instance. `openhere` whose fork fails and `exec` inside backquotes are
left out (section 6), as are descriptors the shell itself holds.

### 2.5 PathSearch, CommandSearch and AshExec

`PathSearch` is the vocabulary: PATH as a sequence of entries, each a directory
(or `Here`, the empty entry) with nothing, `%builtin` or `%func` after it, and
`Search`, the walk along it. `CommandSearch` is the promise: a function of that
name; else a builtin, if PATH has no `%builtin`; else the first entry of PATH that
has the command, as PATH and the current directory are at that moment.

`AshExec` is `exec.c` with the hash table. An entry of `table` is a `tblentry`:
its type, the position in PATH it was found at, and `rehash`.

| action | code |
| --- | --- |
| `find_command` | the whole function: the hit, the builtin rule, the loop with its jump over absolute directories on the word of `prev`, reading a `%func` file, success and failure |
| `readcmdfile`, `ReadDone` | a file of functions being evaluated in the middle of a search, and the search ending after it |
| `hashcmd`, `hash_r` | `hash name`, `hash -r` |
| `cd` | `docd` with `hashcd` |
| `Assign`, `export`, `unsetvar` | `setvareq` of PATH with `changepath`, and `unset PATH`, which calls nothing |
| `defun`, `unsetfunc` | with `clearcmdentry` where the code calls it |
| `CallFunction`, `mklocal`, `FunctionReturns`, `Unwind` | a function, `local PATH`, and `poplocalvars` |
| `ShellProc` | `shprocvar` and `deletefuncs` |
| `shellexec` | the child's search from the position it was given |

`found` holds what the last step found, so that the refinement compares it with
what `CommandSearch` says. Files do not change: a program installed or removed
later is beyond what a hash table promises. `NoPath`, `StalePath` and
`StaleMark` let in the three defects of section 6. The specification is `ExecSpec`, so that one
module of proofs can extend AshExec and AshJobs.

### 2.6 Scopes and AshVars

`Scopes` is dynamic scoping: a function's frame remembers for each variable it
has made local what it was, for `-` the options, and the positional parameters;
returning or being abandoned restores them.

`AshVars` is `var.c` down to memory. A text is a number that tells apart the
allocated texts of one variable, with the value it spells, 0 for one in static memory
or in the environment; `freed` are the texts that have been freed and are still
pointed to. Each frame of `stack` has `saveparam` and `localvars`, whose
entries have a copy of the flags and the text. `setvar`, `unsetvar`, `exportcmd`
(with `readonly`), `mklocal` with its cases, `setparam`, `setcmd`, and
`poplocalvars` entry by entry (`PopVariable`, `PopOptions`, `PopFunction`), since
an exception may come from the middle of it. `ShellProc` is `shprocvar`. Of the
special variables only PATH has effects that matter here, and those are AshExec's.

### 2.7 Control and AshEval

`Control` is the control structure without its means: a stack of constructs being
executed, of which each part that begins is chosen as it begins, with what
`break n`, `continue n`, `return`, a failing command under `-e` and the end of a
subshell leave.

`AshEval` is `eval.c`. The C stack is a sequence of calls of `evaltree`, each with
the node's kind, where it has got to, the flags `EV_EXIT` and `EV_TESTED` it was
given, and `evalloop`'s `status`. `evalskip`, `skipcount`, `loopnest`, `funcnest`,
`exitstatus` and `eflag` are the C globals, `parsefiles` the depth of the stack of
input files. One process is followed: at a fork either side. `pc` says whether
`evaltree` begins, has words expanded whose backquotes set `evalskip`, is at its
label `out`, or has returned.

| action | code |
| --- | --- |
| `evalcommand`, `setcmd`, `breakcmd`, `returncmd`, `exitcmd` | leaves: a command with a status, `set -e`, `break` and `continue` with their clamp, `return`, `exit` |
| `evalbackcmd_break`, `evalbackcmd_return` | `break`, `continue` and `return` in the backquotes of a word, which run in this process |
| `evaltree`, `evaltree_semi`, `evaltree_andor`, `evaltree_if`, `evaltree_one` | the switch over node kinds, entered and gone on with |
| `evalloop`, `evalfor` | the loops, with the tests of `evalskip` after condition and body |
| `evalsubshell`, `evalpipe` | forks, parent or child, with `closescript` in the child |
| `evalcommand_function`, `evalstring_*`, `cmdloop`, `dotrap` | functions, texts (`eval`, `.`, files of functions), the top level, trap actions |
| `error`, `onint`, `reset` | an exception, to the regular builtin that catches it or to main; a builtin SIGINT goes through sets the status (`InBuiltin`) |
| `ErrExit`, `exitshell` | what `evaltree` does at `out` with `-e` and `EV_EXIT` |

While `evalskip` is set, the mapping to `Control` counts the construct that is to
be left as left: the many steps in which the C functions return are stutters.

### 2.8 KshJobs

pd-ksh keeps processes, not jobs: `procs` is the list `procs` from its tail to its
head, an entry being a `Proc` with its state (`free`, `run`, `stop`, and `ended` for
`JEXITED` and `JSIGNALLED`), `proc`, `pgrp`, `job`, `prev` in a pipeline, `notify`,
and `out` for the flag `JPIPEO`. `lastj` is `j_lastj`, `lastjob` is `j_lastjob`. With `monitor` a SIGCHLD
handler changes the list whenever the shell does not hold the signal (`Unblocked`);
without, `j_waitj` calls the same function to wait. `news` is what `waitpid` would
report, `chld` a pending SIGCHLD.

`exchild` (with its members of pipelines), `fork`, `Registered` (the assignments after
`fork`) and `Started`, `waitlast` after a command substitution, `j_waitj` with `Break`
(an interrupt), `prompt` and `j_notify` in three steps, `waitfor`, `j_jobs`,
`j_resume` with `killpg`, and `j_change` for `set -m` are its actions.

A command substitution (flag `xcom`) takes one of three ways. A single command is one process:
its output is read, then it is waited for. The processes of a pipeline are the shell's own, since `execute` does not fork for
`TPIPE` (`exec.c:43`): they are waited for at `exec.c:95` and their entries freed by `j_notify`, then the output is
read and `j_lastj` is waited for once more (flag `again`; `eval.c:255`, `266`). Nothing is
lost by that: no other job can start in between, so the entry is free, or it is in use and runs no
more. Without a command (`comsub_empty`) nothing is started, and the entry waited for is
whatever `j_lastj` is; `Allowed` has "empty" for the cases in which that is another job's or none's.

### 2.9 Deletion

Nodes of the file system have a place: a directory, a name, and the mark `.#`.
`fresh` and `aged` stand for a ctime younger and older than the days of `expunge -t`.
One tool runs at a time, and each system call of it is a step that may fail; it can
be killed before each (`Kill`). `outcome` is `error_occurred` and, as a history variable, what was spared
because the user said no to it.

* `delete`: `delete()` with `recursive_delete` as a stack, `unlink_completely`
  of an older deletion of the same name, and `rename`; `delete_refused` is the user's no.
* `undelete`: the search (`find_matches`, `do_recurs`, `unique`, `choose_better`),
  the leaves of the tree of directories, then for each `do_undelete` with its
  question, `unlink_completely`, and `do_file_rename`, which takes the marks off a
  path one directory at a time and tells the tree (`change_path`). What fails or is refused
  (`do_undelete_refused`) takes the leaves below it along (`LeafStays`).
* `expunge`: the same search, `timed_out`, and the removal of leaves, a directory
  after what is in it; what fails or is refused (`really_do_expunge_refused`) keeps the
  directories around it (`MemberStays`).

### 2.10 Sheet

The cells of sc. `tbl` maps positions to ents, `ent` to what struct ent holds: a value (`v`,
`valid`), a label (`text`), a formula for a number or for a string (`expr`) with one reference to another ent, fixed in row or
column or not, and the lock. `to_fix` is the list of deleted cells, `range` one named range.
A command's steps are operators from sheet to sheet, named as in `cmds.c`:
`lookat`, `erase_area`, `sync_refs`, `flush_saved`, `copyent`, `label`; a command is
their composition, and its loops over cells are folds (`Steps` are those of `copy`). There are actions for
values (`let_num`), formulas of both kinds (`let_expr`), labels and `leftstring`/`rightstring` (`slet`, which puts the label of
a cell with a value `Beside` it), `+` and `-` (`incr`), evaluation (`EvalAll`: a formula yields any value), insertion, deletion and
duplication of rows and columns, `pull` in its three modes, copy (`c` and `/c`), `x`,
`/x`, `/f` by rows and columns, `/v`, `/l` and `/U`, named ranges, and reading
a file. `MaxDatum` bounds the values and labels told apart. An area is two corners; the table does not
grow, and `full` abandons a command that would go beyond it or need more ents than the instance has.

## 3. The runs

`tlc -config X.cfg M` as listed in `PROJECT.json`. States are distinct states.

| run | instance | states | shows |
| --- | --- | --- | --- |
| `jobs_base` | AshJobs: 2 pids, 2 slots, pipelines of 2, interactive, no job control, with fairness | 60,000 | statuses are not lost, done jobs are announced, every wait ends |
| `jobs_interrupts` | AshJobs: the same with job control, SIGINT, trap actions | 773,000 | the four properties that survive interrupts |
| `traps_base` | AshTraps: SIGINT, SIGQUIT and a signal job control ignores, one sent, actions not nested | 3,175,000 | the handlers agree with what is wanted |
| `traps_live` | AshTraps: SIGINT and SIGTERM, 2 sent, 2 nested, shell procedures, with fairness | 1,493,000 | every pending trap runs |
| `interrupts_base` | AshInterrupts: stack of 6 | 3,700 | the discipline of `suppressint` and `handler` |
| `redir_base` | AshRedir: 2 named descriptors, 3 above, 2 files, 2 nested | 551,000 | `redirect`/`popredir` implement Redirections |
| `search_base` | AshExec: 2 names, 3 directories, 19 PATHs, functions or files 1 deep | 101,000 | `find_command` implements CommandSearch |
| `vars_base` | AshVars: one variable, functions 2 deep, 2 saved copies, 2 values | 376,000 | memory of variables; they implement Scopes |
| `eval_base` | AshEval: 15 constructs, 3 deep, `break 2` | 855,000 | evaluation by flags implements Control |
| `ksh_base` | KshJobs: 3 pids, 3 entries, 3 job numbers | 3,340,000 | no status lost, jobs not mixed up, every end announced |
| `deletion_base` | Deletion: 2 files, 2 directories, 2 names, paths of 2 | 653,000 | marks, paths and files stay as they should |
| `sheet_base` | Sheet: 2 by 2 cells, 3 ents, areas of 2, 2 deletions kept | 14,700 | references live and follow, locked cells stay |

### 3.1 Why the bounds are enough

* **jobs.** Two jobs and pipelines of two are the least in which one job's report
  can be misfiled in another, a job has processes with different statuses, and
  `curjob` and the job waited for differ. Pids come back when their job is
  forgotten, so slots are reused.
* **traps.** One signal of each class (SIGINT; SIGQUIT, which interactive shells and children in
  the background ignore; one ignored under job control); one signal sent suffices for a race with any
  single change. In `traps_live` SIGTERM stands for those only interactive shells
  ignore, and two signals and two levels let an action be
  interrupted by another signal and by its own.
* **interrupts.** At six frames every pair of adjacent frames occurs inside and
  around a command substitution within a function.
* **redirections.** Two nested commands that redirect both descriptors need four
  copies and there is room for three, so both success and exhaustion occur; two named
  descriptors suffice for duplication in both directions.
* **search.** `x` is a builtin and a program, `y` a program in two directories and a
  function in a third place; PATHs of two different entries over the current directory, a
  directory, `%builtin` and `%func` in either order make each kind of entry precede each
  other one, `<<B, A>>` and `<<Dot, B, A>>` give a search something to skip.
  One function or file on the stack is enough for a change during a search and for one local PATH.
* **variables.** A variable's memory does not touch another's, so one is enough; two
  functions, or one with the same variable local twice, share one text three ways.
* **evaluation.** Three constructs let a jump cross one construct from a third
  inside it; `break 2` is clamped in one loop and not in two.
* **pd-ksh.** Three processes are a pipeline of two beside another job, or a job
  that starts while two others wait to be announced.
* **deletion.** Two directories, in one another or not, and two files under two names: a
  name whose deleted and living file exist at once, and a path with two marks.
* **sheet.** Two rows and columns can be moved past each other; three cells are a formula,
  what it refers to and one more that is copied over or deleted. `MaxDatum = 1`: a value or label is the same as before or not, which is
  all `LockedKept` asks. `OneAtATime`
  keeps to states with at most one of: a locked cell, the named range, a constant
  cell, a second deletion, so that each of these meets formulas and deletions and
  not every mixture of the four is explored. References keep their column (`Mixed`),
  so that the two ways a reference moves with a copy both occur.

Symmetry is used over process ids (`jobs_interrupts`, `ksh_base`), over files,
directories and names, and over ents, in runs whose properties are safety
properties or refinements without fairness.

### 3.2 What the properties say

Each is stated in words above its definition. In short:

* AshJobs: `NoLostStatus`, `DoneIsAnnounced`, `WaitBackground`, `StateAgrees`, `DoneIsDead`,
  `CurrentJobAlive`; steps: `FreedWhenDead`; progress: `WaitforjobEnds`, `WaitEnds`.
* AshTraps: `ModeAgrees`, `WantedInForce`, `EntryIgnored`, `Announced`; progress: `TrapRuns`.
* AshInterrupts: `CountIsDepth`, `HandlerIsInnermost`; steps: `InterruptReachesMain`, `NoSectionCut`.
* AshRedir: `SavedAlive`, `NoLeak`, and the refinement `Implements`.
* AshExec: `HashedIsFound` (an entry that will be believed is what a search would
  find), `Implements` (and what is found is).
* AshVars: `NoDangling`, `OwnedOnce`, `Implements`.
* AshEval: `CountsAgree` (counts and input stack), `Implements`.
* KshJobs: `RunsOrNews`, `EndedIsGone`, `WaitsForItsOwn`, `Announced`.
* Deletion: `MarkedInside`, `TreeAgrees`, `DoneAsAsked`; steps: `LiveIsKept`, `AgeIsRespected`.
* Sheet: `RefsAlive`; steps: `RefsKept`, `LockedKept`.

Further definitions are in the modules for use by hand or by the proofs and
are in no run: each module's `TypeOK` (`ExecTypeOK` in AshExec, `IntTypeOK` in AshInterrupts); in AshJobs `WaitHasChild`, `NoEmptyJob`,
`DoneIsFinal` and `PsInTable`; `PendingIsHeld` in AshInterrupts; `MarkedStillLeads` and
`BuiltinlocAgrees` in AshExec; `JobUnique` and `WalkLeadsOn` in KshJobs; `JobctlAgrees` in AshVars.
They hold in the instances above, those of AshJobs in that of `jobs_base`, except `WalkLeadsOn`;
section 6 says with which changes some of them fail.

Runs whose system may really stop switch the deadlock check off: a shell exits
(`traps_*`, `eval_base`, `ksh_base`), a child exits or is replaced (`redir_base`), and `fg` of
a stopped command substitution or `wait` with an empty job hangs
(`jobs_interrupts`, section 6). The others check for deadlock.

## 4. Fairness

* `AshJobs!FairSpec`, in `jobs_base`: weak fairness of the shell's own steps (it is a running
  process and its system calls return when they can), and for each child strong
  fairness of `Exit`: a command that is let run ends, though it may be stopped
  and continued any number of times before. Without it a command may run for ever,
  and waiting for ever would be right.
* `AshTraps!FairSpec`, in `traps_live`: weak fairness of handler changes, of `dotrap`'s own
  steps and of `shellexec`, which nothing disables for long (an `exec` happens), and strong fairness of `OtherCommand`: in
  every process an ordinary command that is neither a fork nor an exit
  comes to its end again and again. Trap actions may be as long as they like.

The other modules state safety and refinement only. In KshJobs `RunsOrNews` is what a
wait needs to end; a wait itself may last as long as the process does, and in
AshEval loops may go round for ever.

## 5. The proofs

Ten components have theorems, each in a module `...Proofs` beside its own, but for AshTraps and
AshInterrupts, which share AshSignalsProofs, and AshJobs and AshExec, which share AshCommandProofs. All are proved for every value of the constants that the named assumption of the module
(`ConstantsAssumption`, `KshAssumption`, `VarsAssumption`, ...) admits: any number of processes, table
sizes, signals, descriptors, names, directories, variables, any depth of nesting. An
assumption in the table beyond those keeps out a defect: section 6 has for each a
change of a configuration with which TLC violates a property in its row. `Allowed = {}` keeps
out all the defects of its module, also those that concern other properties of it.

| module | theorem | property | beyond the constants |
| --- | --- | --- | --- |
| AshCommandProofs, of AshJobs | `TypeCorrect`, `StatesAgree`, `CurrentIsAlive` | `TypeOK`, `StateAgrees`, `CurrentJobAlive` | nothing: also with interrupts and reused pids |
| | `NoJobIsEmpty` | `NoEmptyJob` | `~TrapCommands` |
| | `DoneJobsAreDead`, `BackgroundIsFound`, `DoneStaysDone` | `DoneIsDead`, `WaitBackground`, `DoneIsFinal` | `~PidReuse` |
| | `NothingAliveForgotten` | `FreedWhenDead` | `~PidReuse`, an interactive shell |
| | `StatusNeverLost` | `NoLostStatus` | `~PidReuse`, `~SigintRaises` |
| | `EndsAreAnnounced` | `DoneIsAnnounced` | `~PidReuse`, `~SigintRaises`, `~TtyLost` |
| | `WaitsHaveChildren` | `WaitHasChild` | `~PidReuse`, `~SigintRaises`, `~TrapCommands`, `~jobctl` |
| AshSignalsProofs, of AshTraps | `TrapsTypeCorrect`, `ModesAgree`, `EntriesIgnored` | `TypeOK`, `ModeAgrees`, `EntryIgnored` | nothing |
| | `SignalsAnnounced` | `Announced` | `~StaleScan` |
| | `HandlersInForce` | `WantedInForce` | `~BadOptions`, `~ShellProcs` |
| AshSignalsProofs, of AshInterrupts | `InterruptsTypeCorrect`, `HandlersAreInnermost`, `InterruptsReachMain` | `IntTypeOK`, `HandlerIsInnermost`, `InterruptReachesMain` | nothing |
| | `CountsAreDepths`, `SectionsNotCut`, `PendingsAreHeld` | `CountIsDepth`, `NoSectionCut`, `PendingIsHeld` | `~BackquoteErrors` |
| AshRedirProofs | `TypeCorrect`, `SavedStayOpen`, `NothingLeaks`, `Refinement` | `TypeOK`, `SavedAlive`, `NoLeak`, `Implements` | `~PopInterrupts` |
| AshCommandProofs, of AshExec | `ExecTypeCorrect`, `TableIsRight`, `MarksLead`, `BuiltinIsWhere`, `Refinement` | `ExecTypeOK`, `HashedIsFound`, `MarkedStillLeads`, `BuiltinlocAgrees`, `Implements` | `~NoPath`, `~StalePath`, `~StaleMark` |
| AshEvalProofs | `TypeCorrect`, `CountersAreRight`, `Refinement` | `TypeOK`, `CountsAgree`, `Implements` | `Allowed = {}` |
| AshVarsProofs | `TypeCorrect`, `NothingDangles`, `TextsHaveOneOwner`, `Refinement`, `JobctlIsRight` | `TypeOK`, `NoDangling`, `OwnedOnce`, `Implements`, `JobctlAgrees` | `Allowed = {}` |
| KshJobsProofs | `TypeCorrect`, `NothingIsLost`, `EndsAreReaped`, `PipelinesHoldTogether`, `EndsAreAnnounced`, `JobsAreUnique` | `TypeOK`, `RunsOrNews`, `EndedIsGone`, `WaitsForItsOwn`, `Announced`, `JobUnique` | `Allowed = {}` |
| DeletionProofs | `TypeCorrect`, `MarksAreKept`, `LeavesAgree`, `AllIsDone`, `LiveStays`, `YoungStay` | `TypeOK`, `MarkedInside`, `TreeAgrees`, `DoneAsAsked`, `LiveIsKept`, `AgeIsRespected` | `Allowed = {}` |
| SheetProofs | `TypeCorrect`, `ReferencesAlive`, `ReferencesKept` | `TypeOK`, `RefsAlive`, `RefsKept` | "closecol" and "erasedb" not in `Allowed` |
| | `LockedStay` | `LockedKept` | `Allowed = {}` |

### 5.1 The arguments

**AshJobs.** `TypeInv` is `TypeOK` with `LocalsOK`: `jp` names a slot while a
command is forked or waited for, `got` is empty outside `dowait`, and a pid `wait3` has
just reported as exited is no child any more.
Most actions leave what is known of every process alone (`Quiet`), so
`StepCases` reduces a step to a quiet one or one of eight that are
treated one by one; `ReportProperties`, `RestartedProperties` and
`ForkedProperties` say what the three operators that touch a job's processes do.
`StateAgrees` is inductive once `AgreeInv` adds that a job being forked is
used and running, which is what lets a process be appended to it; its core is `ReportAgrees`: settling a job from its old
state and the new report gives what the new processes alone say.
`DoneIsDead` follows from `ExitedIsFree`, that
each process recorded as exited is no child any more, which `wait3` and
`dowait` establish in two steps. `CurrentJobAlive` needs that the job being forked or waited for
is in use (`TargetUsed`).
`NoLostStatus` needs the most (`TrackInv`): a process not known to have exited
is still a child or in `dowait`'s hands (what `fg` and `bg` need when they mark it
running), it is in the group of its job's first process or in the shell's
(what `killpg` reaches), and no running child's stop counts as reported.
`WaitBackground` combines two facts: a live pid occurs in one place of the table
only (`OnePlace`), and `$!` is the last process of the job it is found in once its forks are done (`BackgroundLast`).
`FreedWhenDead` is about steps: only a done job is freed, since an interactive shell's `wait`
skips stopped ones. `DoneIsFinal` is about steps too: a pid `wait3` has just reported is not yet
recorded as exited anywhere (`ReapedIsNew`), so `dowait` gives no process of a done job
a status.
`NoEmptyJob` rests on `NoneEmpty`, which names the two moments when a job may lack processes:
while its first fork is due, and from a failed fork to the next prompt. With it,
`TrackInv` and `AgreeInv` say what `WaitHasChild` states, the safety
half of `WaitforjobEnds` and `WaitEnds`: no wait is for a child that does not
exist. (Of its four assumptions `~PidReuse` is there for `TrackInv`; the instances show no
violation without it.)

**AshTraps.** `KernelInv`: belief and kernel agree amid every change of handlers, so that
`signal(SIG_IGN)` and what it returns are never far apart; a signal ignored on entry is
unknown or `HARD_IGN`. `ExecInv`: on the way to an `exec` `iflag` is off. `ScanInv`: below `dotrap`'s index no signal is marked. `WantedInForce` holds only
between commands, so `GoodOrDue` says what holds within one: each signal has the handler
it should have now, or a loop of `todo` that calls `setsignal` for it is still to
come (`Due`). The loops are sequences of sets, so that a change by `trap` in the middle of
`setinteractive` falls under it too.

**AshInterrupts.** Two predicates of stacks. `Chained`: each frame with a handler has saved the
one before it, so `handler` can be restored frame by frame. `Shaped`: only a
builtin lies above a section, directly above a substitution's, so an abandoned part of the
stack has at most one section that counts. With `ErrorInv`, that an error the handler
of a builtin swallows was not raised within backquotes, the count is right.

**AshRedir.** `Owned` says when a descriptor above `Base` is free: exactly when no frame has
yet to restore from it (`Holds`), and no two have the same. `Holds` counts what `popredir`
has restored by the descriptor it has come to. From it follow both invariants, and each step of `redirect`,
`popredir` and `reset` maps to a step of Redirections or a stutter: the copy a frame restores from is what the
abstract frame remembers, because nobody else can have closed or reused it.

**AshExec.** `ExecInv` says for each entry what it promises: `Leads`, where a search may begin
and what it may not have passed over, and what remains true when the entry is marked.
The lemmas of the refinement say where a search stops, and that `changepath`, by comparing the old PATH and the new one entry by entry, and
`hashcd`, by the first relative one, mark every entry whose promise is affected. `find_command` then agrees with
`Resolve`: a hit because of the promise, a search because the entries it jumps over are
absolute and have been looked at.

**AshEval.** `Counted`: `loopnest` and `funcnest` are the numbers of calls of these kinds on
the stack, `parsefiles` the number of texts read since the last fork of this process, in
which `closescript` forgot the others. Pushing, popping and cutting the stack
change these cardinalities in the way the code changes the counts: a function, for one, leaves
`loopnest` alone, so loops of its caller count. The refinement needs `PlaceInv` besides: each call's flags
are a statement about the calls below it (`FrameFits`: `EV_EXIT` that only last parts lie between it
and a child process, `EV_TESTED` that only such parts and subshells lie between it and a condition), which is
how `Over` and `Tested` of Control read the stack; and while `evalskip` is set nothing begins, `skipcount` is at
most `loopnest`, and a return has a function and crosses no condition (`SkipsFit`). `Rest` puts in numbers what is left to be done when the
thing meant has been left. A C function that returns because of `evalskip` keeps `Rest` (`RestSame`), so it is a
stutter, until the loop or function that is meant is on top (`RestHere`), and then Control lands or
goes on. The actions that begin or end a construct map one to one.

**AshVars.** The difficulty is that flags of different moments decide who frees a text.
`Log` lists the local variables in the order they were made, and the invariant reads it from
every point: what a local variable has kept `Suits` the local variables made before it, as the present state
suits them all; where a text is marked as not its own, an older copy owns it (`Linked`).
Then `poplocalvars`, which takes the last entry of the log and puts back what it kept, keeps the
invariant because what it restores was one that suited the rest. `ParamsOwned` is the same for positional
parameters, and nothing in use has been freed (`freed = {}`).
The refinement reads the stack differently. `Held` is what a function keeps of each name, by its
oldest local variable; what commands will see of a name once the functions in `L` have been left (`Now`) is
what the outermost of them that keeps it has, and `Shown` is all of this. To leave functions in Scopes, from
the i-th on, is to add them to `L` (`LeaveShown`), so `return` and exceptions are one
step each. After it every step of `poplocalvars` is a stutter: it takes from the
innermost function one local variable and gives its variable what that kept, which `Now`
counts the same (`NowPop`), and a function that keeps nothing does not count (`NowLeave`). Here the
invariant is needed: that the flags `poplocalvars` tests are those of a variable that was created
exactly where it was created, and that it never meets one it may not unset. The commands
map one to one; a new local variable changes what its function keeps only if it is the first of its name
(`HeldPush`). For shell procedures `VarsAssumption` says that only the variables of `initvar` have values
to begin with.
`JobctlAgrees` adds `JobctlInv`: what each `local -` has kept has the letter `j` exactly if it is set now, so
restoring it never changes the letter behind `setjobctl`'s back.

**KshJobs.** `KInv` has ten parts, among them: what an entry says against what the kernel has
(`StateInv`), that news of a child that is dead is not lost while SIGCHLD is pending or unhandled
(`KernelInv`), what each place in the code may assume of the entry `cur` and its pipeline (`FlagInv`), that the last process of
a pipeline is still waited for, announced or about to be freed (`TailInv`), a closed set of entries
that contains the pipeline waited for (`LineInv`), how far `j_notify` has come (`NoticeInv`),
and that the entry at which the second wait for a pipeline in `$()` looks runs no more (`AgainInv`).
There is a lemma for each action, the handler and the kernel's among them, with a step for each part.
`JobUnique` has an invariant of its own (`JobInv`): no entry in use has a number above `j_lastj`'s job, so the one
`j_newjob` computes is above all in use, and of a pipeline that is not complete all members have their output
piped, so the one that closes it is the only one its number finds.

**Deletion.** The files are a tree `where` that each system call changes, and the model names them by `Path`, which is
defined by recursion along it. The first part of the module is about any tree: `Tree` gives every node a rank above that of its directory, from which follow
that paths exist (`PathsExist`), that different nodes have different paths (`SamePath`) and that every beginning of
a path leads to a node (`Ancestor`); then, what unlinking and renaming a node do to the paths of all others.
The invariant has a part for each tool. `OddInv`: a node without a mark is in a marked directory only if it lies on
the path an undelete has half renamed; this is `MarkedInside`. `DeleteInv`: the directories on delete's stack are live, each is among
the entries the next has left, and entries that are not left have their marks unless a step has failed or was refused, so a directory gets its
mark last. What is not done was refused, and is among the spared, or an error is noted. `ExpungeInv`: what is to be expunged is marked, old enough, and where it was found. `UndeleteInv` is about paths while they change: when the directories on the path at
hand have been renamed in part, each leaf is found at its own path with the same parts renamed (`Mixed`), which is what
`change_path` makes of it at the end. The marks come off from the last to the first (`AtInv`). That no rename
destroys anything else needs three facts more: marked directories on the way have no living namesake (`Clear`), what has been recovered is
not in the way of what is left (`Recovered`), and what makes room has been agreed to and holds no leaf (`VictimInv`).
`MixedMark` says what taking one mark off does to the paths of all leaves; `StepInv` has every step keep the
invariant and destroy only what it may, from which come the two step properties. TLC has checked the invariant on `deletion_base`.
The theorems assume `Allowed = {}`, as one invariant carries all of them: each of the five kinds breaks a part of it.

**Sheet.** `Inv` speaks of the state as one value, the sheet `Now`, so that each operator of
the model gets a lemma about any sheet, and a command is a chain of them. `Sound`: an ent is in one place of the table or
of `to_fix` at most, and what formulas in use and the range refer to is in use, if only in `to_fix`. `Alive`:
formulas in the table and the range refer to what is in the table. The invariant is both, `Good`. Within a command only `Sound` holds
(`erase_area` takes away cells that others refer to); `sync_refs` at its end looks each reference up again where the ent referred to was,
making a cell where there is none, and restores `Alive` (`SyncGood`), provided no ent was
freed and used again in between: that is what "closecol" and "erasedb" let happen, and why `flush_saved` before
an erasure must see to it that nothing keeps a reference to what it frees.
`Same(h, s, ps)` says that the ents `h` uses are where they were in `s`, and as they were outside the places `ps`. It composes
along a command, and from it follow the two step properties: `Keeps`, that locked cells are as they were
(none is in `ps`), and `Follows`, that formulas refer to what they did. Where cells move (insertion and deletion of lines)
or go, these are shown directly. A fold (duplication of a line, `pull`, `copy`) is unfolded over the sets of positions treated so far
(`FoldExists`, `FoldReaches`); for `copy` the steps, whatever the overlap of the areas, are pairs of cells (`StepsSeq`), and along them nothing
is written that is locked or outside the destination (`CopyFold`).

### 5.2 What is only model-checked

* Liveness (`WaitforjobEnds`, `WaitEnds`, `TrapRuns`): the prover has neither liveness nor
  `ENABLED`.
* The definitions of 3.2 that are in no run and not in the table above.
* What a recursive definition computes for every input. The library's induction theorems take an operator, which the
  prover cannot instantiate; an induction has to be put as one over a set, as DeletionProofs does for paths
  and SheetProofs for folds.

All other properties of the runs are theorems.

No module declares a RECURSIVE operator.

## 6. Where code and documents disagree

Each of these can be seen by changing a configuration as described (TLC then finds the
property violated) or read off the code. In the first column, `name` in quotes is an
element to put in `Allowed`.

### 6.1 ash

| change | property violated | where and what |
| --- | --- | --- |
| `jobs_base` with `JobChunk = 1` | `PsInTable` | `jobs.c:424`: enlarging the table copies jobs whose `ps` points to their own `ps0`; `jobs.h:33-34` |
| `jobs_base` with `SigintRaises = TRUE` | `NoLostStatus`, `WaitHasChild`, `WaitEnds` | `jobs.c:643`: SIGINT between `wait3` and `INTOFF` loses a status and `wait` hangs; ash.1:978-980 |
| the same | `DoneIsAnnounced` | `jobs.c:677`: the `INTON` delivers SIGINT before `changed = 1`, against `jobs.c:190-191` |
| `jobs_base` with `TrapCommands = TRUE` | `NoEmptyJob`, `WaitHasChild` | `main.c:153`: traps run before `showjobs` frees the job of a failed fork (`jobs.c:193-195`); a `wait` in the action hangs (`WaitEnds`) |
| `jobs_base` with `jobctl = TRUE` | `WaitHasChild`, `WaitforjobEnds` | `jobs.c:170`: `killpg` misses a stopped command substitution, which is in the shell's group; ash.1:713 |
| `jobs_base` with `PidReuse = TRUE` | `WaitBackground` | `jobs.c:395`: `getjob` finds a finished job with the pid first; ash.1:563-564 |
| the same, under `Spec` | `DoneIsDead`, `DoneIsFinal`, `DoneIsAnnounced`, `FreedWhenDead`, with `jobctl = TRUE` also `NoLostStatus` | `jobs.c:648-658`: `dowait` gives a status to every process with its pid, those that ended long ago included |
| `jobs_base` with `jobctl = TRUE` and `TtyLost = TRUE` | `DoneIsAnnounced` | `jobs.c:594`: the error of `TIOCSPGRP` abandons the command before the job waited for, which is done, is freed or marked as changed; against `jobs.c:190-191` |
| `jobs_base` with `iflag = FALSE`, under `Spec` | `FreedWhenDead` | `jobs.c:315`: in a script `wait` returns for a stopped job and frees it; ash.1:756-757 and 978 |
| `traps_live` with `StaleScan = TRUE` | `TrapRuns` | `trap.c:249`: a signal behind `dotrap`'s scan is forgotten when `sigpending` is cleared |
| `traps_base` with `BadOptions = TRUE` | `WantedInForce` | `options.c:233`: `set -i` with a bad option later leaves `iflag` set and the handlers of a script; ash.1:870-872 |
| `traps_base` with `ShellProcs = TRUE` | `WantedInForce` | `trap.c:262`: no SHELLPROC resets `is_interactive`, so `set -i` in a shell procedure does nothing |
| `interrupts_base` with `BackquoteErrors = TRUE` and the constraint `FewSuppressed` | `NoSectionCut`, `CountIsDepth` | `eval.c:752`: `FORCEINTON` after a failed builtin in backquotes ends `expbackq`'s section; later `suppressint` is -1 and SIGINT is held outside any; TOUR:78-79 |
| `redir_base` with `PopInterrupts = TRUE` | `SavedAlive` | `redir.c:220`: SIGINT in `popredir` makes `reset` restore from a closed copy |
| `search_base` with `NoPath = TRUE` | `BuiltinlocAgrees` | `exec.c:48`: without PATH in the environment `builtinloc` is 0, not the -1 of a PATH without `%builtin`, until PATH is assigned |
| `search_base` with `StalePath = TRUE` | `HashedIsFound` | `var.c:505`: `poplocalvars`, `unset PATH` and `shprocvar` change PATH and leave the table as it was |
| `search_base` with `StaleMark = TRUE` | `MarkedStillLeads`, `Implements` | `exec.c:726`: a function defined over a marked entry keeps the mark, and is searched for along PATH at the next use |
| `vars_base` with "unset" | `OwnedOnce` | `var.c:502`: restoring a local variable that was unset but exported takes it for one that did not exist |
| `vars_base` with "readonly" | `Implements` | `var.c:560`: a variable that `local` created and `readonly` marked cannot be unset by `poplocalvars` and stays |
| `vars_base` with "options" | `JobctlAgrees` | `var.c:500`: `local -` restores the letter `j` and not job control; ash.1:1015-1018 |
| `vars_base` with "proc" or "interrupt" | `NoDangling` | `eval.c:678`, `var.c:497`: a shell procedure in a function, or a second SIGINT while the first abandons functions (unless nothing allocated is concerned), restores parameters or texts that have been freed |
| `eval_base` with "lines" | `Implements` | `eval.c:156`, `main.c:152`: `evalstring` and `cmdloop` go on reading a text after `break`, `continue` or `return` on an earlier line |
| `eval_base` with "backquote" | `Implements` | words whose backquotes evaluate `break` set `evalskip`, and the simple command they belong to runs nevertheless |
| `eval_base` with "trap" | `Implements` | an action that comes while commands are skipped is cut short by the flags that were not meant for it |
| `eval_base` with "trapstatus" | `Implements` | the status of an action replaces that of the command before it |
| `eval_base` with "test" | `Implements` | `eval.c:286`: `return` in the condition of a loop gives the loop's status, not its own |
| `eval_base` with "lc" | `CountsAgree` | `eval.c:743`: the error of a regular builtin that evaluates is swallowed; the counts keep what was abandoned, and the shell goes on reading the text that was abandoned |
| `eval_base` with "empty" | `Implements` | `eval.c:376`: an empty subshell does not exit, so its child goes on as the shell |

And some that can be read off a state or the code:

* AshTraps reaches `pc = "crashed"`: a trap taken back, or cleared by a fork, while
  its signal is pending is evaluated as a null pointer (`trap.c:246`).
* AshTraps reaches `dots[d].live = FALSE`: an action that redefines its own trap
  frees the text being evaluated (`trap.c:81`).
* `1>&1` closes descriptor 1 before it duplicates it (`redir.c:147-155`); so it is in
  AshRedir, and in Redirections as `Redirect(f, Closed)`.
* A fork that fails in `openhere` leaves both ends of a pipe open (`redir.c:189`).
  AshRedir leaves this failure out.
* In backquotes, `exec` is a builtin that is not forked (`eval.c:635-641`), so it
  would redirect or replace the shell itself. AshRedir leaves it out.
* `local v=x` of a read-only `v` is refused after the saved copy has taken over the
  text, which then nobody frees (`var.c:476-478`).
* With `-e`, `false && true` ends the shell (`eval.c:249`: only the left side is
  tested, and its status is that of the whole); ash.1:848-856.
* The action of a trap on exit runs with `evalskip` as `exit` found it.
* After `set -I`, `cmdloop` reading a file for `.` takes its end for one at the
  terminal and prints the message for `ignoreeof` up to 50 times.

### 6.2 pd-ksh, `ksh_base`

| allowed | property violated | where and what |
| --- | --- | --- |
| "fork" | `RunsOrNews` | `jobs.c:223`: SIGCHLD before `j->proc` is set finds no entry and the shell waits for ever, as it "occasionally" does according to ksh.1:698 |
| "monitor" | `RunsOrNews` | `set -m` with children whose end came before the handler was there |
| "resume" | `RunsOrNews` | `fg` and `bg` set `JRUN` for a job that has ended and is not announced yet |
| "notify" | `Announced` | `jobs.c:529`: the handler in the middle of `j_notify` |
| "print" | `WaitsForItsOwn` | `jobs.c:444`: `waitfor` prints, and so frees, an entry and then waits for it |
| "pipestop" | `WaitsForItsOwn` | a stopped member of a pipeline or of a command substitution |
| "pids" | `EndedIsGone` | `jobs.c:399`: the entry of a process that is gone is found by its id, which a new one has |
| "empty" | `WaitsForItsOwn` | `eval.c:411`: `comsub` asks for `waitlast` whatever `execute` did; `sleep 1000 & x=$( )` waits for the sleep, and as a shell's first command `$( )` follows a null `j_lastj`; `jobs.c:279` |
| nothing more, with `WalkLeadsOn` as an invariant | `WalkLeadsOn` | `jobs.c:210`: in `a \| b &` the entry of `a` may be freed before `b` takes it and is linked to itself; `j_waitj`'s walk (`jobs.c:300`) then never ends |

By reading: since a pipeline in `$()` is waited for before its output is read (`exec.c:95`), it hangs when it writes
more than a pipe holds.

### 6.3 delete, undelete, expunge, `deletion_base`

| allowed | property violated | where and what |
| --- | --- | --- |
| "half" | `MarkedInside` | `undelete.c:412`: an end between the renames leaves an unmarked file in a marked directory, where no tool finds it |
| "clash" | `LiveIsKept` | a directory on the path is renamed onto a living empty namesake without the question |
| "stale" | `TreeAgrees` | `undelete.c:371`: agreeing to overwrite a directory destroys files the tree still has |
| "age" | `AgeIsRespected` | `directories.c:524`: the leaf of a directory that is too young is freed and used again, and the directory is removed; expunge.1:105-108 |
| "race" | `MarkedInside` | the user makes a file in a directory a `delete -r` has just emptied |

By reading: when two adjacent duplicates are dropped from its list, `unique()` keeps a
null entry and drops a file that is none (`undelete.c:488-494`); `undelete -r` looks into
deleted directories only, while undelete.1:40-44 promises what was deleted in any child;
a plain file where a pattern goes on is taken for the directory read before it
(`pattern.c:585`). The model leaves these three out.

### 6.4 sc, `sheet_base`

| allowed | property violated | where and what |
| --- | --- | --- |
| "closecol" | `RefsAlive` | `cmds.c:487`: `closecol` calls `sync_refs` before the columns move, so that references to deleted columns lead to new cells there, which are then freed; `cmds.c:1106-1112` |
| "erasedb" | `RefsAlive` | deleted cells that refer to the old sheet survive into the new one, and `pull` brings them back |
| "typed", "label", "incr", "x", "copycell", "hole", "fill", "pull" | `LockedKept` | sc.doc:1256-1258: "A locked cell can't be changed in anyway until it is unlocked"; these commands test another cell than the one they write, or none (`+` and `-`: `sc.c:684-698`) |

By reading: copying a formula with a range takes the flags of the right end for both ends
(`range.c:42`); `c` onto the marked cell itself clears it; a copy does not
flush `to_fix`, so `pull` also brings what was deleted before it, the oldest last
and so on top; `opencol` changes `maxcol` before `growtbl` can fail; `deleterow`
with a large count reads beyond the table.

## 7. What is not modelled, and why

* Text: lexing, parsing, expansion, formatting, the text of commands in
  listings, `getjob` by command prefix, most option letters. Pure functions on
  strings, with little control.
* The terminal's process group (the loop over it in `setjobctl`), but for `TIOCSPGRP` failing in
  `waitforjob`.
* Widths: pids and statuses in shorts (`jobs.h:21-22`); pids are model values.
* Reading profiles, scripts and end of file; the state machine in `main` over
  `state` only decides where the shell resumes.
* In pd-ksh `j_kill`, `j_exit`, `%+` and `%-`, what pipes hold, and everything but `jobs.c` with its
  callers in `exec.c` and `eval.c`.
* In the deletion tools `lsdel` (it changes nothing), symbolic links, mount points,
  two tools at once, listing and asking in detail.
* In sc what expressions yield (it is any value), formats (`format_cell` asks for the lock, `interp.c:1985`), the screen, the cursor, growth of the
  table, `maxrow` and `maxcol`, files.
* Everything marked planned in 1.1, for which section 8 has the order, and
  the programs of 1.3 that have no model. Of these `bsdtar`, `pcal`, `ipl`, `vis` and the like
  read once and write once, and their difficulty is in formats; the two versions of
  `es` are a worthwhile subject of their own.

The modelled lines are a small share of the repository because most of it is programs of
that sort, and because within ash, ksh and sc the largest files (parsers, line editors,
screen, interpreters of expressions) are text handling.

## 8. The plan

Done: (1) AshJobs with its proofs, (2) AshTraps and AshInterrupts, (3) AshRedir
refining Redirections, (4) AshExec refining CommandSearch, (5) AshVars refining Scopes, (6) AshEval
refining Control, with the stack of input files, (7) KshJobs, Deletion, Sheet.
Next, in this order:

8. **Proofs.** Done: what section 5 lists. Next: `WaitHasChild` of AshJobs without `~PidReuse`.
9. **AshStack** (`memalloc.c`): blocks, marks and the growing string, refining a stack
   of live regions. The question: does a mark stay valid when `growstackblock`
   moves the block on top? Bounds: 3 blocks, 3 marks.
10. **AshInput** (buffers and pushed strings popped in order, also by an error),
    **AshMalloc** (first fit over a heap, `startfree` never beyond a free block).
11. Compositions: AshInterrupts' frames with AshRedir's and AshVars' unwinding; the
    collector of es (`gc.c`); recalculation in sc.
