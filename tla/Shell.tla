------------------------------- MODULE Shell --------------------------------
(***************************************************************************)
(* GOSH, user/go/shlib and user/go/sh: the engine that runs a line with    *)
(* its control flow, pipe, redirects, functions, sourced files, command    *)
(* substitution and background jobs, the builtins that change the shell,   *)
(* and the session loop around it.  A line is the tree its parsers find in *)
(* it, so the parsers appear here as the bounds they enforce.  `sh` is the *)
(* Shell value together with the kernel's process slots: a pid is the      *)
(* index of a slot, and a slot whose process has exited is given to the    *)
(* next program when no slot is free (kernel/src/process.zig).             *)
(***************************************************************************)
EXTENDS Integers, Sequences, FiniteSets, SequencesExt

CONSTANTS TypedLines,     \* lines a user may submit
          StartupLines,   \* STARTUP.SH and PROFILE.SH, a sequence of lines
          Share,          \* path -> lines of a script on the share
          Images,         \* program -> its exit status
          Lingering,      \* programs that outlive the foreground wait
          Pids,           \* process slots
          MaxTyped, MaxSpawns, \* lines submitted, programs started elsewhere
          maxJobs, funcMax, funcCmdsMax, chainMax, forWordMax, caseArmMax,
          bodyCmdsMax, runDepthMax, sourceDepthMax, whileIterMax,
          MaxPipe, MaxRedirect \* units of output a stage and a redirect hold

VARIABLE sh
-----------------------------------------------------------------------------
(* Lines.  A command is a verb and its first argument. *)

Word(name, arg) == [name |-> name, arg |-> arg]

NoWord == Word("", "")

Plan(left, right, in, out, bg) ==
  [op |-> "cmd", left |-> left, right |-> right, in |-> in, out |-> out, bg |-> bg]

Simple(name, arg) == Plan(Word(name, arg), NoWord, "", "", FALSE)

\* What the parsers of the control forms find.
parseIf(cond, then, else) == [op |-> "if", cond |-> cond, then |-> then, else |-> else]

parseFor(var, words, body) == [op |-> "for", var |-> var, words |-> words, body |-> body]

parseWhile(cond, body) == [op |-> "while", cond |-> cond, body |-> body]

parseCase(subject, arms) == [op |-> "case", subject |-> subject, arms |-> arms]

caseArm(words, body) == [words |-> words, body |-> body]

parseFuncDef(name, body) == [op |-> "fn", name |-> name, body |-> body]

\* ops[i] stands before segs[i]; the first one is "seq".
chainSplit(segs, ops) == [op |-> "chain", segs |-> segs, ops |-> ops]

locateCommandSubst(inner, outer) == [op |-> "subst", inner |-> inner, outer |-> outer]

\* A line the tokenizer or the plan refuses.
Malformed == [op |-> "error"]

builtins == {"true", "false", "echo", "cat", "cd", "set", "unset", "export",
             "read", "jobs", "fg", "exit", "monitor", "source", "break", "continue"}

\* Units of output: "long" is a text no pipe holds, "huge" one no redirect holds.
Produced(w) ==
  IF w.name \notin {"echo", "cat", "jobs", "fg"} THEN 0
  ELSE IF w.arg = "long" THEN MaxPipe + 1
  ELSE IF w.arg = "huge" THEN MaxRedirect + 1 ELSE 1
-----------------------------------------------------------------------------
(* Processes. *)

Free == [inst |-> 0, state |-> "free", code |-> 0]

\* The lowest free slot, else the lowest one that has exited.
SlotsFor(s) ==
  LET free == {p \in Pids : s.slot[p].state = "free"}
  IN  IF free # {} THEN free ELSE {p \in Pids : s.slot[p].state = "exited"}

Lowest(ps) == CHOOSE p \in ps : \A q \in ps : p <= q

RunExternal(s, name) ==
  LET p == Lowest(SlotsFor(s))
  IN  IF name \notin DOMAIN Images \/ SlotsFor(s) = {} THEN [s |-> s, pid |-> 0]
      ELSE [s |-> [s EXCEPT !.slot[p] = [inst |-> s.born + 1, state |-> "running",
                                         code |-> Images[name]],
                            !.born = @ + 1],
            pid |-> p]

Exited(s, p) == [s EXCEPT !.slot[p].state = "exited", !.dead = @ \cup {s.slot[p].inst}]

\* The foreground wait ends with the program's status, or with an error when
\* the program outlives the budget.
WaitExternal(s, p, name) ==
  IF name \in Lingering THEN [s EXCEPT !.st = 127]
  ELSE [Exited(s, p) EXCEPT !.st = s.slot[p].code]

\* Mutant: a read of the registry that fails is taken for an absent process.
probe_failed_absent(s, p, readable) ==
  IF ~readable THEN "absent"
  ELSE IF s.slot[p].state = "free" THEN "absent" ELSE s.slot[p].state

Probe(s, p, readable) ==
  IF ~readable THEN "running"
  ELSE IF s.slot[p].state = "free" THEN "absent" ELSE s.slot[p].state

finishJob(j, st) == [j EXCEPT !.done = TRUE, !.status = st]

\* Seen-then-absent ends a job with status 0; absent and never seen does not.
ReapJobs(s, readable) ==
  [s EXCEPT !.jobs = [i \in DOMAIN s.jobs |->
     LET j == s.jobs[i]
         state == Probe(s, j.pid, readable)
     IN  IF j.done THEN j
         ELSE IF state = "running" THEN [j EXCEPT !.seen = TRUE]
         ELSE IF state = "exited" THEN finishJob(j, s.slot[j.pid].code)
         ELSE IF j.seen THEN finishJob(j, 0) ELSE j]]
-----------------------------------------------------------------------------
(* Builtins.  `in` is the bound stdin, "" when there is none. *)

Status(s, st) == [s EXCEPT !.st = st]

Set(s, name) == [s EXCEPT !.env = @ \cup {name}]

Unset(s, name) == [s EXCEPT !.env = @ \ {name}]

Raised(s) == IF s.loops = 0 THEN [s EXCEPT !.stray = TRUE] ELSE s

bBreak(s) == Status([Raised(s) EXCEPT !.brk = TRUE], 0)

bContinue(s) == Status([Raised(s) EXCEPT !.cont = TRUE], 0)

bSource(s, path) ==
  IF path = "" THEN Status(s, 2) ELSE Status([s EXCEPT !.src = path], 0)

\* Finished jobs are listed once and leave the table.
bJobs(s) ==
  LET r == ReapJobs(s, TRUE)
  IN  Status([r EXCEPT !.jobs = SelectSeq(@, LAMBDA j : ~j.done)], 0)

jobNumber == <<"1", "2", "3", "4">>

\* fg polls until the probe of the job's pid says exited.
bFg(s, arg) ==
  LET at == {i \in DOMAIN s.jobs : jobNumber[s.jobs[i].n] = arg}
      i == CHOOSE i \in at : TRUE
      p == s.jobs[i].pid
      r == IF s.jobs[i].done THEN s
           ELSE ReapJobs(IF s.slot[p].state = "running" THEN Exited(s, p) ELSE s, TRUE)
  IN  IF arg = "" THEN Status(s, 2)
      ELSE IF at = {} THEN Status(s, 1)
      ELSE Status([r EXCEPT !.jobs = RemoveAt(@, i)], r.jobs[i].status)

bExit(s, arg) ==
  [s EXCEPT !.act = "exit", !.st = IF arg = "7" THEN 7 ELSE IF arg = "" THEN @ ELSE 2]

bMonitor(s) == [s EXCEPT !.act = "monitor", !.st = 0]

\* Only / and the directories of the share can be entered.
bCd(s, arg) ==
  IF arg \in {"", "d"} THEN Status([s EXCEPT !.pwd = IF arg = "" THEN "/" ELSE arg], 0)
  ELSE Status(s, 1)

bRead(s, arg, in) ==
  IF arg = "" THEN Status(s, 2)
  ELSE IF in = "" /\ ~s.tty THEN Status(s, 1) ELSE Status(Set(s, arg), 0)

bSet(s, arg) == IF arg = "" THEN Status(s, 2) ELSE Status(Set(s, arg), 0)

bUnset(s, arg) == IF arg = "" THEN Status(s, 2) ELSE Status(Unset(s, arg), 0)

bExport(s, arg) == IF arg \in s.env THEN Status(s, 0) ELSE Status(s, 1)

bCat(s, arg) ==
  Status(s, IF arg \in DOMAIN Share \cup {"", "long", "huge"} THEN 0 ELSE 1)

runBuiltin(s, w, in) ==
  CASE w.name \in {"true", "echo"} -> Status(s, 0)
    [] w.name = "false"    -> Status(s, 1)
    [] w.name = "cat"      -> bCat(s, w.arg)
    [] w.name = "cd"       -> bCd(s, w.arg)
    [] w.name = "set"      -> bSet(s, w.arg)
    [] w.name = "unset"    -> bUnset(s, w.arg)
    [] w.name = "export"   -> bExport(s, w.arg)
    [] w.name = "read"     -> bRead(s, w.arg, in)
    [] w.name = "jobs"     -> bJobs(s)
    [] w.name = "fg"       -> bFg(s, w.arg)
    [] w.name = "exit"     -> bExit(s, w.arg)
    [] w.name = "monitor"  -> bMonitor(s)
    [] w.name = "source"   -> bSource(s, w.arg)
    [] w.name = "break"    -> bBreak(s)
    [] w.name = "continue" -> bContinue(s)
-----------------------------------------------------------------------------
(* The engine. *)

\* Output goes to the innermost substitution, else to the terminal.
out(s, units) == IF s.capture = 0 THEN s ELSE [s EXCEPT !.caught = @ + units]

readInput(path) == path \in DOMAIN Share

\* An action of the command skips the write of the redirect.
redirectOut(s, p, units) ==
  IF p.out = "" \/ s.act # "go" THEN s
  ELSE IF units > MaxRedirect \/ p.out = "readonly" THEN Status(s, 1)
  ELSE [s EXCEPT !.written = @ \cup {p.out}]

runExternal(s, name) ==
  LET r == RunExternal(s, name)
  IN  IF r.pid = 0 THEN Status(s, 127) ELSE WaitExternal(r.s, r.pid, name)

\* Both stages run here; the right one is looked at after the pipe was filled.
runPipeline(s, p) ==
  LET l == runBuiltin(s, p.left, p.in)
      r == runBuiltin(l, p.right, "pipe")
      sunk == IF p.out = "" THEN out(r, Produced(p.right)) ELSE r
  IN  IF p.left.name \notin builtins \/ (p.in # "" /\ ~readInput(p.in)) THEN Status(s, 1)
      ELSE IF l.act # "go" THEN l
      ELSE IF Produced(p.left) > MaxPipe \/ p.right.name \notin builtins THEN Status(l, 1)
      ELSE redirectOut(sunk, p, Produced(p.right))

find(s, name) == name \in DOMAIN s.funcs

\* A function keeps its seat when it is defined again.
define(s, l) ==
  IF \/ Len(l.body) \notin 1 .. funcCmdsMax
     \/ ~find(s, l.name) /\ Cardinality(DOMAIN s.funcs) >= funcMax
  THEN Status(s, 1)
  ELSE [out(s, 1) EXCEPT !.funcs = [f \in DOMAIN @ \cup {l.name} |->
                                      IF f = l.name THEN l.body ELSE @[f]]]

bindFuncArgs(s, arg) == IF arg = "" THEN Set(s, "0") ELSE Set(Set(s, "0"), "1")

\* Mutant: the flags survive the loop that consumed them.
keep_flags(s) == s

clearLoopFlags(s) == [s EXCEPT !.brk = FALSE, !.cont = FALSE, !.stray = FALSE]

LeaveLoop(s) == [clearLoopFlags(s) EXCEPT !.loops = @ - 1]

RECURSIVE runLine(_, _, _), runChain(_, _, _, _), runBody(_, _, _), runFor(_, _, _, _),
          runWhile(_, _, _, _), runAll(_, _, _)

\* The body of a function and the lines of a file: only an action stops them.
runAll(s, ls, d) ==
  IF ls = <<>> \/ s.act # "go" THEN s
  ELSE runAll(runLine(s, Head(ls), d), Tail(ls), d)

runSource(s, path, d) ==
  IF d > sourceDepthMax THEN Status(s, 2)
  ELSE IF path \notin DOMAIN Share THEN Status(s, 1)
  ELSE runAll(s, Share[path], d + 1)

runSingle(s, p, d) ==
  LET b == runBuiltin(s, p.left, p.in)
      sunk == IF p.out = "" THEN out(b, Produced(p.left)) ELSE b
  IN  IF p.in # "" /\ ~readInput(p.in) THEN Status(s, 1)
      ELSE IF p.left.name \in builtins THEN redirectOut(sunk, p, Produced(p.left))
      ELSE IF find(s, p.left.name)
           THEN redirectOut(runAll(bindFuncArgs(s, p.left.arg), s.funcs[p.left.name], d + 1), p, 0)
      ELSE IF s.capture > 0 THEN Status(s, 1)
      ELSE redirectOut(runExternal(s, p.left.name), p, 0)

\* A builtin is run in the foreground; the table counts finished jobs too.
runBackground(s, p, d) ==
  LET r == RunExternal(s, p.left.name)
  IN  IF p.left.name \in builtins THEN runSingle(s, p, d)
      ELSE IF Len(s.jobs) >= maxJobs THEN Status(s, 1)
      ELSE IF r.pid = 0 THEN Status(s, 127)
      ELSE Status([r.s EXCEPT !.nextN = @ + 1,
                     !.jobs = Append(@, [n |-> s.nextN + 1, pid |-> r.pid,
                                         inst |-> r.s.slot[r.pid].inst, done |-> FALSE,
                                         seen |-> FALSE, status |-> 0])], 0)

\* A file the line asked to source is run after its commands.
runSegment(s, p, d) ==
  LET r == IF p.bg THEN runBackground(s, p, d)
           ELSE IF p.right # NoWord THEN runPipeline(s, p) ELSE runSingle(s, p, d)
  IN  IF r.act = "go" /\ r.src # "" THEN runSource([r EXCEPT !.src = ""], r.src, d) ELSE r

\* A skipped segment leaves the status alone.
runChain(s, segs, ops, d) ==
  IF segs = <<>> \/ s.act # "go" THEN s
  ELSE LET skip == \/ Head(ops) = "and" /\ s.st # 0
                   \/ Head(ops) = "or" /\ s.st = 0
       IN  runChain(IF skip THEN s ELSE runLine(s, Head(segs), d), Tail(segs), Tail(ops), d)

splitCommands(body) == Len(body) <= bodyCmdsMax

\* `broke` tells the loop whether to go on.
runBody(s, body, d) ==
  IF ~splitCommands(body) THEN [Status(s, 2) EXCEPT !.broke = TRUE]
  ELSE IF body = <<>> \/ s.act # "go" THEN [s EXCEPT !.broke = FALSE]
  ELSE LET r == runLine(s, Head(body), d)
       IN  IF r.act = "go" /\ (r.brk \/ r.cont) THEN [r EXCEPT !.broke = r.brk]
           ELSE runBody(r, Tail(body), d)

runFor(s, words, l, d) ==
  IF words = <<>> THEN LeaveLoop(Unset(s, l.var))
  ELSE LET r == runBody(clearLoopFlags(Set(s, l.var)), l.body, d)
       IN  IF r.act # "go" THEN r
           ELSE IF r.broke THEN LeaveLoop(Unset(r, l.var))
           ELSE runFor(r, Tail(words), l, d)

runWhile(s, l, d, n) ==
  IF n = whileIterMax THEN Status(LeaveLoop(s), 1)
  ELSE LET c == runLine(clearLoopFlags(s), l.cond, d)
           r == runBody(c, l.body, d)
       IN  IF c.act # "go" THEN c
           ELSE IF c.st # 0 THEN LeaveLoop(c)
           ELSE IF r.act # "go" THEN r
           ELSE IF r.broke THEN LeaveLoop(r)
           ELSE runWhile(r, l, d, n + 1)

runIf(s, l, d) ==
  LET c == runLine(s, l.cond, d)
  IN  IF c.act # "go" THEN c
      ELSE IF c.st = 0 THEN runBody(c, l.then, d) ELSE runBody(c, l.else, d)

\* An arm holds the words its alternatives match.
caseMatch(arm, subject) == subject \in arm.words

runCase(s, l, d) ==
  LET hit == {i \in DOMAIN l.arms : caseMatch(l.arms[i], l.subject)}
  IN  IF hit = {} THEN Status(s, 0) ELSE runBody(s, l.arms[Lowest(hit)].body, d)

captureLine(s, l, d) ==
  [runLine([s EXCEPT !.capture = @ + 1], l, d) EXCEPT !.capture = s.capture]

commandSubst(s, l, d) ==
  LET r == captureLine(s, l.inner, d)
  IN  IF r.act # "go" THEN r ELSE runLine(r, l.outer, d)

\* What the parsers refuse.
tooMany(l) ==
  \/ l.op = "for" /\ Len(l.words) > forWordMax
  \/ l.op = "case" /\ Len(l.arms) > caseArmMax
  \/ l.op = "chain" /\ Len(l.segs) > chainMax

runLine(s, l, d) ==
  CASE l.op = "blank" -> s
    [] l.op = "overlong" -> Status(s, 1)
    [] l.op \notin {"blank", "overlong"} /\ d > runDepthMax -> Status(s, 2)
    [] l.op \notin {"blank", "overlong"} /\ d <= runDepthMax ->
         CASE tooMany(l) -> Status(s, 2)
           [] l.op = "error" -> Status(s, 1)
           [] l.op = "fn" -> define(s, l)
           [] l.op = "subst" -> commandSubst(s, l, d)
           [] l.op = "if" -> runIf(s, l, d)
           [] l.op = "for" /\ ~tooMany(l) -> runFor([s EXCEPT !.loops = @ + 1], l.words, l, d)
           [] l.op = "while" -> runWhile([s EXCEPT !.loops = @ + 1], l, d, 0)
           [] l.op = "case" /\ ~tooMany(l) -> runCase(s, l, d)
           [] l.op = "chain" /\ ~tooMany(l) -> runChain(s, l.segs, l.ops, d)
           [] l.op = "cmd" -> runSegment(s, l, d)
-----------------------------------------------------------------------------
(* The session. *)

NewShell ==
  [st |-> 0, act |-> "go", brk |-> FALSE, cont |-> FALSE, broke |-> FALSE, loops |-> 0,
   stray |-> FALSE, src |-> "", capture |-> 0, caught |-> 0, env |-> {}, pwd |-> "/",
   funcs |-> [f \in {} |-> <<>>], jobs |-> <<>>, nextN |-> 0, written |-> {}, tty |-> TRUE,
   slot |-> [p \in Pids |-> Free], born |-> 0, dead |-> {},
   front |-> "none", startup |-> StartupLines, typed |-> 0, spawns |-> 0]

shInit == sh = NewShell

\* The three front-ends open /dev/tty and attach it; a failure of either, or
\* a remote shell with neither credential nor `open`, ends the program.
runFront ==
  /\ sh.front = "none"
  /\ \E f \in {"tab", "serial", "net"}, opened, attached, credential, open \in BOOLEAN :
       sh' = [sh EXCEPT !.front =
                IF opened /\ attached /\ (f = "net" => credential \/ open)
                THEN f ELSE "left"]

\* -c LINE: one line, no terminal, no startup files.
runHeadless ==
  /\ sh.front = "none"
  /\ \E l \in TypedLines : sh' = [runLine([sh EXCEPT !.tty = FALSE], l, 0) EXCEPT !.front = "left"]

atPrompt == sh.front \in {"tab", "serial", "net"}

\* An action detaches the terminal and ends the program.
leave(s) == IF s.act = "go" THEN s ELSE [s EXCEPT !.front = "left"]

startupLine ==
  /\ atPrompt /\ sh.startup # <<>>
  /\ sh' = leave([runLine(sh, Head(sh.startup), 0) EXCEPT !.startup = Tail(@)])

submitLine ==
  /\ atPrompt /\ sh.startup = <<>> /\ sh.typed < MaxTyped
  /\ \E l \in TypedLines : sh' = leave([runLine(sh, l, 0) EXCEPT !.typed = @ + 1])

idleReap ==
  /\ atPrompt /\ sh.startup = <<>>
  /\ \E readable \in BOOLEAN : sh' = ReapJobs(sh, readable)

\* Ctrl-D on an empty line, or the window closed.
shutdown == atPrompt /\ sh.startup = <<>> /\ sh' = [sh EXCEPT !.front = "left"]

processExits ==
  /\ atPrompt
  /\ \E p \in Pids : sh.slot[p].state = "running" /\ sh' = Exited(sh, p)

\* Another program starts elsewhere and takes a slot until it exits.
spawnElsewhere ==
  /\ atPrompt /\ sh.spawns < MaxSpawns
  /\ \E name \in Lingering :
       /\ RunExternal(sh, name).pid # 0
       /\ sh' = [RunExternal(sh, name).s EXCEPT !.spawns = @ + 1]

shNext ==
  \/ runFront \/ runHeadless \/ startupLine \/ submitLine \/ idleReap \/ shutdown
  \/ processExits \/ spawnElsewhere

shSpec == shInit /\ [][shNext]_sh
-----------------------------------------------------------------------------
\* Between lines no loop flag, substitution or source request is left over,
\* whatever the line was made of; the one exception is a break or continue
\* that was run outside every loop (control flow of shlib/shell.go).
PromptClean ==
  /\ sh.act = "go" => sh.src = "" /\ sh.loops = 0
  /\ sh.capture = 0
  /\ sh.act = "go" /\ (sh.brk \/ sh.cont) => sh.stray

\* A job is reported done only after the process it started has exited, though
\* its pid may by then name another process and the registry may be unreadable
\* (ReapJobs, vi.Probe).
DoneJobsDead == \A i \in DOMAIN sh.jobs : sh.jobs[i].done => sh.jobs[i].inst \in sh.dead

\* A line leaves the shell ready for the next one, and a job reported done is
\* done (Run and ReapJobs of shlib).
ShellSound == PromptClean /\ DoneJobsDead
=============================================================================
