----------------------- MODULE SchedulerRegistryProofs -----------------------
(***************************************************************************)
(* Proofs about the process registry as the scheduler uses it, for any     *)
(* number of cores, tasks and processes: the live-task count is exact and  *)
(* a program at EL0 has a process that owns its pages.                     *)
(*                                                                         *)
(* Both need that create_as fills an unused slot: its scan for the slot is *)
(* some sections earlier, and on two cores, or when the shell is preempted *)
(* in between, two execs can have found the same one.  ScanHolds says of a *)
(* state that this has not happened; execs that overlap in any other way   *)
(* are covered.                                                            *)
(***************************************************************************)
EXTENDS SchedulerProofs

\* The slot found by the scan of an exec with the operands o is still unused.
Unused(o) == pstate[o.pid] = IF o.call = "recycle" THEN "exited" ELSE "free"

ScanHolds ==
  /\ \A c \in Cores : pc[c] = "create" => Unused(op[c])
  /\ cont.pc = "create" => Unused(cont.op)

ExecPCs == {"create", "register", "bind", "publish"}
MainPCs == Monitor \cup {"user", "hook", "reap", "contend"}
SvcPCs == {"zombie", "registry", "wake", "open", "unwind", "reap"}
Alive == {"ready", "running", "blocked"}

TasksOf(p) == {t \in Tasks : IsTaskOf(p, t)}

(***************************************************************************)
(* A task built by an exec and not yet published: off the rings, out of    *)
(* reach of every wake-up, in no process with another task.                *)
(***************************************************************************)
Alone(t) == \A u \in Tasks : u # t => find_by_task(u) \cap find_by_task(t) = {}

Sealed(t) ==
  /\ state[t] = "blocked" /\ wait[t] = "sleep" /\ left[t] = Never
  /\ Alone(t)

\* What an exec relies on at the section `label` with the operands o.
ExecFits(label, o) ==
  /\ label = "create" => o.pid \in Procs /\ Unused(o)
  /\ label \in {"register", "bind"} => o.pid \in Procs /\ pstate[o.pid] = "created"
  /\ label \in {"bind", "publish"} => o.task \in UserTasks /\ Sealed(o.task)
  /\ label = "bind" => find_by_task(o.task) = {}
  /\ label = "publish" => find_by_task(o.task) # {}

\* An exec is under way on a core, or is the preempted shell's.
AllFit ==
  (\A c \in Cores : ExecFits(pc[c], op[c])) /\ ExecFits(cont.pc, cont.op)

\* Two execs have slots and tasks of their own.
Distinct(k, m, l, o) ==
  /\ k \in {"register", "bind"} /\ l \in {"register", "bind"} => m.pid # o.pid
  /\ k \in {"bind", "publish"} /\ l \in {"bind", "publish"} => m.task # o.task

\* The shell that runs is not preempted, and execs are apart.
ExecSole ==
  /\ \A c \in Cores : current[c] = shell /\ pc[c] \in MainPCs => cont.pc \notin ExecPCs
  /\ \A c, d \in Cores : c # d => Distinct(pc[c], op[c], pc[d], op[d])
  /\ \A c \in Cores : Distinct(pc[c], op[c], cont.pc, cont.op)

InBuild(t) ==
  \/ \E c \in Cores : pc[c] \in {"bind", "publish"} /\ op[c].task = t
  \/ cont.pc \in {"bind", "publish"} /\ cont.op.task = t

(***************************************************************************)
(* An exit and a reap hold the service domains; the exiting task stays a   *)
(* zombie until the registry has heard of it.                              *)
(***************************************************************************)
SvcHeld == \A c \in Cores : pc[c] \in SvcPCs => svc = c

AtRegistry ==
  \A c \in Cores : pc[c] = "registry" => op[c].task \in UserTasks /\ state[op[c].task] = "zombie"

(***************************************************************************)
(* The current task of a core is running, except on its way out.           *)
(***************************************************************************)
RunningAt(c) ==
  Owns(c) /\ current[c] \in UserTasks /\ pc[c] \notin {"convert", "zombie"} =>
    state[current[c]] = "running"

Running == \A c \in Cores : RunningAt(c)

(***************************************************************************)
(* The registry: a task is of one process; a slot that is free is of none, *)
(* a live one of some process, a zombie until its core has been through    *)
(* on_task_exit; the count is the number of tasks.                         *)
(***************************************************************************)
TasksApart ==
  \A p, q \in Procs : \A t \in Tasks : IsTaskOf(p, t) /\ IsTaskOf(q, t) => p = q

NoThreads == \A p \in Procs : pstate[p] \in {"free", "created"} => thread_tasks[p] = {}

PagesHeld == \A p \in Procs : pstate[p] \in {"created", "running"} => pages[p]

LiveCount == \A p \in Procs : pstate[p] = "running" => live_tasks[p] = Cardinality(TasksOf(p))

RegisteredAt(t) ==
  /\ state[t] = "free" => find_by_task(t) = {}
  /\ state[t] \in Alive => find_by_task(t) # {} \/ InBuild(t)
  /\ state[t] = "zombie" /\ find_by_task(t) # {} =>
       \E c \in Cores : pc[c] = "registry" /\ op[c].task = t

Registered == \A t \in UserTasks : RegisteredAt(t)

RegInv == TasksApart /\ NoThreads /\ PagesHeld /\ LiveCount /\ Registered

ExecInv == AllFit /\ ExecSole

LifeInv == ExecInv /\ SvcHeld /\ AtRegistry /\ Running /\ RegInv
-----------------------------------------------------------------------------
(***************************************************************************)
(* The other cores stay where they are.                                    *)
(***************************************************************************)
Moved(c) ==
  \A d \in Cores : d # c => pc'[d] = pc[d] /\ op'[d] = op[d] /\ current'[d] = current[d]

\* What a step of core c that ends, frees and starts no task does to the slots.
Calm(c) ==
  \A t \in Tasks :
    /\ state'[t] = "free" <=> state[t] = "free"
    /\ state'[t] = "zombie" <=> state[t] = "zombie"
    /\ state[t] = "running" => state'[t] = "running" \/ (t = current[c] /\ Owns(c))
    /\ InBuild(t) => state'[t] = state[t] /\ wait'[t] = wait[t] /\ left'[t] = left[t]

SvcMove(c) ==
  /\ svc' = svc \/ svc \in {NoCore, c}
  /\ pc'[c] \in SvcPCs => svc' = c

\* Core c is not at work on an exec, and takes the shell up from no preemption.
ExecApart(c) ==
  /\ UNCHANGED cont
  /\ pc[c] \notin {"bind", "publish"} /\ pc'[c] \notin ExecPCs
  /\ current'[c] = shell /\ pc'[c] \in MainPCs => current[c] = shell /\ pc[c] \in MainPCs

LEMMA MovedGo ==
  ASSUME TypeInv, NEW c \in Cores, NEW label, Goto(c, label),
         UNCHANGED op \/ \E o : op' = [op EXCEPT ![c] = o],
         UNCHANGED current \/ \E n : current' = [current EXCEPT ![c] = n]
  PROVE  Moved(c) /\ pc'[c] = label
BY DEF TypeInv, CoreTy, RunTy, Goto, Moved

LEMMA FindSame ==
  ASSUME UNCHANGED <<pstate, task_id, thread_tasks>>
  PROVE  /\ \A p, t : IsTaskOf(p, t)' <=> IsTaskOf(p, t)
         /\ \A t : find_by_task(t)' = find_by_task(t)
         /\ \A p : TasksOf(p)' = TasksOf(p)
BY DEF IsTaskOf, find_by_task, TasksOf

\* A task under construction is out of reach.
LEMMA BuildSealed ==
  ASSUME AllFit, NEW t, InBuild(t)
  PROVE  t \in UserTasks /\ Sealed(t)
BY DEF AllFit, InBuild, ExecFits

\* Nobody owns it, and who is running has a process.
LEMMA OwnedFound ==
  ASSUME RunInv, LifeInv, NEW c \in Owners, current[c] \in UserTasks
  PROVE  ~InBuild(current[c]) /\ find_by_task(current[c]) # {}
<1>1. state[current[c]] \in {"ready", "running"}
  BY DEF RunInv, Held, Apart
<1>2. ~InBuild(current[c])
  BY <1>1, BuildSealed DEF LifeInv, ExecInv, Sealed
<1>3. QED
  BY <1>1, <1>2 DEF LifeInv, RegInv, Registered, RegisteredAt, Alive

-----------------------------------------------------------------------------
(***************************************************************************)
(* How each part of the invariant is kept.                                 *)
(***************************************************************************)
LEMMA RunningKept ==
  ASSUME TypeInv, RunInv, Running, NEW c \in Cores, Moved(c), RunningAt(c)',
         \A t \in Tasks : state[t] = "running" => state'[t] = "running" \/ (t = current[c] /\ Owns(c))
  PROVE  Running'
<1> SUFFICES ASSUME NEW d \in Cores PROVE RunningAt(d)'
  BY DEF Running
<1>1. CASE d = c
  BY <1>1
<1>2. CASE d # c
  <2>1. pc'[d] = pc[d] /\ current'[d] = current[d] /\ current[d] \in Tasks
    BY <1>2 DEF Moved, TypeInv, RunTy
  <2>2. Owns(d)' <=> Owns(d)
    BY <2>1 DEF Owns
  <2>3. Owns(c) /\ Owns(d) => current[c] # current[d]
    BY <1>2 DEF RunInv, Held, Apart, Owners
  <2>4. RunningAt(d)
    BY DEF Running
  <2>5. QED
    BY <2>1, <2>2, <2>3, <2>4 DEF RunningAt
<1>3. QED
  BY <1>1, <1>2

LEMMA SvcKept ==
  ASSUME TypeInv, SvcHeld, NEW c \in Cores, Moved(c), SvcMove(c)
  PROVE  SvcHeld'
BY Ground DEF SvcHeld, Moved, SvcMove

LEMMA AtRegistryKept ==
  ASSUME AtRegistry, NEW c \in Cores, Moved(c), pc'[c] # "registry",
         \A d \in Cores : d # c /\ pc[d] = "registry" =>
           (state[op[d].task] = "zombie" => state'[op[d].task] = "zombie")
  PROVE  AtRegistry'
BY DEF AtRegistry, Moved

\* The execs of the other cores, and the preempted one, as core c moves on.
LEMMA FitKept ==
  ASSUME AllFit, ExecSole, NEW c \in Cores, Moved(c), ExecApart(c),
         \A d \in Cores : d # c => ExecFits(pc[d], op[d])', ExecFits(cont.pc, cont.op)'
  PROVE  ExecInv'
<1>1. ExecFits(pc[c], op[c])'
  BY DEF ExecApart, ExecFits, ExecPCs
<1>2. AllFit'
  BY <1>1 DEF AllFit
<1>3. ExecSole'
  BY DEF ExecSole, Distinct, ExecPCs, ExecApart, Moved
<1>4. QED
  BY <1>2, <1>3 DEF ExecInv

LEMMA BuildKept ==
  ASSUME NEW c \in Cores, Moved(c), UNCHANGED cont, NEW t, InBuild(t),
         pc[c] \notin {"bind", "publish"} \/ t # op[c].task
  PROVE  InBuild(t)'
BY DEF InBuild, Moved

LEMMA RegisteredKept ==
  ASSUME Registered, TypeInv, TypeInv', \A t \in UserTasks : find_by_task(t)' = find_by_task(t),
         \A t \in UserTasks : /\ state'[t] = "free" <=> state[t] = "free"
                              /\ state'[t] = "zombie" <=> state[t] = "zombie"
                              /\ InBuild(t) => InBuild(t)',
         \A c \in Cores : pc[c] = "registry" => pc'[c] = "registry" /\ op'[c].task = op[c].task
  PROVE  Registered'
<1> SUFFICES ASSUME NEW t \in UserTasks PROVE RegisteredAt(t)'
  BY DEF Registered
<1>1. find_by_task(t)' = find_by_task(t)
  OBVIOUS
<1>2. state[t] \in States /\ state'[t] \in States
  BY Ground DEF TypeInv, RunTy
<1>3. RegisteredAt(t)
  BY DEF Registered
<1>4. QED
  BY <1>1, <1>2, <1>3 DEF RegisteredAt, Alive, States

\* A step that leaves the registry alone and starts and ends no task.
LEMMA CalmKeeps ==
  ASSUME TypeInv, RunInv, TypeInv', LifeInv, NEW c \in Cores, Moved(c), Calm(c), UNCHANGED procVars,
         RunningAt(c)', SvcMove(c), ExecApart(c), pc[c] # "registry", pc'[c] # "registry"
  PROVE  LifeInv'
<1>1. UNCHANGED <<pstate, task_id, thread_tasks, live_tasks, pages>>
  BY DEF procVars
<1>2. Running'
  BY RunningKept DEF LifeInv, Calm
<1>3. SvcHeld'
  BY SvcKept DEF LifeInv
<1>4. AtRegistry'
  <2>1. \A d \in Cores : pc[d] = "registry" => op[d].task \in Tasks
    BY Ground DEF LifeInv, AtRegistry
  <2>2. QED
    BY <2>1, AtRegistryKept DEF LifeInv, Calm
<1>5. ExecInv'
  <2>1. \A d \in Cores : d # c => ExecFits(pc[d], op[d])'
    <3> SUFFICES ASSUME NEW d \in Cores, d # c PROVE ExecFits(pc[d], op[d])'
      OBVIOUS
    <3>1. ExecFits(pc[d], op[d]) /\ pc'[d] = pc[d] /\ op'[d] = op[d]
      BY DEF LifeInv, ExecInv, AllFit, Moved
    <3>2. pc[d] \in {"bind", "publish"} =>
            /\ state'[op[d].task] = state[op[d].task]
            /\ wait'[op[d].task] = wait[op[d].task] /\ left'[op[d].task] = left[op[d].task]
      BY <3>1, Ground DEF Calm, InBuild, ExecFits
    <3>3. \A u : find_by_task(u)' = find_by_task(u)
      BY <1>1, FindSame
    <3>4. QED
      BY <1>1, <3>1, <3>2, <3>3 DEF ExecFits, Sealed, Alone, Unused
  <2>2. ExecFits(cont.pc, cont.op)'
    <3>1. ExecFits(cont.pc, cont.op) /\ cont' = cont
      BY DEF LifeInv, ExecInv, AllFit, ExecApart
    <3>2. cont.pc \in {"bind", "publish"} =>
            /\ state'[cont.op.task] = state[cont.op.task]
            /\ wait'[cont.op.task] = wait[cont.op.task]
            /\ left'[cont.op.task] = left[cont.op.task]
      BY <3>1, Ground DEF Calm, InBuild, ExecFits
    <3>3. \A u : find_by_task(u)' = find_by_task(u)
      BY <1>1, FindSame
    <3>4. QED
      BY <1>1, <3>1, <3>2, <3>3 DEF ExecFits, Sealed, Alone, Unused
  <2>3. QED
    BY <2>1, <2>2, FitKept DEF LifeInv, ExecInv
<1>6. Registered'
  <2>1. \A t \in UserTasks : InBuild(t) => InBuild(t)'
    BY BuildKept DEF ExecApart
  <2>2. \A d \in Cores : pc[d] = "registry" => pc'[d] = "registry" /\ op'[d].task = op[d].task
    BY DEF Moved
  <2>3. QED
    BY <1>1, <2>1, <2>2, FindSame, RegisteredKept, Ground DEF LifeInv, RegInv, Calm
<1>7. RegInv'
  <2>1. TasksApart' /\ LiveCount' /\ NoThreads' /\ PagesHeld'
    BY <1>1, FindSame DEF LifeInv, RegInv, TasksApart, LiveCount, NoThreads, PagesHeld
  <2>2. QED
    BY <1>6, <2>1 DEF RegInv
<1>8. QED
  BY <1>2, <1>3, <1>4, <1>5, <1>7 DEF LifeInv
-----------------------------------------------------------------------------
(***************************************************************************)
(* The steps that start, end and free no task, by what they do to a slot.  *)
(***************************************************************************)
LEMMA StillCalm ==
  ASSUME NEW c, UNCHANGED <<state, wait, left>>
  PROVE  Calm(c)
BY DEF Calm

LEMMA WakeCalm ==
  ASSUME TypeInv, NEW c, NEW W, \A t \in W : state[t] = "blocked" /\ ~InBuild(t),
         push_home_locked(W, state),
         \A t \in Tasks : InBuild(t) => wait'[t] = wait[t] /\ left'[t] = left[t]
  PROVE  Calm(c) /\ \A t \in Tasks : state[t] # "blocked" => state'[t] = state[t]
<1>1. \A t \in Tasks : state'[t] = IF t \in W THEN "ready" ELSE state[t]
  BY DEF push_home_locked
<1>2. QED
  BY <1>1 DEF Calm

LEMMA ParkCalm ==
  ASSUME TypeInv, RunInv, LifeInv, NEW c \in Owners, NEW t, t = current[c], t \in UserTasks,
         NEW what, NEW tgt, NEW ticks, Parked(c, t, what, tgt, ticks)
  PROVE  Calm(c)
<1>1. Owns(c) /\ state[t] \in {"ready", "running"} /\ ~InBuild(t)
  BY OwnedFound DEF Owners, RunInv, Held, Apart
<1>2. \A u \in Tasks : /\ state'[u] = IF u = t THEN "blocked" ELSE state[u]
                       /\ u # t => wait'[u] = wait[u] /\ left'[u] = left[u]
  BY DEF Parked, TypeInv, RunTy, WaitTy
<1>3. QED
  BY <1>1, <1>2 DEF Calm

\* The state a claim starts from: the rings hold ready tasks.
ClaimFrom(c, rings, st) ==
  /\ rings \in [Cores -> SUBSET Tasks] /\ st \in [Tasks -> States]
  /\ \A r \in Cores : \A t \in rings[r] : st[t] = "ready"
  /\ \A t \in Tasks :
       /\ st[t] = "free" <=> state[t] = "free"
       /\ st[t] = "zombie" <=> state[t] = "zombie"
       /\ state[t] = "running" => st[t] = "running" \/ (t = current[c] /\ Owns(c))
       /\ InBuild(t) => st[t] = state[t]

LEMMA ClaimCalm ==
  ASSUME TypeInv, LifeInv, NEW c \in Cores, NEW rings, NEW st, NEW after, NEW done,
         ClaimFrom(c, rings, st), ClaimAndStage(c, after, rings, st, done),
         UNCHANGED <<wait, left>>
  PROVE  /\ Calm(c) /\ RunningAt(c)'
         /\ \E label \in {"convert", done} : Goto(c, label)
         /\ \E n : current' = [current EXCEPT ![c] = n]
<1> DEFINE n == merged_next(c, after, rings)
<1>1. \A t \in Tasks : InBuild(t) => state[t] = "blocked"
  BY BuildSealed DEF LifeInv, ExecInv, Sealed
<1>2. CASE n = NoTask
  <2>1. /\ state' = st /\ current' = [current EXCEPT ![c] = idle_id] /\ Goto(c, done)
    BY <1>2 DEF ClaimAndStage
  <2>2. Calm(c)
    BY <2>1 DEF Calm, ClaimFrom
  <2>3. current'[c] \notin UserTasks
    BY <2>1, Ground DEF TypeInv, RunTy
  <2>4. RunningAt(c)'
    BY <2>3 DEF RunningAt
  <2>5. QED
    BY <2>1, <2>2, <2>4
<1>3. CASE n # NoTask
  <2>1. n \in Tasks /\ \E r \in Cores : n \in rings[r]
    BY <1>3, NextFound DEF ClaimFrom
  <2>2. /\ current' = [current EXCEPT ![c] = n]
        /\ \/ state' = st /\ Goto(c, "convert")
           \/ state' = [st EXCEPT ![n] = "running"] /\ Goto(c, done)
    BY <1>3 DEF ClaimAndStage
  <2> HIDE DEF n
  <2>3. st[n] = "ready"
    BY <2>1 DEF ClaimFrom
  <2>4. \A t \in Tasks : state'[t] = st[t] \/ (t = n /\ state'[t] = "running")
    BY <2>2 DEF ClaimFrom
  <2>5. Calm(c)
    BY <1>1, <2>3, <2>4 DEF Calm, ClaimFrom
  <2>6. current'[c] = n
    BY <2>2 DEF TypeInv, RunTy
  <2>7. RunningAt(c)'
    <3>1. CASE state' = st /\ Goto(c, "convert")
      <4>1. pc'[c] = "convert"
        BY <3>1 DEF Goto, TypeInv, CoreTy
      <4>2. QED
        BY <4>1 DEF RunningAt
    <3>2. CASE state' = [st EXCEPT ![n] = "running"]
      <4>1. state'[n] = "running"
        BY <2>1, <3>2 DEF ClaimFrom
      <4>2. QED
        BY <2>6, <4>1 DEF RunningAt
    <3>3. QED
      BY <2>2, <3>1, <3>2
  <2>8. QED
    BY <2>2, <2>5, <2>7
<1>4. QED
  BY <1>2, <1>3

(***************************************************************************)
(* A core moves on with the task it has.                                   *)
(***************************************************************************)
Leaving == Giving \cup {"convert", "zombie"}

LEMMA CalmGo ==
  ASSUME TypeInv, RunInv, TypeInv', LifeInv, NEW c \in Cores, NEW label, Goto(c, label),
         UNCHANGED op \/ \E o : op' = [op EXCEPT ![c] = o],
         UNCHANGED <<procVars, current, cont>>, Calm(c),
         pc[c] \notin {"bind", "publish", "registry"}, label \notin ExecPCs \cup {"registry"},
         label \in MainPCs => pc[c] \in MainPCs,
         svc' = svc \/ svc \in {NoCore, c}, label \in SvcPCs => svc' = c,
         \/ label \in Leaving
         \/ state'[current[c]] = "running"
         \/ pc[c] \notin Leaving /\ state'[current[c]] = state[current[c]]
  PROVE  LifeInv'
<1>1. Moved(c) /\ pc'[c] = label
  BY MovedGo
<1>2. RunningAt(c)'
  <2>1. RunningAt(c)
    BY DEF LifeInv, Running
  <2>2. current'[c] = current[c]
    OBVIOUS
  <2>3. QED
    BY <1>1, <2>1, <2>2 DEF RunningAt, Owns, Leaving, Giving
<1>3. SvcMove(c)
  BY <1>1 DEF SvcMove
<1>4. ExecApart(c)
  BY <1>1 DEF ExecApart
<1>5. QED
  BY <1>1, <1>2, <1>3, <1>4, CalmKeeps

LEMMA GotoSame ==
  ASSUME TypeInv, NEW c \in Cores, NEW label, pc[c] = label, UNCHANGED pc
  PROVE  Goto(c, label)
BY DEF Goto, TypeInv, CoreTy

LEMMA BeginLife ==
  ASSUME TypeInv, RunInv, TypeInv', LifeInv, NEW c \in Cores, NEW o, NEW label, Begin(c, o, label),
         pc[c] = "user", label \in {"block", "seat", "spin", "kill"}
  PROVE  LifeInv'
<1>1. /\ Goto(c, label) /\ op' = [op EXCEPT ![c] = o]
      /\ UNCHANGED <<procVars, current, cont, svc, state, wait, left>>
  BY DEF Begin, runVars, waitVars
<1>2. Calm(c)
  BY <1>1, StillCalm
<1>3. /\ pc[c] \notin {"bind", "publish", "registry"} /\ label \notin ExecPCs \cup {"registry"}
      /\ label \in MainPCs => pc[c] \in MainPCs
      /\ label \notin SvcPCs /\ pc[c] \notin Leaving
  BY DEF ExecPCs, MainPCs, SvcPCs, Leaving, Giving
<1>4. state'[current[c]] = state[current[c]] /\ svc' = svc
  BY <1>1
<1>5. QED
  BY <1>1, <1>2, <1>3, <1>4, CalmGo

\* A step of a program that changes nothing of this.
LEMMA StayLife ==
  ASSUME TypeInv, RunInv, TypeInv', LifeInv, NEW c \in Cores, pc[c] = "user", Calm(c),
         state'[current[c]] = state[current[c]],
         UNCHANGED <<procVars, current, pc, op, cont, svc>>
  PROVE  LifeInv'
<1>1. Goto(c, "user")
  BY GotoSame
<1>2. /\ "user" \notin ExecPCs \cup {"registry"} /\ "user" \notin SvcPCs /\ "user" \notin Leaving
      /\ "user" \in MainPCs
  BY DEF ExecPCs, SvcPCs, Leaving, Giving, MainPCs
<1>3. QED
  BY <1>1, <1>2, CalmGo
-----------------------------------------------------------------------------
(***************************************************************************)
(* Claims: the rotation and the claim of a successor.                      *)
(***************************************************************************)
LEMMA ClaimLife ==
  ASSUME TypeInv, RunInv, TypeInv', LifeInv, NEW c \in Cores, NEW rings, NEW st, NEW after, NEW done,
         ClaimFrom(c, rings, st), ClaimAndStage(c, after, rings, st, done),
         done = "leave" \/ (done = "unwind" /\ svc = c), pc[c] \notin {"bind", "publish", "registry"},
         UNCHANGED <<procVars, wait, left, op, cont, svc>>
  PROVE  LifeInv'
<1>1. /\ Calm(c) /\ RunningAt(c)'
      /\ \E label \in {"convert", done} : Goto(c, label)
      /\ \E n : current' = [current EXCEPT ![c] = n]
  BY ClaimCalm
<1>2. PICK label \in {"convert", done} : Goto(c, label)
  BY <1>1
<1>3. Moved(c) /\ pc'[c] = label
  BY <1>1, <1>2, MovedGo
<1>4. SvcMove(c)
  BY <1>3 DEF SvcMove, SvcPCs
<1>5. ExecApart(c) /\ pc'[c] # "registry"
  BY <1>3 DEF ExecApart, ExecPCs, MainPCs, Monitor
<1>6. QED
  BY <1>1, <1>3, <1>4, <1>5, CalmKeeps

LEMMA SwitchLife ==
  ASSUME TypeInv, RunInv, TypeInv', LifeInv, NEW c \in Owners, switch_context(c),
         pc[c] \in {"user", "rotate"}
  PROVE  LifeInv'
<1> DEFINE rings == [ring EXCEPT ![c] = @ \cup {current[c]}]
           st == [state EXCEPT ![current[c]] = "ready"]
<1>1. /\ ClaimAndStage(c, current[c], rings, st, "leave") /\ c \in Cores /\ Owns(c)
      /\ UNCHANGED <<procVars, wait, left, op, cont, svc>>
  BY DEF switch_context, Owners, waitVars
<1>2. /\ state[current[c]] \in {"ready", "running"} /\ current[c] \in Tasks
      /\ \A r \in Cores : \A t \in ring[r] : state[t] = "ready"
  BY <1>1 DEF RunInv, Held, Apart, Members, TypeInv, RunTy
<1>3. \A t \in Tasks : InBuild(t) => state[t] = "blocked"
  BY BuildSealed DEF LifeInv, ExecInv, Sealed
<1>4. ClaimFrom(c, rings, st)
  <2>1. rings \in [Cores -> SUBSET Tasks] /\ st \in [Tasks -> States]
    BY <1>2 DEF TypeInv, RunTy, States
  <2>2. \A t \in Tasks : st[t] = IF t = current[c] THEN "ready" ELSE state[t]
    BY DEF TypeInv, RunTy
  <2>3. \A r \in Cores : \A t \in rings[r] : t \in Tasks /\ (t \in ring[r] \/ t = current[c])
    BY <1>2 DEF TypeInv, RunTy
  <2> HIDE DEF rings, st
  <2>4. \A r \in Cores : \A t \in rings[r] : st[t] = "ready"
    BY <1>2, <2>2, <2>3
  <2>5. QED
    BY <1>1, <1>2, <1>3, <2>1, <2>2, <2>4 DEF ClaimFrom
<1> HIDE DEF rings, st
<1>5. QED
  BY <1>1, <1>4, ClaimLife

LEMMA ClaimNow ==
  ASSUME TypeInv, RunInv, NEW c \in Cores
  PROVE  ClaimFrom(c, ring, state)
BY DEF ClaimFrom, TypeInv, RunTy, RunInv, Held, Members

LEMMA RotateLife ==
  ASSUME TypeInv, RunInv, TypeInv', LifeInv, NEW c \in Cores
  PROVE  /\ tick_parked(c) => LifeInv'
         /\ tick_secondary(c) => LifeInv'
         /\ rotate(c) => LifeInv'
         /\ yield_current(c) => LifeInv'
         /\ claim_and_stage(c) => LifeInv'
<1>1. ASSUME tick_parked(c) PROVE LifeInv'
  <2>1. /\ ClaimAndStage(c, idle_id, ring, state, "leave") /\ pc[c] = "user"
        /\ UNCHANGED <<procVars, wait, left, op, cont, svc>>
    BY <1>1 DEF tick_parked, waitVars
  <2>2. QED
    BY <2>1, ClaimNow, ClaimLife
<1>2. ASSUME tick_secondary(c) PROVE LifeInv'
  BY <1>2, OwnsNow, SwitchLife DEF tick_secondary, Giving
<1>3. ASSUME rotate(c) PROVE LifeInv'
  <2>1. c = 0 /\ pc[c] = "rotate" /\ switch_context(c)
    BY <1>3 DEF rotate, RunInv, OwnOperand, OpOwn
  <2>2. QED
    BY <2>1, OwnsNow, SwitchLife DEF Giving
<1>4. ASSUME yield_current(c) PROVE LifeInv'
  <2>1. pc[c] = "user" /\ current[c] \in UserTasks /\ switch_context(c)
    BY <1>4, ProgramTask DEF yield_current
  <2>2. QED
    BY <2>1, OwnsNow, SwitchLife, Ground DEF Giving
<1>5. ASSUME claim_and_stage(c) PROVE LifeInv'
  <2>1. /\ ClaimAndStage(c, op[c].task, ring, state, Done(c)) /\ pc[c] = "claim"
        /\ UNCHANGED <<procVars, wait, left, op, cont, svc>>
    BY <1>5 DEF claim_and_stage, waitVars
  <2>2. Done(c) = "leave" \/ (Done(c) = "unwind" /\ svc = c)
    BY DEF Done
  <2>3. QED
    BY <2>1, <2>2, ClaimNow, ClaimLife
<1>6. QED
  BY <1>1, <1>2, <1>3, <1>4, <1>5

(***************************************************************************)
(* Blocking, waking and the exit sections that touch no task's life.       *)
(***************************************************************************)
LEMMA ParkLife ==
  ASSUME TypeInv, RunInv, TypeInv', LifeInv, NEW c \in Cores, NEW t, t = current[c], t \in UserTasks,
         NEW what, NEW tgt, NEW ticks, Parked(c, t, what, tgt, ticks),
         pc[c] \in {"user", "block", "seat"}, UNCHANGED op \/ \E o : op' = [op EXCEPT ![c] = o],
         UNCHANGED <<procVars, current, cont, svc>>
  PROVE  LifeInv'
<1>1. c \in Owners
  BY OwnsNow, Ground DEF Giving
<1>2. Calm(c)
  BY <1>1, ParkCalm
<1>3. Goto(c, "claim")
  BY DEF Parked
<1>4. /\ pc[c] \notin {"bind", "publish", "registry"} /\ "claim" \notin ExecPCs \cup {"registry"}
      /\ "claim" \notin MainPCs /\ "claim" \notin SvcPCs /\ "claim" \in Leaving
  BY DEF ExecPCs, MainPCs, Monitor, SvcPCs, Leaving, Giving
<1>5. QED
  BY <1>2, <1>3, <1>4, CalmGo

\* A wake from a section of core c.
LEMMA WakeLife ==
  ASSUME TypeInv, RunInv, TypeInv', LifeInv, NEW c \in Cores, NEW label, Goto(c, label),
         NEW W, \A t \in W : state[t] = "blocked" /\ ~InBuild(t), push_home_locked(W, state),
         \A t \in Tasks : InBuild(t) => wait'[t] = wait[t] /\ left'[t] = left[t],
         \/ label = "leave" /\ pc[c] = "hook"
         \/ label = "open" /\ pc[c] = "wake"
         \/ label = "user" /\ pc[c] = "user",
         UNCHANGED <<procVars, current, op, cont, svc>>
  PROVE  LifeInv'
<1>1. Calm(c) /\ \A t \in Tasks : state[t] # "blocked" => state'[t] = state[t]
  BY WakeCalm
<1>2. /\ pc[c] \notin {"bind", "publish", "registry"} /\ label \notin ExecPCs \cup {"registry"}
      /\ label \in MainPCs => pc[c] \in MainPCs
      /\ label \in Leaving \/ pc[c] \notin Leaving
  BY DEF ExecPCs, MainPCs, Monitor, Leaving, Giving
<1>3. label \in SvcPCs => svc' = c
  BY DEF SvcPCs, LifeInv, SvcHeld
<1>4. label \notin Leaving /\ current[c] \in UserTasks => state'[current[c]] = state[current[c]]
  <2>1. ASSUME label \notin Leaving, current[c] \in UserTasks PROVE c \in Owners
    BY <1>2, <2>1, OwnsNow, Ground DEF Leaving
  <2>2. QED
    BY <1>1, <2>1 DEF RunInv, Held, Apart, TypeInv, RunTy
<1>5. Moved(c) /\ pc'[c] = label
  BY MovedGo
<1>6. RunningAt(c)'
  <2>1. RunningAt(c)
    BY DEF LifeInv, Running
  <2>2. QED
    BY <1>2, <1>4, <1>5, <2>1 DEF RunningAt, Owns, Leaving, Giving
<1>7. SvcMove(c) /\ ExecApart(c) /\ pc'[c] # "registry"
  BY <1>2, <1>3, <1>5 DEF SvcMove, ExecApart
<1>8. QED
  BY <1>1, <1>2, <1>5, <1>6, <1>7, CalmKeeps
\* A section that leaves every slot alone.
LEMMA StillLife ==
  ASSUME TypeInv, RunInv, TypeInv', LifeInv, NEW c \in Cores, NEW label, Goto(c, label),
         UNCHANGED op \/ \E o : op' = [op EXCEPT ![c] = o],
         UNCHANGED <<procVars, state, current, wait, left, cont>>,
         svc' = svc \/ svc \in {NoCore, c},
         \/ label = "leave" /\ pc[c] \in {"seat", "kill", "unwind"}
         \/ label = "zombie" /\ svc' = c /\ pc[c] \in {"user", "spin", "convert"}
         \/ label \in {"hook", "contend"} /\ pc[c] = "user"
         \/ label = "user" /\ pc[c] = "contend"
         \/ label = "claim" /\ pc[c] = "open"
  PROVE  LifeInv'
<1>1. Calm(c)
  BY StillCalm
<1>2. /\ pc[c] \notin {"bind", "publish", "registry"} /\ label \notin ExecPCs \cup {"registry"}
      /\ label \in MainPCs => pc[c] \in MainPCs
      /\ label \in SvcPCs => svc' = c
      /\ label \in Leaving \/ (pc[c] \notin Leaving /\ state'[current[c]] = state[current[c]])
  BY DEF ExecPCs, MainPCs, Monitor, SvcPCs, Leaving, Giving
<1>3. QED
  BY <1>1, <1>2, CalmGo

LEMMA BlockLife ==
  ASSUME TypeInv, RunInv, TypeInv', LifeInv, NEW c \in Cores
  PROVE  /\ wait_current(c) => LifeInv'
         /\ wait_event_current(c) => LifeInv'
         /\ futex_seat(c) => LifeInv'
         /\ wake_event_waiters(c) => LifeInv'
         /\ request_kill(c) => LifeInv'
         /\ lock_spin(c) \/ lock_won(c) => LifeInv'
<1>0. \A t \in Tasks : InBuild(t) => state[t] = "blocked" /\ wait[t] = "sleep" /\ left[t] = Never
  BY BuildSealed DEF LifeInv, ExecInv, Sealed
<1>1. pc[c] \in {"block", "seat"} => op[c].task = current[c] /\ current[c] \in UserTasks
  BY DEF RunInv, OwnOperand, OpOwn
<1>2. ASSUME wait_current(c) PROVE LifeInv'
  <2>1. /\ pc[c] = "block" /\ Parked(c, op[c].task, "pid", op[c].val, Never)
        /\ UNCHANGED <<procVars, current, cont, svc, op>>
    BY <1>2 DEF wait_current
  <2>2. QED
    BY <1>1, <2>1, ParkLife
<1>3. ASSUME wait_event_current(c) PROVE LifeInv'
  <2>1. /\ pc[c] = "block" /\ Parked(c, op[c].task, "event", op[c].val, Never)
        /\ UNCHANGED <<procVars, current, cont, svc, op>>
    BY <1>3 DEF wait_event_current
  <2>2. QED
    BY <1>1, <2>1, ParkLife
<1>4. ASSUME futex_seat(c) PROVE LifeInv'
  <2>1. pc[c] = "seat" /\ UNCHANGED <<procVars, cont, svc, op>>
    BY <1>4 DEF futex_seat
  <2>2. CASE Parked(c, op[c].task, "futex", NoTask, op[c].ticks) /\ UNCHANGED current
    BY <1>1, <2>1, <2>2, ParkLife
  <2>3. CASE Goto(c, "leave") /\ UNCHANGED <<runVars, waitVars>>
    <3>1. UNCHANGED <<state, current, wait, left>>
      BY <2>3 DEF runVars, waitVars
    <3>2. QED
      BY <2>1, <2>3, <3>1, StillLife
  <2>4. QED
    BY <1>4, <2>2, <2>3 DEF futex_seat
<1>5. ASSUME wake_event_waiters(c) PROVE LifeInv'
  <2> DEFINE W == EventWaiters({op[c].val})
  <2>1. /\ pc[c] = "hook" /\ Goto(c, "leave") /\ push_home_locked(W, state) /\ wait' = Woken(W)
        /\ UNCHANGED <<procVars, current, op, cont, svc, left>>
    BY <1>5 DEF wake_event_waiters
  <2>2. \A t \in W : t \in Tasks /\ state[t] = "blocked" /\ wait[t] = "event"
    BY DEF EventWaiters
  <2> HIDE DEF W
  <2>3. \A t \in W : state[t] = "blocked" /\ ~InBuild(t)
    BY <1>0, <2>2
  <2>4. \A t \in Tasks : InBuild(t) => wait'[t] = wait[t] /\ left'[t] = left[t]
    BY <2>1, <2>3 DEF Woken
  <2>5. QED
    BY <2>1, <2>3, <2>4, WakeLife
<1>6. ASSUME request_kill(c) PROVE LifeInv'
  <2>1. /\ pc[c] = "kill" /\ Goto(c, "leave")
        /\ UNCHANGED <<procVars, state, current, wait, left, cont, svc, op>>
    BY <1>6 DEF request_kill, runVars, waitVars
  <2>2. QED
    BY <2>1, StillLife
<1>7. ASSUME lock_spin(c) \/ lock_won(c) PROVE LifeInv'
  <2>1. /\ \/ pc[c] = "user" /\ Goto(c, "contend")
           \/ pc[c] = "contend" /\ Goto(c, "user")
        /\ UNCHANGED <<procVars, state, current, wait, left, cont, svc, op>>
    BY <1>7 DEF lock_spin, lock_won, Program, runVars, waitVars
  <2>2. QED
    BY <2>1, StillLife
<1>8. QED
  BY <1>2, <1>3, <1>4, <1>5, <1>6, <1>7

LEMMA LeaveLife ==
  ASSUME TypeInv, RunInv, TypeInv', LifeInv, NEW c \in Cores
  PROVE  /\ tick_convert(c) => LifeInv'
         /\ exit_current(c) => LifeInv'
         /\ convert_kill(c) => LifeInv'
         /\ convert_deferred(c) => LifeInv'
         /\ wake_waiters(c) => LifeInv'
         /\ exit_open(c) => LifeInv'
         /\ exit_unwind(c) => LifeInv'
<1>0. \A t \in Tasks : InBuild(t) => state[t] = "blocked" /\ wait[t] = "sleep" /\ left[t] = Never
  BY BuildSealed DEF LifeInv, ExecInv, Sealed
<1>1. ASSUME tick_convert(c) PROVE LifeInv'
  <2>1. /\ Goto(c, "zombie") /\ pc[c] = "user" /\ svc = NoCore /\ svc' = c
        /\ UNCHANGED <<procVars, state, current, wait, left, cont>>
        /\ \E o : op' = [op EXCEPT ![c] = o]
    BY <1>1 DEF tick_convert, runVars, waitVars, ExitOp
  <2>2. QED
    BY <2>1, StillLife
<1>2. ASSUME exit_current(c) PROVE LifeInv'
  <2>1. /\ Goto(c, "zombie") /\ pc[c] = "spin" /\ svc = NoCore /\ svc' = c
        /\ UNCHANGED <<procVars, state, current, wait, left, cont, op>>
    BY <1>2 DEF exit_current, runVars, waitVars
  <2>2. QED
    BY <2>1, StillLife
<1>3. ASSUME convert_kill(c) PROVE LifeInv'
  <2>1. /\ Goto(c, "zombie") /\ pc[c] = "convert" /\ svc \in {NoCore, c} /\ svc' = c
        /\ UNCHANGED <<procVars, state, current, wait, left, cont>>
        /\ \E o : op' = [op EXCEPT ![c] = o]
    BY <1>3 DEF convert_kill, runVars, waitVars, ExitOp
  <2>2. QED
    BY <2>1, StillLife
<1>4. ASSUME convert_deferred(c) PROVE LifeInv'
  <2>1. /\ Goto(c, "leave") /\ pc[c] = "convert" /\ state' = [state EXCEPT ![current[c]] = "running"]
        /\ UNCHANGED <<procVars, current, wait, left, cont, op, svc>>
    BY <1>4 DEF convert_deferred, waitVars
  <2>2. current[c] \in UserTasks /\ current[c] \in Tasks
    BY <2>1, Ground DEF RunInv, OwnOperand, OpOwn
  <2>3. c \in Owners
    BY <2>1, <2>2, OwnsNow, Ground DEF Giving
  <2>4. state[current[c]] \in {"ready", "running"}
    BY <2>3 DEF RunInv, Held, Apart
  <2>5. \A t \in Tasks : state'[t] = IF t = current[c] THEN "running" ELSE state[t]
    BY <2>1 DEF TypeInv, RunTy
  <2>6. Calm(c)
    BY <1>0, <2>1, <2>4, <2>5 DEF Calm
  <2>7. /\ pc[c] \notin {"bind", "publish", "registry"} /\ "leave" \notin ExecPCs \cup {"registry"}
        /\ "leave" \notin MainPCs /\ "leave" \notin SvcPCs /\ state'[current[c]] = "running"
    BY <2>1, <2>2, <2>5 DEF ExecPCs, MainPCs, Monitor, SvcPCs
  <2>8. QED
    BY <2>1, <2>6, <2>7, CalmGo
<1>5. ASSUME wake_waiters(c) PROVE LifeInv'
  <2> DEFINE W == ExitWaiters({op[c].pid})
  <2>1. /\ pc[c] = "wake" /\ Goto(c, "open") /\ push_home_locked(W, state) /\ wait' = Woken(W)
        /\ UNCHANGED <<procVars, current, op, cont, svc, left>>
    BY <1>5 DEF wake_waiters
  <2>2. \A t \in W : t \in Tasks /\ state[t] = "blocked" /\ wait[t] = "pid"
    BY DEF ExitWaiters
  <2> HIDE DEF W
  <2>3. \A t \in W : state[t] = "blocked" /\ ~InBuild(t)
    BY <1>0, <2>2
  <2>4. \A t \in Tasks : InBuild(t) => wait'[t] = wait[t] /\ left'[t] = left[t]
    BY <2>1, <2>3 DEF Woken
  <2>5. QED
    BY <2>1, <2>3, <2>4, WakeLife
<1>6. ASSUME exit_open(c) PROVE LifeInv'
  <2>1. /\ pc[c] = "open" /\ Goto(c, "claim")
        /\ UNCHANGED <<procVars, state, current, wait, left, cont, svc, op>>
    BY <1>6 DEF exit_open, runVars, waitVars
  <2>2. QED
    BY <2>1, StillLife
<1>7. ASSUME exit_unwind(c) PROVE LifeInv'
  <2>1. /\ pc[c] = "unwind" /\ Goto(c, "leave")
        /\ UNCHANGED <<procVars, state, current, wait, left, cont, op>>
    BY <1>7 DEF exit_unwind, runVars, waitVars
  <2>2. svc = c
    BY <2>1 DEF LifeInv, SvcHeld, SvcPCs
  <2>3. QED
    BY <2>1, <2>2, StillLife
<1>8. QED
  BY <1>1, <1>2, <1>3, <1>4, <1>5, <1>6, <1>7

(***************************************************************************)
(* What programs do without starting or ending a task.                     *)
(***************************************************************************)
LEMMA ProgramLife ==
  ASSUME TypeInv, RunInv, TypeInv', LifeInv, NEW c \in Cores
  PROVE  /\ Return(c) => LifeInv'
         /\ handle_wait_event(c) => LifeInv'
         /\ futex_store(c) => LifeInv'
         /\ futex_wake(c) => LifeInv'
         /\ exit_thread_current(c) => LifeInv'
         /\ pin_task(c) => LifeInv'
         /\ \A ticks : sleep_current(c, ticks) => LifeInv'
         /\ \A ticks : futex_wait_current(c, ticks) => LifeInv'
         /\ \A p : handle_wait(c, p) => LifeInv'
         /\ \A p : events_push(c, p) => LifeInv'
         /\ \A p : handle_kill(c, p) => LifeInv'
         /\ \A status : handle_exit(c, status) => LifeInv'
<1>0. \A t \in Tasks : InBuild(t) => Sealed(t)
  BY BuildSealed DEF LifeInv, ExecInv
<1>1. ASSUME pc[c] = "user", UNCHANGED <<procVars, state, current, wait, left, coreVars>> PROVE LifeInv'
  <2>1. Calm(c) /\ UNCHANGED <<pc, op, cont, svc>> /\ state'[current[c]] = state[current[c]]
    BY <1>1, StillCalm DEF coreVars
  <2>2. QED
    BY <1>1, <2>1, StayLife
<1>2. ASSUME Return(c) PROVE LifeInv'
  BY <1>1, <1>2 DEF Return, runVars, coreVars
<1>3. ASSUME handle_wait_event(c) PROVE LifeInv'
  <2>1. pc[c] = "user"
    BY <1>3 DEF handle_wait_event
  <2>2. CASE \E o : Begin(c, o, "block")
    BY <2>1, <2>2, BeginLife
  <2>3. CASE UNCHANGED <<procVars, runVars, wait, left, coreVars>>
    BY <1>1, <2>1, <2>3 DEF runVars, coreVars
  <2>4. QED
    BY <1>3, <2>2, <2>3 DEF handle_wait_event
<1>4. ASSUME futex_store(c) PROVE LifeInv'
  <2>1. pc[c] = "user" /\ UNCHANGED <<procVars, runVars, waitVars, coreVars>>
    BY <1>4 DEF futex_store, Program
  <2>2. QED
    BY <1>1, <2>1 DEF runVars, waitVars, coreVars
<1>5. ASSUME futex_wake(c) PROVE LifeInv'
  <2>0. PICK v \in Tasks : \E p \in find_by_task(v) :
          /\ Program(c, v)
          /\ LET W == {u \in SeatedIn(p) : state[u] = "blocked"} IN
               /\ push_home_locked(W, state) /\ wait' = Woken(W)
               /\ left' = [u \in Tasks |-> IF u \in W THEN Never ELSE left[u]]
    BY <1>5 DEF futex_wake
  <2>1. PICK p \in find_by_task(v) :
          /\ Program(c, v)
          /\ LET W == {u \in SeatedIn(p) : state[u] = "blocked"} IN
               /\ push_home_locked(W, state) /\ wait' = Woken(W)
               /\ left' = [u \in Tasks |-> IF u \in W THEN Never ELSE left[u]]
    BY <2>0
  <2> DEFINE W == {u \in SeatedIn(p) : state[u] = "blocked"}
  <2>2. /\ pc[c] = "user" /\ UNCHANGED <<procVars, current, coreVars>>
        /\ push_home_locked(W, state) /\ wait' = Woken(W)
        /\ left' = [u \in Tasks |-> IF u \in W THEN Never ELSE left[u]]
    BY <1>5, <2>1 DEF futex_wake, Program
  <2>3. \A t \in W : state[t] = "blocked" /\ t \in Tasks /\ find_by_task(t) = {p}
    BY DEF SeatedIn
  <2> HIDE DEF W
  <2>8. state[v] # "blocked"
    <3>1. v = current[c] /\ v \in UserTasks
      BY <2>1, ProgramTask
    <3>2. c \in Owners
      BY <2>2, <3>1, OwnsNow, Ground DEF Giving
    <3>3. QED
      BY <3>1, <3>2 DEF RunInv, Held, Apart
  <2>4. \A t \in W : state[t] = "blocked" /\ ~InBuild(t)
    BY <1>0, <2>1, <2>3, <2>8 DEF Sealed, Alone
  <2>5. \A t \in Tasks : InBuild(t) => wait'[t] = wait[t] /\ left'[t] = left[t]
    BY <2>2, <2>4 DEF Woken
  <2>6. Goto(c, "user") /\ UNCHANGED <<op, cont, svc>>
    BY <2>2, GotoSame DEF coreVars
  <2>7. QED
    BY <2>2, <2>4, <2>5, <2>6, WakeLife
<1>6. ASSUME exit_thread_current(c) PROVE LifeInv'
  <2>1. pc[c] = "user" /\ \E o : Begin(c, o, "spin")
    BY <1>6, ProgramTask DEF exit_thread_current
  <2>2. QED
    BY <2>1, BeginLife
<1>7. ASSUME pin_task(c) PROVE LifeInv'
  <2>1. pc[c] = "user" /\ UNCHANGED <<procVars, runVars, waitVars, coreVars>>
    BY <1>7 DEF pin_task, Program
  <2>2. QED
    BY <1>1, <2>1 DEF runVars, waitVars, coreVars
<1>8. ASSUME NEW ticks, sleep_current(c, ticks) PROVE LifeInv'
  <2>1. PICK t \in Tasks : /\ Program(c, t) /\ Parked(c, t, "sleep", NoTask, ticks)
                           /\ \E o : op' = [op EXCEPT ![c] = o]
    BY <1>8 DEF sleep_current
  <2>2. t = current[c] /\ t \in UserTasks /\ pc[c] = "user"
    BY <2>1, ProgramTask
  <2>3. UNCHANGED <<procVars, current, cont, svc>>
    BY <1>8 DEF sleep_current
  <2>4. QED
    BY <2>1, <2>2, <2>3, ParkLife
<1>9. ASSUME NEW ticks, futex_wait_current(c, ticks) PROVE LifeInv'
  <2>1. pc[c] = "user" /\ \E o : Begin(c, o, "seat")
    BY <1>9, ProgramTask DEF futex_wait_current
  <2>2. QED
    BY <2>1, BeginLife
<1>10. ASSUME NEW p, handle_wait(c, p) PROVE LifeInv'
  <2>1. pc[c] = "user"
    BY <1>10, ProgramTask DEF handle_wait
  <2>2. CASE \E o : Begin(c, o, "block")
    BY <2>1, <2>2, BeginLife
  <2>3. CASE UNCHANGED <<procVars, runVars, wait, left, coreVars>>
    BY <1>1, <2>1, <2>3 DEF runVars, coreVars
  <2>4. QED
    BY <1>10, <2>2, <2>3 DEF handle_wait
<1>11. ASSUME NEW p, events_push(c, p) PROVE LifeInv'
  <2>1. /\ pc[c] = "user" /\ Goto(c, "hook") /\ \E o : op' = [op EXCEPT ![c] = o]
        /\ UNCHANGED <<procVars, state, current, wait, left, cont, svc>>
    BY <1>11 DEF events_push, Actor, runVars, waitVars
  <2>2. QED
    BY <2>1, StillLife
<1>12. ASSUME NEW p, handle_kill(c, p) PROVE LifeInv'
  <2>1. pc[c] = "user" /\ \E o : Begin(c, o, "kill")
    BY <1>12 DEF handle_kill, Caller, Actor
  <2>2. QED
    BY <2>1, BeginLife
<1>13. ASSUME NEW status, handle_exit(c, status) PROVE LifeInv'
  <2>1. pc[c] = "user" /\ \E o : Begin(c, o, "spin")
    BY <1>13, ProgramTask DEF handle_exit
  <2>2. QED
    BY <2>1, BeginLife
<1>14. QED
  BY <1>2, <1>3, <1>4, <1>5, <1>6, <1>7, <1>8, <1>9, <1>10, <1>11, <1>12, <1>13
-----------------------------------------------------------------------------
(***************************************************************************)
(* The timer interrupt and the exception return carry the shell's exec to  *)
(* `cont` and back.                                                        *)
(***************************************************************************)
\* An exec at the section l with the operands o was under way before the step.
Carried(c, l, o) ==
  l \in ExecPCs => (l = pc[c] /\ o = op[c]) \/ (l = cont.pc /\ o = cont.op)

LEMMA ContKeeps ==
  ASSUME TypeInv, RunInv, TypeInv', LifeInv, NEW c \in Cores, Moved(c), Calm(c), UNCHANGED procVars,
         RunningAt(c)', SvcMove(c), pc[c] # "registry", pc'[c] # "registry", ExecSole',
         Carried(c, pc'[c], op'[c]), Carried(c, cont'.pc, cont'.op),
         \A t : InBuild(t) => InBuild(t)'
  PROVE  LifeInv'
<1>1. UNCHANGED <<pstate, task_id, thread_tasks, live_tasks, pages>>
  BY DEF procVars
<1>2. Running'
  BY RunningKept DEF LifeInv, Calm
<1>3. SvcHeld'
  BY SvcKept DEF LifeInv
<1>4. AtRegistry'
  <2>1. \A d \in Cores : pc[d] = "registry" => op[d].task \in Tasks
    BY Ground DEF LifeInv, AtRegistry
  <2>2. QED
    BY <2>1, AtRegistryKept DEF LifeInv, Calm
<1>5. \A t : InBuild(t) => t \in Tasks /\ state'[t] = state[t] /\ wait'[t] = wait[t] /\ left'[t] = left[t]
  BY BuildSealed, Ground DEF LifeInv, ExecInv, Calm
<1>6. \A d \in Cores : /\ ExecFits(pc[d], op[d])
                       /\ pc[d] \in {"bind", "publish"} => InBuild(op[d].task)
  BY DEF LifeInv, ExecInv, AllFit, InBuild
<1>7. ExecFits(cont.pc, cont.op) /\ (cont.pc \in {"bind", "publish"} => InBuild(cont.op.task))
  BY DEF LifeInv, ExecInv, AllFit, InBuild
<1>8. \A t : find_by_task(t)' = find_by_task(t)
  BY <1>1, FindSame
<1>9. ASSUME NEW l, NEW o,
             Carried(c, l, o) \/ \E d \in Cores : l = pc[d] /\ o = op[d]
      PROVE  ExecFits(l, o)'
  <2>1. CASE l \notin ExecPCs
    BY <2>1 DEF ExecFits, ExecPCs
  <2>2. CASE l \in ExecPCs
    <3>1. ExecFits(l, o) /\ (l \in {"bind", "publish"} => InBuild(o.task))
      BY <1>6, <1>7, <1>9, <2>2 DEF Carried
    <3>2. l \in {"bind", "publish"} =>
            /\ state'[o.task] = state[o.task] /\ wait'[o.task] = wait[o.task]
            /\ left'[o.task] = left[o.task]
      BY <1>5, <3>1
    <3>3. QED
      BY <1>1, <1>8, <3>1, <3>2 DEF ExecFits, Sealed, Alone, Unused
  <2>3. QED
    BY <2>1, <2>2
<1>10. AllFit'
  <2>1. ASSUME NEW d \in Cores PROVE ExecFits(pc[d], op[d])'
    <3>1. PICK l, o : l = pc'[d] /\ o = op'[d]
      OBVIOUS
    <3>2. ExecFits(l, o)'
      BY <1>9, <3>1 DEF Moved
    <3>3. QED
      BY <3>1, <3>2 DEF ExecFits, Sealed, Alone, Unused, find_by_task, IsTaskOf
  <2>2. ExecFits(cont.pc, cont.op)'
    <3>1. PICK l, o : l = cont'.pc /\ o = cont'.op
      OBVIOUS
    <3>2. ExecFits(l, o)'
      BY <1>9, <3>1
    <3>3. QED
      BY <3>1, <3>2 DEF ExecFits, Sealed, Alone, Unused, find_by_task, IsTaskOf
  <2>3. QED
    BY <2>1, <2>2 DEF AllFit
<1>11. Registered'
  <2>1. \A d \in Cores : pc[d] = "registry" => pc'[d] = "registry" /\ op'[d].task = op[d].task
    BY DEF Moved
  <2>2. QED
    BY <1>8, <2>1, RegisteredKept, Ground DEF LifeInv, RegInv, Calm
<1>12. RegInv'
  <2>1. TasksApart' /\ LiveCount' /\ NoThreads' /\ PagesHeld'
    BY <1>1, FindSame DEF LifeInv, RegInv, TasksApart, LiveCount, NoThreads, PagesHeld
  <2>2. QED
    BY <1>11, <2>1 DEF RegInv
<1>13. QED
  BY <1>2, <1>3, <1>4, <1>10, <1>12 DEF LifeInv, ExecInv

LEMMA InterruptLife ==
  ASSUME TypeInv, RunInv, TypeInv', LifeInv, NEW c \in Cores, Interrupt(c), Calm(c),
         state'[current[c]] = state[current[c]] \/ current[c] \notin UserTasks,
         UNCHANGED <<procVars, current, svc>>
  PROVE  LifeInv'
<1>1. /\ Goto(c, "rotate") /\ op' = [op EXCEPT ![c] = NoOp] /\ c = 0
      /\ pc[c] \in MainPCs /\ (pc[c] \in ExecPCs => current[c] = shell)
      /\ cont' = IF current[c] = shell THEN [pc |-> pc[c], op |-> op[c]] ELSE cont
  BY DEF Interrupt, Interruptible, MainPCs, Monitor, ExecPCs
<1>2. Moved(c) /\ pc'[c] = "rotate"
  BY <1>1, MovedGo
<1>3. SvcMove(c)
  BY <1>2 DEF SvcMove, SvcPCs
<1>4. RunningAt(c)'
  <2>1. RunningAt(c) /\ current'[c] = current[c]
    BY DEF LifeInv, Running
  <2>2. QED
    BY <1>1, <1>2, <2>1 DEF RunningAt, Owns, MainPCs, Monitor
<1>5. pc[c] # "registry" /\ pc'[c] # "registry"
  BY <1>1, <1>2 DEF MainPCs, Monitor
<1>6. current[c] = shell => cont.pc \notin ExecPCs
  BY <1>1 DEF LifeInv, ExecInv, ExecSole
<1>7. Carried(c, pc'[c], op'[c]) /\ Carried(c, cont'.pc, cont'.op)
  BY <1>1, <1>2 DEF Carried, ExecPCs
<1>8. \A t : InBuild(t) => InBuild(t)'
  BY <1>1, <1>2, <1>6 DEF InBuild, Moved, ExecPCs
<1>9. ExecSole'
  <2>1. ASSUME NEW d \in Cores, current'[d] = shell, pc'[d] \in MainPCs PROVE cont'.pc \notin ExecPCs
    <3>1. d # c
      BY <1>2, <2>1 DEF MainPCs, Monitor
    <3>2. pc[d] = pc'[d] /\ current[d] = shell
      BY <1>2, <2>1, <3>1 DEF Moved
    <3>3. c \in Owners /\ d \in Owners
      BY <1>1, <2>1, <3>2, OwnsNow, Ground DEF MainPCs, Monitor, Giving
    <3>4. current[c] # shell
      BY <3>1, <3>2, <3>3 DEF RunInv, Held, Apart
    <3>5. QED
      BY <1>1, <2>1, <3>2, <3>4 DEF LifeInv, ExecInv, ExecSole
  <2>2. \A d, e \in Cores : d # e => Distinct(pc'[d], op'[d], pc'[e], op'[e])
    BY <1>2 DEF Moved, Distinct, LifeInv, ExecInv, ExecSole
  <2>3. ASSUME NEW d \in Cores PROVE Distinct(pc'[d], op'[d], cont'.pc, cont'.op)
    <3>1. CASE d = c
      BY <1>2, <3>1 DEF Distinct
    <3>2. CASE d # c /\ current[c] = shell
      <4>1. pc'[d] = pc[d] /\ op'[d] = op[d] /\ Distinct(pc[c], op[c], pc[d], op[d])
        BY <1>2, <3>2 DEF Moved, LifeInv, ExecInv, ExecSole
      <4>2. cont'.pc = pc[c] /\ cont'.op = op[c]
        BY <1>1, <1>2, <3>2
      <4>3. QED
        BY <4>1, <4>2 DEF Distinct
    <3>3. CASE d # c /\ current[c] # shell
      BY <1>1, <1>2, <3>3 DEF Moved, LifeInv, ExecInv, ExecSole
    <3>4. QED
      BY <3>1, <3>2, <3>3
  <2>4. QED
    BY <2>1, <2>2, <2>3 DEF ExecSole
<1>10. QED
  BY <1>2, <1>3, <1>4, <1>5, <1>7, <1>8, <1>9, ContKeeps

LEMMA TickLife ==
  ASSUME TypeInv, RunInv, TypeInv', LifeInv, NEW c \in Cores
  PROVE  /\ tick(c) => LifeInv'
         /\ tick_skip(c) => LifeInv'
         /\ eret(c) => LifeInv'
<1>1. ASSUME tick(c) PROVE LifeInv'
  <2>1. PICK P \in SUBSET Procs, over \in BOOLEAN : on_tick(P, over)
    BY <1>1 DEF tick
  <2> DEFINE W == wake_expired \cup EventWaiters(P)
  <2>2. /\ Interrupt(c) /\ c = 0 /\ UNCHANGED <<procVars, current, svc>> /\ push_home_locked(W, state)
        /\ wait' = Woken(W)
        /\ left' = [t \in Tasks |-> CASE t \in W -> Never
                                      [] t \in Timed /\ left[t] > 1 -> left[t] - 1
                                      [] OTHER -> left[t]]
    BY <1>1, <2>1 DEF tick, Interrupt, on_tick
  <2>3. \A t \in W : /\ t \in Tasks /\ state[t] = "blocked"
                     /\ t \in Timed \/ wait[t] = "event"
    BY DEF wake_expired, EventWaiters, Timed
  <2>4. \A t \in Tasks : InBuild(t) => /\ state[t] = "blocked" /\ wait[t] = "sleep" /\ left[t] = Never
                                       /\ t \notin Timed
    BY BuildSealed DEF LifeInv, ExecInv, Sealed, Timed
  <2> HIDE DEF W
  <2>5. \A t \in W : state[t] = "blocked" /\ ~InBuild(t)
    BY <2>3, <2>4
  <2>6. \A t \in Tasks : InBuild(t) => wait'[t] = wait[t] /\ left'[t] = left[t]
    BY <2>2, <2>4, <2>5 DEF Woken
  <2>7. Calm(c) /\ \A t \in Tasks : state[t] # "blocked" => state'[t] = state[t]
    BY <2>2, <2>5, <2>6, WakeCalm
  <2>8. state'[current[c]] = state[current[c]]
    <3>1. c \in Owners
      BY <2>2, OwnsNow DEF Interrupt, Interruptible, Monitor, Giving
    <3>2. QED
      BY <2>7, <3>1 DEF RunInv, Held, Apart, TypeInv, RunTy
  <2>9. QED
    BY <2>2, <2>7, <2>8, InterruptLife
<1>2. ASSUME tick_skip(c) PROVE LifeInv'
  <2>1. Interrupt(c) /\ UNCHANGED <<procVars, state, current, wait, left, svc>>
    BY <1>2 DEF tick_skip, runVars, waitVars
  <2>2. Calm(c) /\ state'[current[c]] = state[current[c]]
    BY <2>1, StillCalm
  <2>3. QED
    BY <2>1, <2>2, InterruptLife
<1>3. ASSUME eret(c) PROVE LifeInv'
  <2>1. /\ pc[c] = "leave" /\ UNCHANGED <<procVars, state, current, wait, left, svc>>
        /\ \/ /\ current[c] = shell /\ op' = [op EXCEPT ![c] = cont.op] /\ Goto(c, cont.pc)
              /\ cont' = Fresh
           \/ /\ current[c] # shell /\ op' = [op EXCEPT ![c] = NoOp] /\ Goto(c, "user")
              /\ cont' = cont
    BY <1>3 DEF eret, runVars
  <2>2. Moved(c) /\ Calm(c)
    BY <2>1, MovedGo, StillCalm
  <2>3. /\ current[c] = shell => pc'[c] = cont.pc /\ op'[c] = cont.op /\ cont'.pc = "user"
        /\ current[c] # shell => pc'[c] = "user" /\ cont' = cont
        /\ cont.pc \in Monitor \cup {"user"}
    BY <2>1 DEF Goto, Fresh, TypeInv, CoreTy
  <2>4. pc'[c] \in Monitor \cup {"user"}
    BY <2>3
  <2>5. SvcMove(c) /\ pc[c] # "registry" /\ pc'[c] # "registry"
    BY <2>1, <2>4 DEF SvcMove, SvcPCs, Monitor
  <2>6. RunningAt(c)'
    <3>1. RunningAt(c) /\ current'[c] = current[c] /\ state' = state
      BY <2>1 DEF LifeInv, Running
    <3>2. QED
      BY <2>1, <2>4, <3>1 DEF RunningAt, Owns
  <2>7. Carried(c, pc'[c], op'[c]) /\ Carried(c, cont'.pc, cont'.op)
    BY <2>1, <2>3 DEF Carried, ExecPCs
  <2>8. \A t : InBuild(t) => InBuild(t)'
    BY <2>1, <2>2, <2>3 DEF InBuild, Moved
  <2>9. ExecSole'
    <3>1. ASSUME NEW d \in Cores, current'[d] = shell, pc'[d] \in MainPCs PROVE cont'.pc \notin ExecPCs
      <4>1. CASE current[c] = shell
        BY <2>3, <4>1 DEF ExecPCs
      <4>2. CASE current[c] # shell
        <5>1. d # c /\ cont' = cont
          BY <2>1, <2>3, <3>1, <4>2
        <5>2. QED
          BY <2>2, <3>1, <5>1 DEF Moved, LifeInv, ExecInv, ExecSole
      <4>3. QED
        BY <4>1, <4>2
    <3>2. \A d, e \in Cores : d # e => Distinct(pc'[d], op'[d], pc'[e], op'[e])
      BY <2>2, <2>3 DEF Moved, Distinct, LifeInv, ExecInv, ExecSole
    <3>3. \A d \in Cores : Distinct(pc'[d], op'[d], cont'.pc, cont'.op)
      BY <2>2, <2>3 DEF Moved, Distinct, LifeInv, ExecInv, ExecSole
    <3>4. QED
      BY <3>1, <3>2, <3>3 DEF ExecSole
  <2>10. QED
    BY <2>1, <2>2, <2>5, <2>6, <2>7, <2>8, <2>9, ContKeeps
<1>4. QED
  BY <1>1, <1>2, <1>3
-----------------------------------------------------------------------------
(***************************************************************************)
(* A section of an exec, beside those under way elsewhere.                 *)
(***************************************************************************)
Others(c, l, o) ==
  (\E d \in Cores : d # c /\ l = pc[d] /\ o = op[d]) \/ (l = cont.pc /\ o = cont.op)

LEMMA OthersFit ==
  ASSUME LifeInv, NEW c \in Cores, NEW l, NEW o, Others(c, l, o)
  PROVE  ExecFits(l, o) /\ Distinct(pc[c], op[c], l, o)
BY DEF LifeInv, ExecInv, AllFit, ExecSole, Others

LEMMA ExecStep ==
  ASSUME TypeInv, RunInv, TypeInv', LifeInv, NEW c \in Cores, pc[c] \in ExecPCs, NEW label,
         Goto(c, label), label \in ExecPCs \cup {"leave"},
         UNCHANGED op \/ \E o : op' = [op EXCEPT ![c] = o],
         UNCHANGED <<current, cont, svc>>,
         \A t \in Tasks : state[t] \in {"running", "zombie"} => state'[t] = state[t],
         \A l, o : Others(c, l, o) => ExecFits(l, o)' /\ Distinct(label, op'[c], l, o),
         ExecFits(pc[c], op[c])', RegInv'
  PROVE  LifeInv'
<1>1. Moved(c) /\ pc'[c] = label
  BY MovedGo
<1>3. AllFit'
  <2>1. ASSUME NEW d \in Cores, d # c PROVE ExecFits(pc[d], op[d])'
    <3>1. PICK l, o : l = pc[d] /\ o = op[d] /\ l = pc'[d] /\ o = op'[d]
      BY <1>1, <2>1 DEF Moved
    <3>2. ExecFits(l, o)'
      BY <2>1, <3>1 DEF Others
    <3>3. QED
      BY <3>1, <3>2 DEF ExecFits, Sealed, Alone, Unused, find_by_task, IsTaskOf
  <2>2. ExecFits(cont.pc, cont.op)'
    <3>1. PICK l, o : l = cont.pc /\ o = cont.op /\ l = cont'.pc /\ o = cont'.op
      OBVIOUS
    <3>2. ExecFits(l, o)'
      BY <3>1 DEF Others
    <3>3. QED
      BY <3>1, <3>2 DEF ExecFits, Sealed, Alone, Unused, find_by_task, IsTaskOf
  <2>3. QED
    BY <2>1, <2>2 DEF AllFit
<1>4. ExecSole'
  <2>1. \A d \in Cores : current'[d] = current[d] /\ (pc'[d] \in MainPCs => pc[d] \in MainPCs)
    BY <1>1 DEF Moved, MainPCs, Monitor, ExecPCs
  <2>2. \A d \in Cores : d # c => Distinct(label, op'[c], pc[d], op[d])
    BY DEF Others
  <2>3. \A d, e \in Cores : d # e => Distinct(pc'[d], op'[d], pc'[e], op'[e])
    BY <1>1, <2>2 DEF Moved, Distinct, LifeInv, ExecInv, ExecSole
  <2>4. Distinct(label, op'[c], cont.pc, cont.op)
    BY DEF Others
  <2>5. \A d \in Cores : Distinct(pc'[d], op'[d], cont'.pc, cont'.op)
    BY <1>1, <2>4 DEF Moved, Distinct, LifeInv, ExecInv, ExecSole
  <2>6. QED
    BY <2>1, <2>3, <2>5 DEF LifeInv, ExecInv, ExecSole
<1>5. SvcHeld'
  BY <1>1, SvcKept DEF LifeInv, SvcMove, SvcPCs, ExecPCs
<1>6. AtRegistry'
  <2>1. \A d \in Cores : pc[d] = "registry" => op[d].task \in Tasks
    BY Ground DEF LifeInv, AtRegistry
  <2>2. pc'[c] # "registry"
    BY <1>1 DEF ExecPCs
  <2>3. QED
    BY <1>1, <2>1, <2>2, AtRegistryKept DEF LifeInv
<1>7. RunningAt(c)'
  <2>1. RunningAt(c) /\ current'[c] = current[c] /\ current[c] \in Tasks
    BY DEF LifeInv, Running, TypeInv, RunTy
  <2>2. QED
    BY <1>1, <2>1 DEF RunningAt, Owns, ExecPCs
<1>8. Running'
  BY <1>1, <1>7, RunningKept DEF LifeInv
<1>9. QED
  BY <1>3, <1>4, <1>5, <1>6, <1>8 DEF LifeInv, ExecInv

LEMMA RegistryCores ==
  ASSUME NEW c \in Cores, Moved(c), pc[c] # "registry"
  PROVE  \A d \in Cores : pc[d] = "registry" => pc'[d] = "registry" /\ op'[d].task = op[d].task
BY DEF Moved

\* A registry operation on a slot that is running neither before nor after it.
LEMMA IdleSlot ==
  ASSUME TypeInv, NEW p \in Procs, pstate[p] # "running", pstate'[p] # "running",
         \A q \in Procs : q # p => /\ pstate'[q] = pstate[q] /\ task_id'[q] = task_id[q]
                                   /\ thread_tasks'[q] = thread_tasks[q]
                                   /\ live_tasks'[q] = live_tasks[q]
  PROVE  /\ \A q \in Procs : \A t : IsTaskOf(q, t)' <=> IsTaskOf(q, t)
         /\ \A t : find_by_task(t)' = find_by_task(t)
         /\ TasksApart => TasksApart'
         /\ LiveCount => LiveCount'
<1>1. \A q \in Procs : \A t : IsTaskOf(q, t)' <=> IsTaskOf(q, t)
  BY DEF IsTaskOf
<1>2. \A t : find_by_task(t)' = find_by_task(t)
  BY <1>1 DEF find_by_task
<1>3. \A q \in Procs : TasksOf(q)' = TasksOf(q)
  BY <1>1 DEF TasksOf
<1>4. TasksApart => TasksApart'
  BY <1>1 DEF TasksApart
<1>5. LiveCount => LiveCount'
  BY <1>3 DEF LiveCount
<1>6. QED
  BY <1>1, <1>2, <1>4, <1>5

LEMMA CreateLife ==
  ASSUME ScanHolds', TypeInv, RunInv, TypeInv', LifeInv, NEW c \in Cores, exec_create(c)
  PROVE  LifeInv'
<1> DEFINE p == op[c].pid
<1>1. /\ pc[c] = "create" /\ create_as(p, op[c].call = "recycle") /\ Goto(c, "register")
      /\ UNCHANGED <<state, current, wait, left, cont, svc, op>>
  BY DEF exec_create, runVars, waitVars
<1>2. p \in Procs /\ pstate[p] = IF op[c].call = "recycle" THEN "exited" ELSE "free"
  BY <1>1 DEF LifeInv, ExecInv, AllFit, ExecFits, Unused
<1>3. /\ pstate'[p] = "created" /\ pages'[p]
      /\ \A q \in Procs : q # p => /\ pstate'[q] = pstate[q] /\ task_id'[q] = task_id[q]
                                   /\ thread_tasks'[q] = thread_tasks[q]
                                   /\ live_tasks'[q] = live_tasks[q] /\ pages'[q] = pages[q]
      /\ thread_tasks'[p] = {}
  <2>1. pstate' = [pstate EXCEPT ![p] = "created"] /\ pages' = [pages EXCEPT ![p] = TRUE]
    BY <1>1 DEF create_as
  <2>2. CASE op[c].call = "recycle"
    BY <1>1, <1>2, <2>1, <2>2 DEF create_as, reset_process, TypeInv, ProcTy, ProcessTypeOK
  <2>3. CASE op[c].call # "recycle"
    <3>1. thread_tasks[p] = {}
      BY <1>2, <2>3 DEF LifeInv, RegInv, NoThreads
    <3>2. UNCHANGED <<task_id, thread_tasks, live_tasks>>
      BY <1>1, <2>3 DEF create_as
    <3>3. QED
      BY <1>2, <2>1, <3>1, <3>2 DEF TypeInv, ProcTy, ProcessTypeOK
  <2>4. QED
    BY <2>2, <2>3
<1> HIDE DEF p
<1>4. /\ \A t : find_by_task(t)' = find_by_task(t) /\ TasksApart' /\ LiveCount'
  BY <1>2, <1>3, IdleSlot DEF LifeInv, RegInv
<1>5. NoThreads' /\ PagesHeld'
  BY <1>3 DEF LifeInv, RegInv, NoThreads, PagesHeld
<1>6. Moved(c) /\ pc'[c] = "register"
  BY <1>1, MovedGo
<1>7. Registered'
  <2>1. \A t : InBuild(t) => InBuild(t)'
    BY <1>1, <1>6, BuildKept
  <2>2. \A d \in Cores : pc[d] = "registry" => pc'[d] = "registry" /\ op'[d].task = op[d].task
    BY <1>1, <1>6, RegistryCores
  <2>3. QED
    BY <1>1, <1>4, <2>1, <2>2, RegisteredKept DEF LifeInv, RegInv
<1>8. RegInv'
  BY <1>4, <1>5, <1>7 DEF RegInv
<1>9. ExecFits(pc[c], op[c])'
  <2>1. op'[c].pid = p
    BY <1>1 DEF p
  <2>2. QED
    BY <1>2, <1>3, <1>6, <2>1 DEF ExecFits
<1>10. ASSUME NEW l, NEW o, Others(c, l, o)
       PROVE  ExecFits(l, o)' /\ Distinct("register", op'[c], l, o)
  <2>1. ExecFits(l, o)
    BY <1>10, OthersFit
  <2>2. l = "create" => Unused(o)'
    <3>1. (\A d \in Cores : pc[d] = "create" => Unused(op[d]))'
      BY DEF ScanHolds
    <3>2. (cont.pc = "create" => Unused(cont.op))'
      BY DEF ScanHolds
    <3>3. QED
      BY <1>1, <1>6, <1>10, <3>1, <3>2 DEF Others, Moved, Unused
  <2>3. l \in {"register", "bind"} => o.pid # p
    BY <1>2, <2>1 DEF ExecFits
  <2>4. ExecFits(l, o)'
    BY <1>1, <1>3, <1>4, <2>1, <2>2, <2>3 DEF ExecFits, Sealed, Alone
  <2>5. QED
    BY <1>1, <2>3, <2>4 DEF Distinct, p
<1>11. QED
  BY <1>1, <1>8, <1>9, <1>10, ExecStep DEF ExecPCs

\* The first free slot is a program's, and of no process.
LEMMA FreshSlot ==
  ASSUME TypeInv, RunInv, LifeInv, FreeSlots # {}, NEW m, m = Min(FreeSlots)
  PROVE  m \in UserTasks /\ m \in Tasks /\ state[m] = "free" /\ find_by_task(m) = {}
<1>1. m \in Tasks /\ state[m] = "free"
  BY SlotFree
<1>2. m \in UserTasks
  BY <1>1, Ground DEF RunInv, SystemTasks
<1>3. QED
  BY <1>1, <1>2 DEF LifeInv, RegInv, Registered, RegisteredAt

LEMMA RegisterLife ==
  ASSUME TypeInv, RunInv, TypeInv', LifeInv, NEW c \in Cores, register_exec_user(c)
  PROVE  LifeInv'
<1>0. PICK p, m : p = op[c].pid /\ m = Min(FreeSlots)
  OBVIOUS
<1>1. pc[c] = "register" /\ UNCHANGED <<current, cont, svc>>
  BY DEF register_exec_user
<1>2. p \in Procs /\ pstate[p] = "created"
  BY <1>0, <1>1 DEF LifeInv, ExecInv, AllFit, ExecFits
<1>4. CASE FreeSlots # {} /\ Built(c, m, Never) /\ UNCHANGED procVars
  <2>1. m \in UserTasks /\ m \in Tasks /\ state[m] = "free" /\ find_by_task(m) = {}
    BY <1>0, <1>4, FreshSlot
  <2>2. /\ state' = [state EXCEPT ![m] = "blocked"] /\ wait' = [wait EXCEPT ![m] = "sleep"]
        /\ left' = [left EXCEPT ![m] = Never] /\ op' = [op EXCEPT ![c].task = m] /\ Goto(c, "bind")
    BY <1>4 DEF Built
  <2>3. op'[c].task = m /\ op'[c].pid = p /\ \E o : op' = [op EXCEPT ![c] = o]
    <3>1. op \in [Cores -> OpRec] /\ op[c] \in OpRec
      BY DEF TypeInv, CoreTy
    <3>2. op'[c] = [op[c] EXCEPT !.task = m] /\ op' = [op EXCEPT ![c] = [op[c] EXCEPT !.task = m]]
      BY <2>2, <3>1
    <3>3. QED
      BY <1>0, <3>1, <3>2 DEF OpRec
  <2>4. Moved(c) /\ pc'[c] = "bind"
    BY <1>1, <2>2, <2>3, MovedGo
  <2>5. \A t \in Tasks : state'[t] = IF t = m THEN "blocked" ELSE state[t]
    BY <2>2 DEF TypeInv, RunTy
  <2>6. UNCHANGED <<pstate, task_id, thread_tasks, live_tasks, pages>>
    BY <1>4 DEF procVars
  <2>7. \A t : find_by_task(t)' = find_by_task(t)
    BY <2>6, FindSame
  <2>8. Sealed(m)'
    BY <2>1, <2>2, <2>5, <2>7 DEF Sealed, Alone, TypeInv, WaitTy
  <2>9. ExecFits(pc[c], op[c])'
    <3>1. Sealed(op[c].task)' /\ find_by_task(op[c].task)' = {}
      BY <2>1, <2>3, <2>7, <2>8 DEF Sealed, Alone, find_by_task, IsTaskOf
    <3>2. QED
      BY <1>2, <2>1, <2>3, <2>4, <2>6, <3>1 DEF ExecFits
  <2>10. InBuild(m)'
    BY <2>3, <2>4 DEF InBuild
  <2>11. Registered'
    <3> SUFFICES ASSUME NEW t \in UserTasks PROVE RegisteredAt(t)'
      BY DEF Registered
    <3>1. RegisteredAt(t) /\ t \in Tasks
      BY Ground DEF LifeInv, RegInv, Registered
    <3>2. CASE t = m
      BY <2>5, <2>10, <3>1, <3>2 DEF RegisteredAt
    <3>3. CASE t # m
      <4>1. \A d \in Cores : pc[d] = "registry" => pc'[d] = "registry" /\ op'[d].task = op[d].task
        BY <1>1, <2>4, RegistryCores
      <4>2. InBuild(t) => InBuild(t)'
        BY <1>1, <2>4, BuildKept
      <4>3. QED
        BY <2>5, <2>7, <3>1, <3>3, <4>1, <4>2 DEF RegisteredAt
    <3>4. QED
      BY <3>2, <3>3
  <2>12. RegInv'
    BY <2>6, <2>11, FindSame DEF LifeInv, RegInv, TasksApart, LiveCount, NoThreads, PagesHeld
  <2>13. \A t \in Tasks : state[t] # "free" => state'[t] = state[t]
    BY <2>1, <2>5
  <2>14. ASSUME NEW l, NEW o, Others(c, l, o)
         PROVE  ExecFits(l, o)' /\ Distinct("bind", op'[c], l, o)
    <3>1. ExecFits(l, o) /\ Distinct("register", op[c], l, o)
      BY <1>1, <2>14, OthersFit
    <3>2. l \in {"bind", "publish"} => o.task \in Tasks /\ o.task # m
      BY <2>1, <3>1, Ground DEF ExecFits, Sealed
    <3>3. l \in {"bind", "publish"} => /\ state'[o.task] = state[o.task]
                                      /\ wait'[o.task] = wait[o.task] /\ left'[o.task] = left[o.task]
      BY <2>2, <3>2 DEF TypeInv, RunTy, WaitTy
    <3>4. ExecFits(l, o)'
      BY <2>6, <2>7, <3>1, <3>3 DEF ExecFits, Sealed, Alone, Unused
    <3>5. QED
      BY <1>0, <2>3, <3>1, <3>2, <3>4 DEF Distinct
  <2>15. QED
    BY <1>1, <2>2, <2>3, <2>9, <2>12, <2>13, <2>14, ExecStep DEF ExecPCs
<1>5. CASE reap_process(p) /\ Goto(c, "leave") /\ UNCHANGED <<state, wait, left, op>>
  <2>1. /\ pstate'[p] = "free" /\ thread_tasks'[p] = {}
        /\ \A q \in Procs : q # p => /\ pstate'[q] = pstate[q] /\ task_id'[q] = task_id[q]
                                     /\ thread_tasks'[q] = thread_tasks[q]
                                     /\ live_tasks'[q] = live_tasks[q] /\ pages'[q] = pages[q]
    BY <1>2, <1>5 DEF reap_process, reset_process, TypeInv, ProcTy, ProcessTypeOK
  <2>2. /\ \A t : find_by_task(t)' = find_by_task(t) /\ TasksApart' /\ LiveCount'
    BY <1>2, <2>1, IdleSlot DEF LifeInv, RegInv
  <2>3. NoThreads' /\ PagesHeld'
    BY <2>1 DEF LifeInv, RegInv, NoThreads, PagesHeld
  <2>4. Moved(c) /\ pc'[c] = "leave"
    BY <1>1, <1>5, MovedGo
  <2>5. Registered'
    <3>1. \A d \in Cores : pc[d] = "registry" => pc'[d] = "registry" /\ op'[d].task = op[d].task
      BY <1>1, <2>4, RegistryCores
    <3>2. \A t : InBuild(t) => InBuild(t)'
      BY <1>1, <2>4, BuildKept
    <3>3. QED
      BY <1>5, <2>2, <3>1, <3>2, RegisteredKept DEF LifeInv, RegInv
  <2>6. RegInv' /\ ExecFits(pc[c], op[c])'
    BY <2>2, <2>3, <2>4, <2>5 DEF RegInv, ExecFits
  <2>7. ASSUME NEW l, NEW o, Others(c, l, o)
        PROVE  ExecFits(l, o)' /\ Distinct("leave", op'[c], l, o)
    <3>1. ExecFits(l, o) /\ Distinct("register", op[c], l, o)
      BY <1>1, <2>7, OthersFit
    <3>2. l \in {"create", "register", "bind"} => o.pid # p
      BY <1>0, <1>2, <3>1 DEF ExecFits, Distinct, Unused
    <3>3. ExecFits(l, o)'
      BY <1>5, <2>1, <2>2, <3>1, <3>2 DEF ExecFits, Sealed, Alone, Unused
    <3>4. QED
      BY <3>3 DEF Distinct
  <2>8. QED
    BY <1>1, <1>5, <2>6, <2>7, ExecStep DEF ExecPCs
<1>6. QED
  BY <1>0, <1>4, <1>5 DEF register_exec_user

LEMMA BindLife ==
  ASSUME TypeInv, RunInv, TypeInv', LifeInv, NEW c \in Cores, exec_bind(c)
  PROVE  LifeInv'
<1>0. PICK p, t : p = op[c].pid /\ t = op[c].task
  OBVIOUS
<1>1. /\ pc[c] = "bind" /\ Goto(c, "publish")
      /\ UNCHANGED <<state, current, wait, left, cont, svc, op>>
      /\ bind(p, t) \/ pstate[p] # "created"
  BY <1>0 DEF exec_bind, runVars, waitVars
<1>2. p \in Procs /\ pstate[p] = "created" /\ t \in UserTasks /\ Sealed(t) /\ find_by_task(t) = {}
  BY <1>0, <1>1 DEF LifeInv, ExecInv, AllFit, ExecFits
<1>3. /\ pstate' = [pstate EXCEPT ![p] = "running"] /\ task_id' = [task_id EXCEPT ![p] = t]
      /\ live_tasks' = [live_tasks EXCEPT ![p] = 1] /\ UNCHANGED <<thread_tasks, pages>>
  BY <1>1, <1>2 DEF bind
<1>4. thread_tasks[p] = {} /\ pages[p] /\ find_by_task(t) = {} /\ t \in Tasks
  BY <1>2, Ground DEF LifeInv, RegInv, NoThreads, PagesHeld, Sealed
<1>5. \A q \in Procs : \A u : IsTaskOf(q, u)' <=> IsTaskOf(q, u) \/ (q = p /\ u = t)
  BY <1>2, <1>3, <1>4 DEF IsTaskOf, TypeInv, ProcTy, ProcessTypeOK
<1>6. \A q \in Procs : q # p => pstate'[q] = pstate[q] /\ live_tasks'[q] = live_tasks[q]
  BY <1>3 DEF TypeInv, ProcTy, ProcessTypeOK
<1>7. \A q \in Procs : ~IsTaskOf(q, t)
  BY <1>4 DEF find_by_task
<1>8. TasksApart'
  BY <1>5, <1>7 DEF LifeInv, RegInv, TasksApart
<1>9. NoThreads' /\ PagesHeld'
  BY <1>2, <1>3, <1>4, <1>6 DEF LifeInv, RegInv, NoThreads, PagesHeld
<1>10. LiveCount'
  <2>1. \A q \in Procs : q # p => TasksOf(q)' = TasksOf(q)
    BY <1>5 DEF TasksOf
  <2>2. \A u : ~IsTaskOf(p, u)
    BY <1>2 DEF IsTaskOf
  <2>3. TasksOf(p)' = {t}
    BY <1>2, <1>4, <1>5, <2>2 DEF TasksOf
  <2>4. Cardinality({t}) = 1 /\ live_tasks'[p] = 1
    BY <1>2, <1>3, FS_Singleton DEF TypeInv, ProcTy, ProcessTypeOK
  <2>5. QED
    BY <1>6, <2>1, <2>3, <2>4 DEF LifeInv, RegInv, LiveCount
<1>11. Moved(c) /\ pc'[c] = "publish"
  BY <1>1, MovedGo
<1>12. \A u : InBuild(u) /\ u # t => InBuild(u)'
  BY <1>0, <1>1, <1>11, BuildKept
<1>13. Registered'
  <2> SUFFICES ASSUME NEW u \in UserTasks PROVE RegisteredAt(u)'
    BY DEF Registered
  <2>1. RegisteredAt(u) /\ state'[u] = state[u]
    BY <1>1 DEF LifeInv, RegInv, Registered
  <2>2. CASE u = t
    <3>1. state'[u] = "blocked"
      BY <1>2, <2>1, <2>2 DEF Sealed
    <3>2. find_by_task(u)' # {}
      BY <1>2, <1>5, <2>2 DEF find_by_task
    <3>3. QED
      BY <3>1, <3>2 DEF RegisteredAt
  <2>3. CASE u # t
    <3>1. find_by_task(u)' = find_by_task(u)
      BY <1>5, <2>3 DEF find_by_task
    <3>2. \A d \in Cores : pc[d] = "registry" => pc'[d] = "registry" /\ op'[d].task = op[d].task
      BY <1>1, <1>11, RegistryCores
    <3>3. QED
      BY <1>12, <2>1, <2>3, <3>1, <3>2 DEF RegisteredAt
  <2>4. QED
    BY <2>2, <2>3
<1>14. RegInv'
  BY <1>8, <1>9, <1>10, <1>13 DEF RegInv
<1>15. \A u : find_by_task(u)' = find_by_task(u) \cup (IF u = t THEN {p} ELSE {})
  BY <1>2, <1>5 DEF find_by_task
<1>16. \A u : p \notin find_by_task(u)
  BY <1>2 DEF find_by_task, IsTaskOf
<1>17. Sealed(t)' /\ find_by_task(t)' # {}
  BY <1>1, <1>2, <1>15, <1>16 DEF Sealed, Alone
<1>18. ExecFits(pc[c], op[c])'
  <2>1. Sealed(op[c].task)' /\ find_by_task(op[c].task)' # {} /\ op'[c].task = t
    BY <1>0, <1>1, <1>17 DEF Sealed, Alone, find_by_task, IsTaskOf
  <2>2. QED
    BY <1>2, <1>11, <2>1 DEF ExecFits
<1>19. ASSUME NEW l, NEW o, Others(c, l, o)
       PROVE  ExecFits(l, o)' /\ Distinct("publish", op'[c], l, o)
  <2>1. ExecFits(l, o) /\ Distinct("bind", op[c], l, o)
    BY <1>1, <1>19, OthersFit
  <2>2. l \in {"create", "register", "bind"} => o.pid # p /\ o.pid \in Procs
    BY <1>0, <1>2, <2>1 DEF ExecFits, Distinct, Unused
  <2>3. l \in {"bind", "publish"} => o.task # t
    BY <1>0, <2>1 DEF Distinct
  <2>4. l \in {"bind", "publish"} => Sealed(o.task)' /\ find_by_task(o.task)' = find_by_task(o.task)
    BY <1>1, <1>15, <1>16, <2>1, <2>3 DEF ExecFits, Sealed, Alone
  <2>5. ExecFits(l, o)'
    BY <1>6, <2>1, <2>2, <2>4 DEF ExecFits, Unused
  <2>6. QED
    BY <1>1, <2>1, <2>5 DEF Distinct
<1>20. QED
  BY <1>1, <1>14, <1>18, <1>19, ExecStep DEF ExecPCs

LEMMA PublishLife ==
  ASSUME TypeInv, RunInv, TypeInv', LifeInv, NEW c \in Cores, publish_task(c)
  PROVE  LifeInv'
<1>0. PICK t : t = op[c].task
  OBVIOUS
<1>1. /\ pc[c] = "publish" /\ Goto(c, "leave")
      /\ UNCHANGED <<procVars, current, left, cont, svc, op>>
  BY DEF publish_task
<1>2. t \in UserTasks /\ t \in Tasks /\ Sealed(t) /\ find_by_task(t) # {}
  BY <1>0, <1>1, Ground DEF LifeInv, ExecInv, AllFit, ExecFits
<1>3. push_home_locked({t}, state) /\ wait' = Woken({t})
  <2>1. {t} \cap {u \in Tasks : state[u] = "blocked"} = {t}
    BY <1>2 DEF Sealed
  <2>2. QED
    BY <1>0, <2>1 DEF publish_task
<1>4. \A u \in Tasks : /\ state'[u] = IF u = t THEN "ready" ELSE state[u]
                       /\ u # t => wait'[u] = wait[u]
  BY <1>3 DEF push_home_locked, Woken
<1>5. UNCHANGED <<pstate, task_id, thread_tasks, live_tasks, pages>>
  BY <1>1 DEF procVars
<1>6. \A u : find_by_task(u)' = find_by_task(u)
  BY <1>5, FindSame
<1>7. Moved(c) /\ pc'[c] = "leave"
  BY <1>1, MovedGo
<1>8. Registered'
  <2> SUFFICES ASSUME NEW u \in UserTasks PROVE RegisteredAt(u)'
    BY DEF Registered
  <2>1. RegisteredAt(u) /\ u \in Tasks
    BY Ground DEF LifeInv, RegInv, Registered
  <2>2. CASE u = t
    BY <1>2, <1>4, <1>6, <2>1, <2>2 DEF RegisteredAt
  <2>3. CASE u # t
    <3>1. InBuild(u) => InBuild(u)'
      BY <1>0, <1>1, <1>7, <2>3, BuildKept
    <3>2. \A d \in Cores : pc[d] = "registry" => pc'[d] = "registry" /\ op'[d].task = op[d].task
      BY <1>1, <1>7, RegistryCores
    <3>3. QED
      BY <1>4, <1>6, <2>1, <2>3, <3>1, <3>2 DEF RegisteredAt
  <2>4. QED
    BY <2>2, <2>3
<1>9. RegInv'
  BY <1>5, <1>8, FindSame DEF LifeInv, RegInv, TasksApart, LiveCount, NoThreads, PagesHeld
<1>10. ASSUME NEW l, NEW o, Others(c, l, o)
       PROVE  ExecFits(l, o)' /\ Distinct("leave", op'[c], l, o)
  <2>1. ExecFits(l, o) /\ Distinct("publish", op[c], l, o)
    BY <1>1, <1>10, OthersFit
  <2>2. l \in {"bind", "publish"} => o.task # t /\ o.task \in Tasks
    BY <1>0, <2>1, Ground DEF Distinct, ExecFits
  <2>3. ExecFits(l, o)'
    BY <1>1, <1>4, <1>5, <1>6, <2>1, <2>2 DEF ExecFits, Sealed, Alone, Unused
  <2>4. QED
    BY <2>3 DEF Distinct
<1>11. ExecFits(pc[c], op[c])'
  BY <1>7 DEF ExecFits
<1>12. \A u \in Tasks : state[u] \in {"running", "zombie"} => state'[u] = state[u]
  BY <1>2, <1>4 DEF Sealed
<1>13. QED
  BY <1>1, <1>9, <1>10, <1>11, <1>12, ExecStep DEF ExecPCs

LEMMA ExecFileLife ==
  ASSUME TypeInv, RunInv, TypeInv', LifeInv, NEW c \in Cores, exec_file(c)
  PROVE  LifeInv'
<1>1. PICK p \in Procs :
        /\ FirstSlot(p)
        /\ Begin(c, [Op(current[c], IF pstate[p] = "free" THEN "exec" ELSE "recycle", 0, 0)
                       EXCEPT !.pid = p], "create")
  BY DEF exec_file
<1> DEFINE call == IF pstate[p] = "free" THEN "exec" ELSE "recycle"
           o == [Op(current[c], call, 0, 0) EXCEPT !.pid = p]
<1>2. o.pid = p /\ o.call = call
  BY DEF Op
<1>3. /\ Goto(c, "create") /\ op' = [op EXCEPT ![c] = o] /\ pc[c] = "user"
      /\ UNCHANGED <<procVars, state, current, wait, left, cont, svc>>
  BY <1>1 DEF Begin, runVars, waitVars, exec_file, Caller, Actor
<1>4. pstate[p] = IF call = "recycle" THEN "exited" ELSE "free"
  BY <1>1 DEF FirstSlot
<1> HIDE DEF o, call
<1>5. Moved(c) /\ pc'[c] = "create" /\ op'[c] = o
  BY <1>3, MovedGo DEF TypeInv, CoreTy
<1>6. UNCHANGED <<pstate, task_id, thread_tasks, live_tasks, pages>>
  BY <1>3 DEF procVars
<1>7. ExecFits(pc[c], op[c])'
  BY <1>2, <1>4, <1>5, <1>6 DEF ExecFits, Unused
<1>8. AllFit'
  <2>1. \A t : find_by_task(t)' = find_by_task(t)
    BY <1>6, FindSame
  <2>2. \A d \in Cores : d # c => ExecFits(pc[d], op[d])'
    BY <1>3, <1>5, <1>6, <2>1 DEF LifeInv, ExecInv, AllFit, ExecFits, Sealed, Alone, Unused, Moved
  <2>3. ExecFits(cont.pc, cont.op)'
    BY <1>3, <1>6, <2>1 DEF LifeInv, ExecInv, AllFit, ExecFits, Sealed, Alone, Unused
  <2>4. QED
    BY <1>7, <2>2, <2>3 DEF AllFit
<1>9. ExecSole'
  <2>1. \A d \in Cores : current'[d] = current[d] /\ (pc'[d] \in MainPCs => pc[d] \in MainPCs)
    BY <1>3, <1>5 DEF Moved, MainPCs
  <2>2. \A d, e \in Cores : d # e => Distinct(pc'[d], op'[d], pc'[e], op'[e])
    BY <1>5 DEF Moved, Distinct, LifeInv, ExecInv, ExecSole
  <2>3. \A d \in Cores : Distinct(pc'[d], op'[d], cont'.pc, cont'.op)
    BY <1>3, <1>5 DEF Moved, Distinct, LifeInv, ExecInv, ExecSole
  <2>4. QED
    BY <1>3, <2>1, <2>2, <2>3 DEF LifeInv, ExecInv, ExecSole
<1>10. SvcHeld'
  BY <1>3, <1>5, SvcKept DEF LifeInv, SvcMove, SvcPCs
<1>11. AtRegistry' /\ Running'
  <2>1. AtRegistry'
    BY <1>3, <1>5, AtRegistryKept DEF LifeInv
  <2>2. RunningAt(c)'
    <3>1. RunningAt(c) /\ current'[c] = current[c] /\ state' = state
      BY <1>3 DEF LifeInv, Running
    <3>2. QED
      BY <1>3, <1>5, <3>1 DEF RunningAt, Owns
  <2>3. QED
    BY <1>3, <1>5, <2>1, <2>2, RunningKept DEF LifeInv
<1>12. RegInv'
  <2>1. \A d \in Cores : pc[d] = "registry" => pc'[d] = "registry" /\ op'[d].task = op[d].task
    BY <1>3, <1>5, RegistryCores
  <2>2. \A t : InBuild(t) => InBuild(t)'
    BY <1>3, <1>5, BuildKept
  <2>3. Registered'
    BY <1>3, <1>6, <2>1, <2>2, FindSame, RegisteredKept DEF LifeInv, RegInv
  <2>4. QED
    BY <1>6, <2>3, FindSame DEF LifeInv, RegInv, TasksApart, LiveCount, NoThreads, PagesHeld
<1>13. QED
  BY <1>8, <1>9, <1>10, <1>11, <1>12 DEF LifeInv, ExecInv
-----------------------------------------------------------------------------
(***************************************************************************)
(* Starting and ending a task.  An exec under way elsewhere is not in the  *)
(* way: its process is not running and its task is sealed.                 *)
(***************************************************************************)
LEMMA ExecKept ==
  ASSUME LifeInv, NEW c \in Cores, Moved(c), ExecApart(c),
         \A p \in Procs : pstate[p] # "running" => pstate'[p] = pstate[p],
         \A t \in UserTasks : InBuild(t) /\ Sealed(t) =>
           Sealed(t)' /\ find_by_task(t)' = find_by_task(t)
  PROVE  ExecInv'
<1>1. \A d \in Cores : d # c => ExecFits(pc[d], op[d])'
  <2> SUFFICES ASSUME NEW d \in Cores, d # c PROVE ExecFits(pc[d], op[d])'
    OBVIOUS
  <2>1. PICK l, o : l = pc[d] /\ o = op[d] /\ l = pc'[d] /\ o = op'[d]
    BY DEF Moved
  <2>2. ExecFits(l, o) /\ (l \in {"bind", "publish"} => InBuild(o.task))
    BY <2>1 DEF LifeInv, ExecInv, AllFit, InBuild
  <2>3. l \in {"bind", "publish"} =>
          Sealed(o.task)' /\ find_by_task(o.task)' = find_by_task(o.task)
    BY <2>2 DEF ExecFits
  <2>4. ExecFits(l, o)'
    BY <2>2, <2>3 DEF ExecFits, Unused
  <2>5. QED
    BY <2>1, <2>4 DEF ExecFits, Sealed, Alone, Unused, find_by_task, IsTaskOf
<1>2. ExecFits(cont.pc, cont.op)'
  <2>1. PICK l, o : l = cont.pc /\ o = cont.op /\ l = cont'.pc /\ o = cont'.op
    BY DEF ExecApart
  <2>2. ExecFits(l, o) /\ (l \in {"bind", "publish"} => InBuild(o.task))
    BY <2>1 DEF LifeInv, ExecInv, AllFit, InBuild
  <2>3. l \in {"bind", "publish"} =>
          Sealed(o.task)' /\ find_by_task(o.task)' = find_by_task(o.task)
    BY <2>2 DEF ExecFits
  <2>4. ExecFits(l, o)'
    BY <2>2, <2>3 DEF ExecFits, Unused
  <2>5. QED
    BY <2>1, <2>4 DEF ExecFits, Sealed, Alone, Unused, find_by_task, IsTaskOf
<1>3. QED
  BY <1>1, <1>2, FitKept DEF LifeInv, ExecInv

LEMMA TasksFinite == \A p : IsFiniteSet(TasksOf(p)) /\ Cardinality(TasksOf(p)) \in Nat
<1>1. IsFiniteSet(Tasks)
  BY SchedulerAssumption, FS_Interval
<1>2. \A p : TasksOf(p) \subseteq Tasks
  BY DEF TasksOf
<1>3. QED
  BY <1>1, <1>2, FS_Subset, FS_CardinalityType

LEMMA SpawnLife ==
  ASSUME TypeInv, RunInv, TypeInv', LifeInv, NEW c \in Cores, spawn_thread(c)
  PROVE  LifeInv'
<1>b. PICK m : m = Min(FreeSlots)
  OBVIOUS
<1>a. PICK v \in Tasks : \E p \in find_by_task(v) :
        /\ Program(c, v) /\ bind_thread(p, m) /\ FreeSlots # {}
        /\ push_home_locked({m}, state) /\ pc[c] = "user"
  BY <1>b DEF spawn_thread, Program
<1>0. PICK p \in find_by_task(v) :
        /\ Program(c, v) /\ bind_thread(p, m) /\ FreeSlots # {}
        /\ push_home_locked({m}, state) /\ pc[c] = "user"
  BY <1>a
<1>1. /\ bind_thread(p, m) /\ m = Min(FreeSlots) /\ FreeSlots # {} /\ p \in Procs
      /\ push_home_locked({m}, state) /\ pc[c] = "user"
  BY <1>0, <1>b, Found
<1>2. UNCHANGED <<current, wait, left, svc, pc, op, cont>>
  BY DEF spawn_thread, waitVars, coreVars
<1>3. m \in UserTasks /\ m \in Tasks /\ state[m] = "free" /\ find_by_task(m) = {}
  BY <1>1, FreshSlot
<1>4. /\ pstate[p] = "running" /\ thread_tasks' = [thread_tasks EXCEPT ![p] = @ \cup {m}]
      /\ live_tasks' = [live_tasks EXCEPT ![p] = @ + 1] /\ UNCHANGED <<pstate, task_id, pages>>
  BY <1>1 DEF bind_thread, has_thread_capacity
<1>5. \A t \in Tasks : state'[t] = IF t = m THEN "ready" ELSE state[t]
  BY <1>1 DEF push_home_locked
<1>6. \A q \in Procs : \A u : IsTaskOf(q, u)' <=> IsTaskOf(q, u) \/ (q = p /\ u = m)
  BY <1>4 DEF IsTaskOf, TypeInv, ProcTy, ProcessTypeOK
<1>7. \A q \in Procs : ~IsTaskOf(q, m)
  BY <1>3 DEF find_by_task
<1>8. \A u : u # m => find_by_task(u)' = find_by_task(u)
  BY <1>6 DEF find_by_task
<1>9. TasksApart' /\ NoThreads' /\ PagesHeld'
  <2>1. TasksApart'
    BY <1>6, <1>7 DEF LifeInv, RegInv, TasksApart
  <2>2. NoThreads' /\ PagesHeld'
    BY <1>4 DEF LifeInv, RegInv, NoThreads, PagesHeld, TypeInv, ProcTy, ProcessTypeOK
  <2>3. QED
    BY <2>1, <2>2
<1>10. LiveCount'
  <2>1. \A q \in Procs : q # p => TasksOf(q)' = TasksOf(q) /\ live_tasks'[q] = live_tasks[q]
    BY <1>4, <1>6 DEF TasksOf, TypeInv, ProcTy, ProcessTypeOK
  <2>2. TasksOf(p)' = TasksOf(p) \cup {m} /\ m \notin TasksOf(p)
    BY <1>0, <1>3, <1>6, <1>7, Found DEF TasksOf
  <2>3. Cardinality(TasksOf(p) \cup {m}) = Cardinality(TasksOf(p)) + 1
    BY <2>2, TasksFinite, FS_AddElement
  <2>4. live_tasks'[p] = live_tasks[p] + 1
    BY <1>4 DEF TypeInv, ProcTy, ProcessTypeOK
  <2>5. QED
    BY <1>4, <2>1, <2>2, <2>3, <2>4 DEF LifeInv, RegInv, LiveCount
<1>11. Moved(c)
  BY <1>2 DEF Moved
<1>12. \A t : InBuild(t)' <=> InBuild(t)
  BY <1>2 DEF InBuild
<1>13. Registered'
  <2> SUFFICES ASSUME NEW t \in UserTasks PROVE RegisteredAt(t)'
    BY DEF Registered
  <2>1. RegisteredAt(t) /\ t \in Tasks
    BY Ground DEF LifeInv, RegInv, Registered
  <2>2. CASE t = m
    <3>1. find_by_task(t)' # {}
      BY <1>6, <2>2 DEF find_by_task
    <3>2. QED
      BY <1>5, <2>1, <2>2, <3>1 DEF RegisteredAt
  <2>3. CASE t # m
    BY <1>2, <1>5, <1>8, <1>12, <2>1, <2>3 DEF RegisteredAt
  <2>4. QED
    BY <2>2, <2>3
<1>14. ExecInv'
  <2>1. ExecApart(c)
    BY <1>1, <1>2 DEF ExecApart, ExecPCs
  <2>4. state[v] # "blocked"
    <3>1. v = current[c] /\ v \in UserTasks
      BY <1>0, ProgramTask
    <3>2. c \in Owners
      BY <1>1, <3>1, OwnsNow, Ground DEF Giving
    <3>3. QED
      BY <3>1, <3>2 DEF RunInv, Held, Apart
  <2>5. find_by_task(m)' = {p}
    BY <1>6, <1>7 DEF find_by_task
  <2>2. ASSUME NEW t \in UserTasks, Sealed(t) PROVE Sealed(t)' /\ find_by_task(t)' = find_by_task(t)
    <3>1. t \in Tasks /\ t # m /\ t # v
      BY <1>3, <2>2, <2>4, Ground DEF Sealed
    <3>2. p \notin find_by_task(t)
      BY <1>0, <2>2, <3>1 DEF Sealed, Alone
    <3>3. QED
      BY <1>2, <1>5, <1>8, <2>2, <2>5, <3>1, <3>2 DEF Sealed, Alone
  <2>3. QED
    BY <1>4, <1>11, <2>1, <2>2, ExecKept
<1>15. SvcHeld' /\ AtRegistry'
  <2>1. SvcHeld'
    BY <1>2 DEF LifeInv, SvcHeld
  <2>2. \A d \in Cores : pc[d] = "registry" => op[d].task \in Tasks
    BY Ground DEF LifeInv, AtRegistry
  <2>3. AtRegistry'
    BY <1>2, <1>3, <1>5, <2>2 DEF LifeInv, AtRegistry
  <2>4. QED
    BY <2>1, <2>3
<1>16. Running'
  <2>1. RunningAt(c)'
    <3>1. RunningAt(c) /\ current[c] \in Tasks /\ current'[c] = current[c]
      BY <1>2 DEF LifeInv, Running, TypeInv, RunTy
    <3>2. state[current[c]] = "running" => state'[current[c]] = "running"
      BY <1>3, <1>5, <3>1
    <3>3. QED
      BY <1>2, <3>1, <3>2 DEF RunningAt, Owns
  <2>2. \A t \in Tasks : state[t] = "running" => state'[t] = "running"
    BY <1>3, <1>5
  <2>3. QED
    BY <1>11, <2>1, <2>2, RunningKept DEF LifeInv
<1>17. QED
  BY <1>9, <1>10, <1>13, <1>14, <1>15, <1>16 DEF LifeInv, RegInv

LEMMA HeirOf ==
  ASSUME NEW t, NEW u \in FutexHeir(t)
  PROVE  find_by_task(u) = find_by_task(t) /\ u # t
<1> DEFINE peers == {k \in Seats : seat[k] # NoTask /\ seat[k] # t
                                  /\ find_by_task(seat[k]) = find_by_task(t)}
<1>1. peers # {} /\ u = seat[Min(peers)]
  BY DEF FutexHeir
<1>2. peers \subseteq Nat
  BY Ground
<1>3. Min(peers) \in peers
  <2> HIDE DEF peers
  <2>1. QED
    BY <1>1, <1>2, MinOf
<1>4. QED
  BY <1>1, <1>3

LEMMA ZombieLife ==
  ASSUME TypeInv, RunInv, TypeInv', LifeInv, NEW c \in Cores, exit_zombie(c)
  PROVE  LifeInv'
<1>0. PICK t : t = op[c].task
  OBVIOUS
<1> DEFINE armed == IF op[c].call = "exit" THEN arm_sibling_kills(t) ELSE {}
           W == {u \in armed \cup FutexHeir(t) : state[u] = "blocked"}
<1>1. pc[c] = "zombie" /\ t = current[c] /\ t \in UserTasks /\ t \in Tasks
  BY <1>0, Ground DEF RunInv, OwnOperand, OpOwn, exit_zombie
<1>2. /\ push_home_locked(W, [state EXCEPT ![t] = "zombie"]) /\ wait' = Woken(W)
      /\ left' = [u \in Tasks |-> IF u \in W THEN Never ELSE left[u]]
      /\ Goto(c, "registry") /\ UNCHANGED <<current, op, svc, cont>>
  BY <1>0 DEF exit_zombie
<1>3. UNCHANGED <<pstate, task_id, thread_tasks, live_tasks, pages>>
  BY DEF exit_zombie, request_process_exit, procVars
<1>4. c \in Owners /\ Owns(c) /\ state[t] \in {"ready", "running"} /\ find_by_task(t) # {}
  <2>1. c \in Owners
    BY <1>1, OwnsNow, Ground DEF Giving
  <2>2. QED
    BY <1>1, <2>1, OwnedFound DEF Owners, RunInv, Held, Apart
<1>5. \A u \in W : state[u] = "blocked" /\ find_by_task(u) = find_by_task(t) /\ u # t
  <2>1. \A u \in armed : find_by_task(u) = find_by_task(t) /\ u # t
    BY DEF arm_sibling_kills, Siblings
  <2>2. \A u \in FutexHeir(t) : find_by_task(u) = find_by_task(t) /\ u # t
    BY HeirOf
  <2>3. QED
    BY <2>1, <2>2
<1> HIDE DEF W, armed
<1>6. \A u \in Tasks : state'[u] = IF u \in W THEN "ready" ELSE IF u = t THEN "zombie" ELSE state[u]
  BY <1>1, <1>2 DEF push_home_locked, TypeInv, RunTy
<1>7. t \notin W
  BY <1>4, <1>5
<1>8. Moved(c) /\ pc'[c] = "registry" /\ op'[c].task = t
  BY <1>0, <1>2, MovedGo
<1>9. \A u : find_by_task(u)' = find_by_task(u)
  BY <1>3, FindSame
<1>10. ExecInv'
  <2>1. ExecApart(c)
    BY <1>1, <1>2, <1>8 DEF ExecApart, ExecPCs, MainPCs, Monitor
  <2>2. \A u \in UserTasks : Sealed(u) => Sealed(u)'
    <3> SUFFICES ASSUME NEW u \in UserTasks, Sealed(u) PROVE Sealed(u)'
      OBVIOUS
    <3>1. u \in Tasks /\ u # t /\ u \notin W
      BY <1>1, <1>4, <1>5, Ground DEF Sealed, Alone
    <3>2. QED
      BY <1>2, <1>6, <1>9, <3>1 DEF Sealed, Alone, Woken
  <2>3. QED
    BY <1>3, <1>8, <1>9, <2>1, <2>2, ExecKept
<1>11. SvcHeld'
  <2>1. SvcMove(c)
    BY <1>1, <1>2 DEF SvcMove, SvcPCs, LifeInv, SvcHeld
  <2>2. QED
    BY <1>8, <2>1, SvcKept DEF LifeInv
<1>12. AtRegistry'
  <2>1. \A d \in Cores : pc[d] = "registry" => op[d].task \in Tasks /\ state[op[d].task] = "zombie"
    BY Ground DEF LifeInv, AtRegistry
  <2>2. \A u \in Tasks : state[u] = "zombie" => state'[u] = "zombie"
    BY <1>5, <1>6
  <2>3. state'[t] = "zombie"
    BY <1>1, <1>6, <1>7
  <2>4. QED
    BY <1>1, <1>8, <2>1, <2>2, <2>3 DEF LifeInv, AtRegistry, Moved
<1>13. Running'
  <2>1. RunningAt(c)'
    BY <1>8 DEF RunningAt, Owns
  <2>2. \A u \in Tasks : state[u] = "running" => state'[u] = "running" \/ (u = current[c] /\ Owns(c))
    BY <1>1, <1>4, <1>5, <1>6
  <2>3. QED
    BY <1>8, <2>1, <2>2, RunningKept DEF LifeInv
<1>14. Registered'
  <2> SUFFICES ASSUME NEW u \in UserTasks PROVE RegisteredAt(u)'
    BY DEF Registered
  <2>1. RegisteredAt(u) /\ u \in Tasks
    BY Ground DEF LifeInv, RegInv, Registered
  <2>2. CASE u = t
    BY <1>6, <1>7, <1>8, <2>1, <2>2 DEF RegisteredAt, Alive
  <2>3. CASE u # t
    <3>1. InBuild(u) => InBuild(u)'
      BY <1>1, <1>2, <1>8, BuildKept
    <3>2. \A d \in Cores : pc[d] = "registry" => pc'[d] = "registry" /\ op'[d].task = op[d].task
      BY <1>1, <1>8, RegistryCores
    <3>3. QED
      BY <1>5, <1>6, <1>9, <2>1, <2>3, <3>1, <3>2 DEF RegisteredAt, Alive
  <2>4. QED
    BY <2>2, <2>3
<1>15. RegInv'
  BY <1>3, <1>14, FindSame DEF LifeInv, RegInv, TasksApart, LiveCount, NoThreads, PagesHeld
<1>16. QED
  BY <1>10, <1>11, <1>12, <1>13, <1>15 DEF LifeInv

\* The registry hears of an exit: the task is no longer its process's.
LEMMA TaskExits ==
  ASSUME TypeInv, LifeInv, NEW t \in Tasks, NEW p \in find_by_task(t), NEW status, on_task_exit(p, t, status)
  PROVE  /\ p \in Procs /\ pstate[p] = "running" /\ IsTaskOf(p, t)
         /\ \A q \in Procs : \A u \in Tasks : IsTaskOf(q, u)' <=> IsTaskOf(q, u) /\ ~(q = p /\ u = t)
         /\ \A q \in Procs : q # p => pstate'[q] = pstate[q] /\ live_tasks'[q] = live_tasks[q]
         /\ pstate'[p] \in {"running", "exited"} /\ live_tasks'[p] = live_tasks[p] - 1
         /\ \A q \in Procs : q # p => thread_tasks'[q] = thread_tasks[q]
         /\ pages' = pages
<1>1. p \in Procs /\ IsTaskOf(p, t) /\ pstate[p] = "running" /\ ProcessTypeOK
  BY DEF find_by_task, IsTaskOf, TypeInv, ProcTy
<1>2. /\ live_tasks' = [live_tasks EXCEPT ![p] = @ - 1] /\ pages' = pages
      /\ thread_tasks' = [thread_tasks EXCEPT ![p] = @ \ {t}]
  BY DEF on_task_exit
<1>3. live_tasks[p] = Cardinality(TasksOf(p)) /\ live_tasks[p] \in Nat /\ live_tasks[p] > 0
  BY <1>1 DEF LifeInv, RegInv, LiveCount, TypeInv, ProcTy, ProcessTypeOK
<1>4. CASE live_tasks[p] > 1
  <2>1. task_id' = [task_id EXCEPT ![p] = IF @ = t THEN NoTask ELSE @] /\ pstate' = pstate
    BY <1>4 DEF on_task_exit
  <2>2. \A q \in Procs : \A u \in Tasks : IsTaskOf(q, u)' <=> IsTaskOf(q, u) /\ ~(q = p /\ u = t)
    BY <1>1, <1>2, <2>1, Ground DEF IsTaskOf, ProcessTypeOK
  <2>3. QED
    BY <1>1, <1>2, <2>1, <2>2 DEF ProcessTypeOK
<1>5. CASE ~(live_tasks[p] > 1)
  <2>1. pstate' = [pstate EXCEPT ![p] = "exited"] /\ task_id' = [task_id EXCEPT ![p] = t]
    BY <1>5 DEF on_task_exit
  <2>2. Cardinality(TasksOf(p)) = 1
    BY <1>3, <1>5
  <2>3. TasksOf(p) = {t}
    <3>1. PICK x : TasksOf(p) = {x}
      BY <2>2, TasksFinite, FS_Singleton
    <3>2. t \in TasksOf(p)
      BY <1>1 DEF TasksOf
    <3>3. QED
      BY <3>1, <3>2
  <2>4. \A u \in Tasks : IsTaskOf(p, u) => u = t
    BY <2>3 DEF TasksOf
  <2>5. \A q \in Procs : \A u \in Tasks : IsTaskOf(q, u)' <=> IsTaskOf(q, u) /\ ~(q = p /\ u = t)
    BY <1>1, <1>2, <2>1, <2>4 DEF IsTaskOf, ProcessTypeOK
  <2>6. QED
    BY <1>1, <1>2, <2>1, <2>5 DEF ProcessTypeOK
<1>6. QED
  BY <1>4, <1>5

LEMMA RegistryLife ==
  ASSUME TypeInv, RunInv, TypeInv', LifeInv, NEW c \in Cores, exit_registry(c)
  PROVE  LifeInv'
<1>0. PICK t : t = op[c].task
  OBVIOUS
<1>1. PICK p \in find_by_task(t) : /\ on_task_exit(p, t, op[c].val) /\ op' = [op EXCEPT ![c].pid = p]
                                   /\ Goto(c, IF pstate'[p] = "exited" THEN "wake" ELSE "open")
  BY <1>0 DEF exit_registry
<1>2. pc[c] = "registry" /\ UNCHANGED <<state, current, wait, left, svc, cont>>
  BY DEF exit_registry, runVars, waitVars
<1>3. t \in UserTasks /\ t \in Tasks /\ state[t] = "zombie" /\ svc = c
  BY <1>0, <1>2, Ground DEF LifeInv, AtRegistry, SvcHeld, SvcPCs
<1>4. /\ p \in Procs /\ pstate[p] = "running" /\ IsTaskOf(p, t)
      /\ \A q \in Procs : \A u \in Tasks : IsTaskOf(q, u)' <=> IsTaskOf(q, u) /\ ~(q = p /\ u = t)
      /\ \A q \in Procs : q # p => pstate'[q] = pstate[q] /\ live_tasks'[q] = live_tasks[q]
      /\ pstate'[p] \in {"running", "exited"} /\ live_tasks'[p] = live_tasks[p] - 1
      /\ \A q \in Procs : q # p => thread_tasks'[q] = thread_tasks[q]
      /\ pages' = pages
  BY <1>1, <1>3, TaskExits
<1>5. Moved(c) /\ pc'[c] \in {"wake", "open"}
  <2>1. \E o : op' = [op EXCEPT ![c] = o]
    BY <1>1
  <2>2. PICK l : l = (IF pstate'[p] = "exited" THEN "wake" ELSE "open")
    OBVIOUS
  <2>3. QED
    BY <1>1, <1>2, <2>1, <2>2, MovedGo
<1>6. /\ \A u \in UserTasks : u # t => find_by_task(u)' = find_by_task(u)
      /\ find_by_task(t)' = {}
  <2>1. \A u \in UserTasks : u # t => find_by_task(u)' = find_by_task(u)
    BY <1>4, Ground DEF find_by_task
  <2>2. \A q \in Procs : ~IsTaskOf(q, t)'
    BY <1>3, <1>4 DEF LifeInv, RegInv, TasksApart
  <2>3. QED
    BY <2>1, <2>2 DEF find_by_task
<1>7. ExecInv'
  <2>1. ExecApart(c)
    BY <1>2, <1>5 DEF ExecApart, ExecPCs, MainPCs, Monitor
  <2>2. \A u \in UserTasks : Sealed(u) => Sealed(u)' /\ find_by_task(u)' = find_by_task(u)
    <3>1. \A u \in Tasks : find_by_task(u)' \subseteq find_by_task(u)
      BY <1>4 DEF find_by_task
    <3>2. QED
      BY <1>2, <1>3, <1>6, <3>1, Ground DEF Sealed, Alone
  <2>3. \A q \in Procs : pstate[q] # "running" => pstate'[q] = pstate[q]
    BY <1>4
  <2>4. QED
    BY <1>5, <2>1, <2>2, <2>3, ExecKept
<1>8. SvcHeld' /\ AtRegistry' /\ Running'
  <2>1. SvcHeld'
    BY <1>2, <1>3, <1>5, SvcKept DEF LifeInv, SvcMove
  <2>2. AtRegistry'
    BY <1>2, <1>5, AtRegistryKept DEF LifeInv
  <2>3. RunningAt(c)'
    BY <1>5 DEF RunningAt, Owns
  <2>4. QED
    BY <1>2, <1>5, <2>1, <2>2, <2>3, RunningKept DEF LifeInv
<1>9. TasksApart' /\ NoThreads' /\ PagesHeld'
  <2>1. TasksApart'
    BY <1>4 DEF LifeInv, RegInv, TasksApart
  <2>2. NoThreads' /\ PagesHeld'
    BY <1>4 DEF LifeInv, RegInv, NoThreads, PagesHeld
  <2>3. QED
    BY <2>1, <2>2
<1>10. LiveCount'
  <2>1. \A q \in Procs : q # p => TasksOf(q)' = TasksOf(q)
    BY <1>4 DEF TasksOf
  <2>2. TasksOf(p)' = TasksOf(p) \ {t} /\ t \in TasksOf(p)
    BY <1>3, <1>4 DEF TasksOf
  <2>3. Cardinality(TasksOf(p) \ {t}) = Cardinality(TasksOf(p)) - 1
    BY <2>2, TasksFinite, FS_RemoveElement
  <2>4. QED
    BY <1>4, <2>1, <2>2, <2>3 DEF LifeInv, RegInv, LiveCount
<1>11. Registered'
  <2> SUFFICES ASSUME NEW u \in UserTasks PROVE RegisteredAt(u)'
    BY DEF Registered
  <2>1. RegisteredAt(u) /\ state'[u] = state[u]
    BY <1>2 DEF LifeInv, RegInv, Registered
  <2>2. CASE u = t
    BY <1>3, <1>6, <2>1, <2>2 DEF RegisteredAt, Alive
  <2>3. CASE u # t
    <3>1. InBuild(u) => InBuild(u)'
      BY <1>2, <1>5, BuildKept
    <3>2. \A d \in Cores : pc[d] = "registry" /\ op[d].task = u =>
            pc'[d] = "registry" /\ op'[d].task = u
      BY <1>0, <1>5, <2>3 DEF Moved
    <3>3. QED
      BY <1>6, <2>1, <2>3, <3>1, <3>2 DEF RegisteredAt
  <2>4. QED
    BY <2>2, <2>3
<1>12. QED
  BY <1>7, <1>8, <1>9, <1>10, <1>11 DEF LifeInv, RegInv

LEMMA ReapLife ==
  ASSUME TypeInv, RunInv, TypeInv', LifeInv, NEW c \in Cores, reap(c)
  PROVE  LifeInv'
<1>0. PICK m : m = Min(Zombies)
  OBVIOUS
<1>1. /\ c = 0 /\ pc[c] = "user" /\ current[c] = idle_id /\ svc = NoCore /\ svc' = c
      /\ state' = [state EXCEPT ![m] = "free"] /\ op' = [op EXCEPT ![c] = Op(m, "reap", 0, 0)]
      /\ Goto(c, "reap") /\ UNCHANGED <<procVars, current, wait, left, cont>>
  BY <1>0 DEF reap
<1>2. m \in UserTasks /\ m \in Tasks /\ state[m] = "zombie"
  BY <1>0, ZombieSlot DEF reap, RunInv
<1>3. \A d \in Cores : pc[d] # "registry"
  BY <1>1, Ground DEF LifeInv, SvcHeld, SvcPCs
<1>4. find_by_task(m) = {}
  BY <1>2, <1>3 DEF LifeInv, RegInv, Registered, RegisteredAt
<1>5. \A u \in Tasks : state'[u] = IF u = m THEN "free" ELSE state[u]
  BY <1>1 DEF TypeInv, RunTy
<1>6. UNCHANGED <<pstate, task_id, thread_tasks, live_tasks, pages>>
  BY <1>1 DEF procVars
<1>7. \A u : find_by_task(u)' = find_by_task(u)
  BY <1>6, FindSame
<1>8. Moved(c) /\ pc'[c] = "reap"
  BY <1>1, MovedGo
<1>9. ExecInv'
  <2>1. ExecApart(c)
    BY <1>1, <1>8 DEF ExecApart, ExecPCs, MainPCs
  <2>2. \A u \in UserTasks : Sealed(u) => Sealed(u)'
    BY <1>1, <1>2, <1>5, <1>7, Ground DEF Sealed, Alone
  <2>3. QED
    BY <1>6, <1>7, <1>8, <2>1, <2>2, ExecKept
<1>10. SvcHeld' /\ AtRegistry' /\ Running'
  <2>1. SvcHeld'
    BY <1>1, <1>8, SvcKept DEF LifeInv, SvcMove
  <2>2. AtRegistry'
    BY <1>3, <1>8, AtRegistryKept DEF LifeInv
  <2>3. RunningAt(c)'
    BY <1>1, Ground DEF RunningAt
  <2>4. \A u \in Tasks : state[u] = "running" => state'[u] = "running"
    BY <1>2, <1>5
  <2>5. QED
    BY <1>8, <2>1, <2>2, <2>3, <2>4, RunningKept DEF LifeInv
<1>11. Registered'
  <2> SUFFICES ASSUME NEW u \in UserTasks PROVE RegisteredAt(u)'
    BY DEF Registered
  <2>1. RegisteredAt(u) /\ u \in Tasks
    BY Ground DEF LifeInv, RegInv, Registered
  <2>2. CASE u = m
    BY <1>4, <1>5, <1>7, <2>1, <2>2 DEF RegisteredAt, Alive
  <2>3. CASE u # m
    <3>1. InBuild(u) => InBuild(u)'
      BY <1>1, <1>8, BuildKept
    <3>2. QED
      BY <1>3, <1>5, <1>7, <2>1, <2>3, <3>1 DEF RegisteredAt
  <2>4. QED
    BY <2>2, <2>3
<1>12. RegInv'
  BY <1>6, <1>11, FindSame DEF LifeInv, RegInv, TasksApart, LiveCount, NoThreads, PagesHeld
<1>13. QED
  BY <1>9, <1>10, <1>12 DEF LifeInv

LEMMA ReapPagesLife ==
  ASSUME TypeInv, RunInv, TypeInv', LifeInv, NEW c \in Cores, reap_pages(c)
  PROVE  LifeInv'
<1>0. PICK m : m = op[c].task
  OBVIOUS
<1>1. /\ pc[c] = "reap" /\ release_pages_on_reap(m) /\ svc' = NoCore /\ op' = [op EXCEPT ![c] = NoOp]
      /\ Goto(c, "user") /\ UNCHANGED <<state, current, wait, left, cont>>
  BY <1>0 DEF reap_pages, runVars, waitVars
<1>2. Moved(c) /\ pc'[c] = "user" /\ svc = c
  <2>1. svc = c
    BY <1>1 DEF LifeInv, SvcHeld, SvcPCs
  <2>2. QED
    BY <1>1, <2>1, MovedGo
<1>3. /\ UNCHANGED <<pstate, thread_tasks, live_tasks>>
      /\ \A p \in Procs : pstate[p] # "exited" => task_id'[p] = task_id[p] /\ pages'[p] = pages[p]
  BY <1>1 DEF release_pages_on_reap, ExitedOn, TypeInv, ProcTy, ProcessTypeOK
<1>4. \A p \in Procs : \A u : IsTaskOf(p, u)' <=> IsTaskOf(p, u)
  BY <1>3 DEF IsTaskOf
<1>5. \A u : find_by_task(u)' = find_by_task(u)
  BY <1>4 DEF find_by_task
<1>6. TasksApart' /\ NoThreads' /\ PagesHeld' /\ LiveCount'
  <2>1. \A p \in Procs : TasksOf(p)' = TasksOf(p)
    BY <1>4 DEF TasksOf
  <2>2. TasksApart'
    BY <1>4 DEF LifeInv, RegInv, TasksApart
  <2>3. QED
    BY <1>3, <2>1, <2>2 DEF LifeInv, RegInv, NoThreads, PagesHeld, LiveCount
<1>7. ExecInv'
  <2>1. ExecApart(c)
    BY <1>1, <1>2 DEF ExecApart, ExecPCs, MainPCs
  <2>2. \A u \in UserTasks : Sealed(u) => Sealed(u)'
    BY <1>1, <1>5 DEF Sealed, Alone
  <2>3. QED
    BY <1>2, <1>3, <1>5, <2>1, <2>2, ExecKept
<1>8. SvcHeld' /\ AtRegistry' /\ Running'
  <2>1. SvcHeld'
    BY <1>1, <1>2, SvcKept DEF LifeInv, SvcMove, SvcPCs
  <2>2. AtRegistry'
    BY <1>1, <1>2, AtRegistryKept DEF LifeInv
  <2>3. RunningAt(c) /\ current'[c] = current[c]
    BY <1>1 DEF LifeInv, Running
  <2>4. RunningAt(c)'
    BY <1>1, <1>2, <2>3 DEF RunningAt, Owns
  <2>5. QED
    BY <1>1, <1>2, <2>1, <2>2, <2>4, RunningKept DEF LifeInv
<1>9. Registered'
  <2>1. \A u : InBuild(u) => InBuild(u)'
    BY <1>1, <1>2, BuildKept
  <2>2. \A d \in Cores : pc[d] = "registry" => pc'[d] = "registry" /\ op'[d].task = op[d].task
    BY <1>1, <1>2, RegistryCores
  <2>3. QED
    BY <1>1, <1>5, <2>1, <2>2, RegisteredKept DEF LifeInv, RegInv
<1>10. QED
  BY <1>6, <1>7, <1>8, <1>9 DEF LifeInv, RegInv
-----------------------------------------------------------------------------
LEMMA InitLife ==
  ASSUME NEW w \in Workloads, Start(w)
  PROVE  LifeInv
<1> DEFINE InitTasks == w.tasks
           InitUsers == UNION {InitTasks[p] : p \in Procs}
<1>1. /\ \A p \in Procs : /\ pstate[p] = IF InitTasks[p] = {} THEN "free" ELSE "running"
                          /\ task_id[p] = IF InitTasks[p] = {} THEN NoTask ELSE Min(InitTasks[p])
                          /\ thread_tasks[p] = InitTasks[p] \ {task_id[p]}
                          /\ live_tasks[p] = Cardinality(InitTasks[p])
                          /\ pages[p] <=> InitTasks[p] # {}
      /\ \A t \in Tasks : state[t] = IF t \in InitUsers \cup {shell, idle_id} THEN "ready" ELSE "free"
      /\ \A c \in Cores : pc[c] = "user" /\ current[c] \in {shell, idle_id}
      /\ cont.pc = "user"
  BY DEF Start, Fresh
<1>2. /\ \A p \in Procs : InitTasks[p] \subseteq UserTasks
      /\ \A p, q \in Procs : p # q => InitTasks[p] \cap InitTasks[q] = {}
  BY SchedulerAssumption
<1>3. \A p \in Procs : InitTasks[p] # {} => task_id[p] \in InitTasks[p]
  <2> SUFFICES ASSUME NEW p \in Procs, InitTasks[p] # {} PROVE Min(InitTasks[p]) \in InitTasks[p]
    BY <1>1
  <2>1. InitTasks[p] \subseteq Nat
    BY <1>2, Ground
  <2>2. QED
    BY <2>1, MinOf
<1>4. \A p \in Procs : \A t \in Tasks : IsTaskOf(p, t) <=> t \in InitTasks[p]
  BY <1>1, <1>3 DEF IsTaskOf
<1>5. \A p \in Procs : TasksOf(p) = InitTasks[p]
  BY <1>2, <1>4, Ground DEF TasksOf
<1>6. TasksApart
  BY <1>2, <1>4 DEF TasksApart
<1>7. NoThreads /\ PagesHeld /\ LiveCount
  BY <1>1, <1>5 DEF NoThreads, PagesHeld, LiveCount
<1>8. Registered
  <2> SUFFICES ASSUME NEW t \in UserTasks PROVE RegisteredAt(t)
    BY DEF Registered
  <2>1. t \in Tasks /\ t # shell /\ t # idle_id
    BY Ground
  <2>2. t \in InitUsers <=> \E p \in Procs : t \in InitTasks[p]
    OBVIOUS
  <2>3. find_by_task(t) # {} <=> t \in InitUsers
    BY <1>4, <2>1, <2>2 DEF find_by_task
  <2>4. QED
    BY <1>1, <2>1, <2>3 DEF RegisteredAt, Alive
<1>9. ExecInv
  BY <1>1 DEF ExecInv, AllFit, ExecSole, ExecFits, ExecPCs, Distinct
<1>10. SvcHeld /\ AtRegistry /\ Running
  <2>1. \A c \in Cores : current[c] \notin UserTasks
    BY <1>1, Ground
  <2>2. QED
    BY <1>1, <2>1 DEF SvcHeld, SvcPCs, AtRegistry, Running, RunningAt
<1>11. QED
  BY <1>6, <1>7, <1>8, <1>9, <1>10 DEF LifeInv, RegInv

LEMMA StepLife ==
  ASSUME ScanHolds', TypeInv, RunInv, LifeInv, [Next]_vars
  PROVE  LifeInv'
<1>1. TypeInv'
  BY StepKeeps
<1>2. CASE UNCHANGED vars \/ \E c \in Cores : sched_lock_acquire(c)
  <2>1. UNCHANGED <<pstate, task_id, thread_tasks, live_tasks, pages, state, wait, left, current,
                    svc, pc, op, cont>>
    BY <1>2 DEF vars, sched_lock_acquire, procVars, runVars, waitVars, coreVars
  <2>2. QED
    BY <2>1, FindSame DEF LifeInv, ExecInv, AllFit, ExecSole, Distinct, ExecFits, Unused, Sealed,
       Alone, SvcHeld, AtRegistry,
       Running, RunningAt, Owns, RegInv, TasksApart, NoThreads, PagesHeld, LiveCount, Registered,
       RegisteredAt, InBuild
<1>3. ASSUME NEW c \in Cores, Tick(c) PROVE LifeInv'
  BY <1>1, <1>3, TickLife, RotateLife, LeaveLife DEF Tick
<1>4. ASSUME NEW c \in Cores, Kernel(c) PROVE LifeInv'
  <2>1. CASE \/ wait_current(c) \/ wait_event_current(c) \/ futex_seat(c) \/ wake_event_waiters(c)
             \/ request_kill(c) \/ lock_won(c)
    BY <1>1, <2>1, BlockLife
  <2>2. CASE rotate(c) \/ claim_and_stage(c) \/ eret(c)
    BY <1>1, <2>2, RotateLife, TickLife
  <2>3. CASE exec_create(c) \/ register_exec_user(c) \/ exec_bind(c) \/ publish_task(c)
    BY <1>1, <2>3, CreateLife, RegisterLife, BindLife, PublishLife
  <2>4. CASE \/ exit_current(c) \/ convert_kill(c) \/ convert_deferred(c) \/ wake_waiters(c)
             \/ exit_open(c) \/ exit_unwind(c)
    BY <1>1, <2>4, LeaveLife
  <2>5. CASE exit_zombie(c) \/ exit_registry(c) \/ reap_pages(c)
    BY <1>1, <2>5, ZombieLife, RegistryLife, ReapPagesLife
  <2>6. QED
    BY <1>2, <1>4, <2>1, <2>2, <2>3, <2>4, <2>5 DEF Kernel
<1>5. ASSUME NEW c \in Cores, User(c) PROVE LifeInv'
  <2>1. CASE spawn_thread(c) \/ exec_file(c) \/ yield_current(c)
    BY <1>1, <2>1, SpawnLife, ExecFileLife, RotateLife
  <2>2. CASE \/ Return(c) \/ handle_wait_event(c) \/ futex_store(c) \/ futex_wake(c)
             \/ exit_thread_current(c) \/ pin_task(c)
             \/ \E ticks \in 1 .. MaxTicks : sleep_current(c, ticks)
             \/ \E ticks \in 1 .. Never : futex_wait_current(c, ticks)
             \/ \E p \in Procs : handle_wait(c, p) \/ events_push(c, p) \/ handle_kill(c, p)
             \/ \E status \in ExitCodes : handle_exit(c, status)
    BY <1>1, <2>2, ProgramLife
  <2>3. CASE lock_spin(c)
    BY <1>1, <2>3, BlockLife
  <2>4. QED
    BY <1>5, <2>1, <2>2, <2>3 DEF User
<1>6. ASSUME NEW c \in Cores, reap(c) PROVE LifeInv'
  BY <1>1, <1>6, ReapLife
<1>7. QED
  BY <1>2, <1>3, <1>4, <1>5, <1>6 DEF Next
-----------------------------------------------------------------------------
(***************************************************************************)
(* The life of a task in the registry: execs apart, exits under the        *)
(* service domains, every live task with its process, as long as no exec   *)
(* lost the slot its scan had found.                                       *)
(***************************************************************************)
THEOREM LifeInvariance == Spec /\ []ScanHolds => [](TypeInv /\ RunInv /\ LifeInv)
<1>1. Init => LifeInv
  BY InitLife DEF Init
<1>2. ScanHolds' /\ TypeInv /\ RunInv /\ LifeInv /\ [Next]_vars => LifeInv'
  BY StepLife
<1>3. QED
  BY <1>1, <1>2, RunInvariance, PTL DEF Spec

(***************************************************************************)
(* live_tasks of a running process counts its tasks, none of which has     *)
(* been reaped (LiveTasksExact): the process exits with its last task and  *)
(* not before, however threads start, exit and are killed, and however     *)
(* many execs are under way, unless two of them took the same slot.        *)
(***************************************************************************)
THEOREM LiveTasksKept == Spec /\ []ScanHolds => []LiveTasksExact
<1>1. TypeInv /\ RunInv /\ LifeInv => LiveTasksExact
  <2> SUFFICES ASSUME TypeInv, RunInv, LifeInv, NEW p \in Procs, pstate[p] = "running"
               PROVE  /\ live_tasks[p] = Cardinality({t \in Tasks : IsTaskOf(p, t)})
                      /\ live_tasks[p] > 0
                      /\ \A t \in Tasks : IsTaskOf(p, t) => state[t] # "free"
    BY DEF LiveTasksExact
  <2>1. live_tasks[p] = Cardinality({t \in Tasks : IsTaskOf(p, t)})
    BY DEF LifeInv, RegInv, LiveCount, TasksOf
  <2>2. live_tasks[p] > 0
    BY DEF TypeInv, ProcTy
  <2>3. ASSUME NEW t \in Tasks, IsTaskOf(p, t) PROVE state[t] # "free"
    <3>1. find_by_task(t) # {}
      BY <2>3 DEF find_by_task
    <3>2. CASE t \in UserTasks
      BY <3>1, <3>2 DEF LifeInv, RegInv, Registered, RegisteredAt
    <3>3. CASE t \notin UserTasks
      BY <3>3, Ground DEF RunInv, SystemTasks
    <3>4. QED
      BY <3>2, <3>3
  <2>4. QED
    BY <2>1, <2>2, <2>3
<1>2. QED
  BY <1>1, LifeInvariance, PTL

(***************************************************************************)
(* A program at EL0 is a running task of a running process that owns its   *)
(* pages (ProgramAlive): exits, kills, execs and the reaper take them away *)
(* from nobody who still runs, unless two execs took the same slot.        *)
(***************************************************************************)
THEOREM ProgramsAlive == Spec /\ []ScanHolds => []ProgramAlive
<1>1. RunInv /\ LifeInv => ProgramAlive
  <2> SUFFICES ASSUME RunInv, LifeInv, NEW c \in Cores, pc[c] = "user", current[c] \in UserTasks
               PROVE  state[current[c]] = "running" /\ \E p \in find_by_task(current[c]) : pages[p]
    BY DEF ProgramAlive
  <2>1. c \in Owners /\ Owns(c)
    BY Ground DEF Owners, Owns
  <2>2. state[current[c]] = "running"
    BY <2>1 DEF LifeInv, Running, RunningAt
  <2>3. PICK p : p \in find_by_task(current[c])
    BY <2>1, OwnedFound
  <2>4. pages[p]
    BY <2>3 DEF find_by_task, IsTaskOf, LifeInv, RegInv, PagesHeld
  <2>5. QED
    BY <2>2, <2>3, <2>4
<1>2. QED
  BY <1>1, LifeInvariance, PTL
=============================================================================
