--------------------------- MODULE SchedulerProofs ---------------------------
(***************************************************************************)
(* Proofs about the scheduler, for any number of cores, tasks, processes   *)
(* and futex seats: the type invariant, the ready rings, the ownership of  *)
(* the task a core runs, the pins, and the status a process ends with.     *)
(*                                                                         *)
(* The type invariant is kept in one part per group of variables, so that  *)
(* what an action leaves alone is settled by its UNCHANGED.  The run       *)
(* invariant RunInv is about who may touch a task: a task is on one ring,  *)
(* or owned by one core, or neither; only a task that is neither is woken, *)
(* built or reaped, and only its owner blocks it or ends it.               *)
(***************************************************************************)
EXTENDS Scheduler, FiniteSetTheorems, WellFoundedInduction, TLAPS

OpCalls == {"none", "sleep", "wait", "event", "push", "futex", "thread", "exec",
            "recycle", "kill", "exit", "reap"}

OpVals == Statuses \cup Procs \cup Seats \cup Tasks

OpRec ==
  [task : Tasks \cup {NoTask}, call : OpCalls, val : OpVals, ticks : 0 .. Never,
   pid : Procs \cup {0}, late : BOOLEAN]

(***************************************************************************)
(* The type invariant, by groups of variables.  A running process has a    *)
(* live task to lose.                                                      *)
(***************************************************************************)
ProcTy == ProcessTypeOK /\ \A p \in Procs : pstate[p] = "running" => live_tasks[p] > 0

RunTy ==
  state \in [Tasks -> States] /\ ring \in [Cores -> SUBSET Tasks] /\ current \in [Cores -> Tasks]

PinTy == pin_core \in [Tasks -> Cores] /\ secondary_ok \subseteq UserTasks

KillTy == kill \in [Tasks -> BOOLEAN] /\ kill_status \in [Tasks -> {Killed, CpuLimit}]

TearTy == teardown \in [Tasks -> BOOLEAN]

WaitTy ==
  /\ wait \in [Tasks -> Waits] /\ target \in [Tasks -> Procs \cup {NoTask}]
  /\ left \in [Tasks -> 1 .. Never] /\ redo \in [Tasks -> BOOLEAN]
  /\ x0 \in [Tasks -> Statuses]

UserTy ==
  /\ seat \in [Seats -> Tasks \cup {NoTask}] /\ word \in [Procs -> {0, 1}]
  /\ due \in [Tasks -> BOOLEAN] /\ queue \in [Procs -> 0 .. MaxEvents]

CoreTy ==
  /\ svc \in Cores \cup {NoCore} /\ pc \in [Cores -> PCs]
  /\ on \in [Cores -> Tasks \cup {NoTask}] /\ op \in [Cores -> OpRec]
  /\ cont \in [pc : Monitor \cup {"user"}, op : OpRec]

(***************************************************************************)
(* The operands of an operation are of the kind its next section uses.     *)
(***************************************************************************)
OpFits(label, o) ==
  /\ label = "block" => o.val \in Procs
  /\ label = "seat" => o.ticks \in 1 .. Never
  /\ label \in {"spin", "zombie", "registry", "wake"} => o.val \in Statuses

OpTy == \A c \in Cores : OpFits(pc[c], op[c])

TypeInv ==
  ProcTy /\ RunTy /\ PinTy /\ KillTy /\ TearTy /\ WaitTy /\ UserTy /\ CoreTy /\ OpTy
-----------------------------------------------------------------------------
(***************************************************************************)
(* The run invariant.  Its first part is stated of any task states st,     *)
(* rings rg, current tasks cur, owning cores own and pins pin, because a   *)
(* rotation passes through a state of its own: the task goes back on the   *)
(* ring, then its successor comes off it.                                  *)
(***************************************************************************)

\* A task is on at most one ring, is ready there, and is where its pin is; the
\* idle task is on ring 0.
Members(st, rg, pin) ==
  /\ \A c, d \in Cores : \A t \in Tasks : t \in rg[c] /\ t \in rg[d] => c = d
  /\ \A c \in Cores : \A t \in Tasks : t \in rg[c] =>
       st[t] = "ready" /\ (t = idle_id => c = 0) /\ (pin[t] # 0 => pin[t] = c)

\* The current task of an owning core is its own, and fit to run there.
Apart(st, rg, cur, own, pin) ==
  \A c \in own :
    /\ \A d \in Cores : cur[c] \notin rg[d]
    /\ \A d \in own \ {c} : cur[d] # cur[c]
    /\ st[cur[c]] \in {"ready", "running"}
    /\ cur[c] = idle_id => c = 0
    /\ pin[cur[c]] # 0 => pin[cur[c]] = c

\* A ready task is on a ring or owned.
NoneLost(st, rg, cur, own) ==
  \A t \in Tasks : st[t] = "ready" =>
    (\E c \in Cores : t \in rg[c]) \/ (\E c \in own : cur[c] = t)

Held(st, rg, cur, own, pin) ==
  Members(st, rg, pin) /\ Apart(st, rg, cur, own, pin) /\ NoneLost(st, rg, cur, own)

Owners == {c \in Cores : Owns(c)}

\* The shell and the idle task never block and never end, are pinned to no
\* secondary core, and are never killed.
SystemTasks ==
  \A t \in {shell, idle_id} : state[t] \in {"ready", "running"} /\ pin_core[t] = 0 /\ ~kill[t]

\* A section that blocks or ends a task works on its own core's current one.
OpOwn(c, label, o, cur) ==
  /\ label \in {"block", "seat", "spin", "zombie"} => o.task = cur /\ cur \in UserTasks
  /\ label = "convert" => cur \in UserTasks
  /\ label = "rotate" => c = 0

OwnOperand == \A c \in Cores : OpOwn(c, pc[c], op[c], current[c])

RunInv == Held(state, ring, current, Owners, pin_core) /\ SystemTasks /\ OwnOperand
-----------------------------------------------------------------------------
(***************************************************************************)
(* What the assumptions on the constants give.                             *)
(***************************************************************************)
LEMMA Ground ==
  /\ Tasks \subseteq Nat /\ shell \in Tasks /\ idle_id \in Tasks /\ shell # idle_id
  /\ UserTasks \subseteq Tasks /\ shell \notin UserTasks /\ idle_id \notin UserTasks
  /\ \A t \in Tasks : t \in UserTasks \/ t = shell \/ t = idle_id
  /\ NoTask \notin Tasks
  /\ 0 \in Cores /\ NoCore \notin Cores
  /\ Never \in Nat /\ Never \in 1 .. Never /\ MaxEvents \in Nat
  /\ Seats \subseteq Nat /\ 0 \in Statuses
  /\ Killed \in Statuses /\ CpuLimit \in Statuses /\ ExitCodes \subseteq Statuses
BY SchedulerAssumption, ProcessAssumption DEF shell, UserTasks, Never, Seats

(***************************************************************************)
(* The scans for the first slot find one (the loops over the task table).  *)
(***************************************************************************)
LEMMA MinOf ==
  ASSUME NEW S, S \subseteq Nat, S # {}
  PROVE  Min(S) \in S /\ \A y \in S : Min(S) <= y
<1> DEFINE R == OpToRel(<, Nat)
<1>1. IsWellFoundedOn(R, Nat)
  BY NatLessThanWellFounded
<1>2. \A x, y \in Nat : x < y => <<x, y>> \in R
  BY DEF OpToRel
<1> HIDE DEF R
<1>3. PICK x \in S : \A y \in S : ~ (<<y, x>> \in R)
  BY <1>1, WFMin
<1>4. \A y \in S : x <= y
  <2> SUFFICES ASSUME NEW y \in S PROVE x <= y
    OBVIOUS
  <2>1. x \in Nat /\ y \in Nat
    BY <1>3
  <2>2. ~ (y < x)
    BY <1>2, <1>3, <2>1, Zenon
  <2>3. QED
    BY <2>1, <2>2
<1>5. QED
  BY <1>4 DEF Min

(***************************************************************************)
(* merged_next answers with a task of the core's own ring, or with one it  *)
(* may steal, and with none only when there is none.                       *)
(***************************************************************************)
LEMMA NextFound ==
  ASSUME NEW c \in Cores, NEW after, NEW rg \in [Cores -> SUBSET Tasks],
         NEW n, n = merged_next(c, after, rg), n # NoTask
  PROVE  /\ n \in Tasks
         /\ n \in rg[c] \/ \E r \in Cores : n \in rg[r] /\ steal_eligible(c, n)
<1> DEFINE E == Eligible(c, rg)
           later == {t \in E : t > after}
<1>1. E \subseteq Tasks /\ \A t \in E : t \in rg[c] \/ \E r \in Cores : t \in rg[r] /\ steal_eligible(c, t)
  BY DEF Eligible
<1>2. n = IF E = {} THEN NoTask ELSE IF later = {} THEN Min(E) ELSE Min(later)
  BY DEF merged_next
<1>3. E \subseteq Nat /\ later \subseteq E /\ later \subseteq Nat
  BY <1>1, Ground
<1> HIDE DEF E, later
<1>4. E # {}
  BY <1>2
<1>5. CASE later = {}
  BY <1>1, <1>2, <1>3, <1>4, <1>5, MinOf
<1>6. CASE later # {}
  <2>1. n = Min(later)
    BY <1>2, <1>4, <1>6
  <2>2. Min(later) \in later
    BY <1>3, <1>6, MinOf
  <2>3. QED
    BY <2>1, <2>2, <1>1, <1>3
<1>7. QED
  BY <1>5, <1>6
-----------------------------------------------------------------------------
(***************************************************************************)
(* What the steps do to rings and owners.  A woken task was blocked or     *)
(* free, so it was on no ring and nobody's.                                *)
(***************************************************************************)
Shape(st, rg, cur, own, pin) ==
  /\ st \in [Tasks -> States] /\ rg \in [Cores -> SUBSET Tasks] /\ cur \in [Cores -> Tasks]
  /\ own \in SUBSET Cores /\ pin \in [Tasks -> Cores]

WakesTo(W, home, st, rg, pin, st2, rg2) ==
  /\ W \in SUBSET Tasks /\ idle_id \notin W /\ \A t \in W : st[t] \in {"blocked", "free"}
  /\ home \in [W -> Cores] /\ \A t \in W : pin[t] # 0 => home[t] = pin[t]
  /\ \A t \in Tasks : st2[t] = IF t \in W THEN "ready" ELSE st[t]
  /\ \A c \in Cores : \A t \in Tasks :
       t \in rg2[c] <=> t \in rg[c] \/ (t \in W /\ home[t] = c)

LEMMA HeldWake ==
  ASSUME NEW st, NEW rg, NEW cur, NEW own, NEW pin, Shape(st, rg, cur, own, pin),
         Held(st, rg, cur, own, pin), NEW W, NEW home, NEW st2, NEW rg2,
         WakesTo(W, home, st, rg, pin, st2, rg2)
  PROVE  Held(st2, rg2, cur, own, pin)
<1> USE DEF Shape, WakesTo
<1> USE DEF Held
<1>1. \A c \in Cores : \A t \in Tasks : t \in rg2[c] <=> t \in rg[c] \/ (t \in W /\ home[t] = c)
  OBVIOUS
<1>2. \A t \in Tasks : st2[t] = IF t \in W THEN "ready" ELSE st[t]
  OBVIOUS
<1>3. \A c \in Cores : \A t \in W : t \notin rg[c]
  BY DEF Members
<1>4. \A c \in own : cur[c] \in Tasks /\ cur[c] \notin W
  BY DEF Apart
<1>5. Members(st2, rg2, pin)
  BY <1>1, <1>2, <1>3 DEF Members
<1>6. Apart(st2, rg2, cur, own, pin)
  BY <1>1, <1>2, <1>4 DEF Apart
<1>7. NoneLost(st2, rg2, cur, own)
  <2> SUFFICES ASSUME NEW t \in Tasks, st2[t] = "ready"
               PROVE  (\E c \in Cores : t \in rg2[c]) \/ (\E c \in own : cur[c] = t)
    BY DEF NoneLost
  <2>1. CASE t \in W
    BY <2>1, <1>1
  <2>2. CASE t \notin W
    BY <2>2, <1>1, <1>2 DEF NoneLost
  <2>3. QED
    BY <2>1, <2>2
<1>8. QED
  BY <1>5, <1>6, <1>7

(***************************************************************************)
(* An owner gives its task up for good: it blocks, or ends.                *)
(***************************************************************************)
LEMMA HeldDrop ==
  ASSUME NEW st, NEW rg, NEW cur, NEW own, NEW pin, Shape(st, rg, cur, own, pin),
         Held(st, rg, cur, own, pin),
         NEW c \in own, NEW s, s \notin {"ready", "running"},
         NEW st2, st2 = [st EXCEPT ![cur[c]] = s]
  PROVE  Held(st2, rg, cur, own \ {c}, pin)
<1> USE DEF Shape
<1> USE DEF Held
<1>1. cur[c] \in Tasks /\ \A t \in Tasks : st2[t] = IF t = cur[c] THEN s ELSE st[t]
  OBVIOUS
<1>2. \A d \in Cores : cur[c] \notin rg[d]
  BY DEF Apart
<1>3. \A d \in own \ {c} : cur[d] # cur[c] /\ cur[d] \in Tasks
  BY DEF Apart
<1>4. Members(st2, rg, pin)
  BY <1>1, <1>2 DEF Members
<1>5. Apart(st2, rg, cur, own \ {c}, pin)
  BY <1>1, <1>3 DEF Apart
<1>6. NoneLost(st2, rg, cur, own \ {c})
  BY <1>1 DEF NoneLost
<1>7. QED
  BY <1>4, <1>5, <1>6

(***************************************************************************)
(* An owner puts its task back on its own ring.                            *)
(***************************************************************************)
LEMMA HeldReturn ==
  ASSUME NEW st, NEW rg, NEW cur, NEW own, NEW pin, Shape(st, rg, cur, own, pin),
         Held(st, rg, cur, own, pin), NEW c \in own,
         NEW st2, st2 = [st EXCEPT ![cur[c]] = "ready"],
         NEW rg2, rg2 = [rg EXCEPT ![c] = @ \cup {cur[c]}]
  PROVE  Held(st2, rg2, cur, own \ {c}, pin)
<1> USE DEF Shape
<1> USE DEF Held
<1>1. cur[c] \in Tasks /\ \A t \in Tasks : st2[t] = IF t = cur[c] THEN "ready" ELSE st[t]
  OBVIOUS
<1>2. \A d \in Cores : cur[c] \notin rg[d]
  BY DEF Apart
<1>3. \A d \in own \ {c} : cur[d] # cur[c] /\ cur[d] \in Tasks
  BY DEF Apart
<1>4. c \in Cores /\ \A d \in Cores : \A t \in Tasks :
         t \in rg2[d] <=> t \in rg[d] \/ (d = c /\ t = cur[c])
  OBVIOUS
<1>5. Members(st2, rg2, pin)
  <2>1. (cur[c] = idle_id => c = 0) /\ (pin[cur[c]] # 0 => pin[cur[c]] = c)
    BY DEF Apart
  <2>2. QED
    BY <2>1, <1>1, <1>2, <1>4 DEF Members
<1>6. Apart(st2, rg2, cur, own \ {c}, pin)
  BY <1>1, <1>3, <1>4 DEF Apart
<1>7. NoneLost(st2, rg2, cur, own \ {c})
  <2> SUFFICES ASSUME NEW t \in Tasks, st2[t] = "ready"
               PROVE  (\E d \in Cores : t \in rg2[d]) \/ (\E d \in own \ {c} : cur[d] = t)
    BY DEF NoneLost
  <2>1. CASE t = cur[c]
    BY <2>1, <1>4
  <2>2. CASE t # cur[c]
    BY <2>2, <1>1, <1>4 DEF NoneLost
  <2>3. QED
    BY <2>1, <2>2
<1>8. QED
  BY <1>5, <1>6, <1>7

(***************************************************************************)
(* A core that owns nothing takes a task off a ring: its own, or another's *)
(* if it may steal it.  The removal is the claim, staged or not.           *)
(***************************************************************************)
ClaimsTo(c, n, st, rg, cur, pin, st2, rg2, cur2) ==
  /\ n \in Tasks
  /\ n \in rg[c] \/ \E r \in Cores : n \in rg[r] /\ n # idle_id /\ pin[n] \in {0, c}
  /\ st2 = st \/ st2 = [st EXCEPT ![n] = "running"]
  /\ rg2 = [r \in Cores |-> rg[r] \ {n}]
  /\ cur2 = [cur EXCEPT ![c] = n]

LEMMA HeldClaim ==
  ASSUME NEW st, NEW rg, NEW cur, NEW own, NEW pin, Shape(st, rg, cur, own, pin),
         Held(st, rg, cur, own, pin), NEW c \in Cores, c \notin own, NEW n,
         NEW st2, NEW rg2, NEW cur2, ClaimsTo(c, n, st, rg, cur, pin, st2, rg2, cur2)
  PROVE  Held(st2, rg2, cur2, own \cup {c}, pin)
<1> USE DEF ClaimsTo
<1> USE DEF Shape
<1> USE DEF Held
<1>1. \A t \in Tasks : t # n => st2[t] = st[t]
  OBVIOUS
<1>2. PICK r \in Cores : n \in rg[r]
  OBVIOUS
<1>3. st[n] = "ready" /\ st2[n] \in {"ready", "running"}
  BY <1>2 DEF Members
<1>4. \A d \in Cores : \A t \in Tasks : t \in rg2[d] <=> t \in rg[d] /\ t # n
  OBVIOUS
<1>5. cur2[c] = n /\ \A d \in own : cur2[d] = cur[d] /\ cur[d] \in Tasks /\ cur[d] # n
  BY <1>2 DEF Apart
<1>6. (n = idle_id => c = 0) /\ (pin[n] # 0 => pin[n] = c)
  BY DEF Members
<1>7. Members(st2, rg2, pin)
  BY <1>1, <1>4 DEF Members
<1>8. Apart(st2, rg2, cur2, own \cup {c}, pin)
  <2> SUFFICES ASSUME NEW d \in own \cup {c}
               PROVE  /\ \A e \in Cores : cur2[d] \notin rg2[e]
                      /\ \A e \in (own \cup {c}) \ {d} : cur2[e] # cur2[d]
                      /\ st2[cur2[d]] \in {"ready", "running"}
                      /\ cur2[d] = idle_id => d = 0
                      /\ pin[cur2[d]] # 0 => pin[cur2[d]] = d
    BY DEF Apart
  <2>1. CASE d = c
    BY <2>1, <1>3, <1>4, <1>5, <1>6
  <2>2. CASE d # c
    BY <2>2, <1>1, <1>4, <1>5 DEF Apart
  <2>3. QED
    BY <2>1, <2>2
<1>9. NoneLost(st2, rg2, cur2, own \cup {c})
  <2> SUFFICES ASSUME NEW t \in Tasks, st2[t] = "ready"
               PROVE  (\E d \in Cores : t \in rg2[d]) \/ (\E d \in own \cup {c} : cur2[d] = t)
    BY DEF NoneLost
  <2>1. CASE t = n
    BY <2>1, <1>5
  <2>2. CASE t # n
    BY <2>2, <1>1, <1>4, <1>5 DEF NoneLost
  <2>3. QED
    BY <2>1, <2>2
<1>10. QED
  BY <1>7, <1>8, <1>9

(***************************************************************************)
(* What a core that owns nothing calls its current task does not matter.   *)
(***************************************************************************)
LEMMA HeldPark ==
  ASSUME NEW st, NEW rg, NEW cur, NEW own, NEW pin, Shape(st, rg, cur, own, pin),
         Held(st, rg, cur, own, pin),
         NEW c \in Cores, c \notin own, NEW n, NEW cur2, cur2 = [cur EXCEPT ![c] = n]
  PROVE  Held(st, rg, cur2, own, pin)
<1> USE DEF Shape
<1>1. \A d \in own : cur2[d] = cur[d]
  OBVIOUS
<1>2. QED
  BY <1>1 DEF Held, Members, Apart, NoneLost

(***************************************************************************)
(* A task that is nobody's and on no ring, not ready before or after, may  *)
(* change its state and its pin: a slot is built or reaped.                *)
(***************************************************************************)
LEMMA HeldSlot ==
  ASSUME NEW st, NEW rg, NEW cur, NEW own, NEW pin, Shape(st, rg, cur, own, pin),
         Held(st, rg, cur, own, pin),
         NEW t \in Tasks, st[t] \notin {"ready", "running"},
         NEW s, s \notin {"ready", "running"}, NEW st2, st2 = [st EXCEPT ![t] = s],
         NEW pin2, \A u \in Tasks : u # t => pin2[u] = pin[u]
  PROVE  Held(st2, rg, cur, own, pin2)
<1> USE DEF Shape
<1> USE DEF Held
<1>1. \A u \in Tasks : st2[u] = IF u = t THEN s ELSE st[u]
  OBVIOUS
<1>2. \A d \in Cores : t \notin rg[d]
  BY DEF Members
<1>3. \A d \in own : cur[d] \in Tasks /\ cur[d] # t
  BY DEF Apart
<1>4. Members(st2, rg, pin2)
  BY <1>1, <1>2 DEF Members
<1>5. Apart(st2, rg, cur, own, pin2)
  BY <1>1, <1>3 DEF Apart
<1>6. NoneLost(st2, rg, cur, own)
  BY <1>1 DEF NoneLost
<1>7. QED
  BY <1>4, <1>5, <1>6

(***************************************************************************)
(* An owner stages the task it has claimed, and a pin may be lifted.       *)
(***************************************************************************)
LEMMA HeldStage ==
  ASSUME NEW st, NEW rg, NEW cur, NEW own, NEW pin, Shape(st, rg, cur, own, pin),
         Held(st, rg, cur, own, pin), NEW c \in own,
         NEW st2, st2 = [st EXCEPT ![cur[c]] = "running"]
  PROVE  Held(st2, rg, cur, own, pin)
<1> USE DEF Shape, Held
<1>1. cur[c] \in Tasks /\ \A t \in Tasks : st2[t] = IF t = cur[c] THEN "running" ELSE st[t]
  OBVIOUS
<1>2. \A d \in Cores : cur[c] \notin rg[d]
  BY DEF Apart
<1>3. Members(st2, rg, pin)
  BY <1>1, <1>2 DEF Members
<1>4. Apart(st2, rg, cur, own, pin)
  BY <1>1 DEF Apart
<1>5. NoneLost(st2, rg, cur, own)
  BY <1>1 DEF NoneLost
<1>6. QED
  BY <1>3, <1>4, <1>5

LEMMA HeldUnpin ==
  ASSUME NEW st, NEW rg, NEW cur, NEW own, NEW pin, Shape(st, rg, cur, own, pin),
         Held(st, rg, cur, own, pin), NEW pin2, \A t \in Tasks : pin2[t] \in {0, pin[t]}
  PROVE  Held(st, rg, cur, own, pin2)
<1>1. \A c \in own : cur[c] \in Tasks
  BY DEF Shape
<1>2. QED
  BY <1>1 DEF Held, Members, Apart, NoneLost
-----------------------------------------------------------------------------
(***************************************************************************)
(* Types.  What an action leaves alone keeps its type.                     *)
(***************************************************************************)
LEMMA Keep ==
  ASSUME TypeInv
  PROVE  /\ UNCHANGED procVars => ProcTy'
         /\ UNCHANGED runVars => RunTy'
         /\ UNCHANGED pinVars => PinTy'
         /\ UNCHANGED killVars => KillTy'
         /\ UNCHANGED teardown => TearTy'
         /\ UNCHANGED waitVars => WaitTy'
         /\ UNCHANGED userVars => UserTy'
<1> USE DEF TypeInv
<1>1. UNCHANGED procVars => ProcTy'
  BY DEF procVars, ProcTy, ProcessTypeOK
<1>2. UNCHANGED runVars => RunTy'
  BY DEF runVars, RunTy
<1>3. UNCHANGED pinVars => PinTy'
  BY DEF pinVars, PinTy
<1>4. UNCHANGED killVars => KillTy'
  BY DEF killVars, KillTy
<1>5. UNCHANGED teardown => TearTy'
  BY DEF TearTy
<1>6. UNCHANGED waitVars => WaitTy'
  BY DEF waitVars, WaitTy
<1>7. UNCHANGED userVars => UserTy'
  BY DEF userVars, UserTy
<1>8. QED
  BY <1>1, <1>2, <1>3, <1>4, <1>5, <1>6, <1>7

LEMMA KeepCores ==
  ASSUME TypeInv, UNCHANGED coreVars
  PROVE  CoreTy' /\ OpTy'
BY DEF TypeInv, coreVars, CoreTy, OpTy, OpFits

(***************************************************************************)
(* A core moves on to its next section, with new operands or the old.      *)
(***************************************************************************)
LEMMA CoreStep ==
  ASSUME CoreTy, OpTy, NEW c \in Cores, NEW label \in PCs, Goto(c, label),
         NEW o \in OpRec, OpFits(label, o), op' = [op EXCEPT ![c] = o],
         svc' \in Cores \cup {NoCore}, UNCHANGED <<on, cont>>
  PROVE  CoreTy' /\ OpTy'
<1>1. CoreTy'
  BY DEF CoreTy, Goto
<1>2. \A d \in Cores : pc'[d] = (IF d = c THEN label ELSE pc[d])
                       /\ op'[d] = (IF d = c THEN o ELSE op[d])
  BY DEF CoreTy, Goto
<1>3. OpTy'
  BY <1>2 DEF OpTy, OpFits
<1>4. QED
  BY <1>1, <1>3

LEMMA CoreGo ==
  ASSUME CoreTy, OpTy, NEW c \in Cores, NEW label \in PCs, Goto(c, label),
         OpFits(label, op[c]), svc' \in Cores \cup {NoCore}, UNCHANGED <<on, cont, op>>
  PROVE  CoreTy' /\ OpTy'
<1>1. op[c] \in OpRec /\ op' = [op EXCEPT ![c] = op[c]]
  BY DEF CoreTy
<1>2. QED
  BY <1>1, CoreStep

(***************************************************************************)
(* The sections that use no operand accept any.                            *)
(***************************************************************************)
LEMMA AnyFits ==
  ASSUME NEW label \in PCs \ {"block", "seat", "spin", "zombie", "registry", "wake"}, NEW o
  PROVE  OpFits(label, o)
BY DEF OpFits

LEMMA OpTyped ==
  ASSUME NEW t \in Tasks \cup {NoTask}, NEW call \in OpCalls, NEW val \in OpVals,
         NEW ticks \in 0 .. Never, NEW o, o = Op(t, call, val, ticks)
  PROVE  /\ o \in OpRec
         /\ o.task = t /\ o.call = call /\ o.val = val /\ o.ticks = ticks
<1>1. o = [task |-> t, call |-> call, val |-> val, ticks |-> ticks, pid |-> 0,
           late |-> call = "wait"]
  BY DEF Op
<1>2. (call = "wait") \in BOOLEAN
  OBVIOUS
<1>3. QED
  BY <1>1, <1>2 DEF OpRec

LEMMA NoOpTyped == NoOp \in OpRec
<1>1. NoTask \in Tasks \cup {NoTask} /\ "none" \in OpCalls /\ 0 \in OpVals /\ 0 \in 0 .. Never
  BY Ground DEF OpCalls, OpVals
<1>2. QED
  BY <1>1, OpTyped DEF NoOp

LEMMA BeginTy ==
  ASSUME TypeInv, NEW c \in Cores, NEW o \in OpRec, NEW label \in PCs, OpFits(label, o),
         Begin(c, o, label)
  PROVE  TypeInv'
<1>1. svc' \in Cores \cup {NoCore}
  BY DEF Begin, TypeInv, CoreTy
<1>2. CoreTy' /\ OpTy'
  BY <1>1, CoreStep DEF Begin, TypeInv
<1>3. QED
  BY <1>2, Keep DEF Begin, TypeInv

(***************************************************************************)
(* Waking, claiming and parking.                                           *)
(***************************************************************************)
LEMMA PushTy ==
  ASSUME RunTy, NEW st \in [Tasks -> States], NEW W \in SUBSET Tasks,
         push_home_locked(W, st), UNCHANGED current
  PROVE  RunTy'
BY DEF RunTy, push_home_locked, States

LEMMA ClaimTy ==
  ASSUME RunTy, NEW c \in Cores, NEW after, NEW rings \in [Cores -> SUBSET Tasks],
         NEW st \in [Tasks -> States], NEW done, ClaimAndStage(c, after, rings, st, done)
  PROVE  RunTy' /\ \E label \in {"convert", done} : Goto(c, label)
<1> DEFINE n == merged_next(c, after, rings)
<1>1. CASE n = NoTask
  BY <1>1, Ground DEF ClaimAndStage, RunTy
<1>2. CASE n # NoTask
  <2>1. n \in Tasks
    BY <1>2, NextFound
  <2>2. /\ ring' = [r \in Cores |-> rings[r] \ {n}]
        /\ current' = [current EXCEPT ![c] = n]
        /\ state' = st \/ state' = [st EXCEPT ![n] = "running"]
        /\ Goto(c, "convert") \/ Goto(c, done)
    BY <1>2 DEF ClaimAndStage
  <2> HIDE DEF n
  <2>3. QED
    BY <2>1, <2>2 DEF RunTy, States
<1>3. QED
  BY <1>1, <1>2

LEMMA ParkedTy ==
  ASSUME TypeInv, NEW c \in Cores, NEW t, NEW what \in Waits,
         NEW tgt \in Procs \cup {NoTask}, NEW ticks \in 1 .. Never,
         Parked(c, t, what, tgt, ticks), UNCHANGED current
  PROVE  /\ RunTy'
         /\ wait' \in [Tasks -> Waits] /\ target' \in [Tasks -> Procs \cup {NoTask}]
         /\ left' \in [Tasks -> 1 .. Never] /\ Goto(c, "claim")
BY DEF Parked, ring_remove_anywhere, TypeInv, RunTy, WaitTy, States, Waits

LEMMA WokenTy ==
  ASSUME WaitTy, NEW W
  PROVE  /\ Woken(W) \in [Tasks -> Waits]
         /\ [t \in Tasks |-> IF t \in W THEN NoTask ELSE target[t]] \in [Tasks -> Procs \cup {NoTask}]
         /\ [t \in Tasks |-> IF t \in W THEN Never ELSE left[t]] \in [Tasks -> 1 .. Never]
BY Ground DEF WaitTy, Woken, Waits

LEMMA UnseatedTy ==
  ASSUME UserTy, NEW W
  PROVE  Unseated(W) \in [Seats -> Tasks \cup {NoTask}]
BY DEF UserTy, Unseated

LEMMA EnqueuedTy ==
  ASSUME UserTy, NEW P
  PROVE  Enqueued(P) \in [Procs -> 0 .. MaxEvents]
BY Ground DEF UserTy, Enqueued

(***************************************************************************)
(* find_by_task answers with running processes; first free slots exist.    *)
(***************************************************************************)
LEMMA Found ==
  ASSUME NEW t, NEW p \in find_by_task(t)
  PROVE  p \in Procs /\ pstate[p] = "running"
BY DEF find_by_task, IsTaskOf

LEMMA SlotFree ==
  ASSUME FreeSlots # {}
  PROVE  Min(FreeSlots) \in Tasks /\ state[Min(FreeSlots)] = "free"
<1>1. FreeSlots \subseteq Nat
  BY Ground DEF FreeSlots
<1>2. QED
  BY <1>1, MinOf DEF FreeSlots

(***************************************************************************)
(* The futex heir of an exiting task is a seated task, and the reaper's    *)
(* zombie is a program's task.                                             *)
(***************************************************************************)
LEMMA HeirTask ==
  ASSUME TypeInv, NEW t
  PROVE  FutexHeir(t) \subseteq Tasks
<1> DEFINE peers == {k \in Seats : seat[k] # NoTask /\ seat[k] # t
                                  /\ find_by_task(seat[k]) = find_by_task(t)}
<1>1. peers \subseteq Nat /\ \A k \in peers : seat[k] \in Tasks
  BY Ground DEF TypeInv, UserTy
<1>2. FutexHeir(t) \subseteq IF peers # {} THEN {seat[Min(peers)]} ELSE {}
  BY DEF FutexHeir
<1> HIDE DEF peers
<1>3. CASE peers # {}
  <2>1. Min(peers) \in peers
    BY <1>1, <1>3, MinOf
  <2>2. QED
    BY <1>1, <1>2, <1>3, <2>1
<1>4. CASE peers = {}
  BY <1>2, <1>4
<1>5. QED
  BY <1>3, <1>4

LEMMA ZombieSlot ==
  ASSUME SystemTasks, Zombies # {}
  PROVE  Min(Zombies) \in UserTasks /\ Min(Zombies) \in Tasks /\ state[Min(Zombies)] = "zombie"
<1>1. Zombies \subseteq Nat
  BY Ground DEF Zombies
<1>2. Min(Zombies) \in Tasks /\ state[Min(Zombies)] = "zombie"
  BY <1>1, MinOf DEF Zombies
<1>3. QED
  BY <1>2, Ground DEF SystemTasks

(***************************************************************************)
(* The registry operations keep the registry's types, and a running        *)
(* process its live task.                                                  *)
(***************************************************************************)
LEMMA ProcessOps ==
  ASSUME ProcTy, NEW p, NEW t \in Tasks \cup {NoTask}, NEW status \in Statuses
  PROVE  /\ \A recycled : create_as(p, recycled) => ProcTy'
         /\ reap_process(p) => ProcTy'
         /\ bind(p, t) => ProcTy'
         /\ p \in Procs /\ t \in Tasks /\ bind_thread(p, t) => ProcTy'
         /\ request_process_exit(p, status) => ProcTy'
         /\ p \in Procs /\ pstate[p] = "running" /\ on_task_exit(p, t, status) => ProcTy'
         /\ release_pages_on_reap(t) => ProcTy'
<1> USE DEF ProcTy, ProcessTypeOK
<1>0. 0 \in Statuses
  BY Ground
<1>1. ASSUME NEW recycled, create_as(p, recycled) PROVE ProcTy'
  <2>1. pstate' \in [Procs -> {"free", "created", "running", "exited"}]
    BY <1>1 DEF create_as
  <2>2. pages' \in [Procs -> BOOLEAN]
    BY <1>1 DEF create_as
  <2>3. CASE recycled
    <3>0. reset_process(p)
      BY <1>1, <2>3 DEF create_as
    <3>1. task_id' \in [Procs -> Tasks \cup {NoTask}] /\ thread_tasks' \in [Procs -> SUBSET Tasks]
      BY <3>0 DEF reset_process
    <3>5. live_tasks' \in [Procs -> Nat]
      BY <3>0 DEF reset_process
    <3>6. exit_requested' \in [Procs -> BOOLEAN]
      BY <3>0 DEF reset_process
    <3>2. snapshot' \in [Procs -> Statuses] /\ exit_status' \in [Procs -> Statuses]
      BY <1>0, <3>0 DEF reset_process
    <3>3. \A q \in Procs : pstate'[q] = "running" => pstate[q] = "running" /\ live_tasks'[q] = live_tasks[q]
      BY <1>1, <2>3 DEF create_as, reset_process
    <3>4. QED
      BY <2>1, <2>2, <3>1, <3>2, <3>3, <3>5, <3>6
  <2>4. CASE ~recycled
    BY <1>1, <2>1, <2>2, <2>4 DEF create_as
  <2>5. QED
    BY <2>3, <2>4
<1>2. ASSUME reap_process(p) PROVE ProcTy'
  BY <1>0, <1>2 DEF reap_process, reset_process
<1>3. ASSUME bind(p, t) PROVE ProcTy'
  <2>1. task_id' \in [Procs -> Tasks \cup {NoTask}] /\ live_tasks' \in [Procs -> Nat]
    BY <1>3 DEF bind
  <2>2. pstate' \in [Procs -> {"free", "created", "running", "exited"}]
    BY <1>3 DEF bind
  <2>3. \A q \in Procs : pstate'[q] = "running" =>
           live_tasks'[q] = 1 \/ (pstate[q] = "running" /\ live_tasks'[q] = live_tasks[q])
    BY <1>3 DEF bind
  <2>4. QED
    BY <1>3, <2>1, <2>2, <2>3 DEF bind
<1>4. ASSUME p \in Procs, t \in Tasks, bind_thread(p, t) PROVE ProcTy'
  <2>1. thread_tasks' \in [Procs -> SUBSET Tasks]
    BY <1>4 DEF bind_thread
  <2>2. live_tasks' \in [Procs -> Nat] /\ \A q \in Procs : live_tasks'[q] >= live_tasks[q]
    BY <1>4 DEF bind_thread
  <2>3. QED
    BY <1>4, <2>1, <2>2 DEF bind_thread
<1>5. ASSUME request_process_exit(p, status) PROVE ProcTy'
  BY <1>5 DEF request_process_exit
<1>6. ASSUME p \in Procs, pstate[p] = "running", on_task_exit(p, t, status) PROVE ProcTy'
  <2>1. live_tasks' = [live_tasks EXCEPT ![p] = @ - 1] /\ live_tasks[p] \in Nat /\ live_tasks[p] > 0
    BY <1>6 DEF on_task_exit
  <2>2. live_tasks' \in [Procs -> Nat]
    BY <1>6, <2>1
  <2>3. FinalStatus(p, status) \in Statuses
    BY <1>6 DEF FinalStatus
  <2>7. thread_tasks' \in [Procs -> SUBSET Tasks] /\ task_id' \in [Procs -> Tasks \cup {NoTask}]
    BY <1>6 DEF on_task_exit
  <2>4. CASE live_tasks[p] > 1
    <3>1. UNCHANGED <<pstate, exit_status>>
      BY <1>6, <2>4 DEF on_task_exit
    <3>2. \A q \in Procs : live_tasks'[q] = IF q = p THEN live_tasks[p] - 1 ELSE live_tasks[q]
      BY <2>1
    <3>3. QED
      BY <1>6, <2>2, <2>4, <2>7, <3>1, <3>2 DEF on_task_exit
  <2>5. CASE ~(live_tasks[p] > 1)
    <3>1. pstate' = [pstate EXCEPT ![p] = "exited"]
          /\ exit_status' = [exit_status EXCEPT ![p] = FinalStatus(p, status)]
      BY <1>6, <2>5 DEF on_task_exit
    <3>2. \A q \in Procs : pstate'[q] = "running" => pstate[q] = "running" /\ live_tasks'[q] = live_tasks[q]
      BY <2>1, <3>1
    <3>3. pstate' \in [Procs -> {"free", "created", "running", "exited"}] /\ exit_status' \in [Procs -> Statuses]
      BY <2>3, <3>1
    <3>4. QED
      BY <1>6, <2>2, <2>7, <3>2, <3>3 DEF on_task_exit
  <2>6. QED
    BY <2>4, <2>5
<1>7. ASSUME release_pages_on_reap(t) PROVE ProcTy'
  BY <1>7 DEF release_pages_on_reap
<1>8. QED
  BY <1>1, <1>2, <1>3, <1>4, <1>5, <1>6, <1>7
-----------------------------------------------------------------------------
(***************************************************************************)
(* Every action keeps the types.  The timer's first.                       *)
(***************************************************************************)
LEMMA SwitchTy ==
  ASSUME TypeInv, NEW c \in Cores, switch_context(c)
  PROVE  TypeInv'
<1> DEFINE rings == [ring EXCEPT ![c] = @ \cup {current[c]}]
           st == [state EXCEPT ![current[c]] = "ready"]
<1>1. rings \in [Cores -> SUBSET Tasks] /\ st \in [Tasks -> States]
  BY DEF TypeInv, RunTy, States
<1>2. ClaimAndStage(c, current[c], rings, st, "leave")
  BY DEF switch_context
<1> HIDE DEF rings, st
<1>3. RunTy' /\ \E label \in {"convert", "leave"} : Goto(c, label)
  BY <1>1, <1>2, ClaimTy DEF TypeInv
<1>4. CoreTy' /\ OpTy'
  BY <1>3, CoreGo, AnyFits DEF TypeInv, CoreTy, switch_context, PCs
<1>5. QED
  BY <1>3, <1>4, Keep DEF switch_context, TypeInv

LEMMA InterruptTy ==
  ASSUME TypeInv, NEW c \in Cores, Interrupt(c), UNCHANGED <<svc, on>>
  PROVE  CoreTy' /\ OpTy'
<1>1. cont' \in [pc : Monitor \cup {"user"}, op : OpRec]
  <2>1. CASE current[c] = shell
    <3>1. pc[c] \in Monitor \cup {"user"} /\ op[c] \in OpRec
      BY DEF Interrupt, Interruptible, TypeInv, CoreTy
    <3>2. QED
      BY <2>1, <3>1 DEF Interrupt
  <2>2. CASE current[c] # shell
    BY <2>2 DEF Interrupt, TypeInv, CoreTy
  <2>3. QED
    BY <2>1, <2>2
<1>2. op' = [op EXCEPT ![c] = NoOp] /\ Goto(c, "rotate")
  BY DEF Interrupt
<1>3. CoreTy'
  BY <1>1, <1>2, NoOpTyped DEF TypeInv, CoreTy, Goto, PCs
<1>4. \A d \in Cores : pc'[d] = (IF d = c THEN "rotate" ELSE pc[d])
                       /\ op'[d] = (IF d = c THEN NoOp ELSE op[d])
  BY <1>2 DEF TypeInv, CoreTy, Goto
<1>5. OpTy'
  BY <1>4 DEF TypeInv, OpTy, OpFits
<1>6. QED
  BY <1>3, <1>5

LEMMA ConvertTy ==
  ASSUME TypeInv, NEW c \in Cores, svc' = c, Disarm(current[c]), op' = ExitOp(c, current[c]),
         Goto(c, "zombie"), UNCHANGED <<on, cont>>
  PROVE  CoreTy' /\ OpTy' /\ KillTy'
<1> DEFINE o == [op[c] EXCEPT !.task = current[c], !.call = "exit",
                              !.val = kill_status[current[c]]]
<1>1. current[c] \in Tasks /\ op[c] \in OpRec /\ op \in [Cores -> OpRec]
  BY DEF TypeInv, RunTy, CoreTy
<1>2. kill_status[current[c]] \in Statuses /\ "exit" \in OpCalls
  BY <1>1, Ground DEF TypeInv, KillTy, OpCalls
<1>3. o \in OpRec /\ o.val = kill_status[current[c]]
  BY <1>1, <1>2 DEF OpRec, OpVals
<1>4. op' = [op EXCEPT ![c] = o]
  BY <1>1 DEF ExitOp
<1> HIDE DEF o
<1>5. OpFits("zombie", o)
  BY <1>2, <1>3 DEF OpFits
<1>6. CoreTy' /\ OpTy'
  BY <1>3, <1>4, <1>5, CoreStep DEF TypeInv, PCs
<1>7. KillTy'
  BY <1>1 DEF Disarm, TypeInv, KillTy
<1>8. QED
  BY <1>6, <1>7

LEMMA TimerTy ==
  ASSUME TypeInv, NEW c \in Cores, Tick(c)
  PROVE  TypeInv'
<1>1. ASSUME tick(c) PROVE TypeInv'
  <2>1. CoreTy' /\ OpTy'
    BY <1>1, InterruptTy DEF tick
  <2>2. PICK P \in SUBSET Procs, over \in BOOLEAN : on_tick(P, over)
    BY <1>1 DEF tick
  <2> DEFINE W == wake_expired \cup EventWaiters(P)
  <2>3. W \in SUBSET Tasks /\ push_home_locked(W, state)
    BY <2>2 DEF on_tick, wake_expired, Timed, EventWaiters
  <2>4. /\ wait' = Woken(W)
        /\ target' = [t \in Tasks |-> IF t \in W THEN NoTask ELSE target[t]]
        /\ left' = [t \in Tasks |-> CASE t \in W -> Never
                                  [] t \in Timed /\ left[t] > 1 -> left[t] - 1
                                  [] OTHER -> left[t]]
        /\ seat' = Unseated(W) /\ queue' = Enqueued(P)
    BY <2>2 DEF on_tick
  <2> HIDE DEF W
  <2>5. RunTy'
    BY <1>1, <2>3, PushTy DEF tick, TypeInv, RunTy
  <2>6. left' \in [Tasks -> 1 .. Never]
    <3> SUFFICES ASSUME NEW t \in Tasks PROVE left'[t] \in 1 .. Never
      BY <2>4
    <3>1. left[t] \in 1 .. Never
      BY DEF TypeInv, WaitTy
    <3>2. left'[t] \in {Never, left[t]} \/ (left[t] > 1 /\ left'[t] = left[t] - 1)
      BY <2>4
    <3>3. QED
      BY <3>1, <3>2, Ground
  <2>7. WaitTy'
    BY <1>1, <2>4, <2>6, WokenTy DEF tick, TypeInv, WaitTy
  <2>8. UserTy'
    BY <1>1, <2>4, UnseatedTy, EnqueuedTy DEF tick, TypeInv, UserTy
  <2>9. KillTy'
    BY <2>2 DEF on_tick, TypeInv, KillTy
  <2>10. QED
    BY <1>1, <2>1, <2>5, <2>7, <2>8, <2>9, Keep DEF tick, TypeInv
<1>2. ASSUME tick_skip(c) PROVE TypeInv'
  <2>1. CoreTy' /\ OpTy'
    BY <1>2, InterruptTy DEF tick_skip
  <2>2. QED
    BY <1>2, <2>1, Keep DEF tick_skip, TypeInv
<1>3. ASSUME tick_parked(c) PROVE TypeInv'
  <2>1. RunTy' /\ \E label \in {"convert", "leave"} : Goto(c, label)
    <3>1. ring \in [Cores -> SUBSET Tasks] /\ state \in [Tasks -> States] /\ RunTy
      BY DEF TypeInv, RunTy
    <3>2. ClaimAndStage(c, idle_id, ring, state, "leave")
      BY <1>3 DEF tick_parked
    <3>3. QED
      BY <3>1, <3>2, ClaimTy
  <2>2. CoreTy' /\ OpTy'
    BY <1>3, <2>1, CoreGo, AnyFits DEF tick_parked, TypeInv, CoreTy, PCs
  <2>3. QED
    BY <1>3, <2>1, <2>2, Keep DEF tick_parked, TypeInv
<1>4. ASSUME tick_convert(c) PROVE TypeInv'
  <2>1. CoreTy' /\ OpTy' /\ KillTy'
    BY <1>4, ConvertTy DEF tick_convert
  <2>2. QED
    BY <1>4, <2>1, Keep DEF tick_convert, TypeInv
<1>5. ASSUME tick_secondary(c) PROVE TypeInv'
  BY <1>5, SwitchTy DEF tick_secondary
<1>6. QED
  BY <1>1, <1>2, <1>3, <1>4, <1>5 DEF Tick

(***************************************************************************)
(* The sections of the blocking calls, the events and exec.                *)
(***************************************************************************)
LEMMA BlockTy ==
  ASSUME TypeInv, NEW c \in Cores
  PROVE  /\ rotate(c) => TypeInv'
         /\ wait_current(c) => TypeInv'
         /\ wait_event_current(c) => TypeInv'
         /\ futex_seat(c) => TypeInv'
         /\ wake_event_waiters(c) => TypeInv'
         /\ request_kill(c) => TypeInv'
         /\ exit_current(c) => TypeInv'
<1>0. op[c] \in OpRec /\ op[c].task \in Tasks \cup {NoTask} /\ op[c].val \in OpVals /\ OpFits(pc[c], op[c])
  BY DEF TypeInv, CoreTy, OpTy, OpRec
<1>1. rotate(c) => TypeInv'
  BY SwitchTy DEF rotate
<1>2. ASSUME wait_current(c) PROVE TypeInv'
  <2>1. op[c].val \in Procs /\ Never \in 1 .. Never
    BY <1>0, <1>2, Ground DEF wait_current, OpFits
  <2>2. RunTy' /\ WaitTy' /\ Goto(c, "claim")
    BY <1>2, <2>1, ParkedTy DEF wait_current, Waits, TypeInv, WaitTy
  <2>3. CoreTy' /\ OpTy'
    BY <1>2, <2>2, CoreGo, AnyFits DEF wait_current, TypeInv, CoreTy, PCs
  <2>4. QED
    BY <1>2, <2>2, <2>3, Keep DEF wait_current, TypeInv
<1>3. ASSUME wait_event_current(c) PROVE TypeInv'
  <2>1. op[c].val \in Procs /\ Never \in 1 .. Never
    BY <1>0, <1>3, Ground DEF wait_event_current, OpFits
  <2>2. RunTy' /\ WaitTy' /\ Goto(c, "claim")
    BY <1>3, <2>1, ParkedTy DEF wait_event_current, Waits, TypeInv, WaitTy
  <2>3. CoreTy' /\ OpTy'
    BY <1>3, <2>2, CoreGo, AnyFits DEF wait_event_current, TypeInv, CoreTy, PCs
  <2>4. QED
    BY <1>3, <2>2, <2>3, Keep DEF wait_event_current, TypeInv
<1>4. ASSUME futex_seat(c) PROVE TypeInv'
  <2>1. op[c].ticks \in 1 .. Never /\ NoTask \in Procs \cup {NoTask}
    BY <1>0, <1>4 DEF futex_seat, OpFits
  <2>2. PICK p \in find_by_task(op[c].task) :
          \/ /\ word[p] = 0
             /\ seat' = [seat EXCEPT ![op[c].val] = op[c].task]
             /\ Parked(c, op[c].task, "futex", NoTask, op[c].ticks)
             /\ UNCHANGED <<current, redo, x0>>
          \/ /\ word[p] # 0
             /\ seat' = [seat EXCEPT ![op[c].val] = NoTask]
             /\ Goto(c, "leave")
             /\ UNCHANGED <<runVars, waitVars>>
    BY <1>4 DEF futex_seat
  <2>3. UserTy'
    <3>1. seat' \in [Seats -> Tasks \cup {NoTask}]
      BY <1>0, <2>2 DEF TypeInv, UserTy
    <3>2. QED
      BY <1>4, <3>1 DEF futex_seat, TypeInv, UserTy
  <2>4. RunTy' /\ WaitTy' /\ \E label \in {"claim", "leave"} : Goto(c, label)
    <3>1. CASE word[p] = 0
      <4>1. Parked(c, op[c].task, "futex", NoTask, op[c].ticks) /\ UNCHANGED <<current, redo, x0>>
        BY <2>2, <3>1
      <4>2. QED
        BY <2>1, <4>1, ParkedTy DEF Waits, TypeInv, WaitTy
    <3>2. CASE word[p] # 0
      BY <2>2, <3>2, Keep
    <3>3. QED
      BY <3>1, <3>2
  <2>5. CoreTy' /\ OpTy'
    BY <1>4, <2>4, CoreGo, AnyFits DEF futex_seat, TypeInv, CoreTy, PCs
  <2>6. QED
    BY <1>4, <2>3, <2>4, <2>5, Keep DEF futex_seat, TypeInv
<1>5. ASSUME wake_event_waiters(c) PROVE TypeInv'
  <2> DEFINE W == EventWaiters({op[c].val})
  <2>1. /\ W \in SUBSET Tasks /\ push_home_locked(W, state) /\ UNCHANGED current
        /\ wait' = Woken(W)
        /\ target' = [t \in Tasks |-> IF t \in W THEN NoTask ELSE target[t]]
    BY <1>5 DEF wake_event_waiters, EventWaiters
  <2> HIDE DEF W
  <2>2. RunTy'
    BY <2>1, PushTy DEF TypeInv, RunTy
  <2>3. WaitTy'
    BY <1>5, <2>1, WokenTy DEF wake_event_waiters, TypeInv, WaitTy
  <2>4. CoreTy' /\ OpTy'
    BY <1>5, CoreGo, AnyFits DEF wake_event_waiters, TypeInv, CoreTy, PCs
  <2>5. QED
    BY <1>5, <2>2, <2>3, <2>4, Keep DEF wake_event_waiters, TypeInv
<1>6. ASSUME request_kill(c) PROVE TypeInv'
  <2>1. KillTy'
    BY <1>6 DEF request_kill, TypeInv, KillTy
  <2>2. CoreTy' /\ OpTy'
    BY <1>6, CoreGo, AnyFits DEF request_kill, TypeInv, CoreTy, PCs
  <2>3. QED
    BY <1>6, <2>1, <2>2, Keep DEF request_kill, TypeInv
<1>7. ASSUME exit_current(c) PROVE TypeInv'
  <2>1. OpFits("zombie", op[c])
    BY <1>0, <1>7 DEF exit_current, OpFits
  <2>2. CoreTy' /\ OpTy'
    BY <1>7, <2>1, CoreGo DEF exit_current, TypeInv, PCs
  <2>3. QED
    BY <1>7, <2>2, Keep DEF exit_current, TypeInv
<1>8. QED
  BY <1>1, <1>2, <1>3, <1>4, <1>5, <1>6, <1>7

LEMMA ExecTy ==
  ASSUME TypeInv, SystemTasks, NEW c \in Cores
  PROVE  /\ exec_create(c) => TypeInv'
         /\ register_exec_user(c) => TypeInv'
         /\ exec_bind(c) => TypeInv'
         /\ publish_task(c) => TypeInv'
<1>0. op[c] \in OpRec /\ op[c].task \in Tasks \cup {NoTask} /\ ProcTy /\ 0 \in Statuses
  BY Ground DEF TypeInv, CoreTy, OpRec
<1>1. ASSUME exec_create(c) PROVE TypeInv'
  <2>1. ProcTy'
    BY <1>0, <1>1, ProcessOps DEF exec_create
  <2>2. UserTy'
    <3>1. 0 \in 0 .. MaxEvents
      BY Ground
    <3>2. queue' \in [Procs -> 0 .. MaxEvents] /\ word' \in [Procs -> {0, 1}]
      BY <1>1, <3>1 DEF exec_create, TypeInv, UserTy
    <3>3. QED
      BY <1>1, <3>2 DEF exec_create, TypeInv, UserTy
  <2>3. CoreTy' /\ OpTy'
    BY <1>1, CoreGo, AnyFits DEF exec_create, TypeInv, CoreTy, PCs
  <2>4. QED
    BY <1>1, <2>1, <2>2, <2>3, Keep DEF exec_create, TypeInv
<1>2. ASSUME register_exec_user(c) PROVE TypeInv'
  <2>1. CASE FreeSlots # {}
    <3> DEFINE t == Min(FreeSlots)
    <3>1. t \in Tasks
      BY <2>1, SlotFree
    <3>2. Built(c, t, Never) /\ UNCHANGED procVars
      BY <1>2, <2>1 DEF register_exec_user
    <3>3. PICK pin \in {NoCore} \cup Cores : Pinned(t, pin)
      BY <1>2, <2>1 DEF register_exec_user
    <3>9. UserTasks \cup {t} = UserTasks
      BY <2>1, SlotFree, Ground DEF SystemTasks
    <3> HIDE DEF t
    <3>4. PinTy'
      BY <3>1, <3>3, <3>9, Ground DEF Pinned, TypeInv, PinTy
    <3>5. RunTy'
      BY <1>2, <3>2 DEF register_exec_user, Built, TypeInv, RunTy, States
    <3>6. WaitTy'
      BY <1>2, <3>2, Ground DEF register_exec_user, Built, TypeInv, WaitTy, Waits
    <3>7. CoreTy' /\ OpTy'
      <4> DEFINE o == [op[c] EXCEPT !.task = t]
      <4>1. o \in OpRec
        BY <1>0, <3>1 DEF OpRec
      <4>2. op' = [op EXCEPT ![c] = o] /\ Goto(c, "bind")
        BY <1>0, <3>2 DEF Built
      <4> HIDE DEF o
      <4>3. QED
        BY <1>2, <4>1, <4>2, CoreStep, AnyFits DEF register_exec_user, TypeInv, CoreTy, PCs
    <3>8. QED
      BY <1>2, <3>2, <3>4, <3>5, <3>6, <3>7, Keep DEF register_exec_user, TypeInv
  <2>2. CASE FreeSlots = {}
    <3>1. ProcTy'
      BY <1>0, <1>2, <2>2, ProcessOps DEF register_exec_user
    <3>2. CoreTy' /\ OpTy'
      BY <1>2, <2>2, CoreGo, AnyFits DEF register_exec_user, TypeInv, CoreTy, PCs
    <3>3. RunTy' /\ WaitTy'
      BY <1>2, <2>2, Keep DEF register_exec_user, runVars, waitVars
    <3>4. QED
      BY <1>2, <2>2, <3>1, <3>2, <3>3, Keep DEF register_exec_user, TypeInv
  <2>3. QED
    BY <2>1, <2>2
<1>3. ASSUME exec_bind(c) PROVE TypeInv'
  <2>1. ProcTy'
    BY <1>0, <1>3, ProcessOps, Keep DEF exec_bind
  <2>2. CoreTy' /\ OpTy'
    BY <1>3, CoreGo, AnyFits DEF exec_bind, TypeInv, CoreTy, PCs
  <2>3. QED
    BY <1>3, <2>1, <2>2, Keep DEF exec_bind, TypeInv
<1>4. ASSUME publish_task(c) PROVE TypeInv'
  <2> DEFINE W == {op[c].task} \cap {t \in Tasks : state[t] = "blocked"}
  <2>1. /\ W \in SUBSET Tasks /\ push_home_locked(W, state) /\ UNCHANGED current
        /\ wait' = Woken(W)
    BY <1>4 DEF publish_task
  <2> HIDE DEF W
  <2>2. RunTy'
    BY <2>1, PushTy DEF TypeInv, RunTy
  <2>3. WaitTy'
    BY <1>4, <2>1, WokenTy DEF publish_task, TypeInv, WaitTy
  <2>4. CoreTy' /\ OpTy'
    BY <1>4, CoreGo, AnyFits DEF publish_task, TypeInv, CoreTy, PCs
  <2>5. QED
    BY <1>4, <2>2, <2>3, <2>4, Keep DEF publish_task, TypeInv
<1>5. QED
  BY <1>1, <1>2, <1>3, <1>4

(***************************************************************************)
(* The exit path and the reaper.                                           *)
(***************************************************************************)
LEMMA ExitTy ==
  ASSUME TypeInv, NEW c \in Cores
  PROVE  /\ convert_kill(c) => TypeInv'
         /\ convert_deferred(c) => TypeInv'
         /\ exit_zombie(c) => TypeInv'
         /\ exit_registry(c) => TypeInv'
         /\ wake_waiters(c) => TypeInv'
         /\ exit_open(c) => TypeInv'
         /\ claim_and_stage(c) => TypeInv'
         /\ exit_unwind(c) => TypeInv'
         /\ eret(c) => TypeInv'
         /\ reap_pages(c) => TypeInv'
<1>0. /\ op[c] \in OpRec /\ op[c].task \in Tasks \cup {NoTask} /\ ProcTy /\ 0 \in Statuses
      /\ OpFits(pc[c], op[c]) /\ CoreTy
  BY Ground DEF TypeInv, CoreTy, OpRec, OpTy
<1>1. ASSUME convert_kill(c) PROVE TypeInv'
  <2>1. CoreTy' /\ OpTy' /\ KillTy'
    BY <1>1, ConvertTy DEF convert_kill
  <2>2. QED
    BY <1>1, <2>1, Keep DEF convert_kill, TypeInv
<1>2. ASSUME convert_deferred(c) PROVE TypeInv'
  <2>1. RunTy'
    BY <1>2 DEF convert_deferred, TypeInv, RunTy, States
  <2>2. CoreTy' /\ OpTy'
    BY <1>2, CoreGo, AnyFits DEF convert_deferred, TypeInv, CoreTy, PCs
  <2>3. QED
    BY <1>2, <2>1, <2>2, Keep DEF convert_deferred, TypeInv
<1>3. ASSUME exit_zombie(c) PROVE TypeInv'
  <2> DEFINE t == op[c].task
             armed == IF op[c].call = "exit" THEN arm_sibling_kills(t) ELSE {}
             W == {u \in armed \cup FutexHeir(t) : state[u] = "blocked"}
             st == [state EXCEPT ![t] = "zombie"]
  <2>1. /\ push_home_locked(W, st) /\ UNCHANGED current
        /\ kill' = [u \in Tasks |-> kill[u] \/ u \in armed]
        /\ wait' = Woken(W)
        /\ target' = [u \in Tasks |-> IF u \in W THEN NoTask ELSE target[u]]
        /\ left' = [u \in Tasks |-> IF u \in W THEN Never ELSE left[u]]
        /\ seat' = Unseated(W \cup {t})
    BY <1>3 DEF exit_zombie
  <2>2. W \in SUBSET Tasks
    <3>1. armed \subseteq Tasks
      BY Ground DEF arm_sibling_kills, Siblings
    <3>2. FutexHeir(t) \subseteq Tasks
      BY HeirTask
    <3>3. QED
      BY <3>1, <3>2
  <2>3. st \in [Tasks -> States]
    BY DEF TypeInv, RunTy, States
  <2>4. ProcTy'
    <3>1. CASE op[c].call = "exit"
      <4>1. PICK p \in find_by_task(t) : request_process_exit(p, op[c].val)
        BY <1>3, <3>1 DEF exit_zombie
      <4>2. op[c].val \in Statuses
        BY <1>0, <1>3 DEF exit_zombie, OpFits
      <4>3. QED
        BY <1>0, <4>1, <4>2, ProcessOps
    <3>2. CASE op[c].call # "exit"
      BY <1>3, <3>2, Keep DEF exit_zombie
    <3>3. QED
      BY <3>1, <3>2
  <2>5. CoreTy' /\ OpTy'
    <3>1. OpFits("registry", op[c])
      BY <1>0, <1>3 DEF exit_zombie, OpFits
    <3>2. Goto(c, "registry") /\ UNCHANGED <<svc, on, cont, op>>
      BY <1>3 DEF exit_zombie
    <3>3. QED
      BY <3>1, <3>2, CoreGo DEF TypeInv, CoreTy, PCs
  <2>6. TearTy' /\ due' \in [Tasks -> BOOLEAN]
    BY <1>3 DEF exit_zombie, TypeInv, TearTy, UserTy
  <2>7. UNCHANGED <<pinVars, kill_status, redo, x0, word, queue>>
    BY <1>3 DEF exit_zombie
  <2> HIDE DEF t, armed, W, st
  <2>8. RunTy'
    BY <2>1, <2>2, <2>3, PushTy DEF TypeInv
  <2>9. WaitTy'
    BY <2>1, <2>7, WokenTy DEF TypeInv, WaitTy
  <2>10. UserTy'
    BY <2>1, <2>6, <2>7, UnseatedTy DEF TypeInv, UserTy
  <2>11. KillTy'
    BY <2>1, <2>7 DEF TypeInv, KillTy
  <2>12. PinTy'
    BY <2>7, Keep
  <2>13. QED
    BY <2>4, <2>5, <2>6, <2>8, <2>9, <2>10, <2>11, <2>12 DEF TypeInv
<1>4. ASSUME exit_registry(c) PROVE TypeInv'
  <2>1. op[c].val \in Statuses
    BY <1>0, <1>4 DEF exit_registry, OpFits
  <2>2. PICK p \in find_by_task(op[c].task) :
          /\ on_task_exit(p, op[c].task, op[c].val)
          /\ op' = [op EXCEPT ![c].pid = p]
          /\ Goto(c, IF pstate'[p] = "exited" THEN "wake" ELSE "open")
    BY <1>4 DEF exit_registry
  <2>3. p \in Procs /\ pstate[p] = "running"
    BY Found
  <2>4. ProcTy'
    BY <1>0, <2>1, <2>2, <2>3, ProcessOps
  <2>5. CoreTy' /\ OpTy'
    <3> DEFINE o == [op[c] EXCEPT !.pid = p]
               label == IF pstate'[p] = "exited" THEN "wake" ELSE "open"
    <3>1. o \in OpRec /\ o.val = op[c].val
      BY <1>0, <2>3 DEF OpRec
    <3>2. op' = [op EXCEPT ![c] = o]
      BY <1>0, <2>2 DEF CoreTy
    <3>3. label \in PCs /\ Goto(c, label)
      BY <2>2 DEF PCs
    <3>5. svc' \in Cores \cup {NoCore} /\ UNCHANGED <<on, cont>>
      BY <1>0, <1>4 DEF exit_registry, CoreTy
    <3> HIDE DEF label, o
    <3>4. OpFits(label, o)
      BY <2>1, <3>1 DEF OpFits, label
    <3>6. QED
      BY <1>0, <3>1, <3>2, <3>3, <3>4, <3>5, CoreStep DEF TypeInv
  <2>6. QED
    BY <1>4, <2>4, <2>5, Keep DEF exit_registry, TypeInv
<1>5. ASSUME wake_waiters(c) PROVE TypeInv'
  <2> DEFINE W == ExitWaiters({op[c].pid})
  <2>1. /\ W \in SUBSET Tasks /\ push_home_locked(W, state) /\ UNCHANGED current
        /\ wait' = Woken(W)
        /\ x0' = [t \in Tasks |-> IF t \in W THEN op[c].val ELSE x0[t]]
    BY <1>5 DEF wake_waiters, ExitWaiters
  <2> HIDE DEF W
  <2>2. RunTy'
    BY <2>1, PushTy DEF TypeInv, RunTy
  <2>3. op[c].val \in Statuses
    BY <1>0, <1>5 DEF wake_waiters, OpFits
  <2>4. WaitTy'
    BY <1>5, <2>1, <2>3, WokenTy DEF wake_waiters, TypeInv, WaitTy
  <2>5. CoreTy' /\ OpTy'
    BY <1>5, CoreGo, AnyFits DEF wake_waiters, TypeInv, CoreTy, PCs
  <2>6. QED
    BY <1>5, <2>2, <2>4, <2>5, Keep DEF wake_waiters, TypeInv
<1>6. ASSUME exit_open(c) PROVE TypeInv'
  <2>1. TearTy'
    BY <1>6 DEF exit_open, TypeInv, TearTy
  <2>2. CoreTy' /\ OpTy'
    BY <1>6, CoreGo, AnyFits DEF exit_open, TypeInv, CoreTy, PCs
  <2>3. QED
    BY <1>6, <2>1, <2>2, Keep DEF exit_open, TypeInv
<1>7. ASSUME claim_and_stage(c) PROVE TypeInv'
  <2>1. ring \in [Cores -> SUBSET Tasks] /\ state \in [Tasks -> States] /\ RunTy
    BY DEF TypeInv, RunTy
  <2>2. ClaimAndStage(c, op[c].task, ring, state, Done(c))
    BY <1>7 DEF claim_and_stage
  <2>3. RunTy' /\ \E label \in {"convert", Done(c)} : Goto(c, label)
    BY <2>1, <2>2, ClaimTy
  <2>4. PICK label \in {"convert", "unwind", "leave"} : Goto(c, label)
    BY <2>3 DEF Done
  <2>5. CoreTy' /\ OpTy'
    BY <1>7, <2>4, CoreGo, AnyFits DEF claim_and_stage, TypeInv, CoreTy, PCs
  <2>6. QED
    BY <1>7, <2>3, <2>5, Keep DEF claim_and_stage, TypeInv
<1>8. ASSUME exit_unwind(c) PROVE TypeInv'
  <2>1. CoreTy' /\ OpTy'
    BY <1>8, CoreGo, AnyFits DEF exit_unwind, TypeInv, PCs
  <2>2. QED
    BY <1>8, <2>1, Keep DEF exit_unwind, TypeInv
<1>9. ASSUME eret(c) PROVE TypeInv'
  <2>1. WaitTy'
    BY <1>0, <1>9 DEF eret, TypeInv, WaitTy
  <2>2. on' \in [Cores -> Tasks \cup {NoTask}]
    BY <1>9 DEF eret, TypeInv, CoreTy, RunTy
  <2>3. PICK label \in Monitor \cup {"user"}, o \in OpRec :
          /\ op' = [op EXCEPT ![c] = o] /\ Goto(c, label)
          /\ cont' \in [pc : Monitor \cup {"user"}, op : OpRec]
    <3>1. CASE current[c] = shell
      <4>1. cont.pc \in Monitor \cup {"user"} /\ cont.op \in OpRec
        BY <1>0 DEF CoreTy
      <4>2. Fresh \in [pc : Monitor \cup {"user"}, op : OpRec]
        BY NoOpTyped DEF Fresh
      <4>3. op' = [op EXCEPT ![c] = cont.op] /\ Goto(c, cont.pc) /\ cont' = Fresh
        BY <1>9, <3>1 DEF eret
      <4>4. QED
        BY <4>1, <4>2, <4>3
    <3>2. CASE current[c] # shell
      <4>1. op' = [op EXCEPT ![c] = NoOp] /\ Goto(c, "user") /\ cont' = cont
        BY <1>9, <3>2 DEF eret
      <4>2. QED
        BY <1>0, <4>1, NoOpTyped DEF CoreTy
    <3>3. QED
      BY <3>1, <3>2
  <2>4. CoreTy'
    BY <1>0, <1>9, <2>2, <2>3 DEF eret, CoreTy, Goto, Monitor, PCs
  <2>5. \A d \in Cores : pc'[d] = (IF d = c THEN label ELSE pc[d])
                         /\ op'[d] = (IF d = c THEN o ELSE op[d])
    BY <1>0, <2>3 DEF CoreTy, Goto
  <2>6. OpTy'
    BY <2>5 DEF TypeInv, OpTy, OpFits, Monitor
  <2>7. QED
    BY <1>9, <2>1, <2>4, <2>6, Keep DEF eret, TypeInv
<1>10. ASSUME reap_pages(c) PROVE TypeInv'
  <2>1. ProcTy'
    BY <1>0, <1>10, ProcessOps DEF reap_pages
  <2>2. CoreTy' /\ OpTy'
    BY <1>10, CoreStep, AnyFits, NoOpTyped DEF reap_pages, TypeInv, PCs
  <2>3. QED
    BY <1>10, <2>1, <2>2, Keep DEF reap_pages, TypeInv
<1>11. QED
  BY <1>1, <1>2, <1>3, <1>4, <1>5, <1>6, <1>7, <1>8, <1>9, <1>10

LEMMA ReapTy ==
  ASSUME TypeInv, SystemTasks, NEW c \in Cores, reap(c)
  PROVE  TypeInv'
<1> DEFINE t == Min(Zombies)
<1>1. t \in UserTasks /\ t \in Tasks
  BY ZombieSlot DEF reap
<1>2. /\ state' = [state EXCEPT ![t] = "free"] /\ ring' = ring_remove_anywhere(t)
      /\ pin_core' = [pin_core EXCEPT ![t] = 0] /\ secondary_ok' = secondary_ok \cup {t}
      /\ kill' = [kill EXCEPT ![t] = FALSE] /\ kill_status' = [kill_status EXCEPT ![t] = Killed]
      /\ redo' = [redo EXCEPT ![t] = FALSE] /\ target' = [target EXCEPT ![t] = NoTask]
      /\ x0' = [x0 EXCEPT ![t] = 0] /\ op' = [op EXCEPT ![0] = Op(t, "reap", 0, 0)]
      /\ svc' = 0 /\ Goto(0, "reap")
      /\ UNCHANGED <<procVars, current, teardown, wait, left, userVars, on, cont>>
  BY DEF reap
<1> HIDE DEF t
<1>3. RunTy'
  BY <1>2 DEF TypeInv, RunTy, ring_remove_anywhere, States
<1>4. PinTy'
  BY <1>1, <1>2, Ground DEF TypeInv, PinTy
<1>5. KillTy'
  BY <1>2 DEF TypeInv, KillTy
<1>6. WaitTy'
  BY <1>2, Ground DEF TypeInv, WaitTy
<1>7. CoreTy' /\ OpTy'
  <2>1. Op(t, "reap", 0, 0) \in OpRec
    BY <1>1, OpTyped, Ground DEF OpCalls, OpVals
  <2>2. 0 \in Cores /\ svc' \in Cores \cup {NoCore} /\ UNCHANGED <<on, cont>>
    BY <1>2, Ground
  <2>3. "reap" \in PCs /\ OpFits("reap", Op(t, "reap", 0, 0)) /\ CoreTy /\ OpTy
    BY DEF OpFits, PCs, TypeInv
  <2>4. op' = [op EXCEPT ![0] = Op(t, "reap", 0, 0)] /\ Goto(0, "reap")
    BY <1>2
  <2>5. QED
    BY ONLY <2>1, <2>2, <2>3, <2>4, CoreStep
<1>8. QED
  BY <1>2, <1>3, <1>4, <1>5, <1>6, <1>7, Keep DEF TypeInv

(***************************************************************************)
(* The programs and the shell.                                             *)
(***************************************************************************)
LEMMA ProgramTask ==
  ASSUME TypeInv, NEW c \in Cores, NEW t, Program(c, t)
  PROVE  t = current[c] /\ t \in Tasks /\ t \in UserTasks /\ pc[c] = "user"
BY DEF Program, UserTasks, TypeInv, RunTy

LEMMA UserTy1 ==
  ASSUME TypeInv, NEW c \in Cores
  PROVE  /\ yield_current(c) => TypeInv'
         /\ Return(c) => TypeInv'
         /\ handle_wait_event(c) => TypeInv'
         /\ futex_store(c) => TypeInv'
         /\ futex_wake(c) => TypeInv'
         /\ spawn_thread(c) => TypeInv'
         /\ exit_thread_current(c) => TypeInv'
         /\ pin_task(c) => TypeInv'
         /\ exec_file(c) => TypeInv'
<1>0. ProcTy /\ 0 \in Statuses /\ 0 \in OpVals /\ 0 \in 0 .. Never /\ Never \in 0 .. Never
      /\ current[c] \in Tasks /\ current[c] \in Tasks \cup {NoTask}
  BY Ground DEF TypeInv, OpVals, RunTy
<1>1. yield_current(c) => TypeInv'
  BY SwitchTy DEF yield_current
<1>2. ASSUME Return(c) PROVE TypeInv'
  <2>1. WaitTy'
    BY <1>0, <1>2 DEF Return, TypeInv, WaitTy
  <2>2. QED
    BY <1>2, <2>1, Keep, KeepCores DEF Return, TypeInv
<1>3. ASSUME handle_wait_event(c) PROVE TypeInv'
  <2>1. PICK p \in find_by_task(current[c]) :
       \/ /\ queue[p] = 0
          /\ Begin(c, Op(current[c], "event", p, Never), "block")
       \/ /\ queue[p] > 0
          /\ queue' = [queue EXCEPT ![p] = @ - 1]
          /\ redo' = [redo EXCEPT ![current[c]] = FALSE]
          /\ UNCHANGED <<procVars, runVars, pinVars, killVars, teardown, wait,
                         target, left, x0, seat, word, due, coreVars>>
    BY <1>3 DEF handle_wait_event
  <2>2. p \in Procs
    BY Found
  <2>3. CASE Begin(c, Op(current[c], "event", p, Never), "block")
    <3> DEFINE o == Op(current[c], "event", p, Never)
    <3>1. "event" \in OpCalls /\ p \in OpVals /\ "block" \in PCs
      BY <2>2 DEF OpCalls, OpVals, PCs
    <3>2. o \in OpRec /\ o.val = p
      BY <1>0, <3>1, OpTyped
    <3> HIDE DEF o
    <3>3. OpFits("block", o)
      BY <2>2, <3>2 DEF OpFits
    <3>4. QED
      BY <2>3, <3>1, <3>2, <3>3, BeginTy DEF o
  <2>4. CASE /\ queue[p] > 0
             /\ queue' = [queue EXCEPT ![p] = @ - 1]
             /\ redo' = [redo EXCEPT ![current[c]] = FALSE]
             /\ UNCHANGED <<procVars, runVars, pinVars, killVars, teardown, wait,
                            target, left, x0, seat, word, due, coreVars>>
    <3>1. queue' \in [Procs -> 0 .. MaxEvents]
      <4>1. queue[p] \in 0 .. MaxEvents /\ queue[p] > 0 /\ MaxEvents \in Nat
        BY <2>2, <2>4, Ground DEF TypeInv, UserTy
      <4>2. queue[p] - 1 \in 0 .. MaxEvents
        BY <4>1
      <4>3. QED
        BY <2>2, <2>4, <4>2 DEF TypeInv, UserTy
    <3>2. UserTy'
      BY <2>4, <3>1 DEF TypeInv, UserTy
    <3>3. WaitTy'
      BY <2>4 DEF TypeInv, WaitTy
    <3>4. QED
      BY <2>4, <3>2, <3>3, Keep, KeepCores DEF TypeInv
  <2>5. QED
    BY <2>1, <2>3, <2>4
<1>4. ASSUME futex_store(c) PROVE TypeInv'
  <2>1. PICK t \in Tasks : \E p \in find_by_task(t) :
          /\ word' = [word EXCEPT ![p] = 1 - @] /\ due' = [due EXCEPT ![t] = word[p] = 0]
    BY <1>4 DEF futex_store
  <2>2. PICK p \in find_by_task(t) :
          /\ word' = [word EXCEPT ![p] = 1 - @] /\ due' = [due EXCEPT ![t] = word[p] = 0]
    BY <2>1
  <2>3. p \in Procs
    BY Found
  <2>4. word' \in [Procs -> {0, 1}]
    BY <2>2, <2>3 DEF TypeInv, UserTy
  <2>5. due' \in [Tasks -> BOOLEAN]
    BY <2>2 DEF TypeInv, UserTy
  <2>6. UserTy'
    BY <1>4, <2>4, <2>5 DEF futex_store, TypeInv, UserTy
  <2>7. QED
    BY <1>4, <2>6, Keep, KeepCores DEF futex_store, TypeInv
<1>5. ASSUME futex_wake(c) PROVE TypeInv'
  <2>1. PICK t \in Tasks : \E p \in find_by_task(t) :
          /\ due' = [due EXCEPT ![t] = FALSE]
          /\ LET W == {u \in SeatedIn(p) : state[u] = "blocked"} IN
               /\ push_home_locked(W, state)
               /\ wait' = Woken(W)
               /\ left' = [u \in Tasks |-> IF u \in W THEN Never ELSE left[u]]
          /\ seat' = Unseated(SeatedIn(p))
    BY <1>5 DEF futex_wake
  <2>2. PICK p \in find_by_task(t) :
          /\ due' = [due EXCEPT ![t] = FALSE]
          /\ LET W == {u \in SeatedIn(p) : state[u] = "blocked"} IN
               /\ push_home_locked(W, state)
               /\ wait' = Woken(W)
               /\ left' = [u \in Tasks |-> IF u \in W THEN Never ELSE left[u]]
          /\ seat' = Unseated(SeatedIn(p))
    BY <2>1
  <2> DEFINE W == {u \in SeatedIn(p) : state[u] = "blocked"}
  <2>3. /\ W \in SUBSET Tasks /\ push_home_locked(W, state) /\ wait' = Woken(W)
        /\ left' = [u \in Tasks |-> IF u \in W THEN Never ELSE left[u]]
    BY <2>2 DEF SeatedIn
  <2>4. UserTy'
    <3>1. due' \in [Tasks -> BOOLEAN]
      BY <2>2 DEF TypeInv, UserTy
    <3>2. seat' \in [Seats -> Tasks \cup {NoTask}]
      BY <2>2, UnseatedTy DEF TypeInv
    <3>3. QED
      BY <1>5, <3>1, <3>2 DEF futex_wake, TypeInv, UserTy
  <2> HIDE DEF W
  <2>5. RunTy'
    BY <1>5, <2>3, PushTy DEF futex_wake, TypeInv, RunTy
  <2>6. WaitTy'
    BY <1>5, <2>3, WokenTy DEF futex_wake, TypeInv, WaitTy
  <2>7. QED
    BY <1>5, <2>4, <2>5, <2>6, Keep, KeepCores DEF futex_wake, TypeInv
<1>6. ASSUME spawn_thread(c) PROVE TypeInv'
  <2>1. Min(FreeSlots) \in Tasks /\ {Min(FreeSlots)} \in SUBSET Tasks
    BY <1>6, SlotFree DEF spawn_thread
  <2>2. PICK t \in Tasks, p \in Procs : bind_thread(p, Min(FreeSlots))
    BY <1>6, Found DEF spawn_thread
  <2>3. ProcTy'
    BY <1>0, <2>1, <2>2, ProcessOps
  <2>4. RunTy'
    BY <1>6, <2>1, PushTy DEF spawn_thread, TypeInv, RunTy
  <2>5. QED
    BY <1>6, <2>3, <2>4, Keep, KeepCores DEF spawn_thread, TypeInv
<1>7. ASSUME exit_thread_current(c) PROVE TypeInv'
  <2>1. PICK t \in Tasks : Begin(c, Op(t, "thread", 0, 0), "spin")
    BY <1>7 DEF exit_thread_current
  <2> DEFINE o == Op(t, "thread", 0, 0)
  <2>2. "thread" \in OpCalls /\ "spin" \in PCs /\ t \in Tasks \cup {NoTask}
    BY DEF OpCalls, PCs
  <2>3. o \in OpRec /\ o.val = 0
    BY <1>0, <2>2, OpTyped
  <2> HIDE DEF o
  <2>4. OpFits("spin", o)
    BY <1>0, <2>3 DEF OpFits
  <2>5. QED
    BY <2>1, <2>2, <2>3, <2>4, BeginTy DEF o
<1>8. ASSUME pin_task(c) PROVE TypeInv'
  <2>1. PICK t \in Tasks : Program(c, t) /\ Pinned(t, 0)
    BY <1>8 DEF pin_task
  <2>2. PinTy'
    BY <2>1, Ground DEF Pinned, TypeInv, PinTy
  <2>3. QED
    BY <1>8, <2>2, Keep, KeepCores DEF pin_task, TypeInv
<1>9. ASSUME exec_file(c) PROVE TypeInv'
  <2>1. PICK p \in Procs :
          Begin(c, [Op(current[c], IF pstate[p] = "free" THEN "exec" ELSE "recycle", 0, 0)
                      EXCEPT !.pid = p], "create")
    BY <1>9 DEF exec_file
  <2> DEFINE call == IF pstate[p] = "free" THEN "exec" ELSE "recycle"
             o == Op(current[c], call, 0, 0)
             q == [o EXCEPT !.pid = p]
  <2>2. call \in OpCalls /\ "create" \in PCs
    BY DEF OpCalls, PCs
  <2>3. Begin(c, q, "create")
    BY <2>1
  <2> HIDE DEF call
  <2>4. o \in OpRec
    BY <1>0, <2>2, OpTyped
  <2> HIDE DEF o
  <2>5. q \in OpRec
    BY <2>4 DEF OpRec
  <2> HIDE DEF q
  <2>6. OpFits("create", q)
    BY DEF OpFits
  <2>7. QED
    BY <2>2, <2>3, <2>5, <2>6, BeginTy
<1>10. QED
  BY <1>1, <1>2, <1>3, <1>4, <1>5, <1>6, <1>7, <1>8, <1>9

LEMMA UserTy2 ==
  ASSUME TypeInv, NEW c \in Cores
  PROVE  /\ \A ticks \in 1 .. MaxTicks : sleep_current(c, ticks) => TypeInv'
         /\ \A ticks \in 1 .. Never : futex_wait_current(c, ticks) => TypeInv'
         /\ \A p \in Procs : handle_wait(c, p) \/ events_push(c, p) \/ handle_kill(c, p) => TypeInv'
         /\ \A status \in ExitCodes : handle_exit(c, status) => TypeInv'
<1>0. /\ 0 \in Statuses /\ 0 \in OpVals /\ 0 \in 0 .. Never /\ Never \in 0 .. Never
      /\ current[c] \in Tasks /\ current[c] \in Tasks \cup {NoTask}
      /\ svc \in Cores \cup {NoCore}
  BY Ground DEF TypeInv, OpVals, RunTy, CoreTy
<1>1. ASSUME NEW ticks \in 1 .. MaxTicks, sleep_current(c, ticks) PROVE TypeInv'
  <2>1. PICK t \in Tasks : /\ Parked(c, t, "sleep", NoTask, ticks)
                           /\ op' = [op EXCEPT ![c] = Op(t, "sleep", 0, ticks)]
    BY <1>1 DEF sleep_current
  <2>2. /\ ticks \in 1 .. Never /\ ticks \in 0 .. Never /\ "sleep" \in OpCalls /\ "sleep" \in Waits
        /\ t \in Tasks \cup {NoTask} /\ NoTask \in Procs \cup {NoTask} /\ "claim" \in PCs
    BY SchedulerAssumption DEF OpCalls, Waits, Never, PCs
  <2>3. RunTy' /\ WaitTy' /\ Goto(c, "claim")
    BY <1>1, <2>1, <2>2, ParkedTy DEF sleep_current, TypeInv, WaitTy
  <2> DEFINE o == Op(t, "sleep", 0, ticks)
  <2>4. o \in OpRec
    BY <1>0, <2>2, OpTyped
  <2>5. op' = [op EXCEPT ![c] = o] /\ svc' \in Cores \cup {NoCore} /\ UNCHANGED <<on, cont>>
    BY <1>0, <1>1, <2>1 DEF sleep_current
  <2> HIDE DEF o
  <2>6. CoreTy' /\ OpTy'
    BY <2>2, <2>3, <2>4, <2>5, CoreStep DEF TypeInv, OpFits
  <2>7. QED
    BY <1>1, <2>3, <2>6, Keep DEF sleep_current, TypeInv
<1>2. ASSUME NEW ticks \in 1 .. Never, futex_wait_current(c, ticks) PROVE TypeInv'
  <2>1. PICK t \in Tasks : Begin(c, Op(t, "futex", Min(FreeSeats), ticks), "seat")
    BY <1>2 DEF futex_wait_current
  <2>2. Min(FreeSeats) \in Seats
    <3>1. FreeSeats # {} /\ FreeSeats \subseteq Seats /\ FreeSeats \subseteq Nat
      BY <1>2, Ground DEF futex_wait_current, FreeSeats
    <3>2. QED
      BY <3>1, MinOf
  <2> DEFINE o == Op(t, "futex", Min(FreeSeats), ticks)
  <2>3. /\ ticks \in 0 .. Never /\ "futex" \in OpCalls /\ t \in Tasks \cup {NoTask}
        /\ Min(FreeSeats) \in OpVals /\ "seat" \in PCs
    BY <2>2, Ground DEF OpCalls, OpVals, PCs
  <2>4. o \in OpRec /\ o.ticks = ticks
    BY <2>3, OpTyped
  <2> HIDE DEF o
  <2>5. OpFits("seat", o)
    BY <2>4 DEF OpFits
  <2>6. QED
    BY <2>1, <2>3, <2>4, <2>5, BeginTy DEF o
<1>3. ASSUME NEW p \in Procs, handle_wait(c, p) PROVE TypeInv'
  <2>1. PICK t \in Tasks :
       \/ Begin(c, Op(t, "wait", p, Never), "block")
       \/ /\ x0' = [x0 EXCEPT ![t] = exit_status[p]]
          /\ target' = [target EXCEPT ![t] = p]
          /\ UNCHANGED <<procVars, runVars, pinVars, killVars, teardown, wait,
                         left, redo, userVars, coreVars>>
    BY <1>3 DEF handle_wait
  <2>2. CASE Begin(c, Op(t, "wait", p, Never), "block")
    <3> DEFINE o == Op(t, "wait", p, Never)
    <3>1. "wait" \in OpCalls /\ p \in OpVals /\ "block" \in PCs /\ t \in Tasks \cup {NoTask}
      BY DEF OpCalls, OpVals, PCs
    <3>2. o \in OpRec /\ o.val = p
      BY <1>0, <3>1, OpTyped
    <3> HIDE DEF o
    <3>3. OpFits("block", o)
      BY <3>2 DEF OpFits
    <3>4. QED
      BY <2>2, <3>1, <3>2, <3>3, BeginTy DEF o
  <2>3. CASE /\ x0' = [x0 EXCEPT ![t] = exit_status[p]]
             /\ target' = [target EXCEPT ![t] = p]
             /\ UNCHANGED <<procVars, runVars, pinVars, killVars, teardown, wait,
                            left, redo, userVars, coreVars>>
    <3>1. WaitTy'
      BY <2>3 DEF TypeInv, WaitTy, ProcTy, ProcessTypeOK
    <3>2. QED
      BY <2>3, <3>1, Keep, KeepCores DEF TypeInv
  <2>4. QED
    BY <2>1, <2>2, <2>3
<1>4. ASSUME NEW p \in Procs, events_push(c, p) PROVE TypeInv'
  <2>1. UserTy'
    BY <1>4, EnqueuedTy DEF events_push, TypeInv, UserTy
  <2> DEFINE o == Op(current[c], "push", p, 0)
  <2>2. "push" \in OpCalls /\ p \in OpVals /\ "hook" \in PCs
    BY DEF OpCalls, OpVals, PCs
  <2>3. o \in OpRec
    BY <1>0, <2>2, OpTyped
  <2>4. /\ op' = [op EXCEPT ![c] = o] /\ svc' \in Cores \cup {NoCore} /\ UNCHANGED <<on, cont>>
        /\ Goto(c, "hook")
    BY <1>0, <1>4 DEF events_push
  <2> HIDE DEF o
  <2>5. CoreTy' /\ OpTy'
    BY <2>2, <2>3, <2>4, CoreStep DEF TypeInv, OpFits
  <2>6. QED
    BY <1>4, <2>1, <2>5, Keep DEF events_push, TypeInv
<1>5. ASSUME NEW p \in Procs, handle_kill(c, p) PROVE TypeInv'
  <2> DEFINE o == Op(current[c], "kill", task_id[p], 0)
  <2>1. Begin(c, o, "kill")
    BY <1>5 DEF handle_kill
  <2>2. "kill" \in OpCalls /\ task_id[p] \in OpVals /\ "kill" \in PCs
    BY <1>5 DEF handle_kill, OpCalls, OpVals, PCs, TypeInv, ProcTy, ProcessTypeOK
  <2>3. o \in OpRec
    BY <1>0, <2>2, OpTyped
  <2> HIDE DEF o
  <2>4. OpFits("kill", o)
    BY DEF OpFits
  <2>5. QED
    BY <2>1, <2>2, <2>3, <2>4, BeginTy
<1>6. ASSUME NEW status \in ExitCodes, handle_exit(c, status) PROVE TypeInv'
  <2>1. PICK t \in Tasks : Begin(c, Op(t, "exit", status, 0), "spin")
    BY <1>6 DEF handle_exit
  <2> DEFINE o == Op(t, "exit", status, 0)
  <2>2. /\ "exit" \in OpCalls /\ "spin" \in PCs /\ t \in Tasks \cup {NoTask} /\ status \in Statuses
        /\ status \in OpVals
    BY Ground DEF OpCalls, PCs, OpVals
  <2>3. o \in OpRec /\ o.val = status
    BY <1>0, <2>2, OpTyped
  <2> HIDE DEF o
  <2>4. OpFits("spin", o)
    BY <2>2, <2>3 DEF OpFits
  <2>5. QED
    BY <2>1, <2>2, <2>3, <2>4, BeginTy DEF o
<1>7. QED
  BY <1>1, <1>2, <1>3, <1>4, <1>5, <1>6
-----------------------------------------------------------------------------
(***************************************************************************)
(* The run invariant.  Who owns what after a core has moved on, and what   *)
(* it needs for its operand.                                               *)
(***************************************************************************)
Giving == {"claim", "registry", "wake", "open"}

LEMMA OwnersMove ==
  ASSUME TypeInv, NEW c \in Cores, NEW label, Goto(c, label), UNCHANGED current
  PROVE  /\ label \in Giving => Owners' = Owners \ {c}
         /\ label \notin Giving /\ pc[c] \notin Giving => Owners' = Owners
<1>1. \A d \in Cores : pc'[d] = IF d = c THEN label ELSE pc[d]
  BY DEF TypeInv, CoreTy, Goto
<1>2. QED
  BY <1>1 DEF Owners, Owns, Giving

LEMMA OwnersClaim ==
  ASSUME TypeInv, NEW c \in Cores, NEW label, Goto(c, label), label \notin Giving,
         NEW n \in Tasks, current' = [current EXCEPT ![c] = n]
  PROVE  /\ n # idle_id \/ c = 0 => Owners' = Owners \cup {c}
         /\ n = idle_id /\ c # 0 => Owners' = Owners \ {c}
<1>1. \A d \in Cores : pc'[d] = IF d = c THEN label ELSE pc[d]
  BY DEF TypeInv, CoreTy, Goto
<1>2. \A d \in Cores : current'[d] = IF d = c THEN n ELSE current[d]
  BY DEF TypeInv, RunTy
<1>3. QED
  BY <1>1, <1>2 DEF Owners, Owns, Giving

LEMMA OperandMove ==
  ASSUME TypeInv, OwnOperand, NEW c \in Cores, NEW label, Goto(c, label),
         \A d \in Cores : d # c => op'[d] = op[d] /\ current'[d] = current[d],
         OpOwn(c, label, op'[c], current'[c])
  PROVE  OwnOperand'
<1>1. \A d \in Cores : pc'[d] = IF d = c THEN label ELSE pc[d]
  BY DEF TypeInv, CoreTy, Goto
<1>2. QED
  BY <1>1 DEF OwnOperand, OpOwn

(***************************************************************************)
(* The sections that own no operand accept any.                            *)
(***************************************************************************)
Unowned == {"user", "claim", "registry", "wake", "open", "unwind", "leave", "hook", "kill",
            "reap", "create", "register", "bind", "publish", "contend"}

LEMMA OperandAny ==
  ASSUME TypeInv, OwnOperand, NEW c \in Cores, NEW label \in Unowned, Goto(c, label),
         \A d \in Cores : d # c => op'[d] = op[d] /\ current'[d] = current[d]
  PROVE  OwnOperand'
<1>1. OpOwn(c, label, op'[c], current'[c])
  BY DEF OpOwn, Unowned
<1>2. QED
  BY <1>1, OperandMove

LEMMA OperandSame ==
  ASSUME OwnOperand, UNCHANGED <<pc, op, current>>
  PROVE  OwnOperand'
BY DEF OwnOperand, OpOwn

LEMMA OthersSame ==
  ASSUME TypeInv, NEW c \in Cores, UNCHANGED op \/ \E o : op' = [op EXCEPT ![c] = o],
         UNCHANGED current
  PROVE  \A d \in Cores : d # c => op'[d] = op[d] /\ current'[d] = current[d]
BY DEF TypeInv, CoreTy

(***************************************************************************)
(* A step that touches no ring, no state, no current task and no pin.      *)
(***************************************************************************)
LEMMA HeldQuiet ==
  ASSUME RunInv, UNCHANGED <<state, ring, current, pin_core>>, Owners' = Owners
  PROVE  Held(state, ring, current, Owners, pin_core)'
BY DEF RunInv, Held, Members, Apart, NoneLost

LEMMA SystemSame ==
  ASSUME SystemTasks,
         \A t \in {shell, idle_id} : state'[t] = state[t] /\ pin_core'[t] = pin_core[t]
                                     /\ (kill'[t] => kill[t])
  PROVE  SystemTasks'
BY DEF SystemTasks

LEMMA QuietGo ==
  ASSUME TypeInv, RunInv, NEW c \in Cores, NEW label, Goto(c, label),
         UNCHANGED <<state, ring, current, pin_core>>, SystemTasks',
         label \in Giving <=> pc[c] \in Giving,
         UNCHANGED op \/ \E o : op' = [op EXCEPT ![c] = o],
         label \in Unowned \/ OpOwn(c, label, op'[c], current'[c])
  PROVE  RunInv'
<1>1. Owners' = Owners
  <2>1. CASE label \in Giving
    <3>1. c \notin Owners
      BY <2>1 DEF Owners, Owns, Giving
    <3>2. Owners' = Owners \ {c}
      BY <2>1, OwnersMove
    <3>3. QED
      BY <3>1, <3>2
  <2>2. CASE label \notin Giving
    BY <2>2, OwnersMove
  <2>3. QED
    BY <2>1, <2>2
<1>2. Held(state, ring, current, Owners, pin_core)'
  BY <1>1, HeldQuiet
<1>3. OwnOperand'
  BY OthersSame, OperandAny, OperandMove DEF RunInv
<1>4. QED
  BY <1>2, <1>3 DEF RunInv

LEMMA QuietStay ==
  ASSUME RunInv, UNCHANGED <<state, ring, current, pin_core, kill, pc, op>>
  PROVE  RunInv'
<1>1. Owners' = Owners
  BY DEF Owners, Owns
<1>2. SystemTasks'
  BY DEF RunInv, SystemTasks
<1>3. QED
  BY <1>1, <1>2, HeldQuiet, OperandSame DEF RunInv

LEMMA BeginRun ==
  ASSUME TypeInv, RunInv, NEW c \in Cores, NEW o, NEW label, Begin(c, o, label),
         pc[c] = "user", label \notin Giving,
         label \in Unowned \/ OpOwn(c, label, o, current[c])
  PROVE  RunInv'
<1>1. /\ Goto(c, label) /\ op' = [op EXCEPT ![c] = o]
      /\ UNCHANGED <<state, ring, current, pin_core, kill>>
  BY DEF Begin, runVars, pinVars, killVars
<1>2. op'[c] = o
  BY <1>1 DEF TypeInv, CoreTy
<1>3. SystemTasks'
  BY <1>1, SystemSame DEF RunInv
<1>4. label \in Giving <=> pc[c] \in Giving
  BY DEF Giving
<1>5. label \in Unowned \/ OpOwn(c, label, op'[c], current'[c])
  BY <1>1, <1>2
<1>6. \E oo : op' = [op EXCEPT ![c] = oo]
  BY <1>1
<1>7. QED
  BY ONLY TypeInv, RunInv, c \in Cores, <1>1, <1>3, <1>4, <1>5, <1>6, QuietGo

LEMMA ShapeNow ==
  ASSUME TypeInv
  PROVE  Shape(state, ring, current, Owners, pin_core)
BY DEF Shape, TypeInv, RunTy, PinTy, Owners

(***************************************************************************)
(* A wake: the woken were blocked or free.                                 *)
(***************************************************************************)
LEMMA RunWake ==
  ASSUME TypeInv, RunInv, NEW W \in SUBSET Tasks,
         \A t \in W : state[t] \in {"blocked", "free"},
         push_home_locked(W, state), UNCHANGED <<current, pin_core>>, Owners' = Owners
  PROVE  /\ Held(state, ring, current, Owners, pin_core)'
         /\ \A t \in {shell, idle_id} : state'[t] = state[t]
<1>1. PICK home \in [W -> Cores] :
        /\ \A t \in W : home[t] \in home_ring_of(t)
        /\ ring' = [c \in Cores |-> ring[c] \cup {t \in W : home[t] = c}]
  BY DEF push_home_locked
<1>2. state' = [t \in Tasks |-> IF t \in W THEN "ready" ELSE state[t]]
  BY DEF push_home_locked
<1>3. \A t \in W : pin_core[t] # 0 => home[t] = pin_core[t]
  BY <1>1 DEF home_ring_of
<1>4. shell \notin W /\ idle_id \notin W
  BY DEF RunInv, SystemTasks
<1>5. Shape(state, ring, current, Owners, pin_core) /\ Held(state, ring, current, Owners, pin_core)
  BY ShapeNow DEF RunInv
<1>9. /\ \A t \in Tasks : state'[t] = IF t \in W THEN "ready" ELSE state[t]
      /\ \A c \in Cores : \A t \in Tasks :
           t \in ring'[c] <=> t \in ring[c] \/ (t \in W /\ home[t] = c)
  BY <1>1, <1>2, <1>5 DEF Shape
<1>10. WakesTo(W, home, state, ring, pin_core, state', ring')
  BY <1>3, <1>4, <1>9 DEF WakesTo
<1>6. Held(state', ring', current, Owners, pin_core)
  BY ONLY <1>5, <1>10, HeldWake
<1>7. Held(state, ring, current, Owners, pin_core)'
  BY <1>6
<1>8. QED
  BY <1>2, <1>4, <1>7, Ground

(***************************************************************************)
(* The owner of a program's task parks it.                                 *)
(***************************************************************************)
LEMMA RunPark ==
  ASSUME TypeInv, RunInv, NEW c \in Cores, NEW t, t = current[c], t \in UserTasks,
         pc[c] \notin Giving, NEW what, NEW tgt, NEW ticks, Parked(c, t, what, tgt, ticks),
         UNCHANGED <<current, pin_core, kill>>,
         UNCHANGED op \/ \E o : op' = [op EXCEPT ![c] = o]
  PROVE  RunInv'
<1>1. /\ state' = [state EXCEPT ![current[c]] = "blocked"]
      /\ ring' = [d \in Cores |-> ring[d] \ {current[c]}] /\ Goto(c, "claim")
  BY DEF Parked, ring_remove_anywhere
<1>2. c \in Owners
  BY Ground DEF Owners, Owns, Giving
<1>3. Shape(state, ring, current, Owners, pin_core) /\ Held(state, ring, current, Owners, pin_core)
  BY ShapeNow DEF RunInv
<1>4. ring' = ring
  <2>1. \A d \in Cores : ring[d] \ {current[c]} = ring[d]
    BY <1>2, <1>3 DEF Held, Apart
  <2>2. QED
    BY <1>1, <1>3, <2>1 DEF Shape
<1>5. Owners' = Owners \ {c}
  BY <1>1, OwnersMove DEF Giving
<1>6. Held(state', ring, current, Owners \ {c}, pin_core)
  BY <1>1, <1>2, <1>3, HeldDrop
<1>7. Held(state, ring, current, Owners, pin_core)'
  BY <1>4, <1>5, <1>6
<1>8. SystemTasks'
  <2>1. \A u \in {shell, idle_id} : state'[u] = state[u]
    BY <1>1, <1>3, Ground DEF Shape
  <2>2. QED
    BY <2>1, SystemSame DEF RunInv
<1>9. OwnOperand'
  BY <1>1, OthersSame, OperandAny DEF RunInv, Unowned
<1>10. QED
  BY <1>7, <1>8, <1>9 DEF RunInv

(***************************************************************************)
(* A core that owns nothing claims its next task, or parks.                *)
(***************************************************************************)
LEMMA RunClaim ==
  ASSUME TypeInv, SystemTasks, OwnOperand, NEW c \in Cores, NEW after, NEW rings, NEW st,
         Shape(st, rings, current, Owners \ {c}, pin_core),
         Held(st, rings, current, Owners \ {c}, pin_core),
         \A t \in {shell, idle_id} : st[t] \in {"ready", "running"},
         NEW done \in {"leave", "unwind"}, ClaimAndStage(c, after, rings, st, done),
         UNCHANGED <<pin_core, kill, op>>
  PROVE  RunInv'
<1> DEFINE n == merged_next(c, after, rings)
           own == Owners \ {c}
<1>0. done \notin Giving /\ done \in Unowned /\ "convert" \notin Giving /\ own \cup {c} = Owners \cup {c}
      /\ c \notin own
  BY DEF Giving, Unowned
<1>1. CASE n = NoTask
  <2>1. /\ c # 0 /\ ring' = rings /\ state' = st /\ Goto(c, done)
        /\ current' = [current EXCEPT ![c] = idle_id]
    BY <1>1 DEF ClaimAndStage
  <2>2. Owners' = own
    BY <1>0, <2>1, OwnersClaim, Ground
  <2> HIDE DEF n, own
  <2>3. Held(st, rings, current', own, pin_core)
    BY <1>0, <2>1, HeldPark DEF own
  <2>4. Held(state, ring, current, Owners, pin_core)'
    BY <2>1, <2>2, <2>3
  <2>5. SystemTasks'
    BY <2>1 DEF SystemTasks
  <2>6. \A d \in Cores : d # c => op'[d] = op[d] /\ current'[d] = current[d]
    BY <2>1 DEF TypeInv, RunTy
  <2>7. OwnOperand'
    BY <1>0, <2>1, <2>6, OperandAny
  <2>8. QED
    BY <2>4, <2>5, <2>7 DEF RunInv
<1>2. CASE n # NoTask
  <2>1. /\ ring' = [r \in Cores |-> rings[r] \ {n}]
        /\ current' = [current EXCEPT ![c] = n]
        /\ state' = st \/ state' = [st EXCEPT ![n] = "running"]
        /\ (kill[n] /\ Goto(c, "convert")) \/ (~kill[n] /\ Goto(c, done))
    BY <1>2 DEF ClaimAndStage
  <2>2. rings \in [Cores -> SUBSET Tasks]
    BY DEF Shape
  <2>3. n \in Tasks /\ (n \in rings[c] \/ \E r \in Cores : n \in rings[r] /\ steal_eligible(c, n))
    BY <1>2, <2>2, NextFound
  <2> HIDE DEF n
  <2>4. n \in rings[c] \/ \E r \in Cores : n \in rings[r] /\ n # idle_id /\ pin_core[n] \in {0, c}
    BY <2>3 DEF steal_eligible
  <2>5. n # idle_id \/ c = 0
    BY <2>3, <2>4 DEF Held, Members
  <2>6. PICK label : /\ label \in {"convert", done} /\ Goto(c, label)
                     /\ label = "convert" => kill[n]
    BY <2>1
  <2>7. Owners' = own \cup {c}
    BY <1>0, <2>1, <2>3, <2>5, <2>6, OwnersClaim
  <2> HIDE DEF own
  <2>8. ClaimsTo(c, n, st, rings, current, pin_core, state', ring', current')
    BY <2>1, <2>3, <2>4 DEF ClaimsTo
  <2>9. Held(state', ring', current', own \cup {c}, pin_core)
    <3>1. Shape(st, rings, current, own, pin_core) /\ Held(st, rings, current, own, pin_core)
      BY DEF own
    <3>2. QED
      BY ONLY c \in Cores, <1>0, <2>8, <3>1, HeldClaim
  <2>10. Held(state, ring, current, Owners, pin_core)'
    BY <2>7, <2>9
  <2>11. SystemTasks'
    <3>1. \A t \in {shell, idle_id} : state'[t] \in {"ready", "running"}
      BY <2>1, <2>3, Ground DEF Shape
    <3>2. QED
      BY <3>1 DEF SystemTasks
  <2>12. current'[c] = n /\ \A d \in Cores : d # c => op'[d] = op[d] /\ current'[d] = current[d]
    BY <2>1 DEF TypeInv, RunTy
  <2>13. OpOwn(c, label, op'[c], current'[c])
    <3>1. label = "convert" => n \in UserTasks
      BY <2>3, <2>6, Ground DEF SystemTasks
    <3>2. QED
      BY <2>6, <2>12, <3>1 DEF OpOwn
  <2>14. OwnOperand'
    BY <2>6, <2>12, <2>13, OperandMove
  <2>15. QED
    BY <2>10, <2>11, <2>14 DEF RunInv
<1>3. QED
  BY <1>1, <1>2

LEMMA RunSwitch ==
  ASSUME TypeInv, RunInv, NEW c \in Owners, switch_context(c)
  PROVE  RunInv'
<1> DEFINE rings == [ring EXCEPT ![c] = @ \cup {current[c]}]
           st == [state EXCEPT ![current[c]] = "ready"]
<1>1. /\ ClaimAndStage(c, current[c], rings, st, "leave") /\ c \in Cores
      /\ UNCHANGED <<pin_core, kill, op>>
  BY DEF switch_context, Owners, pinVars, killVars
<1>2. Shape(state, ring, current, Owners, pin_core) /\ Held(state, ring, current, Owners, pin_core)
  BY ShapeNow DEF RunInv
<1>3. Shape(st, rings, current, Owners \ {c}, pin_core)
  BY <1>1, <1>2 DEF Shape, States
<1>4. \A t \in {shell, idle_id} : st[t] \in {"ready", "running"}
  BY <1>2 DEF RunInv, SystemTasks, Shape
<1>5. rings = [ring EXCEPT ![c] = @ \cup {current[c]}] /\ st = [state EXCEPT ![current[c]] = "ready"]
  OBVIOUS
<1> HIDE DEF rings, st
<1>6. Held(st, rings, current, Owners \ {c}, pin_core)
  BY <1>2, <1>5, HeldReturn
<1>7. QED
  BY <1>1, <1>3, <1>4, <1>6, RunClaim DEF RunInv

(***************************************************************************)
(* Every action keeps the run invariant.  The timer's first.               *)
(***************************************************************************)
LEMMA OwnsNow ==
  ASSUME NEW c \in Cores, pc[c] \notin Giving, current[c] # idle_id \/ c = 0
  PROVE  c \in Owners
BY DEF Owners, Owns, Giving

LEMMA InterruptRun ==
  ASSUME TypeInv, RunInv, NEW c \in Cores, Interrupt(c), UNCHANGED current
  PROVE  Owners' = Owners /\ OwnOperand'
<1>1. c = 0 /\ Goto(c, "rotate") /\ op' = [op EXCEPT ![c] = NoOp] /\ pc[c] \notin Giving
  BY DEF Interrupt, Interruptible, Monitor, Giving
<1>2. Owners' = Owners
  BY <1>1, OwnersMove DEF Giving
<1>3. OpOwn(c, "rotate", op'[c], current'[c])
  BY <1>1 DEF OpOwn
<1>4. \A d \in Cores : d # c => op'[d] = op[d] /\ current'[d] = current[d]
  BY <1>1, OthersSame
<1>5. QED
  BY <1>1, <1>2, <1>3, <1>4, OperandMove DEF RunInv

\* A kill is converted by the owner of the task: a program's.
LEMMA ConvertRun ==
  ASSUME TypeInv, RunInv, NEW c \in Cores, Disarm(current[c]), op' = ExitOp(c, current[c]),
         Goto(c, "zombie"), pc[c] \notin Giving, current[c] \in UserTasks,
         UNCHANGED <<state, ring, current, pin_core>>
  PROVE  RunInv'
<1>1. op'[c].task = current[c]
  <2>1. op[c] \in OpRec /\ op \in [Cores -> OpRec]
    BY DEF TypeInv, CoreTy
  <2>2. op'[c] = [op[c] EXCEPT !.task = current[c], !.call = "exit", !.val = kill_status[current[c]]]
    BY <2>1 DEF ExitOp
  <2>3. QED
    BY <2>1, <2>2 DEF OpRec
<1>2. \E o : op' = [op EXCEPT ![c] = o]
  BY DEF ExitOp
<1>3. OpOwn(c, "zombie", op'[c], current'[c])
  BY <1>1 DEF OpOwn
<1>4. SystemTasks'
  <2>1. \A t \in {shell, idle_id} : kill'[t] => kill[t]
    BY Ground DEF Disarm, TypeInv, KillTy
  <2>2. QED
    BY <2>1, SystemSame DEF RunInv
<1>5. "zombie" \in Giving <=> pc[c] \in Giving
  BY DEF Giving
<1>6. QED
  BY <1>2, <1>3, <1>4, <1>5, QuietGo

LEMMA TimerRun ==
  ASSUME TypeInv, RunInv, NEW c \in Cores, Tick(c)
  PROVE  RunInv'
<1>1. ASSUME tick(c) PROVE RunInv'
  <2>1. PICK P \in SUBSET Procs, over \in BOOLEAN :
          on_tick(P, over) /\ (over => current[0] \in UserTasks)
    BY <1>1 DEF tick
  <2> DEFINE W == wake_expired \cup EventWaiters(P)
  <2>2. W \in SUBSET Tasks /\ push_home_locked(W, state) /\ \A t \in W : state[t] \in {"blocked", "free"}
    BY <2>1 DEF on_tick, wake_expired, Timed, EventWaiters
  <2> HIDE DEF W
  <2>3. UNCHANGED <<current, pin_core>> /\ Owners' = Owners /\ OwnOperand'
    BY <1>1, InterruptRun DEF tick, pinVars
  <2>4. /\ Held(state, ring, current, Owners, pin_core)'
        /\ \A t \in {shell, idle_id} : state'[t] = state[t]
    BY <2>2, <2>3, RunWake
  <2>5. \A t \in {shell, idle_id} : kill'[t] => kill[t]
    BY <2>1, Ground DEF on_tick, TypeInv, KillTy
  <2>6. SystemTasks'
    BY <2>3, <2>4, <2>5, SystemSame DEF RunInv
  <2>7. QED
    BY <2>3, <2>4, <2>6 DEF RunInv
<1>2. ASSUME tick_skip(c) PROVE RunInv'
  <2>1. UNCHANGED <<state, ring, current, pin_core, kill>> /\ Owners' = Owners /\ OwnOperand'
    BY <1>2, InterruptRun DEF tick_skip, runVars, pinVars, killVars
  <2>2. SystemTasks'
    BY <2>1, SystemSame DEF RunInv
  <2>3. QED
    BY <2>1, <2>2, HeldQuiet DEF RunInv
<1>3. ASSUME tick_parked(c) PROVE RunInv'
  <2>1. /\ ClaimAndStage(c, idle_id, ring, state, "leave") /\ UNCHANGED <<pin_core, kill, op>>
        /\ c # 0 /\ current[c] = idle_id
    BY <1>3 DEF tick_parked, pinVars, killVars
  <2>2. Owners \ {c} = Owners
    BY <2>1 DEF Owners, Owns
  <2>3. \A t \in {shell, idle_id} : state[t] \in {"ready", "running"}
    BY DEF RunInv, SystemTasks
  <2>4. QED
    BY <2>1, <2>2, <2>3, ShapeNow, RunClaim DEF RunInv
<1>4. ASSUME tick_convert(c) PROVE RunInv'
  <2>1. current[c] \in UserTasks
    BY <1>4, Ground DEF tick_convert, RunInv, SystemTasks, TypeInv, RunTy
  <2>2. /\ Disarm(current[c]) /\ op' = ExitOp(c, current[c]) /\ Goto(c, "zombie")
        /\ pc[c] \notin Giving /\ UNCHANGED <<state, ring, current, pin_core>>
    BY <1>4 DEF tick_convert, runVars, pinVars, Giving
  <2>3. QED
    BY <2>1, <2>2, ConvertRun
<1>5. ASSUME tick_secondary(c) PROVE RunInv'
  <2>1. c \in Owners /\ switch_context(c)
    BY <1>5, OwnsNow DEF tick_secondary, Giving
  <2>2. QED
    BY <2>1, RunSwitch
<1>6. QED
  BY <1>1, <1>2, <1>3, <1>4, <1>5 DEF Tick

(***************************************************************************)
(* The sections of the blocking calls and the events.                      *)
(***************************************************************************)
LEMMA WakeGo ==
  ASSUME TypeInv, RunInv, NEW c \in Cores, NEW label \in Unowned, Goto(c, label),
         label \in Giving <=> pc[c] \in Giving, NEW W \in SUBSET Tasks,
         \A t \in W : state[t] \in {"blocked", "free"},
         push_home_locked(W, state), UNCHANGED <<current, pin_core, kill, op>>
  PROVE  RunInv'
<1>1. Owners' = Owners
  <2>1. CASE label \in Giving
    <3>1. Owners \ {c} = Owners
      BY <2>1 DEF Owners, Owns, Giving
    <3>2. QED
      BY <2>1, <3>1, OwnersMove
  <2>2. CASE label \notin Giving
    BY <2>2, OwnersMove
  <2>3. QED
    BY <2>1, <2>2
<1>2. /\ Held(state, ring, current, Owners, pin_core)'
      /\ \A t \in {shell, idle_id} : state'[t] = state[t]
  BY <1>1, RunWake
<1>3. SystemTasks'
  BY <1>2, SystemSame DEF RunInv
<1>4. OwnOperand'
  BY OthersSame, OperandAny DEF RunInv
<1>5. QED
  BY <1>2, <1>3, <1>4 DEF RunInv

LEMMA WakeStay ==
  ASSUME TypeInv, RunInv, NEW W \in SUBSET Tasks,
         \A t \in W : state[t] \in {"blocked", "free"},
         push_home_locked(W, state), UNCHANGED <<current, pin_core, kill, pc, op>>
  PROVE  RunInv'
<1>1. Owners' = Owners
  BY DEF Owners, Owns
<1>2. /\ Held(state, ring, current, Owners, pin_core)'
      /\ \A t \in {shell, idle_id} : state'[t] = state[t]
  BY <1>1, RunWake
<1>3. SystemTasks'
  BY <1>2, SystemSame DEF RunInv
<1>4. QED
  BY <1>2, <1>3, OperandSame DEF RunInv

LEMMA BlockRun ==
  ASSUME TypeInv, RunInv, NEW c \in Cores
  PROVE  /\ rotate(c) => RunInv'
         /\ wait_current(c) => RunInv'
         /\ wait_event_current(c) => RunInv'
         /\ futex_seat(c) => RunInv'
         /\ wake_event_waiters(c) => RunInv'
         /\ request_kill(c) => RunInv'
         /\ exit_current(c) => RunInv'
<1>0. OpOwn(c, pc[c], op[c], current[c])
  BY DEF RunInv, OwnOperand
<1>1. ASSUME rotate(c) PROVE RunInv'
  <2>1. c \in Owners /\ switch_context(c)
    BY <1>0, <1>1, OwnsNow DEF rotate, OpOwn, Giving
  <2>2. QED
    BY <2>1, RunSwitch
<1>2. ASSUME wait_current(c) PROVE RunInv'
  <2>1. op[c].task = current[c] /\ op[c].task \in UserTasks /\ pc[c] \notin Giving
    BY <1>0, <1>2 DEF wait_current, OpOwn, Giving
  <2>2. Parked(c, op[c].task, "pid", op[c].val, Never) /\ UNCHANGED <<current, pin_core, kill, op>>
    BY <1>2 DEF wait_current, pinVars, killVars
  <2>3. QED
    BY <2>1, <2>2, RunPark
<1>3. ASSUME wait_event_current(c) PROVE RunInv'
  <2>1. op[c].task = current[c] /\ op[c].task \in UserTasks /\ pc[c] \notin Giving
    BY <1>0, <1>3 DEF wait_event_current, OpOwn, Giving
  <2>2. Parked(c, op[c].task, "event", op[c].val, Never) /\ UNCHANGED <<current, pin_core, kill, op>>
    BY <1>3 DEF wait_event_current, pinVars, killVars
  <2>3. QED
    BY <2>1, <2>2, RunPark
<1>4. ASSUME futex_seat(c) PROVE RunInv'
  <2>1. op[c].task = current[c] /\ op[c].task \in UserTasks /\ pc[c] \notin Giving
    BY <1>0, <1>4 DEF futex_seat, OpOwn, Giving
  <2>2. UNCHANGED <<pin_core, kill, op>>
    BY <1>4 DEF futex_seat, pinVars, killVars
  <2>3. CASE Parked(c, op[c].task, "futex", NoTask, op[c].ticks) /\ UNCHANGED current
    BY <2>1, <2>2, <2>3, RunPark
  <2>4. CASE Goto(c, "leave") /\ UNCHANGED runVars
    <3>1. SystemTasks'
      BY <2>2, <2>4, SystemSame DEF RunInv, runVars
    <3>2. "leave" \in Unowned /\ ("leave" \in Giving <=> pc[c] \in Giving)
      BY <2>1 DEF Unowned, Giving
    <3>3. QED
      BY <2>2, <2>4, <3>1, <3>2, QuietGo DEF runVars
  <2>5. QED
    BY <1>4, <2>3, <2>4 DEF futex_seat
<1>5. ASSUME wake_event_waiters(c) PROVE RunInv'
  <2> DEFINE W == EventWaiters({op[c].val})
  <2>1. W \in SUBSET Tasks /\ push_home_locked(W, state) /\ \A t \in W : state[t] \in {"blocked", "free"}
    BY <1>5 DEF wake_event_waiters, EventWaiters
  <2>2. Goto(c, "leave") /\ UNCHANGED <<current, pin_core, kill, op>>
    BY <1>5 DEF wake_event_waiters, pinVars, killVars
  <2>3. "leave" \in Unowned /\ ("leave" \in Giving <=> pc[c] \in Giving)
    BY <1>5 DEF wake_event_waiters, Unowned, Giving
  <2> HIDE DEF W
  <2>4. QED
    BY <2>1, <2>2, <2>3, WakeGo
<1>6. ASSUME request_kill(c) PROVE RunInv'
  <2>1. \A t \in {shell, idle_id} : kill'[t] => kill[t]
    BY <1>6, Ground DEF request_kill, TypeInv, KillTy
  <2>2. Goto(c, "leave") /\ UNCHANGED <<state, ring, current, pin_core, op>>
    BY <1>6 DEF request_kill, runVars, pinVars
  <2>3. SystemTasks'
    BY <2>1, <2>2, SystemSame DEF RunInv
  <2>4. "leave" \in Unowned /\ ("leave" \in Giving <=> pc[c] \in Giving)
    BY <1>6 DEF request_kill, Unowned, Giving
  <2>5. QED
    BY <2>2, <2>3, <2>4, QuietGo
<1>7. ASSUME exit_current(c) PROVE RunInv'
  <2>1. Goto(c, "zombie") /\ UNCHANGED <<state, ring, current, pin_core, kill, op>>
    BY <1>7 DEF exit_current, runVars, pinVars, killVars
  <2>2. SystemTasks'
    BY <2>1, SystemSame DEF RunInv
  <2>3. OpOwn(c, "zombie", op'[c], current'[c])
    BY <1>0, <1>7, <2>1 DEF exit_current, OpOwn
  <2>4. "zombie" \in Giving <=> pc[c] \in Giving
    BY <1>7 DEF exit_current, Giving
  <2>5. QED
    BY <2>1, <2>2, <2>3, <2>4, QuietGo
<1>8. QED
  BY <1>1, <1>2, <1>3, <1>4, <1>5, <1>6, <1>7

(***************************************************************************)
(* exec: the slot it builds was free, so nobody's.                         *)
(***************************************************************************)
LEMMA SlotRun ==
  ASSUME TypeInv, RunInv, NEW t \in UserTasks, state[t] \notin {"ready", "running"},
         NEW s, s \notin {"ready", "running"}, state' = [state EXCEPT ![t] = s],
         \A u \in Tasks : u # t => pin_core'[u] = pin_core[u] /\ (kill'[u] => kill[u]),
         UNCHANGED <<ring, current>>, Owners' = Owners
  PROVE  Held(state, ring, current, Owners, pin_core)' /\ SystemTasks'
<1>1. Shape(state, ring, current, Owners, pin_core) /\ Held(state, ring, current, Owners, pin_core)
  BY ShapeNow DEF RunInv
<1>2. t \in Tasks /\ \A u \in Tasks : u # t => pin_core'[u] = pin_core[u]
  BY Ground
<1>3. Held(state', ring, current, Owners, pin_core')
  BY <1>1, <1>2, HeldSlot
<1>4. Held(state, ring, current, Owners, pin_core)'
  BY <1>3
<1>5. \A u \in {shell, idle_id} : state'[u] = state[u] /\ pin_core'[u] = pin_core[u]
                                  /\ (kill'[u] => kill[u])
  BY <1>1, Ground DEF Shape
<1>6. QED
  BY <1>4, <1>5, SystemSame DEF RunInv

LEMMA ExecRun ==
  ASSUME TypeInv, RunInv, NEW c \in Cores
  PROVE  /\ exec_create(c) => RunInv'
         /\ register_exec_user(c) => RunInv'
         /\ exec_bind(c) => RunInv'
         /\ publish_task(c) => RunInv'
<1>1. ASSUME exec_create(c) PROVE RunInv'
  <2>1. Goto(c, "register") /\ UNCHANGED <<state, ring, current, pin_core, kill, op>>
    BY <1>1 DEF exec_create, runVars, pinVars, killVars
  <2>2. SystemTasks'
    BY <2>1, SystemSame DEF RunInv
  <2>3. "register" \in Unowned /\ ("register" \in Giving <=> pc[c] \in Giving)
    BY <1>1 DEF exec_create, Unowned, Giving
  <2>4. QED
    BY <2>1, <2>2, <2>3, QuietGo
<1>2. ASSUME register_exec_user(c) PROVE RunInv'
  <2>1. CASE FreeSlots # {}
    <3> DEFINE t == Min(FreeSlots)
    <3>1. t \in Tasks /\ state[t] = "free" /\ t \in UserTasks
      BY <2>1, SlotFree, Ground DEF RunInv, SystemTasks
    <3>2. Built(c, t, Never)
      BY <1>2, <2>1 DEF register_exec_user
    <3>3. PICK pin : Pinned(t, pin)
      BY <1>2, <2>1 DEF register_exec_user
    <3>4. UNCHANGED <<ring, current, kill>>
      BY <1>2 DEF register_exec_user, killVars
    <3> HIDE DEF t
    <3>5. /\ state' = [state EXCEPT ![t] = "blocked"] /\ Goto(c, "bind")
          /\ op' = [op EXCEPT ![c].task = t]
      BY <3>2 DEF Built
    <3>6. \A u \in Tasks : u # t => pin_core'[u] = pin_core[u] /\ (kill'[u] => kill[u])
      BY <3>3, <3>4 DEF Pinned, TypeInv, PinTy
    <3>7. Owners' = Owners
      BY <1>2, <3>4, <3>5, OwnersMove DEF register_exec_user, Giving
    <3>8. Held(state, ring, current, Owners, pin_core)' /\ SystemTasks'
      BY <3>1, <3>4, <3>5, <3>6, <3>7, SlotRun
    <3>9. \E o : op' = [op EXCEPT ![c] = o]
      BY <3>5
    <3>10. OwnOperand'
      BY <3>4, <3>5, <3>9, OthersSame, OperandAny DEF RunInv, Unowned
    <3>11. QED
      BY <3>8, <3>10 DEF RunInv
  <2>2. CASE FreeSlots = {}
    <3>1. Goto(c, "leave") /\ UNCHANGED <<state, ring, current, pin_core, kill, op>>
      BY <1>2, <2>2 DEF register_exec_user, pinVars, killVars
    <3>2. SystemTasks'
      BY <3>1, SystemSame DEF RunInv
    <3>3. "leave" \in Unowned /\ ("leave" \in Giving <=> pc[c] \in Giving)
      BY <1>2 DEF register_exec_user, Unowned, Giving
    <3>4. QED
      BY <3>1, <3>2, <3>3, QuietGo
  <2>3. QED
    BY <2>1, <2>2
<1>3. ASSUME exec_bind(c) PROVE RunInv'
  <2>1. Goto(c, "publish") /\ UNCHANGED <<state, ring, current, pin_core, kill, op>>
    BY <1>3 DEF exec_bind, runVars, pinVars, killVars
  <2>2. SystemTasks'
    BY <2>1, SystemSame DEF RunInv
  <2>3. "publish" \in Unowned /\ ("publish" \in Giving <=> pc[c] \in Giving)
    BY <1>3 DEF exec_bind, Unowned, Giving
  <2>4. QED
    BY <2>1, <2>2, <2>3, QuietGo
<1>4. ASSUME publish_task(c) PROVE RunInv'
  <2> DEFINE W == {op[c].task} \cap {t \in Tasks : state[t] = "blocked"}
  <2>1. W \in SUBSET Tasks /\ push_home_locked(W, state) /\ \A t \in W : state[t] \in {"blocked", "free"}
    BY <1>4 DEF publish_task
  <2>2. Goto(c, "leave") /\ UNCHANGED <<current, pin_core, kill, op>>
    BY <1>4 DEF publish_task, pinVars, killVars
  <2>3. "leave" \in Unowned /\ ("leave" \in Giving <=> pc[c] \in Giving)
    BY <1>4 DEF publish_task, Unowned, Giving
  <2> HIDE DEF W
  <2>4. QED
    BY <2>1, <2>2, <2>3, WakeGo
<1>5. QED
  BY <1>1, <1>2, <1>3, <1>4

(***************************************************************************)
(* The exit path.  The exiting task is dropped by its owner; the siblings  *)
(* and the futex heir it wakes were blocked, so other tasks than it.       *)
(***************************************************************************)
LEMMA ZombieRun ==
  ASSUME TypeInv, RunInv, NEW c \in Cores, exit_zombie(c)
  PROVE  RunInv'
<1> DEFINE t == op[c].task
           armed == IF op[c].call = "exit" THEN arm_sibling_kills(t) ELSE {}
           W == {u \in armed \cup FutexHeir(t) : state[u] = "blocked"}
           st == [state EXCEPT ![t] = "zombie"]
<1>1. t = current[c] /\ t \in UserTasks /\ pc[c] \notin Giving
  BY DEF RunInv, OwnOperand, OpOwn, exit_zombie, Giving
<1>2. /\ push_home_locked(W, st) /\ kill' = [u \in Tasks |-> kill[u] \/ u \in armed]
      /\ Goto(c, "registry") /\ UNCHANGED <<current, pin_core, op>>
  BY DEF exit_zombie, pinVars
<1>3. armed \subseteq UserTasks
  BY DEF arm_sibling_kills, Siblings
<1>4. W \in SUBSET Tasks /\ \A u \in W : state[u] = "blocked"
  <2>1. FutexHeir(t) \subseteq Tasks
    BY HeirTask
  <2>2. QED
    BY <1>3, <2>1, Ground
<1>5. st = [state EXCEPT ![current[c]] = "zombie"]
  BY <1>1
<1> HIDE DEF t, armed, W, st
<1>6. c \in Owners
  BY <1>1, OwnsNow, Ground
<1>7. Shape(state, ring, current, Owners, pin_core) /\ Held(state, ring, current, Owners, pin_core)
  BY ShapeNow DEF RunInv
<1>8. Held(st, ring, current, Owners \ {c}, pin_core)
  BY <1>5, <1>6, <1>7, HeldDrop
<1>9. Shape(st, ring, current, Owners \ {c}, pin_core)
  BY <1>5, <1>7 DEF Shape, States
<1>10. t \notin W /\ shell \notin W /\ idle_id \notin W
  <2>1. state[current[c]] \in {"ready", "running"}
    BY <1>6, <1>7 DEF Held, Apart
  <2>2. QED
    BY <1>1, <1>4, <2>1 DEF RunInv, SystemTasks
<1>11. \A u \in W : st[u] = "blocked"
  BY <1>1, <1>4, <1>5, <1>7, <1>10 DEF Shape
<1>12. PICK home \in [W -> Cores] :
        /\ \A u \in W : home[u] \in home_ring_of(u)
        /\ ring' = [d \in Cores |-> ring[d] \cup {u \in W : home[u] = d}]
  BY <1>2 DEF push_home_locked
<1>13. state' = [u \in Tasks |-> IF u \in W THEN "ready" ELSE st[u]]
  BY <1>2 DEF push_home_locked
<1>14. \A u \in W : pin_core[u] # 0 => home[u] = pin_core[u]
  BY <1>12 DEF home_ring_of
<1>15. \A d \in Cores : \A u \in Tasks :
         u \in ring'[d] <=> u \in ring[d] \/ (u \in W /\ home[u] = d)
  BY <1>12, <1>7 DEF Shape
<1>16. WakesTo(W, home, st, ring, pin_core, state', ring')
  BY <1>4, <1>10, <1>11, <1>13, <1>14, <1>15 DEF WakesTo
<1>17. Held(state', ring', current, Owners \ {c}, pin_core)
  BY ONLY <1>8, <1>9, <1>16, HeldWake
<1>18. Owners' = Owners \ {c}
  BY <1>2, OwnersMove DEF Giving
<1>19. Held(state, ring, current, Owners, pin_core)'
  BY <1>2, <1>17, <1>18
<1>20. SystemTasks'
  <2>1. \A u \in {shell, idle_id} : state'[u] = state[u]
    BY <1>1, <1>5, <1>7, <1>10, <1>13, Ground DEF Shape
  <2>2. \A u \in {shell, idle_id} : kill'[u] => kill[u]
    BY <1>2, <1>3, Ground
  <2>3. QED
    BY <1>2, <2>1, <2>2, SystemSame DEF RunInv
<1>21. OwnOperand'
  BY <1>2, OthersSame, OperandAny DEF RunInv, Unowned
<1>22. QED
  BY <1>19, <1>20, <1>21 DEF RunInv

LEMMA ExitRun ==
  ASSUME TypeInv, RunInv, NEW c \in Cores
  PROVE  /\ convert_kill(c) => RunInv'
         /\ convert_deferred(c) => RunInv'
         /\ exit_registry(c) => RunInv'
         /\ wake_waiters(c) => RunInv'
         /\ exit_open(c) => RunInv'
         /\ claim_and_stage(c) => RunInv'
         /\ exit_unwind(c) => RunInv'
         /\ eret(c) => RunInv'
         /\ reap_pages(c) => RunInv'
<1>0. OpOwn(c, pc[c], op[c], current[c])
  BY DEF RunInv, OwnOperand
<1>1. ASSUME convert_kill(c) PROVE RunInv'
  <2>1. current[c] \in UserTasks /\ pc[c] \notin Giving
    BY <1>0, <1>1 DEF convert_kill, OpOwn, Giving
  <2>2. /\ Disarm(current[c]) /\ op' = ExitOp(c, current[c]) /\ Goto(c, "zombie")
        /\ UNCHANGED <<state, ring, current, pin_core>>
    BY <1>1 DEF convert_kill, runVars, pinVars
  <2>3. QED
    BY <2>1, <2>2, ConvertRun
<1>2. ASSUME convert_deferred(c) PROVE RunInv'
  <2>1. current[c] \in UserTasks /\ pc[c] \notin Giving
    BY <1>0, <1>2 DEF convert_deferred, OpOwn, Giving
  <2>2. c \in Owners
    BY <2>1, OwnsNow, Ground
  <2>3. /\ state' = [state EXCEPT ![current[c]] = "running"] /\ Goto(c, "leave")
        /\ UNCHANGED <<ring, current, pin_core, kill, op>>
    BY <1>2 DEF convert_deferred, pinVars, killVars
  <2>4. Owners' = Owners
    BY <2>1, <2>3, OwnersMove DEF Giving
  <2>5. Held(state', ring, current, Owners, pin_core)
    BY <2>2, <2>3, HeldStage, ShapeNow DEF RunInv
  <2>6. Held(state, ring, current, Owners, pin_core)'
    BY <2>3, <2>4, <2>5
  <2>7. SystemTasks'
    <3>1. \A u \in {shell, idle_id} : state'[u] = state[u]
      BY <2>1, <2>3, Ground DEF TypeInv, RunTy
    <3>2. QED
      BY <2>3, <3>1, SystemSame DEF RunInv
  <2>8. OwnOperand'
    BY <2>3, OthersSame, OperandAny DEF RunInv, Unowned
  <2>9. QED
    BY <2>6, <2>7, <2>8 DEF RunInv
<1>3. ASSUME exit_registry(c) PROVE RunInv'
  <2>1. PICK p \in find_by_task(op[c].task) :
          /\ op' = [op EXCEPT ![c].pid = p]
          /\ Goto(c, IF pstate'[p] = "exited" THEN "wake" ELSE "open")
    BY <1>3 DEF exit_registry
  <2>7. PICK label \in {"wake", "open"} : Goto(c, label)
    BY <2>1
  <2>2. UNCHANGED <<state, ring, current, pin_core, kill>>
    BY <1>3 DEF exit_registry, runVars, pinVars, killVars
  <2>3. \E o : op' = [op EXCEPT ![c] = o]
    BY <2>1
  <2>4. SystemTasks'
    BY <2>2, SystemSame DEF RunInv
  <2>5. label \in Unowned /\ (label \in Giving <=> pc[c] \in Giving)
    BY <1>3 DEF exit_registry, Unowned, Giving
  <2>6. QED
    BY <2>7, <2>2, <2>3, <2>4, <2>5, QuietGo
<1>4. ASSUME wake_waiters(c) PROVE RunInv'
  <2> DEFINE W == ExitWaiters({op[c].pid})
  <2>1. W \in SUBSET Tasks /\ push_home_locked(W, state) /\ \A t \in W : state[t] \in {"blocked", "free"}
    BY <1>4 DEF wake_waiters, ExitWaiters
  <2>2. Goto(c, "open") /\ UNCHANGED <<current, pin_core, kill, op>>
    BY <1>4 DEF wake_waiters, pinVars, killVars
  <2>3. "open" \in Unowned /\ ("open" \in Giving <=> pc[c] \in Giving)
    BY <1>4 DEF wake_waiters, Unowned, Giving
  <2> HIDE DEF W
  <2>4. QED
    BY <2>1, <2>2, <2>3, WakeGo
<1>5. ASSUME exit_open(c) PROVE RunInv'
  <2>1. Goto(c, "claim") /\ UNCHANGED <<state, ring, current, pin_core, kill, op>>
    BY <1>5 DEF exit_open, runVars, pinVars, killVars
  <2>2. SystemTasks'
    BY <2>1, SystemSame DEF RunInv
  <2>3. "claim" \in Unowned /\ ("claim" \in Giving <=> pc[c] \in Giving)
    BY <1>5 DEF exit_open, Unowned, Giving
  <2>4. QED
    BY <2>1, <2>2, <2>3, QuietGo
<1>6. ASSUME claim_and_stage(c) PROVE RunInv'
  <2>1. /\ ClaimAndStage(c, op[c].task, ring, state, Done(c)) /\ UNCHANGED <<pin_core, kill, op>>
        /\ pc[c] = "claim" /\ Done(c) \in {"leave", "unwind"}
    BY <1>6 DEF claim_and_stage, pinVars, killVars, Done
  <2>2. Owners \ {c} = Owners
    BY <2>1 DEF Owners, Owns
  <2>3. \A t \in {shell, idle_id} : state[t] \in {"ready", "running"}
    BY DEF RunInv, SystemTasks
  <2>4. QED
    BY <2>1, <2>2, <2>3, ShapeNow, RunClaim DEF RunInv
<1>7. ASSUME exit_unwind(c) PROVE RunInv'
  <2>1. Goto(c, "leave") /\ UNCHANGED <<state, ring, current, pin_core, kill, op>>
    BY <1>7 DEF exit_unwind, runVars, pinVars, killVars
  <2>2. SystemTasks'
    BY <2>1, SystemSame DEF RunInv
  <2>3. "leave" \in Unowned /\ ("leave" \in Giving <=> pc[c] \in Giving)
    BY <1>7 DEF exit_unwind, Unowned, Giving
  <2>4. QED
    BY <2>1, <2>2, <2>3, QuietGo
<1>8. ASSUME eret(c) PROVE RunInv'
  <2>1. UNCHANGED <<state, ring, current, pin_core, kill>>
    BY <1>8 DEF eret, runVars, pinVars, killVars
  <2>2. PICK label \in Monitor \cup {"user"} :
          (\E o : op' = [op EXCEPT ![c] = o]) /\ Goto(c, label)
    <3>1. CASE current[c] = shell
      BY <1>8, <3>1 DEF eret, TypeInv, CoreTy
    <3>2. CASE current[c] # shell
      BY <1>8, <3>2 DEF eret
    <3>3. QED
      BY <3>1, <3>2
  <2>3. SystemTasks'
    BY <2>1, SystemSame DEF RunInv
  <2>4. label \in Unowned /\ (label \in Giving <=> pc[c] \in Giving)
    BY <1>8 DEF eret, Monitor, Unowned, Giving
  <2>5. QED
    BY <2>1, <2>2, <2>3, <2>4, QuietGo
<1>9. ASSUME reap_pages(c) PROVE RunInv'
  <2>1. /\ Goto(c, "user") /\ UNCHANGED <<state, ring, current, pin_core, kill>>
        /\ op' = [op EXCEPT ![c] = NoOp]
    BY <1>9 DEF reap_pages, runVars, pinVars, killVars
  <2>2. SystemTasks'
    BY <2>1, SystemSame DEF RunInv
  <2>3. "user" \in Unowned /\ ("user" \in Giving <=> pc[c] \in Giving)
    BY <1>9 DEF reap_pages, Unowned, Giving
  <2>4. QED
    BY <2>1, <2>2, <2>3, QuietGo
<1>10. QED
  BY <1>1, <1>2, <1>3, <1>4, <1>5, <1>6, <1>7, <1>8, <1>9

LEMMA ReapRun ==
  ASSUME TypeInv, RunInv, NEW c \in Cores, reap(c)
  PROVE  RunInv'
<1> DEFINE t == Min(Zombies)
<1>1. t \in UserTasks /\ t \in Tasks /\ state[t] = "zombie"
  BY ZombieSlot DEF reap, RunInv
<1>2. /\ state' = [state EXCEPT ![t] = "free"] /\ ring' = [d \in Cores |-> ring[d] \ {t}]
      /\ pin_core' = [pin_core EXCEPT ![t] = 0] /\ kill' = [kill EXCEPT ![t] = FALSE]
      /\ op' = [op EXCEPT ![c] = Op(t, "reap", 0, 0)] /\ Goto(c, "reap") /\ pc[c] = "user"
      /\ UNCHANGED current
  BY DEF reap, ring_remove_anywhere
<1> HIDE DEF t
<1>3. ring' = ring
  <2>1. \A d \in Cores : ring[d] \ {t} = ring[d]
    BY <1>1 DEF RunInv, Held, Members
  <2>2. QED
    BY <1>2, <2>1 DEF TypeInv, RunTy
<1>4. Owners' = Owners
  BY <1>2, OwnersMove DEF Giving
<1>5. \A u \in Tasks : u # t => pin_core'[u] = pin_core[u] /\ (kill'[u] => kill[u])
  BY <1>2 DEF TypeInv, PinTy, KillTy
<1>6. Held(state, ring, current, Owners, pin_core)' /\ SystemTasks'
  BY <1>1, <1>2, <1>3, <1>4, <1>5, SlotRun
<1>7. OwnOperand'
  BY <1>2, OthersSame, OperandAny DEF RunInv, Unowned
<1>8. QED
  BY <1>6, <1>7 DEF RunInv

(***************************************************************************)
(* The programs and the shell.                                             *)
(***************************************************************************)
LEMMA UserRun1 ==
  ASSUME TypeInv, RunInv, NEW c \in Cores
  PROVE  /\ yield_current(c) => RunInv'
         /\ Return(c) => RunInv'
         /\ handle_wait_event(c) => RunInv'
         /\ futex_store(c) => RunInv'
         /\ futex_wake(c) => RunInv'
         /\ spawn_thread(c) => RunInv'
         /\ exit_thread_current(c) => RunInv'
         /\ pin_task(c) => RunInv'
         /\ exec_file(c) => RunInv'
<1>0. /\ \A t, call, val, ticks : Op(t, call, val, ticks).task = t
      /\ {"block", "seat", "spin", "create", "kill"} \cap Giving = {} /\ "create" \in Unowned
  BY DEF Op, Giving, Unowned
<1>1. ASSUME yield_current(c) PROVE RunInv'
  <2>1. c \in Owners /\ switch_context(c)
    BY <1>1, ProgramTask, OwnsNow, Ground DEF yield_current, Giving
  <2>2. QED
    BY <2>1, RunSwitch
<1>2. ASSUME Return(c) PROVE RunInv'
  BY <1>2, QuietStay DEF Return, runVars, pinVars, killVars, coreVars
<1>3. ASSUME handle_wait_event(c) PROVE RunInv'
  <2>1. pc[c] = "user" /\ current[c] \in UserTasks
    BY <1>3 DEF handle_wait_event
  <2>2. ASSUME NEW p, Begin(c, Op(current[c], "event", p, Never), "block") PROVE RunInv'
    <3>1. OpOwn(c, "block", Op(current[c], "event", p, Never), current[c])
      BY <1>0, <2>1 DEF OpOwn
    <3>2. QED
      BY <1>0, <2>1, <2>2, <3>1, BeginRun
  <2>3. CASE UNCHANGED <<runVars, pinVars, killVars, coreVars>>
    BY <2>3, QuietStay DEF runVars, pinVars, killVars, coreVars
  <2>4. QED
    BY <1>3, <2>2, <2>3 DEF handle_wait_event
<1>4. ASSUME futex_store(c) PROVE RunInv'
  BY <1>4, QuietStay DEF futex_store, runVars, pinVars, killVars, coreVars
<1>5. ASSUME futex_wake(c) PROVE RunInv'
  <2>1. PICK p : push_home_locked({u \in SeatedIn(p) : state[u] = "blocked"}, state)
    BY <1>5 DEF futex_wake
  <2> DEFINE W == {u \in SeatedIn(p) : state[u] = "blocked"}
  <2>2. W \in SUBSET Tasks /\ push_home_locked(W, state) /\ \A t \in W : state[t] \in {"blocked", "free"}
    BY <2>1 DEF SeatedIn
  <2>3. UNCHANGED <<current, pin_core, kill, pc, op>>
    BY <1>5 DEF futex_wake, pinVars, killVars, coreVars
  <2> HIDE DEF W
  <2>4. QED
    BY <2>2, <2>3, WakeStay
<1>6. ASSUME spawn_thread(c) PROVE RunInv'
  <2> DEFINE W == {Min(FreeSlots)}
  <2>1. W \in SUBSET Tasks /\ push_home_locked(W, state) /\ \A t \in W : state[t] \in {"blocked", "free"}
    BY <1>6, SlotFree DEF spawn_thread
  <2>2. UNCHANGED <<current, pin_core, kill, pc, op>>
    BY <1>6 DEF spawn_thread, pinVars, killVars, coreVars
  <2> HIDE DEF W
  <2>3. QED
    BY <2>1, <2>2, WakeStay
<1>7. ASSUME exit_thread_current(c) PROVE RunInv'
  <2>1. PICK t \in Tasks : Program(c, t) /\ Begin(c, Op(t, "thread", 0, 0), "spin")
    BY <1>7 DEF exit_thread_current
  <2>2. t = current[c] /\ t \in UserTasks /\ pc[c] = "user"
    BY <2>1, ProgramTask
  <2>3. OpOwn(c, "spin", Op(t, "thread", 0, 0), current[c])
    BY <1>0, <2>2 DEF OpOwn
  <2>4. QED
    BY <1>0, <2>1, <2>2, <2>3, BeginRun
<1>8. ASSUME pin_task(c) PROVE RunInv'
  <2>1. PICK t \in Tasks : Program(c, t) /\ Pinned(t, 0)
    BY <1>8 DEF pin_task
  <2>2. UNCHANGED <<state, ring, current, kill, pc, op>>
    BY <1>8 DEF pin_task, runVars, killVars, coreVars
  <2>3. \A u \in Tasks : pin_core'[u] \in {0, pin_core[u]} /\ (u # t => pin_core'[u] = pin_core[u])
    BY <2>1, Ground DEF Pinned, TypeInv, PinTy
  <2>4. Held(state, ring, current, Owners, pin_core')
    BY <2>3, HeldUnpin, ShapeNow DEF RunInv
  <2>5. Owners' = Owners
    BY <2>2 DEF Owners, Owns
  <2>6. Held(state, ring, current, Owners, pin_core)'
    BY <2>2, <2>4, <2>5
  <2>7. SystemTasks'
    <3>1. \A u \in {shell, idle_id} : pin_core'[u] = pin_core[u]
      BY <2>1, <2>3, ProgramTask, Ground
    <3>2. QED
      BY <2>2, <3>1, SystemSame DEF RunInv
  <2>8. QED
    BY <2>2, <2>6, <2>7, OperandSame DEF RunInv
<1>9. ASSUME exec_file(c) PROVE RunInv'
  <2>1. PICK o : Begin(c, o, "create")
    BY <1>9 DEF exec_file
  <2>2. pc[c] = "user"
    BY <1>9 DEF exec_file, Caller, Actor
  <2>3. QED
    BY <1>0, <2>1, <2>2, BeginRun
<1>10. QED
  BY <1>1, <1>2, <1>3, <1>4, <1>5, <1>6, <1>7, <1>8, <1>9

LEMMA UserRun2 ==
  ASSUME TypeInv, RunInv, NEW c \in Cores
  PROVE  /\ \A ticks : sleep_current(c, ticks) => RunInv'
         /\ \A ticks : futex_wait_current(c, ticks) => RunInv'
         /\ \A p : handle_wait(c, p) \/ events_push(c, p) \/ handle_kill(c, p) => RunInv'
         /\ \A status : handle_exit(c, status) => RunInv'
<1>0. /\ \A t, call, val, ticks : Op(t, call, val, ticks).task = t
      /\ {"block", "seat", "spin", "hook", "kill"} \cap Giving = {} /\ "user" \notin Giving
      /\ "hook" \in Unowned /\ "kill" \in Unowned
  BY DEF Op, Giving, Unowned
<1>1. ASSUME NEW ticks, sleep_current(c, ticks) PROVE RunInv'
  <2>1. PICK t \in Tasks : /\ Program(c, t) /\ Parked(c, t, "sleep", NoTask, ticks)
                           /\ op' = [op EXCEPT ![c] = Op(t, "sleep", 0, ticks)]
    BY <1>1 DEF sleep_current
  <2>2. t = current[c] /\ t \in UserTasks /\ pc[c] \notin Giving
    BY <1>0, <2>1, ProgramTask
  <2>3. UNCHANGED <<current, pin_core, kill>>
    BY <1>1 DEF sleep_current, pinVars, killVars
  <2>4. QED
    BY <2>1, <2>2, <2>3, RunPark
<1>2. ASSUME NEW ticks, futex_wait_current(c, ticks) PROVE RunInv'
  <2>1. PICK t \in Tasks : Program(c, t) /\ Begin(c, Op(t, "futex", Min(FreeSeats), ticks), "seat")
    BY <1>2 DEF futex_wait_current
  <2>2. t = current[c] /\ t \in UserTasks /\ pc[c] = "user"
    BY <2>1, ProgramTask
  <2>3. OpOwn(c, "seat", Op(t, "futex", Min(FreeSeats), ticks), current[c])
    BY <1>0, <2>2 DEF OpOwn
  <2>4. QED
    BY <1>0, <2>1, <2>2, <2>3, BeginRun
<1>3. ASSUME NEW p, handle_wait(c, p) PROVE RunInv'
  <2>1. PICK t \in Tasks : /\ Program(c, t)
                           /\ \/ Begin(c, Op(t, "wait", p, Never), "block")
                              \/ UNCHANGED <<runVars, pinVars, killVars, coreVars>>
    BY <1>3 DEF handle_wait
  <2>2. t = current[c] /\ t \in UserTasks /\ pc[c] = "user"
    BY <2>1, ProgramTask
  <2>3. CASE Begin(c, Op(t, "wait", p, Never), "block")
    <3>1. OpOwn(c, "block", Op(t, "wait", p, Never), current[c])
      BY <1>0, <2>2 DEF OpOwn
    <3>2. QED
      BY <1>0, <2>2, <2>3, <3>1, BeginRun
  <2>4. CASE UNCHANGED <<runVars, pinVars, killVars, coreVars>>
    BY <2>4, QuietStay DEF runVars, pinVars, killVars, coreVars
  <2>5. QED
    BY <2>1, <2>3, <2>4
<1>4. ASSUME NEW p, events_push(c, p) PROVE RunInv'
  <2>1. /\ Goto(c, "hook") /\ op' = [op EXCEPT ![c] = Op(current[c], "push", p, 0)]
        /\ UNCHANGED <<state, ring, current, pin_core, kill>> /\ pc[c] = "user"
    BY <1>4 DEF events_push, Actor, runVars, pinVars, killVars
  <2>2. SystemTasks'
    BY <2>1, SystemSame DEF RunInv
  <2>3. "hook" \in Giving <=> pc[c] \in Giving
    BY <2>1 DEF Giving
  <2>4. QED
    BY <1>0, <2>1, <2>2, <2>3, QuietGo
<1>5. ASSUME NEW p, handle_kill(c, p) PROVE RunInv'
  <2>1. pc[c] = "user" /\ Begin(c, Op(current[c], "kill", task_id[p], 0), "kill")
    BY <1>5 DEF handle_kill, Caller, Actor
  <2>2. QED
    BY <1>0, <2>1, BeginRun
<1>6. ASSUME NEW status, handle_exit(c, status) PROVE RunInv'
  <2>1. PICK t \in Tasks : Program(c, t) /\ Begin(c, Op(t, "exit", status, 0), "spin")
    BY <1>6 DEF handle_exit
  <2>2. t = current[c] /\ t \in UserTasks /\ pc[c] = "user"
    BY <2>1, ProgramTask
  <2>3. OpOwn(c, "spin", Op(t, "exit", status, 0), current[c])
    BY <1>0, <2>2 DEF OpOwn
  <2>4. QED
    BY <1>0, <2>1, <2>2, <2>3, BeginRun
<1>7. QED
  BY <1>1, <1>2, <1>3, <1>4, <1>5, <1>6
-----------------------------------------------------------------------------
(***************************************************************************)
(* The initial states.                                                     *)
(***************************************************************************)
LEMMA InitTy ==
  ASSUME NEW w \in Workloads, Start(w)
  PROVE  TypeInv
<1> DEFINE InitTasks == w.tasks
           InitUsers == UNION {InitTasks[p] : p \in Procs}
<1>1. ASSUME NEW p \in Procs
      PROVE  /\ InitTasks[p] \subseteq Tasks /\ Cardinality(InitTasks[p]) \in Nat
             /\ InitTasks[p] # {} => Cardinality(InitTasks[p]) > 0 /\ Min(InitTasks[p]) \in Tasks
  <2>1. InitTasks[p] \subseteq Tasks
    BY SchedulerAssumption, Ground
  <2>2. IsFiniteSet(Tasks)
    BY SchedulerAssumption, FS_Interval
  <2>3. IsFiniteSet(InitTasks[p])
    BY <2>1, <2>2, FS_Subset
  <2>4. Cardinality(InitTasks[p]) \in Nat
    BY <2>3, FS_CardinalityType
  <2>5. InitTasks[p] # {} => Cardinality(InitTasks[p]) > 0
    BY <2>3, <2>4, FS_EmptySet
  <2>6. InitTasks[p] # {} => Min(InitTasks[p]) \in Tasks
    BY <2>1, Ground, MinOf
  <2>7. QED
    BY <2>1, <2>4, <2>5, <2>6
<1>2. ProcTy
  <2>1. pstate \in [Procs -> {"free", "created", "running", "exited"}]
    BY DEF Start
  <2>2. task_id \in [Procs -> Tasks \cup {NoTask}]
    BY <1>1 DEF Start
  <2>3. thread_tasks \in [Procs -> SUBSET Tasks]
    BY <1>1 DEF Start
  <2>4. live_tasks \in [Procs -> Nat] /\ \A p \in Procs : pstate[p] = "running" => live_tasks[p] > 0
    BY <1>1 DEF Start
  <2>5. exit_requested \in [Procs -> BOOLEAN] /\ pages \in [Procs -> BOOLEAN]
    BY DEF Start
  <2>6. snapshot \in [Procs -> Statuses] /\ exit_status \in [Procs -> Statuses]
    BY Ground DEF Start
  <2>7. QED
    BY <2>1, <2>2, <2>3, <2>4, <2>5, <2>6 DEF ProcTy, ProcessTypeOK
<1>3. RunTy
  <2>1. InitUsers \subseteq Tasks
    BY <1>1
  <2>2. QED
    BY <2>1, Ground DEF Start, RunTy, States
<1>4. PinTy
  BY SchedulerAssumption DEF Start, PinTy
<1>5. KillTy /\ TearTy
  BY DEF Start, KillTy, TearTy
<1>6. WaitTy
  BY Ground DEF Start, WaitTy, Waits
<1>7. UserTy
  BY Ground DEF Start, UserTy
<1>8. CoreTy
  <2>1. Fresh \in [pc : Monitor \cup {"user"}, op : OpRec]
    BY NoOpTyped DEF Fresh
  <2>2. QED
    BY <2>1, NoOpTyped, Ground DEF Start, CoreTy, PCs
<1>9. OpTy
  BY DEF Start, OpTy, OpFits
<1>10. QED
  BY <1>2, <1>3, <1>4, <1>5, <1>6, <1>7, <1>8, <1>9 DEF TypeInv

LEMMA InitRun ==
  ASSUME NEW w \in Workloads, Start(w)
  PROVE  RunInv
<1> DEFINE InitTasks == w.tasks
           InitUsers == UNION {InitTasks[p] : p \in Procs}
<1>1. InitUsers \subseteq UserTasks /\ InitUsers \subseteq Tasks
  <2>1. \A p \in Procs : InitTasks[p] \subseteq UserTasks
    BY SchedulerAssumption
  <2>2. InitUsers \subseteq UserTasks
    BY <2>1
  <2>3. QED
    BY <2>2, Ground
<1>2. /\ \A t \in Tasks : state[t] = IF t \in InitUsers \cup {shell, idle_id} THEN "ready" ELSE "free"
      /\ \A c \in Cores : \A t \in Tasks :
           t \in ring[c] <=> (t \in InitUsers /\ InitPin[t] = c) \/ (c = 0 /\ t = idle_id)
      /\ \A c \in Cores : current[c] = IF c = 0 THEN shell ELSE idle_id
      /\ \A c \in Cores : pc[c] = "user"
      /\ \A t \in Tasks : ~kill[t]
      /\ pin_core = InitPin
  BY Ground DEF Start
<1>3. Owners = {0}
  BY <1>2, Ground DEF Owners, Owns
<1>4. InitPin[shell] = 0 /\ InitPin[idle_id] = 0 /\ InitPin \in [Tasks -> Cores]
  BY SchedulerAssumption
<1>5. Members(state, ring, pin_core)
  BY <1>1, <1>2, <1>4, Ground DEF Members
<1>6. Apart(state, ring, current, Owners, pin_core)
  <2>1. current[0] = shell /\ shell \notin InitUsers /\ shell # idle_id
    BY <1>1, <1>2, Ground
  <2>2. \A d \in Cores : shell \notin ring[d]
    BY <1>2, <2>1, Ground
  <2>3. state[shell] = "ready"
    BY <1>2, Ground
  <2>4. QED
    BY <1>2, <1>3, <1>4, <2>1, <2>2, <2>3 DEF Apart
<1>7. NoneLost(state, ring, current, Owners)
  <2> SUFFICES ASSUME NEW t \in Tasks, state[t] = "ready"
               PROVE  (\E c \in Cores : t \in ring[c]) \/ (\E c \in Owners : current[c] = t)
    BY DEF NoneLost
  <2>1. CASE t \in InitUsers
    BY <1>2, <1>4, <2>1
  <2>2. CASE t = shell
    BY <1>2, <1>3, <2>2, Ground
  <2>3. CASE t = idle_id
    BY <1>2, <2>3, Ground
  <2>4. QED
    BY <1>2, <2>1, <2>2, <2>3
<1>8. SystemTasks
  BY <1>2, <1>4, Ground DEF SystemTasks
<1>9. OwnOperand
  BY <1>2 DEF OwnOperand, OpOwn
<1>10. QED
  BY <1>5, <1>6, <1>7, <1>8, <1>9 DEF RunInv, Held

(***************************************************************************)
(* The lock taken in main context, and the callers that find it taken.     *)
(***************************************************************************)
LEMMA LockKeeps ==
  ASSUME TypeInv, RunInv, NEW c \in Cores,
         sched_lock_acquire(c) \/ lock_spin(c) \/ lock_won(c)
  PROVE  TypeInv' /\ RunInv'
<1>1. CASE sched_lock_acquire(c)
  <2>1. /\ UNCHANGED <<procVars, runVars, pinVars, killVars, teardown, waitVars, userVars, coreVars>>
        /\ UNCHANGED <<state, ring, current, pin_core, kill, pc, op>>
    BY <1>1 DEF sched_lock_acquire, runVars, pinVars, killVars, coreVars
  <2>2. TypeInv'
    BY <2>1, Keep, KeepCores DEF TypeInv
  <2>3. QED
    BY <2>1, <2>2, QuietStay
<1>2. CASE lock_spin(c) \/ lock_won(c)
  <2>1. PICK label \in {"contend", "user"} : Goto(c, label)
    BY <1>2 DEF lock_spin, lock_won
  <2>2. /\ UNCHANGED <<procVars, runVars, pinVars, killVars, teardown, waitVars, userVars>>
        /\ UNCHANGED <<svc, on, op, cont>> /\ pc[c] \in {"contend", "user"}
    BY <1>2 DEF lock_spin, lock_won, Program
  <2>3. CoreTy' /\ OpTy'
    BY <2>1, <2>2, CoreGo, AnyFits DEF TypeInv, CoreTy, PCs
  <2>4. TypeInv'
    BY <2>2, <2>3, Keep DEF TypeInv
  <2>5. UNCHANGED <<state, ring, current, pin_core, kill>>
    BY <2>2 DEF runVars, pinVars, killVars
  <2>6. SystemTasks'
    BY <2>5, SystemSame DEF RunInv
  <2>7. label \in Unowned /\ (label \in Giving <=> pc[c] \in Giving)
    BY <2>1, <2>2 DEF Unowned, Giving
  <2>8. RunInv'
    BY <2>1, <2>2, <2>5, <2>6, <2>7, QuietGo
  <2>9. QED
    BY <2>4, <2>8
<1>3. QED
  BY <1>1, <1>2

(***************************************************************************)
(* Every step keeps both invariants.                                       *)
(***************************************************************************)
LEMMA StepKeeps ==
  ASSUME TypeInv, RunInv, [Next]_vars
  PROVE  TypeInv' /\ RunInv'
<1>1. SystemTasks
  BY DEF RunInv
<1>2. CASE UNCHANGED vars
  <2>1. /\ UNCHANGED <<procVars, runVars, pinVars, killVars, teardown, waitVars, userVars, coreVars>>
        /\ UNCHANGED <<state, ring, current, pin_core, kill, pc, op>>
    BY <1>2 DEF vars, runVars, pinVars, killVars, coreVars
  <2>2. TypeInv'
    BY <2>1, Keep, KeepCores DEF TypeInv
  <2>3. QED
    BY <2>1, <2>2, QuietStay
<1>3. ASSUME NEW c \in Cores, Tick(c) PROVE TypeInv' /\ RunInv'
  BY <1>3, TimerTy, TimerRun
<1>4. ASSUME NEW c \in Cores, Kernel(c) PROVE TypeInv' /\ RunInv'
  <2>1. CASE \/ rotate(c) \/ wait_current(c) \/ wait_event_current(c) \/ futex_seat(c)
             \/ wake_event_waiters(c) \/ request_kill(c) \/ exit_current(c)
    BY <2>1, BlockTy, BlockRun
  <2>2. CASE exec_create(c) \/ register_exec_user(c) \/ exec_bind(c) \/ publish_task(c)
    BY <1>1, <2>2, ExecTy, ExecRun
  <2>3. CASE exit_zombie(c)
    BY <2>3, ExitTy, ZombieRun
  <2>4. CASE \/ convert_kill(c) \/ convert_deferred(c) \/ exit_registry(c) \/ wake_waiters(c)
             \/ exit_open(c) \/ claim_and_stage(c) \/ exit_unwind(c) \/ eret(c) \/ reap_pages(c)
    BY <2>4, ExitTy, ExitRun
  <2>5. CASE sched_lock_acquire(c) \/ lock_won(c)
    BY <2>5, LockKeeps
  <2>6. QED
    BY <1>4, <2>1, <2>2, <2>3, <2>4, <2>5 DEF Kernel
<1>5. ASSUME NEW c \in Cores, User(c) PROVE TypeInv' /\ RunInv'
  <2>1. CASE \/ yield_current(c) \/ Return(c) \/ handle_wait_event(c) \/ futex_store(c)
             \/ futex_wake(c) \/ spawn_thread(c) \/ exit_thread_current(c) \/ pin_task(c)
             \/ exec_file(c)
    BY <2>1, UserTy1, UserRun1
  <2>2. CASE \/ \E ticks \in 1 .. MaxTicks : sleep_current(c, ticks)
             \/ \E ticks \in 1 .. Never : futex_wait_current(c, ticks)
             \/ \E p \in Procs : handle_wait(c, p) \/ events_push(c, p) \/ handle_kill(c, p)
             \/ \E status \in ExitCodes : handle_exit(c, status)
    BY <2>2, UserTy2, UserRun2
  <2>3. CASE lock_spin(c)
    BY <2>3, LockKeeps
  <2>4. QED
    BY <1>5, <2>1, <2>2, <2>3 DEF User
<1>6. ASSUME NEW c \in Cores, reap(c) PROVE TypeInv' /\ RunInv'
  BY <1>1, <1>6, ReapTy, ReapRun
<1>7. QED
  BY <1>2, <1>3, <1>4, <1>5, <1>6 DEF Next
-----------------------------------------------------------------------------
(***************************************************************************)
(* The inductive invariant: types, rings, owners, system tasks, operands.  *)
(***************************************************************************)
THEOREM RunInvariance == Spec => [](TypeInv /\ RunInv)
<1>1. Init => TypeInv /\ RunInv
  BY InitTy, InitRun DEF Init
<1>2. (TypeInv /\ RunInv) /\ [Next]_vars => (TypeInv /\ RunInv)'
  BY StepKeeps
<1>3. QED
  BY <1>1, <1>2, PTL DEF Spec

(***************************************************************************)
(* sched_lock is taken by the shell, or left free, or left as it is.       *)
(***************************************************************************)
LEMMA StepsLock ==
  ASSUME [Next]_vars
  PROVE  sched_lock' \in {sched_lock, NoTask, shell}
<1> USE DEF lockVars
<1>1. CASE UNCHANGED vars
  BY <1>1 DEF vars
<1>2. ASSUME NEW c \in Cores, Tick(c) PROVE UNCHANGED sched_lock
  BY <1>2 DEF Tick, tick, tick_skip, tick_parked, tick_convert, tick_secondary, switch_context
<1>3. ASSUME NEW c \in Cores, Kernel(c) PROVE sched_lock' \in {sched_lock, NoTask, shell}
  BY <1>3 DEF Kernel, Locked, rotate, switch_context, wait_current, wait_event_current,
       futex_seat, wake_event_waiters, request_kill, exit_current, exec_create,
       register_exec_user, exec_bind, publish_task, convert_kill, convert_deferred,
       exit_zombie, exit_registry, wake_waiters, exit_open, claim_and_stage, exit_unwind,
       eret, reap_pages, sched_lock_acquire, lock_won
<1>4. ASSUME NEW c \in Cores, User(c) PROVE sched_lock' \in {sched_lock, NoTask, shell}
  BY <1>4 DEF User, Locked, yield_current, switch_context, Return, handle_wait_event,
       futex_store, futex_wake, spawn_thread, exit_thread_current, pin_task, exec_file,
       sleep_current, futex_wait_current, handle_wait, events_push, handle_kill, handle_exit,
       Begin, lock_spin
<1>5. ASSUME NEW c \in Cores, reap(c) PROVE sched_lock' = NoTask
  BY <1>5 DEF reap, Locked
<1>6. QED
  BY <1>1, <1>2, <1>3, <1>4, <1>5 DEF Next

(***************************************************************************)
(* Every variable keeps its type (TypeOK): in particular no scan comes     *)
(* back without a slot, no current task is null, and no operand reaches a  *)
(* section that cannot use it.                                             *)
(***************************************************************************)
THEOREM TypeCorrect == Spec => []TypeOK
<1> DEFINE LockTy == sched_lock \in {NoTask, shell}
<1>1. TypeInv /\ LockTy => TypeOK
  BY DEF TypeInv, TypeOK, ProcTy, RunTy, PinTy, KillTy, TearTy, WaitTy, UserTy, CoreTy
<1>2. Init => LockTy
  BY DEF Init, Start
<1>3. LockTy /\ [Next]_vars => LockTy'
  BY StepsLock
<1>4. QED
  BY <1>1, <1>2, <1>3, RunInvariance, PTL DEF Spec

(***************************************************************************)
(* A ready task is on exactly one ring or in the hands of exactly one core *)
(* (RingsExact, check_ready_membership in scheduler.zig), through every    *)
(* block, wake, steal, preemption, kill conversion, exit and reap.         *)
(***************************************************************************)
THEOREM RingsKept == Spec => []RingsExact
<1>1. TypeInv /\ RunInv => RingsExact
  <2> SUFFICES ASSUME TypeInv, RunInv PROVE RingsExact
    OBVIOUS
  <2>1. ring \in [Cores -> SUBSET Tasks] /\ Members(state, ring, pin_core)
    BY DEF TypeInv, RunTy, RunInv, Held
  <2>2. \A c, d \in Cores : c # d => ring[c] \cap ring[d] = {}
    BY <2>1 DEF Members
  <2>3. \A c \in Cores : \A t \in ring[c] : state[t] = "ready" /\ (t = idle_id => c = 0)
    BY <2>1 DEF Members
  <2>4. \A t \in Tasks : state[t] = "ready" =>
          \E c \in Cores : t \in ring[c] \/ (current[c] = t /\ (t = idle_id => c = 0))
    BY DEF RunInv, Held, NoneLost, Owners, Owns
  <2>5. QED
    BY <2>2, <2>3, <2>4 DEF RingsExact
<1>2. QED
  BY <1>1, RunInvariance, PTL

(***************************************************************************)
(* No two cores run the same task, and none runs a task that waits on a    *)
(* ring (SingleOwner): the claim in merged_next and ring_claim is          *)
(* exclusive for any number of cores.                                      *)
(***************************************************************************)
THEOREM OwnersSingle == Spec => []SingleOwner
<1>1. RunInv => SingleOwner
  BY DEF RunInv, Held, Apart, Owners, SingleOwner
<1>2. QED
  BY <1>1, RunInvariance, PTL

(***************************************************************************)
(* A task pinned to a secondary core is never run by another, whoever      *)
(* steals, wakes or preempts it (PinRespected).                            *)
(***************************************************************************)
THEOREM PinsKept == Spec => []PinRespected
<1>1. RunInv => PinRespected
  BY DEF RunInv, Held, Apart, Owners, PinRespected
<1>2. QED
  BY <1>1, RunInvariance, PTL

(***************************************************************************)
(* What the steps do to the registry: one operation of it, or none.        *)
(***************************************************************************)
RegistryStep ==
  \/ UNCHANGED procVars
  \/ \E p : \/ \E recycled : create_as(p, recycled)
            \/ reap_process(p)
            \/ \E t : bind(p, t) \/ bind_thread(p, t)
            \/ \E status : request_process_exit(p, status)
  \/ \E p \in Procs : \E t, status : pstate[p] = "running" /\ on_task_exit(p, t, status)
  \/ \E t : release_pages_on_reap(t)

LEMMA StepsRegistry ==
  ASSUME [Next]_vars
  PROVE  RegistryStep
<1>1. CASE UNCHANGED vars
  BY <1>1 DEF vars, RegistryStep
<1>2. ASSUME NEW c \in Cores, Tick(c) PROVE RegistryStep
  <2>1. UNCHANGED procVars
    BY <1>2 DEF Tick, tick, tick_skip, tick_parked, tick_convert, tick_secondary, switch_context
  <2>2. QED
    BY <2>1 DEF RegistryStep
<1>3. ASSUME NEW c \in Cores, Kernel(c) PROVE RegistryStep
  <2>1. CASE \/ rotate(c) \/ wait_current(c) \/ wait_event_current(c) \/ futex_seat(c)
             \/ wake_event_waiters(c) \/ request_kill(c) \/ exit_current(c)
    <3>1. UNCHANGED procVars
      BY <2>1 DEF rotate, switch_context, wait_current, wait_event_current, futex_seat,
                  wake_event_waiters, request_kill, exit_current
    <3>2. QED
      BY <3>1 DEF RegistryStep
  <2>2. CASE exec_create(c)
    BY <2>2 DEF exec_create, RegistryStep
  <2>3. CASE register_exec_user(c)
    BY <2>3 DEF register_exec_user, RegistryStep
  <2>4. CASE exec_bind(c)
    BY <2>4 DEF exec_bind, RegistryStep
  <2>5. CASE exit_zombie(c)
    BY <2>5 DEF exit_zombie, RegistryStep
  <2>6. CASE exit_registry(c)
    BY <2>6, Found DEF exit_registry, RegistryStep
  <2>7. CASE reap_pages(c)
    BY <2>7 DEF reap_pages, RegistryStep
  <2>8. CASE \/ publish_task(c) \/ convert_kill(c) \/ convert_deferred(c) \/ wake_waiters(c)
             \/ exit_open(c) \/ claim_and_stage(c) \/ exit_unwind(c) \/ eret(c)
             \/ sched_lock_acquire(c) \/ lock_won(c)
    <3>1. UNCHANGED procVars
      BY <2>8 DEF publish_task, convert_kill, convert_deferred, wake_waiters, exit_open,
                  claim_and_stage, exit_unwind, eret, sched_lock_acquire, lock_won
    <3>2. QED
      BY <3>1 DEF RegistryStep
  <2>9. QED
    BY <1>3, <2>1, <2>2, <2>3, <2>4, <2>5, <2>6, <2>7, <2>8 DEF Kernel
<1>4. ASSUME NEW c \in Cores, User(c) PROVE RegistryStep
  <2>1. CASE spawn_thread(c)
    BY <2>1 DEF spawn_thread, RegistryStep
  <2>2. CASE \/ yield_current(c) \/ Return(c) \/ handle_wait_event(c) \/ futex_store(c)
             \/ futex_wake(c) \/ exit_thread_current(c) \/ pin_task(c) \/ exec_file(c)
             \/ lock_spin(c)
             \/ \E ticks \in 1 .. MaxTicks : sleep_current(c, ticks)
             \/ \E ticks \in 1 .. Never : futex_wait_current(c, ticks)
             \/ \E p \in Procs : handle_wait(c, p) \/ events_push(c, p) \/ handle_kill(c, p)
             \/ \E status \in ExitCodes : handle_exit(c, status)
    <3>1. UNCHANGED procVars
      BY <2>2 DEF yield_current, switch_context, Return, handle_wait_event, futex_store, futex_wake,
                  exit_thread_current, pin_task, exec_file, sleep_current, futex_wait_current,
                  handle_wait, events_push, handle_kill, handle_exit, Begin, lock_spin
    <3>2. QED
      BY <3>1 DEF RegistryStep
  <2>3. QED
    BY <1>4, <2>1, <2>2 DEF User
<1>5. ASSUME NEW c \in Cores, reap(c) PROVE RegistryStep
  BY <1>5 DEF reap, RegistryStep
<1>6. QED
  BY <1>1, <1>2, <1>3, <1>4, <1>5 DEF Next

(***************************************************************************)
(* The first exit request fixes the status a process ends with, and the    *)
(* status of an exited process never changes (FirstRequestWins), whatever  *)
(* order its tasks exit, are killed and are reaped in.                     *)
(***************************************************************************)
THEOREM FirstRequestKept == Spec => FirstRequestWins
<1> DEFINE Wins ==
      \A p \in Procs :
        /\ exit_requested[p] /\ exit_requested'[p] => snapshot'[p] = snapshot[p]
        /\ exit_requested[p] /\ pstate[p] = "running" /\ pstate'[p] = "exited"
             => exit_status'[p] = snapshot[p]
        /\ pstate[p] = "exited" /\ pstate'[p] = "exited" => exit_status'[p] = exit_status[p]
<1>1. TypeInv /\ [Next]_vars => Wins
  <2> SUFFICES ASSUME TypeInv, [Next]_vars, NEW q \in Procs
               PROVE  /\ exit_requested[q] /\ exit_requested'[q] => snapshot'[q] = snapshot[q]
                      /\ exit_requested[q] /\ pstate[q] = "running" /\ pstate'[q] = "exited"
                           => exit_status'[q] = snapshot[q]
                      /\ pstate[q] = "exited" /\ pstate'[q] = "exited"
                           => exit_status'[q] = exit_status[q]
    OBVIOUS
  <2>1. ProcessTypeOK
    BY DEF TypeInv, ProcTy
  <2>2. RegistryStep
    BY StepsRegistry
  <2>3. CASE UNCHANGED procVars
    BY <2>3 DEF procVars
  <2>4. ASSUME NEW p, NEW recycled, create_as(p, recycled) PROVE Wins
    BY <2>1, <2>4 DEF create_as, reset_process, ProcessTypeOK
  <2>5. ASSUME NEW p, reap_process(p) PROVE Wins
    BY <2>1, <2>5 DEF reap_process, reset_process, ProcessTypeOK
  <2>6. ASSUME NEW p, NEW t, bind(p, t) \/ bind_thread(p, t) PROVE Wins
    BY <2>1, <2>6 DEF bind, bind_thread, ProcessTypeOK
  <2>7. ASSUME NEW p, NEW status, request_process_exit(p, status) PROVE Wins
    BY <2>1, <2>7 DEF request_process_exit, ProcessTypeOK
  <2>8. ASSUME NEW p \in Procs, NEW t, NEW status, pstate[p] = "running", on_task_exit(p, t, status)
        PROVE  Wins
    BY <2>1, <2>8 DEF on_task_exit, FinalStatus, ProcessTypeOK
  <2>9. ASSUME NEW t, release_pages_on_reap(t) PROVE Wins
    BY <2>9 DEF release_pages_on_reap
  <2>10. Wins
    BY <2>2, <2>3, <2>4, <2>5, <2>6, <2>7, <2>8, <2>9 DEF RegistryStep, procVars
  <2>11. QED
    BY <2>10
<1>2. QED
  BY <1>1, RunInvariance, PTL DEF Spec, FirstRequestWins
=============================================================================
