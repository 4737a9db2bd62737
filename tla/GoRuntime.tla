----------------------------- MODULE GoRuntime ------------------------------
(***************************************************************************)
(* Where the Go runtime of GOOS=virelai parks and wakes: the semaphore of  *)
(* an M over the kernel's futex (tools/go/overlay/runtime/os_virelai.go),  *)
(* the network poller (netpoll_virelai.go), and the poller's bookkeeping   *)
(* core that is tested on the host (tools/netpollsm/sm.go).  They share no *)
(* state: `sema`, `net` and `poller`.                                      *)
(***************************************************************************)
EXTENDS Integers, FiniteSets

CONSTANTS Wakers,       \* Ms that may call semawakeup
          Fds,          \* descriptors
          MaxEntries,   \* virPollMaxEntries
          MaxBreaks,    \* bound on netpollBreak calls
          MaxWaits,     \* bound on the waiter and wake counts
          WakesEach     \* bound on the wakeups one M gives

ASSUME FdsFinite == IsFiniteSet(Fds)

ASSUME WakesBounded == WakesEach \in Nat

VARIABLES sema, net, poller
-----------------------------------------------------------------------------
(* semasleep and semawakeup. `pc` is the sleeping M's place, `v` the count it  *)
(* read; a waker is between its increment and its futex wake at "wake".     *)

semaInit ==
  sema = [count |-> 0, pc |-> "idle", v |-> 0, ns |-> 0, got |-> 0, gave |-> 0,
          w |-> [m \in Wakers |-> "idle"], left |-> [m \in Wakers |-> WakesEach]]

Sema(s) == sema' = s

\* ns < 0 waits for ever, 0 does not block.
semasleep ==
  /\ sema.pc = "idle"
  /\ \E ns \in {-1, 0, 1} : Sema([sema EXCEPT !.pc = "load", !.ns = ns])

semaLoad ==
  /\ sema.pc = "load"
  /\ Sema([sema EXCEPT !.v = sema.count,
             !.pc = IF sema.count > 0 THEN "cas"
                    ELSE IF sema.ns = 0 THEN "idle" ELSE "wait"])

semaCas ==
  /\ sema.pc = "cas"
  /\ Sema(IF sema.count = sema.v
          THEN [sema EXCEPT !.count = @ - 1, !.got = @ + 1, !.pc = "idle", !.v = 0]
          ELSE [sema EXCEPT !.pc = "load"])

\* Mutant: the kernel parks without looking at the word again.
futex_parks_blindly == sema.pc = "wait" /\ Sema([sema EXCEPT !.pc = "parked"])

\* The kernel compares the word with 0 and parks in one step, or answers EAGAIN.
virFutexWait ==
  /\ sema.pc = "wait"
  /\ Sema([sema EXCEPT !.pc = IF sema.count = 0 THEN "parked" ELSE "load"])

semaTimeout ==
  /\ sema.pc = "parked" /\ sema.ns > 0
  /\ Sema([sema EXCEPT !.pc = "idle"])

semawakeup(m) ==
  /\ sema.w[m] = "idle" /\ sema.left[m] > 0
  /\ Sema([sema EXCEPT !.w[m] = "wake", !.count = @ + 1, !.gave = @ + 1, !.left[m] = @ - 1])

virFutexWake(m) ==
  /\ sema.w[m] = "wake"
  /\ Sema([sema EXCEPT !.w[m] = "idle", !.pc = IF @ = "parked" THEN "load" ELSE @])

semaNext ==
  \/ semasleep \/ semaLoad \/ semaCas \/ virFutexWait \/ semaTimeout
  \/ \E m \in Wakers : semawakeup(m) \/ virFutexWake(m)

semaSpec == semaInit /\ [][semaNext]_sema
-----------------------------------------------------------------------------
(* netpoll.  One socket serves all descriptors; `pd` is the readiness word  *)
(* of each pollDesc (stock runtime), `g` the goroutine that uses it.  The   *)
(* poller M works on the entries it copied under the lock.                  *)

netInit ==
  net = [data |-> FALSE, broken |-> FALSE, breaks |-> 0, entries |-> {},
         pd |-> [f \in Fds |-> "nil"], g |-> [f \in Fds |-> "none"],
         m |-> "idle", ents |-> {}, mask |-> FALSE, delay |-> 0]

Net(n) == net' = n

netpollopen(f) ==
  /\ net.g[f] = "none"
  /\ \/ /\ Cardinality(net.entries) < MaxEntries
        /\ Net([net EXCEPT !.entries = @ \cup {f}, !.pd[f] = "nil", !.g[f] = "run"])
     \/ Cardinality(net.entries) = MaxEntries /\ UNCHANGED net   \* EAGAIN

\* The stock runtime unblocks the goroutine first.
netpollclose(f) ==
  /\ net.g[f] # "none"
  /\ Net([net EXCEPT !.entries = @ \ {f}, !.pd[f] = "nil", !.g[f] = "none"])

\* Stock: read, or wait for readiness; an old readiness is consumed.
goRead(f) ==
  /\ net.g[f] = "run"
  /\ Net(IF net.data THEN [net EXCEPT !.data = FALSE]
         ELSE IF net.pd[f] = "ready" THEN [net EXCEPT !.pd[f] = "nil"]
         ELSE [net EXCEPT !.pd[f] = "wait", !.g[f] = "parked"])

dataArrives == ~net.data /\ Net([net EXCEPT !.data = TRUE])

netpollBreak ==
  /\ net.breaks < MaxBreaks
  /\ Net([net EXCEPT !.broken = TRUE, !.breaks = @ + 1])

\* Mutant: the break flag is read but not consumed.
break_sticks ==
  /\ net.m = "idle"
  /\ Net([net EXCEPT !.ents = net.entries,
                     !.m = IF net.broken \/ net.entries = {} THEN "idle" ELSE "probe"])

\* Copies the table and takes the break flag under the lock.
netpollSnapshot ==
  /\ net.m = "idle"
  /\ \E delay \in {-1, 0} :
       Net([net EXCEPT !.ents = net.entries, !.broken = FALSE, !.delay = delay,
                       !.m = IF net.broken \/ net.entries = {} THEN "idle" ELSE "probe"])

netpollProbe ==
  /\ net.m = "probe"
  /\ Net([net EXCEPT !.mask = net.data,
                     !.m = IF ~net.data /\ net.delay # 0 THEN "sleep" ELSE "deliver"])

\* The bounded usleep, then the second probe.
netpollReprobe ==
  /\ net.m = "sleep"
  /\ Net([net EXCEPT !.mask = net.data, !.m = "deliver"])

\* netpollready on the copied entries, outside the lock: the descriptor may
\* have been closed, and opened by another goroutine, in between.
netpollDeliver ==
  /\ net.m = "deliver"
  /\ Net([net EXCEPT
       !.m = "idle", !.mask = FALSE, !.ents = {}, !.delay = 0,
       !.pd = [f \in Fds |-> IF net.mask /\ f \in net.ents
                             THEN IF @[f] = "wait" THEN "nil" ELSE "ready" ELSE @[f]],
       !.g = [f \in Fds |-> IF net.mask /\ f \in net.ents /\ @[f] = "parked"
                            THEN "run" ELSE @[f]]])

pollerM == netpollSnapshot \/ netpollProbe \/ netpollReprobe \/ netpollDeliver

netNext ==
  \/ pollerM \/ dataArrives \/ netpollBreak
  \/ \E f \in Fds : netpollopen(f) \/ netpollclose(f) \/ goRead(f)
-----------------------------------------------------------------------------
(* netpollsm.Poller; `asleep` are the goroutines the runtime has parked on   *)
(* its word, one per descriptor.                                             *)

pollerInit ==
  poller = [descs |-> {}, state |-> [f \in Fds |-> "nil"], waiters |-> 0,
            wakes |-> 0, broken |-> FALSE, closed |-> FALSE, asleep |-> {}]

Poller(p) == poller' = p

smOpen(f) ==
  /\ ~poller.closed /\ f \notin poller.descs
  /\ Poller([poller EXCEPT !.descs = @ \cup {f}, !.state[f] = "nil"])

\* Mutant: the parked goroutine is not told.
close_silently(f) ==
  /\ f \in poller.descs
  /\ Poller([poller EXCEPT !.descs = @ \ {f}, !.state[f] = "nil"])

smClose(f) ==
  /\ f \in poller.descs
  /\ poller.wakes < MaxWaits
  /\ Poller([poller EXCEPT !.descs = @ \ {f}, !.state[f] = "nil",
       !.wakes = IF poller.state[f] = "wait" THEN @ + 1 ELSE @,
       !.asleep = @ \ {f}])

smWait(f) ==
  /\ ~poller.closed /\ f \in poller.descs
  /\ poller.waiters < MaxWaits
  /\ Poller(CASE poller.state[f] = "ready" -> [poller EXCEPT !.state[f] = "nil"]
              [] poller.state[f] = "wait" -> poller
              [] OTHER -> [poller EXCEPT !.state[f] = "wait", !.waiters = @ + 1,
                                         !.asleep = @ \cup {f}])

smReady(f) ==
  /\ f \in poller.descs /\ poller.state[f] = "wait"
  /\ poller.wakes < MaxWaits
  /\ Poller([poller EXCEPT !.state[f] = "ready", !.wakes = @ + 1, !.asleep = @ \ {f}])

Drain ==
  LET out == {f \in poller.descs : poller.state[f] = "ready"}
      n == poller.waiters - Cardinality(out)
  IN  Poller([poller EXCEPT
        !.state = [f \in Fds |-> IF f \in out THEN "nil" ELSE @[f]],
        !.waiters = IF n < 0 THEN 0 ELSE n])

smBreak == Poller([poller EXCEPT !.broken = ~@])

Shutdown == ~poller.closed /\ Poller([poller EXCEPT !.closed = TRUE, !.descs = {}])

pollerNext ==
  \/ \E f \in Fds : smOpen(f) \/ smClose(f) \/ smWait(f) \/ smReady(f)
  \/ Drain \/ smBreak \/ Shutdown

pollerSpec == pollerInit /\ [][pollerNext]_poller
-----------------------------------------------------------------------------
\* No wakeup is lost between reading the count and parking on it: an M that
\* sleeps in the futex while the count is positive is about to be woken, and
\* every wakeup given is either taken or still in the count
\* (os_virelai.go semasleep, semawakeup).
NoLostWakeup ==
  /\ sema.pc = "parked" /\ sema.count > 0 => \E m \in Wakers : sema.w[m] = "wake"
  /\ sema.gave = sema.got + sema.count

\* Until the poller is shut down a goroutine never sleeps on a descriptor that
\* no readiness and no close can reach, and the waiter count the scheduler
\* blocks on is never below the goroutines asleep (sm.go I3 to I5).
SleepersReachable ==
  ~poller.closed =>
    /\ \A f \in poller.asleep : f \in poller.descs /\ poller.state[f] = "wait"
    /\ Cardinality(poller.asleep) <= poller.waiters

\* Again and again no goroutine is parked on a readable socket: a stop-the-world
\* break, a descriptor opened after the poller copied its table and a missed
\* probe only delay the wakeup (netpoll_virelai.go, the park/wake contract).
PollWakes == []<>(\A f \in Fds : ~(net.g[f] = "parked" /\ net.data))

\* Whoever sleeps in the port can be reached: no semaphore wakeup is lost, and no
\* goroutine sleeps on a descriptor that nothing can make ready
\* (os_virelai.go semasleep and semawakeup, netpollsm/sm.go).
WakeupsArrive == NoLostWakeup /\ SleepersReachable
=============================================================================
