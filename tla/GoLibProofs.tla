----------------------------- MODULE GoLibProofs -----------------------------
(***************************************************************************)
(* Proofs about what every Go program stands on: the two places where the  *)
(* port of the runtime parks, for any number of wakers and any finite set  *)
(* of descriptors; its file surface, for any contents, any shadow and      *)
(* window sizes; and WM_RPC, for any number of goroutines, any ring size   *)
(* and any number of calls within one turn of the sequence counter.        *)
(*                                                                         *)
(* That no wakeup is lost is inductive once the record is typed, because   *)
(* the kernel compares the word and parks in one step.  That the waiter    *)
(* count bounds the goroutines asleep is not: Drain subtracts the ready    *)
(* descriptors from it, so the count has to cover those as well, and a     *)
(* goroutine is asleep exactly while its descriptor's word says so.        *)
(*                                                                         *)
(* A handle is a file with a position, and a directory that reads to a     *)
(* clean end was delivered whole.  What the refinement rests on: the       *)
(* shadow of a reader is a prefix of the device file no longer than the    *)
(* kernel cursor, and the cursor stands inside the file; before its flush  *)
(* a writer has pushed nothing; after it the cursor is the end of the      *)
(* device file, of which the shadow is still a prefix.                     *)
(*                                                                         *)
(* That a caller is handed the answer to its own call is not inductive:    *)
(* the caller compares sequence numbers only.  The proof follows a call    *)
(* through the rings: no two calls in flight share a sequence number, a    *)
(* frame on its way carries the number its caller waits for, the seat      *)
(* answers each call at most once, and what waits in the inbox is what the *)
(* seat said.                                                              *)
(***************************************************************************)
EXTENDS GoRuntime, FileShadow, WmRpc, FiniteSetTheorems, SequenceTheorems, TLAPS

(* Parking. *)

SemaType ==
  sema \in [count : Int, pc : {"idle", "load", "cas", "wait", "parked"}, v : Int,
            ns : {-1, 0, 1}, got : Int, gave : Int,
            w : [Wakers -> {"idle", "wake"}], left : [Wakers -> Int]]

SemaInv == SemaType /\ NoLostWakeup

(***************************************************************************)
(* Every step of semasleep, semawakeup and the futex keeps the wakeups     *)
(* accounted for.                                                          *)
(***************************************************************************)
LEMMA SemaStep == SemaInv /\ [semaNext]_sema => SemaInv'
  <1> SUFFICES ASSUME SemaInv, [semaNext]_sema PROVE SemaInv'
    OBVIOUS
  <1> USE DEF SemaInv, SemaType, NoLostWakeup, Sema
  <1>1. CASE semasleep
    BY <1>1 DEF semasleep
  <1>2. CASE semaLoad
    BY <1>2 DEF semaLoad
  <1>3. CASE semaCas
    <2>1. SemaType'
      <3>1. sema.count - 1 \in Int /\ sema.got + 1 \in Int
        OBVIOUS
      <3>2. CASE sema.count = sema.v
        <4>1. sema' = [count |-> sema.count - 1, pc |-> "idle", v |-> 0, ns |-> sema.ns,
                       got |-> sema.got + 1, gave |-> sema.gave, w |-> sema.w, left |-> sema.left]
          BY <1>3, <3>2 DEF semaCas
        <4>2. QED
          BY <3>1, <4>1
      <3>3. CASE sema.count # sema.v
        BY <1>3, <3>3 DEF semaCas
      <3>4. QED
        BY <3>2, <3>3
    <2>2. sema'.pc # "parked"
      BY <1>3 DEF semaCas
    <2>3. sema'.gave = sema'.got + sema'.count
      BY <1>3 DEF semaCas
    <2>4. QED
      BY <2>1, <2>2, <2>3
  <1>4. CASE virFutexWait
    BY <1>4 DEF virFutexWait
  <1>5. CASE semaTimeout
    BY <1>5 DEF semaTimeout
  <1>6. ASSUME NEW m \in Wakers, semawakeup(m) PROVE SemaInv'
    <2>1. SemaType'
      <3>1. sema.count + 1 \in Int /\ sema.gave + 1 \in Int /\ sema.left[m] - 1 \in Int
        OBVIOUS
      <3>2. sema' = [sema EXCEPT !.w = [@ EXCEPT ![m] = "wake"], !.count = sema.count + 1,
                       !.gave = sema.gave + 1, !.left = [@ EXCEPT ![m] = sema.left[m] - 1]]
        BY <1>6 DEF semawakeup
      <3>3. QED
        BY <3>1, <3>2
    <2>2. sema'.w[m] = "wake"
      BY <1>6 DEF semawakeup
    <2>3. sema'.gave = sema'.got + sema'.count
      BY <1>6 DEF semawakeup
    <2>4. QED
      BY <2>1, <2>2, <2>3
  <1>7. ASSUME NEW m \in Wakers, virFutexWake(m) PROVE SemaInv'
    <2>1. SemaType'
      BY <1>7 DEF virFutexWake
    <2>2. sema'.pc # "parked"
      BY <1>7 DEF virFutexWake
    <2>3. sema'.gave = sema'.got + sema'.count
      BY <1>7 DEF virFutexWake
    <2>4. QED
      BY <2>1, <2>2, <2>3
  <1>8. CASE UNCHANGED sema
    BY <1>8
  <1>9. QED
    BY <1>1, <1>2, <1>3, <1>4, <1>5, <1>6, <1>7, <1>8 DEF semaNext

Waiting == {f \in Fds : poller.state[f] = "wait"}
Engaged == {f \in Fds : poller.state[f] # "nil"}

PollerType ==
  poller \in [descs : SUBSET Fds, state : [Fds -> {"nil", "wait", "ready"}], waiters : Nat,
              wakes : Int, broken : BOOLEAN, closed : BOOLEAN, asleep : SUBSET Fds]

PollerCounts ==
  ~poller.closed =>
    /\ Engaged \subseteq poller.descs
    /\ poller.asleep = Waiting
    /\ Cardinality(Engaged) <= poller.waiters

PollerInv == PollerType /\ PollerCounts

(***************************************************************************)
(* Sets of descriptors are finite, so their sizes are numbers.             *)
(***************************************************************************)
LEMMA FdSets == ASSUME NEW S \in SUBSET Fds PROVE IsFiniteSet(S) /\ Cardinality(S) \in Nat
  BY FdsFinite, FS_Subset, FS_CardinalityType

(***************************************************************************)
(* The strengthened invariant of netpollsm.Poller gives the one that says  *)
(* every sleeper can be reached (sm.go I3 to I5).                          *)
(***************************************************************************)
LEMMA PollerReach == PollerInv => SleepersReachable
  <1> SUFFICES ASSUME PollerInv, ~poller.closed PROVE SleepersReachable
    BY DEF SleepersReachable
  <1>1. Waiting \subseteq Engaged /\ Engaged \in SUBSET Fds
    BY DEF Waiting, Engaged
  <1>2. Cardinality(Waiting) <= Cardinality(Engaged)
    BY <1>1, FdSets, FS_Subset
  <1>3. Cardinality(Waiting) \in Nat /\ Cardinality(Engaged) \in Nat
    BY <1>1, FdSets
  <1>4. Cardinality(poller.asleep) <= poller.waiters
    BY <1>2, <1>3 DEF PollerInv, PollerType, PollerCounts
  <1>5. QED
    BY <1>1, <1>4 DEF SleepersReachable, PollerInv, PollerCounts, Waiting

(***************************************************************************)
(* Opening, closing, waiting, readiness, draining and shutting down each   *)
(* keep the waiter count above the descriptors that are engaged.           *)
(***************************************************************************)
LEMMA PollerStep == PollerInv /\ [pollerNext]_poller => PollerInv'
  <1> SUFFICES ASSUME PollerInv, [pollerNext]_poller PROVE PollerInv'
    OBVIOUS
  <1> USE DEF PollerInv, Poller
  <1>0. /\ IsFiniteSet(Engaged) /\ Cardinality(Engaged) \in Nat
        /\ IsFiniteSet(Engaged') /\ Cardinality(Engaged') \in Nat
    BY FdSets DEF Engaged
  <1>1. ASSUME NEW f \in Fds, smOpen(f) PROVE PollerInv'
    <2>1. PollerType'
      BY <1>1 DEF smOpen, PollerType
    <2>2. Engaged' = Engaged /\ Waiting' = Waiting
      BY <1>1 DEF smOpen, PollerType, PollerCounts, Engaged, Waiting
    <2>3. QED
      BY <1>1, <2>1, <2>2 DEF smOpen, PollerType, PollerCounts
  <1>2. ASSUME NEW f \in Fds, smClose(f) PROVE PollerInv'
    <2>1. PollerType'
      <3> DEFINE wakes == IF poller.state[f] = "wait" THEN poller.wakes + 1 ELSE poller.wakes
      <3>1. wakes \in Int
        BY DEF PollerType
      <3>2. poller' = [poller EXCEPT !.descs = @ \ {f}, !.state = [@ EXCEPT ![f] = "nil"],
                         !.wakes = wakes, !.asleep = @ \ {f}]
        BY <1>2 DEF smClose, PollerType
      <3> HIDE DEF wakes
      <3>3. QED
        BY <3>1, <3>2 DEF PollerType
    <2>2. Engaged' = Engaged \ {f} /\ Waiting' = Waiting \ {f}
      BY <1>2 DEF smClose, PollerType, Engaged, Waiting
    <2>3. Cardinality(Engaged') <= Cardinality(Engaged)
      BY <1>0, <2>2, FS_Subset
    <2>4. poller'.waiters = poller.waiters /\ poller'.closed = poller.closed
      BY <1>2 DEF smClose, PollerType
    <2>5. poller'.descs = poller.descs \ {f} /\ poller'.asleep = poller.asleep \ {f}
      BY <1>2 DEF smClose, PollerType
    <2>6. poller.waiters \in Nat
      BY DEF PollerType
    <2>7. QED
      BY <1>0, <2>1, <2>2, <2>3, <2>4, <2>5, <2>6 DEF PollerCounts
  <1>3. ASSUME NEW f \in Fds, smWait(f) PROVE PollerInv'
    <2>1. CASE poller.state[f] = "ready"
      <3>1. PollerType'
        BY <1>3, <2>1 DEF smWait, PollerType
      <3>2. Engaged' = Engaged \ {f} /\ Waiting' = Waiting
        BY <1>3, <2>1 DEF smWait, PollerType, Engaged, Waiting
      <3>3. Cardinality(Engaged') <= Cardinality(Engaged)
        BY <1>0, <3>2, FS_Subset
      <3>4. /\ poller'.waiters = poller.waiters /\ poller'.closed = poller.closed
            /\ poller'.descs = poller.descs /\ poller'.asleep = poller.asleep
        BY <1>3, <2>1 DEF smWait, PollerType
      <3>5. poller.waiters \in Nat
        BY DEF PollerType
      <3>6. QED
        BY <1>0, <3>1, <3>2, <3>3, <3>4, <3>5 DEF PollerCounts
    <2>2. CASE poller.state[f] = "wait"
      <3>1. poller' = poller
        BY <1>3, <2>2 DEF smWait
      <3>2. QED
        BY <3>1 DEF PollerType, PollerCounts, Engaged, Waiting
    <2>3. CASE poller.state[f] = "nil"
      <3>1. poller' = [poller EXCEPT !.state[f] = "wait", !.waiters = @ + 1, !.asleep = @ \cup {f}]
        BY <1>3, <2>3 DEF smWait
      <3>2. PollerType'
        <4>1. poller.waiters + 1 \in Nat
          BY DEF PollerType
        <4>2. poller' = [poller EXCEPT !.state = [@ EXCEPT ![f] = "wait"],
                           !.waiters = poller.waiters + 1, !.asleep = @ \cup {f}]
          BY <3>1 DEF PollerType
        <4>3. QED
          BY <4>1, <4>2 DEF PollerType
      <3>3. Engaged' = Engaged \cup {f} /\ Waiting' = Waiting \cup {f}
        BY <3>1 DEF PollerType, Engaged, Waiting
      <3>4. Cardinality(Engaged') <= Cardinality(Engaged) + 1
        BY <1>0, <3>3, FS_AddElement
      <3>5. /\ poller'.waiters = poller.waiters + 1 /\ poller'.closed = poller.closed
            /\ poller'.descs = poller.descs /\ poller'.asleep = poller.asleep \cup {f}
        BY <3>1 DEF PollerType
      <3>6. poller.waiters \in Nat /\ f \in poller.descs
        BY <1>3 DEF PollerType, smWait
      <3>7. QED
        BY <1>0, <3>2, <3>3, <3>4, <3>5, <3>6 DEF PollerCounts
    <2>4. QED
      BY <2>1, <2>2, <2>3 DEF PollerType
  <1>4. ASSUME NEW f \in Fds, smReady(f) PROVE PollerInv'
    <2>1. PollerType'
      <3>1. poller.wakes + 1 \in Int
        BY DEF PollerType
      <3>2. poller' = [poller EXCEPT !.state = [@ EXCEPT ![f] = "ready"],
                         !.wakes = poller.wakes + 1, !.asleep = @ \ {f}]
        BY <1>4 DEF smReady, PollerType
      <3>3. QED
        BY <3>1, <3>2 DEF PollerType
    <2>2. Engaged' = Engaged /\ Waiting' = Waiting \ {f}
      BY <1>4 DEF smReady, PollerType, Engaged, Waiting
    <2>3. /\ poller'.waiters = poller.waiters /\ poller'.closed = poller.closed
          /\ poller'.descs = poller.descs /\ poller'.asleep = poller.asleep \ {f}
      BY <1>4 DEF smReady, PollerType
    <2>4. QED
      BY <2>1, <2>2, <2>3 DEF PollerCounts
  <1>5. CASE Drain
    <2> DEFINE out == {f \in poller.descs : poller.state[f] = "ready"}
               n == poller.waiters - Cardinality(out)
    <2>1. out \in SUBSET Fds /\ IsFiniteSet(out) /\ Cardinality(out) \in Nat
      BY FdSets DEF PollerType
    <2>2. poller.waiters \in Nat /\ n \in Int
      BY <2>1 DEF PollerType
    <2>3. poller' = [poller EXCEPT
                       !.state = [f \in Fds |-> IF f \in out THEN "nil" ELSE @[f]],
                       !.waiters = IF n < 0 THEN 0 ELSE n]
      BY <1>5 DEF Drain
    <2> HIDE DEF n
    <2>4. PollerType'
      <3>1. (IF n < 0 THEN 0 ELSE n) \in Nat
        BY <2>2
      <3>2. [f \in Fds |-> IF f \in out THEN "nil" ELSE poller.state[f]]
              \in [Fds -> {"nil", "wait", "ready"}]
        BY DEF PollerType
      <3>3. QED
        BY <2>3, <3>1, <3>2 DEF PollerType
    <2>5. Engaged' = Engaged \ out /\ Waiting' = Waiting
      BY <2>1, <2>3 DEF PollerType, Engaged, Waiting
    <2>6. /\ poller'.waiters = IF n < 0 THEN 0 ELSE n
          /\ poller'.closed = poller.closed /\ poller'.descs = poller.descs
          /\ poller'.asleep = poller.asleep
      BY <2>3 DEF PollerType
    <2>7. Engaged \cap out = out
      BY <2>1 DEF Engaged
    <2>8. Cardinality(Engaged') = Cardinality(Engaged) - Cardinality(out)
      <3>1. Cardinality(Engaged \ out) = Cardinality(Engaged) - Cardinality(Engaged \cap out)
        BY <1>0, FS_Difference
      <3>2. QED
        BY <2>5, <2>7, <3>1
    <2>9. Cardinality(Engaged) <= poller.waiters => Cardinality(Engaged') <= poller'.waiters
      BY <1>0, <2>1, <2>2, <2>6, <2>8 DEF n
    <2>10. QED
      BY <2>4, <2>5, <2>6, <2>9 DEF PollerCounts
  <1>6. CASE smBreak
    BY <1>6 DEF smBreak, PollerType, PollerCounts, Engaged, Waiting
  <1>7. CASE Shutdown
    BY <1>7 DEF Shutdown, PollerType, PollerCounts
  <1>8. CASE UNCHANGED poller
    BY <1>8 DEF PollerType, PollerCounts, Engaged, Waiting
  <1>9. QED
    BY <1>1, <1>2, <1>3, <1>4, <1>5, <1>6, <1>7, <1>8 DEF pollerNext

(***************************************************************************)
(* Before anybody sleeps nothing is owed to anybody.                       *)
(***************************************************************************)
LEMMA RuntimeInit == (semaInit => SemaInv) /\ (pollerInit => PollerInv)
  <1>1. semaInit => SemaInv
    BY WakesBounded DEF semaInit, SemaInv, SemaType, NoLostWakeup
  <1>2. ASSUME pollerInit PROVE PollerInv
    <2>1. Engaged = {} /\ Waiting = {}
      BY <1>2 DEF pollerInit, Engaged, Waiting
    <2>2. PollerType
      BY <1>2 DEF pollerInit, PollerType
    <2>3. QED
      BY <1>2, <2>1, <2>2, FS_EmptySet DEF pollerInit, PollerInv, PollerCounts
  <1>3. QED
    BY <1>1, <1>2

(***************************************************************************)
(* No semaphore wakeup of an M is lost between semaLoad and the futex, and *)
(* until the poller is shut down every goroutine asleep in it has an open  *)
(* descriptor whose readiness wakes it, and is counted (os_virelai.go,     *)
(* netpollsm/sm.go): for any number of wakers, wakeups and descriptors.    *)
(***************************************************************************)
THEOREM RuntimeWakeups == semaSpec /\ pollerSpec => []WakeupsArrive
  <1>1. semaSpec => []SemaInv
    BY RuntimeInit, SemaStep, PTL DEF semaSpec
  <1>2. pollerSpec => []PollerInv
    BY RuntimeInit, PollerStep, PTL DEF pollerSpec
  <1>3. SemaInv /\ PollerInv => WakeupsArrive
    BY PollerReach DEF SemaInv, WakeupsArrive
  <1>4. QED
    BY <1>1, <1>2, <1>3, PTL

-----------------------------------------------------------------------------
(* The file surface. *)

Modes == {"none", "d", "r", "w", "rw"}

HandleRec ==
  [mode : Modes, before : Seq(Nat), shadow : Seq(Nat), cursor : Nat, pos : Nat, flushed : BOOLEAN,
   dev : Seq(Nat), broken : BOOLEAN, rows : Nat, sat : BOOLEAN, entries : Nat,
   still : BOOLEAN, out : Seq(Int)]

Prefix(s, t) == Len(s) <= Len(t) /\ \A i \in 1 .. Len(s) : s[i] = t[i]

(***************************************************************************)
(* What holds of a handle h, by its mode.                                  *)
(***************************************************************************)
NoFile(h) ==
  h.mode \in {"none", "d"} =>
    /\ h.shadow = <<>> /\ h.pos = 0 /\ ~h.broken
    /\ h.mode = "d" => h.dev = <<>>

Reader(h) ==
  h.mode = "r" => /\ Prefix(h.shadow, h.dev) /\ ~h.broken
                  /\ Len(h.shadow) = Least(h.cursor, virShadowMax)
                  /\ h.cursor <= Len(h.dev)

Writer(h) ==
  virWrite(h) /\ ~h.broken =>
    IF h.flushed THEN h.cursor = Len(h.dev) /\ Prefix(h.shadow, h.dev)
    ELSE h.dev = <<>> /\ h.cursor = 0

HandleOK(h) == h \in HandleRec /\ NoFile(h) /\ Reader(h) /\ Writer(h)

(***************************************************************************)
(* A listing that has not met a full window has delivered fewer rows than  *)
(* a window holds, all of them rows of the directory.                      *)
(***************************************************************************)
DirInv(h) ==
  h.mode = "d" /\ h.still =>
    /\ h.rows <= h.entries
    /\ ~h.sat => h.rows < DirRowsMax
    /\ h.out = <<>> => h.rows = h.entries

FileInv == HandleOK(fh) /\ DirInv(fh)
-----------------------------------------------------------------------------
(***************************************************************************)
(* Sequences.                                                              *)
(***************************************************************************)

\* A slice has the bytes between its ends.
LEMMA SliceIs ==
  ASSUME NEW S, NEW s \in Seq(S), NEW a \in Nat, NEW b \in Nat, a <= b, b <= Len(s)
  PROVE  /\ SubSeq(s, a + 1, b) \in Seq(S) /\ Len(SubSeq(s, a + 1, b)) = b - a
         /\ \A i \in 1 .. (b - a) : SubSeq(s, a + 1, b)[i] = s[a + i]
<1>1. \A i \in (a + 1) .. b : s[i] \in S
  OBVIOUS
<1>2. a + 1 \in 1 .. (Len(s) + 1) /\ b \in a .. Len(s)
  OBVIOUS
<1> QED
  BY <1>1, <1>2

\* The first bytes of a sequence are a prefix of it.
LEMMA CutIs ==
  ASSUME NEW s \in Seq(Nat), NEW m \in Nat, m <= Len(s)
  PROVE  /\ SubSeq(s, 1, m) \in Seq(Nat) /\ Len(SubSeq(s, 1, m)) = m
         /\ Prefix(SubSeq(s, 1, m), s)
<1>1. /\ SubSeq(s, 0 + 1, m) \in Seq(Nat) /\ Len(SubSeq(s, 0 + 1, m)) = m - 0
      /\ \A i \in 1 .. (m - 0) : SubSeq(s, 0 + 1, m)[i] = s[0 + i]
  BY SliceIs
<1> QED
  BY <1>1 DEF Prefix

\* A cut at the end cuts nothing.
LEMMA CutWhole ==
  ASSUME NEW s \in Seq(Nat)
  PROVE  SubSeq(s, 1, Len(s)) = s
<1>1. Len(s) \in Nat /\ Len(s) <= Len(s)
  OBVIOUS
<1>2. /\ SubSeq(s, 1, Len(s)) \in Seq(Nat) /\ Len(SubSeq(s, 1, Len(s))) = Len(s)
      /\ Prefix(SubSeq(s, 1, Len(s)), s)
  BY <1>1, CutIs
<1>3. \A i \in 1 .. Len(s) : SubSeq(s, 1, Len(s))[i] = s[i]
  BY <1>2 DEF Prefix
<1> QED
  BY ONLY <1>2, <1>3, SeqEqual, s \in Seq(Nat)

\* A slice inside a prefix is the same slice of the whole.
LEMMA PrefixSlice ==
  ASSUME NEW s \in Seq(Nat), NEW t \in Seq(Nat), Prefix(s, t),
         NEW a \in Nat, NEW b \in Nat, a <= b, b <= Len(s)
  PROVE  SubSeq(s, a + 1, b) = SubSeq(t, a + 1, b)
<1>1. b <= Len(t)
  BY DEF Prefix
<1>2. \A i \in 1 .. (b - a) : s[a + i] = t[a + i]
  BY DEF Prefix
<1>3. /\ SubSeq(s, a + 1, b) \in Seq(Nat) /\ Len(SubSeq(s, a + 1, b)) = b - a
      /\ \A i \in 1 .. (b - a) : SubSeq(s, a + 1, b)[i] = s[a + i]
  BY SliceIs
<1>4. /\ SubSeq(t, a + 1, b) \in Seq(Nat) /\ Len(SubSeq(t, a + 1, b)) = b - a
      /\ \A i \in 1 .. (b - a) : SubSeq(t, a + 1, b)[i] = t[a + i]
  BY SliceIs, <1>1
<1> HIDE DEF Prefix
<1> QED
  BY ONLY <1>2, <1>3, <1>4, SeqEqual

\* Appending to the device file keeps its prefixes.
LEMMA AppendKeeps ==
  ASSUME NEW s \in Seq(Nat), NEW t \in Seq(Nat), NEW u \in Seq(Nat), Prefix(s, t)
  PROVE  /\ t \o u \in Seq(Nat) /\ Len(t \o u) = Len(t) + Len(u)
         /\ Prefix(s, t \o u)
<1>1. /\ t \o u \in Seq(Nat) /\ Len(t \o u) = Len(t) + Len(u)
      /\ \A i \in 1 .. Len(t) : (t \o u)[i] = t[i]
  BY ConcatProperties
<1> QED
  BY <1>1 DEF Prefix
-----------------------------------------------------------------------------
(***************************************************************************)
(* The helpers of the port.  Same(h, g): g stands for the file h stands    *)
(* for, on the same device file.                                           *)
(***************************************************************************)
Same(h, g) ==
  /\ g.mode = h.mode /\ g.flushed = h.flushed /\ g.dev = h.dev /\ g.broken = h.broken
  /\ g.before = h.before
  /\ h.mode # "r" => g.shadow = h.shadow

\* A refusal keeps the handle as it was.
LEMMA RefuseEffect ==
  ASSUME NEW h, HandleOK(h)
  PROVE  /\ HandleOK(fhRefuse(h)) /\ Same(h, fhRefuse(h))
         /\ fhRefuse(h).pos = h.pos /\ fhRefuse(h).out = NotServed
<1>1. NotServed \in Seq(Int)
  BY DEF NotServed
<1>2. fhRefuse(h) \in HandleRec
  BY <1>1 DEF HandleOK, HandleRec, fhRefuse
<1> QED
  BY <1>2 DEF HandleOK, HandleRec, fhRefuse, Same, NoFile, Reader, Writer, virWrite

Answered(h, q, b) == [h EXCEPT !.pos = q, !.out = b]

\* An answer keeps the handle as it was, but for the position it may move.
LEMMA AnswerEffect ==
  ASSUME NEW h, HandleOK(h), shadowed(h), NEW q \in Nat, NEW b \in Seq(Int),
         NEW g, g = Answered(h, q, b)
  PROVE  HandleOK(g) /\ Same(h, g) /\ g.pos = q /\ g.out = b
<1> USE DEF Answered
<1>1. g \in HandleRec
  BY DEF HandleOK, HandleRec
<1> QED
  BY <1>1 DEF HandleOK, HandleRec, Same, NoFile, Reader, Writer, virWrite, shadowed

\* Keeping bytes of a reader moves its cursor and leaves the shadow a prefix.
LEMMA KeepEffect ==
  ASSUME NEW h, HandleOK(h), h.mode = "r", NEW k \in Nat, h.cursor + k <= Len(h.dev)
  PROVE  LET g == virKeep(h, k)
         IN  HandleOK(g) /\ Same(h, g) /\ g.pos = h.pos /\ g.cursor = h.cursor + k
<1> DEFINE m == IF Len(h.shadow) < h.cursor THEN Len(h.shadow)
                ELSE Least(h.cursor + k, virShadowMax)
           g == virKeep(h, k)
<1>0. h \in HandleRec /\ Reader(h)
  BY DEF HandleOK
<1>1. /\ h.dev \in Seq(Nat) /\ h.shadow \in Seq(Nat) /\ h.cursor \in Nat
      /\ Len(h.shadow) = Least(h.cursor, virShadowMax) /\ h.cursor <= Len(h.dev) /\ ~h.broken
  BY <1>0 DEF HandleRec, Reader
<1>2. m \in Nat /\ m = Least(h.cursor + k, virShadowMax) /\ m <= Len(h.dev)
  BY <1>1, FileAssumption DEF Least
<1>3. g = [h EXCEPT !.shadow = SubSeq(h.dev, 1, m), !.cursor = h.cursor + k]
  BY <1>0 DEF virKeep, HandleRec
<1> DEFINE kept == SubSeq(h.dev, 1, m)
<1> HIDE DEF m, g
<1>4. kept \in Seq(Nat) /\ Len(kept) = m /\ Prefix(kept, h.dev)
  BY <1>1, <1>2, CutIs
<1> HIDE DEF kept
<1>5. /\ g \in HandleRec /\ g.mode = "r" /\ g.shadow = kept
      /\ g.cursor = h.cursor + k /\ g.dev = h.dev /\ g.pos = h.pos
      /\ g.flushed = h.flushed /\ g.broken = h.broken /\ g.before = h.before
  <2>1. g = [h EXCEPT !.shadow = kept, !.cursor = h.cursor + k]
    BY <1>3 DEF kept
  <2>2. h.cursor + k \in Nat
    BY <1>1
  <2> QED
    BY <1>0, <1>4, <2>1, <2>2 DEF HandleRec
<1>6. HandleOK(g)
  BY <1>1, <1>2, <1>4, <1>5 DEF HandleOK, NoFile, Reader, Writer, virWrite
<1> QED
  BY <1>5, <1>6 DEF Same, g

\* A pull moves the cursor of a reader only, to the target or to the end.
LEMMA PullEffect ==
  ASSUME NEW h, HandleOK(h), shadowed(h), NEW target \in Nat, h.cursor <= target,
         NEW p \in virPull(h, target)
  PROVE  /\ HandleOK(p.h) /\ Same(h, p.h) /\ p.h.pos = h.pos
         /\ h.mode # "r" => p.h = h
         /\ h.mode = "w" => ~p.ok
         /\ p.ok /\ h.mode = "r" => p.h.cursor = Least(target, Len(h.dev))
<1> DEFINE end == IF h.mode = "r" THEN Least(target, Len(h.dev)) ELSE h.cursor
           to(c) == IF c > h.cursor THEN virKeep(h, c - h.cursor) ELSE h
<1>0. h \in HandleRec /\ Reader(h)
  BY DEF HandleOK
<1>1. h.dev \in Seq(Nat) /\ h.cursor \in Nat /\ (h.mode = "r" => h.cursor <= Len(h.dev))
  BY <1>0 DEF HandleRec, Reader
<1>2. end \in Nat /\ h.cursor <= end /\ (h.mode = "r" => end <= Len(h.dev))
  BY <1>1 DEF Least
<1>3. PICK c \in h.cursor .. end :
        p.h = to(c) /\ (p.ok => c = end) /\ (h.mode = "w" => ~p.ok)
  <2>1. CASE p \in [ok : IF h.mode = "w" THEN {} ELSE {TRUE}, h : {to(end)}]
    <3> HIDE DEF end, to
    <3>1. p.h = to(end) /\ h.mode # "w"
      BY <2>1
    <3> QED
      BY <3>1, <1>1, <1>2
  <2>2. CASE p \in [ok : {FALSE}, h : {to(c) : c \in h.cursor .. end}]
    <3> HIDE DEF end, to
    <3> QED
      BY <2>2
  <2> QED
    BY <2>1, <2>2 DEF virPull
<1>4. CASE c > h.cursor
  <2>1. h.mode = "r"
    BY <1>4, <1>1, <1>2
  <2>2. c - h.cursor \in Nat /\ h.cursor + (c - h.cursor) = c /\ c <= Len(h.dev)
    BY <1>1, <1>2, <1>4, <2>1
  <2>3. p.h = virKeep(h, c - h.cursor)
    BY <1>3, <1>4
  <2> HIDE DEF end, to
  <2>4. HandleOK(p.h) /\ Same(h, p.h) /\ p.h.pos = h.pos /\ p.h.cursor = c
    BY <2>1, <2>2, <2>3, KeepEffect
  <2> QED
    BY <1>3, <2>1, <2>4 DEF end
<1>5. CASE ~(c > h.cursor)
  <2>1. p.h = h /\ c = h.cursor
    BY <1>1, <1>2, <1>3, <1>5
  <2> QED
    BY <1>3, <2>1 DEF Same
<1> QED
  BY <1>4, <1>5
-----------------------------------------------------------------------------
(***************************************************************************)
(* Reads.                                                                  *)
(***************************************************************************)

\* What PosRead asks of the step from h to g.
ReadStep(h, g) ==
  \E m \in 0 .. Len(fileBytes(h)) :
    /\ h.pos + m <= Len(fileBytes(h)) \/ m = 0
    /\ m = 0 => fileStatus(h) = "w" \/ h.pos >= Len(fileBytes(h))
    /\ g.out = SubSeq(fileBytes(h), h.pos + 1, h.pos + m) /\ g.pos = h.pos + m

\* The answer of a step: refused, or on a broken handle, or a read.
ReadAnswer(h, g) == (g.out = NotServed /\ g.pos = h.pos) \/ h.broken \/ ReadStep(h, g)

\* An empty slice, wherever it starts.
LEMMA NoSlice ==
  ASSUME NEW s \in Seq(Nat), NEW a \in Nat
  PROVE  SubSeq(s, a + 1, a + 0) = <<>>
OBVIOUS

\* The m bytes from a on that a read of n finds among the c retained ones.
SliceOf(s, a, c, n, m) ==
  LET b == SubSeq(s, a + 1, Least(a + Least(n, c - a), Len(s)))
  IN  /\ m > 0 /\ a + m <= c /\ b \in Seq(Nat) /\ Len(b) = m
      /\ b = SubSeq(s, a + 1, a + m)

\* A read out of the retained bytes is a slice of them.
LEMMA ShadowSlice ==
  ASSUME NEW s \in Seq(Nat), NEW a \in Nat, NEW c \in Nat, a < c, c <= Len(s),
         NEW n \in Nat, n > 0
  PROVE  \E m \in Nat : SliceOf(s, a, c, n, m)
<1>0. Least(n, c - a) \in Nat /\ Least(n, c - a) > 0 /\ a + Least(n, c - a) <= c
  BY DEF Least
<1>1. PICK m \in Nat : m > 0 /\ m = Least(n, c - a) /\ a + m <= c
  BY <1>0
<1>2. Least(a + m, Len(s)) = a + m
  BY <1>1 DEF Least
<1>3. SubSeq(s, a + 1, a + m) \in Seq(Nat) /\ Len(SubSeq(s, a + 1, a + m)) = (a + m) - a
  <2>1. a + m \in Nat /\ a <= a + m /\ a + m <= Len(s)
    BY <1>1
  <2> QED
    BY <2>1, SliceIs
<1>4. (a + m) - a = m
  OBVIOUS
<1>5. SliceOf(s, a, c, n, m)
  BY ONLY <1>1, <1>2, <1>3, <1>4 DEF SliceOf
<1> QED
  BY <1>5

\* A read out of the shadow returns the bytes of the file.
LEMMA ShadowRead ==
  ASSUME NEW h, HandleOK(h), shadowed(h), NEW n \in Nat, n > 0, h.pos < virRetained(h),
         NEW g \in readAt(h, n)
  PROVE  HandleOK(g) /\ Same(h, g) /\ ReadAnswer(h, g)
<1>1. /\ h.dev \in Seq(Nat) /\ h.shadow \in Seq(Nat) /\ h.cursor \in Nat /\ h.pos \in Nat
      /\ h.broken \in BOOLEAN
  BY DEF HandleOK, HandleRec
<1>0. virRetained(h) \in Nat /\ virRetained(h) <= Len(h.shadow) /\ virRetained(h) <= h.cursor
  BY <1>1 DEF virRetained, Least
<1>2. PICK m \in Nat : SliceOf(h.shadow, h.pos, virRetained(h), n, m)
  BY ONLY <1>0, <1>1, ShadowSlice, n \in Nat, n > 0, h.pos < virRetained(h)
<1> DEFINE b == fromShadow(h, h.pos, Least(n, virRetained(h) - h.pos))
<1>3. h.pos + m <= Len(h.shadow) /\ h.pos + m <= h.cursor /\ h.pos + m \in Nat /\ m > 0
  <2>1. h.pos + m <= virRetained(h) /\ m > 0
    BY ONLY <1>2 DEF SliceOf
  <2> QED
    BY ONLY <1>0, <1>1, <2>1
<1>4. g = Answered(h, h.pos + Len(b), b)
  BY DEF readAt, HandleOK, HandleRec, Answered
<1>5. b \in Seq(Nat) /\ Len(b) = m /\ b = SubSeq(h.shadow, h.pos + 1, h.pos + m)
  BY ONLY <1>2 DEF SliceOf, fromShadow
<1> HIDE DEF b
<1>6. b \in Seq(Int) /\ h.pos + m \in Nat
  BY <1>3, <1>5
<1>7. HandleOK(g) /\ Same(h, g) /\ g.pos = h.pos + m /\ g.out = b
  <2>1. g = Answered(h, h.pos + m, b)
    BY <1>4, <1>5
  <2> QED
    BY ONLY <1>6, <2>1, AnswerEffect, HandleOK(h), shadowed(h)
<1>8. ASSUME ~h.broken PROVE ReadStep(h, g)
  <2>1. fileBytes(h) = h.dev /\ Prefix(h.shadow, h.dev)
    <3>1. CASE h.mode = "r"
      BY <3>1 DEF HandleOK, Reader, fileBytes
    <3>2. CASE virWrite(h)
      <4>1. h.flushed
        <5>1. h.cursor # 0
          BY ONLY <1>1, <1>3
        <5> QED
          BY <1>8, <3>2, <5>1 DEF HandleOK, Writer
      <4> QED
        BY <1>8, <3>2, <4>1 DEF HandleOK, Writer, fileBytes
    <3> QED
      BY <3>1, <3>2 DEF shadowed
  <2>2. b = SubSeq(h.dev, h.pos + 1, h.pos + m)
    <3>1. h.pos <= h.pos + m
      BY <1>1
    <3>2. ASSUME NEW i \in Nat, NEW j \in Nat, i <= j, j <= Len(h.shadow)
          PROVE  SubSeq(h.shadow, i + 1, j) = SubSeq(h.dev, i + 1, j)
      BY ONLY <1>1, <2>1, <3>2, PrefixSlice
    <3>3. SubSeq(h.shadow, h.pos + 1, h.pos + m) = SubSeq(h.dev, h.pos + 1, h.pos + m)
      BY ONLY <1>1, <1>3, <3>1, <3>2
    <3> QED
      BY ONLY <1>5, <3>3
  <2>3. h.pos + m <= Len(h.dev) /\ m \in 0 .. Len(h.dev)
    <3>1. Len(h.shadow) <= Len(h.dev)
      BY <2>1 DEF Prefix
    <3>2. Len(h.shadow) \in Nat /\ Len(h.dev) \in Nat /\ h.pos \in Nat
      BY ONLY <1>1
    <3> QED
      BY ONLY <1>3, <3>1, <3>2
  <2>4. m # 0
    BY <1>3
  <2> QED
    BY <1>7, <2>1, <2>2, <2>3, <2>4 DEF ReadStep
<1> QED
  BY <1>7, <1>8 DEF ReadAnswer

\* A read of the kernel returns the bytes at the position, because the kernel is
\* asked only where the cursor stands at the position or at the end.
LEMMA KernelRead ==
  ASSUME NEW h, HandleOK(h), shadowed(h), NEW n \in Nat, n > 0, ~(h.pos < virRetained(h)),
         h.mode = "r" => h.pos >= h.cursor /\ (h.pos = h.cursor \/ h.cursor = Len(h.dev)),
         NEW g \in readAt(h, n)
  PROVE  HandleOK(g) /\ Same(h, g) /\ ReadAnswer(h, g)
<1>1. /\ h.dev \in Seq(Nat) /\ h.shadow \in Seq(Nat) /\ h.cursor \in Nat /\ h.pos \in Nat
      /\ h.broken \in BOOLEAN /\ h \in HandleRec
  BY DEF HandleOK, HandleRec
<1>2. PICK k \in svcRead(h, n) :
        g = IF k < 0 THEN fhRefuse(h)
            ELSE IF k = 0 THEN [h EXCEPT !.out = <<>>]
            ELSE [virKeep(h, k) EXCEPT !.pos = @ + k,
                    !.out = SubSeq(h.dev, h.cursor + 1, h.cursor + k)]
  BY DEF readAt
<1>3. CASE k < 0
  BY <1>2, <1>3, RefuseEffect DEF ReadAnswer
<1>4. CASE k = 0
  <2>0. g = [h EXCEPT !.out = <<>>]
    BY <1>2, <1>4
  <2>2. PICK e \in Seq(Int) : e = <<>>
    BY ONLY EmptySeq
  <2>1. g = Answered(h, h.pos, e)
    BY <1>1, <2>0, <2>2 DEF HandleRec, Answered
  <2>3. HandleOK(g) /\ Same(h, g) /\ g.pos = h.pos /\ g.out = <<>>
    <3>1. HandleOK(g) /\ Same(h, g) /\ g.pos = h.pos /\ g.out = e
      BY ONLY <1>1, <2>1, AnswerEffect, HandleOK(h), shadowed(h)
    <3> QED
      BY <2>2, <3>1
  <2>4. fileBytes(h) \in Seq(Nat)
    BY <1>1 DEF fileBytes
  <2>5. ASSUME ~h.broken PROVE fileStatus(h) = "w" \/ h.pos >= Len(fileBytes(h))
    <3>1. CASE virWrite(h)
      BY <2>5, <3>1 DEF fileStatus
    <3>2. CASE h.mode = "r"
      <4>1. h.cursor >= Len(h.dev)
        BY <1>1, <1>4, <3>2 DEF svcRead
      <4> QED
        BY <1>1, <3>2, <4>1 DEF fileBytes
    <3> QED
      BY <3>1, <3>2 DEF shadowed
  <2>6. <<>> = SubSeq(fileBytes(h), h.pos + 1, h.pos + 0)
    BY <1>1, <2>4, NoSlice
  <2>7. ASSUME ~h.broken PROVE ReadStep(h, g)
    <3>1. 0 \in 0 .. Len(fileBytes(h)) /\ g.pos = h.pos + 0
      BY <1>1, <2>3, <2>4
    <3> QED
      BY <2>3, <2>5, <2>6, <2>7, <3>1 DEF ReadStep
  <2> QED
    BY <2>3, <2>7 DEF ReadAnswer
<1>5. CASE k > 0
  <2>1. h.mode = "r" /\ h.cursor < Len(h.dev) /\ k \in Nat /\ h.cursor + k <= Len(h.dev)
    <3>1. /\ h.mode = "r" /\ h.cursor < Len(h.dev)
          /\ k \in 1 .. Least(Least(n, virIOChunkMax), Len(h.dev) - h.cursor)
      BY <1>1, <1>5 DEF svcRead
    <3>2. /\ Least(Least(n, virIOChunkMax), Len(h.dev) - h.cursor) \in Int
          /\ Least(Least(n, virIOChunkMax), Len(h.dev) - h.cursor) <= Len(h.dev) - h.cursor
      BY <1>1, FileAssumption DEF Least
    <3> HIDE DEF Least
    <3> QED
      BY <1>1, <3>1, <3>2
  <2>2. h.pos = h.cursor
    BY <1>1, <2>1
  <2> DEFINE v == virKeep(h, k)
             b == SubSeq(h.dev, h.cursor + 1, h.cursor + k)
  <2>3. HandleOK(v) /\ Same(h, v) /\ v.pos = h.pos
    BY <2>1, KeepEffect
  <2>4. b \in Seq(Nat)
    <3>1. h.dev \in Seq(Nat) /\ h.cursor \in Nat
      BY <1>1
    <3>2. h.cursor + k \in Nat /\ h.cursor <= h.cursor + k
      BY <2>1, <3>1
    <3> QED BY ONLY <2>1, <3>1, <3>2, SliceIs
  <2>5. g = Answered(v, h.pos + k, b)
    <3>1. g = [v EXCEPT !.pos = @ + k, !.out = b]
      BY <1>2, <1>5, <2>1
    <3> HIDE DEF v, b
    <3> QED
      BY <2>3, <3>1 DEF Answered
  <2> HIDE DEF v, b
  <2>6. HandleOK(g) /\ Same(v, g) /\ g.pos = h.pos + k /\ g.out = b
    <3>1. shadowed(v)
      BY <2>3 DEF Same, shadowed, virWrite
    <3>2. h.pos + k \in Nat /\ b \in Seq(Int)
      BY <1>1, <2>1, <2>4
    <3> QED
      BY <2>3, <2>5, <3>1, <3>2, AnswerEffect
  <2>7. Same(h, g)
    BY <2>3, <2>6 DEF Same
  <2>8. ReadStep(h, g)
    <3>1. fileBytes(h) = h.dev
      BY <2>1 DEF fileBytes
    <3>2. k \in 0 .. Len(h.dev) /\ h.pos + k <= Len(h.dev) /\ k # 0
      BY <1>1, <1>5, <2>1, <2>2
    <3>3. b = SubSeq(h.dev, h.pos + 1, h.pos + k)
      BY <2>2 DEF b
    <3> QED
      BY <2>6, <3>1, <3>2, <3>3 DEF ReadStep
  <2> QED
    BY <2>6, <2>7, <2>8 DEF ReadAnswer
<1>6. k \in Int
  BY <1>1, FileAssumption DEF svcRead, Least
<1> QED
  BY <1>3, <1>4, <1>5, <1>6

\* What a program sees of a handle that stands for the same file.
LEMMA SameFile ==
  ASSUME NEW h, NEW g, Same(h, g), h \in HandleRec, shadowed(h)
  PROVE  /\ fileStatus(g) = fileStatus(h) /\ fileBytes(g) = fileBytes(h) /\ g.dev = h.dev
         /\ g.before = h.before
         /\ lastAnswer(g) = g.out
         /\ fileStatus(h) = IF h.broken THEN "broken" ELSE IF virWrite(h) THEN "w" ELSE "r"
BY DEF Same, fileStatus, fileBytes, lastAnswer, shadowed, virWrite, HandleRec

\* A refused call is a refusal of the file, or happens to a broken one.
LEMMA RefuseStep ==
  ASSUME HandleOK(fh), shadowed(fh), Same(fh, fh'), fh'.out = NotServed, fh'.pos = fh.pos
  PROVE  FileHandle!PosNext
<1>1. fh \in HandleRec
  BY DEF HandleOK
<1>2. /\ fileStatus(fh') = fileStatus(fh) /\ fileBytes(fh') = fileBytes(fh)
      /\ fh'.dev = fh.dev /\ fh'.before = fh.before /\ lastAnswer(fh') = fh'.out
      /\ fileStatus(fh) = IF fh.broken THEN "broken" ELSE IF virWrite(fh) THEN "w" ELSE "r"
  BY <1>1, SameFile
<1>3. CASE fh.broken
  BY <1>2, <1>3 DEF FileHandle!PosNext, FileHandle!PosBroken
<1>4. CASE ~fh.broken
  <2>1. FileHandle!PosRefuse
    BY <1>2, <1>4 DEF FileHandle!PosRefuse, FileHandle!Refused, NotServed
  <2> QED
    BY <2>1 DEF FileHandle!PosNext
<1> QED
  BY <1>3, <1>4

\* A read of the handle is a read of the file.
LEMMA AnswerStep ==
  ASSUME HandleOK(fh), shadowed(fh), Same(fh, fh'), ReadAnswer(fh, fh')
  PROVE  FileHandle!PosNext
<1>1. fh \in HandleRec
  BY DEF HandleOK
<1>2. /\ fileStatus(fh') = fileStatus(fh) /\ fileBytes(fh') = fileBytes(fh)
      /\ fh'.dev = fh.dev /\ fh'.before = fh.before /\ lastAnswer(fh') = fh'.out
      /\ fileStatus(fh) = IF fh.broken THEN "broken" ELSE IF virWrite(fh) THEN "w" ELSE "r"
  BY <1>1, SameFile
<1>3. CASE fh.broken
  BY <1>2, <1>3 DEF FileHandle!PosNext, FileHandle!PosBroken
<1>4. CASE fh'.out = NotServed /\ fh'.pos = fh.pos
  BY <1>4, RefuseStep
<1>5. CASE ReadStep(fh, fh') /\ ~fh.broken
  <2>1. PICK m \in 0 .. Len(fileBytes(fh)) :
          /\ fh.pos + m <= Len(fileBytes(fh)) \/ m = 0
          /\ m = 0 => fileStatus(fh) = "w" \/ fh.pos >= Len(fileBytes(fh))
          /\ fh'.out = SubSeq(fileBytes(fh), fh.pos + 1, fh.pos + m) /\ fh'.pos = fh.pos + m
    BY <1>5 DEF ReadStep
  <2>2. FileHandle!PosRead
    BY <1>2, <1>5, <2>1 DEF FileHandle!PosRead, FileHandle!PosAnswer, FileHandle!Slice
  <2> QED
    BY <2>2 DEF FileHandle!PosNext
<1> QED
  BY <1>3, <1>4, <1>5 DEF ReadAnswer

\* fsRead.
LEMMA ReadRefines ==
  ASSUME HandleOK(fh), NEW n \in Nat, n > 0, fsRead(n)
  PROVE  shadowed(fh) /\ HandleOK(fh') /\ Same(fh, fh') /\ FileHandle!PosNext
<1>1. shadowed(fh) /\ fh \in HandleRec
  BY DEF fsRead, HandleOK
<1>2. /\ fh.dev \in Seq(Nat) /\ fh.shadow \in Seq(Nat) /\ fh.cursor \in Nat /\ fh.pos \in Nat
  BY <1>1 DEF HandleRec
<1>3. CASE fh' = fhRefuse(fh)
  <2>1. HandleOK(fh') /\ Same(fh, fh') /\ fh'.pos = fh.pos /\ fh'.out = NotServed
    BY ONLY <1>3, RefuseEffect, HandleOK(fh)
  <2> QED
    BY <1>1, <2>1, RefuseStep
<1>4. CASE /\ ~(fh.pos < fh.cursor /\ fh.pos >= virRetained(fh)) /\ fh.pos <= fh.cursor
           /\ fh' \in readAt(fh, n)
  <2>1. CASE fh.pos < virRetained(fh)
    <3>1. HandleOK(fh') /\ Same(fh, fh') /\ ReadAnswer(fh, fh')
      BY ONLY <1>1, <1>4, <2>1, HandleOK(fh), n > 0, ShadowRead
    <3> QED
      BY <1>1, <3>1, AnswerStep
  <2>2. CASE ~(fh.pos < virRetained(fh))
    <3>1. virRetained(fh) \in Nat
      BY <1>2 DEF virRetained, Least
    <3>2. fh.pos = fh.cursor /\ fh.pos >= fh.cursor
      BY ONLY <1>2, <1>4, <2>2, <3>1
    <3>3. HandleOK(fh') /\ Same(fh, fh') /\ ReadAnswer(fh, fh')
      BY ONLY <1>1, <1>4, <2>2, <3>2, HandleOK(fh), n > 0, KernelRead
    <3> QED
      BY <1>1, <3>3, AnswerStep
  <2> QED
    BY <2>1, <2>2
<1>5. ASSUME fh.pos > fh.cursor, NEW p \in virPull(fh, fh.pos),
             fh' = fhRefuse(p.h) \/ (p.ok /\ fh' \in readAt(p.h, n))
      PROVE  HandleOK(fh') /\ Same(fh, fh') /\ FileHandle!PosNext
  <2>1. fh.cursor <= fh.pos
    BY <1>2, <1>5
  <2>2. /\ HandleOK(p.h) /\ Same(fh, p.h) /\ p.h.pos = fh.pos
        /\ fh.mode # "r" => p.h = fh
        /\ fh.mode = "w" => ~p.ok
        /\ p.ok /\ fh.mode = "r" => p.h.cursor = Least(fh.pos, Len(fh.dev))
    BY ONLY <1>1, <1>2, <2>1, HandleOK(fh), PullEffect
  <2>3. shadowed(p.h)
    BY <1>1, <2>2 DEF Same, shadowed, virWrite
  <2>4. CASE fh' = fhRefuse(p.h)
    <3>1. HandleOK(fh') /\ Same(p.h, fh') /\ fh'.pos = p.h.pos /\ fh'.out = NotServed
      BY ONLY <2>2, <2>4, RefuseEffect
    <3>2. Same(fh, fh') /\ fh'.pos = fh.pos
      BY <2>2, <3>1 DEF Same
    <3> QED
      BY <1>1, <3>1, <3>2, RefuseStep
  <2>5. CASE p.ok /\ fh' \in readAt(p.h, n)
    <3>1. p.h \in HandleRec /\ Reader(p.h)
      BY <2>2 DEF HandleOK
    <3>2. /\ p.h.dev \in Seq(Nat) /\ p.h.shadow \in Seq(Nat) /\ p.h.cursor \in Nat
          /\ p.h.pos \in Nat /\ p.h.mode = fh.mode /\ p.h.dev = fh.dev
      BY <2>2, <3>1 DEF HandleRec, Same
    <3>3. p.h.cursor <= fh.pos
      <4>1. CASE fh.mode = "r"
        BY <1>2, <2>2, <2>5, <4>1 DEF Least
      <4>2. CASE fh.mode # "r"
        BY <2>1, <2>2, <4>2
      <4> QED
        BY <4>1, <4>2
    <3>4. ~(p.h.pos < virRetained(p.h))
      <4>1. virRetained(p.h) <= p.h.cursor /\ virRetained(p.h) \in Nat
        BY ONLY <3>2 DEF virRetained, Least
      <4> QED
        BY ONLY <2>2, <3>2, <3>3, <4>1
    <3>5. p.h.mode = "r" => /\ p.h.pos >= p.h.cursor
                            /\ p.h.pos = p.h.cursor \/ p.h.cursor = Len(p.h.dev)
      <4>1. p.h.pos >= p.h.cursor
        BY ONLY <1>2, <2>2, <3>2, <3>3
      <4> QED
        BY <1>2, <2>2, <2>5, <3>2, <4>1 DEF Least
    <3>6. HandleOK(fh') /\ Same(p.h, fh') /\ ReadAnswer(p.h, fh')
      BY ONLY <2>2, <2>3, <2>5, <3>4, <3>5, n > 0, KernelRead
    <3>7. Same(fh, fh')
      BY <2>2, <3>6 DEF Same
    <3>8. ReadAnswer(fh, fh')
      <4>1. fileStatus(p.h) = fileStatus(fh) /\ fileBytes(p.h) = fileBytes(fh)
        BY ONLY <1>1, <2>2, SameFile
      <4>2. p.h.broken = fh.broken
        BY <2>2 DEF Same
      <4> QED
        BY <2>2, <3>6, <4>1, <4>2 DEF ReadAnswer, ReadStep
    <3> QED
      BY <1>1, <3>6, <3>7, <3>8, AnswerStep
  <2> QED
    BY <1>5, <2>4, <2>5
<1>6. \/ fh' = fhRefuse(fh)
      \/ /\ ~(fh.pos < fh.cursor /\ fh.pos >= virRetained(fh)) /\ fh.pos <= fh.cursor
         /\ fh' \in readAt(fh, n)
      \/ /\ ~(fh.pos <= fh.cursor)
         /\ \E p \in virPull(fh, fh.pos) :
              fh' = fhRefuse(p.h) \/ (p.ok /\ fh' \in readAt(p.h, n))
  BY DEF fsRead, Handle, AskedFor
<1>7. fh.pos > fh.cursor <=> ~(fh.pos <= fh.cursor)
  BY ONLY <1>2
<1> QED
  BY <1>1, <1>3, <1>4, <1>5, <1>6, <1>7

\* Bytes are not a refusal.
LEMMA BytesServe == ASSUME NEW b \in Seq(Nat) PROVE b # NotServed
<1>1. ASSUME b = <<-1>> PROVE FALSE
  <2>1. Len(b) = 1 /\ b[1] = -1
    BY <1>1
  <2>2. b[1] \in Nat
    <3>1. 1 \in 1 .. Len(b)
      BY <2>1
    <3> QED
      BY <3>1
  <2> QED
    BY <2>1, <2>2
<1> QED
  BY <1>1 DEF NotServed

\* What PosPread asks of the answer of a step from h to g, asked for offset at.
PreadStep(h, g, at) ==
  \/ \E m \in 0 .. Len(fileBytes(h)) :
       /\ at + m <= Len(fileBytes(h)) \/ m = 0
       /\ m = 0 => fileStatus(h) = "w" \/ at >= Len(fileBytes(h))
       /\ g.out = SubSeq(fileBytes(h), at + 1, at + m)
  \/ at >= virShadowMax /\ g.out = <<>>

\* The cursor of a reader stands behind what is asked for, or as far as it goes.
PulledTo(h, e) == h.mode = "r" => e <= h.cursor \/ h.cursor = Least(e, Len(h.dev))

\* A reader answers nothing only at the end of the file or past what it retains.
LEMMA RetainedEnd ==
  ASSUME NEW cursor \in Nat, NEW kept \in Nat, NEW size \in Nat, NEW at \in Nat, NEW n \in Nat, n > 0,
         cursor <= size, at + n <= cursor \/ cursor = Least(at + n, size),
         at >= Least(kept, cursor), kept = Least(cursor, virShadowMax)
  PROVE  at >= size \/ at >= virShadowMax
BY FileAssumption DEF Least

\* A positioned read out of the shadow returns the bytes of the file at its
\* offset, and a reader's is empty only at the end or past the retained bytes.
LEMMA PreadEffect ==
  ASSUME NEW h, HandleOK(h), shadowed(h), NEW at \in Nat, NEW n \in Nat, n > 0,
         PulledTo(h, at + n), NEW g, g = preadAnswer(h, at, n)
  PROVE  /\ HandleOK(g) /\ Same(h, g) /\ g.pos = h.pos /\ g.out \in Seq(Nat)
         /\ h.broken \/ PreadStep(h, g, at)
<1>1. /\ h.dev \in Seq(Nat) /\ h.shadow \in Seq(Nat) /\ h.cursor \in Nat /\ h.pos \in Nat
      /\ h \in HandleRec /\ Len(h.shadow) \in Nat /\ Len(h.dev) \in Nat
  BY DEF HandleOK, HandleRec
<1>2. /\ virRetained(h) \in Nat /\ virRetained(h) <= Len(h.shadow)
      /\ virRetained(h) <= h.cursor
  BY <1>1 DEF virRetained, Least
<1>3. CASE at >= virRetained(h)
  <2>1. PICK e \in Seq(Int) : e = <<>>
    BY ONLY EmptySeq
  <2>2. g = Answered(h, h.pos, e)
    BY <1>1, <1>3, <2>1 DEF preadAnswer, Answered, HandleRec
  <2>3. HandleOK(g) /\ Same(h, g) /\ g.pos = h.pos /\ g.out = e
    BY ONLY <1>1, <2>2, AnswerEffect, HandleOK(h), shadowed(h)
  <2>4. fileBytes(h) \in Seq(Nat) /\ g.out \in Seq(Nat)
    BY <1>1, <2>1, <2>3 DEF fileBytes
  <2>5. SubSeq(fileBytes(h), at + 1, at + 0) = <<>> /\ 0 \in 0 .. Len(fileBytes(h))
    BY ONLY <2>4, NoSlice, at \in Nat
  <2>6. ASSUME ~h.broken
        PROVE  fileStatus(h) = "w" \/ at >= Len(fileBytes(h)) \/ at >= virShadowMax
    <3>1. CASE virWrite(h)
      BY <2>6, <3>1 DEF fileStatus
    <3>2. CASE h.mode = "r"
      <4>1. h.cursor <= Len(h.dev) /\ Len(h.shadow) = Least(h.cursor, virShadowMax)
        BY <3>2 DEF HandleOK, Reader
      <4>2. at + n <= h.cursor \/ h.cursor = Least(at + n, Len(h.dev))
        BY <3>2 DEF PulledTo
      <4>3. at >= Least(Len(h.shadow), h.cursor)
        BY <1>3 DEF virRetained
      <4>4. at >= Len(h.dev) \/ at >= virShadowMax
        BY ONLY <1>1, <4>1, <4>2, <4>3, RetainedEnd, at \in Nat, n \in Nat, n > 0
      <4> QED
        BY <3>2, <4>4 DEF fileBytes
    <3> QED
      BY <3>1, <3>2 DEF shadowed
  <2>7. ASSUME ~h.broken PROVE PreadStep(h, g, at)
    <3>1. CASE fileStatus(h) = "w" \/ at >= Len(fileBytes(h))
      BY ONLY <2>1, <2>3, <2>5, <3>1 DEF PreadStep
    <3>2. CASE at >= virShadowMax
      BY ONLY <2>1, <2>3, <3>2 DEF PreadStep
    <3> QED
      BY <2>6, <2>7, <3>1, <3>2
  <2> QED
    BY <2>3, <2>4, <2>7
<1>4. CASE at < virRetained(h)
  <2>1. PICK m \in Nat : at + m <= Len(h.shadow) /\ at + m = Least(at + n, Len(h.shadow)) /\ m > 0
    <3> DEFINE m == Least(at + n, Len(h.shadow)) - at
    <3>1. m \in Nat /\ at + m <= Len(h.shadow) /\ at + m = Least(at + n, Len(h.shadow)) /\ m > 0
      BY ONLY <1>1, <1>2, <1>4, at \in Nat, n \in Nat, n > 0 DEF Least
    <3> HIDE DEF m
    <3> QED
      BY ONLY <3>1
  <2>2. at + m \in Nat /\ at <= at + m
    OBVIOUS
  <2> DEFINE b == SubSeq(h.shadow, at + 1, at + m)
  <2>3. b \in Seq(Nat)
    BY ONLY <1>1, <2>1, <2>2, SliceIs
  <2>4. g = Answered(h, h.pos, b)
    <3>0. ~(at >= virRetained(h)) /\ fromShadow(h, at, n) = b
      BY ONLY <1>2, <1>4, <2>1 DEF fromShadow
    <3>1. g = [h EXCEPT !.out = b]
      BY <3>0 DEF preadAnswer
    <3> HIDE DEF b
    <3> QED
      BY <1>1, <3>1 DEF Answered, HandleRec
  <2>5. HandleOK(g) /\ Same(h, g) /\ g.pos = h.pos /\ g.out = b
    <3> HIDE DEF b
    <3>1. b \in Seq(Int)
      BY ONLY <2>3
    <3> QED
      BY ONLY <1>1, <2>4, <3>1, AnswerEffect, HandleOK(h), shadowed(h)
  <2>6. ASSUME ~h.broken PROVE PreadStep(h, g, at)
    <3>1. fileBytes(h) = h.dev /\ Prefix(h.shadow, h.dev)
      <4>1. CASE h.mode = "r"
        BY <4>1 DEF HandleOK, Reader, fileBytes
      <4>2. CASE virWrite(h)
        <5>1. h.cursor # 0
          BY ONLY <1>1, <1>2, <1>4
        <5>2. h.flushed
          BY <2>6, <4>2, <5>1 DEF HandleOK, Writer
        <5> QED
          BY <2>6, <4>2, <5>2 DEF HandleOK, Writer, fileBytes
      <4> QED
        BY <4>1, <4>2 DEF shadowed
    <3>2. b = SubSeq(h.dev, at + 1, at + m)
      BY ONLY <1>1, <2>1, <2>2, <3>1, PrefixSlice
    <3>3. Len(h.shadow) <= Len(h.dev)
      BY <3>1 DEF Prefix
    <3> HIDE DEF b
    <3>4. at + m <= Len(h.dev) /\ m \in 0 .. Len(h.dev) /\ m # 0
      BY ONLY <1>1, <2>1, <3>3
    <3> QED
      BY ONLY <2>5, <3>1, <3>2, <3>4 DEF PreadStep
  <2> QED
    BY <2>3, <2>5, <2>6
<1> QED
  BY ONLY <1>2, <1>3, <1>4

\* Pread.
LEMMA PreadRefines ==
  ASSUME HandleOK(fh), NEW at \in Nat, NEW n \in Nat, n > 0, Pread(at, n)
  PROVE  shadowed(fh) /\ HandleOK(fh') /\ Same(fh, fh') /\ FileHandle!PosNext
<1>1. shadowed(fh) /\ fh \in HandleRec
  BY DEF Pread, HandleOK
<1>2. fh.cursor \in Nat /\ fh.pos \in Nat
  BY <1>1 DEF HandleRec
<1>3. ASSUME NEW h, HandleOK(h), Same(fh, h), h.pos = fh.pos, PulledTo(h, at + n),
             fh' = preadAnswer(h, at, n), AskedFor(fh', Asking("pread", "start", at))
      PROVE  HandleOK(fh') /\ Same(fh, fh') /\ FileHandle!PosNext
  <2>1. shadowed(h)
    BY <1>1, <1>3 DEF Same, shadowed, virWrite
  <2>2. /\ HandleOK(fh') /\ Same(h, fh') /\ fh'.pos = h.pos /\ fh'.out \in Seq(Nat)
        /\ h.broken \/ PreadStep(h, fh', at)
    BY ONLY <1>3, <2>1, PreadEffect, at \in Nat, n \in Nat, n > 0
  <2>0. fhAsk'.call = "pread" /\ fhAsk'.offset = at
    <3>1. fh'.out # NotServed
      BY <2>2, BytesServe
    <3> QED
      BY <1>3, <3>1 DEF AskedFor, Asking
  <2>3. Same(fh, fh') /\ fh'.pos = fh.pos /\ h.broken = fh.broken
    BY <1>3, <2>2 DEF Same
  <2>4. fileBytes(h) = fileBytes(fh) /\ fileStatus(h) = fileStatus(fh)
    BY ONLY <1>1, <1>3, SameFile
  <2>5. /\ fileStatus(fh') = fileStatus(fh) /\ fileBytes(fh') = fileBytes(fh)
        /\ fh'.dev = fh.dev /\ fh'.before = fh.before /\ lastAnswer(fh') = fh'.out
        /\ fileStatus(fh) = IF fh.broken THEN "broken" ELSE IF virWrite(fh) THEN "w" ELSE "r"
    BY <1>1, <2>3, SameFile
  <2>6. CASE fh.broken
    BY <2>2, <2>3, <2>5, <2>6 DEF FileHandle!PosNext, FileHandle!PosBroken
  <2>7. CASE ~fh.broken
    <3>1. PreadStep(fh, fh', at)
      BY <2>2, <2>3, <2>4, <2>7 DEF PreadStep
    <3>2. FileHandle!PosPread
      <4>1. fileStatus(fh) \in {"r", "w"}
        BY <2>5, <2>7
      <4>2. CASE at >= virShadowMax /\ fh'.out = <<>>
        BY ONLY <2>0, <2>3, <2>5, <4>1, <4>2 DEF FileHandle!PosPread
      <4>3. ASSUME NEW m \in 0 .. Len(fileBytes(fh)),
                   at + m <= Len(fileBytes(fh)) \/ m = 0,
                   m = 0 => fileStatus(fh) = "w" \/ at >= Len(fileBytes(fh)),
                   fh'.out = SubSeq(fileBytes(fh), at + 1, at + m)
            PROVE  FileHandle!PosPread
        BY ONLY <2>0, <2>3, <2>5, <4>1, <4>3
           DEF FileHandle!PosPread, FileHandle!PosAnswer, FileHandle!Slice
      <4> QED
        BY <3>1, <4>2, <4>3 DEF PreadStep
    <3> QED
      BY <2>2, <2>3, <3>2 DEF FileHandle!PosNext
  <2> QED
    BY <2>6, <2>7
<1>6. PICK g : /\ g \in IF at + n <= fh.cursor THEN {preadAnswer(fh, at, n)}
                       ELSE {IF p.ok THEN preadAnswer(p.h, at, n) ELSE fhRefuse(p.h) :
                             p \in virPull(fh, at + n)}
               /\ AskedFor(g, Asking("pread", "start", at))
  BY DEF Pread
<1>7. fh' = g /\ AskedFor(fh', Asking("pread", "start", at))
  BY <1>6 DEF AskedFor
<1>4. CASE at + n <= fh.cursor /\ fh' = preadAnswer(fh, at, n)
  <2>1. PulledTo(fh, at + n)
    BY <1>4 DEF PulledTo
  <2> QED
    BY <1>1, <1>3, <1>4, <1>7, <2>1 DEF Same
<1>5. ASSUME ~(at + n <= fh.cursor), NEW p \in virPull(fh, at + n),
             fh' = IF p.ok THEN preadAnswer(p.h, at, n) ELSE fhRefuse(p.h)
      PROVE  HandleOK(fh') /\ Same(fh, fh') /\ FileHandle!PosNext
  <2>1. fh.cursor <= at + n /\ at + n \in Nat
    BY <1>2, <1>5
  <2>2. /\ HandleOK(p.h) /\ Same(fh, p.h) /\ p.h.pos = fh.pos
        /\ p.ok /\ fh.mode = "r" => p.h.cursor = Least(at + n, Len(fh.dev))
    BY ONLY <1>1, <2>1, <1>5, HandleOK(fh), PullEffect
  <2>3. CASE p.ok
    <3>1. PulledTo(p.h, at + n)
      BY <2>2, <2>3 DEF PulledTo, Same
    <3> QED
      BY <1>3, <1>5, <1>7, <2>2, <2>3, <3>1
  <2>4. CASE ~p.ok
    <3>1. HandleOK(fh') /\ Same(p.h, fh') /\ fh'.pos = p.h.pos /\ fh'.out = NotServed
      BY <1>5, <2>2, <2>4, RefuseEffect
    <3>2. Same(fh, fh') /\ fh'.pos = fh.pos
      BY <2>2, <3>1 DEF Same
    <3> QED
      BY <1>1, <3>1, <3>2, RefuseStep
  <2> QED
    BY <2>3, <2>4
<1> QED
  BY <1>1, <1>4, <1>5, <1>6, <1>7
-----------------------------------------------------------------------------
(***************************************************************************)
(* Writes.                                                                 *)
(***************************************************************************)
Chunks == {<<x>> : x \in FileBytes} \cup {<<x, y>> : x, y \in FileBytes}

ChunkPart(b, k) ==
  LET c == SubSeq(b, 1, k) IN c \in Chunks /\ c \in Seq(Nat) /\ Len(c) = k

\* What is written is one or two bytes, and so is every non-empty part of it.
LEMMA ChunkIs ==
  ASSUME NEW b \in Chunks
  PROVE  /\ b \in Seq(Nat) /\ Len(b) \in 1 .. 2
         /\ \A k \in 1 .. Len(b) : ChunkPart(b, k)
<1>1. CASE \E x \in FileBytes : b = <<x>>
  <2>1. PICK x \in FileBytes : b = <<x>>
    BY <1>1
  <2>2. b \in Seq(Nat) /\ Len(b) = 1
    BY <2>1, FileAssumption
  <2>3. SubSeq(b, 1, 1) = b
    BY <2>2, CutWhole
  <2>4. ChunkPart(b, 1)
    BY <2>2, <2>3 DEF ChunkPart
  <2> QED
    BY <2>2, <2>4
<1>2. CASE \E x, y \in FileBytes : b = <<x, y>>
  <2>1. PICK x \in FileBytes, y \in FileBytes : b = <<x, y>>
    BY <1>2
  <2>2. b \in Seq(Nat) /\ Len(b) = 2 /\ b[1] = x /\ x \in Nat
    BY <2>1, FileAssumption
  <2> DEFINE c == <<x>>
             d == SubSeq(b, 1, 1)
  <2>3. c \in Seq(Nat) /\ Len(c) = 1 /\ c[1] = x /\ c \in Chunks
    BY <2>2 DEF Chunks
  <2>4. SubSeq(b, 1, 2) = b
    BY <2>2, CutWhole
  <2>5. d \in Seq(Nat) /\ Len(d) = 1 /\ Prefix(d, b)
    <3>1. 1 \in Nat /\ 1 <= Len(b)
      BY <2>2
    <3> QED
      BY ONLY <2>2, <3>1, CutIs
  <2> HIDE DEF c, d
  <2>6. d[1] = b[1]
    BY ONLY <2>5 DEF Prefix
  <2>7. \A i \in 1 .. Len(d) : d[i] = c[i]
    BY ONLY <2>2, <2>3, <2>5, <2>6
  <2>8. d = c
    BY ONLY <2>3, <2>5, <2>7, SeqEqual
  <2>9. ChunkPart(b, 1)
    BY ONLY <2>3, <2>5, <2>8 DEF ChunkPart, d
  <2>10. ChunkPart(b, 2)
    BY <2>2, <2>4 DEF ChunkPart
  <2> QED
    BY <2>2, <2>9, <2>10
<1> QED
  BY <1>1, <1>2 DEF Chunks

\* Writing at the end is appending.
LEMMA AppendIsWrite ==
  ASSUME NEW s \in Seq(Nat), NEW b \in Seq(Nat)
  PROVE  s \o b = FileHandle!Overwrite(s, Len(s), b)
<1> DEFINE o == FileHandle!Overwrite(s, Len(s), b)
           N == Len(s) + Len(b)
<1>0. Len(s) \in Nat /\ Len(b) \in Nat /\ DOMAIN s = 1 .. Len(s)
  OBVIOUS
<1>1. /\ s \o b \in Seq(Nat) /\ Len(s \o b) = N
      /\ \A i \in 1 .. N : (s \o b)[i] = IF i <= Len(s) THEN s[i] ELSE b[i - Len(s)]
  BY ConcatProperties
<1>2. o = [i \in 1 .. N |-> IF i > Len(s) THEN b[i - Len(s)] ELSE s[i]]
  <2>1. (IF Len(s) + Len(b) > Len(s) THEN Len(s) + Len(b) ELSE Len(s)) = N
    BY <1>0
  <2>2. \A i \in 1 .. N :
          (IF i > Len(s) /\ i <= Len(s) + Len(b) THEN b[i - Len(s)]
           ELSE IF i \in DOMAIN s THEN s[i] ELSE 0)
          = IF i > Len(s) THEN b[i - Len(s)] ELSE s[i]
    BY <1>0
  <2> QED
    BY <2>1, <2>2 DEF FileHandle!Overwrite
<1>3. \A i \in 1 .. N : o[i] = (s \o b)[i] /\ o[i] \in Nat
  <2>1. \A i \in 1 .. N : (s \o b)[i] \in Nat
    BY <1>1
  <2>2. \A i \in 1 .. N : o[i] = IF i > Len(s) THEN b[i - Len(s)] ELSE s[i]
    BY <1>2
  <2> HIDE DEF o
  <2> QED
    BY <1>0, <1>1, <2>1, <2>2
<1>4. o \in Seq(Nat) /\ Len(o) = N
  <2>1. N \in Nat /\ o \in [1 .. N -> Nat]
    BY <1>0, <1>2, <1>3
  <2> HIDE DEF o, N
  <2> QED
    BY <2>1
<1> HIDE DEF o, N
<1> QED
  BY ONLY <1>1, <1>3, <1>4, SeqEqual DEF o

\* A write keeps bytes.
LEMMA OverwriteType ==
  ASSUME NEW s \in Seq(Nat), NEW at \in Nat, NEW b \in Seq(Nat)
  PROVE  FileHandle!Overwrite(s, at, b) \in Seq(Nat)
<1> DEFINE N == IF at + Len(b) > Len(s) THEN at + Len(b) ELSE Len(s)
           v(i) == IF i > at /\ i <= at + Len(b) THEN b[i - at]
                   ELSE IF i \in DOMAIN s THEN s[i] ELSE 0
<1>1. N \in Nat
  OBVIOUS
<1>2. \A i \in 1 .. N : v(i) \in Nat
  <2> TAKE i \in 1 .. N
  <2>1. CASE i > at /\ i <= at + Len(b)
    <3>1. i - at \in 1 .. Len(b)
      BY <1>1, <2>1
    <3> QED
      BY <2>1, <3>1
  <2>2. CASE ~(i > at /\ i <= at + Len(b))
    BY <2>2
  <2> QED
    BY <2>1, <2>2
<1> HIDE DEF N, v
<1>3. [i \in 1 .. N |-> v(i)] \in Seq(Nat)
  BY <1>1, <1>2
<1> QED
  BY <1>3 DEF N, v, FileHandle!Overwrite

\* A write of the file, when the handle stays a good writer.
LEMMA WriteStep ==
  ASSUME HandleOK(fh), virWrite(fh), ~fh.broken, fh'.broken = FALSE, fh'.mode = fh.mode, fh'.before = fh.before,
         NEW c \in Chunks, fileBytes(fh') = FileHandle!Overwrite(fileBytes(fh), fh.pos, c),
         fh'.pos = fh.pos + Len(c), fh'.out = <<>>, fh'.dev \in {fh.dev, fileBytes(fh')}
  PROVE  FileHandle!PosNext
<1>1. virWrite(fh') /\ fileStatus(fh) = "w" /\ fileStatus(fh') = "w"
  BY DEF virWrite, fileStatus
<1>2. lastAnswer(fh') = <<>>
  BY <1>1 DEF lastAnswer, virWrite
<1>3. c \in {<<x>> : x \in FileBytes} \cup {<<x, y>> : x, y \in FileBytes}
  BY DEF Chunks
<1>4. FileHandle!PosWrite
  BY <1>1, <1>2, <1>3 DEF FileHandle!PosWrite
<1> QED
  BY <1>4 DEF FileHandle!PosNext

\* On a broken handle everything goes, while it stays broken or is closed.
LEMMA BrokenStep ==
  ASSUME fh.broken, fileStatus(fh') \in {"broken", "none"}
  PROVE  FileHandle!PosNext
BY DEF FileHandle!PosNext, FileHandle!PosBroken, fileStatus

\* virWriteTo.
LEMMA WriteRefines ==
  ASSUME HandleOK(fh), NEW b \in Chunks, virWriteTo(b)
  PROVE  shadowed(fh) /\ HandleOK(fh') /\ fh'.mode = fh.mode /\ FileHandle!PosNext
<1>0. fh \in HandleRec /\ shadowed(fh)
  BY DEF HandleOK, virWriteTo
<1>1. /\ fh.dev \in Seq(Nat) /\ fh.shadow \in Seq(Nat) /\ fh.cursor \in Nat /\ fh.pos \in Nat
      /\ fh.flushed \in BOOLEAN /\ fh.broken \in BOOLEAN
  BY <1>0 DEF HandleRec
<1>2. b \in Seq(Nat) /\ Len(b) \in 1 .. 2 /\ \A k \in 1 .. Len(b) : ChunkPart(b, k)
  BY ONLY b \in Chunks, ChunkIs
<1>3. CASE fh' = fhRefuse(fh)
  <2>1. HandleOK(fh') /\ Same(fh, fh') /\ fh'.pos = fh.pos /\ fh'.out = NotServed
    BY ONLY <1>3, RefuseEffect, HandleOK(fh)
  <2> QED
    BY <1>0, <2>1, RefuseStep DEF Same
<1>4. CASE virWrite(fh) /\ ~fh.flushed /\ fh' = Staged(fh, b)
  <2> DEFINE o == FileHandle!Overwrite(fh.shadow, fh.pos, b)
             q == fh.pos + Len(b)
  <2>1. o \in Seq(Nat)
    BY ONLY <1>1, <1>2, OverwriteType
  <2>2. fh' = [fh EXCEPT !.shadow = o, !.pos = q, !.out = <<>>]
    BY <1>4 DEF Staged, FileHandle!Overwrite
  <2>3. q \in Nat
    BY ONLY <1>1, <1>2
  <2> HIDE DEF o, q
  <2>4. PICK e \in Seq(Int) : e = <<>>
    BY ONLY EmptySeq
  <2>5. fh' = [fh EXCEPT !.shadow = o, !.pos = q, !.out = e]
    BY ONLY <2>2, <2>4
  <2>6. fh' \in HandleRec
    BY ONLY <1>0, <2>1, <2>3, <2>5 DEF HandleRec
  <2>7. /\ fh'.mode = fh.mode /\ fh'.shadow = o /\ fh'.pos = q /\ fh'.out = e
        /\ fh'.dev = fh.dev /\ fh'.cursor = fh.cursor /\ fh'.flushed = fh.flushed
        /\ fh'.broken = fh.broken /\ fh'.before = fh.before
    BY ONLY <1>0, <2>5 DEF HandleRec
  <2>8. HandleOK(fh')
    BY ONLY <1>4, <2>6, <2>7, HandleOK(fh) DEF HandleOK, NoFile, Reader, Writer, virWrite
  <2>9. CASE fh.broken
    <3>1. fileStatus(fh') = "broken"
      BY <2>7, <2>9 DEF fileStatus
    <3> QED
      BY <1>0, <2>7, <2>8, <2>9, <3>1, BrokenStep
  <2>10. CASE ~fh.broken
    <3>1. fileBytes(fh) = fh.shadow /\ fileBytes(fh') = o
      BY ONLY <1>4, <2>7 DEF fileBytes, virWrite
    <3>2. fileBytes(fh') = FileHandle!Overwrite(fileBytes(fh), fh.pos, b)
      BY <3>1 DEF o
    <3>3. fh'.out = <<>> /\ fh'.pos = fh.pos + Len(b) /\ fh'.broken = FALSE
      BY <1>1, <2>4, <2>7, <2>10 DEF q
    <3>4. FileHandle!PosNext
      BY <1>4, <2>7, <2>10, <3>2, <3>3, WriteStep
    <3> QED
      BY <1>0, <2>7, <2>8, <3>4
  <2> QED
    BY <2>9, <2>10
<1>5. ASSUME virWrite(fh), fh.flushed, fh.pos = fh.cursor,
             NEW k \in 1 .. Len(b),
             fh' = [fh EXCEPT !.dev = @ \o SubSeq(b, 1, k), !.cursor = @ + k,
                              !.pos = fh.cursor + k, !.out = <<>>]
      PROVE  HandleOK(fh') /\ fh'.mode = fh.mode /\ FileHandle!PosNext
  <2> DEFINE c == SubSeq(b, 1, k)
             d == fh.dev \o c
             q == fh.cursor + k
  <2>1. c \in Chunks /\ c \in Seq(Nat) /\ Len(c) = k
    BY <1>2 DEF ChunkPart
  <2>2. d \in Seq(Nat) /\ Len(d) = Len(fh.dev) + Len(c)
    BY <1>1, <2>1, ConcatProperties
  <2>3. q \in Nat
    BY <1>1, <1>2
  <2>4. fh' = [fh EXCEPT !.dev = d, !.cursor = q, !.pos = q, !.out = <<>>]
    BY <1>0, <1>5 DEF HandleRec
  <2> HIDE DEF d, q, c
  <2>5. PICK e \in Seq(Int) : e = <<>>
    BY ONLY EmptySeq
  <2>6. fh' = [fh EXCEPT !.dev = d, !.cursor = q, !.pos = q, !.out = e]
    BY ONLY <2>4, <2>5
  <2>7. fh' \in HandleRec
    BY ONLY <1>0, <2>2, <2>3, <2>6 DEF HandleRec
  <2>8. /\ fh'.mode = fh.mode /\ fh'.shadow = fh.shadow /\ fh'.pos = q /\ fh'.out = e
        /\ fh'.dev = d /\ fh'.cursor = q /\ fh'.flushed = fh.flushed
        /\ fh'.broken = fh.broken /\ fh'.before = fh.before
    BY ONLY <1>0, <2>6 DEF HandleRec
  <2>9. CASE fh.broken
    <3>1. HandleOK(fh')
      BY ONLY <1>5, <2>7, <2>8, <2>9, HandleOK(fh) DEF HandleOK, NoFile, Reader, Writer, virWrite
    <3>2. fileStatus(fh') = "broken"
      BY <2>8, <2>9 DEF fileStatus
    <3> QED
      BY <2>8, <2>9, <3>1, <3>2, BrokenStep
  <2>10. CASE ~fh.broken
    <3>1. fh.cursor = Len(fh.dev) /\ Prefix(fh.shadow, fh.dev)
      BY <1>5, <2>10 DEF HandleOK, Writer
    <3>2. Prefix(fh.shadow, d)
      BY ONLY <1>1, <2>1, <3>1, AppendKeeps DEF d
    <3>3. q = Len(d)
      BY ONLY <2>1, <2>2, <3>1 DEF q
    <3>4. HandleOK(fh')
      BY ONLY <1>5, <2>7, <2>8, <3>2, <3>3, HandleOK(fh) DEF HandleOK, NoFile, Reader, Writer, virWrite
    <3>5. fileBytes(fh) = fh.dev /\ fileBytes(fh') = d
      BY ONLY <1>5, <2>8 DEF fileBytes, virWrite
    <3>6. d = FileHandle!Overwrite(fh.dev, Len(fh.dev), c)
      BY ONLY <1>1, <2>1, AppendIsWrite DEF d
    <3>7. fileBytes(fh') = FileHandle!Overwrite(fileBytes(fh), fh.pos, c)
      BY <1>5, <3>1, <3>5, <3>6
    <3>8. fh'.pos = fh.pos + Len(c)
      BY <1>5, <2>1, <2>8 DEF q
    <3>9. fh'.out = <<>> /\ fh'.broken = FALSE /\ fh'.dev \in {fh.dev, fileBytes(fh')}
      BY <1>1, <2>5, <2>8, <2>10, <3>5
    <3>10. FileHandle!PosNext
      BY <1>5, <2>1, <2>8, <2>10, <3>7, <3>8, <3>9, WriteStep
    <3> QED
      BY <2>8, <3>4, <3>10
  <2> QED
    BY <2>9, <2>10
<1>6. \A k \in 0 .. Least(Len(b), virIOChunkMax) : k # 0 => k \in 1 .. Len(b)
  BY ONLY <1>2, FileAssumption DEF Least
<1>7. \/ fh' = fhRefuse(fh)
      \/ virWrite(fh) /\ ~fh.flushed /\ fh' = Staged(fh, b)
      \/ /\ virWrite(fh) /\ fh.flushed /\ fh.pos = fh.cursor
         /\ \E k \in 1 .. Len(b) :
              fh' = [fh EXCEPT !.dev = @ \o SubSeq(b, 1, k), !.cursor = @ + k,
                              !.pos = fh.cursor + k, !.out = <<>>]
  BY <1>6 DEF virWriteTo, Handle, AskedFor
<1> QED
  BY <1>0, <1>3, <1>4, <1>5, <1>7
-----------------------------------------------------------------------------
(***************************************************************************)
(* The flush: all staged bytes reach the device, or none, or the handle is *)
(* broken.                                                                 *)
(***************************************************************************)
FlushOutcome(h, p) ==
  \/ p.ok /\ ~p.h.broken /\ fileBytes(p.h) = fileBytes(h) /\ p.h.dev = fileBytes(h)
     /\ p.h.before = h.before
  \/ ~p.ok /\ Same(h, p.h)
  \/ ~p.ok /\ p.h.broken /\ virWrite(h)

\* virFlush.
LEMMA FlushEffect ==
  ASSUME NEW h, HandleOK(h), shadowed(h), NEW p \in virFlush(h)
  PROVE  /\ HandleOK(p.h) /\ p.h.mode = h.mode /\ p.h.pos = h.pos
         /\ h.broken => p.h.broken
         /\ ~h.broken => FlushOutcome(h, p)
<1>0. h \in HandleRec
  BY DEF HandleOK
<1>1. /\ h.dev \in Seq(Nat) /\ h.shadow \in Seq(Nat) /\ h.cursor \in Nat /\ h.pos \in Nat
      /\ h.flushed \in BOOLEAN /\ h.broken \in BOOLEAN
  BY <1>0 DEF HandleRec
<1>2. CASE ~virWrite(h) \/ h.flushed \/ h.shadow = <<>>
  <2>1. p.ok /\ p.h = h
    <3>1. virFlush(h) = {[ok |-> TRUE, h |-> h]}
      BY ONLY <1>2, Zenon DEF virFlush
    <3> QED
      BY <3>1
  <2>2. ASSUME ~h.broken PROVE h.dev = fileBytes(h)
    <3>1. CASE ~virWrite(h) \/ h.flushed
      BY <3>1 DEF shadowed, fileBytes
    <3>2. CASE virWrite(h) /\ ~h.flushed
      BY <1>2, <2>2, <3>2 DEF HandleOK, Writer, fileBytes, virWrite
    <3> QED
      BY <3>1, <3>2
  <2> QED
    BY <2>1, <2>2 DEF FlushOutcome
<1>3. CASE ~(~virWrite(h) \/ h.flushed \/ h.shadow = <<>>)
  <2>1. \/ p = [ok |-> TRUE, h |-> [h EXCEPT !.dev = @ \o h.shadow, !.cursor = Len(h.shadow),
                                            !.flushed = TRUE]]
        \/ \E j \in 0 .. (Len(h.shadow) - 1) :
             p = [ok |-> FALSE, h |-> [h EXCEPT !.dev = @ \o SubSeq(h.shadow, 1, j),
                                              !.broken = @ \/ j > 0]]
    BY <1>3 DEF virFlush
  <2>2. CASE p = [ok |-> TRUE, h |-> [h EXCEPT !.dev = @ \o h.shadow,
                                              !.cursor = Len(h.shadow), !.flushed = TRUE]]
    <3> DEFINE d == h.dev \o h.shadow
               l == Len(h.shadow)
    <3>1. d \in Seq(Nat) /\ l \in Nat
      BY <1>1, ConcatProperties
    <3>2. p.ok /\ p.h = [h EXCEPT !.dev = d, !.cursor = l, !.flushed = TRUE]
      BY <1>0, <2>2 DEF HandleRec
    <3> HIDE DEF d, l
    <3>3. p.h \in HandleRec
      BY ONLY <1>0, <3>1, <3>2 DEF HandleRec
    <3>4. /\ p.h.mode = h.mode /\ p.h.shadow = h.shadow /\ p.h.pos = h.pos /\ p.h.dev = d
          /\ p.h.cursor = l /\ p.h.flushed = TRUE /\ p.h.broken = h.broken /\ p.h.before = h.before
      BY ONLY <1>0, <3>2 DEF HandleRec
    <3>5. CASE h.broken
      <4>1. HandleOK(p.h)
        BY ONLY <1>3, <3>3, <3>4, <3>5, HandleOK(h)
           DEF HandleOK, NoFile, Reader, Writer, virWrite
      <4> QED
        BY <3>4, <3>5, <4>1
    <3>6. CASE ~h.broken
      <4>1. h.dev = <<>>
        BY <1>3, <3>6 DEF HandleOK, Writer
      <4>2. d = h.shadow
        BY ONLY <1>1, <4>1, ConcatEmptySeq DEF d
      <4>3. l = Len(d) /\ Prefix(h.shadow, d)
        BY ONLY <1>1, <4>2 DEF l, Prefix
      <4>4. HandleOK(p.h)
        BY ONLY <1>3, <3>3, <3>4, <4>3, HandleOK(h)
           DEF HandleOK, NoFile, Reader, Writer, virWrite
      <4>5. fileBytes(h) = h.shadow /\ fileBytes(p.h) = d
        BY <1>3, <3>4 DEF fileBytes, virWrite
      <4> QED
        BY <3>2, <3>4, <3>6, <4>2, <4>4, <4>5 DEF FlushOutcome
    <3> QED
      BY <3>5, <3>6
  <2>3. ASSUME NEW j \in 0 .. (Len(h.shadow) - 1),
               p = [ok |-> FALSE, h |-> [h EXCEPT !.dev = @ \o SubSeq(h.shadow, 1, j),
                                                !.broken = @ \/ j > 0]]
        PROVE  /\ HandleOK(p.h) /\ p.h.mode = h.mode /\ p.h.pos = h.pos
               /\ h.broken => p.h.broken
               /\ ~h.broken => FlushOutcome(h, p)
    <3> DEFINE c == SubSeq(h.shadow, 1, j)
               d == h.dev \o c
               x == h.broken \/ j > 0
    <3>0. j \in Nat /\ j <= Len(h.shadow)
      BY <1>1
    <3>1. c \in Seq(Nat) /\ Len(c) = j
      BY ONLY <1>1, <3>0, CutIs
    <3>2. d \in Seq(Nat) /\ x \in BOOLEAN
      BY ONLY <1>1, <3>1, ConcatProperties
    <3>3. ~p.ok /\ p.h = [h EXCEPT !.dev = d, !.broken = x]
      BY <1>0, <2>3 DEF HandleRec
    <3> HIDE DEF d, x, c
    <3>4. p.h \in HandleRec
      BY ONLY <1>0, <3>2, <3>3 DEF HandleRec
    <3>5. /\ p.h.mode = h.mode /\ p.h.shadow = h.shadow /\ p.h.pos = h.pos /\ p.h.dev = d
          /\ p.h.cursor = h.cursor /\ p.h.flushed = h.flushed /\ p.h.broken = x
          /\ p.h.before = h.before
      BY ONLY <1>0, <3>3 DEF HandleRec
    <3>6. CASE x
      <4>1. HandleOK(p.h)
        BY ONLY <1>3, <3>4, <3>5, <3>6, HandleOK(h)
           DEF HandleOK, NoFile, Reader, Writer, virWrite
      <4> QED
        BY <1>3, <3>3, <3>5, <3>6, <4>1 DEF FlushOutcome
    <3>7. CASE ~x
      <4>1. ~h.broken /\ j = 0
        BY <1>1, <3>0, <3>7 DEF x
      <4>2. c = <<>>
        BY ONLY <3>1, <4>1
      <4>3. d = h.dev
        BY ONLY <1>1, <4>2, ConcatEmptySeq DEF d
      <4>4. HandleOK(p.h)
        BY ONLY <1>1, <1>3, <3>4, <3>5, <3>7, <4>1, <4>3, HandleOK(h)
           DEF HandleOK, NoFile, Reader, Writer, virWrite
      <4>5. p.h.broken = h.broken
        BY <1>1, <3>2, <3>5, <3>7, <4>1
      <4>6. Same(h, p.h)
        BY <3>5, <4>3, <4>5 DEF Same
      <4> QED
        BY <3>3, <3>5, <4>1, <4>4, <4>6 DEF FlushOutcome
    <3> QED
      BY <3>6, <3>7
  <2> QED
    BY <2>1, <2>2, <2>3
<1> QED
  BY <1>2, <1>3

\* A flush that failed, seen from outside: a refusal, or the end of the promise.
LEMMA FlushFails ==
  ASSUME HandleOK(fh), shadowed(fh), NEW p \in virFlush(fh), ~p.ok, fh' = fhRefuse(p.h)
  PROVE  HandleOK(fh') /\ fh'.mode = fh.mode /\ FileHandle!PosNext
<1>0. fh \in HandleRec
  BY DEF HandleOK
<1>1. /\ HandleOK(p.h) /\ p.h.mode = fh.mode /\ p.h.pos = fh.pos
      /\ fh.broken => p.h.broken
      /\ ~fh.broken => FlushOutcome(fh, p)
  BY ONLY HandleOK(fh), shadowed(fh), FlushEffect
<1>2. HandleOK(fh') /\ Same(p.h, fh') /\ fh'.pos = p.h.pos /\ fh'.out = NotServed
  BY ONLY <1>1, fh' = fhRefuse(p.h), RefuseEffect
<1>3. fh'.mode = fh.mode /\ fh'.broken = p.h.broken /\ fh'.pos = fh.pos
  BY <1>1, <1>2 DEF Same
<1>4. CASE fh.broken
  <2>1. fileStatus(fh') = "broken"
    BY <1>1, <1>3, <1>4 DEF fileStatus
  <2> QED
    BY <1>2, <1>3, <1>4, <2>1, BrokenStep
<1>5. CASE ~fh.broken /\ Same(fh, p.h)
  <2>1. Same(fh, fh')
    BY <1>2, <1>5 DEF Same
  <2> QED
    BY <1>2, <1>3, <2>1, RefuseStep
<1>6. CASE ~fh.broken /\ p.h.broken /\ virWrite(fh)
  <2>1. fileStatus(fh) = "w" /\ fileStatus(fh') = "broken"
    BY <1>3, <1>6 DEF fileStatus
  <2>2. FileHandle!PosBreak
    BY <2>1 DEF FileHandle!PosBreak
  <2> QED
    BY <1>2, <1>3, <2>2 DEF FileHandle!PosNext
<1> QED
  BY <1>1, <1>4, <1>5, <1>6 DEF FlushOutcome
-----------------------------------------------------------------------------
(***************************************************************************)
(* The other calls.                                                        *)
(***************************************************************************)

\* fsSync.
LEMMA SyncRefines ==
  ASSUME HandleOK(fh), fsSync
  PROVE  shadowed(fh) /\ HandleOK(fh') /\ fh'.mode = fh.mode /\ FileHandle!PosNext
<1>0. fh \in HandleRec /\ shadowed(fh)
  BY DEF HandleOK, fsSync
<1>1. PICK p \in virFlush(fh), ok \in BOOLEAN :
        fh' = IF p.ok /\ ok THEN [p.h EXCEPT !.out = <<>>] ELSE fhRefuse(p.h)
  BY DEF fsSync, Handle, AskedFor
<1>2. /\ HandleOK(p.h) /\ p.h.mode = fh.mode /\ p.h.pos = fh.pos
      /\ fh.broken => p.h.broken
      /\ ~fh.broken => FlushOutcome(fh, p)
  BY ONLY <1>0, HandleOK(fh), FlushEffect
<1>3. CASE ~p.ok
  <2>1. fh' = fhRefuse(p.h)
    BY <1>1, <1>3
  <2> QED
    BY <1>0, <1>3, <2>1, FlushFails
<1>4. CASE p.ok
  <2>1. HandleOK(fh') /\ Same(p.h, fh') /\ fh'.pos = fh.pos /\ fh'.out \in {<<>>, NotServed}
    <3>1. CASE fh' = fhRefuse(p.h)
      BY <1>2, <3>1, RefuseEffect
    <3>2. CASE fh' = [p.h EXCEPT !.out = <<>>]
      <4>1. PICK e \in Seq(Int) : e = <<>>
        BY ONLY EmptySeq
      <4>2. p.h \in HandleRec /\ p.h.pos \in Nat
        BY <1>2 DEF HandleOK, HandleRec
      <4>3. fh' = Answered(p.h, p.h.pos, e)
        BY <3>2, <4>1, <4>2 DEF Answered, HandleRec
      <4>4. shadowed(p.h)
        BY <1>0, <1>2 DEF shadowed, virWrite
      <4>5. HandleOK(fh') /\ Same(p.h, fh') /\ fh'.pos = p.h.pos /\ fh'.out = e
        BY ONLY <1>2, <4>2, <4>3, <4>4, AnswerEffect
      <4> QED
        BY <1>2, <4>1, <4>5
    <3> QED
      BY <1>1, <3>1, <3>2
  <2>2. fh'.mode = fh.mode /\ fh'.broken = p.h.broken /\ fh'.dev = p.h.dev
        /\ fh'.before = p.h.before
    BY <1>2, <2>1 DEF Same
  <2>3. CASE fh.broken
    <3>1. fileStatus(fh') = "broken"
      BY <1>2, <2>2, <2>3 DEF fileStatus
    <3> QED
      BY <1>0, <2>1, <2>2, <2>3, <3>1, BrokenStep
  <2>4. CASE ~fh.broken
    <3>1. /\ ~p.h.broken /\ fileBytes(p.h) = fileBytes(fh) /\ p.h.dev = fileBytes(fh)
          /\ p.h.before = fh.before
      BY <1>2, <1>4, <2>4 DEF FlushOutcome
    <3>2. p.h \in HandleRec /\ shadowed(p.h)
      BY <1>0, <1>2 DEF HandleOK, shadowed, virWrite
    <3>3. /\ fileStatus(fh') = fileStatus(p.h) /\ fileBytes(fh') = fileBytes(p.h)
          /\ lastAnswer(fh') = fh'.out
      BY ONLY <2>1, <3>2, SameFile
    <3>4. fileStatus(fh) \in {"r", "w"} /\ fileStatus(p.h) = fileStatus(fh)
      BY <1>0, <1>2, <2>4, <3>1 DEF fileStatus, shadowed, virWrite
    <3>5. FileHandle!PosSync \/ FileHandle!PosRefuse
      BY <2>1, <2>2, <3>1, <3>3, <3>4
         DEF FileHandle!PosSync, FileHandle!PosRefuse, FileHandle!Refused, NotServed
    <3> QED
      BY <1>0, <2>1, <2>2, <3>5 DEF FileHandle!PosNext
  <2> QED
    BY <2>3, <2>4
<1> QED
  BY <1>3, <1>4

Closed(b, d, o) == [NoHandle EXCEPT !.before = b, !.dev = d, !.out = o]

\* The empty handle.
LEMMA NoHandleIs ==
  /\ NoHandle \in HandleRec /\ NoHandle.mode = "none" /\ NoHandle.shadow = <<>>
  /\ NoHandle.before = <<>>
  /\ NoHandle.cursor = 0 /\ NoHandle.pos = 0 /\ NoHandle.flushed = FALSE
  /\ NoHandle.dev = <<>> /\ NoHandle.broken = FALSE /\ NoHandle.rows = 0
  /\ NoHandle.sat = FALSE /\ NoHandle.still = TRUE /\ NoHandle.out = NotServed
<1>0. NotServed \in Seq(Int)
  BY DEF NotServed
<1>1. PICK w \in Seq(Int) : w = NotServed
  BY ONLY <1>0
<1>2. PICK z \in Seq(Nat) : z = <<>>
  BY ONLY EmptySeq
<1>3. NoHandle = [mode |-> "none", before |-> z, shadow |-> z, cursor |-> 0, pos |-> 0, flushed |-> FALSE,
                  dev |-> z, broken |-> FALSE, rows |-> 0, sat |-> FALSE, entries |-> 0,
                  still |-> TRUE, out |-> w]
  BY ONLY <1>1, <1>2, Zenon DEF NoHandle
<1>4. /\ NoHandle \in HandleRec /\ NoHandle.mode = "none" /\ NoHandle.shadow = z
      /\ NoHandle.before = z
      /\ NoHandle.cursor = 0 /\ NoHandle.pos = 0 /\ NoHandle.flushed = FALSE
      /\ NoHandle.dev = z /\ NoHandle.broken = FALSE /\ NoHandle.rows = 0
      /\ NoHandle.sat = FALSE /\ NoHandle.still = TRUE /\ NoHandle.out = w
  BY ONLY <1>3 DEF HandleRec, Modes
<1> QED
  BY ONLY <1>1, <1>2, <1>4

\* An answer without bytes.
LEMMA AnswerType == \A a \in {<<>>, NotServed} : a \in Seq(Int)
<1>1. NotServed \in Seq(Int)
  BY DEF NotServed
<1> QED
  BY <1>1, EmptySeq

\* The handle that a close leaves.
LEMMA ClosedIs ==
  ASSUME NEW b \in Seq(Nat), NEW d \in Seq(Nat), NEW o \in Seq(Int)
  PROVE  /\ HandleOK(Closed(b, d, o)) /\ Closed(b, d, o).mode = NoHandle.mode
         /\ Closed(b, d, o).shadow = NoHandle.shadow /\ Closed(b, d, o).pos = NoHandle.pos
         /\ Closed(b, d, o).broken = NoHandle.broken
         /\ Closed(b, d, o).dev = d /\ Closed(b, d, o).out = o /\ Closed(b, d, o).before = b
<1>1. PICK g : g = Closed(b, d, o)
  OBVIOUS
<1>2. /\ g \in HandleRec /\ g.mode = "none" /\ g.shadow = NoHandle.shadow
      /\ g.pos = NoHandle.pos /\ g.dev = d /\ g.out = o /\ g.broken = NoHandle.broken
      /\ g.before = b
  BY ONLY NoHandleIs, b \in Seq(Nat), d \in Seq(Nat), o \in Seq(Int), <1>1
     DEF Closed, HandleRec
<1>3. g.shadow = <<>> /\ g.pos = 0 /\ g.broken = FALSE
  BY ONLY <1>2, NoHandleIs
<1>4. HandleOK(g)
  BY ONLY <1>2, <1>3 DEF HandleOK, NoFile, Reader, Writer, virWrite
<1>5. g.mode = NoHandle.mode
  BY ONLY <1>2, NoHandleIs
<1> QED
  BY ONLY <1>1, <1>2, <1>4, <1>5

\* fsClose.
LEMMA CloseRefines ==
  ASSUME HandleOK(fh), fsClose
  PROVE  HandleOK(fh') /\ FileHandle!PosNext /\ fh'.mode \in {"none", "r", "w", "rw"}
<1>0. fh \in HandleRec /\ fh.mode \in {"d", "r", "w", "rw"}
  BY DEF HandleOK, fsClose, HandleRec, Modes
<1>1. PICK p \in virFlush(fh), ok \in BOOLEAN :
        fh' = IF p.ok THEN Closed(p.h.before, p.h.dev, IF ok THEN <<>> ELSE NotServed)
              ELSE fhRefuse(p.h)
  BY DEF fsClose, Handle, AskedFor, Closed
<1>2. CASE fh.mode = "d"
  <2>1. p.ok /\ p.h = fh
    <3>1. ~virWrite(fh)
      BY <1>2 DEF virWrite
    <3>2. virFlush(fh) = {[ok |-> TRUE, h |-> fh]}
      BY ONLY <3>1, Zenon DEF virFlush
    <3> QED
      BY <3>2
  <2>2. fh.dev = <<>> /\ fh.shadow = <<>> /\ fh.pos = 0 /\ ~fh.broken /\ fh.dev \in Seq(Nat)
        /\ fh.before \in Seq(Nat)
    BY <1>0, <1>2 DEF HandleOK, NoFile, HandleRec
  <2>3. /\ HandleOK(fh') /\ fh'.mode = "none" /\ fh'.shadow = <<>> /\ fh'.pos = 0
        /\ fh'.dev = fh.dev /\ fh'.broken = FALSE
    <3>1. PICK b \in Seq(Nat), d \in Seq(Nat) : b = fh.before /\ d = fh.dev
      BY ONLY <2>2, Zenon
    <3>2. PICK a \in Seq(Int) : fh' = Closed(b, d, a)
      BY <1>1, <2>1, <3>1, AnswerType, Zenon
    <3>3. /\ HandleOK(fh') /\ fh'.mode = "none" /\ fh'.shadow = <<>> /\ fh'.pos = 0
          /\ fh'.dev = d /\ fh'.broken = FALSE
      <4>1. PICK g : g = Closed(b, d, a)
        OBVIOUS
      <4>2. HandleOK(g)
        BY ONLY <4>1, ClosedIs
      <4>5. /\ g.mode = NoHandle.mode /\ g.shadow = NoHandle.shadow /\ g.pos = NoHandle.pos
            /\ g.broken = NoHandle.broken /\ g.dev = d
        BY ONLY <4>1, ClosedIs
      <4>3. g.mode = "none" /\ g.shadow = <<>> /\ g.pos = 0 /\ g.dev = d /\ g.broken = FALSE
        BY ONLY <4>5, NoHandleIs, Zenon
      <4>4. fh' = g
        BY ONLY <3>2, <4>1
      <4> QED
        BY ONLY <4>2, <4>3, <4>4
    <3> QED
      BY ONLY <3>1, <3>3, Zenon
  <2>4. FileHandle!PosOther
    BY <1>2, <2>2, <2>3 DEF FileHandle!PosOther, fileStatus, fileBytes, virWrite
  <2> QED
    BY <2>3, <2>4 DEF FileHandle!PosNext
<1>3. CASE shadowed(fh)
  <2>1. /\ HandleOK(p.h) /\ p.h.mode = fh.mode /\ p.h.pos = fh.pos
        /\ fh.broken => p.h.broken
        /\ ~fh.broken => FlushOutcome(fh, p)
    BY ONLY <1>3, HandleOK(fh), FlushEffect
  <2>2. CASE ~p.ok
    <3>1. fh' = fhRefuse(p.h)
      BY <1>1, <2>2
    <3>2. HandleOK(fh') /\ fh'.mode = fh.mode /\ FileHandle!PosNext
      BY <1>3, <2>2, <3>1, FlushFails
    <3> QED
      BY <1>3, <3>2 DEF shadowed, virWrite
  <2>3. CASE p.ok
    <3>1. p.h.dev \in Seq(Nat) /\ p.h.before \in Seq(Nat)
      BY <2>1 DEF HandleOK, HandleRec
    <3>2. /\ HandleOK(fh') /\ fh'.mode = "none" /\ fh'.shadow = <<>> /\ fh'.pos = 0
          /\ fh'.dev = p.h.dev /\ fh'.out \in {<<>>, NotServed} /\ fh'.broken = FALSE
          /\ fh'.before = p.h.before
      <4>1. PICK b \in Seq(Nat), d \in Seq(Nat) : b = p.h.before /\ d = p.h.dev
        BY ONLY <3>1, Zenon
      <4>2. PICK a \in Seq(Int) : fh' = Closed(b, d, a) /\ a \in {<<>>, NotServed}
        BY <1>1, <2>3, <4>1, AnswerType, Zenon
      <4>3. /\ HandleOK(fh') /\ fh'.mode = "none" /\ fh'.shadow = <<>> /\ fh'.pos = 0
            /\ fh'.dev = d /\ fh'.broken = FALSE /\ fh'.before = b /\ fh'.out = a
        <5>1. PICK g : g = Closed(b, d, a)
          OBVIOUS
        <5>2. HandleOK(g)
          BY ONLY <5>1, ClosedIs
        <5>5. /\ g.mode = NoHandle.mode /\ g.shadow = NoHandle.shadow /\ g.pos = NoHandle.pos
              /\ g.broken = NoHandle.broken /\ g.dev = d /\ g.before = b /\ g.out = a
          BY ONLY <5>1, ClosedIs
        <5>3. /\ g.mode = "none" /\ g.shadow = <<>> /\ g.pos = 0 /\ g.dev = d
              /\ g.broken = FALSE /\ g.before = b /\ g.out = a
          BY ONLY <5>5, NoHandleIs, Zenon
        <5>4. fh' = g
          BY ONLY <4>2, <5>1
        <5> QED
          BY ONLY <5>2, <5>3, <5>4
      <4> QED
        BY ONLY <4>1, <4>2, <4>3, Zenon
    <3>3. fileStatus(fh') = "none" /\ fileBytes(fh') = <<>> /\ lastAnswer(fh') = fh'.out
      BY <3>2 DEF fileStatus, fileBytes, lastAnswer, virWrite
    <3>4. CASE fh.broken
      BY <3>2, <3>3, <3>4, BrokenStep
    <3>5. CASE ~fh.broken
      <4>1. p.h.dev = fileBytes(fh) /\ p.h.before = fh.before
        BY <2>1, <2>3, <3>5 DEF FlushOutcome
      <4>2. fileStatus(fh) \in {"r", "w"}
        BY <1>3, <3>5 DEF fileStatus, shadowed
      <4>3. FileHandle!PosClose
        BY <3>2, <3>3, <4>1, <4>2 DEF FileHandle!PosClose, FileHandle!Refused, NotServed
      <4> QED
        BY <3>2, <4>3 DEF FileHandle!PosNext
    <3> QED
      BY <3>4, <3>5
  <2> QED
    BY <2>2, <2>3
<1> QED
  BY <1>0, <1>2, <1>3 DEF shadowed, virWrite

\* Where a seek counts from is one of the ends of the file, its start or the position.
LEMMA SeekFrom ==
  ASSUME HandleOK(fh), shadowed(fh), ~fh.broken, NEW w \in {"start", "current", "end"}
  PROVE  (CASE w = "start" -> 0 [] w = "current" -> fh.pos [] w = "end" -> virSize(fh))
           \in FileHandle!SeekBase(w)
<1>0. fh \in HandleRec
  BY DEF HandleOK
<1>1. CASE w = "start"
  BY <1>1 DEF FileHandle!SeekBase
<1>2. CASE w = "current"
  BY <1>2 DEF FileHandle!SeekBase
<1>3. CASE w = "end"
  <2>1. virSize(fh) = Len(fileBytes(fh))
        \/ /\ virSize(fh) \in 0 .. Len(fileBytes(fh)) /\ fileStatus(fh) = "w"
           /\ fh.dev = fileBytes(fh)
    <3>1. CASE virWrite(fh) /\ fh.flushed
      <4>1. fileBytes(fh) = fh.dev /\ fileStatus(fh) = "w" /\ virSize(fh) = Len(fh.shadow)
        BY <3>1 DEF fileBytes, fileStatus, virSize
      <4>2. Len(fh.shadow) <= Len(fh.dev) /\ Len(fh.shadow) \in Nat /\ Len(fh.dev) \in Nat
        BY <1>0, <3>1 DEF HandleOK, Writer, Prefix, HandleRec
      <4> QED
        BY ONLY <4>1, <4>2
    <3>2. CASE virWrite(fh) /\ ~fh.flushed
      BY <3>2 DEF fileBytes, virSize, virWrite
    <3>3. CASE ~virWrite(fh)
      BY <3>3 DEF fileBytes, virSize, statPath, shadowed
    <3> QED
      BY <3>1, <3>2, <3>3
  <2>2. FileHandle!SeekBase(w) = {Len(fileBytes(fh))}
          \cup (IF fileStatus(fh) = "w" /\ fh.dev = fileBytes(fh) THEN 0 .. Len(fileBytes(fh)) ELSE {})
    BY <1>3 DEF FileHandle!SeekBase
  <2> QED
    BY ONLY <1>3, <2>1, <2>2
<1> QED
  BY <1>1, <1>2, <1>3

\* Seek.
LEMMA SeekRefines ==
  ASSUME HandleOK(fh), NEW w \in {"start", "current", "end"}, NEW o \in Int, Seek(w, o)
  PROVE  shadowed(fh) /\ HandleOK(fh') /\ Same(fh, fh') /\ FileHandle!PosNext
<1> DEFINE base == CASE w = "start" -> 0 [] w = "current" -> fh.pos [] w = "end" -> virSize(fh)
           to == base + o
<1>0. fh \in HandleRec /\ shadowed(fh)
  BY DEF HandleOK, Seek
<1>1. to \in Int
  <2>1. fh.pos \in Nat /\ virSize(fh) \in Nat
    BY <1>0 DEF HandleRec, virSize, statPath
  <2> QED
    BY <2>1
<1>2. AskedFor(IF to < 0 THEN fhRefuse(fh) ELSE [fh EXCEPT !.pos = to, !.out = <<to>>],
               Asking("seek", w, o))
  BY DEF Seek
<1>3. ~fh.broken => base \in FileHandle!SeekBase(w)
  BY <1>0, SeekFrom
<1> HIDE DEF base
<1>4. to = base + o
  OBVIOUS
<1> HIDE DEF to
<1>5. CASE to < 0
  <2>0. fh' = fhRefuse(fh)
    BY <1>2, <1>5 DEF AskedFor
  <2>1. HandleOK(fh') /\ Same(fh, fh') /\ fh'.pos = fh.pos /\ fh'.out = NotServed
    BY ONLY <2>0, RefuseEffect, HandleOK(fh)
  <2> QED
    BY <1>0, <2>1, RefuseStep
<1>6. CASE ~(to < 0)
  <2>1. to \in Nat
    BY ONLY <1>1, <1>6
  <2>2. PICK e \in Seq(Nat) : e = <<to>>
    <3>1. <<to>> \in Seq(Nat)
      BY <2>1
    <3> QED
      BY <3>1
  <2>3. e \in Seq(Int) /\ e # NotServed
    <3>1. e # NotServed
      BY BytesServe
    <3>2. <<to>> \in Seq(Int)
      BY <1>1
    <3> QED
      BY <2>2, <3>1, <3>2
  <2>4. /\ fh' = Answered(fh, to, e)
        /\ fhAsk' = IF fh'.out = NotServed THEN NoAsk ELSE Asking("seek", w, o)
    BY ONLY <1>2, <1>6, <2>2 DEF Answered, AskedFor
  <2>5. HandleOK(fh') /\ Same(fh, fh') /\ fh'.pos = to /\ fh'.out = e
    BY ONLY <1>0, <2>1, <2>3, <2>4, HandleOK(fh), AnswerEffect
  <2>6. fhAsk'.call = "seek" /\ fhAsk'.whence = w /\ fhAsk'.offset = o
    BY ONLY <2>3, <2>4, <2>5 DEF Asking
  <2>7. /\ fileStatus(fh') = fileStatus(fh) /\ fileBytes(fh') = fileBytes(fh)
        /\ fh'.dev = fh.dev /\ fh'.before = fh.before /\ lastAnswer(fh') = fh'.out
        /\ fileStatus(fh) = IF fh.broken THEN "broken" ELSE IF virWrite(fh) THEN "w" ELSE "r"
    BY ONLY <1>0, <2>5, SameFile
  <2>8. CASE fh.broken
    BY <1>0, <2>5, <2>7, <2>8, BrokenStep
  <2>9. CASE ~fh.broken
    <3>1. fh'.pos >= 0 /\ lastAnswer(fh') = <<fh'.pos>>
      BY ONLY <2>1, <2>2, <2>5, <2>7
    <3>2. FileHandle!PosSeek
      BY ONLY <1>3, <1>4, <2>5, <2>6, <2>7, <2>9, <3>1 DEF FileHandle!PosSeek
    <3> QED
      BY <1>0, <2>5, <3>2 DEF FileHandle!PosNext
  <2> QED
    BY <2>8, <2>9
<1> QED
  BY <1>5, <1>6

Resized(w, n) == [i \in 1 .. n |-> IF i \in DOMAIN w THEN w[i] ELSE 0]

OldPart(s, t, n) == SubSeq(Resized(s \o t, n), 1, Least(n, Len(s)))

NewPart(s, t, n) == SubSeq(Resized(s \o t, n), Len(s) + 1, n)

\* The device file after a resize is made of bytes, and a resize to its own length
\* changes nothing.
LEMMA ResizedIs ==
  ASSUME NEW s \in Seq(Nat), NEW t \in Seq(Nat), NEW n \in Nat
  PROVE  /\ OldPart(s, t, n) \in Seq(Nat) /\ NewPart(s, t, n) \in Seq(Nat)
         /\ Len(s \o t) = Len(s) + Len(t)
         /\ n = Len(s \o t) => OldPart(s, t, n) = s /\ NewPart(s, t, n) = t
<1> DEFINE whole == s \o t
           cut == [i \in 1 .. n |-> IF i \in DOMAIN whole THEN whole[i] ELSE 0]
           u == SubSeq(cut, 1, Least(n, Len(s)))
           v == SubSeq(cut, Len(s) + 1, n)
<1>0. Len(s) \in Nat /\ Len(t) \in Nat
  OBVIOUS
<1>1. /\ whole \in Seq(Nat) /\ Len(whole) = Len(s) + Len(t)
      /\ \A i \in 1 .. Len(whole) :
           whole[i] = IF i <= Len(s) THEN s[i] ELSE t[i - Len(s)]
  BY ConcatProperties
<1> HIDE DEF whole
<1>2. \A i \in 1 .. n : cut[i] \in Nat /\ (i \in 1 .. Len(whole) => cut[i] = whole[i])
  BY <1>1
<1>3. cut \in Seq(Nat) /\ Len(cut) = n
  <2>1. cut \in [1 .. n -> Nat]
    BY <1>2
  <2> HIDE DEF cut
  <2> QED
    BY <2>1
<1> HIDE DEF cut
<1>4. Least(n, Len(s)) \in Nat /\ Least(n, Len(s)) <= Len(cut)
  BY ONLY <1>0, <1>3, n \in Nat DEF Least
<1>5. u \in Seq(Nat) /\ Len(u) = Least(n, Len(s)) /\ Prefix(u, cut)
  BY ONLY <1>3, <1>4, CutIs
<1>6. CASE Len(s) <= n
  <2>1. /\ v \in Seq(Nat) /\ Len(v) = n - Len(s)
        /\ \A i \in 1 .. (n - Len(s)) : v[i] = cut[Len(s) + i]
    BY ONLY <1>0, <1>3, <1>6, SliceIs, n \in Nat
  <2> HIDE DEF u, v
  <2>2. ASSUME n = Len(whole) PROVE u = s /\ v = t
    <3>1. cut = whole
      BY ONLY <1>1, <1>2, <1>3, <2>2, SeqEqual
    <3>2. Len(u) = Len(s) /\ \A i \in 1 .. Len(s) : u[i] = s[i]
      BY ONLY <1>0, <1>1, <1>5, <1>6, <2>2, <3>1, n \in Nat DEF Least, Prefix
    <3>3. Len(v) = Len(t) /\ \A i \in 1 .. Len(t) : v[i] = t[i]
      <4>1. n - Len(s) = Len(t) /\ \A i \in 1 .. Len(t) : v[i] = whole[Len(s) + i]
        BY ONLY <1>0, <1>1, <2>1, <2>2, <3>1
      <4>2. ASSUME NEW i \in 1 .. Len(t) PROVE whole[Len(s) + i] = t[i]
        <5>1. Len(s) + i \in 1 .. Len(whole) /\ ~(Len(s) + i <= Len(s)) /\ (Len(s) + i) - Len(s) = i
          BY ONLY <1>0, <1>1, i \in 1 .. Len(t)
        <5> HIDE DEF v
        <5> QED
          BY ONLY <1>1, <5>1
      <4> QED
        BY ONLY <2>1, <4>1, <4>2
    <3>4. u = s
      BY ONLY <1>5, <3>2, SeqEqual, s \in Seq(Nat)
    <3>5. v = t
      BY ONLY <2>1, <3>3, SeqEqual, t \in Seq(Nat)
    <3> QED
      BY <3>4, <3>5
  <2>3. u \in Seq(Nat) /\ v \in Seq(Nat)
    BY <1>5, <2>1
  <2> QED
    BY ONLY <1>1, <2>2, <2>3 DEF u, v, whole, cut, OldPart, NewPart, Resized
<1>7. CASE ~(Len(s) <= n)
  <2>1. n # Len(whole)
    BY ONLY <1>0, <1>1, <1>7, n \in Nat
  <2>2. v = <<>>
    BY ONLY <1>0, <1>3, <1>7, SubSeqEmpty, n \in Nat
  <2>3. u \in Seq(Nat) /\ v \in Seq(Nat)
    BY ONLY <1>5, <2>2, EmptySeq
  <2> HIDE DEF u, v
  <2> QED
    BY ONLY <1>1, <2>1, <2>3 DEF u, v, whole, cut, OldPart, NewPart, Resized
<1> QED
  BY <1>6, <1>7

\* Ftruncate.
LEMMA TruncateRefines ==
  ASSUME HandleOK(fh), NEW n \in Nat, Ftruncate(n)
  PROVE  shadowed(fh) /\ HandleOK(fh') /\ fh'.mode = fh.mode /\ FileHandle!PosNext
<1>0. fh \in HandleRec /\ shadowed(fh)
  BY DEF HandleOK, Ftruncate
<1>1. /\ fh.dev \in Seq(Nat) /\ fh.shadow \in Seq(Nat) /\ fh.cursor \in Nat /\ fh.pos \in Nat
      /\ fh.flushed \in BOOLEAN /\ fh.broken \in BOOLEAN
      /\ Len(fh.dev) \in Nat /\ Len(fh.shadow) \in Nat
  BY <1>0 DEF HandleRec
<1>2. PICK e \in Seq(Int) : e = <<>>
  BY ONLY EmptySeq
<1>3. CASE fh.mode = "r"
  <2>1. fh' = fhRefuse(fh)
    BY <1>3 DEF Ftruncate, AskedFor
  <2>2. HandleOK(fh') /\ Same(fh, fh') /\ fh'.pos = fh.pos /\ fh'.out = NotServed
    BY ONLY <2>1, RefuseEffect, HandleOK(fh)
  <2> QED
    BY <1>0, <2>2, RefuseStep DEF Same
<1>4. ASSUME fh'.out = <<>>, fh.mode # "r"
      PROVE  fhAsk'.call = "truncate" /\ fhAsk'.offset = n
  <2>1. fh'.out # NotServed
    BY <1>4 DEF NotServed
  <2> QED
    BY <1>4, <2>1 DEF Ftruncate, AskedFor, Asking
<1>5. CASE virWrite(fh) /\ ~fh.flushed
  <2> DEFINE m == Least(n, Len(fh.shadow))
             c == SubSeq(fh.shadow, 1, m)
             q == Least(fh.pos, n)
  <2>1. m \in Nat /\ m <= Len(fh.shadow)
        /\ 0 + m = 0 + (IF n < Len(fh.shadow) THEN n ELSE Len(fh.shadow)) /\ 0 + m = m
    BY ONLY <1>1, n \in Nat DEF Least
  <2>2. q \in Nat /\ q = IF fh.pos > n THEN n ELSE fh.pos
    BY ONLY <1>1, n \in Nat DEF Least
  <2>0. fh.mode # "r"
    BY <1>5 DEF virWrite
  <2>3. fh' = [fh EXCEPT !.shadow = c, !.pos = q, !.out = e]
    BY <1>0, <1>2, <1>5, <2>0 DEF Ftruncate, AskedFor, HandleRec
  <2> HIDE DEF m
  <2>4. c \in Seq(Nat)
    BY ONLY <1>1, <2>1, CutIs
  <2> HIDE DEF c, q
  <2>5. fh' \in HandleRec
    BY ONLY <1>0, <2>2, <2>3, <2>4 DEF HandleRec
  <2>6. /\ fh'.mode = fh.mode /\ fh'.shadow = c /\ fh'.pos = q /\ fh'.out = e
        /\ fh'.dev = fh.dev /\ fh'.cursor = fh.cursor /\ fh'.flushed = fh.flushed
        /\ fh'.broken = fh.broken /\ fh'.before = fh.before
    BY ONLY <1>0, <2>3 DEF HandleRec
  <2>7. HandleOK(fh')
    BY ONLY <1>5, <2>5, <2>6, HandleOK(fh) DEF HandleOK, NoFile, Reader, Writer, virWrite
  <2>8. CASE fh.broken
    <3>1. fileStatus(fh') = "broken"
      BY <2>6, <2>8 DEF fileStatus
    <3> QED
      BY <1>0, <2>6, <2>7, <2>8, <3>1, BrokenStep
  <2>9. CASE ~fh.broken
    <3>1. /\ fileStatus(fh) = "w" /\ fileStatus(fh') = "w" /\ fileBytes(fh) = fh.shadow
          /\ fileBytes(fh') = c /\ lastAnswer(fh') = e
      BY ONLY <1>5, <2>6, <2>9 DEF fileStatus, fileBytes, lastAnswer, virWrite
    <3>2. c = SubSeq(fh.shadow, 0 + 1,
                     0 + (IF n < Len(fh.shadow) THEN n ELSE Len(fh.shadow)))
      <4>1. 0 + 1 = 1
        OBVIOUS
      <4> QED
        BY ONLY <2>1, <4>1 DEF c
    <3>3. fhAsk'.call = "truncate" /\ fhAsk'.offset = n
      BY <1>2, <1>4, <2>0, <2>6
    <3>4. FileHandle!PosTruncate
      BY ONLY <1>2, <2>2, <2>6, <3>1, <3>2, <3>3 DEF FileHandle!PosTruncate, FileHandle!Slice
    <3> QED
      BY <1>0, <2>6, <2>7, <3>4 DEF FileHandle!PosNext
  <2> QED
    BY <2>8, <2>9
<1>6. CASE virWrite(fh) /\ fh.flushed
  <2> DEFINE whole == fh.before \o fh.dev
             u == OldPart(fh.before, fh.dev, n)
             d == NewPart(fh.before, fh.dev, n)
             x == fh.broken \/ n # Len(whole)
  <2>0. fh.mode # "r" /\ fh.before \in Seq(Nat)
    BY <1>0, <1>6 DEF virWrite, HandleRec
  <2>1. /\ u \in Seq(Nat) /\ d \in Seq(Nat) /\ Len(whole) = Len(fh.before) + Len(fh.dev)
        /\ n = Len(whole) => u = fh.before /\ d = fh.dev
    BY ONLY <1>1, <2>0, n \in Nat, ResizedIs
  <2>2. fh' = [fh EXCEPT !.before = u, !.dev = d, !.broken = x, !.out = e]
    BY <1>0, <1>2, <1>6, <2>0
       DEF Ftruncate, AskedFor, DevResized, OldPart, NewPart, Resized, HandleRec
  <2>3. x \in BOOLEAN
    OBVIOUS
  <2> HIDE DEF u, d, x, whole
  <2>5. fh' \in HandleRec
    BY ONLY <1>0, <2>1, <2>2, <2>3 DEF HandleRec
  <2>6. /\ fh'.mode = fh.mode /\ fh'.shadow = fh.shadow /\ fh'.pos = fh.pos /\ fh'.out = e
        /\ fh'.dev = d /\ fh'.cursor = fh.cursor /\ fh'.flushed = fh.flushed
        /\ fh'.broken = x /\ fh'.before = u
    BY ONLY <1>0, <2>2 DEF HandleRec
  <2>7. CASE x
    <3>1. HandleOK(fh')
      BY ONLY <1>6, <2>5, <2>6, <2>7, HandleOK(fh) DEF HandleOK, NoFile, Reader, Writer, virWrite
    <3>2. fileStatus(fh') = "broken"
      BY <2>6, <2>7 DEF fileStatus
    <3>3. CASE fh.broken
      BY <1>0, <2>6, <3>1, <3>2, <3>3, BrokenStep
    <3>4. CASE ~fh.broken
      <4>1. fileStatus(fh) = "w"
        BY <1>6, <3>4 DEF fileStatus
      <4>2. FileHandle!PosBreak
        BY <3>2, <4>1 DEF FileHandle!PosBreak
      <4> QED
        BY <1>0, <2>6, <3>1, <4>2 DEF FileHandle!PosNext
    <3> QED
      BY <3>3, <3>4
  <2>8. CASE ~x
    <3>1. ~fh.broken /\ n = Len(whole)
      BY <2>8 DEF x
    <3>2. u = fh.before /\ d = fh.dev /\ n = Len(fh.before) + Len(fh.dev)
      BY ONLY <2>1, <3>1
    <3>3. fh'.broken = fh.broken
      BY <1>1, <2>3, <2>6, <2>8, <3>1
    <3>4. HandleOK(fh')
      BY ONLY <1>1, <1>6, <2>5, <2>6, <3>2, <3>3, HandleOK(fh)
         DEF HandleOK, NoFile, Reader, Writer, virWrite
    <3>5. /\ fileStatus(fh) = "w" /\ fileStatus(fh') = "w" /\ fileBytes(fh) = fh.dev
          /\ fileBytes(fh') = fh.dev /\ lastAnswer(fh') = e
      BY ONLY <1>6, <2>6, <3>1, <3>2, <3>3 DEF fileStatus, fileBytes, lastAnswer, virWrite
    <3>6. fhAsk'.call = "truncate" /\ fhAsk'.offset = n
      BY <1>2, <1>4, <2>0, <2>6
    <3>7. FileHandle!PosTruncate
      BY ONLY <1>2, <2>6, <3>2, <3>5, <3>6 DEF FileHandle!PosTruncate
    <3> QED
      BY <1>0, <2>6, <3>4, <3>7 DEF FileHandle!PosNext
  <2> QED
    BY <2>7, <2>8
<1> QED
  BY <1>0, <1>3, <1>5, <1>6 DEF shadowed

\* A refusal is not an empty answer.
LEMMA RefusalIsNoEnd == NotServed # <<>>
BY DEF NotServed

\* fsOpen.
LEMMA OpenRefines ==
  ASSUME HandleOK(fh), fsOpen
  PROVE  HandleOK(fh') /\ DirInv(fh') /\ FileHandle!PosNext
<1>0. fh \in HandleRec /\ fh.mode = "none"
  BY DEF HandleOK, fsOpen
<1>1. /\ fh.shadow = <<>> /\ fh.pos = 0 /\ fh.broken = FALSE
      /\ fileStatus(fh) = "none" /\ fileBytes(fh) = <<>>
  BY <1>0 DEF HandleOK, HandleRec, NoFile, fileStatus, fileBytes, virWrite
<1>2. ASSUME NEW m \in {"w", "rw"}, NEW c \in OldContents \cup {<<>>},
             fh' = [NoHandle EXCEPT !.mode = m, !.before = c]
      PROVE  HandleOK(fh') /\ DirInv(fh') /\ FileHandle!PosNext
  <2>0. c \in Seq(Nat)
    BY FileAssumption, EmptySeq
  <2>1. /\ fh' \in HandleRec /\ fh'.mode = m /\ fh'.shadow = NoHandle.shadow
        /\ fh'.before = c
        /\ fh'.cursor = NoHandle.cursor /\ fh'.pos = NoHandle.pos
        /\ fh'.flushed = NoHandle.flushed /\ fh'.dev = NoHandle.dev
        /\ fh'.broken = NoHandle.broken /\ fh'.out = NoHandle.out
    BY ONLY <1>2, <2>0, NoHandleIs DEF HandleRec, Modes
  <2>2. /\ fh'.shadow = <<>> /\ fh'.cursor = 0 /\ fh'.pos = 0 /\ fh'.flushed = FALSE
        /\ fh'.dev = <<>> /\ fh'.broken = FALSE /\ fh'.out = NotServed
    BY ONLY <2>1, NoHandleIs
  <2>3. HandleOK(fh') /\ DirInv(fh')
    BY ONLY <1>2, <2>1, <2>2 DEF HandleOK, NoFile, Reader, Writer, virWrite, DirInv
  <2>4. fileStatus(fh') = "w" /\ fileBytes(fh') = <<>> /\ lastAnswer(fh') = NotServed
    BY ONLY <1>2, <2>1, <2>2 DEF fileStatus, fileBytes, lastAnswer, virWrite
  <2>5. FileHandle!PosOpen
    BY ONLY <1>1, <2>1, <2>2, <2>4, c \in OldContents \cup {<<>>}
       DEF FileHandle!PosOpen, FileHandle!Refused, NotServed
  <2> QED
    BY <2>3, <2>5 DEF FileHandle!PosNext
<1>3. ASSUME NEW c \in FileContents, fh' = [NoHandle EXCEPT !.mode = "r", !.dev = c]
      PROVE  HandleOK(fh') /\ DirInv(fh') /\ FileHandle!PosNext
  <2>0. c \in Seq(Nat)
    BY FileAssumption
  <2>1. /\ fh' \in HandleRec /\ fh'.mode = "r" /\ fh'.shadow = NoHandle.shadow
        /\ fh'.before = NoHandle.before
        /\ fh'.cursor = NoHandle.cursor /\ fh'.pos = NoHandle.pos /\ fh'.dev = c
        /\ fh'.broken = NoHandle.broken /\ fh'.out = NoHandle.out
    BY ONLY <1>3, <2>0, NoHandleIs DEF HandleRec, Modes
  <2>2. /\ fh'.shadow = <<>> /\ fh'.cursor = 0 /\ fh'.pos = 0 /\ fh'.broken = FALSE
        /\ fh'.out = NotServed /\ fh'.before = <<>>
    BY ONLY <2>1, NoHandleIs
  <2>3. Prefix(<<>>, c) /\ Len(<<>>) = 0 /\ Len(c) \in Nat /\ Least(0, virShadowMax) = 0
    BY ONLY <2>0, FileAssumption DEF Prefix, Least
  <2>4. HandleOK(fh') /\ DirInv(fh')
    BY ONLY <2>1, <2>2, <2>3 DEF HandleOK, NoFile, Reader, Writer, virWrite, DirInv
  <2>5. fileStatus(fh') = "r" /\ fileBytes(fh') = c /\ lastAnswer(fh') = NotServed
    BY ONLY <2>1, <2>2 DEF fileStatus, fileBytes, lastAnswer, virWrite
  <2>6. FileHandle!PosOpen
    BY ONLY <1>1, <2>1, <2>2, <2>5, c \in FileContents
       DEF FileHandle!PosOpen, FileHandle!Refused, NotServed
  <2> QED
    BY <2>4, <2>6 DEF FileHandle!PosNext
<1>4. ASSUME fh.dev = <<>>, NEW n \in DirSizes,
             fh' = [NoHandle EXCEPT !.mode = "d", !.entries = n]
      PROVE  HandleOK(fh') /\ DirInv(fh') /\ FileHandle!PosNext
  <2>0. n \in Nat /\ DirRowsMax \in Nat /\ 0 < DirRowsMax
    BY FileAssumption
  <2>1. /\ fh' \in HandleRec /\ fh'.mode = "d" /\ fh'.shadow = NoHandle.shadow
        /\ fh'.pos = NoHandle.pos /\ fh'.dev = NoHandle.dev /\ fh'.entries = n
        /\ fh'.rows = NoHandle.rows
        /\ fh'.broken = NoHandle.broken /\ fh'.out = NoHandle.out
    BY ONLY <1>4, <2>0, NoHandleIs DEF HandleRec, Modes
  <2>2. /\ fh'.shadow = <<>> /\ fh'.pos = 0 /\ fh'.broken = FALSE /\ fh'.dev = <<>>
        /\ fh'.out = NotServed /\ fh'.rows = 0
    BY ONLY <2>1, NoHandleIs
  <2>3. HandleOK(fh')
    BY ONLY <2>1, <2>2 DEF HandleOK, NoFile, Reader, Writer, virWrite
  <2>4. DirInv(fh')
    BY ONLY <2>0, <2>1, <2>2, RefusalIsNoEnd DEF DirInv
  <2>5. fileStatus(fh') = "none" /\ fileBytes(fh') = <<>>
    BY ONLY <2>1, <2>2 DEF fileStatus, fileBytes, virWrite
  <2>6. FileHandle!PosOther
    BY ONLY <1>1, <1>4, <2>2, <2>5 DEF FileHandle!PosOther
  <2> QED
    BY <2>3, <2>4, <2>6 DEF FileHandle!PosNext
<1>5. CASE fh' = fhRefuse(fh)
  <2>1. HandleOK(fh') /\ Same(fh, fh') /\ fh'.pos = fh.pos /\ fh'.out = NotServed
    BY ONLY <1>5, RefuseEffect, HandleOK(fh)
  <2>2. /\ fh'.mode = "none" /\ fh'.dev = fh.dev /\ fh'.shadow = fh.shadow
        /\ fh'.broken = fh.broken /\ fh'.before = fh.before
    BY <1>0, <2>1 DEF Same
  <2>3. fileStatus(fh') = "none" /\ fileBytes(fh') = <<>> /\ lastAnswer(fh') = NotServed
    BY ONLY <1>1, <2>1, <2>2 DEF fileStatus, fileBytes, virWrite, lastAnswer
  <2>4. FileHandle!PosRefuse
    BY ONLY <1>1, <2>1, <2>2, <2>3 DEF FileHandle!PosRefuse, FileHandle!Refused, NotServed
  <2> QED
    BY <2>1, <2>2, <2>4 DEF FileHandle!PosNext, DirInv
<1> QED
  BY <1>2, <1>3, <1>4, <1>5 DEF fsOpen, Handle, AskedFor

\* A step of a directory handle changes nothing of the file.
LEMMA DirStutters ==
  ASSUME fh.mode = "d", ~fh.broken, fh'.mode = "d", fh'.broken = fh.broken,
         fh'.shadow = fh.shadow, fh'.pos = fh.pos, fh'.dev = fh.dev
  PROVE  FileHandle!PosNext
BY DEF FileHandle!PosNext, FileHandle!PosOther, fileStatus, fileBytes, virWrite

\* dirChanges.
LEMMA ChangeStutters ==
  ASSUME HandleOK(fh), dirChanges
  PROVE  HandleOK(fh') /\ DirInv(fh') /\ FileHandle!PosNext
<1>0. fh \in HandleRec /\ fh.mode = "d" /\ ~fh.broken /\ NotServed \in Seq(Int)
  BY DEF HandleOK, dirChanges, NotServed, NoFile
<1>1. PICK n \in Nat : fh' = [fh EXCEPT !.entries = n, !.still = FALSE, !.out = NotServed]
  BY FileAssumption DEF dirChanges, Handle, AskedFor
<1>2. /\ fh' \in HandleRec /\ fh'.mode = "d" /\ fh'.broken = fh.broken
      /\ fh'.shadow = fh.shadow /\ fh'.pos = fh.pos /\ fh'.dev = fh.dev /\ fh'.still = FALSE
  BY ONLY <1>0, <1>1 DEF HandleRec
<1>3. HandleOK(fh') /\ DirInv(fh')
  BY ONLY <1>0, <1>2, HandleOK(fh) DEF HandleOK, NoFile, Reader, Writer, virWrite, DirInv
<1> QED
  BY <1>0, <1>2, <1>3, DirStutters

\* The arithmetic of one window: from the rows delivered so far, what a call
\* delivers stays inside the listing and is empty only at its end.
LEMMA WindowArithmetic ==
  ASSUME NEW entries \in Nat, NEW done \in Nat, NEW limit \in Nat, limit > 0
  PROVE  LET rows == Least(entries, DirRowsMax)
             from == Least(done, rows)
             n == Least(limit, rows - from)
         IN  /\ n \in Nat /\ from \in Nat /\ from + n <= entries
             /\ rows # DirRowsMax => from + n < DirRowsMax
             /\ done < DirRowsMax /\ done <= entries /\ n = 0 => from + n = entries
BY FileAssumption DEF Least

\* ReadDirent.
LEMMA DirentStutters ==
  ASSUME HandleOK(fh), DirInv(fh), NEW limit \in Nat, limit > 0, ReadDirent(limit)
  PROVE  HandleOK(fh') /\ DirInv(fh') /\ FileHandle!PosNext
<1>0. /\ fh \in HandleRec /\ fh.mode = "d" /\ fh.rows \in Nat /\ fh.entries \in Nat
      /\ fh.sat \in BOOLEAN /\ fh.still \in BOOLEAN /\ ~fh.broken
  BY DEF HandleOK, ReadDirent, HandleRec, NoFile
<1>1. CASE fh.sat
  <2>1. fh' = fhRefuse(fh)
    BY <1>1 DEF ReadDirent, Handle, AskedFor
  <2>2. HandleOK(fh') /\ Same(fh, fh') /\ fh'.pos = fh.pos /\ fh'.out = NotServed
    BY ONLY <2>1, RefuseEffect, HandleOK(fh)
  <2>3. fh'.rows = fh.rows /\ fh'.entries = fh.entries /\ fh'.sat = fh.sat /\ fh'.still = fh.still
    BY ONLY <1>0, <2>1 DEF fhRefuse, HandleRec
  <2>4. DirInv(fh')
    BY ONLY <1>0, <1>1, <2>2, <2>3, RefusalIsNoEnd, DirInv(fh) DEF DirInv, Same
  <2> QED
    BY <1>0, <2>2, <2>4, DirStutters DEF Same
<1>2. CASE ~fh.sat
  <2> DEFINE rows == Least(fh.entries, DirRowsMax)
             from == Least(fh.rows, rows)
             n == Least(limit, rows - from)
             x == rows = DirRowsMax
             q == from + n
             b == [i \in 1 .. n |-> from + i]
  <2>1. /\ n \in Nat /\ from \in Nat /\ q <= fh.entries
        /\ ~x => q < DirRowsMax
        /\ fh.rows < DirRowsMax /\ fh.rows <= fh.entries /\ n = 0 => q = fh.entries
    BY ONLY <1>0, WindowArithmetic, limit \in Nat, limit > 0
  <2>2. fh' = [fh EXCEPT !.sat = x, !.rows = q, !.out = b]
    <3>1. Saturated(fh, rows) = x
      BY <1>0, <1>2 DEF Saturated
    <3> HIDE DEF rows, x
    <3>2. fh' = [fh EXCEPT !.sat = Saturated(fh, rows), !.rows = q, !.out = b]
      BY <1>2 DEF ReadDirent, Handle, AskedFor, rows
    <3> QED
      BY ONLY <3>1, <3>2
  <2>3. x \in BOOLEAN
    OBVIOUS
  <2> HIDE DEF rows, from, n, x
  <2>4. q \in Nat
    BY ONLY <2>1
  <2>5. b \in Seq(Int) /\ Len(b) = n
    <3>1. \A i \in 1 .. n : from + i \in Int
      BY ONLY <2>1
    <3>2. b \in [1 .. n -> Int]
      BY ONLY <3>1
    <3> HIDE DEF b
    <3> QED
      BY ONLY <2>1, <3>2
  <2> HIDE DEF q, b
  <2>6. /\ fh' \in HandleRec /\ fh'.mode = "d" /\ fh'.broken = fh.broken
        /\ fh'.shadow = fh.shadow /\ fh'.pos = fh.pos /\ fh'.dev = fh.dev
        /\ fh'.still = fh.still /\ fh'.entries = fh.entries /\ fh'.rows = q /\ fh'.sat = x
        /\ fh'.out = b
    BY ONLY <1>0, <2>2, <2>3, <2>4, <2>5 DEF HandleRec
  <2>7. HandleOK(fh')
    BY ONLY <1>0, <2>6, HandleOK(fh) DEF HandleOK, NoFile, Reader, Writer, virWrite
  <2>8. b = <<>> => n = 0
    BY ONLY <2>5
  <2>9. DirInv(fh')
    <3>1. fh.still => fh.rows <= fh.entries /\ fh.rows < DirRowsMax
      BY <1>0, <1>2 DEF DirInv
    <3> QED
      BY ONLY <2>1, <2>6, <2>8, <3>1 DEF DirInv
  <2> QED
    BY <1>0, <2>6, <2>7, <2>9, DirStutters
<1> QED
  BY <1>0, <1>1, <1>2
-----------------------------------------------------------------------------
\* Every step keeps the invariant, and is a step of the file or none.
LEMMA FileStep ==
  ASSUME FileInv, [fhNext]_fhVars
  PROVE  FileInv' /\ [FileHandle!PosNext]_(FileHandle!posVars)
<1>0. HandleOK(fh) /\ DirInv(fh)
  BY DEF FileInv
<1>1. ASSUME HandleOK(fh'), fh'.mode # "d", FileHandle!PosNext
      PROVE  FileInv' /\ [FileHandle!PosNext]_(FileHandle!posVars)
  BY <1>1 DEF FileInv, DirInv
<1>2. ASSUME HandleOK(fh'), DirInv(fh'), FileHandle!PosNext \/ UNCHANGED FileHandle!posVars
      PROVE  FileInv' /\ [FileHandle!PosNext]_(FileHandle!posVars)
  BY <1>2 DEF FileInv
<1>3. shadowed(fh) => fh.mode # "d"
  BY DEF shadowed, virWrite
<1>4. CASE fsOpen
  BY <1>0, <1>2, <1>4, OpenRefines
<1>5. CASE fsSync
  <2>1. shadowed(fh) /\ HandleOK(fh') /\ fh'.mode = fh.mode /\ FileHandle!PosNext
    BY <1>0, <1>5, SyncRefines
  <2> QED
    BY <1>1, <1>3, <2>1
<1>6. CASE fsClose
  <2>1. HandleOK(fh') /\ FileHandle!PosNext /\ fh'.mode \in {"none", "r", "w", "rw"}
    BY <1>0, <1>6, CloseRefines
  <2> QED
    BY <1>1, <2>1
<1>7. CASE dirChanges
  BY <1>0, <1>2, <1>7, ChangeStutters
<1>8. ASSUME NEW n \in 1 .. 2, fsRead(n)
      PROVE  FileInv' /\ [FileHandle!PosNext]_(FileHandle!posVars)
  <2>1. n \in Nat /\ n > 0
    OBVIOUS
  <2>2. shadowed(fh) /\ HandleOK(fh') /\ Same(fh, fh') /\ FileHandle!PosNext
    BY <1>0, <1>8, <2>1, ReadRefines
  <2> QED
    BY <1>1, <1>3, <2>2 DEF Same
<1>9. ASSUME NEW n \in 1 .. 2, ReadDirent(n)
      PROVE  FileInv' /\ [FileHandle!PosNext]_(FileHandle!posVars)
  <2>1. n \in Nat /\ n > 0
    OBVIOUS
  <2> QED
    BY <1>0, <1>2, <1>9, <2>1, DirentStutters
<1>10. ASSUME NEW n \in 1 .. 2, NEW at \in 0 .. 3, Pread(at, n)
       PROVE  FileInv' /\ [FileHandle!PosNext]_(FileHandle!posVars)
  <2>1. n \in Nat /\ n > 0 /\ at \in Nat
    OBVIOUS
  <2>2. shadowed(fh) /\ HandleOK(fh') /\ Same(fh, fh') /\ FileHandle!PosNext
    BY <1>0, <1>10, <2>1, PreadRefines
  <2> QED
    BY <1>1, <1>3, <2>2 DEF Same
<1>11. ASSUME NEW b \in Chunks, virWriteTo(b)
       PROVE  FileInv' /\ [FileHandle!PosNext]_(FileHandle!posVars)
  <2>1. shadowed(fh) /\ HandleOK(fh') /\ fh'.mode = fh.mode /\ FileHandle!PosNext
    BY <1>0, <1>11, WriteRefines
  <2> QED
    BY <1>1, <1>3, <2>1
<1>12. ASSUME NEW n \in 0 .. 2, Ftruncate(n)
       PROVE  FileInv' /\ [FileHandle!PosNext]_(FileHandle!posVars)
  <2>1. n \in Nat
    OBVIOUS
  <2>2. shadowed(fh) /\ HandleOK(fh') /\ fh'.mode = fh.mode /\ FileHandle!PosNext
    BY <1>0, <1>12, <2>1, TruncateRefines
  <2> QED
    BY <1>1, <1>3, <2>2
<1>13. ASSUME NEW w \in {"start", "current", "end"}, NEW o \in {-1, 0, 2}, Seek(w, o)
       PROVE  FileInv' /\ [FileHandle!PosNext]_(FileHandle!posVars)
  <2>1. o \in Int
    OBVIOUS
  <2>2. shadowed(fh) /\ HandleOK(fh') /\ Same(fh, fh') /\ FileHandle!PosNext
    BY <1>0, <1>13, <2>1, SeekRefines
  <2> QED
    BY <1>1, <1>3, <2>2 DEF Same
<1>14. CASE UNCHANGED fhVars
  <2>1. UNCHANGED FileHandle!posVars
    BY <1>14 DEF FileHandle!posVars, fhVars
  <2>2. HandleOK(fh') /\ DirInv(fh')
    BY <1>0, <1>14 DEF fhVars
  <2> QED
    BY <1>2, <2>1, <2>2
<1>15. \A x, y \in FileBytes : <<x>> \in Chunks /\ <<x, y>> \in Chunks
  BY DEF Chunks
<1>16. \/ fsOpen \/ fsSync \/ fsClose \/ dirChanges \/ UNCHANGED fhVars
       \/ \E n \in 1 .. 2 : fsRead(n) \/ ReadDirent(n) \/ \E at \in 0 .. 3 : Pread(at, n)
       \/ \E b \in Chunks : virWriteTo(b)
       \/ \E n \in 0 .. 2 : Ftruncate(n)
       \/ \E w \in {"start", "current", "end"}, o \in {-1, 0, 2} : Seek(w, o)
  BY <1>15 DEF fhNext
<1> QED
  BY <1>4, <1>5, <1>6, <1>7, <1>8, <1>9, <1>10, <1>11, <1>12, <1>13, <1>14, <1>16

\* The first state: no handle, and a file nobody opened.
LEMMA FileInit ==
  ASSUME fhInit
  PROVE  FileInv /\ FileHandle!PosInit
<1>1. fh = NoHandle /\ fhAsk = NoAsk
  BY DEF fhInit
<1>2. HandleOK(fh) /\ DirInv(fh)
  BY ONLY <1>1, NoHandleIs DEF HandleOK, NoFile, Reader, Writer, virWrite, DirInv
<1>3. FileHandle!PosInit
  BY ONLY <1>1, NoHandleIs
     DEF FileHandle!PosInit, FileHandle!Refused, NotServed, NoAsk, fileStatus, fileBytes,
         lastAnswer, virWrite
<1> QED
  BY <1>2, <1>3 DEF FileInv

\* FileInv holds always, whichever system calls fail (fs_virelai.go).
THEOREM FileInvariance == fhSpec => []FileInv
BY FileInit, FileStep, PTL DEF fhSpec

\* A directory that reads to a clean end was delivered whole, for any size of
\* the listing window and of the directory (fs_virelai.go ReadDirent).
THEOREM DirDelivered == fhSpec => []DirComplete
<1>1. FileInv => DirComplete
  BY DEF FileInv, DirInv, DirComplete
<1> QED
  BY <1>1, FileInvariance, PTL

\* A handle of GOOS=virelai implements the file of PosFile, for any file, any shadow
\* size and any chunk of the kernel (fs_virelai.go, "positional I/O"): where the shadow
\* still has the bytes a positioned read returns them, a seek goes where it was told,
\* and a sync or close that returns left the whole file on the device.
THEOREM FileRefinement == fhSpec => ImplementsPosFile
BY FileInit, FileStep, FileInvariance, PTL
   DEF fhSpec, ImplementsPosFile, FileHandle!PosSpec

-----------------------------------------------------------------------------
(* WM_RPC. *)

Kinds == {"none", "set", "navPoll"}
Paths == {"", "p", "t"}
PidFields == {0, ClientPid, TwinPid}

Frame ==
  [reply : BOOLEAN, kind : Kinds, id : {OwnTab, TwinTab}, seq : Nat, replyTo : PidFields,
   applied : BOOLEAN, title : Paths, call : 0 .. MaxCalls]

Caller ==
  [pc : {"idle", "scan", "send", "wait"}, kind : Kinds, seq : Nat,
   call : 0 .. MaxCalls, attempt : Nat, replyTo : PidFields, tick : Nat, ok : BOOLEAN, path : Paths]

rpcTypeOK ==
  rpc \in [seat : BOOLEAN, twin : BOOLEAN, foreign : SUBSET Nat, wmSeq : Nat, calls : 0 .. MaxCalls, ring : Seq(Frame),
           inbox : Seq(Frame), queued : Paths, targets : Nat, faults : Nat,
           told : [1 .. MaxCalls -> Frame], g : [Callers -> Caller]]

(***************************************************************************)
(* Calls that have no sequence number yet, calls not sent yet, and calls   *)
(* that have a sequence number and have not returned.                      *)
(***************************************************************************)
Scanning == {c \in Callers : rpc.g[c].pc = "scan"}
Unsent   == {c \in Callers : rpc.g[c].pc \in {"scan", "send"}}
Numbered == {c \in Callers : rpc.g[c].pc \in {"send", "wait"}}

(***************************************************************************)
(* Each call takes at most one sequence number, so within MaxCalls calls   *)
(* the counter does not come round.                                        *)
(***************************************************************************)
NoWrap == IsFiniteSet(Scanning) /\ rpc.wmSeq + Cardinality(Scanning) <= rpc.calls

(***************************************************************************)
(* Sequence numbers in flight are distinct, and so are the calls that have *)
(* not been sent; the seat has told nothing about those.                   *)
(***************************************************************************)
SeqsDistinct ==
  /\ \A c \in Numbered : rpc.g[c].seq \in 1 .. rpc.wmSeq /\ rpc.g[c].replyTo # 0
  /\ \A c1, c2 \in Numbered : rpc.g[c1].seq = rpc.g[c2].seq => c1 = c2

UnsentFresh ==
  /\ \A c \in Unsent : /\ rpc.g[c].call \in 1 .. rpc.calls
                       /\ rpc.told[rpc.g[c].call] = NoFrame
                       /\ rpc.g[c].kind # "none"
  /\ \A c1, c2 \in Unsent : rpc.g[c1].call = rpc.g[c2].call => c1 = c2
  /\ \A n \in 1 .. MaxCalls : n > rpc.calls => rpc.told[n] = NoFrame

(***************************************************************************)
(* A frame whose number a caller waits for belongs to that caller's call.  *)
(***************************************************************************)
Tagged(f) ==
  \A c \in Numbered :
    rpc.g[c].seq = f.seq => rpc.g[c].call = f.call /\ rpc.g[c].kind = f.kind

Numbers(f) == f.call \in 1 .. rpc.calls /\ f.seq \in 1 .. rpc.wmSeq /\ Tagged(f)

(***************************************************************************)
(* Mail of the second instance, in either ring.                            *)
(***************************************************************************)
Foreign(f) == f.id = TwinTab /\ f.call = 0 /\ f.seq \in rpc.foreign

(***************************************************************************)
(* Mail in the seat's ring is a stray, the second instance's, or a request *)
(* not answered yet; mail in the client's inbox is not addressed, the      *)
(* second instance's, or what the seat said.                               *)
(***************************************************************************)
RingFrame(f) ==
  \/ f \in Strays
  \/ Foreign(f)
  \/ /\ f.id = OwnTab /\ Numbers(f)
     /\ ~f.reply /\ f.kind # "none"
     /\ rpc.told[f.call] = NoFrame
     /\ \A c \in Unsent : rpc.g[c].call # f.call

InboxFrame(f) ==
  \/ f.replyTo = 0
  \/ Foreign(f)
  \/ Numbers(f) /\ f.reply /\ rpc.told[f.call] = f

RingSound ==
  /\ \A i \in 1 .. Len(rpc.ring) : RingFrame(rpc.ring[i])
  /\ \A i, j \in 1 .. Len(rpc.ring) :
       rpc.ring[i].call = rpc.ring[j].call /\ rpc.ring[i].call # 0 => i = j

InboxSound == \A i \in 1 .. Len(rpc.inbox) : InboxFrame(rpc.inbox[i])

(***************************************************************************)
(* AckMatches for one caller, and that the answer has been given.          *)
(***************************************************************************)
OwnAnswer(c) ==
  LET g == rpc.g[c]
  IN  g.pc = "idle" /\ g.ok /\ g.seq \notin rpc.foreign =>
        /\ g.call \in 1 .. rpc.calls
        /\ rpc.told[g.call].reply
        /\ rpc.told[g.call].applied
        /\ rpc.told[g.call].kind = g.kind
        /\ g.path = rpc.told[g.call].title

RpcInv ==
  /\ rpcTypeOK /\ NoWrap /\ SeqsDistinct /\ UnsentFresh
  /\ RingSound /\ InboxSound /\ \A c \in Callers : OwnAnswer(c)

(***************************************************************************)
(* The counter, below the end of its range, steps by one.                  *)
(***************************************************************************)
LEMMA SeqStep ==
  ASSUME NEW n \in Nat, n + 1 < SeqSpace
  PROVE  nextWmSeq(n) = n + 1 /\ (n + 1) % SeqSpace = n + 1
  <1>1. (n + 1) % SeqSpace = n + 1
    BY CallsFitSequence
  <1> QED BY <1>1 DEF nextWmSeq

(***************************************************************************)
(* What enqueueing and dequeueing do to a ring.                            *)
(***************************************************************************)
LEMMA SendEffect ==
  ASSUME NEW ring \in Seq(Frame), NEW f \in Frame, NEW new, new = IpcSend(ring, f)
  PROVE  /\ new \in Seq(Frame)
         /\ \/ new = ring
            \/ /\ Len(new) = Len(ring) + 1
               /\ \A i \in 1 .. Len(ring) : new[i] = ring[i]
               /\ new[Len(ring) + 1] = f
  BY DEF IpcSend

(***************************************************************************)
(* Taking the head of a ring keeps the other frames, in order.             *)
(***************************************************************************)
LEMMA TakeEffect ==
  ASSUME NEW ring \in Seq(Frame), ring # <<>>
  PROVE  /\ Tail(ring) \in Seq(Frame) /\ Len(Tail(ring)) = Len(ring) - 1
         /\ Len(ring) \in Nat /\ Len(ring) > 0
         /\ Head(ring) = ring[1] /\ Head(ring) \in Frame
         /\ \A i \in 1 .. Len(Tail(ring)) : Tail(ring)[i] = ring[i + 1]
  OBVIOUS

(***************************************************************************)
(* Stray mail belongs to no call, is addressed to no client and is no      *)
(* request.                                                                *)
(***************************************************************************)
LEMMA StrayShape ==
  \A f \in Strays : f \in Frame /\ f.call = 0 /\ f.replyTo = 0 /\ f.kind = "none"
  <1>1. NoFrame \in Frame /\ NoFrame.call = 0 /\ NoFrame.replyTo = 0
        /\ NoFrame.kind = "none"
    BY CallsFitSequence DEF NoFrame, Frame, Kinds, Paths, PidFields, OwnTab, TwinTab, ClientPid
  <1> DEFINE h == [NoFrame EXCEPT !.reply = TRUE, !.seq = 1]
  <1>2. h \in Frame /\ h.call = 0 /\ h.replyTo = 0 /\ h.kind = "none"
    BY <1>1 DEF Frame
  <1> QED BY <1>1, <1>2 DEF Strays

(***************************************************************************)
(* No mail at all: the rings of a process that starts.                     *)
(***************************************************************************)
LEMMA RpcInit == rpcInit => RpcInv
  <1> SUFFICES ASSUME rpcInit PROVE RpcInv
    OBVIOUS
  <1>1. NoFrame \in Frame /\ Idle \in Caller
    BY CallsFitSequence DEF NoFrame, Frame, Idle, Caller, Kinds, Paths, PidFields, OwnTab
  <1>2. rpcTypeOK
    <2>1. /\ <<>> \in Seq(Frame) /\ 0 \in 0 .. MaxCalls /\ "" \in Paths
          /\ [n \in 1 .. MaxCalls |-> NoFrame] \in [1 .. MaxCalls -> Frame]
          /\ [c \in Callers |-> Idle] \in [Callers -> Caller]
      BY <1>1, CallsFitSequence DEF Paths
    <2> QED BY <2>1 DEF rpcInit, rpcTypeOK
  <1>3. \A c \in Callers : rpc.g[c].pc = "idle" /\ ~rpc.g[c].ok
    BY DEF rpcInit, Idle
  <1>4. Scanning = {} /\ Unsent = {} /\ Numbered = {}
    BY <1>3 DEF Scanning, Unsent, Numbered
  <1>5. NoWrap
    <2>1. rpc.wmSeq = 0 /\ rpc.calls = 0
      BY DEF rpcInit
    <2>2. IsFiniteSet({}) /\ Cardinality({}) = 0
      BY FS_EmptySet
    <2> QED BY <1>4, <2>1, <2>2 DEF NoWrap
  <1>6. RingSound /\ InboxSound
    <2>1. rpc.ring = <<>> /\ rpc.inbox = <<>>
      BY DEF rpcInit
    <2>2. Len(<<>>) = 0
      OBVIOUS
    <2> QED BY <2>1, <2>2 DEF RingSound, InboxSound
  <1>7. UnsentFresh /\ SeqsDistinct
    BY <1>4 DEF UnsentFresh, SeqsDistinct, rpcInit
  <1> QED BY <1>2, <1>3, <1>5, <1>6, <1>7 DEF RpcInv, OwnAnswer

(***************************************************************************)
(* What a step may do to the callers without disturbing mail on its way:   *)
(* a caller that gets a number gets one no frame carries, a caller that    *)
(* starts a call starts one no frame belongs to.                           *)
(***************************************************************************)
Mild ==
  /\ rpc.foreign \subseteq rpc'.foreign
  /\ rpc.calls <= rpc'.calls /\ rpc.wmSeq <= rpc'.wmSeq
  /\ \A e \in Numbered' :
       \/ /\ e \in Numbered /\ rpc'.g[e].seq = rpc.g[e].seq
          /\ rpc'.g[e].call = rpc.g[e].call /\ rpc'.g[e].kind = rpc.g[e].kind
       \/ rpc'.g[e].seq > rpc.wmSeq
  /\ \A e \in Unsent' :
       \/ e \in Unsent /\ rpc'.g[e].call = rpc.g[e].call
       \/ rpc'.g[e].call > rpc.calls

(***************************************************************************)
(* The moves of a caller c to the local state g: it returns, starts a      *)
(* call, scans again, takes the next number, or waits on.                  *)
(***************************************************************************)
SameCall(c, g) == g.call = rpc.g[c].call /\ g.kind = rpc.g[c].kind

Moves(c, g) ==
  /\ rpc'.foreign = rpc.foreign
  /\ \/ g.pc = "idle" /\ rpc'.calls = rpc.calls /\ rpc'.wmSeq = rpc.wmSeq
     \/ /\ rpc.g[c].pc = "idle" /\ g.pc = "scan" /\ g.kind # "none"
        /\ g.call = rpc.calls + 1 /\ rpc'.calls = rpc.calls + 1
        /\ rpc'.wmSeq = rpc.wmSeq
     \/ /\ rpc.g[c].pc = "scan" /\ g.pc = "scan" /\ SameCall(c, g)
        /\ rpc'.calls = rpc.calls /\ rpc'.wmSeq = rpc.wmSeq
     \/ /\ rpc.g[c].pc = "scan" /\ g.pc = "send" /\ SameCall(c, g) /\ g.replyTo # 0
        /\ g.seq = rpc.wmSeq + 1 /\ rpc'.wmSeq = rpc.wmSeq + 1
        /\ rpc'.calls = rpc.calls
     \/ /\ rpc.g[c].pc \in {"send", "wait"} /\ g.pc = "wait" /\ SameCall(c, g)
        /\ g.seq = rpc.g[c].seq /\ g.replyTo = rpc.g[c].replyTo
        /\ rpc'.calls = rpc.calls /\ rpc'.wmSeq = rpc.wmSeq

(***************************************************************************)
(* Mail on its way stays sound when the callers move so and the seat's     *)
(* word on its call stands.                                                *)
(***************************************************************************)
LEMMA FrameKept ==
  ASSUME RpcInv, rpcTypeOK', Mild, NEW f \in Frame,
         f.call \in 1 .. rpc.calls => rpc'.told[f.call] = rpc.told[f.call]
  PROVE  /\ RingFrame(f) => RingFrame(f)'
         /\ InboxFrame(f) => InboxFrame(f)'
  <1>1. rpc.calls \in Nat /\ rpc'.calls \in Nat /\ rpc.wmSeq \in Nat
        /\ rpc'.wmSeq \in Nat /\ f.call \in Nat /\ f.seq \in Nat
    BY CallsFitSequence DEF RpcInv, rpcTypeOK, Frame
  <1>2. ASSUME Numbers(f) PROVE Numbers(f)'
    <2>1. f.call \in 1 .. rpc'.calls /\ f.seq \in 1 .. rpc'.wmSeq
      BY <1>1, <1>2 DEF Mild, Numbers
    <2>2. ASSUME NEW e \in Numbered', rpc'.g[e].seq = f.seq
          PROVE  rpc'.g[e].call = f.call /\ rpc'.g[e].kind = f.kind
      <3>1. f.seq \in 1 .. rpc.wmSeq
        BY <1>2 DEF Numbers
      <3>2. ~(rpc'.g[e].seq > rpc.wmSeq)
        BY <1>1, <2>2, <3>1
      <3> QED BY <1>2, <2>2, <3>2 DEF Mild, Numbers, Tagged
    <2> QED BY <2>1, <2>2 DEF Numbers, Tagged
  <1>3. ASSUME Numbers(f), \A c \in Unsent : rpc.g[c].call # f.call
        PROVE  \A c \in Unsent' : rpc'.g[c].call # f.call
    <2>1. f.call \in 1 .. rpc.calls
      BY <1>3 DEF Numbers
    <2>2. ~(f.call > rpc.calls)
      BY <1>1, <2>1
    <2> QED BY <1>3, <2>2 DEF Mild
  <1>4. Numbers(f) => rpc'.told[f.call] = rpc.told[f.call]
    BY DEF Numbers
  <1>5. Foreign(f) => Foreign(f)'
    BY DEF Mild, Foreign
  <1> QED BY <1>2, <1>3, <1>4, <1>5 DEF RingFrame, InboxFrame

(***************************************************************************)
(* The counting: every call takes one number at most, and it takes it when *)
(* its scan ends.                                                          *)
(***************************************************************************)
LEMMA CountKept ==
  ASSUME RpcInv, rpcTypeOK', NEW c \in Callers, NEW g \in Caller, Moves(c, g),
         rpc'.g = [rpc.g EXCEPT ![c] = g]
  PROVE  NoWrap'
  <1>1. /\ IsFiniteSet(Scanning) /\ rpc.wmSeq + Cardinality(Scanning) <= rpc.calls
        /\ rpc.wmSeq \in Nat /\ rpc.calls \in Nat /\ Cardinality(Scanning) \in Nat
    BY FS_CardinalityType, CallsFitSequence DEF RpcInv, NoWrap, rpcTypeOK
  <1>2. \A e \in Callers : rpc'.g[e] = IF e = c THEN g ELSE rpc.g[e]
    BY DEF RpcInv, rpcTypeOK
  <1>3. CASE g.pc = "scan"
    <2>1. Scanning' = Scanning \cup {c}
      BY <1>2, <1>3 DEF Scanning
    <2>2. /\ IsFiniteSet(Scanning')
          /\ Cardinality(Scanning') =
               IF c \in Scanning THEN Cardinality(Scanning) ELSE Cardinality(Scanning) + 1
      BY <1>1, <2>1, FS_AddElement
    <2>3. c \in Scanning <=> rpc.g[c].pc = "scan"
      BY DEF Scanning
    <2> QED BY <1>1, <1>3, <2>2, <2>3 DEF Moves, NoWrap
  <1>4. CASE g.pc # "scan"
    <2>1. Scanning' = Scanning \ {c}
      BY <1>2, <1>4 DEF Scanning
    <2>2. /\ IsFiniteSet(Scanning')
          /\ Cardinality(Scanning') =
               IF c \in Scanning THEN Cardinality(Scanning) - 1 ELSE Cardinality(Scanning)
      BY <1>1, <2>1, FS_RemoveElement
    <2>3. c \in Scanning <=> rpc.g[c].pc = "scan"
      BY DEF Scanning
    <2> QED BY <1>1, <1>4, <2>2, <2>3 DEF Moves, NoWrap
  <1> QED BY <1>3, <1>4

(***************************************************************************)
(* A move of one caller keeps the numbers and the unsent calls distinct,   *)
(* and is mild to the mail.                                                *)
(***************************************************************************)
LEMMA CallersKept ==
  ASSUME RpcInv, rpcTypeOK', NEW c \in Callers, NEW g \in Caller, Moves(c, g),
         rpc'.g = [rpc.g EXCEPT ![c] = g], rpc'.told = rpc.told
  PROVE  SeqsDistinct' /\ UnsentFresh' /\ Mild
  <1>1. \A e \in Callers : rpc'.g[e] = IF e = c THEN g ELSE rpc.g[e]
    BY DEF RpcInv, rpcTypeOK
  <1>2. /\ rpc.wmSeq \in Nat /\ rpc.calls \in Nat /\ rpc'.calls \in 0 .. MaxCalls
        /\ \A e \in Callers : rpc.g[e].seq \in Nat /\ rpc.g[e].call \in Nat
        /\ rpc.calls <= rpc'.calls /\ rpc.wmSeq <= rpc'.wmSeq
        /\ rpc'.wmSeq \in Nat /\ MaxCalls \in Nat
    <2>1. /\ rpc.wmSeq \in Nat /\ rpc.calls \in Nat /\ rpc'.calls \in 0 .. MaxCalls
          /\ rpc'.wmSeq \in Nat /\ MaxCalls \in Nat
      BY CallsFitSequence DEF RpcInv, rpcTypeOK
    <2>2. \A e \in Callers : rpc.g[e].seq \in Nat /\ rpc.g[e].call \in Nat
      <3>1. rpc.g \in [Callers -> Caller]
        BY DEF RpcInv, rpcTypeOK
      <3> QED BY <3>1, <2>1 DEF Caller
    <2>3. rpc.calls <= rpc'.calls /\ rpc.wmSeq <= rpc'.wmSeq
      BY <2>1 DEF Moves
    <2> QED BY <2>1, <2>2, <2>3
  <1>3. \A e \in Numbered' :
          \/ e \in Numbered /\ e # c /\ rpc'.g[e] = rpc.g[e]
          \/ /\ e = c /\ c \in Numbered /\ SameCall(c, g) /\ g.seq = rpc.g[c].seq
             /\ g.replyTo = rpc.g[c].replyTo
          \/ /\ e = c /\ g.seq = rpc.wmSeq + 1 /\ rpc'.wmSeq = rpc.wmSeq + 1
             /\ g.replyTo # 0
    BY <1>1 DEF Numbered, Moves
  <1>4. \A e \in Unsent' :
          \/ e \in Unsent /\ e # c /\ rpc'.g[e] = rpc.g[e]
          \/ e = c /\ c \in Unsent /\ SameCall(c, g)
          \/ /\ e = c /\ g.call = rpc.calls + 1 /\ rpc'.calls = rpc.calls + 1
             /\ g.kind # "none"
    BY <1>1 DEF Unsent, Moves
  <1>5. rpc'.g[c] = g /\ Numbered \subseteq Callers /\ Unsent \subseteq Callers
    BY <1>1 DEF Numbered, Unsent
  <1>6. Mild
    BY <1>2, <1>3, <1>4, <1>5 DEF Mild, Moves, SameCall
  <1>7. SeqsDistinct'
    <2>1. SeqsDistinct
      BY DEF RpcInv
    <2>2. \A e \in Numbered' : rpc'.g[e].seq \in 1 .. rpc'.wmSeq /\ rpc'.g[e].replyTo # 0
      BY <1>2, <1>3, <1>5, <2>1 DEF SeqsDistinct
    <2>3. ASSUME NEW c1 \in Numbered', NEW c2 \in Numbered',
                 rpc'.g[c1].seq = rpc'.g[c2].seq
          PROVE  c1 = c2
      <3>1. \A e \in Numbered : rpc.g[e].seq # rpc.wmSeq + 1
        BY <1>2, <2>1 DEF SeqsDistinct
      <3> QED BY <1>3, <1>5, <2>1, <2>3, <3>1 DEF SeqsDistinct
    <2> QED BY <2>2, <2>3 DEF SeqsDistinct
  <1>8. UnsentFresh'
    <2>1. UnsentFresh
      BY DEF RpcInv
    <2>2. rpc.calls + 1 \in 1 .. MaxCalls \/ rpc'.calls # rpc.calls + 1
      BY <1>2
    <2>3. ASSUME NEW e \in Unsent'
          PROVE  /\ rpc'.g[e].call \in 1 .. rpc'.calls
                 /\ rpc'.told[rpc'.g[e].call] = NoFrame /\ rpc'.g[e].kind # "none"
      <3>1. CASE e \in Unsent /\ rpc'.g[e].call = rpc.g[e].call
                 /\ rpc'.g[e].kind = rpc.g[e].kind
        BY <1>2, <2>1, <3>1 DEF UnsentFresh
      <3>2. CASE /\ e = c /\ g.call = rpc.calls + 1 /\ rpc'.calls = rpc.calls + 1
                 /\ g.kind # "none"
        BY <1>2, <1>5, <2>1, <2>2, <3>2 DEF UnsentFresh
      <3> QED BY <1>4, <1>5, <3>1, <3>2 DEF SameCall
    <2>4. ASSUME NEW c1 \in Unsent', NEW c2 \in Unsent',
                 rpc'.g[c1].call = rpc'.g[c2].call
          PROVE  c1 = c2
      <3>1. \A e \in Unsent : rpc.g[e].call # rpc.calls + 1
        BY <1>2, <2>1 DEF UnsentFresh
      <3> QED BY <1>4, <1>5, <2>1, <2>4, <3>1 DEF UnsentFresh, SameCall
    <2>5. \A n \in 1 .. MaxCalls : n > rpc'.calls => rpc'.told[n] = NoFrame
      BY <1>2, <2>1 DEF UnsentFresh
    <2> QED BY <2>3, <2>4, <2>5 DEF UnsentFresh
  <1> QED BY <1>6, <1>7, <1>8

(***************************************************************************)
(* A caller's step that leaves the rings alone, or takes one frame from    *)
(* the inbox, keeps the invariant when the caller moves as above and what  *)
(* it returns is the seat's answer to its call.                            *)
(***************************************************************************)
LEMMA CallerKeeps ==
  ASSUME RpcInv, rpcTypeOK', NEW c \in Callers, NEW g \in Caller, Moves(c, g),
         rpc'.g = [rpc.g EXCEPT ![c] = g], rpc'.told = rpc.told,
         rpc'.ring = rpc.ring \/ RingSound',
         \/ rpc'.inbox = rpc.inbox
         \/ rpc.inbox # <<>> /\ rpc'.inbox = Tail(rpc.inbox),
         OwnAnswer(c)'
  PROVE  RpcInv'
  <1>1. SeqsDistinct' /\ UnsentFresh' /\ Mild /\ NoWrap'
    BY CallersKept, CountKept
  <1>2. ASSUME NEW f \in Frame
        PROVE  /\ RingFrame(f) => RingFrame(f)'
               /\ InboxFrame(f) => InboxFrame(f)'
    BY <1>1, FrameKept
  <1>3. rpc.ring \in Seq(Frame) /\ rpc.inbox \in Seq(Frame)
    BY DEF RpcInv, rpcTypeOK
  <1>4. ASSUME rpc'.ring = rpc.ring PROVE RingSound'
    <2>1. ASSUME NEW i \in 1 .. Len(rpc.ring) PROVE RingFrame(rpc.ring[i])'
      <3>1. rpc.ring[i] \in Frame /\ RingFrame(rpc.ring[i])
        BY <1>3 DEF RpcInv, RingSound
      <3>2. PICK f \in Frame : f = rpc.ring[i]
        BY <3>1
      <3>3. RingFrame(f)'
        BY <1>2, <3>1, <3>2
      <3>4. f = rpc'.ring[i]
        BY <1>4, <3>2
      <3> QED BY <3>3, <3>4 DEF RingFrame, Foreign, Numbers, Tagged
    <2> QED BY <1>4, <2>1 DEF RpcInv, RingSound
  <1>5. InboxSound'
    <2>1. ASSUME NEW i \in 1 .. Len(rpc'.inbox) PROVE InboxFrame(rpc.inbox[i])'
      <3>1. PICK j \in 1 .. Len(rpc.inbox) : rpc'.inbox[i] = rpc.inbox[j]
        <4>1. CASE rpc'.inbox = rpc.inbox
          BY <4>1
        <4>2. CASE rpc.inbox # <<>> /\ rpc'.inbox = Tail(rpc.inbox)
          <5>1. i + 1 \in 1 .. Len(rpc.inbox) /\ rpc'.inbox[i] = rpc.inbox[i + 1]
            BY <1>3, <4>2, TakeEffect
          <5> QED BY <5>1
        <4> QED BY <4>1, <4>2
      <3>2. rpc.inbox[j] \in Frame /\ InboxFrame(rpc.inbox[j])
        BY <1>3 DEF RpcInv, InboxSound
      <3>3. PICK f \in Frame : f = rpc.inbox[j]
        BY <3>2
      <3>4. InboxFrame(f)' /\ f = rpc'.inbox[i]
        BY <1>2, <3>1, <3>2, <3>3
      <3> QED BY <3>4 DEF InboxFrame, Foreign, Numbers, Tagged
    <2> QED BY <2>1 DEF InboxSound
  <1>6. ASSUME NEW e \in Callers PROVE OwnAnswer(e)'
    <2>1. CASE e = c
      BY <2>1
    <2>2. CASE e # c
      <3>1. rpc'.g[e] = rpc.g[e] /\ OwnAnswer(e) /\ rpc'.foreign = rpc.foreign
        BY <2>2 DEF RpcInv, rpcTypeOK, Moves
      <3>2. rpc.calls <= rpc'.calls /\ rpc.calls \in Nat /\ rpc'.calls \in Nat
        BY <1>1, CallsFitSequence DEF Mild, RpcInv, rpcTypeOK
      <3> QED BY <3>1, <3>2 DEF OwnAnswer
    <2> QED BY <2>1, <2>2
  <1> QED BY <1>1, <1>4, <1>5, <1>6 DEF RpcInv

(***************************************************************************)
(* A call starts: the next call number, nothing told about it.             *)
(***************************************************************************)
LEMMA RequestKeeps ==
  ASSUME RpcInv, NEW c \in Callers, WmMailRequest(c)
  PROVE  RpcInv'
  <1>1. PICK kind \in {"set", "navPoll"} :
          rpc' = [rpc EXCEPT !.calls = @ + 1,
                    !.g[c] = [Idle EXCEPT !.pc = "scan", !.kind = kind,
                                          !.call = rpc.calls + 1]]
    BY DEF WmMailRequest, Rpc
  <1> DEFINE g == [Idle EXCEPT !.pc = "scan", !.kind = kind, !.call = rpc.calls + 1]
  <1>2. /\ rpc.calls \in Nat /\ rpc.calls + 1 \in 0 .. MaxCalls
        /\ rpc.g[c].pc = "idle"
    BY CallsFitSequence DEF WmMailRequest, RpcInv, rpcTypeOK
  <1>3. g \in Caller /\ g.pc = "scan" /\ g.kind = kind /\ g.call = rpc.calls + 1
    BY <1>2 DEF Caller, Idle, Kinds, Paths, PidFields
  <1>4. /\ rpc'.calls = rpc.calls + 1 /\ rpc'.wmSeq = rpc.wmSeq
        /\ rpc'.g = [rpc.g EXCEPT ![c] = g] /\ rpc'.told = rpc.told /\ rpc'.foreign = rpc.foreign
        /\ rpc'.ring = rpc.ring /\ rpc'.inbox = rpc.inbox
    BY <1>1 DEF RpcInv, rpcTypeOK
  <1>5. rpcTypeOK'
    <2>1. [rpc.g EXCEPT ![c] = g] \in [Callers -> Caller]
      BY <1>3 DEF RpcInv, rpcTypeOK
    <2>2. rpc' = [rpc EXCEPT !.calls = rpc.calls + 1, !.g = [rpc.g EXCEPT ![c] = g]]
      BY <1>1 DEF RpcInv, rpcTypeOK
    <2> QED BY <1>2, <2>1, <2>2 DEF RpcInv, rpcTypeOK
  <1>6. Moves(c, g)
    BY <1>2, <1>3, <1>4 DEF Moves
  <1>7. OwnAnswer(c)'
    <2>1. rpc'.g[c].pc = "scan"
      BY <1>3, <1>4 DEF RpcInv, rpcTypeOK
    <2> QED BY <2>1 DEF OwnAnswer
  <1> HIDE DEF g
  <1> QED BY <1>3, <1>4, <1>5, <1>6, <1>7, CallerKeeps

(***************************************************************************)
(* A caller whose local state becomes g, with nothing else of the client   *)
(* changed but the counter.                                                *)
(***************************************************************************)
LEMMA TypeKept ==
  ASSUME RpcInv, NEW c \in Callers, NEW g \in Caller, NEW n \in Nat,
         NEW ring \in Seq(Frame), NEW inbox \in Seq(Frame),
         rpc' = [rpc EXCEPT !.wmSeq = n, !.ring = ring, !.inbox = inbox,
                            !.g = [rpc.g EXCEPT ![c] = g]]
  PROVE  /\ rpcTypeOK' /\ rpc'.wmSeq = n /\ rpc'.calls = rpc.calls
         /\ rpc'.g = [rpc.g EXCEPT ![c] = g] /\ rpc'.g[c] = g
         /\ rpc'.told = rpc.told /\ rpc'.foreign = rpc.foreign /\ rpc'.ring = ring /\ rpc'.inbox = inbox
  <1>1. [rpc.g EXCEPT ![c] = g] \in [Callers -> Caller]
    BY DEF RpcInv, rpcTypeOK
  <1>2. [rpc.g EXCEPT ![c] = g][c] = g
    BY DEF RpcInv, rpcTypeOK
  <1> QED BY <1>1, <1>2 DEF RpcInv, rpcTypeOK

(***************************************************************************)
(* What a return leaves of the caller that returns.                        *)
(***************************************************************************)
LEMMA ReturnedShape ==
  ASSUME NEW g \in Caller, NEW ok \in BOOLEAN, NEW path \in Paths
  PROVE  /\ Returned(g, ok, path) \in Caller
         /\ Returned(g, ok, path).pc = "idle" /\ Returned(g, ok, path).ok = ok
         /\ ok => /\ Returned(g, ok, path).call = g.call
                  /\ Returned(g, ok, path).kind = g.kind
                  /\ Returned(g, ok, path).seq = g.seq
                  /\ Returned(g, ok, path).path = path
<1>1. Idle \in Caller /\ Idle.pc = "idle" /\ Idle.ok = FALSE
  <2>1. 0 \in 0 .. MaxCalls
    BY CallsFitSequence
  <2>2. 0 \in PidFields /\ "none" \in Kinds /\ "" \in Paths
    BY Zenon DEF PidFields, Kinds, Paths
  <2> QED
    BY ONLY <2>1, <2>2 DEF Idle, Caller
<1>2. CASE ok
  <2>1. Returned(g, ok, path)
          = [Idle EXCEPT !.kind = g.kind, !.call = g.call, !.seq = g.seq, !.ok = TRUE, !.path = path]
    BY <1>2 DEF Returned
  <2>2. g.kind \in Kinds /\ g.call \in 0 .. MaxCalls /\ g.seq \in Nat
    BY DEF Caller
  <2>3. ok = TRUE
    BY <1>2
  <2> QED
    BY ONLY <1>1, <2>1, <2>2, <2>3, path \in Paths DEF Caller
<1>3. CASE ~ok
  <2>1. Returned(g, ok, path) = Idle /\ ok = FALSE
    BY <1>3 DEF Returned
  <2> QED
    BY <1>1, <1>3, <2>1
<1> QED BY <1>2, <1>3

(***************************************************************************)
(* The call gives up: no answer is claimed.                                *)
(***************************************************************************)
LEMMA RefuseKeeps ==
  ASSUME RpcInv, NEW c \in Callers, NEW inbox \in Seq(Frame),
         inbox = rpc.inbox \/ (rpc.inbox # <<>> /\ inbox = Tail(rpc.inbox)),
         rpc' = [rpc EXCEPT !.inbox = inbox,
                            !.g[c] = Returned(rpc.g[c], FALSE, "")]
  PROVE  RpcInv'
  <1> DEFINE g == Returned(rpc.g[c], FALSE, "")
  <1>1. rpc.g[c] \in Caller /\ rpc.wmSeq \in Nat /\ rpc.ring \in Seq(Frame)
    BY DEF RpcInv, rpcTypeOK
  <1>2. g \in Caller /\ g.pc = "idle" /\ g.ok = FALSE
    BY <1>1, ReturnedShape DEF Paths
  <1>3. rpc' = [rpc EXCEPT !.wmSeq = rpc.wmSeq, !.ring = rpc.ring, !.inbox = inbox,
                           !.g = [rpc.g EXCEPT ![c] = g]]
    BY DEF RpcInv, rpcTypeOK
  <1> HIDE DEF g
  <1>4. /\ rpcTypeOK' /\ rpc'.wmSeq = rpc.wmSeq /\ rpc'.calls = rpc.calls
        /\ rpc'.g = [rpc.g EXCEPT ![c] = g] /\ rpc'.g[c] = g
        /\ rpc'.told = rpc.told /\ rpc'.foreign = rpc.foreign /\ rpc'.ring = rpc.ring /\ rpc'.inbox = inbox
    <2>1. inbox \in Seq(Frame)
      OBVIOUS
    <2> QED BY ONLY RpcInv, c \in Callers, <1>1, <1>2, <1>3, <2>1, TypeKept
  <1>5. Moves(c, g) /\ OwnAnswer(c)'
    BY <1>2, <1>4 DEF Moves, OwnAnswer
  <1> QED BY <1>2, <1>4, <1>5, CallerKeeps

(***************************************************************************)
(* The scan of the process table takes a number, gives up or tries again.  *)
(***************************************************************************)
LEMMA PeersKeep ==
  ASSUME RpcInv, NEW c \in Callers, WmPeers(c)
  PROVE  RpcInv'
  <1>1. /\ rpc.g[c] \in Caller /\ rpc.wmSeq \in Nat /\ rpc.ring \in Seq(Frame)
        /\ rpc.inbox \in Seq(Frame) /\ rpc.g[c].pc = "scan"
    BY DEF RpcInv, rpcTypeOK, WmPeers
  <1>2. nextWmSeq(rpc.wmSeq) = rpc.wmSeq + 1
        /\ nextWmSeq(rpc.wmSeq) % SeqSpace = rpc.wmSeq + 1
    <2>1. c \in Scanning /\ IsFiniteSet(Scanning)
      BY <1>1 DEF Scanning, RpcInv, NoWrap
    <2>2. Cardinality(Scanning) \in Nat /\ Cardinality(Scanning) # 0
      BY <2>1, FS_EmptySet, FS_CardinalityType
    <2>3. rpc.wmSeq + Cardinality(Scanning) <= rpc.calls /\ rpc.calls \in 0 .. MaxCalls
      BY DEF RpcInv, NoWrap, rpcTypeOK
    <2>4. rpc.wmSeq + 1 < SeqSpace
      BY <1>1, <2>2, <2>3, CallsFitSequence
    <2> QED BY <1>1, <2>4, SeqStep
  <1>3. \/ \E self \in {ClientPid, TwinPid} :
             rpc' = [rpc EXCEPT !.wmSeq = rpc.wmSeq + 1,
                       !.g[c] = [@ EXCEPT !.pc = "send", !.seq = rpc.wmSeq + 1, !.replyTo = self]]
        \/ rpc' = Refuse(c)
        \/ rpc' = [rpc EXCEPT !.g[c].attempt = @ + 1]
    BY <1>2 DEF WmPeers, Rpc, SelfRows
  <1>4. CASE rpc' = Refuse(c)
    <2>1. rpc' = [rpc EXCEPT !.inbox = rpc.inbox,
                             !.g[c] = Returned(rpc.g[c], FALSE, "")]
      BY <1>4 DEF Refuse, RpcInv, rpcTypeOK
    <2> QED BY <1>1, <2>1, RefuseKeeps
  <1>5. ASSUME NEW self \in {ClientPid, TwinPid},
               rpc' = [rpc EXCEPT !.wmSeq = rpc.wmSeq + 1,
                       !.g[c] = [@ EXCEPT !.pc = "send", !.seq = rpc.wmSeq + 1, !.replyTo = self]]
        PROVE  RpcInv'
    <2> DEFINE g == [rpc.g[c] EXCEPT !.pc = "send", !.seq = rpc.wmSeq + 1, !.replyTo = self]
    <2>1. /\ g \in Caller /\ g.pc = "send" /\ g.seq = rpc.wmSeq + 1 /\ SameCall(c, g)
          /\ g.replyTo # 0
      <3>1. PICK n \in Nat : n = rpc.wmSeq + 1
        BY <1>1
      <3>2. self \in PidFields /\ self # 0
        BY DEF PidFields, ClientPid, TwinPid
      <3> QED BY <1>1, <3>1, <3>2 DEF Caller, SameCall
    <2>2. rpc' = [rpc EXCEPT !.wmSeq = rpc.wmSeq + 1, !.ring = rpc.ring,
                             !.inbox = rpc.inbox, !.g = [rpc.g EXCEPT ![c] = g]]
      BY <1>5 DEF RpcInv, rpcTypeOK
    <2> HIDE DEF g
    <2>3. /\ rpcTypeOK' /\ rpc'.wmSeq = rpc.wmSeq + 1 /\ rpc'.calls = rpc.calls
          /\ rpc'.g = [rpc.g EXCEPT ![c] = g] /\ rpc'.g[c] = g
          /\ rpc'.told = rpc.told /\ rpc'.foreign = rpc.foreign /\ rpc'.ring = rpc.ring /\ rpc'.inbox = rpc.inbox
      <3>1. rpc.wmSeq + 1 \in Nat
        BY <1>1
      <3> QED BY <1>1, <2>1, <2>2, <3>1, TypeKept
    <2>4. Moves(c, g) /\ OwnAnswer(c)'
      BY <1>1, <2>1, <2>3 DEF Moves, OwnAnswer
    <2> QED BY <2>1, <2>3, <2>4, CallerKeeps
  <1>6. CASE rpc' = [rpc EXCEPT !.g[c].attempt = @ + 1]
    <2> DEFINE g == [rpc.g[c] EXCEPT !.attempt = @ + 1]
    <2>1. g \in Caller /\ g.pc = "scan" /\ SameCall(c, g)
      <3>1. PICK n \in Nat : n = rpc.g[c].attempt + 1
        BY <1>1 DEF Caller
      <3>2. g = [rpc.g[c] EXCEPT !.attempt = n]
        BY <3>1
      <3> QED BY <1>1, <3>2 DEF Caller, SameCall
    <2>2. rpc' = [rpc EXCEPT !.wmSeq = rpc.wmSeq, !.ring = rpc.ring,
                             !.inbox = rpc.inbox, !.g = [rpc.g EXCEPT ![c] = g]]
      BY <1>6 DEF RpcInv, rpcTypeOK
    <2> HIDE DEF g
    <2>3. /\ rpcTypeOK' /\ rpc'.wmSeq = rpc.wmSeq /\ rpc'.calls = rpc.calls
          /\ rpc'.g = [rpc.g EXCEPT ![c] = g] /\ rpc'.g[c] = g
          /\ rpc'.told = rpc.told /\ rpc'.foreign = rpc.foreign /\ rpc'.ring = rpc.ring /\ rpc'.inbox = rpc.inbox
      BY <1>1, <2>1, <2>2, TypeKept
    <2>4. Moves(c, g) /\ OwnAnswer(c)'
      BY <1>1, <2>1, <2>3 DEF Moves, OwnAnswer
    <2> QED BY <2>1, <2>3, <2>4, CallerKeeps
  <1> QED BY <1>3, <1>4, <1>5, <1>6

(***************************************************************************)
(* A ring stays sound when a sound frame of a new call is enqueued.        *)
(***************************************************************************)
LEMMA RingSent ==
  ASSUME RpcInv, NEW f \in Frame, rpc'.ring = IpcSend(rpc.ring, f), RingFrame(f)',
         \A h \in Frame : RingFrame(h) => RingFrame(h)',
         \/ f.call = 0
         \/ \A i \in 1 .. Len(rpc.ring) : rpc.ring[i].call # f.call
  PROVE  RingSound'
  <1>1. rpc.ring \in Seq(Frame) /\ RingSound /\ Len(rpc.ring) \in Nat
    BY DEF RpcInv, rpcTypeOK
  <1>2. rpc'.ring \in Seq(Frame) /\ Len(rpc'.ring) \in Nat
    BY <1>1, SendEffect
  <1>6. \/ rpc'.ring = rpc.ring
        \/ /\ Len(rpc'.ring) = Len(rpc.ring) + 1
           /\ \A i \in 1 .. Len(rpc.ring) : rpc'.ring[i] = rpc.ring[i]
           /\ rpc'.ring[Len(rpc.ring) + 1] = f
    BY ONLY <1>1, f \in Frame, rpc'.ring = IpcSend(rpc.ring, f) DEF IpcSend
  <1>3. ASSUME NEW i \in 1 .. Len(rpc'.ring)
        PROVE  \/ i \in 1 .. Len(rpc.ring) /\ rpc'.ring[i] = rpc.ring[i]
               \/ i = Len(rpc.ring) + 1 /\ rpc'.ring[i] = f
    BY ONLY <1>1, <1>2, <1>6, <1>3
  <1>4. ASSUME NEW i \in 1 .. Len(rpc'.ring) PROVE RingFrame(rpc.ring[i])'
    <2>1. CASE rpc'.ring[i] = f
      BY <2>1 DEF RingFrame, Foreign, Numbers, Tagged
    <2>2. CASE i \in 1 .. Len(rpc.ring) /\ rpc'.ring[i] = rpc.ring[i]
      <3>1. PICK h \in Frame : h = rpc.ring[i]
        BY <1>1, <2>2
      <3>2. RingFrame(h)
        BY <1>1, <2>2, <3>1 DEF RingSound
      <3>3. RingFrame(h)' /\ h = rpc'.ring[i]
        BY <2>2, <3>1, <3>2
      <3> QED BY <3>3 DEF RingFrame, Foreign, Numbers, Tagged
    <2> QED BY <1>3, <2>1, <2>2
  <1>5. ASSUME NEW i \in 1 .. Len(rpc'.ring), NEW j \in 1 .. Len(rpc'.ring),
               rpc'.ring[i].call = rpc'.ring[j].call, rpc'.ring[i].call # 0
        PROVE  i = j
    BY <1>1, <1>3, <1>5 DEF RingSound
  <1> QED BY <1>4, <1>5 DEF RingSound

(***************************************************************************)
(* The same for the inbox, which may also lose its head.                   *)
(***************************************************************************)
LEMMA InboxSent ==
  ASSUME RpcInv, NEW f \in Frame, InboxFrame(f)',
         rpc'.inbox = rpc.inbox \/ rpc'.inbox = IpcSend(rpc.inbox, f),
         \A i \in 1 .. Len(rpc.inbox) : \A h \in Frame :
           h = rpc.inbox[i] /\ InboxFrame(h) => InboxFrame(h)'
  PROVE  InboxSound'
  <1>1. rpc.inbox \in Seq(Frame) /\ InboxSound /\ Len(rpc.inbox) \in Nat
    BY DEF RpcInv, rpcTypeOK
  <1>2. ASSUME NEW i \in 1 .. Len(rpc'.inbox) PROVE InboxFrame(rpc.inbox[i])'
    <2>1. \/ i \in 1 .. Len(rpc.inbox) /\ rpc'.inbox[i] = rpc.inbox[i]
          \/ rpc'.inbox[i] = f
      <3>1. \/ rpc'.inbox = rpc.inbox
            \/ /\ Len(rpc'.inbox) = Len(rpc.inbox) + 1
               /\ \A k \in 1 .. Len(rpc.inbox) : rpc'.inbox[k] = rpc.inbox[k]
               /\ rpc'.inbox[Len(rpc.inbox) + 1] = f
        <4>1. CASE rpc'.inbox = IpcSend(rpc.inbox, f)
          BY ONLY <1>1, f \in Frame, <4>1 DEF IpcSend
        <4> QED BY <4>1
      <3> QED BY ONLY <1>1, i \in 1 .. Len(rpc'.inbox), <3>1
    <2>2. CASE rpc'.inbox[i] = f
      BY <2>2 DEF InboxFrame, Foreign, Numbers, Tagged
    <2>3. CASE i \in 1 .. Len(rpc.inbox) /\ rpc'.inbox[i] = rpc.inbox[i]
      <3>1. PICK h \in Frame : h = rpc.inbox[i]
        BY <1>1, <2>3
      <3>2. InboxFrame(h)
        BY <1>1, <2>3, <3>1 DEF InboxSound
      <3>3. InboxFrame(h)' /\ h = rpc'.inbox[i]
        BY <2>3, <3>1, <3>2
      <3> QED BY <3>3 DEF InboxFrame, Foreign, Numbers, Tagged
    <2> QED BY <2>1, <2>2, <2>3
  <1> QED BY <1>2 DEF InboxSound

(***************************************************************************)
(* The request leaves: it carries the caller's number, which no other      *)
(* caller has, for a call no other frame belongs to.                       *)
(***************************************************************************)
LEMMA RequestSent ==
  ASSUME RpcInv, NEW c \in Callers, sendRequest(c)
  PROVE  RpcInv'
  <1>1. /\ rpc.g[c] \in Caller /\ rpc.wmSeq \in Nat /\ rpc.ring \in Seq(Frame)
        /\ rpc.inbox \in Seq(Frame) /\ rpc.g[c].pc = "send" /\ rpc.calls \in 0 .. MaxCalls
        /\ rpc.told \in [1 .. MaxCalls -> Frame]
    BY DEF RpcInv, rpcTypeOK, sendRequest
  <1>2. CASE rpc' = Refuse(c)
    <2>1. rpc' = [rpc EXCEPT !.inbox = rpc.inbox,
                             !.g[c] = Returned(rpc.g[c], FALSE, "")]
      BY <1>2 DEF Refuse, RpcInv, rpcTypeOK
    <2> QED BY <1>1, <2>1, RefuseKeeps
  <1>3. CASE rpc' = [rpc EXCEPT !.ring = IpcSend(@, Request(c)),
                                !.g[c] = [@ EXCEPT !.pc = "wait", !.tick = 0]]
    <2>0. Request(c) \in Frame
      BY <1>1, CallsFitSequence DEF Request, Frame, Caller, NoFrame, Kinds, Paths, OwnTab
    <2>14. PICK f \in Frame : f = Request(c)
      BY <2>0
    <2> DEFINE g == [rpc.g[c] EXCEPT !.pc = "wait", !.tick = 0]
    <2>1. /\ g \in Caller /\ g.pc = "wait" /\ g.seq = rpc.g[c].seq /\ SameCall(c, g)
          /\ g.replyTo = rpc.g[c].replyTo
      BY <1>1 DEF Caller, SameCall
    <2>2. /\ f \in Frame /\ f.kind = rpc.g[c].kind /\ f.seq = rpc.g[c].seq
          /\ f.id = OwnTab /\ f.call = rpc.g[c].call /\ ~f.reply
      BY <1>1, <2>14 DEF Request, NoFrame, OwnTab
    <2>3. IpcSend(rpc.ring, f) \in Seq(Frame)
      BY <1>1, <2>2, SendEffect
    <2>4. rpc' = [rpc EXCEPT !.wmSeq = rpc.wmSeq, !.ring = IpcSend(rpc.ring, f),
                             !.inbox = rpc.inbox, !.g = [rpc.g EXCEPT ![c] = g]]
      BY <1>3, <2>14 DEF RpcInv, rpcTypeOK
    <2> HIDE DEF g
    <2>5. /\ rpcTypeOK' /\ rpc'.wmSeq = rpc.wmSeq /\ rpc'.calls = rpc.calls
          /\ rpc'.g = [rpc.g EXCEPT ![c] = g] /\ rpc'.g[c] = g
          /\ rpc'.told = rpc.told /\ rpc'.foreign = rpc.foreign /\ rpc'.ring = IpcSend(rpc.ring, f)
          /\ rpc'.inbox = rpc.inbox
      BY ONLY RpcInv, c \in Callers, <1>1, <2>1, <2>3, <2>4, TypeKept
    <2>6. Moves(c, g) /\ OwnAnswer(c)'
      BY <1>1, <2>1, <2>5 DEF Moves, OwnAnswer
    <2>7. SeqsDistinct' /\ UnsentFresh' /\ Mild
      BY <2>1, <2>5, <2>6, CallersKept
    <2>8. \A h \in Frame : RingFrame(h) => RingFrame(h)'
      BY <2>5, <2>7, FrameKept
    <2>9. c \in Unsent /\ c \in Numbered /\ c \in Numbered' /\ c \notin Unsent'
      BY <1>1, <2>1, <2>5 DEF Unsent, Numbered
    <2>10. /\ f.call \in 1 .. rpc.calls /\ rpc.told[f.call] = NoFrame
           /\ f.kind # "none" /\ f.seq \in 1 .. rpc.wmSeq
      BY <2>2, <2>9 DEF RpcInv, UnsentFresh, SeqsDistinct
    <2>11. RingFrame(f)'
      <3>1. Numbers(f)'
        <4>1. \A e \in Numbered' : rpc'.g[e].seq = f.seq => e = c
          BY <2>1, <2>2, <2>5, <2>7, <2>9 DEF SeqsDistinct
        <4> QED BY <2>1, <2>2, <2>5, <2>10, <4>1 DEF Numbers, Tagged, SameCall
      <3>2. \A e \in Unsent' : rpc'.g[e].call # f.call
        <4>1. \A e \in Unsent' : e \in Unsent /\ e # c /\ rpc'.g[e].call = rpc.g[e].call
          BY <1>1, <2>1, <2>5, <2>9 DEF Unsent, RpcInv, rpcTypeOK
        <4> QED BY <2>2, <2>9, <4>1 DEF RpcInv, UnsentFresh
      <3> QED BY <2>2, <2>5, <2>10, <3>1, <3>2 DEF RingFrame
    <2>12. \A i \in 1 .. Len(rpc.ring) : rpc.ring[i].call # f.call
      <3>1. \A h \in Strays : h.call = 0
        BY StrayShape
      <3>2. f.call # 0
        BY <1>1, <2>10
      <3> QED BY <2>2, <2>9, <3>1, <3>2 DEF RpcInv, RingSound, RingFrame, Foreign
    <2>13. RingSound'
      BY <2>2, <2>5, <2>8, <2>11, <2>12, RingSent
    <2> QED BY <2>1, <2>5, <2>6, <2>13, CallerKeeps
  <1> QED BY <1>2, <1>3 DEF sendRequest, Rpc

(***************************************************************************)
(* A probe of the inbox.  A frame taken for the ack carries the caller's   *)
(* number and is addressed to the client: it is the seat's answer to the   *)
(* caller's own call.                                                      *)
(***************************************************************************)
LEMMA WaitKeeps ==
  ASSUME RpcInv, NEW c \in Callers, waitWmRpcAck(c)
  PROVE  RpcInv'
  <1> DEFINE got == rpc.inbox # <<>>
             f == Head(rpc.inbox)
             inbox == IF got THEN Tail(rpc.inbox) ELSE rpc.inbox
  <1>1. /\ rpc.g[c] \in Caller /\ rpc.wmSeq \in Nat /\ rpc.ring \in Seq(Frame)
        /\ rpc.inbox \in Seq(Frame) /\ rpc.g[c].pc = "wait" /\ rpc.calls \in 0 .. MaxCalls
        /\ rpc.told \in [1 .. MaxCalls -> Frame]
    BY DEF RpcInv, rpcTypeOK, waitWmRpcAck
  <1>2. /\ inbox \in Seq(Frame)
        /\ inbox = rpc.inbox \/ (rpc.inbox # <<>> /\ inbox = Tail(rpc.inbox))
    BY <1>1, TakeEffect
  <1>3. \/ /\ got /\ IsAck(c, f)
           /\ rpc' = [rpc EXCEPT !.inbox = inbox,
                        !.g[c] = Returned(@, f.applied, IF f.applied THEN f.title ELSE "")]
        \/ rpc' = [rpc EXCEPT !.inbox = inbox, !.g[c] = Returned(@, FALSE, "")]
        \/ rpc' = [rpc EXCEPT !.inbox = inbox, !.g[c].tick = @ + 1]
    BY DEF waitWmRpcAck, Rpc, RpcInv, rpcTypeOK
  <1>4. CASE rpc' = [rpc EXCEPT !.inbox = inbox, !.g[c] = Returned(@, FALSE, "")]
    <2>1. rpc' = [rpc EXCEPT !.inbox = inbox, !.g[c] = Returned(rpc.g[c], FALSE, "")]
      BY <1>4 DEF RpcInv, rpcTypeOK
    <2> HIDE DEF inbox
    <2> QED BY ONLY RpcInv, c \in Callers, <1>2, <2>1, RefuseKeeps
  <1>5. CASE rpc' = [rpc EXCEPT !.inbox = inbox, !.g[c].tick = @ + 1]
    <2> DEFINE g == [rpc.g[c] EXCEPT !.tick = @ + 1]
    <2> HIDE DEF inbox
    <2>0. rpc.g[c] \in Caller /\ rpc.g[c].pc = "wait"
      BY <1>1
    <2>1. /\ g \in Caller /\ g.pc = "wait" /\ g.seq = rpc.g[c].seq /\ SameCall(c, g)
          /\ g.replyTo = rpc.g[c].replyTo
      BY ONLY <2>0 DEF Caller, SameCall
    <2>2. rpc' = [rpc EXCEPT !.wmSeq = rpc.wmSeq, !.ring = rpc.ring,
                             !.inbox = inbox, !.g = [rpc.g EXCEPT ![c] = g]]
      BY <1>5 DEF RpcInv, rpcTypeOK
    <2> HIDE DEF g
    <2>3. /\ rpcTypeOK' /\ rpc'.wmSeq = rpc.wmSeq /\ rpc'.calls = rpc.calls
          /\ rpc'.g = [rpc.g EXCEPT ![c] = g] /\ rpc'.g[c] = g
          /\ rpc'.told = rpc.told /\ rpc'.foreign = rpc.foreign /\ rpc'.ring = rpc.ring /\ rpc'.inbox = inbox
      BY ONLY RpcInv, c \in Callers, <1>1, <1>2, <2>1, <2>2, TypeKept
    <2>4. Moves(c, g) /\ OwnAnswer(c)'
      BY <1>1, <2>1, <2>3 DEF Moves, OwnAnswer
    <2> QED BY <1>2, <2>1, <2>3, <2>4, CallerKeeps
  <1>6. CASE /\ got /\ IsAck(c, f)
             /\ rpc' = [rpc EXCEPT !.inbox = inbox,
                          !.g[c] = Returned(@, f.applied, IF f.applied THEN f.title ELSE "")]
    <2> DEFINE path == IF f.applied THEN f.title ELSE ""
               g == Returned(rpc.g[c], f.applied, path)
    <2>1. f \in Frame /\ InboxFrame(f)
      <3>1. f = rpc.inbox[1] /\ f \in Frame /\ 1 \in 1 .. Len(rpc.inbox)
        BY <1>1, <1>6, TakeEffect
      <3> QED BY <3>1 DEF RpcInv, InboxSound
    <2>11. c \in Numbered
      BY <1>1 DEF Numbered
    <2>2. \/ rpc.g[c].seq \in rpc.foreign
          \/ Numbers(f) /\ f.reply /\ rpc.told[f.call] = f
      BY <1>6, <2>1, <2>11 DEF IsAck, InboxFrame, Foreign, RpcInv, SeqsDistinct
    <2>3. rpc.g[c].seq \in rpc.foreign \/ (rpc.g[c].call = f.call /\ rpc.g[c].kind = f.kind)
      BY <1>6, <2>2, <2>11 DEF IsAck, Numbers, Tagged
    <2>4. path \in Paths /\ f.applied \in BOOLEAN
      BY <2>1 DEF Frame, Paths
    <2>5. rpc' = [rpc EXCEPT !.wmSeq = rpc.wmSeq, !.ring = rpc.ring,
                             !.inbox = inbox, !.g = [rpc.g EXCEPT ![c] = g]]
      BY <1>6 DEF RpcInv, rpcTypeOK
    <2>6. /\ g \in Caller /\ g.pc = "idle" /\ g.ok = f.applied
          /\ g.ok => /\ g.seq = rpc.g[c].seq /\ g.path = path
                     /\ g.call = rpc.g[c].call /\ g.kind = rpc.g[c].kind
      <3> HIDE DEF path
      <3> QED BY <1>1, <2>4, ReturnedShape
    <2> HIDE DEF g, inbox, path, f, got
    <2>10. g \in Caller
      BY <2>6
    <2>7. /\ rpcTypeOK' /\ rpc'.wmSeq = rpc.wmSeq /\ rpc'.calls = rpc.calls
          /\ rpc'.g = [rpc.g EXCEPT ![c] = g] /\ rpc'.g[c] = g
          /\ rpc'.told = rpc.told /\ rpc'.foreign = rpc.foreign /\ rpc'.ring = rpc.ring /\ rpc'.inbox = inbox
      BY ONLY RpcInv, c \in Callers, <1>1, <1>2, <2>5, <2>10, TypeKept
    <2>8. Moves(c, g)
      BY <2>6, <2>7 DEF Moves
    <2>9. OwnAnswer(c)'
      <3>1. SUFFICES ASSUME g.ok, g.seq \notin rpc.foreign
                     PROVE  /\ g.call \in 1 .. rpc.calls /\ rpc.told[g.call].reply
                            /\ rpc.told[g.call].applied /\ rpc.told[g.call].kind = g.kind
                            /\ g.path = rpc.told[g.call].title
        BY <2>7 DEF OwnAnswer
      <3>2. f.applied /\ g.seq = rpc.g[c].seq /\ g.call = rpc.g[c].call /\ g.kind = rpc.g[c].kind
            /\ g.path = path
        BY <2>6, <3>1
      <3>3. path = f.title
        BY <3>2 DEF path
      <3>4. f.reply /\ rpc.told[f.call] = f /\ f.call \in 1 .. rpc.calls
        BY <2>2, <3>1, <3>2 DEF Numbers
      <3>5. g.call = f.call /\ g.kind = f.kind
        BY <2>3, <3>1, <3>2
      <3> QED BY ONLY <3>2, <3>3, <3>4, <3>5
    <2> QED BY <1>2, <2>6, <2>7, <2>8, <2>9, CallerKeeps
  <1> QED BY <1>3, <1>4, <1>5, <1>6

(***************************************************************************)
(* Steps that touch no caller, no counter and no answer: the invariant is  *)
(* kept when the rings stay sound.                                         *)
(***************************************************************************)
LEMMA SeatKeeps ==
  ASSUME RpcInv, rpcTypeOK', rpc'.g = rpc.g, rpc'.calls = rpc.calls,
         rpc'.wmSeq = rpc.wmSeq, rpc'.told = rpc.told, rpc.foreign \subseteq rpc'.foreign
  PROVE  /\ RingSound' /\ InboxSound' => RpcInv'
         /\ \A f \in Frame : /\ RingFrame(f) => RingFrame(f)'
                             /\ InboxFrame(f) => InboxFrame(f)'
         /\ rpc'.ring = rpc.ring => RingSound'
         /\ rpc'.inbox = rpc.inbox => InboxSound'
  <1>1. Scanning' = Scanning /\ Unsent' = Unsent /\ Numbered' = Numbered
    BY DEF Scanning, Unsent, Numbered
  <1>2. NoWrap' /\ SeqsDistinct' /\ UnsentFresh'
    BY <1>1 DEF RpcInv, NoWrap, SeqsDistinct, UnsentFresh
  <1>3. \A c \in Callers : OwnAnswer(c)'
    BY DEF RpcInv, OwnAnswer
  <1>4. ASSUME NEW f \in Frame
        PROVE  (RingFrame(f) => RingFrame(f)') /\ (InboxFrame(f) => InboxFrame(f)')
    BY <1>1 DEF RingFrame, InboxFrame, Foreign, Numbers, Tagged
  <1>5. ASSUME rpc'.ring = rpc.ring PROVE RingSound'
    BY <1>1, <1>5 DEF RpcInv, RingSound, RingFrame, Foreign, Numbers, Tagged
  <1>6. ASSUME rpc'.inbox = rpc.inbox PROVE InboxSound'
    BY <1>1, <1>6 DEF RpcInv, InboxSound, InboxFrame, Foreign, Numbers, Tagged
  <1> QED BY <1>2, <1>3, <1>4, <1>5, <1>6 DEF RpcInv

(***************************************************************************)
(* The user's pick, the end of a seat with its ring, stray mail, and the   *)
(* second instance.                                                        *)
(***************************************************************************)
LEMMA WorldKeeps ==
  ASSUME RpcInv, queueTarget \/ seatLife \/ strayMail \/ twinStart \/ twinRequest
  PROVE  RpcInv'
  <1>1. /\ rpc.ring \in Seq(Frame) /\ rpc.inbox \in Seq(Frame) /\ rpc.faults \in Nat
        /\ rpc.targets \in Nat /\ rpc.seat \in BOOLEAN /\ rpc.foreign \in SUBSET Nat
    BY DEF RpcInv, rpcTypeOK
  <1>2. CASE queueTarget
    <2>1. rpcTypeOK' /\ rpc'.ring = rpc.ring /\ rpc'.inbox = rpc.inbox
          /\ rpc'.g = rpc.g /\ rpc'.calls = rpc.calls /\ rpc'.wmSeq = rpc.wmSeq
          /\ rpc'.told = rpc.told /\ rpc'.foreign = rpc.foreign
      <3>1. "p" \in Paths /\ rpc.targets + 1 \in Nat
        BY <1>1 DEF Paths
      <3>2. rpc' = [rpc EXCEPT !.queued = "p", !.targets = rpc.targets + 1]
        BY <1>2 DEF queueTarget, Rpc
      <3> QED BY <3>1, <3>2 DEF RpcInv, rpcTypeOK
    <2> QED BY <2>1, SeatKeeps
  <1>3. CASE seatLife
    <2>1. PICK n \in Nat :
            rpc' = [rpc EXCEPT !.seat = ~rpc.seat, !.ring = <<>>, !.queued = "",
                               !.faults = n]
      <3> DEFINE m == IF rpc.seat THEN rpc.faults + 1 ELSE rpc.faults
      <3>1. m \in Nat
        BY <1>1
      <3>2. rpc' = [rpc EXCEPT !.seat = ~rpc.seat, !.ring = <<>>, !.queued = "",
                               !.faults = m]
        BY <1>3 DEF seatLife, Rpc
      <3> HIDE DEF m
      <3> QED BY <3>1, <3>2
    <2>2. <<>> \in Seq(Frame) /\ "" \in Paths /\ (~rpc.seat) \in BOOLEAN
      BY <1>1 DEF Paths
    <2>3. rpcTypeOK' /\ rpc'.ring = <<>> /\ rpc'.inbox = rpc.inbox
          /\ rpc'.g = rpc.g /\ rpc'.calls = rpc.calls /\ rpc'.wmSeq = rpc.wmSeq
          /\ rpc'.told = rpc.told /\ rpc'.foreign = rpc.foreign
      BY <2>1, <2>2 DEF RpcInv, rpcTypeOK
    <2>4. Len(<<>>) = 0
      OBVIOUS
    <2>5. RingSound'
      BY <2>3, <2>4 DEF RingSound
    <2> QED BY <2>3, <2>5, SeatKeeps
  <1>4. CASE strayMail
    <2>1. PICK f \in Strays :
            \/ rpc' = [rpc EXCEPT !.faults = @ + 1, !.inbox = IpcSend(@, f)]
            \/ rpc' = [rpc EXCEPT !.faults = @ + 1, !.ring = IpcSend(@, f)]
      BY <1>4 DEF strayMail, Rpc
    <2>2. f \in Frame /\ f.call = 0 /\ f.replyTo = 0
      BY StrayShape
    <2>3. IpcSend(rpc.inbox, f) \in Seq(Frame) /\ IpcSend(rpc.ring, f) \in Seq(Frame)
      BY <1>1, <2>2 DEF IpcSend
    <2>4. /\ rpcTypeOK' /\ rpc'.g = rpc.g /\ rpc'.calls = rpc.calls
          /\ rpc'.wmSeq = rpc.wmSeq /\ rpc'.told = rpc.told /\ rpc'.foreign = rpc.foreign
          /\ \/ rpc'.ring = rpc.ring /\ rpc'.inbox = IpcSend(rpc.inbox, f)
             \/ rpc'.inbox = rpc.inbox /\ rpc'.ring = IpcSend(rpc.ring, f)
      <3>1. rpc.faults + 1 \in Nat
        BY <1>1
      <3>2. CASE rpc' = [rpc EXCEPT !.faults = @ + 1, !.inbox = IpcSend(@, f)]
        <4>1. rpc' = [rpc EXCEPT !.faults = rpc.faults + 1,
                                 !.inbox = IpcSend(rpc.inbox, f)]
          BY <3>2
        <4> QED BY <2>3, <3>1, <4>1 DEF RpcInv, rpcTypeOK
      <3>3. CASE rpc' = [rpc EXCEPT !.faults = @ + 1, !.ring = IpcSend(@, f)]
        <4>1. rpc' = [rpc EXCEPT !.faults = rpc.faults + 1,
                                 !.ring = IpcSend(rpc.ring, f)]
          BY <3>3
        <4> QED BY <2>3, <3>1, <4>1 DEF RpcInv, rpcTypeOK
      <3> QED BY <2>1, <3>2, <3>3
    <2>5. RingFrame(f)' /\ InboxFrame(f)'
      BY <2>2 DEF RingFrame, InboxFrame
    <2>6. CASE rpc'.ring = rpc.ring /\ rpc'.inbox = IpcSend(rpc.inbox, f)
      <3>1. InboxSound'
        BY <2>2, <2>4, <2>5, <2>6, SeatKeeps, InboxSent
      <3> QED BY <2>4, <2>6, <3>1, SeatKeeps
    <2>7. CASE rpc'.inbox = rpc.inbox /\ rpc'.ring = IpcSend(rpc.ring, f)
      <3>1. RingSound'
        BY <2>2, <2>4, <2>5, <2>7, SeatKeeps, RingSent
      <3> QED BY <2>4, <2>7, <3>1, SeatKeeps
    <2> QED BY <2>4, <2>6, <2>7
  <1>5. CASE twinStart
    <2>1. rpc' = [rpc EXCEPT !.twin = TRUE, !.faults = rpc.faults + 1]
      BY <1>5 DEF twinStart, Rpc
    <2>2. rpc.faults + 1 \in Nat
      BY <1>1
    <2>3. rpcTypeOK' /\ rpc'.ring = rpc.ring /\ rpc'.inbox = rpc.inbox
          /\ rpc'.g = rpc.g /\ rpc'.calls = rpc.calls /\ rpc'.wmSeq = rpc.wmSeq
          /\ rpc'.told = rpc.told /\ rpc'.foreign = rpc.foreign
      BY <2>1, <2>2 DEF RpcInv, rpcTypeOK
    <2> QED BY <2>3, SeatKeeps
  <1>6. CASE twinRequest
    <2> DEFINE frame(n) == [NoFrame EXCEPT !.kind = "navPoll", !.id = TwinTab, !.seq = n,
                                           !.replyTo = ClientPid]
    <2>0. PICK n \in 1 .. SeqSpace - 1 :
            rpc' = [rpc EXCEPT !.foreign = rpc.foreign \cup {n},
                               !.ring = IpcSend(rpc.ring, frame(n))]
      BY <1>6 DEF twinRequest, Rpc
    <2>9. PICK f : f = frame(n)
      OBVIOUS
    <2>1. rpc' = [rpc EXCEPT !.foreign = rpc.foreign \cup {n}, !.ring = IpcSend(rpc.ring, f)]
      BY <2>0, <2>9
    <2>2. n \in Nat
      BY CallsFitSequence
    <2>3. f \in Frame /\ f.id = TwinTab /\ f.call = 0 /\ f.seq = n
      <3>1. f = [reply |-> FALSE, kind |-> "navPoll", id |-> TwinTab, seq |-> n,
                 replyTo |-> ClientPid, applied |-> FALSE, title |-> "", call |-> 0]
        BY <2>9 DEF NoFrame
      <3> HIDE DEF frame
      <3> QED
        <4>1. /\ ClientPid \in PidFields /\ 0 \in 0 .. MaxCalls /\ "navPoll" \in Kinds
              /\ "" \in Paths
          BY CallsFitSequence DEF PidFields, Kinds, Paths
        <4> QED
          BY ONLY <2>2, <3>1, <4>1 DEF Frame
    <2> HIDE DEF frame
    <2>4. IpcSend(rpc.ring, f) \in Seq(Frame) /\ rpc.foreign \cup {n} \in SUBSET Nat
      BY <1>1, <2>2, <2>3 DEF IpcSend
    <2>5. rpcTypeOK' /\ rpc'.ring = IpcSend(rpc.ring, f) /\ rpc'.inbox = rpc.inbox
          /\ rpc'.g = rpc.g /\ rpc'.calls = rpc.calls /\ rpc'.wmSeq = rpc.wmSeq
          /\ rpc'.told = rpc.told /\ rpc'.foreign = rpc.foreign \cup {n}
      BY <2>1, <2>4 DEF RpcInv, rpcTypeOK
    <2>6. RingFrame(f)'
      BY <2>3, <2>5 DEF RingFrame, Foreign
    <2>7. rpc.foreign \subseteq rpc'.foreign
      BY <2>5
    <2>8. RingSound' /\ InboxSound'
      BY <2>3, <2>5, <2>6, <2>7, SeatKeeps, RingSent
    <2> QED BY <2>5, <2>7, <2>8, SeatKeeps
  <1> QED BY <1>2, <1>3, <1>4, <1>5, <1>6

(***************************************************************************)
(* The state after the seat served frame f.                                *)
(***************************************************************************)
Served(f, ok) ==
  LET rep == buildReply(f, applyRequest(f, ok), Payload(f))
      own == f.id = OwnTab
      taken == own /\ f.kind = "navPoll" /\ rep.applied
      r == [rpc EXCEPT !.ring = Tail(@)]
  IN  IF f.kind = "none" \/ f.reply THEN r
      ELSE [r EXCEPT !.queued = IF taken THEN "" ELSE @,
                     !.told = IF own THEN [@ EXCEPT ![f.call] = rep] ELSE @,
                     !.inbox = IF f.replyTo = ClientPid THEN IpcSend(@, rep) ELSE @]

(***************************************************************************)
(* The seat answers the request at the head of its ring.  No other frame   *)
(* and no finished call belongs to the call it answers.                    *)
(***************************************************************************)
LEMMA ServiceKeeps ==
  ASSUME RpcInv, serviceRPC
  PROVE  RpcInv'
  <1>1. /\ rpc.ring \in Seq(Frame) /\ rpc.inbox \in Seq(Frame) /\ rpc.ring # <<>>
        /\ rpc.calls \in 0 .. MaxCalls /\ rpc.told \in [1 .. MaxCalls -> Frame]
        /\ rpc.queued \in Paths /\ MaxCalls \in Nat
    BY CallsFitSequence DEF RpcInv, rpcTypeOK, serviceRPC
  <1>2. PICK f \in Frame : f = Head(rpc.ring)
    BY <1>1, TakeEffect
  <1>3. /\ Tail(rpc.ring) \in Seq(Frame) /\ Len(Tail(rpc.ring)) = Len(rpc.ring) - 1
        /\ f = rpc.ring[1] /\ Len(rpc.ring) \in Nat /\ Len(rpc.ring) > 0
        /\ \A i \in 1 .. Len(Tail(rpc.ring)) : Tail(rpc.ring)[i] = rpc.ring[i + 1]
    BY <1>1, <1>2, TakeEffect
  <1>4. RingFrame(f)
    <2>1. 1 \in 1 .. Len(rpc.ring)
      BY <1>3
    <2> QED BY <1>3, <2>1 DEF RpcInv, RingSound
  <1>5. ASSUME rpc'.ring = Tail(rpc.ring),
               \A h \in Frame : RingFrame(h) /\ (h.call = 0 \/ h.call # f.call)
                                 => RingFrame(h)'
        PROVE  RingSound'
    <2>1. ASSUME NEW i \in 1 .. Len(rpc'.ring)
          PROVE  /\ i + 1 \in 1 .. Len(rpc.ring) /\ rpc'.ring[i] = rpc.ring[i + 1]
                 /\ i + 1 # 1 /\ rpc.ring[i + 1] \in Frame
      BY <1>1, <1>3, <1>5
    <2>2. ASSUME NEW i \in 1 .. Len(rpc'.ring) PROVE RingFrame(rpc.ring[i])'
      <3>1. PICK h \in Frame : h = rpc.ring[i + 1]
        BY <2>1
      <3>2. RingFrame(h) /\ h = rpc'.ring[i]
        BY <2>1, <3>1 DEF RpcInv, RingSound
      <3>3. 1 \in 1 .. Len(rpc.ring)
        BY <1>3
      <3>4. h.call = 0 \/ h.call # f.call
        BY <1>3, <2>1, <3>1, <3>3 DEF RpcInv, RingSound
      <3>5. RingFrame(h)'
        BY <1>5, <3>2, <3>4
      <3> QED BY <3>2, <3>5 DEF RingFrame, Foreign, Numbers, Tagged
    <2>3. ASSUME NEW i \in 1 .. Len(rpc'.ring), NEW j \in 1 .. Len(rpc'.ring),
                 rpc'.ring[i].call = rpc'.ring[j].call, rpc'.ring[i].call # 0
          PROVE  i = j
      <3>2. /\ i + 1 \in 1 .. Len(rpc.ring) /\ rpc'.ring[i] = rpc.ring[i + 1]
            /\ j + 1 \in 1 .. Len(rpc.ring) /\ rpc'.ring[j] = rpc.ring[j + 1]
        BY <2>1
      <3>1. i + 1 = j + 1
        BY <2>3, <3>2 DEF RpcInv, RingSound
      <3> QED BY <3>1
    <2> QED BY <2>2, <2>3 DEF RingSound
  <1>6. CASE f.kind = "none" \/ f.reply
    <2>1. rpc' = [rpc EXCEPT !.ring = Tail(rpc.ring)]
      BY <1>2, <1>6 DEF serviceRPC, Rpc
    <2>2. rpcTypeOK' /\ rpc'.ring = Tail(rpc.ring) /\ rpc'.inbox = rpc.inbox
          /\ rpc'.g = rpc.g /\ rpc'.calls = rpc.calls /\ rpc'.wmSeq = rpc.wmSeq
          /\ rpc'.told = rpc.told /\ rpc'.foreign = rpc.foreign
      BY <1>3, <2>1 DEF RpcInv, rpcTypeOK
    <2>3. RingSound'
      BY <1>5, <2>2, SeatKeeps
    <2> QED BY <2>2, <2>3, SeatKeeps
  <1>7. CASE f.kind # "none" /\ ~f.reply
    <2>3. PICK rep \in Frame, q \in Paths :
            /\ rep.call = f.call /\ rep.seq = f.seq /\ rep.kind = f.kind
            /\ rep.reply /\ rep.id = f.id
            /\ rpc' = [rpc EXCEPT
                 !.ring = Tail(rpc.ring), !.queued = q,
                 !.told = IF f.id = OwnTab THEN [rpc.told EXCEPT ![f.call] = rep] ELSE rpc.told,
                 !.inbox = IF f.replyTo = ClientPid THEN IpcSend(rpc.inbox, rep) ELSE rpc.inbox]
      <3>1. PICK ok \in BOOLEAN : rpc' = Served(f, ok)
        <4>1. \E x \in BOOLEAN : rpc' = Served(Head(rpc.ring), x)
          BY DEF serviceRPC, Rpc, Served
        <4> QED BY <1>2, <4>1
      <3> DEFINE applied == applyRequest(f, ok)
                 rep == buildReply(f, applied, Payload(f))
                 taken == f.id = OwnTab /\ f.kind = "navPoll" /\ rep.applied
                 q == IF taken THEN "" ELSE rpc.queued
      <3>2. applied \in BOOLEAN
        BY DEF applyRequest
      <3>3. PICK t \in Paths : rep = [f EXCEPT !.reply = TRUE, !.applied = applied,
                                              !.title = t]
        BY <1>1 DEF buildReply, Payload, Paths
      <3>4. /\ rep \in Frame /\ rep.call = f.call /\ rep.seq = f.seq
            /\ rep.kind = f.kind /\ rep.reply /\ rep.id = f.id
        <4> HIDE DEF applied, rep
        <4> QED BY <3>2, <3>3 DEF Frame
      <3>5. q \in Paths
        BY <1>1 DEF Paths
      <3>6. rpc' = [rpc EXCEPT
              !.ring = Tail(rpc.ring), !.queued = q,
              !.told = IF f.id = OwnTab THEN [rpc.told EXCEPT ![f.call] = rep] ELSE rpc.told,
              !.inbox = IF f.replyTo = ClientPid THEN IpcSend(rpc.inbox, rep) ELSE rpc.inbox]
        <4>1. rpc' = [[rpc EXCEPT !.ring = Tail(@)] EXCEPT
                        !.queued = IF taken THEN "" ELSE @,
                        !.told = IF f.id = OwnTab THEN [@ EXCEPT ![f.call] = rep] ELSE @,
                        !.inbox = IF f.replyTo = ClientPid THEN IpcSend(@, rep) ELSE @]
          BY <1>7, <3>1 DEF Served
        <4> HIDE DEF applied, rep, taken
        <4> QED BY <4>1 DEF RpcInv, rpcTypeOK, q
      <3> HIDE DEF rep, q
      <3> QED BY <3>4, <3>5, <3>6
    <2> DEFINE inbox == IF f.replyTo = ClientPid THEN IpcSend(rpc.inbox, rep) ELSE rpc.inbox
               told == IF f.id = OwnTab THEN [rpc.told EXCEPT ![f.call] = rep] ELSE rpc.told
    <2>4. /\ rpcTypeOK' /\ rpc'.ring = Tail(rpc.ring)
          /\ rpc'.inbox = rpc.inbox \/ rpc'.inbox = IpcSend(rpc.inbox, rep)
          /\ rpc'.g = rpc.g /\ rpc'.calls = rpc.calls /\ rpc'.wmSeq = rpc.wmSeq
          /\ rpc'.told = told /\ rpc'.foreign = rpc.foreign
      <3>1. inbox \in Seq(Frame)
        BY <1>1 DEF IpcSend
      <3>2. told \in [1 .. MaxCalls -> Frame]
        BY <1>1
      <3>3. rpc' = [rpc EXCEPT !.ring = Tail(rpc.ring), !.queued = q, !.told = told,
                               !.inbox = inbox]
        BY <2>3
      <3>4. inbox = rpc.inbox \/ inbox = IpcSend(rpc.inbox, rep)
        OBVIOUS
      <3> HIDE DEF inbox, told
      <3> QED BY <1>3, <3>1, <3>2, <3>3, <3>4 DEF RpcInv, rpcTypeOK
    <2>20. CASE f.id # OwnTab
      <3>1. Foreign(f)
        BY <1>4, <1>7, <2>20, StrayShape DEF RingFrame
      <3>2. rpc'.told = rpc.told
        BY <2>4, <2>20
      <3>3. InboxFrame(rep)'
        BY <2>3, <2>4, <3>1 DEF InboxFrame, Foreign
      <3>4. rpc.foreign \subseteq rpc'.foreign
        BY <2>4
      <3>5. \A h \in Frame : (RingFrame(h) => RingFrame(h)') /\ (InboxFrame(h) => InboxFrame(h)')
        BY <2>4, <3>2, <3>4, SeatKeeps
      <3>6. RingSound'
        BY <1>5, <2>4, <3>5
      <3>7. InboxSound'
        BY <2>4, <3>3, <3>5, InboxSent
      <3> QED BY <2>4, <3>2, <3>4, <3>6, <3>7, SeatKeeps
    <2>21. CASE f.id = OwnTab
      <3>1. /\ Numbers(f) /\ rpc.told[f.call] = NoFrame
            /\ \A c \in Unsent : rpc.g[c].call # f.call
        BY <1>4, <1>7, <2>21, StrayShape DEF RingFrame, Foreign, OwnTab, TwinTab
      <3>2. f.call \in 1 .. rpc.calls /\ f.call \in 1 .. MaxCalls
        BY <1>1, <3>1 DEF Numbers, ClientPid
      <3>5. /\ rpc'.told[f.call] = rep
            /\ \A n \in 1 .. MaxCalls : n # f.call => rpc'.told[n] = rpc.told[n]
        BY <1>1, <2>4, <2>21, <3>2
      <3>6. Scanning' = Scanning /\ Unsent' = Unsent /\ Numbered' = Numbered
        BY <2>4 DEF Scanning, Unsent, Numbered
      <3>7. Mild
        <4>1. rpc.calls <= rpc.calls /\ rpc.wmSeq <= rpc.wmSeq
          BY <1>1 DEF RpcInv, rpcTypeOK
        <4> QED BY <2>4, <3>6, <4>1 DEF Mild
      <3>8. ASSUME NEW h \in Frame, h.call = 0 \/ h.call # f.call
            PROVE  /\ RingFrame(h) => RingFrame(h)'
                   /\ InboxFrame(h) => InboxFrame(h)'
        <4>1. h.call \in 1 .. rpc.calls => rpc'.told[h.call] = rpc.told[h.call]
          BY <1>1, <3>5, <3>8
        <4> QED BY <2>4, <3>7, <4>1, FrameKept
      <3>9. RingSound'
        BY <1>5, <2>4, <3>8
      <3>10. InboxFrame(rep)'
        BY <3>1, <2>3, <2>4, <3>5, <3>6 DEF InboxFrame, Foreign, Numbers, Tagged
      <3>11. ASSUME NEW h \in Frame, InboxFrame(h) PROVE InboxFrame(h)'
        <4>1. CASE h.replyTo = 0 \/ Foreign(h)
          BY <2>4, <4>1 DEF InboxFrame, Foreign
        <4>2. CASE h.replyTo # 0 /\ ~Foreign(h)
          <5>1. h.reply /\ rpc.told[h.call] = h /\ ~NoFrame.reply
            BY <3>11, <4>2 DEF InboxFrame, NoFrame
          <5>2. h.call # f.call
            BY <3>1, <5>1
          <5> QED BY <3>8, <3>11, <5>2
        <4> QED BY <4>1, <4>2
      <3>12. InboxSound'
        BY <2>4, <3>10, <3>11, InboxSent
      <3>13. UnsentFresh'
        <4>1. UnsentFresh
          BY DEF RpcInv
        <4>2. \A c \in Unsent : rpc'.told[rpc.g[c].call] = NoFrame
          BY <1>1, <3>1, <3>5, <4>1 DEF UnsentFresh
        <4>3. \A n \in 1 .. MaxCalls : n > rpc.calls => rpc'.told[n] = NoFrame
          BY <1>1, <3>2, <3>5, <4>1 DEF UnsentFresh
        <4> QED BY <2>4, <3>6, <4>1, <4>2, <4>3 DEF UnsentFresh
      <3>14. NoWrap' /\ SeqsDistinct'
        BY <2>4, <3>6 DEF RpcInv, NoWrap, SeqsDistinct
      <3>15. ASSUME NEW c \in Callers PROVE OwnAnswer(c)'
        <4>1. OwnAnswer(c)
          BY DEF RpcInv
        <4>2. ~NoFrame.reply
          BY DEF NoFrame
        <4>3. rpc.g[c].pc = "idle" /\ rpc.g[c].ok /\ rpc.g[c].seq \notin rpc.foreign =>
                rpc.g[c].call # f.call /\ rpc.g[c].call \in 1 .. MaxCalls
          BY <1>1, <3>1, <4>1, <4>2 DEF OwnAnswer
        <4> QED BY <2>4, <3>5, <4>1, <4>3 DEF OwnAnswer
      <3> QED BY <2>4, <3>9, <3>12, <3>13, <3>14, <3>15 DEF RpcInv
    <2> QED BY <2>20, <2>21
  <1> QED BY <1>6, <1>7

(***************************************************************************)
(* Every step of the client, the seat and the world keeps the invariant.   *)
(***************************************************************************)
LEMMA RpcNext == RpcInv /\ [rpcNext]_rpc => RpcInv'
  <1> SUFFICES ASSUME RpcInv, [rpcNext]_rpc PROVE RpcInv'
    OBVIOUS
  <1>1. CASE UNCHANGED rpc
    BY <1>1 DEF RpcInv, rpcTypeOK, NoWrap, SeqsDistinct, UnsentFresh, RingSound,
       InboxSound, OwnAnswer, Scanning, Unsent, Numbered, RingFrame, InboxFrame,
       Foreign, Numbers, Tagged
  <1>2. ASSUME NEW c \in Callers, callerStep(c) PROVE RpcInv'
    BY <1>2, RequestKeeps, PeersKeep, RequestSent, WaitKeeps DEF callerStep
  <1>3. CASE serviceRPC
    BY <1>3, ServiceKeeps
  <1>4. CASE queueTarget \/ seatLife \/ strayMail \/ twinStart \/ twinRequest
    BY <1>4, WorldKeeps
  <1> QED BY <1>1, <1>2, <1>3, <1>4 DEF rpcNext

(***************************************************************************)
(* A caller that is told "applied" was told so by the seat's answer to     *)
(* that very call, and got that answer's path: waitWmRpcAck never takes a  *)
(* late ack, another goroutine's ack or stray mail for it, for any number  *)
(* of goroutines and whatever the seat and the process table do, as long   *)
(* as the sequence counter does not come round.  Acks of a second instance *)
(* of the program are among the mail: the one that can be taken is an ack  *)
(* with the very number of the call, addressed to this pid by WmPeers.     *)
(***************************************************************************)
THEOREM AcksMatch == rpcSpec => []AckMatches
  <1>1. RpcInv => AckMatches
    BY DEF RpcInv, OwnAnswer, AckMatches
  <1> QED BY <1>1, RpcInit, RpcNext, PTL DEF rpcSpec
=============================================================================
