------------------------------- MODULE WmRpc --------------------------------
(***************************************************************************)
(* WM_RPC between a tab client and the seat over the kernel's mailboxes    *)
(* (user/go/vi/ipc.go, wmclient.go and the serving half of                 *)
(* gotabwm/interop.go).  One client process runs several goroutines that   *)
(* share one inbox and one sequence counter.  The seat may be late, full   *)
(* or gone, the process table may read back rows without names, other      *)
(* processes may leave mail in either ring, and a second instance of the   *)
(* same program may run, which the client's search for its own row by name *)
(* does not tell from itself.  A frame carries the number of its call,     *)
(* which nothing in the code reads: the property needs it.                 *)
(***************************************************************************)
EXTENDS Integers, Sequences, FiniteSets

CONSTANTS Callers,        \* goroutines of the client
          MaxCalls,       \* bound on calls; below the sequence space
          RingSlots,      \* MailboxMaxMessages
          WaitTicks,      \* wmMailWaitTicks
          ScanAttempts,   \* wmPeersScanAttempts
          SeqSpace,       \* values of the 8-bit sequence field
          MaxFaults,      \* bound on stray mail, exits of the seat and second instances
          MaxForeign,     \* bound on the requests of a second instance
          MaxTargets      \* bound on targets the user picks

ASSUME CallsFitSequence ==
  MaxCalls \in Nat /\ SeqSpace \in Nat /\ MaxCalls < SeqSpace

VARIABLE rpc

\* This process, and a second instance of its program.  Each has its tab.
ClientPid == 1
TwinPid   == 2
OwnTab    == 0
TwinTab   == 1

NoFrame == [reply |-> FALSE, kind |-> "none", id |-> 0, seq |-> 0, replyTo |-> 0,
            applied |-> FALSE, title |-> "", call |-> 0]

\* Mail that is no WM_RPC frame, and one that another process addressed wrongly.
Strays == {NoFrame, [NoFrame EXCEPT !.reply = TRUE, !.seq = 1]}

Idle == [pc |-> "idle", kind |-> "none", seq |-> 0, call |-> 0, attempt |-> 0,
         replyTo |-> 0, tick |-> 0, ok |-> FALSE, path |-> ""]

rpcInit ==
  rpc = [seat |-> TRUE, twin |-> FALSE, foreign |-> {}, wmSeq |-> 0, calls |-> 0, ring |-> <<>>, inbox |-> <<>>,
         queued |-> "", targets |-> 0, faults |-> 0, told |-> [n \in 1 .. MaxCalls |-> NoFrame],
         g |-> [c \in Callers |-> Idle]]

Rpc(r) == rpc' = r

\* Enqueue, refused when the ring is full.
IpcSend(ring, frame) == IF Len(ring) < RingSlots THEN Append(ring, frame) ELSE ring

Sent(ring) == Len(ring) < RingSlots

\* The counter is shared and atomic; the value 0 is skipped.
nextWmSeq(n) == IF (n + 1) % SeqSpace = 0 THEN n + 2 ELSE n + 1

\* PollNav is a call of kind "navPoll"; every other helper is a "set".
WmMailRequest(c) ==
  /\ rpc.g[c].pc = "idle" /\ rpc.calls < MaxCalls
  /\ \E kind \in {"set", "navPoll"} :
       Rpc([rpc EXCEPT !.calls = @ + 1,
              !.g[c] = [Idle EXCEPT !.pc = "scan", !.kind = kind, !.call = rpc.calls + 1]])

\* The call returns; what a call that was told "applied" was is kept for the property.
Returned(g, ok, path) ==
  IF ok THEN [Idle EXCEPT !.kind = g.kind, !.call = g.call, !.seq = g.seq, !.ok = TRUE, !.path = path]
  ELSE Idle

Refuse(c) == [rpc EXCEPT !.g[c] = Returned(@, FALSE, "")]

\* The rows in state RUNNING: this process, others, the seat, a second instance.
Rows ==
  {"self", "other"} \cup (IF rpc.seat THEN {"wm"} ELSE {}) \cup (IF rpc.twin THEN {"twin"} ELSE {})

\* The pids under the program's name among the rows that can be read.  The search
\* takes the first one, and either instance may have the lower row.
SelfRows(read) == {p \in {ClientPid, TwinPid} : (IF p = ClientPid THEN "self" ELSE "twin") \in read}

\* One read of the process table.  `lost` is the flake that returns RUNNING rows
\* without their names: a scan that misses a row cannot answer "no seat".
WmPeers(c) ==
  /\ rpc.g[c].pc = "scan"
  /\ \E lost \in SUBSET Rows :
       LET named == SelfRows(Rows \ lost)
           s == nextWmSeq(rpc.wmSeq)
       IN  IF named # {} /\ "wm" \in Rows \ lost
           THEN \E self \in named :
                  Rpc([rpc EXCEPT !.wmSeq = s,
                         !.g[c] = [@ EXCEPT !.pc = "send", !.seq = s % SeqSpace,
                                            !.replyTo = self]])
           ELSE IF (named # {} /\ lost = {}) \/ rpc.g[c].attempt + 1 = ScanAttempts
           THEN Rpc(Refuse(c))
           ELSE Rpc([rpc EXCEPT !.g[c].attempt = @ + 1])

Request(c) ==
  [NoFrame EXCEPT !.kind = rpc.g[c].kind, !.seq = rpc.g[c].seq,
                  !.replyTo = rpc.g[c].replyTo, !.call = rpc.g[c].call]

\* A seat that went away after the scan refuses the send.
sendRequest(c) ==
  /\ rpc.g[c].pc = "send"
  /\ Rpc(IF rpc.seat /\ Sent(rpc.ring)
         THEN [rpc EXCEPT !.ring = IpcSend(@, Request(c)),
                          !.g[c] = [@ EXCEPT !.pc = "wait", !.tick = 0]]
         ELSE Refuse(c))

\* Mutant: any reply is taken for the one awaited.
is_reply(c, f) == f.reply

IsAck(c, f) == f.reply /\ f.seq = rpc.g[c].seq /\ f.replyTo = rpc.g[c].replyTo

\* One probe per tick.  A frame that is not the ack is dropped, also when it
\* is the ack another goroutine waits for.
waitWmRpcAck(c) ==
  LET got == rpc.inbox # <<>>
      f == Head(rpc.inbox)
      r == [rpc EXCEPT !.inbox = IF got THEN Tail(@) ELSE @]
  IN  /\ rpc.g[c].pc = "wait"
      /\ Rpc(IF got /\ IsAck(c, f)
             THEN [r EXCEPT !.g[c] = Returned(@, f.applied, IF f.applied THEN f.title ELSE "")]
             ELSE IF rpc.g[c].tick + 1 >= WaitTicks
             THEN [r EXCEPT !.g[c] = Returned(@, FALSE, "")]
             ELSE [r EXCEPT !.g[c].tick = @ + 1])
-----------------------------------------------------------------------------
(* The seat. *)

\* A poll of a tab is applied when a target is queued for it, and takes it.
applyRequest(f, ok) == IF f.kind = "navPoll" /\ f.id = OwnTab THEN rpc.queued # "" ELSE ok

buildReply(f, applied, payload) ==
  [f EXCEPT !.reply = TRUE, !.applied = applied,
            !.title = IF applied THEN payload ELSE ""]

\* What is queued for the tab of a poll: the other instance's is a path of its own.
Payload(f) ==
  IF f.kind # "navPoll" THEN "" ELSE IF f.id = OwnTab THEN rpc.queued ELSE "t"

\* One round of the loop; an ack or mail that does not decode is skipped, and the
\* answer goes to the process the request names.
serviceRPC ==
  /\ rpc.seat /\ rpc.ring # <<>>
  /\ \E ok \in BOOLEAN :
       LET f == Head(rpc.ring)
           rep == buildReply(f, applyRequest(f, ok), Payload(f))
           own == f.id = OwnTab
           taken == own /\ f.kind = "navPoll" /\ rep.applied
           r == [rpc EXCEPT !.ring = Tail(@)]
       IN  Rpc(IF f.kind = "none" \/ f.reply THEN r
               ELSE [r EXCEPT !.queued = IF taken THEN "" ELSE @,
                              !.told = IF own THEN [@ EXCEPT ![f.call] = rep] ELSE @,
                              !.inbox = IF f.replyTo = ClientPid THEN IpcSend(@, rep) ELSE @])

\* The user picks a target on the rail.
queueTarget ==
  /\ rpc.seat /\ rpc.queued = "" /\ rpc.targets < MaxTargets
  /\ Rpc([rpc EXCEPT !.queued = "p", !.targets = @ + 1])

\* The seat exits and its ring goes, or another one registers.
seatLife ==
  /\ rpc.seat => rpc.faults < MaxFaults
  /\ Rpc([rpc EXCEPT !.seat = ~@, !.ring = <<>>, !.queued = "",
                     !.faults = IF rpc.seat THEN @ + 1 ELSE @])

strayMail ==
  /\ rpc.faults < MaxFaults
  /\ \E f \in Strays :
       \/ Rpc([rpc EXCEPT !.faults = @ + 1, !.inbox = IpcSend(@, f)])
       \/ rpc.seat /\ Rpc([rpc EXCEPT !.faults = @ + 1, !.ring = IpcSend(@, f)])

\* A second instance of the program starts.
twinStart ==
  /\ ~rpc.twin /\ rpc.faults < MaxFaults
  /\ Rpc([rpc EXCEPT !.twin = TRUE, !.faults = @ + 1])

\* It polls for its tab and, by the same search for the name, takes this process
\* for itself: its counter starts where this one's did.
twinRequest ==
  /\ rpc.twin /\ rpc.seat /\ Sent(rpc.ring)
  /\ Cardinality(rpc.foreign) < MaxForeign
  /\ \E n \in 1 .. SeqSpace - 1 :
       Rpc([rpc EXCEPT !.foreign = @ \cup {n},
                       !.ring = IpcSend(@, [NoFrame EXCEPT !.kind = "navPoll", !.id = TwinTab,
                                              !.seq = n, !.replyTo = ClientPid])])

callerStep(c) == WmMailRequest(c) \/ WmPeers(c) \/ sendRequest(c) \/ waitWmRpcAck(c)

rpcNext ==
  \/ \E c \in Callers : callerStep(c)
  \/ serviceRPC \/ queueTarget \/ seatLife \/ strayMail \/ twinStart \/ twinRequest

rpcSpec == rpcInit /\ [][rpcNext]_rpc
-----------------------------------------------------------------------------
\* A caller is told "applied", and handed a path, only by the answer the seat
\* gave to that very call: an ack that comes after its call timed out, or
\* belongs to the other goroutine, or was never an ack, is never taken for it.
\* The exception is an ack of a second instance of the program with the very
\* sequence number: waitWmRpcAck says that replies with another sequence or
\* requester are foreign (wmclient.go 166-169), and WmPeers gives both instances
\* the pid of one, so that requester is the same.
AckMatches ==
  \A c \in Callers :
    LET g == rpc.g[c]
    IN  g.pc = "idle" /\ g.ok /\ g.seq \notin rpc.foreign =>
          /\ rpc.told[g.call].applied
          /\ rpc.told[g.call].kind = g.kind
          /\ g.path = rpc.told[g.call].title

=============================================================================
