-------------------------------- MODULE Socket -------------------------------
(***************************************************************************)
(* vi.Conn (user/go/vi/conn.go), the one TCP socket of a process, as the   *)
(* goroutines that dial, listen, receive and close share it, on top of the *)
(* kernel's one TCP machine (kernel/src/tcp.zig and slots 30 to 33 of      *)
(* syscall.zig).  `tcp` is its state: "idle", "syn", "listen", "half"      *)
(* (syn_received), "est", "fin" (our FIN was sent and not answered) or     *)
(* "closed"; `server` says it was opened passively, and `owner` is this    *)
(* process ("me"), another one or none.  Every dial of the model names the *)
(* same peer, the case in which the kernel answers a second connect with   *)
(* success.                                                                *)
(***************************************************************************)
EXTENDS Integers, FiniteSets

CONSTANTS Dialers,        \* goroutines that use vi.Conn
          maxRecvPolls,   \* bound of a wait, in scheduler ticks
          MaxRx           \* bound on the segments a peer sends

ASSUME SockBounds == MaxRx \in Nat /\ maxRecvPolls \in Nat

VARIABLE sock
-----------------------------------------------------------------------------

NoConn == [open |-> FALSE, listening |-> FALSE, gone |-> FALSE]

sockInit ==
  sock = [held |-> FALSE, tcp |-> "idle", server |-> FALSE, owner |-> "none", rx |-> 0,
          left |-> MaxRx, fin |-> FALSE,
          g |-> [d \in Dialers |-> [pc |-> "idle", c |-> NoConn, polls |-> 0]]]

Sock(s) == sock' = s
AtG(d, pc) == sock.g[d].pc = pc
ToG(s, d, pc) == [s EXCEPT !.g[d].pc = pc, !.g[d].polls = 0]

\* The machine gives its connection up: a server listens again, for the same
\* owner.
Released(s) ==
  [s EXCEPT !.tcp = IF s.server THEN "listen" ELSE "idle", !.rx = 0, !.fin = FALSE]

ResetTcp(s) ==
  [s EXCEPT !.tcp = "idle", !.server = FALSE, !.owner = "none", !.rx = 0, !.fin = FALSE]

\* Slot 30 starts by resetting a machine whose connection the peer has ended.
Cleared(s) == IF s.tcp = "closed" THEN ResetTcp(s) ELSE s

\* Mutant: the flag is looked at and not claimed in the same step.
dial_checks_only(d, passive) ==
  /\ AtG(d, "idle") /\ ~sock.g[d].c.open /\ ~sock.held
  /\ Sock(ToG(sock, d, IF passive THEN "listen" ELSE "connect"))

\* Dial and Listen: CompareAndSwap(false, true), or ErrConnBusy. A zero port and
\* the all-zeros address are refused before the claim and change nothing.
Claim(d, passive) ==
  /\ AtG(d, "idle") /\ ~sock.g[d].c.open /\ ~sock.held
  /\ Sock([ToG(sock, d, IF passive THEN "listen" ELSE "connect") EXCEPT !.held = TRUE])

Dial(d) == Claim(d, FALSE)
Listen(d) == Claim(d, TRUE)

Opened(s, d, listening) ==
  [ToG(s, d, "idle") EXCEPT !.g[d].c = [NoConn EXCEPT !.open = TRUE, !.listening = listening],
                            !.held = TRUE]
Refused(s, d) == [ToG(s, d, "idle") EXCEPT !.held = FALSE]

\* Slot 30 with an address: the SYN goes out, or an established connection of
\* the caller to the same peer answers success, or an error and the claim is
\* given back. A refusal by the state of the interface precedes the reset.
TcpConnect(d) ==
  LET s == Cleared(sock)
  IN  /\ AtG(d, "connect")
      /\ \/ s.tcp = "idle"
            /\ Sock([ToG(s, d, "handshake") EXCEPT
                       !.tcp = "syn", !.server = FALSE, !.owner = "me", !.rx = 0])
         \/ s.tcp = "est" /\ s.owner = "me" /\ Sock(Opened(s, d, FALSE))
         \/ \E u \in {sock, s} : Sock(Refused(u, d))

TcpHandshake(d) ==
  /\ AtG(d, "handshake")
  /\ \/ Sock([Opened(sock, d, FALSE) EXCEPT !.tcp = "est"])
     \/ Sock(Refused(Released(sock), d))

\* Slot 30 with address 0: it takes a machine that only listens over, whoever
\* owns it.
TcpListen(d) ==
  LET s == Cleared(sock)
  IN  /\ AtG(d, "listen")
      /\ \/ s.tcp \in {"idle", "listen"}
            /\ Sock([Opened(s, d, TRUE) EXCEPT
                       !.tcp = "listen", !.server = TRUE, !.owner = "me", !.rx = 0, !.fin = FALSE])
         \/ \E u \in {sock, s} : Sock(Refused(u, d))

Owned == sock.owner = "me"
Readable == sock.rx > 0 \/ sock.fin \/ sock.tcp \in {"closed", "fin"}

\* Accept: established, or bytes or a FIN already there; a bounded wait.
Accept(d) ==
  /\ AtG(d, "idle") /\ sock.g[d].c.open /\ sock.g[d].c.listening
  /\ Owned
  /\ IF sock.tcp = "est" \/ Readable
     THEN Sock([ToG(sock, d, "idle") EXCEPT !.g[d].c.listening = FALSE])
     ELSE sock.g[d].polls < maxRecvPolls /\ Sock([sock EXCEPT !.g[d].polls = @ + 1])

\* Recv: the readiness probe, and the bytes in a second call. Readable and empty
\* is the peer's FIN; not owned any more (EAGAIN) and a timeout change nothing.
RecvProbe(d) ==
  /\ AtG(d, "idle") /\ sock.g[d].c.open /\ ~sock.g[d].c.gone /\ Owned
  /\ IF Readable THEN Sock(ToG(sock, d, "take"))
     ELSE sock.g[d].polls < maxRecvPolls /\ Sock([sock EXCEPT !.g[d].polls = @ + 1])

\* A machine that is idle or another's by now answers an error; a server that
\* listens again answers 0 bytes, which reads as the peer's FIN.
RecvTake(d) ==
  /\ AtG(d, "take")
  /\ Sock(IF ~Owned \/ sock.tcp \in {"idle", "syn"} THEN ToG(sock, d, "idle")
          ELSE IF sock.rx > 0 THEN [ToG(sock, d, "idle") EXCEPT !.rx = @ - 1]
          ELSE [ToG(sock, d, "idle") EXCEPT !.g[d].c.gone = TRUE])

\* What slot 33 makes of the machine. A listener is reset. The FIN of an
\* established connection may fail to go out, and what is not answered while the
\* kernel polls stays as it is; only a client's connection loses its owner.
Disowned(s) == IF s.server THEN s ELSE [s EXCEPT !.owner = "none"]

Closings(s) ==
  CASE s.tcp = "idle"   -> {s}
    [] s.tcp = "listen" -> {ResetTcp(s)}
    [] s.tcp = "closed" -> {Disowned(Released(s))}
    [] s.tcp = "est"    -> {Disowned(u) : u \in {s, [s EXCEPT !.tcp = "fin"], Released(s)}}
    [] OTHER            -> {Disowned(u) : u \in {s, Released(s)}}

\* Close: slot 33 refuses only a machine that another process, or nobody, owns;
\* the claim is given back after the kernel has confirmed, in a step of its own.
TcpClose(d) ==
  /\ AtG(d, "idle") /\ sock.g[d].c.open /\ (sock.tcp = "idle" \/ Owned)
  /\ \E s \in Closings(sock) : Sock([ToG(s, d, "release") EXCEPT !.g[d].c = NoConn])

ReleaseSlot(d) == AtG(d, "release") /\ Sock(Refused(sock, d))

\* The peer: it connects to a listener and may give up half way, sends a segment
\* into the one buffer, a FIN or a RST, answers our FIN, or is given up after the
\* last retransmission.
PeerActs ==
  \/ sock.tcp = "listen" /\ Sock([sock EXCEPT !.tcp = "half"])
  \/ sock.tcp = "half" /\ \E t \in {"listen", "est"} : Sock([sock EXCEPT !.tcp = t])
  \/ sock.tcp = "est" /\ sock.rx = 0 /\ sock.left > 0
     /\ Sock([sock EXCEPT !.rx = @ + 1, !.left = @ - 1])
  \/ sock.tcp = "est" /\ ~sock.fin /\ Sock([sock EXCEPT !.fin = TRUE])
  \/ sock.tcp \in {"est", "fin"} /\ Sock([sock EXCEPT !.tcp = "closed"])
  \/ sock.tcp \in {"est", "fin"} /\ Sock(Released(sock))

CloseOwner(s) ==
  [IF s.tcp \in {"est", "fin"} THEN Released(s) ELSE s EXCEPT !.owner = "none"]

\* Another process takes the machine, which it may do with a listener of this
\* process too, and closes it or exits.
OtherActs ==
  \/ /\ sock.tcp \in {"idle", "closed"}
     /\ Sock([sock EXCEPT !.tcp = "est", !.server = FALSE, !.owner = "other", !.rx = 0, !.fin = FALSE])
  \/ /\ sock.tcp \in {"idle", "closed", "listen"}
     /\ Sock([sock EXCEPT !.tcp = "listen", !.server = TRUE, !.owner = "other", !.rx = 0, !.fin = FALSE])
  \/ /\ sock.owner = "other"
     /\ \/ \E s \in Closings(sock) : Sock(s)
        \/ Sock(CloseOwner(sock))

sockNext ==
  \/ PeerActs
  \/ OtherActs
  \/ \E d \in Dialers :
       Dial(d) \/ Listen(d) \/ TcpConnect(d) \/ TcpHandshake(d) \/ TcpListen(d) \/ Accept(d)
       \/ RecvProbe(d) \/ RecvTake(d) \/ TcpClose(d) \/ ReleaseSlot(d)

sockSpec == sockInit /\ [][sockNext]_sock

-----------------------------------------------------------------------------
\* The goroutines with an open Conn, or between a claim and its release.
SlotUsers(s) == {d \in Dialers : s.g[d].c.open \/ s.g[d].pc # "idle"}

\* The one-socket law of conn.go: however Dial, Listen and Close of several
\* goroutines interleave with a peer and with another process taking the machine,
\* two Conns are never open at once (the kernel would let both use one
\* connection), whoever is past its claim holds the slot alone, and a connection
\* this process dialled and still owns in the kernel has a Conn or a dial that
\* will close or release it. Nothing of the kind holds of a server's connection:
\* Close leaves the machine to this process, listening or established.
OneSocket ==
  /\ Cardinality(SlotUsers(sock)) <= 1
  /\ sock.held <=> SlotUsers(sock) # {}
  /\ sock.owner = "me" /\ ~sock.server /\ sock.tcp \in {"syn", "est"} => SlotUsers(sock) # {}
=============================================================================
