-------------------------------- MODULE Ssh ---------------------------------
(***************************************************************************)
(* GOSSH.ELF against GOSSHD.ELF: the two state machines of user/go/sshlib  *)
(* and the loops of ssh/main.go and sshd/main.go that move their bytes     *)
(* through the kernel's one-segment TCP.  A packet is [t, f, enc, seq] and *)
(* takes Size units; what an end sends is cut into segments of at most     *)
(* SegMax units wherever that falls, and arrives in order, at any time.    *)
(* Keys are symbolic: a sealed packet opens under the sequence number it   *)
(* was sealed with.  The two ends are this repository's own: what the      *)
(* server would answer another client, whose messages come in another      *)
(* order, is not asked here.                                               *)
(***************************************************************************)
EXTENDS Integers, Sequences, SequencesExt

CONSTANTS SshConfigs,     \* [pin, seed, key, offers, cmd, out, status, window, bound]
          SegMax,         \* TCPPayloadMax, in units
          BigPackets      \* packets of two units: KEXINIT, KEX_ECDH_REPLY

VARIABLE ssh

Size(t) == IF t \in BigPackets THEN 2 ELSE 1

NewEnd ==
  [phase |-> "Version", input |-> <<>>, out |-> <<>>, enc |-> FALSE, sendSeq |-> 0, recvSeq |-> 0,
   peerInit |-> "", flush |-> FALSE, pendingService |-> FALSE, auth |-> 0, chan |-> 0,
   encPackets |-> 0, win |-> 0, stdout |-> <<>>, exit |-> -1, err |-> "", code |-> 8,
   sessionID |-> <<>>, hostKey |-> "", ran |-> ""]

sshClosed(e) == e.phase \in {"Failed", "Closed"}

SshFail(e, name, code) == [e EXCEPT !.phase = "Failed", !.err = name, !.code = code]

Queue(e, t, f) ==
  [e EXCEPT !.sendSeq = @ + 1,
            !.out = Append(@, [t |-> t, f |-> f, enc |-> e.enc, seq |-> e.sendSeq])]

\* The client counts its sealed packets against the bound of one key.
sendPacket(e, cfg, t, f) ==
  LET n == IF e.enc THEN e.encPackets + 1 ELSE e.encPackets
      c == [e EXCEPT !.encPackets = n]
  IN  IF e.enc /\ n > cfg.bound THEN SshFail(c, "NoRekey", 9) ELSE Queue(c, t, f)

\* The first packet of the input, when all of its units are there.
Whole(input) == input # <<>> /\ Len(input) >= Head(input).of

nextPlain(e) ==
  LET p == Head(e.input).p
      rest == SubSeq(e.input, Head(e.input).of + 1, Len(e.input))
  IN  IF p.enc THEN SshFail(e, "BadPacket", 8)
      ELSE [e EXCEPT !.input = rest, !.recvSeq = @ + 1]

nextEncrypted(e) ==
  LET p == Head(e.input).p
      rest == SubSeq(e.input, Head(e.input).of + 1, Len(e.input))
  IN  IF ~p.enc \/ p.seq # e.recvSeq THEN SshFail(e, "BadPacket", 8)
      ELSE [e EXCEPT !.input = rest, !.recvSeq = @ + 1]

\* The exchange hash of what one end sent and the other end received.
ExchangeHash(iC, iS, qC, hostKey) == <<iC, iS, qC, hostKey>>

-----------------------------------------------------------------------------
(* The client.                                                              *)

\* The identification line, then our KEXINIT without waiting for the peer's.
Start(c) == Queue([Queue(c, "Ident", "") EXCEPT !.sendSeq = 0], "KexInit", "iC")

\* Lines before the identification are banners; the version is checked.
readVersion(c) == [c EXCEPT !.input = Tail(@), !.phase = "Kex"]

parseServerKexInit(c, cfg, f) ==
  IF ~cfg.offers THEN SshFail(c, "NoCommonKex", 3)
  ELSE sendPacket([c EXCEPT !.peerInit = f], cfg, "ECDHInit", "qC")

\* Mutant: the ciphers are on before our NEWKEYS goes out.
newkeys_sealed(c, cfg, f) ==
  IF f.sig # ExchangeHash("iC", c.peerInit, "qC", f.hostKey) THEN SshFail(c, "BadSignature", 3)
  ELSE [sendPacket([c EXCEPT !.hostKey = f.hostKey, !.sessionID = f.sig, !.enc = TRUE], cfg, "NewKeys", "")
          EXCEPT !.flush = TRUE]

\* Our NEWKEYS goes out in the clear, then both ciphers are on.
handleECDHReply(c, cfg, f) ==
  IF f.sig # ExchangeHash("iC", c.peerInit, "qC", f.hostKey) THEN SshFail(c, "BadSignature", 3)
  ELSE [sendPacket([c EXCEPT !.hostKey = f.hostKey, !.sessionID = f.sig], cfg, "NewKeys", "")
          EXCEPT !.enc = TRUE, !.flush = TRUE]

checkPin(c, cfg) ==
  IF cfg.pin = "none" THEN SshFail(c, "MissingHostPin", 4)
  ELSE IF cfg.pin # c.hostKey THEN SshFail(c, "HostKeyMismatch", 4)
  ELSE [c EXCEPT !.pendingService = TRUE]

handleKex(c, cfg, p) ==
  CASE p.t = "KexInit" -> parseServerKexInit(c, cfg, p.f)
    [] p.t = "ECDHReply" -> handleECDHReply(c, cfg, p.f)
    [] p.t = "NewKeys" ->
         IF ~c.enc THEN SshFail(c, "UnexpectedMessage", 3)
         ELSE checkPin([c EXCEPT !.phase = "Encrypted"], cfg)
    [] OTHER -> SshFail(c, "UnexpectedMessage", 3)

handleServiceAccept(c, cfg) == sendPacket(c, cfg, "UserauthReq", [method |-> "none"])

sendPublickey(c, cfg) ==
  [sendPacket(c, cfg, "UserauthReq", [method |-> "publickey", key |-> cfg.key, sig |-> c.sessionID])
     EXCEPT !.auth = 2]

handleUserauthFail(c, cfg) ==
  CASE c.auth >= 2 -> SshFail(c, "AuthRejected", 5)
    [] c.auth = 0 -> SshFail(c, "UnexpectedMessage", 5)
    [] c.auth = 1 /\ ~cfg.seed -> SshFail(c, "MissingCredential", 5)
    [] OTHER -> sendPublickey(c, cfg)

openChannel(c, cfg) ==
  [sendPacket([c EXCEPT !.auth = 3], cfg, "ChannelOpen", cfg.window) EXCEPT !.chan = 1]

handleChannelConfirm(c, cfg) ==
  IF cfg.cmd = "" THEN SshFail([c EXCEPT !.chan = 2], "NoTty", 10)
  ELSE [sendPacket(c, cfg, "ChannelReq", cfg.cmd) EXCEPT !.chan = 3]

handleChannelData(c, f) == [c EXCEPT !.stdout = Append(@, f)]

handleChannelReq(c, f) == [c EXCEPT !.exit = f]

handleEncrypted(c, cfg, p) ==
  CASE p.t = "ServiceAccept" -> handleServiceAccept(c, cfg)
    [] p.t = "UserauthFail" -> handleUserauthFail(c, cfg)
    [] p.t = "UserauthOK" -> openChannel(c, cfg)
    [] p.t = "ChannelConfirm" -> handleChannelConfirm(c, cfg)
    [] p.t = "ChannelData" -> handleChannelData(c, p.f)
    [] p.t = "ExitStatus" -> handleChannelReq(c, p.f)
    [] p.t = "ChannelFail" -> SshFail(c, "BadState", 7)
    [] p.t = "ChannelClose" -> [c EXCEPT !.phase = "Closed"]
    [] OTHER -> c

\* After our NEWKEYS the step ends, whatever input is left.
RECURSIVE clientLoop(_, _)
clientLoop(c, cfg) ==
  IF sshClosed(c) \/ ~Whole(c.input) THEN c
  ELSE LET p == Head(c.input).p
           next == IF c.phase = "Kex" THEN nextPlain(c) ELSE nextEncrypted(c)
           k == handleKex(next, cfg, p)
       IN  CASE c.phase = "Version" -> clientLoop(readVersion(c), cfg)
             [] next.phase = "Failed" -> next
             [] c.phase = "Kex" -> IF k.flush THEN [k EXCEPT !.flush = FALSE] ELSE clientLoop(k, cfg)
             [] OTHER -> clientLoop(handleEncrypted(next, cfg, p), cfg)

\* A step that owes the service request does only that.
clientProcess(c, cfg) ==
  IF c.pendingService
  THEN [sendPacket([c EXCEPT !.pendingService = FALSE], cfg, "ServiceRequest", "") EXCEPT !.auth = 1]
  ELSE clientLoop(c, cfg)

clientFeed(c, cfg, data) ==
  IF sshClosed(c) THEN c ELSE clientProcess([c EXCEPT !.input = @ \o data], cfg)

-----------------------------------------------------------------------------
(* The server.                                                              *)

srvReadVersion(s) ==
  Queue([Queue([s EXCEPT !.input = Tail(@), !.phase = "Kex"], "Ident", "") EXCEPT !.sendSeq = 0],
        "KexInit", "iS")

\* The reply and NEWKEYS go out together, in the clear.
performKex(s, qC) ==
  LET h == ExchangeHash(s.peerInit, "iS", qC, "host")
      t == Queue(Queue(s, "ECDHReply", [sig |-> h, hostKey |-> "host"]), "NewKeys", "")
  IN  [t EXCEPT !.sessionID = h, !.enc = TRUE]

srvHandleKex(s, p) ==
  CASE p.t = "KexInit" -> [s EXCEPT !.peerInit = p.f]
    [] p.t = "ECDHInit" -> performKex(s, p.f)
    [] p.t = "NewKeys" -> [s EXCEPT !.phase = "Encrypted"]
    [] OTHER -> SshFail(s, "UnexpectedMessage", 1)

handleService(s) == Queue(s, "ServiceAccept", "")

keyAllowed(key) == key = "listed"

handleUserauth(s, f) ==
  IF f.method = "none" \/ ~keyAllowed(f.key) \/ f.sig # s.sessionID
  THEN Queue(s, "UserauthFail", "")
  ELSE Queue(s, "UserauthOK", "")

handleChannelOpen(s, window) == Queue([s EXCEPT !.win = window], "ChannelConfirm", "")

\* Output past the peer's window is left out: nothing waits for an adjustment.
sendChannelData(s, data) ==
  FoldLeft(LAMBDA e, b : [Queue(e, "ChannelData", b) EXCEPT !.win = @ - 1], s,
           SubSeq(data, 1, IF Len(data) < s.win THEN Len(data) ELSE s.win))

sendExitStatus(s, status) == Queue(s, "ExitStatus", status)

\* A request is served whatever came before it; that a key was accepted first is
\* the client's doing.  The command runs inside the step; EOF and CLOSE follow its
\* status.
srvHandleChannelReq(s, cfg, cmd) ==
  LET ok == Queue([s EXCEPT !.ran = cmd], "ChannelOK", "")
      done == sendExitStatus(sendChannelData(ok, cfg.out), cfg.status)
  IN  IF s.ran # "" THEN SshFail(s, "SecondExec", 1)
      ELSE [Queue(Queue(done, "ChannelEOF", ""), "ChannelClose", "") EXCEPT !.phase = "Closed"]

srvHandleEncrypted(s, cfg, p) ==
  CASE p.t = "ServiceRequest" -> handleService(s)
    [] p.t = "UserauthReq" -> handleUserauth(s, p.f)
    [] p.t = "ChannelOpen" -> handleChannelOpen(s, p.f)
    [] p.t = "ChannelReq" -> srvHandleChannelReq(s, cfg, p.f)
    [] OTHER -> s

RECURSIVE serverLoop(_, _)
serverLoop(s, cfg) ==
  IF sshClosed(s) \/ ~Whole(s.input) \/ (s.phase = "Encrypted" /\ ~s.enc) THEN s
  ELSE LET p == Head(s.input).p
           next == IF s.phase = "Kex" THEN nextPlain(s) ELSE nextEncrypted(s)
       IN  CASE s.phase = "Version" -> serverLoop(srvReadVersion(s), cfg)
             [] next.phase = "Failed" -> next
             [] s.phase = "Kex" -> serverLoop(srvHandleKex(next, p), cfg)
             [] OTHER -> serverLoop(srvHandleEncrypted(next, cfg, p), cfg)

serverFeed(s, cfg, data) ==
  IF sshClosed(s) THEN s ELSE serverLoop([s EXCEPT !.input = @ \o data], cfg)

-----------------------------------------------------------------------------
(* The two mains.  m is the state of a loop: where it is, the segments it   *)
(* still has to send, the input it holds and what it drained meanwhile.     *)

Units(out) ==
  FlattenSeq([k \in DOMAIN out |->
    [i \in 1 .. Size(out[k].t) |-> [p |-> out[k], i |-> i, of |-> Size(out[k].t)]]])

\* pacedSend cuts its bytes into segments of at most SegMax units.
Segments(out) ==
  LET u == Units(out)
      n == (Len(u) + SegMax - 1) \div SegMax
      last(k) == IF k * SegMax < Len(u) THEN k * SegMax ELSE Len(u)
  IN  [k \in 1 .. n |-> SubSeq(u, (k - 1) * SegMax + 1, last(k))]

Main(pc) == [pc |-> pc, segs |-> <<>>, in |-> <<>>, left |-> <<>>, gaveUp |-> FALSE]

sshInit ==
  \E cfg \in SshConfigs :
    ssh = [cfg |-> cfg, c |-> NewEnd, s |-> NewEnd, mc |-> Main("start"), ms |-> Main("wait"),
           c2s |-> <<>>, s2c |-> <<>>]

sshStart ==
  /\ ssh.mc.pc = "start"
  /\ ssh' = [ssh EXCEPT !.c = [Start(@) EXCEPT !.out = <<>>], !.mc.pc = "send",
                        !.mc.segs = Segments(Start(ssh.c).out)]

\* One segment; the transmit slot is free when the last one was acknowledged.
pacedSend ==
  /\ ssh.mc.pc = "send" /\ ssh.mc.segs # <<>> /\ ssh.c2s = <<>>
  /\ ssh' = [ssh EXCEPT !.c2s = Head(ssh.mc.segs), !.mc.segs = Tail(@), !.mc.pc = "drain"]

\* drainRX takes segments while there are any; the send goes on afterwards,
\* and every turn of its wait drains again.
drainRX ==
  /\ ssh.mc.pc \in {"drain", "got", "send"}
  /\ \/ ssh.s2c # <<>> /\ ssh' = [ssh EXCEPT !.mc.left = @ \o ssh.s2c, !.s2c = <<>>]
     \/ /\ ssh.s2c = <<>> /\ ssh.mc.pc # "send"
        /\ ssh' = [ssh EXCEPT !.mc.pc = IF ssh.mc.pc = "got" THEN "feed"
                                        ELSE IF ssh.mc.segs = <<>> THEN "top" ELSE "send"]

\* What was drained is fed as one piece; else the loop waits for a segment.
sshTop ==
  /\ ssh.mc.pc = "top"
  /\ ssh' = IF sshClosed(ssh.c) THEN [ssh EXCEPT !.mc.pc = "done"]
            ELSE IF ssh.mc.left # <<>>
            THEN [ssh EXCEPT !.mc.in = ssh.mc.left, !.mc.left = <<>>, !.mc.pc = "feed"]
            ELSE [ssh EXCEPT !.mc.pc = "wait"]

serverQuiet ==
  /\ ssh.c2s = <<>> /\ ssh.s2c = <<>>
  /\ ssh.ms.pc = "done" \/ (ssh.ms.pc = "wait" /\ ssh.ms.left = <<>>)

\* The time-out matters only where nothing can arrive any more.
recvWait ==
  /\ ssh.mc.pc = "wait"
  /\ \/ ssh.s2c # <<>> /\ ssh' = [ssh EXCEPT !.mc.in = ssh.s2c, !.s2c = <<>>, !.mc.pc = "got"]
     \/ serverQuiet /\ ssh' = [ssh EXCEPT !.mc.pc = "done", !.mc.gaveUp = TRUE]

\* A step that produced nothing is followed by one without input.
sshFeed ==
  /\ ssh.mc.pc = "feed"
  /\ LET one == clientFeed(ssh.c, ssh.cfg, ssh.mc.in)
         two == IF one.out = <<>> THEN clientFeed(one, ssh.cfg, <<>>) ELSE one
     IN  ssh' = [ssh EXCEPT !.c = [two EXCEPT !.out = <<>>],
                   !.mc = [@ EXCEPT !.in = <<>>, !.segs = Segments(two.out),
                                    !.pc = IF two.out = <<>> THEN "top" ELSE "send"]]

sshdFeed(data, left) ==
  LET s == serverFeed(ssh.s, ssh.cfg, data)
  IN  [ssh EXCEPT !.s = [s EXCEPT !.out = <<>>], !.c2s = <<>>,
         !.ms = [@ EXCEPT !.left = left, !.segs = Segments(s.out),
                          !.pc = IF s.out # <<>> THEN "send" ELSE IF sshClosed(s) THEN "done" ELSE "wait"]]

\* Recv fails once the client is gone.
sshdWait ==
  /\ ssh.ms.pc = "wait"
  /\ \/ /\ ssh.ms.left # <<>>
        /\ ssh' = [sshdFeed(ssh.ms.left, <<>>) EXCEPT !.c2s = ssh.c2s]
     \/ ssh.ms.left = <<>> /\ ssh.c2s # <<>> /\ ssh' = sshdFeed(ssh.c2s, <<>>)
     \/ /\ ssh.ms.left = <<>> /\ ssh.c2s = <<>> /\ ssh.mc.pc = "done"
        /\ ssh' = [ssh EXCEPT !.ms.pc = "done"]

\* Between segments the server takes in what has arrived.
sshdPacedSend ==
  /\ ssh.ms.pc = "send"
  /\ \/ /\ ssh.s2c = <<>>
        /\ ssh' = [ssh EXCEPT !.s2c = Head(ssh.ms.segs), !.ms.segs = Tail(@),
                     !.ms.pc = IF Len(ssh.ms.segs) > 1 THEN "send"
                               ELSE IF sshClosed(ssh.s) THEN "done" ELSE "wait"]
     \/ ssh.c2s # <<>> /\ ssh' = [ssh EXCEPT !.ms.left = @ \o ssh.c2s, !.c2s = <<>>]
     \/ ssh.mc.pc = "done" /\ ssh' = [ssh EXCEPT !.ms.pc = "done"]

sshNext ==
  \/ sshStart \/ pacedSend \/ drainRX \/ sshTop \/ recvWait \/ sshFeed
  \/ sshdWait \/ sshdPacedSend

sshSpec == sshInit /\ [][sshNext]_ssh

-----------------------------------------------------------------------------

Fits == Len(ssh.cfg.out) <= ssh.cfg.window

\* However the stream is cut, the two ends never lose step: no packet fails to
\* open, the status the client ends with is the one the command returned, its
\* output is the command's (all of it when it fits the window), and the client has
\* its command run only by the pinned host, once that host has accepted the key
\* (client.go: the NEWKEYS hand-over, the sequence numbers, the order of the
\* exchange; it is the client's order, the server requires none).
SshFaithful ==
  /\ ssh.c.err # "BadPacket" /\ ssh.s.err # "BadPacket"
  /\ IsPrefix(ssh.c.stdout, ssh.cfg.out)
  /\ ssh.c.exit # -1 => /\ ssh.c.exit = ssh.cfg.status /\ ssh.s.ran = ssh.cfg.cmd
                        /\ Fits => ssh.c.stdout = ssh.cfg.out
  /\ ssh.s.ran # "" => ssh.c.auth = 3 /\ ssh.cfg.pin = "host" /\ keyAllowed(ssh.cfg.key)

\* The service request follows the server's NEWKEYS on the next step of the
\* client (client.go, handleKex: "The next Feed (nil) sends the request"): the
\* client never gives up on a server that is itself waiting for the client.
SshNoStall == ssh.mc.gaveUp => ssh.ms.pc = "done"
=============================================================================
