----------------------------- MODULE TlsClient ------------------------------
(***************************************************************************)
(* The TLS 1.3 client of user/go/tls: record layer, handshake, chain and   *)
(* identity validation, and the stream adapter under it.  Cryptography is  *)
(* symbolic: a key is the label, secret and transcript it is derived from, *)
(* a signature is the key that made it with what it covers, and a record   *)
(* opens only under the key and sequence number that sealed it.  The peer  *)
(* may send any message at any time, coalesced or fragmented, and only     *)
(* signs with the keys it holds; the network may add a record.             *)
(***************************************************************************)
EXTENDS Integers, Sequences, SequencesExt

CONSTANTS TlsServers,     \* [chain, holds]: what a peer presents, the keys it has
          RootsDER,       \* certificates offered to addRoot, in order
          tlsHost, tlsNow,
          trustStoreMax, maxIntermediates, maxPath, maxGeneralNames,
          HsBufMax,       \* units of handshake the reassembly buffer holds
          StashCap,       \* records the stream stash holds
          MaxInFlight,    \* records under way to the client
          MaxTlsFaults,   \* departures from a plain flight: splits, messages out
                          \* of order or not asked for, records from elsewhere
          MaxTlsSends, MaxAppBytes, MaxTlsWrites

ASSUME PathBound == maxPath \in Nat

VARIABLE tls

Fail(what) == [error |-> what]
Failed(x) == "error" \in DOMAIN x

-----------------------------------------------------------------------------
(* Certificates.  A DER certificate is its parsed fields and the list of    *)
(* its extensions [oid, critical, val]; `der` is FALSE when it is no DER.   *)

NoExtensions ==
  [hasSAN |-> FALSE, san |-> <<>>, hasBasicConstraints |-> FALSE, isCA |-> FALSE,
   pathLen |-> -1, hasKeyUsage |-> FALSE, keyUsage |-> {}, hasEKU |-> FALSE,
   ekuServerAuth |-> FALSE, hasNameConstraints |-> FALSE, permitted |-> {},
   excluded |-> {}, unknownCritical |-> 0]

\* The names of every subjectAltName extension accumulate.
parseSAN(x, val) ==
  IF Len(x.san) + Len(val) > maxGeneralNames THEN Fail("TooManyExtensions")
  ELSE [x EXCEPT !.hasSAN = TRUE, !.san = @ \o val]

\* val is the empty sequence or <<cA>> or <<cA, pathLen>>.
parseBasicConstraints(x, val) ==
  IF Len(val) > 1 /\ val[2] > 255 THEN Fail("BadExtension")
  ELSE [x EXCEPT !.hasBasicConstraints = TRUE,
          !.isCA = IF val = <<>> THEN @ ELSE val[1],
          !.pathLen = IF Len(val) < 2 THEN @ ELSE val[2]]

parseKeyUsage(x, val) == [x EXCEPT !.hasKeyUsage = TRUE, !.keyUsage = val]

parseEKU(x, val) ==
  [x EXCEPT !.hasEKU = TRUE, !.ekuServerAuth = @ \/ "serverAuth" \in val]

parseNameConstraints(x, val) ==
  [x EXCEPT !.hasNameConstraints = TRUE, !.permitted = val.permitted, !.excluded = val.excluded]

parseExtension(x, e) ==
  CASE Failed(x) -> x
    [] e.oid = "subjectAltName" -> parseSAN(x, e.val)
    [] e.oid = "basicConstraints" -> parseBasicConstraints(x, e.val)
    [] e.oid = "keyUsage" -> parseKeyUsage(x, e.val)
    [] e.oid = "extKeyUsage" -> parseEKU(x, e.val)
    [] e.oid = "nameConstraints" -> parseNameConstraints(x, e.val)
    [] OTHER -> [x EXCEPT !.unknownCritical = @ + (IF e.critical THEN 1 ELSE 0)]

parseExtensions(exts) == FoldLeft(parseExtension, NoExtensions, exts)

parseCert(d) ==
  IF ~d.der THEN Fail("NotACertificate")
  ELSE LET x == parseExtensions(d.exts)
       IN  IF Failed(x) THEN x
           ELSE [subject |-> d.subject, issuer |-> d.issuer, key |-> d.key, signer |-> d.signer,
                 sigAlg |-> d.sigAlg, notBefore |-> d.from, notAfter |-> d.to,
                 subjectCN |-> d.cn, ext |-> x]

hasUnknownCritical(c) == c.ext.unknownCritical > 0
ekuOK(c) == ~c.ext.hasEKU \/ c.ext.ekuServerAuth

-----------------------------------------------------------------------------
(* Identity.  A DNS name is the sequence of its labels, compared without    *)
(* case; a SAN is [ip, name].                                               *)

\* An IPv4 literal is compared in its IPv6-mapped form, as its SAN is.
parseIPLiteral(host) == IF host.kind = "v4" THEN <<"mapped", host.name>> ELSE host.name

matchWildcard(pattern, host) ==
  /\ Len(pattern) > 2 /\ pattern[1] = "*"
  /\ \A i \in 2 .. Len(pattern) : pattern[i] # "*"
  /\ Len(host) = Len(pattern) /\ Tail(host) = Tail(pattern)

hostIsSane(host) == host # <<>> /\ \A i \in DOMAIN host : host[i] # ""

verifyIdentity(c, host) ==
  LET dns == {i \in DOMAIN c.ext.san : ~c.ext.san[i].ip}
      stars == {i \in dns : "*" \in Range(c.ext.san[i].name)}
      exact == {i \in dns \ stars : c.ext.san[i].name = host.name}
      wild == {i \in stars : matchWildcard(c.ext.san[i].name, host.name)}
  IN  CASE host.kind # "dns" ->
             IF \E i \in DOMAIN c.ext.san :
                  c.ext.san[i].ip /\ c.ext.san[i].name = parseIPLiteral(host)
             THEN "MatchIP" ELSE "NoMatch"
        [] host.kind = "dns" /\ ~hostIsSane(host.name) -> "MalformedHost"
        [] OTHER ->
             IF ~c.ext.hasSAN THEN (IF c.subjectCN = host.name THEN "MatchCNFallback" ELSE "NoMatch")
             ELSE IF exact # {} THEN "MatchDNS"
             ELSE IF wild = {} THEN "NoMatch"
             ELSE IF \E i, j \in wild : i # j THEN "Ambiguous" ELSE "MatchWildcard"

identityOK(verdict) == verdict \in {"MatchDNS", "MatchWildcard", "MatchIP"}

-----------------------------------------------------------------------------
(* Trust store and chain validation.                                        *)

addRoot(roots, d) ==
  LET c == parseCert(d)
  IN  IF Len(roots) >= trustStoreMax \/ Failed(c) THEN roots
      ELSE IF c.ext.isCA /\ c.ext.hasBasicConstraints THEN Append(roots, c) ELSE roots

defaultStore == FoldLeft(addRoot, <<>>, RootsDER)

\* The first certificate of s with this subject, as a sequence of at most one.
bySubject(s, name) ==
  LET first == {i \in DOMAIN s : s[i].subject = name /\ \A j \in 1 .. i - 1 : s[j].subject # name}
  IN  IF first = {} THEN <<>> ELSE <<s[CHOOSE i \in first : TRUE]>>

findIssuer(roots, name) == bySubject(roots, name)

\* One extension of the path: a root if the store has one, else the first
\* intermediate; nothing is ever taken back.
extendPath(p, ints, roots) ==
  LET cur == Last(p.path)
      root == findIssuer(roots, cur.issuer)
      ic == bySubject(ints, cur.issuer)
  IN  IF p.done \/ Len(p.path) >= maxPath THEN p
      ELSE IF root # <<>> THEN [p EXCEPT !.path = @ \o root, !.anchored = TRUE, !.done = TRUE]
      ELSE IF ic # <<>> THEN [p EXCEPT !.path = @ \o ic]
      ELSE [p EXCEPT !.done = TRUE]

buildPath(leaf, ints, roots) ==
  LET p[n \in 0 .. maxPath] ==
        IF n = 0 THEN [path |-> <<leaf>>, anchored |-> FALSE, done |-> FALSE]
        ELSE extendPath(p[n - 1], ints, roots)
  IN  p[maxPath]

sigAlgAllowed(alg) == alg # "sha1"
verifyCertSignature(c, iss) == c.signer = iss.key

\* ".example.com" and "example.com" both match the name and its subdomains.
matchSubtree(base, name) ==
  /\ base # <<>> /\ name # <<>> /\ Len(name) >= Len(base)
  /\ SubSeq(name, Len(name) - Len(base) + 1, Len(name)) = base

checkNameConstraints(leaf, ca) ==
  ca.ext.hasNameConstraints =>
    \A i \in DOMAIN leaf.ext.san :
      LET g == leaf.ext.san[i]
      IN  ~g.ip => /\ ca.ext.permitted # {} => \E p \in ca.ext.permitted : matchSubtree(p, g.name)
                   /\ \A e \in ca.ext.excluded : ~matchSubtree(e, g.name)

inWindow(c) == tlsNow >= c.notBefore /\ tlsNow <= c.notAfter

\* Link i of the path, i counted from 0 as the code does.
linkOK(path, i) ==
  LET c == path[i + 1]
      iss == path[i + 2]
  IN  /\ sigAlgAllowed(c.sigAlg) /\ verifyCertSignature(c, iss)
      /\ inWindow(c) /\ ~hasUnknownCritical(c)
      /\ iss.ext.hasBasicConstraints /\ iss.ext.isCA
      /\ iss.ext.hasKeyUsage => "keyCertSign" \in iss.ext.keyUsage
      /\ iss.ext.pathLen >= 0 => i <= iss.ext.pathLen
      /\ checkNameConstraints(path[1], iss)

validateChain(leafDER, intsDER, roots) ==
  LET leaf == parseCert(leafDER)
      ints == [i \in DOMAIN intsDER |-> parseCert(intsDER[i])]
      p == buildPath(leaf, ints, roots)
      root == Last(p.path)
  IN  /\ ~Failed(leaf) /\ \A i \in DOMAIN ints : ~Failed(ints[i])
      /\ p.anchored
      /\ \A i \in 0 .. Len(p.path) - 2 : linkOK(p.path, i)
      /\ inWindow(root) /\ ~hasUnknownCritical(root)
      /\ ekuOK(leaf) /\ identityOK(verifyIdentity(leaf, tlsHost))

-----------------------------------------------------------------------------
(* Keys, records and the stream.                                            *)

deriveSecret(secret, label, th) == <<label, secret, th>>
NoKey == <<"plain">>

Record(outer, key, seq, inner, units) ==
  [outer |-> outer, key |-> key, seq |-> seq, inner |-> inner, units |-> units]

newClient(s) ==
  [pc |-> "dial", state |-> "Idle", transcript |-> <<>>, hsBuf |-> <<>>,
   readKey |-> NoKey, writeKey |-> NoKey, readSeq |-> 0, writeSeq |-> 0,
   secret |-> "none", leaf |-> <<>>, ints |-> <<>>, pendingClientCert |-> FALSE,
   pending |-> <<>>, stash |-> <<>>, delivered |-> <<>>, writes |-> 0,
   sealed |-> {}, reused |-> FALSE, net |-> <<>>, faults |-> 0,
   peer |-> [srv |-> s, said |-> <<>>, part |-> <<>>, key |-> NoKey, seq |-> 0,
             app |-> 0, sends |-> 0]]

tlsInit == \E s \in TlsServers : tls = newClient(s)

\* drainOnce: after each segment the stream takes one chunk that has arrived;
\* a full stash is an error of the write.
drainOnce(t) ==
  IF t.net = <<>> THEN t
  ELSE IF Len(t.stash) >= StashCap THEN [t EXCEPT !.pc = "failed"]
  ELSE [t EXCEPT !.stash = Append(@, Head(t.net)), !.net = Tail(@)]

\* sendRecord uses up its sequence number whether or not the transport writes.
sendRecord(t) ==
  LET used == <<t.writeKey, t.writeSeq>>
      s == IF t.writeKey = NoKey THEN t
           ELSE [t EXCEPT !.writeSeq = @ + 1, !.sealed = @ \cup {used},
                          !.reused = @ \/ used \in t.sealed]
  IN  {drainOnce(s), [s EXCEPT !.pc = "failed"]}

\* One chunk into the stash, or the end of the stream, or the time-out.
pumpOnce ==
  /\ tls.pc \in {"handshake", "read"} /\ tls.stash = <<>>
  /\ \/ tls.net # <<>> /\ tls' = [tls EXCEPT !.stash = <<Head(tls.net)>>, !.net = Tail(@)]
     \/ tls.net = <<>> /\ tls' = [tls EXCEPT !.pc = "failed"]

\* What readRecord makes of a record: its inner type and units, or an error.
openRecord(t, r) == r.outer = "app" /\ r.key = t.readKey /\ r.seq = t.readSeq

readRecord(t) ==
  LET r == Head(t.stash)
      s == [t EXCEPT !.stash = Tail(@)]
      opened == [s EXCEPT !.readSeq = @ + 1]
  IN  IF r.outer = "ccs" THEN <<s, "ccs", <<>>>>
      ELSE IF r.outer = "alert" THEN <<s, "error", <<>>>>
      ELSE IF t.readKey = NoKey THEN <<s, r.outer, r.units>>
      ELSE IF ~openRecord(t, r) THEN <<s, "error", <<>>>>
      ELSE <<opened, r.inner, r.units>>

-----------------------------------------------------------------------------
(* The handshake.                                                           *)

handshake ==
  /\ tls.pc = "dial"
  /\ tls' \in sendRecord([tls EXCEPT !.pc = "handshake", !.state = "SentClientHello",
                            !.transcript = <<<<"ClientHello", "ok">>>>,
                            !.peer.said = <<<<"ClientHello", "ok">>>>])

Heard(t, m) == [t EXCEPT !.transcript = Append(@, <<m.t, m.v>>)]

\* An x25519 share that yields the all-zero secret is refused.
deriveHandshakeKeys(t, share) ==
  [t EXCEPT !.secret = share, !.readSeq = 0, !.writeSeq = 0,
            !.writeKey = deriveSecret(share, "c hs", t.transcript),
            !.readKey = deriveSecret(share, "s hs", t.transcript)]

onServerHello(t, m) ==
  IF t.state # "SentClientHello" \/ m.v # "share" THEN Fail("ServerHello")
  ELSE [deriveHandshakeKeys(Heard(t, m), m.v) EXCEPT !.state = "ReceivedServerHello"]

onEncryptedExtensions(t, m) ==
  IF t.state # "ReceivedServerHello" \/ m.v = "garbled" THEN Fail("EncryptedExtensions")
  ELSE [Heard(t, m) EXCEPT !.state = "ReceivedEncryptedExtensions"]

\* Intermediates past the limit are left out.
captureCertificate(t, m) ==
  IF t.state # "ReceivedEncryptedExtensions" \/ m.chain = <<>> THEN Fail("Certificate")
  ELSE [Heard(t, m) EXCEPT !.state = "ReceivedCertificate", !.leaf = m.chain[1],
          !.ints = SubSeq(m.chain, 2, IF Len(m.chain) > maxIntermediates + 1
                                      THEN maxIntermediates + 1 ELSE Len(m.chain))]

\* The signature covers the transcript before this message is added to it.
verifyCertificateVerify(t, m) ==
  /\ ~Failed(parseCert(t.leaf))
  /\ m.key = <<t.leaf.key>> /\ m.over = t.transcript

onCertificateVerify(t, m) ==
  IF t.state # "ReceivedCertificate" \/ ~verifyCertificateVerify(t, m) THEN Fail("CertificateVerify")
  ELSE [Heard(t, m) EXCEPT !.state = "ReceivedCertificateVerify"]

\* Mutant: a Finished right after the Certificate, as a resumed session has it.
finished_unsigned(t, m) ==
  IF \/ t.state \notin {"ReceivedCertificate", "ReceivedCertificateVerify"}
     \/ m.key # t.readKey \/ m.over # t.transcript
  THEN Fail("Finished")
  ELSE [Heard(t, m) EXCEPT !.state = "ReceivedFinished"]

onFinished(t, m) ==
  IF \/ t.state # "ReceivedCertificateVerify"
     \/ m.key # t.readKey \/ m.over # t.transcript
  THEN Fail("Finished")
  ELSE [Heard(t, m) EXCEPT !.state = "ReceivedFinished"]

\* A request for a certificate and a session ticket are taken in any state.
processMessage(t, m) ==
  CASE m.t = "ServerHello" -> onServerHello(t, m)
    [] m.t = "EncryptedExtensions" -> onEncryptedExtensions(t, m)
    [] m.t = "Certificate" -> captureCertificate(t, m)
    [] m.t = "CertificateVerify" -> onCertificateVerify(t, m)
    [] m.t = "Finished" -> onFinished(t, m)
    [] m.t = "CertificateRequest" -> [Heard(t, m) EXCEPT !.pendingClientCert = TRUE]
    [] m.t = "NewSessionTicket" -> Heard(t, m)
    [] OTHER -> Fail("UnexpectedMessage")

\* Unit i of the `of` units of a message; a message is processed when the
\* buffer holds all of it.
takeUnit(t, u) ==
  IF Failed(t) THEN t
  ELSE IF u.i < u.of THEN [t EXCEPT !.hsBuf = Append(@, u)]
  ELSE processMessage([t EXCEPT !.hsBuf = <<>>], u.m)

feedHandshake(t, units) ==
  IF Len(t.hsBuf) + Len(units) > HsBufMax THEN Fail("HandshakeTooLarge")
  ELSE LET fed[n \in 0 .. Len(units)] == IF n = 0 THEN t ELSE takeUnit(fed[n - 1], units[n])
       IN  fed[Len(units)]

\* The chain is validated, the client's flight goes out under the handshake
\* keys and the application keys are those of the transcript before it.
finishHandshake(t) ==
  LET master == deriveSecret(t.secret, "derived", <<>>)
      thAP == t.transcript
      certSent == IF t.pendingClientCert
                  THEN {[s EXCEPT !.transcript = Append(@, <<"Certificate", "empty">>)] : s \in sendRecord(t)}
                  ELSE {t}
      sent == UNION {IF s.pc = "failed" THEN {s} ELSE sendRecord(s) : s \in certSent}
  IN  IF ~validateChain(t.leaf, t.ints, defaultStore) THEN {[t EXCEPT !.pc = "failed"]}
      ELSE {IF s.pc = "failed" THEN s
            ELSE [s EXCEPT !.pc = "open", !.state = "Connected", !.readSeq = 0, !.writeSeq = 0,
                           !.transcript = Append(@, <<"Finished", "client">>),
                           !.readKey = deriveSecret(master, "s ap", thAP),
                           !.writeKey = deriveSecret(master, "c ap", thAP)] : s \in sent}

\* One turn of the loop of handshake; Dial closes the connection on an error.
handshakeStep ==
  /\ tls.pc = "handshake" /\ tls.stash # <<>>
  /\ LET got == readRecord(tls)
         fed == feedHandshake(got[1], got[3])
     IN  IF got[2] = "ccs" THEN tls' = got[1]
         ELSE IF got[2] \in {"error", "alert"} \/ Failed(fed)
         THEN tls' = [got[1] EXCEPT !.pc = "failed"]
         ELSE IF fed.state = "ReceivedFinished" THEN tls' \in finishHandshake(fed)
         ELSE tls' = fed

-----------------------------------------------------------------------------
(* Application data.                                                        *)

tlsWrite ==
  /\ tls.pc = "open" /\ tls.state = "Connected" /\ tls.writes < MaxTlsWrites
  /\ tls' \in sendRecord([tls EXCEPT !.writes = @ + 1])

tlsReadCall == tls.pc = "open" /\ tls' = [tls EXCEPT !.pc = "read"]

\* Bytes go out to a buffer of `size`, the rest waits for the next read.
deliver(t, bytes, size) ==
  LET take == IF Len(bytes) < size THEN Len(bytes) ELSE size
  IN  [t EXCEPT !.pc = "open", !.delivered = @ \o SubSeq(bytes, 1, take),
                !.pending = SubSeq(bytes, take + 1, Len(bytes))]

tlsRead(size) ==
  /\ tls.pc = "read"
  /\ \/ tls.pending # <<>> /\ tls' = deliver(tls, tls.pending, size)
     \/ /\ tls.pending = <<>> /\ tls.stash # <<>>
        /\ LET got == readRecord(tls)
           IN  tls' = CASE got[2] \in {"ccs", "handshake"} -> got[1]
                        [] got[2] = "app" -> deliver(got[1], got[3], size)
                        [] OTHER -> [got[1] EXCEPT !.pc = "failed"]

\* close_notify goes out if the connection is up; the result is not looked at.
tlsClose ==
  /\ tls.pc = "open"
  /\ tls' \in {[s EXCEPT !.pc = "closed", !.state = "Closed"] : s \in sendRecord(tls)}

-----------------------------------------------------------------------------
(* The peer and the network.                                                *)

Arrives(r) == Append(tls.net, r)
RoomInFlight == Len(tls.net) + Len(tls.stash) < MaxInFlight

\* The messages a peer can make of what it has said so far.
PeerMessages(p) ==
  LET M(t, v, key, over) ==
        [t |-> t, v |-> v, key |-> key, over |-> over,
         chain |-> IF t = "Certificate" THEN p.srv.chain ELSE <<>>]
  IN  {M("ServerHello", v, NoKey, <<>>) : v \in {"share", "refused"}}
      \cup {M("EncryptedExtensions", v, NoKey, <<>>) : v \in {"ok", "garbled"}}
      \cup {M("CertificateVerify", k, <<k>>, p.said) : k \in p.srv.holds}
      \cup {M("Finished", "server", p.key, p.said)}
      \cup {M(t, "", NoKey, <<>>) :
              t \in {"Certificate", "CertificateRequest", "NewSessionTicket", "KeyUpdate"}}

\* The peer's own key follows its ServerHello.
Said(p, m) ==
  LET said == Append(p.said, <<m.t, m.v>>)
  IN  IF m.t = "ServerHello"
      THEN [p EXCEPT !.said = said, !.part = <<>>, !.seq = 0, !.key = deriveSecret(m.v, "s hs", said)]
      ELSE [p EXCEPT !.said = said, !.part = <<>>]

\* The order of a plain flight.
Flight == <<"ClientHello", "ServerHello", "EncryptedExtensions", "Certificate",
            "CertificateVerify", "Finished">>

OddOut(p, m) ==
  IF \E i \in 1 .. 5 : Last(p.said)[1] = Flight[i] /\ m.t = Flight[i + 1] THEN 0 ELSE 1

\* p seals one record and is q afterwards.
PeerSends(p, units, q, odd) ==
  [tls EXCEPT
     !.faults = @ + odd,
     !.net = Arrives(Record(IF p.key = NoKey THEN "handshake" ELSE "app", p.key, p.seq, "handshake", units)),
     !.peer = [q EXCEPT !.sends = @ + 1, !.seq = IF q.key = p.key THEN @ + 1 ELSE @]]

\* A record carries a message, its first half, or its second half followed by
\* nothing or by one more message.
peerHandshake ==
  /\ tls.pc = "handshake" /\ tls.peer.sends < MaxTlsSends /\ RoomInFlight
  /\ LET p == tls.peer
         unit(m, i, of) == [m |-> m, i |-> i, of |-> of]
     IN  IF p.part = <<>>
         THEN \E m \in PeerMessages(p) :
                \/ tls' = PeerSends(p, <<unit(m, 1, 1)>>, Said(p, m), OddOut(p, m))
                \/ tls' = PeerSends(p, <<unit(m, 1, 2)>>, [p EXCEPT !.part = <<m>>], 1 + OddOut(p, m))
         ELSE LET q == Said(p, p.part[1])
                  rest == <<unit(p.part[1], 2, 2)>>
              IN  \/ tls' = PeerSends(p, rest, q, 0)
                  \/ \E m \in PeerMessages(q) :
                       tls' = PeerSends(p, Append(rest, unit(m, 1, 1)), Said(q, m), OddOut(q, m))
  /\ tls'.faults <= MaxTlsFaults

\* Once it has finished, the peer numbers its bytes and sends them under the
\* application keys of its own transcript.
peerData ==
  /\ tls.pc \in {"open", "read"} /\ tls.peer.sends < MaxTlsSends /\ RoomInFlight
  /\ LET p == tls.peer
         key == deriveSecret(deriveSecret("share", "derived", <<>>), "s ap", p.said)
         seq == IF p.key = key THEN p.seq ELSE 0
     IN  \E n \in 0 .. 2, inner \in {"app", "handshake", "alert"} :
           /\ (inner = "app") = (n > 0) /\ p.app + n <= MaxAppBytes
           /\ tls' = [tls EXCEPT
                !.net = Arrives(Record("app", key, seq, inner, [i \in 1 .. n |-> p.app + i])),
                !.peer = [p EXCEPT !.key = key, !.seq = seq + 1, !.app = @ + n, !.sends = @ + 1]]

\* A record that no peer sealed turns up; one damaged on the way does not open
\* either, and fails the connection as the alert does.
netFault ==
  /\ tls.faults < MaxTlsFaults /\ tls.pc \in {"handshake", "read"}
  /\ \E r \in {Record("ccs", NoKey, 0, "", <<>>), Record("alert", NoKey, 0, "", <<>>)}
              \cup {Record("handshake", NoKey, 0, "", <<[i |-> 1, of |-> 1,
                       m |-> [t |-> t, v |-> "", key |-> NoKey, over |-> <<>>, chain |-> <<>>]]>>) :
                     t \in {"CertificateRequest", "NewSessionTicket"}} :
       tls' = [tls EXCEPT !.faults = @ + 1, !.net = Arrives(r)]

tlsNext ==
  \/ handshake \/ handshakeStep \/ pumpOnce
  \/ tlsWrite \/ tlsReadCall \/ (\E size \in {1, 2} : tlsRead(size)) \/ tlsClose
  \/ peerHandshake \/ peerData \/ netFault

tlsSpec == tlsInit /\ [][tlsNext]_tls

-----------------------------------------------------------------------------
(* Reference: some path of the presented certificates leads to a root.      *)

\* A chain is trusted when certificates that sign one another lead from the
\* leaf to an anchor, each a CA in its validity window, and the leaf names the
\* host: stated over every possible path, not the one the code builds.
Trusted(leafDER, intsDER) ==
  LET roots == Range(defaultStore)
      pool == {parseCert(intsDER[i]) : i \in DOMAIN intsDER} \cup roots
      leaf == parseCert(leafDER)
      isPath(p) == /\ p[1] = leaf /\ Last(p) \in roots
                   /\ \A i \in 1 .. Len(p) - 1 : p[i].signer = p[i + 1].key /\ p[i + 1].ext.isCA
                   /\ \A i \in DOMAIN p : inWindow(p[i])
  IN  /\ \E n \in 1 .. maxPath - 1 : \E mid \in [1 .. n -> pool] : isPath(<<leaf>> \o mid)
      /\ \E i \in DOMAIN leaf.ext.san :
           \/ leaf.ext.san[i].name = tlsHost.name
           \/ leaf.ext.san[i].name = parseIPLiteral(tlsHost)
           \/ ~leaf.ext.san[i].ip /\ matchWildcard(leaf.ext.san[i].name, tlsHost.name)

PeerAuthentic ==
  tls.state = "Connected" =>
    /\ tls.leaf.key \in tls.peer.srv.holds
    /\ Trusted(tls.leaf, tls.ints)
    /\ IsPrefix(tls.readKey[3], tls.peer.said)

DataInOrder ==
  /\ \A i \in DOMAIN tls.delivered : tls.delivered[i] = i
  /\ Len(tls.delivered) <= tls.peer.app

\* Application data passes only between this client and a peer that holds the
\* key of a trusted certificate for the host and has seen the same transcript;
\* the bytes come out in order and once; and no sequence number is used twice
\* under one key (client.go: the state machine, the point where the transcript
\* is hashed, the resets of the sequence numbers).
TlsAuthentic == PeerAuthentic /\ DataInOrder /\ ~tls.reused
=============================================================================
