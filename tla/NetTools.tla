------------------------------ MODULE NetTools ------------------------------
(***************************************************************************)
(* The console network programs and the resolver they stand on             *)
(* (vi/dns.go): the HTTP consumer GOFETCH against an arbitrary server or   *)
(* GOHTTPD (user/go/fetch, user/go/httpd) and GOPING (user/go/ping).  They *)
(* share no state: `http`, `dns` and `png`.  A byte of a request or of a   *)
(* response head is "h", the last byte of its blank line is "end", and a   *)
(* body byte any other string.                                             *)
(***************************************************************************)
EXTENDS Integers, Sequences, FiniteSets, SequencesExt, Bitwise

CONSTANTS CommandLines,   \* command lines of GOFETCH, see parseLegacyArgs
          HttpResponses,      \* what a server may answer, see ServerAnswers
          PinnedFiles,      \* contents of the file GOHTTPD publishes
          headerLimit, readChunk, maxRequestBytes,
          MaxNetBytes,    \* vi.MaxFileBytes
          HostNames,      \* names a program resolves
          MaxQueries, MaxTicks, DnsPolls,
          PingCount, PingPolls

VARIABLES http, dns, png
-----------------------------------------------------------------------------
(* GOFETCH.  A command line has flags and up to three positionals; a URL is    *)
(* a scheme ("http", "https", "other" or "none"), a host ("ip", "name" or      *)
(* "none"), a port ("none", "ok" or "bad") and a path.                         *)

NoUrl == [scheme |-> "none", host |-> "none", port |-> "none", path |-> "/"]

\* parseHTTPS and parseHTTP.
Classify(u) ==
  IF u.scheme \notin {"http", "https"} \/ u.host = "none" \/ u.port = "bad" THEN "url"
  ELSE IF u.host = "name" THEN "dns" ELSE u.scheme

PlanDial(u) == Classify(u) = "https"
PlanClear(u) == Classify(u) = "http"
WouldSendCleartext(u) == Classify(u) = "http"
isCleartextURL(u) == u.scheme = "http"

\* A scheme-less address is taken as http; every other scheme is refused.
planClear(u) ==
  \/ isCleartextURL(u) /\ PlanClear(u)
  \/ u.scheme = "none" /\ PlanClear([u EXCEPT !.scheme = "http"])

\* Which consumer a command line is for, and what is wrong with it. `more` is the
\* number of positionals after the URL.
parseLegacyArgs(c) ==
  CASE c.help -> "help"
    [] ~c.help /\ c.badflag -> "usage"
    [] ~c.help /\ ~c.badflag /\ ~c.download /\ ~isCleartextURL(c.url) -> "tls"
    [] ~c.help /\ ~c.badflag /\ (c.download \/ isCleartextURL(c.url)) /\ c.more > 1 -> "usage"
    [] OTHER -> "legacy"

\* No URL at all is the default address over http.
LegacyUrl(c) == IF c.url = NoUrl THEN [c.url EXCEPT !.scheme = "http", !.host = "ip"] ELSE c.url

httpInit ==
  \E c \in CommandLines, server \in {"httpd", "other"}, f \in PinnedFiles :
    http = [pc |-> "start", cmd |-> c, target |-> c.url.path, server |-> server, pinned |-> f, exit |-> -1,
            clear |-> FALSE, tls |-> "none", status |-> "none", file |-> <<"old">>,
            srv |-> "listen", ask |-> <<>>, buf |-> <<>>, method |-> "GET",
            resp |-> [status |-> 200, cl |-> -1, body |-> <<>>], wire |-> <<>>, end |-> "open",
            raw |-> <<>>, length |-> -1, body |-> <<>>]

Http(h) == http' = h
Exit(h, code) == [h EXCEPT !.pc = "done", !.exit = code]

\* main and runLegacyCLI up to the first network call.
runLegacyCLI ==
  /\ http.pc = "start"
  /\ LET verdict == parseLegacyArgs(http.cmd) IN
     Http(CASE verdict = "help" -> Exit(http, 0)
            [] verdict = "usage" -> Exit(http, 1)
            [] verdict = "tls" -> [http EXCEPT !.pc = "tls"]
            [] verdict = "legacy" /\ ~planClear(LegacyUrl(http.cmd)) -> Exit(http, 1)
            [] OTHER -> [http EXCEPT !.pc = IF http.cmd.download THEN "dial" ELSE "preflight"])

\* ClassifyNet over one snapshot of the interface; no snapshot is no verdict.
ClassifyNet(snap) ==
  CASE snap = "refused" -> "unknown"
    [] snap = "no address" -> "offline"
    [] snap \in {"own address", "in the ARP table"} -> "ready"
    [] OTHER -> "no route"

Snapshots == {"refused", "no address", "own address", "in the ARP table", "unresolved"}

preflightClear ==
  /\ http.pc = "preflight"
  /\ \E snap \in Snapshots :
       Http(CASE ClassifyNet(snap) = "offline" -> Exit(http, 3)
              [] ClassifyNet(snap) = "no route" -> Exit(http, 4)
              [] OTHER -> [http EXCEPT !.pc = "dial"])

dialPlain ==
  /\ http.pc = "dial"
  /\ \/ Http(Exit(http, 1))
     \/ Http([http EXCEPT !.pc = "send", !.clear = TRUE, !.srv = "read"])

\* The request: a head of `more` bytes and its end. A failed send ends the run.
requestString(n) == [i \in 1..n |-> "h"] \o <<"end">>

SendRequest ==
  /\ http.pc = "send"
  /\ \/ Http([Exit(http, 2) EXCEPT !.srv = "peer gone"])
     \/ \E n \in 1..maxRequestBytes : Http([http EXCEPT !.pc = "head", !.ask = requestString(n)])

\* GOHTTPD.  A host on the bridge may ask it anything instead of GOFETCH.
HostAsks ==
  /\ http.pc = "start" /\ http.server = "httpd"
  /\ \E m \in {"GET", "HEAD", "POST"}, t \in {"/", "/file", "/none", "not a path"} :
       Http([http EXCEPT !.pc = "host", !.method = m, !.target = t, !.srv = "read",
                         !.ask = requestString(1)])

hasHeaderEnd(raw) == "end" \in Range(raw)

\* One Recv of readRequest; the bound is looked at before the next one.
readRequest ==
  /\ http.server = "httpd" /\ http.srv = "read" /\ http.ask # <<>>
  /\ \E n \in 1..2 :
       /\ n <= Len(http.ask)
       /\ LET got == http.buf \o SubSeq(http.ask, 1, n)
              h == [http EXCEPT !.buf = got, !.ask = SubSeq(@, n + 1, Len(@))] IN
          Http(CASE hasHeaderEnd(got) -> [h EXCEPT !.srv = "route"]
                 [] ~hasHeaderEnd(got) /\ Len(got) >= maxRequestBytes ->
                      [h EXCEPT !.srv = "exit 1", !.end = "fin"]
                 [] OTHER -> h)

\* A file that cannot be opened is no file; a read error ends what was read of it.
readWholeFile(f) == {[ok |-> FALSE, body |-> <<>>]}
                    \cup {[ok |-> TRUE, body |-> SubSeq(f, 1, k)] : k \in 0..Len(f)}

Page == <<"page">>

route(method, target, pinned) ==
  CASE method \notin {"GET", "HEAD"} -> [status |-> 405, body |-> Page]
    [] method \in {"GET", "HEAD"} /\ target = "/file" ->
         IF ~pinned.ok THEN [status |-> 404, body |-> Page] ELSE [status |-> 200, body |-> pinned.body]
    [] method \in {"GET", "HEAD"} /\ target = "/" -> [status |-> 200, body |-> Page]
    [] OTHER -> [status |-> 404, body |-> Page]

\* Content-Length is the entity's, for HEAD too.
formatResponse(r, headOnly) == <<"h", "end">> \o IF headOnly THEN <<>> ELSE r.body

\* METHOD SP TARGET SP HTTP/1.x with an absolute path, or the connection is closed.
parseRequest(target) == target # "not a path"

BadRequest ==
  /\ http.srv = "route" /\ ~parseRequest(http.target)
  /\ Http([http EXCEPT !.srv = "exit 1", !.end = "fin"])

\* The answer of GOHTTPD; a Send that fails after k bytes leaves them on the way.
Serve ==
  /\ http.srv = "route" /\ parseRequest(http.target)
  /\ \E pinned \in readWholeFile(http.pinned) :
       LET r == route(http.method, http.target, pinned)
           out == formatResponse(r, http.method = "HEAD") IN
       \E k \in 0..Len(out) :
         Http([http EXCEPT !.wire = SubSeq(out, 1, k), !.end = "fin",
                           !.resp = [status |-> r.status, cl |-> Len(r.body), body |-> r.body],
                           !.srv = IF k = Len(out) THEN "exit 0" ELSE "exit 1"])

\* Any other server: a head of r.head bytes, well formed or not, a body that may
\* be shorter or longer than its Content-Length (-1 for none), cut anywhere, and a
\* connection that then ends or stays dark.
ServerAnswers ==
  /\ http.server = "other" /\ http.srv = "read" /\ http.ask # <<>>
  /\ \E r \in HttpResponses, e \in {"fin", "dark"} :
       LET out == [i \in 1..r.head |-> "h"] \o <<"end">> \o r.body IN
       \E k \in {0, r.head, r.head + 1, Len(out) - 1, Len(out)} :
         Http([http EXCEPT !.wire = SubSeq(out, 1, k), !.end = e, !.srv = "exit 0", !.resp = r])

\* connStream.Read: up to readChunk bytes, or an error and none.
Chunks == IF http.wire # <<>> THEN {SubSeq(http.wire, 1, n) : n \in 1..IF Len(http.wire) < readChunk
                                                                      THEN Len(http.wire) ELSE readChunk}
          ELSE IF http.end # "open" THEN {<<>>} ELSE {}
Consumed(h, c) == [h EXCEPT !.wire = SubSeq(@, Len(c) + 1, Len(@))]

HeadLen(raw) == SelectInSeq(raw, LAMBDA b : b = "end")
parseResponseHead(r) == r.status # 0 /\ r.cl # -2
Clip(b, n) == IF n >= 0 /\ Len(b) > n THEN SubSeq(b, 1, n) ELSE b

\* One read of newResponseStream.
newResponseStream ==
  /\ http.pc = "head"
  /\ \E c \in Chunks :
       LET raw == http.raw \o c
           h == Consumed([http EXCEPT !.raw = raw], c)
           at == HeadLen(raw) IN
       Http(CASE c # <<>> /\ at > 0 /\ parseResponseHead(http.resp) ->
                   [h EXCEPT !.pc = "body", !.length = http.resp.cl,
                             !.body = Clip(SubSeq(raw, at + 1, Len(raw)), http.resp.cl)]
              [] c # <<>> /\ at > 0 /\ ~parseResponseHead(http.resp) -> Exit(h, 2)
              [] at = 0 /\ Len(raw) >= headerLimit -> Exit(h, 2)
              [] at = 0 /\ Len(raw) < headerLimit /\ c = <<>> -> Exit(h, 2)
              [] OTHER -> h)

Complete(h) == h.length >= 0 /\ Len(h.body) >= h.length
Ended(h) == IF h.cmd.download THEN [h EXCEPT !.pc = "save"] ELSE Exit(h, 42)

\* Mutant: the end of the connection ends every body.
body_until_fin ==
  /\ http.pc = "body"
  /\ IF Complete(http) THEN Http(Ended(http))
     ELSE \E c \in Chunks :
            LET h == Consumed([http EXCEPT !.body = Clip(@ \o c, http.length)], c) IN
            Http(IF Complete(h) \/ c = <<>> THEN Ended(h) ELSE h)

\* One turn of readBody: Content-Length, or the cap and the end of the stream.
readBody ==
  /\ http.pc = "body"
  /\ IF Complete(http) THEN Http(Ended(http))
     ELSE IF Len(http.body) >= MaxNetBytes THEN Http(Exit(http, 2))
     ELSE \E c \in Chunks :
            LET h == Consumed([http EXCEPT !.body = Clip(Clip(@ \o c, http.length), MaxNetBytes)], c) IN
            Http(CASE Complete(h) -> Ended(h)
                   [] ~Complete(h) /\ c = <<>> -> IF h.length >= 0 THEN Exit(h, 2) ELSE Ended(h)
                   [] OTHER -> h)

\* WriteFileSafe: the whole body, or what was there before, or nothing.
SaveDownload ==
  /\ http.pc = "save"
  /\ \/ Http([Exit(http, 0) EXCEPT !.file = http.body])
     \/ \E left \in {http.file, <<"absent">>} : Http([Exit(http, 3) EXCEPT !.file = left])

\* runFetch, the windowed consumer: an https address only, and a handshake error
\* is a success exactly when it is the one the command line expects.
failClosedMatches(expect, err) == expect # "none" /\ err = expect

runFetch ==
  /\ http.pc = "tls"
  /\ IF WouldSendCleartext(http.cmd.url) \/ ~PlanDial(http.cmd.url)
     THEN Http([http EXCEPT !.pc = "shown", !.status = "refused"])
     ELSE \E err \in {"none", "name", "expired", "chain", "io"}, got \in BOOLEAN :
            Http([http EXCEPT !.pc = "shown", !.tls = err,
                    !.status = CASE err # "none" /\ failClosedMatches(http.cmd.expect, err) -> "fail-closed"
                                 [] err = "none" /\ http.cmd.expect = "none" /\ got -> "ok"
                                 [] OTHER -> "error"])

httpNext ==
  \/ runLegacyCLI \/ preflightClear \/ dialPlain \/ SendRequest \/ HostAsks \/ readRequest \/ BadRequest \/ Serve
  \/ ServerAnswers \/ newResponseStream \/ readBody \/ SaveDownload \/ runFetch

(* What GOFETCH reports is what the server sent, however the response is cut   *)
(* into segments and wherever the connection ends: with a Content-Length the   *)
(* body is exactly that many bytes of it, without one all that came before the *)
(* server closed.  (A timeout ends a body without a length as a close does,    *)
(* and what was read so far is reported as the body: nothing is claimed of     *)
(* it.)  Against GOHTTPD it is what the server read of the file, never what    *)
(* got through of a failed Send.  A download leaves the destination whole: new *)
(* on exit 0, never a partial body.  An https address never reaches the        *)
(* cleartext socket, and "fail-closed" is only shown for the failure that was  *)
(* expected.                                                                   *)
FetchExact ==
  LET ok == http.exit = 42 \/ (http.exit = 0 /\ http.clear)
      sent == http.resp.body IN
  /\ ok => /\ http.resp.cl >= 0 => http.body = SubSeq(sent, 1, http.resp.cl) /\ Len(sent) >= http.resp.cl
           /\ http.resp.cl = -1 /\ http.end = "fin" => IsPrefix(http.body, sent) /\ http.wire = <<>>
  /\ ok /\ http.server = "httpd" => http.body = http.resp.body
  /\ http.file \in {<<"old">>, <<"absent">>} \/ (http.exit = 0 /\ http.file = http.body)
  /\ http.clear => http.cmd.url.scheme \in {"http", "none"}
  /\ http.status = "fail-closed" => http.tls = http.cmd.expect /\ http.tls # "none"
  /\ http.status = "ok" => http.tls = "none" /\ http.cmd.url.scheme = "https"
  /\ http.pc = "host" /\ http.srv = "exit 0" =>
       Len(http.wire) - HeadLen(http.wire) = IF http.method = "HEAD" THEN 0 ELSE http.resp.cl
-----------------------------------------------------------------------------
(* ResolveDNS.  A datagram for the reply port is [src, id, qr, tc, rcode,     *)
(* recs, claimed, name, tick]: `recs` are the answer records that arrived      *)
(* whole, `claimed` how many the header counts, and name and tick say which    *)
(* query it answers.  The identifier is Nanos() xor a counter of the process.  *)

dnsInit ==
  dns = [pc |-> "idle", tick |-> 0, dnsIDSeq |-> 0, listening |-> FALSE,
         q |-> [id |-> 0, name |-> "none", tick |-> 0], sent |-> {}, ring |-> <<>>, polls |-> 0,
         answer |-> [name |-> "none", tick |-> 0], asked |-> 0]

Dns(d) == dns' = d

\* Mutant: the clock alone.
id_of_clock(tick, seq) == tick
queryID(tick, seq) == tick ^^ seq

\* A name that does not fit one datagram is refused before anything is sent.
buildDNSQuery(d, name) ==
  [d EXCEPT !.dnsIDSeq = @ + 1,
            !.q = [id |-> queryID(d.tick, d.dnsIDSeq + 1), name |-> name, tick |-> d.tick]]

\* The reply port is bound before the query goes out; a full listen table or a
\* port that is already bound is not an error here. A refused send is.
ResolveDNS ==
  /\ dns.pc = "idle" /\ dns.asked < MaxQueries
  /\ \E name \in HostNames, bind \in BOOLEAN, sent \in BOOLEAN :
       LET d == buildDNSQuery([dns EXCEPT !.listening = @ \/ bind,
                                   !.answer = [name |-> "none", tick |-> 0],
                                   !.asked = @ + 1], name) IN
       Dns(IF sent THEN [d EXCEPT !.pc = "poll", !.polls = 0, !.sent = @ \cup {d.q}] ELSE d)

\* What the resolver or a stranger sends to the port; it may answer late, more
\* than once, or not at all. Datagrams for a port nobody bound are dropped.
Datagrams ==
  {[src |-> 53, id |-> q.id, qr |-> TRUE, tc |-> tc, rcode |-> rc, recs |-> recs,
    claimed |-> n, name |-> q.name, tick |-> q.tick] :
      q \in dns.sent, tc \in BOOLEAN, rc \in {0, 3}, recs \in {<<"A">>, <<"CNAME", "A">>, <<"CNAME">>}, n \in 1..2}
  \cup {[src |-> p, id |-> dns.q.id, qr |-> p # 53, tc |-> FALSE, rcode |-> 0, recs |-> <<"A">>,
         claimed |-> 1, name |-> "stranger", tick |-> -1] : p \in {53, 7}}

DatagramArrives ==
  /\ dns.sent # {} /\ dns.listening /\ dns.ring = <<>>
  /\ \E r \in Datagrams : Len(r.recs) <= r.claimed /\ Dns([dns EXCEPT !.ring = <<r>>])

\* Every record the header counts was walked within the bytes that arrived.
WalkedWhole(r) == r.claimed <= Len(r.recs)

\* Not ours, a failure, or an address. An answer section that runs past the bytes
\* that arrived is refused whole.
parseDNSReply(r, id) ==
  CASE r.src # 53 \/ r.id # id \/ ~r.qr -> "not ours"
    [] r.src = 53 /\ r.id = id /\ r.qr /\ (r.tc \/ r.rcode # 0 \/ ~WalkedWhole(r)) -> "failed"
    [] OTHER -> IF "A" \in Range(r.recs) THEN "address" ELSE "failed"

DnsPoll ==
  /\ dns.pc = "poll"
  /\ IF ~dns.listening THEN Dns([dns EXCEPT !.pc = "idle"])
     ELSE IF dns.ring # <<>>
     THEN LET r == Head(dns.ring)
              verdict == parseDNSReply(r, dns.q.id)
              d == [dns EXCEPT !.ring = <<>>] IN
          Dns(CASE verdict = "address" ->
                     [d EXCEPT !.pc = "idle", !.answer = [name |-> r.name, tick |-> r.tick]]
                [] verdict = "failed" -> [d EXCEPT !.pc = "idle"]
                [] verdict = "not ours" -> IF d.polls >= DnsPolls THEN [d EXCEPT !.pc = "idle"]
                                           ELSE [d EXCEPT !.polls = @ + 1])
     ELSE Dns(IF dns.polls >= DnsPolls THEN [dns EXCEPT !.pc = "idle"]
              ELSE [dns EXCEPT !.polls = @ + 1])

ClockTicks == dns.tick < MaxTicks /\ Dns([dns EXCEPT !.tick = @ + 1])

dnsNext == ResolveDNS \/ DatagramArrives \/ DnsPoll \/ ClockTicks

(* An address ResolveDNS returns answers the name it was asked for, although   *)
(* the reply port is shared, an earlier query may be answered after it was      *)
(* given up, and the question of a reply is never compared: two queries of one  *)
(* clock tick have different identifiers.  Only a query of another tick can     *)
(* have the same one.                                                           *)
DnsFresh ==
  dns.answer.name # "none" => \/ dns.answer.name = dns.q.name
                              \/ dns.answer.tick \notin {dns.q.tick, -1}
-----------------------------------------------------------------------------
(* GOPING.  The kernel numbers the requests it sends and keeps the number of   *)
(* the last reply; the program looks whether that number changed.              *)

pngInit ==
  png = [pc |-> "preflight", seq |-> 1, prev |-> 0, polls |-> 0, kseq |-> 0, last |-> 0,
         flight |-> {}, arrived |-> 0, Sent |-> 0, Received |-> 0,
         minMS |-> 0, maxMS |-> 0, sumMS |-> 0]

Png(p) == png' = p
NextPing(p) == [p EXCEPT !.seq = @ + 1, !.polls = 0,
                         !.pc = IF p.seq = PingCount THEN "done" ELSE "prev"]

record(p, ms) ==
  [p EXCEPT !.Sent = @ + 1, !.Received = @ + 1, !.sumMS = @ + ms,
            !.minMS = IF p.Received = 0 \/ ms < @ THEN ms ELSE @,
            !.maxMS = IF ms > @ THEN ms ELSE @]
recordLoss(p) == [p EXCEPT !.Sent = @ + 1]

lossPercent(p) == IF p.Sent = 0 THEN 0 ELSE ((p.Sent - p.Received) * 100) \div p.Sent
avgMS(p) == IF p.Received = 0 THEN 0 ELSE p.sumMS \div p.Received

PingPreflight ==
  /\ png.pc = "preflight"
  /\ \E snap \in Snapshots :
       Png([png EXCEPT !.pc = IF ClassifyNet(snap) \in {"offline", "no route"} THEN "done" ELSE "prev"])

\* Mutant: the number from before the send is not kept.
ping_without_prev == png.pc = "prev" /\ Png([png EXCEPT !.pc = "send", !.prev = 0])

PingPrev == png.pc = "prev" /\ Png([png EXCEPT !.pc = "send", !.prev = png.last])

PingSend ==
  /\ png.pc = "send"
  /\ \/ Png(NextPing(recordLoss(png)))
     \/ Png([png EXCEPT !.pc = "poll", !.kseq = @ + 1, !.flight = @ \cup {png.kseq + 1}])

PongArrives ==
  \E n \in png.flight : Png([png EXCEPT !.last = n, !.arrived = @ + 1, !.flight = @ \ {n}])

PingPoll ==
  /\ png.pc = "poll"
  /\ Png(CASE png.last # 0 /\ png.last # png.prev -> NextPing(record(png, png.polls + 1))
           [] (png.last = 0 \/ png.last = png.prev) /\ png.polls + 1 = PingPolls -> NextPing(recordLoss(png))
           [] OTHER -> [png EXCEPT !.polls = @ + 1])

pngNext == PingPreflight \/ PingPrev \/ PingSend \/ PongArrives \/ PingPoll

(* The statistics of GOPING are never better than the network: it counts at    *)
(* most one received packet for each reply that arrived, whatever replies were  *)
(* late or lost, and the footer it prints is consistent.                        *)
PingHonest ==
  /\ png.Received <= png.arrived /\ png.Received <= png.Sent
  /\ lossPercent(png) \in 0..100
  /\ png.Received > 0 => png.minMS <= avgMS(png) /\ avgMS(png) <= png.maxMS
  /\ png.pc = "done" /\ png.Sent > 0 => png.Sent = PingCount
=============================================================================
