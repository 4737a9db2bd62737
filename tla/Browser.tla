------------------------------- MODULE Browser -------------------------------
(***************************************************************************)
(* WEB.ELF (user/go/browser): navigation, the stepped cleartext load, the  *)
(* synchronous TLS load, redirects, the history stack, and the stores on   *)
(* the share.  A URL is a record [scheme, host, port, path] whose path is  *)
(* a sequence of names; a page is the number of body bytes it was built    *)
(* from and where they came from.  Every operator below maps the           *)
(* application's state `a' to the set of states the call may leave, since  *)
(* the network may fail in the middle of any of them.                      *)
(***************************************************************************)
EXTENDS Integers, Sequences, SequencesExt, FiniteSets, TLC

CONSTANTS
    WebInputs,      \* the targets typed or passed on the command line
    WebHrefs,       \* the hrefs that pages carry
    WebReplies,     \* what a peer may answer: [code, loc, need, body, cookie]
    ShareFiles,     \* function: file URL -> bytes, the files of the share
    IPHosts,        \* the hosts that are IPv4 literals
    maxRedirects,
    WebCap,         \* vi.MaxFileBytes, in received pieces
    MaxWebEvents    \* bound: events the user gives to one browser

VARIABLE web

-----------------------------------------------------------------------------
(* URLs: webrender/url.go *)

NoLoc == [kind |-> "none"]

DefaultPort(scheme) == IF scheme = "https" THEN 443 ELSE 80

\* classifyTarget: a string that is no URL is a path of the file channel
classifyTarget(u) ==
    CASE u.scheme \notin {"http", "https"} -> "file"
      [] u.host = "" -> "url"
      [] u.host \notin IPHosts -> "dns"
      [] OTHER -> u.scheme

resolveInput(u) ==
    CASE u.scheme = "" -> "empty"
      [] u.scheme \in {"http", "https"} -> "http"
      [] u.scheme \in {"file", "broken"} -> "file"
      [] OTHER -> "unsupported"

\* ResolveHref on the directory of a path: one name dropped per "../"
Climb(dir, ups) == SubSeq(dir, 1, Len(dir) - ups)

DirName(path) == IF path = <<>> THEN <<>> ELSE Front(path)

\* Above the root of a web base the string loses its "//" and is no URL any
\* more; above the root of a file path it stays at the root.
ResolveHref(base, up, path) ==
    LET dir == DirName(base.path) IN
    CASE up <= Len(dir) -> [base EXCEPT !.path = Climb(dir, up) \o path]
      [] base.scheme = "file" -> [base EXCEPT !.path = path]
      [] OTHER -> [base EXCEPT !.scheme = "broken"]

\* A root or relative Location is rebuilt from the scheme and the host alone:
\* the port falls back to the scheme's default.
ResolveRedirect(from, loc) ==
    LET home == [from EXCEPT !.port = DefaultPort(from.scheme)] IN
    CASE loc.kind = "abs"   -> IF loc.url.host # "" /\ loc.url.scheme \in {"http", "https"}
                               THEN {loc.url} ELSE {}
      [] loc.kind = "proto" -> {[home EXCEPT !.host = loc.host, !.path = loc.path]}
      [] loc.kind = "root"  -> {[home EXCEPT !.path = loc.path]}
      [] loc.kind = "rel"   -> {u \in {ResolveHref(home, loc.up, loc.path)} : u.scheme # "broken"}
      [] OTHER -> {}

RedirectStatus(code) == code >= 300 /\ code < 400

relativeTo(base, href) ==
    CASE href.kind = "abs" -> href.url
      [] href.kind = "root" /\ base.scheme \in {"http", "https"} ->
            [base EXCEPT !.port = DefaultPort(base.scheme), !.path = href.path]
      [] href.kind = "root" -> [base EXCEPT !.scheme = "file", !.path = href.path]
      [] href.kind = "rel" /\ base.scheme # "" -> ResolveHref(base, href.up, href.path)
      [] href.kind = "rel" -> [base EXCEPT !.scheme = "file", !.path = href.path]
      [] OTHER -> [base EXCEPT !.scheme = ""]

\* CookieHeader: an empty domain matches every host, an empty path every path
CookieHeader(rows, u) ==
    {i \in DOMAIN rows :
        /\ rows[i].domain \in {"", u.host}
        /\ rows[i].path = <<>> \/ IsPrefix(rows[i].path, u.path)}

-----------------------------------------------------------------------------
(* history.go: entries and a cursor, 0 before the first entry *)

histPush(a, t) ==
    LET kept == SubSeq(a.hist, 1, a.pos) IN
    IF a.pos > 0 /\ a.hist[a.pos] = t
    THEN [a EXCEPT !.hist = kept]
    ELSE [a EXCEPT !.hist = Append(kept, t), !.pos = Len(kept) + 1]

histReplace(a, t) ==
    IF a.pos \in DOMAIN a.hist THEN [a EXCEPT !.hist[a.pos] = t] ELSE histPush(a, t)

histCanBack(a) == a.pos > 1

histCanForward(a) == a.pos > 0 /\ a.pos < Len(a.hist)

-----------------------------------------------------------------------------
(* stores.go: one text ledger per store, and the cached bodies *)

ledgerAppend(a, store, row) == [a EXCEPT !.ledger[store] = Append(@, row)]

ledgerRewrite(a, store, rows) == [a EXCEPT !.ledger[store] = rows]

persistHistory(a, t) == ledgerAppend(a, "history", t)

\* The body is published before the index row; either write may fail
cacheStore(a, t, page) ==
    LET body == [a EXCEPT !.bodies = {b \in @ : b.url # t} \cup {[url |-> t, page |-> page]}] IN
    {a, body, ledgerAppend(body, "cache", t)}

cacheLookup(a, t) ==
    IF \E i \in DOMAIN a.ledger["cache"] : a.ledger["cache"][i] = t
    THEN {b.page : b \in {c \in a.bodies : c.url = t}} ELSE {}

clearCache(a) ==
    ledgerRewrite([a EXCEPT !.bodies = {b \in @ : b.url \notin Range(a.ledger["cache"])}], "cache", <<>>)

historyDeleteNewest(a) ==
    IF a.ledger["history"] = <<>> THEN a ELSE ledgerRewrite(a, "history", Front(a.ledger["history"]))

\* The search compares the end of a row, its title, with the target
bookmarkToggle(a) ==
    LET rows == a.ledger["bookmarks"]
        kept == SelectSeq(rows, LAMBDA r : r.title # a.target) IN
    CASE a.target.scheme = "" -> a
      [] kept # rows -> ledgerRewrite(a, "bookmarks", kept)
      [] OTHER -> ledgerAppend(a, "bookmarks", [target |-> a.target, title |-> a.title])

persistCookies(a, reply) ==
    IF reply.cookie = NoLoc THEN a ELSE ledgerAppend(a, "cookies", reply.cookie)

cookieHeaderFor(a, u) == CookieHeader(a.ledger["cookies"], u)

clearCookies(a) == ledgerRewrite(a, "cookies", <<>>)

\* lastBody survives an error page: what is saved is the last page loaded
saveDownload(a) ==
    IF a.lastBody.kind = "none" \/ a.target.scheme = "" THEN {a}
    ELSE {a, ledgerAppend(a, "downloads", [target |-> a.target, page |-> a.lastBody])}

-----------------------------------------------------------------------------
(* The frame and the end of a load *)

NoURL == [scheme |-> "", host |-> "", port |-> 0, path |-> <<>>]

NoPage == [kind |-> "none"]

\* A title is text, and no title spells a URL; the heading found first, or
\* the last name of the target
Heading(words) == [NoURL EXCEPT !.scheme = "text", !.host = words]

pageTitle(page) == [page.url EXCEPT !.scheme = "text"]

settleIfNeeded(a) ==
    IF a.settled \/ a.loading \/ (a.page = NoPage /\ a.err = "") THEN a ELSE [a EXCEPT !.settled = TRUE]

announceNavigation(a) == [a EXCEPT !.navs = IF @ < MaxWebEvents THEN @ + 1 ELSE @]

loadBody(a, page) ==
    [a EXCEPT !.err = "", !.lastBody = page, !.page = page, !.scroll = 0, !.title = pageTitle(page), !.status = ""]

setError(a, kind) == [a EXCEPT !.err = kind, !.page = NoPage, !.scroll = 0, !.title = Heading("Error")]

Announced(a, from) == IF from.scheme # "" THEN announceNavigation(a) ELSE settleIfNeeded(a)

afterLoad(a, from) == Announced(persistHistory(histPush(a, a.target), a.target), from)

finishError(a, kind, t, from) ==
    Announced(persistHistory(histPush(setError([a EXCEPT !.loading = FALSE], kind), t), t), from)

\* Only a dead or a silent network falls back on the stored copy
offlineOr(a, kind) ==
    LET stored == IF kind \in {"tcp", "timeout"} THEN cacheLookup(a, a.target) ELSE {} IN
    IF stored = {} THEN finishError(a, kind, a.target, a.loadFrom)
    ELSE afterLoad([loadBody(a, CHOOSE p \in stored : TRUE) EXCEPT !.status = "offline"], a.loadFrom)

TCPClose(a) == [a EXCEPT !.sock = NoLoc]

endFail(a, kind) == finishError([TCPClose(a) EXCEPT !.loading = FALSE], kind, a.target, a.loadFrom)

endOffline(a, kind) == offlineOr([TCPClose(a) EXCEPT !.loading = FALSE], kind)

\* One request on the wire, with the cookies of the store
Asked(a, u, viaTLS) ==
    [a EXCEPT !.asked = @ + 1, !.sent = cookieHeaderFor(a, u),
              !.clear = IF viaTLS THEN @ ELSE @ \cup {u.scheme}]

\* The kernel holds one socket for the process: a second connect is refused
startHTTP(a, u) ==
    LET sent == Asked(a, u, FALSE) IN
    {offlineOr(a, "tcp")}
    \cup (IF a.sock # NoLoc THEN {} ELSE
          {offlineOr(a, "tcp")} \cup
          {[sent EXCEPT !.sock = [kind |-> "open", url |-> u, reply |-> r], !.loadURL = u, !.got = 0,
                        !.framed = FALSE, !.loading = TRUE] : r \in WebReplies})

-----------------------------------------------------------------------------
(* The response: got counts pieces, 1 is a part of the head, 2 is the head *)

BodyLen(got) == IF got > 2 THEN got - 2 ELSE 0

PageOf(a, reply, got, viaTLS) ==
    [kind |-> "page", url |-> a.loadURL, need |-> reply.need, n |-> BodyLen(got), tls |-> viaTLS]

RECURSIVE startHTTPS(_, _)

\* Plausible mistake: a redirect is followed over the socket that answered it
redirected_in_clear(a, next, viaTLS) ==
    LET key == <<next.host, next.path>>
        hop == [a EXCEPT !.seen = @ \cup {key}, !.hops = @ + 1, !.target = next] IN
    CASE key \in a.seen \/ a.hops >= maxRedirects -> {finishError(a, "redirect-loop", a.target, a.loadFrom)}
      [] next.host \notin IPHosts -> {finishError(hop, "dns", next, a.loadFrom)}
      [] next.scheme = "https" /\ viaTLS -> startHTTPS(hop, next)
      [] OTHER -> startHTTP(hop, next)

Redirected(a, next, viaTLS) ==
    LET key == <<next.host, next.path>>
        hop == [a EXCEPT !.seen = @ \cup {key}, !.hops = @ + 1, !.target = next] IN
    CASE key \in a.seen \/ a.hops >= maxRedirects -> {finishError(a, "redirect-loop", a.target, a.loadFrom)}
      [] next.host \notin IPHosts -> {finishError(hop, "dns", next, a.loadFrom)}
      [] next.scheme = "https" -> startHTTPS(hop, next)
      [] OTHER -> startHTTP(hop, next)

finishResponse(b, reply, got, viaTLS) ==
    LET a == [b EXCEPT !.loading = FALSE]
        next == ResolveRedirect(a.loadURL, reply.loc)
        page == PageOf(a, reply, got, viaTLS) IN
    CASE got < 2 -> {finishError(a, "truncated", a.target, a.loadFrom)}
      [] got >= 2 /\ RedirectStatus(reply.code) ->
            IF next = {} THEN {finishError(a, "redirect", a.target, a.loadFrom)}
            ELSE UNION {Redirected(a, u, viaTLS) : u \in next}
      [] got >= 2 /\ reply.code # 200 /\ ~RedirectStatus(reply.code) -> {finishError(a, "http", a.target, a.loadFrom)}
      [] got = 2 /\ reply.code = 200 -> {finishError(a, "empty", a.target, a.loadFrom)}
      [] OTHER -> {afterLoad(c, a.loadFrom) :
                     c \in cacheStore(persistCookies(loadBody(a, page), reply), a.target, page)}

\* readTLSConn: what was read before an error counts as the whole response
readTLSConn(reply) == 0 .. 2 + reply.body

\* tls.Dial, one write and the reads run inside the call
startHTTPS(a, u) ==
    LET sent == Asked(a, u, TRUE)
        kept == [sent EXCEPT !.loadURL = u, !.loading = FALSE] IN
    {finishError(a, "tls", a.target, a.loadFrom)}
    \cup (IF a.sock # NoLoc THEN {} ELSE
          {offlineOr(sent, "tls")} \cup
          UNION {UNION {finishResponse(kept, r, got, TRUE) : got \in readTLSConn(r) \ {0}} : r \in WebReplies})

completeLoad(a) == finishResponse(TCPClose(a), a.sock.reply, a.got, FALSE)

\* responseNeed, once the head is there: -2 for a framing that is refused
Framed(a) == IF a.got >= 2 THEN [a EXCEPT !.framed = TRUE] ELSE a

\* Plausible mistake: the peer's FIN ends a body of declared length too
fin_completes(a, n) ==
    LET b == Framed([a EXCEPT !.got = @ + n])
        need == b.sock.reply.need IN
    CASE b.framed /\ need = -2 -> {endFail(b, "truncated")}
      [] b.framed /\ need >= 0 ->
            IF BodyLen(b.got) >= need \/ n = 0 THEN completeLoad(b) ELSE {b}
      [] ~(b.framed /\ need # -1) /\ n = 0 ->
            IF b.got = 0 THEN {endOffline(b, "tcp")} ELSE completeLoad(b)
      [] OTHER -> IF b.got >= WebCap THEN completeLoad(b) ELSE {b}

\* n pieces arrived (none: the peer has closed)
loadStepGot(a, n) ==
    LET b == Framed([a EXCEPT !.got = @ + n])
        need == b.sock.reply.need IN
    CASE b.framed /\ need = -2 -> {endFail(b, "truncated")}
      [] b.framed /\ need >= 0 ->
            IF BodyLen(b.got) >= need THEN completeLoad(b)
            ELSE IF n = 0 THEN {endFail(b, "truncated")} ELSE {b}
      [] ~(b.framed /\ need # -1) /\ n = 0 ->
            IF b.got = 0 THEN {endOffline(b, "tcp")} ELSE completeLoad(b)
      [] OTHER -> IF b.got >= WebCap THEN completeLoad(b) ELSE {b}

\* TCPReady and TCPRecv: an error, a piece, the peer's FIN, or nothing yet
loadStep(a) ==
    (IF a.got < 2 + a.sock.reply.body THEN loadStepGot(a, 1) ELSE {})
    \cup loadStepGot(a, 0)
    \cup {endOffline(a, "tcp"), endOffline(a, "timeout")}

-----------------------------------------------------------------------------
(* Navigation and events *)

showStartSurface(a) ==
    loadBody([a EXCEPT !.target = NoURL],
             [kind |-> "start", url |-> NoURL, need |-> -1, n |-> 1, tls |-> FALSE])

ReadFileAll(u) == IF u \in DOMAIN ShareFiles THEN ShareFiles[u] ELSE -1

navigate(a, t, from) ==
    LET b == [a EXCEPT !.target = t, !.scroll = 0, !.loadFrom = from, !.hops = 0, !.seen = {},
                       !.asked = 0, !.raced = @ \/ a.loading]
        n == ReadFileAll(t) IN
    CASE resolveInput(t) = "empty" -> {finishError(a, "url", t, from)}
      [] resolveInput(t) = "unsupported" -> {finishError(a, "scheme", t, from)}
      [] resolveInput(t) \in {"http", "file"} ->
            CASE classifyTarget(t) = "https" -> startHTTPS(b, t)
              [] classifyTarget(t) = "http" -> startHTTP(b, t)
              [] classifyTarget(t) \in {"dns", "url"} -> {finishError(b, classifyTarget(t), t, from)}
              [] OTHER ->
                    IF n < 0 THEN {finishError(b, "file", t, from)}
                    ELSE IF n = 0 THEN {finishError(b, "empty", t, from)}
                    ELSE {afterLoad(loadBody(b, [kind |-> "page", url |-> t, need |-> -1, n |-> n, tls |-> FALSE]), from)}

cancelLoad(a) ==
    IF ~a.loading THEN [a EXCEPT !.status = "stopped"]
    ELSE finishError([TCPClose(a) EXCEPT !.loading = FALSE], "cancelled", a.target, a.loadFrom)

goBack(a) ==
    LET b == [a EXCEPT !.pos = @ - 1] IN
    IF ~histCanBack(a) THEN {a}
    ELSE {announceNavigation(histReplace(c, b.hist[b.pos])) : c \in navigate(b, b.hist[b.pos], NoURL)}

goForward(a) ==
    LET b == [a EXCEPT !.pos = @ + 1] IN
    IF ~histCanForward(a) THEN {a}
    ELSE {announceNavigation(histReplace(c, b.hist[b.pos])) : c \in navigate(b, b.hist[b.pos], NoURL)}

reload(a) ==
    IF a.target.scheme = "" THEN {showStartSurface(a)}
    ELSE navigate([a EXCEPT !.status = "reloading"], a.target, NoURL)

\* A link announces the navigation once more after navigate has
clickLink(a, href) ==
    LET t == relativeTo(a.target, href) IN
    IF a.page = NoPage \/ resolveInput(t) = "empty" THEN {a}
    ELSE {IF a.target.scheme # "" THEN announceNavigation(c) ELSE c : c \in navigate(a, t, a.target)}

\* A page is taller than the view by a line for each byte after the first
ScrollMax(a) == IF a.page = NoPage THEN 0 ELSE a.page.n - 1

scrollBy(a, d) ==
    IF a.page = NoPage THEN a
    ELSE [a EXCEPT !.scroll = IF @ + d < 0 THEN 0 ELSE IF @ + d > ScrollMax(a) THEN ScrollMax(a) ELSE @ + d]

webKeys(a) ==
    {cancelLoad(a), bookmarkToggle(a), clearCookies(a), historyDeleteNewest(a), clearCache(a),
     scrollBy(a, -1), scrollBy(a, 1), [a EXCEPT !.scroll = ScrollMax(a)], [a EXCEPT !.quit = TRUE]}
    \cup saveDownload(a) \cup reload(a) \cup goBack(a) \cup goForward(a)

-----------------------------------------------------------------------------
webVars == <<web>>

\* main, up to the first call of navigate
webFirst ==
    [target |-> NoURL, hist |-> <<>>, pos |-> 0, title |-> Heading(""), status |-> "", page |-> NoPage, err |-> "",
     scroll |-> 0, settled |-> FALSE, quit |-> FALSE, navs |-> 0,
     loading |-> FALSE, lastBody |-> NoPage, loadFrom |-> NoURL, loadURL |-> NoURL, got |-> 0, framed |-> FALSE,
     hops |-> 0, seen |-> {}, sock |-> NoLoc, sent |-> {}, asked |-> 0, clear |-> {}, raced |-> FALSE,
     bodies |-> {},
     ledger |-> [s \in {"history", "bookmarks", "cookies", "cache", "downloads"} |-> <<>>], events |-> 0]

webInit ==
    web \in {settleIfNeeded(a) : a \in
               UNION {IF t = NoURL THEN {showStartSurface(webFirst)} ELSE navigate(webFirst, t, NoURL) :
                        t \in WebInputs}}

webLoad ==
    /\ ~web.quit /\ web.loading
    /\ web' \in loadStep(web)

webEvent ==
    /\ ~web.quit /\ web.events < MaxWebEvents
    /\ \E a \in webKeys(web) \cup UNION {clickLink(web, h) : h \in WebHrefs} :
          web' = [a EXCEPT !.events = @ + 1]

webNext == webLoad \/ webEvent

webSpec == webInit /\ [][webNext]_webVars

-----------------------------------------------------------------------------
(* Properties *)

\* Nothing addressed to https is ever put on the cleartext socket, through
\* links, back and forward, reloads and redirects (classifyTarget's "never
\* send an https request in the clear", finishResponse).
ClearOnlyHttp == web.clear \subseteq {"http"}

\* However a peer redirects, one navigation asks the network a bounded number
\* of times (maxRedirects, loadSeen).
FetchBounded == web.asked <= maxRedirects + 1

\* A cleartext page that declared its length is shown and stored whole
\* (loadStep: a FIN or the deadline before the last byte refuses it).  A page over
\* TLS is whatever was read before the connection ended (readTLSConn), its declared
\* length is not looked at, and nothing is claimed of it here.
WholePages ==
    \A p \in {web.page, web.lastBody} \cup {b.page : b \in web.bodies} :
        p.kind = "page" /\ ~p.tls /\ p.need >= 0 => p.n >= p.need

\* While no navigation was started over a load in flight, the page on screen
\* and every stored copy belong to the URL they are shown or stored under,
\* across redirects, back and forward, cancelled loads and offline copies.
PageMatches ==
    ~web.raced =>
        /\ ~web.loading /\ web.page.kind = "page" => web.page.url = web.target
        /\ \A b \in web.bodies : b.page.url = b.url
        /\ web.loading => web.sock # NoLoc /\ web.sock.url = web.loadURL /\ web.target = web.loadURL

\* The cursor of the history always names an entry
HistoryCursor == web.pos \in 0 .. Len(web.hist) /\ (web.hist # <<>> => web.pos > 0)

\* What the browser shows is what was asked for: see the five parts.
WebHonest == ClearOnlyHttp /\ FetchBounded /\ WholePages /\ PageMatches /\ HistoryCursor
=============================================================================
