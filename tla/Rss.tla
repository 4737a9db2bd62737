--------------------------------- MODULE Rss ---------------------------------
(***************************************************************************)
(* The feed reader RSS.ELF (user/go/rss): the pure state machine of        *)
(* package app, the effects main discharges after every key, the fetch of  *)
(* a feed with its redirects (package feed) and the three files of package *)
(* store.  An article is [guid, link]; a URL is a member of Urls, and the  *)
(* ones in Secure are https.  Titles, status texts and the scroll offset,  *)
(* which decide nothing, are left out.                                     *)
(***************************************************************************)
EXTENDS Integers, Sequences, FiniteSets, SequencesExt

CONSTANTS Urls, Secure,   \* feed addresses, and those that are https
          Sites,          \* what each address answers, see get
          OpmlFiles,      \* subscription lists the host may put in RSS.OPML
          maxFeedRedirects, MaxFeeds, MaxArticles,
          MaxSubs,        \* bound on the list in memory
          MaxKeys,        \* bound on the keys of one session
          MaxSessions     \* bound on the starts

VARIABLE rss
-----------------------------------------------------------------------------
(* Package feed.                                                             *)

Nowhere == "none"
IsUrl(u) == u \in Urls      \* feed.Classify: anything else is SchemeInvalid

\* ArticleKey; every dialect fills an empty GUID with the link.
ArticleKey(a) == IF a.guid # "" THEN a.guid ELSE a.link
Normalised(items) == [i \in DOMAIN items |-> [guid |-> ArticleKey(items[i]), link |-> items[i].link]]

\* rss2, rss1 and atom roots are feeds. A document that was cut has no closing
\* root and does not unmarshal.
Parse(doc, whole) ==
  CASE doc.root = "empty" -> [ok |-> FALSE]
    [] doc.root # "empty" /\ ~whole -> [ok |-> FALSE]
    [] doc.root \in {"rss", "RDF", "feed"} /\ whole -> [ok |-> TRUE, articles |-> Normalised(doc.items)]
    [] OTHER -> [ok |-> FALSE]

\* frameBody: a chunked body that was cut is an error of its own, a delimited or
\* a closed one is kept as it is.
frameBody(r, whole) == r.enc # "chunked" \/ whole

\* Mutant: a redirect is followed wherever it goes.
follow_any(from, loc) == IF ~IsUrl(loc) THEN Nowhere ELSE loc

\* resolveRedirect: the next address, or Nowhere for an error.
resolveRedirect(from, loc) ==
  IF ~IsUrl(loc) \/ (from \in Secure /\ loc \notin Secure) THEN Nowhere ELSE loc

redirectStatus(r) == r.status \in {301, 302, 303, 307, 308}

\* get: one request over the transport of the address. `fault` is what the network
\* does to the request with number `hop`: "net" (dial, handshake or send fails, or
\* nothing arrives), "head" or "cut" (the connection ends, or the cap is reached,
\* inside the head or the body; what arrived is kept).
get(u, hop, fault) ==
  LET kind == IF fault.hop = hop THEN fault.kind ELSE "none" IN
  [ok |-> kind # "net", headed |-> kind # "head", whole |-> kind = "none", r |-> Sites[u]]

\* splitResponse: a response without the end of its head has no status.
splitResponse(g) == g.headed

\* Fetch from address u after `hop` redirects. The result has the addresses that
\* were asked, in order.
RECURSIVE FetchHop(_, _, _, _)
FetchHop(u, asked, hop, fault) ==
  LET g == get(u, hop, fault)
      trail == Append(asked, u)
      next == resolveRedirect(u, g.r.loc)
      bad == [ok |-> FALSE, trail |-> trail] IN
  IF u \in Range(asked) THEN [ok |-> FALSE, trail |-> asked]
  ELSE IF ~g.ok \/ ~splitResponse(g) THEN bad
  ELSE IF redirectStatus(g.r)
  THEN IF hop = maxFeedRedirects \/ next = Nowhere THEN bad ELSE FetchHop(next, trail, hop + 1, fault)
  ELSE IF ~frameBody(g.r, g.whole) \/ g.r.status \notin 200..299 \/ ~Parse(g.r.doc, g.whole).ok THEN bad
  ELSE [ok |-> TRUE, trail |-> trail, articles |-> Parse(g.r.doc, g.whole).articles]

Fetch(u, fault) == IF IsUrl(u) THEN FetchHop(u, <<>>, 0, fault) ELSE [ok |-> FALSE, trail |-> <<>>]
Faults == {[hop |-> -1, kind |-> "none"]} \cup [hop : 0..maxFeedRedirects, kind : {"net", "head", "cut"}]
-----------------------------------------------------------------------------
(* Package store.  A file is <<>> (absent) or <<content>>; a save writes the *)
(* new content, or fails and leaves the old one or none.                      *)

Absent == <<>>
Saved(old, new) == {[ok |-> TRUE, file |-> <<new>>], [ok |-> FALSE, file |-> old], [ok |-> FALSE, file |-> Absent]}

\* EncodeOPML writes one outline for each subscription; DecodeOPML drops an outline
\* without xmlUrl and names one without a title after its URL.
DecodeOPML(outlines) ==
  [i \in DOMAIN SelectSeq(outlines, LAMBDA o : o.url # "") |->
     LET o == SelectSeq(outlines, LAMBDA x : x.url # "")[i] IN
     [o EXCEPT !.title = IF o.title = "" THEN o.url ELSE o.title]]

SaveSubs(subs) == IF Len(subs) > MaxFeeds THEN SubSeq(subs, 1, MaxFeeds) ELSE subs

\* SaveState drops the empty key, which no article of a later session could match.
SaveState(r) == [Read |-> r.Read \ {""}, LastFeed |-> r.FeedURL]

\* SaveCache takes the feeds in the order of a Go map, any order, until MaxArticles
\* articles are written; the last feed may be cut, the ones after it are dropped.
RECURSIVE TrimFrom(_, _, _)
TrimFrom(c, order, room) ==
  IF order = <<>> \/ room = 0 THEN << >>
  ELSE LET u == Head(order)
           n == IF Len(c[u]) < room THEN Len(c[u]) ELSE room IN
       <<[url |-> u, arts |-> SubSeq(c[u], 1, n)]>> \o TrimFrom(c, Tail(order), room - n)

SaveCache(c) == {TrimFrom(c, order, MaxArticles) : order \in SetToSeqs(DOMAIN c)}
LoadCache(file) ==
  IF file = Absent THEN << >>
  ELSE LET feeds == file[1] IN
       [u \in {feeds[i].url : i \in DOMAIN feeds} |->
          LET i == CHOOSE k \in DOMAIN feeds : feeds[k].url = u IN feeds[i].arts]
-----------------------------------------------------------------------------
(* main.  `from` is the address the articles on screen came from, `clear`     *)
(* whether an https subscription was ever asked for in the clear.             *)

\* CacheKey: the token is a subscription's URL, or the title of one, or itself.
CacheKey(token, subs) ==
  IF \E i \in DOMAIN subs : subs[i].url = token \/ token = "" THEN token
  ELSE IF \E i \in DOMAIN subs : subs[i].title = token
  THEN subs[CHOOSE i \in DOMAIN subs : /\ subs[i].title = token
                                       /\ \A k \in 1..i - 1 : subs[k].title # token].url
  ELSE token

\* The start: subscriptions, cache and state are loaded and the last feed restored.
RssStarted(opml, state, cfile) ==
  LET subs == IF opml = Absent THEN <<>> ELSE DecodeOPML(opml[1])
      cache == LoadCache(cfile)
      url == IF state = Absent THEN "" ELSE CacheKey(state[1].LastFeed, subs)
      arts == IF url \in DOMAIN cache THEN cache[url] ELSE <<>> IN
  [Subs |-> subs, cache |-> cache, Read |-> IF state = Absent THEN {} ELSE state[1].Read,
   FeedURL |-> url, Articles |-> arts, View |-> IF arts = <<>> THEN "feeds" ELSE "articles",
   FeedCursor |-> 0, ArtCursor |-> 0, InputMode |-> FALSE, Input |-> "", ErrText |-> FALSE,
   from |-> IF arts = <<>> THEN "" ELSE url]

rssInit ==
  \E opml \in {<<f>> : f \in OpmlFiles} \cup {Absent} :
    rss = [up |-> TRUE, m |-> RssStarted(opml, Absent, Absent), opml |-> opml, state |-> Absent,
           cfile |-> Absent, clear |-> FALSE, keys |-> 0, session |-> 1]

Rss(r) == rss' = r

\* Effects that do nothing.
NoEffects == [Quit |-> FALSE, FetchURL |-> "", SaveSubs |-> FALSE, SaveState |-> FALSE,
              OpenLink |-> FALSE, Reload |-> FALSE]
Leave == [NoEffects EXCEPT !.Quit = TRUE, !.SaveState = TRUE]

SetError(m) == [m EXCEPT !.ErrText = TRUE]

\* The URL of a subscription at the cursor; an index past the list is a panic.
AtCursor(m) == m.Subs[m.FeedCursor + 1].url
CursorInList(m) == m.FeedCursor < Len(m.Subs)

isRead(m, a) == ArticleKey(a) \in m.Read
markRead(m, a, v) == [m EXCEPT !.Read = IF v THEN @ \cup {ArticleKey(a)} ELSE @ \ {ArticleKey(a)}]

\* Each apply function gives the model after the key and the effects it asks for.
Did(m, e) == [m |-> m, e |-> e]

\* Ctrl-C at the prompt sets Quit in the model only; the caller looks at the effects.
applyInput(m, key) ==
  CASE key = "esc" -> Did([m EXCEPT !.InputMode = FALSE, !.Input = ""], NoEffects)
    [] key \in Urls \cup {"text"} -> Did([m EXCEPT !.Input = key], NoEffects)
    [] key = "enter" ->
         LET n == [m EXCEPT !.InputMode = FALSE, !.Input = ""] IN
         IF m.Input = "" THEN Did(n, NoEffects)
         ELSE IF ~IsUrl(m.Input) THEN Did(SetError(n), NoEffects)
         ELSE Did([n EXCEPT !.Subs = Append(@, [title |-> m.Input, url |-> m.Input])],
                  [NoEffects EXCEPT !.SaveSubs = TRUE, !.FetchURL = m.Input])
    [] OTHER -> Did(m, NoEffects)
applyFeeds(m, key) ==
  CASE key = "up" -> Did([m EXCEPT !.FeedCursor = IF @ > 0 THEN @ - 1 ELSE @], NoEffects)
    [] key = "down" -> Did([m EXCEPT !.FeedCursor = IF @ < Len(m.Subs) - 1 THEN @ + 1 ELSE @], NoEffects)
    [] key \in {"enter", "r"} /\ m.Subs # <<>> -> Did(m, [NoEffects EXCEPT !.FetchURL = AtCursor(m)])
    [] key = "a" -> Did([m EXCEPT !.InputMode = TRUE, !.Input = ""], NoEffects)
    [] key = "d" /\ m.Subs # <<>> ->
         LET left == RemoveAt(m.Subs, m.FeedCursor + 1) IN
         Did([m EXCEPT !.Subs = left, !.FeedCursor = IF @ >= Len(left) /\ @ > 0 THEN @ - 1 ELSE @],
             [NoEffects EXCEPT !.SaveSubs = TRUE])
    [] key = "i" -> Did(m, [NoEffects EXCEPT !.Reload = TRUE])
    [] key \in {"q", "ctrl-c"} -> Did(m, Leave)
    [] OTHER -> Did(m, NoEffects)

\* The address the list is refreshed from.
currentURL(m) == IF m.FeedURL # "" THEN m.FeedURL ELSE IF CursorInList(m) THEN AtCursor(m) ELSE ""

Selected(m) == m.Articles[m.ArtCursor + 1]

articleRune(m, key, inList) ==
  CASE key = "m" /\ m.Articles # <<>> ->
         Did(markRead(m, Selected(m), ~isRead(m, Selected(m))), [NoEffects EXCEPT !.SaveState = TRUE])
    [] key = "o" /\ m.Articles # <<>> -> Did(m, [NoEffects EXCEPT !.OpenLink = TRUE])
    [] key = "q" -> Did(m, Leave)
    [] key = "r" /\ inList -> Did(m, [NoEffects EXCEPT !.FetchURL = currentURL(m)])
    [] OTHER -> Did(m, NoEffects)

applyArticles(m, key) ==
  CASE key = "up" -> Did([m EXCEPT !.ArtCursor = IF @ > 0 THEN @ - 1 ELSE @], NoEffects)
    [] key = "down" -> Did([m EXCEPT !.ArtCursor = IF @ < Len(m.Articles) - 1 THEN @ + 1 ELSE @], NoEffects)
    [] key = "enter" /\ m.Articles # <<>> ->
         Did(markRead([m EXCEPT !.View = "article"], Selected(m), TRUE), [NoEffects EXCEPT !.SaveState = TRUE])
    [] key = "esc" -> Did([m EXCEPT !.View = "feeds"], NoEffects)
    [] key = "ctrl-c" -> Did(m, Leave)
    [] OTHER -> articleRune(m, key, TRUE)

applyArticle(m, key) ==
  CASE key = "esc" -> Did([m EXCEPT !.View = "articles"], NoEffects)
    [] key = "ctrl-c" -> Did(m, Leave)
    [] OTHER -> articleRune(m, key, FALSE)

Apply(m, key) ==
  IF m.InputMode THEN applyInput(m, key)
  ELSE CASE m.View = "feeds" -> applyFeeds(m, key)
         [] m.View = "articles" -> applyArticles(m, key)
         [] m.View = "article" -> applyArticle(m, key)

\* SetArticles.
SetArticles(m, url, arts) ==
  [m EXCEPT !.FeedURL = url, !.Articles = arts, !.ArtCursor = 0, !.View = "articles",
            !.ErrText = FALSE, !.from = url]

\* The addresses a fetch asks, marked when an https one leads into the clear.
TrailAsked(r, trail) ==
  [r EXCEPT !.clear = @ \/ (trail # <<>> /\ Head(trail) \in Secure /\ ~(Range(trail) \subseteq Secure))]

\* doFetch: a failure keeps the list that is on screen; a failed SaveCache is only
\* logged, and the cache in memory has the new list either way.
doFetch(r, url, fault) ==
  LET f == Fetch(url, fault)
      s == TrailAsked(r, f.trail)
      cache == [u \in DOMAIN r.m.cache \cup {url} |-> IF u = url THEN f.articles ELSE r.m.cache[u]] IN
  IF ~f.ok THEN {[s EXCEPT !.m = SetError(@)]}
  ELSE UNION {{[s EXCEPT !.m = [SetArticles(@, url, f.articles) EXCEPT !.cache = cache],
                         !.cfile = w.file] : w \in Saved(r.cfile, file)} : file \in SaveCache(cache)}

Reloaded(r) == IF r.opml = Absent THEN r ELSE [r EXCEPT !.m.Subs = DecodeOPML(r.opml[1])]

SubsWritten(r) ==
  {[r EXCEPT !.opml = w.file, !.m = IF w.ok THEN @ ELSE SetError(@)] : w \in Saved(r.opml, SaveSubs(r.m.Subs))}

StateWritten(r) ==
  {[r EXCEPT !.state = w.file, !.m = IF w.ok THEN @ ELSE SetError(@)] : w \in Saved(r.state, SaveState(r.m))}

\* The link file of WEB.ELF; an empty link is nothing to open, a failed write an
\* error text.
LinkHanded(r) ==
  IF Selected(r.m).link = "" THEN {r} ELSE {r, [r EXCEPT !.m = SetError(@)]}

\* discharge: reload, subscriptions, fetch, state, link, in this order.
discharge(r, e, fault) ==
  LET loaded == IF e.Reload THEN Reloaded(r) ELSE r
      subs == IF e.SaveSubs THEN SubsWritten(loaded) ELSE {loaded}
      fetched == IF e.FetchURL = "" THEN subs ELSE UNION {doFetch(x, e.FetchURL, fault) : x \in subs}
      stated == IF e.SaveState THEN UNION {StateWritten(x) : x \in fetched} ELSE fetched IN
  IF e.OpenLink THEN UNION {LinkHanded(x) : x \in stated} ELSE stated

Keys == {"up", "down", "enter", "esc", "ctrl-c", "a", "d", "i", "m", "o", "q", "r", "text"} \cup Urls

\* Keys that read the subscription at the cursor end the program when it is past
\* the list.
Panics(m, key) ==
  ~m.InputMode /\ m.View = "feeds" /\ key \in {"enter", "r", "d"} /\ m.Subs # <<>> /\ ~CursorInList(m)

\* One key of the terminal, its effects and the repaint.
RssKey(key) ==
  /\ rss.up /\ rss.keys < MaxKeys /\ ~Panics(rss.m, key)
  /\ key \in Urls \cup {"text"} => rss.m.InputMode /\ Len(rss.m.Subs) < MaxSubs
  /\ LET did == Apply(rss.m, key) IN
     \E fault \in IF did.e.FetchURL = "" THEN {[hop |-> -1, kind |-> "none"]} ELSE Faults :
       \E r \in discharge([rss EXCEPT !.m = did.m, !.keys = @ + 1], did.e, fault) :
         Rss([r EXCEPT !.up = ~did.e.Quit])

RssPanics ==
  /\ rss.up /\ \E key \in {"enter", "r", "d"} : Panics(rss.m, key)
  /\ Rss([rss EXCEPT !.up = FALSE])

\* The window is closed, the event queue is lost or a repaint fails: no save.
RssShutdown == rss.up /\ Rss([rss EXCEPT !.up = FALSE])

\* The program is started again over the same files.
RssStart ==
  /\ ~rss.up /\ rss.session < MaxSessions
  /\ Rss([rss EXCEPT !.up = TRUE, !.session = @ + 1, !.keys = 0,
                     !.m = RssStarted(rss.opml, rss.state, rss.cfile)])

\* The host edits RSS.OPML in the share.
HostEditsOpml == \E f \in OpmlFiles : rss.opml # <<f>> /\ Rss([rss EXCEPT !.opml = <<f>>])

rssNext == (\E key \in Keys : RssKey(key)) \/ RssPanics \/ RssShutdown \/ RssStart \/ HostEditsOpml

(* What the reader shows belongs together, over failed and redirected          *)
(* fetches, failed saves, edits of RSS.OPML and restarts from the three files: *)
(* the articles on screen are those of the feed that is named, refreshed and    *)
(* saved as the last one, whole (never a document that was cut) or, after a     *)
(* restart, a prefix of them from the cache; the article cursor is inside the   *)
(* list that is being read; and no https subscription is ever fetched in the    *)
(* clear, however it is redirected.                                             *)
RssCoherent ==
  LET m == rss.m
      final(u) == FetchHop(u, <<>>, 0, [hop |-> -1, kind |-> "none"]) IN
  /\ m.Articles # <<>> => /\ m.from = m.FeedURL
                          /\ final(m.from).ok /\ IsPrefix(m.Articles, final(m.from).articles)
  /\ m.ArtCursor = 0 \/ m.ArtCursor < Len(m.Articles)
  /\ m.View = "article" => m.Articles # <<>>
  /\ ~rss.clear
=============================================================================
