-------------------------------- MODULE MCGo ---------------------------------
(***************************************************************************)
(* The Go side of the system: the runtime port, the desktop and its client *)
(* protocol, the shell, and the programs.  They share no memory, and each  *)
(* module models the environment its program sees, so a behaviour is one   *)
(* of them, `prog`, running with the others not started.                   *)
(***************************************************************************)
EXTENDS MCTabWm, WmRpc, FileShadow, GoRuntime, MCShell, MCLineEdit, MCTlsClient,
        MCSsh, MCBrowser, MCLocal, Calc, MCGit, MCNetTools, MCRss

CONSTANT Programs   \* the programs that take part

VARIABLE prog

MCFileContents == {<<1, 2, 1>>, <<1>>}
MCOldContents == {<<2>>}

\* A program with more than one initial state, while it is not the one that runs.
NotStarted == 0

goInit ==
  /\ prog \in Programs
  /\ deskInit /\ rpcInit /\ fhInit /\ semaInit /\ netInit /\ pollerInit /\ shInit
  /\ sockInit /\ dnsInit /\ pngInit /\ calcInit
  /\ IF prog = "edit" THEN edInit ELSE ed = NotStarted /\ edScript = NotStarted
  /\ IF prog = "tls" THEN tlsInit ELSE tls = newClient(CHOOSE s \in TlsServers : TRUE)
  /\ IF prog = "ssh" THEN sshInit ELSE ssh = NotStarted
  /\ IF prog = "web" THEN webInit ELSE web = NotStarted
  /\ IF prog = "files" THEN fmInit ELSE fm \in newModel(<<>>)
  /\ IF prog = "editors" THEN docInit ELSE doc = NotStarted
  /\ IF prog = "viewer" THEN vwInit ELSE vw = NotStarted
  /\ IF prog = "git" THEN gitInit ELSE git = NotStarted
  /\ IF prog = "http" THEN httpInit ELSE http = NotStarted
  /\ IF prog = "rss" THEN rssInit ELSE rss = NotStarted
  /\ IF prog = "settings" THEN panelInit ELSE panel = NotStarted
  /\ IF prog = "term" THEN termInit ELSE term = NotStarted
  /\ IF prog = "top" THEN topInit ELSE top = NotStarted

Rests(p, vars) == IF prog = p THEN TRUE ELSE UNCHANGED vars

goNext ==
  /\ UNCHANGED prog
  /\ Rests("wm", deskVars) /\ Rests("rpc", rpc) /\ Rests("file", fhVars) /\ Rests("sema", sema)
  /\ Rests("net", net) /\ Rests("poller", poller) /\ Rests("sh", sh) /\ Rests("edit", <<ed, edScript>>)
  /\ Rests("tls", tls) /\ Rests("ssh", ssh) /\ Rests("web", web) /\ Rests("files", fm)
  /\ Rests("editors", doc) /\ Rests("viewer", vw) /\ Rests("calc", calc) /\ Rests("git", git)
  /\ Rests("sock", sock) /\ Rests("http", http) /\ Rests("dns", dns) /\ Rests("ping", png)
  /\ Rests("rss", rss) /\ Rests("settings", panel) /\ Rests("term", term) /\ Rests("top", top)
  /\ \/ prog = "wm" /\ deskNext
     \/ prog = "rpc" /\ rpcNext
     \/ prog = "file" /\ fhNext
     \/ prog = "sema" /\ semaNext
     \/ prog = "net" /\ netNext
     \/ prog = "poller" /\ pollerNext
     \/ prog = "sh" /\ shNext
     \/ prog = "edit" /\ edNext
     \/ prog = "tls" /\ tlsNext
     \/ prog = "ssh" /\ sshNext
     \/ prog = "web" /\ webNext
     \/ prog = "files" /\ fmNext
     \/ prog = "editors" /\ docNext
     \/ prog = "viewer" /\ vwNext
     \/ prog = "calc" /\ calcNext
     \/ prog = "git" /\ gitNext
     \/ prog = "sock" /\ sockNext
     \/ prog = "http" /\ httpNext
     \/ prog = "dns" /\ dnsNext
     \/ prog = "ping" /\ pngNext
     \/ prog = "rss" /\ rssNext
     \/ prog = "settings" /\ panelNext
     \/ prog = "term" /\ termNext
     \/ prog = "top" /\ topNext

goVars ==
  <<prog, desk, deskScript, rpc, fh, fhAsk, sema, net, poller, sh, ed, edScript, tls, ssh, web, fm, doc, vw,
    calc, git, sock, http, dns, png, rss, panel, term, top>>

\* The scheduler calls netpoll for as long as a goroutine is parked.
goSpec == goInit /\ [][goNext]_goVars /\ WF_net(prog = "net" /\ pollerM)
-----------------------------------------------------------------------------
\* While a chain of kills goes on Ctrl-Y puts back the line it began with, and a
\* shell started now would recall what this one does, unless a failed write is not
\* yet made good or the history file is longer than one read takes (killRegion,
\* SaveHistory and History.Load of shlib); the terminal gives the tty back however
\* it ends, closes on Ctrl-D exactly when it is repeated, and runs the lines that
\* were typed, each shell starting afresh, but for the first line after a restart
\* or a `read` (runSession, shutdown, ReadTTYLine of term/main.go).
LineEditorKeeps ==
  /\ prog = "edit" => KillChainRestores /\ RecallPersists
  /\ prog = "term" => TermFaithful

\* However the stream is cut the two ends of an SSH session never lose step, and
\* the client reports the command's output and status, which it asks only of the
\* pinned host and only after its key was accepted (sshlib/client.go).
SshKeeps == prog = "ssh" => SshFaithful

\* Nothing addressed to https goes over the cleartext socket, a navigation asks
\* the network a bounded number of times, a cleartext page that declared its length
\* is shown and stored whole, and the page shown and every stored copy belong to the
\* URL they are shown under, unless the user navigated over a load in flight
\* (browser/main.go: classifyTarget, loadStep, finishResponse).
BrowserKeeps == prog = "web" => WebHonest

\* What an editor says is saved is on the share, the caret stays in the buffer and
\* in view, and find and goto land where they say (edit/main.go, note/main.go); a
\* settings file that was refused is never replaced, and one that is saved holds what
\* was set and what was there (settings/settings.go, goset/main.go).  Whatever
\* dimensions a header claims the window is of a legal size, and after any mix of
\* zooms, pans, drags and resizes the picture fills what it can of it (view:
\* chooseWindowSize, applyZoom, recenterClamp); over sorts, refreshes and a changing
\* registry the task manager kills the process its selection was put on, aims by
\* itself neither at a seat nor at itself, shows what it selects but between a sort
\* and a refresh, and keeps refreshing (top/table.go, top/main.go).
LocalKeeps ==
  /\ prog = "editors" => EditorsHonest
  /\ prog = "settings" => SettingsSafe
  /\ prog = "viewer" => ViewerBounded
  /\ prog = "top" => TopAims

\* A clone reported OK is complete after any crashes, but for files whose path is
\* too long, a pack unpacks to what was packed, and a repository shown clean is
\* equal to its HEAD (user/go/git).
GitKeeps == prog = "git" => GitSound

\* A fetched body is the one the server sent, if it gave a length or closed, an
\* address answers the name asked for, and GOPING counts no reply twice (fetch/legacy.go, vi/dns.go, ping/main.go).
NetToolsKeep == DnsFresh /\ PingHonest /\ (prog = "http" => FetchExact)

\* The articles on screen belong to the feed that is named, over failed fetches,
\* failed saves and restarts, and no https feed is fetched in the clear
\* (rss/app, rss/feed, rss/store).
RssKeeps == prog = "rss" => RssCoherent
=============================================================================
