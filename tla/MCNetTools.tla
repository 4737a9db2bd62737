----------------------------- MODULE MCNetTools -----------------------------
\* Command lines of GOFETCH, right and wrong, and what a server may answer: with
\* and without a length, longer and shorter than it says.
EXTENDS NetTools, Socket

NetUrls ==
  [scheme : {"http", "https", "other", "none"}, host : {"ip", "name"}, port : {"ok", "bad"}, path : {"/file"}]

NetLine(help, badflag, download, url, more, expect) ==
  [help |-> help, badflag |-> badflag, download |-> download, url |-> url, more |-> more, expect |-> expect]

MCCommandLines ==
  {NetLine(FALSE, FALSE, d, u, m, "none") : d \in BOOLEAN, u \in NetUrls \cup {NoUrl}, m \in {0, 2}}
  \cup {NetLine(h, ~h, FALSE, NoUrl, 0, "none") : h \in BOOLEAN}
  \cup {NetLine(FALSE, FALSE, FALSE, [scheme |-> "https", host |-> "ip", port |-> "ok", path |-> "/"], 2, "name")}

MCHttpResponses ==
  [head : {1, 4}, status : {200}, cl : {-1, 0, 2, 3}, body : {<<"x", "y">>, <<"x", "y", "x", "y">>}]
  \cup [head : {1}, status : {0}, cl : {2}, body : {<<"x", "y">>}]
  \cup [head : {1}, status : {200}, cl : {-2}, body : {<<"x", "y">>}]

MCPinnedFiles == {<<"x", "y", "x">>}
=============================================================================
