----------------------------- MODULE MCBrowser ------------------------------
\* Addresses and answers: plain and secure, a file, relative and absolute
\* references, redirects that stay, and redirects that change the scheme.  A body of
\* two pieces can be cut after the first.
EXTENDS Browser, TLC

WebURL(scheme, host, port, path) == [scheme |-> scheme, host |-> host, port |-> port, path |-> path]
WebRel(up, path) == [kind |-> "rel", up |-> up, path |-> path]
WebAbs(url) == [kind |-> "abs", url |-> url]
WebSecure == WebURL("https", "ip", 443, <<"a">>)
WebPage == WebURL("file", "", 0, <<"f">>)

WebReply(code, loc, need, body, cookie) ==
  [code |-> code, loc |-> loc, need |-> need, body |-> body, cookie |-> cookie]

MCWebInputs == {NoURL, WebURL("http", "ip", 81, <<"a", "b">>), WebSecure}
MCWebHrefs == {WebRel(1, <<"c">>), WebAbs(WebPage), WebAbs(WebURL("mailto", "", 0, <<>>))}
MCWebReplies == {
  WebReply(200, NoLoc, 2, 2, NoLoc),
  WebReply(200, NoLoc, -1, 0, [domain |-> "", path |-> <<"a">>]),
  WebReply(302, WebAbs(WebSecure), -1, 0, NoLoc),
  WebReply(302, WebRel(0, <<"d">>), -1, 0, NoLoc),
  WebReply(404, NoLoc, -2, 0, NoLoc)}
MCShareFiles == (WebPage :> 2)
=============================================================================
