------------------------------- MODULE MCRss --------------------------------
\* A feed, a feed that redirects from https to http, and one in the clear; the
\* subscription lists repeat an address or leave one empty.
EXTENDS Rss

RssSite(status, loc, enc, root, items) ==
  [status |-> status, loc |-> loc, enc |-> enc, doc |-> [root |-> root, items |-> items]]
RssItem(guid, link) == [guid |-> guid, link |-> link]

MCSites ==
  [u \in {"sa", "sb", "hc"} |->
     CASE u = "sa" -> RssSite(200, "", "chunked", "rss", <<RssItem("1", "l"), RssItem("", "")>>)
       [] u = "sb" -> RssSite(302, "hc", "close", "empty", <<>>)
       [] u = "hc" -> RssSite(200, "", "length", "feed", <<RssItem("", "m")>>)]

MCOpmlFiles == {
  <<[title |-> "sa", url |-> "hc"], [title |-> "t", url |-> "sa"]>>,
  <<[title |-> "folder", url |-> ""], [title |-> "", url |-> "sb"]>>}
=============================================================================
