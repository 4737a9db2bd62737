------------------------------- MODULE MCGit --------------------------------
\* Two commits whose trees share a subtree; servers that pack them base first or
\* last, with chains of deltas by id or by offset, and three framings of a pack; and
\* a commit with a name too long to check out.
EXTENDS Git

GitBlob(d) == [type |-> "blob", atoms |-> d]
GitId(o) == <<o.type, o.atoms>>
GitEnt(mode, name, o) == [mode |-> mode, name |-> name, id |-> GitId(o)]
GitTree(ents) == [type |-> "tree", atoms |-> ents]
GitCommit(t, ps) == [type |-> "commit", atoms |-> <<GitId(t)>> \o ps]

GitB1 == GitBlob(<<1, 2>>)
GitB2 == GitBlob(<<1, 2, 3, 3>>)
GitB3 == GitBlob(<<1, 2, 3, 1>>)
GitT0 == GitTree(<<GitEnt("blob", "c", GitB3)>>)
GitT1 == GitTree(<<GitEnt("blob", "a", GitB1)>>)
GitT2 == GitTree(<<GitEnt("blob", "a", GitB2), GitEnt("tree", "d", GitT0)>>)
GitT3 == GitTree(<<GitEnt("blob", "long", GitB2), GitEnt("blob", "a", GitB1)>>)
GitC1 == GitCommit(GitT1, <<>>)
GitC2 == GitCommit(GitT2, <<GitId(GitC1)>>)
GitC3 == GitCommit(GitT3, <<>>)

GitRef(dir, leaf, o) == [kind |-> "ref", dir |-> dir, leaf |-> leaf, id |-> GitId(o)]
GitPlain(k) == [kind |-> k, dir |-> "", leaf |-> "", id |-> <<>>]
GitPiece(band, piece) == [band |-> band, piece |-> piece]

GitBranch == <<GitPlain("service"), GitPlain("flush"), GitRef("", "HEAD", GitC2), GitRef("refs/heads", "main", GitC2)>>
GitTag == <<GitRef("refs/tags", "v1", GitC2)>>
GitLong == <<GitRef("refs/heads", "main", GitC3)>>
GitBanded == <<GitPiece("NAK", 0), GitPiece("2", 0), GitPiece("1", 1), GitPiece("1", 2), GitPiece("flush", 0)>>
GitRaw == <<GitPiece("NAK", 0), GitPiece("raw", 1), GitPiece("rest", 2)>>
GitAborted == <<GitPiece("NAK", 0), GitPiece("1", 1), GitPiece("3", 0)>>

GitNewest == <<GitC2, GitC1, GitT2, GitT1, GitT0, GitB1, GitB2, GitB3>>
GitOldest == <<GitB3, GitB2, GitB1, GitT0, GitT1, GitT2, GitC1, GitC2>>

\* `from` is the base of each object in the pack, `offset` the bases named by offset.
GitServer(refs, objs, from, offset, body) ==
  [refs |-> refs, objs |-> objs, from |-> from, ofs |-> [i \in DOMAIN objs |-> i \in offset],
   body |-> body, pieces |-> 2]

MCGitServers == {
  GitServer(GitBranch, GitNewest, <<0, 0, 0, 0, 0, 0, 6, 7>>, {7, 8}, GitBanded),
  GitServer(GitBranch, GitOldest, <<2, 3, 0, 0, 0, 0, 0, 0>>, {}, GitRaw),
  GitServer(GitTag, GitNewest, <<0, 0, 0, 0, 0, 0, 6, 6>>, {8}, GitAborted),
  GitServer(GitTag, GitOldest, <<3, 1, 0, 0, 0, 0, 0, 0>>, {2}, GitBanded),
  GitServer(GitLong, <<GitC3, GitT3, GitB1, GitB2>>, <<0, 0, 0, 3>>, {}, GitBanded)}

GitCloned(index, work) ==
  [objs |-> ToSet(GitNewest), head |-> {[dir |-> "refs/heads", leaf |-> "main"]},
   heads |-> {[leaf |-> "main", id |-> GitId(GitC2)]}, work |-> work, index |-> index]
GitTracked(p, o) == [path |-> p, id |-> GitId(o)]
GitFiles == (<<"a">> :> GitB2.atoms) @@ (<<"d", "c">> :> GitB3.atoms)

MCGitRepos == {
  GitCloned({}, GitFiles),
  GitCloned({{GitTracked(<<"a">>, GitB2), GitTracked(<<"d", "c">>, GitB3)}}, GitFiles),
  GitCloned({{GitTracked(<<"a">>, GitB1)}}, GitFiles @@ (<<"z">> :> GitB1.atoms))}

MCCodecTexts == UNION {[1 .. n -> {1, 2}] : n \in 0 .. 4}
MCCodeLengths == {<<1, 2, 2>>, <<2, 1, 3, 3>>, <<3, 0, 3, 2, 1>>, <<2, 2, 2, 2>>}
MCGitBytes == {"1", "2", "j", "k", "q", "esc", "[", "<", ";", "M"}
MCGitEdits == {{}, {<<1, 2>>}, {<<1, 2, 3, 3>>}}
=============================================================================
