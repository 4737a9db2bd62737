---------------------------- MODULE MCTlsClient -----------------------------
\* Peers with a good chain, directly under the root or over an intermediate, and
\* peers whose chain or leaf is wrong in one way; the last ones do not hold the
\* key of the certificate they present.
EXTENDS TlsClient

TlsDns(n) == [ip |-> FALSE, name |-> n]
TlsExt(oid, critical, val) == [oid |-> oid, critical |-> critical, val |-> val]
TlsCA(pathLen) == TlsExt("basicConstraints", TRUE, IF pathLen < 0 THEN <<TRUE>> ELSE <<TRUE, pathLen>>)
TlsSan(names) == TlsExt("subjectAltName", FALSE, names)
TlsEku(s) == TlsExt("extKeyUsage", FALSE, s)
TlsKu(s) == TlsExt("keyUsage", TRUE, s)
TlsNc(p, e) == TlsExt("nameConstraints", TRUE, [permitted |-> p, excluded |-> e])

TlsName == <<"w", "x", "y">>
TlsAny == <<"*", "x", "y">>

TlsCert(subject, issuer, key, signer, exts) ==
  [der |-> TRUE, subject |-> subject, issuer |-> issuer, key |-> key, signer |-> signer,
   sigAlg |-> "sha256", from |-> 1, to |-> 3, cn |-> TlsName, exts |-> exts]

TlsRoot == TlsCert("R", "R", "kR", "kR", <<TlsCA(-1), TlsKu({"keyCertSign"})>>)
TlsLeaf(exts) == TlsCert("L", "R", "kL", "kR", exts)
TlsLeafI == TlsCert("L", "I", "kL", "kI", <<TlsSan(<<TlsDns(TlsName)>>)>>)
TlsInter(exts) == TlsCert("I", "R", "kI", "kR", exts)
TlsGood == TlsLeaf(<<TlsSan(<<TlsDns(TlsName)>>)>>)

TlsLeaves == {
  TlsGood, TlsLeaf(<<TlsSan(<<TlsDns(TlsAny)>>), TlsEku({"serverAuth"})>>),
  TlsLeaf(<<>>), TlsLeaf(<<TlsSan(<<TlsDns(<<"x", "y">>)>>)>>),
  TlsLeaf(<<TlsSan(<<TlsDns(TlsAny), TlsDns(TlsAny)>>)>>),
  TlsLeaf(<<TlsSan(<<TlsDns(TlsName)>>), TlsEku({"clientAuth"})>>),
  TlsLeaf(<<TlsSan(<<TlsDns(TlsName)>>), TlsExt("policy", TRUE, "")>>),
  TlsLeaf(<<TlsSan(<<TlsDns(TlsName), TlsDns(TlsName), TlsDns(TlsName)>>)>>),
  TlsLeaf(<<TlsSan(<<[ip |-> TRUE, name |-> <<"mapped", 1>>]>>)>>),
  [TlsGood EXCEPT !.to = 1], [TlsGood EXCEPT !.signer = "kL"], [TlsGood EXCEPT !.sigAlg = "sha1"],
  [TlsLeaf(<<>>) EXCEPT !.der = FALSE], [TlsLeaf(<<>>) EXCEPT !.issuer = "Q"]}

TlsInters == {
  TlsInter(<<TlsCA(0)>>), TlsInter(<<TlsCA(-1), TlsNc({<<"x", "y">>}, {})>>), TlsInter(<<>>),
  TlsInter(<<TlsCA(-1), TlsKu({})>>), TlsInter(<<TlsCA(-1), TlsNc({}, {<<"y">>})>>)}

MCTlsServers ==
  [chain : {<<l>> : l \in TlsLeaves} \cup {<<TlsLeafI, i>> : i \in TlsInters}
           \cup {<<TlsLeafI, TlsCert("I", "I", "kJ", "kI", <<TlsCA(-1)>>), TlsInter(<<TlsCA(-1)>>)>>},
   holds : {{"kL"}}]
  \cup [chain : {<<TlsGood>>, <<>>}, holds : {{"kI"}}]

\* A certificate that is no CA, the root, and one more than the store takes.
MCRootsDER == <<TlsCert("L", "L", "kL", "kL", <<>>), TlsRoot, [TlsRoot EXCEPT !.subject = "Z"]>>

MCtlsHost == [kind |-> "dns", name |-> TlsName]
=============================================================================
