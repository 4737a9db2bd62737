------------------------------ MODULE MCShell -------------------------------
\* Lines that make every construct of the shell meet the others: loops with a
\* break or continue inside a condition, a function or a chain; functions that
\* source files; substitution around a program; jobs over two process slots.
EXTENDS Shell

ShTrue == Simple("true", "")
ShFalse == Simple("false", "")
ShBreak == Simple("break", "")
ShContinue == Simple("continue", "")
ShFor(body) == parseFor("x", <<1, 2>>, body)
ShBg(name) == Plan(Word(name, ""), NoWord, "", "", TRUE)
ShPipe(left, right, to) == Plan(left, right, "", to, FALSE)
ShRedirect(word, from, to) == Plan(word, NoWord, from, to, FALSE)
ShOrBreak(jump) == chainSplit(<<ShFalse, jump>>, <<"seq", "or">>)

ShLoops == {
  ShFor(<<parseIf(ShTrue, <<ShBreak>>, <<>>), ShFalse>>),
  ShFor(<<ShOrBreak(ShContinue), Simple("f", "a")>>),
  parseWhile(ShTrue, <<Simple("cat", "s"), ShOrBreak(ShBreak)>>),
  parseWhile(ShTrue, <<ShTrue>>),
  parseWhile(Simple("ok", ""), <<Simple("exit", "7")>>)}

ShSubstitutions ==
  {locateCommandSubst(Simple("f", "a"), ShFalse)}
  \cup {locateCommandSubst(s, ShTrue) :
          s \in {Simple("ok", ""), Simple("exit", "7"), Simple("source", "s")}}

ShFunctions == {
  Simple("f", ""), parseFuncDef("f", <<Simple("f", "a"), ShBreak>>),
  parseFuncDef("g", <<ShTrue, ShTrue, ShTrue>>),
  parseFuncDef("h", <<ShFor(<<ShBreak>>)>>), parseFuncDef("k", <<ShTrue>>)}

ShPipes == {
  ShPipe(Word("echo", ""), Word("read", "v"), "o"), ShPipe(Word("echo", "long"), Word("cat", ""), ""),
  ShPipe(Word("echo", ""), Word("ok", ""), ""), ShPipe(Word("ok", ""), Word("cat", ""), ""),
  ShPipe(Word("source", "s"), Word("exit", ""), ""),
  ShRedirect(Word("cat", ""), "s", "readonly"), ShRedirect(Word("echo", "huge"), "", "o"),
  ShRedirect(Word("echo", ""), "no", "o")}

ShSimple ==
  {Simple(c[1], c[2]) : c \in
     {"source"} \X {"s", "", "no"} \cup {"fg"} \X {"1", "2"} \cup {"cd"} \X {"d", "x"}
     \cup {"set", "unset", "export"} \X {"v"} \cup {"jobs", "ok", "slow", "monitor", "break"} \X {""}}

MCTypedLines ==
  ShLoops \cup ShSubstitutions \cup ShFunctions \cup ShPipes \cup ShSimple
  \cup {ShBg(n) : n \in {"ok", "slow", "none", "true"}}
  \cup {parseCase("a", <<caseArm({"b"}, <<ShTrue>>), caseArm({"a"}, <<ShFalse, ShFalse, ShFalse, ShFalse>>)>>),
        parseCase("c", <<caseArm({"b"}, <<ShTrue>>)>>),
        chainSplit([i \in 1 .. 5 |-> ShTrue], [i \in 1 .. 5 |-> "seq"]),
        parseIf(ShFalse, <<ShTrue>>, <<Simple("source", "s")>>),
        [op |-> "blank"], [op |-> "overlong"], Malformed}

MCStartupLines == <<parseFuncDef("f", <<ShFalse, ShContinue>>), ShBg("slow")>>

MCShare ==
  [p \in {"s", "t"} |->
     IF p = "t" THEN <<Simple("source", "s")>>
     ELSE <<parseFuncDef("h", <<ShBreak>>), ShFor(<<Simple("h", "")>>), Simple("source", "t")>>]

MCImages == [p \in {"ok", "slow"} |-> IF p = "ok" THEN 0 ELSE 3]
=============================================================================
