-------------------------------- MODULE Calc ---------------------------------
(***************************************************************************)
(* GOCALC.ELF, the calculator (user/go/calc): its engine, the expression   *)
(* line it keeps beside it, and the record it publishes at every "=".  The *)
(* engine computes in int64 with the overflow tests of the code; here      *)
(* there are 2 * HalfRange integers and every machine operation wraps.     *)
(***************************************************************************)
EXTENDS Integers, Sequences, TLC

CONSTANTS
    HalfRange,      \* how many of the engine's integers are negative: 2^63
    CalcDigits,     \* the digit keys pressed
    CalcOps,        \* the operator keys pressed
    MaxCalcKeys     \* bound: keys of a behaviour

VARIABLE calc

maxI64 == HalfRange - 1

minI64 == -HalfRange

ASSUME CalcRange == HalfRange \in Nat /\ HalfRange > 1

\* A key is one of the four operators, or a digit that is an integer of the engine
ASSUME CalcKeys == CalcDigits \subseteq 0 .. maxI64 /\ CalcOps \subseteq {"+", "-", "*", "/"}

\* What a register holds after a machine operation
Wrap(x) == ((x - minI64) % (2 * HalfRange)) + minI64

\* Division truncates toward zero, and minI64 / -1 wraps
Quo(a, b) ==
    LET q == (IF a < 0 THEN -a ELSE a) \div (IF b < 0 THEN -b ELSE b) IN
    Wrap(IF (a < 0) # (b < 0) THEN -q ELSE q)

Ok(v) == [ok |-> TRUE, v |-> v]

Overflow == [ok |-> FALSE, v |-> 0]

-----------------------------------------------------------------------------
(* The engine: engine.go *)

add64(a, b) ==
    LET c == Wrap(a + b) IN IF (b > 0 /\ c < a) \/ (b < 0 /\ c > a) THEN Overflow ELSE Ok(c)

sub64(a, b) ==
    LET c == Wrap(a - b) IN IF (b > 0 /\ c > a) \/ (b < 0 /\ c < a) THEN Overflow ELSE Ok(c)

\* Plausible mistake: overflow is taken to show as a change of sign
mul_by_sign(a, b) ==
    LET c == Wrap(a * b) IN IF a > 0 /\ b > 0 /\ c < 0 THEN Overflow ELSE Ok(c)

mul64(a, b) ==
    LET c == Wrap(a * b) IN
    IF a = 0 \/ b = 0 THEN Ok(0) ELSE IF Quo(c, a) # b THEN Overflow ELSE Ok(c)

Engine == [accum |-> 0, cur |-> 0, pending |-> "", lastOp |-> "", lastArg |-> 0,
           entering |-> FALSE, hasErr |-> FALSE]

fail == [Engine EXCEPT !.hasErr = TRUE]

\* A digit that does not fit is ignored
InputDigit(e, d) ==
    LET grown == mul64(e.cur, 10)
        next == IF e.cur >= 0 THEN add64(grown.v, d) ELSE sub64(grown.v, d) IN
    IF ~e.entering THEN [e EXCEPT !.hasErr = FALSE, !.cur = d, !.entering = TRUE]
    ELSE IF ~grown.ok \/ ~next.ok THEN [e EXCEPT !.hasErr = FALSE]
    ELSE [e EXCEPT !.hasErr = FALSE, !.cur = next.v]

Backspace(e) ==
    IF ~e.entering THEN e
    ELSE [e EXCEPT !.cur = Quo(@, 10), !.entering = Quo(e.cur, 10) # 0]

evalBinary(e, op, a, b) ==
    LET r == CASE op = "+" -> add64(a, b)
               [] op = "-" -> sub64(a, b)
               [] op = "*" -> mul64(a, b)
               [] op = "/" -> IF b = 0 \/ (a = minI64 /\ b = -1) THEN Overflow ELSE Ok(Quo(a, b)) IN
    IF ~r.ok THEN fail
    ELSE [e EXCEPT !.cur = r.v, !.accum = r.v, !.pending = "", !.entering = FALSE,
                   !.lastOp = IF e.pending # "" THEN op ELSE @,
                   !.lastArg = IF e.pending # "" THEN b ELSE @]

\* Evaluate: the pending operation, else the last one again
Evaluate(e) ==
    IF e.hasErr THEN e
    ELSE IF e.pending # "" THEN evalBinary(e, e.pending, e.accum, e.cur)
    ELSE IF e.lastOp # "" THEN evalBinary(e, e.lastOp, e.cur, e.lastArg) ELSE e

SetOp(e, op) ==
    LET f == IF e.entering THEN Evaluate(e) ELSE e IN
    IF e.hasErr \/ f.hasErr THEN f
    ELSE [f EXCEPT !.accum = f.cur, !.pending = op, !.entering = FALSE]

\* Display: the number, or the error
Display(e) == IF e.hasErr THEN <<>> ELSE <<e.cur>>

-----------------------------------------------------------------------------
(* The keys: main.go.  Of the expression line only the digits it ends in     *)
(* matter; file is the last result published.  A key is typed or clicked.    *)

doDigit(c, d) ==
    [c EXCEPT !.eng = InputDigit(@, d), !.just = FALSE, !.tail = (IF c.just THEN 0 ELSE @) + 1]

doOp(c, op) == [c EXCEPT !.eng = SetOp(@, op), !.just = FALSE, !.tail = 0]

\* doEval publishes the line and its result; a refused write leaves the file
doEval(c, written) ==
    LET e == Evaluate(c.eng) IN
    [c EXCEPT !.eng = e, !.just = TRUE, !.file = IF written THEN Display(e) ELSE @]

doClear(c) == [c EXCEPT !.eng = Engine, !.tail = 0, !.just = FALSE]

\* The line loses its last digit, if it ends in one
doBackspace(c) ==
    IF ~c.eng.entering THEN c
    ELSE [c EXCEPT !.eng = Backspace(@), !.tail = IF @ > 0 THEN @ - 1 ELSE 0]

calcInit == calc = [eng |-> Engine, tail |-> 0, just |-> FALSE, file |-> <<>>, keys |-> 0]

CalcKey(c) == calc.keys < MaxCalcKeys /\ calc' = [c EXCEPT !.keys = @ + 1]

PressDigit == \E d \in CalcDigits : CalcKey(doDigit(calc, d))

PressOp == \E op \in CalcOps : CalcKey(doOp(calc, op))

PressEval == \E written \in BOOLEAN : CalcKey(doEval(calc, written))

PressClear == CalcKey(doClear(calc))

PressBackspace == CalcKey(doBackspace(calc))

calcNext == PressDigit \/ PressOp \/ PressEval \/ PressClear \/ PressBackspace

calcSpec == calcInit /\ [][calcNext]_calc

-----------------------------------------------------------------------------
(* Properties *)

Exact(op, a, b) ==
    CASE op = "+" -> a + b [] op = "-" -> a - b [] op = "*" -> a * b
      [] op = "/" -> IF b = 0 THEN maxI64 + 1
                     ELSE LET q == (IF a < 0 THEN -a ELSE a) \div (IF b < 0 THEN -b ELSE b) IN
                          IF (a < 0) # (b < 0) THEN -q ELSE q

\* Whatever keys were pressed, "=" would show the exact result of the operation
\* it performs when that fits the engine's integers, and ERROR when it does not
\* (the overflow tests of add64, sub64 and mul64, and a repeated "=").
CalcExact ==
    LET e == calc.eng
        op == IF e.pending # "" THEN e.pending ELSE e.lastOp
        x == IF e.pending # "" THEN Exact(op, e.accum, e.cur) ELSE Exact(op, e.cur, e.lastArg)
        r == Evaluate(e) IN
    ~e.hasErr /\ op # "" =>
        IF x \in minI64 .. maxI64 THEN ~r.hasErr /\ r.cur = x ELSE r.hasErr

\* A number being typed is one that was typed: never negative, and an error has
\* cleared the chain it came from.
CalcTyped ==
    /\ calc.eng.entering => calc.eng.cur \in 0 .. maxI64
    /\ calc.eng.hasErr => calc.eng = fail

\* The calculator is exact or says ERROR, and types what was typed.
CalcSound == CalcExact /\ CalcTyped
=============================================================================
