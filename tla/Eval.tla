-------------------------------- MODULE Eval --------------------------------
(***************************************************************************)
(* eval and peval (src/eval.cpp) from a string to an outcome: the string   *)
(* is split into tokens (Lexer), the tokens are parsed (Parser), and the   *)
(* nodes are evaluated by the callbacks of src/infixExpr/ExprTree.cpp.     *)
(* Integers stand for BigIntegerImpl objects.  How peval's tasks run is    *)
(* the business of PEval; here it is which nodes' values it needs.         *)
(***************************************************************************)
EXTENDS Lexer, Parser, IntegerOps, NodeTree

VARIABLES
  text,    \* the string
  pos,     \* the stream's position in it
  tokens,  \* the tokens so far
  error,   \* the code the tokenizer stopped with, or "none"
  pc,
  parsed,  \* what the parser left
  result   \* the outcome

vars == <<text, pos, tokens, error, pc, parsed, result>>

-----------------------------------------------------------------------------
(* An outcome is a number or a fault: the process exits ("exit"), an       *)
(* exception leaves the function ("throw"), or the behaviour is undefined  *)
(* ("overrun": the parser read behind the tokens; "unregistered": a status *)
(* was set that has no callback; "null": a missing node was evaluated).    *)
Number(n) == [kind |-> "number", num |-> n]
Fault(kind) == [kind |-> kind, num |-> 0]
IsFault(v) == v.kind # "number"

Truth(b) == Number(IF b THEN 1 ELSE 0)
Factorial[n \in Nat] == IF n = 0 THEN 1 ELSE n * Factorial[n - 1]

(* unaryOpEvalCallback.                                                    *)
Unary(op, x) ==
  CASE op = "ADD"  -> Number(x)
    [] op = "SUB"  -> Number(- x)
    [] op = "NOT"  -> Number(-1 - x)
    [] op = "FACT" -> Number(IF x < 0 THEN 0 ELSE Factorial[x])

(* Shifts by a negative number, whose low 64 bits are a huge count.        *)
HugeShiftLeft(x) == IF x = 0 THEN Number(0) ELSE Fault("throw")
HugeShiftRight(x) == Number(IF x < 0 THEN -1 ELSE 0)

(* binOpEvalCallback: division by zero ends the process, a power is a      *)
(* product of y factors, but 0 if y is 0, and MOD has no case.             *)
Binary(op, x, y) ==
  CASE op = "OR"   -> Number(OnBits("or", x, y))
    [] op = "XOR"  -> Number(OnBits("xor", x, y))
    [] op = "AND"  -> Number(OnBits("and", x, y))
    [] op = "EQU"  -> Truth(x = y)
    [] op = "NEQU" -> Truth(x # y)
    [] op = "LT"   -> Truth(x < y)
    [] op = "LE"   -> Truth(x <= y)
    [] op = "GT"   -> Truth(x > y)
    [] op = "GE"   -> Truth(x >= y)
    [] op = "ADD"  -> Number(x + y)
    [] op = "SUB"  -> Number(x - y)
    [] op = "MUL"  -> Number(x * y)
    [] op = "DIV"  -> IF y = 0 THEN Fault("exit") ELSE Number(Quot(x, y))
    [] op = "SHIFTLEFT"  -> IF y < 0 THEN HugeShiftLeft(x) ELSE Number(x * 2 ^ y)
    [] op = "SHIFTRIGHT" -> IF y < 0 THEN HugeShiftRight(x) ELSE Number(x \div 2 ^ y)
    [] op = "POW"  -> Number(IF y = 0 THEN 0 ELSE IF y < 0 THEN 1 ELSE x ^ y)
    [] op = "MOD"  -> Number(0)

(* A registered function: here it adds its arguments up.                   *)
NativeCall(args) == Number(MapThenSumSet(LAMBDA i : args[i], DOMAIN args))

(* builtinFuncEvalCallback sets a status that is in no table when the      *)
(* number of arguments is wrong, before it evaluates them.                 *)
Mismatch(node) == /\ node.op = "BUILTINFUNC"
                  /\ Symbols[node.sym].argCount \notin {-1, Len(node.kids)}

Apply(node, args) ==
  CASE node.op = "BUILTINFUNC" -> NativeCall(args)
    [] node.op # "BUILTINFUNC" /\ Len(args) = 1 -> Unary(node.op, args[1])
    [] node.op # "BUILTINFUNC" /\ Len(args) = 2 -> Binary(node.op, args[1], args[2])

(* The first operand that fails is the outcome of all.                     *)
Strict(node, outcomes) ==
  LET faulty == {i \in DOMAIN outcomes : IsFault(outcomes[i])}
  IN  IF faulty # {} THEN outcomes[Min(faulty)]
      ELSE Apply(node, [i \in DOMAIN outcomes |-> outcomes[i].num])

(* The value of a node, given the values of those it refers to.            *)
Evaluated(values, index) == IF index = Null THEN Fault("null") ELSE values[index]

(* Mutant: the alternatives change places.                                 *)
SelectedOther(values, node, condition) ==
  IF IsFault(condition) THEN condition
  ELSE Evaluated(values, IF condition.num = 0 THEN node.kids[2] ELSE node.kids[3])

(* ifElseNodeEvalCallback evaluates one alternative.                       *)
Selected(values, node, condition) ==
  IF IsFault(condition) THEN condition
  ELSE Evaluated(values, IF condition.num # 0 THEN node.kids[2] ELSE node.kids[3])

OfNode(values, node) ==
  CASE node.op = "LITERAL" -> Number(node.val)
    [] node.op = "BUILTINCONSTANT" -> Number(Symbols[node.sym].val)
    [] node.op = "QMARK" -> Selected(values, node, Evaluated(values, node.kids[1]))
    [] Mismatch(node) -> Fault("unregistered")
    [] OTHER -> Strict(node, [i \in DOMAIN node.kids |-> Evaluated(values, node.kids[i])])

Outcomes(pool) ==
  LET values[n \in 0 .. Count(pool) - 1] == OfNode(values, Get(pool, n)) IN values

(* A null root is reported with the code ~SUCCESS, which nobody registers. *)
Rejected(ts, p) == IF Overrun(ts, p) THEN Fault("overrun") ELSE Fault("unregistered")

EvalOutcome(ts, p) ==
  IF Overrun(ts, p) \/ p.node = Null THEN Rejected(ts, p) ELSE Evaluated(Outcomes(p.pool), p.node)

(* peval follows the operands of every node, and has every node evaluated, *)
(* the alternatives not selected included.  A node that throws breaks no   *)
(* other, but whoever needs its value waits for ever.                      *)
Children(pool) == [n \in 0 .. Count(pool) - 1 |-> Get(pool, n).kids]
HasNull(pool) == \E n \in 0 .. Count(pool) - 1 :
                   \E i \in DOMAIN Get(pool, n).kids : Get(pool, n).kids[i] = Null

(* Mutant: a node that throws leaves a zero behind.                        *)
OfAllNodesOrZero(outcomes, root) ==
  LET kinds == {outcomes[n].kind : n \in DOMAIN outcomes}
  IN  IF "unregistered" \in kinds THEN Fault("unregistered")
      ELSE IF "exit" \in kinds THEN Fault("exit")
      ELSE IF outcomes[root].kind = "throw" THEN Number(0)
      ELSE outcomes[root]

OfAllNodes(outcomes, root) ==
  LET kinds == {outcomes[n].kind : n \in DOMAIN outcomes}
  IN  IF "unregistered" \in kinds THEN Fault("unregistered")
      ELSE IF "exit" \in kinds THEN Fault("exit")
      ELSE IF outcomes[root].kind = "throw" THEN Fault("hang")
      ELSE outcomes[root]

PevalOutcome(ts, p) ==
  IF Overrun(ts, p) \/ p.node = Null THEN Rejected(ts, p)
  ELSE IF HasNull(p.pool) THEN Fault("null")
  ELSE OfAllNodes(Outcomes(p.pool), p.node)

-----------------------------------------------------------------------------
(* The tokenizer's loop goes round until the stream is at its end, but     *)
(* skips blanks before every token without looking whether it is.          *)
Scanning == IF pos > Len(text) THEN "close" ELSE "scan"

Begin(str) ==
  /\ text = str /\ pos = 1 /\ tokens = << >> /\ error = "none"
  /\ pc = Scanning
  /\ parsed = Start /\ result = Number(0)

SkipWhiteChar ==
  /\ pc = "scan" /\ Peek(text, pos) \in Blank
  /\ pos' = Past(text, pos + 1)
  /\ UNCHANGED <<text, tokens, error, pc, parsed, result>>

(* Mutant: the end of the text is seen one character too late.             *)
ReadTokenAtEnd ==
  /\ pc = "scan" /\ Peek(text, pos) \notin Blank
  /\ LET t == NextToken(text, pos)
     IN  /\ tokens' = Append(tokens, t.token)
         /\ pos' = t.pos
         /\ error' = t.status
         /\ pc' = IF t.status # "none" THEN "parse"
                  ELSE IF t.pos > Len(text) + 1 THEN "close" ELSE "scan"
  /\ UNCHANGED <<text, parsed, result>>

ReadToken ==
  /\ pc = "scan" /\ Peek(text, pos) \notin Blank
  /\ LET t == NextToken(text, pos)
     IN  /\ tokens' = Append(tokens, t.token)
         /\ pos' = t.pos
         /\ error' = t.status
         /\ pc' = IF t.status # "none" THEN "parse"
                  ELSE IF t.pos > Len(text) THEN "close" ELSE "scan"
  /\ UNCHANGED <<text, parsed, result>>

(* Mutant: no token behind the last one.                                   *)
CloseSilently ==
  /\ pc = "close"
  /\ pc' = "parse"
  /\ UNCHANGED <<text, tokens, pos, error, parsed, result>>

Close ==
  /\ pc = "close"
  /\ tokens' = Append(tokens, Invalid)
  /\ pc' = "parse"
  /\ UNCHANGED <<text, pos, error, parsed, result>>

(* One step for each call of a function of the parser, and for what it     *)
(* does when a call of its own has returned.                               *)
Parsing(p) ==
  /\ pc = "parse"
  /\ parsed' = p
  /\ UNCHANGED <<text, pos, tokens, error, pc, result>>
Returned(fn) == parsed.at = "return" /\ parsed.calls # << >> /\ Top(parsed).fn = fn

ParseSign ==
  parsed.at = "operand" /\ At(tokens, parsed, Sign) /\ Parsing(CallSign(parsed))
ParsePrim ==
  parsed.at = "operand" /\ ~ At(tokens, parsed, Sign) /\ Parsing(Prim(tokens, parsed))
ParseFuncCall == parsed.at = "arguments" /\ Parsing(FuncCall(tokens, parsed))
ParseArgument == Returned("call") /\ Parsing(Argument(parsed))
ParseBracket == Returned("bracket") /\ Parsing(Bracket(tokens, parsed))
ParsePostfixOp == Returned("postfix") /\ Parsing(PostfixOp(tokens, parsed))
ParseUnaryOp == Returned("sign") /\ Parsing(UnaryOp(tokens, parsed))
ParseBinaryOp == Returned("binary") /\ Parsing(BinaryOp(tokens, parsed))
ParseConditional == Returned("conditional") /\ Parsing(Conditional(tokens, parsed))

Parsed ==
  /\ pc = "parse" /\ parsed.at = "return" /\ parsed.calls = << >>
  /\ pc' = "parsed"
  /\ UNCHANGED <<text, pos, tokens, error, parsed, result>>

Parse == \/ ParseSign \/ ParsePrim \/ ParseFuncCall \/ ParseArgument \/ ParseBracket
         \/ ParsePostfixOp \/ ParseUnaryOp \/ ParseBinaryOp \/ ParseConditional \/ Parsed

Evaluate ==
  /\ pc = "parsed"
  /\ result' = EvalOutcome(tokens, parsed)
  /\ pc' = "eval"
  /\ UNCHANGED <<text, pos, tokens, error, parsed>>

EvaluateInParallel ==
  /\ pc = "parsed"
  /\ result' = PevalOutcome(tokens, parsed)
  /\ pc' = "peval"
  /\ UNCHANGED <<text, pos, tokens, error, parsed>>

Init == \E str \in Seq(STRING) : Begin(str)
Next == SkipWhiteChar \/ ReadToken \/ Close \/ Parse \/ Evaluate \/ EvaluateInParallel

Spec == Init /\ [][Next]_vars

(* The thread goes on: weak fairness of the tokenizer and the parser, with  *)
(* the condition under which one of them changes something written out.    *)
CanParse == pc \in {"close", "parse"} \/ (pc = "scan" /\ pos <= Len(text))
Fairness == []<>(~ CanParse) \/ []<><<CanParse>>_vars

-----------------------------------------------------------------------------
Faults == {"exit", "throw", "overrun", "unregistered", "null", "hang"}
Scanned == pc \in {"parsed", "eval", "peval"}

TypeOK ==
  /\ pos \in 1 .. Len(text) + 1
  /\ pc \in {"scan", "close", "parse", "parsed", "eval", "peval"}
  /\ parsed.node \in Null .. Count(parsed.pool) - 1
  /\ Len(parsed.pool.buf) <= InitBufSize
  /\ parsed.at \in {"operand", "arguments", "return"}
  /\ result.kind \in Faults \cup {"number"}

(* The parser never looks behind the last token (consumeToken does not     *)
(* test the index): there is always one that it does not consume, unless   *)
(* the tokenizer gave up at a numeral, whose token has its type already.   *)
StopsInTime == Scanned /\ Overrun(tokens, parsed) => error = "LITERAL2NUM_ERROR"

(* An error the parser reports is never lost on the way up through calls   *)
(* that go on with the null node of an operand, nor among the arguments.   *)
ErrorsReachTheRoot == Scanned /\ parsed.err => parsed.node = Null

(* What peval assumes of the pool (TreeAssumption of PEval) holds whenever *)
(* there is a root and no operand is missing, across the two buffers.      *)
FillsPoolWithTree ==
  Scanned /\ parsed.node # Null /\ ~ HasNull(parsed.pool) =>
    /\ parsed.node = Count(parsed.pool) - 1
    /\ IsTree(Children(parsed.pool))

(* peval gives no value that eval does not, and the same failures unless   *)
(* there is a conditional, both of whose alternatives it evaluates.        *)
HasChoice(pool) == \E n \in 0 .. Count(pool) - 1 : Get(pool, n).op = "QMARK"
EvalAgrees ==
  pc = "peval" =>
    LET e == EvalOutcome(tokens, parsed)
    IN  /\ result.kind = "number" => e = result
        /\ e.kind = "number" /\ ~ HasChoice(parsed.pool) => result = e

(* The tokenizer and the parser end for every text that does not end in a  *)
(* blank: behind a last blank the tokenizer skips zeros for ever.          *)
EndsInBlank == text # << >> /\ text[Len(text)] = " "
ParsingEnds == ~ EndsInBlank ~> Scanned
=============================================================================
