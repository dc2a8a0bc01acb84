------------------------------- MODULE Parser -------------------------------
(***************************************************************************)
(* ExprParser (src/infixExpr/ExprParser.cpp) and the NodePool it fills     *)
(* (src/infixExpr/ExprTree.cpp).  A parser state p has the index of the    *)
(* next token, the two buffers of the pool, the error flag, the calls that *)
(* have not returned, innermost last, and the node the last function that  *)
(* returned gave: its index in the pool, or Null.                          *)
(***************************************************************************)
EXTENDS Integers, SequencesExt

CONSTANT InitBufSize    \* 32: nodes of the pool that are not in the deque

ASSUME BufAssumption == InitBufSize \in Nat

Null == -1

(* The pool.                                                               *)
EmptyPool == [buf |-> << >>, ex |-> << >>]
Count(pool) == Len(pool.buf) + Len(pool.ex)
Get(pool, index) == IF index < InitBufSize THEN pool.buf[index + 1]
                    ELSE pool.ex[index - InitBufSize + 1]

(* Mutant: one node too many for the array.                                *)
NewNodeLate(pool, node) ==
  IF Count(pool) > InitBufSize THEN [pool EXCEPT !.ex = Append(@, node)]
  ELSE [pool EXCEPT !.buf = Append(@, node)]

NewNode(pool, node) ==
  IF Count(pool) >= InitBufSize THEN [pool EXCEPT !.ex = Append(@, node)]
  ELSE [pool EXCEPT !.buf = Append(@, node)]

(* An operator over operands, or a leaf, or a call (of a symbol).         *)
Leaf(op, kids, val, sym) == [op |-> op, kids |-> kids, val |-> val, sym |-> sym]
Node(op, kids) == Leaf(op, kids, 0, << >>)

(* p goes on behind a new node.                                            *)
Make(p, node) == [p EXCEPT !.pool = NewNode(@, node), !.node = Count(p.pool)]

-----------------------------------------------------------------------------
(* Mutant: shifts bind more than sums.                                     *)
LevelOfShifts == << {"OR"}, {"XOR"}, {"AND"}, {"EQU", "NEQU"}, {"LT", "LE", "GT", "GE"},
  {"ADD", "SUB"}, {"SHIFTLEFT", "SHIFTRIGHT"}, {"MUL", "DIV", "MOD"}, {"POW"} >>

(* The binary operators, weakest first; one function of the parser each.   *)
Level == << {"OR"}, {"XOR"}, {"AND"}, {"EQU", "NEQU"}, {"LT", "LE", "GT", "GE"},
            {"SHIFTLEFT", "SHIFTRIGHT"}, {"ADD", "SUB"}, {"MUL", "DIV", "MOD"}, {"POW"} >>

(* parseEqu's loop returns after its first turn.                           *)
Once(level) == "EQU" \in Level[level]

(* parseCmp makes an LT of each of its four operators.                     *)
Made(op) == IF op \in {"LE", "GT", "GE"} THEN "LT" ELSE op

(* A call that has not returned: its level if it is one for binary         *)
(* operators, the index of the token it has consumed (an operator, or the  *)
(* name of a function), and the operands it has so far.                    *)
Frame(fn, level, tok, held) == [fn |-> fn, level |-> level, tok |-> tok, held |-> held]
Call(p, frame) == [p EXCEPT !.calls = Append(@, frame)]
Top(p) == Last(p.calls)
Held(p) == Append(Top(p).held, p.node)
Hold(p, held) == [p EXCEPT !.calls[Len(p.calls)].held = held]

(* Each level first calls the next, and the last one asks for an operand.  *)
CallLevels(p, first) ==
  [p EXCEPT !.calls = @ \o [i \in 1 .. Len(Level) + 1 - first |->
                              Frame("binary", first + i - 1, 0, << >>)],
            !.at = "operand"]
CallExpr(p) == CallLevels(Call(p, Frame("conditional", 0, 0, << >>)), 1)

(* The parser's members when it is constructed, and parse() called.        *)
Start == CallExpr([pos |-> 1, pool |-> EmptyPool, err |-> FALSE, node |-> Null,
                   calls |-> << >>, at |-> "operand"])

(* Behind the last token there is no token to compare with: see Overrun.   *)
Type(ts, p) == IF p.pos > Len(ts) THEN "none" ELSE ts[p.pos].type
At(ts, p, types) == Type(ts, p) \in types
Consume(p) == [p EXCEPT !.pos = @ + 1]

(* The parser reads tokens[pos] whenever it stops, so that one that ends   *)
(* behind the last token has read past the vector.                         *)
Overrun(ts, p) == p.pos > Len(ts)

(* Something is parsed: the innermost call has its operand, or returns.    *)
Back(p) == [p EXCEPT !.at = "return"]
Return(p) == [p EXCEPT !.calls = Front(@), !.at = "return"]

Nothing(p) == [p EXCEPT !.node = Null]
BadToken(p) == [p EXCEPT !.node = Null, !.err = TRUE]

-----------------------------------------------------------------------------
(* ?:, once the condition, the first and the second alternative is parsed. *)
NextAlternative(ts, p, mark, otherwise) ==
  IF At(ts, p, {mark}) THEN CallExpr(Hold(Consume(p), Held(p))) ELSE Return(otherwise)
AfterOperand(ts, p) ==
  CASE Len(Top(p).held) = 0 -> NextAlternative(ts, p, "QMARK", p)
    [] Len(Top(p).held) = 1 -> NextAlternative(ts, p, "COLON", BadToken(p))
    [] Len(Top(p).held) = 2 -> Make(Return(p), Node("QMARK", Held(p)))

(* Mutant: an error in the condition is passed on.                         *)
ConditionalUnchecked(ts, p) ==
  IF p.err /\ Top(p).held # << >> THEN Return(Nothing(p)) ELSE AfterOperand(ts, p)

Conditional(ts, p) == IF p.err THEN Return(Nothing(p)) ELSE AfterOperand(ts, p)

(* Operand, then as long as there is an operator of this level, another.   *)
BinaryOp(ts, p) ==
  LET f     == Top(p)
      first == f.held = << >>
      left  == IF first THEN Return(p)
               ELSE Make(Return(p), Node(Made(ts[f.tok].type), Held(p)))
  IN  IF At(ts, p, Level[f.level]) /\ (first \/ ~ Once(f.level))
      THEN CallLevels(Call(Consume(left), Frame("binary", f.level, p.pos, <<left.node>>)),
                      f.level + 1)
      ELSE left

Sign == {"ADD", "SUB", "NOT"}
CallSign(p) == Call(Consume(p), Frame("sign", 0, p.pos, << >>))
UnaryOp(ts, p) == Make(Return(p), Node(ts[Top(p).tok].type, <<p.node>>))

PostfixOp(ts, p) == IF At(ts, p, {"FACT"}) THEN Make(Consume(p), Node("FACT", <<p.node>>))
                    ELSE Return(p)

(* parsePrim, called by parsePostfixOp.  A token that can start nothing is *)
(* left alone, and no error.                                               *)
Prim(ts, p) ==
  LET q    == Call(p, Frame("postfix", 0, 0, << >>))
      next == Consume(q)
  IN  CASE At(ts, p, {"LEFTBRACKET"}) -> CallExpr(Call(next, Frame("bracket", 0, p.pos, << >>)))
        [] At(ts, p, {"LITERAL", "BUILTINCONSTANT"}) ->
             Back(Make(next, Leaf(Type(ts, p), << >>, ts[p.pos].val, ts[p.pos].sym)))
        [] At(ts, p, {"BUILTINFUNC"}) ->
             IF At(ts, next, {"LEFTBRACKET"})
             THEN [Call(Consume(next), Frame("call", 0, p.pos, << >>)) EXCEPT !.at = "arguments"]
             ELSE Back(BadToken(next))
        [] OTHER -> Back(Nothing(q))

Bracket(ts, p) == Return(IF At(ts, p, {"RIGHTBRACKET"}) THEN Consume(p) ELSE BadToken(p))

(* parseFuncCall: one more argument, unless the bracket is closed.         *)
FuncCall(ts, p) ==
  LET args == Top(p).held
  IN  IF At(ts, p, {"RIGHTBRACKET"})
      THEN Make(Return(Consume(p)), Leaf("BUILTINFUNC", args, 0, ts[Top(p).tok].sym))
      ELSE IF args = << >> THEN CallExpr(p)
      ELSE IF At(ts, p, {"COMMA"}) THEN CallExpr(Consume(p))
      ELSE Return(BadToken(p))

(* Mutant: every argument takes the place of the one before.               *)
ArgumentAlone(p) == [Hold(p, <<p.node>>) EXCEPT !.at = "arguments"]

Argument(p) == [Hold(p, Held(p)) EXCEPT !.at = "arguments"]
=============================================================================
