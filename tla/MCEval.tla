------------------------------- MODULE MCEval -------------------------------
(* Texts for Eval: expressions written out from trees with as few brackets *)
(* as the grammar allows, numerals in all the ways there are to write      *)
(* them, expressions with a word left out, and short strings of anything.  *)
EXTENDS Eval, SequencesExt

CONSTANTS MaxLen, MaxNumeral

VARIABLE origin   \* the tree the text was written from, or NoTree

NoTree == Node("none", << >>)

MCSymbols == [name \in {<<"f">>, <<"g">>, <<"k">>, <<"v">>} |->
  CASE name = <<"f">> -> [type |-> "BUILTINFUNC", argCount |-> -1]
    [] name = <<"g">> -> [type |-> "BUILTINFUNC", argCount |-> 1]
    [] name = <<"k">> -> [type |-> "BUILTINCONSTANT", val |-> 2]
    [] name = <<"v">> -> [type |-> "INVALID"]]

-----------------------------------------------------------------------------
(* The grammar, by the strength of its operators; all associate to the     *)
(* left, but a chain of == and != has to be bracketed.                     *)
Strength(t) ==
  CASE t.op = "QMARK" -> 0
    [] t.op \in {"LITERAL", "BUILTINCONSTANT", "BUILTINFUNC"} -> 12
    [] t.op = "FACT" -> 11
    [] Len(t.kids) = 1 /\ t.op # "FACT" /\ t.op # "BUILTINFUNC" -> 10
    [] t.op = "POW" -> 9
    [] t.op \in {"MUL", "DIV", "MOD"} -> 8
    [] Len(t.kids) = 2 /\ t.op \in {"ADD", "SUB"} -> 7
    [] t.op \in {"SHIFTLEFT", "SHIFTRIGHT"} -> 6
    [] t.op \in {"LT", "LE", "GT", "GE"} -> 5
    [] t.op \in {"EQU", "NEQU"} -> 4
    [] t.op = "AND" -> 3
    [] t.op = "XOR" -> 2
    [] t.op = "OR" -> 1

BinaryOps == UNION {Level[i] : i \in DOMAIN Level}
UnaryOps == {"ADD", "SUB", "NOT", "FACT"}
Symbol(op) == IF \E c \in DOMAIN OneChar : OneChar[c] = op
            THEN <<CHOOSE c \in DOMAIN OneChar : OneChar[c] = op>>
            ELSE CHOOSE p \in DOMAIN TwoChars : TwoChars[p] = op

Chars(digits) == [i \in DOMAIN digits |-> (DigitChars \o LowerChars)[digits[i] + 1]]
Numeral(n, style) ==
  CASE style = "decimal" -> Chars(Txt!ToChars(n, 10))
    [] style = "octal"   -> <<"0">> \o Chars(Txt!ToChars(n, 8))
    [] style = "hex"     -> <<"0", "x">> \o Chars(Txt!ToChars(n, 16))
    [] style = "binary"  -> <<"0", "2", "x", "0">> \o Chars(Txt!ToChars(n, 2))
    [] style = "large"   -> <<"0", "3", "6", "x">> \o Chars(Txt!ToChars(n, 36))

RECURSIVE Words(_, _, _)
Plainly(t, style) ==
  LET w(i, needed) == Words(t.kids[i], needed, style)
  IN  CASE t.op = "LITERAL" -> <<Numeral(t.val, style)>>
        [] t.op = "BUILTINCONSTANT" -> <<t.sym>>
        [] t.op = "BUILTINFUNC" ->
             <<t.sym, <<"(">> >>
             \o FlattenSeq([i \in DOMAIN t.kids |->
                              IF i = 1 THEN w(1, 0) ELSE << <<",">> >> \o w(i, 0)])
             \o << <<")">> >>
        [] t.op = "QMARK" -> w(1, 1) \o << <<"?">> >> \o w(2, 0) \o << <<":">> >> \o w(3, 0)
        [] t.op = "FACT" -> Append(w(1, 11), <<"!">>)
        [] Strength(t) = 10 -> << Symbol(t.op) >> \o w(1, 10)
        [] OTHER -> w(1, IF Strength(t) = 4 THEN 5 ELSE Strength(t)) \o << Symbol(t.op) >>
                    \o w(2, Strength(t) + 1)
Words(t, needed, style) ==
  IF Strength(t) >= needed THEN Plainly(t, style)
  ELSE << <<"(">> >> \o Plainly(t, style) \o << <<")">> >>

Spaced(words) == FlattenSeq([i \in DOMAIN words |->
                               IF i = 1 THEN words[i] ELSE <<" ">> \o words[i]])

-----------------------------------------------------------------------------
Lit(n) == Leaf("LITERAL", << >>, n, << >>)
K == Leaf("BUILTINCONSTANT", << >>, 0, <<"k">>)
Fn(name, args) == Leaf("BUILTINFUNC", args, 0, <<name>>)
Op1(op, t) == Node(op, <<t>>)
Op2(op, l, r) == Node(op, <<l, r>>)
Choose(c, t, e) == Node("QMARK", <<c, t, e>>)

Shallow ==
  {Op1(op, t) : op \in UnaryOps, t \in {Lit(0), K}}
    \cup {Op2(op, Lit(2), Lit(n)) : op \in BinaryOps, n \in 0 .. 1}
    \cup {Choose(Lit(n), Lit(2), K) : n \in 0 .. 1}
    \cup {Fn("f", << >>), Fn("f", <<Lit(1), K>>), Fn("g", <<Lit(1)>>), Fn("g", << >>)}

(* Every operator above, to the left of and to the right of every other.   *)
Deep ==
  UNION {  {Op1(op, t) : op \in UnaryOps}
    \cup {Op2(op, t, Lit(n)) : op \in BinaryOps, n \in {0, 2}}
    \cup {Op2(op, Lit(1), t) : op \in BinaryOps}
    \cup {Choose(t, Lit(1), K), Choose(Lit(0), t, K), Choose(Lit(0), K, t),
          Choose(Lit(1), t, K), Fn("f", <<t, K, t>>), Fn("g", <<t>>), Fn("g", <<t, t>>)}
    : t \in Shallow}

Strings(alphabet) == UNION {[1 .. n -> alphabet] : n \in 0 .. MaxLen}

MCInit ==
  \/ /\ origin \in Shallow \cup Deep
     /\ Begin(Spaced(Words(origin, 0, "decimal")))
  \/ \E n \in 0 .. MaxNumeral, style \in {"octal", "hex", "binary", "large"} :
       /\ origin = Lit(n)
       /\ Begin(Numeral(n, style))
  \/ \E t \in Shallow \cup {Op1("SUB", s) : s \in Shallow} \cup {Fn("f", <<s, K>>) : s \in Shallow} :
       LET words == Words(t, 0, "decimal")
       IN  \E i \in DOMAIN words : /\ origin = NoTree
                                   /\ Begin(Spaced(RemoveAt(words, i)))
  \/ \E alphabet \in {{"1", "+", "*", "!", "=", "<", "(", ")", "?", ":", " ", "f", "g", ",", "v"},
                      {"0", "1", "9", "x", "b", "B", ".", "+", " "}} :
       \E s \in Strings(alphabet) : origin = NoTree /\ Begin(s)

MCNext == Next /\ UNCHANGED origin
MCSpec == MCInit /\ [][MCNext]_<<vars, origin>> /\ Fairness

-----------------------------------------------------------------------------
(* The tree the parser made.                                               *)
RECURSIVE TreeAt(_, _)
TreeAt(pool, index) ==
  LET n == Get(pool, index)
  IN  Leaf(n.op, [i \in DOMAIN n.kids |-> TreeAt(pool, n.kids[i])], n.val, n.sym)

RECURSIVE Merged(_)
Merged(t) == Leaf(IF t.op \in {"LE", "GT", "GE"} THEN "LT" ELSE t.op,
                  [i \in DOMAIN t.kids |-> Merged(t.kids[i])], t.val, t.sym)

(* A text written from a tree is parsed into that tree, to its last token, *)
(* except that the four comparisons are one: precedences, associativity    *)
(* and the radixes of numerals are what they are meant to be.              *)
ParsesBack ==
  Scanned /\ origin # NoTree =>
    /\ TreeAt(parsed.pool, parsed.node) = Merged(origin)
    /\ parsed.pos = Len(tokens) /\ error = "none"

(* What an expression denotes; nothing if it divides by zero, shifts by or *)
(* raises to a negative number, takes the factorial of one, calls a        *)
(* function with too few or too many arguments, or uses an operator that   *)
(* the parser takes for another (<=, >, >=) or the evaluator has no case   *)
(* for (%, and ** with an exponent of zero).                               *)
Undefined == Fault("undefined")
Denoted(op, x, y) ==
  CASE op = "OR"   -> OnBits("or", x, y)
    [] op = "XOR"  -> OnBits("xor", x, y)
    [] op = "AND"  -> OnBits("and", x, y)
    [] op = "EQU"  -> IF x = y THEN 1 ELSE 0
    [] op = "NEQU" -> IF x = y THEN 0 ELSE 1
    [] op = "LT"   -> IF x < y THEN 1 ELSE 0
    [] op = "ADD"  -> x + y
    [] op = "SUB"  -> x - y
    [] op = "MUL"  -> x * y
    [] op = "DIV"  -> Quot(x, y)
    [] op = "POW"  -> x ^ y
    [] op = "SHIFTLEFT"  -> x * 2 ^ y
    [] op = "SHIFTRIGHT" -> x \div 2 ^ y

HasNoValue(op, args) ==
  \/ op \in {"LE", "GT", "GE", "MOD"}
  \/ op = "POW" /\ args[2] <= 0
  \/ op = "DIV" /\ args[2] = 0
  \/ op \in {"SHIFTLEFT", "SHIFTRIGHT"} /\ args[2] < 0
  \/ op = "FACT" /\ args[1] < 0

MeaningOf(t, args) ==
  IF \E i \in DOMAIN args : IsFault(args[i]) THEN Undefined
  ELSE LET nums == [i \in DOMAIN args |-> args[i].num]
       IN  IF t.op = "BUILTINFUNC"
           THEN IF MCSymbols[t.sym].argCount \in {-1, Len(nums)} THEN NativeCall(nums)
                ELSE Undefined
           ELSE IF HasNoValue(t.op, nums) THEN Undefined
           ELSE IF Len(nums) = 2 THEN Number(Denoted(t.op, nums[1], nums[2]))
           ELSE Number(CASE t.op = "ADD"  -> nums[1]
                         [] t.op = "SUB"  -> 0 - nums[1]
                         [] t.op = "NOT"  -> 0 - nums[1] - 1
                         [] t.op = "FACT" -> Factorial[nums[1]])

RECURSIVE Meaning(_)
Meaning(t) ==
  CASE t.op = "LITERAL" -> Number(t.val)
    [] t.op = "BUILTINCONSTANT" -> Number(MCSymbols[t.sym].val)
    [] t.op = "QMARK" ->
         LET c == Meaning(t.kids[1])
         IN  IF IsFault(c) THEN Undefined
             ELSE Meaning(t.kids[IF c.num # 0 THEN 2 ELSE 3])
    [] OTHER -> MeaningOf(t, [i \in DOMAIN t.kids |-> Meaning(t.kids[i])])

(* eval gives what the expression denotes.                                 *)
YieldsMeaning ==
  pc = "eval" /\ origin # NoTree /\ ~ IsFault(Meaning(origin)) => result = Meaning(origin)
=============================================================================
