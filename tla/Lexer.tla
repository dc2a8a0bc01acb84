------------------------------- MODULE Lexer -------------------------------
(***************************************************************************)
(* tokenizer of src/infixExpr/Token.h, one token at a time.  A text is a   *)
(* sequence of characters; a position is the index of the next one to      *)
(* read, as in StringReadStream.                                           *)
(***************************************************************************)
EXTENDS Integers, Sequences, FiniteSetsExt

Txt == INSTANCE Text WITH WordBits <- 32

CONSTANT Symbols   \* the SymbolTable: a record with a type for each name

DigitChars == <<"0", "1", "2", "3", "4", "5", "6", "7", "8", "9">>
LowerChars == <<"a", "b", "c", "d", "e", "f", "g", "h", "i", "j", "k", "l", "m",
                "n", "o", "p", "q", "r", "s", "t", "u", "v", "w", "x", "y", "z">>
UpperChars == <<"A", "B", "C", "D", "E", "F", "G", "H", "I", "J", "K", "L", "M",
                "N", "O", "P", "Q", "R", "S", "T", "U", "V", "W", "X", "Y", "Z">>
CharsOf(table) == {table[i] : i \in DOMAIN table}
Digit == CharsOf(DigitChars)
NumeralChar == Digit \cup CharsOf(LowerChars)
NameStart == CharsOf(LowerChars) \cup CharsOf(UpperChars) \cup {"_"}

DigitValue(c) == (CHOOSE i \in 1 .. 36 : (DigitChars \o LowerChars)[i] = c) - 1
ToLower(c) == IF c \in CharsOf(UpperChars)
              THEN LowerChars[CHOOSE i \in 1 .. 26 : UpperChars[i] = c] ELSE c

(* At the end the stream peeks and gets zeros, and does not move.          *)
End == "end"
Peek(text, i) == IF i > Len(text) THEN End ELSE text[i]
Past(text, i) == Min({i, Len(text) + 1})

(* skipWhiteChar takes the end of the text for a blank.                    *)
Blank == {" ", End}

(* The first position from i on whose character is not in chars.           *)
Behind(text, i, chars) ==
  Min({Len(text) + 1} \cup {k \in i .. Len(text) : text[k] \notin chars})

-----------------------------------------------------------------------------
(* Numerals.  The first character of what follows the first digits is made *)
(* lower case before it is looked at; the ones behind it are not.          *)
RestEnd(text, i) == IF ToLower(Peek(text, i)) \in NumeralChar
                    THEN Behind(text, i + 1, NumeralChar) ELSE i
Rest(text, i) == IF RestEnd(text, i) = i THEN << >>
                 ELSE <<ToLower(text[i])>> \o SubSeq(text, i + 1, RestEnd(text, i) - 1)

(* A leading zero: 0x.. is radix 16, 0DDx.. and 0Dx.. radix DD and D, 0D.. *)
(* octal, and anything else the number zero.                               *)
Prefix(text, i) ==
  LET zero  == text[i] = "0"
      count == IF zero THEN Min({2, Behind(text, i + 1, Digit) - i - 1}) ELSE 0
      ds    == SubSeq(text, i + 1, i + count)
      next  == i + count + 1
      radix == IF count = 0 THEN 16
               ELSE Txt!NumberOf([k \in DOMAIN ds |-> DigitValue(ds[k])], 10)
  IN  IF zero /\ Peek(text, next) = "x"
      THEN [radix |-> radix, lead |-> << >>, rest |-> Rest(text, next + 1),
            end |-> RestEnd(text, next + 1)]
      ELSE IF zero /\ count = 0
      THEN [radix |-> 10, lead |-> <<"0">>, rest |-> << >>, end |-> next]
      ELSE [radix |-> IF zero THEN 8 ELSE 10,
            lead |-> IF zero THEN ds ELSE <<text[i]>>,
            rest |-> Rest(text, next), end |-> RestEnd(text, next)]

(* Decimals are read past (the hook ignores them), and the loop that reads *)
(* them gets one character too many: the one behind the dot, digit or not, *)
(* and after a digit the next one too, whatever it is.                     *)
DecimalsEnd(text, dot) ==
  IF ToLower(Peek(text, dot + 1)) \in NumeralChar
  THEN Behind(text, Past(text, dot + 3), NumeralChar) ELSE Past(text, dot + 2)

(* literal2Value: fromString of a numeral without a sign, shorter than a   *)
(* block.  An error only if there is no digit at all where one is due.     *)
Literal2Value(numeral, radix) ==
  LET s == [k \in DOMAIN numeral |-> DigitValue(numeral[k])]
  IN  IF s = << >> THEN [ok |-> FALSE, value |-> 0]
      ELSE IF Txt!Significant(s) = << >> THEN [ok |-> TRUE, value |-> 0]
      ELSE Txt!FromChars(Txt!Significant(s), radix)

(* val is the number of a literal, sym the name of a symbol.               *)
Token(type, val, sym) == [type |-> type, val |-> val, sym |-> sym]
Invalid == Token("INVALID", 0, << >>)
Lexed(token, pos, status) == [token |-> token, pos |-> pos, status |-> status]

(* A literal that is no number keeps its type: the error comes later.      *)
LexNumeral(text, i) ==
  LET p      == Prefix(text, i)
      dotted == Peek(text, p.end) = "."
      v      == Literal2Value(p.lead \o p.rest, p.radix)
  IN  IF dotted /\ text[i] = "0" /\ p.end > i + 1
      THEN Lexed(Invalid, p.end, "NOTDEC_BUTREAL")
      ELSE IF p.radix \notin 2 .. 36 THEN Lexed(Invalid, p.end, "RADIX_INVALID")
      ELSE IF ~ v.ok THEN Lexed(Token("LITERAL", 0, << >>), p.end, "LITERAL2NUM_ERROR")
      ELSE Lexed(Token("LITERAL", v.value, << >>),
                 IF dotted /\ text[i] # "0" THEN DecimalsEnd(text, p.end) ELSE p.end, "none")

(* A registered name may stand for nothing (the variant's first case).     *)
LexName(text, i) ==
  LET end  == Behind(text, i, NameStart \cup Digit)
      name == SubSeq(text, i, end - 1)
  IN  IF name \notin DOMAIN Symbols THEN Lexed(Invalid, end, "SYMBOL_UNDEFINED")
      ELSE IF Symbols[name].type = "INVALID" THEN Lexed(Invalid, end, "BUILTIN_SYMBOL_INVALID")
      ELSE Lexed(Token(Symbols[name].type, 0, name), end, "none")

-----------------------------------------------------------------------------
(* Operators of one and two characters; a longer one is preferred.         *)
OneChar == [c \in {"+", "-", "*", "/", "%", "!", "&", "|", "^", "~", ">", "<",
                   "(", ")", ",", "?", ":"} |->
  CASE c = "+" -> "ADD" [] c = "-" -> "SUB" [] c = "*" -> "MUL" [] c = "/" -> "DIV"
    [] c = "%" -> "MOD" [] c = "!" -> "FACT" [] c = "&" -> "AND" [] c = "|" -> "OR"
    [] c = "^" -> "XOR" [] c = "~" -> "NOT" [] c = ">" -> "GT" [] c = "<" -> "LT"
    [] c = "(" -> "LEFTBRACKET" [] c = ")" -> "RIGHTBRACKET" [] c = "," -> "COMMA"
    [] c = "?" -> "QMARK" [] c = ":" -> "COLON"]
TwoChars == [p \in {<<"*", "*">>, <<"!", "=">>, <<">", ">">>, <<">", "=">>,
                    <<"<", "<">>, <<"<", "=">>, <<"=", "=">>} |->
  CASE p = <<"*", "*">> -> "POW" [] p = <<"!", "=">> -> "NEQU"
    [] p = <<">", ">">> -> "SHIFTRIGHT" [] p = <<">", "=">> -> "GE"
    [] p = <<"<", "<">> -> "SHIFTLEFT" [] p = <<"<", "=">> -> "LE"
    [] p = <<"=", "=">> -> "EQU"]

LexOperator(text, i) ==
  LET pair == <<text[i], Peek(text, i + 1)>>
  IN  IF pair \in DOMAIN TwoChars THEN Lexed(Token(TwoChars[pair], 0, << >>), i + 2, "none")
      ELSE IF text[i] \in DOMAIN OneChar THEN Lexed(Token(OneChar[text[i]], 0, << >>), i + 1, "none")
      ELSE Lexed(Invalid, i + 1, IF text[i] = "=" THEN "EQU_INVALID" ELSE "CHAR_INVALID")

(* The token that starts at i, which is not blank, the position behind it, *)
(* and the error that ends the tokenizer, if any.                          *)
NextToken(text, i) == IF text[i] \in Digit THEN LexNumeral(text, i)
                      ELSE IF text[i] \in NameStart THEN LexName(text, i)
                      ELSE LexOperator(text, i)
=============================================================================
