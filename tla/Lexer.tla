-------------------------------- MODULE Lexer --------------------------------
(***************************************************************************)
(* Lexer (src/toy_lang/lexer.cc): the tokens of a toy_lang source file.    *)
(* A text is a sequence of one-character strings.  The lexer reads ahead   *)
(* only as far as the parser asks; the tokens do not depend on that, so    *)
(* here it reads the whole file.  A word of the language, such as a        *)
(* keyword, may stand for its letters as one character.                    *)
(***************************************************************************)
EXTENDS Integers, Sequences, SequencesExt, TLC, Folding

CONSTANTS
  Letters,    \* the characters that isalpha accepts, words among them
  Int64Max    \* the largest int64, scaled down

EndOfFile == "EOF"
Digits == {ToString(i) : i \in 0..9}
Brackets ==
  "(" :> "BEGIN_EXPRESSION" @@ ")" :> "END_EXPRESSION" @@ "[" :> "BEGIN_LIST"
    @@ "]" :> "END_LIST" @@ "{" :> "BEGIN_BLOCK" @@ "}" :> "END_BLOCK"
Openers == {"(", "[", "{"}
Closers == {")", "]", "}"}
IsSpace(c) == c \in {" ", "\n"}
IsIdentifierChar(c) == c \in Letters \cup {".", "_"}

Keywords ==
  <<"for">> :> "FOR_KEYWORD" @@ <<"set">> :> "SET_KEYWORD" @@ <<"while">> :> "WHILE_KEYWORD"

Token(type, int_attribute, string_attribute) ==
  [type |-> type, int_attribute |-> int_attribute, string_attribute |-> string_attribute]
Simple(type) == Token(type, 0, <<>>)
IntLiteral(n) == Token("INT_LITERAL", n, <<>>)
StringLiteral(s) == Token("STRING_LITERAL", 0, s)
Identifier(s) == Token("IDENTIFIER", 0, s)

-----------------------------------------------------------------------------
(* A lexer: `fatal' is set where the code ends the process.                *)
NewLexer == [state_ |-> "START", attribute_ |-> <<>>, tokens_ |-> <<>>, fatal |-> FALSE]

Fatal(l) == [l EXCEPT !.fatal = TRUE]

ChangeState(l, new_state) ==
  IF l.state_ = new_state THEN l ELSE [l EXCEPT !.state_ = new_state, !.attribute_ = <<>>]

Collect(l, c) == [l EXCEPT !.attribute_ = Append(@, c)]

Yield(l, token, new_state) == ChangeState([l EXCEPT !.tokens_ = Append(@, token)], new_state)

YieldBracket(l, c, new_state) == Yield(l, Simple(Brackets[c]), new_state)

(* strtoll on the attribute, which is an optional sign and then digits.    *)
IntOf(attribute) ==
  LET signed == Head(attribute) \in {"+", "-"}
      digits == IF signed THEN Tail(attribute) ELSE attribute
      DigitValue(c) == CHOOSE i \in 0..9 : ToString(i) = c
      magnitude == InTurn(LAMBDA n, c : 10 * n + DigitValue(c), 0, digits)
  IN [valid |-> digits # <<>>, n |-> IF Head(attribute) = "-" THEN -magnitude ELSE magnitude]

YieldIntLiteral(l, new_state) ==
  LET int == IntOf(l.attribute_)
  IN IF int.valid /\ int.n \in (-Int64Max - 1)..Int64Max
     THEN Yield(l, IntLiteral(int.n), new_state)
     ELSE Fatal(l)

YieldStringLiteral(l, new_state) == Yield(l, StringLiteral(l.attribute_), new_state)

YieldIdentifier(l, new_state) ==
  IF l.attribute_ \in DOMAIN Keywords
  THEN Yield(l, Simple(Keywords[l.attribute_]), new_state)
  ELSE Yield(l, Identifier(l.attribute_), new_state)

-----------------------------------------------------------------------------
(* What the lexer does with the next character in each of its states.      *)
InStart(l, c) ==
  CASE c = EndOfFile -> ChangeState(l, "END_OF_FILE")
    [] c = "\"" -> ChangeState(l, "STRING_LITERAL")
    [] c = "#" -> ChangeState(l, "COMMENT")
    [] c \in Openers -> YieldBracket(l, c, "START")
    [] c \in Closers -> YieldBracket(l, c, "END_OF_EXPRESSION")
    [] IsSpace(c) -> l
    [] c \in {"+", "-"} \cup Digits -> Collect(ChangeState(l, "INT_LITERAL"), c)
    [] IsIdentifierChar(c) -> Collect(ChangeState(l, "IDENTIFIER"), c)
    [] OTHER -> Fatal(l)

InComment(l, c) ==
  CASE c = EndOfFile -> ChangeState(l, "END_OF_FILE")
    [] c = "\n" -> ChangeState(l, "START")
    [] OTHER -> l

InIntLiteral(l, c) ==
  CASE c = EndOfFile -> YieldIntLiteral(l, "END_OF_FILE")
    [] c = "#" -> YieldIntLiteral(l, "COMMENT")
    [] c \in Closers ->
         YieldBracket(YieldIntLiteral(l, "END_OF_EXPRESSION"), c, "END_OF_EXPRESSION")
    [] IsSpace(c) -> YieldIntLiteral(l, "START")
    [] c \in Digits -> Collect(l, c)
    [] OTHER -> Fatal(l)

InStringLiteral(l, c) ==
  CASE c = EndOfFile -> Fatal(l)
    [] c = "\"" -> YieldStringLiteral(l, "END_OF_EXPRESSION")
    [] OTHER -> Collect(l, c)

InIdentifier(l, c) ==
  CASE c = EndOfFile -> YieldIdentifier(l, "END_OF_FILE")
    [] c = "#" -> YieldIdentifier(l, "COMMENT")
    [] c \in Closers ->
         YieldBracket(YieldIdentifier(l, "END_OF_EXPRESSION"), c, "END_OF_EXPRESSION")
    [] IsSpace(c) -> YieldIdentifier(l, "START")
    [] IsIdentifierChar(c) -> Collect(l, c)
    [] OTHER -> Fatal(l)

InEndOfExpression(l, c) ==
  CASE c = EndOfFile -> ChangeState(l, "END_OF_FILE")
    [] c = "#" -> ChangeState(l, "COMMENT")
    [] c \in Closers -> YieldBracket(l, c, "END_OF_EXPRESSION")
    [] IsSpace(c) -> ChangeState(l, "START")
    [] OTHER -> Fatal(l)

FetchToken(l, c) ==
  CASE l.fatal -> l
    [] l.state_ = "START" -> InStart(l, c)
    [] l.state_ = "COMMENT" -> InComment(l, c)
    [] l.state_ = "INT_LITERAL" -> InIntLiteral(l, c)
    [] l.state_ = "STRING_LITERAL" -> InStringLiteral(l, c)
    [] l.state_ = "IDENTIFIER" -> InIdentifier(l, c)
    [] l.state_ = "END_OF_EXPRESSION" -> InEndOfExpression(l, c)

FetchTokens(text) == InTurn(FetchToken, NewLexer, Append(text, EndOfFile))
===============================================================================
