-------------------------------- MODULE Parser --------------------------------
(***************************************************************************)
(* Parser (src/toy_lang/parser.cc): from tokens to expressions, in which   *)
(* the names of the program are numbers.  A parser is the tokens left, the *)
(* symbol table and the expression parsed last; `fatal' is set where the   *)
(* code ends the process, and the rest means nothing then.                 *)
(***************************************************************************)
EXTENDS SymbolTable

(* The expressions (src/toy_lang/expression.h).                            *)
IntExpression(n) == [kind |-> "INT", n_ |-> n]
StringExpression(s) == [kind |-> "STRING", s_ |-> s]
SymbolExpression(symbol_id) == [kind |-> "SYMBOL", symbol_id_ |-> symbol_id]
BlockExpression(expression, parameter_symbol_ids, local_symbol_ids) ==
  [kind |-> "BLOCK", expression_ |-> expression,
   parameter_symbol_ids_ |-> parameter_symbol_ids, local_symbol_ids_ |-> local_symbol_ids]
FunctionCallExpression(function, parameters) ==
  [kind |-> "FUNCTION_CALL", function_ |-> function, parameters_ |-> parameters]
ListExpression(list_items) == [kind |-> "LIST", list_items_ |-> list_items]

-----------------------------------------------------------------------------
NewParser(tokens, symbol_table) ==
  [tokens |-> tokens, symbol_table_ |-> symbol_table, fatal |-> FALSE, parsed |-> IntExpression(0)]

Dies(p) == [p EXCEPT !.fatal = TRUE]
Gives(p, expression) == [p EXCEPT !.parsed = expression]

(* Lexer::PeekNextTokenType and GetNextToken die at the end of the file.   *)
PeekNextTokenType(p) == IF p.tokens = <<>> THEN "END_OF_FILE" ELSE Head(p.tokens).type

Take(p, token_type) ==
  IF ~p.fatal /\ PeekNextTokenType(p) = token_type
  THEN [p EXCEPT !.tokens = Tail(@)] ELSE Dies(p)

WithTable(p, symbol_table) ==
  [p EXCEPT !.symbol_table_ = symbol_table, !.fatal = @ \/ symbol_table.fatal]

(* GetSymbolId: the process ends if there is no such symbol.               *)
SymbolFor(p, symbol_name, visible) ==
  SymbolExpression(PrivateGetSymbolId(p.symbol_table_, symbol_name, visible))
KnownOrDies(p, symbol_name, visible) ==
  IF PrivateGetSymbolId(p.symbol_table_, symbol_name, visible) >= 0 THEN p ELSE Dies(p)

CallBuiltIn(p, name, parameters) ==
  Gives(KnownOrDies(p, name, FALSE),
        FunctionCallExpression(SymbolFor(p, name, FALSE), parameters))

LeaveScopeWith(p, expression) ==
  IF p.fatal \/ p.symbol_table_.scopes_ = <<>> THEN Dies(p)
  ELSE LET scope == Last(p.symbol_table_.scopes_)
       IN Gives(WithTable(p, LeaveScope(p.symbol_table_)),
                BlockExpression(expression, scope.parameter_symbol_ids, scope.local_symbol_ids))

-----------------------------------------------------------------------------
RECURSIVE ParseExpression(_), ParseExpressionsUntil(_, _, _)

ParseIntLiteral(p) == Gives(Take(p, "INT_LITERAL"), IntExpression(Head(p.tokens).int_attribute))

ParseStringLiteral(p) ==
  Gives(Take(p, "STRING_LITERAL"), StringExpression(Head(p.tokens).string_attribute))

ParseIdentifier(p) ==
  LET identifier == Head(p.tokens).string_attribute
  IN CallBuiltIn(KnownOrDies(Take(p, "IDENTIFIER"), identifier, TRUE), <<"get">>,
                 <<SymbolFor(p, identifier, TRUE)>>)

(* The expressions up to the token that ends the list.                     *)
ParseExpressionList(p, end_token_type) == ParseExpressionsUntil(p, end_token_type, <<>>)

ParseBlock(p, parameter_names) ==
  LET begun == Take(p, "BEGIN_BLOCK")
      inside == WithTable(begun, EnterScope(begun.symbol_table_, parameter_names))
      body == ParseExpressionList(inside, "END_BLOCK")
      block == LeaveScopeWith(body.parser, ListExpression(body.expressions))
  IN Take(block, "END_BLOCK")

ParseList(p) ==
  LET items == ParseExpressionList(Take(p, "BEGIN_LIST"), "END_LIST")
  IN Gives(Take(items.parser, "END_LIST"), ListExpression(items.expressions))

(* The name after a keyword, which must be an identifier.                  *)
NameAfter(p, keyword) ==
  LET rest == Take(p, keyword)
  IN [parser |-> Take(rest, "IDENTIFIER"),
      name |-> IF rest.tokens = <<>> THEN <<>> ELSE Head(rest.tokens).string_attribute]

ParseForStatement(p) ==
  LET identifier == NameAfter(p, "FOR_KEYWORD")
      range == ParseExpression(identifier.parser)
      block == ParseBlock(range, <<identifier.name>>)
  IN CallBuiltIn(block, <<"for">>, <<range.parsed, block.parsed>>)

ParseSetStatement(p) ==
  LET identifier == NameAfter(p, "SET_KEYWORD")
      rhs == ParseExpression(identifier.parser)
      named == WithTable(rhs, GetLocalVariable(rhs.symbol_table_, identifier.name))
  IN CallBuiltIn(named, <<"set">>, <<SymbolFor(named, identifier.name, TRUE), rhs.parsed>>)

ParseWhileStatement(p) ==
  LET begun == Take(p, "WHILE_KEYWORD")
      condition == ParseExpression(WithTable(begun, EnterScope(begun.symbol_table_, <<>>)))
      condition_block == LeaveScopeWith(condition, condition.parsed)
      code_block == ParseBlock(condition_block, <<>>)
  IN CallBuiltIn(code_block, <<"while">>, <<condition_block.parsed, code_block.parsed>>)

ParseFunctionCall(p) ==
  LET function == ParseExpression(p)
      parameters == ParseExpressionList(function, "END_EXPRESSION")
  IN Gives(parameters.parser, FunctionCallExpression(function.parsed, parameters.expressions))

ParseStatement(p) ==
  LET begun == Take(p, "BEGIN_EXPRESSION")
      statement ==
        CASE PeekNextTokenType(begun) = "FOR_KEYWORD" -> ParseForStatement(begun)
          [] PeekNextTokenType(begun) = "SET_KEYWORD" -> ParseSetStatement(begun)
          [] PeekNextTokenType(begun) = "WHILE_KEYWORD" -> ParseWhileStatement(begun)
          [] OTHER -> ParseFunctionCall(begun)
  IN Take(statement, "END_EXPRESSION")

ParseExpression(p) ==
  CASE p.fatal -> p
    [] PeekNextTokenType(p) = "INT_LITERAL" -> ParseIntLiteral(p)
    [] PeekNextTokenType(p) = "STRING_LITERAL" -> ParseStringLiteral(p)
    [] PeekNextTokenType(p) = "IDENTIFIER" -> ParseIdentifier(p)
    [] PeekNextTokenType(p) = "BEGIN_EXPRESSION" -> ParseStatement(p)
    [] PeekNextTokenType(p) = "BEGIN_BLOCK" -> ParseBlock(p, <<>>)
    [] PeekNextTokenType(p) = "BEGIN_LIST" -> ParseList(p)
    [] OTHER -> Dies(p)

ParseExpressionsUntil(p, end_token_type, expressions) ==
  IF p.fatal \/ PeekNextTokenType(p) = end_token_type
  THEN [parser |-> p, expressions |-> expressions]
  ELSE LET next == ParseExpression(p)
       IN ParseExpressionsUntil(next, end_token_type, Append(expressions, next.parsed))

(* HasNextToken is false at the end of the file.                           *)
ParseFile(p) ==
  LET entered == WithTable(p, EnterScope(p.symbol_table_, <<>>))
      list == ParseExpressionsUntil(entered, "END_OF_FILE", <<>>)
  IN LeaveScopeWith(list.parser, ListExpression(list.expressions))
===============================================================================
