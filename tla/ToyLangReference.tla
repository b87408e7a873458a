--------------------------- MODULE ToyLangReference ---------------------------
(***************************************************************************)
(* What a toy_lang program means, in terms of its source: names, lexical   *)
(* scopes and values, without symbol numbers, objects that call each other *)
(* or a method context.  The interpreter of src/toy_lang is compared with  *)
(* this; none of it is translated from the code.                           *)
(*                                                                         *)
(* `set' assigns to the variable of that name if there is one in sight,    *)
(* and otherwise makes one that the rest of the block sees.  A block sees  *)
(* what was in sight where it was written, and its value is the list of    *)
(* the values in it.                                                       *)
(***************************************************************************)
EXTENDS Lexer

(* Programs.                                                               *)
Num(n) == [k |-> "int", n |-> n]
Str(s) == [k |-> "str", s |-> s]
Name(x) == [k |-> "name", x |-> x]
Items(es) == [k |-> "list", es |-> es]
Block(es) == [k |-> "block", es |-> es]
Do(f, es) == [k |-> "call", f |-> f, es |-> es]
Set(x, e) == [k |-> "set", x |-> x, e |-> e]
For(x, e, es) == [k |-> "for", x |-> x, e |-> e, es |-> es]
While(e, es) == [k |-> "while", e |-> e, es |-> es]

(* The tokens of a program, and a text for them.                           *)
RECURSIVE Tokens(_)
TokensOf(es) == FlattenSeq([i \in DOMAIN es |-> Tokens(es[i])])
Within(open, tokens, close) == <<Simple(open)>> \o tokens \o <<Simple(close)>>
Statement(tokens) == Within("BEGIN_EXPRESSION", tokens, "END_EXPRESSION")
Braces(es) == Within("BEGIN_BLOCK", TokensOf(es), "END_BLOCK")
Tokens(e) ==
  CASE e.k = "int" -> <<IntLiteral(e.n)>>
    [] e.k = "str" -> <<StringLiteral(e.s)>>
    [] e.k = "name" -> <<Identifier(<<e.x>>)>>
    [] e.k = "list" -> Within("BEGIN_LIST", TokensOf(e.es), "END_LIST")
    [] e.k = "block" -> Braces(e.es)
    [] e.k = "call" -> Statement(Tokens(e.f) \o TokensOf(e.es))
    [] e.k = "set" -> Statement(<<Simple("SET_KEYWORD"), Identifier(<<e.x>>)>> \o Tokens(e.e))
    [] e.k = "for" ->
         Statement(<<Simple("FOR_KEYWORD"), Identifier(<<e.x>>)>> \o Tokens(e.e) \o Braces(e.es))
    [] e.k = "while" -> Statement(<<Simple("WHILE_KEYWORD")>> \o Tokens(e.e) \o Braces(e.es))

RECURSIVE DigitsOf(_)
DigitsOf(n) == CASE n < 0 -> <<"-">> \o DigitsOf(-n)
                 [] n < 10 -> <<ToString(n)>>
                 [] OTHER -> Append(DigitsOf(n \div 10), ToString(n % 10))

Spelling(token) ==
  CASE token.type = "INT_LITERAL" -> DigitsOf(token.int_attribute)
    [] token.type = "STRING_LITERAL" -> <<"\"">> \o token.string_attribute \o <<"\"">>
    [] token.type = "IDENTIFIER" -> token.string_attribute
    [] token.type \in {"FOR_KEYWORD", "SET_KEYWORD", "WHILE_KEYWORD"} ->
         CHOOSE word \in {<<"for">>, <<"set">>, <<"while">>} : Keywords[word] = token.type
    [] OTHER -> <<CHOOSE c \in Openers \cup Closers : Brackets[c] = token.type>>

(* Spaces everywhere, only where two tokens would run together, or a       *)
(* comment between any two tokens.                                         *)
Styles == {"spaced", "tight", "commented"}
IsOneOf(token, cs) == token.type \in {Brackets[c] : c \in cs}
Between(style, before, after) ==
  CASE style = "spaced" -> <<" ", "\n">>
    [] style = "tight" -> IF IsOneOf(before, Openers) \/ IsOneOf(after, Closers) THEN <<>> ELSE <<" ">>
    [] style = "commented" -> <<"#", ")", "\"", "\n">>
Text(tokens, style) ==
  FlattenSeq([i \in DOMAIN tokens |->
      (IF i = 1 THEN <<>> ELSE Between(style, tokens[i - 1], tokens[i])) \o Spelling(tokens[i])])

-----------------------------------------------------------------------------
(* The names in sight after an expression; a program that uses a name that *)
(* is not in sight is not run at all.                                      *)
RECURSIVE Sight(_, _)
SightAfter(s, es) == InTurn(Sight, s, es)
Inside(s, names, es) == [s EXCEPT !.ok = SightAfter([s EXCEPT !.names = @ \cup names], es).ok]
Sight(s, e) ==
  CASE e.k \in {"int", "str"} -> s
    [] e.k = "name" -> [s EXCEPT !.ok = @ /\ e.x \in s.names]
    [] e.k = "list" -> SightAfter(s, e.es)
    [] e.k = "block" -> Inside(s, {}, e.es)
    [] e.k = "call" -> SightAfter(Sight(s, e.f), e.es)
    [] e.k = "set" -> LET t == Sight(s, e.e) IN [t EXCEPT !.names = @ \cup {e.x}]
    [] e.k = "for" -> Inside(Sight(s, e.e), {e.x}, e.es)
    [] e.k = "while" -> Inside(Inside(s, {}, <<e.e>>), {}, e.es)

-----------------------------------------------------------------------------
(* Values; lists, maps and ranges can change and are kept in the store, as *)
(* are the variables.                                                      *)
V(t, of) == [t |-> t, of |-> of]
Nothing == V("none", 0)
BuiltIns == {"list", "range", "print", "add", "begin_tran", "end_tran", "if", "not", "lt", "len",
             "list.append", "list.get", "map.is_set", "map.get", "map.set"}

(* A run: the store, the open transactions, the output, and whether the    *)
(* program has stopped with an error.                                      *)
Start == [store |-> <<>>, depth |-> 0, out |-> <<>>, dead |-> FALSE]
Yields(w, env, v) == [w |-> w, env |-> env, v |-> v]
Stop(w, env) == Yields([w EXCEPT !.dead = TRUE], env, Nothing)
New(w, content) == [w EXCEPT !.store = Append(@, content)]
NewAt(w) == Len(w.store) + 1
Made(w, env, t, content) == Yields(New(w, content), env, V(t, NewAt(w)))

RECURSIVE Shown(_, _)
Shown(w, v) ==
  CASE v.t = "int" -> DigitsOf(v.of)
    [] v.t = "str" -> v.of
    [] v.t = "bool" -> IF v.of THEN <<"true">> ELSE <<"false">>
    [] v.t = "list" ->
         LET items == w.store[v.of]
         IN <<"[">> \o FlattenSeq([i \in DOMAIN items |->
              (IF i = 1 THEN <<>> ELSE <<" ">>) \o Shown(w, items[i])]) \o <<"]">>
RECURSIVE CanShow(_, _)
CanShow(w, v) == \/ v.t \in {"int", "str", "bool"}
                 \/ v.t = "list" /\ \A i \in DOMAIN w.store[v.of] : CanShow(w, w.store[v.of][i])

(* Indices wrap around.                                                    *)
ItemAt(items, n) == items[(CHOOSE i \in 1..Len(items) : (n - (i - 1)) % Len(items) = 0)]

RECURSIVE Means(_, _, _)
MeansAll(w, env, es) ==
  InTurn(LAMBDA got, e : IF got.w.dead THEN got
                           ELSE LET one == Means(got.w, got.env, e)
                                IN Yields(one.w, one.env, Append(got.v, one.v)),
           Yields(w, env, <<>>), es)

MeansBlock(w, block, vs) ==
  IF block.t # "block" \/ (block.t = "block" /\ Len(block.of.xs) # Len(vs)) THEN Stop(w, <<>>)
  ELSE LET bound == InTurn(LAMBDA got, i : [w |-> New(got.w, vs[i]),
                                              env |-> block.of.xs[i] :> NewAt(got.w) @@ got.env],
                             [w |-> w, env |-> block.of.env], [i \in DOMAIN vs |-> i])
           body == MeansAll(bound.w, bound.env, block.of.es)
       IN IF body.w.dead THEN body ELSE Made(body.w, <<>>, "list", body.v)

Types(vs) == [i \in DOMAIN vs |-> vs[i].t]

(* The functions, by name and the types of what they are given.            *)
MeansCall(w, env, f, vs) ==
  LET ts == Types(vs)
      At(i) == w.store[vs[i].of]
      Put(i, content) == [w EXCEPT !.store[vs[i].of] = content]
  IN CASE f = "list" -> Made(w, env, "list", vs)
       [] f = "range" /\ ts = <<"int">> -> IF vs[1].of < 0 THEN Stop(w, env)
                                           ELSE Made(w, env, "range", <<0, vs[1].of>>)
       [] f = "print" ->
            IF \A i \in DOMAIN vs : CanShow(w, vs[i])
            THEN Yields([w EXCEPT !.out = @ \o FlattenSeq([i \in DOMAIN vs |->
                          (IF i = 1 THEN <<>> ELSE <<" ">>) \o Shown(w, vs[i])]) \o <<"\n">>],
                        env, Nothing)
            ELSE Stop(w, env)
       [] f = "add" /\ \A i \in DOMAIN ts : ts[i] = "int" ->
            Yields(w, env, V("int", InTurn(LAMBDA sum, v : sum + v.of, 0, vs)))
       [] f = "begin_tran" /\ ts = <<>> -> Yields([w EXCEPT !.depth = @ + 1], env, Nothing)
       [] f = "end_tran" /\ ts = <<>> /\ w.depth > 0 -> Yields([w EXCEPT !.depth = @ - 1], env, Nothing)
       [] f = "if" /\ Len(ts) = 2 /\ ts[1] = "bool" ->
            IF vs[1].of THEN MeansBlock(w, vs[2], <<>>) ELSE Yields(w, env, Nothing)
       [] f = "if" /\ Len(ts) = 3 /\ ts[1] = "bool" ->
            MeansBlock(w, IF vs[1].of THEN vs[2] ELSE vs[3], <<>>)
       [] f = "not" /\ ts = <<"bool">> -> Yields(w, env, V("bool", ~vs[1].of))
       [] f = "lt" /\ ts = <<"int", "int">> -> Yields(w, env, V("bool", vs[1].of < vs[2].of))
       [] f = "len" /\ ts = <<"list">> -> Yields(w, env, V("int", Len(At(1))))
       [] f = "list.append" /\ Len(ts) = 2 /\ ts[1] = "list" ->
            Yields(Put(1, Append(At(1), vs[2])), env, Nothing)
       [] f = "list.get" /\ ts = <<"list", "int">> ->
            IF At(1) = <<>> THEN Stop(w, env) ELSE Yields(w, env, ItemAt(At(1), vs[2].of))
       [] f = "map.is_set" /\ Len(ts) = 2 /\ ts[1] = "map" /\ CanShow(w, vs[2]) ->
            Yields(w, env, V("bool", Shown(w, vs[2]) \in DOMAIN At(1)))
       [] f = "map.get" /\ Len(ts) = 2 /\ ts[1] = "map" /\ CanShow(w, vs[2]) ->
            IF Shown(w, vs[2]) \in DOMAIN At(1) THEN Yields(w, env, At(1)[Shown(w, vs[2])])
            ELSE Stop(w, env)
       [] f = "map.set" /\ Len(ts) = 3 /\ ts[1] = "map" /\ CanShow(w, vs[2]) ->
            Yields(Put(1, Shown(w, vs[2]) :> vs[3] @@ At(1)), env, Nothing)
       [] OTHER -> Stop(w, env)

RECURSIVE MeansFor(_, _, _), MeansWhile(_, _, _)
MeansFor(w, range, block) ==
  IF range.t # "range" THEN Stop(w, <<>>)
  ELSE LET next == w.store[range.of]
       IN IF next[1] = next[2] THEN Yields(w, <<>>, Nothing)
          ELSE LET taken == [w EXCEPT !.store[range.of] = <<next[1] + 1, next[2]>>]
                   body == MeansBlock(taken, block, <<V("int", next[1])>>)
               IN IF body.w.dead THEN body ELSE MeansFor(body.w, range, block)
MeansWhile(w, condition, block) ==
  LET test == Means(w, condition.env, condition.e)
  IN CASE test.w.dead \/ test.v.t # "bool" -> Stop(test.w, <<>>)
       [] ~test.v.of -> Yields(test.w, <<>>, Nothing)
       [] OTHER -> LET body == MeansBlock(test.w, block, <<>>)
                   IN IF body.w.dead THEN body ELSE MeansWhile(body.w, condition, block)

Closure(xs, es, env) == V("block", [xs |-> xs, es |-> es, env |-> env])

Means(w, env, e) ==
  CASE e.k = "int" -> Yields(w, env, V("int", e.n))
    [] e.k = "str" -> Yields(w, env, V("str", e.s))
    [] e.k = "name" -> Yields(w, env, w.store[env[e.x]])
    [] e.k = "block" -> Yields(w, env, Closure(<<>>, e.es, env))
    [] e.k = "list" -> LET all == MeansAll(w, env, e.es)
                       IN IF all.w.dead THEN all ELSE Made(all.w, all.env, "list", all.v)
    [] e.k = "set" -> LET value == Means(w, env, e.e)
                      IN CASE value.w.dead -> value
                           [] e.x \in DOMAIN value.env ->
                                Yields([value.w EXCEPT !.store[value.env[e.x]] = value.v],
                                       value.env, Nothing)
                           [] OTHER -> Yields(New(value.w, value.v),
                                              e.x :> NewAt(value.w) @@ value.env, Nothing)
    [] e.k = "call" -> LET all == MeansAll(w, env, <<e.f>> \o e.es)
                       IN CASE all.w.dead -> all
                            [] all.v[1].t # "function" -> Stop(all.w, all.env)
                            [] OTHER -> LET result == MeansCall(all.w, all.env, all.v[1].of, Tail(all.v))
                                        IN [result EXCEPT !.env = all.env]
    [] e.k = "for" -> LET range == Means(w, env, e.e)
                      IN IF range.w.dead THEN range
                         ELSE [MeansFor(range.w, range.v, Closure(<<e.x>>, e.es, range.env))
                                 EXCEPT !.env = range.env]
    [] e.k = "while" -> [MeansWhile(w, [e |-> e.e, env |-> env], Closure(<<>>, e.es, env))
                           EXCEPT !.env = env]

(* A program starts with the functions, the truth values and an empty map  *)
(* in variables of their names.                                            *)
ReferenceRun(program) ==
  LET named == InSomeOrder(BuiltIns)
      w == [Start EXCEPT !.store = [i \in DOMAIN named |-> V("function", named[i])]
              \o <<V("bool", FALSE), V("bool", TRUE), V("map", Len(named) + 4), <<>>>>]
      env == [x \in BuiltIns |-> CHOOSE i \in DOMAIN named : named[i] = x]
               @@ "false" :> Len(named) + 1 @@ "true" :> Len(named) + 2 @@ "shared" :> Len(named) + 3
  IN IF SightAfter([names |-> DOMAIN env, ok |-> TRUE], program).ok
     THEN MeansAll(w, env, program).w
     ELSE [w EXCEPT !.dead = TRUE]
===============================================================================
