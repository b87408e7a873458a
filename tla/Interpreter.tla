----------------------------- MODULE Interpreter -----------------------------
(***************************************************************************)
(* The toy_lang interpreter (src/toy_lang): the objects of a program, the  *)
(* methods that they have and how expressions are evaluated.  Everything   *)
(* that an object asks of another one goes through the MethodContext, and  *)
(* the context may refuse any call, because of a conflict with another     *)
(* peer; the caller must then return at once.                              *)
(*                                                                         *)
(* An object reference is the position of the object in `objects'.  An     *)
(* operation takes a machine and gives one with a value, which is not set  *)
(* if the call was refused or the process has ended.                       *)
(***************************************************************************)
EXTENDS Lexer, Parser

CONSTANT Null

(* A machine: `left' is the number of calls that the context still grants, *)
(* `late' that it was called again after it had refused a call.            *)
NewMachine(grants) ==
  [objects |-> <<>>, output |-> <<>>, transaction_depth_ |-> 0, left |-> grants,
   refused |-> FALSE, late |-> FALSE, crashed |-> FALSE, undefined |-> FALSE]

Value(type, of) == [local_type |-> 0, type |-> type, of |-> of]
Reference(r) == Value("OBJECT_REFERENCE", r)
Unset == Value("UNINITIALIZED", Null)
Empty == Value("EMPTY", Null)

Returns(m, v) == [m |-> m, v |-> v]
Crash(m) == Returns([m EXCEPT !.crashed = TRUE], Unset)

(* The value of a call is used as one of the given type.  The getters of   *)
(* Value end the process if it is of another type.                         *)
Checked(call, type) ==
  IF call.v.type \in {"UNINITIALIZED", type} THEN call ELSE Crash(call.m)
Use(call, type, Continue(_, _)) ==
  IF call.v.type = type THEN Continue(call.m, call.v.of) ELSE Checked(call, type)

-----------------------------------------------------------------------------
(* MethodContext, as fake_engine implements it, with the refusals of the   *)
(* engine: RecordingThread returns false, with the value not set, when the *)
(* call has to be rewound.  Here any call may be the first that is refused.*)
Refuse(m) == Returns([m EXCEPT !.late = @ \/ m.refused, !.refused = TRUE], Unset)

CreateObject(m, object) ==
  Returns([m EXCEPT !.objects = Append(@, object), !.late = @ \/ m.refused],
          Reference(Len(m.objects) + 1))

BeginTransaction(m) ==
  IF m.left = 0 THEN Refuse(m)
  ELSE Returns([m EXCEPT !.left = @ - 1, !.transaction_depth_ = @ + 1], Empty)

EndTransaction(m) ==
  CASE m.left = 0 -> Refuse(m)
    [] m.transaction_depth_ = 0 -> Crash(m)
    [] OTHER -> Returns([m EXCEPT !.left = @ - 1, !.transaction_depth_ = @ - 1], Empty)

RECURSIVE CallMethod(_, _, _, _), Evaluate(_, _, _)

-----------------------------------------------------------------------------
(* The objects (src/toy_lang/zoo) and their methods.                       *)
NoneObject == [kind |-> "NONE"]
BoolObject(b) == [kind |-> "BOOL", b_ |-> b]
IntObject(n) == [kind |-> "INT", n_ |-> n]
StringObject(s) == [kind |-> "STRING", s_ |-> s]
VariableObject(r) == [kind |-> "VARIABLE", object_reference_ |-> r]
ListObject(items) == [kind |-> "LIST", items_ |-> items]
MapObject == [kind |-> "MAP", map_ |-> <<>>]
RangeIteratorObject(limit, start) == [kind |-> "RANGE_ITERATOR", limit_ |-> limit, i_ |-> start]
CodeBlockObject(expression, external_symbols, parameter_symbol_ids, local_symbol_ids) ==
  [kind |-> "CODE_BLOCK", expression_ |-> expression, external_symbols_ |-> external_symbols,
   parameter_symbol_ids_ |-> parameter_symbol_ids, local_symbol_ids_ |-> local_symbol_ids]
FunctionObject(name) == [kind |-> "FUNCTION", name |-> name]

MakeNoneObject(m) == CreateObject(m, NoneObject)
WrapBool(m, b) == CreateObject(m, BoolObject(b))
WrapInt(m, n) == CreateObject(m, IntObject(n))
WrapString(m, s) == CreateObject(m, StringObject(s))
UnwrapBool(m, r) == Checked(CallMethod(m, r, "get_bool", <<>>), "BOOL")
UnwrapInt(m, r) == Checked(CallMethod(m, r, "get_int", <<>>), "INT64")
UnwrapString(m, r) == Checked(CallMethod(m, r, "get_string", <<>>), "STRING")

(* printf("%" PRId64): the digits of n.                                    *)
RECURSIVE Decimal(_)
Decimal(n) ==
  CASE n < 0 -> <<"-">> \o Decimal(-n)
    [] n \in 0..9 -> <<ToString(n)>>
    [] OTHER -> Append(Decimal(n \div 10), ToString(n % 10))

BoolMethod(m, self, method) ==
  CASE method = "get_bool" -> Returns(m, Value("BOOL", self.b_))
    [] method = "get_string" ->
         Returns(m, Value("STRING", IF self.b_ THEN <<"true">> ELSE <<"false">>))
    [] OTHER -> Crash(m)

IntMethod(m, self, method) ==
  CASE method = "get_int" -> Returns(m, Value("INT64", self.n_))
    [] method = "get_string" -> Returns(m, Value("STRING", Decimal(self.n_)))
    [] OTHER -> Crash(m)

StringMethod(m, self, method) ==
  IF method = "get_string" THEN Returns(m, Value("STRING", self.s_)) ELSE Crash(m)

VariableMethod(m, r, self, method, parameters) ==
  CASE method = "get" /\ Len(parameters) = 0 /\ self.object_reference_ # Null ->
         Returns(m, Reference(self.object_reference_))
    [] method = "set" /\ Len(parameters) = 1 ->
         Use(Returns(m, parameters[1]), "OBJECT_REFERENCE", LAMBDA m1, o :
             Returns([m1 EXCEPT !.objects[r].object_reference_ = o], Empty))
    [] OTHER -> Crash(m)

(* Indices wrap around, and count from the end of the list if negative.    *)
CMod(a, b) == IF a >= 0 THEN a % b ELSE -((-a) % b)
TrueMod(a, b) == CMod(CMod(a, b) + b, b)

ListMethod(m, r, self, method, parameters) ==
  CASE method = "length" -> Returns(m, Value("INT64", Len(self.items_)))
    [] method = "get_at" /\ self.items_ # <<>> ->
         Use(Returns(m, parameters[1]), "INT64", LAMBDA m1, index :
             Returns(m1, Reference(self.items_[TrueMod(index, Len(self.items_)) + 1])))
    [] method = "append" ->
         Use(Returns(m, parameters[1]), "OBJECT_REFERENCE", LAMBDA m1, o :
             Returns([m1 EXCEPT !.objects[r].items_ = Append(@, o)], Empty))
    [] method = "get_string" ->
         LET Add(call, i) ==
               Use(call, "STRING", LAMBDA m1, s :
                   Use(UnwrapString(m1, self.items_[i]), "STRING", LAMBDA m2, item :
                       Returns(m2, Value("STRING", (IF i = 1 THEN s ELSE s \o <<" ">>) \o item))))
             items == InTurn(Add, Returns(m, Value("STRING", <<"[">>)),
                               [i \in 1..Len(self.items_) |-> i])
         IN Use(items, "STRING", LAMBDA m1, s : Returns(m1, Value("STRING", Append(s, "]"))))
    [] OTHER -> Crash(m)

MapMethod(m, r, self, method, parameters) ==
  IF parameters = <<>> THEN Crash(m) ELSE
  Use(Returns(m, parameters[1]), "STRING", LAMBDA m1, key :
      CASE method = "is_set" -> Returns(m1, Value("BOOL", key \in DOMAIN self.map_))
        [] method = "get" /\ key \in DOMAIN self.map_ -> Returns(m1, Reference(self.map_[key]))
        [] method = "set" ->
             Use(Returns(m1, parameters[2]), "OBJECT_REFERENCE", LAMBDA m2, o :
                 Returns([m2 EXCEPT !.objects[r].map_ = key :> o @@ @], Empty))
        [] OTHER -> Crash(m1))

RangeIteratorMethod(m, r, self, method) ==
  CASE method = "has_next" /\ self.i_ <= self.limit_ ->
         Returns(m, Value("BOOL", self.i_ < self.limit_))
    [] method = "get_next" /\ self.i_ < self.limit_ ->
         Use(WrapInt(m, self.i_), "OBJECT_REFERENCE", LAMBDA m1, o :
             Returns([m1 EXCEPT !.objects[r].i_ = @ + 1], Reference(o)))
    [] OTHER -> Crash(m)

-----------------------------------------------------------------------------
(* The functions of the language.                                          *)
Parameters(m, list) ==
  LET Add(call, i) ==
        Use(call, "LIST", LAMBDA m1, got :
            Use(CallMethod(m1, list, "get_at", <<Value("INT64", i - 1)>>), "OBJECT_REFERENCE",
                LAMBDA m2, o : Returns(m2, Value("LIST", Append(got, o)))))
  IN Use(CallMethod(m, list, "length", <<>>), "INT64", LAMBDA m1, count :
         InTurn(Add, Returns(m1, Value("LIST", <<>>)), [i \in 1..count |-> i]))

(* eval of a code block with a reference to the list of its parameters.    *)
Eval(m, code_block, parameters, Continue(_, _)) ==
  Use(CallMethod(m, code_block, "eval", <<parameters>>), "OBJECT_REFERENCE", Continue)

GetVariableFunction(m, ps) ==
  IF Len(ps) # 1 THEN Crash(m)
  ELSE Use(CallMethod(m, ps[1], "get", <<>>), "OBJECT_REFERENCE", LAMBDA m1, o : Returns(m1, Reference(o)))

(* A bug to compare with: whether the call was refused is not looked at.   *)
SetWithoutCheck(m, ps) ==
  IF Len(ps) # 2 THEN Crash(m)
  ELSE LET call == CallMethod(m, ps[1], "set", <<Reference(ps[2])>>)
       IN IF call.m.crashed THEN call ELSE MakeNoneObject(call.m)

SetVariableFunction(m, ps) ==
  IF Len(ps) # 2 THEN Crash(m)
  ELSE Use(CallMethod(m, ps[1], "set", <<Reference(ps[2])>>), "EMPTY",
           LAMBDA m1, x : MakeNoneObject(m1))

(* Rounds of a loop, each of which gives whether there is another one.     *)
Loop(m, Step(_)) ==
  Use(Repeat(LAMBDA call : call.v.type = "BOOL" /\ call.v.of, LAMBDA call : Step(call.m),
             Returns(m, Value("BOOL", TRUE))),
      "BOOL", LAMBDA m1, x : MakeNoneObject(m1))
GoesOn(m, x) == Returns(m, Value("BOOL", TRUE))
Ends(m) == Returns(m, Value("BOOL", FALSE))

ForFunction(m, ps) ==
  LET Step(m0) ==
        Use(CallMethod(m0, ps[1], "has_next", <<>>), "BOOL", LAMBDA m1, has_next :
            IF ~has_next THEN Ends(m1)
            ELSE Use(CallMethod(m1, ps[1], "get_next", <<>>), "OBJECT_REFERENCE", LAMBDA m2, item :
                 LET variable == CreateObject(m2, VariableObject(item))
                     list == CreateObject(variable.m, ListObject(<<variable.v.of>>))
                 IN Eval(list.m, ps[2], list.v, GoesOn)))
  IN IF Len(ps) # 2 THEN Crash(m) ELSE Loop(m, Step)

WhileFunction(m, ps) ==
  LET list == CreateObject(m, ListObject(<<>>))
      Step(m0) ==
        Eval(m0, ps[1], list.v, LAMBDA m1, condition_object :
            Use(UnwrapBool(m1, condition_object), "BOOL", LAMBDA m2, condition :
                IF condition THEN Eval(m2, ps[2], list.v, GoesOn) ELSE Ends(m2)))
  IN IF Len(ps) # 2 THEN Crash(m) ELSE Loop(list.m, Step)

IfFunction(m, ps) ==
  IF Len(ps) \notin {2, 3} THEN Crash(m)
  ELSE Use(UnwrapBool(m, ps[1]), "BOOL", LAMBDA m1, condition :
       IF ~condition /\ Len(ps) = 2 THEN MakeNoneObject(m1)
       ELSE LET list == CreateObject(m1, ListObject(<<>>))
            IN Eval(list.m, IF condition THEN ps[2] ELSE ps[3], list.v,
                    LAMBDA m2, o : Returns(m2, Reference(o))))

NotFunction(m, ps) ==
  IF Len(ps) # 1 THEN Crash(m) ELSE Use(UnwrapBool(m, ps[1]), "BOOL", LAMBDA m1, b : WrapBool(m1, ~b))

LessThanFunction(m, ps) ==
  IF Len(ps) # 2 THEN Crash(m)
  ELSE Use(UnwrapInt(m, ps[1]), "INT64", LAMBDA m1, a :
           Use(UnwrapInt(m1, ps[2]), "INT64", LAMBDA m2, b : WrapBool(m2, a < b)))

(* The sum of int64s; what happens when it overflows is undefined.         *)
AddFunction(m, ps) ==
  LET Add(call, p) ==
        Use(call, "INT64", LAMBDA m1, sum :
            Use(UnwrapInt(m1, p), "INT64", LAMBDA m2, number :
                IF sum + number \in (-Int64Max - 1)..Int64Max
                THEN Returns(m2, Value("INT64", sum + number))
                ELSE Returns([m2 EXCEPT !.undefined = TRUE], Unset)))
  IN Use(InTurn(Add, Returns(m, Value("INT64", 0)), ps), "INT64", WrapInt)

RangeFunction(m, ps) ==
  IF Len(ps) # 1 THEN Crash(m)
  ELSE Use(UnwrapInt(m, ps[1]), "INT64", LAMBDA m1, limit :
           IF limit < 0 THEN Crash(m1) ELSE CreateObject(m1, RangeIteratorObject(limit, 0)))

ListFunction(m, ps) == CreateObject(m, ListObject(ps))

LenFunction(m, ps) ==
  IF Len(ps) # 1 THEN Crash(m) ELSE Use(CallMethod(m, ps[1], "length", <<>>), "INT64", WrapInt)

ListAppendFunction(m, ps) ==
  IF Len(ps) # 2 THEN Crash(m)
  ELSE Use(CallMethod(m, ps[1], "append", <<Reference(ps[2])>>), "EMPTY",
           LAMBDA m1, x : MakeNoneObject(m1))

ListGetFunction(m, ps) ==
  IF Len(ps) # 2 THEN Crash(m)
  ELSE Use(UnwrapInt(m, ps[2]), "INT64", LAMBDA m1, index :
           Use(CallMethod(m1, ps[1], "get_at", <<Value("INT64", index)>>), "OBJECT_REFERENCE",
               LAMBDA m2, o : Returns(m2, Reference(o))))

MapIsSetFunction(m, ps) ==
  IF Len(ps) # 2 THEN Crash(m)
  ELSE Use(UnwrapString(m, ps[2]), "STRING", LAMBDA m1, key :
           Use(CallMethod(m1, ps[1], "is_set", <<Value("STRING", key)>>), "BOOL", WrapBool))

MapGetFunction(m, ps) ==
  IF Len(ps) # 2 THEN Crash(m)
  ELSE Use(UnwrapString(m, ps[2]), "STRING", LAMBDA m1, key :
           Use(CallMethod(m1, ps[1], "get", <<Value("STRING", key)>>), "OBJECT_REFERENCE",
               LAMBDA m2, o : Returns(m2, Reference(o))))

MapSetFunction(m, ps) ==
  IF Len(ps) # 3 THEN Crash(m)
  ELSE Use(UnwrapString(m, ps[2]), "STRING", LAMBDA m1, key :
           Use(CallMethod(m1, ps[1], "set", <<Value("STRING", key), Reference(ps[3])>>), "EMPTY",
               LAMBDA m2, x : MakeNoneObject(m2)))

PrintFunction(m, ps) ==
  LET Add(call, i) ==
        Use(call, "EMPTY", LAMBDA m1, x :
            Use(UnwrapString([m1 EXCEPT !.output = IF i = 1 THEN @ ELSE Append(@, " ")], ps[i]), "STRING",
                LAMBDA m2, s : Returns([m2 EXCEPT !.output = @ \o s], Empty)))
  IN Use(InTurn(Add, Returns(m, Empty), [i \in 1..Len(ps) |-> i]), "EMPTY",
         LAMBDA m1, x : MakeNoneObject([m1 EXCEPT !.output = Append(@, "\n")]))

BeginTranFunction(m, ps) ==
  IF Len(ps) # 0 THEN Crash(m)
  ELSE Use(BeginTransaction(m), "EMPTY", LAMBDA m1, x : MakeNoneObject(m1))

EndTranFunction(m, ps) ==
  IF Len(ps) # 0 THEN Crash(m)
  ELSE Use(EndTransaction(m), "EMPTY", LAMBDA m1, x : MakeNoneObject(m1))

Call(m, name, ps) ==
  CASE name = "get" -> GetVariableFunction(m, ps)
    [] name = "set" -> SetVariableFunction(m, ps)
    [] name = "for" -> ForFunction(m, ps)
    [] name = "while" -> WhileFunction(m, ps)
    [] name = "list" -> ListFunction(m, ps)
    [] name = "range" -> RangeFunction(m, ps)
    [] name = "print" -> PrintFunction(m, ps)
    [] name = "add" -> AddFunction(m, ps)
    [] name = "begin_tran" -> BeginTranFunction(m, ps)
    [] name = "end_tran" -> EndTranFunction(m, ps)
    [] name = "if" -> IfFunction(m, ps)
    [] name = "not" -> NotFunction(m, ps)
    [] name = "lt" -> LessThanFunction(m, ps)
    [] name = "len" -> LenFunction(m, ps)
    [] name = "list.append" -> ListAppendFunction(m, ps)
    [] name = "list.get" -> ListGetFunction(m, ps)
    [] name = "map.is_set" -> MapIsSetFunction(m, ps)
    [] name = "map.get" -> MapGetFunction(m, ps)
    [] name = "map.set" -> MapSetFunction(m, ps)

FunctionMethod(m, self, method, parameters) ==
  IF method # "call" THEN Crash(m)
  ELSE LET got == Use(Returns(m, parameters[1]), "OBJECT_REFERENCE", Parameters)
       IN Use(got, "LIST", LAMBDA m1, ps : Call(m1, self.name, ps))

-----------------------------------------------------------------------------
(* The expressions, evaluated where the symbols are bound to objects.      *)
EvaluateExpressionList(m, symbol_bindings, expressions) ==
  LET Add(call, expression) ==
        Use(call, "LIST", LAMBDA m1, got :
            Use(Evaluate(m1, symbol_bindings, expression), "OBJECT_REFERENCE",
                LAMBDA m2, o : Returns(m2, Value("LIST", Append(got, o)))))
  IN Use(InTurn(Add, Returns(m, Value("LIST", <<>>)), expressions), "LIST",
         LAMBDA m1, items : CreateObject(m1, ListObject(items)))

EvaluateFunctionCall(m, symbol_bindings, e) ==
  LET function == Evaluate(m, symbol_bindings, e.function_)
      list == Use(function, "OBJECT_REFERENCE", LAMBDA m1, f :
                  EvaluateExpressionList(m1, symbol_bindings, e.parameters_))
      result == Use(list, "OBJECT_REFERENCE", LAMBDA m2, l :
                    CallMethod(m2, function.v.of, "call", <<Reference(l)>>))
  IN Use(result, "OBJECT_REFERENCE", LAMBDA m3, o : Returns(m3, Reference(o)))

EvaluateSymbol(m, symbol_bindings, e) ==
  IF e.symbol_id_ \in DOMAIN symbol_bindings
  THEN Returns(m, Reference(symbol_bindings[e.symbol_id_])) ELSE Crash(m)

EvaluateBlock(m, symbol_bindings, e) ==
  CreateObject(m, CodeBlockObject(e.expression_, symbol_bindings,
                                  e.parameter_symbol_ids_, e.local_symbol_ids_))

Evaluate(m, symbol_bindings, e) ==
  CASE e.kind = "INT" -> WrapInt(m, e.n_)
    [] e.kind = "STRING" -> WrapString(m, e.s_)
    [] e.kind = "SYMBOL" -> EvaluateSymbol(m, symbol_bindings, e)
    [] e.kind = "BLOCK" -> EvaluateBlock(m, symbol_bindings, e)
    [] e.kind = "FUNCTION_CALL" -> EvaluateFunctionCall(m, symbol_bindings, e)
    [] e.kind = "LIST" -> EvaluateExpressionList(m, symbol_bindings, e.list_items_)

(* unordered_map::emplace, which must insert.                              *)
Bind(m, symbol_bindings, ids, objects) ==
  IF IsInjective(ids) /\ Range(ids) \cap DOMAIN symbol_bindings = {}
  THEN Returns(m, Value("MAP", symbol_bindings @@ [id \in Range(ids) |->
                                   objects[CHOOSE i \in DOMAIN ids : ids[i] = id]]))
  ELSE Crash(m)

NewVariables(m, ids) == InTurn(LAMBDA n, id : CreateObject(n, VariableObject(Null)).m, m, ids)

(* CodeBlock::Evaluate: a block is evaluated where it was created, with    *)
(* new local variables every time.                                         *)
EvaluateCodeBlock(m, self, ps) ==
  LET locals == self.local_symbol_ids_
      bound == IF Len(ps) # Len(self.parameter_symbol_ids_) THEN Crash(m)
               ELSE Bind(NewVariables(m, locals), self.external_symbols_,
                         self.parameter_symbol_ids_ \o locals,
                         ps \o [i \in 1..Len(locals) |-> Len(m.objects) + i])
  IN Use(bound, "MAP", LAMBDA m1, symbol_bindings :
         Evaluate(m1, symbol_bindings, self.expression_))

CodeBlockMethod(m, self, method, parameters) ==
  IF method # "eval" THEN Crash(m)
  ELSE LET got == Use(Returns(m, parameters[1]), "OBJECT_REFERENCE", Parameters)
       IN Use(got, "LIST", LAMBDA m1, ps : EvaluateCodeBlock(m1, self, ps))

InvokeMethod(m, r, method, parameters) ==
  LET self == m.objects[r]
  IN CASE self.kind = "NONE" -> Crash(m)
       [] self.kind = "BOOL" -> BoolMethod(m, self, method)
       [] self.kind = "INT" -> IntMethod(m, self, method)
       [] self.kind = "STRING" -> StringMethod(m, self, method)
       [] self.kind = "VARIABLE" -> VariableMethod(m, r, self, method, parameters)
       [] self.kind = "LIST" -> ListMethod(m, r, self, method, parameters)
       [] self.kind = "MAP" -> MapMethod(m, r, self, method, parameters)
       [] self.kind = "RANGE_ITERATOR" -> RangeIteratorMethod(m, r, self, method)
       [] self.kind = "CODE_BLOCK" -> CodeBlockMethod(m, self, method, parameters)
       [] self.kind = "FUNCTION" -> FunctionMethod(m, self, method, parameters)

(* Once a call was refused, so are the calls that it was made from.        *)
CallMethod(m, r, method, parameters) ==
  IF m.left = 0 THEN Refuse(m)
  ELSE LET result == InvokeMethod([m EXCEPT !.left = @ - 1, !.late = @ \/ m.refused],
                                  r, method, parameters)
       IN IF result.m.refused THEN Returns(result.m, Unset) ELSE result

-----------------------------------------------------------------------------
(* ProgramObject and RunToyLangFile: the symbols that a program starts     *)
(* with.  The program sees the visible ones, as variables.                 *)
Hidden == <<"get", "set", "for", "while">>
FunctionNames == <<"list", "range", "print", "add", "begin_tran", "end_tran", "if", "not", "lt", "len",
                   "list.append", "list.get", "map.is_set", "map.get", "map.set">>
External(name, visible, object) == [name |-> <<name>>, visible |-> visible, object |-> object]
ExternalSymbols ==
  [i \in 1..Len(Hidden) |-> External(Hidden[i], FALSE, FunctionObject(Hidden[i]))]
    \o <<External("false", TRUE, BoolObject(FALSE)), External("true", TRUE, BoolObject(TRUE))>>
    \o [i \in 1..Len(FunctionNames) |-> External(FunctionNames[i], TRUE, FunctionObject(FunctionNames[i]))]
    \o <<External("shared", TRUE, MapObject)>>

ResolveExternalSymbol(m, symbol) ==
  LET built_in == CreateObject(m, symbol.object)
  IN IF symbol.visible THEN CreateObject(built_in.m, VariableObject(built_in.v.of)) ELSE built_in

ProgramMethod(m, external_symbols, expression) ==
  LET Resolve(call, symbol) ==
        Use(call, "MAP", LAMBDA m1, symbol_bindings :
            LET object == ResolveExternalSymbol(m1, symbol)
            IN Bind(object.m, symbol_bindings, <<external_symbols[symbol.name]>>, <<object.v.of>>))
  IN Use(BeginTransaction(m), "EMPTY", LAMBDA m1, x :
     Use(InTurn(Resolve, Returns(m1, Value("MAP", <<>>)), ExternalSymbols), "MAP",
         LAMBDA m2, symbol_bindings :
     Use(EndTransaction(m2), "EMPTY", LAMBDA m3, y :
     Use(Evaluate(m3, symbol_bindings, expression), "OBJECT_REFERENCE", LAMBDA m4, code_block :
     LET list == CreateObject(m4, ListObject(<<>>))
     IN Eval(list.m, code_block, list.v, LAMBDA m5, z : Returns(m5, Empty))))))

BuiltInSymbols ==
  InTurn(LAMBDA t, s : AddExternalSymbol(t, s.name, s.visible), NewSymbolTable, ExternalSymbols)
==============================================================================
