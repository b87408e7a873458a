---------------------------- MODULE MCToyLangPeers ----------------------------
(* Programs of a few statements over three names, and some longer ones     *)
(* after those in src/toy_lang/testdata.                                   *)
EXTENDS ToyLangPeers

MCLetters ==
  {"x", "y", "z", "for", "set", "while", "get", "true", "false", "list", "range", "print", "add",
   "begin_tran", "end_tran", "if", "not", "lt", "len", "list.append", "list.get", "map.is_set",
   "map.get", "map.set", "shared"}

x == Name("x")
y == Name("y")
z == Name("z")
Apply(f, es) == Do(Name(f), es)
Write(es) == Apply("print", es)
Upto(n) == Apply("range", <<Num(n)>>)
IfTrue(es) == Apply("if", <<Name("true"), Block(es)>>)
Less(a, b) == Apply("lt", <<a, b>>)
Plus(a, b) == Apply("add", <<a, b>>)

-----------------------------------------------------------------------------
(* Names: every order of setting, shadowing and printing two variables in  *)
(* and outside of blocks.                                                  *)
Simples == {Set("x", Num(1)), Set("x", y), Set("y", x), Set("x", Plus(x, Num(-2))), Write(<<x>>)}
Blocks == UNION {{IfTrue(<<s>>), For("x", Upto(2), <<s>>), For("y", Upto(1), <<s>>)} : s \in Simples}
Scoping ==
  {<<s, t, Write(<<x>>)>> : s \in Simples \cup {Set("y", Num(2))}, t \in Simples \cup Blocks}
    \cup {<<Set("x", Num(3)), Set("y", Num(4)), s, Write(<<x, y>>)>> : s \in Blocks}

(* Types: what functions make of each kind of value.                       *)
Kinds == {Num(2), Str(<<"y">>), Name("true"), Items(<<Num(2), Num(0)>>), Upto(1), Block(<<Num(1)>>),
          Name("shared"), Name("len")}
One == {"range", "print", "not", "len", "if", "begin_tran", "end_tran", "map.get"}
Two == {"list", "add", "lt", "list.append", "list.get", "map.is_set", "if"}
Typing ==
  {<<Apply(f, <<v>>)>> : f \in One, v \in Kinds}
    \cup {<<Set("x", Apply(f, <<v, w>>)), Write(<<x>>)>> : f \in Two, v \in Kinds, w \in Kinds}

(* Lists, maps, loops and transactions.                                    *)
Selected ==
  {<<Set("x", Items(<<Num(5), Num(6), Num(7)>>)), Write(<<Apply("list.get", <<x, Num(n)>>)>>)>> :
     n \in -4..4}
  \cup
  {<<Set("x", Items(<<>>)), Set("y", x), Apply("list.append", <<y, Num(12)>>),
     Write(<<x, Apply("len", <<x>>)>>)>>,
   <<Apply("map.set", <<Name("shared"), Str(<<"x">>), Num(1)>>),
     Apply("map.set", <<Name("shared"), Str(<<"x">>), Num(2)>>),
     Write(<<Apply("map.get", <<Name("shared"), Str(<<"x">>)>>),
             Apply("map.is_set", <<Name("shared"), Str(<<"y">>)>>)>>)>>,
   <<Set("x", Num(0)), While(Less(x, Num(2)), <<Set("x", Plus(x, Num(1))), Write(<<x>>)>>)>>,
   <<Set("x", Num(0)), Set("z", Num(1)),
     For("y", Upto(3), <<Write(<<x>>), Set("list", x), Set("x", z), Set("z", Plus(z, Name("list")))>>)>>,
   <<Set("x", Upto(2)), For("y", x, <<For("z", x, <<Write(<<y, z>>)>>)>>)>>,
   <<Apply("begin_tran", <<>>), Apply("begin_tran", <<>>), Apply("end_tran", <<>>)>>,
   <<Apply("end_tran", <<>>)>>, <<Num(1), Str(<<>>)>>, <<Write(<<Plus(Num(90), Num(20))>>)>>,
   <<Set("x", Block(<<Write(<<y>>)>>)), Set("y", Num(1)), Apply("if", <<Name("true"), x>>)>>,
   <<Set("y", Num(1)), Set("x", Block(<<Write(<<y>>)>>)), Set("y", Num(2)),
     Apply("if", <<Name("false"), x, Block(<<IfTrue(<<Write(<<y>>)>>)>>)>>), Apply("if", <<Name("true"), x>>)>>}

MCPrograms == Scoping \cup Typing \cup Selected

(* Programs that leave one object of every kind.                           *)
MCShared ==
  {<<Write(<<Str(<<"x">>)>>)>>,
   <<Apply("map.set", <<Name("shared"), Str(<<"x">>), Upto(1)>>), Set("x", Items(<<Num(3), Num(3)>>))>>}
AllPrograms == MCPrograms \cup MCShared
MCGrants == 0..40

(* One event of each type, with values of each type, on objects that the   *)
(* receiver has; and one on an object that it has never heard of.          *)
MCTransaction ==
  <<Item(33, BeginTransactionCommittedEvent), Item(33, MethodCallCommittedEvent("call", <<Reference(45)>>)),
    Item(33, SubMethodCallCommittedEvent(<<60, 61>>, 45, "get_at", <<Value("INT64", 0), Empty>>)),
    Item(45, MethodCallCommittedEvent("get_at", <<Value("INT64", 0), Value("BOOL", TRUE)>>)),
    Item(45, SelfMethodCallCommittedEvent(<<62>>, "set", <<Reference(62), Value("STRING", <<"x">>)>>)),
    Item(45, SelfMethodReturnCommittedEvent(<<63>>, Empty)),
    Item(70, MethodCallCommittedEvent("get", <<>>)),
    Item(45, MethodReturnCommittedEvent(<<64, 65>>, Reference(65))),
    Item(33, SubMethodReturnCommittedEvent(Reference(65))),
    Item(33, MethodReturnCommittedEvent(<<>>, Reference(66))), Item(33, EndTransactionCommittedEvent)>>
===============================================================================
