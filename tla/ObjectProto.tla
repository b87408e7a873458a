----------------------------- MODULE ObjectProto -----------------------------
(***************************************************************************)
(* How toy_lang objects are written to messages and read back              *)
(* (PopulateObjectProto and LocalObjectImpl in src/toy_lang/zoo, the       *)
(* expressions of src/toy_lang/expression.cc, and the contexts and         *)
(* SerializeLocalObjectToString in src/engine).                            *)
(*                                                                         *)
(* A protocol buffer is a record with the fields that are set.  References *)
(* are written as indices, counted from 0, into a list of the objects that *)
(* the object refers to.  Fails stands for the end of the process.         *)
(***************************************************************************)
EXTENDS Interpreter

CONSTANT StaticBufferSize   \* the size of static_buffer, scaled down

Fails == [kind |-> "FATAL"]

(* The only field of the message, as its type.                             *)
TypeOf(proto, types) ==
  LET set == DOMAIN proto \cap DOMAIN types
  IN IF Cardinality(set) = 1 THEN types[CHOOSE field \in set : TRUE] ELSE "UNKNOWN"

-----------------------------------------------------------------------------
RECURSIVE PopulateExpressionProto(_), ParseExpressionProto(_)

PopulateAll(expressions) == [i \in DOMAIN expressions |-> PopulateExpressionProto(expressions[i])]

PopulateBlockExpression(e) ==
  [expression |-> PopulateExpressionProto(e.expression_),
   parameter_symbol_id |-> e.parameter_symbol_ids_, local_symbol_id |-> e.local_symbol_ids_]

PopulateFunctionCallExpression(e) ==
  [function |-> PopulateExpressionProto(e.function_), parameter |-> PopulateAll(e.parameters_)]

PopulateListExpression(e) == [list_item |-> PopulateAll(e.list_items_)]

PopulateExpressionProto(e) ==
  CASE e.kind = "INT" -> [int_expression |-> [int_value |-> e.n_]]
    [] e.kind = "STRING" -> [string_expression |-> [string_value |-> e.s_]]
    [] e.kind = "SYMBOL" -> [symbol_expression |-> [symbol_id |-> e.symbol_id_]]
    [] e.kind = "BLOCK" -> [block_expression |-> PopulateBlockExpression(e)]
    [] e.kind = "FUNCTION_CALL" -> [function_call_expression |-> PopulateFunctionCallExpression(e)]
    [] e.kind = "LIST" -> [list_expression |-> PopulateListExpression(e)]

GetSerializedExpressionType(proto) ==
  TypeOf(proto, [int_expression |-> "INT", string_expression |-> "STRING",
                 symbol_expression |-> "SYMBOL", block_expression |-> "BLOCK",
                 function_call_expression |-> "FUNCTION_CALL", list_expression |-> "LIST"])

ParseAll(protos) == [i \in DOMAIN protos |-> ParseExpressionProto(protos[i])]

ParseBlockExpressionProto(proto) ==
  BlockExpression(ParseExpressionProto(proto.expression), proto.parameter_symbol_id,
                  proto.local_symbol_id)

ParseFunctionCallExpressionProto(proto) ==
  FunctionCallExpression(ParseExpressionProto(proto.function), ParseAll(proto.parameter))

ParseListExpressionProto(proto) == ListExpression(ParseAll(proto.list_item))

ParseExpressionProto(proto) ==
  LET type == GetSerializedExpressionType(proto)
  IN CASE type = "INT" -> IntExpression(proto.int_expression.int_value)
       [] type = "STRING" -> StringExpression(proto.string_expression.string_value)
       [] type = "SYMBOL" -> SymbolExpression(proto.symbol_expression.symbol_id)
       [] type = "BLOCK" -> ParseBlockExpressionProto(proto.block_expression)
       [] type = "FUNCTION_CALL" ->
            ParseFunctionCallExpressionProto(proto.function_call_expression)
       [] type = "LIST" -> ParseListExpressionProto(proto.list_expression)
       [] OTHER -> Fails

-----------------------------------------------------------------------------
(* SerializationContextImpl: the objects referred to so far.               *)
IndexAfterInsertion(references, r) ==
  IF r \in Range(references)
  THEN [references |-> references, index |-> (CHOOSE i \in DOMAIN references : references[i] = r) - 1]
  ELSE [references |-> Append(references, r), index |-> Len(references) + 1]

GetIndexForObjectReference(references, r) ==
  IF r \in Range(references)
  THEN [references |-> references, index |-> (CHOOSE i \in DOMAIN references : references[i] = r) - 1]
  ELSE [references |-> Append(references, r), index |-> Len(references)]

(* The indices of several references, in order.                            *)
Indices(rs) ==
  InTurn(LAMBDA done, r :
             LET next == GetIndexForObjectReference(done.references, r)
             IN [references |-> next.references, indices |-> Append(done.indices, next.index)],
           [references |-> <<>>, indices |-> <<>>], rs)

(* DeserializationContextImpl.                                             *)
HasObjectReference(references, index) == index \in 0..(Len(references) - 1)
GetObjectReferenceByIndex(references, index) == references[index + 1]

-----------------------------------------------------------------------------
FunctionFields ==
  "get" :> "get_variable_function" @@ "set" :> "set_variable_function" @@ "for" :> "for_function"
    @@ "while" :> "while_function" @@ "list" :> "list_function" @@ "range" :> "range_function"
    @@ "print" :> "print_function" @@ "add" :> "add_function" @@ "lt" :> "less_than_function"
    @@ "begin_tran" :> "begin_tran_function" @@ "end_tran" :> "end_tran_function"
    @@ "if" :> "if_function" @@ "not" :> "not_function" @@ "len" :> "len_function"
    @@ "list.append" :> "list_append_function" @@ "list.get" :> "list_get_function"
    @@ "map.is_set" :> "map_is_set_function" @@ "map.get" :> "map_get_function"
    @@ "map.set" :> "map_set_function"

(* The references of an object in the order in which they are written.     *)
(* The order in a hash table is any order.                                 *)
Keys(object) == InSomeOrder(DOMAIN object.map_)
Symbols(object) == InSomeOrder(DOMAIN object.external_symbols_)
ReferencesOf(object) ==
  CASE object.kind = "VARIABLE" /\ object.object_reference_ # Null -> <<object.object_reference_>>
    [] object.kind = "LIST" -> object.items_
    [] object.kind = "MAP" -> [i \in DOMAIN Keys(object) |-> object.map_[Keys(object)[i]]]
    [] object.kind = "CODE_BLOCK" ->
         [i \in DOMAIN Symbols(object) |-> object.external_symbols_[Symbols(object)[i]]]
    [] OTHER -> <<>>

PopulateCodeBlockProto(object, indices) ==
  [expression |-> PopulateExpressionProto(object.expression_),
   external_symbol |-> [i \in DOMAIN indices |->
                          [symbol_id |-> Symbols(object)[i], object_index |-> indices[i]]],
   parameter_symbol_id |-> object.parameter_symbol_ids_,
   local_symbol_id |-> object.local_symbol_ids_]

PopulateVariableObject(indices) == IF indices = <<>> THEN <<>> ELSE [object_index |-> indices[1]]
PopulateListObject(indices) == [object_index |-> indices]
PopulateMapObject(object, indices) ==
  [entry |-> [i \in DOMAIN indices |-> [key |-> Keys(object)[i], value_object_index |-> indices[i]]]]
PopulateRangeIteratorObject(object) == [limit |-> object.limit_, i |-> object.i_]

PopulateObjectProto(object, indices) ==
  CASE object.kind = "NONE" -> [none_object |-> <<>>]
    [] object.kind = "BOOL" -> [bool_object |-> [value |-> object.b_]]
    [] object.kind = "INT" -> [int_object |-> [value |-> object.n_]]
    [] object.kind = "STRING" -> [string_object |-> [value |-> object.s_]]
    [] object.kind = "VARIABLE" -> [variable_object |-> PopulateVariableObject(indices)]
    [] object.kind = "CODE_BLOCK" ->
         [code_block_object |-> [code_block |-> PopulateCodeBlockProto(object, indices)]]
    [] object.kind = "LIST" -> [list_object |-> PopulateListObject(indices)]
    [] object.kind = "MAP" -> [map_object |-> PopulateMapObject(object, indices)]
    [] object.kind = "RANGE_ITERATOR" ->
         [range_iterator_object |-> PopulateRangeIteratorObject(object)]
    [] object.kind = "FUNCTION" -> FunctionFields[object.name] :> <<>>

(* The size of a message, in units of its repeated fields.                 *)
ByteSize(references) == Len(references) + 1

(* LocalObjectImpl::Serialize: nothing is written if the buffer is too     *)
(* small, but the references are added either way.                         *)
Serialize(object, buffer_size) ==
  LET written == Indices(ReferencesOf(object))
      size == ByteSize(written.indices)
  IN [size |-> size, references |-> written.references,
      data |-> IF size <= buffer_size THEN PopulateObjectProto(object, written.indices) ELSE <<>>]

SerializeLocalObjectToString(object) ==
  LET attempt == Serialize(object, StaticBufferSize)
  IN IF attempt.size <= StaticBufferSize THEN attempt ELSE Serialize(object, attempt.size)

-----------------------------------------------------------------------------
GetSerializedObjectType(proto) ==
  TypeOf(proto, [none_object |-> "NONE", bool_object |-> "BOOL", int_object |-> "INT",
                 string_object |-> "STRING", variable_object |-> "VARIABLE",
                 code_block_object |-> "CODE_BLOCK", list_object |-> "LIST", map_object |-> "MAP",
                 range_iterator_object |-> "RANGE_ITERATOR"]
                  @@ [field \in Range(FunctionFields) |-> field])

ParseVariableProto(proto, references) ==
  VariableObject(IF proto = <<>> THEN Null
                 ELSE GetObjectReferenceByIndex(references, proto.object_index))

ParseListProto(proto, references) ==
  ListObject([i \in DOMAIN proto.object_index |->
                GetObjectReferenceByIndex(references, proto.object_index[i])])

ParseRangeIteratorProto(proto) ==
  IF proto.i > proto.limit THEN Fails ELSE RangeIteratorObject(proto.limit, proto.i)

(* emplace must find every key new.                                        *)
ParseMapProto(entries, references) ==
  LET keys == [i \in DOMAIN entries |-> entries[i].key]
      At(key) == (CHOOSE i \in DOMAIN entries : keys[i] = key)
  IN IF IsInjective(keys)
     THEN [MapObject EXCEPT !.map_ =
             [key \in Range(keys) |->
                GetObjectReferenceByIndex(references, entries[At(key)].value_object_index)]]
     ELSE Fails

ParseCodeBlockProto(proto, references) ==
  LET ids == [i \in DOMAIN proto.external_symbol |-> proto.external_symbol[i].symbol_id]
      At(id) == (CHOOSE i \in DOMAIN ids : ids[i] = id)
  IN IF IsInjective(ids)
     THEN CodeBlockObject(ParseExpressionProto(proto.expression),
                          [id \in Range(ids) |->
                             GetObjectReferenceByIndex(references,
                                                       proto.external_symbol[At(id)].object_index)],
                          proto.parameter_symbol_id, proto.local_symbol_id)
     ELSE Fails

(* The indices in a message.                                               *)
IndicesIn(proto) ==
  LET type == GetSerializedObjectType(proto)
  IN CASE type = "VARIABLE" -> IF proto.variable_object = <<>> THEN {}
                               ELSE {proto.variable_object.object_index}
       [] type = "LIST" -> Range(proto.list_object.object_index)
       [] type = "MAP" -> {entry.value_object_index : entry \in Range(proto.map_object.entry)}
       [] type = "CODE_BLOCK" ->
            {s.object_index : s \in Range(proto.code_block_object.code_block.external_symbol)}
       [] OTHER -> {}

Deserialize(proto, references) ==
  LET type == GetSerializedObjectType(proto)
  IN CASE \E index \in IndicesIn(proto) : ~HasObjectReference(references, index) -> Fails
       [] type = "NONE" -> NoneObject
       [] type = "BOOL" -> BoolObject(proto.bool_object.value)
       [] type = "INT" -> IntObject(proto.int_object.value)
       [] type = "STRING" -> StringObject(proto.string_object.value)
       [] type = "VARIABLE" -> ParseVariableProto(proto.variable_object, references)
       [] type = "CODE_BLOCK" -> ParseCodeBlockProto(proto.code_block_object.code_block, references)
       [] type = "LIST" -> ParseListProto(proto.list_object, references)
       [] type = "MAP" -> ParseMapProto(proto.map_object.entry, references)
       [] type = "RANGE_ITERATOR" -> ParseRangeIteratorProto(proto.range_iterator_object)
       [] type \in Range(FunctionFields) ->
            FunctionObject(CHOOSE name \in DOMAIN FunctionFields : FunctionFields[name] = type)
       [] OTHER -> Fails
===============================================================================
