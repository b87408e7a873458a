------------------------------ MODULE EventCodec ------------------------------
(***************************************************************************)
(* How the events of a transaction are written to messages by one peer and *)
(* read by another (the conversions of src/engine/transaction_store.cc and *)
(* src/engine/convert_value.cc).  In a peer an object is known by a        *)
(* reference, between peers by the id of its SharedObject.                 *)
(*                                                                         *)
(* A peer is the ids of its references: a reference that has none yet has  *)
(* no SharedObject.  Fails stands for the end of the process.              *)
(***************************************************************************)
EXTENDS ObjectProto

NewPeer(name, references) == [name |-> name, references |-> references, ids |-> <<>>, fatal |-> FALSE]

(* GenerateUuid: an id that no peer has given to anything yet.             *)
GenerateUuid(p) == <<p.name, Cardinality(DOMAIN p.ids)>>

GetSharedObjectForObjectReference(p, r) ==
  IF r \in DOMAIN p.ids THEN p ELSE [p EXCEPT !.ids = r :> GenerateUuid(p) @@ @]

AllShared(p, rs) == InTurn(GetSharedObjectForObjectReference, p, rs)

(* GetOrCreateSharedObject and SharedObject::GetOrCreateObjectReference.   *)
GetOrCreateObjectReference(p, id) ==
  IF id \in Range(p.ids) THEN p
  ELSE [p EXCEPT !.ids = (p.references + 1) :> id @@ @, !.references = @ + 1]

ReferenceTo(p, id) == CHOOSE r \in DOMAIN p.ids : p.ids[r] = id

AllKnown(p, ids) == InTurn(GetOrCreateObjectReference, p, ids)

-----------------------------------------------------------------------------
(* The events (src/engine/committed_event.h); new_objects is in any order. *)
CommittedEvent(type) ==
  [type |-> type, new_objects |-> <<>>, callee |-> Null, method_name |-> "", parameters |-> <<>>,
   return_value |-> Unset, object |-> NoneObject]
ObjectCreationCommittedEvent(object) == [CommittedEvent("OBJECT_CREATION") EXCEPT !.object = object]
BeginTransactionCommittedEvent == CommittedEvent("BEGIN_TRANSACTION")
EndTransactionCommittedEvent == CommittedEvent("END_TRANSACTION")
MethodCallCommittedEvent(method_name, parameters) ==
  [CommittedEvent("METHOD_CALL") EXCEPT !.method_name = method_name, !.parameters = parameters]
MethodReturnCommittedEvent(new_objects, return_value) ==
  [CommittedEvent("METHOD_RETURN") EXCEPT !.new_objects = new_objects, !.return_value = return_value]
SubMethodCallCommittedEvent(new_objects, callee, method_name, parameters) ==
  [CommittedEvent("SUB_METHOD_CALL") EXCEPT !.new_objects = new_objects, !.callee = callee,
     !.method_name = method_name, !.parameters = parameters]
SubMethodReturnCommittedEvent(return_value) ==
  [CommittedEvent("SUB_METHOD_RETURN") EXCEPT !.return_value = return_value]
SelfMethodCallCommittedEvent(new_objects, method_name, parameters) ==
  [CommittedEvent("SELF_METHOD_CALL") EXCEPT !.new_objects = new_objects,
     !.method_name = method_name, !.parameters = parameters]
SelfMethodReturnCommittedEvent(new_objects, return_value) ==
  [CommittedEvent("SELF_METHOD_RETURN") EXCEPT !.new_objects = new_objects,
     !.return_value = return_value]

-----------------------------------------------------------------------------
(* The references in values, which the peer must have shared before it     *)
(* writes them.                                                            *)
ReferencesIn(values) ==
  [i \in DOMAIN SelectSeq(values, LAMBDA v : v.type = "OBJECT_REFERENCE") |->
     SelectSeq(values, LAMBDA v : v.type = "OBJECT_REFERENCE")[i].of]

EnsureSharedObjectsInEventExist(p, e) ==
  CASE e.type \in {"OBJECT_CREATION", "BEGIN_TRANSACTION", "END_TRANSACTION"} ->
         AllShared(p, e.new_objects)
    [] e.type \in {"METHOD_CALL", "SELF_METHOD_CALL"} ->
         AllShared(p, ReferencesIn(e.parameters) \o e.new_objects)
    [] e.type = "SUB_METHOD_CALL" ->
         AllShared(p, <<e.callee>> \o ReferencesIn(e.parameters) \o e.new_objects)
    [] OTHER -> AllShared(p, ReferencesIn(<<e.return_value>>) \o e.new_objects)

EnsureSharedObjectsInTransactionExist(p, events) ==
  InTurn(EnsureSharedObjectsInEventExist, p, events)

-----------------------------------------------------------------------------
ValueTypes ==
  [empty_value |-> "EMPTY", double_value |-> "DOUBLE", float_value |-> "FLOAT",
   int64_value |-> "INT64", uint64_value |-> "UINT64", bool_value |-> "BOOL",
   string_value |-> "STRING", bytes_value |-> "BYTES", object_id |-> "OBJECT_ID"]

FieldFor(type, types) == CHOOSE field \in DOMAIN types : types[field] = type

ConvertValueToValueProto(p, v) ==
  [local_type |-> v.local_type]
    @@ CASE v.type = "OBJECT_REFERENCE" ->
              IF v.of \in DOMAIN p.ids THEN [object_id |-> p.ids[v.of]] ELSE Fails
         [] v.type \in Range(ValueTypes) -> FieldFor(v.type, ValueTypes) :> v.of
         [] OTHER -> Fails

GetValueProtoType(proto) == TypeOf(proto, ValueTypes)

(* The value read from a message, by a peer that knows the id in it.       *)
ConvertValueProtoToValue(p, proto) ==
  LET type == GetValueProtoType(proto)
  IN CASE type = "OBJECT_ID" -> [local_type |-> proto.local_type, type |-> "OBJECT_REFERENCE",
                                 of |-> ReferenceTo(p, proto.object_id)]
       [] type \in Range(ValueTypes) -> [local_type |-> proto.local_type, type |-> type,
                                         of |-> proto[FieldFor(type, ValueTypes)]]
       [] OTHER -> Fails

IdsInValues(protos) ==
  LET objects == SelectSeq(protos, LAMBDA proto : GetValueProtoType(proto) = "OBJECT_ID")
  IN [i \in DOMAIN objects |-> objects[i].object_id]

-----------------------------------------------------------------------------
EventTypes ==
  [object_creation |-> "OBJECT_CREATION", begin_transaction |-> "BEGIN_TRANSACTION",
   end_transaction |-> "END_TRANSACTION", method_call |-> "METHOD_CALL",
   method_return |-> "METHOD_RETURN", sub_method_call |-> "SUB_METHOD_CALL",
   sub_method_return |-> "SUB_METHOD_RETURN", self_method_call |-> "SELF_METHOD_CALL",
   self_method_return |-> "SELF_METHOD_RETURN"]

Ids(p, rs) == [i \in DOMAIN rs |-> p.ids[rs[i]]]

(* The message for an event, and the peer afterwards, which has given ids  *)
(* to the references in a new object.                                      *)
ConvertCommittedEventToEventProto(p, e) ==
  LET serialized == SerializeLocalObjectToString(e.object)
      callee == IF e.type = "SUB_METHOD_CALL" THEN <<e.callee>> ELSE <<>>
      q == AllShared(p, (IF e.type = "OBJECT_CREATION" THEN serialized.references ELSE callee)
                          \o e.new_objects)
      Converted(values) == [i \in DOMAIN values |-> ConvertValueToValueProto(p, values[i])]
      call == [method_name |-> e.method_name, parameter |-> Converted(e.parameters)]
      content ==
        CASE e.type = "OBJECT_CREATION" ->
               [data |-> serialized.data, referenced_object_id |-> Ids(q, serialized.references)]
          [] e.type \in {"BEGIN_TRANSACTION", "END_TRANSACTION"} -> <<>>
          [] e.type \in {"METHOD_CALL", "SELF_METHOD_CALL"} -> call
          [] e.type = "SUB_METHOD_CALL" -> [callee_object_id |-> q.ids[e.callee]] @@ call
          [] OTHER -> [return_value |-> Converted(<<e.return_value>>)[1]]
  IN [peer |-> q,
      proto |-> FieldFor(e.type, EventTypes) :> content @@ [new_object_id |-> Ids(q, e.new_objects)]]

GetEventProtoType(proto) == TypeOf(proto, EventTypes)

(* The ids that a message mentions.                                        *)
IdsInEvent(proto) ==
  LET type == GetEventProtoType(proto)
      content == proto[FieldFor(type, EventTypes)]
  IN proto.new_object_id
       \o CASE type = "OBJECT_CREATION" -> content.referenced_object_id
            [] type \in {"BEGIN_TRANSACTION", "END_TRANSACTION"} -> <<>>
            [] type \in {"METHOD_CALL", "SELF_METHOD_CALL"} -> IdsInValues(content.parameter)
            [] type = "SUB_METHOD_CALL" -> <<content.callee_object_id>> \o IdsInValues(content.parameter)
            [] OTHER -> IdsInValues(<<content.return_value>>)

(* The event read from a message, and the peer afterwards, which has       *)
(* references to all objects that the message mentions.                    *)
ConvertEventProtoToCommittedEvent(p, proto) ==
  LET type == GetEventProtoType(proto)
      content == proto[FieldFor(type, EventTypes)]
      q == AllKnown(p, IdsInEvent(proto))
      References(ids) == [i \in DOMAIN ids |-> ReferenceTo(q, ids[i])]
      new_objects == References(proto.new_object_id)
      Converted(protos) == [i \in DOMAIN protos |-> ConvertValueProtoToValue(q, protos[i])]
      event ==
        CASE type = "METHOD_RETURN" ->
               MethodReturnCommittedEvent(new_objects, Converted(<<content.return_value>>)[1])
          [] type = "SUB_METHOD_CALL" ->
               SubMethodCallCommittedEvent(new_objects, ReferenceTo(q, content.callee_object_id),
                                           content.method_name, Converted(content.parameter))
          [] type = "SELF_METHOD_CALL" ->
               SelfMethodCallCommittedEvent(new_objects, content.method_name,
                                            Converted(content.parameter))
          [] type = "SELF_METHOD_RETURN" ->
               SelfMethodReturnCommittedEvent(new_objects, Converted(<<content.return_value>>)[1])
          [] new_objects # <<>> -> Fails
          [] type = "OBJECT_CREATION" ->
               ObjectCreationCommittedEvent(Deserialize(content.data,
                                                        References(content.referenced_object_id)))
          [] type = "BEGIN_TRANSACTION" -> BeginTransactionCommittedEvent
          [] type = "END_TRANSACTION" -> EndTransactionCommittedEvent
          [] type = "METHOD_CALL" ->
               MethodCallCommittedEvent(content.method_name, Converted(content.parameter))
          [] type = "SUB_METHOD_RETURN" ->
               SubMethodReturnCommittedEvent(Converted(<<content.return_value>>)[1])
          [] OTHER -> Fails
  IN [peer |-> q, event |-> event]
===============================================================================
