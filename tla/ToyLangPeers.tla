----------------------------- MODULE ToyLangPeers -----------------------------
(***************************************************************************)
(* A toy_lang program from its text to the objects that another peer has   *)
(* of it.  One peer reads, parses and runs the program, then it sends the  *)
(* objects and the events of a transaction as messages over a socket,      *)
(* which may take and give any number of bytes at a time, and the other    *)
(* peer reads the messages and has the same objects under references of    *)
(* its own.                                                                *)
(*                                                                         *)
(* The context of the run may refuse calls from some point on (grants is   *)
(* the number of calls before that).  Which transactions are made, when    *)
(* and in which order they are applied is the subject of TransactionStore; *)
(* connections that break are the subject of ConnectionManager.            *)
(***************************************************************************)
EXTENDS ToyLangReference, EventCodec, Framing

CONSTANTS
  Programs,      \* the programs, as in ToyLangReference
  Grants,        \* the calls that the context grants, besides Unlimited
  Unlimited,     \* more calls than any of the programs makes
  Shared,        \* the programs whose objects are sent to the other peer
  FirstSent,     \* the first object that is sent
  MaxMessages,   \* how many messages are sent at most
  Transaction,   \* the events of the transaction, by object
  BufferSize,    \* the size of input_buffer
  SocketSize     \* how many bytes a socket holds

VARIABLES
  program, style,      \* the program and how it is written
  phase,               \* "text", "lexed", "parsed", "run", "sent"
  lexer, parser,       \* the outcome of the first steps
  grants, machine,     \* the run
  sender, receiver,    \* the two peers, as in EventCodec
  messages, sent,      \* the messages and the events that they were made from
  fetched,             \* the number of messages that have been formatted
  output_data_,        \* of the sender's connection
  wire,                \* the bytes in the socket
  input_data_,         \* of the receiver's connection
  handled, received    \* the number of messages read and the events in them

source == <<program, style>>
execution == <<lexer, parser, grants, machine>>
stream == <<fetched, output_data_, wire, input_data_>>
arrival == <<receiver, handled, received>>
vars == <<source, phase, execution, sender, messages, sent, stream, arrival>>

Init ==
  /\ program \in Programs
  /\ style \in Styles
  /\ phase = "text"
  /\ lexer = NewLexer
  /\ parser = NewParser(<<>>, NewSymbolTable)
  /\ grants = Unlimited
  /\ machine = NewMachine(Unlimited)
  /\ sender = NewPeer("sender", 0)
  /\ receiver = NewPeer("receiver", 0)
  /\ messages = <<>>
  /\ sent = <<>>
  /\ fetched = 0
  /\ output_data_ = <<>>
  /\ wire = <<>>
  /\ input_data_ = <<>>
  /\ handled = 0
  /\ received = <<>>

-----------------------------------------------------------------------------
(* RunToyLangFile, in steps.                                               *)
Lex ==
  /\ phase = "text"
  /\ phase' = "lexed"
  /\ lexer' = FetchTokens(Text(TokensOf(program), style))
  /\ UNCHANGED <<source, parser, grants, machine, sender, messages, sent, stream, arrival>>

(* The way a program is written makes no difference from here on.          *)
Parse ==
  /\ phase = "lexed"
  /\ style = "tight"
  /\ ~lexer.fatal
  /\ phase' = "parsed"
  /\ parser' = ParseFile(NewParser(lexer.tokens_, BuiltInSymbols))
  /\ UNCHANGED <<source, lexer, grants, machine, sender, messages, sent, stream, arrival>>

Run ==
  /\ phase = "parsed"
  /\ phase' = "run"
  /\ grants' \in Grants \cup {Unlimited}
  /\ machine' = IF parser.fatal THEN Crash(NewMachine(grants')).m
                ELSE ProgramMethod(NewMachine(grants'),
                                   GetExternalSymbolIds(parser.symbol_table_), parser.parsed).m
  /\ sender' = [sender EXCEPT !.references = Len(machine'.objects)]
  /\ UNCHANGED <<source, lexer, parser, messages, sent, stream, arrival>>

-----------------------------------------------------------------------------
(* The messages, from the sender's objects.                                *)
Item(r, event) == [object |-> r, event |-> event]

(* CreateTransaction and the conversions in ApplyTransactionAndSendMessage *)
(* and HandleGetObjectMessage: the peer and the events as it writes them.  *)
Converted(p, items) ==
  LET ensured == InTurn(LAMBDA q, item :
                          EnsureSharedObjectsInTransactionExist(
                              GetSharedObjectForObjectReference(q, item.object), <<item.event>>),
                        p, items)
      Added(done, item, written) ==
        [peer |-> written.peer,
         events |-> Append(done.events, [object_id |-> written.peer.ids[item.object],
                                         event |-> written.proto])]
  IN InTurn(LAMBDA done, item :
              Added(done, item, ConvertCommittedEventToEventProto(done.peer, item.event)),
            [peer |-> ensured, events |-> <<>>], items)

Send(kind, items) ==
  \E converted \in {Converted(sender, items)} :
    /\ sender' = converted.peer
    /\ messages' = Append(messages, kind :> converted.events)
    /\ sent' = Append(sent, items)
    /\ UNCHANGED <<source, execution, stream, arrival>>

Sharing == phase = "run" /\ program \in Shared /\ grants = Unlimited /\ ~machine.crashed
NextSent == FirstSent + Len(messages)
MoreToSend == NextSent <= Len(machine.objects) /\ Len(messages) < MaxMessages

SendObject ==
  /\ Sharing /\ MoreToSend
  /\ fetched = Len(messages)
  /\ Send("store_object_message",
          <<Item(NextSent, ObjectCreationCommittedEvent(machine.objects[NextSent]))>>)
  /\ UNCHANGED phase

SendTransaction ==
  /\ Sharing /\ ~MoreToSend
  /\ Send("apply_transaction_message", Transaction)
  /\ phase' = "sent"

-----------------------------------------------------------------------------
(* The connection (ProtocolConnectionImpl::SendAndReceive).  The body of a *)
(* message is a number of bytes that all have the number of the message.   *)
GetPeerMessageType(message) ==
  TypeOf(message, [hello_message |-> "HELLO", goodbye_message |-> "GOODBYE",
                   apply_transaction_message |-> "APPLY_TRANSACTION",
                   get_object_message |-> "GET_OBJECT", store_object_message |-> "STORE_OBJECT",
                   reject_transaction_message |-> "REJECT_TRANSACTION",
                   invalidate_transactions_message |-> "INVALIDATE_TRANSACTIONS",
                   test_message |-> "TEST"])

ItemsOf(message) == message[CHOOSE field \in DOMAIN message : TRUE]
BodySize(message) ==
  LET ids == FlattenSeq([i \in DOMAIN ItemsOf(message) |-> IdsInEvent(ItemsOf(message)[i].event)])
  IN Min({HighBit + 2, Len(ids)}) + 1
Body(k) == [i \in 1..BodySize(messages[k]) |-> k]

SendBytes ==
  LET output == IF output_data_ # <<>> THEN output_data_ ELSE FormatProtocolMessage(Body(fetched + 1))
  IN /\ output_data_ # <<>> \/ fetched < Len(messages)
     /\ fetched' = IF output_data_ # <<>> THEN fetched ELSE fetched + 1
     /\ \E send_count \in 0..Min({Len(output), SocketSize - Len(wire)}) :
          /\ output_data_' = SubSeq(output, send_count + 1, Len(output))
          /\ wire' = wire \o SubSeq(output, 1, send_count)
     /\ UNCHANGED <<source, phase, execution, sender, messages, sent, input_data_, arrival>>

(* HandleStoreObjectMessage makes the object if need be, while the events  *)
(* of objects that the peer does not have are dropped by                   *)
(* HandleApplyTransactionMessage.                                          *)
HandleItem(done, item, type) ==
  LET Added(p, read) ==
        [peer |-> read.peer,
         items |-> Append(done.items, Item(ReferenceTo(p, item.object_id), read.event))]
      HandledBy(p) ==
        IF item.object_id \notin Range(p.ids) THEN done
        ELSE Added(p, ConvertEventProtoToCommittedEvent(p, item.event))
  IN HandledBy(IF type = "STORE_OBJECT" THEN GetOrCreateObjectReference(done.peer, item.object_id)
               ELSE done.peer)

HandleMessageFromRemotePeer(done, message) ==
  InTurn(LAMBDA d, item : HandleItem(d, item, GetPeerMessageType(message)), done, ItemsOf(message))

(* ParseMessages: all the messages that have arrived completely.  A body   *)
(* that is not a message ends the process.                                 *)
ParseMessages(input) ==
  LET ParseMessage(s, parsed) ==
        LET found == {k \in 1..fetched : parsed.char_count > 0 /\ Body(k) = parsed.body}
        IN IF found = {} THEN [s EXCEPT !.fatal = TRUE]
           ELSE [s EXCEPT !.input = SubSeq(@, parsed.char_count + 1, Len(@)),
                          !.numbers = Append(@, Min(found))]
  IN Repeat(LAMBDA s : ~s.fatal /\ ParseProtocolMessage(s.input).char_count # -1,
            LAMBDA s : ParseMessage(s, ParseProtocolMessage(s.input)),
            [input |-> input, numbers |-> <<>>, fatal |-> FALSE])

ReceiveBytes ==
  /\ ~receiver.fatal
  /\ \E recv_count \in 1..Min({BufferSize, Len(wire)}) :
       \E parsed \in {ParseMessages(input_data_ \o SubSeq(wire, 1, recv_count))} :
         \E done \in {InTurn(LAMBDA d, k : HandleMessageFromRemotePeer(d, messages[k]),
                            [peer |-> receiver, items |-> received], parsed.numbers)} :
           /\ wire' = SubSeq(wire, recv_count + 1, Len(wire))
           /\ input_data_' = parsed.input
           /\ receiver' = [done.peer EXCEPT !.fatal = parsed.fatal]
           /\ received' = done.items
           /\ handled' = handled + Len(parsed.numbers)
  /\ UNCHANGED <<source, phase, execution, sender, messages, sent, fetched, output_data_>>

Next == Lex \/ Parse \/ Run \/ SendObject \/ SendTransaction \/ SendBytes \/ ReceiveBytes

Spec == Init /\ [][Next]_vars

-----------------------------------------------------------------------------
(* The parser's symbol numbers, the code blocks with their bindings and    *)
(* the calls between objects have the effect that the program means: the   *)
(* same output and open transactions, and the process ends exactly if the  *)
(* program uses an unknown name or gives a function what it cannot use.    *)
RunsAsWritten ==
  phase = "run" /\ ~machine.refused /\ ~machine.undefined =>
    \A meant \in {ReferenceRun(program)} :
      /\ machine.crashed = meant.dead
      /\ ~meant.dead => machine.output = meant.out /\ machine.transaction_depth_ = meant.depth

(* When the context refuses a call, no object calls it again or creates an *)
(* object through it on the way out, as MethodContext::CallMethod demands, *)
(* nothing more is printed, and the process does not end.                  *)
UnwindsAtOnce ==
  machine.refused =>
    /\ ~machine.late
    /\ ~machine.crashed
    /\ \A meant \in {ReferenceRun(program)} : ~meant.dead => IsPrefix(machine.output, meant.out)

-----------------------------------------------------------------------------
(* An event with the ids of objects in the place of a peer's references.   *)
NamedValue(p, v) == IF v.type = "OBJECT_REFERENCE" THEN [v EXCEPT !.of = p.ids[@]] ELSE v
NamedObject(p, object) ==
  LET Named(references) == [i \in DOMAIN references |-> p.ids[references[i]]]
  IN CASE object.kind = "VARIABLE" /\ object.object_reference_ # Null ->
            [object EXCEPT !.object_reference_ = p.ids[@]]
       [] object.kind = "LIST" -> [object EXCEPT !.items_ = Named(@)]
       [] object.kind = "MAP" -> [object EXCEPT !.map_ = Named(@)]
       [] object.kind = "CODE_BLOCK" -> [object EXCEPT !.external_symbols_ = Named(@)]
       [] OTHER -> object
NamedItem(p, item) ==
  [object |-> p.ids[item.object],
   event |-> [item.event EXCEPT
                !.new_objects = [i \in DOMAIN @ |-> p.ids[@[i]]],
                !.callee = IF @ = Null THEN Null ELSE p.ids[@],
                !.parameters = [i \in DOMAIN @ |-> NamedValue(p, @[i])],
                !.return_value = NamedValue(p, @),
                !.object = NamedObject(p, @)]]
NamedItems(p, items) == [i \in DOMAIN items |-> NamedItem(p, items[i])]

(* What the other peer reads is what was written, in the order in which it *)
(* was sent, event by event and object by object: numbers, strings and     *)
(* code as they were, and every reference to the object that the sender's  *)
(* reference was to, of which each peer has one reference.  Only events of *)
(* objects that it does not have are left out                              *)
(* (HandleApplyTransactionMessage).  And no message is held back: as soon  *)
(* as the last byte of a message is read, ParseMessages has handled it,    *)
(* however the bytes were cut.                                             *)
EventsArrive ==
  LET written == FlattenSeq(SubSeq(sent, 1, handled))
      kept == SelectSeq(written, LAMBDA item : sender.ids[item.object] \in Range(receiver.ids))
  IN /\ ~receiver.fatal /\ NamedItems(receiver, received) = NamedItems(sender, kept)
     /\ output_data_ = <<>> /\ wire = <<>> => handled = fetched /\ input_data_ = <<>>
     /\ IsInjective(sender.ids) /\ IsInjective(receiver.ids)
===============================================================================
