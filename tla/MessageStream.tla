---------------------------- MODULE MessageStream ----------------------------
(***************************************************************************)
(* Messages on the wire.  A message takes MessageLength bytes; a byte is   *)
(* <<message, position>>.                                                  *)
(***************************************************************************)
EXTENDS Integers, Sequences

CONSTANT MessageLength   \* bytes a message takes on the wire

ASSUME LengthAssumption == MessageLength \in Nat \ {0}

BytesOf(messages) ==
  [i \in 1..(MessageLength * Len(messages)) |->
     <<messages[1 + ((i - 1) \div MessageLength)], 1 + ((i - 1) % MessageLength)>>]

(* ParseMessages: the complete messages at the front of the input.         *)
ParseMessages(data) ==
  [i \in 1..(Len(data) \div MessageLength) |-> data[i * MessageLength][1]]
================================================================================
