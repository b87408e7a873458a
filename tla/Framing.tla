------------------------------- MODULE Framing -------------------------------
(***************************************************************************)
(* How messages are told apart in a stream of bytes (src/protocol_server): *)
(* the length of a message, as a variable-length integer, and then its     *)
(* body.  A byte is a number below 2 * HighBit; what is a bit pattern in   *)
(* the code is arithmetic here.  A result of -1 asks for more input, and   *)
(* Overflows stands for the end of the process.                            *)
(***************************************************************************)
EXTENDS Integers, Sequences, SequencesExt, Folding

CONSTANTS
  HighBit,       \* 0x80, the bit of a byte that says that there is another one
  VarintLimit,   \* 2^57, what the number may be before seven bits are added
  IntLimit       \* 2^31, one more than the largest int

Overflows == -2

-----------------------------------------------------------------------------
(* Variable-length integers (varint.cc), the lowest digits first.          *)
FindVarintLastChar(buffer) ==
  LET ends == {i \in 1..Len(buffer) : buffer[i] < HighBit}
  IN IF ends = {} THEN 0 ELSE Min(ends)

ParseVarint(buffer) ==
  LET Add(result, byte) ==
        IF result = Overflows \/ result >= VarintLimit THEN Overflows
        ELSE (result * HighBit) + (byte % HighBit)
      UpTo(last) ==
        IF last = 0 THEN [length |-> -1, n |-> 0]
        ELSE [length |-> last, n |-> InTurn(Add, 0, Reverse(SubSeq(buffer, 1, last)))]
  IN UpTo(FindVarintLastChar(buffer))

-----------------------------------------------------------------------------
RECURSIVE GetVarintLength(_)
GetVarintLength(n) == IF n \div HighBit = 0 THEN 1 ELSE 1 + GetVarintLength(n \div HighBit)

FormatVarint(n) ==
  LET length == GetVarintLength(n)
      Digit(i) == (n \div HighBit^(i - 1)) % HighBit
  IN [i \in 1..length |-> IF i # length THEN HighBit + Digit(i) ELSE Digit(i)]

-----------------------------------------------------------------------------
(* The conversion to int keeps the lowest bits, and the top one is a sign. *)
ParseMessageLength(input_buffer) ==
  LET ToInt(varint) ==
        IF varint.length < 0 THEN [length |-> -1, message_length |-> 0]
        ELSE [length |-> varint.length,
              message_length |-> IF varint.n = Overflows \/ (varint.n \div IntLimit) % 2 = 1
                                 THEN Overflows ELSE varint.n % (2 * IntLimit)]
  IN ToInt(ParseVarint(input_buffer))

(* How many bytes the first message takes, and its body.                   *)
ParseProtocolMessage(input_buffer) ==
  LET After(prefix) ==
        LET end == prefix.length + prefix.message_length
        IN CASE prefix.message_length = Overflows -> [char_count |-> Overflows, body |-> <<>>]
             [] prefix.length < 0 \/ end > Len(input_buffer) -> [char_count |-> -1, body |-> <<>>]
             [] OTHER -> [char_count |-> end,
                          body |-> SubSeq(input_buffer, prefix.length + 1, end)]
  IN After(ParseMessageLength(input_buffer))

FormatProtocolMessage(body) == FormatVarint(Len(body)) \o body
===============================================================================
