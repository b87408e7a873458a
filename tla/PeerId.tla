-------------------------------- MODULE PeerId --------------------------------
(***************************************************************************)
(* Peer IDs (src/engine/peer_id.cc) and the lists of them that a peer is   *)
(* started with (src/util/comma_separated.cc).  A string is a sequence of  *)
(* characters.                                                             *)
(***************************************************************************)
EXTENDS Integers, SequencesExt

Digits == <<"0", "1", "2", "3", "4", "5", "6", "7", "8", "9">>
MaxPort == 65535

RECURSIVE Decimal(_)
Decimal(n) == (IF n < 10 THEN <<>> ELSE Decimal(n \div 10)) \o <<Digits[(n % 10) + 1]>>

MakePeerId(address, port) == <<"i", "p", "/">> \o address \o <<"/">> \o Decimal(port)

-----------------------------------------------------------------------------
(* A mutated form of ParseCommaSeparatedList, used to test the properties. *)
ParseListDropsLast(in) ==
  FoldLeft(LAMBDA s, c : IF c # "," THEN [s EXCEPT !.item = Append(@, c)]
                         ELSE IF s.item = <<>> THEN s
                         ELSE [item |-> <<>>, out |-> Append(s.out, s.item)],
           [item |-> <<>>, out |-> <<>>], in).out

-----------------------------------------------------------------------------
AddDigit(port, c) == port * 10 + (CHOOSE d \in 0..9 : Digits[d + 1] = c)

(* ParsePeerId looks at one character after the other; no more are looked  *)
(* at once it is clear that the string is no peer ID ("fail").             *)
ParseStep(s, c) ==
  LET Expect(char, next) == [s EXCEPT !.state = IF c = char THEN next ELSE "fail"]
      digit == Contains(Digits, c)
  IN CASE s.state = "PREFIX1" -> Expect("i", "PREFIX2")
       [] s.state = "PREFIX2" -> Expect("p", "PREFIX3")
       [] s.state = "PREFIX3" -> Expect("/", "ADDRESS_FIRST")
       [] s.state = "ADDRESS_FIRST" ->
            IF c = "/" THEN [s EXCEPT !.state = "fail"]
            ELSE [s EXCEPT !.state = "ADDRESS_REST", !.address = <<c>>]
       [] s.state = "ADDRESS_REST" ->
            IF c = "/" THEN [s EXCEPT !.state = "PORT_FIRST"]
            ELSE [s EXCEPT !.address = Append(@, c)]
       [] s.state \in {"PORT_FIRST", "PORT_REST"} ->
            IF digit /\ AddDigit(s.port, c) <= MaxPort
            THEN [s EXCEPT !.state = "PORT_REST", !.port = AddDigit(@, c)]
            ELSE [s EXCEPT !.state = "fail"]
       [] s.state = "fail" -> s

ParsePeerId(peer_id) ==
  LET s == FoldLeft(ParseStep, [state |-> "PREFIX1", address |-> <<>>, port |-> 0], peer_id)
  IN [ok |-> s.state = "PORT_REST", address |-> s.address, port |-> s.port]

(* The items between the commas; empty ones are left out.                  *)
ParseCommaSeparatedList(in) ==
  LET s == FoldLeft(LAMBDA t, c : IF c # "," THEN [t EXCEPT !.item = Append(@, c)]
                                  ELSE IF t.item = <<>> THEN t
                                  ELSE [item |-> <<>>, out |-> Append(t.out, t.item)],
                    [item |-> <<>>, out |-> <<>>], in)
  IN IF s.item = <<>> THEN s.out ELSE Append(s.out, s.item)
===============================================================================
