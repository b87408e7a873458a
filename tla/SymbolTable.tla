----------------------------- MODULE SymbolTable -----------------------------
(***************************************************************************)
(* SymbolTable (src/toy_lang/symbol_table.cc): the symbols that the parser *)
(* has given numbers to, by scope.  `fatal' is set where the code ends the *)
(* process.                                                                *)
(***************************************************************************)
EXTENDS Integers, Sequences, SequencesExt, TLC, Folding

NewSymbolTable ==
  [next_symbol_id_ |-> 1, scopes_ |-> <<>>, external_symbol_map_ |-> <<>>, fatal |-> FALSE]
NewScope == [symbol_map |-> <<>>, parameter_symbol_ids |-> <<>>, local_symbol_ids |-> <<>>]

AddExternalSymbol(t, symbol_name, visible) ==
  IF symbol_name \in DOMAIN t.external_symbol_map_
  THEN [t EXCEPT !.fatal = TRUE]
  ELSE [t EXCEPT !.next_symbol_id_ = @ + 1,
                 !.external_symbol_map_ =
                     symbol_name :> [symbol_id |-> t.next_symbol_id_, visible |-> visible] @@ @]

GetExternalSymbolIds(t) ==
  [name \in DOMAIN t.external_symbol_map_ |-> t.external_symbol_map_[name].symbol_id]

(* The new symbol has the number t.next_symbol_id_.                        *)
CreateSymbol(t, symbol_name) ==
  LET back == Len(t.scopes_)
  IN IF back = 0 \/ symbol_name \in DOMAIN t.scopes_[back].symbol_map
     THEN [t EXCEPT !.fatal = TRUE]
     ELSE [t EXCEPT !.next_symbol_id_ = @ + 1,
                    !.scopes_[back].symbol_map = symbol_name :> t.next_symbol_id_ @@ @]

EnterScope(t, parameter_names) ==
  LET AddParameter(u, parameter_name) ==
        LET v == CreateSymbol(u, parameter_name)
        IN IF v.fatal THEN v
           ELSE [v EXCEPT !.scopes_[Len(v.scopes_)].parameter_symbol_ids =
                              Append(@, u.next_symbol_id_)]
  IN InTurn(AddParameter, [t EXCEPT !.scopes_ = Append(@, NewScope)], parameter_names)

LeaveScope(t) == IF t.scopes_ = <<>> THEN [t EXCEPT !.fatal = TRUE]
                 ELSE [t EXCEPT !.scopes_ = Front(@)]

(* A bug to compare with: the outermost scope that has the name wins.      *)
OutermostSymbolId(t, symbol_name, visible) ==
  LET found == {i \in 1..Len(t.scopes_) : symbol_name \in DOMAIN t.scopes_[i].symbol_map}
      external == t.external_symbol_map_
  IN IF visible /\ found # {}
     THEN t.scopes_[Min(found)].symbol_map[symbol_name]
     ELSE IF symbol_name \in DOMAIN external /\ external[symbol_name].visible = visible
          THEN external[symbol_name].symbol_id
          ELSE -1

(* The number of the symbol, -1 if there is none.                          *)
PrivateGetSymbolId(t, symbol_name, visible) ==
  LET found == {i \in 1..Len(t.scopes_) : symbol_name \in DOMAIN t.scopes_[i].symbol_map}
      external == t.external_symbol_map_
  IN IF visible /\ found # {}
     THEN t.scopes_[Max(found)].symbol_map[symbol_name]
     ELSE IF symbol_name \in DOMAIN external /\ external[symbol_name].visible = visible
          THEN external[symbol_name].symbol_id
          ELSE -1

(* The table after GetLocalVariable, which creates the variable in the     *)
(* innermost scope if no scope has it.                                     *)
GetLocalVariable(t, symbol_name) ==
  IF PrivateGetSymbolId(t, symbol_name, TRUE) >= 0 THEN t
  ELSE LET u == CreateSymbol(t, symbol_name)
       IN IF u.fatal THEN u
          ELSE [u EXCEPT !.scopes_[Len(u.scopes_)].local_symbol_ids =
                             Append(@, t.next_symbol_id_)]
===============================================================================
