---------------------------- MODULE StateVariable ----------------------------
(***************************************************************************)
(* StateVariable (src/util/state_variable.cc): a state that threads change *)
(* and wait for under one mutex.  A state mask is a set of states.         *)
(***************************************************************************)

CONSTANT state_transitions_
VARIABLE current_state_

MatchesStateMask(state_mask) == current_state_ \in state_mask

(* The CHECK of CheckState.                                                *)
CheckState(expected_state_mask) == MatchesStateMask(expected_state_mask)

(* The condition a thread waits for.                                       *)
WaitForState(expected_state_mask) == MatchesStateMask(expected_state_mask)
WaitForNotState(inverse_expected_state_mask) == ~MatchesStateMask(inverse_expected_state_mask)

ChangeState(new_state) == current_state_' = new_state

(* The mutations that are used change the state if it is the given one.    *)
Mutate(old_state, new_state) ==
  IF MatchesStateMask({old_state}) THEN ChangeState(new_state) ELSE UNCHANGED current_state_

(* The CHECK of ChangeState.                                               *)
AllowedChange == <<current_state_, current_state_'>> \in state_transitions_
===============================================================================
