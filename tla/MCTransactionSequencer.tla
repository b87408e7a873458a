------------------------ MODULE MCTransactionSequencer ------------------------
(* Two threads (the recording thread and one message handler), three time  *)
(* stamps and two messages per transaction: enough for a transaction to be *)
(* released before, between and after its neighbours.                      *)
EXTENDS TransactionSequencer, TLC

CONSTANTS recorder, handler

MCThreads == {recorder, handler}
=============================================================================
