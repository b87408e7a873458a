--------------------------- MODULE MCRecordingThread ---------------------------
(* RecordingThread for TLC: one configuration for the properties that hold, *)
(* a smaller one for RewindEnds.                                            *)
EXTENDS RecordingThread
=============================================================================
