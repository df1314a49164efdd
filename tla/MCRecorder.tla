------------------------------ MODULE MCRecorder ------------------------------
(* A server with one slot, two faults, a recording of at most four seconds. *)
EXTENDS Recorder, TLC

MCStartups == {4, 6}
===============================================================================
