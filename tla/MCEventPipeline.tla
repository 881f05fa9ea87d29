-------------------------- MODULE MCEventPipeline --------------------------
(***************************************************************************)
(* Two requests of up to two events: four events overflow the channel and  *)
(* take more than one batch; one fault is a failing statement, or a        *)
(* restart at any point, with or without a change of queue.                *)
(***************************************************************************)
EXTENDS EventPipeline
CONSTANTS w1, w2, u1

MCWebhooks == {w1, w2}
MCUsers    == {u1}
=============================================================================
