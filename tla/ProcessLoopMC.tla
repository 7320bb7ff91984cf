---------------------------- MODULE ProcessLoopMC -----------------------------
(***************************************************************************)
(* ProcessLoop with chunks of three bytes and packets of up to seven, so   *)
(* that a packet holds less than a chunk, one, or more than two.           *)
(***************************************************************************)
EXTENDS ProcessLoop
===============================================================================
