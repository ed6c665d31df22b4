---------------------------- MODULE MCCdcPipeline ----------------------------
(* Small instances of the CDC pipeline for TLC. *)
EXTENDS CdcPipeline, TLC
=============================================================================
