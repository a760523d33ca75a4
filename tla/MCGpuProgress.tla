---------------------------- MODULE MCGpuProgress ----------------------------
(* Model-checking instance of GpuProgress.                                  *)
EXTENDS GpuProgress
=============================================================================
