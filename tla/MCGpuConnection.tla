--------------------------- MODULE MCGpuConnection ---------------------------
(* Two requests: enough for one to overtake, outlive or be lost with another. *)
EXTENDS GpuConnection
=============================================================================
