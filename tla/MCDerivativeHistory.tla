------------------------ MODULE MCDerivativeHistory ------------------------
(* The instance DerivativeHistory is checked on.                            *)
EXTENDS DerivativeHistory
=============================================================================
