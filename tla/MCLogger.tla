------------------------------ MODULE MCLogger -------------------------------
(* Two threads that log twice to a sink for all levels and one for errors.    *)
EXTENDS Logger

MCConfigured == <<[level |-> 0], [level |-> ERROR]>>
=============================================================================
