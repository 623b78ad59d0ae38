--------------------------- MODULE MCCacheGauges ---------------------------
(***************************************************************************)
(* ReadPath with the gauges, in the instances of MCReadPath.               *)
(***************************************************************************)
EXTENDS MCReadPath, CacheGauges
=============================================================================
