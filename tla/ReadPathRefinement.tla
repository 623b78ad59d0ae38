------------------------- MODULE ReadPathRefinement -------------------------
(***************************************************************************)
(* ReadPath implements BlobService.  The blobs at hand are the cache files *)
(* with the right content; a reader relies on the cache while it is at one *)
(* of the two steps that look the blob up before any registration.         *)
(***************************************************************************)
EXTENDS ReadPath

Asked(t) == IF pc[t] = "idle" THEN NoBlob ELSE blob[t]

Sure(t) == pc[t] \in {"lookup", "readHit"} /\ Cached(blob[t])

Reply(t) ==
  CASE result[t] = "none" -> "none"
    [] result[t] = "err"  -> "error"
    [] result[t] = "ok" /\ via[t] = "range206" -> "part"
    [] result[t] = "ok" /\ via[t] # "range206" /\ data[t] = "good" -> "whole"
    [] OTHER -> "corrupt"

Service == INSTANCE BlobService
             WITH stored <- {b \in Blobs : cache[b] = "good"},
                  asked  <- [t \in Threads |-> Asked(t)],
                  sure   <- [t \in Threads |-> Sure(t)],
                  reply  <- [t \in Threads |-> Reply(t)]

\* Every behaviour of the read path is one of the blob service: a cached blob
\* that is not removed during a read() is returned whole, without error, and
\* only a reader of a blob brings it into the cache (README.md:266).
ServiceSafety == Service!Spec
=============================================================================
