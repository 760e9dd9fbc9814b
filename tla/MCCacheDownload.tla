-------------------------- MODULE MCCacheDownload ---------------------------
(* CacheDownload with few blocks, for TLC. *)
EXTENDS CacheDownload

MCOtherSizes == {2, 3, 4}
=============================================================================
