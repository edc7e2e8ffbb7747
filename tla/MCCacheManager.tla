--------------------------- MODULE MCCacheManager ---------------------------
(* An instance of CacheManager for TLC: two caches share a device.         *)
EXTENDS CacheManager

CONSTANTS c1, c2, c3

MCDeviceOf == [c \in Caches |-> IF c = c3 THEN "other" ELSE "CPU"]
=============================================================================
