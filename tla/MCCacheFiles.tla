---------------------------- MODULE MCCacheFiles ----------------------------
(* Small instances of CacheFiles.                                          *)
EXTENDS CacheFiles

AllFiles == <<"mncache", "mnpayments", "netfulfilled">>
=============================================================================
