--------------------------- MODULE MCRemoteCache ---------------------------
(***************************************************************************)
(* Instances of RemoteCache for TLC: a RedisCache on a shared client, a    *)
(* ValkeyCache with its own, and a ValkeyCache with client-side caching.   *)
(***************************************************************************)
EXTENDS RemoteCache

MCVals == {Payload(0)}

MCBackends == {NewWithClient, NewValkey(0), NewValkeyWithClient(2, FALSE, FALSE)}
=============================================================================
