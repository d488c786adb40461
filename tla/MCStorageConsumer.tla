-------------------------- MODULE MCStorageConsumer --------------------------
(* Small instances of StorageConsumer.                                     *)
EXTENDS StorageConsumer

CONSTANTS p1, p2

OnePoison == {<<p1, 2>>}
=============================================================================
