----------------------------- MODULE MCMonoRoom -----------------------------
(* Small instances of MonoRoom.                                            *)
EXTENDS MonoRoom

CONSTANTS m1, m2, x1, r1, r2, w1, w2, v1,
  MaxEvents    \* bound: connections, admin calls, expiries and remote danmu together

\* Explores every combination of few events rather than few combinations of many.
FewEvents ==
  conns[v1] + calls + ttls + Cardinality(RemoteMsgs \ remote) <= MaxEvents
=============================================================================
