---------------------------- MODULE MCJobPipeline ----------------------------
(* Small instances of JobPipeline.                                         *)
EXTENDS JobPipeline

CONSTANTS m1, m2, m3, r1, r2, k1, k2

\* Two danmu in one room, the third in another.
MCRoomOf == [m \in Msgs |-> IF m = m3 THEN r2 ELSE r1]
=============================================================================
