---------------------------- MODULE MCConnKernel ----------------------------
(* Small instances of ConnKernel.                                          *)
EXTENDS ConnKernel

CONSTANTS c1, c2, u1, r1, web, a1

\* One user, one room: every connection competes with every other for the
\* entries of user, room and channel, from two different devices.
MCUID == [c \in Clients |-> u1]
MCRoomID == [c \in Clients |-> r1]
MCDevice == [c \in Clients |-> IF c = c1 THEN web ELSE NoDevice]
=============================================================================
