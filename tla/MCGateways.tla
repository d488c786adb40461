----------------------------- MODULE MCGateways -----------------------------
(***************************************************************************)
(* Small instances of four parts of the gateways, one at a time: focus,    *)
(* chosen at the start, says which of them moves. They share no state, so  *)
(* the product of their behaviours would show nothing more.                *)
(***************************************************************************)
EXTENDS TokenBucket, WordBank, CometUplink, Moderation

CONSTANTS c1, c2, w1, w2, x, y, a, b

VARIABLE focus

Init ==
  /\ TokenInit /\ WordInit /\ UplinkInit /\ ModInit
  /\ focus \in {"token", "word", "uplink", "moderation"}
  /\ focus # "uplink" => standalone

Next ==
  /\ UNCHANGED focus
  /\ \/ focus = "token" /\ TokenNext /\ UNCHANGED <<wordVars, uplinkVars, modVars>>
     \/ focus = "word" /\ WordNext /\ UNCHANGED <<tokenVars, uplinkVars, modVars>>
     \/ focus = "uplink" /\ UplinkNext /\ UNCHANGED <<tokenVars, wordVars, modVars>>
     \/ focus = "moderation" /\ ModNext /\ UNCHANGED <<tokenVars, wordVars, uplinkVars>>

Spec == Init /\ [][Next]_<<tokenVars, wordVars, uplinkVars, modVars, focus>>
=============================================================================
