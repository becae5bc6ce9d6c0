--------------------------- MODULE MCPairingCommit ---------------------------
(* Instances of PairingCommit for TLC.                                     *)
EXTENDS PairingCommit, TLC

CONSTANTS s1, s2, s3

OnePairing == <<s1>>
TwoPairings == <<s1, s2>>
ThreePairings == <<s1, s2, s3>>
=============================================================================
