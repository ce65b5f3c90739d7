--------------------------- MODULE MCCredentialPair ---------------------------
(***************************************************************************)
(* The instances of CredentialPair that TLC checks: a save and a removal   *)
(* in any order, over an empty or a filled entry.                          *)
(***************************************************************************)
EXTENDS CredentialPair, TLC

CONSTANTS save, remove, chat, keyA, keyB

MCNewKey == save :> keyB
MCSeeds == {NoKey, keyA}
=============================================================================
