-------------------------- MODULE MCCredentialStore -------------------------
(***************************************************************************)
(* Instances of CredentialStore: two overlapping requests for one          *)
(* credential, and one request for each of two credentials that share the  *)
(* backend's plain target.                                                 *)
(***************************************************************************)
EXTENDS CredentialStore, TLC

CONSTANTS anthropic, elevenlabs, keyA, keyB, keyC, q1, q2

Ask(u, v) == [user |-> u, value |-> v]

MCSeeds == {NoEntry, [user |-> anthropic, key |-> keyA]}

MCOneUser ==
    (q1 :> {Ask(anthropic, keyB), Ask(anthropic, NoKey)}) @@
    (q2 :> {Ask(anthropic, keyC), Ask(anthropic, NoKey)})

MCTwoUsers ==
    (q1 :> {Ask(elevenlabs, keyB)}) @@ (q2 :> {Ask(anthropic, keyC)})

=============================================================================
