-------------------------- MODULE MCPrivyConnector --------------------------
(* Two people and two chains; as many attempts, sign-ins and wallet objects *)
(* as it takes to come back after a disconnect as somebody else.            *)
EXTENDS PrivyConnector
CONSTANTS ann, bob, arbitrum, base
UsersDef == {ann, bob}
WantedDef == {base}
ChainsDef == {arbitrum, base}
=============================================================================
