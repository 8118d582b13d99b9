--------------------------- MODULE MCBitcoindStack ---------------------------
(* Instances of BitcoindStack for TLC.                                   *)
EXTENDS BitcoindStack

AllChains == {"mainnet", "testnet", "regtest"}
=============================================================================
