--------------------------- MODULE MCWalletModal ---------------------------
(* Two wallets, one of which announces itself late, and one that is only    *)
(* offered; as many attempts as it takes to pick a wallet again.            *)
EXTENDS WalletModal
CONSTANTS hana, phantom, rabby
ConnectorsDef == {hana, phantom}
LazyDef == {hana}
UninstalledDef == {rabby}
=============================================================================
