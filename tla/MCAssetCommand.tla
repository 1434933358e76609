--------------------------- MODULE MCAssetCommand ---------------------------
(* Instances of AssetCommand for TLC. *)
EXTENDS AssetCommand

CONSTANTS c1, c2
MCErrors == {-1}
=============================================================================
