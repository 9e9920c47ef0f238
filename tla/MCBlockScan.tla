---------------------------- MODULE MCBlockScan ----------------------------
(* Small instances of BlockScan.                                            *)
EXTENDS BlockScan

OneRecorder == {"latest"}
FirstBlock == {1}
=============================================================================
