--------------------------- MODULE MCFileTransfer ---------------------------
(***************************************************************************)
(* FileTransfer on a small instance: one path, whose file has two chunks,  *)
(* staged up to three times or staged and sent.                            *)
(***************************************************************************)
EXTENDS FileTransfer

MCGoroutines == {"relay", "rtc"}
MCPaths == {"big"}
MCBlocks == [p \in MCPaths |-> 2]
=============================================================================
