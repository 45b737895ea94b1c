-------------------------- MODULE MCChunkStreaming --------------------------
(* Small instances of ChunkStreaming for TLC. *)
EXTENDS ChunkStreaming

Line == 0..3
=============================================================================
