-------------------------- MODULE MCBufferSystem ---------------------------
(* BufferSystem with four events, a channel of two and batches of two: the *)
(* channel fills up and turns events away, batches fill up both before and *)
(* during the drain, and events are pushed after Stop.                     *)
EXTENDS BufferSystem
============================================================================
