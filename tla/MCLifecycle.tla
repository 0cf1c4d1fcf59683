---------------------------- MODULE MCLifecycle ----------------------------
(* Lifecycle with two transcript lines, one request, one post and a channel *)
(* of one, so that every producer can find it full, and a batch of two, so  *)
(* that batches fill up as well as wait for the ticker.                     *)
EXTENDS Lifecycle
============================================================================
