------------------------------- MODULE MCAttach -------------------------------
(***************************************************************************)
(* Small instances of Attach.  Two clients are a victim and a thief of the *)
(* slot; two chunks and a channel of one make it fill, and let a chunk     *)
(* follow a gap.  One resizing client can send its re-dump to itself or to *)
(* the client that evicted it.                                             *)
(***************************************************************************)
EXTENDS Attach

CONSTANTS c1, c2

TwoClients == {c1, c2}
OneResizer == {c1}
NoResizer == {}
=============================================================================
