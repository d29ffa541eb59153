--------------------------- MODULE MCSocketStream ---------------------------
(* Three messages, of two slices, of one byte and of exactly one slice. *)
EXTENDS SocketStream

MCLength == <<3, 1, 2>>
=============================================================================
