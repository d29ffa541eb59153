----------------------------- MODULE MCRemoteAsk -----------------------------
(* The asker's timer comes first in the map. *)
EXTENDS RemoteAsk

MCOrder == <<Ask, Conn>>
=============================================================================
