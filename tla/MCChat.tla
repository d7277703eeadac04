------------------------------- MODULE MCChat -------------------------------
(* Two streams, and messages of every kind in one of two rooms.              *)
EXTENDS Chat

MCRoomOf == [m \in Messages |-> "a"]
MCKindOf == [m \in Messages |-> <<"plain", "oversize", "empty">>[m]]

=============================================================================
