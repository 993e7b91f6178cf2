------------------------------ MODULE MCChat ------------------------------
(***************************************************************************)
(* Small chats for TLC.                                                    *)
(***************************************************************************)
EXTENDS ChatProps, TLC

CONSTANTS a, b, c3

Two   == {a, b}
Three == {a, b, c3}
OnlyB  == {b}
NotB   == Clients \ {b}
OneEach   == [p \in Clients \cup {Server} |-> 1]
AFeeds    == [p \in Clients \cup {Server} |-> IF p = a THEN 2 ELSE IF p = Server THEN 1 ELSE 0]
=============================================================================
