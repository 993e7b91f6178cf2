----------------------------- MODULE ChatProps -----------------------------
(***************************************************************************)
(* What the chat promises to those who take part in it.                    *)
(***************************************************************************)
EXTENDS Chat

Parties == Clients \cup {Server}
Received(c) == cli[c].popped \o cli[c].recved
Position(m, c) == {i \in 1..Len(Received(c)) : Received(c)[i] = m}

\* Part of Attribution: every variable has its type; a socket is in the table of peers once,
\* everybody with frames under way is connected, and the author of a received
\* message is a name the client keeps.
TypeOK ==
    /\ started \in {"new", "up", "deleted", "dead"}
    /\ job.at \in {"idle", "send", "event", "relay"}
    /\ \A i, j \in 1..Len(peers) : peers[i].socket = peers[j].socket => i = j
    /\ \A c \in Clients :
          /\ cli[c].st \in {"new", "up", "broken", "gone"}
          /\ cli[c].at \in {"idle", "send", "recv"}
          /\ Len(net[c].up) <= Capacity /\ Len(net[c].down) <= Capacity
          /\ net[c].up # <<>> => cli[c].st \in {"up", "gone"}
          /\ cli[c].at # "idle" => cli[c].st = "up"
          /\ \A i \in 1..Len(Received(c)) : Received(c)[i].author \in cli[c].authors

\* Names go over the wire once (task_eng.txt:140 "the clients should send their
\* name to the server only once"), and yet whatever a client receives is a line
\* that somebody else fed, under the name of who fed it: no text is taken for a
\* name, no name for a text, no two messages are mixed.
Attribution ==
    /\ TypeOK
    /\ \A c \in Clients : \A i \in 1..Len(Received(c)) :
          \E p \in Parties \ {c} : \E n \in 1..fed[p] :
              Received(c)[i] = [author |-> p, text |-> Text(p, n)]

\* The lines of an author follow one another in the messages s.
Successive(s) ==
    \A i, j \in 1..Len(s) :
        /\ i < j /\ s[i].author = s[j].author
        /\ \A k \in (i + 1)..(j - 1) : s[k].author # s[i].author
        => s[j].text = Text(s[i].author, s[i].text[2] + 1)

\* Two messages that are both in s and in t are in the same order in them.
Agree(s, t) ==
    \A i, j \in 1..Len(s) : \A k, l \in 1..Len(t) : i < j /\ s[i] = t[k] /\ s[j] = t[l] => k < l

\* What a client receives from one author are consecutive lines of this author,
\* in their order: nothing is lost in between, doubled or overtaken.
InOrderOnce == \A c \in Clients : Successive(Received(c))

\* Any two clients agree on the order of what both received: the server is one
\* sequence of messages, its own lines included.
SameOrder == \A c, d \in Clients : Agree(Received(c), Received(d))

\* A line of a client that waits to be sent while d is a peer reaches d, if
\* nobody leaves.
ClientsHeard ==
    \A c \in Clients : \A d \in Clients \ {c} : \A n \in 1..MaxFed[c] :
        LET m == [author |-> c, text |-> Text(c, n)]
        IN  /\ d \in Sockets /\ started = "up"
            /\ \E i \in 1..Len(cli[c].send) : cli[c].send[i].text = m.text
            ~>  \/ Position(m, d) # {}
                \/ cli[c].st = "gone" \/ cli[d].st = "gone" \/ started # "up"

\* The same for what the server says.
ServerHeard ==
    \A d \in Clients : \A n \in 1..MaxFed[Server] :
        LET m == [author |-> Server, text |-> Text(Server, n)]
        IN  /\ d \in Sockets /\ started = "up" /\ \E i \in 1..Len(send) : send[i] = m
            ~>  Position(m, d) # {} \/ cli[d].st = "gone" \/ started # "up"

\* "Everyone reads all messages from all the others" (task_eng.txt:12): the
\* server's one event and one own line per update (chat_server.c:196-207)
\* starve nobody.
Delivered == ClientsHeard /\ ServerHeard

\* A client program does not outlive the server: when the server's process is
\* gone it reads what is still there, prints it and exits, wherever it was in
\* its loop (chat_client_exe.c:82-86).
ProgramEnds == \A c \in Programs : started = "dead" /\ cli[c].st = "up" ~> cli[c].st = "gone"

\* Every update comes back: a blocking send or receive always ends.
UpdatesReturn == /\ job # Idle ~> job = Idle
                 /\ \A c \in Clients : cli[c].at # "idle" ~> cli[c].at = "idle"
=============================================================================
