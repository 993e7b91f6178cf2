-------------------------------- MODULE Chat --------------------------------
(***************************************************************************)
(* The chat of directory 5: clients (chat_client.c), the server            *)
(* (chat_server.c) and the messages between them (chat.c).  Every client   *)
(* and the server is a process of its own; all sockets are blocking, so a  *)
(* call of update is several steps, one for each frame sent or received.   *)
(*                                                                         *)
(* A frame is a length and that many bytes; nothing on the wire tells a    *)
(* name from a text.  The name of a client is its identity, a text is the  *)
(* pair of who fed it and its number; how lines become texts is ChatWire.  *)
(* Names are not empty.  A client connects once.                           *)
(***************************************************************************)
EXTENDS Integers, Sequences, FiniteSets, SequencesExt

CONSTANTS
    Clients,
    Server,     \* the author of what the server says
    None,       \* NULL
    MaxFed,     \* bound: lines fed by each party
    Capacity,   \* frames a connection holds in one direction
    MayLeave,   \* the clients that may exit (end of input) or be killed
    Programs    \* the clients that are chat_client_exe; the others use the library
                \* as they like

ASSUME ChatAssumption == /\ Server \notin Clients /\ None \notin Clients \cup {Server}
                         /\ MaxFed \in [Clients \cup {Server} -> Nat]
                         /\ Capacity \in Nat \ {0}
                         /\ MayLeave \subseteq Clients /\ Programs \subseteq Clients

VARIABLES
    started,    \* the server: "new", "up" once it listens, "deleted", "dead"
    peers,      \* peers_data: [socket, author], in the order of acceptance
    recved, send,   \* the queues of the server
    job,        \* its update in progress: [at, ev, todo]
    backlog,    \* connections not accepted yet
    cli,        \* cli[c]: struct chat_client, its update in progress, what was popped
    net,        \* net[c]: the connection of c
    fed         \* fed[p]: how many lines p has fed
chatVars == <<started, peers, recved, send, job, backlog, cli, net, fed>>
serverVars == <<started, peers, recved, send, job, backlog>>

Text(p, n) == <<p, n>>
Sockets == {peers[i].socket : i \in 1..Len(peers)}
peers_data_find(fd) == CHOOSE i \in 1..Len(peers) : peers[i].socket = fd
Idle == [at |-> "idle", ev |-> None, todo |-> <<>>]
NewClient == [st |-> "new", name_sended |-> FALSE, send |-> <<>>, recved |-> <<>>,
              at |-> "idle", todo |-> <<>>, nfds |-> FALSE, auth_name |-> None,
              authors |-> {}, popped |-> <<>>]

Init == /\ started = "new" /\ peers = <<>> /\ recved = <<>> /\ send = <<>>
        /\ job = Idle /\ backlog = <<>>
        /\ cli = [c \in Clients |-> NewClient]
        /\ net = [c \in Clients |-> [up |-> <<>>, down |-> <<>>, end |-> "open", srv |-> "open"]]
        /\ fed = [p \in Clients \cup {Server} |-> 0]

-----------------------------------------------------------------------------
(* Messages and connections.                                               *)

\* Mutant: the newest message is the first.
queue_add_front(queue, msg) == <<msg>> \o queue

queue_add(queue, msg) == Append(queue, msg)
queue_pop(queue) == Tail(queue)     \* what is left; Head(queue) is returned

\* chat_message_send: the author, when there is one, then the text.
Frames(msg) == IF msg.author = None THEN <<msg.text>> ELSE <<msg.author, msg.text>>

\* net[c].up and .down are the frames under way to the server and to c.
\* net[c].end is the client's end as the server meets it: "open"; "fin" after
\* a close, when recv returns 0; "rst" after a close with unread data, when the
\* next call fails; "done" when a send may raise SIGPIPE, which nobody handles.
\* net[c].srv is the server's end as the client meets it: "open" or "closed".
Hangup(n) == [n EXCEPT !.down = <<>>, !.end = IF n.down = <<>> THEN "fin" ELSE "rst"]

\* The process ends: the kernel closes its sockets.
ServerDies ==
    /\ started' = "dead" /\ peers' = <<>> /\ recved' = <<>> /\ send' = <<>>
    /\ job' = Idle /\ backlog' = <<>>
    /\ net' = [c \in Clients |-> [net[c] EXCEPT !.srv = "closed"]]
    /\ UNCHANGED <<cli, fed>>

-----------------------------------------------------------------------------
(* The server.                                                             *)

chat_server_listen ==
    /\ started = "new" /\ started' = "up"
    /\ UNCHANGED <<peers, recved, send, job, backlog, cli, net, fed>>

\* The sockets of the peers are not closed; those not accepted are reset.
chat_server_delete ==
    /\ started = "up" /\ job = Idle
    /\ started' = "deleted" /\ peers' = <<>> /\ recved' = <<>> /\ send' = <<>> /\ backlog' = <<>>
    /\ net' = [c \in Clients |-> IF \E i \in 1..Len(backlog) : backlog[i] = c
                                 THEN [net[c] EXCEPT !.srv = "closed"] ELSE net[c]]
    /\ UNCHANGED <<job, cli, fed>>

\* One line; author "server".
chat_server_feed ==
    /\ started = "up" /\ job = Idle /\ fed[Server] < MaxFed[Server]
    /\ fed' = [fed EXCEPT ![Server] = @ + 1]
    /\ send' = queue_add(send, [author |-> Server, text |-> Text(Server, fed[Server] + 1)])
    /\ UNCHANGED <<started, peers, recved, job, backlog, cli, net>>

chat_server_pop_next ==
    /\ started = "up" /\ job = Idle /\ recved # <<>>
    /\ recved' = queue_pop(recved)
    /\ UNCHANGED <<started, peers, send, job, backlog, cli, net, fed>>

\* Mutant: the last peer gets none.
Recipients_short(skip) ==
    SelectSeq(SubSeq(peers, 1, Len(peers) - 1), LAMBDA p : p.socket # skip)

\* The table without the peer fd.
PeersWithout(fd) == RemoveAt(peers, peers_data_find(fd))

\* The loops of lines 202 and 267.
Recipients(skip) == IF skip = None THEN peers ELSE PeersWithout(skip)

SendJob(at, ev, todo) ==
    IF todo # <<>> THEN [at |-> at, ev |-> ev, todo |-> todo]
    ELSE IF at = "send" /\ ev # None THEN [at |-> "event", ev |-> ev, todo |-> <<>>]
    ELSE Idle

Todo(msg, to) == [i \in 1..Len(to) |-> [to |-> to[i].socket, frames |-> Frames(msg)]]

\* What epoll_wait may report; Server stands for the listening socket.
Ready == (IF backlog = <<>> THEN {} ELSE {Server})
         \cup {c \in Sockets : net[c].up # <<>> \/ net[c].end # "open"}

\* Lines 196-207: one event, and the oldest of the server's own messages to
\* everybody before the event is handled.
chat_server_update(ev) ==
    /\ started = "up" /\ job = Idle
    /\ ev \in Ready \/ (ev = None /\ Ready = {})
    /\ \/ send = <<>> /\ ev # None /\ job' = SendJob("send", ev, <<>>) /\ UNCHANGED send
       \/ /\ send # <<>> /\ send' = queue_pop(send)
          /\ job' = SendJob("send", ev, Todo(Head(send), Recipients(None)))
    /\ UNCHANGED <<started, peers, recved, backlog, cli, net, fed>>

\* One frame to one peer.  After an error the rest of this message to this peer
\* is dropped; the result is not looked at.
ServerSend ==
    LET t    == Head(job.todo)
        rest == (IF Len(t.frames) = 1 THEN <<>> ELSE <<[t EXCEPT !.frames = Tail(@)]>>)
                \o Tail(job.todo)
        Conn(f, v, todo) == /\ net' = [net EXCEPT ![t.to][f] = v]
                            /\ job' = SendJob(job.at, job.ev, todo)
                            /\ UNCHANGED <<started, peers, recved, send, backlog, cli, fed>>
    IN  /\ job.at \in {"send", "relay"}
        /\ \/ /\ net[t.to].end = "open" /\ Len(net[t.to].down) < Capacity
              /\ Conn("down", Append(net[t.to].down, Head(t.frames)), rest)
           \/ net[t.to].end \in {"fin", "done"} /\ Conn("end", "done", rest)
           \/ net[t.to].end = "rst" /\ Conn("end", "done", Tail(job.todo))
           \/ net[t.to].end = "done" /\ ServerDies

peers_data_add(fd) == Append(peers, [socket |-> fd, author |-> None])

Accept ==
    /\ job.at = "event" /\ job.ev = Server
    /\ peers' = peers_data_add(Head(backlog))
    /\ backlog' = Tail(backlog) /\ job' = Idle
    /\ UNCHANGED <<started, recved, send, cli, net, fed>>

\* Lines 75-90 copy one element too many, into a buffer with one element less:
\* harmless for the last peer, otherwise the heap may be damaged.
chat_server_remove_client(fd) ==
    \/ /\ peers' = PeersWithout(fd) /\ job' = Idle
       /\ UNCHANGED <<started, recved, send, backlog, cli, net, fed>>
    \/ Len(peers) > 1 /\ ServerDies

\* Mutant: the author is not remembered.
Known_never(c) == FALSE

\* Line 226.
Known(c) == peers[peers_data_find(c)].author # None

\* Lines 219-269: a first frame is the name, the next one a text, which goes to
\* the server's application and to the others.
ServerRecv(c) ==
    /\ job.at = "event" /\ job.ev = c
    /\ \/ /\ net[c].up # <<>>
          /\ net' = [net EXCEPT ![c].up = Tail(@)]
          /\ LET me  == peers_data_find(c)
                 msg == [author |-> peers[me].author, text |-> Head(net[c].up)]
             IN  \/ /\ ~Known(c)
                    /\ peers' = [peers EXCEPT ![me].author = Head(net[c].up)]
                    /\ UNCHANGED <<recved, job>>
                 \/ /\ Known(c)
                    /\ recved' = queue_add(recved, msg)
                    /\ job' = SendJob("relay", None, Todo(msg, Recipients(c)))
                    /\ UNCHANGED peers
          /\ UNCHANGED <<started, send, backlog, cli, fed>>
       \/ /\ net[c].up = <<>> /\ net[c].end \in {"fin", "done"}
          /\ chat_server_remove_client(c)
       \/ /\ net[c].up = <<>> /\ net[c].end = "rst"
          /\ net' = [net EXCEPT ![c].end = "done"] /\ job' = Idle
          /\ UNCHANGED <<started, peers, recved, send, backlog, cli, fed>>

-----------------------------------------------------------------------------
(* A client.                                                               *)

\* The program prints what it has received before it goes round its loop.
Flushed(c) == c \in Programs => cli[c].recved = <<>>

\* Mutant: the program carries on after a failed update.
Stops_never(c) == FALSE

\* What the program does about an error: it leaves its loop and exits.
Stops(c) == c \in Programs

\* A connection that fails leaves the socket in place: the client can neither
\* be used nor connect again, and the program gives up.
chat_client_connect(c) ==
    /\ cli[c].st = "new"
    /\ \/ /\ started = "up" /\ cli' = [cli EXCEPT ![c].st = "up"]
          /\ backlog' = Append(backlog, c)
       \/ /\ started # "up" /\ cli' = [cli EXCEPT ![c].st = IF Stops(c) THEN "gone" ELSE "broken"]
          /\ UNCHANGED backlog
    /\ UNCHANGED <<started, peers, recved, send, job, net, fed>>

\* Mutant: the name goes with every message.
NameNeeded_always(c) == TRUE

\* Lines 285-288.
NameNeeded(c) == ~cli[c].name_sended

chat_client_feed(c) ==
    /\ cli[c].st = "up" /\ cli[c].at = "idle" /\ fed[c] < MaxFed[c] /\ Flushed(c)
    /\ fed' = [fed EXCEPT ![c] = @ + 1]
    /\ cli' = [cli EXCEPT ![c].name_sended = TRUE,
                          ![c].send = queue_add(@, [author |-> IF NameNeeded(c) THEN c ELSE None,
                                                    text   |-> Text(c, fed[c] + 1)])]
    /\ UNCHANGED <<serverVars, net>>

chat_client_pop_next(c) ==
    /\ cli[c].at = "idle" /\ cli[c].recved # <<>>
    /\ cli' = [cli EXCEPT ![c].recved = queue_pop(@), ![c].popped = Append(@, Head(cli[c].recved))]
    /\ UNCHANGED <<serverVars, net, fed>>

\* Lines 185-196: epoll_wait, and the oldest message is taken for sending.
chat_client_update(c) ==
    LET nfds == net[c].down # <<>> \/ net[c].srv = "closed"
    IN  /\ cli[c].st = "up" /\ cli[c].at = "idle" /\ Flushed(c)
        /\ \/ /\ cli[c].send = <<>> /\ nfds
              /\ cli' = [cli EXCEPT ![c].at = "recv"]
           \/ /\ cli[c].send # <<>>
              /\ cli' = [cli EXCEPT ![c].at = "send", ![c].nfds = nfds,
                                    ![c].todo = Frames(Head(cli[c].send)), ![c].send = queue_pop(@)]
        /\ UNCHANGED <<serverVars, net, fed>>

ClientReturns(c) == cli' = [cli EXCEPT ![c].at = "idle", ![c].todo = <<>>, ![c].nfds = FALSE,
                                       ![c].auth_name = None]

ClientSent(c) == cli' = [cli EXCEPT
    ![c].todo = Tail(@),
    ![c].at   = IF Len(cli[c].todo) > 1 THEN "send" ELSE IF cli[c].nfds THEN "recv" ELSE "idle",
    ![c].nfds = @ /\ Len(cli[c].todo) > 1]

\* The program ends, in whatever it was doing.
ClientLeaves(c) ==
    /\ cli' = [cli EXCEPT ![c] = [NewClient EXCEPT !.st = "gone"]]
    /\ net' = [net EXCEPT ![c] = Hangup(@)]
    /\ UNCHANGED <<serverVars, fed>>

\* One frame to the server.
ClientSend(c) ==
    /\ cli[c].at = "send"
    /\ \/ /\ net[c].srv = "open" /\ Len(net[c].up) < Capacity
          /\ net' = [net EXCEPT ![c].up = Append(@, Head(cli[c].todo))]
          /\ ClientSent(c)
          /\ UNCHANGED <<serverVars, fed>>
       \/ /\ net[c].srv = "closed"
          /\ ClientSent(c) \/ (~Stops(c) /\ ClientReturns(c))
          /\ UNCHANGED <<serverVars, net, fed>>
       \/ net[c].srv = "closed" /\ ClientLeaves(c)    \* SIGPIPE, or an error

\* The names a client keeps a copy of, for as long as it exists.
find_or_add_authors(authors, name) == authors \cup {name}

\* Lines 197-226: the author, then the text.
ClientRecv(c) ==
    /\ cli[c].at = "recv"
    /\ \/ /\ net[c].down # <<>> /\ cli[c].auth_name = None
          /\ cli' = [cli EXCEPT ![c].auth_name = Head(net[c].down),
                                ![c].authors = find_or_add_authors(@, Head(net[c].down))]
          /\ net' = [net EXCEPT ![c].down = Tail(@)]
       \/ /\ net[c].down # <<>> /\ cli[c].auth_name # None
          /\ cli' = [cli EXCEPT ![c].auth_name = None, ![c].at = "idle",
                                ![c].recved = queue_add(@, [author |-> cli[c].auth_name,
                                                            text   |-> Head(net[c].down)])]
          /\ net' = [net EXCEPT ![c].down = Tail(@)]
       \/ /\ net[c].down = <<>> /\ net[c].srv = "closed"
          /\ IF Stops(c) THEN ClientLeaves(c) ELSE ClientReturns(c) /\ UNCHANGED net
    /\ UNCHANGED <<serverVars, fed>>

-----------------------------------------------------------------------------
ServerStep == \/ \E ev \in Clients \cup {Server, None} : chat_server_update(ev)
              \/ ServerSend \/ Accept \/ \E c \in Clients : ServerRecv(c)
ClientStep(c) == \/ chat_client_update(c) \/ ClientSend(c) \/ ClientRecv(c)
                 \/ c \in Programs /\ chat_client_pop_next(c)

Next == \/ ServerStep \/ chat_server_listen \/ chat_server_delete
        \/ chat_server_feed \/ chat_server_pop_next
        \/ \E c \in Clients : \/ ClientStep(c) \/ chat_client_connect(c)
                              \/ chat_client_feed(c) \/ chat_client_pop_next(c)
                              \/ c \in MayLeave /\ cli[c].st = "up" /\ ClientLeaves(c)

\* Both programs call update as long as there is something to do; epoll hands
\* out the ready sockets in turn.
Spec == /\ Init /\ [][Next]_chatVars
        /\ WF_chatVars(ServerStep)
        /\ \A ev \in Clients \cup {Server} : SF_chatVars(chat_server_update(ev))
        /\ \A c \in Clients : WF_chatVars(ClientStep(c))
=============================================================================
