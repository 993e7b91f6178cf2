----------------------------- MODULE ChatProofs -----------------------------
(***************************************************************************)
(* Proof that the chat mixes up neither names and texts nor messages, and  *)
(* that every client gets the lines of the others in one order, with no    *)
(* gap: for any number of clients and lines, any capacity of the           *)
(* connections, clients and servers that die at any moment.                *)
(***************************************************************************)
EXTENDS ChatProps, SeqLemmas

-----------------------------------------------------------------------------
(* The inductive invariant.                                                *)

Frame  == Parties \cup (Parties \X Nat)
Peer   == [socket : Clients, author : Clients \cup {None}]
Errand == [to : Clients, frames : Seq(Frame)]
CliFields == {"st", "name_sended", "send", "recved", "at", "todo", "nfds", "auth_name",
              "authors", "popped"}

\* The lines p has fed, when F is fed; messages of c without and with its name.
Lines(p, F) == {Text(p, n) : n \in 1..F[p]}
Quiet(c, F) == [author : {None}, text : Lines(c, F)]
Named(c, F) == [author : {c}, text : Lines(c, F)]
Own(c, F)   == Named(c, F) \cup Quiet(c, F)

\* What c may receive from others whose names are in A.
Good(c, F, A) == {m \in [author : Parties \ {c}, text : Parties \X Nat] :
                     m.text \in Lines(m.author, F) /\ m.author \in A}

CliType(k) ==
    /\ DOMAIN k = CliFields /\ k.st \in {"new", "up", "broken", "gone"}
    /\ k.at \in {"idle", "send", "recv"} /\ k.todo \in Seq(Frame)
    /\ k.auth_name \in Parties \cup {None}
NetType(n) ==
    /\ DOMAIN n = {"up", "down", "end", "srv"}
    /\ n.up \in Seq(Frame) /\ Len(n.up) <= Capacity
    /\ n.down \in Seq(Frame) /\ Len(n.down) <= Capacity
    /\ n.srv \in {"open", "closed"} /\ n.end \in {"open", "fin", "rst", "done"}
Types ==
    /\ started \in {"new", "up", "deleted", "dead"}
    /\ DOMAIN cli = Clients /\ DOMAIN net = Clients /\ fed \in [Parties -> Nat]
    /\ \A c \in Clients : CliType(cli[c]) /\ NetType(net[c])

\* One client k and its connection n by themselves, when F is fed.
ClientOK(c, k, n, F) ==
    /\ k.at # "idle" => k.st = "up"
    /\ k.at # "recv" => k.auth_name = None
    /\ k.at = "send" <=> k.todo # <<>>
    /\ k.auth_name # None => k.auth_name \in k.authors
    /\ k.popped \in Seq(Good(c, F, k.authors))
    /\ k.recved \in Seq(Good(c, F, k.authors))
    /\ k.send \in Seq(Own(c, F))
    /\ k.st # "gone" => n.end = "open"
    /\ n.up # <<>> => k.st \in {"up", "gone"}

\* The table P of peers and the queue B of connections.
OncePeer(P) == \A i, j \in 1..Len(P) : P[i].socket = P[j].socket => i = j
SocketsOf(P) == {P[i].socket : i \in 1..Len(P)}
Table(P, B) == /\ P \in Seq(Peer) /\ OncePeer(P)
               /\ B \in Seq(Clients) /\ NoRepeat(B) /\ Elems(B) \cap SocketsOf(P) = {}

\* Who is in them has connected; when the server is not up they are empty.
Connected ==
    /\ \A c \in Elems(backlog) \cup SocketsOf(peers) : cli[c].st \in {"up", "gone"}
    /\ send \in Seq(Named(Server, fed))
    /\ started \in {"new", "up"} => \A c \in Clients : net[c].srv = "open"
    /\ started # "up" => job = Idle /\ peers = <<>> /\ backlog = <<>>

\* The whole message p, x for d.
Whole(d, frames, F) == \E p \in Parties \ {d} : \E x \in Lines(p, F) : frames = <<p, x>>

\* The server's update in progress: its event is still there, and it sends each
\* peer a whole message, or the text to the one that has got the author already.
OnceTo(t) == \A i, j \in 1..Len(t) : t[i].to = t[j].to => i = j
Errands(t, F) ==
    /\ t \in Seq(Errand) /\ OnceTo(t)
    /\ \A i \in 1..Len(t) : \/ Whole(t[i].to, t[i].frames, F)
                            \/ i = 1 /\ Len(t[1].frames) = 1
JobFields(j) ==
    /\ DOMAIN j = {"at", "ev", "todo"} /\ j.at \in {"idle", "send", "event", "relay"}
    /\ j.at \in {"send", "relay"} <=> j.todo # <<>>
Event(j, P, B) ==
    /\ j.ev \in Clients \cup {Server, None}
    /\ j.at \in {"send", "event"} /\ j.ev \in Clients => j.ev \in SocketsOf(P)
    /\ j.at \in {"send", "event"} /\ j.ev = Server => B # <<>>
    /\ j.at = "event" => j.ev # None

\* The name of c, when c has said something, is in front of the texts that are
\* on their way to the server, or the server has it.
NameFirst(s, c, F) == s # <<>> /\ Head(s) = c /\ Tail(s) \in Seq(Lines(c, F))
AuthorIn(c, A, P) == \A i \in 1..Len(P) : P[i].socket = c => P[i].author \in A

NothingSaid(c, k, n, P) ==
    /\ ~k.name_sended /\ k.send = <<>> /\ k.todo = <<>> /\ n.up = <<>> /\ AuthorIn(c, {None}, P)
NameQueued(c, k, n, F, P) ==
    /\ k.st = "up" /\ k.name_sended /\ k.send # <<>>
    /\ Head(k.send) \in Named(c, F) /\ Tail(k.send) \in Seq(Quiet(c, F))
    /\ k.todo = <<>> /\ n.up = <<>> /\ AuthorIn(c, {None}, P)
NameNext(c, k, n, F, P) ==
    /\ k.st = "up" /\ k.name_sended /\ k.send \in Seq(Quiet(c, F)) /\ NameFirst(k.todo, c, F)
    /\ n.up = <<>> /\ AuthorIn(c, {None}, P)
TextsOnly(c, k, F) ==
    /\ k.st \in {"up", "gone"} /\ (k.st = "up" => k.name_sended)
    /\ k.send \in Seq(Quiet(c, F)) /\ k.todo \in Seq(Lines(c, F))
NameSent(c, k, n, F, P) ==
    TextsOnly(c, k, F) /\ NameFirst(n.up, c, F) /\ AuthorIn(c, {None}, P)
NameKnown(c, k, n, F, P, B) ==
    /\ TextsOnly(c, k, F) /\ n.up \in Seq(Lines(c, F)) /\ AuthorIn(c, {c}, P) /\ c \notin Elems(B)
Upstream(c, k, n, F, P, B) ==
    \/ NothingSaid(c, k, n, P) \/ NameQueued(c, k, n, F, P) \/ NameNext(c, k, n, F, P)
    \/ NameSent(c, k, n, F, P) \/ NameKnown(c, k, n, F, P, B)

\* What is on its way to d: an author, a line of this author, an author, ...
Stream(a, s) == IF a = None THEN s ELSE <<a>> \o s
Alternates(s, d, F) == \A i \in 1..Len(s) : IF i % 2 = 1 THEN s[i] \in Parties \ {d}
                                            ELSE s[i] \in Lines(s[i - 1], F)
HalfSent(d, t) == t # <<>> /\ t[1].to = d /\ Len(t[1].frames) = 1

\* The stream s ends where the errands t of the server go on.
Meets(d, s, t, F) ==
    IF HalfSent(d, t) THEN Len(s) % 2 = 1 /\ t[1].frames[1] \in Lines(s[Len(s)], F)
    ELSE Len(s) % 2 = 0
Downstream(d, s, t, up, F) == Alternates(s, d, F) /\ (up => Meets(d, s, t, F))

ServerInv == /\ Types /\ Table(peers, backlog) /\ Connected
             /\ JobFields(job) /\ Event(job, peers, backlog) /\ Errands(job.todo, fed)
ClientInv(c) ==
    /\ ClientOK(c, cli[c], net[c], fed)
    /\ net[c].srv = "open" => Upstream(c, cli[c], net[c], fed, peers, backlog)
    /\ net[c].end = "open" => Downstream(c, Stream(cli[c].auth_name, net[c].down), job.todo,
                                         started \in {"new", "up"}, fed)
ChatInv == ServerInv /\ \A c \in Clients : ClientInv(c)

-----------------------------------------------------------------------------
(* Lines and streams.                                                      *)

\* Nobody is NULL.
LEMMA NobodyIsNone ==
    /\ None \notin Parties /\ None \notin Clients /\ Clients \subseteq Parties /\ Server \in Parties
    /\ Server \notin Clients /\ Server # None
  BY ChatAssumption DEF Parties

\* Lines are frames.
LEMMA LinesAreFrames ==
    ASSUME NEW F \in [Parties -> Nat], NEW p \in Parties
    PROVE  Lines(p, F) \subseteq Parties \X Nat /\ Lines(p, F) \subseteq Frame /\ p \in Frame
  BY DEF Lines, Text, Frame

\* A line more.
OneMore(F, p, G) == G = [F EXCEPT ![p] = @ + 1]

\* One more line of one party is one more line of that party.
LEMMA LinesGrow ==
    ASSUME NEW F \in [Parties -> Nat], NEW p \in Parties, NEW G, OneMore(F, p, G)
    PROVE  /\ G \in [Parties -> Nat] /\ Text(p, F[p] + 1) \in Lines(p, G)
           /\ \A q \in Parties : Lines(q, F) \subseteq Lines(q, G)
           /\ \A q \in Parties \ {p} : Lines(q, F) = Lines(q, G)
  <1>1. G \in [Parties -> Nat] /\ G[p] = F[p] + 1 /\ \A q \in Parties \ {p} : G[q] = F[q]
    BY DEF OneMore
  <1>2. F[p] \in Nat
    OBVIOUS
  <1>3. F[p] + 1 \in 1..G[p] /\ 1..F[p] \subseteq 1..G[p]
    BY <1>1, <1>2
  <1> QED BY <1>1, <1>3 DEF Lines

\* A frame that a stream begins with.
LEMMA ConsIs ==
    ASSUME NEW X, NEW s \in Seq(X), NEW a \in X
    PROVE  /\ <<a>> \o s \in Seq(X) /\ Len(<<a>> \o s) = Len(s) + 1 /\ (<<a>> \o s)[1] = a
           /\ \A i \in 2..(Len(s) + 1) : (<<a>> \o s)[i] = s[i - 1]
  <1>1. <<a>> \in Seq(X) /\ Len(<<a>>) = 1 /\ <<a>>[1] = a /\ Len(s) \in Nat
    OBVIOUS
  <1> DEFINE u == <<a>>
  <1> HIDE DEF u
  <1>2. /\ u \o s \in Seq(X) /\ Len(u \o s) = Len(u) + Len(s)
        /\ \A i \in 1..(Len(u) + Len(s)) : (u \o s)[i] = IF i <= Len(u) THEN u[i] ELSE s[i - Len(u)]
    BY <1>1, ConcatProperties DEF u
  <1>3. Len(u) = 1 /\ u[1] = a
    BY <1>1 DEF u
  <1> QED BY <1>1, <1>2, <1>3 DEF u

\* A stream is a sequence of frames.
LEMMA StreamIs ==
    ASSUME NEW s \in Seq(Frame), NEW a \in Parties \cup {None}
    PROVE  /\ Stream(a, s) \in Seq(Frame) /\ Len(Stream(a, s)) \in Nat
           /\ a = None => Stream(a, s) = s
           /\ a # None => /\ Len(Stream(a, s)) = Len(s) + 1 /\ Stream(a, s)[1] = a
                          /\ \A i \in 2..(Len(s) + 1) : Stream(a, s)[i] = s[i - 1]
  <1>1. CASE a = None
    BY <1>1, LenProperties DEF Stream
  <1>2. CASE a # None
    <2>1. a \in Frame /\ Stream(a, s) = <<a>> \o s /\ Len(s) \in Nat
      BY <1>2, LenProperties DEF Stream, Frame
    <2> QED BY <1>2, <2>1, ConsIs
  <1> QED BY <1>1, <1>2

\* A frame sent is the last of the stream.
LEMMA StreamAppend ==
    ASSUME NEW s \in Seq(Frame), NEW a \in Parties \cup {None}, NEW x \in Frame
    PROVE  Stream(a, Append(s, x)) = Append(Stream(a, s), x)
  <1>1. CASE a = None
    BY <1>1 DEF Stream
  <1>2. CASE a # None
    <2> DEFINE l == Stream(a, Append(s, x))  t == Stream(a, s)  r == Append(t, x)  n == Len(s)
    <2>1. Append(s, x) \in Seq(Frame) /\ Len(Append(s, x)) = n + 1 /\ n \in Nat
          /\ (\A i \in 1..n : Append(s, x)[i] = s[i]) /\ Append(s, x)[n + 1] = x
      BY AppendProperties, LenProperties
    <2>2. /\ t \in Seq(Frame) /\ Len(t) = n + 1 /\ t[1] = a /\ \A i \in 2..(n + 1) : t[i] = s[i - 1]
      BY <1>2, StreamIs
    <2> DEFINE sx == Append(s, x)
    <2> HIDE DEF sx
    <2>31. sx \in Seq(Frame) /\ Len(sx) = n + 1
      BY <2>1 DEF sx
    <2>32. /\ Stream(a, sx) \in Seq(Frame) /\ Len(Stream(a, sx)) = Len(sx) + 1 /\ Stream(a, sx)[1] = a
           /\ \A i \in 2..(Len(sx) + 1) : Stream(a, sx)[i] = sx[i - 1]
      BY <1>2, <2>31, StreamIs
    <2>33. l = Stream(a, sx)
      BY DEF sx
    <2>34. Len(sx) + 1 = n + 2
      BY <2>1, <2>31
    <2>3. /\ l \in Seq(Frame) /\ Len(l) = n + 2 /\ l[1] = a /\ \A i \in 2..(n + 2) : l[i] = sx[i - 1]
      BY <2>32, <2>33, <2>34
    <2>4. /\ r \in Seq(Frame) /\ Len(r) = n + 2 /\ (\A i \in 1..(n + 1) : r[i] = t[i]) /\ r[n + 2] = x
      BY <2>1, <2>2, AppendProperties
    <2>6. (\A i \in 1..n : sx[i] = s[i]) /\ sx[n + 1] = x /\ \A i \in 2..(n + 2) : l[i] = sx[i - 1]
      BY <2>1, <2>3 DEF sx
    <2> HIDE DEF l, t, r, n
    <2>7. ASSUME NEW i \in 1..(n + 2) PROVE l[i] = r[i]
      <3>1. n \in Nat
        BY <2>1
      <3>2. CASE i = 1
        BY <2>2, <2>3, <2>4, <3>1, <3>2
      <3>3. CASE i \in 2..(n + 1)
        <4>1. i - 1 \in 1..n /\ i \in 2..(n + 2) /\ i \in 1..(n + 1)
          BY <3>1, <3>3
        <4> QED BY <2>2, <2>4, <2>6, <3>3, <4>1
      <3>4. CASE i = n + 2
        <4>1. i - 1 = n + 1 /\ i \in 2..(n + 2)
          BY <3>1, <3>4
        <4> QED BY <2>4, <2>6, <3>4, <4>1
      <3> QED BY <3>1, <3>2, <3>3, <3>4
    <2>8. l = r
      BY <2>3, <2>4, <2>7, SeqEqual
    <2> QED BY <2>8 DEF l, t, r
  <1> QED BY <1>1, <1>2

\* The author leaves the connection for auth_name: the stream is the same.
LEMMA AuthorRead ==
    ASSUME NEW s \in Seq(Frame), s # <<>>, Head(s) \in Parties
    PROVE  Stream(Head(s), Tail(s)) = s
  <1> DEFINE a == Head(s)  t == Tail(s)  r == Stream(a, t)
  <1>1. /\ t \in Seq(Frame) /\ Len(t) = Len(s) - 1 /\ \A i \in 1..Len(t) : t[i] = s[i + 1]
    BY HeadTailProperties
  <1>2. Len(s) \in Nat \ {0} /\ a = s[1] /\ a # None /\ a \in Parties
    BY NobodyIsNone
  <1>3. /\ r \in Seq(Frame) /\ Len(r) = Len(t) + 1 /\ r[1] = a
        /\ \A i \in 2..(Len(t) + 1) : r[i] = t[i - 1]
    BY <1>1, <1>2, StreamIs
  <1> HIDE DEF a, t, r
  <1>4. Len(r) = Len(s)
    BY <1>1, <1>2, <1>3
  <1>5. ASSUME NEW i \in 1..Len(r) PROVE r[i] = s[i]
    <2>1. CASE i = 1
      BY <1>2, <1>3, <2>1
    <2>2. CASE i # 1
      <3>1. i - 1 \in 1..Len(t) /\ i \in 2..(Len(t) + 1) /\ (i - 1) + 1 = i
        BY <1>1, <1>2, <1>4, <2>2
      <3> QED BY <1>1, <1>3, <3>1
    <2> QED BY <2>1, <2>2
  <1> QED BY <1>3, <1>4, <1>5, SeqEqual DEF r, a, t

-----------------------------------------------------------------------------
(* Queues of messages.                                                     *)

\* Sets of messages and lines grow with what is fed.
LEMMA SetsGrow ==
    ASSUME NEW F \in [Parties -> Nat], NEW p \in Parties, NEW G, OneMore(F, p, G)
    PROVE  /\ \A q \in Parties : /\ Lines(q, F) \subseteq Lines(q, G)
                                 /\ Quiet(q, F) \subseteq Quiet(q, G)
                                 /\ Named(q, F) \subseteq Named(q, G) /\ Own(q, F) \subseteq Own(q, G)
           /\ \A q, A : Good(q, F, A) \subseteq Good(q, G, A)
  <1>1. \A q \in Parties : Lines(q, F) \subseteq Lines(q, G)
    BY LinesGrow
  <1> QED BY <1>1 DEF Quiet, Named, Own, Good

\* A queue of one message.
LEMMA QueueOne ==
    ASSUME NEW x
    PROVE  /\ Append(<<>>, x) # <<>> /\ Head(Append(<<>>, x)) = x /\ Tail(Append(<<>>, x)) = <<>>
           /\ Append(<<>>, x) = <<x>>
  OBVIOUS

\* One frame less of a name and texts, or of texts only.
LEMMA FramesAre ==
    ASSUME NEW c \in Clients, NEW F \in [Parties -> Nat], NEW m
    PROVE  /\ m \in Quiet(c, F) => Frames(m) \in Seq(Lines(c, F)) /\ Frames(m) # <<>>
           /\ m \in Named(c, F) => NameFirst(Frames(m), c, F)
           /\ m \in Own(c, F) => Frames(m) \in Seq(Frame) /\ Frames(m) # <<>>
  <1>1. ASSUME m \in Quiet(c, F) PROVE Frames(m) \in Seq(Lines(c, F)) /\ Frames(m) # <<>>
    <2>1. m.author = None /\ m.text \in Lines(c, F)
      BY <1>1 DEF Quiet
    <2> QED BY <2>1 DEF Frames
  <1>2. ASSUME m \in Named(c, F) PROVE NameFirst(Frames(m), c, F)
    <2>1. m.author = c /\ m.author # None /\ m.text \in Lines(c, F)
      BY <1>2, NobodyIsNone DEF Named
    <2>2. Frames(m) = <<c, m.text>>
      BY <2>1 DEF Frames
    <2>3. <<c, m.text>> # <<>> /\ Head(<<c, m.text>>) = c /\ Tail(<<c, m.text>>) = <<m.text>>
      OBVIOUS
    <2>4. <<m.text>> \in Seq(Lines(c, F))
      BY <2>1
    <2> QED BY <2>2, <2>3, <2>4 DEF NameFirst
  <1>3. ASSUME m \in Own(c, F) PROVE Frames(m) \in Seq(Frame) /\ Frames(m) # <<>>
    <2>1. (m.author = None \/ m.author = c) /\ m.text \in Lines(c, F)
      BY <1>3 DEF Own, Named, Quiet
    <2>2. c \in Frame /\ m.text \in Frame
      BY <2>1, LinesAreFrames, NobodyIsNone
    <2> QED BY <2>1, <2>2 DEF Frames
  <1> QED BY <1>1, <1>2, <1>3

-----------------------------------------------------------------------------
(* What a client says, on its way to the server.                           *)

\* What others feed does not matter to it.
LEMMA UpstreamLines ==
    ASSUME NEW c, NEW F, NEW G, NEW k, NEW n, NEW P, NEW B, Lines(c, F) = Lines(c, G),
           Upstream(c, k, n, F, P, B)
    PROVE  Upstream(c, k, n, G, P, B)
  BY DEF Upstream, NameQueued, NameNext, NameSent, NameKnown, TextsOnly, NameFirst, Quiet, Named

\* Only four fields of the client matter.
LEMMA UpstreamFields ==
    ASSUME NEW c, NEW F, NEW k, NEW k2, NEW n, NEW n2, NEW P, NEW B, Upstream(c, k, n, F, P, B),
           k2.st = k.st, k2.name_sended = k.name_sended, k2.send = k.send, k2.todo = k.todo,
           n2.up = n.up
    PROVE  Upstream(c, k2, n2, F, P, B)
  BY DEF Upstream, NothingSaid, NameQueued, NameNext, NameSent, NameKnown, TextsOnly

\* The server's tables matter less and less.
LEMMA UpstreamTables ==
    ASSUME NEW c, NEW F, NEW k, NEW n, NEW P, NEW B, NEW Q, NEW D, Upstream(c, k, n, F, P, B),
           \A A : AuthorIn(c, A, P) => AuthorIn(c, A, Q), c \in Elems(D) => c \in Elems(B)
    PROVE  Upstream(c, k, n, F, Q, D)
  BY DEF Upstream, NothingSaid, NameQueued, NameNext, NameSent, NameKnown

\* A client that connects has said nothing.
LEMMA UpstreamConnect ==
    ASSUME NEW c, NEW F, NEW k, NEW k2, NEW n, NEW P, NEW B, NEW D, Upstream(c, k, n, F, P, B),
           k.st \notin {"up", "gone"}, k2.name_sended = k.name_sended, k2.send = k.send, k2.todo = k.todo
    PROVE  Upstream(c, k2, n, F, P, D)
  BY DEF Upstream, NothingSaid, NameQueued, NameNext, NameSent, NameKnown, TextsOnly

\* chat_client_feed: a line more in the queue, the first one with the name.
LEMMA UpstreamFeed ==
    ASSUME NEW c, NEW F, NEW G, NEW k, NEW k2, NEW n, NEW P, NEW B, NEW m,
           Lines(c, F) \subseteq Lines(c, G), Upstream(c, k, n, F, P, B), k.st = "up",
           k2.st = "up", k2.name_sended, k2.todo = k.todo, k2.send = Append(k.send, m),
           k.send \in Seq(Own(c, F)),
           k.name_sended => m \in Quiet(c, G), ~k.name_sended => m \in Named(c, G)
    PROVE  Upstream(c, k2, n, G, P, B)
  <1>2. Quiet(c, F) \subseteq Quiet(c, G) /\ Named(c, F) \subseteq Named(c, G)
    BY DEF Quiet, Named
  <1>5. ASSUME k.send \in Seq(Quiet(c, F)), k.name_sended PROVE k2.send \in Seq(Quiet(c, G))
    <2>1. k.send \in Seq(Quiet(c, G)) /\ m \in Quiet(c, G)
      BY <1>2, <1>5, SeqMonotonic
    <2> QED BY <2>1, AppendProperties
  <1>6. ASSUME NEW s, s \in Seq(Lines(c, F)) PROVE s \in Seq(Lines(c, G))
    BY <1>6, SeqMonotonic
  <1>7. CASE NothingSaid(c, k, n, P)
    <2>1. /\ k2.send # <<>> /\ Head(k2.send) = m /\ Tail(k2.send) = <<>> /\ m \in Named(c, G)
          /\ k2.send = <<m>>
      BY <1>7, QueueOne DEF NothingSaid
    <2> QED BY <1>7, <2>1 DEF Upstream, NothingSaid, NameQueued
  <1>8. CASE NameQueued(c, k, n, F, P)
    <2> DEFINE X == Own(c, F)
               Y == Own(c, G)
    <2>1. m \in Quiet(c, G) /\ k.send # <<>> /\ Tail(k.send) \in Seq(Quiet(c, G)) /\
            Head(k.send) \in Named(c, G)
      BY <1>2, <1>8, SeqMonotonic DEF NameQueued
    <2>2. X \subseteq Y /\ k.send \in Seq(X) /\ m \in Y
      BY <1>2, <1>8, <2>1 DEF Own
    <2> HIDE DEF X, Y
    <2>3. k.send \in Seq(Y) /\ m \in Y
      BY <2>2, SeqMonotonic
    <2>4. /\ k2.send # <<>> /\ Head(k2.send) = Head(k.send)
          /\ Tail(k2.send) = Append(Tail(k.send), m)
      BY <2>1, <2>3, AppendProperties, HeadTailAppend
    <2>5. Tail(k2.send) \in Seq(Quiet(c, G))
      BY <2>1, <2>4, AppendProperties
    <2> QED BY <1>8, <2>1, <2>4, <2>5 DEF Upstream, NameQueued
  <1>9. CASE NameNext(c, k, n, F, P)
    BY <1>5, <1>6, <1>9 DEF Upstream, NameNext, NameFirst
  <1>10. CASE NameSent(c, k, n, F, P)
    BY <1>5, <1>6, <1>10 DEF Upstream, NameSent, TextsOnly, NameFirst
  <1>11. CASE NameKnown(c, k, n, F, P, B)
    BY <1>5, <1>6, <1>11 DEF Upstream, NameKnown, TextsOnly
  <1> QED BY <1>7, <1>8, <1>9, <1>10, <1>11 DEF Upstream

\* chat_client_update: the oldest message becomes frames.
LEMMA UpstreamTake ==
    ASSUME NEW c \in Clients, NEW F \in [Parties -> Nat], NEW k, NEW k2, NEW n, NEW P, NEW B,
           Upstream(c, k, n, F, P, B), k.todo = <<>>, k.send # <<>>, k2.st = k.st,
           k2.name_sended = k.name_sended, k2.send = Tail(k.send), k2.todo = Frames(Head(k.send))
    PROVE  Upstream(c, k2, n, F, P, B) /\ k2.todo # <<>>
  <1>1. CASE NameQueued(c, k, n, F, P)
    <2>1. NameFirst(k2.todo, c, F)
      BY <1>1, FramesAre DEF NameQueued
    <2> QED BY <1>1, <2>1 DEF Upstream, NameQueued, NameNext, NameFirst
  <1>2. ASSUME TextsOnly(c, k, F) PROVE TextsOnly(c, k2, F) /\ k2.todo # <<>>
    <2>1. Head(k.send) \in Quiet(c, F) /\ Tail(k.send) \in Seq(Quiet(c, F))
      BY <1>2, HeadTailProperties DEF TextsOnly
    <2>2. Frames(Head(k.send)) \in Seq(Lines(c, F)) /\ Frames(Head(k.send)) # <<>>
      BY <2>1, FramesAre
    <2> QED BY <1>2, <2>1, <2>2 DEF TextsOnly
  <1>3. CASE NameSent(c, k, n, F, P)
    BY <1>2, <1>3 DEF Upstream, NameSent
  <1>4. CASE NameKnown(c, k, n, F, P, B)
    BY <1>2, <1>4 DEF Upstream, NameKnown
  <1>5. ~NothingSaid(c, k, n, P) /\ ~NameNext(c, k, n, F, P)
    BY DEF NothingSaid, NameNext, NameFirst
  <1> QED BY <1>1, <1>3, <1>4, <1>5 DEF Upstream

\* ClientSend: a frame goes from the client to the connection.
LEMMA UpstreamSend ==
    ASSUME NEW c \in Clients, NEW F \in [Parties -> Nat], NEW k, NEW k2, NEW n, NEW n2, NEW P, NEW B,
           Upstream(c, k, n, F, P, B), k.todo # <<>>, k2.st = k.st, n.up \in Seq(Frame),
           k2.name_sended = k.name_sended, k2.send = k.send, k2.todo = Tail(k.todo),
           n2.up = Append(n.up, Head(k.todo))
    PROVE  Upstream(c, k2, n2, F, P, B)
  <1> DEFINE x == Head(k.todo)
  <1>0. n2.up = Append(n.up, x)
    OBVIOUS
  <1> HIDE DEF x
  <1>1. CASE NameNext(c, k, n, F, P)
    <2>1. /\ n2.up # <<>> /\ Head(n2.up) = c /\ Tail(n2.up) = <<>> /\ k2.todo \in Seq(Lines(c, F))
          /\ k.st = "up" /\ k.name_sended /\ k.send \in Seq(Quiet(c, F)) /\ AuthorIn(c, {None}, P)
      BY <1>0, <1>1, QueueOne DEF NameNext, NameFirst, x
    <2> QED BY SMTT(40), <2>1 DEF Upstream, NameSent, TextsOnly, NameFirst
  <1>2. ASSUME TextsOnly(c, k, F) PROVE TextsOnly(c, k2, F) /\ x \in Lines(c, F)
    <2>1. x \in Lines(c, F) /\ Tail(k.todo) \in Seq(Lines(c, F))
      BY <1>2, HeadTailProperties DEF TextsOnly, x
    <2> QED BY <1>2, <2>1 DEF TextsOnly
  <1>3. CASE NameSent(c, k, n, F, P)
    <2>1. TextsOnly(c, k2, F) /\ x \in Lines(c, F) /\ NameFirst(n.up, c, F) /\ AuthorIn(c, {None}, P)
      BY <1>2, <1>3 DEF NameSent
    <2>2. x \in Frame
      BY <2>1, LinesAreFrames, NobodyIsNone
    <2>3. n.up # <<>> /\ n2.up # <<>> /\ Head(n2.up) = Head(n.up) /\ Tail(n2.up) = Append(Tail(n.up), x)
      BY SMTT(40), <1>0, <2>1, <2>2, AppendProperties, HeadTailAppend DEF NameFirst
    <2>4. Tail(n.up) \in Seq(Lines(c, F)) /\ Head(n.up) = c
      BY <2>1 DEF NameFirst
    <2>5. Tail(n2.up) \in Seq(Lines(c, F))
      BY <2>1, <2>3, <2>4, AppendProperties
    <2> QED BY <2>1, <2>3, <2>4, <2>5 DEF Upstream, NameSent, NameFirst
  <1>4. CASE NameKnown(c, k, n, F, P, B)
    <2>1. x \in Lines(c, F) /\ n.up \in Seq(Lines(c, F))
      BY <1>2, <1>4 DEF NameKnown
    <2>2. n2.up \in Seq(Lines(c, F))
      BY <1>0, <2>1, AppendProperties
    <2> QED BY <1>2, <1>4, <2>2 DEF Upstream, NameKnown
  <1>5. ~NothingSaid(c, k, n, P) /\ ~NameQueued(c, k, n, F, P)
    BY DEF NothingSaid, NameQueued
  <1> QED BY <1>1, <1>3, <1>4, <1>5 DEF Upstream

\* ClientLeaves: what it has not sent is lost, what is under way is not.
LEMMA UpstreamLeave ==
    ASSUME NEW c, NEW F, NEW k, NEW k2, NEW n, NEW n2, NEW P, NEW B, Upstream(c, k, n, F, P, B),
           k2.st = "gone", ~k2.name_sended, k2.send = <<>>, k2.todo = <<>>, n2.up = n.up
    PROVE  Upstream(c, k2, n2, F, P, B)
  <1>1. k2.send \in Seq(Quiet(c, F)) /\ k2.todo \in Seq(Lines(c, F))
    OBVIOUS
  <1> QED BY <1>1 DEF Upstream, NothingSaid, NameQueued, NameNext, NameSent, NameKnown, TextsOnly

\* ServerRecv: the first frame is the name, the others are lines.
LEMMA UpstreamName ==
    ASSUME NEW c \in Clients, NEW F, NEW k, NEW n, NEW n2, NEW P, NEW Q, NEW B, NEW i \in 1..Len(P),
           Upstream(c, k, n, F, P, B), n.up # <<>>, n2.up = Tail(n.up), c \notin Elems(B),
           P[i].socket = c, P[i].author = None, AuthorIn(c, {Head(n.up)}, Q)
    PROVE  Head(n.up) = c /\ Upstream(c, k, n2, F, Q, B)
  <1>1. ~NameKnown(c, k, n, F, P, B)
    BY NobodyIsNone DEF NameKnown, AuthorIn
  <1>2. NameSent(c, k, n, F, P)
    BY <1>1 DEF Upstream, NothingSaid, NameQueued, NameNext
  <1> QED BY <1>2 DEF Upstream, NameSent, NameFirst, NameKnown

\* The next line of a peer with a name is its client's next line.
LEMMA UpstreamText ==
    ASSUME NEW c \in Clients, NEW F, NEW k, NEW n, NEW n2, NEW P, NEW B, NEW i \in 1..Len(P),
           Upstream(c, k, n, F, P, B), n.up # <<>>, n2.up = Tail(n.up),
           P[i].socket = c, P[i].author # None
    PROVE  P[i].author = c /\ Head(n.up) \in Lines(c, F) /\ Upstream(c, k, n2, F, P, B)
  <1>1. NameKnown(c, k, n, F, P, B)
    BY DEF Upstream, NothingSaid, NameQueued, NameNext, NameSent, AuthorIn
  <1>2. n.up \in Seq(Lines(c, F)) /\ P[i].author = c
    BY <1>1 DEF NameKnown, AuthorIn
  <1>3. Head(n.up) \in Lines(c, F) /\ Tail(n.up) \in Seq(Lines(c, F))
    BY <1>2, HeadTailProperties
  <1> QED BY <1>1, <1>2, <1>3 DEF Upstream, NameKnown

-----------------------------------------------------------------------------
(* What the server sends, on its way to a client.                          *)

\* More lines change nothing.
LEMMA DownstreamGrow ==
    ASSUME NEW F \in [Parties -> Nat], NEW G, \A q \in Parties : Lines(q, F) \subseteq Lines(q, G),
           NEW d, NEW s, s \in Seq(Frame), NEW t, NEW up \in BOOLEAN, Downstream(d, s, t, up, F)
    PROVE  Downstream(d, s, t, up, G)
  <1>1. Len(s) \in Nat
    BY LenProperties
  <1>2. Alternates(s, d, F)
    BY DEF Downstream
  <1>3. ASSUME NEW i \in 1..Len(s), i % 2 # 1 PROVE i - 1 \in 1..Len(s) /\ (i - 1) % 2 = 1
    BY <1>1, <1>3
  <1>4. ASSUME NEW i \in 1..Len(s), i % 2 = 1 PROVE s[i] \in Parties
    BY <1>2, <1>4 DEF Alternates
  <1>5. Alternates(s, d, G)
    <2>1. ASSUME NEW i \in 1..Len(s), i % 2 # 1 PROVE s[i] \in Lines(s[i - 1], G)
      <3>1. s[i] \in Lines(s[i - 1], F)
        BY <1>2, <2>1 DEF Alternates
      <3>2. s[i - 1] \in Parties
        BY <1>3, <1>4, <2>1
      <3> QED BY <3>1, <3>2
    <2> QED BY <1>2, <2>1 DEF Alternates
  <1>6. ASSUME Meets(d, s, t, F) PROVE Meets(d, s, t, G)
    <2>1. ASSUME Len(s) % 2 = 1 PROVE s[Len(s)] \in Parties
      <3>1. Len(s) \in 1..Len(s)
        BY <1>1, <2>1
      <3> QED BY <1>4, <2>1, <3>1
    <2> QED BY <1>6, <2>1 DEF Meets
  <1> QED BY <1>5, <1>6 DEF Downstream

\* An author at the end, a text at the end.
LEMMA AlternatesAuthor ==
    ASSUME NEW s \in Seq(Frame), NEW d, NEW F, Alternates(s, d, F), Len(s) % 2 = 0,
           NEW p \in Parties \ {d}
    PROVE  /\ Alternates(Append(s, p), d, F) /\ Len(Append(s, p)) % 2 = 1
           /\ Append(s, p)[Len(Append(s, p))] = p
  <1> DEFINE r == Append(s, p)
  <1>1. p \in Frame /\ Len(s) \in Nat
    BY LenProperties DEF Frame
  <1>2. /\ Len(r) = Len(s) + 1 /\ (\A i \in 1..Len(s) : r[i] = s[i]) /\ r[Len(s) + 1] = p
    BY <1>1, AppendProperties
  <1> HIDE DEF r
  <1>3. Len(r) % 2 = 1
    BY <1>1, <1>2
  <1>4. ASSUME NEW i \in 1..Len(r)
        PROVE  IF i % 2 = 1 THEN r[i] \in Parties \ {d} ELSE r[i] \in Lines(r[i - 1], F)
    <2>1. CASE i \in 1..Len(s)
      <3>1. r[i] = s[i] /\ (i % 2 # 1 => i - 1 \in 1..Len(s))
        BY <1>1, <1>2, <2>1
      <3> QED BY <1>2, <2>1, <3>1 DEF Alternates
    <2>2. CASE i = Len(r)
      BY <1>1, <1>2, <1>3, <2>2
    <2> QED BY <1>1, <1>2, <2>1, <2>2
  <1> QED BY <1>2, <1>3, <1>4 DEF Alternates, r

\* A line behind its author keeps the stream alternating.
LEMMA AlternatesText ==
    ASSUME NEW s \in Seq(Frame), NEW d, NEW F, Alternates(s, d, F), Len(s) % 2 = 1,
           NEW x \in Lines(s[Len(s)], F), x \in Frame
    PROVE  Alternates(Append(s, x), d, F) /\ Len(Append(s, x)) % 2 = 0
  <1> DEFINE r == Append(s, x)
  <1>1. Len(s) \in Nat \ {0}
    BY LenProperties
  <1>2. /\ Len(r) = Len(s) + 1 /\ (\A i \in 1..Len(s) : r[i] = s[i]) /\ r[Len(s) + 1] = x
    BY <1>1, AppendProperties
  <1> HIDE DEF r
  <1>3. Len(r) % 2 = 0
    BY <1>1, <1>2
  <1>4. ASSUME NEW i \in 1..Len(r)
        PROVE  IF i % 2 = 1 THEN r[i] \in Parties \ {d} ELSE r[i] \in Lines(r[i - 1], F)
    <2>1. CASE i \in 1..Len(s)
      <3>1. r[i] = s[i] /\ (i % 2 # 1 => i - 1 \in 1..Len(s))
        BY <1>1, <1>2, <2>1
      <3> QED BY <1>2, <2>1, <3>1 DEF Alternates
    <2>2. CASE i = Len(r)
      <3>1. i - 1 = Len(s) /\ i - 1 \in 1..Len(s) /\ i % 2 # 1
        BY <1>1, <1>2, <1>3, <2>2
      <3> QED BY <1>2, <2>2, <3>1
    <2> QED BY <1>1, <1>2, <2>1, <2>2
  <1> QED BY <1>2, <1>3, <1>4 DEF Alternates, r

\* An author and a text off the front.
LEMMA AlternatesRead ==
    ASSUME NEW a \in Parties, NEW s \in Seq(Frame), s # <<>>, NEW d, NEW F, NEW t, NEW up \in BOOLEAN,
           Downstream(d, Stream(a, s), t, up, F)
    PROVE  /\ a \in Parties \ {d} /\ Head(s) \in Lines(a, F)
           /\ Downstream(d, Tail(s), t, up, F)
  <1> DEFINE z == Stream(a, s)  r == Tail(s)
  <1>1. Len(s) \in Nat \ {0} /\ a # None
    BY NobodyIsNone, EmptySeq
  <1>2. Len(z) = Len(s) + 1 /\ z[1] = a /\ \A i \in 2..(Len(s) + 1) : z[i] = s[i - 1]
    BY <1>1, StreamIs
  <1>3. r \in Seq(Frame) /\ Len(r) = Len(s) - 1 /\ \A i \in 1..Len(r) : r[i] = s[i + 1]
    BY HeadTailProperties
  <1>4. Alternates(z, d, F) /\ (up => Meets(d, z, t, F))
    BY DEF Downstream
  <1>5. Head(s) = s[1]
    OBVIOUS
  <1> HIDE DEF z, r
  <1>6. ASSUME NEW i \in 1..Len(r) PROVE r[i] = z[i + 2] /\ i + 2 \in 1..Len(z)
    <2>1. (i + 2) - 1 = i + 1 /\ i + 2 \in 2..(Len(s) + 1) /\ i + 2 \in 1..Len(z)
      BY <1>1, <1>2, <1>3
    <2> QED BY <1>2, <1>3, <2>1
  <1>7. a \in Parties \ {d} /\ Head(s) \in Lines(a, F)
    <2>1. 1 \in 1..Len(z) /\ 2 \in 1..Len(z) /\ 2 \in 2..(Len(s) + 1)
      BY <1>1, <1>2
    <2>2. z[2] = s[1]
      BY <1>2, <2>1
    <2>3. z[1] \in Parties \ {d} /\ z[2] \in Lines(z[1], F)
      BY <1>4, <2>1 DEF Alternates
    <2> QED BY <1>2, <1>5, <2>2, <2>3
  <1>8. Alternates(r, d, F)
    <2>1. ASSUME NEW i \in 1..Len(r)
          PROVE  IF i % 2 = 1 THEN r[i] \in Parties \ {d} ELSE r[i] \in Lines(r[i - 1], F)
      <3>1. i + 2 \in 1..Len(z) /\ r[i] = z[i + 2] /\ ((i + 2) % 2 = 1 <=> i % 2 = 1)
        BY <1>6
      <3>2. IF (i + 2) % 2 = 1 THEN z[i + 2] \in Parties \ {d} ELSE z[i + 2] \in Lines(z[(i + 2) - 1], F)
        BY <1>4, <3>1 DEF Alternates
      <3>3. ASSUME i % 2 # 1 PROVE r[i - 1] = z[(i + 2) - 1]
        <4>1. i - 1 \in 1..Len(r) /\ (i - 1) + 2 = (i + 2) - 1
          BY <1>1, <1>3, <3>3
        <4> QED BY <1>6, <4>1
      <3> QED BY <3>1, <3>2, <3>3
    <2> QED BY <2>1 DEF Alternates
  <1>9. ASSUME Meets(d, z, t, F) PROVE Meets(d, r, t, F)
    <2>1. Len(r) % 2 = Len(z) % 2 /\ Len(r) + 2 = Len(z)
      BY <1>1, <1>2, <1>3
    <2>2. ASSUME Len(z) % 2 = 1 PROVE r[Len(r)] = z[Len(z)]
      <3>1. Len(r) \in 1..Len(r)
        BY <1>1, <1>3, <2>1, <2>2
      <3> QED BY <1>6, <2>1, <3>1
    <2> QED BY <1>9, <2>1, <2>2 DEF Meets
  <1> QED BY <1>4, <1>7, <1>8, <1>9 DEF Downstream, z, r

\* The author off the front: the stream stays what it is.
LEMMA AuthorNext ==
    ASSUME NEW s \in Seq(Frame), s # <<>>, NEW d, NEW F, Alternates(s, d, F)
    PROVE  Head(s) \in Parties \ {d} /\ Stream(Head(s), Tail(s)) = s
  <1>1. 1 \in 1..Len(s) /\ Head(s) = s[1]
    OBVIOUS
  <1>2. Head(s) \in Parties \ {d}
    BY <1>1 DEF Alternates
  <1> QED BY <1>2, AuthorRead

\* Errands that d has no half of.
LEMMA DownstreamOther ==
    ASSUME NEW d, NEW s, NEW t, NEW t2, NEW up, NEW F, Downstream(d, s, t, up, F),
           ~HalfSent(d, t), ~HalfSent(d, t2)
    PROVE  Downstream(d, s, t2, up, F)
  BY DEF Downstream, Meets

\* Who has got half a message is the first in the errands.
LEMMA HalfSentFirst ==
    ASSUME NEW t, NEW d, t # <<>>, t[1].to # d
    PROVE  ~HalfSent(d, t)
  BY DEF HalfSent

\* ServerSend: the author of a whole message, or the text.
LEMMA DownstreamSend ==
    ASSUME NEW s \in Seq(Frame), NEW d \in Clients, NEW F \in [Parties -> Nat], NEW t, NEW t2,
           Errands(t, F), t # <<>>, t[1].to = d, Downstream(d, s, t, TRUE, F),
           IF Len(t[1].frames) = 1 THEN ~HalfSent(d, t2)
           ELSE t2 # <<>> /\ t2[1].to = d /\ t2[1].frames = Tail(t[1].frames)
    PROVE  Head(t[1].frames) \in Frame /\ Downstream(d, Append(s, Head(t[1].frames)), t2, TRUE, F)
  <1> DEFINE f == t[1].frames
  <1>0. 1 \in 1..Len(t) /\ t[1] \in Errand /\ f \in Seq(Frame)
    <2>1. t \in Seq(Errand) /\ Len(t) \in Nat \ {0}
      BY EmptySeq DEF Errands
    <2>2. 1 \in 1..Len(t)
      BY <2>1
    <2>3. t[1] \in Errand
      BY <2>1, <2>2, ElementOfSeq
    <2> QED BY <2>2, <2>3 DEF Errand
  <1>1. Alternates(s, d, F) /\ Meets(d, s, t, F)
    BY DEF Downstream
  <1>2. CASE Len(f) = 1
    <2>1. HalfSent(d, t) /\ Head(f) = f[1] /\ f[1] \in Frame
      BY <1>0, <1>2 DEF HalfSent
    <2>2. Len(s) % 2 = 1 /\ f[1] \in Lines(s[Len(s)], F)
      BY <1>1, <2>1 DEF Meets
    <2>3. Alternates(Append(s, f[1]), d, F) /\ Len(Append(s, f[1])) % 2 = 0
      BY <1>1, <2>1, <2>2, AlternatesText
    <2> QED BY <1>2, <2>1, <2>3 DEF Downstream, Meets
  <1>3. CASE Len(f) # 1
    <2>1. PICK p \in Parties \ {d} : \E x \in Lines(p, F) : f = <<p, x>>
      BY <1>0, <1>3 DEF Errands, Whole
    <2>2. PICK x \in Lines(p, F) : f = <<p, x>>
      BY <2>1
    <2>3. Head(f) = p /\ Tail(f) = <<x>> /\ p \in Frame
      BY <2>1, <2>2 DEF Frame
    <2>4. ~HalfSent(d, t)
      BY <1>3 DEF HalfSent
    <2>5. Len(s) % 2 = 0
      BY <1>1, <2>4 DEF Meets
    <2>6. /\ Alternates(Append(s, p), d, F) /\ Len(Append(s, p)) % 2 = 1
          /\ Append(s, p)[Len(Append(s, p))] = p
      BY <1>1, <2>1, <2>5, AlternatesAuthor
    <2>7. t2 # <<>> /\ t2[1].to = d /\ t2[1].frames = <<x>>
      BY <1>3, <2>3
    <2>8. t2[1].frames[1] = x /\ Len(t2[1].frames) = 1
      BY <2>7
    <2> QED BY <2>3, <2>6, <2>7, <2>8 DEF Downstream, Meets, HalfSent
  <1> QED BY <1>2, <1>3

-----------------------------------------------------------------------------
(* The server's errands and its table of peers.                            *)

\* More lines change nothing.
LEMMA ErrandsGrow ==
    ASSUME NEW F, NEW G, \A q \in Parties : Lines(q, F) \subseteq Lines(q, G), NEW t, Errands(t, F)
    PROVE  Errands(t, G)
  <1>1. ASSUME NEW d, NEW f, Whole(d, f, F) PROVE Whole(d, f, G)
    BY <1>1 DEF Whole
  <1> QED BY <1>1 DEF Errands

\* Whole messages are no half ones.
LEMMA WholeNotHalf ==
    ASSUME NEW t, NEW d, NEW F, t # <<>> => Whole(t[1].to, t[1].frames, F)
    PROVE  ~HalfSent(d, t)
  <1>1. ASSUME NEW p, NEW x PROVE Len(<<p, x>>) # 1
    OBVIOUS
  <1> QED BY <1>1 DEF Whole, HalfSent

\* A message for everybody in the table P, none of whom is its author.
LEMMA TodoErrands ==
    ASSUME NEW F \in [Parties -> Nat], NEW p \in Parties, NEW x \in Lines(p, F), NEW P \in Seq(Peer),
           OncePeer(P), p \notin SocketsOf(P)
    PROVE  /\ Errands(Todo([author |-> p, text |-> x], P), F)
           /\ \A d : ~HalfSent(d, Todo([author |-> p, text |-> x], P))
  <1> DEFINE t == Todo([author |-> p, text |-> x], P)
             e(i) == [to |-> P[i].socket, frames |-> <<p, x>>]
  <1>1. p # None /\ x \in Frame /\ p \in Frame /\ Len(P) \in Nat
    BY NobodyIsNone, LinesAreFrames, LenProperties
  <1>2. t = [i \in 1..Len(P) |-> e(i)]
    BY <1>1 DEF Todo, Frames
  <1>3. ASSUME NEW i \in 1..Len(P)
        PROVE  e(i) \in Errand /\ e(i).to = P[i].socket /\ Whole(e(i).to, e(i).frames, F)
    <2>0. P[i] \in Peer
      BY ElementOfSeq
    <2>1. P[i].socket \in Clients
      BY <2>0 DEF Peer
    <2>2. <<p, x>> \in Seq(Frame)
      BY <1>1
    <2>3. P[i].socket # p
      BY DEF SocketsOf
    <2> QED BY <2>1, <2>2, <2>3 DEF Errand, Whole
  <1> HIDE DEF e
  <1>4. t \in Seq(Errand)
    BY <1>1, <1>2, <1>3
  <1>5. Len(t) = Len(P) /\ \A i \in 1..Len(P) : t[i] = e(i)
    BY <1>1, <1>2
  <1> HIDE DEF t
  <1>6. OnceTo(t)
    BY <1>3, <1>5 DEF OnceTo, OncePeer
  <1>7. \A i \in 1..Len(t) : Whole(t[i].to, t[i].frames, F)
    BY <1>3, <1>5
  <1>8. t # <<>> => 1 \in 1..Len(t)
    BY <1>4, EmptySeq
  <1>9. \A d : ~HalfSent(d, t)
    BY <1>7, <1>8, WholeNotHalf
  <1>10. Errands(t, F)
    BY <1>4, <1>6, <1>7 DEF Errands
  <1> QED BY <1>9, <1>10 DEF t

\* SendJob keeps the errands, and the event when it is still to be handled.
EventStays(at, ev, P, B) ==
    /\ at \in {"send", "relay"} /\ ev \in Clients \cup {Server, None}
    /\ ev \in Clients /\ at = "send" => ev \in SocketsOf(P)
    /\ ev = Server /\ at = "send" => B # <<>>

\* SendJob has the errands and an event that can still be handled.
LEMMA SendJobIs ==
    ASSUME NEW at, NEW ev, NEW todo, NEW P, NEW B, EventStays(at, ev, P, B)
    PROVE  /\ SendJob(at, ev, todo).todo = todo /\ JobFields(SendJob(at, ev, todo))
           /\ Event(SendJob(at, ev, todo), P, B)
  <1>1. CASE todo # <<>>
    BY <1>1 DEF SendJob, JobFields, Event, EventStays
  <1>2. CASE todo = <<>> /\ at = "send" /\ ev # None
    BY <1>2 DEF SendJob, JobFields, Event, EventStays
  <1>3. CASE todo = <<>> /\ ~(at = "send" /\ ev # None)
    BY <1>3, NobodyIsNone DEF SendJob, Idle, JobFields, Event, EventStays
  <1> QED BY <1>1, <1>2, <1>3

\* An idle server.
LEMMA IdleIs ==
    ASSUME NEW P, NEW B, NEW F
    PROVE  /\ JobFields(Idle) /\ Event(Idle, P, B) /\ Errands(Idle.todo, F) /\ Idle.todo = <<>>
           /\ \A d : ~HalfSent(d, Idle.todo)
  <1>1. <<>> \in Seq(Errand) /\ Len(<<>>) = 0
    OBVIOUS
  <1>2. Errands(<<>>, F)
    BY <1>1 DEF Errands, OnceTo
  <1> QED BY <1>2, NobodyIsNone DEF Idle, JobFields, Event, HalfSent

\* peers_data_find finds the peer.
LEMMA FindIs ==
    ASSUME NEW c \in SocketsOf(peers)
    PROVE  peers_data_find(c) \in 1..Len(peers) /\ peers[peers_data_find(c)].socket = c
  BY DEF peers_data_find, SocketsOf

\* The table without one peer has the others as they were.
LEMMA WithoutIs ==
    ASSUME Table(peers, backlog), NEW c \in SocketsOf(peers)
    PROVE  /\ PeersWithout(c) \in Seq(Peer) /\ OncePeer(PeersWithout(c))
           /\ SocketsOf(PeersWithout(c)) \subseteq SocketsOf(peers) \ {c}
           /\ \A d, A : AuthorIn(d, A, peers) => AuthorIn(d, A, PeersWithout(c))
  <1> DEFINE r == PeersWithout(c)  f == peers_data_find(c)  n == Len(peers)
  <1>1. peers \in Seq(Peer) /\ OncePeer(peers)
    BY DEF Table
  <1>2. f \in 1..n /\ peers[f].socket = c
    BY FindIs
  <1>3. n \in Nat
    BY <1>1, LenProperties
  <1>4. /\ r \in Seq(Peer) /\ Len(r) = n - 1
        /\ \A j \in 1..(n - 1) : r[j] = IF j < f THEN peers[j] ELSE peers[j + 1]
    <2> HIDE DEF f
    <2>1. r = RemoveAt(peers, f)
      BY DEF PeersWithout, f
    <2> QED BY <1>1, <1>2, <2>1, RemoveAtIs
  <1> DEFINE o(j) == IF j < f THEN j ELSE j + 1
  <1> HIDE DEF r, f, n
  <1>5. ASSUME NEW j \in 1..Len(r) PROVE o(j) \in 1..n /\ o(j) # f /\ r[j] = peers[o(j)]
    BY <1>2, <1>3, <1>4
  <1>6. ASSUME NEW i \in 1..Len(r), NEW j \in 1..Len(r), o(i) = o(j) PROVE i = j
    BY <1>2, <1>3, <1>4, <1>6
  <1> HIDE DEF o
  <1>7. \A i, j \in 1..n : peers[i].socket = peers[j].socket => i = j
    BY <1>1 DEF OncePeer, n
  <1>8. OncePeer(r)
    BY <1>5, <1>6, <1>7 DEF OncePeer
  <1>9. SocketsOf(r) \subseteq SocketsOf(peers) \ {c}
    BY <1>2, <1>5, <1>7 DEF SocketsOf, n
  <1>10. \A d, A : AuthorIn(d, A, peers) => AuthorIn(d, A, r)
    BY <1>5 DEF AuthorIn, n
  <1> QED BY <1>4, <1>8, <1>9, <1>10 DEF r

-----------------------------------------------------------------------------
(* The steps of a client.                                                  *)

\* What c has done concerns nobody else, as long as the lines that were fed stay.
Alone(c) ==
    /\ DOMAIN cli' = Clients /\ DOMAIN net' = Clients
    /\ \A d \in Clients \ {c} : cli'[d] = cli[d] /\ net'[d] = net[d]
    /\ CliType(cli'[c]) /\ NetType(net'[c]) /\ net'[c].srv = net[c].srv
    /\ cli[c].st \in {"up", "gone"} => cli'[c].st \in {"up", "gone"}
    /\ ClientOK(c, cli'[c], net'[c], fed)
    /\ net[c].srv = "open" => Upstream(c, cli'[c], net'[c], fed, peers, backlog)
    /\ net'[c].end = "open" => Downstream(c, Stream(cli'[c].auth_name, net'[c].down), job.todo,
                                          started \in {"new", "up"}, fed)

\* Whoever the server knows of is a client.
LEMMA InTables ==
    ASSUME ChatInv
    PROVE  \A d \in Elems(backlog) \cup SocketsOf(peers) : d \in Clients
  <1>1. peers \in Seq(Peer) /\ backlog \in Seq(Clients)
    BY DEF ChatInv, ServerInv, Table
  <1>2. ASSUME NEW i \in 1..Len(peers) PROVE peers[i].socket \in Clients
    <2>1. peers[i] \in Peer
      BY <1>1, ElementOfSeq
    <2> QED BY <2>1 DEF Peer
  <1> QED BY <1>1, <1>2, ElementOfSeq DEF SocketsOf, Elems

\* Then the invariant holds for all.
LEMMA ClientAlone ==
    ASSUME ChatInv, NEW c \in Clients, Alone(c), UNCHANGED <<serverVars, fed>>
    PROVE  ChatInv'
  <1>1. /\ started' = started /\ peers' = peers /\ send' = send /\ job' = job /\ backlog' = backlog
        /\ fed' = fed
    BY DEF serverVars
  <1>2. Types'
    BY <1>1 DEF ChatInv, ServerInv, Types, Alone
  <1>4. Connected'
    <2>1. Connected
      BY DEF ChatInv, ServerInv
    <2> QED BY <1>1, <2>1, InTables DEF Connected, Alone
  <1>5. ServerInv'
    BY <1>1, <1>2, <1>4 DEF ChatInv, ServerInv
  <1>6. ClientInv(c)'
    BY <1>1 DEF ClientInv, Alone
  <1>7. ASSUME NEW d \in Clients \ {c} PROVE ClientInv(d)'
    BY <1>1 DEF ChatInv, ClientInv, Alone
  <1> QED BY <1>5, <1>6, <1>7 DEF ChatInv

\* What the invariant says of one client.
LEMMA Client ==
    ASSUME ChatInv, NEW c \in Clients
    PROVE  /\ CliType(cli[c]) /\ NetType(net[c]) /\ ClientInv(c) /\ fed \in [Parties -> Nat]
           /\ DOMAIN cli = Clients /\ DOMAIN net = Clients
           /\ net[c].srv = "closed" => started \notin {"new", "up"}
  BY DEF ChatInv, ServerInv, Types, Connected, NetType

\* A message more of those c may get.
LEMMA GoodMore ==
    ASSUME NEW c, NEW F, NEW A, NEW D, A \subseteq D
    PROVE  Seq(Good(c, F, A)) \subseteq Seq(Good(c, F, D))
  <1>1. Good(c, F, A) \subseteq Good(c, F, D)
    BY DEF Good
  <1> QED BY <1>1, SeqMonotonic

\* chat_client_pop_next.
LEMMA PopKeeps ==
    ASSUME ChatInv, NEW c \in Clients, chat_client_pop_next(c)
    PROVE  ChatInv'
  <1> DEFINE k == cli[c]  k2 == cli'[c]
  <1>1. /\ CliType(k) /\ NetType(net[c]) /\ ClientInv(c) /\ fed \in [Parties -> Nat]
        /\ DOMAIN cli = Clients /\ DOMAIN net = Clients
    BY Client
  <1>2. /\ cli' = [cli EXCEPT ![c].recved = Tail(@), ![c].popped = Append(@, Head(cli[c].recved))]
        /\ UNCHANGED <<serverVars, fed>> /\ net' = net /\ k.recved # <<>> /\ k.at = "idle"
    BY DEF chat_client_pop_next, queue_pop
  <1>3. DOMAIN cli' = Clients /\ \A d \in Clients \ {c} : cli'[d] = cli[d]
    BY <1>1, <1>2
  <1>4. /\ k2.recved = Tail(k.recved) /\ k2.popped = Append(k.popped, Head(k.recved))
        /\ DOMAIN k2 = DOMAIN k
        /\ \A f \in CliFields \ {"recved", "popped"} : k2[f] = k[f]
    BY <1>1, <1>2 DEF CliType, CliFields
  <1> HIDE DEF k2
  <1>5. /\ k2.st = k.st /\ k2.name_sended = k.name_sended /\ k2.send = k.send /\ k2.at = k.at
        /\ k2.todo = k.todo /\ k2.auth_name = k.auth_name /\ k2.authors = k.authors
    BY <1>4 DEF CliFields
  <1>6. CliType(k2)
    BY <1>1, <1>4, <1>5 DEF CliType
  <1>7. ClientOK(c, k2, net[c], fed)
    <2>1. ClientOK(c, k, net[c], fed)
      BY <1>1 DEF ClientInv
    <2> DEFINE X == Good(c, fed, k.authors)
    <2>2. k.popped \in Seq(X) /\ k.recved \in Seq(X)
      BY <2>1 DEF ClientOK
    <2> HIDE DEF X
    <2>3. k2.popped \in Seq(X) /\ k2.recved \in Seq(X)
      BY <1>2, <1>4, <2>2, HeadTailProperties, AppendProperties
    <2> QED BY <1>5, <2>1, <2>3 DEF ClientOK, X
  <1>8. net[c].srv = "open" => Upstream(c, k2, net[c], fed, peers, backlog)
    BY <1>1, <1>5, UpstreamFields DEF ClientInv
  <1>9. Alone(c)
    BY <1>1, <1>2, <1>3, <1>5, <1>6, <1>7, <1>8 DEF Alone, ClientInv, k2
  <1> QED BY <1>2, <1>9, ClientAlone

\* ClientLeaves: the end of the client's process, or a SIGPIPE.
LEMMA LeaveKeeps ==
    ASSUME ChatInv, NEW c \in Clients, ClientLeaves(c)
    PROVE  ChatInv'
  <1> DEFINE k == cli[c]  n == net[c]  k2 == cli'[c]  n2 == net'[c]
  <1>1. /\ CliType(k) /\ NetType(n) /\ ClientInv(c) /\ fed \in [Parties -> Nat]
        /\ DOMAIN cli = Clients /\ DOMAIN net = Clients
    BY Client
  <1>2. /\ cli' = [cli EXCEPT ![c] = [NewClient EXCEPT !.st = "gone"]]
        /\ net' = [net EXCEPT ![c] = Hangup(@)] /\ UNCHANGED <<serverVars, fed>>
    BY DEF ClientLeaves
  <1>3. /\ DOMAIN cli' = Clients /\ DOMAIN net' = Clients
        /\ \A d \in Clients \ {c} : cli'[d] = cli[d] /\ net'[d] = net[d]
    BY <1>1, <1>2
  <1>4. k2 = [NewClient EXCEPT !.st = "gone"] /\ n2 = Hangup(n)
    BY <1>1, <1>2
  <1>5. /\ DOMAIN k2 = CliFields /\ k2.st = "gone" /\ ~k2.name_sended /\ k2.send = <<>>
        /\ k2.recved = <<>> /\ k2.at = "idle" /\ k2.todo = <<>> /\ k2.auth_name = None
        /\ k2.popped = <<>>
    BY <1>4 DEF NewClient, CliFields
  <1>6. /\ DOMAIN n2 = DOMAIN n /\ n2.up = n.up /\ n2.down = <<>> /\ n2.end \in {"fin", "rst"}
        /\ n2.srv = n.srv
    BY <1>1, <1>4 DEF NetType, Hangup
  <1> HIDE DEF k2, n2
  <1>7. CliType(k2)
    BY <1>5 DEF CliType
  <1>8. NetType(n2)
    <2>1. <<>> \in Seq(Frame) /\ Len(<<>>) = 0 /\ 0 <= Capacity
      BY ChatAssumption
    <2> QED BY <1>1, <1>6, <2>1 DEF NetType
  <1>9. ClientOK(c, k2, n2, fed)
    <2>1. <<>> \in Seq(Good(c, fed, k2.authors)) /\ <<>> \in Seq(Own(c, fed))
      OBVIOUS
    <2> QED BY <1>5, <1>6, <2>1 DEF ClientOK
  <1>10. n.srv = "open" => Upstream(c, k2, n2, fed, peers, backlog)
    BY <1>1, <1>5, <1>6, UpstreamLeave DEF ClientInv
  <1>11. Alone(c)
    BY <1>3, <1>5, <1>6, <1>7, <1>8, <1>9, <1>10 DEF Alone, k2, n2
  <1> QED BY <1>2, <1>11, ClientAlone

\* chat_client_update.
LEMMA ClientUpdateKeeps ==
    ASSUME ChatInv, NEW c \in Clients, chat_client_update(c)
    PROVE  ChatInv'
  <1> DEFINE k == cli[c]  k2 == cli'[c]
  <1>1. /\ CliType(k) /\ NetType(net[c]) /\ ClientInv(c) /\ fed \in [Parties -> Nat]
        /\ DOMAIN cli = Clients /\ DOMAIN net = Clients
    BY Client
  <1>2. UNCHANGED <<serverVars, fed>> /\ net' = net /\ k.at = "idle" /\ k.st = "up"
    BY DEF chat_client_update
  <1>3. ClientOK(c, k, net[c], fed) /\ k.todo = <<>>
    BY <1>1, <1>2 DEF ClientInv, ClientOK
  <1>4. CASE k.send = <<>> /\ cli' = [cli EXCEPT ![c].at = "recv"]
    <2>1. DOMAIN cli' = Clients /\ \A d \in Clients \ {c} : cli'[d] = cli[d]
      BY <1>1, <1>4
    <2>2. DOMAIN k2 = DOMAIN k /\ k2.at = "recv" /\ \A f \in CliFields \ {"at"} : k2[f] = k[f]
      BY <1>1, <1>4 DEF CliType, CliFields
    <2> HIDE DEF k2
    <2>3. /\ k2.st = k.st /\ k2.name_sended = k.name_sended /\ k2.send = k.send
          /\ k2.recved = k.recved /\ k2.popped = k.popped
          /\ k2.todo = k.todo /\ k2.auth_name = k.auth_name /\ k2.authors = k.authors
      BY <2>2 DEF CliFields
    <2>4. CliType(k2)
      BY <1>1, <2>2, <2>3 DEF CliType
    <2>5. ClientOK(c, k2, net[c], fed)
      BY <1>2, <1>3, <2>2, <2>3 DEF ClientOK
    <2>6. net[c].srv = "open" => Upstream(c, k2, net[c], fed, peers, backlog)
      BY <1>1, <2>3, UpstreamFields DEF ClientInv
    <2>7. Alone(c)
      BY <1>1, <1>2, <2>1, <2>3, <2>4, <2>5, <2>6 DEF Alone, ClientInv, k2
    <2> QED BY <1>2, <2>7, ClientAlone
  <1>5. ASSUME NEW nfds, k.send # <<>>,
               cli' = [cli EXCEPT ![c].at = "send", ![c].nfds = nfds,
                                  ![c].todo = Frames(Head(cli[c].send)), ![c].send = queue_pop(@)]
        PROVE  ChatInv'
    <2>1. DOMAIN cli' = Clients /\ \A d \in Clients \ {c} : cli'[d] = cli[d]
      BY <1>1, <1>5
    <2>2. /\ DOMAIN k2 = DOMAIN k /\ k2.at = "send" /\ k2.todo = Frames(Head(k.send))
          /\ k2.send = Tail(k.send)
          /\ \A f \in CliFields \ {"at", "nfds", "todo", "send"} : k2[f] = k[f]
      BY <1>1, <1>5 DEF CliType, CliFields, queue_pop
    <2> HIDE DEF k2
    <2>3. /\ k2.st = k.st /\ k2.name_sended = k.name_sended /\ k2.recved = k.recved
          /\ k2.popped = k.popped /\ k2.auth_name = k.auth_name /\ k2.authors = k.authors
      BY <2>2 DEF CliFields
    <2>4. k.send \in Seq(Own(c, fed))
      BY <1>3 DEF ClientOK
    <2>5. Head(k.send) \in Own(c, fed) /\ Tail(k.send) \in Seq(Own(c, fed))
      BY <1>5, <2>4, HeadTailProperties
    <2>6. k2.todo \in Seq(Frame) /\ k2.todo # <<>> /\ k2.send \in Seq(Own(c, fed))
      BY <1>1, <2>2, <2>5, FramesAre
    <2>7. CliType(k2)
      BY <1>1, <2>2, <2>3, <2>6 DEF CliType
    <2>8. ClientOK(c, k2, net[c], fed)
      BY <1>2, <1>3, <2>2, <2>3, <2>6 DEF ClientOK
    <2>9. net[c].srv = "open" => Upstream(c, k2, net[c], fed, peers, backlog)
      BY <1>1, <1>3, <1>5, <2>2, <2>3, UpstreamTake DEF ClientInv
    <2>10. Alone(c)
      BY <1>1, <1>2, <2>1, <2>3, <2>7, <2>8, <2>9 DEF Alone, ClientInv, k2
    <2> QED BY <1>2, <2>10, ClientAlone
  <1> QED BY <1>4, <1>5 DEF chat_client_update

\* The client after a frame it has sent, and after an update that failed.
LEMMA SentIs ==
    ASSUME NEW c \in Clients, DOMAIN cli = Clients, CliType(cli[c]), cli[c].at = "send", ClientSent(c),
           NEW n, NEW n2, ClientOK(c, cli[c], n, fed), n2.end = n.end
    PROVE  /\ DOMAIN cli' = Clients /\ \A d \in Clients \ {c} : cli'[d] = cli[d]
           /\ CliType(cli'[c]) /\ ClientOK(c, cli'[c], n2, fed)
           /\ cli'[c].st = "up" /\ cli[c].st = "up"
           /\ cli'[c].name_sended = cli[c].name_sended /\ cli'[c].send = cli[c].send
           /\ cli'[c].todo = Tail(cli[c].todo) /\ cli[c].todo # <<>>
           /\ cli'[c].auth_name = None /\ cli[c].auth_name = None
  <1> DEFINE k == cli[c]  k2 == cli'[c]
  <1>1. DOMAIN cli' = Clients /\ \A d \in Clients \ {c} : cli'[d] = cli[d]
    BY DEF ClientSent
  <1>2. /\ DOMAIN k2 = CliFields /\ k2.todo = Tail(k.todo)
        /\ k2.at = IF Len(k.todo) > 1 THEN "send" ELSE IF k.nfds THEN "recv" ELSE "idle"
        /\ \A f \in CliFields \ {"todo", "at", "nfds"} : k2[f] = k[f]
    BY DEF ClientSent, CliType, CliFields
  <1>3. k.st = "up" /\ k.todo # <<>> /\ k.auth_name = None
    BY DEF ClientOK
  <1> HIDE DEF k2
  <1>4. /\ k2.st = k.st /\ k2.name_sended = k.name_sended /\ k2.recved = k.recved /\ k2.send = k.send
        /\ k2.popped = k.popped /\ k2.auth_name = k.auth_name /\ k2.authors = k.authors
    BY <1>2 DEF CliFields
  <1>5. k2.todo \in Seq(Frame) /\ (Len(k.todo) > 1 <=> k2.todo # <<>>)
    <2>1. k.todo \in Seq(Frame)
      BY DEF CliType
    <2>2. k2.todo \in Seq(Frame) /\ Len(k2.todo) = Len(k.todo) - 1 /\ Len(k.todo) \in Nat
      BY <1>2, <1>3, <2>1, HeadTailProperties, LenProperties
    <2>3. k2.todo # <<>> <=> Len(k2.todo) # 0
      BY <2>2, EmptySeq
    <2> QED BY <2>2, <2>3
  <1>6. k2.at \in {"idle", "send", "recv"} /\ (k2.at = "send" <=> k2.todo # <<>>)
    BY <1>2, <1>5
  <1>7. CliType(k2)
    BY <1>2, <1>4, <1>5, <1>6 DEF CliType
  <1>8. ClientOK(c, k2, n2, fed)
    BY <1>3, <1>4, <1>6 DEF ClientOK
  <1> QED BY <1>1, <1>2, <1>3, <1>4, <1>7, <1>8 DEF k2

\* A client's call returns.
LEMMA ReturnsKeeps ==
    ASSUME ChatInv, NEW c \in Clients, ClientReturns(c), net' = net, UNCHANGED <<serverVars, fed>>,
           net[c].srv = "closed", cli[c].auth_name = None \/ net[c].down = <<>>, cli[c].at # "idle"
    PROVE  ChatInv'
  <1> DEFINE k == cli[c]  k2 == cli'[c]
  <1>1. /\ CliType(k) /\ NetType(net[c]) /\ ClientInv(c) /\ fed \in [Parties -> Nat]
        /\ DOMAIN cli = Clients /\ DOMAIN net = Clients /\ started \notin {"new", "up"}
    BY Client
  <1>2. DOMAIN cli' = Clients /\ \A d \in Clients \ {c} : cli'[d] = cli[d]
    BY <1>1 DEF ClientReturns
  <1>3. /\ DOMAIN k2 = CliFields /\ k2.todo = <<>> /\ k2.at = "idle" /\ k2.auth_name = None
        /\ \A f \in CliFields \ {"todo", "at", "nfds", "auth_name"} : k2[f] = k[f]
    BY <1>1 DEF ClientReturns, CliType, CliFields
  <1> HIDE DEF k2
  <1>4. /\ k2.st = k.st /\ k2.name_sended = k.name_sended /\ k2.recved = k.recved /\ k2.send = k.send
        /\ k2.popped = k.popped /\ k2.authors = k.authors
    BY <1>3 DEF CliFields
  <1>5. CliType(k2)
    BY <1>1, <1>3, <1>4 DEF CliType
  <1>6. ClientOK(c, k2, net[c], fed)
    BY <1>1, <1>3, <1>4 DEF ClientOK, ClientInv
  <1>7. net[c].end = "open" => Downstream(c, Stream(None, net[c].down), job.todo, FALSE, fed)
    <2>1. CASE k.auth_name = None
      BY <1>1, <2>1 DEF ClientInv, Downstream
    <2>2. CASE net[c].down = <<>>
      <3>1. Stream(None, <<>>) = <<>> /\ Len(<<>>) = 0
        BY DEF Stream
      <3> QED BY <2>2, <3>1 DEF Downstream, Alternates
    <2> QED BY <2>1, <2>2
  <1>8. started \in {"new", "up"} <=> FALSE
    BY <1>1
  <1>9. Alone(c)
    BY <1>1, <1>2, <1>3, <1>4, <1>5, <1>6, <1>7, <1>8 DEF Alone, k2, Downstream
  <1> QED BY <1>9, ClientAlone

\* ClientSend.
LEMMA ClientSendKeeps ==
    ASSUME ChatInv, NEW c \in Clients, ClientSend(c)
    PROVE  ChatInv'
  <1> DEFINE k == cli[c]  n == net[c]  k2 == cli'[c]  n2 == net'[c]
  <1>1. /\ CliType(k) /\ NetType(n) /\ ClientInv(c) /\ fed \in [Parties -> Nat]
        /\ DOMAIN cli = Clients /\ DOMAIN net = Clients
    BY Client
  <1>2. k.at = "send" /\ ClientOK(c, k, n, fed)
    BY <1>1 DEF ClientSend, ClientInv
  <1>3. CASE /\ n.srv = "open" /\ Len(n.up) < Capacity
             /\ net' = [net EXCEPT ![c].up = Append(@, Head(cli[c].todo))]
             /\ ClientSent(c) /\ UNCHANGED <<serverVars, fed>>
    <2>1. /\ DOMAIN net' = Clients /\ \A d \in Clients \ {c} : net'[d] = net[d]
      BY <1>1, <1>3
    <2>2. /\ DOMAIN n2 = DOMAIN n /\ n2.up = Append(n.up, Head(k.todo)) /\ n2.down = n.down
          /\ n2.srv = n.srv /\ n2.end = n.end
      BY <1>1, <1>3 DEF NetType
    <2>3. /\ DOMAIN cli' = Clients /\ \A d \in Clients \ {c} : cli'[d] = cli[d]
          /\ CliType(k2) /\ ClientOK(c, k2, n2, fed) /\ k2.st = "up" /\ k.st = "up"
          /\ k2.name_sended = k.name_sended /\ k2.send = k.send
          /\ k2.todo = Tail(k.todo) /\ k.todo # <<>> /\ k2.auth_name = None /\ k.auth_name = None
      BY <1>1, <1>2, <1>3, <2>2, SentIs
    <2> HIDE DEF k2, n2
    <2>4. NetType(n2)
      <3>1. n.up \in Seq(Frame) /\ Head(k.todo) \in Frame
        BY <1>1, <2>3, HeadTailProperties DEF NetType, CliType
      <3>2. n2.up \in Seq(Frame) /\ Len(n2.up) = Len(n.up) + 1 /\ Len(n.up) \in Nat
        BY <2>2, <3>1, AppendProperties, LenProperties
      <3>3. Len(n2.up) <= Capacity
        BY <1>3, <3>2, ChatAssumption
      <3> QED BY <1>1, <2>2, <3>2, <3>3 DEF NetType
    <2>5. Upstream(c, k2, n2, fed, peers, backlog)
      <3>1. n.up \in Seq(Frame) /\ Upstream(c, k, n, fed, peers, backlog)
        BY <1>1, <1>3 DEF NetType, ClientInv
      <3> QED BY <1>1, <2>2, <2>3, <3>1, UpstreamSend
    <2>6. Alone(c)
      BY <1>1, <2>1, <2>2, <2>3, <2>4, <2>5 DEF Alone, ClientInv, k2, n2
    <2> QED BY <1>3, <2>6, ClientAlone
  <1>4. CASE n.srv = "closed" /\ ClientSent(c) /\ UNCHANGED <<serverVars, net, fed>>
    <2>1. /\ DOMAIN cli' = Clients /\ \A d \in Clients \ {c} : cli'[d] = cli[d]
          /\ CliType(k2) /\ ClientOK(c, k2, n, fed) /\ k2.st = "up" /\ k.st = "up"
          /\ k2.auth_name = None /\ k.auth_name = None
      BY <1>1, <1>2, <1>4, SentIs
    <2>2. Alone(c)
      BY <1>1, <1>4, <2>1 DEF Alone, ClientInv
    <2> QED BY <1>4, <2>2, ClientAlone
  <1>5. CASE n.srv = "closed" /\ ClientReturns(c) /\ UNCHANGED <<serverVars, net, fed>>
    <2>1. k.auth_name = None /\ k.at # "idle"
      BY <1>2 DEF ClientOK
    <2> QED BY <1>5, <2>1, ReturnsKeeps
  <1>6. CASE ClientLeaves(c)
    BY <1>6, LeaveKeeps
  <1> QED BY <1>3, <1>4, <1>5, <1>6 DEF ClientSend

\* ClientRecv.
LEMMA ClientRecvKeeps ==
    ASSUME ChatInv, NEW c \in Clients, ClientRecv(c)
    PROVE  ChatInv'
  <1> DEFINE k == cli[c]  n == net[c]  k2 == cli'[c]  n2 == net'[c]  up == started \in {"new", "up"}
  <1>1. /\ CliType(k) /\ NetType(n) /\ ClientInv(c) /\ fed \in [Parties -> Nat]
        /\ DOMAIN cli = Clients /\ DOMAIN net = Clients
    BY Client
  <1>2. k.at = "recv" /\ ClientOK(c, k, n, fed) /\ UNCHANGED <<serverVars, fed>>
    BY <1>1 DEF ClientRecv, ClientInv, serverVars, ClientLeaves
  <1>3. k.st = "up" /\ n.end = "open" /\ k.todo = <<>>
    BY <1>2 DEF ClientOK
  <1>4. Downstream(c, Stream(k.auth_name, n.down), job.todo, up, fed)
    BY <1>1, <1>3 DEF ClientInv
  <1>5. n.down \in Seq(Frame) /\ k.auth_name \in Parties \cup {None}
    BY <1>1 DEF NetType, CliType
  <1>6. ASSUME n.down # <<>>, net' = [net EXCEPT ![c].down = Tail(@)]
        PROVE  /\ DOMAIN net' = Clients /\ \A d \in Clients \ {c} : net'[d] = net[d]
               /\ n2.down = Tail(n.down) /\ n2.up = n.up /\ n2.srv = n.srv /\ n2.end = n.end
               /\ NetType(n2)
    <2>1. /\ DOMAIN net' = Clients /\ (\A d \in Clients \ {c} : net'[d] = net[d])
          /\ DOMAIN n2 = DOMAIN n
          /\ n2.down = Tail(n.down) /\ n2.up = n.up /\ n2.srv = n.srv /\ n2.end = n.end
      BY <1>1, <1>6 DEF NetType
    <2>2. /\ Tail(n.down) \in Seq(Frame) /\ Len(Tail(n.down)) = Len(n.down) - 1 /\ Len(n.down) \in Nat
      BY <1>5, <1>6, HeadTailProperties, LenProperties
    <2>3. Len(Tail(n.down)) <= Capacity
      BY <1>1, <2>2, ChatAssumption DEF NetType
    <2> HIDE DEF n2
    <2> QED BY <1>1, <2>1, <2>2, <2>3 DEF NetType
  <1>7. CASE /\ n.down # <<>> /\ k.auth_name = None /\ net' = [net EXCEPT ![c].down = Tail(@)]
             /\ cli' = [cli EXCEPT ![c].auth_name = Head(net[c].down),
                                   ![c].authors = find_or_add_authors(@, Head(net[c].down))]
    <2>1. DOMAIN cli' = Clients /\ \A d \in Clients \ {c} : cli'[d] = cli[d]
      BY <1>1, <1>7
    <2>2. /\ DOMAIN k2 = CliFields /\ k2.auth_name = Head(n.down) /\
             k2.authors = k.authors \cup {Head(n.down)}
          /\ \A f \in CliFields \ {"auth_name", "authors"} : k2[f] = k[f]
      BY <1>1, <1>7 DEF CliType, CliFields, find_or_add_authors
    <2>3. /\ DOMAIN net' = Clients /\ \A d \in Clients \ {c} : net'[d] = net[d]
          /\ n2.down = Tail(n.down) /\ n2.up = n.up /\ n2.srv = n.srv /\ n2.end = n.end
          /\ NetType(n2)
      BY <1>6, <1>7
    <2> HIDE DEF k2, n2, up
    <2>4. /\ k2.st = k.st /\ k2.name_sended = k.name_sended /\ k2.recved = k.recved /\ k2.send = k.send
          /\ k2.popped = k.popped /\ k2.todo = k.todo /\ k2.at = k.at
      BY <2>2 DEF CliFields
    <2>5. Stream(k.auth_name, n.down) = n.down
      BY <1>7 DEF Stream
    <2>6. Alternates(n.down, c, fed)
      BY <1>4, <2>5 DEF Downstream
    <2>7. Head(n.down) \in Parties \ {c} /\ Stream(Head(n.down), Tail(n.down)) = n.down
      BY <1>5, <1>7, <2>6, AuthorNext
    <2>8. CliType(k2)
      BY <1>1, <2>2, <2>4, <2>7 DEF CliType
    <2>9. ClientOK(c, k2, n2, fed)
      <3>1. Seq(Good(c, fed, k.authors)) \subseteq Seq(Good(c, fed, k2.authors))
        BY <2>2, GoodMore
      <3>2. k2.popped \in Seq(Good(c, fed, k2.authors)) /\ k2.recved \in Seq(Good(c, fed, k2.authors))
        BY <1>2, <2>4, <3>1 DEF ClientOK
      <3>3. k2.auth_name \in k2.authors
        BY <2>2
      <3> QED BY <1>2, <1>3, <2>3, <2>4, <3>2, <3>3 DEF ClientOK
    <2>10. n.srv = "open" => Upstream(c, k2, n2, fed, peers, backlog)
      BY <1>1, <2>3, <2>4, UpstreamFields DEF ClientInv
    <2>11. Downstream(c, Stream(k2.auth_name, n2.down), job.todo, up, fed)
      BY <1>4, <2>2, <2>3, <2>5, <2>7
    <2>12. Alone(c)
      BY <1>3, <2>1, <2>3, <2>4, <2>8, <2>9, <2>10, <2>11 DEF Alone, k2, n2, up
    <2> QED BY <1>2, <2>12, ClientAlone
  <1>8. CASE /\ n.down # <<>> /\ k.auth_name # None /\ net' = [net EXCEPT ![c].down = Tail(@)]
             /\ cli' = [cli EXCEPT ![c].auth_name = None, ![c].at = "idle",
                                   ![c].recved = queue_add(@, [author |-> cli[c].auth_name,
                                                               text   |-> Head(net[c].down)])]
    <2> DEFINE m == [author |-> k.auth_name, text |-> Head(n.down)]
    <2>1. DOMAIN cli' = Clients /\ \A d \in Clients \ {c} : cli'[d] = cli[d]
      BY <1>1, <1>8
    <2>2. /\ DOMAIN k2 = CliFields /\ k2.auth_name = None /\ k2.at = "idle" /\
             k2.recved = Append(k.recved, m)
          /\ \A f \in CliFields \ {"auth_name", "at", "recved"} : k2[f] = k[f]
      BY <1>1, <1>8 DEF CliType, CliFields, queue_add
    <2>3. /\ DOMAIN net' = Clients /\ \A d \in Clients \ {c} : net'[d] = net[d]
          /\ n2.down = Tail(n.down) /\ n2.up = n.up /\ n2.srv = n.srv /\ n2.end = n.end
          /\ NetType(n2)
      BY <1>6, <1>8
    <2> HIDE DEF k2, n2, up
    <2>4. /\ k2.st = k.st /\ k2.name_sended = k.name_sended /\ k2.authors = k.authors /\ k2.send = k.send
          /\ k2.popped = k.popped /\ k2.todo = k.todo
      BY <2>2 DEF CliFields
    <2>5. k.auth_name \in Parties /\ up \in BOOLEAN
      BY <1>5, <1>8 DEF up
    <2>6. /\ k.auth_name \in Parties \ {c} /\ Head(n.down) \in Lines(k.auth_name, fed)
          /\ Downstream(c, Tail(n.down), job.todo, up, fed)
      BY <1>4, <1>5, <1>8, <2>5, AlternatesRead
    <2>7. m \in Good(c, fed, k.authors)
      <3>1. k.auth_name \in k.authors
        BY <1>2, <1>8 DEF ClientOK
      <3>2. Head(n.down) \in Parties \X Nat
        BY <1>1, <2>5, <2>6, LinesAreFrames
      <3> QED BY <2>6, <3>1, <3>2 DEF Good
    <2> HIDE DEF m
    <2>8. CliType(k2)
      BY <1>1, <2>2, <2>4 DEF CliType
    <2>9. ClientOK(c, k2, n2, fed)
      <3>1. k2.recved \in Seq(Good(c, fed, k.authors))
        BY <1>2, <2>2, <2>7, AppendProperties DEF ClientOK
      <3> QED BY <1>2, <1>3, <2>2, <2>3, <2>4, <3>1 DEF ClientOK
    <2>10. n.srv = "open" => Upstream(c, k2, n2, fed, peers, backlog)
      BY <1>1, <2>3, <2>4, UpstreamFields DEF ClientInv
    <2>11. Downstream(c, Stream(k2.auth_name, n2.down), job.todo, up, fed)
      BY <2>2, <2>3, <2>6 DEF Stream
    <2>12. Alone(c)
      BY <1>3, <2>1, <2>3, <2>4, <2>8, <2>9, <2>10, <2>11 DEF Alone, k2, n2, up
    <2> QED BY <1>2, <2>12, ClientAlone
  <1>9. CASE n.down = <<>> /\ n.srv = "closed" /\ ClientReturns(c) /\ UNCHANGED net
    BY <1>2, <1>9, ReturnsKeeps
  <1>10. CASE ClientLeaves(c)
    BY <1>10, LeaveKeeps
  <1> QED BY <1>7, <1>8, <1>9, <1>10 DEF ClientRecv

\* A line more, of whomever.
LEMMA ClientGrow ==
    ASSUME NEW c, NEW k, NEW n, NEW F, NEW G, ClientOK(c, k, n, F),
           Own(c, F) \subseteq Own(c, G), \A A : Good(c, F, A) \subseteq Good(c, G, A)
    PROVE  ClientOK(c, k, n, G)
  <1>1. /\ k.popped \in Seq(Good(c, G, k.authors)) /\ k.recved \in Seq(Good(c, G, k.authors))
        /\ k.send \in Seq(Own(c, G))
    BY SeqMonotonic DEF ClientOK
  <1> QED BY <1>1 DEF ClientOK

\* One more line is fed by its author.
LEMMA FedGrows ==
    ASSUME ChatInv, NEW p \in Parties, OneMore(fed, p, fed'), net' = net,
           UNCHANGED <<started, peers, job, backlog>>
    PROVE  /\ fed' \in [Parties -> Nat] /\ Errands(job.todo, fed')
           /\ \A d \in Clients : ClientOK(d, cli[d], net[d], fed')
           /\ \A d \in Clients \ {p} : cli'[d] = cli[d] => ClientInv(d)'
           /\ \A d \in Clients : net[d].end = "open"
                 => Downstream(d, Stream(cli[d].auth_name, net[d].down), job.todo,
                               started \in {"new", "up"}, fed')
  <1> DEFINE G == fed'  up == started \in {"new", "up"}
  <1>0. OneMore(fed, p, G)
    OBVIOUS
  <1>1. fed \in [Parties -> Nat] /\ \A d \in Clients : ClientInv(d) /\ CliType(cli[d]) /\ NetType(net[d])
    BY DEF ChatInv, ServerInv, Types
  <1>2. /\ G \in [Parties -> Nat] /\ \A q \in Parties : Lines(q, fed) \subseteq Lines(q, G)
        /\ \A q \in Parties \ {p} : Lines(q, fed) = Lines(q, G)
    BY <1>0, <1>1, LinesGrow
  <1>3. /\ \A q \in Parties : Own(q, fed) \subseteq Own(q, G)
        /\ \A q, A : Good(q, fed, A) \subseteq Good(q, G, A)
    BY <1>0, <1>1, SetsGrow
  <1>4. Errands(job.todo, G)
    <2>1. Errands(job.todo, fed)
      BY DEF ChatInv, ServerInv
    <2> HIDE DEF G
    <2> QED BY <1>2, <2>1, ErrandsGrow
  <1> HIDE DEF G, up
  <1>5. ASSUME NEW d \in Clients
        PROVE  /\ ClientOK(d, cli[d], net[d], G)
               /\ net[d].end = "open"
                    => Downstream(d, Stream(cli[d].auth_name, net[d].down), job.todo, up, G)
    <2>1. d \in Parties /\ ClientOK(d, cli[d], net[d], fed)
      BY <1>1, NobodyIsNone DEF ClientInv
    <2>2. ClientOK(d, cli[d], net[d], G)
      BY <1>3, <2>1, ClientGrow
    <2> DEFINE s == Stream(cli[d].auth_name, net[d].down)
    <2>3. s \in Seq(Frame) /\ up \in BOOLEAN
      BY <1>1, StreamIs DEF CliType, NetType, up
    <2>4. net[d].end = "open" => Downstream(d, s, job.todo, up, fed)
      BY <1>1 DEF ClientInv, up
    <2> HIDE DEF s
    <2>5. net[d].end = "open" => Downstream(d, s, job.todo, up, G)
      BY <1>1, <1>2, <2>3, <2>4, DownstreamGrow
    <2> QED BY <2>2, <2>5 DEF s
  <1>6. ASSUME NEW d \in Clients \ {p}, cli'[d] = cli[d] PROVE ClientInv(d)'
    <2>1. Lines(d, fed) = Lines(d, G)
      BY <1>2, NobodyIsNone
    <2>2. net[d].srv = "open" => Upstream(d, cli[d], net[d], G, peers, backlog)
      BY <1>1, <2>1, UpstreamLines DEF ClientInv
    <2> QED BY <1>5, <1>6, <2>2 DEF ClientInv, G, up
  <1> QED BY <1>2, <1>4, <1>5, <1>6 DEF G, up

\* chat_client_feed.
LEMMA ClientFeedKeeps ==
    ASSUME ChatInv, NEW c \in Clients, chat_client_feed(c)
    PROVE  ChatInv'
  <1> DEFINE k == cli[c]  k2 == cli'[c]  G == fed'
             m == [author |-> IF ~k.name_sended THEN c ELSE None, text |-> Text(c, fed[c] + 1)]
  <1>1. /\ CliType(k) /\ NetType(net[c]) /\ ClientInv(c) /\ fed \in [Parties -> Nat]
        /\ DOMAIN cli = Clients /\ DOMAIN net = Clients /\ c \in Parties
    BY Client, NobodyIsNone
  <1>2. /\ k.st = "up" /\ k.at = "idle" /\ fed' = [fed EXCEPT ![c] = @ + 1] /\ net' = net
        /\ UNCHANGED <<started, peers, recved, send, job, backlog>>
        /\ cli' = [cli EXCEPT ![c].name_sended = TRUE, ![c].send = Append(@, m)]
    BY DEF chat_client_feed, queue_add, NameNeeded, serverVars
  <1>31. OneMore(fed, c, G)
    BY <1>2 DEF OneMore
  <1>3. /\ G \in [Parties -> Nat] /\ Errands(job.todo, G) /\ ClientOK(c, k, net[c], G)
        /\ (\A d \in Clients \ {c} : cli'[d] = cli[d] => ClientInv(d)')
        /\ net[c].end = "open" => Downstream(c, Stream(k.auth_name, net[c].down), job.todo,
                                             started \in {"new", "up"}, G)
    BY <1>1, <1>2, <1>31, FedGrows
  <1>4. Text(c, fed[c] + 1) \in Lines(c, G) /\ Lines(c, fed) \subseteq Lines(c, G)
    BY <1>1, <1>31, LinesGrow
  <1>5. Named(Server, fed) \subseteq Named(Server, G)
    BY <1>1, <1>31, SetsGrow, NobodyIsNone
  <1>6. (k.name_sended => m \in Quiet(c, G)) /\ (~k.name_sended => m \in Named(c, G)) /\ m \in Own(c, G)
    BY <1>4 DEF Quiet, Named, Own
  <1> HIDE DEF m
  <1>7. DOMAIN cli' = Clients /\ \A d \in Clients \ {c} : cli'[d] = cli[d]
    BY <1>1, <1>2
  <1>8. /\ DOMAIN k2 = CliFields /\ k2.name_sended /\ k2.send = Append(k.send, m)
        /\ \A f \in CliFields \ {"name_sended", "send"} : k2[f] = k[f]
    BY <1>1, <1>2 DEF CliType, CliFields
  <1> HIDE DEF k2, G
  <1>9. /\ k2.st = k.st /\ k2.recved = k.recved /\ k2.at = k.at /\ k2.authors = k.authors
        /\ k2.popped = k.popped /\ k2.todo = k.todo /\ k2.auth_name = k.auth_name
    BY <1>8 DEF CliFields
  <1>10. CliType(k2)
    BY <1>1, <1>8, <1>9 DEF CliType
  <1>11. ClientOK(c, k2, net[c], G)
    <2>1. k2.send \in Seq(Own(c, G))
      BY <1>3, <1>6, <1>8, AppendProperties DEF ClientOK
    <2> QED BY <1>3, <1>9, <2>1 DEF ClientOK
  <1>12. net[c].srv = "open" => Upstream(c, k2, net[c], G, peers, backlog)
    <2>1. k.send \in Seq(Own(c, fed)) /\ k2.st = "up"
      BY <1>1, <1>2, <1>9 DEF ClientInv, ClientOK
    <2>2. net[c].srv = "open" => Upstream(c, k, net[c], fed, peers, backlog)
      BY <1>1 DEF ClientInv
    <2> QED BY <1>2, <1>4, <1>6, <1>8, <1>9, <2>1, <2>2, UpstreamFeed
  <1>13. ClientInv(c)'
    BY <1>2, <1>3, <1>9, <1>11, <1>12 DEF ClientInv, k2, G
  <1>14. Types'
    BY <1>1, <1>2, <1>3, <1>7, <1>10 DEF ChatInv, ServerInv, Types, k2, G
  <1>15. Connected'
    <2>1. Connected
      BY DEF ChatInv, ServerInv
    <2>2. send \in Seq(Named(Server, G))
      BY <1>5, <2>1, SeqMonotonic DEF Connected
    <2>3. \A d \in Elems(backlog) \cup SocketsOf(peers) : cli'[d].st = cli[d].st
      <3>1. \A d \in Clients : cli'[d].st = cli[d].st
        BY <1>7, <1>9 DEF k2
      <3> QED BY <3>1, InTables
    <2> QED BY <1>2, <2>1, <2>2, <2>3 DEF Connected, G
  <1>16. ServerInv'
    BY <1>2, <1>3, <1>14, <1>15 DEF ChatInv, ServerInv, G
  <1> QED BY <1>3, <1>7, <1>13, <1>16 DEF ChatInv

\* chat_client_connect.
LEMMA ConnectKeeps ==
    ASSUME ChatInv, NEW c \in Clients, chat_client_connect(c)
    PROVE  ChatInv'
  <1> DEFINE k == cli[c]  k2 == cli'[c]
  <1>1. /\ CliType(k) /\ NetType(net[c]) /\ ClientInv(c) /\ fed \in [Parties -> Nat]
        /\ DOMAIN cli = Clients /\ DOMAIN net = Clients
    BY Client
  <1>2. k.st = "new" /\ net' = net /\ UNCHANGED <<started, peers, recved, send, job, fed>>
    BY DEF chat_client_connect
  <1>3. ClientOK(c, k, net[c], fed) /\ net[c].up = <<>> /\ k.at = "idle" /\ net[c].end = "open"
    BY <1>1, <1>2 DEF ClientInv, ClientOK, CliType
  <1>4. ASSUME NEW v \in {"up", "gone", "broken"}, cli' = [cli EXCEPT ![c].st = v], NEW B
        PROVE  /\ DOMAIN cli' = Clients /\ \A d \in Clients \ {c} : cli'[d] = cli[d]
               /\ CliType(k2) /\ ClientOK(c, k2, net[c], fed) /\ k2.st = v /\ k2.auth_name = k.auth_name
               /\ net[c].srv = "open" => Upstream(c, k2, net[c], fed, peers, B)
    <2>1. DOMAIN cli' = Clients /\ \A d \in Clients \ {c} : cli'[d] = cli[d]
      BY <1>1, <1>4
    <2>2. DOMAIN k2 = CliFields /\ k2.st = v /\ \A f \in CliFields \ {"st"} : k2[f] = k[f]
      BY <1>1, <1>4 DEF CliType, CliFields
    <2> HIDE DEF k2
    <2>3. /\ k2.name_sended = k.name_sended /\ k2.recved = k.recved /\ k2.at = k.at
          /\ k2.authors = k.authors /\ k2.send = k.send
          /\ k2.popped = k.popped /\ k2.todo = k.todo /\ k2.auth_name = k.auth_name
      BY <2>2 DEF CliFields
    <2>4. CliType(k2)
      BY <1>1, <2>2, <2>3 DEF CliType
    <2>5. ClientOK(c, k2, net[c], fed)
      BY <1>3, <2>3 DEF ClientOK
    <2>6. net[c].srv = "open" => Upstream(c, k2, net[c], fed, peers, B)
      BY <1>1, <1>2, <2>3, UpstreamConnect DEF ClientInv
    <2> QED BY <2>1, <2>2, <2>3, <2>4, <2>5, <2>6
  <1>5. CASE started # "up" /\ backlog' = backlog
    <2>1. PICK v \in {"gone", "broken"} : cli' = [cli EXCEPT ![c].st = v]
      BY <1>5 DEF chat_client_connect
    <2>2. Alone(c)
      BY <1>1, <1>2, <1>4, <2>1 DEF Alone, ClientInv
    <2> QED BY <1>2, <1>5, <2>2, ClientAlone DEF serverVars
  <1>6. CASE started = "up" /\ backlog' = Append(backlog, c) /\ cli' = [cli EXCEPT ![c].st = "up"]
    <2>1. /\ DOMAIN cli' = Clients /\ \A d \in Clients \ {c} : cli'[d] = cli[d]
          /\ CliType(k2) /\ ClientOK(c, k2, net[c], fed) /\ k2.st = "up" /\ k2.auth_name = k.auth_name
          /\ net[c].srv = "open" => Upstream(c, k2, net[c], fed, peers, backlog')
      BY <1>4, <1>6
    <2>2. Connected /\ Table(peers, backlog) /\ Event(job, peers, backlog)
      BY DEF ChatInv, ServerInv
    <2>3. c \notin Elems(backlog) \cup SocketsOf(peers)
      BY <1>2, <2>2 DEF Connected
    <2>4. /\ backlog' \in Seq(Clients) /\ NoRepeat(backlog') /\ Elems(backlog') = Elems(backlog) \cup {c}
          /\ backlog' # <<>>
      <3>1. backlog \in Seq(Clients) /\ NoRepeat(backlog)
        BY <2>2 DEF Table
      <3> QED BY <1>6, <2>3, <3>1, AppendElems, AppendProperties
    <2>5. Table(peers, backlog')
      BY <2>2, <2>3, <2>4 DEF Table
    <2>6. Event(job, peers, backlog')
      BY <2>2, <2>4 DEF Event
    <2>7. Connected'
      <3>1. \A d \in Elems(backlog) \cup SocketsOf(peers) : cli'[d] = cli[d]
        BY <2>1, <2>3, InTables
      <3> QED BY <1>2, <1>6, <2>1, <2>2, <2>4, <3>1 DEF Connected
    <2>8. Types'
      BY <1>2, <2>1 DEF ChatInv, ServerInv, Types
    <2>9. ServerInv'
      BY <1>2, <2>5, <2>6, <2>7, <2>8 DEF ChatInv, ServerInv
    <2>10. ClientInv(c)'
      BY <1>1, <1>2, <2>1 DEF ClientInv
    <2>11. ASSUME NEW d \in Clients \ {c} PROVE ClientInv(d)'
      <3>1. ClientInv(d) /\ cli'[d] = cli[d] /\ (d \in Elems(backlog') => d \in Elems(backlog))
        BY <2>1, <2>4 DEF ChatInv
      <3>2. net[d].srv = "open" => Upstream(d, cli[d], net[d], fed, peers, backlog')
        BY <3>1, UpstreamTables DEF ClientInv
      <3> QED BY <1>2, <3>1, <3>2 DEF ClientInv
    <2> QED BY <2>9, <2>10, <2>11 DEF ChatInv
  <1> QED BY <1>5, <1>6 DEF chat_client_connect, Stops

-----------------------------------------------------------------------------
(* The steps of the server.                                                *)

\* A step of the server that sends nothing leaves a client as it was.
Left(d) ==
    /\ net'[d].srv = net[d].srv /\ net'[d].down = net[d].down
    /\ net'[d].end = net[d].end \/ (net[d].end # "open" /\ net'[d].end # "open")
    /\ net'[d].up # <<>> => net[d].up # <<>>
    /\ net[d].srv = "open" => Upstream(d, cli[d], net'[d], fed, peers', backlog')
    /\ ~HalfSent(d, job.todo) /\ ~HalfSent(d, job'.todo)

\* Such a step keeps what holds of the client.
LEMMA LeftKeeps ==
    ASSUME NEW d \in Clients, ClientInv(d), cli' = cli, fed' = fed, Left(d),
           started' \in {"new", "up"} <=> started \in {"new", "up"}
    PROVE  ClientInv(d)'
  <1>1. ClientOK(d, cli[d], net'[d], fed)
    BY DEF ClientInv, ClientOK, Left
  <1> DEFINE s == Stream(cli[d].auth_name, net[d].down)  up == started \in {"new", "up"}
  <1>2. net'[d].end = "open" => Downstream(d, s, job.todo, up, fed)
    BY DEF ClientInv, Left
  <1>3. net'[d].end = "open" => Downstream(d, s, job'.todo, up, fed)
    BY <1>2, DownstreamOther DEF Left
  <1>4. up = (started \in {"new", "up"})'
    OBVIOUS
  <1>5. s = Stream(cli[d].auth_name, net[d].down)'
    BY DEF Left
  <1> HIDE DEF s, up
  <1>6. net'[d].end = "open" => Downstream(d, Stream(cli[d].auth_name, net[d].down)', job'.todo,
                                           (started \in {"new", "up"})', fed')
    BY <1>3, <1>4, <1>5
  <1> QED BY <1>1, <1>6 DEF ClientInv, Left

\* What the invariant says of the server.
LEMMA ServerParts ==
    ASSUME ChatInv
    PROVE  /\ Types /\ Table(peers, backlog) /\ Connected /\ JobFields(job) /\ Event(job, peers, backlog)
           /\ Errands(job.todo, fed) /\ fed \in [Parties -> Nat]
           /\ \A d \in Clients : ClientInv(d) /\ CliType(cli[d]) /\ NetType(net[d])
           /\ DOMAIN net = Clients
  BY DEF ChatInv, ServerInv, Types

\* chat_server_listen and chat_server_pop_next.
LEMMA ListenKeeps ==
    ASSUME ChatInv, chat_server_listen \/ chat_server_pop_next
    PROVE  ChatInv'
  <1>1. /\ UNCHANGED <<peers, send, job, backlog, cli, net, fed>> /\ started \in {"new", "up"}
        /\ started' = "up" /\ (started = "new" \/ job = Idle)
    BY DEF chat_server_listen, chat_server_pop_next
  <1>2. job = Idle
    BY <1>1 DEF ChatInv, ServerInv, Connected
  <1>3. ServerInv'
    BY <1>1 DEF ChatInv, ServerInv, Types, Connected
  <1>4. ASSUME NEW d \in Clients PROVE ClientInv(d)'
    <2>1. ClientInv(d)
      BY DEF ChatInv
    <2>2. Left(d)
      BY <1>1, <1>2, <2>1, IdleIs DEF Left, ClientInv
    <2> QED BY <1>1, <2>1, <2>2, LeftKeeps
  <1> QED BY <1>3, <1>4 DEF ChatInv

\* The server is gone: the clients are left with what is under way.
LEMMA GoneKeeps ==
    ASSUME ChatInv, started' \in {"deleted", "dead"}, peers' = <<>>, send' = <<>>, backlog' = <<>>,
           job' = Idle, cli' = cli, fed' = fed, DOMAIN net' = Clients,
           \A d \in Clients : net'[d] = net[d] \/ net'[d] = [net[d] EXCEPT !.srv = "closed"]
    PROVE  ChatInv'
  <1>1. Types /\ fed \in [Parties -> Nat]
    BY ServerParts
  <1>2. ASSUME NEW d \in Clients
        PROVE  /\ NetType(net'[d]) /\ net'[d].up = net[d].up /\ net'[d].down = net[d].down
               /\ net'[d].end = net[d].end /\ net'[d].srv \in {net[d].srv, "closed"}
    <2>1. NetType(net[d])
      BY ServerParts
    <2>2. CASE net'[d] = net[d]
      BY <2>1, <2>2
    <2>3. CASE net'[d] = [net[d] EXCEPT !.srv = "closed"]
      <3>1. /\ DOMAIN net'[d] = DOMAIN net[d] /\ net'[d].srv = "closed" /\ net'[d].up = net[d].up
            /\ net'[d].down = net[d].down /\ net'[d].end = net[d].end
        BY <2>1, <2>3 DEF NetType
      <3> QED BY <2>1, <3>1 DEF NetType
    <2> QED BY <2>2, <2>3
  <1>3. Types'
    BY <1>1, <1>2 DEF Types
  <1>4. Table(<<>>, <<>>)
    BY EmptyList DEF Table, OncePeer, SocketsOf
  <1>5. Connected'
    <2>1. Elems(<<>>) = {} /\ SocketsOf(<<>>) = {} /\ <<>> \in Seq(Named(Server, fed))
      BY EmptyList DEF SocketsOf
    <2> QED BY <2>1 DEF Connected
  <1>6. ServerInv'
    BY <1>3, <1>4, <1>5, IdleIs DEF ServerInv
  <1>7. ASSUME NEW d \in Clients PROVE ClientInv(d)'
    <2>1. ClientInv(d)
      BY DEF ChatInv
    <2>2. ClientOK(d, cli[d], net'[d], fed)
      BY <1>2, <2>1 DEF ClientInv, ClientOK
    <2>3. net'[d].srv = "open" => Upstream(d, cli[d], net'[d], fed, <<>>, <<>>)
      <3>1. \A A : AuthorIn(d, A, <<>>)
        BY DEF AuthorIn
      <3>2. d \notin Elems(<<>>)
        BY EmptyList
      <3>3. net'[d].srv = "open" => Upstream(d, cli[d], net[d], fed, peers, backlog)
        BY <1>2, <2>1 DEF ClientInv
      <3>4. net'[d].srv = "open" => Upstream(d, cli[d], net[d], fed, <<>>, <<>>)
        BY <3>1, <3>2, <3>3, UpstreamTables
      <3> QED BY <1>2, <3>4, UpstreamFields
    <2>4. net'[d].end = "open" => Downstream(d, Stream(cli[d].auth_name, net'[d].down), Idle.todo,
                                             started' \in {"new", "up"}, fed)
      BY <1>2, <2>1 DEF ClientInv, Downstream
    <2> QED BY <2>2, <2>3, <2>4 DEF ClientInv
  <1> QED BY <1>6, <1>7 DEF ChatInv

\* chat_server_delete, and the end of the server's process.
LEMMA DeleteKeeps ==
    ASSUME ChatInv, chat_server_delete \/ ServerDies
    PROVE  ChatInv'
  <1>1. CASE chat_server_delete
    <2>1. \A d \in Clients : net'[d] = net[d] \/ net'[d] = [net[d] EXCEPT !.srv = "closed"]
      BY <1>1 DEF chat_server_delete
    <2>2. DOMAIN net' = Clients
      BY <1>1 DEF chat_server_delete
    <2> QED BY <1>1, <2>1, <2>2, GoneKeeps DEF chat_server_delete
  <1>2. CASE ServerDies
    BY <1>2, GoneKeeps DEF ServerDies
  <1> QED BY <1>1, <1>2

\* chat_server_feed.
LEMMA ServerFeedKeeps ==
    ASSUME ChatInv, chat_server_feed
    PROVE  ChatInv'
  <1> DEFINE G == fed'  m == [author |-> Server, text |-> Text(Server, fed[Server] + 1)]
  <1>1. /\ UNCHANGED <<started, peers, job, backlog, cli>> /\ net' = net /\ send' = Append(send, m)
        /\ OneMore(fed, Server, G) /\ started = "up"
    BY DEF chat_server_feed, queue_add, OneMore
  <1>2. /\ Types /\ Connected /\ fed \in [Parties -> Nat] /\ Server \in Parties /\ Server \notin Clients
    BY ServerParts, NobodyIsNone
  <1>3. /\ G \in [Parties -> Nat] /\ Errands(job.todo, G)
        /\ (\A d \in Clients \ {Server} : cli'[d] = cli[d] => ClientInv(d)')
    BY <1>1, <1>2, FedGrows
  <1>4. Text(Server, fed[Server] + 1) \in Lines(Server, G) /\
          Named(Server, fed) \subseteq Named(Server, G)
    BY <1>1, <1>2, LinesGrow, SetsGrow
  <1>5. send' \in Seq(Named(Server, G))
    <2>1. m \in Named(Server, G) /\ send \in Seq(Named(Server, fed))
      BY <1>2, <1>4 DEF Named, Connected
    <2> HIDE DEF m
    <2>2. send \in Seq(Named(Server, G))
      BY <1>4, <2>1, SeqMonotonic
    <2> QED BY <1>1, <2>1, <2>2, AppendProperties
  <1>6. Types' /\ Connected'
    BY <1>1, <1>2, <1>3, <1>5 DEF Types, Connected
  <1>7. ServerInv'
    BY <1>1, <1>3, <1>6 DEF ChatInv, ServerInv
  <1> QED BY <1>1, <1>2, <1>3, <1>7 DEF ChatInv

\* What is left of the errands after a frame: the text is still to be sent, or
\* the next peer comes.
Rest(t) == (IF Len(Head(t).frames) = 1 THEN <<>> ELSE <<[Head(t) EXCEPT !.frames = Tail(@)]>>) \o Tail(t)

\* The next errand is run.
LEMMA ErrandsTail ==
    ASSUME NEW F, NEW t, Errands(t, F), t # <<>>
    PROVE  /\ Errands(Tail(t), F) /\ \A d : ~HalfSent(d, Tail(t))
           /\ \A i \in 1..Len(Tail(t)) : /\ Whole(Tail(t)[i].to, Tail(t)[i].frames, F)
                                         /\ Tail(t)[i].to # t[1].to
           /\ 1 \in 1..Len(t) /\ t[1] \in Errand /\ Head(t) = t[1]
  <1> DEFINE r == Tail(t)
  <1>1. t \in Seq(Errand) /\ OnceTo(t)
    BY DEF Errands
  <1>2. Len(t) \in Nat \ {0} /\ r \in Seq(Errand) /\ Len(r) = Len(t) - 1
    BY <1>1, EmptySeq, HeadTailProperties
  <1>3. \A i \in 1..Len(r) : r[i] = t[i + 1] /\ i + 1 \in 1..Len(t) /\ i + 1 # 1
    <2>1. \A i \in 1..Len(r) : r[i] = t[i + 1]
      BY <1>1, HeadTailProperties
    <2> HIDE DEF r
    <2> QED BY <1>2, <2>1
  <1>4. 1 \in 1..Len(t)
    BY <1>2
  <1>5. t[1] \in Errand /\ Head(t) = t[1]
    BY <1>1, <1>4, ElementOfSeq
  <1> HIDE DEF r
  <1>6. \A i \in 1..Len(r) : Whole(r[i].to, r[i].frames, F) /\ r[i].to # t[1].to
    BY <1>1, <1>3, <1>4 DEF Errands, OnceTo
  <1>7. OnceTo(r)
    <2>1. ASSUME NEW i \in 1..Len(r), NEW j \in 1..Len(r), r[i].to = r[j].to PROVE i = j
      <3>1. i + 1 = j + 1
        BY SMTT(40), <1>1, <1>3, <2>1 DEF OnceTo
      <3> QED BY <1>2, <3>1
    <2> QED BY <2>1 DEF OnceTo
  <1>8. r # <<>> => 1 \in 1..Len(r)
    BY <1>2, EmptySeq
  <1>9. \A d : ~HalfSent(d, r)
    BY <1>6, <1>8, WholeNotHalf
  <1>10. Errands(r, F)
    BY <1>2, <1>6, <1>7 DEF Errands
  <1> QED BY <1>4, <1>5, <1>6, <1>9, <1>10 DEF r

\* One frame of the next errand is sent.
LEMMA ErrandsRest ==
    ASSUME NEW F, NEW t, Errands(t, F), t # <<>>
    PROVE  /\ Errands(Rest(t), F) /\ \A d : d # t[1].to => ~HalfSent(d, Rest(t))
           /\ IF Len(t[1].frames) = 1 THEN ~HalfSent(t[1].to, Rest(t))
              ELSE Rest(t) # <<>> /\ Rest(t)[1].to = t[1].to /\ Rest(t)[1].frames = Tail(t[1].frames)
  <1> DEFINE r == Tail(t)
  <1>1. /\ Errands(r, F) /\ \A d : ~HalfSent(d, r)
        /\ \A i \in 1..Len(r) : Whole(r[i].to, r[i].frames, F) /\ r[i].to # t[1].to
        /\ 1 \in 1..Len(t) /\ t[1] \in Errand /\ Head(t) = t[1]
    BY ErrandsTail
  <1>2. r \in Seq(Errand) /\ OnceTo(r)
    BY <1>1 DEF Errands
  <1> HIDE DEF r
  <1>3. CASE Len(t[1].frames) = 1
    <2>1. Rest(t) = <<>> \o r
      BY <1>1, <1>3 DEF Rest, r
    <2>2. Rest(t) = r
      BY <1>2, <2>1, ConcatEmptySeq
    <2> QED BY <1>1, <1>3, <2>2
  <1>4. CASE Len(t[1].frames) # 1
    <2> DEFINE e == [t[1] EXCEPT !.frames = Tail(@)]  q == <<e>> \o r
    <2>1. Rest(t) = q
      BY <1>1, <1>4 DEF Rest, r
    <2>2. PICK p, x : t[1].frames = <<p, x>>
      BY <1>1, <1>4 DEF Errands, Whole
    <2>3. e.to = t[1].to /\ e.frames = Tail(t[1].frames) /\ e \in Errand
      <3>0. t[1].frames \in Seq(Frame)
        BY <1>1 DEF Errand
      <3>1. t[1].frames # <<>>
        BY <2>2
      <3>2. Tail(t[1].frames) \in Seq(Frame)
        BY <3>0, <3>1, HeadTailProperties
      <3> QED BY <1>1, <3>2 DEF Errand
    <2>4. Len(e.frames) = 1
      BY <2>2, <2>3
    <2> HIDE DEF e
    <2>5. /\ q \in Seq(Errand) /\ Len(q) = Len(r) + 1 /\ q[1] = e
          /\ \A i \in 2..(Len(r) + 1) : q[i] = r[i - 1]
      BY <1>2, <2>3, ConsIs
    <2>6. Len(r) \in Nat
      BY <1>2, LenProperties
    <2> HIDE DEF q
    <2>7. ASSUME NEW i \in 1..Len(q), i # 1 PROVE i - 1 \in 1..Len(r) /\ q[i] = r[i - 1]
      <3>1. i \in 2..(Len(r) + 1) /\ i - 1 \in 1..Len(r)
        BY <2>5, <2>6, <2>7
      <3> QED BY <2>5, <3>1
    <2>8. OnceTo(q)
      <3>1. ASSUME NEW i \in 1..Len(q), NEW j \in 1..Len(q), q[i].to = q[j].to, i # 1, j # 1 PROVE i = j
        <4>1. i - 1 = j - 1
          BY <1>2, <2>7, <3>1 DEF OnceTo
        <4> QED BY <2>5, <2>6, <4>1
      <3>2. ASSUME NEW i \in 1..Len(q), q[i].to = q[1].to PROVE i = 1
        BY <1>1, <2>3, <2>5, <2>7, <3>2
      <3>3. ASSUME NEW i \in 1..Len(q), NEW j \in 1..Len(q), q[i].to = q[j].to PROVE i = j
        <4>1. CASE i = 1
          BY <3>2, <3>3, <4>1
        <4>2. CASE j = 1
          BY <3>2, <3>3, <4>2
        <4> QED BY <3>1, <3>3, <4>1, <4>2
      <3> QED BY <3>3 DEF OnceTo
    <2>9. \A i \in 1..Len(q) : Whole(q[i].to, q[i].frames, F) \/ (i = 1 /\ Len(q[1].frames) = 1)
      BY <1>1, <2>4, <2>5, <2>7
    <2>10. Errands(q, F) /\ q # <<>>
      <3>1. q # <<>>
        BY <2>5, <2>6
      <3> QED BY <2>5, <2>8, <2>9, <3>1 DEF Errands
    <2>11. \A d : d # t[1].to => ~HalfSent(d, q)
      BY <2>3, <2>5 DEF HalfSent
    <2> QED BY <1>4, <2>1, <2>3, <2>5, <2>10, <2>11
  <1> QED BY <1>3, <1>4

\* ServerSend.
LEMMA ServerSendKeeps ==
    ASSUME ChatInv, ServerSend
    PROVE  ChatInv'
  <1> DEFINE t == job.todo  f == t[1].frames
  <1>1. /\ Types /\ Table(peers, backlog) /\ Connected /\ JobFields(job) /\ Event(job, peers, backlog)
        /\ Errands(t, fed) /\ fed \in [Parties -> Nat] /\ DOMAIN net = Clients
        /\ \A d \in Clients : ClientInv(d) /\ CliType(cli[d]) /\ NetType(net[d])
    BY ServerParts
  <1>2. job.at \in {"send", "relay"} /\ t # <<>>
    BY <1>1 DEF ServerSend, JobFields
  <1>3. started = "up"
    BY <1>1, <1>2 DEF Connected, Idle
  <1>4. /\ Errands(Tail(t), fed) /\ \A d : ~HalfSent(d, Tail(t))
        /\ t[1] \in Errand /\ Head(t) = t[1]
    BY <1>1, <1>2, ErrandsTail
  <1>5. PICK d0 \in Clients : d0 = t[1].to
    BY <1>4 DEF Errand
  <1>6. /\ Errands(Rest(t), fed) /\ \A d : d # d0 => ~HalfSent(d, Rest(t))
        /\ IF Len(f) = 1 THEN ~HalfSent(d0, Rest(t))
           ELSE Rest(t) # <<>> /\ Rest(t)[1].to = d0 /\ Rest(t)[1].frames = Tail(f)
        /\ \A d : d # d0 => ~HalfSent(d, t)
    BY <1>1, <1>2, <1>5, ErrandsRest, HalfSentFirst
  <1>7. ASSUME NEW x, Errands(x, fed), \A d : d # d0 => ~HalfSent(d, x), NetType(net'[d0]),
               net'[d0].up = net[d0].up, net'[d0].srv = net[d0].srv,
               cli[d0].st # "gone" => net'[d0].end = "open",
               net'[d0].end = "open"
                  => Downstream(d0, Stream(cli[d0].auth_name, net'[d0].down), x, TRUE, fed),
               DOMAIN net' = Clients, \A d \in Clients \ {d0} : net'[d] = net[d],
               job' = SendJob(job.at, job.ev, x),
               UNCHANGED <<started, peers, recved, send, backlog, cli, fed>>
        PROVE  ChatInv'
    <2>1. /\ job'.todo = x /\ JobFields(job') /\ Event(job', peers, backlog)
      <3>1. EventStays(job.at, job.ev, peers, backlog)
        BY <1>1, <1>2 DEF Event, EventStays
      <3>3. LET j == SendJob(job.at, job.ev, x)
            IN  j.todo = x /\ JobFields(j) /\ Event(j, peers, backlog)
        BY <3>1, SendJobIs
      <3> QED BY <1>7, <3>3
    <2>2. Types'
      BY <1>1, <1>7 DEF Types
    <2>3. Connected'
      <3>1. \A d \in Clients : net'[d].srv = net[d].srv
        BY <1>7
      <3> QED BY <1>1, <1>3, <1>7, <3>1 DEF Connected
    <2>4. ServerInv'
      BY <1>1, <1>7, <2>1, <2>2, <2>3 DEF ServerInv
    <2>5. ASSUME NEW d \in Clients \ {d0} PROVE ClientInv(d)'
      <3>1. Left(d)
        BY <1>1, <1>6, <1>7, <2>1, <2>5 DEF Left, ClientInv
      <3> QED BY <1>1, <1>7, <3>1, LeftKeeps
    <2>6. ClientInv(d0)'
      <3>1. ClientInv(d0)
        BY <1>1, <1>6
      <3>2. ClientOK(d0, cli[d0], net'[d0], fed)
        BY <1>7, <3>1 DEF ClientInv, ClientOK
      <3>3. net[d0].srv = "open" => Upstream(d0, cli[d0], net'[d0], fed, peers, backlog)
        BY <1>7, <3>1, UpstreamFields DEF ClientInv
      <3>4. (started \in {"new", "up"})' = TRUE
        BY <1>3, <1>7
      <3>5. net'[d0].end = "open" => Downstream(d0, Stream(cli[d0].auth_name, net[d0].down)', job'.todo,
                                                (started \in {"new", "up"})', fed')
        BY <1>7, <2>1, <3>4
      <3> QED BY <1>7, <3>2, <3>3, <3>5 DEF ClientInv
    <2> QED BY <2>4, <2>5, <2>6 DEF ChatInv
  <1>8. CASE /\ net[d0].end = "open" /\ Len(net[d0].down) < Capacity
             /\ net' = [net EXCEPT ![d0].down = Append(net[d0].down, Head(f))]
             /\ job' = SendJob(job.at, job.ev, Rest(t))
             /\ UNCHANGED <<started, peers, recved, send, backlog, cli, fed>>
    <2> DEFINE s == Stream(cli[d0].auth_name, net[d0].down)  n == net[d0]  n2 == net'[d0]
    <2>1. DOMAIN net' = Clients /\ \A d \in Clients \ {d0} : net'[d] = net[d]
      BY <1>1, <1>8
    <2>2. /\ DOMAIN n2 = DOMAIN n /\ n2.down = Append(n.down, Head(f)) /\ n2.up = n.up
          /\ n2.srv = n.srv /\ n2.end = n.end
      BY <1>1, <1>6, <1>8 DEF NetType
    <2>3. n.down \in Seq(Frame) /\ cli[d0].auth_name \in Parties \cup {None}
      BY <1>1, <1>6 DEF NetType, CliType
    <2>4. s \in Seq(Frame)
      BY <2>3, StreamIs
    <2>5. Downstream(d0, s, t, TRUE, fed)
      <3>1. ClientInv(d0)
        BY <1>1, <1>6
      <3> QED BY <1>3, <1>8, <3>1 DEF ClientInv, Downstream
    <2> DEFINE y == Head(f)
    <2>6. y \in Frame /\ Downstream(d0, Append(s, y), Rest(t), TRUE, fed)
      <3> HIDE DEF s
      <3> QED BY <1>1, <1>2, <1>5, <1>6, <2>4, <2>5, DownstreamSend
    <2>7. n2.down = Append(n.down, y)
      BY <2>2
    <2> HIDE DEF n2, y
    <2>8. Append(s, y) = Stream(cli[d0].auth_name, n2.down)
      BY <2>3, <2>6, <2>7, StreamAppend
    <2>9. NetType(n2)
      <3>1. n2.down \in Seq(Frame) /\ Len(n2.down) = Len(n.down) + 1 /\ Len(n.down) \in Nat
        BY <2>3, <2>6, <2>7, AppendProperties, LenProperties
      <3>2. Len(n2.down) <= Capacity
        BY <1>8, <3>1, ChatAssumption
      <3>3. NetType(n)
        BY <1>1, <1>6
      <3> QED BY <2>2, <3>1, <3>2, <3>3 DEF NetType
    <2>10. Downstream(d0, Stream(cli[d0].auth_name, n2.down), Rest(t), TRUE, fed)
      BY <2>6, <2>8
    <2>11. n2.up = net[d0].up /\ n2.srv = net[d0].srv /\ n2.end = "open"
      BY <1>8, <2>2
    <2> QED BY <1>6, <1>7, <1>8, <2>1, <2>9, <2>10, <2>11 DEF n2
  <1>9. ASSUME NEW x, x \in {Rest(t), Tail(t)}, net[d0].end # "open",
               net' = [net EXCEPT ![d0].end = "done"], job' = SendJob(job.at, job.ev, x),
               UNCHANGED <<started, peers, recved, send, backlog, cli, fed>>
        PROVE  ChatInv'
    <2> DEFINE n == net[d0]  n2 == net'[d0]
    <2>1. DOMAIN net' = Clients /\ \A d \in Clients \ {d0} : net'[d] = net[d]
      BY <1>1, <1>9
    <2>2. /\ DOMAIN n2 = DOMAIN n /\ n2.down = n.down /\ n2.up = n.up
          /\ n2.srv = n.srv /\ n2.end = "done"
      BY <1>1, <1>6, <1>9 DEF NetType
    <2> HIDE DEF n2
    <2>3. NetType(n2)
      <3>1. NetType(n)
        BY <1>1, <1>6
      <3> QED BY <2>2, <3>1 DEF NetType
    <2>4. cli[d0].st = "gone"
      BY <1>1, <1>6, <1>9 DEF ClientInv, ClientOK
    <2>5. Errands(x, fed) /\ \A d : d # d0 => ~HalfSent(d, x)
      BY <1>4, <1>6, <1>9
    <2> QED BY <1>7, <1>9, <2>1, <2>2, <2>3, <2>4, <2>5 DEF n2
  <1>10. CASE ServerDies
    BY <1>10, DeleteKeeps
  <1> QED BY <1>4, <1>5, <1>8, <1>9, <1>10 DEF ServerSend, Rest

\* chat_server_update: the oldest of its own messages for everybody.
LEMMA UpdateKeeps ==
    ASSUME ChatInv, NEW ev \in Clients \cup {Server, None}, chat_server_update(ev)
    PROVE  ChatInv'
  <1>1. /\ Types /\ Table(peers, backlog) /\ Connected /\ fed \in [Parties -> Nat]
        /\ \A d \in Clients : ClientInv(d)
    BY ServerParts
  <1>2. /\ started = "up" /\ job = Idle /\ UNCHANGED <<started, peers, recved, backlog, cli, net, fed>>
        /\ ev \in Ready \/ ev = None
    BY DEF chat_server_update
  <1>3. EventStays("send", ev, peers, backlog)
    <2>1. \A d \in SocketsOf(peers) : d # Server /\ d # None
      BY InTables, NobodyIsNone
    <2>2. Sockets = SocketsOf(peers)
      BY DEF Sockets, SocketsOf
    <2> QED BY <1>2, <2>1, <2>2, NobodyIsNone DEF EventStays, Ready
  <1>4. PICK todo : /\ job' = SendJob("send", ev, todo) /\ Errands(todo, fed) /\
                       \A d : ~HalfSent(d, todo)
                    /\ send' \in Seq(Named(Server, fed))
    <2>1. CASE job' = SendJob("send", ev, <<>>) /\ send' = send
      <3>1. Errands(<<>>, fed) /\ \A d : ~HalfSent(d, <<>>)
        BY IdleIs
      <3> QED BY <1>1, <2>1, <3>1 DEF Connected
    <2>2. CASE /\ send # <<>> /\ send' = queue_pop(send)
               /\ job' = SendJob("send", ev, Todo(Head(send), Recipients(None)))
      <3>1. Head(send) \in Named(Server, fed) /\ Tail(send) \in Seq(Named(Server, fed))
        BY <1>1, <2>2, HeadTailProperties DEF Connected
      <3>2. PICK x \in Lines(Server, fed) : Head(send) = [author |-> Server, text |-> x]
        BY <3>1 DEF Named
      <3>3. Recipients(None) = peers
        BY DEF Recipients
      <3>4. Server \notin SocketsOf(peers) /\ Server \in Parties /\ peers \in Seq(Peer) /\
              OncePeer(peers)
        BY <1>1, InTables, NobodyIsNone DEF Table
      <3> DEFINE m == [author |-> Server, text |-> x]
      <3>5. Errands(Todo(m, peers), fed) /\ \A d : ~HalfSent(d, Todo(m, peers))
        BY <1>1, <3>4, TodoErrands
      <3> HIDE DEF m
      <3> QED BY <2>2, <3>1, <3>2, <3>3, <3>5 DEF queue_pop, m
    <2> QED BY <2>1, <2>2 DEF chat_server_update
  <1>5. job'.todo = todo /\ JobFields(job') /\ Event(job', peers, backlog)
    BY <1>3, <1>4, SendJobIs
  <1>6. Types' /\ Connected'
    BY <1>1, <1>2, <1>4 DEF Types, Connected
  <1>7. ServerInv'
    BY <1>1, <1>2, <1>4, <1>5, <1>6 DEF ServerInv
  <1>8. ASSUME NEW d \in Clients PROVE ClientInv(d)'
    <2>1. Left(d)
      BY <1>1, <1>2, <1>4, <1>5, IdleIs DEF Left, ClientInv
    <2> QED BY <1>1, <1>2, <2>1, LeftKeeps
  <1> QED BY <1>7, <1>8 DEF ChatInv

\* The server handles an event: it is up and has nothing to send.
LEMMA AtEvent ==
    ASSUME ChatInv, job.at = "event"
    PROVE  started = "up" /\ \A d : ~HalfSent(d, job.todo)
  <1>1. JobFields(job) /\ Connected
    BY ServerParts
  <1> QED BY <1>1 DEF JobFields, Connected, Idle, HalfSent

\* A client that is accepted has not told its name.
LEMMA UpstreamAccept ==
    ASSUME NEW c, NEW F, NEW k, NEW n, NEW P, NEW Q, NEW B, NEW D, Upstream(c, k, n, F, P, B),
           c \in Elems(B), AuthorIn(c, {None}, Q)
    PROVE  Upstream(c, k, n, F, Q, D)
  BY DEF Upstream, NothingSaid, NameQueued, NameNext, NameSent, NameKnown

\* Accept.
LEMMA AcceptKeeps ==
    ASSUME ChatInv, Accept
    PROVE  ChatInv'
  <1>1. /\ Types /\ Table(peers, backlog) /\ Connected /\ Event(job, peers, backlog)
        /\ \A d \in Clients : ClientInv(d)
    BY ServerParts
  <1>2. /\ job.at = "event" /\ job.ev = Server /\ backlog' = Tail(backlog) /\ job' = Idle
        /\ UNCHANGED <<started, send, cli, net, fed>>
        /\ peers' = Append(peers, [socket |-> Head(backlog), author |-> None])
    BY DEF Accept, peers_data_add
  <1>3. started = "up" /\ \A d : ~HalfSent(d, job.todo)
    BY <1>2, AtEvent
  <1>4. backlog # <<>> /\ backlog \in Seq(Clients) /\ NoRepeat(backlog) /\ peers \in Seq(Peer) /\
          OncePeer(peers)
    BY <1>1, <1>2 DEF Event, Table
  <1>5. PICK c \in Clients : c = Head(backlog)
    BY <1>4, HeadTailProperties
  <1> DEFINE q == [socket |-> c, author |-> None]
  <1>6. q \in Peer /\ peers' = Append(peers, q) /\ q.socket = c /\ q.author = None
    BY <1>2, <1>5 DEF Peer
  <1> HIDE DEF q
  <1>7. /\ peers' \in Seq(Peer) /\ Len(peers') = Len(peers) + 1 /\
           (\A i \in 1..Len(peers) : peers'[i] = peers[i])
        /\ peers'[Len(peers) + 1] = q /\ Len(peers) \in Nat
    BY <1>4, <1>6, AppendProperties, LenProperties
  <1>8. 1..Len(peers') = 1..Len(peers) \cup {Len(peers) + 1}
    BY <1>7
  <1>9. /\ backlog' \in Seq(Clients) /\ Len(backlog') = Len(backlog) - 1 /\ Len(backlog) \in Nat \ {0}
        /\ \A i \in 1..Len(backlog') : backlog'[i] = backlog[i + 1]
    BY <1>2, <1>4, HeadTailProperties, EmptySeq
  <1>10. c = backlog[1] /\ 1 \in 1..Len(backlog) /\
           \A i \in 1..Len(backlog') : i + 1 \in 1..Len(backlog) /\ i + 1 # 1
    BY <1>4, <1>5, <1>9
  <1>11. NoRepeat(backlog')
    <2>1. ASSUME NEW i \in 1..Len(backlog'), NEW j \in 1..Len(backlog'),
                 backlog'[i] = backlog'[j] PROVE i = j
      <3>1. i + 1 = j + 1
        BY <1>4, <1>9, <1>10, <2>1 DEF NoRepeat
      <3> QED BY <1>9, <3>1
    <2> QED BY <2>1 DEF NoRepeat
  <1>12. Elems(backlog') \subseteq Elems(backlog) \ {c} /\ c \in Elems(backlog)
    BY <1>4, <1>9, <1>10 DEF Elems, NoRepeat
  <1>13. SocketsOf(peers') = SocketsOf(peers) \cup {c} /\ c \notin SocketsOf(peers)
    <2>1. c \notin SocketsOf(peers)
      BY <1>1, <1>12 DEF Table
    <2> QED BY <1>6, <1>7, <1>8, <2>1 DEF SocketsOf
  <1>14. OncePeer(peers')
    <2>1. \A i \in 1..Len(peers) : peers[i].socket # c
      BY <1>13 DEF SocketsOf
    <2> QED BY <1>4, <1>6, <1>7, <1>8, <2>1 DEF OncePeer
  <1>15. Table(peers', backlog')
    BY <1>1, <1>7, <1>9, <1>11, <1>12, <1>13, <1>14 DEF Table
  <1>16. Types' /\ Connected'
    BY <1>1, <1>2, <1>3, <1>12, <1>13 DEF Types, Connected
  <1>17. ServerInv'
    BY <1>2, <1>15, <1>16, IdleIs DEF ServerInv
  <1>18. ASSUME NEW d \in Clients PROVE Left(d)
    <2>1. net[d].srv = "open" => Upstream(d, cli[d], net[d], fed, peers', backlog')
      <3>1. CASE d = c
        <4>1. AuthorIn(d, {None}, peers')
          <5>1. \A i \in 1..Len(peers) : peers[i].socket # c
            BY <1>13 DEF SocketsOf
          <5> QED BY <1>6, <1>7, <1>8, <3>1, <5>1 DEF AuthorIn
        <4>2. net[d].srv = "open" => Upstream(d, cli[d], net[d], fed, peers, backlog)
          BY <1>1 DEF ClientInv
        <4> QED BY <1>12, <3>1, <4>1, <4>2, UpstreamAccept
      <3>2. CASE d # c
        <4>1. \A A : AuthorIn(d, A, peers) => AuthorIn(d, A, peers')
          BY <1>6, <1>7, <1>8, <3>2 DEF AuthorIn
        <4>2. net[d].srv = "open" => Upstream(d, cli[d], net[d], fed, peers, backlog)
          BY <1>1 DEF ClientInv
        <4> QED BY <1>12, <4>1, <4>2, UpstreamTables
      <3> QED BY <3>1, <3>2
    <2> QED BY <1>2, <1>3, <2>1, IdleIs DEF Left
  <1>19. ASSUME NEW d \in Clients PROVE ClientInv(d)'
    BY <1>1, <1>2, <1>18, LeftKeeps
  <1> QED BY <1>17, <1>19 DEF ChatInv

\* ServerRecv: a frame less under way to the server.
LEMMA UpRead ==
    ASSUME ChatInv, NEW c \in Clients, net[c].up # <<>>, net' = [net EXCEPT ![c].up = Tail(@)]
    PROVE  /\ DOMAIN net' = Clients /\ \A d \in Clients \ {c} : net'[d] = net[d]
           /\ \A d \in Clients : /\ NetType(net'[d]) /\ net'[d].srv = net[d].srv
                                 /\ net'[d].end = net[d].end /\ net'[d].down = net[d].down
                                 /\ net'[d].up # <<>> => net[d].up # <<>>
           /\ net'[c].up = Tail(net[c].up)
  <1> DEFINE n == net[c]  n2 == net'[c]
  <1>1. NetType(n) /\ DOMAIN net = Clients /\ \A d \in Clients : NetType(net[d])
    BY ServerParts
  <1>2. DOMAIN net' = Clients /\ \A d \in Clients \ {c} : net'[d] = net[d]
    BY <1>1
  <1>3. /\ DOMAIN n2 = DOMAIN n /\ n2.up = Tail(n.up) /\ n2.srv = n.srv /\ n2.end = n.end
        /\ n2.down = n.down
    BY <1>1 DEF NetType
  <1>4. /\ Tail(n.up) \in Seq(Frame) /\ Len(Tail(n.up)) = Len(n.up) - 1 /\ Len(n.up) \in Nat
    <2>1. n.up \in Seq(Frame)
      BY <1>1 DEF NetType
    <2> QED BY <2>1, HeadTailProperties, LenProperties
  <1>5. Len(Tail(n.up)) <= Capacity
    BY <1>1, <1>4, ChatAssumption DEF NetType
  <1> HIDE DEF n2
  <1>6. NetType(n2)
    BY <1>1, <1>3, <1>4, <1>5 DEF NetType
  <1> QED BY <1>1, <1>2, <1>3, <1>6 DEF n2

\* The server receives from a peer.
LEMMA ServerRecvKeeps ==
    ASSUME ChatInv, NEW c \in Clients, ServerRecv(c)
    PROVE  ChatInv'
  <1> DEFINE me == peers_data_find(c)  n == net[c]
  <1>1. /\ Types /\ Table(peers, backlog) /\ Connected /\ Event(job, peers, backlog) /\ JobFields(job)
        /\ Errands(job.todo, fed) /\ fed \in [Parties -> Nat] /\ DOMAIN net = Clients
        /\ \A d \in Clients : ClientInv(d) /\ NetType(net[d])
    BY ServerParts
  <1>2. job.at = "event" /\ job.ev = c
    BY DEF ServerRecv
  <1>3. started = "up" /\ \A d : ~HalfSent(d, job.todo)
    BY <1>2, AtEvent
  <1>4. c \in SocketsOf(peers) /\ c \notin Elems(backlog) /\ c # None /\ c \in Parties
    BY <1>1, <1>2, NobodyIsNone DEF Event, Table
  <1>5. me \in 1..Len(peers) /\ peers[me].socket = c
    BY <1>4, FindIs
  <1>6. \A d \in Clients : net[d].srv = "open" /\ Upstream(d, cli[d], net[d], fed, peers, backlog)
    BY <1>1, <1>3 DEF Connected, ClientInv
  <1>7. ASSUME started' = started, cli' = cli, fed' = fed, send' = send, backlog' = backlog,
               Table(peers', backlog),
               SocketsOf(peers') \subseteq SocketsOf(peers), JobFields(job'),
               Event(job', peers', backlog),
               Errands(job'.todo, fed), \A d : ~HalfSent(d, job'.todo), DOMAIN net' = Clients,
               \A d \in Clients :
                  /\ NetType(net'[d]) /\ net'[d].srv = net[d].srv /\ net'[d].down = net[d].down
                  /\ net'[d].end = net[d].end \/ (net[d].end # "open" /\ net'[d].end # "open")
                  /\ net'[d].up # <<>> => net[d].up # <<>>
                  /\ Upstream(d, cli[d], net'[d], fed, peers', backlog)
        PROVE  ChatInv'
    <2>1. Types' /\ Connected'
      BY <1>1, <1>3, <1>7 DEF Types, Connected
    <2>2. ServerInv'
      BY <1>7, <2>1 DEF ServerInv
    <2>3. ASSUME NEW d \in Clients PROVE ClientInv(d)'
      <3>1. Left(d)
        BY <1>3, <1>7 DEF Left
      <3> QED BY <1>1, <1>7, <3>1, LeftKeeps
    <2> QED BY <2>2, <2>3 DEF ChatInv
  <1>8. ASSUME n.up # <<>>, net' = [net EXCEPT ![c].up = Tail(@)], ~Known(c),
               peers' = [peers EXCEPT ![me].author = Head(net[c].up)],
               UNCHANGED <<recved, job>>, UNCHANGED <<started, send, backlog, cli, fed>>
        PROVE  ChatInv'
    <2>1. peers[me].author = None /\ peers \in Seq(Peer) /\ OncePeer(peers)
      BY <1>1, <1>8 DEF Known, Table
    <2>2. /\ DOMAIN net' = Clients /\ \A d \in Clients \ {c} : net'[d] = net[d]
          /\ \A d \in Clients : /\ NetType(net'[d]) /\ net'[d].srv = net[d].srv
                                /\ net'[d].end = net[d].end /\ net'[d].down = net[d].down
                                /\ net'[d].up # <<>> => net[d].up # <<>>
          /\ net'[c].up = Tail(net[c].up)
      BY <1>8, UpRead
    <2> DEFINE x == Head(n.up)  e == [peers[me] EXCEPT !.author = x]
    <2>3. peers[me] \in Peer
      BY <1>5, <2>1, ElementOfSeq
    <2>4. peers' = [peers EXCEPT ![me] = e] /\ e.socket = c /\ e.author = x /\
            e = [socket |-> c, author |-> x]
      BY <1>5, <1>8, <2>3 DEF Peer
    <2> HIDE DEF e
    <2>5. /\ DOMAIN peers' = DOMAIN peers /\ peers'[me] = e /\ Len(peers') = Len(peers)
          /\ \A i \in 1..Len(peers) \ {me} : peers'[i] = peers[i]
      BY <1>5, <2>1, <2>4, LenProperties
    <2>6. /\ \A i \in 1..Len(peers') : peers'[i].socket = peers[i].socket
          /\ Len(peers') = Len(peers)
      BY <1>5, <2>4, <2>5
    <2>7. OncePeer(peers') /\ SocketsOf(peers') = SocketsOf(peers)
      BY <2>1, <2>6 DEF OncePeer, SocketsOf
    <2>8. AuthorIn(c, {x}, peers')
      <3>1. \A i \in 1..Len(peers) : peers[i].socket = c => i = me
        BY <1>5, <2>1 DEF OncePeer
      <3> QED BY <2>4, <2>5, <2>6, <3>1 DEF AuthorIn
    <2>9. x = c /\ Upstream(c, cli[c], net'[c], fed, peers', backlog)
      <3> DEFINE P == peers  Q == peers'  n2 == net'[c]  k == cli[c]
      <3>1. /\ Upstream(c, k, n, fed, P, backlog) /\ n.up # <<>> /\ n2.up = Tail(n.up) /\
               c \notin Elems(backlog)
            /\ me \in 1..Len(P) /\ P[me].socket = c /\ P[me].author = None /\
               AuthorIn(c, {Head(n.up)}, Q)
        BY <1>4, <1>5, <1>6, <1>8, <2>1, <2>2, <2>8
      <3> HIDE DEF P, Q, n2, k, n, me
      <3>2. Head(n.up) = c /\ Upstream(c, k, n2, fed, Q, backlog)
        BY <3>1, UpstreamName
      <3> QED BY <3>2 DEF Q, n2, k
    <2>10. peers' \in Seq(Peer)
      <3>1. e \in Peer
        BY <2>4, <2>9 DEF Peer
      <3> QED BY <1>5, <2>1, <2>4, <3>1, ExceptSeq
    <2>11. ASSUME NEW d \in Clients PROVE Upstream(d, cli[d], net'[d], fed, peers', backlog)
      <3>1. CASE d # c
        <4>1. \A A : AuthorIn(d, A, peers) => AuthorIn(d, A, peers')
          BY <1>5, <2>5, <2>6, <3>1 DEF AuthorIn
        <4>2. Upstream(d, cli[d], net[d], fed, peers', backlog)
          BY <1>6, <4>1, UpstreamTables
        <4> QED BY <2>2, <3>1, <4>2
      <3> QED BY <2>9, <3>1
    <2>12. Table(peers', backlog)
      BY <1>1, <2>7, <2>10 DEF Table
    <2>13. Event(job, peers', backlog)
      BY <1>1, <2>7 DEF Event
    <2> QED BY <1>1, <1>3, <1>7, <1>8, <2>2, <2>7, <2>11, <2>12, <2>13
  <1>9. ASSUME n.up # <<>>, net' = [net EXCEPT ![c].up = Tail(@)], Known(c), peers' = peers,
               job' = SendJob("relay", None,
                   Todo([author |-> peers[me].author, text |-> Head(net[c].up)],
                                                  Recipients(c))),
               UNCHANGED <<started, send, backlog, cli, fed>>
        PROVE  ChatInv'
    <2>1. peers[me].author # None
      BY <1>9 DEF Known
    <2>2. /\ DOMAIN net' = Clients /\ \A d \in Clients \ {c} : net'[d] = net[d]
          /\ \A d \in Clients : /\ NetType(net'[d]) /\ net'[d].srv = net[d].srv
                                /\ net'[d].end = net[d].end /\ net'[d].down = net[d].down
                                /\ net'[d].up # <<>> => net[d].up # <<>>
          /\ net'[c].up = Tail(net[c].up)
      BY <1>9, UpRead
    <2> DEFINE x == Head(n.up)
    <2>3. peers[me].author = c /\ x \in Lines(c, fed) /\
            Upstream(c, cli[c], net'[c], fed, peers, backlog)
      <3> DEFINE P == peers  n2 == net'[c]  k == cli[c]
      <3>1. /\ Upstream(c, k, n, fed, P, backlog) /\ n.up # <<>> /\ n2.up = Tail(n.up)
            /\ me \in 1..Len(P) /\ P[me].socket = c /\ P[me].author # None
        BY <1>5, <1>6, <1>9, <2>1, <2>2
      <3> HIDE DEF P, n2, k, n, me
      <3>2. P[me].author = c /\ Head(n.up) \in Lines(c, fed) /\ Upstream(c, k, n2, fed, P, backlog)
        BY <3>1, UpstreamText
      <3> QED BY <3>2 DEF P, n2, k
    <2>4. \A d \in Clients : Upstream(d, cli[d], net'[d], fed, peers, backlog)
      BY <1>6, <2>2, <2>3
    <2>5. Recipients(c) = PeersWithout(c)
      BY <1>4 DEF Recipients
    <2> DEFINE t == Todo([author |-> c, text |-> x], PeersWithout(c))
    <2>6. job' = SendJob("relay", None, t)
      BY <1>9, <2>3, <2>5
    <2> HIDE DEF x
    <2>7. Errands(t, fed) /\ \A d : ~HalfSent(d, t)
      <3>1. /\ PeersWithout(c) \in Seq(Peer) /\ OncePeer(PeersWithout(c))
            /\ c \notin SocketsOf(PeersWithout(c))
        BY <1>1, <1>4, WithoutIs
      <3> QED BY <1>1, <1>4, <2>3, <3>1, TodoErrands
    <2> HIDE DEF t
    <2>8. EventStays("relay", None, peers, backlog)
      BY NobodyIsNone DEF EventStays
    <2>9. job'.todo = t /\ JobFields(job') /\ Event(job', peers, backlog)
      BY <2>6, <2>8, SendJobIs
    <2> QED BY <1>1, <1>7, <1>9, <2>2, <2>4, <2>7, <2>9
  <1>10. ASSUME peers' = PeersWithout(c), job' = Idle,
                UNCHANGED <<started, recved, send, backlog, cli, net, fed>>
         PROVE  ChatInv'
    <2>1. /\ peers' \in Seq(Peer) /\ OncePeer(peers') /\ SocketsOf(peers') \subseteq SocketsOf(peers)
          /\ \A d, A : AuthorIn(d, A, peers) => AuthorIn(d, A, peers')
      BY <1>1, <1>4, <1>10, WithoutIs
    <2>2. \A d \in Clients : Upstream(d, cli[d], net[d], fed, peers', backlog)
      BY <1>6, <2>1, UpstreamTables
    <2>3. Table(peers', backlog)
      BY <1>1, <2>1 DEF Table
    <2>4. /\ JobFields(job') /\ Event(job', peers', backlog) /\ Errands(job'.todo, fed)
          /\ \A d : ~HalfSent(d, job'.todo)
      BY <1>10, IdleIs
    <2> QED BY <1>1, <1>7, <1>10, <2>1, <2>2, <2>3, <2>4
  <1>11. ASSUME n.end = "rst", net' = [net EXCEPT ![c].end = "done"], job' = Idle,
                UNCHANGED <<started, peers, recved, send, backlog, cli, fed>>
         PROVE  ChatInv'
    <2> DEFINE n2 == net'[c]
    <2>1. DOMAIN net' = Clients /\ \A d \in Clients \ {c} : net'[d] = net[d]
      BY <1>1, <1>11
    <2>2. /\ DOMAIN n2 = DOMAIN n /\ n2.down = n.down /\ n2.up = n.up /\ n2.srv = n.srv /\
             n2.end = "done"
      BY <1>1, <1>11 DEF NetType
    <2> HIDE DEF n2
    <2>3. NetType(n2)
      BY <1>1, <2>2 DEF NetType
    <2>4. Upstream(c, cli[c], n2, fed, peers, backlog)
      BY <1>6, <2>2, UpstreamFields
    <2>5. ASSUME NEW d \in Clients
          PROVE  /\ NetType(net'[d]) /\ net'[d].srv = net[d].srv /\ net'[d].down = net[d].down
                 /\ net'[d].end = net[d].end \/ (net[d].end # "open" /\ net'[d].end # "open")
                 /\ net'[d].up # <<>> => net[d].up # <<>>
                 /\ Upstream(d, cli[d], net'[d], fed, peers, backlog)
      <3>1. CASE d = c
        BY <1>11, <2>2, <2>3, <2>4, <3>1 DEF n2
      <3>2. CASE d # c
        BY <1>1, <1>6, <2>1, <3>2
      <3> QED BY <3>1, <3>2
    <2>6. /\ JobFields(job') /\ Event(job', peers, backlog) /\ Errands(job'.todo, fed)
          /\ \A d : ~HalfSent(d, job'.todo)
      BY <1>11, IdleIs
    <2> QED BY <1>1, <1>7, <1>11, <2>1, <2>5, <2>6
  <1>12. CASE ServerDies
    BY <1>12, DeleteKeeps
  <1> QED BY <1>8, <1>9, <1>10, <1>11, <1>12 DEF ServerRecv, chat_server_remove_client

-----------------------------------------------------------------------------
(* The theorems.                                                           *)

\* Nobody has said anything yet.
LEMMA ChatInit == Init => ChatInv
  <1> SUFFICES ASSUME Init PROVE ChatInv
    OBVIOUS
  <1>1. /\ started = "new" /\ peers = <<>> /\ send = <<>> /\ job = Idle /\ backlog = <<>>
        /\ fed = [p \in Parties |-> 0] /\ DOMAIN cli = Clients /\ DOMAIN net = Clients
    BY DEF Init, Parties
  <1>2. <<>> \in Seq(Frame) /\ Len(<<>>) = 0 /\ 0 <= Capacity
    BY ChatAssumption
  <1>3. ASSUME NEW c \in Clients
        PROVE CliType(cli[c]) /\ NetType(net[c]) /\ ClientInv(c) /\ net[c].srv = "open"
    <2>1. /\ DOMAIN cli[c] = CliFields /\ cli[c].st = "new" /\ ~cli[c].name_sended /\ cli[c].send = <<>>
          /\ cli[c].recved = <<>> /\ cli[c].at = "idle" /\ cli[c].todo = <<>>
          /\ cli[c].auth_name = None /\ cli[c].popped = <<>>
      BY DEF Init, NewClient, CliFields
    <2>2. /\ DOMAIN net[c] = {"up", "down", "end", "srv"} /\ net[c].up = <<>> /\ net[c].down = <<>>
          /\ net[c].end = "open" /\ net[c].srv = "open"
      BY DEF Init
    <2>3. CliType(cli[c])
      BY <1>2, <2>1 DEF CliType
    <2>4. NetType(net[c])
      BY <1>2, <2>2 DEF NetType
    <2>5. ClientOK(c, cli[c], net[c], fed)
      <3>1. <<>> \in Seq(Good(c, fed, cli[c].authors)) /\ <<>> \in Seq(Own(c, fed))
        OBVIOUS
      <3> QED BY <2>1, <2>2, <3>1 DEF ClientOK
    <2>6. Upstream(c, cli[c], net[c], fed, peers, backlog)
      <3>1. AuthorIn(c, {None}, peers)
        BY <1>1 DEF AuthorIn
      <3> QED BY <2>1, <2>2, <3>1 DEF Upstream, NothingSaid
    <2>7. Downstream(c, Stream(cli[c].auth_name, net[c].down), job.todo, started \in {"new", "up"}, fed)
      <3>1. Stream(cli[c].auth_name, net[c].down) = <<>>
        BY <2>1, <2>2 DEF Stream
      <3>2. Alternates(<<>>, c, fed)
        BY <1>2 DEF Alternates
      <3>3. ~HalfSent(c, job.todo)
        BY <1>1, IdleIs
      <3>4. Meets(c, <<>>, job.todo, fed)
        BY <1>2, <3>3 DEF Meets
      <3> QED BY <3>1, <3>2, <3>4 DEF Downstream
    <2> QED BY <2>2, <2>3, <2>4, <2>5, <2>6, <2>7 DEF ClientInv
  <1>4. Types
    BY <1>1, <1>3 DEF Types
  <1>5. Table(<<>>, <<>>)
    BY EmptyList DEF Table, OncePeer, SocketsOf
  <1>6. Connected
    <2>1. Elems(<<>>) = {} /\ SocketsOf(<<>>) = {} /\ <<>> \in Seq(Named(Server, fed))
      BY EmptyList DEF SocketsOf
    <2> QED BY <1>1, <1>3, <2>1 DEF Connected
  <1>7. ServerInv
    BY <1>1, <1>4, <1>5, <1>6, IdleIs DEF ServerInv
  <1> QED BY <1>3, <1>7 DEF ChatInv

\* Every step of the server and of the clients keeps the invariant.
LEMMA ChatNext == ChatInv /\ [Next]_chatVars => ChatInv'
  <1> SUFFICES ASSUME ChatInv, [Next]_chatVars PROVE ChatInv'
    OBVIOUS
  <1>1. CASE UNCHANGED chatVars
    <2>1. UNCHANGED <<started, peers, send, job, backlog, cli, net, fed>>
      BY <1>1 DEF chatVars
    <2>2. ServerInv'
      BY <2>1 DEF ChatInv, ServerInv, Types, Connected
    <2>3. ASSUME NEW d \in Clients PROVE ClientInv(d)'
      BY <2>1 DEF ChatInv, ClientInv
    <2> QED BY <2>2, <2>3 DEF ChatInv
  <1>2. ASSUME NEW ev \in Clients \cup {Server, None}, chat_server_update(ev) PROVE ChatInv'
    BY <1>2, UpdateKeeps
  <1>3. CASE ServerSend
    BY <1>3, ServerSendKeeps
  <1>4. CASE Accept
    BY <1>4, AcceptKeeps
  <1>5. ASSUME NEW c \in Clients, ServerRecv(c) PROVE ChatInv'
    BY <1>5, ServerRecvKeeps
  <1>6. CASE chat_server_listen \/ chat_server_pop_next
    BY <1>6, ListenKeeps
  <1>7. CASE chat_server_delete
    BY <1>7, DeleteKeeps
  <1>8. CASE chat_server_feed
    BY <1>8, ServerFeedKeeps
  <1>9. ASSUME NEW c \in Clients, chat_client_update(c) PROVE ChatInv'
    BY <1>9, ClientUpdateKeeps
  <1>10. ASSUME NEW c \in Clients, ClientSend(c) PROVE ChatInv'
    BY <1>10, ClientSendKeeps
  <1>11. ASSUME NEW c \in Clients, ClientRecv(c) PROVE ChatInv'
    BY <1>11, ClientRecvKeeps
  <1>12. ASSUME NEW c \in Clients, chat_client_pop_next(c) PROVE ChatInv'
    BY <1>12, PopKeeps
  <1>13. ASSUME NEW c \in Clients, chat_client_connect(c) PROVE ChatInv'
    BY <1>13, ConnectKeeps
  <1>14. ASSUME NEW c \in Clients, chat_client_feed(c) PROVE ChatInv'
    BY <1>14, ClientFeedKeeps
  <1>15. ASSUME NEW c \in Clients, ClientLeaves(c) PROVE ChatInv'
    BY <1>15, LeaveKeeps
  <1> QED BY <1>1, <1>2, <1>3, <1>4, <1>5, <1>6, <1>7, <1>8, <1>9, <1>10, <1>11, <1>12, <1>13,
          <1>14, <1>15
          DEF Next, ServerStep, ClientStep

\* The inductive invariant holds in every state of the chat (chat_server.c,
\* chat_client.c): names go ahead of texts, authors and texts take turns.
THEOREM ChatInvariant == Spec => []ChatInv
  BY ChatInit, ChatNext, PTL DEF Spec

\* Whatever a client receives is a line that somebody else fed, under the name of
\* who fed it, although nothing on the wire tells a name from a text: any number
\* of clients and lines, processes that end at any moment (chat_server_update,
\* chat_client_update).
THEOREM MessagesAttributed == Spec => []Attribution
  <1>1. ASSUME ChatInv PROVE Attribution
    <2>1. Types /\ Table(peers, backlog) /\ JobFields(job)
      BY <1>1, ServerParts
    <2>2. ASSUME NEW c \in Clients
          PROVE  /\ Received(c) \in Seq(Good(c, fed, cli[c].authors)) /\ ClientOK(c, cli[c], net[c], fed)
                 /\ CliType(cli[c]) /\ NetType(net[c])
      <3>1. ClientOK(c, cli[c], net[c], fed) /\ CliType(cli[c]) /\ NetType(net[c])
        BY <1>1, ServerParts DEF ClientInv
      <3>2. cli[c].popped \in Seq(Good(c, fed, cli[c].authors)) /\
              cli[c].recved \in Seq(Good(c, fed, cli[c].authors))
        BY <3>1 DEF ClientOK
      <3>3. Received(c) \in Seq(Good(c, fed, cli[c].authors))
        BY <3>2, ConcatProperties DEF Received
      <3> QED BY <3>1, <3>3
    <2>3. ASSUME NEW c \in Clients, NEW i \in 1..Len(Received(c))
          PROVE  /\ Received(c)[i].author \in cli[c].authors
                 /\ \E p \in Parties \ {c} : \E n \in 1..fed[p] :
                       Received(c)[i] = [author |-> p, text |-> Text(p, n)]
      <3> DEFINE m == Received(c)[i]
      <3>1. m \in Good(c, fed, cli[c].authors)
        BY <2>2, ElementOfSeq
      <3> HIDE DEF m
      <3>2. /\ m = [author |-> m.author, text |-> m.text] /\ m.author \in Parties \ {c}
            /\ m.text \in Lines(m.author, fed) /\ m.author \in cli[c].authors
        BY <3>1 DEF Good
      <3>3. PICK n \in 1..fed[m.author] : m.text = Text(m.author, n)
        BY <3>2 DEF Lines
      <3>4. m = [author |-> m.author, text |-> Text(m.author, n)]
        BY <3>2, <3>3
      <3> QED BY <3>2, <3>3, <3>4 DEF m
    <2>4. TypeOK
      <3>1. started \in {"new", "up", "deleted", "dead"} /\ job.at \in {"idle", "send", "event", "relay"}
        BY <2>1 DEF Types, JobFields
      <3>2. \A i, j \in 1..Len(peers) : peers[i].socket = peers[j].socket => i = j
        BY <2>1 DEF Table, OncePeer
      <3>3. ASSUME NEW c \in Clients
            PROVE  /\ cli[c].st \in {"new", "up", "broken", "gone"}
                   /\ cli[c].at \in {"idle", "send", "recv"}
                   /\ Len(net[c].up) <= Capacity /\ Len(net[c].down) <= Capacity
                   /\ net[c].up # <<>> => cli[c].st \in {"up", "gone"}
                   /\ cli[c].at # "idle" => cli[c].st = "up"
        BY <2>2 DEF ClientOK, CliType, NetType
      <3> QED BY <2>3, <3>1, <3>2, <3>3 DEF TypeOK
    <2> QED BY <2>3, <2>4 DEF Attribution
  <1> QED BY <1>1, ChatInvariant, PTL

-----------------------------------------------------------------------------
(* The mail: what the server has told each client, and how much of what    *)
(* each party says it has taken.                                           *)

\* The messages that may be told to c; those of p up to line n are taken.
Message(c, g) == {m \in [author : Parties \ {c}, text : Parties \X Nat] : m.text \in Lines(m.author, g)}

\* The frames of s are those of the messages h, behind the first f of them.
Says(s, h, f) ==
    /\ f + Len(s) <= 2 * Len(h)
    /\ \A i \in 1..Len(h) : /\ 2 * i - 1 - f \in 1..Len(s) => s[2 * i - 1 - f] = h[i].author
                            /\ 2 * i - f \in 1..Len(s) => s[2 * i - f] = h[i].text

\* A client k with connection n has got the beginning of h, and more is coming.
Got(k)       == k.popped \o k.recved
Coming(k, n) == Stream(k.auth_name, n.down)
Reach(k, n)  == 2 * Len(Got(k)) + Len(Coming(k, n))
Follows(k, n, h) ==
    /\ Len(Got(k)) <= Len(h) /\ \A i \in 1..Len(Got(k)) : Got(k)[i] = h[i]
    /\ Says(Coming(k, n), h, 2 * Len(Got(k)))

\* The errands t for d are the rest of h.
Idles(d, t) == \A i \in 1..Len(t) : t[i].to # d
Rests(d, t, h, f) ==
    /\ \A i \in 1..Len(t) : t[i].to = d => Says(t[i].frames, h, f) /\ f + Len(t[i].frames) = 2 * Len(h)
    /\ Idles(d, t) => f = 2 * Len(h)

\* The last line of p in h is the last one the server has taken.
Newest(h, g) == \A i \in 1..Len(h) :
    (\A j \in (i + 1)..Len(h) : h[j].author # h[i].author)
        => h[i].text = Text(h[i].author, g[h[i].author])

\* What c is saying to a server with the peers P: the name, until the server has it, and
\* the lines after the g-th, up to the last one fed.
NameLeft(c, P) == IF \E i \in 1..Len(P) : P[i].socket = c /\ P[i].author # None THEN 0 ELSE 1
Texts(k, n, o) == IF n.up = <<>> /\ k.todo = <<>> THEN 0 ELSE Len(n.up) + Len(k.todo) - o
Saying(c, k, n, o, g, last) ==
    /\ \A i \in 1..Len(n.up) : i > o => n.up[i] = Text(c, g + i - o)
    /\ \A i \in 1..Len(k.todo) : Len(n.up) + i > o => k.todo[i] = Text(c, g + Len(n.up) + i - o)
    /\ \A i \in 1..Len(k.send) : k.send[i].text = Text(c, g + Texts(k, n, o) + i)
    /\ k.st # "gone" => g + Texts(k, n, o) + Len(k.send) = last

ServerSaying(g) ==
    /\ \A i \in 1..Len(send) : send[i] = [author |-> Server, text |-> Text(Server, g[Server] + i)]
    /\ g[Server] + Len(send) = fed[Server]

Up == started \in {"new", "up"}
Told(H, g) ==
    /\ g \in [Parties -> Nat]
    /\ \A c \in Clients : H[c] \in Seq(Message(c, g)) /\ Successive(H[c])
    /\ \A c, d \in Clients : Agree(H[c], H[d])
Listening(c, h, g) ==
    /\ Rests(c, job.todo, h, Reach(cli[c], net[c])) /\ Newest(h, g)
    /\ c \notin SocketsOf(peers) => h = <<>>
Mail(H, g) ==
    /\ Told(H, g)
    /\ \A c \in Clients : Follows(cli[c], net[c], H[c])
    /\ Up => /\ ServerSaying(g)
             /\ \A c \in Clients :
                   /\ net[c].end = "open" => Listening(c, H[c], g)
                   /\ cli[c].st = "up" => c \in Elems(backlog) \cup SocketsOf(peers)
                   /\ Saying(c, cli[c], net[c], NameLeft(c, peers), g[c], fed[c])
MailInv == \E H, g : Mail(H, g)

-----------------------------------------------------------------------------
(* Messages told and frames that say them.                                 *)

\* What there is to know of a list with a message more.
LEMMA AppendIs ==
    ASSUME NEW X, NEW h \in Seq(X), NEW m \in X
    PROVE  /\ Append(h, m) \in Seq(X) /\ Len(h) \in Nat /\ Len(Append(h, m)) = Len(h) + 1
           /\ \A i \in 1..Len(h) : Append(h, m)[i] = h[i] /\ h[i] \in X
           /\ Append(h, m)[Len(h) + 1] = m
  BY AppendProperties, LenProperties, ElementOfSeq

\* Messages are what they are when more lines are taken.
LEMMA MessagesGrow ==
    ASSUME NEW c, NEW g \in [Parties -> Nat], NEW p \in Parties, NEW G, OneMore(g, p, G)
    PROVE  /\ Message(c, g) \subseteq Message(c, G) /\ Seq(Message(c, g)) \subseteq Seq(Message(c, G))
           /\ p # c => [author |-> p, text |-> Text(p, G[p])] \in Message(c, G)
           /\ [author |-> p, text |-> Text(p, G[p])] \notin Message(c, g)
           /\ G \in [Parties -> Nat] /\ G[p] = g[p] + 1 /\ \A q \in Parties \ {p} : G[q] = g[q]
  <1>1. G \in [Parties -> Nat] /\ G[p] = g[p] + 1 /\ \A q \in Parties \ {p} : G[q] = g[q]
    BY DEF OneMore
  <1>2. Message(c, g) \subseteq Message(c, G)
    BY LinesGrow DEF Message
  <1>3. Text(p, G[p]) \in Lines(p, G) /\ Text(p, G[p]) \in Parties \X Nat
    BY <1>1, LinesGrow, LinesAreFrames
  <1>4. ASSUME p # c PROVE [author |-> p, text |-> Text(p, G[p])] \in Message(c, G)
    BY <1>3, <1>4 DEF Message
  <1>5. Text(p, G[p]) \notin Lines(p, g)
    <2>1. g[p] \in Nat /\ ~(g[p] + 1 \in 1..g[p])
      OBVIOUS
    <2> QED BY <1>1, <2>1 DEF Lines, Text
  <1>6. [author |-> p, text |-> Text(p, G[p])] \notin Message(c, g)
    BY <1>5 DEF Message
  <1> QED BY <1>1, <1>2, <1>4, <1>6

\* The next line of p follows the others.
LEMMA SuccessiveGrow ==
    ASSUME NEW c, NEW g \in [Parties -> Nat], NEW p \in Parties, NEW G, OneMore(g, p, G), p # c,
           NEW h \in Seq(Message(c, g)), Successive(h), Newest(h, g)
    PROVE  Successive(Append(h, [author |-> p, text |-> Text(p, G[p])]))
  <1> DEFINE m == [author |-> p, text |-> Text(p, G[p])]  r == Append(h, m)  n == Len(h)
  <1>1. G[p] = g[p] + 1 /\ h \in Seq(Message(c, G)) /\ m \in Message(c, G)
    BY MessagesGrow
  <1>2. n \in Nat /\ Len(r) = n + 1 /\ (\A i \in 1..n : r[i] = h[i]) /\ r[n + 1] = m
    BY <1>1, AppendIs
  <1>3. m.author = p /\ m.text = Text(p, g[p] + 1)
    BY <1>1
  <1> HIDE DEF m, r, n
  <1> SUFFICES ASSUME NEW i \in 1..Len(r), NEW j \in 1..Len(r), i < j, r[i].author = r[j].author,
                      \A k \in (i + 1)..(j - 1) : r[k].author # r[i].author
               PROVE  r[j].text = Text(r[i].author, r[i].text[2] + 1)
    BY DEF Successive, r, m
  <1>4. i \in 1..n /\ r[i] = h[i]
    BY <1>2
  <1>5. CASE j = n + 1
    <2>1. h[i].author = p /\ r[j] = m
      BY <1>2, <1>3, <1>4, <1>5
    <2>2. ASSUME NEW k \in (i + 1)..n PROVE h[k].author # h[i].author
      <3>1. k \in 1..n /\ k \in (i + 1)..(j - 1)
        BY <1>2, <1>4, <1>5
      <3> QED BY <1>2, <1>4, <3>1
    <2>3. h[i].text = Text(p, g[p])
      BY <1>4, <2>1, <2>2 DEF Newest, n
    <2>4. Text(p, g[p])[2] = g[p]
      BY DEF Text
    <2> QED BY <1>3, <1>4, <2>1, <2>3, <2>4
  <1>6. CASE j # n + 1
    <2>1. j \in 1..n /\ r[j] = h[j]
      BY <1>2, <1>6
    <2>2. ASSUME NEW k \in (i + 1)..(j - 1) PROVE h[k].author # h[i].author
      <3>1. k \in 1..n
        BY <1>2, <1>4, <2>1
      <3> QED BY <1>2, <1>4, <3>1
    <2> QED BY <1>4, <2>1, <2>2 DEF Successive, n
  <1> QED BY <1>5, <1>6

\* And is the last.
LEMMA NewestGrow ==
    ASSUME NEW c, NEW g \in [Parties -> Nat], NEW p \in Parties, NEW G, OneMore(g, p, G), p # c,
           NEW h \in Seq(Message(c, g)), Newest(h, g)
    PROVE  Newest(Append(h, [author |-> p, text |-> Text(p, G[p])]), G)
  <1> DEFINE m == [author |-> p, text |-> Text(p, G[p])]  r == Append(h, m)  n == Len(h)
  <1>1. (\A q \in Parties \ {p} : G[q] = g[q]) /\ h \in Seq(Message(c, G)) /\ m \in Message(c, G)
    BY MessagesGrow
  <1>2. /\ n \in Nat /\ Len(r) = n + 1 /\ (\A i \in 1..n : r[i] = h[i]) /\ r[n + 1] = m
        /\ \A i \in 1..n : h[i] \in Message(c, G)
    BY <1>1, AppendIs
  <1>3. m.author = p /\ m.text = Text(p, G[p])
    OBVIOUS
  <1> HIDE DEF m, r, n
  <1> SUFFICES ASSUME NEW i \in 1..Len(r), \A j \in (i + 1)..Len(r) : r[j].author # r[i].author
               PROVE  r[i].text = Text(r[i].author, G[r[i].author])
    BY DEF Newest, r, m
  <1>4. CASE i = n + 1
    BY <1>2, <1>3, <1>4
  <1>5. CASE i # n + 1
    <2>1. i \in 1..n /\ r[i] = h[i] /\ h[i].author \in Parties
      BY <1>2, <1>5 DEF Message
    <2>2. n + 1 \in (i + 1)..Len(r)
      BY <1>2, <2>1
    <2>3. h[i].author # p
      BY <1>2, <1>3, <2>1, <2>2
    <2>4. ASSUME NEW j \in (i + 1)..n PROVE h[j].author # h[i].author
      <3>1. j \in (i + 1)..Len(r) /\ j \in 1..n
        BY <1>2, <2>1
      <3> QED BY <1>2, <2>1, <3>1
    <2>5. h[i].text = Text(h[i].author, g[h[i].author])
      BY <2>1, <2>4 DEF Newest, n
    <2> QED BY <1>1, <2>1, <2>3, <2>5
  <1> QED BY <1>4, <1>5

\* A new message that one list gets, or both, or none, leaves them in agreement.
Grown(h, m, r) == r = h \/ r = Append(h, m)

\* Two histories that agree still do when both get the same new message.
LEMMA AgreeGrow ==
    ASSUME NEW X, NEW h \in Seq(X), NEW k \in Seq(X), NEW m, m \notin X, Agree(h, k), Agree(k, h),
           NEW h2, NEW k2, Grown(h, m, h2), Grown(k, m, k2)
    PROVE  Agree(h2, k2)
  <1> DEFINE Y == X \cup {m}
  <1>1. h \in Seq(Y) /\ k \in Seq(Y) /\ m \in Y
    OBVIOUS
  <1>2. /\ Len(h) \in Nat /\ Len(k) \in Nat
        /\ Len(h2) \in {Len(h), Len(h) + 1} /\ Len(k2) \in {Len(k), Len(k) + 1}
        /\ \A i \in 1..Len(h) : h2[i] = h[i] /\ h[i] # m
        /\ \A i \in 1..Len(k) : k2[i] = k[i] /\ k[i] # m
        /\ Len(h2) = Len(h) + 1 => h2[Len(h) + 1] = m
        /\ Len(k2) = Len(k) + 1 => k2[Len(k) + 1] = m
    <2>1. \A i \in 1..Len(h) : h[i] \in X
      BY ElementOfSeq
    <2>2. \A i \in 1..Len(k) : k[i] \in X
      BY ElementOfSeq
    <2>3. Len(h) \in Nat /\ Len(k) \in Nat
      BY LenProperties
    <2>4. /\ Len(Append(h, m)) = Len(h) + 1 /\ Append(h, m)[Len(h) + 1] = m
          /\ \A i \in 1..Len(h) : Append(h, m)[i] = h[i]
      BY <1>1, AppendIs
    <2>5. /\ Len(Append(k, m)) = Len(k) + 1 /\ Append(k, m)[Len(k) + 1] = m
          /\ \A i \in 1..Len(k) : Append(k, m)[i] = k[i]
      BY <1>1, AppendIs
    <2>6. CASE h2 = h /\ k2 = k
      BY <2>1, <2>2, <2>3, <2>6
    <2>7. CASE h2 = Append(h, m) /\ k2 = k
      BY <2>1, <2>2, <2>3, <2>4, <2>7
    <2>8. CASE h2 = h /\ k2 = Append(k, m)
      BY <2>1, <2>2, <2>3, <2>5, <2>8
    <2>9. CASE h2 = Append(h, m) /\ k2 = Append(k, m)
      BY <2>1, <2>2, <2>3, <2>4, <2>5, <2>9
    <2> QED BY <2>6, <2>7, <2>8, <2>9 DEF Grown
  <1> SUFFICES ASSUME NEW i \in 1..Len(h2), NEW j \in 1..Len(h2),
                      NEW a \in 1..Len(k2), NEW b \in 1..Len(k2),
                      i < j, h2[i] = k2[a], h2[j] = k2[b]
               PROVE  a < b
    BY DEF Agree
  <1>3. i \in 1..Len(h) /\ h2[i] = h[i] /\ h[i] # m
    BY <1>2
  <1>4. a \in 1..Len(k) /\ k2[a] = k[a]
    <2>1. CASE a \in 1..Len(k)
      BY <1>2, <2>1
    <2>2. CASE a \notin 1..Len(k)
      <3>1. Len(k2) = Len(k) + 1 /\ a = Len(k) + 1
        BY <1>2, <2>2
      <3> QED BY <1>2, <1>3, <3>1
    <2> QED BY <2>1, <2>2
  <1>5. CASE b \in 1..Len(k)
    <2>1. j \in 1..Len(h)
      <3>1. h2[j] # m
        BY <1>2, <1>5
      <3> QED BY <1>2, <3>1
    <2> QED BY ZenonT(40), <1>2, <1>3, <1>4, <1>5, <2>1 DEF Agree
  <1>6. CASE b \notin 1..Len(k)
    BY <1>2, <1>4, <1>6
  <1> QED BY <1>5, <1>6

\* What was said is still said when a message is added.
LEMMA SaysGrow ==
    ASSUME NEW X, NEW h \in Seq(X), NEW m \in X, NEW Z, NEW s \in Seq(Z), NEW f \in Nat, Says(s, h, f)
    PROVE  Says(s, Append(h, m), f)
  <1> DEFINE r == Append(h, m)
  <1>1. Len(h) \in Nat /\ Len(r) = Len(h) + 1 /\ \A i \in 1..Len(h) : r[i] = h[i]
    BY AppendIs
  <1>2. Len(s) \in Nat /\ f + Len(s) <= 2 * Len(h)
    BY LenProperties DEF Says
  <1> HIDE DEF r
  <1>3. ASSUME NEW i \in 1..Len(r)
        PROVE  /\ 2 * i - 1 - f \in 1..Len(s) => s[2 * i - 1 - f] = r[i].author
               /\ 2 * i - f \in 1..Len(s) => s[2 * i - f] = r[i].text
    <2>1. CASE i \in 1..Len(h)
      BY <1>1, <2>1 DEF Says
    <2>2. CASE i \notin 1..Len(h)
      <3>1. i = Len(h) + 1
        BY <1>1, <2>2
      <3> QED BY <1>1, <1>2, <3>1
    <2> QED BY <2>1, <2>2
  <1>4. f + Len(s) <= 2 * Len(r)
    BY <1>1, <1>2
  <1> QED BY <1>3, <1>4 DEF Says, r

\* A frame goes from the errand to the connection.
LEMMA SaysSend ==
    ASSUME NEW Z, NEW s \in Seq(Z), NEW r \in Seq(Z), r # <<>>, NEW X, NEW h \in Seq(X), NEW f \in Nat,
           Says(s, h, f), Says(r, h, f + Len(s))
    PROVE  /\ Says(Append(s, Head(r)), h, f) /\ Says(Tail(r), h, f + Len(Append(s, Head(r))))
           /\ Len(Append(s, Head(r))) = Len(s) + 1
  <1> DEFINE x == Head(r)  s2 == Append(s, x)  r2 == Tail(r)
  <1>1. /\ x = r[1] /\ x \in Z /\ r2 \in Seq(Z) /\ Len(r) \in Nat \ {0} /\ Len(r2) = Len(r) - 1
        /\ \A i \in 1..Len(r2) : r2[i] = r[i + 1]
    BY HeadTailProperties, EmptySeq
  <1>2. Len(s) \in Nat /\ Len(s2) = Len(s) + 1 /\ (\A i \in 1..Len(s) : s2[i] = s[i])
        /\ s2[Len(s) + 1] = x
    BY <1>1, AppendIs
  <1>3. Len(h) \in Nat
    BY LenProperties
  <1> HIDE DEF x, s2, r2
  <1>4. /\ f + Len(s) + Len(r) <= 2 * Len(h)
        /\ \A i \in 1..Len(h) :
              /\ 2 * i - 1 - f \in 1..Len(s) => s[2 * i - 1 - f] = h[i].author
              /\ 2 * i - f \in 1..Len(s) => s[2 * i - f] = h[i].text
              /\ 2 * i - 1 - (f + Len(s)) \in 1..Len(r) => r[2 * i - 1 - (f + Len(s))] = h[i].author
              /\ 2 * i - (f + Len(s)) \in 1..Len(r) => r[2 * i - (f + Len(s))] = h[i].text
    BY DEF Says
  <1>5. ASSUME NEW i \in 1..Len(h)
        PROVE  /\ 2 * i - 1 - f \in 1..Len(s2) => s2[2 * i - 1 - f] = h[i].author
               /\ 2 * i - f \in 1..Len(s2) => s2[2 * i - f] = h[i].text
    <2>1. ASSUME NEW y \in Int, y - f \in 1..Len(s2), y - f \notin 1..Len(s)
          PROVE  y - f = Len(s) + 1 /\ s2[y - f] = r[1] /\ y - (f + Len(s)) = 1 /\ 1 \in 1..Len(r)
      <3>1. y - f = Len(s) + 1
        BY SMTT(40), <1>2, <2>1
      <3>2. y - (f + Len(s)) = 1 /\ 1 \in 1..Len(r)
        BY <1>1, <1>2, <2>1, <3>1
      <3> QED BY <1>1, <1>2, <3>1, <3>2
    <2>2. ASSUME 2 * i - 1 - f \in 1..Len(s2) PROVE s2[2 * i - 1 - f] = h[i].author
      <3>1. CASE 2 * i - 1 - f \in 1..Len(s)
        BY <1>2, <1>4, <3>1
      <3>2. CASE 2 * i - 1 - f \notin 1..Len(s)
        <4>1. 2 * i - 1 \in Int
          OBVIOUS
        <4> DEFINE y == 2 * i - 1
        <4> HIDE DEF y
        <4>2. y - f = Len(s) + 1 /\ s2[y - f] = r[1] /\ y - (f + Len(s)) = 1 /\ 1 \in 1..Len(r)
          BY <2>1, <2>2, <3>2, <4>1 DEF y
        <4> QED BY <1>4, <4>2 DEF y
      <3> QED BY <3>1, <3>2
    <2>3. ASSUME 2 * i - f \in 1..Len(s2) PROVE s2[2 * i - f] = h[i].text
      <3>1. CASE 2 * i - f \in 1..Len(s)
        BY <1>2, <1>4, <3>1
      <3>2. CASE 2 * i - f \notin 1..Len(s)
        <4>1. 2 * i \in Int
          OBVIOUS
        <4> DEFINE y == 2 * i
        <4> HIDE DEF y
        <4>2. y - f = Len(s) + 1 /\ s2[y - f] = r[1] /\ y - (f + Len(s)) = 1 /\ 1 \in 1..Len(r)
          BY <2>1, <2>3, <3>2, <4>1 DEF y
        <4> QED BY <1>4, <4>2 DEF y
      <3> QED BY <3>1, <3>2
    <2> QED BY <2>2, <2>3
  <1>6. ASSUME NEW i \in 1..Len(h)
        PROVE  /\ 2 * i - 1 - (f + Len(s2)) \in 1..Len(r2) => r2[2 * i - 1 - (f + Len(s2))] = h[i].author
               /\ 2 * i - (f + Len(s2)) \in 1..Len(r2) => r2[2 * i - (f + Len(s2))] = h[i].text
    <2>1. ASSUME NEW y \in Int, y - (f + Len(s2)) \in 1..Len(r2)
          PROVE  y - (f + Len(s)) \in 1..Len(r) /\ r2[y - (f + Len(s2))] = r[y - (f + Len(s))]
      <3>1. y - (f + Len(s)) = (y - (f + Len(s2))) + 1 /\ y - (f + Len(s)) \in 1..Len(r)
        BY <1>1, <1>2, <2>1
      <3> QED BY <1>1, <2>1, <3>1
    <2>2. 2 * i - 1 \in Int /\ 2 * i \in Int
      OBVIOUS
    <2> QED BY <1>4, <2>1, <2>2
  <1>7. f + Len(s2) <= 2 * Len(h) /\ f + Len(s2) + Len(r2) <= 2 * Len(h)
    BY <1>1, <1>2, <1>3, <1>4
  <1> QED BY <1>2, <1>5, <1>6, <1>7 DEF Says, x, s2, r2

\* A message is read: the client has got one more.
LEMMA SaysRead ==
    ASSUME NEW s \in Seq(Frame), s # <<>>, NEW a \in Parties, NEW X, NEW h \in Seq(X), NEW n \in Nat,
           Says(Stream(a, s), h, 2 * n)
    PROVE  /\ n + 1 <= Len(h) /\ h[n + 1].author = a /\ h[n + 1].text = Head(s)
           /\ Says(Tail(s), h, 2 * (n + 1)) /\ Len(Stream(a, s)) = Len(Tail(s)) + 2
  <1> DEFINE r == Stream(a, s)  t == Tail(s)
  <1>1. /\ t \in Seq(Frame) /\ Len(s) \in Nat \ {0} /\ Len(t) = Len(s) - 1 /\ Head(s) = s[1]
        /\ \A i \in 1..Len(t) : t[i] = s[i + 1]
    BY HeadTailProperties, EmptySeq
  <1>2. Len(r) = Len(s) + 1 /\ r[1] = a /\ \A i \in 2..(Len(s) + 1) : r[i] = s[i - 1]
    <2>1. a \in Parties \cup {None} /\ a # None
      BY NobodyIsNone
    <2> HIDE DEF r, t
    <2>2. /\ Len(Stream(a, s)) = Len(s) + 1 /\ Stream(a, s)[1] = a
          /\ \A i \in 2..(Len(s) + 1) : Stream(a, s)[i] = s[i - 1]
      BY <2>1, StreamIs
    <2> QED BY <2>2 DEF r
  <1>3. Len(h) \in Nat
    BY LenProperties
  <1> HIDE DEF r, t
  <1>4. /\ 2 * n + Len(r) <= 2 * Len(h)
        /\ \A i \in 1..Len(h) : /\ 2 * i - 1 - 2 * n \in 1..Len(r) => r[2 * i - 1 - 2 * n] = h[i].author
                                /\ 2 * i - 2 * n \in 1..Len(r) => r[2 * i - 2 * n] = h[i].text
    BY DEF Says, r
  <1>5. n + 1 <= Len(h) /\ n + 1 \in 1..Len(h)
    BY <1>1, <1>2, <1>3, <1>4
  <1>6. 2 * (n + 1) - 1 - 2 * n = 1 /\ 2 * (n + 1) - 2 * n = 2 /\ 1 \in 1..Len(r) /\ 2 \in 1..Len(r)
    BY <1>1, <1>2
  <1>7. h[n + 1].author = r[1] /\ h[n + 1].text = r[2]
    BY <1>4, <1>5, <1>6
  <1>8. r[2] = s[1]
    <2>1. 2 \in 2..(Len(s) + 1) /\ 2 - 1 = 1
      BY <1>1
    <2> QED BY <1>2, <2>1
  <1>9. ASSUME NEW y \in Int, y - 2 * (n + 1) \in 1..Len(t)
        PROVE  y - 2 * n \in 1..Len(r) /\ t[y - 2 * (n + 1)] = r[y - 2 * n]
    <2> DEFINE z == y - 2 * (n + 1)
    <2>1. z \in 1..Len(t) /\ y - 2 * n = z + 2 /\ z \in Int
      BY <1>9
    <2>2. z + 2 \in 1..Len(r) /\ z + 2 \in 2..(Len(s) + 1) /\ (z + 2) - 1 = z + 1
      BY <1>1, <1>2, <2>1
    <2> HIDE DEF z
    <2>3. t[z] = s[z + 1] /\ r[z + 2] = s[z + 1]
      BY <1>1, <1>2, <2>1, <2>2
    <2> QED BY <2>1, <2>2, <2>3 DEF z
  <1>10. ASSUME NEW i \in 1..Len(h)
         PROVE  /\ 2 * i - 1 - 2 * (n + 1) \in 1..Len(t) => t[2 * i - 1 - 2 * (n + 1)] = h[i].author
                /\ 2 * i - 2 * (n + 1) \in 1..Len(t) => t[2 * i - 2 * (n + 1)] = h[i].text
    <2>1. 2 * i - 1 \in Int /\ 2 * i \in Int
      OBVIOUS
    <2> QED BY <1>4, <1>9, <2>1
  <1>11. 2 * (n + 1) + Len(t) <= 2 * Len(h) /\ Len(r) = Len(t) + 2
    BY <1>1, <1>2, <1>4
  <1> QED BY <1>1, <1>2, <1>5, <1>7, <1>8, <1>10, <1>11 DEF Says, r, t

\* A whole message says the last of a list.
LEMMA SaysWhole ==
    ASSUME NEW X, NEW h \in Seq(X), NEW p, NEW x, [author |-> p, text |-> x] \in X
    PROVE  /\ Says(<<p, x>>, Append(h, [author |-> p, text |-> x]), 2 * Len(h))
           /\ Len(<<p, x>>) = 2 /\ 2 * Len(Append(h, [author |-> p, text |-> x])) = 2 * Len(h) + 2
  <1> DEFINE m == [author |-> p, text |-> x]  r == Append(h, m)  s == <<p, x>>  n == Len(h)
  <1>1. n \in Nat /\ Len(r) = n + 1 /\ r[n + 1] = m
    BY AppendIs
  <1>2. Len(s) = 2 /\ s[1] = p /\ s[2] = x
    OBVIOUS
  <1>3. m.author = p /\ m.text = x
    OBVIOUS
  <1> HIDE DEF m, r, s, n
  <1>4. ASSUME NEW i \in 1..Len(r)
        PROVE  /\ 2 * i - 1 - 2 * n \in 1..Len(s) => s[2 * i - 1 - 2 * n] = r[i].author
               /\ 2 * i - 2 * n \in 1..Len(s) => s[2 * i - 2 * n] = r[i].text
    <2>1. CASE i = n + 1
      <3>1. 2 * i - 1 - 2 * n = 1 /\ 2 * i - 2 * n = 2
        BY <1>1, <2>1
      <3> QED BY <1>1, <1>2, <1>3, <2>1, <3>1
    <2>2. CASE i # n + 1
      <3>1. ~(2 * i - 1 - 2 * n \in 1..Len(s)) /\ ~(2 * i - 2 * n \in 1..Len(s))
        BY <1>1, <1>2, <2>2
      <3> QED BY <3>1
    <2> QED BY <2>1, <2>2
  <1>5. 2 * n + Len(s) <= 2 * Len(r) /\ 2 * Len(r) = 2 * n + 2
    BY <1>1, <1>2
  <1> QED BY <1>2, <1>4, <1>5 DEF Says, m, r, s, n

-----------------------------------------------------------------------------
(* What a client says.                                                     *)

\* The name is one frame or none.
LEMMA NameLeftIs ==
    ASSUME NEW c, NEW P
    PROVE  /\ NameLeft(c, P) \in {0, 1}
           /\ AuthorIn(c, {None}, P) => NameLeft(c, P) = 1
           /\ c # None /\ c \in SocketsOf(P) /\ AuthorIn(c, {c}, P) => NameLeft(c, P) = 0
  BY DEF NameLeft, AuthorIn, SocketsOf

\* Only four fields matter.
LEMMA SayingFields ==
    ASSUME NEW c, NEW k, NEW n, NEW k2, NEW n2, NEW o, NEW g, NEW last, Saying(c, k, n, o, g, last),
           k2.st = k.st, k2.send = k.send, k2.todo = k.todo, n2.up = n.up
    PROVE  Saying(c, k2, n2, o, g, last)
  BY DEF Saying, Texts

\* chat_client_feed adds the next line.
LEMMA SayingFeed ==
    ASSUME NEW c, NEW k, NEW n, NEW k2, NEW o, NEW g, NEW last, Saying(c, k, n, o, g, last),
           NEW X, k.send \in Seq(X), NEW m \in X, m.text = Text(c, last + 1), k.st = "up",
           k2.st = k.st, k2.send = Append(k.send, m), k2.todo = k.todo,
           g \in Nat, Texts(k, n, o) \in Int
    PROVE  Saying(c, k2, n, o, g, last + 1)
  <1> DEFINE x == Texts(k, n, o)  s == k.send  s2 == k2.send
  <1>1. Texts(k2, n, o) = x
    BY DEF Texts
  <1>2. Len(s) \in Nat /\ Len(s2) = Len(s) + 1 /\ (\A i \in 1..Len(s) : s2[i] = s[i])
        /\ s2[Len(s) + 1] = m
    BY AppendIs
  <1>3. last = g + x + Len(s) /\ \A i \in 1..Len(s) : s[i].text = Text(c, g + x + i)
    BY DEF Saying
  <1> HIDE DEF x, s, s2
  <1>4. ASSUME NEW i \in 1..Len(s2) PROVE s2[i].text = Text(c, g + x + i)
    <2>1. CASE i \in 1..Len(s)
      BY <1>2, <1>3, <2>1
    <2>2. CASE i \notin 1..Len(s)
      <3>1. i = Len(s) + 1
        BY <1>2, <2>2
      <3>2. last + 1 = g + x + i
        BY <1>2, <1>3, <3>1 DEF x
      <3> QED BY <1>2, <3>1, <3>2
    <2> QED BY <2>1, <2>2
  <1>5. g + x + Len(s2) = last + 1
    BY <1>2, <1>3 DEF x
  <1> QED BY <1>1, <1>4, <1>5 DEF Saying, x, s, s2

\* A client that has gone says what is under way.
LEMMA SayingLeave ==
    ASSUME NEW c, NEW k, NEW n, NEW k2, NEW n2, NEW o, NEW g, NEW last, Saying(c, k, n, o, g, last),
           k2.st = "gone", k2.send = <<>>, k2.todo = <<>>, n2.up = n.up
    PROVE  Saying(c, k2, n2, o, g, last)
  <1>1. Len(<<>>) = 0 /\ 1..0 = {}
    OBVIOUS
  <1> QED BY <1>1 DEF Saying

\* ClientSend moves a frame.
LEMMA SayingSend ==
    ASSUME NEW c, NEW k, NEW n, NEW k2, NEW n2, NEW o \in Nat, NEW g \in Nat, NEW last,
           Saying(c, k, n, o, g, last), n.up \in Seq(Frame), k.todo \in Seq(Frame), k.todo # <<>>,
           k2.st = k.st, k2.send = k.send, k2.todo = Tail(k.todo), n2.up = Append(n.up, Head(k.todo))
    PROVE  Saying(c, k2, n2, o, g, last)
  <1> DEFINE u == n.up  u2 == n2.up  t == k.todo  t2 == k2.todo
  <1>1. /\ t2 \in Seq(Frame) /\ Len(t) \in Nat \ {0} /\ Len(t2) = Len(t) - 1 /\ Head(t) = t[1]
        /\ Head(t) \in Frame /\ \A i \in 1..Len(t2) : t2[i] = t[i + 1]
    BY HeadTailProperties, EmptySeq
  <1>2. /\ Len(u) \in Nat /\ Len(u2) = Len(u) + 1 /\ (\A i \in 1..Len(u) : u2[i] = u[i])
        /\ u2[Len(u) + 1] = Head(t) /\ u2 # <<>>
    BY <1>1, AppendIs, AppendProperties
  <1>3. Texts(k, n, o) = Len(u) + Len(t) - o /\ Texts(k2, n2, o) = Len(u2) + Len(t2) - o
    BY <1>2 DEF Texts
  <1>5. /\ \A i \in 1..Len(u) : i > o => u[i] = Text(c, g + i - o)
        /\ \A i \in 1..Len(t) : Len(u) + i > o => t[i] = Text(c, g + Len(u) + i - o)
    BY DEF Saying
  <1> HIDE DEF u, u2, t, t2
  <1>0. \A a, b \in Nat : b # 0 => (a + 1) + (b - 1) - o = a + b - o
    OBVIOUS
  <1>4. Texts(k2, n2, o) = Texts(k, n, o)
    BY <1>0, <1>1, <1>2, <1>3
  <1>6. ASSUME NEW i \in 1..Len(u2), i > o PROVE u2[i] = Text(c, g + i - o)
    <2>1. CASE i \in 1..Len(u)
      BY <1>2, <1>5, <1>6, <2>1
    <2>2. CASE i \notin 1..Len(u)
      <3>1. i = Len(u) + 1 /\ 1 \in 1..Len(t)
        BY SMTT(40), <1>1, <1>2, <2>2
      <3>2. t[1] = Text(c, g + Len(u) + 1 - o)
        BY <1>5, <1>6, <3>1
      <3>3. g + i - o = g + Len(u) + 1 - o
        BY <1>2, <3>1
      <3> QED BY <1>1, <1>2, <3>1, <3>2, <3>3
    <2> QED BY <2>1, <2>2
  <1>7. ASSUME NEW i \in 1..Len(t2), Len(u2) + i > o PROVE t2[i] = Text(c, g + Len(u2) + i - o)
    <2>1. i + 1 \in 1..Len(t)
      BY <1>1
    <2>2. Len(u) + (i + 1) = Len(u2) + i /\ i \in Nat
      <3>1. Len(u) \in Nat /\ Len(u2) = Len(u) + 1 /\ Len(t2) \in Nat
        BY <1>1, <1>2
      <3> QED BY <3>1
    <2>3. g + Len(u2) + i - o = g + Len(u) + (i + 1) - o
      BY <1>2, <2>2
    <2> QED BY <1>1, <1>5, <1>7, <2>1, <2>2, <2>3
  <1> QED BY <1>4, <1>6, <1>7 DEF Saying, u, u2, t, t2

\* Tuples of one and of two.
LEMMA TupleIs ==
    ASSUME NEW a, NEW b
    PROVE  /\ Len(<<a, b>>) = 2 /\ <<a, b>>[2] = b /\ <<a, b>> # <<>>
           /\ Len(<<b>>) = 1 /\ <<b>>[1] = b /\ <<b>> # <<>>
  OBVIOUS

\* chat_client_update takes a message: what it says stays.
LEMMA SayingTake ==
    ASSUME NEW c \in Clients, NEW F \in [Parties -> Nat], NEW k, NEW n, NEW k2, NEW P, NEW B,
           NEW g \in Nat, NEW last, Upstream(c, k, n, F, P, B), c \in Elems(B) \cup SocketsOf(P),
           Saying(c, k, n, NameLeft(c, P), g, last), n.up \in Seq(Frame), k.send \in Seq(Own(c, F)),
           k.todo = <<>>, k.send # <<>>, k2.st = k.st, k2.send = Tail(k.send),
           k2.todo = Frames(Head(k.send))
    PROVE  Saying(c, k2, n, NameLeft(c, P), g, last)
  <1> DEFINE o == NameLeft(c, P)  u == n.up  s == k.send  s2 == k2.send  t2 == k2.todo  x == s[1].text
  <1>1. /\ Head(s) = s[1] /\ Head(s) \in Own(c, F) /\ s2 \in Seq(Own(c, F)) /\ Len(s) \in Nat \ {0}
        /\ Len(s2) = Len(s) - 1 /\ \A i \in 1..Len(s2) : s2[i] = s[i + 1]
    BY HeadTailProperties, EmptySeq
  <1>2. c # None
    BY NobodyIsNone
  <1>3. \/ u = <<>> /\ o = 1 /\ t2 = <<c, x>>
        \/ o <= Len(u) /\ o \in {0, 1} /\ t2 = <<x>>
    <2>1. s[1] \in Named(c, F) => t2 = <<c, x>>
      BY <1>1, <1>2 DEF Frames, Named
    <2>2. s[1] \in Quiet(c, F) => t2 = <<x>>
      BY <1>1 DEF Frames, Quiet
    <2>3. s \in Seq(Quiet(c, F)) => s[1] \in Quiet(c, F)
      <3> HIDE DEF s
      <3> QED BY <1>1, ElementOfSeq
    <2>4. Len(u) \in Nat /\ (u # <<>> => Len(u) # 0)
      BY LenProperties, EmptySeq
    <2>5. CASE NothingSaid(c, k, n, P)
      BY <2>5 DEF NothingSaid
    <2>6. CASE NameQueued(c, k, n, F, P)
      BY <1>1, <2>1, <2>6, NameLeftIs DEF NameQueued
    <2>7. CASE NameNext(c, k, n, F, P)
      BY <2>7 DEF NameNext, NameFirst
    <2>8. CASE NameSent(c, k, n, F, P)
      <3>1. u # <<>> /\ s \in Seq(Quiet(c, F)) /\ o = 1
        BY <2>8, NameLeftIs DEF NameSent, NameFirst, TextsOnly
      <3> HIDE DEF u, s, o
      <3> QED BY <2>2, <2>3, <2>4, <3>1
    <2>9. CASE NameKnown(c, k, n, F, P, B)
      <3>1. s \in Seq(Quiet(c, F)) /\ o = 0
        BY <1>2, <2>9, NameLeftIs DEF NameKnown, TextsOnly
      <3> HIDE DEF u, s, o
      <3> QED BY <2>2, <2>3, <2>4, <3>1
    <2> QED BY <2>5, <2>6, <2>7, <2>8, <2>9 DEF Upstream
  <1>4. Len(u) \in Nat /\ (u = <<>> <=> Len(u) = 0) /\ o \in {0, 1}
    <2>1. o \in {0, 1}
      BY NameLeftIs
    <2> QED BY <2>1, LenProperties, EmptySeq
  <1> HIDE DEF x, t2, o
  <1>31. /\ t2 = <<c, x>> => Len(t2) = 2 /\ t2[2] = x /\ t2 # <<>>
         /\ t2 = <<x>> => Len(t2) = 1 /\ t2[1] = x /\ t2 # <<>>
    <2>1. /\ Len(<<c, x>>) = 2 /\ <<c, x>>[2] = x /\ <<c, x>> # <<>>
          /\ Len(<<x>>) = 1 /\ <<x>>[1] = x /\ <<x>> # <<>>
      BY TupleIs
    <2>2. ASSUME t2 = <<c, x>> PROVE Len(t2) = 2 /\ t2[2] = x /\ t2 # <<>>
      BY <2>1, <2>2, Zenon
    <2>3. ASSUME t2 = <<x>> PROVE Len(t2) = 1 /\ t2[1] = x /\ t2 # <<>>
      BY <2>1, <2>3, Zenon
    <2> QED BY <2>2, <2>3, Zenon
  <1>5. Texts(k, n, o) = (IF u = <<>> THEN 0 ELSE Len(u) - o) /\ Texts(k2, n, o) = Len(u) + Len(t2) - o
    <2>1. t2 # <<>>
      BY <1>3, <1>31
    <2>2. Len(<<>>) = 0
      OBVIOUS
    <2>3. Texts(k2, n, o) = Len(u) + Len(t2) - o
      BY <2>1 DEF Texts, t2
    <2>4. Texts(k, n, o) = IF u = <<>> THEN 0 ELSE Len(u) + 0 - o
      BY <2>2 DEF Texts
    <2> HIDE DEF u
    <2> QED BY <1>4, <2>3, <2>4
  <1>6. Texts(k, n, o) \in Nat /\ Texts(k2, n, o) = Texts(k, n, o) + 1
    <2>1. CASE u = <<>> /\ o = 1 /\ t2 = <<c, x>>
      <3>1. Len(t2) = 2
        BY <1>31, <2>1
      <3> QED BY <1>4, <1>5, <2>1, <3>1
    <2>2. CASE o <= Len(u) /\ o \in {0, 1} /\ t2 = <<x>>
      <3>1. Len(t2) = 1
        BY <1>31, <2>2
      <3>2. u = <<>> => o = 0
        BY <1>4, <2>2
      <3> HIDE DEF u
      <3>3. Texts(k, n, o) = Len(u) - o
        BY <1>4, <1>5, <3>2
      <3> QED BY <1>4, <1>5, <2>2, <3>1, <3>3
    <2> QED BY <1>3, <2>1, <2>2
  <1> DEFINE w == Texts(k, n, o)
  <1>7. /\ \A i \in 1..Len(u) : i > o => u[i] = Text(c, g + i - o)
        /\ \A i \in 1..Len(s) : s[i].text = Text(c, g + w + i)
        /\ k.st # "gone" => g + w + Len(s) = last
    BY DEF Saying, o
  <1>8. x = Text(c, g + w + 1)
    BY <1>1, <1>7 DEF x
  <1>9. ASSUME NEW i \in 1..Len(t2), Len(u) + i > o PROVE t2[i] = Text(c, g + Len(u) + i - o)
    <2>1. CASE u = <<>> /\ o = 1 /\ t2 = <<c, x>>
      <3>1. Len(t2) = 2 /\ t2[2] = x
        BY <1>31, <2>1
      <3>2. i = 2 /\ g + Len(u) + i - o = g + w + 1
        <4>1. Len(u) = 0 /\ o = 1 /\ w = 0
          BY <1>4, <1>5, <2>1
        <4> HIDE DEF u, w
        <4>2. i = 2
          BY <1>9, <3>1, <4>1
        <4> QED BY <4>1, <4>2
      <3> QED BY <1>8, <3>1, <3>2
    <2>2. CASE o <= Len(u) /\ o \in {0, 1} /\ t2 = <<x>>
      <3>1. Len(t2) = 1 /\ t2[1] = x
        BY <1>31, <2>2
      <3>2. i = 1 /\ g + Len(u) + i - o = g + w + 1
        <4>1. w = Len(u) - o
          BY <1>4, <1>5, <2>2
        <4> HIDE DEF u, w
        <4> QED BY <1>4, <2>2, <3>1, <4>1
      <3> QED BY <1>8, <3>1, <3>2
    <2> QED BY <1>3, <2>1, <2>2
  <1> HIDE DEF s, s2, u, w
  <1>10. ASSUME NEW i \in 1..Len(s2) PROVE s2[i].text = Text(c, g + (w + 1) + i)
    <2>1. i + 1 \in 1..Len(s) /\ g + w + (i + 1) = g + (w + 1) + i /\ s2[i] = s[i + 1]
      <3>1. w \in Nat
        BY <1>6 DEF w
      <3> QED BY <1>1, <3>1
    <2> QED BY <1>7, <2>1
  <1>11. k.st # "gone" => g + (w + 1) + Len(s2) = last
    <2>1. w \in Nat
      BY <1>6 DEF w
    <2> QED BY <1>1, <1>7, <2>1
  <1> QED BY <1>6, <1>7, <1>9, <1>10, <1>11 DEF Saying, s, s2, u, t2, o, w

\* The server reads the name.
LEMMA SayingName ==
    ASSUME NEW c, NEW k, NEW n, NEW n2, NEW g \in Nat, NEW last, Saying(c, k, n, 1, g, last),
           n.up \in Seq(Frame), k.todo \in Seq(Frame), n.up # <<>>, n2.up = Tail(n.up)
    PROVE  Saying(c, k, n2, 0, g, last)
  <1> DEFINE u == n.up  u2 == n2.up  t == k.todo
  <1>1. /\ Len(u) \in Nat \ {0} /\ Len(u2) = Len(u) - 1 /\ Len(t) \in Nat
        /\ (\A i \in 1..Len(u2) : u2[i] = u[i + 1]) /\ (u2 = <<>> => Len(u2) = 0)
        /\ (t = <<>> => Len(t) = 0)
    BY HeadTailProperties, EmptySeq, LenProperties
  <1>2. Texts(k, n, 1) = Len(u) + Len(t) - 1
    BY DEF Texts
  <1>3. Texts(k, n2, 0) = Texts(k, n, 1)
    <2>1. Texts(k, n2, 0) = IF u2 = <<>> /\ t = <<>> THEN 0 ELSE Len(u2) + Len(t) - 0
      BY DEF Texts
    <2> HIDE DEF u, u2, t
    <2> QED BY <1>1, <1>2, <2>1
  <1>4. /\ \A i \in 1..Len(u) : i > 1 => u[i] = Text(c, g + i - 1)
        /\ \A i \in 1..Len(t) : Len(u) + i > 1 => t[i] = Text(c, g + Len(u) + i - 1)
    BY DEF Saying
  <1> HIDE DEF u, u2, t
  <1>5. ASSUME NEW i \in 1..Len(u2) PROVE u2[i] = Text(c, g + i - 0)
    <2>1. i + 1 \in 1..Len(u) /\ i + 1 > 1 /\ g + (i + 1) - 1 = g + i - 0
      BY <1>1
    <2> QED BY <1>1, <1>4, <2>1
  <1>6. ASSUME NEW i \in 1..Len(t) PROVE t[i] = Text(c, g + Len(u2) + i - 0)
    <2>1. Len(u) + i > 1 /\ g + Len(u) + i - 1 = g + Len(u2) + i - 0
      BY <1>1
    <2> QED BY <1>4, <2>1
  <1> QED BY <1>3, <1>5, <1>6 DEF Saying, u, u2, t

\* And a line.
LEMMA SayingText ==
    ASSUME NEW c, NEW k, NEW n, NEW n2, NEW g \in Nat, NEW last, Saying(c, k, n, 0, g, last),
           n.up \in Seq(Frame), k.todo \in Seq(Frame), k.send \in Seq(Own(c, fed)), n.up # <<>>,
           n2.up = Tail(n.up)
    PROVE  Head(n.up) = Text(c, g + 1) /\ Saying(c, k, n2, 0, g + 1, last)
  <1> DEFINE u == n.up  u2 == n2.up  t == k.todo  s == k.send
  <1>0. Len(s) \in Nat
    BY LenProperties
  <1>1. /\ Len(u) \in Nat \ {0} /\ Len(u2) = Len(u) - 1 /\ Len(t) \in Nat /\ Head(u) = u[1]
        /\ (\A i \in 1..Len(u2) : u2[i] = u[i + 1]) /\ (u2 = <<>> => Len(u2) = 0)
        /\ (t = <<>> => Len(t) = 0)
    <2>1. /\ Len(u) \in Nat \ {0} /\ Len(u2) = Len(u) - 1
          /\ \A i \in 1..Len(u2) : u2[i] = u[i + 1]
      BY HeadTailProperties, EmptySeq
    <2>2. Len(t) \in Nat /\ (u2 = <<>> => Len(u2) = 0) /\ (t = <<>> => Len(t) = 0)
      BY LenProperties, EmptySeq
    <2>3. Head(u) = u[1]
      OBVIOUS
    <2> QED BY <2>1, <2>2, <2>3
  <1>2. Texts(k, n, 0) = Len(u) + Len(t)
    <2>1. Texts(k, n, 0) = Len(u) + Len(t) - 0
      BY DEF Texts
    <2> HIDE DEF u, t
    <2> QED BY <1>1, <2>1
  <1>3. Texts(k, n2, 0) = Texts(k, n, 0) - 1 /\ Texts(k, n, 0) \in Nat
    <2>1. Texts(k, n2, 0) = IF u2 = <<>> /\ t = <<>> THEN 0 ELSE Len(u2) + Len(t) - 0
      BY DEF Texts
    <2> HIDE DEF u, u2, t
    <2> QED BY <1>1, <1>2, <2>1
  <1> DEFINE w == Texts(k, n, 0)
  <1>4. /\ \A i \in 1..Len(u) : i > 0 => u[i] = Text(c, g + i - 0)
        /\ \A i \in 1..Len(t) : Len(u) + i > 0 => t[i] = Text(c, g + Len(u) + i - 0)
        /\ \A i \in 1..Len(s) : s[i].text = Text(c, g + w + i)
        /\ k.st # "gone" => g + w + Len(s) = last
    BY DEF Saying
  <1> HIDE DEF u, u2, t, s, w
  <1>5. Head(u) = Text(c, g + 1)
    <2>1. 1 \in 1..Len(u) /\ g + 1 - 0 = g + 1 /\ 1 > 0
      BY <1>1
    <2> QED BY <1>1, <1>4, <2>1
  <1>6. ASSUME NEW i \in 1..Len(u2) PROVE u2[i] = Text(c, (g + 1) + i - 0)
    <2>1. i + 1 \in 1..Len(u) /\ i + 1 > 0 /\ g + (i + 1) - 0 = (g + 1) + i - 0
      BY <1>1
    <2> QED BY <1>1, <1>4, <2>1
  <1>7. ASSUME NEW i \in 1..Len(t) PROVE t[i] = Text(c, (g + 1) + Len(u2) + i - 0)
    <2>1. Len(u) + i > 0 /\ g + Len(u) + i - 0 = (g + 1) + Len(u2) + i - 0
      BY <1>1
    <2> QED BY <1>4, <2>1
  <1>8. w \in Nat
    BY <1>3 DEF w
  <1>9. ASSUME NEW i \in 1..Len(s) PROVE s[i].text = Text(c, (g + 1) + (w - 1) + i)
    <2>1. (g + 1) + (w - 1) + i = g + w + i
      BY <1>0, <1>8
    <2> QED BY <1>4, <2>1
  <1>10. k.st # "gone" => (g + 1) + (w - 1) + Len(s) = last
    BY <1>0, <1>4, <1>8
  <1>11. Texts(k, n2, 0) = w - 1
    BY <1>3 DEF w
  <1> QED BY <1>5, <1>6, <1>7, <1>9, <1>10, <1>11 DEF Saying, u, u2, t, s

-----------------------------------------------------------------------------
(* Mail under the steps of a client.                                       *)

\* chat_client_pop_next: what was received stays.
LEMMA GotPop ==
    ASSUME NEW X, NEW s \in Seq(X), NEW t \in Seq(X), t # <<>>
    PROVE  Append(s, Head(t)) \o Tail(t) = s \o t
  <1> DEFINE x == Head(t)  r == Tail(t)  a == Append(s, x)
  <1>1. /\ r \in Seq(X) /\ Len(t) \in Nat \ {0} /\ Len(r) = Len(t) - 1 /\ x = t[1] /\ x \in X
        /\ \A i \in 1..Len(r) : r[i] = t[i + 1]
    BY HeadTailProperties, EmptySeq
  <1>2. /\ a \in Seq(X) /\ Len(s) \in Nat /\ Len(a) = Len(s) + 1 /\ a[Len(s) + 1] = x
        /\ \A i \in 1..Len(s) : a[i] = s[i]
    BY <1>1, AppendIs
  <1> HIDE DEF x, r, a
  <1>3. /\ a \o r \in Seq(X) /\ Len(a \o r) = Len(a) + Len(r)
        /\ \A i \in 1..(Len(a) + Len(r)) : (a \o r)[i] = IF i <= Len(a) THEN a[i] ELSE r[i - Len(a)]
    BY <1>1, <1>2, ConcatProperties
  <1>4. /\ s \o t \in Seq(X) /\ Len(s \o t) = Len(s) + Len(t)
        /\ \A i \in 1..(Len(s) + Len(t)) : (s \o t)[i] = IF i <= Len(s) THEN s[i] ELSE t[i - Len(s)]
    BY ConcatProperties
  <1>5. Len(a \o r) = Len(s \o t) /\ Len(a) + Len(r) = Len(s) + Len(t)
    BY <1>1, <1>2, <1>3, <1>4
  <1>6. ASSUME NEW i \in 1..(Len(s) + Len(t)) PROVE (a \o r)[i] = (s \o t)[i]
    <2>1. CASE i <= Len(s)
      <3>1. i <= Len(a) /\ i \in 1..Len(s)
        BY <1>1, <1>2, <2>1
      <3> QED BY <1>2, <1>3, <1>4, <1>5, <2>1, <3>1
    <2>2. CASE i = Len(s) + 1
      <3>1. i <= Len(a) /\ ~(i <= Len(s)) /\ i - Len(s) = 1
        BY <1>1, <1>2, <2>2
      <3> QED BY <1>1, <1>2, <1>3, <1>4, <1>5, <2>2, <3>1
    <2>3. CASE i > Len(s) + 1
      <3>1. ~(i <= Len(a)) /\ ~(i <= Len(s)) /\ i - Len(a) \in 1..Len(r) /\ (i - Len(a)) + 1 = i - Len(s)
        BY <1>1, <1>2, <2>3
      <3>2. r[i - Len(a)] = t[(i - Len(a)) + 1]
        BY <1>1, <3>1
      <3> QED BY <1>3, <1>4, <1>5, <3>1, <3>2
    <2> QED BY <1>1, <1>2, <2>1, <2>2, <2>3
  <1>7. a \o r = s \o t
    BY <1>3, <1>4, <1>5, <1>6, SeqEqual
  <1> QED BY <1>7 DEF a, x, r

\* A message that was read is the last one received.
LEMMA GotRead ==
    ASSUME NEW X, NEW s \in Seq(X), NEW t \in Seq(X), NEW m \in X
    PROVE  s \o Append(t, m) = Append(s \o t, m)
  <1> DEFINE a == Append(t, m)  u == s \o t  v == Append(u, m)
  <1>1. /\ a \in Seq(X) /\ Len(t) \in Nat /\ Len(a) = Len(t) + 1 /\ a[Len(t) + 1] = m
        /\ \A i \in 1..Len(t) : a[i] = t[i]
    BY AppendIs
  <1>2. /\ u \in Seq(X) /\ Len(u) = Len(s) + Len(t)
        /\ \A i \in 1..(Len(s) + Len(t)) : u[i] = IF i <= Len(s) THEN s[i] ELSE t[i - Len(s)]
    BY ConcatProperties
  <1>3. Len(s) \in Nat
    BY LenProperties
  <1> HIDE DEF a, u
  <1>4. /\ v \in Seq(X) /\ Len(v) = Len(u) + 1 /\ v[Len(u) + 1] = m /\ \A i \in 1..Len(u) : v[i] = u[i]
    BY <1>2, AppendIs
  <1>5. /\ s \o a \in Seq(X) /\ Len(s \o a) = Len(s) + Len(a)
        /\ \A i \in 1..(Len(s) + Len(a)) : (s \o a)[i] = IF i <= Len(s) THEN s[i] ELSE a[i - Len(s)]
    BY <1>1, ConcatProperties
  <1> HIDE DEF v
  <1>6. Len(s \o a) = Len(v) /\ Len(s) + Len(a) = Len(v)
    BY <1>1, <1>2, <1>3, <1>4, <1>5
  <1>7. ASSUME NEW i \in 1..Len(v) PROVE (s \o a)[i] = v[i]
    <2>0. Len(v) = Len(s) + Len(t) + 1 /\ Len(u) = Len(s) + Len(t) /\ i \in Nat
      BY <1>1, <1>2, <1>3, <1>4
    <2>1. CASE i <= Len(s)
      <3>1. i \in 1..Len(u) /\ i \in 1..(Len(s) + Len(t))
        BY <1>1, <1>2, <1>3, <1>4, <2>1
      <3> QED BY <1>2, <1>4, <1>5, <1>6, <2>1, <3>1
    <2>2. CASE i = Len(v)
      <3>1. ~(i <= Len(s)) /\ i - Len(s) = Len(t) + 1 /\ i = Len(u) + 1
        BY <1>1, <1>2, <1>3, <1>4, <2>2
      <3> QED BY <1>1, <1>4, <1>5, <1>6, <3>1
    <2>3. CASE i > Len(s) /\ i # Len(v)
      <3>1. ~(i <= Len(s)) /\ i - Len(s) \in 1..Len(t) /\ i \in 1..Len(u) /\ i \in 1..(Len(s) + Len(t))
        BY <1>1, <1>3, <2>0, <2>3
      <3> QED BY <1>1, <1>2, <1>4, <1>5, <1>6, <3>1
    <2>4. i <= Len(s) \/ i = Len(v) \/ (i > Len(s) /\ i # Len(v))
      BY <1>3, <2>0
    <2> QED BY <2>1, <2>2, <2>3, <2>4
  <1>8. s \o a = v
    BY <1>4, <1>5, <1>6, <1>7, SeqEqual
  <1> QED BY <1>8 DEF a, u, v

\* What c does concerns nobody else's mail, as long as it reads what it is told and
\* says what it has said.
Stays(c, H, g) ==
    /\ \A d \in Clients \ {c} : cli'[d] = cli[d] /\ net'[d] = net[d]
    /\ Follows(cli'[c], net'[c], H[c])
    /\ Up => /\ net'[c].end = "open" => /\ net[c].end = "open"
                                        /\ Reach(cli'[c], net'[c]) = Reach(cli[c], net[c])
             /\ cli'[c].st = "up" => cli[c].st = "up"
             /\ Saying(c, cli'[c], net'[c], NameLeft(c, peers), g[c], fed[c])

\* Such a step keeps everyone's mail.
LEMMA MailStays ==
    ASSUME NEW H, NEW g, Mail(H, g), NEW c \in Clients, Stays(c, H, g), UNCHANGED <<serverVars, fed>>
    PROVE  Mail(H, g)'
  <1>1. /\ started' = started /\ peers' = peers /\ send' = send /\ job' = job /\ backlog' = backlog
        /\ fed' = fed
    BY DEF serverVars
  <1>2. Told(H, g) /\ \A d \in Clients : Follows(cli'[d], net'[d], H[d])
    BY DEF Mail, Stays
  <1>3. ASSUME Up, NEW d \in Clients
        PROVE  /\ net'[d].end = "open" => Listening(d, H[d], g)'
               /\ cli'[d].st = "up" => d \in Elems(backlog) \cup SocketsOf(peers)
               /\ Saying(d, cli'[d], net'[d], NameLeft(d, peers), g[d], fed[d])
    <2>1. /\ net[d].end = "open" => Listening(d, H[d], g)
          /\ cli[d].st = "up" => d \in Elems(backlog) \cup SocketsOf(peers)
          /\ Saying(d, cli[d], net[d], NameLeft(d, peers), g[d], fed[d])
      BY <1>3 DEF Mail
    <2>2. CASE d # c
      BY <1>1, <2>1, <2>2 DEF Stays, Listening
    <2>3. CASE d = c
      BY <1>1, <1>3, <2>1, <2>3 DEF Stays, Listening
    <2> QED BY <2>2, <2>3
  <1>4. Up => ServerSaying(g)'
    BY <1>1 DEF Mail, ServerSaying
  <1>5. Up' <=> Up
    BY <1>1 DEF Up
  <1> QED BY <1>1, <1>2, <1>3, <1>4, <1>5 DEF Mail

\* The mail of one client.
LEMMA MailOf ==
    ASSUME NEW H, NEW g, Mail(H, g), NEW c \in Clients
    PROVE  /\ Follows(cli[c], net[c], H[c]) /\ g \in [Parties -> Nat] /\ g[c] \in Nat
           /\ H[c] \in Seq(Message(c, g))
           /\ Up => /\ net[c].end = "open" => Listening(c, H[c], g)
                    /\ cli[c].st = "up" => c \in Elems(backlog) \cup SocketsOf(peers)
                    /\ Saying(c, cli[c], net[c], NameLeft(c, peers), g[c], fed[c])
  BY NobodyIsNone DEF Mail, Told

\* What it has received and what is coming.
LEMMA FollowsSame ==
    ASSUME NEW k, NEW k2, NEW n, NEW n2, NEW h, Follows(k, n, h),
           Got(k2) = Got(k), Coming(k2, n2) = Coming(k, n)
    PROVE  Follows(k2, n2, h) /\ Reach(k2, n2) = Reach(k, n)
  BY DEF Follows, Reach

\* Nothing.
LEMMA FollowsNothing ==
    ASSUME NEW k, NEW n, NEW X, NEW h \in Seq(X), k.popped = <<>>, k.recved = <<>>, k.auth_name = None,
           n.down = <<>>
    PROVE  Follows(k, n, h) /\ Got(k) = <<>> /\ Coming(k, n) = <<>>
  <1>1. Got(k) = <<>> /\ Coming(k, n) = <<>> /\ Len(<<>>) = 0
    BY DEF Got, Coming, Stream
  <1>2. Len(h) \in Nat
    BY LenProperties
  <1>3. Says(<<>>, h, 2 * 0)
    BY <1>1, <1>2 DEF Says
  <1> QED BY <1>1, <1>2, <1>3 DEF Follows

\* chat_client_pop_next.
LEMMA PopMail ==
    ASSUME ChatInv, NEW H, NEW g, Mail(H, g), NEW c \in Clients, chat_client_pop_next(c)
    PROVE  Mail(H, g)'
  <1> DEFINE k == cli[c]  k2 == cli'[c]
  <1>1. CliType(k) /\ ClientOK(c, k, net[c], fed) /\ DOMAIN cli = Clients
    BY Client DEF ClientInv
  <1>2. /\ cli' = [cli EXCEPT ![c].recved = Tail(@), ![c].popped = Append(@, Head(cli[c].recved))]
        /\ UNCHANGED <<serverVars, fed>> /\ net' = net /\ k.recved # <<>>
    BY DEF chat_client_pop_next, queue_pop
  <1>3. \A d \in Clients \ {c} : cli'[d] = cli[d]
    BY <1>1, <1>2
  <1>4. /\ k2.recved = Tail(k.recved) /\ k2.popped = Append(k.popped, Head(k.recved))
        /\ \A f \in CliFields \ {"recved", "popped"} : k2[f] = k[f]
    BY <1>1, <1>2 DEF CliType, CliFields
  <1> HIDE DEF k2
  <1>5. k2.st = k.st /\ k2.send = k.send /\ k2.todo = k.todo /\ k2.auth_name = k.auth_name
    BY <1>4 DEF CliFields
  <1>6. Got(k2) = Got(k)
    <2> DEFINE X == Good(c, fed, k.authors)
    <2>1. k.popped \in Seq(X) /\ k.recved \in Seq(X)
      BY <1>1 DEF ClientOK
    <2> HIDE DEF X
    <2> QED BY <1>2, <1>4, <2>1, GotPop DEF Got
  <1>7. Coming(k2, net[c]) = Coming(k, net[c])
    BY <1>5 DEF Coming
  <1>8. Follows(k2, net[c], H[c]) /\ Reach(k2, net[c]) = Reach(k, net[c])
    BY <1>6, <1>7, MailOf, FollowsSame
  <1>9. Up => Saying(c, k2, net[c], NameLeft(c, peers), g[c], fed[c])
    BY <1>5, MailOf, SayingFields
  <1>10. Stays(c, H, g)
    BY <1>2, <1>3, <1>5, <1>8, <1>9 DEF Stays, k2
  <1> QED BY <1>2, <1>10, MailStays

\* ClientLeaves.
LEMMA LeaveMail ==
    ASSUME ChatInv, NEW H, NEW g, Mail(H, g), NEW c \in Clients, ClientLeaves(c)
    PROVE  Mail(H, g)'
  <1> DEFINE k == cli[c]  n == net[c]  k2 == cli'[c]  n2 == net'[c]
  <1>1. NetType(n) /\ DOMAIN cli = Clients /\ DOMAIN net = Clients
    BY Client
  <1>2. /\ cli' = [cli EXCEPT ![c] = [NewClient EXCEPT !.st = "gone"]]
        /\ net' = [net EXCEPT ![c] = Hangup(@)] /\ UNCHANGED <<serverVars, fed>>
    BY DEF ClientLeaves
  <1>3. \A d \in Clients \ {c} : cli'[d] = cli[d] /\ net'[d] = net[d]
    BY <1>1, <1>2
  <1>4. k2 = [NewClient EXCEPT !.st = "gone"] /\ n2 = Hangup(n)
    BY <1>1, <1>2
  <1>5. /\ k2.st = "gone" /\ k2.send = <<>> /\ k2.recved = <<>> /\ k2.todo = <<>>
        /\ k2.auth_name = None /\ k2.popped = <<>>
    BY <1>4 DEF NewClient
  <1>6. n2.up = n.up /\ n2.down = <<>> /\ n2.end \in {"fin", "rst"}
    BY <1>1, <1>4 DEF NetType, Hangup
  <1> HIDE DEF k2, n2
  <1>7. Follows(k2, n2, H[c])
    BY <1>5, <1>6, MailOf, FollowsNothing
  <1>8. Up => Saying(c, k2, n2, NameLeft(c, peers), g[c], fed[c])
    BY <1>5, <1>6, MailOf, SayingLeave
  <1>9. Stays(c, H, g)
    BY <1>3, <1>5, <1>6, <1>7, <1>8 DEF Stays, k2, n2
  <1> QED BY <1>2, <1>9, MailStays

\* chat_client_update.
LEMMA ClientUpdateMail ==
    ASSUME ChatInv, NEW H, NEW g, Mail(H, g), NEW c \in Clients, chat_client_update(c)
    PROVE  Mail(H, g)'
  <1> DEFINE k == cli[c]  k2 == cli'[c]  n == net[c]
  <1>1. /\ CliType(k) /\ NetType(n) /\ ClientInv(c) /\ ClientOK(c, k, n, fed) /\ fed \in [Parties -> Nat]
        /\ DOMAIN cli = Clients /\ (Up => n.srv = "open")
    BY Client DEF ClientInv, Up, NetType
  <1>2. UNCHANGED <<serverVars, fed>> /\ net' = net /\ k.at = "idle" /\ k.st = "up"
    BY DEF chat_client_update
  <1>3. k.todo = <<>> /\ k.send \in Seq(Own(c, fed)) /\ n.up \in Seq(Frame)
    BY <1>1, <1>2 DEF ClientOK, NetType
  <1>4. CASE k.send = <<>> /\ cli' = [cli EXCEPT ![c].at = "recv"]
    <2>1. \A d \in Clients \ {c} : cli'[d] = cli[d]
      BY <1>1, <1>4
    <2>2. \A f \in CliFields \ {"at"} : k2[f] = k[f]
      BY <1>1, <1>4 DEF CliType, CliFields
    <2> HIDE DEF k2
    <2>3. /\ k2.st = k.st /\ k2.send = k.send /\ k2.recved = k.recved /\ k2.popped = k.popped
          /\ k2.todo = k.todo /\ k2.auth_name = k.auth_name
      BY <2>2 DEF CliFields
    <2>4. Got(k2) = Got(k) /\ Coming(k2, n) = Coming(k, n)
      BY <2>3 DEF Got, Coming
    <2>5. Follows(k2, n, H[c]) /\ Reach(k2, n) = Reach(k, n)
      BY <2>4, MailOf, FollowsSame
    <2>6. Up => Saying(c, k2, n, NameLeft(c, peers), g[c], fed[c])
      BY <2>3, MailOf, SayingFields
    <2>7. Stays(c, H, g)
      BY <1>2, <2>1, <2>3, <2>5, <2>6 DEF Stays, k2
    <2> QED BY <1>2, <2>7, MailStays
  <1>5. ASSUME NEW nfds, k.send # <<>>,
               cli' = [cli EXCEPT ![c].at = "send", ![c].nfds = nfds,
                                  ![c].todo = Frames(Head(cli[c].send)), ![c].send = queue_pop(@)]
        PROVE  Mail(H, g)'
    <2>1. \A d \in Clients \ {c} : cli'[d] = cli[d]
      BY <1>1, <1>5
    <2>2. /\ k2.todo = Frames(Head(k.send)) /\ k2.send = Tail(k.send)
          /\ \A f \in CliFields \ {"at", "nfds", "todo", "send"} : k2[f] = k[f]
      BY <1>1, <1>5 DEF CliType, CliFields, queue_pop
    <2> HIDE DEF k2
    <2>3. /\ k2.st = k.st /\ k2.recved = k.recved /\ k2.popped = k.popped /\ k2.auth_name = k.auth_name
      BY <2>2 DEF CliFields
    <2>4. Got(k2) = Got(k) /\ Coming(k2, n) = Coming(k, n)
      BY <2>3 DEF Got, Coming
    <2>5. Follows(k2, n, H[c]) /\ Reach(k2, n) = Reach(k, n)
      BY <2>4, MailOf, FollowsSame
    <2>6. ASSUME Up PROVE Saying(c, k2, n, NameLeft(c, peers), g[c], fed[c])
      <3>1. Upstream(c, k, n, fed, peers, backlog)
        BY <1>1, <2>6 DEF ClientInv
      <3>2. /\ g[c] \in Nat /\ c \in Elems(backlog) \cup SocketsOf(peers)
            /\ Saying(c, k, n, NameLeft(c, peers), g[c], fed[c])
        BY <1>2, <2>6, MailOf
      <3> QED BY <1>1, <1>3, <1>5, <2>2, <2>3, <3>1, <3>2, SayingTake
    <2>7. Stays(c, H, g)
      BY <1>2, <2>1, <2>3, <2>5, <2>6 DEF Stays, k2
    <2> QED BY <1>2, <2>7, MailStays
  <1> QED BY <1>4, <1>5 DEF chat_client_update

\* An update that failed.
LEMMA ReturnsMail ==
    ASSUME ChatInv, NEW H, NEW g, Mail(H, g), NEW c \in Clients, ClientReturns(c), net' = net,
           UNCHANGED <<serverVars, fed>>, net[c].srv = "closed",
           cli[c].auth_name = None \/ net[c].down = <<>>
    PROVE  Mail(H, g)'
  <1> DEFINE k == cli[c]  k2 == cli'[c]  n == net[c]
  <1>1. CliType(k) /\ DOMAIN cli = Clients /\ ~Up
    BY Client DEF Up
  <1>2. \A d \in Clients \ {c} : cli'[d] = cli[d]
    BY <1>1 DEF ClientReturns
  <1>3. k2.auth_name = None /\ \A f \in CliFields \ {"todo", "at", "nfds", "auth_name"} : k2[f] = k[f]
    BY <1>1 DEF ClientReturns, CliType, CliFields
  <1> HIDE DEF k2
  <1>4. k2.recved = k.recved /\ k2.popped = k.popped
    BY <1>3 DEF CliFields
  <1>5. Got(k2) = Got(k)
    BY <1>4 DEF Got
  <1>6. Follows(k2, n, H[c])
    <2>1. Follows(k, n, H[c]) /\ H[c] \in Seq(Message(c, g))
      BY MailOf
    <2>2. CASE k.auth_name = None
      <3>1. Coming(k2, n) = Coming(k, n)
        BY <1>3, <2>2 DEF Coming
      <3> QED BY <1>5, <2>1, <3>1, FollowsSame
    <2>3. CASE n.down = <<>>
      <3>1. Coming(k2, n) = <<>> /\ Len(<<>>) = 0 /\ Len(Coming(k2, n)) = 0
        BY <1>3, <2>3 DEF Coming, Stream
      <3>2. Len(Got(k)) <= Len(H[c]) /\ \A i \in 1..Len(Got(k)) : Got(k)[i] = H[c][i]
        BY <2>1 DEF Follows
      <3>3. 2 * Len(Got(k)) <= 2 * Len(H[c]) /\ 2 * Len(Got(k)) + 0 = 2 * Len(Got(k))
        <4>1. Got(k) \in Seq(Good(c, fed, k.authors))
          <5>1. k.popped \in Seq(Good(c, fed, k.authors)) /\ k.recved \in Seq(Good(c, fed, k.authors))
            BY Client DEF ClientInv, ClientOK
          <5> QED BY <5>1, ConcatProperties DEF Got
        <4>2. Len(Got(k)) \in Nat /\ Len(H[c]) \in Nat
          BY <2>1, <4>1, LenProperties
        <4> QED BY <3>2, <4>2
      <3>4. 1..0 = {}
        OBVIOUS
      <3>5. Says(Coming(k2, n), H[c], 2 * Len(Got(k)))
        BY <3>1, <3>3, <3>4 DEF Says
      <3> QED BY <1>5, <3>2, <3>5 DEF Follows
    <2> QED BY <2>2, <2>3
  <1>7. Stays(c, H, g)
    BY <1>1, <1>2, <1>6 DEF Stays, k2
  <1> QED BY <1>7, MailStays

\* ClientSend.
LEMMA ClientSendMail ==
    ASSUME ChatInv, NEW H, NEW g, Mail(H, g), NEW c \in Clients, ClientSend(c)
    PROVE  Mail(H, g)'
  <1> DEFINE k == cli[c]  n == net[c]  k2 == cli'[c]  n2 == net'[c]
  <1>1. /\ CliType(k) /\ NetType(n) /\ ClientOK(c, k, n, fed) /\ DOMAIN cli = Clients
        /\ DOMAIN net = Clients /\ (n.srv = "closed" => ~Up)
    BY Client DEF ClientInv, Up
  <1>2. k.at = "send" /\ k.todo # <<>> /\ k.auth_name = None
    BY <1>1 DEF ClientSend, ClientOK
  <1>3. ASSUME ClientSent(c)
        PROVE  /\ \A d \in Clients \ {c} : cli'[d] = cli[d]
               /\ k2.todo = Tail(k.todo) /\ k2.st = k.st /\ k2.send = k.send
               /\ k2.auth_name = k.auth_name
               /\ Got(k2) = Got(k)
    <2>1. \A d \in Clients \ {c} : cli'[d] = cli[d]
      BY <1>1, <1>3 DEF ClientSent
    <2>2. k2.todo = Tail(k.todo) /\ \A f \in CliFields \ {"todo", "at", "nfds"} : k2[f] = k[f]
      BY <1>1, <1>3 DEF ClientSent, CliType, CliFields
    <2> HIDE DEF k2
    <2>3. /\ k2.st = k.st /\ k2.send = k.send /\ k2.auth_name = k.auth_name /\ k2.recved = k.recved
          /\ k2.popped = k.popped
      BY <2>2 DEF CliFields
    <2> QED BY <2>1, <2>2, <2>3 DEF Got
  <1>4. CASE /\ n.srv = "open" /\ net' = [net EXCEPT ![c].up = Append(@, Head(cli[c].todo))]
             /\ ClientSent(c) /\ UNCHANGED <<serverVars, fed>>
    <2>1. /\ \A d \in Clients \ {c} : net'[d] = net[d]
          /\ n2.up = Append(n.up, Head(k.todo)) /\ n2.down = n.down /\ n2.end = n.end
      BY <1>1, <1>4 DEF NetType
    <2>2. /\ \A d \in Clients \ {c} : cli'[d] = cli[d]
          /\ k2.todo = Tail(k.todo) /\ k2.st = k.st /\ k2.send = k.send /\ k2.auth_name = k.auth_name
          /\ Got(k2) = Got(k)
      BY <1>3, <1>4
    <2> HIDE DEF k2, n2
    <2>3. Coming(k2, n2) = Coming(k, n)
      BY <2>1, <2>2 DEF Coming
    <2>4. Follows(k2, n2, H[c]) /\ Reach(k2, n2) = Reach(k, n)
      BY <2>2, <2>3, MailOf, FollowsSame
    <2>5. ASSUME Up PROVE Saying(c, k2, n2, NameLeft(c, peers), g[c], fed[c])
      <3>1. g[c] \in Nat /\ Saying(c, k, n, NameLeft(c, peers), g[c], fed[c])
        BY <2>5, MailOf
      <3>2. NameLeft(c, peers) \in Nat
        <4>1. NameLeft(c, peers) \in {0, 1}
          BY NameLeftIs
        <4> QED BY <4>1
      <3>3. n.up \in Seq(Frame) /\ k.todo \in Seq(Frame)
        BY <1>1 DEF NetType, CliType
      <3> QED BY <1>2, <2>1, <2>2, <3>1, <3>2, <3>3, SayingSend
    <2>6. Stays(c, H, g)
      BY <2>1, <2>2, <2>4, <2>5 DEF Stays, k2, n2
    <2> QED BY <1>4, <2>6, MailStays
  <1>5. CASE n.srv = "closed" /\ ClientSent(c) /\ UNCHANGED <<serverVars, net, fed>>
    <2>1. /\ \A d \in Clients \ {c} : cli'[d] = cli[d]
          /\ k2.auth_name = k.auth_name /\ Got(k2) = Got(k)
      BY <1>3, <1>5
    <2> HIDE DEF k2
    <2>2. Coming(k2, n) = Coming(k, n)
      BY <2>1 DEF Coming
    <2>3. Follows(k2, n, H[c])
      BY <2>1, <2>2, MailOf, FollowsSame
    <2>4. Stays(c, H, g)
      BY <1>1, <1>5, <2>1, <2>3 DEF Stays, k2
    <2> QED BY <1>5, <2>4, MailStays
  <1>6. CASE n.srv = "closed" /\ ClientReturns(c) /\ UNCHANGED <<serverVars, net, fed>>
    BY <1>2, <1>6, ReturnsMail
  <1>7. CASE ClientLeaves(c)
    BY <1>7, LeaveMail
  <1> QED BY <1>4, <1>5, <1>6, <1>7 DEF ClientSend

\* ClientRecv: the name stays in the stream, a message becomes one of those received.
LEMMA ClientRecvMail ==
    ASSUME ChatInv, NEW H, NEW g, Mail(H, g), NEW c \in Clients, ClientRecv(c)
    PROVE  Mail(H, g)'
  <1> DEFINE k == cli[c]  n == net[c]  k2 == cli'[c]  n2 == net'[c]  h == H[c]
  <1>1. /\ CliType(k) /\ NetType(n) /\ ClientInv(c) /\ fed \in [Parties -> Nat]
        /\ DOMAIN cli = Clients /\ DOMAIN net = Clients
    BY Client
  <1>2. k.at = "recv" /\ ClientOK(c, k, n, fed) /\ UNCHANGED <<serverVars, fed>>
    BY <1>1 DEF ClientRecv, ClientInv, serverVars, ClientLeaves
  <1>3. n.end = "open" /\ Alternates(Coming(k, n), c, fed)
    <2>1. n.end = "open"
      BY <1>2 DEF ClientOK
    <2> QED BY <1>1, <2>1 DEF ClientInv, Downstream, Coming
  <1>4. n.down \in Seq(Frame) /\ k.auth_name \in Parties \cup {None}
    BY <1>1 DEF NetType, CliType
  <1>5. Follows(k, n, h) /\ h \in Seq(Message(c, g))
    BY MailOf
  <1>6. ASSUME net' = [net EXCEPT ![c].down = Tail(@)]
        PROVE  /\ \A d \in Clients \ {c} : net'[d] = net[d]
               /\ n2.down = Tail(n.down) /\ n2.up = n.up /\ n2.end = n.end
    BY <1>1, <1>6 DEF NetType
  <1>7. CASE /\ n.down # <<>> /\ k.auth_name = None /\ net' = [net EXCEPT ![c].down = Tail(@)]
             /\ cli' = [cli EXCEPT ![c].auth_name = Head(net[c].down),
                                   ![c].authors = find_or_add_authors(@, Head(net[c].down))]
    <2>1. \A d \in Clients \ {c} : cli'[d] = cli[d]
      BY <1>1, <1>7
    <2>2. k2.auth_name = Head(n.down) /\ \A f \in CliFields \ {"auth_name", "authors"} : k2[f] = k[f]
      BY <1>1, <1>7 DEF CliType, CliFields
    <2>3. (\A d \in Clients \ {c} : net'[d] = net[d])
          /\ n2.down = Tail(n.down) /\ n2.up = n.up /\ n2.end = n.end
      BY <1>6, <1>7
    <2> HIDE DEF k2, n2
    <2>4. k2.st = k.st /\ k2.send = k.send /\ k2.todo = k.todo /\ Got(k2) = Got(k)
      BY <2>2 DEF CliFields, Got
    <2>5. Coming(k, n) = n.down
      BY <1>7 DEF Coming, Stream
    <2>6. Coming(k2, n2) = Coming(k, n)
      BY <1>3, <1>4, <1>7, <2>2, <2>3, <2>5, AuthorNext DEF Coming
    <2>7. Follows(k2, n2, h) /\ Reach(k2, n2) = Reach(k, n)
      BY <1>5, <2>4, <2>6, FollowsSame
    <2>8. Up => Saying(c, k2, n2, NameLeft(c, peers), g[c], fed[c])
      BY <2>3, <2>4, MailOf, SayingFields
    <2>9. Stays(c, H, g)
      BY <2>1, <2>3, <2>4, <2>7, <2>8 DEF Stays, k2, n2
    <2> QED BY <1>2, <2>9, MailStays
  <1>8. CASE /\ n.down # <<>> /\ k.auth_name # None /\ net' = [net EXCEPT ![c].down = Tail(@)]
             /\ cli' = [cli EXCEPT ![c].auth_name = None, ![c].at = "idle",
                                   ![c].recved = queue_add(@, [author |-> cli[c].auth_name,
                                                               text   |-> Head(net[c].down)])]
    <2> DEFINE m == [author |-> k.auth_name, text |-> Head(n.down)]  got == Got(k)  N == Len(got)
    <2>1. \A d \in Clients \ {c} : cli'[d] = cli[d]
      BY <1>1, <1>8
    <2>2. /\ k2.auth_name = None /\ k2.recved = Append(k.recved, m)
          /\ \A f \in CliFields \ {"auth_name", "at", "recved"} : k2[f] = k[f]
      BY <1>1, <1>8 DEF CliType, CliFields, queue_add
    <2>3. (\A d \in Clients \ {c} : net'[d] = net[d])
          /\ n2.down = Tail(n.down) /\ n2.up = n.up /\ n2.end = n.end
      BY <1>6, <1>8
    <2> HIDE DEF k2, n2, h
    <2>4. k2.st = k.st /\ k2.send = k.send /\ k2.todo = k.todo /\ k2.popped = k.popped
      BY <2>2 DEF CliFields
    <2>5. k.auth_name \in Parties
      BY <1>4, <1>8
    <2> DEFINE X == Good(c, fed, k.authors) \cup {m}
    <2>6. k.popped \in Seq(X) /\ k.recved \in Seq(X) /\ m \in X
      <3>1. k.popped \in Seq(Good(c, fed, k.authors)) /\ k.recved \in Seq(Good(c, fed, k.authors))
        BY <1>2 DEF ClientOK
      <3>2. Good(c, fed, k.authors) \subseteq X
        OBVIOUS
      <3> QED BY <3>1, <3>2, SeqMonotonic
    <2> HIDE DEF X
    <2>7. Got(k2) = Append(got, m) /\ got \in Seq(X)
      <3> HIDE DEF m
      <3>1. k.popped \o Append(k.recved, m) = Append(k.popped \o k.recved, m)
        <4> DEFINE a == k.popped  b == k.recved
        <4>1. a \in Seq(X) /\ b \in Seq(X) /\ m \in X
          BY <2>6
        <4> HIDE DEF a, b
        <4>2. a \o Append(b, m) = Append(a \o b, m)
          BY <4>1, GotRead
        <4> QED BY <4>2 DEF a, b
      <3>2. k.popped \o k.recved \in Seq(X)
        BY <2>6, ConcatProperties
      <3> QED BY <2>2, <2>4, <3>1, <3>2 DEF Got
    <2>8. /\ N \in Nat /\ Len(Got(k2)) = N + 1 /\ Got(k2)[N + 1] = m
          /\ \A i \in 1..N : Got(k2)[i] = got[i]
      <3> HIDE DEF m, got
      <3> QED BY <2>6, <2>7, AppendIs
    <2>9. N <= Len(h) /\ (\A i \in 1..N : got[i] = h[i]) /\ Says(Stream(k.auth_name, n.down), h, 2 * N)
      BY <1>5 DEF Follows, Coming, h
    <2>10. h \in Seq(Message(c, g))
      BY <1>5 DEF h
    <2>11. /\ N + 1 <= Len(h) /\ h[N + 1].author = k.auth_name /\ h[N + 1].text = Head(n.down)
           /\ Says(Tail(n.down), h, 2 * (N + 1))
            /\ Len(Stream(k.auth_name, n.down)) = Len(Tail(n.down)) + 2
      <3> HIDE DEF N
      <3> QED BY <1>4, <1>8, <2>5, <2>8, <2>9, <2>10, SaysRead DEF N
    <2>12. h[N + 1] = m
      <3>1. N + 1 \in 1..Len(h)
        BY <2>8, <2>11
      <3>2. h[N + 1] \in Message(c, g)
        BY <2>10, <3>1, ElementOfSeq
      <3> QED BY <2>11, <3>2 DEF Message
    <2>13. Coming(k2, n2) = Tail(n.down) /\ Coming(k, n) = Stream(k.auth_name, n.down)
      BY <2>2, <2>3 DEF Coming, Stream
    <2>14. Follows(k2, n2, h)
      <3> HIDE DEF got, m
      <3>1. ASSUME NEW i \in 1..Len(Got(k2)) PROVE Got(k2)[i] = h[i]
        BY <2>8, <2>9, <2>12
      <3> QED BY <2>8, <2>11, <2>13, <3>1 DEF Follows
    <2>15. Reach(k2, n2) = Reach(k, n)
      <3>1. Len(Tail(n.down)) \in Nat
        BY <1>4, <1>8, HeadTailProperties, LenProperties
      <3>2. 2 * (N + 1) + Len(Tail(n.down)) = 2 * N + (Len(Tail(n.down)) + 2)
        <4>1. \A x, y \in Nat : 2 * (x + 1) + y = 2 * x + (y + 2)
          OBVIOUS
        <4>2. N \in Nat
          BY <2>8
        <4> HIDE DEF N
        <4> QED BY <3>1, <4>1, <4>2
      <3>3. Reach(k2, n2) = 2 * Len(Got(k2)) + Len(Coming(k2, n2))
            /\ Reach(k, n) = 2 * N + Len(Coming(k, n))
        BY DEF Reach
      <3> HIDE DEF N
      <3> QED BY <2>8, <2>11, <2>13, <3>2, <3>3
    <2>16. Up => Saying(c, k2, n2, NameLeft(c, peers), g[c], fed[c])
      BY <2>3, <2>4, MailOf, SayingFields
    <2>17. Stays(c, H, g)
      BY <2>1, <2>3, <2>4, <2>14, <2>15, <2>16 DEF Stays, k2, n2, h
    <2> QED BY <1>2, <2>17, MailStays
  <1>9. CASE n.down = <<>> /\ n.srv = "closed" /\ ClientReturns(c) /\ UNCHANGED net
    BY <1>2, <1>9, ReturnsMail
  <1>10. CASE ClientLeaves(c)
    BY <1>10, LeaveMail
  <1> QED BY <1>7, <1>8, <1>9, <1>10 DEF ClientRecv

\* How many texts are under way is a number.
LEMMA TextsIs ==
    ASSUME NEW k, NEW n, NEW o \in Int, n.up \in Seq(Frame), k.todo \in Seq(Frame)
    PROVE  Texts(k, n, o) \in Int
  <1>1. Len(n.up) \in Nat /\ Len(k.todo) \in Nat
    BY LenProperties
  <1> DEFINE a == Len(n.up)  b == Len(k.todo)
  <1>2. a + b - o \in Int /\ 0 \in Int
    <2> HIDE DEF a, b
    <2>1. a \in Nat /\ b \in Nat
      BY <1>1 DEF a, b
    <2> QED BY <2>1
  <1> HIDE DEF a, b
  <1>3. Texts(k, n, o) = IF n.up = <<>> /\ k.todo = <<>> THEN 0 ELSE a + b - o
    BY DEF Texts, a, b
  <1> QED BY <1>2, <1>3

\* chat_client_feed.
LEMMA ClientFeedMail ==
    ASSUME ChatInv, NEW H, NEW g, Mail(H, g), NEW c \in Clients, chat_client_feed(c)
    PROVE  Mail(H, g)'
  <1> DEFINE k == cli[c]  k2 == cli'[c]  n == net[c]
             m == [author |-> IF NameNeeded(c) THEN c ELSE None, text |-> Text(c, fed[c] + 1)]
  <1>1. /\ CliType(k) /\ NetType(n) /\ ClientOK(c, k, n, fed) /\ fed \in [Parties -> Nat]
        /\ DOMAIN cli = Clients
    BY Client DEF ClientInv
  <1>2. /\ k.st = "up" /\ fed' = [fed EXCEPT ![c] = @ + 1] /\ net' = net
        /\ started' = started /\ peers' = peers /\ send' = send /\ job' = job /\ backlog' = backlog
        /\ cli' = [cli EXCEPT ![c].name_sended = TRUE, ![c].send = Append(@, m)]
    BY DEF chat_client_feed, queue_add, serverVars
  <1>3. c \in Parties /\ Server \in Parties /\ c # Server
    BY NobodyIsNone
  <1>4. fed'[c] = fed[c] + 1 /\ \A p \in Parties \ {c} : fed'[p] = fed[p]
    BY <1>1, <1>2, <1>3
  <1>5. \A d \in Clients \ {c} : cli'[d] = cli[d] /\ fed'[d] = fed[d]
    BY <1>1, <1>2, <1>4, NobodyIsNone
  <1>6. m.text = Text(c, fed[c] + 1)
    OBVIOUS
  <1> HIDE DEF m
  <1>7. k2.send = Append(k.send, m) /\ \A f \in CliFields \ {"name_sended", "send"} : k2[f] = k[f]
    BY <1>1, <1>2 DEF CliType, CliFields
  <1> HIDE DEF k2
  <1>8. /\ k2.st = k.st /\ k2.recved = k.recved /\ k2.popped = k.popped /\ k2.todo = k.todo
        /\ k2.auth_name = k.auth_name
    BY <1>7 DEF CliFields
  <1>9. Got(k2) = Got(k) /\ Coming(k2, n) = Coming(k, n)
    BY <1>8 DEF Got, Coming
  <1>10. Follows(k2, n, H[c]) /\ Reach(k2, n) = Reach(k, n)
    BY <1>9, MailOf, FollowsSame
  <1>11. Told(H, g) /\ \A d \in Clients : Follows(cli'[d], net[d], H[d])
    BY <1>5, <1>10 DEF Mail, k2
  <1>12. ASSUME Up PROVE Saying(c, k2, n, NameLeft(c, peers), g[c], fed[c] + 1)
    <2>1. g[c] \in Nat /\ Saying(c, k, n, NameLeft(c, peers), g[c], fed[c])
      BY <1>12, MailOf
    <2>2. NameLeft(c, peers) \in Int
      <3>1. NameLeft(c, peers) \in {0, 1}
        BY NameLeftIs
      <3> QED BY <3>1
    <2>3. Texts(k, n, NameLeft(c, peers)) \in Int
      BY <1>1, <2>2, TextsIs DEF CliType, NetType
    <2> DEFINE X == Own(c, fed) \cup {m}
    <2>4. k.send \in Seq(X) /\ m \in X
      <3>1. k.send \in Seq(Own(c, fed)) /\ Own(c, fed) \subseteq X
        BY <1>1 DEF ClientOK
      <3> QED BY <3>1, SeqMonotonic
    <2> HIDE DEF X
    <2> QED BY <1>2, <1>6, <1>7, <1>8, <2>1, <2>3, <2>4, SayingFeed
  <1>13. ASSUME Up, NEW d \in Clients
         PROVE  /\ net[d].end = "open" => Listening(d, H[d], g)'
                /\ cli'[d].st = "up" => d \in Elems(backlog) \cup SocketsOf(peers)
                /\ Saying(d, cli'[d], net[d], NameLeft(d, peers), g[d], fed'[d])
    <2>1. /\ net[d].end = "open" => Listening(d, H[d], g)
          /\ cli[d].st = "up" => d \in Elems(backlog) \cup SocketsOf(peers)
          /\ Saying(d, cli[d], net[d], NameLeft(d, peers), g[d], fed[d])
      BY <1>13, MailOf
    <2>2. CASE d # c
      BY <1>2, <1>5, <2>1, <2>2 DEF Listening
    <2>3. CASE d = c
      BY <1>2, <1>4, <1>8, <1>10, <1>12, <1>13, <2>1, <2>3 DEF Listening, k2
    <2> QED BY <2>2, <2>3
  <1>14. Up => ServerSaying(g)'
    BY <1>2, <1>3, <1>4 DEF Mail, ServerSaying
  <1>15. Up' <=> Up
    BY <1>2 DEF Up
  <1> QED BY <1>2, <1>11, <1>13, <1>14, <1>15 DEF Mail

\* chat_client_connect.
LEMMA ConnectMail ==
    ASSUME ChatInv, NEW H, NEW g, Mail(H, g), NEW c \in Clients, chat_client_connect(c)
    PROVE  Mail(H, g)'
  <1> DEFINE k == cli[c]  k2 == cli'[c]  n == net[c]
  <1>1. CliType(k) /\ DOMAIN cli = Clients
    BY Client
  <1>2. k.st = "new" /\ net' = net /\ UNCHANGED <<started, peers, recved, send, job, fed>>
    BY DEF chat_client_connect
  <1>3. PICK v \in {"up", "gone", "broken"} :
            /\ cli' = [cli EXCEPT ![c].st = v]
            /\ IF v = "up" THEN started = "up" /\ backlog' = Append(backlog, c)
                           ELSE UNCHANGED backlog
    BY DEF chat_client_connect, Stops
  <1>4. \A d \in Clients \ {c} : cli'[d] = cli[d]
    BY <1>1, <1>3
  <1>5. k2.st = v /\ \A f \in CliFields \ {"st"} : k2[f] = k[f]
    BY <1>1, <1>3 DEF CliType, CliFields
  <1> HIDE DEF k2
  <1>6. /\ k2.recved = k.recved /\ k2.popped = k.popped /\ k2.todo = k.todo /\ k2.send = k.send
        /\ k2.auth_name = k.auth_name
    BY <1>5 DEF CliFields
  <1>7. Got(k2) = Got(k) /\ Coming(k2, n) = Coming(k, n)
    BY <1>6 DEF Got, Coming
  <1>8. Follows(k2, n, H[c]) /\ Reach(k2, n) = Reach(k, n)
    BY <1>7, MailOf, FollowsSame
  <1>9. Up => Saying(c, k2, n, NameLeft(c, peers), g[c], fed[c])
    <2>1. Up => Saying(c, k, n, NameLeft(c, peers), g[c], fed[c])
      BY MailOf
    <2> QED BY <1>2, <1>6, <2>1 DEF Saying, Texts
  <1>10. CASE v # "up"
    <2>1. UNCHANGED <<serverVars, fed>>
      BY <1>2, <1>3, <1>10 DEF serverVars
    <2>2. Stays(c, H, g)
      BY <1>2, <1>4, <1>5, <1>8, <1>9, <1>10 DEF Stays, k2
    <2> QED BY <2>1, <2>2, MailStays
  <1>11. CASE v = "up"
    <2>1. Elems(backlog') = Elems(backlog) \cup {c}
      <3>1. Table(peers, backlog) /\ Connected
        BY ServerParts
      <3>2. backlog \in Seq(Clients) /\ c \notin Elems(backlog)
        BY <1>2, <3>1 DEF Table, Connected
      <3> QED BY ZenonT(40), <1>3, <1>11, <3>2, AppendElems
    <2>2. Told(H, g) /\ \A d \in Clients : Follows(cli'[d], net[d], H[d])
      BY <1>4, <1>8 DEF Mail, k2
    <2>3. ASSUME Up, NEW d \in Clients
          PROVE  /\ net[d].end = "open" => Listening(d, H[d], g)'
                 /\ cli'[d].st = "up" => d \in Elems(backlog') \cup SocketsOf(peers)
                 /\ Saying(d, cli'[d], net[d], NameLeft(d, peers), g[d], fed[d])
      <3>1. /\ net[d].end = "open" => Listening(d, H[d], g)
            /\ cli[d].st = "up" => d \in Elems(backlog) \cup SocketsOf(peers)
            /\ Saying(d, cli[d], net[d], NameLeft(d, peers), g[d], fed[d])
        BY <2>3, MailOf
      <3>2. CASE d # c
        BY <1>2, <1>4, <2>1, <3>1, <3>2 DEF Listening
      <3>3. CASE d = c
        BY <1>2, <1>8, <1>9, <2>1, <2>3, <3>1, <3>3 DEF Listening, k2
      <3> QED BY <3>2, <3>3
    <2>4. Up => ServerSaying(g)'
      BY <1>2 DEF Mail, ServerSaying
    <2>5. Up' <=> Up
      BY <1>2 DEF Up
    <2> QED BY <1>2, <2>2, <2>3, <2>4, <2>5 DEF Mail
  <1> QED BY <1>10, <1>11

-----------------------------------------------------------------------------
(* Mail under the steps of the server.                                     *)

\* A step of the server that tells nobody anything.
ServerStays(H, g) ==
    /\ cli' = cli /\ fed' = fed /\ \A d \in Clients : net'[d].down = net[d].down
    /\ Up' => /\ Up /\ send' = send
              /\ \A d \in Clients :
                    /\ net'[d].end = "open" => /\ net[d].end = "open"
                                               /\ Rests(d, job'.todo, H[d], Reach(cli[d], net[d]))
                                               /\ d \notin SocketsOf(peers') => H[d] = <<>>
                    /\ cli[d].st = "up" => d \in Elems(backlog') \cup SocketsOf(peers')
                    /\ Saying(d, cli[d], net'[d], NameLeft(d, peers'), g[d], fed[d])

\* Such a step keeps everyone's mail.
LEMMA ServerStaysMail ==
    ASSUME NEW H, NEW g, Mail(H, g), ServerStays(H, g)
    PROVE  Mail(H, g)'
  <1>1. cli' = cli /\ fed' = fed /\ \A d \in Clients : net'[d].down = net[d].down
    BY DEF ServerStays
  <1>2. ASSUME NEW d \in Clients
        PROVE  Follows(cli'[d], net'[d], H[d]) /\ Reach(cli'[d], net'[d]) = Reach(cli[d], net[d])
    <2>1. Coming(cli'[d], net'[d]) = Coming(cli[d], net[d]) /\ Got(cli'[d]) = Got(cli[d])
      BY <1>1 DEF Coming
    <2> QED BY <2>1, MailOf, FollowsSame
  <1>3. Told(H, g)
    BY DEF Mail
  <1>4. ASSUME Up' PROVE ServerSaying(g)'
    <2>1. Up /\ send' = send
      BY <1>4 DEF ServerStays
    <2> QED BY <1>1, <2>1 DEF Mail, ServerSaying
  <1>5. ASSUME Up', NEW d \in Clients
        PROVE  /\ net'[d].end = "open" => Listening(d, H[d], g)'
               /\ cli'[d].st = "up" => d \in Elems(backlog') \cup SocketsOf(peers')
               /\ Saying(d, cli'[d], net'[d], NameLeft(d, peers'), g[d], fed'[d])
    <2>1. Up
      BY <1>5 DEF ServerStays
    <2>2. ASSUME net'[d].end = "open" PROVE Listening(d, H[d], g)'
      <3>1. /\ net[d].end = "open" /\ Rests(d, job'.todo, H[d], Reach(cli[d], net[d]))
            /\ d \notin SocketsOf(peers') => H[d] = <<>>
        BY <1>5, <2>2 DEF ServerStays
      <3>2. Newest(H[d], g)
        BY <2>1, <3>1, MailOf DEF Listening
      <3> QED BY <1>2, <3>1, <3>2 DEF Listening
    <2> QED BY <1>1, <1>5, <2>2 DEF ServerStays
  <1> QED BY <1>2, <1>3, <1>4, <1>5 DEF Mail

\* The server is gone: what is under way stays.
LEMMA GoneMail ==
    ASSUME ChatInv, NEW H, NEW g, Mail(H, g), chat_server_delete \/ ServerDies
    PROVE  Mail(H, g)'
  <1>1. cli' = cli /\ fed' = fed /\ ~Up'
    BY DEF chat_server_delete, ServerDies, Up
  <1>2. \A d \in Clients : net'[d] = net[d] \/ net'[d] = [net[d] EXCEPT !.srv = "closed"]
    BY DEF chat_server_delete, ServerDies
  <1>3. \A d \in Clients : net'[d].down = net[d].down
    BY <1>2, ServerParts DEF NetType
  <1> QED BY <1>1, <1>3, ServerStaysMail DEF ServerStays

\* chat_server_listen and chat_server_pop_next.
LEMMA ListenMail ==
    ASSUME ChatInv, NEW H, NEW g, Mail(H, g), chat_server_listen \/ chat_server_pop_next
    PROVE  Mail(H, g)'
  <1>1. UNCHANGED <<peers, send, job, backlog, cli, net, fed>> /\ Up
    BY DEF chat_server_listen, chat_server_pop_next, Up
  <1>2. ASSUME NEW d \in Clients
        PROVE  /\ net[d].end = "open" => /\ Rests(d, job.todo, H[d], Reach(cli[d], net[d]))
                                         /\ d \notin SocketsOf(peers) => H[d] = <<>>
               /\ cli[d].st = "up" => d \in Elems(backlog) \cup SocketsOf(peers)
               /\ Saying(d, cli[d], net[d], NameLeft(d, peers), g[d], fed[d])
    BY <1>1, MailOf DEF Listening
  <1>3. ServerStays(H, g)
    BY <1>1, <1>2 DEF ServerStays
  <1> QED BY <1>3, ServerStaysMail

\* chat_server_feed.
LEMMA ServerFeedMail ==
    ASSUME ChatInv, NEW H, NEW g, Mail(H, g), chat_server_feed
    PROVE  Mail(H, g)'
  <1> DEFINE m == [author |-> Server, text |-> Text(Server, fed[Server] + 1)]  F == fed[Server]
  <1>1. /\ UNCHANGED <<started, peers, job, backlog, cli, net>> /\ send' = Append(send, m)
        /\ fed' = [fed EXCEPT ![Server] = @ + 1] /\ Up
    BY DEF chat_server_feed, queue_add, Up
  <1>2. fed \in [Parties -> Nat] /\ Server \in Parties /\ Server \notin Clients /\ Connected
    BY ServerParts, NobodyIsNone
  <1>3. fed'[Server] = F + 1 /\ F \in Nat /\ \A d \in Clients : fed'[d] = fed[d]
    BY <1>1, <1>2, NobodyIsNone
  <1>4. ServerSaying(g) /\ Told(H, g)
    BY <1>1 DEF Mail
  <1>5. g[Server] \in Nat
    BY <1>2, <1>4 DEF Told
  <1>6. g[Server] + Len(send) = F /\ \A i \in 1..Len(send) :
           send[i] = [author |-> Server, text |-> Text(Server, g[Server] + i)]
    BY <1>4 DEF ServerSaying
  <1> DEFINE X == Named(Server, fed) \cup {m}
  <1>7. send \in Seq(X) /\ m \in X
    <2>1. send \in Seq(Named(Server, fed)) /\ Named(Server, fed) \subseteq X
      BY <1>2 DEF Connected
    <2> QED BY <2>1, SeqMonotonic
  <1>8. m = [author |-> Server, text |-> Text(Server, F + 1)]
    OBVIOUS
  <1> HIDE DEF X, m, F
  <1>9. /\ Len(send) \in Nat /\ Len(send') = Len(send) + 1 /\ send'[Len(send) + 1] = m
        /\ \A i \in 1..Len(send) : send'[i] = send[i]
    BY <1>1, <1>7, AppendIs
  <1>10. ServerSaying(g)'
    <2>1. ASSUME NEW i \in 1..Len(send')
          PROVE  send'[i] = [author |-> Server, text |-> Text(Server, g[Server] + i)]
      <3>1. CASE i \in 1..Len(send)
        BY <1>6, <1>9, <3>1
      <3>2. CASE i \notin 1..Len(send)
        <4>1. i = Len(send) + 1
          BY <1>9, <3>2
        <4>2. F + 1 = g[Server] + i
          BY <1>5, <1>6, <1>9, <4>1
        <4> QED BY <1>8, <1>9, <4>1, <4>2
      <3> QED BY <3>1, <3>2
    <2>2. g[Server] + Len(send') = fed'[Server]
      BY <1>3, <1>5, <1>6, <1>9
    <2> QED BY <2>1, <2>2 DEF ServerSaying
  <1>11. ASSUME NEW d \in Clients
         PROVE  /\ Follows(cli[d], net[d], H[d])
                /\ net[d].end = "open" => Listening(d, H[d], g)
                /\ cli[d].st = "up" => d \in Elems(backlog) \cup SocketsOf(peers)
                /\ Saying(d, cli[d], net[d], NameLeft(d, peers), g[d], fed'[d])
    BY <1>1, <1>3, MailOf
  <1> QED BY <1>1, <1>4, <1>10, <1>11 DEF Mail, Listening

\* Whom the server knows by name, and from whom it has not heard yet.
LEMMA NameLeftSame ==
    ASSUME NEW d, NEW P, NEW Q,
           \A i \in 1..Len(P) : P[i].socket = d /\ P[i].author # None
              => \E j \in 1..Len(Q) : Q[j].socket = d /\ Q[j].author # None,
           \A i \in 1..Len(Q) : Q[i].socket = d /\ Q[i].author # None
              => \E j \in 1..Len(P) : P[j].socket = d /\ P[j].author # None
    PROVE  NameLeft(d, P) = NameLeft(d, Q)
  BY DEF NameLeft

\* The table without one peer has all the others.
LEMMA WithoutHas ==
    ASSUME Table(peers, backlog), NEW c \in SocketsOf(peers)
    PROVE  /\ SocketsOf(PeersWithout(c)) = SocketsOf(peers) \ {c}
           /\ \A d : d # c => NameLeft(d, PeersWithout(c)) = NameLeft(d, peers)
  <1> DEFINE r == PeersWithout(c)  f == peers_data_find(c)  n == Len(peers)
  <1>1. peers \in Seq(Peer) /\ OncePeer(peers)
    BY DEF Table
  <1>2. f \in 1..n /\ peers[f].socket = c
    BY FindIs
  <1>3. n \in Nat
    BY <1>1, LenProperties
  <1>4. /\ r \in Seq(Peer) /\ Len(r) = n - 1
        /\ \A j \in 1..(n - 1) : r[j] = IF j < f THEN peers[j] ELSE peers[j + 1]
    <2> HIDE DEF f
    <2>1. r = RemoveAt(peers, f)
      BY DEF PeersWithout, f
    <2> QED BY <1>1, <1>2, <2>1, RemoveAtIs
  <1> HIDE DEF r, f, n
  <1>5. ASSUME NEW i \in 1..n, i # f PROVE \E j \in 1..Len(r) : r[j] = peers[i]
    <2>1. CASE i < f
      <3>1. i \in 1..(n - 1)
        BY <1>2, <1>3, <2>1
      <3> QED BY <1>4, <2>1, <3>1
    <2>2. CASE i > f
      <3>1. i - 1 \in 1..(n - 1) /\ ~(i - 1 < f) /\ (i - 1) + 1 = i
        BY <1>2, <1>3, <2>2
      <3> QED BY <1>4, <3>1
    <2> QED BY <1>2, <1>5, <2>1, <2>2
  <1>6. ASSUME NEW j \in 1..Len(r) PROVE \E i \in 1..n : r[j] = peers[i]
    <2>1. j \in 1..n /\ j + 1 \in 1..n /\ j \in 1..(n - 1)
      BY <1>3, <1>4
    <2> QED BY <1>4, <2>1
  <1>7. SocketsOf(r) \subseteq SocketsOf(peers) \ {c}
    BY WithoutIs DEF r
  <1>8. ASSUME NEW d \in SocketsOf(peers), d # c PROVE d \in SocketsOf(r)
    <2>1. PICK i \in 1..n : peers[i].socket = d
      BY <1>8 DEF SocketsOf, n
    <2>2. i # f
      BY <1>2, <1>8, <2>1
    <2> QED BY <1>5, <2>1, <2>2 DEF SocketsOf
  <1>9. ASSUME NEW d, d # c PROVE NameLeft(d, r) = NameLeft(d, peers)
    <2>1. ASSUME NEW i \in 1..Len(r), r[i].socket = d /\ r[i].author # None
          PROVE  \E j \in 1..n : peers[j].socket = d /\ peers[j].author # None
      BY <1>6, <2>1
    <2>2. ASSUME NEW i \in 1..n, peers[i].socket = d /\ peers[i].author # None
          PROVE  \E j \in 1..Len(r) : r[j].socket = d /\ r[j].author # None
      <3>1. i # f
        BY <1>2, <1>9, <2>2
      <3> QED BY <1>5, <2>2, <3>1
    <2> QED BY <2>1, <2>2, NameLeftSame DEF n
  <1> QED BY <1>7, <1>8, <1>9 DEF r

\* When the server handles an event or is idle it has nothing to say.
LEMMA NothingToSay ==
    ASSUME ChatInv, job.at \in {"event", "idle"}, NEW H, NEW g, Mail(H, g)
    PROVE  /\ job.todo = <<>> /\ Idle.todo = <<>>
           /\ \A t \in {<<>>} : \A d \in Clients :
                  Up /\ net[d].end = "open" => Rests(d, t, H[d], Reach(cli[d], net[d]))
  <1>1. job.todo = <<>> /\ Idle.todo = <<>>
    BY ServerParts DEF JobFields, Idle
  <1> QED BY <1>1, MailOf DEF Listening

\* Accept.
LEMMA AcceptMail ==
    ASSUME ChatInv, NEW H, NEW g, Mail(H, g), Accept
    PROVE  Mail(H, g)'
  <1>1. Table(peers, backlog) /\ Event(job, peers, backlog) /\ Connected
    BY ServerParts
  <1>2. /\ job.at = "event" /\ job.ev = Server /\ backlog' = Tail(backlog) /\ job' = Idle
        /\ UNCHANGED <<started, send, cli, net, fed>>
        /\ peers' = Append(peers, [socket |-> Head(backlog), author |-> None])
    BY DEF Accept, peers_data_add
  <1>3. started = "up" /\ backlog # <<>> /\ backlog \in Seq(Clients) /\ peers \in Seq(Peer)
    BY <1>1, <1>2, AtEvent DEF Event, Table
  <1>4. PICK c \in Clients : c = Head(backlog)
    BY <1>3, HeadTailProperties
  <1> DEFINE q == [socket |-> c, author |-> None]
  <1>5. q \in Peer /\ peers' = Append(peers, q) /\ q.socket = c /\ q.author = None
    BY <1>2, <1>4 DEF Peer
  <1> HIDE DEF q
  <1>6. /\ Len(peers) \in Nat /\ Len(peers') = Len(peers) + 1 /\ peers'[Len(peers) + 1] = q
        /\ \A i \in 1..Len(peers) : peers'[i] = peers[i]
    BY <1>3, <1>5, AppendIs
  <1>7. 1..Len(peers') = 1..Len(peers) \cup {Len(peers) + 1}
    BY <1>6
  <1>8. SocketsOf(peers') = SocketsOf(peers) \cup {c}
    BY <1>5, <1>6, <1>7 DEF SocketsOf
  <1>9. Elems(backlog) \subseteq Elems(backlog') \cup {c}
    <2>1. /\ Len(backlog') = Len(backlog) - 1 /\ Len(backlog) \in Nat \ {0} /\ c = backlog[1]
          /\ \A i \in 1..Len(backlog') : backlog'[i] = backlog[i + 1]
      BY <1>2, <1>3, <1>4, HeadTailProperties, EmptySeq
    <2>2. ASSUME NEW i \in 1..Len(backlog), i # 1 PROVE backlog[i] \in Elems(backlog')
      <3>1. i - 1 \in 1..Len(backlog') /\ (i - 1) + 1 = i
        BY <2>1, <2>2
      <3> QED BY <2>1, <3>1 DEF Elems
    <2> QED BY <2>1, <2>2 DEF Elems
  <1>10. \A d : NameLeft(d, peers') = NameLeft(d, peers)
    BY <1>5, <1>6, <1>7 DEF NameLeft
  <1>11. Up /\ job'.todo = <<>> /\ \A d \in Clients :
           net[d].end = "open" => Rests(d, <<>>, H[d], Reach(cli[d], net[d]))
    BY <1>2, <1>3, NothingToSay DEF Up
  <1>12. ASSUME NEW d \in Clients
         PROVE  /\ net[d].end = "open" /\ d \notin SocketsOf(peers') => H[d] = <<>>
                /\ cli[d].st = "up" => d \in Elems(backlog') \cup SocketsOf(peers')
                /\ Saying(d, cli[d], net[d], NameLeft(d, peers'), g[d], fed[d])
    BY <1>8, <1>9, <1>10, <1>11, MailOf DEF Listening
  <1>13. ServerStays(H, g)
    BY <1>2, <1>11, <1>12 DEF ServerStays
  <1> QED BY <1>13, ServerStaysMail

\* A message more for those in S.
Line(p, G)          == [author |-> p, text |-> Text(p, G[p])]
Telling(H, S, p, G) == [d \in Clients |-> IF d \in S THEN Append(H[d], Line(p, G)) ELSE H[d]]

\* Everyone but the author is told one more line.
LEMMA ToldGrow ==
    ASSUME NEW H, NEW g, Told(H, g), NEW p \in Parties, NEW G, OneMore(g, p, G),
           NEW S \in SUBSET (Clients \ {p}), \A d \in S : Newest(H[d], g)
    PROVE  Told(Telling(H, S, p, G), G)
  <1> DEFINE m == Line(p, G)  K == Telling(H, S, p, G)
  <1>1. g \in [Parties -> Nat] /\ G \in [Parties -> Nat]
    BY MessagesGrow DEF Told
  <1>2. m = [author |-> p, text |-> Text(p, G[p])]
    BY DEF Line
  <1>3. ASSUME NEW c \in Clients
        PROVE  /\ H[c] \in Seq(Message(c, g)) /\ H[c] \in Seq(Message(c, G)) /\ Successive(H[c])
               /\ m \notin Message(c, g) /\ (p # c => m \in Message(c, G))
               /\ K[c] = IF c \in S THEN Append(H[c], m) ELSE H[c]
    <2>1. H[c] \in Seq(Message(c, g)) /\ Successive(H[c])
      BY DEF Told
    <2>2. /\ Seq(Message(c, g)) \subseteq Seq(Message(c, G)) /\ m \notin Message(c, g)
          /\ p # c => m \in Message(c, G)
      <3>1. [author |-> p, text |-> Text(p, G[p])] \notin Message(c, g)
            /\ Seq(Message(c, g)) \subseteq Seq(Message(c, G))
        BY <1>1, MessagesGrow
      <3>2. p # c => [author |-> p, text |-> Text(p, G[p])] \in Message(c, G)
        BY <1>1, MessagesGrow
      <3> QED BY <1>2, <3>1, <3>2
    <2> HIDE DEF m
    <2> QED BY <2>1, <2>2 DEF Telling, m
  <1> HIDE DEF m, K
  <1>4. ASSUME NEW c \in Clients PROVE K[c] \in Seq(Message(c, G)) /\ Successive(K[c])
    <2>1. CASE c \in S
      <3>1. p # c /\ K[c] = Append(H[c], m) /\ Newest(H[c], g)
        BY <1>3, <2>1
      <3>2. K[c] \in Seq(Message(c, G))
        BY <1>3, <3>1, AppendProperties
      <3>3. Successive(Append(H[c], m))
        <4> DEFINE h == H[c]
        <4>1. h \in Seq(Message(c, g)) /\ Successive(h) /\ Newest(h, g)
          BY <1>3, <3>1
        <4> HIDE DEF h
        <4>2. Successive(Append(h, [author |-> p, text |-> Text(p, G[p])]))
          BY <1>1, <3>1, <4>1, SuccessiveGrow
        <4> QED BY <1>2, <4>2 DEF h
      <3> QED BY <3>1, <3>2, <3>3
    <2>2. CASE c \notin S
      BY <1>3, <2>2
    <2> QED BY <2>1, <2>2
  <1>5. ASSUME NEW c \in Clients, NEW d \in Clients PROVE Agree(K[c], K[d])
    <2> DEFINE X == Message(c, g) \cup Message(d, g)  h == H[c]  k == H[d]
    <2>1. h \in Seq(X) /\ k \in Seq(X) /\ m \notin X
      <3>1. Message(c, g) \subseteq X /\ Message(d, g) \subseteq X
        OBVIOUS
      <3>2. H[c] \in Seq(X)
        BY <1>3, <3>1, SeqMonotonic
      <3>3. H[d] \in Seq(X)
        BY <1>3, <3>1, SeqMonotonic
      <3> QED BY <1>3, <3>2, <3>3
    <2>2. Agree(h, k) /\ Agree(k, h)
      BY DEF Told
    <2>3. K[c] \in {h, Append(h, m)} /\ K[d] \in {k, Append(k, m)}
      BY <1>3
    <2> DEFINE u == K[c]  v == K[d]
    <2> HIDE DEF X, h, k, u, v
    <2>4. Grown(h, m, u) /\ Grown(k, m, v)
      BY <2>3 DEF u, v, Grown
    <2>5. Agree(u, v)
      BY <2>1, <2>2, <2>4, AgreeGrow
    <2> QED BY <2>5 DEF u, v
  <1>6. Told(K, G)
    BY <1>1, <1>4, <1>5 DEF Told
  <1> QED BY <1>6 DEF K

\* What a client reads is still what it is told.
LEMMA FollowsGrow ==
    ASSUME NEW c \in Clients, ChatInv, NEW X, NEW h \in Seq(X), NEW m \in X, Follows(cli[c], net[c], h)
    PROVE  Follows(cli[c], net[c], Append(h, m))
  <1> DEFINE k == cli[c]  n == net[c]  r == Append(h, m)  got == Got(k)
  <1>1. n.down \in Seq(Frame) /\ k.auth_name \in Parties \cup {None}
    BY Client DEF CliType, NetType
  <1>2. Coming(k, n) \in Seq(Frame)
    BY <1>1, StreamIs DEF Coming
  <1>3. Len(got) \in Nat
    <2>1. k.popped \in Seq(Good(c, fed, k.authors)) /\ k.recved \in Seq(Good(c, fed, k.authors))
      BY Client DEF ClientInv, ClientOK
    <2> QED BY <2>1, ConcatProperties, LenProperties DEF Got
  <1>4. Len(h) \in Nat /\ Len(r) = Len(h) + 1 /\ \A i \in 1..Len(h) : r[i] = h[i]
    BY AppendIs
  <1>5. Len(got) <= Len(h) /\ (\A i \in 1..Len(got) : got[i] = h[i])
        /\ Says(Coming(k, n), h, 2 * Len(got))
    BY DEF Follows
  <1> HIDE DEF got, r
  <1>6. Len(got) <= Len(r) /\ \A i \in 1..Len(got) : got[i] = r[i]
    <2>1. ASSUME NEW i \in 1..Len(got) PROVE got[i] = r[i]
      <3>1. i \in 1..Len(h)
        BY <1>3, <1>4, <1>5
      <3> QED BY <1>4, <1>5, <3>1
    <2> QED BY <1>3, <1>4, <1>5, <2>1
  <1>7. Says(Coming(k, n), r, 2 * Len(got))
    <2>1. 2 * Len(got) \in Nat
      BY <1>3
    <2> QED BY <1>2, <1>5, <2>1, SaysGrow DEF r
  <1> QED BY <1>6, <1>7 DEF Follows, got, r

\* What is to be sent of a message for everybody in P.
LEMMA TodoIs ==
    ASSUME NEW P \in Seq(Peer), NEW p, NEW x, p # None
    PROVE  LET t == Todo([author |-> p, text |-> x], P)
           IN  /\ \A i \in 1..Len(t) : t[i].to \in SocketsOf(P) /\ t[i].frames = <<p, x>>
               /\ \A d \in SocketsOf(P) : ~Idles(d, t)
  <1> DEFINE t == Todo([author |-> p, text |-> x], P)  e(i) == [to |-> P[i].socket, frames |-> <<p, x>>]
  <1>1. t = [i \in 1..Len(P) |-> e(i)] /\ Len(P) \in Nat
    BY LenProperties DEF Todo, Frames
  <1>2. \A i \in 1..Len(P) : e(i).to = P[i].socket /\ e(i).frames = <<p, x>>
    OBVIOUS
  <1> HIDE DEF e
  <1>3. Len(t) = Len(P) /\ \A i \in 1..Len(P) : t[i] = e(i)
    BY <1>1
  <1> HIDE DEF t
  <1>4. \A i \in 1..Len(t) : t[i].to = P[i].socket /\ t[i].frames = <<p, x>>
    BY <1>2, <1>3
  <1> QED BY <1>3, <1>4 DEF SocketsOf, Idles, t

\* A message is told to all peers but its author.
Hears(d, h, G, t) ==
    /\ Follows(cli[d], net[d], h)
    /\ net[d].end = "open" => /\ Rests(d, t, h, Reach(cli[d], net[d])) /\ Newest(h, G)
                              /\ d \notin SocketsOf(peers) => h = <<>>

\* The messages made for a line tell it to every other client (the loop over the peers).
LEMMA Broadcast ==
    ASSUME ChatInv, Up, NEW H, NEW g, Mail(H, g), job.todo = <<>>, NEW p \in Parties,
           NEW G, OneMore(g, p, G), NEW P \in Seq(Peer), SocketsOf(P) = SocketsOf(peers) \ {p}
    PROVE  \E K : /\ Told(K, G)
                  /\ \A d \in Clients : Hears(d, K[d], G, Todo(Line(p, G), P))
  <1> DEFINE S == {d \in SocketsOf(P) : net[d].end = "open"}  K == Telling(H, S, p, G)
             x == Text(p, G[p])  m == Line(p, G)  t == Todo(m, P)
  <1>1. S \in SUBSET (Clients \ {p}) /\ S \subseteq SocketsOf(peers) /\ p # None
    BY InTables, NobodyIsNone
  <1>2. ASSUME NEW d \in Clients
        PROVE  /\ Follows(cli[d], net[d], H[d]) /\ g \in [Parties -> Nat]
               /\ H[d] \in Seq(Message(d, g))
               /\ net[d].end = "open" => /\ Rests(d, <<>>, H[d], Reach(cli[d], net[d]))
                                         /\ Newest(H[d], g)
                                         /\ d \notin SocketsOf(peers) => H[d] = <<>>
               /\ K[d] = IF d \in S THEN Append(H[d], m) ELSE H[d]
    BY <1>2, MailOf DEF Listening, Telling
  <1>3. Told(K, G)
    BY <1>1, <1>2, ToldGrow DEF Mail
  <1>4. m = [author |-> p, text |-> x]
    BY DEF Line
  <1>5. /\ \A i \in 1..Len(t) : t[i].to \in SocketsOf(P) /\ t[i].frames = <<p, x>>
        /\ \A d \in SocketsOf(P) : ~Idles(d, t)
    BY <1>1, <1>4, TodoIs
  <1> HIDE DEF m, x, t, K
  <1>6. ASSUME NEW d \in Clients
        PROVE  /\ d # p => m \in Message(d, G)
               /\ H[d] \in Seq(Message(d, G)) /\ G \in [Parties -> Nat]
               /\ \A q \in Parties \ {p} : G[q] = g[q]
    <2>1. /\ Seq(Message(d, g)) \subseteq Seq(Message(d, G))
          /\ d # p => [author |-> p, text |-> Text(p, G[p])] \in Message(d, G)
          /\ G \in [Parties -> Nat] /\ \A q \in Parties \ {p} : G[q] = g[q]
      BY ZenonT(40), <1>2, MessagesGrow
    <2>2. H[d] \in Seq(Message(d, G))
      BY <1>2, <2>1
    <2> QED BY <1>4, <2>1, <2>2 DEF x
  <1>7. ASSUME NEW d \in Clients PROVE Follows(cli[d], net[d], K[d])
    <2>1. CASE d \in S
      <3>1. d # p
        BY <1>1, <2>1
      <3> QED BY <1>2, <1>6, <2>1, <3>1, FollowsGrow
    <2>2. CASE d \notin S
      BY <1>2, <2>2
    <2> QED BY <2>1, <2>2
  <1>8. ASSUME NEW d \in Clients, net[d].end = "open" PROVE Reach(cli[d], net[d]) = 2 * Len(H[d])
    <2>1. Idles(d, <<>>)
      BY DEF Idles
    <2> QED BY <1>2, <1>8, <2>1 DEF Rests
  <1>9. ASSUME NEW d \in Clients, d \in S
        PROVE  Rests(d, t, K[d], Reach(cli[d], net[d])) /\ Newest(K[d], G)
    <2> DEFINE h == H[d]
    <2>1. /\ h \in Seq(Message(d, G)) /\ h \in Seq(Message(d, g)) /\ Newest(h, g) /\ d # p
          /\ K[d] = Append(h, m) /\ net[d].end = "open" /\ m \in Message(d, G)
      BY <1>1, <1>2, <1>6, <1>9
    <2>2. Reach(cli[d], net[d]) = 2 * Len(h)
      BY <1>8, <2>1
    <2> HIDE DEF h
    <2>3. Newest(Append(h, [author |-> p, text |-> x]), G)
      BY <1>2, <2>1, NewestGrow DEF x
    <2>4. /\ Says(<<p, x>>, Append(h, [author |-> p, text |-> x]), 2 * Len(h))
          /\ Len(<<p, x>>) = 2 /\ 2 * Len(Append(h, [author |-> p, text |-> x])) = 2 * Len(h) + 2
      BY <1>4, <2>1, SaysWhole
    <2>5. Rests(d, t, Append(h, m), 2 * Len(h))
      <3>1. ~Idles(d, t)
        BY <1>5, <1>9
      <3>2. ASSUME NEW i \in 1..Len(t)
            PROVE  /\ Says(t[i].frames, Append(h, m), 2 * Len(h))
                   /\ 2 * Len(h) + Len(t[i].frames) = 2 * Len(Append(h, m))
        <4>1. t[i].frames = <<p, x>>
          BY <1>5
        <4> QED BY <1>4, <2>4, <4>1, Zenon
      <3> QED BY <3>1, <3>2 DEF Rests
    <2> QED BY <1>4, <2>1, <2>2, <2>3, <2>5
  <1>10. ASSUME NEW d \in Clients, net[d].end = "open", d \notin S
         PROVE  /\ Rests(d, t, K[d], Reach(cli[d], net[d])) /\ Newest(K[d], G)
                /\ d \notin SocketsOf(peers) => K[d] = <<>>
    <2>1. K[d] = H[d] /\ d \notin SocketsOf(P) /\ (d = p \/ d \notin SocketsOf(peers))
      BY <1>2, <1>10
    <2>2. \A i \in 1..Len(t) : t[i].to # d
      BY <1>5, <2>1
    <2>3. Rests(d, t, H[d], Reach(cli[d], net[d]))
      BY <1>8, <1>10, <2>2 DEF Rests
    <2>4. Newest(H[d], G)
      <3>1. CASE d = p
        <4>1. \A i \in 1..Len(H[d]) : H[d][i] \in Message(d, g)
          BY <1>2, ElementOfSeq
        <4>2. \A i \in 1..Len(H[d]) : H[d][i].author \in Parties \ {p}
          BY <3>1, <4>1 DEF Message
        <4>3. Newest(H[d], g)
          BY <1>2, <1>10
        <4> QED BY <1>6, <4>2, <4>3 DEF Newest
      <3>2. CASE d \notin SocketsOf(peers)
        <4>1. H[d] = <<>> /\ 1..Len(<<>>) = {}
          BY <1>2, <1>10, <3>2
        <4> QED BY <4>1 DEF Newest
      <3> QED BY <2>1, <3>1, <3>2
    <2> QED BY <1>2, <1>10, <2>1, <2>3, <2>4
  <1>11. \A d \in Clients : Hears(d, K[d], G, t)
    BY <1>1, <1>7, <1>9, <1>10 DEF Hears
  <1> QED BY <1>3, <1>11 DEF t, m

\* The server has taken a line more of somebody.
ServerTells(K, G) ==
    /\ cli' = cli /\ fed' = fed /\ started' = started /\ peers' = peers /\ backlog' = backlog
    /\ Told(K, G) /\ ServerSaying(G)'
    /\ \A d \in Clients : /\ net'[d].down = net[d].down /\ net'[d].end = net[d].end
                          /\ Hears(d, K[d], G, job'.todo)
                          /\ Saying(d, cli[d], net'[d], NameLeft(d, peers), G[d], fed[d])

\* Then everyone's mail is one line longer, and right.
LEMMA ServerTellsMail ==
    ASSUME Up, NEW H, NEW g, Mail(H, g), NEW K, NEW G, ServerTells(K, G)
    PROVE  Mail(K, G)'
  <1>1. ASSUME NEW d \in Clients
        PROVE  Follows(cli'[d], net'[d], K[d]) /\ Reach(cli'[d], net'[d]) = Reach(cli[d], net[d])
    <2>1. Coming(cli'[d], net'[d]) = Coming(cli[d], net[d]) /\ Got(cli'[d]) = Got(cli[d])
      BY DEF Coming, ServerTells
    <2>2. Follows(cli[d], net[d], K[d])
      BY DEF ServerTells, Hears
    <2> QED BY <2>1, <2>2, FollowsSame
  <1>2. ASSUME NEW d \in Clients
        PROVE  /\ net'[d].end = "open" => Listening(d, K[d], G)'
               /\ cli'[d].st = "up" => d \in Elems(backlog') \cup SocketsOf(peers')
               /\ Saying(d, cli'[d], net'[d], NameLeft(d, peers'), G[d], fed'[d])
    <2>1. net'[d].end = "open" => Listening(d, K[d], G)'
      BY <1>1 DEF ServerTells, Hears, Listening
    <2>2. cli[d].st = "up" => d \in Elems(backlog) \cup SocketsOf(peers)
      BY MailOf
    <2> QED BY <2>1, <2>2 DEF ServerTells
  <1>3. Told(K, G) /\ ServerSaying(G)'
    BY DEF ServerTells
  <1> QED BY <1>1, <1>2, <1>3 DEF Mail

\* What SendJob leaves to send.
LEMMA SendJobTodo ==
    ASSUME NEW at, NEW ev, NEW t
    PROVE  SendJob(at, ev, t).todo = t
  BY DEF SendJob, Idle

\* chat_server_update.
LEMMA UpdateMail ==
    ASSUME ChatInv, NEW H, NEW g, Mail(H, g), NEW ev \in Clients \cup {Server, None},
           chat_server_update(ev)
    PROVE  MailInv'
  <1>1. /\ UNCHANGED <<started, peers, backlog, cli, net, fed>> /\ job = Idle /\ Up
    BY DEF chat_server_update, Up
  <1>2. /\ Table(peers, backlog) /\ Connected /\ Told(H, g) /\ g \in [Parties -> Nat]
        /\ Server \in Parties /\ Server \notin Clients /\ ServerSaying(g)
    BY <1>1, ServerParts, NobodyIsNone DEF Mail, Told
  <1>3. job.todo = <<>>
    BY <1>1 DEF Idle
  <1>4. CASE send' = send /\ job' = SendJob("send", ev, <<>>)
    <2>1. job'.todo = <<>>
      BY <1>4, SendJobTodo
    <2>2. ASSUME NEW d \in Clients
          PROVE  /\ net[d].end = "open" => /\ Rests(d, job'.todo, H[d], Reach(cli[d], net[d]))
                                           /\ d \notin SocketsOf(peers) => H[d] = <<>>
                 /\ cli[d].st = "up" => d \in Elems(backlog) \cup SocketsOf(peers)
                 /\ Saying(d, cli[d], net[d], NameLeft(d, peers), g[d], fed[d])
      BY <1>1, <1>3, <2>1, MailOf DEF Listening
    <2>3. ServerStays(H, g)
      BY <1>1, <1>4, <2>2 DEF ServerStays
    <2> QED BY <2>3, ServerStaysMail DEF MailInv
  <1>5. CASE /\ send # <<>> /\ send' = queue_pop(send)
             /\ job' = SendJob("send", ev, Todo(Head(send), Recipients(None)))
    <2> DEFINE G == [g EXCEPT ![Server] = @ + 1]
    <2>1. /\ Len(send) \in Nat \ {0} /\ Len(send') = Len(send) - 1 /\ Head(send) = send[1]
          /\ \A i \in 1..Len(send') : send'[i] = send[i + 1]
      <3>1. send \in Seq(Named(Server, fed))
        BY <1>2 DEF Connected
      <3> QED BY <1>5, <3>1, HeadTailProperties, EmptySeq DEF queue_pop
    <2>2. OneMore(g, Server, G) /\ G[Server] = g[Server] + 1 /\ g[Server] \in Nat
          /\ \A d \in Clients : G[d] = g[d]
      BY <1>2, NobodyIsNone DEF OneMore
    <2> HIDE DEF G
    <2>3. /\ \A i \in 1..Len(send) : send[i] = [author |-> Server, text |-> Text(Server, g[Server] + i)]
          /\ g[Server] + Len(send) = fed[Server]
      BY <1>2 DEF ServerSaying
    <2>4. Head(send) = Line(Server, G)
      <3>1. 1 \in 1..Len(send)
        BY <2>1
      <3> QED BY <2>1, <2>2, <2>3, <3>1 DEF Line
    <2>5. peers \in Seq(Peer) /\ SocketsOf(peers) = SocketsOf(peers) \ {Server}
          /\ Recipients(None) = peers
      BY <1>2, InTables DEF Table, Recipients
    <2>6. PICK K : Told(K, G) /\ \A d \in Clients : Hears(d, K[d], G, Todo(Line(Server, G), peers))
      BY <1>1, <1>2, <1>3, <2>2, <2>5, Broadcast
    <2>7. job'.todo = Todo(Line(Server, G), peers)
      BY <1>5, <2>4, <2>5, SendJobTodo
    <2>8. ServerSaying(G)'
      <3>1. ASSUME NEW i \in 1..Len(send')
            PROVE  send'[i] = [author |-> Server, text |-> Text(Server, G[Server] + i)]
        <4>1. i + 1 \in 1..Len(send) /\ g[Server] + (i + 1) = G[Server] + i
          <5>1. i \in Nat /\ Len(send') = Len(send) - 1 /\ Len(send) \in Nat /\ i \in 1..Len(send')
            BY <2>1
          <5> DEFINE a == Len(send)  b == Len(send')
          <5> HIDE DEF a, b
          <5>2. i + 1 \in 1..a
            BY <5>1 DEF a, b
          <5>3. \A x, y \in Nat : x + (y + 1) = (x + 1) + y
            OBVIOUS
          <5>4. g[Server] + (i + 1) = G[Server] + i
            BY <2>2, <5>1, <5>3
          <5> QED BY <5>2, <5>4 DEF a
        <4> QED BY <2>1, <2>3, <4>1
      <3>2. G[Server] + Len(send') = fed[Server]
        BY <2>1, <2>2, <2>3
      <3> QED BY <1>1, <3>1, <3>2 DEF ServerSaying
    <2>9. \A d \in Clients : Saying(d, cli[d], net[d], NameLeft(d, peers), G[d], fed[d])
      BY <1>1, <2>2, MailOf
    <2>10. ServerTells(K, G)
      BY <1>1, <2>6, <2>7, <2>8, <2>9 DEF ServerTells
    <2> QED BY <1>1, <2>10, ServerTellsMail DEF MailInv
  <1> QED BY <1>4, <1>5 DEF chat_server_update

\* ServerRecv: the name, a text for the others, the end of a client.
LEMMA ServerRecvMail ==
    ASSUME ChatInv, NEW H, NEW g, Mail(H, g), NEW c \in Clients, ServerRecv(c)
    PROVE  MailInv'
  <1> DEFINE me == peers_data_find(c)  n == net[c]  k == cli[c]
  <1>1. /\ Table(peers, backlog) /\ Connected /\ Event(job, peers, backlog)
        /\ DOMAIN net = Clients /\ fed \in [Parties -> Nat]
        /\ \A d \in Clients : ClientInv(d) /\ NetType(net[d]) /\ CliType(cli[d])
    BY ServerParts
  <1>2. job.at = "event" /\ job.ev = c
    BY DEF ServerRecv
  <1>3. started = "up" /\ Up
    BY <1>2, AtEvent DEF Up
  <1>4. c \in SocketsOf(peers) /\ c # None /\ c \in Parties /\ c # Server
    BY <1>1, <1>2, NobodyIsNone DEF Event
  <1>5. me \in 1..Len(peers) /\ peers[me].socket = c
    BY <1>4, FindIs
  <1>6. Upstream(c, k, n, fed, peers, backlog)
    BY <1>1, <1>3 DEF Connected, ClientInv
  <1>7. /\ Told(H, g) /\ g \in [Parties -> Nat] /\ ServerSaying(g) /\ job.todo = <<>> /\ Idle.todo = <<>>
        /\ \A d \in Clients : net[d].end = "open" => Rests(d, <<>>, H[d], Reach(cli[d], net[d]))
    BY <1>2, <1>3, NothingToSay DEF Mail, Told
  <1>8. ASSUME NEW d \in Clients
        PROVE  /\ net[d].end = "open" /\ d \notin SocketsOf(peers) => H[d] = <<>>
               /\ cli[d].st = "up" => d \in Elems(backlog) \cup SocketsOf(peers)
               /\ Saying(d, cli[d], net[d], NameLeft(d, peers), g[d], fed[d]) /\ g[d] \in Nat
    BY <1>3, MailOf DEF Listening
  <1>9. n.up \in Seq(Frame) /\ k.todo \in Seq(Frame) /\ k.send \in Seq(Own(c, fed))
    BY <1>1 DEF NetType, CliType, ClientInv, ClientOK
  <1>10. ASSUME n.up # <<>>, net' = [net EXCEPT ![c].up = Tail(@)]
         PROVE  /\ \A d \in Clients \ {c} : net'[d] = net[d]
                /\ \A d \in Clients : net'[d].end = net[d].end /\ net'[d].down = net[d].down
                /\ net'[c].up = Tail(n.up)
    BY <1>10, UpRead
  <1>11. ASSUME n.up # <<>>, net' = [net EXCEPT ![c].up = Tail(@)], ~Known(c),
                peers' = [peers EXCEPT ![me].author = Head(net[c].up)],
                UNCHANGED <<recved, job>>, UNCHANGED <<started, send, backlog, cli, fed>>
         PROVE  MailInv'
    <2>1. peers[me].author = None /\ peers \in Seq(Peer) /\ OncePeer(peers)
      BY <1>1, <1>11 DEF Known, Table
    <2>2. /\ \A d \in Clients \ {c} : net'[d] = net[d]
          /\ \A d \in Clients : net'[d].end = net[d].end /\ net'[d].down = net[d].down
          /\ net'[c].up = Tail(n.up)
      BY <1>10, <1>11
    <2>3. peers[me] \in Peer
      BY <1>5, <2>1, ElementOfSeq
    <2> DEFINE x == Head(n.up)
    <2>4. /\ Len(peers') = Len(peers) /\ peers'[me].socket = c /\ peers'[me].author = x
          /\ \A i \in 1..Len(peers) \ {me} : peers'[i] = peers[i]
      BY <1>5, <1>11, <2>1, <2>3, LenProperties DEF Peer
    <2> HIDE DEF x, me
    <2>5. SocketsOf(peers') = SocketsOf(peers)
      <3>1. \A i \in 1..Len(peers) : peers'[i].socket = peers[i].socket
        BY <1>5, <2>4
      <3> QED BY <2>4, <3>1 DEF SocketsOf
    <2>6. AuthorIn(c, {None}, peers)
      <3>1. \A i \in 1..Len(peers) : peers[i].socket = c => i = me
        BY <1>5, <2>1 DEF OncePeer
      <3> QED BY <2>1, <3>1 DEF AuthorIn
    <2>7. x = c
      <3> DEFINE P == peers  Q == peers'  n2 == net'[c]
      <3>1. AuthorIn(c, {x}, Q)
        <4>1. \A i \in 1..Len(peers) : peers[i].socket = c => i = me
          BY <1>5, <2>1 DEF OncePeer
        <4>2. \A i \in 1..Len(peers') : peers'[i].socket = c => i = me
          BY <2>4, <4>1
        <4> QED BY <2>4, <4>2 DEF AuthorIn
      <3>2. /\ Upstream(c, k, n, fed, P, backlog) /\ n.up # <<>> /\ n2.up = Tail(n.up) /\
               c \notin Elems(backlog)
            /\ me \in 1..Len(P) /\ P[me].socket = c /\ P[me].author = None /\
               AuthorIn(c, {Head(n.up)}, Q)
        BY <1>1, <1>4, <1>5, <1>6, <1>11, <2>1, <2>2, <3>1 DEF x, Table
      <3> HIDE DEF P, Q, n2, k, n
      <3>3. Head(n.up) = c
        BY ZenonT(40), <3>2, UpstreamName
      <3> QED BY <3>3 DEF x
    <2>8. NameLeft(c, peers) = 1 /\ NameLeft(c, peers') = 0
      <3>1. NameLeft(c, peers) = 1
        BY <2>6, NameLeftIs
      <3>2. NameLeft(c, peers') = 0
        BY <1>4, <1>5, <2>4, <2>7 DEF NameLeft
      <3> QED BY <3>1, <3>2
    <2>9. Saying(c, k, net'[c], 0, g[c], fed[c])
      <3>1. Saying(c, k, n, 1, g[c], fed[c]) /\ g[c] \in Nat
        BY <1>8, <2>8
      <3> HIDE DEF k, n
      <3> QED BY <1>9, <1>11, <2>2, <3>1, SayingName
    <2>10. ASSUME NEW d \in Clients, d # c PROVE NameLeft(d, peers') = NameLeft(d, peers)
      BY <1>5, <2>4, <2>10 DEF NameLeft
    <2>11. ASSUME NEW d \in Clients PROVE Saying(d, cli[d], net'[d], NameLeft(d, peers'), g[d], fed[d])
      <3>1. CASE d = c
        BY <2>8, <2>9, <3>1
      <3>2. CASE d # c
        BY <1>8, <2>2, <2>10, <3>2
      <3> QED BY <3>1, <3>2
    <2>12. ServerStays(H, g)
      BY <1>3, <1>7, <1>8, <1>11, <2>2, <2>5, <2>11 DEF ServerStays
    <2> QED BY <2>12, ServerStaysMail DEF MailInv
  <1>12. ASSUME n.up # <<>>, net' = [net EXCEPT ![c].up = Tail(@)], Known(c), peers' = peers,
                job' = SendJob("relay", None,
                    Todo([author |-> peers[me].author, text |-> Head(net[c].up)], Recipients(c))),
                UNCHANGED <<started, send, backlog, cli, fed>>
         PROVE  MailInv'
    <2> DEFINE G == [g EXCEPT ![c] = @ + 1]  P == PeersWithout(c)  t == Todo(Line(c, G), P)
    <2>1. /\ \A d \in Clients \ {c} : net'[d] = net[d]
          /\ \A d \in Clients : net'[d].end = net[d].end /\ net'[d].down = net[d].down
          /\ net'[c].up = Tail(n.up)
      BY <1>10, <1>12
    <2>2. peers[me].author # None
      BY <1>12 DEF Known
    <2>3. peers[me].author = c
      <3> DEFINE Q == peers  n2 == net'[c]
      <3>1. /\ Upstream(c, k, n, fed, Q, backlog) /\ n.up # <<>> /\ n2.up = Tail(n.up)
            /\ me \in 1..Len(Q) /\ Q[me].socket = c /\ Q[me].author # None
        BY <1>5, <1>6, <1>12, <2>1, <2>2
      <3> HIDE DEF Q, n2, k, n, me
      <3>2. Q[me].author = c /\ Head(n.up) \in Lines(c, fed) /\ Upstream(c, k, n2, fed, Q, backlog)
        BY <3>1, UpstreamText
      <3> QED BY <3>2 DEF Q
    <2>4. NameLeft(c, peers) = 0
      BY <1>5, <2>2 DEF NameLeft
    <2>5. Head(n.up) = Text(c, g[c] + 1) /\ Saying(c, k, net'[c], 0, g[c] + 1, fed[c])
      <3>1. Saying(c, k, n, 0, g[c], fed[c]) /\ g[c] \in Nat
        BY <1>8, <2>4
      <3> HIDE DEF k, n
      <3> QED BY <1>9, <1>12, <2>1, <3>1, SayingText
    <2>6. OneMore(g, c, G) /\ G[c] = g[c] + 1 /\ \A p \in Parties \ {c} : G[p] = g[p]
      BY <1>4, <1>7 DEF OneMore
    <2> HIDE DEF G
    <2>7. [author |-> peers[me].author, text |-> Head(net[c].up)] = Line(c, G) /\ Recipients(c) = P
      BY <1>4, <2>3, <2>5, <2>6 DEF Line, Recipients
    <2>8. job'.todo = t
      BY <1>12, <2>7, SendJobTodo
    <2>9. P \in Seq(Peer) /\ SocketsOf(P) = SocketsOf(peers) \ {c}
      BY <1>1, <1>4, WithoutIs, WithoutHas
    <2> HIDE DEF P, t
    <2>10. PICK K : Told(K, G) /\ \A d \in Clients : Hears(d, K[d], G, t)
      BY <1>3, <1>4, <1>7, <2>6, <2>9, Broadcast DEF t
    <2>11. ServerSaying(G)'
      <3>1. G[Server] = g[Server]
        BY <1>4, <2>6, NobodyIsNone
      <3> QED BY <1>7, <1>12, <3>1 DEF ServerSaying
    <2>12. ASSUME NEW d \in Clients PROVE Saying(d, cli[d], net'[d], NameLeft(d, peers), G[d], fed[d])
      <3>1. CASE d = c
        BY <2>4, <2>5, <2>6, <3>1
      <3>2. CASE d # c
        <4>1. G[d] = g[d] /\ net'[d] = net[d]
          BY <2>1, <2>6, <3>2, NobodyIsNone
        <4> QED BY <1>8, <4>1
      <3> QED BY <3>1, <3>2
    <2>13. ServerTells(K, G)
      BY <1>12, <2>1, <2>8, <2>10, <2>11, <2>12 DEF ServerTells
    <2> QED BY <1>3, <2>13, ServerTellsMail DEF MailInv
  <1>13. ASSUME n.up = <<>>, n.end # "open"
         PROVE  /\ k.st = "gone"
                /\ \A o, p : Saying(c, k, n, o, g[c], fed[c]) <=> Saying(c, k, n, p, g[c], fed[c])
    <2>1. k.st = "gone" /\ k.todo = <<>>
      BY <1>1, <1>13 DEF ClientInv, ClientOK, CliType
    <2>2. \A i : ~(i \in 1..Len(<<>>))
      OBVIOUS
    <2>3. \A o, p : Texts(k, n, o) = Texts(k, n, p)
      BY <1>13, <2>1 DEF Texts
    <2> HIDE DEF k, n
    <2> QED BY <1>13, <2>1, <2>2, <2>3 DEF Saying
  <1>14. ASSUME n.up = <<>>, n.end # "open", peers' = PeersWithout(c), job' = Idle,
                UNCHANGED <<started, recved, send, backlog, cli, net, fed>>
         PROVE  MailInv'
    <2>1. /\ SocketsOf(peers') = SocketsOf(peers) \ {c}
          /\ \A d : d # c => NameLeft(d, peers') = NameLeft(d, peers)
      BY <1>1, <1>4, <1>14, WithoutHas
    <2>2. ASSUME NEW d \in Clients
          PROVE  /\ net[d].end = "open" /\ d \notin SocketsOf(peers') => H[d] = <<>>
                 /\ cli[d].st = "up" => d \in Elems(backlog) \cup SocketsOf(peers')
                 /\ Saying(d, cli[d], net[d], NameLeft(d, peers'), g[d], fed[d])
      <3>1. CASE d = c
        BY <1>8, <1>13, <1>14, <3>1
      <3>2. CASE d # c
        BY <1>8, <2>1, <3>2
      <3> QED BY <3>1, <3>2
    <2>3. ServerStays(H, g)
      BY <1>3, <1>7, <1>14, <2>2 DEF ServerStays
    <2> QED BY <2>3, ServerStaysMail DEF MailInv
  <1>15. ASSUME n.up = <<>>, n.end = "rst", net' = [net EXCEPT ![c].end = "done"], job' = Idle,
                UNCHANGED <<started, peers, recved, send, backlog, cli, fed>>
         PROVE  MailInv'
    <2>1. \A d \in Clients \ {c} : net'[d] = net[d]
      BY <1>1, <1>15
    <2>2. net'[c].down = n.down /\ net'[c].up = n.up /\ net'[c].end = "done"
      BY <1>1, <1>15 DEF NetType
    <2>3. ASSUME NEW d \in Clients
          PROVE  /\ net'[d].down = net[d].down /\ (net'[d].end = "open" => net[d].end = "open")
                 /\ Saying(d, cli[d], net'[d], NameLeft(d, peers), g[d], fed[d])
      <3>1. CASE d = c
        BY <1>8, <2>2, <3>1, SayingFields
      <3>2. CASE d # c
        BY <1>8, <2>1, <3>2
      <3> QED BY <3>1, <3>2
    <2>4. ServerStays(H, g)
      BY <1>3, <1>7, <1>8, <1>15, <2>3 DEF ServerStays
    <2> QED BY <2>4, ServerStaysMail DEF MailInv
  <1>16. CASE ServerDies
    BY <1>16, GoneMail DEF MailInv
  <1>17. n.end \in {"fin", "done"} => n.end # "open"
    OBVIOUS
  <1> QED BY <1>11, <1>12, <1>14, <1>15, <1>16, <1>17 DEF ServerRecv, chat_server_remove_client

\* The errands x have of those for d what t has.
AsMuch(d, t, x) == /\ \A i \in 1..Len(x) : x[i].to = d => \E j \in 1..Len(t) : t[j] = x[i]
                   /\ Idles(d, x) => Idles(d, t)

\* Such errands are the rest of the same history.
LEMMA RestsAsMuch ==
    ASSUME NEW d, NEW t, NEW x, NEW h, NEW f, Rests(d, t, h, f), AsMuch(d, t, x)
    PROVE  Rests(d, x, h, f)
  BY DEF Rests, AsMuch

\* A frame less, or an errand less.
LEMMA RestIs ==
    ASSUME NEW F, NEW t, Errands(t, F), t # <<>>
    PROVE  /\ \A d : d # t[1].to => AsMuch(d, t, Tail(t)) /\ AsMuch(d, t, Rest(t))
           /\ Len(t[1].frames) = 1 => Idles(t[1].to, Rest(t))
           /\ Len(t[1].frames) # 1
                => /\ ~Idles(t[1].to, Rest(t))
                   /\ \A i \in 1..Len(Rest(t)) :
                          Rest(t)[i].to = t[1].to => Rest(t)[i].frames = Tail(t[1].frames)
  <1> DEFINE r == Tail(t)
  <1>1. /\ Errands(r, F) /\ \A i \in 1..Len(r) : r[i].to # t[1].to
        /\ 1 \in 1..Len(t) /\ t[1] \in Errand /\ Head(t) = t[1]
    BY ErrandsTail
  <1>2. r \in Seq(Errand) /\ t \in Seq(Errand)
    BY <1>1 DEF Errands
  <1>3. /\ Len(t) \in Nat \ {0} /\ Len(r) = Len(t) - 1 /\ Len(r) \in Nat
        /\ \A i \in 1..Len(r) : r[i] = t[i + 1]
    BY <1>2, HeadTailProperties, EmptySeq, LenProperties
  <1> HIDE DEF r
  <1>4. ASSUME NEW d, d # t[1].to PROVE AsMuch(d, t, r)
    <2>1. ASSUME NEW i \in 1..Len(r) PROVE \E j \in 1..Len(t) : t[j] = r[i]
      <3>1. i + 1 \in 1..Len(t)
        BY <1>3
      <3> QED BY <1>3, <3>1
    <2>2. ASSUME Idles(d, r), NEW j \in 1..Len(t) PROVE t[j].to # d
      <3>1. CASE j = 1
        BY <1>4, <3>1
      <3>2. CASE j # 1
        <4>1. j - 1 \in 1..Len(r) /\ (j - 1) + 1 = j
          BY <1>3, <3>2
        <4> QED BY <1>3, <2>2, <4>1 DEF Idles
      <3> QED BY <3>1, <3>2
    <2> QED BY <2>1, <2>2 DEF AsMuch, Idles
  <1>5. CASE Len(t[1].frames) = 1
    <2>1. Rest(t) = <<>> \o r
      BY <1>1, <1>5 DEF Rest, r
    <2>2. Rest(t) = r
      BY <1>2, <2>1, ConcatEmptySeq
    <2>3. Idles(t[1].to, r)
      BY <1>1 DEF Idles
    <2> QED BY <1>4, <1>5, <2>2, <2>3 DEF r
  <1>6. CASE Len(t[1].frames) # 1
    <2> DEFINE e == [t[1] EXCEPT !.frames = Tail(@)]  q == <<e>> \o r
    <2>1. Rest(t) = q
      BY <1>1, <1>6 DEF Rest, r
    <2>2. PICK p, x : t[1].frames = <<p, x>>
      BY <1>1, <1>6 DEF Errands, Whole
    <2>3. e.to = t[1].to /\ e.frames = Tail(t[1].frames) /\ e \in Errand
      <3>0. t[1].frames \in Seq(Frame)
        BY <1>1 DEF Errand
      <3>1. t[1].frames # <<>>
        BY <2>2
      <3>2. Tail(t[1].frames) \in Seq(Frame)
        BY <3>0, <3>1, HeadTailProperties
      <3> QED BY <1>1, <3>2 DEF Errand
    <2> HIDE DEF e
    <2>4. /\ Len(q) = Len(r) + 1 /\ q[1] = e /\ \A i \in 2..(Len(r) + 1) : q[i] = r[i - 1]
      BY <1>2, <2>3, ConsIs
    <2> HIDE DEF q
    <2>5. ASSUME NEW i \in 1..Len(q), i # 1 PROVE i - 1 \in 1..Len(r) /\ q[i] = r[i - 1]
      <3>1. i \in 2..(Len(r) + 1) /\ i - 1 \in 1..Len(r)
        BY <1>3, <2>4, <2>5
      <3> QED BY <2>4, <3>1
    <2>6. 1 \in 1..Len(q)
      BY <1>3, <2>4
    <2>7. ASSUME NEW d, d # t[1].to PROVE AsMuch(d, t, q)
      <3>1. AsMuch(d, t, r)
        BY <1>4, <2>7
      <3>2. ASSUME NEW i \in 1..Len(q), q[i].to = d PROVE \E j \in 1..Len(t) : t[j] = q[i]
        <4>1. i # 1
          BY <2>3, <2>4, <2>7, <3>2
        <4> QED BY <2>5, <3>1, <3>2, <4>1 DEF AsMuch
      <3>3. ASSUME Idles(d, q) PROVE Idles(d, r)
        <4>1. ASSUME NEW i \in 1..Len(r) PROVE r[i].to # d
          <5>1. i + 1 \in 1..Len(q) /\ i + 1 \in 2..(Len(r) + 1) /\ (i + 1) - 1 = i
            BY <1>3, <2>4
          <5> QED BY <2>4, <3>3, <5>1 DEF Idles
        <4> QED BY <4>1 DEF Idles
      <3> QED BY <3>1, <3>2, <3>3 DEF AsMuch
    <2>8. ~Idles(t[1].to, q)
      BY <2>3, <2>4, <2>6 DEF Idles
    <2>9. ASSUME NEW i \in 1..Len(q), q[i].to = t[1].to PROVE q[i].frames = Tail(t[1].frames)
      BY <1>1, <2>3, <2>4, <2>5, <2>9
    <2> QED BY <1>4, <1>6, <2>1, <2>7, <2>8, <2>9 DEF r
  <1> QED BY <1>5, <1>6

\* ServerSend.
LEMMA ServerSendMail ==
    ASSUME ChatInv, NEW H, NEW g, Mail(H, g), ServerSend
    PROVE  Mail(H, g)'
  <1> DEFINE t == job.todo  f == t[1].frames
  <1>1. /\ Connected /\ JobFields(job) /\ Errands(t, fed) /\ DOMAIN net = Clients
        /\ \A d \in Clients : ClientInv(d) /\ CliType(cli[d]) /\ NetType(net[d])
    BY ServerParts
  <1>2. job.at \in {"send", "relay"} /\ t # <<>>
    BY <1>1 DEF ServerSend, JobFields
  <1>3. Up /\ started = "up"
    BY <1>1, <1>2 DEF Connected, Idle, Up
  <1>4. t[1] \in Errand /\ Head(t) = t[1] /\ 1 \in 1..Len(t)
    BY <1>1, <1>2, ErrandsTail
  <1>5. PICK d0 \in Clients : d0 = t[1].to
    BY <1>4 DEF Errand
  <1>6. /\ \A d : d # d0 => AsMuch(d, t, Tail(t)) /\ AsMuch(d, t, Rest(t))
        /\ Len(f) = 1 => Idles(d0, Rest(t))
        /\ Len(f) # 1 => /\ ~Idles(d0, Rest(t))
                         /\ \A i \in 1..Len(Rest(t)) : Rest(t)[i].to = d0 => Rest(t)[i].frames = Tail(f)
    BY <1>1, <1>2, <1>5, RestIs
  <1>7. f \in Seq(Frame) /\ f # <<>>
    <2>1. f \in Seq(Frame)
      BY <1>4 DEF Errand
    <2>2. \A p, x : Len(<<p, x>>) # 0
      OBVIOUS
    <2>3. Len(f) # 0
      BY <1>1, <1>4, <2>2 DEF Errands, Whole
    <2>4. Len(<<>>) = 0
      OBVIOUS
    <2> QED BY <2>1, <2>3, <2>4
  <1>8. Told(H, g) /\ ServerSaying(g)
    BY <1>3 DEF Mail
  <1>9. ASSUME NEW d \in Clients
        PROVE  /\ Follows(cli[d], net[d], H[d]) /\ H[d] \in Seq(Message(d, g))
               /\ net[d].end = "open" => /\ Rests(d, t, H[d], Reach(cli[d], net[d])) /\ Newest(H[d], g)
                                         /\ d \notin SocketsOf(peers) => H[d] = <<>>
               /\ cli[d].st = "up" => d \in Elems(backlog) \cup SocketsOf(peers)
               /\ Saying(d, cli[d], net[d], NameLeft(d, peers), g[d], fed[d])
    BY <1>3, MailOf DEF Listening
  <1> HIDE DEF t, f
  <1>10. ASSUME NEW x, x \in {Rest(t), Tail(t)}, net[d0].end # "open",
                net' = [net EXCEPT ![d0].end = "done"], job' = SendJob(job.at, job.ev, x),
                UNCHANGED <<started, peers, recved, send, backlog, cli, fed>>
         PROVE  Mail(H, g)'
    <2>1. \A d \in Clients \ {d0} : net'[d] = net[d] /\ AsMuch(d, t, x)
      BY <1>1, <1>6, <1>10
    <2>2. net'[d0].down = net[d0].down /\ net'[d0].up = net[d0].up /\ net'[d0].end = "done"
      BY <1>1, <1>5, <1>10 DEF NetType
    <2>3. job'.todo = x
      BY <1>10, SendJobTodo
    <2>4. ASSUME NEW d \in Clients
          PROVE  /\ net'[d].down = net[d].down
                 /\ net'[d].end = "open" =>
                        net[d].end = "open" /\ Rests(d, x, H[d], Reach(cli[d], net[d]))
                 /\ Saying(d, cli[d], net'[d], NameLeft(d, peers), g[d], fed[d])
      <3>1. CASE d = d0
        BY <1>9, <2>2, <3>1, SayingFields
      <3>2. CASE d # d0
        BY <1>9, <2>1, <3>2, RestsAsMuch
      <3> QED BY <3>1, <3>2
    <2>5. ServerStays(H, g)
      BY <1>3, <1>9, <1>10, <2>3, <2>4 DEF ServerStays
    <2> QED BY <2>5, ServerStaysMail
  <1>11. CASE /\ net[d0].end = "open"
              /\ net' = [net EXCEPT ![d0].down = Append(net[d0].down, Head(f))]
              /\ job' = SendJob(job.at, job.ev, Rest(t))
              /\ UNCHANGED <<started, peers, recved, send, backlog, cli, fed>>
    <2> DEFINE k == cli[d0]  n == net[d0]  n2 == net'[d0]  h == H[d0]
               N == 2 * Len(Got(k))  s == Coming(k, n)
    <2>1. \A d \in Clients \ {d0} : net'[d] = net[d]
      BY <1>1, <1>11
    <2>2. n2.down = Append(n.down, Head(f)) /\ n2.up = n.up /\ n2.end = n.end
      BY <1>1, <1>5, <1>11 DEF NetType
    <2>3. /\ n.down \in Seq(Frame) /\ k.auth_name \in Parties \cup {None} /\ Head(f) \in Frame
          /\ Tail(f) \in Seq(Frame) /\ Len(Tail(f)) = Len(f) - 1 /\ Len(f) \in Nat \ {0}
      <3>1. n.down \in Seq(Frame) /\ k.auth_name \in Parties \cup {None}
        BY <1>1, <1>5 DEF NetType, CliType
      <3> QED BY <1>7, <3>1, HeadTailProperties, EmptySeq
    <2> HIDE DEF n2
    <2>4. s \in Seq(Frame) /\ Coming(k, n2) = Append(s, Head(f))
      <3> DEFINE a == k.auth_name  b == n.down  x == Head(f)
      <3>1. a \in Parties \cup {None} /\ b \in Seq(Frame) /\ x \in Frame
        BY <2>3
      <3>2. n2.down = Append(b, x)
        BY <2>2
      <3>3. s = Stream(a, b) /\ Coming(k, n2) = Stream(a, n2.down)
        BY DEF Coming
      <3> HIDE DEF a, b, x, s
      <3>4. Stream(a, b) \in Seq(Frame)
        BY <3>1, StreamIs
      <3>5. Stream(a, Append(b, x)) = Append(Stream(a, b), x)
        BY <3>1, StreamAppend
      <3>6. s \in Seq(Frame) /\ Coming(k, n2) = Append(s, x)
        BY <3>2, <3>3, <3>4, <3>5
      <3> QED BY <3>6 DEF x, s
    <2>5. N \in Nat /\ Len(s) \in Nat /\ Len(h) \in Nat /\ h \in Seq(Message(d0, g))
      <3>1. k.popped \in Seq(Good(d0, fed, k.authors)) /\ k.recved \in Seq(Good(d0, fed, k.authors))
        BY <1>1, <1>5 DEF ClientInv, ClientOK
      <3>2. Len(Got(k)) \in Nat
        BY <3>1, ConcatProperties, LenProperties DEF Got
      <3>3. h \in Seq(Message(d0, g))
        BY <1>5, <1>9
      <3> QED BY <2>4, <3>2, <3>3, LenProperties
    <2>6. /\ Len(Got(k)) <= Len(h) /\ (\A i \in 1..Len(Got(k)) : Got(k)[i] = h[i]) /\ Says(s, h, N)
      BY <1>5, <1>9 DEF Follows
    <2>7. Says(f, h, N + Len(s)) /\ N + Len(s) + Len(f) = 2 * Len(h)
      <3>1. Rests(d0, t, h, Reach(k, n))
        BY <1>5, <1>9, <1>11
      <3>2. Reach(k, n) = N + Len(s)
        BY DEF Reach
      <3> QED BY <1>4, <1>5, <3>1, <3>2 DEF Rests, f
    <2> HIDE DEF s, N, h
    <2>8. /\ Says(Append(s, Head(f)), h, N) /\ Says(Tail(f), h, N + Len(Append(s, Head(f))))
          /\ Len(Append(s, Head(f))) = Len(s) + 1
      BY <1>7, <2>4, <2>5, <2>6, <2>7, SaysSend
    <2>9. Follows(k, n2, h)
      BY <2>4, <2>6, <2>8 DEF Follows, N
    <2>10. Reach(k, n2) = N + Len(Append(s, Head(f))) /\ Reach(k, n2) = N + Len(s) + 1
      <3>1. Reach(k, n2) = N + Len(Append(s, Head(f)))
        BY <2>4 DEF Reach, N
      <3>2. \A a, b \in Nat : a + (b + 1) = a + b + 1
        OBVIOUS
      <3> QED BY <2>5, <2>8, <3>1, <3>2
    <2>11. Rests(d0, Rest(t), h, Reach(k, n2))
      <3>1. CASE Len(f) = 1
        <4>1. Idles(d0, Rest(t)) /\ Reach(k, n2) = 2 * Len(h)
          BY <1>6, <2>7, <2>10, <3>1
        <4> QED BY <4>1 DEF Rests, Idles
      <3>2. CASE Len(f) # 1
        <4>1. Reach(k, n2) + Len(Tail(f)) = 2 * Len(h)
          <5>1. \A a, b, c \in Nat : a + b + 1 + (c - 1) = a + b + c
            OBVIOUS
          <5>2. Len(f) \in Nat /\ Len(Tail(f)) = Len(f) - 1
            BY <2>3
          <5>3. N + Len(s) + 1 + (Len(f) - 1) = N + Len(s) + Len(f)
            BY <2>5, <5>1, <5>2
          <5> QED BY <2>7, <2>10, <5>2, <5>3
        <4>2. Says(Tail(f), h, Reach(k, n2))
          BY <2>8, <2>10
        <4> QED BY <1>6, <3>2, <4>1, <4>2 DEF Rests
      <3> QED BY <3>1, <3>2
    <2>12. job'.todo = Rest(t)
      BY <1>11, SendJobTodo
    <2>13. ASSUME NEW d \in Clients
           PROVE  /\ Follows(cli[d], net'[d], H[d])
                  /\ net'[d].end = "open" => /\ Rests(d, Rest(t), H[d], Reach(cli[d], net'[d]))
                                             /\ Newest(H[d], g)
                                             /\ d \notin SocketsOf(peers) => H[d] = <<>>
                  /\ Saying(d, cli[d], net'[d], NameLeft(d, peers), g[d], fed[d])
      <3>1. CASE d = d0
        BY <1>9, <2>2, <2>9, <2>11, <3>1, SayingFields DEF n2, h
      <3>2. CASE d # d0
        BY <1>6, <1>9, <2>1, <3>2, RestsAsMuch
      <3> QED BY <3>1, <3>2
    <2>14. ServerSaying(g)' /\ (Up' <=> Up)
      BY <1>8, <1>11 DEF ServerSaying, Up
    <2>15. ASSUME NEW d \in Clients
           PROVE  /\ Follows(cli'[d], net'[d], H[d])
                  /\ net'[d].end = "open" => Listening(d, H[d], g)'
                  /\ cli'[d].st = "up" => d \in Elems(backlog') \cup SocketsOf(peers')
                  /\ Saying(d, cli'[d], net'[d], NameLeft(d, peers'), g[d], fed'[d])
      BY <1>9, <1>11, <2>12, <2>13 DEF Listening
    <2> QED BY <1>8, <2>14, <2>15 DEF Mail
  <1>12. CASE ServerDies
    BY <1>12, GoneMail
  <1>13. \/ /\ net[d0].end = "open"
            /\ net' = [net EXCEPT ![d0].down = Append(net[d0].down, Head(f))]
            /\ job' = SendJob(job.at, job.ev, Rest(t))
            /\ UNCHANGED <<started, peers, recved, send, backlog, cli, fed>>
         \/ \E x \in {Rest(t), Tail(t)} :
               /\ net[d0].end # "open" /\ net' = [net EXCEPT ![d0].end = "done"]
               /\ job' = SendJob(job.at, job.ev, x)
               /\ UNCHANGED <<started, peers, recved, send, backlog, cli, fed>>
         \/ ServerDies
    BY <1>4, <1>5 DEF ServerSend, Rest, t, f
  <1> QED BY <1>10, <1>11, <1>12, <1>13

-----------------------------------------------------------------------------
(* The order of the messages.                                              *)

\* Nobody has been told anything yet.
LEMMA MailInit == Init => MailInv
  <1> SUFFICES ASSUME Init PROVE MailInv
    OBVIOUS
  <1>1. /\ started = "new" /\ peers = <<>> /\ send = <<>> /\ job = Idle /\ backlog = <<>>
        /\ fed = [p \in Parties |-> 0]
    BY DEF Init, Parties
  <1> DEFINE H == [c \in Clients |-> <<>>]  g == [p \in Parties |-> 0]
  <1>2. /\ g \in [Parties -> Nat] /\ Len(<<>>) = 0 /\ 1..0 = {}
        /\ Server \in Parties /\ Clients \subseteq Parties
        /\ \A c \in Clients : H[c] = <<>> /\ H[c] \in Seq(Message(c, g))
    BY NobodyIsNone
  <1>3. \A p \in Parties : g[p] = 0 /\ fed[p] = 0
    BY <1>1
  <1>4. Successive(<<>>) /\ Agree(<<>>, <<>>) /\ Newest(<<>>, g)
    BY <1>2 DEF Successive, Agree, Newest
  <1>5. Told(H, g)
    BY <1>2, <1>4 DEF Told
  <1>6. ServerSaying(g)
    <2>1. g[Server] = 0 /\ fed[Server] = 0 /\ 0 + 0 = 0
      BY <1>2, <1>3
    <2> QED BY <1>1, <1>2, <2>1 DEF ServerSaying
  <1>7. ASSUME NEW c \in Clients
        PROVE  /\ Follows(cli[c], net[c], H[c]) /\ Listening(c, H[c], g) /\ cli[c].st # "up"
               /\ Saying(c, cli[c], net[c], NameLeft(c, peers), g[c], fed[c])
    <2>1. /\ cli[c].st = "new" /\ cli[c].send = <<>> /\ cli[c].recved = <<>> /\ cli[c].todo = <<>>
          /\ cli[c].auth_name = None /\ cli[c].popped = <<>> /\ net[c].up = <<>> /\ net[c].down = <<>>
      BY DEF Init, NewClient
    <2>2. Follows(cli[c], net[c], <<>>) /\ Got(cli[c]) = <<>> /\ Coming(cli[c], net[c]) = <<>>
      <3>1. <<>> \in Seq({})
        OBVIOUS
      <3> QED BY <2>1, <3>1, FollowsNothing
    <2>3. Listening(c, <<>>, g)
      <3>1. Reach(cli[c], net[c]) = 2 * Len(<<>>)
        BY <1>2, <2>2 DEF Reach
      <3>2. Rests(c, <<>>, <<>>, Reach(cli[c], net[c]))
        BY <1>2, <3>1 DEF Rests
      <3> QED BY <1>1, <1>4, <3>2 DEF Listening, Idle
    <2>4. Saying(c, cli[c], net[c], NameLeft(c, peers), g[c], fed[c])
      <3>1. g[c] = 0 /\ fed[c] = 0 /\ 0 + 0 + 0 = 0
        BY <1>2, <1>3
      <3>2. Texts(cli[c], net[c], NameLeft(c, peers)) = 0
        BY <2>1 DEF Texts
      <3> QED BY <1>2, <2>1, <3>1, <3>2 DEF Saying
    <2> QED BY <1>2, <2>1, <2>2, <2>3, <2>4
  <1>8. Mail(H, g)
    BY <1>5, <1>6, <1>7 DEF Mail
  <1> QED BY <1>8 DEF MailInv

\* Every step of the server and of the clients keeps the mail.
LEMMA MailNext == ChatInv /\ MailInv /\ [Next]_chatVars => MailInv'
  <1> SUFFICES ASSUME ChatInv, MailInv, [Next]_chatVars PROVE MailInv'
    OBVIOUS
  <1>0. PICK H, g : Mail(H, g)
    BY DEF MailInv
  <1>1. CASE UNCHANGED chatVars
    <2>1. UNCHANGED <<started, peers, send, job, backlog, cli, net, fed>>
      BY <1>1 DEF chatVars
    <2>2. \A d \in Clients : net[d].end = "open" => (Listening(d, H[d], g) => Listening(d, H[d], g)')
      BY <2>1 DEF Listening
    <2>3. (Up' <=> Up) /\ (ServerSaying(g) => ServerSaying(g)')
      BY <2>1 DEF Up, ServerSaying
    <2>4. Mail(H, g)'
      BY <1>0, <2>1, <2>2, <2>3 DEF Mail
    <2> QED BY <2>4 DEF MailInv
  <1>2. ASSUME NEW ev \in Clients \cup {Server, None}, chat_server_update(ev) PROVE MailInv'
    BY <1>0, <1>2, UpdateMail
  <1>3. CASE ServerSend
    BY <1>0, <1>3, ServerSendMail DEF MailInv
  <1>4. CASE Accept
    BY <1>0, <1>4, AcceptMail DEF MailInv
  <1>5. ASSUME NEW c \in Clients, ServerRecv(c) PROVE MailInv'
    BY <1>0, <1>5, ServerRecvMail
  <1>6. CASE chat_server_listen \/ chat_server_pop_next
    BY <1>0, <1>6, ListenMail DEF MailInv
  <1>7. CASE chat_server_delete
    BY <1>0, <1>7, GoneMail DEF MailInv
  <1>8. CASE chat_server_feed
    BY <1>0, <1>8, ServerFeedMail DEF MailInv
  <1>9. ASSUME NEW c \in Clients, chat_client_update(c) PROVE MailInv'
    BY <1>0, <1>9, ClientUpdateMail DEF MailInv
  <1>10. ASSUME NEW c \in Clients, ClientSend(c) PROVE MailInv'
    BY <1>0, <1>10, ClientSendMail DEF MailInv
  <1>11. ASSUME NEW c \in Clients, ClientRecv(c) PROVE MailInv'
    BY <1>0, <1>11, ClientRecvMail DEF MailInv
  <1>12. ASSUME NEW c \in Clients, chat_client_pop_next(c) PROVE MailInv'
    BY <1>0, <1>12, PopMail DEF MailInv
  <1>13. ASSUME NEW c \in Clients, chat_client_connect(c) PROVE MailInv'
    BY <1>0, <1>13, ConnectMail DEF MailInv
  <1>14. ASSUME NEW c \in Clients, chat_client_feed(c) PROVE MailInv'
    BY <1>0, <1>14, ClientFeedMail DEF MailInv
  <1>15. ASSUME NEW c \in Clients, ClientLeaves(c) PROVE MailInv'
    BY <1>0, <1>15, LeaveMail DEF MailInv
  <1> QED BY <1>1, <1>2, <1>3, <1>4, <1>5, <1>6, <1>7, <1>8, <1>9, <1>10, <1>11, <1>12, <1>13,
          <1>14, <1>15
          DEF Next, ServerStep, ClientStep

\* The beginning of a list is as orderly as the list.
Begins(s, h) == Len(s) \in Nat /\ Len(h) \in Nat /\ Len(s) <= Len(h) /\ \A i \in 1..Len(s) : s[i] = h[i]

\* The beginning of a history in order is in order, and agrees where the whole does.
LEMMA BeginsIs ==
    ASSUME NEW s, NEW h, Begins(s, h)
    PROVE  /\ Successive(h) => Successive(s)
           /\ \A t, k : Begins(t, k) /\ Agree(h, k) => Agree(s, t)
  <1>1. /\ \A i \in 1..Len(s) : i \in 1..Len(h) /\ s[i] = h[i] /\ Len(s) \in Nat
    BY DEF Begins
  <1>2. ASSUME Successive(h) PROVE Successive(s)
    <2> SUFFICES ASSUME NEW i \in 1..Len(s), NEW j \in 1..Len(s), i < j, s[i].author = s[j].author,
                        \A k \in (i + 1)..(j - 1) : s[k].author # s[i].author
                 PROVE  s[j].text = Text(s[i].author, s[i].text[2] + 1)
      BY DEF Successive
    <2>1. ASSUME NEW k \in (i + 1)..(j - 1) PROVE h[k].author # h[i].author
      <3>1. k \in 1..Len(s)
        BY <1>1
      <3> QED BY <1>1, <3>1
    <2> QED BY <1>1, <1>2, <2>1 DEF Successive
  <1>3. ASSUME NEW t, NEW k, Begins(t, k), Agree(h, k) PROVE Agree(s, t)
    <2>1. /\ \A i \in 1..Len(t) : i \in 1..Len(k) /\ t[i] = k[i]
      BY <1>3 DEF Begins
    <2> QED BY <1>1, <1>3, <2>1 DEF Agree
  <1> QED BY <1>2, <1>3

\* What a client has received is the beginning of what it was told.
LEMMA ReceivedBegins ==
    ASSUME ChatInv, NEW H, NEW g, Mail(H, g), NEW c \in Clients
    PROVE  Begins(Received(c), H[c])
  <1>1. Follows(cli[c], net[c], H[c]) /\ H[c] \in Seq(Message(c, g))
    BY MailOf
  <1>2. Received(c) = Got(cli[c])
    BY DEF Received, Got
  <1>3. /\ cli[c].popped \in Seq(Good(c, fed, cli[c].authors))
        /\ cli[c].recved \in Seq(Good(c, fed, cli[c].authors))
    BY Client DEF ClientInv, ClientOK
  <1>4. Received(c) \in Seq(Good(c, fed, cli[c].authors))
    BY <1>3, ConcatProperties DEF Received
  <1>5. Len(Received(c)) \in Nat /\ Len(H[c]) \in Nat
    BY <1>1, <1>4, LenProperties
  <1> QED BY <1>1, <1>2, <1>5 DEF Begins, Follows

\* The mail is in order in every state of the chat: what the server has told and
\* taken explains every queue and connection (chat_server_update, chat_client_update).
THEOREM MailInvariant == Spec => []MailInv
  BY ChatInvariant, ChatInit, ChatNext, MailInit, MailNext, PTL DEF Spec

\* What a client receives from one author are consecutive lines of this author, in
\* their order, whoever leaves or dies in between (chat_server_update's relay,
\* chat_client_update).
THEOREM LinesInOrder == Spec => []InOrderOnce
  <1>1. ASSUME ChatInv, MailInv PROVE InOrderOnce
    <2>1. PICK H, g : Mail(H, g)
      BY <1>1 DEF MailInv
    <2>2. ASSUME NEW c \in Clients PROVE Successive(Received(c))
      <3>1. Begins(Received(c), H[c]) /\ Successive(H[c])
        BY <1>1, <2>1, ReceivedBegins DEF Mail, Told
      <3> QED BY <3>1, BeginsIs
    <2> QED BY <2>2 DEF InOrderOnce
  <1> QED BY <1>1, ChatInvariant, MailInvariant, PTL

\* Any two clients agree on the order of the messages that both have received, the
\* server's own included (chat_server_update).
THEOREM SameForAll == Spec => []SameOrder
  <1>1. ASSUME ChatInv, MailInv PROVE SameOrder
    <2>1. PICK H, g : Mail(H, g)
      BY <1>1 DEF MailInv
    <2>2. ASSUME NEW c \in Clients, NEW d \in Clients PROVE Agree(Received(c), Received(d))
      <3>1. Begins(Received(c), H[c]) /\ Begins(Received(d), H[d]) /\ Agree(H[c], H[d])
        BY <1>1, <2>1, ReceivedBegins DEF Mail, Told
      <3> QED BY <3>1, BeginsIs
    <2> QED BY <2>2 DEF SameOrder
  <1> QED BY <1>1, ChatInvariant, MailInvariant, PTL
=============================================================================
