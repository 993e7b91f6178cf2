------------------------------ MODULE ChatWire ------------------------------
(***************************************************************************)
(* The way of a line through one connection of the chat, byte by byte:     *)
(* feed cuts what the application types into texts (chat_client.c:245-297, *)
(* the same in chat_server.c:296-348), chat_message_send writes a text     *)
(* with its length in front, in as many parts as the socket takes, and     *)
(* chat_message_recv puts it together again (chat.c:28-172).               *)
(*                                                                         *)
(* Who sends to whom, authors and connections that end are in Chat, where  *)
(* one frame is one value.                                                 *)
(***************************************************************************)
EXTENDS Integers, Sequences, FiniteSets, SequencesExt

CONSTANTS
    Letters, Space, NewLine,   \* the characters
    Pieces,                    \* what one call of feed passes
    MaxFed,                    \* bound: characters fed in all
    SIZE_T,                    \* 2 ^ 64: size_t is counted modulo this
    BYTE, SIZE_LEN,            \* 256 values of a byte, 4 bytes of a length
    CallerFits,                \* callers finish a line in the space they have
    SafeLengths                \* no byte of a length has its highest bit set

ASSUME FeedAssumption == /\ Pieces \subseteq Seq(Letters \cup {Space, NewLine})
                         /\ MaxFed \in Nat /\ SIZE_T \in Nat /\ SIZE_T > 2 * MaxFed
                         /\ CallerFits \in BOOLEAN
ASSUME SizeAssumption == /\ BYTE \in Nat \ {0, 1} /\ BYTE % 2 = 0
                         /\ SIZE_LEN \in Nat \ {0} /\ MaxFed < BYTE ^ SIZE_LEN
                         /\ SafeLengths \in BOOLEAN

VARIABLES
    buff,       \* msg_buff.buff[0 .. msg_buff.pos - 1]
    room,       \* how many bytes buff points at
    send,       \* every text added to the queue of messages to send
    fed,        \* every character fed
    taken,      \* how many texts of send were popped from the queue
    out,        \* what is left to send of the one in progress
    stream,     \* bytes in the socket
    in,         \* what chat_message_recv has of the message in progress
    arrived,    \* the texts it returned
    status      \* "ok", or how the program went wrong
wireVars == <<buff, room, send, fed, taken, out, stream, in, arrived, status>>

Init == /\ buff = <<>> /\ room = 0 /\ send = <<>> /\ fed = <<>>
        /\ taken = 0 /\ out = <<>> /\ stream = <<>> /\ in = <<>> /\ arrived = <<>>
        /\ status = "ok"

-----------------------------------------------------------------------------
(* From characters to texts.                                               *)

\* msg_buff.size, which no statement changes after chat_client_new.
size == 0

\* Mutant: one byte too few is asked for.
NewRoom_off_by_one(pos, msg_size) ==
    IF (size - pos) % SIZE_T < msg_size THEN pos + msg_size - 1 ELSE room

\* A bigger buffer when the unsigned difference says so: with pos > 0 it never does.
NewRoom(pos, msg_size) ==
    IF (size - pos) % SIZE_T < msg_size THEN pos + msg_size ELSE room

\* chat_message_remove_spacing: s_pos runs up to the first character that is no
\* space, e_pos down from the end, not below s_pos.
Trim(s) ==
    LET s_pos == Min({i \in 0..Len(s) : i = Len(s) \/ s[i + 1] # Space})
        e_pos == Max({i \in s_pos..Len(s) : i = s_pos \/ s[i] # Space})
    IN  SubSeq(s, s_pos + 1, e_pos)

\* One round of the loop: a character is stored, a line end makes a message of
\* what is there unless nothing but spaces is.
FeedChar(acc, ch) ==
    LET late == acc.overrun \/ Len(acc.buff) >= acc.room
    IN  IF ch # NewLine
        THEN [acc EXCEPT !.buff = Append(@, ch), !.overrun = late]
        ELSE [acc EXCEPT !.buff = <<>>, !.overrun = late,
                         !.send = IF Trim(acc.buff) = <<>> THEN @ ELSE Append(@, Trim(acc.buff))]

\* The bytes of a length, the lowest first (send_sizes).
SizeBytes(n) == [i \in 1..SIZE_LEN |-> (n \div BYTE ^ (i - 1)) % BYTE]

Safe(text) == \A i \in 1..SIZE_LEN : SizeBytes(Len(text))[i] < BYTE \div 2

chat_client_feed(msg) ==
    /\ status = "ok"
    /\ Len(fed) + Len(msg) <= MaxFed
    /\ CallerFits /\ buff # <<>> => Len(buff) + Len(msg) <= room
    /\ LET after == FoldLeft(FeedChar,
                             [buff |-> buff, room |-> NewRoom(Len(buff), Len(msg)),
                              send |-> send, overrun |-> FALSE], msg)
       IN  /\ SafeLengths => \A i \in 1..Len(after.send) : Safe(after.send[i])
           /\ buff' = after.buff /\ room' = after.room /\ send' = after.send
           /\ status' = IF after.overrun THEN "overrun" ELSE "ok"
    /\ fed' = fed \o msg
    /\ UNCHANGED <<taken, out, stream, in, arrived>>

-----------------------------------------------------------------------------
(* From texts to bytes and back.                                           *)

\* Mutant: the last message of the queue counts as none.
StartSend_not_last ==
    /\ status = "ok" /\ out = <<>> /\ taken + 1 < Len(send)
    /\ taken' = taken + 1
    /\ out' = SizeBytes(Len(send[taken + 1])) \o send[taken + 1]
    /\ UNCHANGED <<buff, room, send, fed, stream, in, arrived, status>>

\* chat_message_send: the next message of the queue, its length first.
StartSend ==
    /\ status = "ok" /\ out = <<>> /\ taken < Len(send)
    /\ taken' = taken + 1
    /\ out' = SizeBytes(Len(send[taken + 1])) \o send[taken + 1]
    /\ UNCHANGED <<buff, room, send, fed, stream, in, arrived, status>>

\* Mutant: what send() did not take is forgotten.
Unsent_forgets(bytes, n) == <<>>

\* The loops of send_sizes and send_data go on behind what was taken.
Unsent(bytes, n) == SubSeq(bytes, n + 1, Len(bytes))

\* send() takes some of the bytes.
SendPart == \E n \in 1..Len(out) :
    /\ status = "ok"
    /\ stream' = stream \o SubSeq(out, 1, n)
    /\ out' = Unsent(out, n)
    /\ UNCHANGED <<buff, room, send, fed, taken, in, arrived, status>>

\* A byte read back as a char, which is signed.
SignedChar(b) == IF b < BYTE \div 2 THEN b ELSE b - BYTE

\* Lines 152-156: the highest byte first.
DecodeSize(bytes) == FoldRight(LAMBDA b, n : n * BYTE + SignedChar(b), bytes, 0)

\* How many bytes chat_message_recv waits for: the length, then the text.
Wanted(bytes) ==
    IF Len(bytes) < SIZE_LEN THEN SIZE_LEN
    ELSE SIZE_LEN + DecodeSize(SubSeq(bytes, 1, SIZE_LEN))

\* recv() returns some of the bytes there are, not more than are waited for.  A
\* negative length is malloc'ed and written to: the program crashes.
RecvPart == \E n \in 1..Len(stream) :
    LET bytes == in \o SubSeq(stream, 1, n)
        whole == Len(bytes) > SIZE_LEN /\ Len(bytes) = Wanted(bytes)
    IN  /\ status = "ok"
        /\ Len(bytes) <= Wanted(in)
        /\ stream' = SubSeq(stream, n + 1, Len(stream))
        /\ in' = IF whole THEN <<>> ELSE bytes
        /\ arrived' = IF whole THEN Append(arrived, SubSeq(bytes, SIZE_LEN + 1, Len(bytes)))
                      ELSE arrived
        /\ status' = IF Wanted(bytes) < SIZE_LEN THEN "crashed" ELSE "ok"
        /\ UNCHANGED <<buff, room, send, fed, taken, out>>

Next == (\E msg \in Pieces : chat_client_feed(msg)) \/ StartSend \/ SendPart \/ RecvPart

\* Both sides call update as long as there is something to send or to receive.
Spec == Init /\ [][Next]_wireVars /\ WF_wireVars(StartSend \/ SendPart) /\ WF_wireVars(RecvPart)

-----------------------------------------------------------------------------
LineEnds == {i \in 1..Len(fed) : fed[i] = NewLine}

\* The k-th line of everything fed, without the spaces around it.
Line(k) ==
    LET end   == CHOOSE i \in LineEnds : Cardinality({j \in LineEnds : j <= i}) = k
        start == Max({0} \cup {j \in LineEnds : j < end})
        text  == {i \in (start + 1)..(end - 1) : fed[i] # Space}
    IN  IF text = {} THEN <<>> ELSE SubSeq(fed, Min(text), Max(text))

\* "If there is no '\n' in the end, then data must be accumulated" (5/test.c:303):
\* there is room for what is accumulated.  The code keeps this only for callers that
\* finish a line in the space the feed that began it has made (CallerFits): size
\* stays 0 and the test of line 250 makes no more room.
Accumulates == status # "overrun"

\* For such callers it does not matter how the input is cut into calls of feed
\* (5/task_eng.txt:29-44): the messages are the lines of the whole, trimmed, without
\* the empty ones, and what follows the last line end is kept.
CutsDoNotMatter ==
    /\ Accumulates
    /\ status = "ok" =>
        /\ send = SelectSeq([k \in 1..Cardinality(LineEnds) |-> Line(k)], LAMBDA t : t # <<>>)
        /\ buff = SubSeq(fed, Max({0} \cup LineEnds) + 1, Len(fed))

\* "send(100) can return 60" (task_eng.txt:68): in whatever parts the bytes
\* travel, the texts that arrive are the texts sent, in their order.  The code keeps
\* this only while no byte of a length has its highest bit set (SafeLengths): chat.c:155
\* reads the bytes back as char.
Intact == status # "crashed" /\ IsPrefix(arrived, send)

\* And all of them arrive.
AllArrive == \A n \in 1..MaxFed : Len(send) >= n ~> Len(arrived) >= n \/ status # "ok"
=============================================================================
