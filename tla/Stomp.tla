-------------------------------- MODULE Stomp --------------------------------
(***************************************************************************)
(* The STOMP client library over APR sockets (agent/stomp/stomp.c) at work  *)
(* in its program ex6.c: CONNECT, read the answer, SUB, SEND, read a frame, *)
(* DISCONNECT.  The program has one thread; it is either in stomp_write or  *)
(* in stomp_read, and any result but APR_SUCCESS ends it.                   *)
(*                                                                          *)
(* The socket carries symbols: a command, a header line and a content       *)
(* length are one symbol each, NUL, NL and the bytes of a body too.         *)
(* apr_socket_send takes a part of what it is given, apr_socket_recv        *)
(* returns what has arrived.  The broker is external: it sends well-formed  *)
(* frames, in pieces of any size, and may close or reset the connection.    *)
(***************************************************************************)
EXTENDS Integers, SequencesExt

CONSTANTS Replies,     \* the frames the broker may send
          MaxReplies   \* how many it sends

VARIABLES step,     \* the operation of main that the client is at
          at,       \* where in the operation it is
          why,      \* the result the program died of
          out,      \* buffers of stomp_write that are not sent yet
          up,       \* what the broker has been sent
          replied,  \* history: the frames the broker has begun to send
          pending,  \* their symbols still to be sent
          down,     \* symbols sent to the client and not received
          closed,   \* has the broker closed or reset the connection?
          line,     \* stomp_read_line: the line so far
          cur,      \* stomp_read: the frame so far
          got       \* the frames stomp_read has returned

client == <<step, at, why>>
reading == <<line, cur, got>>
broker == <<replied, pending, closed>>
vars == <<client, out, up, down, reading, broker>>

NUL == [kind |-> "nul"]
NL == [kind |-> "nl"]
Text(s) == [kind |-> "text", s |-> s]
Header(s) == [kind |-> "header", s |-> s]
ContentLength(n) == [kind |-> "length", n |-> n]
HasColon(symbol) == symbol.kind \in {"header", "length"}

\* What a body may be made of; a stretch of it may read like a header.
IsByte(b) == b \in {NUL, NL} \/ b.kind \in {"text", "header"} \/ (b.kind = "length" /\ b.n \in Nat)
-----------------------------------------------------------------------------
(* Frames: table is FALSE for a NULL headers pointer, body is empty for a NULL   *)
(* one.                                                                          *)

StrLen(s) == IF \E k \in DOMAIN s : s[k] = NUL
             THEN (CHOOSE k \in DOMAIN s : s[k] = NUL /\ \A j \in 1..k - 1 : s[j] # NUL) - 1
             ELSE Len(s)

\* The body as stomp_write sends it.
Written(f) == SubSeq(f.body, 1, IF f.body_length < 0 THEN StrLen(f.body) ELSE f.body_length)

HasLength(f) == f.table /\ f.body_length >= 0

\* A body without a length ends at its first NUL; with one it may hold anything.
ASSUME RepliesAreFrames ==
    \A f \in Replies :
        /\ f.command = Text(f.command.s)
        /\ f.table \in BOOLEAN
        /\ f.headers \in Seq({h \in ToSet(f.headers) : h.kind = "header"})
        /\ f.body \in Seq({b \in ToSet(f.body) : IsByte(b)})
        /\ f.body_length \in -1..Len(f.body)
        /\ ~HasLength(f) => \A k \in DOMAIN Written(f) : f.body[k] # NUL

\* A body that a short recv can make end too early: it holds what ends a frame.
HoldsEnd(f) == /\ HasLength(f)
               /\ \E k \in 2..Len(Written(f)) - 1 : <<f.body[k], f.body[k + 1]>> = <<NUL, NL>>

\* The lines before the empty one.
HeadLines(f) == <<f.command>> \o (IF f.table THEN f.headers ELSE <<>>)
                \o (IF HasLength(f) THEN <<ContentLength(f.body_length)>> ELSE <<>>)

\* The buffers stomp_write hands to stomp_write_buffer; it sends nothing for an
\* empty one.
Buffers(f) ==
    FlattenSeq([i \in DOMAIN HeadLines(f) |-> <<<<HeadLines(f)[i]>>, <<NL>>>>])
    \o <<<<NL>>>> \o (IF Written(f) = <<>> THEN <<>> ELSE <<Written(f)>>) \o <<<<NUL, NL>>>>

Symbols(f) == FlattenSeq(Buffers(f))

\* What a frame is to the one who reads it.
Content(f) == [command |-> <<Text(f.command.s)>>, body |-> Written(f)]

Plain(cmd, headers, body) == [command |-> Text(cmd), table |-> TRUE, headers |-> headers,
                              body |-> body, body_length |-> -1]

\* ex6.c
CONNECT == Plain("CONNECT", <<Header("login"), Header("passcode")>>, <<>>)
SUB == Plain("SUB", <<Header("destination")>>, <<>>)
SEND == Plain("SEND", <<Header("destination")>>, <<Text("This is the"), Text(" message")>>)
DISCONNECT == [Plain("DISCONNECT", <<>>, <<>>) EXCEPT !.table = FALSE]

Write(f) == [op |-> "write", frame |-> f]
Read == [op |-> "read"]
Disconnect == [op |-> "disconnect"]

main == <<Write(CONNECT), Read, Write(SUB), Write(SEND), Read, Write(DISCONNECT), Disconnect>>

\* What symbols there are.
Letters(f) == {f.command, NUL, NL, ContentLength(f.body_length)}
                \cup ToSet(f.headers) \cup ToSet(f.body)
Alphabet == UNION {Letters(f) : f \in Replies \cup {CONNECT, SUB, SEND, DISCONNECT}}
-----------------------------------------------------------------------------
NoFrame == [command |-> <<>>, len |-> -1, body |-> <<>>]
Reading == {"command", "header", "length", "tail", "body"}
Over == {"done", "dead"}

TypeOK == /\ step \in DOMAIN main
          /\ at \in {"connect", "call", "write", "endline"} \cup Reading \cup Over
          /\ why \in {"", "connect", "send", "recv", "general"}
          /\ (why = "") = (at # "dead")
          /\ closed \in BOOLEAN
          /\ (out # <<>>) = (at = "write")
          /\ line # <<>> => at \in {"command", "header"}
          /\ at \notin Reading \cup {"endline"} => cur = NoFrame
          /\ {up, pending, down, line} \subseteq Seq(Alphabet)
          /\ replied \in Seq(Replies)
          /\ got \in Seq([command : Seq(Alphabet), body : Seq(Alphabet)])
          /\ cur \in [command : Seq(Alphabet), len : Int, body : Seq(Alphabet)]
          /\ at \in {"command", "header", "length"} => cur.body = <<>>
          /\ at = "tail" => Len(cur.body) <= cur.len

Init == /\ step = 1 /\ at = "connect" /\ why = ""
        /\ out = <<>> /\ up = <<>>
        /\ replied = <<>> /\ pending = <<>> /\ down = <<>> /\ closed = FALSE
        /\ line = <<>> /\ cur = NoFrame /\ got = <<>>

Dies(reason) == /\ at' = "dead"
                /\ why' = reason
                /\ line' = <<>>
                /\ cur' = NoFrame
                /\ out' = <<>>
                /\ UNCHANGED <<step, up, got, broker>>

\* stomp_connect; the timeout of the socket is not set.
Connect == /\ at = "connect"
           /\ \/ /\ at' = "call"
                 /\ UNCHANGED <<step, why, out, up, down, reading, broker>>
              \/ /\ Dies("connect")
                 /\ UNCHANGED down
-----------------------------------------------------------------------------
(* stomp_write *)

WriteBegins == /\ at = "call"
               /\ main[step].op = "write"
               /\ at' = "write"
               /\ out' = Buffers(main[step].frame)
               /\ UNCHANGED <<step, why, up, down, reading, broker>>

\* Mutant: a short send does not advance in the buffer.
SendAgain(k) == LET b == Head(out) IN
    /\ at = "write"
    /\ up' = up \o SubSeq(b, 1, k)
    /\ out' = IF k < Len(b) THEN out ELSE Tail(out)
    /\ IF out' = <<>> THEN at' = "call" /\ step' = step + 1 ELSE UNCHANGED <<step, at>>
    /\ UNCHANGED <<why, down, reading, broker>>

\* stomp_write_buffer: apr_socket_send takes k symbols of the buffer.
Send(k) == LET b == Head(out) IN
    /\ at = "write"
    /\ up' = up \o SubSeq(b, 1, k)
    /\ out' = IF k < Len(b) THEN <<SubSeq(b, k + 1, Len(b))>> \o Tail(out) ELSE Tail(out)
    /\ IF out' = <<>> THEN at' = "call" /\ step' = step + 1 ELSE UNCHANGED <<step, at>>
    /\ UNCHANGED <<why, down, reading, broker>>

\* The connection is gone; the rest of the frame is not written.
SendFails == /\ at = "write"
             /\ closed
             /\ Dies("send")
             /\ UNCHANGED down
-----------------------------------------------------------------------------
(* stomp_read *)

ReadBegins == /\ at = "call"
              /\ main[step] = Read
              /\ at' = "command"
              /\ UNCHANGED <<step, why, out, up, down, reading, broker>>

Least(m, n) == IF m < n THEN m ELSE n
Received(n) == SubSeq(down, 1, Least(n, Len(down)))

\* apr_socket_recv of up to n symbols: it blocks while there is none.
Recv(n) == /\ down # <<>>
           /\ down' = SubSeq(down, Least(n, Len(down)) + 1, Len(down))

Goto(a, l, c) == /\ at' = a
                 /\ line' = l
                 /\ cur' = c
                 /\ UNCHANGED <<step, why, out, up, got, broker>>

Returns(c) == /\ got' = Append(got, [command |-> c.command, body |-> c.body])
              /\ at' = "call"
              /\ step' = step + 1
              /\ line' = <<>>
              /\ cur' = NoFrame
              /\ UNCHANGED <<why, out, up, broker>>

\* stomp_read_line: a byte of the line; a NUL before its end is an error.
LineByte == /\ at \in {"command", "header"}
            /\ Recv(1)
            /\ Head(down) # NL
            /\ IF Head(down) = NUL THEN Dies("general")
               ELSE Goto(at, Append(line, Head(down)), cur)

CommandRead == /\ at = "command"
               /\ Recv(1)
               /\ Head(down) = NL
               /\ Goto("header", <<>>, [cur EXCEPT !.command = line])

\* A header; a second content-length would replace the first.
HeaderRead == /\ at = "header"
              /\ line # <<>>
              /\ Recv(1)
              /\ Head(down) = NL
              /\ IF \E k \in DOMAIN line : HasColon(line[k])
                 THEN Goto("header", <<>>,
                           [cur EXCEPT !.len = IF line[1].kind = "length" THEN line[1].n ELSE @])
                 ELSE Dies("general")

HeadersRead == /\ at = "header"
               /\ line = <<>>
               /\ Recv(1)
               /\ Head(down) = NL
               /\ Goto(IF cur.len >= 0 THEN "length" ELSE "body", <<>>, cur)

\* Mutant: more is asked for than the buffer holds.
LengthReadOver == /\ at = "length"
                  /\ Recv(cur.len + 1)
                  /\ Goto("tail", <<>>, [cur EXCEPT !.body = Received(cur.len + 1)])

\* One recv of as many bytes as the content length says, which may return fewer.
\* apr_socket_recv of 0 bytes returns at once: success, or the APR_EOF that it
\* takes a count of 0 for.
LengthRead == /\ at = "length"
              /\ \/ /\ cur.len > 0
                    /\ Recv(cur.len)
                    /\ Goto("tail", <<>>, [cur EXCEPT !.body = Received(cur.len)])
                 \/ /\ cur.len = 0
                    /\ Goto("tail", <<>>, cur) \/ Dies("recv")
                    /\ UNCHANGED down

\* Mutant: the end of the frame is not looked at.
TailUnread == /\ at = "tail"
              /\ Recv(2)
              /\ Returns(cur)

\* The two bytes after the body: a short read, or anything but NUL NL, is an error.
TailRead == /\ at = "tail"
            /\ Recv(2)
            /\ IF Received(2) = <<NUL, NL>> THEN Returns(cur) ELSE Dies("general")

\* stomp_read_buffer: a byte of the body, which a NUL ends.
BodyByte == /\ at = "body"
            /\ Recv(1)
            /\ IF Head(down) = NUL THEN Goto("endline", <<>>, cur)
               ELSE Goto("body", <<>>, [cur EXCEPT !.body = Append(@, Head(down))])

EndlineRead == /\ at = "endline"
               /\ Recv(1)
               /\ IF Head(down) = NL THEN Returns(cur) ELSE Dies("general")

\* Mutant: the recv does not wait.
EndlineAnytime == /\ at = "endline"
                  /\ down = <<>>
                  /\ Returns(cur) \/ Dies("general")
                  /\ UNCHANGED down

\* The result of that recv is not looked at: at the end of the stream the byte
\* compared is not initialized.
EndlineAtEof == /\ at = "endline"
                /\ closed
                /\ down = <<>>
                /\ Returns(cur) \/ Dies("general")
                /\ UNCHANGED down

\* Mutant: without a byte the loops of stomp_read_line and stomp_read_buffer go on.
RecvSpins == /\ at \in Reading
             /\ closed
             /\ down = <<>>
             /\ UNCHANGED vars

\* Everywhere else the end of the stream, or its reset, is an error.
RecvFails == /\ at \in Reading
             /\ closed
             /\ down = <<>>
             /\ ~(at = "length" /\ cur.len = 0)
             /\ Dies("recv")
             /\ UNCHANGED down

\* stomp_disconnect and the end of main; what is left unread is gone.  The result of
\* the shutdown is lost, that of the close is returned.
Disconnects == /\ at = "call"
               /\ main[step] = Disconnect
               /\ \/ /\ at' = "done"
                     /\ UNCHANGED <<step, why, out, up, reading, broker>>
                  \/ Dies("general")
               /\ UNCHANGED down
-----------------------------------------------------------------------------
(* The broker. *)

Reply(f) == /\ Len(replied) < MaxReplies
            /\ ~closed
            /\ replied' = Append(replied, f)
            /\ pending' = pending \o Symbols(f)
            /\ UNCHANGED <<client, out, up, down, reading, closed>>

\* The next k symbols arrive.
Arrive(k) == /\ ~closed
             /\ down' = down \o SubSeq(pending, 1, k)
             /\ pending' = SubSeq(pending, k + 1, Len(pending))
             /\ UNCHANGED <<client, out, up, reading, replied, closed>>

\* It closes, in the middle of a frame or not; a reset takes along what the client
\* has not received.
Close == /\ ~closed
         /\ closed' = TRUE
         /\ pending' = <<>>
         /\ down' \in {down, <<>>}
         /\ UNCHANGED <<client, out, up, reading, replied>>
-----------------------------------------------------------------------------
Library == \/ Connect
           \/ WriteBegins \/ SendFails
           \/ at = "write" /\ \E k \in DOMAIN Head(out) : Send(k)
           \/ ReadBegins \/ LineByte \/ CommandRead \/ HeaderRead \/ HeadersRead
           \/ LengthRead \/ TailRead \/ BodyByte \/ EndlineRead \/ EndlineAtEof
           \/ RecvFails \/ Disconnects

\* The program is over; nobody reads what the broker sends.
Terminated == at \in Over /\ UNCHANGED vars

Arrival == \E k \in DOMAIN pending : Arrive(k)

Next == \/ Library
        \/ at \notin Over \cup {"connect"} /\ (Arrival \/ Close \/ \E f \in Replies : Reply(f))
        \/ Terminated

Spec == Init /\ [][Next]_vars

\* The client is scheduled, and what the broker sends arrives.
FairSpec == Spec /\ WF_vars(Library) /\ WF_vars(Arrival)
-----------------------------------------------------------------------------
(* Properties. *)

\* However the sends are cut, the broker is sent the frames of main in their order,
\* each byte once, and all of a frame before stomp_write returns; a failed send
\* leaves the beginning of one (stomp.c:104-119, 285-348).
Stream(n) == FlattenSeq([i \in 1..n |-> IF main[i].op = "write"
                                        THEN Symbols(main[i].frame) ELSE <<>>])
WrittenWhole == /\ IsPrefix(up, Stream(step))
                /\ at \notin Over \cup {"write"} => up = Stream(step - 1)
                /\ at = "done" => up = Stream(step)

\* What stomp_read has made of the frames so far, and the one it is at, no short recv can
\* have cut.
Clear == \A i \in DOMAIN replied : i <= Len(got) + 1 => ~HoldsEnd(replied[i])
Misread == \E i \in DOMAIN replied : i <= Len(got) /\ HoldsEnd(replied[i])

\* The frames stomp_read returns are those the broker sent, in order and whole, nothing
\* of one ends up in the next, however they are cut into pieces -- up to the first whose
\* body holds, under a content length, a NUL and a line feed: that one may come back
\* short, and nothing is certain of what follows (stomp.c:350-439).
Channel == INSTANCE FrameChannel
             WITH Frames <- {Content(f) : f \in Replies},
                  Ambiguous <- {Content(f) : f \in {g \in Replies : HoldsEnd(g)}},
                  sent <- [i \in DOMAIN replied |-> Content(replied[i])],
                  got <- got
ChannelSpec == Channel!Spec

\* The functions on APR sockets are to "read/write their buffers fully" (stomp.c:98-103):
\* every frame is returned whole.  The one recv of a body is not such a function.
ReturnsWhole == \A i \in DOMAIN got : i \in DOMAIN replied /\ got[i] = Content(replied[i])

\* A frame without a content length is never refused while the connection lives,
\* however it is cut into pieces, unless the reader has lost its place in an earlier
\* frame; one with a content length may be, when its body or its end comes in two
\* (stomp.c:418, 422; 98-103).
PlainIsNeverRefused ==
    at = "dead" /\ why = "general" /\ main[step] = Read =>
        closed \/ Misread \/ HasLength(replied[Len(got) + 1])

\* Without a timeout ex6 waits for a broker that is silent; but once there is an
\* answer for each of its reads, or the connection is gone, it ends: no frame, whole or
\* cut, keeps stomp_read waiting (stomp.c:65-67, 146-178, 223-256; ex6.c:70-113).  The
\* rest of a body that was cut might, where it reads like a content length.
SessionEnds == (Len(replied) = MaxReplies \/ closed) ~> at \in Over \/ Misread
-----------------------------------------------------------------------------
(* The inductive invariant behind the safety properties. *)

\* stomp_write: the buffers left complete what main has written.
Writes == /\ out \in Seq(Seq(Alphabet) \ {<<>>})
          /\ at = "write" => main[step].op = "write" /\ up \o FlattenSeq(out) = Stream(step)
          /\ at \in Reading \cup {"endline"} => main[step] = Read
          /\ at = "done" => main[step] = Disconnect

\* stomp_read has returned the first frames as they are.
Returned == /\ got \in Seq({Content(f) : f \in Replies})
            /\ Len(got) <= Len(replied)
            /\ \A i \in 1..Len(got) : got[i] = Content(replied[i])

\* All that the broker has begun to send, and what comes before frame n + 1 of it.
Said(n) == FlattenSeq([i \in 1..n |-> Symbols(replied[i])])

\* The next symbol to be received is the one after the first P of these.
Fed(P) == LET S == Said(Len(replied)) IN
    /\ down \in Seq(Alphabet)
    /\ P + Len(down) <= Len(S)
    /\ down = SubSeq(S, P + 1, P + Len(down))
    /\ ~closed => pending = SubSeq(S, P + Len(down) + 1, Len(S))

\* stomp_read has come to place p of frame f.
ReadOf(f, c, len, n) == c = [command |-> <<f.command>>, len |-> len, body |-> SubSeq(Written(f), 1, n)]
LengthAfter(f, k) == IF HasLength(f) /\ k = Len(HeadLines(f)) THEN f.body_length ELSE -1
AtPlace(f, p) == LET h == Len(HeadLines(f)) IN
    \/ /\ at = "command" /\ cur = NoFrame
       /\ \/ p = 0 /\ line = <<>>
          \/ p = 1 /\ line = <<f.command>>
    \/ /\ at = "header"
       /\ \E k \in 1..h :
             /\ \/ p = 2 * k /\ line = <<>>
                \/ p = 2 * k + 1 /\ k < h /\ line = <<HeadLines(f)[k + 1]>>
             /\ ReadOf(f, cur, LengthAfter(f, k), 0)
    \/ /\ at = "length" /\ HasLength(f)
       /\ p = 2 * h + 1 /\ ReadOf(f, cur, f.body_length, 0)
    \/ /\ at = "tail" /\ HasLength(f)
       /\ \E n \in 0..Len(Written(f)) : /\ n = 0 => Written(f) = <<>>
                                       /\ p = 2 * h + 1 + n /\ ReadOf(f, cur, f.body_length, n)
    \/ /\ at = "body" /\ ~HasLength(f)
       /\ \E n \in 0..Len(Written(f)) : p = 2 * h + 1 + n /\ ReadOf(f, cur, -1, n)
    \/ /\ at = "endline" /\ ~HasLength(f)
       /\ p = 2 * h + 2 + Len(Written(f)) /\ ReadOf(f, cur, -1, Len(Written(f)))
Between == at \in {"connect", "call", "write", "command"} /\ line = <<>> /\ cur = NoFrame

InStep == at \notin Over =>
    \/ Between /\ Fed(Len(Said(Len(got))))
    \/ /\ Len(got) < Len(replied)
       /\ LET f == replied[Len(got) + 1]
          IN  \E p \in 1..Len(Symbols(f)) : AtPlace(f, p) /\ Fed(Len(Said(Len(got))) + p)

\* What holds wherever the reader is, and what of its place as long as no frame can have
\* been cut.
Base == TypeOK /\ WrittenWhole /\ Writes
Follows == Returned /\ InStep /\ PlainIsNeverRefused

IInv == /\ Base
        /\ Clear => Follows
        /\ PlainIsNeverRefused
=============================================================================
