------------------------------ MODULE Connection ------------------------------
(***************************************************************************)
(* One connection, from the accepted socket on: web_server_handle_client   *)
(* reads the request line and the headers, answers an upgrade with the     *)
(* response of ws_create and then runs the event loop, which reads frames  *)
(* (ws_read_frame) and writes answers, while other players' threads write  *)
(* to the same socket.                                                     *)
(*                                                                         *)
(* A byte is <<kind, position>> of the line or frame it belongs to.  In a  *)
(* line a byte stands for a piece of text, a name, a colon or a value, and *)
(* the last two for '\r' and '\n'; other lines may hold the same texts, so *)
(* that a part of one reads as another.  A frame has two bytes of header,  *)
(* one for an extended length if it has that, one that stands for the      *)
(* masking key, and data.                                                  *)
(***************************************************************************)
EXTENDS LineReader, Wire

CONSTANTS
    Size,         \* Size[kind]: the bytes of a line or frame
    Text,         \* Text[byte]: what a byte of a line says, "CR" for '\r'
    Requests,     \* what clients ask: sequences of kinds of lines
    Frames,       \* the frames they send afterwards
    Extended,     \* those of 126 bytes of data or more, with a length of two bytes
    Answers,      \* ws_write calls of an answer or broadcast: see ends of Wire
    Session,      \* the writer that runs the loop
    Handshake,    \* the three calls of ws_create
    MaxBroadcasts,\* bound: frames of each other writer
    MaxCuts       \* bound: deliveries of part of what is under way

Says(kind) == [n \in 1 .. Size[kind] |-> Text[<<kind, n>>]]
SaysHeader(kind, name) == Says(kind)[1] = name /\ Says(kind)[2] = ":"

(* A header line begins with its name.  "Upgrade" is the one that asks for  *)
(* a websocket, another one of that name asks for something else.           *)
IsHeader(kind) ==
    /\ Says(kind)[1] # ":"
    /\ kind = "Upgrade" => Says(kind) = <<"Upgrade", ":", "websocket", "CR", "LF">>
    /\ kind # "Upgrade" /\ SaysHeader(kind, "Upgrade") => Says(kind)[3] \notin {"websocket", "CR"}
    /\ SaysHeader(kind, "Key") <=> kind = "Key"

(* Two lines at least, of which the first is no header and only the last is *)
(* empty; each ends in '\r' and '\n'.  At most one header is an Upgrade.    *)
IsRequest(asks) ==
    /\ Len(asks) >= 2 /\ asks[1] \notin {"Upgrade", "Key"}
    /\ \A k \in DOMAIN asks : Size[asks[k]] = 2 <=> k = Len(asks)
    /\ \A k \in DOMAIN asks : \A n \in 1 .. Size[asks[k]] :
          /\ <<asks[k], n>> \in Newlines <=> n = Size[asks[k]]
          /\ Text[<<asks[k], n>>] = "CR" <=> n = Size[asks[k]] - 1
    /\ \A k \in 2 .. Len(asks) : IsHeader(asks[k])
    /\ \A j, k \in 2 .. Len(asks) :
          SaysHeader(asks[j], "Upgrade") /\ SaysHeader(asks[k], "Upgrade") => j = k

ASSUME ConnectionAssumption ==
    /\ Session \in Writers /\ IsCalls(Handshake) /\ \A ends \in Answers : IsCalls(ends)
    /\ Size \in [DOMAIN Size -> Nat \ {0, 1}] /\ Requests \subseteq Seq(DOMAIN Size)
    /\ \A asks \in Requests : IsRequest(asks)
    /\ Frames \in Seq(DOMAIN Size)
    /\ \A k \in DOMAIN Frames : Size[Frames[k]] >= IF Frames[k] \in Extended THEN 4 ELSE 3
    /\ \A kind \in DOMAIN Size : \A k \in 1 .. Size[kind] : <<kind, k>> \in Bytes
    /\ MaxCuts \in Nat

VARIABLES
    request,      \* what this client asks
    coming, inbox,\* bytes under way, and arrived but not read
    cuts,         \* deliveries of a part so far
    asked,        \* frames sent so far
    pc, up,       \* where the handler is; the process runs
    buf, lines,   \* the reader's buffer; the lines it has returned
    want, body,   \* the ws_read calls still to make for a frame; bytes they got
    packets,      \* the packets read
    cut           \* history: a read has found part of what was sent

readVars == <<request, asked, buf, lines>>
frameVars == <<want, body, packets>>
vars == <<readVars, frameVars, coming, cuts, inbox, pc, up, cut, wireVars>>

BytesOf(kind) == [k \in 1 .. Size[kind] |-> <<kind, k>>]

(* The bytes of the first n of kinds.                                       *)
UpTo(kinds) ==
    LET upTo[n \in 0 .. Len(kinds)] ==
            IF n = 0 THEN <<>> ELSE upTo[n - 1] \o BytesOf(kinds[n])
    IN  upTo

AllBytes(kinds) == UpTo(kinds)[Len(kinds)]

Init ==
    /\ request \in Requests /\ coming = AllBytes(request) /\ inbox = <<>> /\ cuts = 0 /\ asked = 0
    /\ pc = "route" /\ up = TRUE
    /\ buf = EmptyBuffer /\ lines = <<>> /\ want = <<>> /\ body = <<>> /\ packets = <<>>
    /\ cut = FALSE
    /\ WireInit

Lesser(a, b) == IF a < b THEN a ELSE b
First(n) == SubSeq(inbox, 1, n)
From(n) == SubSeq(inbox, n + 1, Len(inbox))

(* The network delivers some of the bytes, at any time.                     *)
Arrive ==
    /\ coming # <<>>
    /\ \E n \in 1 .. Len(coming) :
          /\ n < Len(coming) => cuts < MaxCuts
          /\ cuts' = IF n < Len(coming) THEN cuts + 1 ELSE cuts
          /\ inbox' = inbox \o SubSeq(coming, 1, n)
          /\ coming' = SubSeq(coming, n + 1, Len(coming))
    /\ UNCHANGED <<readVars, frameVars, pc, up, cut, wireVars>>

----------------------------------------------------------------------------

(* br_read into b from start, of all that has arrived and has room.         *)
Take(start, b) ==
    LET n == Lesser(Room(start), Len(inbox))
    IN  /\ buf' = br_read(b, start, inbox, n)
        /\ inbox' = From(n)
        /\ cut' = (cut \/ (n > 0 /\ coming # <<>>) \/ n < Len(inbox))

Reading == up /\ pc \in {"route", "headers"}

(* br_read_line with nothing in the buffer polls the socket; only the round *)
(* that finds something is a step.                                          *)
Fill ==
    /\ Reading /\ LineEnd(buf, 0) /\ inbox # <<>>
    /\ Take(0, buf)
    /\ UNCHANGED <<request, asked, lines, frameVars, coming, cuts, pc, up, wireVars>>

(* Mutant: the end of the headers is looked for in the wrong byte.          *)
Newline(byte) == byte \in Newlines

CR(byte) == Text[byte] = "CR"

(* A line, or what has arrived of it; web_server_get_route takes the first, *)
(* header_list_parse_headers the others up to one that starts with '\r'.    *)
ReadLine ==
    /\ Reading
    /\ \E i \in 1 .. N - 2 :
          /\ LineEnd(buf, i)
          /\ Take(N - i - 2, Shift(buf, i))
          /\ lines' = Append(lines, Line(buf, i))
    /\ pc' = IF pc = "headers" /\ CR(buf[0]) THEN "decide" ELSE "headers"
    /\ UNCHANGED <<request, asked, frameVars, coming, cuts, up, wireVars>>

(* A line that fills the buffer: memmove is asked for -1 bytes.             *)
TooLong ==
    /\ Reading /\ LineEnd(buf, N - 1)
    /\ up' = FALSE
    /\ UNCHANGED <<readVars, frameVars, coming, cuts, inbox, pc, cut, wireVars>>

(* The name that sscanf finds is what is before the colon, or all of a line *)
(* without one; of a line that begins with the colon it is what malloc      *)
(* returned.                                                                *)
Names(line, name) == Text[line[1]] = name /\ (Len(line) = 1 \/ Text[line[2]] = ":")
Named(name) == {k \in 2 .. Len(lines) : Names(lines[k], name)}
Nameless == {k \in 2 .. Len(lines) : Text[lines[k][1]] = ":"}

(* header_list_get_header returns the first header of that name, or one     *)
(* before it that has got that name by chance.                              *)
Found(name) == {k \in Named(name) \cup Nameless : \A l \in Named(name) : k <= l}

Blank(byte) == CR(byte) \/ byte \in Newlines

(* A value ends at white space.  Without one, or without a name, it is what *)
(* malloc returned, and the comparison may go either way.                   *)
Valueless(k) == k \in Nameless \/ \A n \in 3 .. Len(lines[k]) : Blank(lines[k][n])

(* Mutant: the sense of strcmp is lost.                                     *)
OtherValue(line) == Len(line) >= 3 /\ Text[line[3]] # "websocket"

RightValue(line) ==
    /\ Len(line) >= 3 /\ Text[line[3]] = "websocket"
    /\ \A n \in 4 .. Lesser(4, Len(line)) : Blank(line[n])

MayUpgrade == \E k \in Found("Upgrade") : Valueless(k) \/ RightValue(lines[k])

MayClose ==
    \/ Named("Upgrade") = {}
    \/ \E k \in Found("Upgrade") : Valueless(k) \/ ~RightValue(lines[k])

(* ws_create answers with a hash of the key without looking whether there   *)
(* is one.  Reader and headers are not looked at again.                     *)
Upgrade ==
    /\ up /\ pc = "decide" /\ MayUpgrade
    /\ \/ /\ Found("Key") # {}
          /\ pc' = "answer" /\ buf' = EmptyBuffer /\ lines' = <<>>
          /\ ws_write_frame(Session, Handshake)
          /\ UNCHANGED up
       \/ Named("Key") = {} /\ up' = FALSE /\ UNCHANGED <<pc, buf, lines, wireVars>>
    /\ UNCHANGED <<request, asked, frameVars, coming, cuts, inbox, cut>>

(* Anything else is closed without an answer.                               *)
Close ==
    /\ up /\ pc = "decide" /\ MayClose
    /\ pc' = "closed"
    /\ UNCHANGED <<readVars, frameVars, coming, cuts, inbox, up, cut, wireVars>>

----------------------------------------------------------------------------

(* A client sends a frame when it has seen the end of the handshake.        *)
SendFrame ==
    /\ asked < Len(Frames) /\ begun
    /\ asked' = asked + 1
    /\ coming' = coming \o BytesOf(Frames[asked + 1])
    /\ UNCHANGED <<request, buf, lines, frameVars, cuts, inbox, pc, up, cut, wireVars>>

FrameKinds == {Frames[k] : k \in DOMAIN Frames}

HeaderSize(f) == IF f \in Extended THEN 3 ELSE 2

(* Mutant: the key is taken for data.                                       *)
KeyForgotten(f) == <<Size[f] - HeaderSize(f) - 1>>

(* The calls that follow the header and length of a frame: the key, the     *)
(* data.                                                                    *)
Rest(f) == <<1, Size[f] - HeaderSize(f) - 1>>

(* packet_read returns null, and the loop goes on with it.                  *)
Refused == up' = FALSE /\ UNCHANGED <<pc, want>>

(* What has been read for a length is anything.                             *)
Missized == want' \in {<<1>>, <<2>>, <<1, 2>>} /\ pc' = "frame" /\ UNCHANGED up

(* ws_read of the two bytes that begin a frame.  Of one byte the length is  *)
(* zero; two that are no header may be of a frame that is refused, for its  *)
(* opcode or its size.                                                      *)
ReadHeader ==
    /\ up /\ pc = "poll" /\ inbox # <<>>
    /\ LET n == Lesser(2, Len(inbox))
           f == inbox[1][1]
       IN  /\ inbox' = From(n) /\ body' = First(n)
           /\ IF f \in FrameKinds /\ First(n) = <<<<f, 1>>, <<f, 2>>>>
              THEN /\ IF f \in Extended THEN pc' = "length" /\ UNCHANGED want
                                        ELSE pc' = "frame" /\ want' = Rest(f)
                   /\ UNCHANGED <<up, cut>>
              ELSE cut' = TRUE /\ (Refused \/ (n = 2 /\ Missized))
    /\ UNCHANGED <<readVars, packets, coming, cuts, wireVars>>

(* ws_read of the extended length; if it has not arrived, short_len is what *)
(* was on the stack.                                                        *)
ReadLength ==
    /\ up /\ pc = "length"
    /\ LET n == Lesser(1, Len(inbox))
       IN  /\ inbox' = From(n) /\ body' = body \o First(n)
           /\ IF n = 1 THEN pc' = "frame" /\ want' = Rest(body[1][1]) /\ UNCHANGED <<up, cut>>
                       ELSE cut' = TRUE /\ Missized
    /\ UNCHANGED <<readVars, packets, coming, cuts, wireVars>>

(* ws_read takes what is there.                                             *)
ReadPart ==
    /\ up /\ pc = "frame" /\ want # <<>>
    /\ LET n == Lesser(Head(want), Len(inbox))
       IN  /\ inbox' = From(n) /\ body' = body \o First(n)
           /\ cut' = (cut \/ n < Head(want))
    /\ want' = Tail(want)
    /\ UNCHANGED <<readVars, packets, coming, cuts, pc, up, wireVars>>

(* The packet is whole, or made of what was in memory.                      *)
Dispatch ==
    /\ up /\ pc = "frame" /\ want = <<>>
    /\ LET f == body[1][1]
       IN  packets' = Append(packets, IF body = BytesOf(f) THEN f ELSE "garbled")
    /\ body' = <<>>
    /\ \/ pc' = "poll" /\ UNCHANGED wireVars
       \/ pc' = "answer" /\ \E ends \in Answers : ws_write_frame(Session, ends)
    /\ UNCHANGED <<readVars, want, coming, cuts, inbox, up, cut>>

Answered ==
    /\ up /\ pc = "answer" /\ ~Writing(Session)
    /\ pc' = "poll"
    /\ UNCHANGED <<readVars, frameVars, coming, cuts, inbox, up, cut, wireVars>>

(* Another player's thread, once this one has logged in.                    *)
Broadcast(w) ==
    /\ up /\ packets # <<>> /\ frame[w] < MaxBroadcasts
    /\ \E ends \in Answers : ws_write_frame(w, ends)
    /\ UNCHANGED <<readVars, frameVars, coming, cuts, inbox, pc, up, cut>>

WriteStep(w) ==
    /\ up /\ (Write(w) \/ WriteReturns(w))
    /\ UNCHANGED <<readVars, frameVars, coming, cuts, inbox, pc, up, cut>>

ClientReads == Drain /\ UNCHANGED <<readVars, frameVars, coming, cuts, inbox, pc, up, cut>>

Handle ==
    \/ Fill \/ ReadLine \/ TooLong \/ Upgrade \/ Close
    \/ ReadHeader \/ ReadLength \/ ReadPart \/ Dispatch \/ Answered

Next ==
    \/ Arrive \/ SendFrame \/ ClientReads
    \/ Handle
    \/ \E w \in Writers : WriteStep(w)
    \/ \E w \in Writers \ {Session} : Broadcast(w)

(* TCP delivers; a thread that can go on does.  A client need not read.     *)
Fairness == WF_vars(Arrive) /\ WF_vars(Handle) /\ \A w \in Writers : WF_vars(WriteStep(w))

Spec == Init /\ [][Next]_vars /\ Fairness

----------------------------------------------------------------------------

TypeOK ==
    /\ WireTypeOK
    /\ request \in Requests /\ asked \in 0 .. Len(Frames)
    /\ pc \in {"route", "headers", "decide", "closed", "answer", "poll", "length", "frame"}
    /\ up \in BOOLEAN
    /\ buf \in Buffers /\ buf[N - 1] = NUL
    /\ \A k \in DOMAIN lines : lines[k] \in Seq(Bytes) /\ lines[k] # <<>>
    /\ cuts \in 0 .. MaxCuts /\ cut \in BOOLEAN

(* A request that has arrived before the reader looks, and fits the buffer, *)
(* is read as the lines it consists of, although the shifts of the buffer   *)
(* leave old bytes behind.                                                  *)
WholeIsExact ==
    ~cut => /\ Len(lines) <= Len(request)
            /\ \A k \in DOMAIN lines : lines[k] = BytesOf(request[k])

(* "found a complete line", says the reader where it returns one.           *)
LinesComplete == \A k \in DOMAIN lines : lines[k][Len(lines[k])] \in Newlines

Asks(kind) == \E k \in DOMAIN request : request[k] = kind

(* Such a request is upgraded if one of its headers asks for a websocket    *)
(* and another gives a key, and closed if none asks; what other lines say,  *)
(* the URL included, does not count.                                        *)
AnswerRight ==
    ~cut =>
        /\ pc \in {"answer", "poll", "length", "frame"} => Asks("Upgrade") /\ Asks("Key")
        /\ pc = "closed" => ~Asks("Upgrade")
        /\ ~up => Asks("Upgrade") /\ ~Asks("Key")

(* As long as no read has found part of a frame, the packets are those the  *)
(* client sent, in order, whatever was under way when.                      *)
PacketsExact ==
    ~cut => Len(packets) <= asked /\ packets = SubSeq(Frames, 1, Len(packets))

(* A request that is not cut is decided.                                    *)
HandshakeEnds == (pc = "route") ~> (pc \in {"closed", "answer"} \/ ~up \/ cut)

(* A client that does not read never holds a thread that writes to it.      *)
WriteEnds == \A w \in Writers : Writing(w) ~> (~Writing(w) \/ ~up)

=============================================================================
