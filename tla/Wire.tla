--------------------------------- MODULE Wire ---------------------------------
(***************************************************************************)
(* Writing frames to one client (networking/web-socket.c): ws_write_frame  *)
(* makes one ws_write after the other, for the header, an extended length  *)
(* and the data; ws_write loops over write() on a non-blocking socket and  *)
(* gives up when its buffer is full.  The session's own thread and those   *)
(* of the other players on the map (map_send_packet) write to the same     *)
(* socket, without a lock.                                                 *)
(***************************************************************************)
EXTENDS Naturals, Sequences

CONSTANTS
    Writers,    \* threads that write to this client
    Cap         \* bytes the socket buffer holds

ASSUME WireAssumption == Cap \in Nat

(* A frame as the calls of ws_write it takes: ends[k] is the last byte that *)
(* the k-th of them writes.                                                 *)
IsCalls(ends) ==
    /\ ends \in Seq(Nat) /\ ends # <<>>
    /\ \A k \in DOMAIN ends : ends[k] > 0
    /\ \A j, k \in DOMAIN ends : j <= k => ends[j] <= ends[k]

VARIABLES
    todo,       \* todo[w]: the last byte of each ws_write call w has still to make
    pos,        \* the next byte of w's frame
    frame,      \* frames w has begun
    out,        \* bytes in the socket buffer
    last, begun,\* the last byte the client got; it has got the end of a frame
    broken,     \* history: it has got a byte that does not go on from the last
    overlap,    \* history: two threads have been in ws_write_frame at once
    short       \* history: a ws_write has given up

clientVars == <<last, begun, broken>>
wireVars == <<todo, pos, frame, out, clientVars, overlap, short>>

(* Before the first byte: as after the end of a frame.                      *)
None == [writer |-> "", frame |-> 0, pos |-> 0, final |-> TRUE]

WireInit ==
    /\ todo = [w \in Writers |-> <<>>] /\ pos = [w \in Writers |-> 1]
    /\ frame = [w \in Writers |-> 0]
    /\ out = <<>> /\ overlap = FALSE /\ short = FALSE
    /\ last = None /\ begun = FALSE /\ broken = FALSE

Writing(w) == todo[w] # <<>>
Free == Cap - Len(out)

(* Bytes a to b of w's frame; the last of a frame is marked.                *)
Piece(w, a, b) ==
    [k \in 1 .. b + 1 - a |->
        [writer |-> w, frame |-> frame[w], pos |-> a + k - 1,
         final |-> a + k - 1 = todo[w][Len(todo[w])]]]

(* Mutant: the call for the header is forgotten.                            *)
NoHeader(w, ends) ==
    /\ ~Writing(w)
    /\ todo' = [todo EXCEPT ![w] = Tail(ends)]
    /\ pos' = [pos EXCEPT ![w] = ends[1] + 1]
    /\ frame' = [frame EXCEPT ![w] = @ + 1]
    /\ overlap' = (overlap \/ \E v \in Writers \ {w} : Writing(v))
    /\ UNCHANGED <<out, clientVars, short>>

(* ws_write_frame is entered, to make a call for each of ends.              *)
ws_write_frame(w, ends) ==
    /\ ~Writing(w)
    /\ todo' = [todo EXCEPT ![w] = ends]
    /\ pos' = [pos EXCEPT ![w] = 1]
    /\ frame' = [frame EXCEPT ![w] = @ + 1]
    /\ overlap' = (overlap \/ \E v \in Writers \ {w} : Writing(v))
    /\ UNCHANGED <<out, clientVars, short>>

(* write() takes what there is room for.                                    *)
Write(w) ==
    /\ Writing(w) /\ pos[w] <= Head(todo[w]) /\ Free > 0
    /\ LET left == Head(todo[w]) + 1 - pos[w]
           n == IF Free < left THEN Free ELSE left
       IN  /\ out' = out \o Piece(w, pos[w], pos[w] + n - 1)
           /\ pos' = [pos EXCEPT ![w] = @ + n]
    /\ UNCHANGED <<todo, frame, clientVars, overlap, short>>

(* Mutant: ws_write waits for room.                                         *)
AllWritten(w) == pos[w] > Head(todo[w])

(* write() returns 0 for nothing left, -1 for no room: ws_write returns.    *)
Ended(w) == pos[w] > Head(todo[w]) \/ Free = 0

WriteReturns(w) ==
    /\ Writing(w) /\ Ended(w)
    /\ short' = (short \/ pos[w] <= Head(todo[w]))
    /\ pos' = [pos EXCEPT ![w] = Head(todo[w]) + 1]
    /\ todo' = [todo EXCEPT ![w] = Tail(@)]
    /\ UNCHANGED <<frame, out, clientVars, overlap>>

(* A frame begins where another has ended; within a frame byte follows byte.*)
Follows(a, b) ==
    IF b.pos = 1 THEN a.final
    ELSE a = [writer |-> b.writer, frame |-> b.frame, pos |-> b.pos - 1, final |-> FALSE]

(* The client reads.                                                        *)
Drain ==
    /\ out # <<>>
    /\ out' = Tail(out) /\ last' = Head(out)
    /\ begun' = (begun \/ Head(out).final)
    /\ broken' = (broken \/ ~Follows(last, Head(out)))
    /\ UNCHANGED <<todo, pos, frame, overlap, short>>

Byte == [writer : Writers, frame : Nat, pos : Nat, final : BOOLEAN]

WireTypeOK ==
    /\ todo \in [Writers -> Seq(Nat)] /\ pos \in [Writers -> Nat] /\ frame \in [Writers -> Nat]
    /\ out \in Seq(Byte) /\ Len(out) <= Cap /\ last \in Byte \cup {None}
    /\ begun \in BOOLEAN /\ broken \in BOOLEAN /\ overlap \in BOOLEAN /\ short \in BOOLEAN

(* The client gets whole frames, one after the other, until two threads     *)
(* have written at once or a write was cut short.                           *)
FramesWhole == ~overlap /\ ~short => ~broken

=============================================================================
