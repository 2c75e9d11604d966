--------------------------- MODULE ConnectionProofs ---------------------------
(* What Wire and Connection promise: that frames are not torn, what the     *)
(* line reader returns, how the request is answered and what the frame      *)
(* reader makes of the stream, for every buffer size, every request, every  *)
(* sequence of frames and every number of threads.                          *)
EXTENDS Connection, SequenceTheorems, WellFoundedInduction, TLAPS

----------------------------------------------------------------------------

(* The wire.  The byte the client will have got when it has read all there  *)
(* is.                                                                      *)
LastOut == IF out = <<>> THEN last ELSE out[Len(out)]

FrameEnd(w) == todo[w][Len(todo[w])]

(* What is under way can be read as frames.                                 *)
Chained ==
    \A i \in 1 .. Len(out) : Follows(IF i = 1 THEN last ELSE out[i - 1], out[i])

OneWrites == \A v, w \in Writers : Writing(v) /\ Writing(w) => v = w

CallsLeft ==
    \A w \in Writers : Writing(w) =>
        IsCalls(todo[w]) /\ pos[w] >= 1 /\ pos[w] <= Head(todo[w]) + 1

(* The last byte is the one before the writer's next.                       *)
WriterFollows ==
    /\ (\A w \in Writers : ~Writing(w)) => LastOut.final
    /\ \A w \in Writers : Writing(w) =>
          IF pos[w] = 1 THEN LastOut.final
          ELSE LastOut = [writer |-> w, frame |-> frame[w], pos |-> pos[w] - 1,
                          final |-> pos[w] - 1 = FrameEnd(w)]

WireInv ==
    /\ WireTypeOK
    /\ CallsLeft
    /\ ~overlap /\ ~short => ~broken /\ Chained /\ OneWrites /\ WriterFollows

WireStep ==
    \/ \E w \in Writers, ends \in Answers \cup {Handshake} : ws_write_frame(w, ends)
    \/ \E w \in Writers : Write(w) \/ WriteReturns(w)
    \/ Drain

LEMMA WireStarts == WireInit => WireInv
<1> SUFFICES ASSUME WireInit PROVE WireInv
  OBVIOUS
<1>1. out = <<>> /\ Len(out) = 0 /\ last = None /\ last.final /\ \A w \in Writers : ~Writing(w)
  BY DEF WireInit, None, Writing
<1>2. WireTypeOK
  <2>1. <<>> \in Seq(Nat) /\ <<>> \in Seq(Byte)
    OBVIOUS
  <2>2. Len(out) <= Cap
    BY <1>1, WireAssumption
  <2>. QED BY <1>1, <2>1, <2>2 DEF WireInit, WireTypeOK
<1>3. Chained /\ LastOut.final
  BY <1>1 DEF Chained, LastOut
<1>. QED BY <1>1, <1>2, <1>3 DEF WireInit, WireInv, CallsLeft, OneWrites, WriterFollows

(* A byte follows the one before it in its frame, if that is not the last.  *)
LEMMA NextFollows ==
  ASSUME NEW w, NEW f, NEW p \in Int, NEW fin
  PROVE  Follows([writer |-> w, frame |-> f, pos |-> p - 1, final |-> FALSE],
                 [writer |-> w, frame |-> f, pos |-> p, final |-> fin]) \/ p = 1
  BY DEF Follows

LEMMA FrameBegins ==
  ASSUME WireInv, NEW w \in Writers, NEW ends \in Answers \cup {Handshake}, ws_write_frame(w, ends)
  PROVE  WireInv'
<1>1. IsCalls(ends)
  BY ConnectionAssumption
<1>2. WireTypeOK'
  BY <1>1 DEF WireInv, WireTypeOK, ws_write_frame, clientVars, IsCalls
<1>3. CallsLeft'
  <2> SUFFICES ASSUME NEW v \in Writers, Writing(v)'
               PROVE  (IsCalls(todo[v]) /\ pos[v] >= 1 /\ pos[v] <= Head(todo[v]) + 1)'
    BY DEF CallsLeft
  <2>1. CASE v = w
    BY <1>1, <2>1 DEF WireInv, WireTypeOK, ws_write_frame, IsCalls
  <2>2. CASE v # w
    BY <2>2 DEF WireInv, WireTypeOK, ws_write_frame, CallsLeft, Writing, IsCalls
  <2>. QED BY <2>1, <2>2
<1>4. ASSUME ~overlap', ~short' PROVE (~broken /\ Chained /\ OneWrites /\ WriterFollows)'
  <2>1. ~overlap /\ ~short /\ \A v \in Writers : ~Writing(v)
    BY <1>4 DEF ws_write_frame, WireInv, WireTypeOK
  <2>2. LastOut.final /\ ~broken /\ Chained
    BY <2>1 DEF WireInv, WriterFollows
  <2>3. LastOut' = LastOut /\ broken' = broken /\ (Chained <=> Chained')
    BY DEF LastOut, Chained, Follows, ws_write_frame, clientVars
  <2>4. \A v \in Writers : Writing(v)' => v = w /\ pos'[v] = 1
    BY <2>1 DEF ws_write_frame, Writing, WireInv, WireTypeOK
  <2>. QED BY <2>2, <2>3, <2>4 DEF OneWrites, WriterFollows
<1>. QED BY <1>2, <1>3, <1>4 DEF WireInv

LEMMA WriteGoesOn ==
  ASSUME WireInv, NEW w \in Writers, Write(w)
  PROVE  WireInv'
<1> DEFINE h == Head(todo[w])
           e == FrameEnd(w)
<1>1. /\ h \in Nat /\ e \in Nat /\ h <= e /\ pos[w] \in Nat /\ pos[w] >= 1 /\ pos[w] <= h
      /\ Len(out) \in Nat /\ Cap \in Nat /\ Free \in Int /\ Free > 0
  <2>1. IsCalls(todo[w]) /\ pos[w] >= 1 /\ pos[w] <= h /\ Free > 0
    BY DEF WireInv, CallsLeft, Write
  <2>2. /\ todo[w] \in Seq(Nat) /\ todo[w] # <<>> /\ Len(todo[w]) \in Nat /\ Len(todo[w]) >= 1
        /\ h = todo[w][1]
    BY <2>1 DEF IsCalls
  <2>3. h \in Nat /\ e \in Nat /\ h <= e
    BY <2>1, <2>2 DEF IsCalls, FrameEnd
  <2>4. out \in Seq(Byte) /\ pos[w] \in Nat
    BY DEF WireInv, WireTypeOK
  <2>5. Len(out) \in Nat
    BY <2>4
  <2>6. Free \in Int
    BY <2>5, WireAssumption DEF Free
  <2>. QED BY <2>1, <2>3, <2>4, <2>5, <2>6, WireAssumption
<1> HIDE DEF h
<1>2. PICK n \in 1 .. h + 1 - pos[w] :
         /\ n <= Free /\ out' = out \o Piece(w, pos[w], pos[w] + n - 1)
         /\ pos' = [pos EXCEPT ![w] = @ + n]
  <2> DEFINE n == IF Free < h + 1 - pos[w] THEN Free ELSE h + 1 - pos[w]
  <2>1. /\ out' = out \o Piece(w, pos[w], pos[w] + n - 1)
        /\ pos' = [pos EXCEPT ![w] = @ + n]
    BY DEF Write, h
  <2>2. n \in 1 .. h + 1 - pos[w] /\ n <= Free
    BY <1>1
  <2> HIDE DEF n
  <2>. QED BY <2>1, <2>2
<1>0. n \in Nat /\ n >= 1 /\ n <= h + 1 - pos[w]
  BY <1>1, <1>2
<1> HIDE DEF e
<1> DEFINE piece == Piece(w, pos[w], pos[w] + n - 1)
           byte(k) == [writer |-> w, frame |-> frame[w], pos |-> pos[w] + k - 1,
                       final |-> pos[w] + k - 1 = e]
<1>3. piece \in Seq(Byte) /\ Len(piece) = n /\ \A k \in 1 .. n : piece[k] = byte(k)
  <2>1. pos[w] + n - 1 + 1 - pos[w] = n
    BY <1>1, <1>0
  <2>2. piece = [k \in 1 .. n |-> byte(k)]
    BY <2>1 DEF Piece, FrameEnd, e
  <2>3. ASSUME NEW k \in 1 .. n PROVE byte(k) \in Byte
    <3>1. pos[w] + k - 1 \in Nat
      BY <1>1, <1>0
    <3>2. frame[w] \in Nat
      BY DEF WireInv, WireTypeOK
    <3>. QED BY <3>1, <3>2 DEF Byte
  <2> HIDE DEF piece, byte
  <2>4. piece \in [1 .. n -> Byte]
    BY <2>2, <2>3
  <2>. QED BY <2>2, <2>4, <1>0
<1>4. /\ out' \in Seq(Byte) /\ Len(out') = Len(out) + n
      /\ \A i \in 1 .. Len(out) : out'[i] = out[i]
      /\ \A i \in Len(out) + 1 .. Len(out) + n : out'[i] = piece[i - Len(out)]
  <2>1. out \in Seq(Byte)
    BY DEF WireInv, WireTypeOK
  <2>2. out' = out \o piece
    BY <1>2
  <2> HIDE DEF piece
  <2>3. /\ out \o piece \in Seq(Byte) /\ Len(out \o piece) = Len(out) + Len(piece)
        /\ \A i \in 1 .. Len(out) + Len(piece) :
              (out \o piece)[i] = IF i <= Len(out) THEN out[i] ELSE piece[i - Len(out)]
    BY <2>1, <1>3, ConcatProperties
  <2>. QED BY <2>2, <2>3, <1>0, <1>1, <1>3
<1>5. pos'[w] = pos[w] + n /\ pos' \in [Writers -> Nat] /\ \A v \in Writers \ {w} : pos'[v] = pos[v]
  <2>1. pos \in [Writers -> Nat] /\ pos[w] + n \in Nat
    BY <1>0, <1>1 DEF WireInv, WireTypeOK
  <2>. QED BY <2>1, <1>2
<1>6. WireTypeOK' /\ CallsLeft'
  <2>1. Len(out') <= Cap
    BY <1>0, <1>1, <1>2, <1>4 DEF Free
  <2>2. WireTypeOK'
    BY <2>1, <1>4, <1>5 DEF WireInv, WireTypeOK, Write, clientVars
  <2>3. pos'[w] >= 1 /\ pos'[w] <= h + 1
    BY <1>0, <1>1, <1>5
  <2>4. CallsLeft'
    BY <2>3, <1>5 DEF CallsLeft, Writing, WireInv, Write, h
  <2>. QED BY <2>2, <2>4
<1>7. ASSUME ~overlap', ~short' PROVE (~broken /\ Chained /\ OneWrites /\ WriterFollows)'
  <2>1. /\ ~overlap /\ ~short /\ todo' = todo /\ frame' = frame /\ last' = last
        /\ broken' = broken /\ Writing(w)
    BY <1>7 DEF Write, clientVars
  <2>2. ~broken /\ Chained /\ OneWrites /\ WriterFollows
    BY <2>1 DEF WireInv
  <2>3. Chained'
    <3> SUFFICES ASSUME NEW i \in 1 .. Len(out')
                 PROVE  Follows(IF i = 1 THEN last' ELSE out'[i - 1], out'[i])
      BY DEF Chained, Follows
    <3> HIDE DEF piece
    <3>1. CASE i <= Len(out)
      <4>1. Follows(IF i = 1 THEN last ELSE out[i - 1], out[i])
        BY <3>1, <2>2, <1>1 DEF Chained
      <4>2. out'[i] = out[i] /\ (i # 1 => out'[i - 1] = out[i - 1])
        <5>1. i \in 1 .. Len(out) /\ (i # 1 => i - 1 \in 1 .. Len(out))
          BY <3>1, <1>1
        <5>. QED BY <5>1, <1>4
      <4>. QED BY <4>1, <4>2, <2>1
    <3>2. CASE i = Len(out) + 1
      <4>1. out'[i] = byte(1) /\ byte(1).pos = pos[w]
        <5>1. out'[i] = piece[i - Len(out)] /\ i - Len(out) = 1
          <6>1. i \in Len(out) + 1 .. Len(out) + n /\ i - Len(out) = 1
            BY <3>2, <1>0, <1>1
          <6>2. out'[i] = piece[i - Len(out)]
            BY <6>1, <1>4
          <6>. QED BY <6>1, <6>2
        <5>2. 1 \in 1 .. n /\ pos[w] + 1 - 1 = pos[w]
          BY <1>0, <1>1
        <5>3. out'[i] = byte(1)
          BY <5>1, <5>2, <1>3
        <5>4. byte(1).pos = pos[w]
          BY <5>2
        <5>. QED BY <5>3, <5>4
      <4>2. (IF i = 1 THEN last' ELSE out'[i - 1]) = LastOut
        <5>1. CASE Len(out) = 0
          BY <5>1, <3>2, <2>1 DEF LastOut, WireInv, WireTypeOK
        <5>2. CASE Len(out) # 0
          <6>1. out # <<>> /\ i # 1 /\ i - 1 = Len(out) /\ Len(out) \in 1 .. Len(out)
            BY <5>2, <3>2, <1>1
          <6>. QED BY <6>1, <1>4 DEF LastOut
        <5>. QED BY <5>1, <5>2
      <4>3. CASE pos[w] = 1
        BY <4>1, <4>2, <4>3, <2>1, <2>2 DEF WriterFollows, Follows
      <4>4. CASE pos[w] # 1
        <5>1. LastOut = [writer |-> w, frame |-> frame[w], pos |-> pos[w] - 1, final |-> FALSE]
          <6>1. (pos[w] - 1 = e) = FALSE
            BY <1>1
          <6>2. LastOut = [writer |-> w, frame |-> frame[w], pos |-> pos[w] - 1,
                           final |-> pos[w] - 1 = e]
            BY <4>4, <2>1, <2>2 DEF WriterFollows, e
          <6>. QED BY <6>1, <6>2
        <5>2. byte(1) = [writer |-> w, frame |-> frame[w], pos |-> pos[w], final |-> pos[w] = e]
          BY <1>1
        <5>. QED BY <5>1, <5>2, <4>1, <4>2, <4>4, <1>1, NextFollows
      <4>. QED BY <4>3, <4>4
    <3>3. CASE i > Len(out) + 1
      <4> DEFINE k == i - Len(out)
      <4>1. k \in Nat /\ k >= 2 /\ k <= n /\ i # 1
        BY <3>3, <1>0, <1>1, <1>4
      <4>2. out'[i] = byte(k) /\ out'[i - 1] = byte(k - 1)
        <5>1. i - 1 - Len(out) = k - 1 /\ k - 1 \in 1 .. n /\ k \in 1 .. n
          BY <4>1, <1>0, <1>1
        <5>2. out'[i] = piece[k] /\ out'[i - 1] = piece[k - 1]
          <6>1. i \in Len(out) + 1 .. Len(out) + n /\ i - 1 \in Len(out) + 1 .. Len(out) + n
            BY <4>1, <1>0, <1>1, <1>4
          <6>2. out'[i] = piece[i - Len(out)] /\ out'[i - 1] = piece[i - 1 - Len(out)]
            BY <6>1, <1>4
          <6>. QED BY <6>2, <5>1
        <5>. QED BY <5>1, <5>2, <1>3
      <4>3. /\ pos[w] + k - 1 # 1 /\ pos[w] + (k - 1) - 1 = pos[w] + k - 1 - 1
            /\ (pos[w] + (k - 1) - 1 = e) = FALSE
        BY <4>1, <1>0, <1>1
      <4>4. byte(k - 1) = [writer |-> w, frame |-> frame[w], pos |-> pos[w] + k - 1 - 1,
                           final |-> FALSE]
        BY <4>3
      <4>5. pos[w] + k - 1 \in Int
        BY <4>1, <1>1
      <4> HIDE DEF k
      <4>6. (IF i = 1 THEN last' ELSE out'[i - 1]) = byte(k - 1)
        BY <4>1, <4>2
      <4>7. Follows(byte(k - 1), byte(k))
        <5>1. PICK p \in Int : p = pos[w] + k - 1
          BY <4>5
        <5>2. byte(k) = [writer |-> w, frame |-> frame[w], pos |-> p, final |-> p = e]
          BY <5>1
        <5>3. byte(k - 1) = [writer |-> w, frame |-> frame[w], pos |-> p - 1, final |-> FALSE]
          <6>1. pos[w] + (k - 1) - 1 = p - 1
            BY <5>1, <4>1, <1>1
          <6>2. (pos[w] + (k - 1) - 1 = e) = FALSE
            BY <4>3
          <6>. QED BY <6>1, <6>2
        <5>4. p # 1
          BY <5>1, <4>3
        <5>5. PICK fin : byte(k) = [writer |-> w, frame |-> frame[w], pos |-> p, final |-> fin]
          BY <5>2
        <5> HIDE DEF byte
        <5>. QED BY <5>3, <5>4, <5>5, NextFollows
      <4>. QED BY <4>2, <4>6, <4>7
    <3>. QED BY <3>1, <3>2, <3>3, <1>1, <1>4
  <2>4. OneWrites' /\ \A v \in Writers : Writing(v)' => v = w
    BY <2>1, <2>2 DEF OneWrites, Writing
  <2>5. LastOut' = [writer |-> w, frame |-> frame[w], pos |-> pos'[w] - 1,
                    final |-> pos'[w] - 1 = e] /\ pos'[w] # 1
    <3>1. LastOut' = byte(n)
      <4> HIDE DEF piece, byte
      <4>1. out' # <<>> /\ out'[Len(out')] = piece[n] /\ n \in 1 .. n
        BY <1>0, <1>1, <1>4
      <4>. QED BY <4>1, <1>3 DEF LastOut
    <3>2. pos[w] + n - 1 = pos'[w] - 1 /\ pos'[w] # 1
      BY <1>0, <1>1, <1>5
    <3>. QED BY <3>1, <3>2
  <2>6. WriterFollows'
    BY <2>1, <2>4, <2>5 DEF WriterFollows, Writing, FrameEnd, e
  <2>. QED BY <2>1, <2>2, <2>3, <2>4, <2>6
<1>. QED BY <1>6, <1>7 DEF WireInv

LEMMA WriteEnded ==
  ASSUME WireInv, NEW w \in Writers, WriteReturns(w)
  PROVE  WireInv'
<1> DEFINE t == todo[w]
<1>1. /\ t \in Seq(Nat) /\ t # <<>> /\ Len(t) \in Nat /\ Len(t) >= 1 /\ Head(t) = t[1]
      /\ IsCalls(t) /\ Head(t) \in Nat /\ Head(t) >= 1 /\ pos[w] \in Nat /\ pos[w] <= Head(t) + 1
  <2>1. IsCalls(t) /\ pos[w] <= Head(t) + 1 /\ pos[w] \in Nat
    BY DEF WireInv, WireTypeOK, CallsLeft, WriteReturns
  <2>2. t \in Seq(Nat) /\ t # <<>> /\ Len(t) \in Nat /\ Len(t) >= 1 /\ Head(t) = t[1]
    BY <2>1 DEF IsCalls
  <2>3. t[1] \in Nat /\ t[1] >= 1
    BY <2>1, <2>2 DEF IsCalls
  <2>. QED BY <2>1, <2>2, <2>3
<1>2. /\ Tail(t) \in Seq(Nat) /\ Len(Tail(t)) = Len(t) - 1
      /\ \A k \in 1 .. Len(t) - 1 : Tail(t)[k] = t[k + 1]
  <2> HIDE DEF t
  <2>. QED BY <1>1
<1>3. /\ pos' \in [Writers -> Nat] /\ todo' \in [Writers -> Seq(Nat)]
      /\ pos'[w] = Head(t) + 1 /\ todo'[w] = Tail(t)
      /\ \A v \in Writers \ {w} : pos'[v] = pos[v] /\ todo'[v] = todo[v]
  BY <1>1, <1>2 DEF WireInv, WireTypeOK, WriteReturns
<1>4. WireTypeOK'
  BY <1>3 DEF WireInv, WireTypeOK, WriteReturns, clientVars
<1>5. Tail(t) # <<>> =>
        /\ IsCalls(Tail(t)) /\ Head(t) + 1 <= Head(Tail(t)) + 1
        /\ Tail(t)[Len(Tail(t))] = t[Len(t)]
  <2> SUFFICES ASSUME Tail(t) # <<>>
               PROVE  /\ IsCalls(Tail(t)) /\ Head(t) + 1 <= Head(Tail(t)) + 1
                      /\ Tail(t)[Len(Tail(t))] = t[Len(t)]
    OBVIOUS
  <2> HIDE DEF t
  <2>1. Len(t) - 1 \in Nat /\ Len(t) - 1 >= 1 /\ Head(Tail(t)) = Tail(t)[1]
    BY <1>1, <1>2
  <2>2. \A k \in 1 .. Len(t) - 1 : k + 1 \in 1 .. Len(t) /\ k + 1 \in DOMAIN t
    BY <1>1
  <2>3. \A k \in DOMAIN Tail(t) : k \in 1 .. Len(t) - 1 /\ Tail(t)[k] = t[k + 1]
    BY <1>2
  <2>4. IsCalls(Tail(t))
    <3>1. ASSUME NEW j \in DOMAIN Tail(t), NEW k \in DOMAIN Tail(t), j <= k
          PROVE  Tail(t)[j] <= Tail(t)[k]
      <4>1. j + 1 <= k + 1
        BY <3>1, <2>3
      <4>. QED BY <4>1, <2>2, <2>3, <1>1 DEF IsCalls
    <3>. QED BY <3>1, <2>2, <2>3, <1>1, <1>2 DEF IsCalls
  <2>5. Head(t) <= Head(Tail(t))
    BY <2>1, <1>1, <1>2 DEF IsCalls
  <2>6. Head(Tail(t)) \in Nat
    BY <2>1, <1>2
  <2>. QED BY <2>1, <2>4, <2>5, <2>6, <1>1, <1>2
<1>6. CallsLeft'
  <2> SUFFICES ASSUME NEW v \in Writers, Writing(v)'
               PROVE  (IsCalls(todo[v]) /\ pos[v] >= 1 /\ pos[v] <= Head(todo[v]) + 1)'
    BY DEF CallsLeft
  <2>1. CASE v = w
    <3>1. todo'[w] = Tail(t) /\ Tail(t) # <<>>
      BY <2>1, <1>3 DEF Writing
    <3>2. pos'[w] = Head(t) + 1 /\ Head(t) + 1 >= 1
      BY <1>1, <1>3
    <3> HIDE DEF t
    <3>. QED BY <2>1, <3>1, <3>2, <1>5
  <2>2. CASE v # w
    BY <2>2, <1>3 DEF WireInv, CallsLeft, Writing
  <2>. QED BY <2>1, <2>2
<1>7. ASSUME ~overlap', ~short' PROVE (~broken /\ Chained /\ OneWrites /\ WriterFollows)'
  <2>1. /\ ~overlap /\ ~short /\ pos[w] = Head(t) + 1 /\ Writing(w)
    <3>1. ~overlap /\ ~short /\ ~(pos[w] <= Head(t)) /\ Writing(w)
      BY <1>7 DEF WriteReturns
    <3> HIDE DEF t
    <3>. QED BY <3>1, <1>1
  <2>2. ~broken /\ Chained /\ OneWrites /\ WriterFollows
    BY <2>1 DEF WireInv
  <2>3. LastOut' = LastOut /\ broken' = broken /\ frame' = frame /\ Chained'
    BY <2>2 DEF LastOut, Chained, Follows, WriteReturns, clientVars
  <2>4. OneWrites' /\ \A v \in Writers : Writing(v)' => v = w
    BY <2>1, <2>2, <1>3 DEF OneWrites, Writing
  <2>5. LastOut = [writer |-> w, frame |-> frame[w], pos |-> pos[w] - 1,
                   final |-> pos[w] - 1 = FrameEnd(w)]
    BY <2>1, <2>2, <1>1 DEF WriterFollows
  <2>6. CASE Tail(t) = <<>>
    <3>1. pos[w] - 1 = FrameEnd(w)
      <4>1. Len(t) = 1
        <5> HIDE DEF t
        <5>1. Len(Tail(t)) = 0
          <6>1. Len(<<>>) = 0
            OBVIOUS
          <6>. QED BY <2>6, <6>1
        <5>. QED BY <5>1, <1>1, <1>2
      <4>. QED BY <4>1, <2>1, <1>1 DEF FrameEnd
    <3>2. LastOut.final
      BY <3>1, <2>5
    <3>3. \A v \in Writers : ~Writing(v)'
      BY <2>4, <2>6, <1>3 DEF Writing
    <3>. QED BY <2>2, <2>3, <2>4, <3>2, <3>3 DEF WriterFollows
  <2>7. CASE Tail(t) # <<>>
    <3>1. pos'[w] = pos[w] /\ pos'[w] # 1 /\ FrameEnd(w)' = FrameEnd(w) /\ Writing(w)'
      <4>1. pos'[w] = pos[w]
        BY <2>1, <1>3
      <4>2. pos[w] # 1
        <5> HIDE DEF t
        <5>. QED BY <2>1, <1>1
      <4>3. FrameEnd(w)' = FrameEnd(w) /\ Writing(w)'
        BY <2>7, <1>3, <1>5 DEF FrameEnd, Writing
      <4>. QED BY <4>1, <4>2, <4>3
    <3>2. WriterFollows'
      BY <3>1, <2>3, <2>4, <2>5 DEF WriterFollows
    <3>. QED BY <2>2, <2>3, <2>4, <3>2
  <2>. QED BY <2>6, <2>7
<1>. QED BY <1>4, <1>6, <1>7 DEF WireInv

LEMMA ByteRead ==
  ASSUME WireInv, Drain
  PROVE  WireInv'
<1>1. out \in Seq(Byte) /\ out # <<>> /\ Len(out) \in Nat /\ Len(out) >= 1 /\ Head(out) = out[1]
  BY DEF WireInv, WireTypeOK, Drain
<1>2. /\ out' \in Seq(Byte) /\ Len(out') = Len(out) - 1 /\ last' = out[1] /\ out[1] \in Byte
      /\ \A k \in 1 .. Len(out) - 1 : out'[k] = out[k + 1]
  BY <1>1 DEF Drain
<1>3. WireTypeOK'
  <2>1. Len(out') <= Cap
    BY <1>1, <1>2, WireAssumption DEF WireInv, WireTypeOK
  <2>. QED BY <1>1, <1>2, <2>1 DEF WireInv, WireTypeOK, Drain, Byte
<1>4. CallsLeft'
  BY DEF WireInv, CallsLeft, Drain, Writing
<1>5. ASSUME ~overlap', ~short' PROVE (~broken /\ Chained /\ OneWrites /\ WriterFollows)'
  <2>1. /\ ~overlap /\ ~short /\ todo' = todo /\ pos' = pos /\ frame' = frame
        /\ ~broken /\ Chained /\ OneWrites /\ WriterFollows
    BY <1>5 DEF Drain, WireInv
  <2>2. Follows(last, out[1])
    BY <2>1, <1>1 DEF Chained
  <2>3. ~broken'
    BY <2>1, <2>2, <1>1 DEF Drain
  <2>4. Chained'
    <3> SUFFICES ASSUME NEW i \in 1 .. Len(out')
                 PROVE  Follows(IF i = 1 THEN last' ELSE out'[i - 1], out'[i])
      BY DEF Chained, Follows
    <3>1. i + 1 \in 1 .. Len(out) /\ i + 1 # 1 /\ i + 1 - 1 = i /\ i \in 1 .. Len(out) - 1
      BY <1>1, <1>2
    <3>2. Follows(out[i], out[i + 1])
      BY <3>1, <2>1 DEF Chained
    <3>3. (IF i = 1 THEN last' ELSE out'[i - 1]) = out[i]
      <4>1. CASE i = 1
        BY <4>1, <1>2
      <4>2. CASE i # 1
        <5>1. i - 1 \in 1 .. Len(out) - 1 /\ i - 1 + 1 = i
          BY <4>2, <3>1
        <5>. QED BY <5>1, <4>2, <1>2
      <4>. QED BY <4>1, <4>2
    <3>. QED BY <3>1, <3>2, <3>3, <1>2
  <2>5. LastOut' = LastOut
    <3>1. CASE Len(out) = 1
      BY <3>1, <1>1, <1>2 DEF LastOut
    <3>2. CASE Len(out) # 1
      <4>1. out' # <<>> /\ Len(out) - 1 \in 1 .. Len(out) - 1
        BY <3>2, <1>1, <1>2
      <4>. QED BY <4>1, <1>1, <1>2 DEF LastOut
    <3>. QED BY <3>1, <3>2
  <2>6. OneWrites' /\ WriterFollows'
    BY <2>1, <2>5 DEF OneWrites, WriterFollows, Writing, FrameEnd
  <2>. QED BY <2>3, <2>4, <2>6
<1>. QED BY <1>3, <1>4, <1>5 DEF WireInv

LEMMA WireKept == WireInv /\ [WireStep]_wireVars => WireInv'
<1>1. ASSUME WireInv, WireStep PROVE WireInv'
  BY <1>1, FrameBegins, WriteGoesOn, WriteEnded, ByteRead DEF WireStep
<1>2. ASSUME WireInv, UNCHANGED wireVars PROVE WireInv'
  BY <1>2
  DEF WireInv, WireTypeOK, CallsLeft, Chained, OneWrites, WriterFollows, Writing, LastOut,
      FrameEnd, wireVars, clientVars
<1>. QED BY <1>1, <1>2

(* Every step of a connection is a step of its wire, or does not touch it.  *)
LEMMA WireOnly == [Next]_vars => [WireStep]_wireVars
  BY ConnectionAssumption
  DEF Next, vars, Arrive, SendFrame, ClientReads, Handle, Fill, ReadLine, TooLong, Upgrade, Close,
      ReadHeader, ReadLength, ReadPart, Dispatch, Answered, Broadcast, WriteStep, WireStep, Refused,
      Missized

(* The client gets whole frames, one after the other, until two threads     *)
(* have written at once or a write was cut short (web-socket.c:72), however *)
(* many threads write and whatever the socket buffer holds.                 *)
THEOREM FramesStayWhole == Spec => []FramesWhole
<1>1. Init => WireInv
  BY WireStarts DEF Init
<1>2. WireInv /\ [Next]_vars => WireInv'
  BY WireOnly, WireKept
<1>3. WireInv => FramesWhole
  BY DEF WireInv, FramesWhole
<1>. QED BY <1>1, <1>2, <1>3, PTL DEF Spec

----------------------------------------------------------------------------

(* Induction over Nat, with a set for the predicate.                        *)
LEMMA Least == \A T \in SUBSET Nat : T # {} => \E x \in T : \A y \in T : x <= y
<1> DEFINE R == {ss \in Nat \X Nat : ss[1] < ss[2]}
<1>1. IsWellFoundedOn(R, Nat)
  BY NatLessThanWellFounded DEF OpToRel
<1>2. \A T \in SUBSET Nat : T # {} => \E x \in T : \A y \in T : <<y, x>> \notin R
  BY <1>1, WFMin
<1> SUFFICES ASSUME NEW T \in SUBSET Nat, T # {}
             PROVE  \E x \in T : \A y \in T : x <= y
  OBVIOUS
<1>3. PICK x \in T : \A y \in T : <<y, x>> \notin R
  BY <1>2
<1>4. ASSUME NEW y \in T PROVE x <= y
  <2>1. <<y, x>> \in Nat \X Nat /\ <<y, x>>[1] = y /\ <<y, x>>[2] = x
    OBVIOUS
  <2>. QED BY <2>1, <1>3
<1>. QED BY <1>4

LEMMA Induct ==
  ASSUME NEW S \in SUBSET Nat, 0 \in S, \A n \in S : n + 1 \in S
  PROVE  S = Nat
<1> SUFFICES ASSUME Nat \ S # {} PROVE FALSE
  OBVIOUS
<1>1. PICK x \in Nat \ S : \A y \in Nat \ S : x <= y
  BY Least
<1>2. x # 0
  OBVIOUS
<1>3. x - 1 \in S
  BY <1>1, <1>2
<1>. QED BY <1>3

----------------------------------------------------------------------------

(* UpTo unfolds.                                                            *)
LEMMA UpToDef ==
  ASSUME NEW kinds \in Seq(DOMAIN Size)
  PROVE  UpTo(kinds) = [n \in 0 .. Len(kinds) |->
                          IF n = 0 THEN <<>> ELSE UpTo(kinds)[n - 1] \o BytesOf(kinds[n])]
<1> DEFINE L == Len(kinds)
           Is(f, m) == f = [n \in 0 .. m |-> IF n = 0 THEN <<>> ELSE f[n - 1] \o BytesOf(kinds[n])]
           S == {m \in Nat : \E f : Is(f, m)}
<1>1. 0 \in S
  <2> DEFINE f == [n \in 0 .. 0 |-> <<>>]
  <2>1. Is(f, 0)
    OBVIOUS
  <2>. QED BY <2>1
<1>2. ASSUME NEW m \in S PROVE m + 1 \in S
  <2>1. PICK f : Is(f, m)
    BY <1>2
  <2> DEFINE g == [n \in 0 .. m + 1 |->
                     IF n = 0 THEN <<>> ELSE f[n - 1] \o BytesOf(kinds[n])]
  <2>2. ASSUME NEW n \in 0 .. m + 1, n # 0 PROVE g[n - 1] = f[n - 1]
    <3>1. n - 1 \in 0 .. m /\ n - 1 \in 0 .. m + 1 /\ m \in Nat
      BY <2>2
    <3>. QED BY <3>1, <2>1
  <2>3. Is(g, m + 1)
    BY <2>2
  <2>4. m + 1 \in Nat
    OBVIOUS
  <2> HIDE DEF g, Is
  <2>. QED BY <2>3, <2>4
<1>3. S = Nat
  <2> HIDE DEF S
  <2>1. S \in SUBSET Nat
    BY DEF S
  <2>. QED BY <1>1, <1>2, <2>1, Induct
<1>4. L \in Nat
  OBVIOUS
<1>5. \E f : Is(f, L)
  BY <1>3, <1>4
<1>6. UpTo(kinds) = CHOOSE f : Is(f, L)
  BY DEF UpTo
<1> HIDE DEF L
<1>7. Is(UpTo(kinds), L)
  BY <1>5, <1>6
<1>. QED BY <1>7 DEF L

LEMMA SizeType == \A kind \in DOMAIN Size : Size[kind] \in Nat /\ Size[kind] >= 2
<1>1. Size \in [DOMAIN Size -> Nat \ {0, 1}]
  BY ConnectionAssumption
<1>. QED BY <1>1

LEMMA BytesOfType ==
  ASSUME NEW kind \in DOMAIN Size
  PROVE  /\ BytesOf(kind) \in Seq(Bytes) /\ Len(BytesOf(kind)) = Size[kind]
         /\ \A k \in 1 .. Size[kind] : BytesOf(kind)[k] = <<kind, k>>
<1>1. Size[kind] \in Nat
  BY SizeType
<1>2. \A k \in 1 .. Size[kind] : <<kind, k>> \in Bytes
  BY ConnectionAssumption
<1>3. BytesOf(kind) \in [1 .. Size[kind] -> Bytes]
  BY <1>2 DEF BytesOf
<1>. QED BY <1>1, <1>3 DEF BytesOf

(* The first m of the lines are bytes, with those of each line at the end.  *)
LEMMA UpToType ==
  ASSUME NEW kinds \in Seq(DOMAIN Size)
  PROVE  /\ UpTo(kinds)[0] = <<>>
         /\ \A m \in 0 .. Len(kinds) : UpTo(kinds)[m] \in Seq(Bytes)
         /\ \A m \in 0 .. Len(kinds) - 1 :
               UpTo(kinds)[m + 1] = UpTo(kinds)[m] \o BytesOf(kinds[m + 1])
<1> DEFINE U == UpTo(kinds)
           L == Len(kinds)
           S == {m \in Nat : m <= L => U[m] \in Seq(Bytes)}
<1>1. L \in Nat /\ \A m \in 1 .. L : kinds[m] \in DOMAIN Size
  OBVIOUS
<1>2. U = [n \in 0 .. L |-> IF n = 0 THEN <<>> ELSE U[n - 1] \o BytesOf(kinds[n])]
  BY UpToDef
<1> HIDE DEF U, L
<1>3. U[0] = <<>> /\ \A m \in 0 .. L - 1 : U[m + 1] = U[m] \o BytesOf(kinds[m + 1])
  <2>1. U[0] = <<>>
    BY <1>1, <1>2
  <2>2. ASSUME NEW m \in 0 .. L - 1 PROVE U[m + 1] = U[m] \o BytesOf(kinds[m + 1])
    <3>1. PICK k \in 0 .. L : k = m + 1
      BY <1>1
    <3>2. \A n \in 0 .. L : U[n] = IF n = 0 THEN <<>> ELSE U[n - 1] \o BytesOf(kinds[n])
      <4>1. PICK f : f = U
        OBVIOUS
      <4>2. f = [n \in 0 .. L |-> IF n = 0 THEN <<>> ELSE U[n - 1] \o BytesOf(kinds[n])]
        BY <4>1, <1>2
      <4>3. \A n \in 0 .. L : f[n] = IF n = 0 THEN <<>> ELSE U[n - 1] \o BytesOf(kinds[n])
        BY <4>2
      <4>. QED BY <4>1, <4>3
    <3>3. k # 0 /\ k - 1 = m
      BY <3>1
    <3>4. U[k] = U[k - 1] \o BytesOf(kinds[k])
      BY <3>2, <3>3
    <3>. QED BY <3>1, <3>3, <3>4
  <2>. QED BY <2>1, <2>2
<1>4. S = Nat
  <2>1. 0 \in S
    <3>1. <<>> \in Seq(Bytes)
      OBVIOUS
    <3>. QED BY <3>1, <1>3
  <2>2. ASSUME NEW m \in S PROVE m + 1 \in S
    <3>1. SUFFICES ASSUME m + 1 <= L PROVE U[m + 1] \in Seq(Bytes)
      OBVIOUS
    <3>2. m \in 0 .. L - 1 /\ U[m] \in Seq(Bytes) /\ kinds[m + 1] \in DOMAIN Size
      BY <3>1, <1>1
    <3>3. BytesOf(kinds[m + 1]) \in Seq(Bytes)
      BY <3>2, BytesOfType
    <3>4. U[m] \o BytesOf(kinds[m + 1]) \in Seq(Bytes)
      BY <3>2, <3>3, ConcatProperties
    <3>. QED BY <3>2, <3>4, <1>3
  <2> HIDE DEF S
  <2>3. S \in SUBSET Nat
    BY DEF S
  <2>. QED BY <2>1, <2>2, <2>3, Induct
<1>5. \A m \in 0 .. L : U[m] \in Seq(Bytes)
  BY <1>4, <1>1
<1>. QED BY <1>3, <1>5 DEF U, L

LEMMA AllBytesType ==
  ASSUME NEW kinds \in Seq(DOMAIN Size)
  PROVE  AllBytes(kinds) \in Seq(Bytes)
<1>1. Len(kinds) \in 0 .. Len(kinds)
  OBVIOUS
<1>. QED BY <1>1, UpToType DEF AllBytes

----------------------------------------------------------------------------

(* The frame whose length is read is one that a client sent.                *)
LengthOfFrame == pc = "length" => body[1][1] \in FrameKinds

ConnectionInv ==
    /\ TypeOK /\ LengthOfFrame
    /\ inbox \in Seq(Bytes) /\ coming \in Seq(Bytes)
    /\ lines \in Seq(Seq(Bytes)) /\ want \in Seq(Nat)

(* Buffers with bytes of B.                                                 *)
Holding(B) == [0 .. N - 1 -> B \cup {NUL}]

(* br_read from a place in the buffer leaves it a buffer, its last byte NUL.*)
LEMMA TakeType ==
  ASSUME NEW B, inbox \in Seq(B), cut \in BOOLEAN, NEW start \in 0 .. N - 2,
         NEW b \in Holding(B), b[N - 1] = NUL, Take(start, b)
  PROVE  /\ buf' \in Holding(B) /\ buf'[N - 1] = NUL /\ inbox' \in Seq(B) /\ cut' \in BOOLEAN
<1> DEFINE n == Lesser(Room(start), Len(inbox))
<1>1. n \in Nat /\ n <= Len(inbox) /\ start + n <= N - 1 /\ Len(inbox) \in Nat /\ N \in Nat /\ N >= 3
  BY ReaderAssumption DEF Lesser, Room
<1>2. /\ buf' = [j \in 0 .. N - 1 |-> IF start <= j /\ j < start + n THEN inbox[j - start + 1] ELSE b[j]]
      /\ inbox' = SubSeq(inbox, n + 1, Len(inbox)) /\ cut' \in BOOLEAN
  BY DEF Take, br_read, From
<1> HIDE DEF n
<1>3. \A j \in 0 .. N - 1 : start <= j /\ j < start + n => inbox[j - start + 1] \in B
  <2> SUFFICES ASSUME NEW j \in 0 .. N - 1, start <= j, j < start + n
               PROVE  inbox[j - start + 1] \in B
    OBVIOUS
  <2>1. j - start + 1 \in 1 .. Len(inbox)
    BY <1>1
  <2>. QED BY <2>1
<1>4. buf' \in Holding(B)
  BY <1>2, <1>3 DEF Holding
<1>5. buf'[N - 1] = NUL
  BY <1>1, <1>2
<1>6. inbox' \in Seq(B)
  BY <1>1, <1>2
<1>. QED BY <1>2, <1>4, <1>5, <1>6

LEMMA ShiftType ==
  ASSUME NEW B, NEW b \in Holding(B), NEW i \in 1 .. N - 2
  PROVE  Shift(b, i) \in Holding(B) /\ Shift(b, i)[N - 1] = NUL
<1>1. N \in Nat /\ N >= 3
  BY ReaderAssumption
<1>2. Shift(b, i) \in Holding(B)
  <2>1. \A j \in 0 .. N - 1 : j + i <= N - 3 => j + i + 1 \in 0 .. N - 1
    BY <1>1
  <2>. QED BY <2>1, <1>1 DEF Shift, Holding
<1>3. Shift(b, i)[N - 1] = NUL
  BY <1>1 DEF Shift
<1>. QED BY <1>2, <1>3

LEMMA LineType ==
  ASSUME NEW B, NEW b \in Holding(B), NEW i \in 1 .. N - 2, LineEnd(b, i)
  PROVE  Line(b, i) \in Seq(B) /\ Line(b, i) # <<>> /\ Len(Line(b, i)) = LineLength(b, i)
<1>1. N \in Nat /\ N >= 3
  BY ReaderAssumption
<1>2. LineLength(b, i) \in Nat /\ LineLength(b, i) >= 1
  BY DEF LineLength
<1>3. ASSUME NEW k \in 1 .. LineLength(b, i) PROVE b[k - 1] \in B
  <2>1. k - 1 \in 0 .. N - 1 /\ b[k - 1] \in B \cup {NUL} /\ k - 1 <= i
    BY <1>1, <1>3 DEF LineLength, Holding
  <2>2. CASE k - 1 < i
    BY <2>1, <2>2, <1>1 DEF LineEnd
  <2>3. CASE k - 1 = i
    BY <2>1, <2>3 DEF LineLength
  <2>. QED BY <2>1, <2>2, <2>3
<1>4. Line(b, i) \in [1 .. LineLength(b, i) -> B]
  BY <1>3 DEF Line
<1> HIDE DEF Line
<1>5. Line(b, i) \in Seq(B) /\ Len(Line(b, i)) = LineLength(b, i)
  BY <1>2, <1>4
<1>. QED BY <1>2, <1>5

LEMMA TypesHold == Init => ConnectionInv
<1> SUFFICES ASSUME Init PROVE ConnectionInv
  OBVIOUS
<1>1. WireTypeOK
  BY WireStarts DEF Init, WireInv
<1>2. request \in Seq(DOMAIN Size) /\ coming \in Seq(Bytes)
  BY AllBytesType, ConnectionAssumption DEF Init
<1>3. inbox \in Seq(Bytes) /\ DOMAIN lines = {} /\ lines \in Seq(Seq(Bytes)) /\ want \in Seq(Nat)
  <2>1. <<>> \in Seq(Bytes) /\ DOMAIN <<>> = {} /\ <<>> \in Seq(Seq(Bytes)) /\ <<>> \in Seq(Nat)
    OBVIOUS
  <2>. QED BY <2>1 DEF Init
<1>4. buf \in Buffers /\ buf[N - 1] = NUL
  BY ReaderAssumption DEF Init, EmptyBuffer, Buffers
<1>5. asked \in 0 .. Len(Frames) /\ cuts \in 0 .. MaxCuts
  BY ConnectionAssumption DEF Init
<1>. QED BY <1>1, <1>2, <1>3, <1>4, <1>5 DEF Init, ConnectionInv, LengthOfFrame, TypeOK

(* The calls for a frame.                                                   *)
LEMMA FrameType ==
  ASSUME NEW f \in FrameKinds
  PROVE  /\ f \in DOMAIN Size /\ Size[f] \in Nat /\ HeaderSize(f) \in {2, 3}
         /\ Size[f] >= HeaderSize(f) + 1 /\ Size[f] - HeaderSize(f) - 1 \in Nat
<1>1. PICK k \in DOMAIN Frames : f = Frames[k]
  BY DEF FrameKinds
<1>2. f \in DOMAIN Size /\ Size[f] \in Nat
  BY <1>1, ConnectionAssumption, SizeType
<1>3. Size[f] >= HeaderSize(f) + 1 /\ HeaderSize(f) \in {2, 3}
  BY <1>1, <1>2, ConnectionAssumption DEF HeaderSize
<1>. QED BY <1>2, <1>3

LEMMA CallsType ==
  /\ \A f \in FrameKinds : Rest(f) \in Seq(Nat)
  /\ <<1>> \in Seq(Nat) /\ <<2>> \in Seq(Nat) /\ <<1, 2>> \in Seq(Nat)
<1>1. \A f \in FrameKinds : Rest(f) \in Seq(Nat)
  BY FrameType DEF Rest
<1>. QED BY <1>1

LEMMA LengthKept == LengthOfFrame /\ [Next]_vars => LengthOfFrame'
<1> SUFFICES ASSUME LengthOfFrame, [Next]_vars PROVE LengthOfFrame'
  OBVIOUS
<1>1. CASE ReadHeader
  <2> SUFFICES ASSUME pc' = "length" PROVE body'[1][1] \in FrameKinds
    BY DEF LengthOfFrame
  <2>1. PICK f : f = inbox[1][1]
    OBVIOUS
  <2>2. f \in FrameKinds /\ body' = <<<<f, 1>>, <<f, 2>>>>
    BY <1>1, <2>1 DEF ReadHeader, Refused, Missized
  <2>. QED BY <2>2
<1>2. CASE Arrive \/ SendFrame \/ ClientReads \/ UNCHANGED vars
  BY <1>2 DEF Arrive, SendFrame, ClientReads, LengthOfFrame, FrameKinds, vars, frameVars
<1>3. CASE Fill \/ ReadLine \/ TooLong \/ Upgrade \/ Close
  BY <1>3 DEF Fill, ReadLine, TooLong, Upgrade, Close, Reading, LengthOfFrame, FrameKinds, frameVars
<1>4. CASE ReadLength \/ ReadPart \/ Dispatch \/ Answered
  BY <1>4 DEF ReadLength, ReadPart, Dispatch, Answered, Missized, LengthOfFrame, FrameKinds
<1>5. ASSUME NEW w \in Writers, WriteStep(w) \/ Broadcast(w) PROVE LengthOfFrame'
  BY <1>5 DEF WriteStep, Broadcast, LengthOfFrame, FrameKinds, frameVars
<1>. QED BY <1>1, <1>2, <1>3, <1>4, <1>5 DEF Next, Handle

LEMMA TypesKept == ConnectionInv /\ WireInv /\ [Next]_vars => ConnectionInv'
<1> SUFFICES ASSUME ConnectionInv, WireInv, [Next]_vars PROVE ConnectionInv'
  OBVIOUS
<1> USE DEF ConnectionInv
<1>0. WireTypeOK' /\ LengthOfFrame'
  BY WireOnly, WireKept, LengthKept DEF WireInv
<1>1. CASE Arrive
  <2>1. PICK n \in 1 .. Len(coming) :
          /\ n < Len(coming) => cuts < MaxCuts
          /\ cuts' = IF n < Len(coming) THEN cuts + 1 ELSE cuts
          /\ inbox' = inbox \o SubSeq(coming, 1, n)
          /\ coming' = SubSeq(coming, n + 1, Len(coming))
    BY <1>1 DEF Arrive
  <2>2. SubSeq(coming, 1, n) \in Seq(Bytes) /\ SubSeq(coming, n + 1, Len(coming)) \in Seq(Bytes)
    OBVIOUS
  <2>3. inbox' \in Seq(Bytes) /\ coming' \in Seq(Bytes)
    BY <2>1, <2>2, ConcatProperties
  <2>4. cuts' \in 0 .. MaxCuts
    BY <2>1, ConnectionAssumption DEF TypeOK
  <2>. QED BY <1>0, <1>1, <2>3, <2>4 DEF Arrive, TypeOK, readVars, frameVars
<1>2. CASE Fill
  <2>1. 0 \in 0 .. N - 2 /\ buf \in Buffers /\ buf[N - 1] = NUL /\ Take(0, buf) /\ cut \in BOOLEAN
    BY <1>2, ReaderAssumption DEF Fill, TypeOK, frameVars
  <2>2. buf' \in Buffers /\ buf'[N - 1] = NUL /\ inbox' \in Seq(Bytes) /\ cut' \in BOOLEAN
    BY <2>1, TakeType DEF Buffers, Holding
  <2>. QED BY <1>0, <1>2, <2>2 DEF Fill, TypeOK, frameVars
<1>3. CASE ReadLine
  <2>1. PICK i \in 1 .. N - 2 :
          /\ LineEnd(buf, i)
          /\ Take(N - i - 2, Shift(buf, i))
          /\ lines' = Append(lines, Line(buf, i))
    BY <1>3 DEF ReadLine
  <2>2. N - i - 2 \in 0 .. N - 2 /\ Shift(buf, i) \in Buffers /\ Shift(buf, i)[N - 1] = NUL
    <3>1. buf \in Buffers
      BY DEF TypeOK
    <3>2. N - i - 2 \in 0 .. N - 2
      BY ReaderAssumption
    <3>. QED BY <3>1, <3>2, ShiftType DEF Buffers, Holding
  <2>3. buf' \in Buffers /\ buf'[N - 1] = NUL /\ inbox' \in Seq(Bytes) /\ cut' \in BOOLEAN
    BY <2>1, <2>2, TakeType DEF TypeOK, Buffers, Holding
  <2>4. Line(buf, i) \in Seq(Bytes) /\ Line(buf, i) # <<>>
    BY <2>1, LineType DEF TypeOK, Buffers, Holding
  <2>5. lines' \in Seq(Seq(Bytes)) /\ \A k \in DOMAIN lines' : lines'[k] # <<>>
    <3>1. \A k \in DOMAIN lines : lines[k] # <<>>
      BY DEF TypeOK
    <3>2. /\ lines' \in Seq(Seq(Bytes)) /\ Len(lines') = Len(lines) + 1
          /\ \A k \in 1 .. Len(lines) : lines'[k] = lines[k]
          /\ lines'[Len(lines) + 1] = Line(buf, i)
      BY <2>1, <2>4
    <3>3. ASSUME NEW k \in DOMAIN lines' PROVE lines'[k] # <<>>
      <4>1. k \in 1 .. Len(lines) + 1 /\ DOMAIN lines = 1 .. Len(lines) /\ Len(lines) \in Nat
        BY <3>2
      <4>2. k \in 1 .. Len(lines) \/ k = Len(lines) + 1
        BY <4>1
      <4>. QED BY <2>4, <3>1, <3>2, <4>1, <4>2
    <3>. QED BY <3>2, <3>3
  <2>6. request' = request /\ asked' = asked /\ want' = want /\ coming' = coming /\ cuts' = cuts /\ up' = up
        /\ pc' \in {"decide", "headers"}
    BY <1>3 DEF ReadLine, frameVars
  <2>7. \A k \in DOMAIN lines' : lines'[k] \in Seq(Bytes)
    BY <2>5
  <2>. QED BY <1>0, <2>3, <2>5, <2>6, <2>7 DEF TypeOK
<1>4. CASE TooLong
  BY <1>0, <1>4 DEF TooLong, TypeOK, readVars, frameVars
<1>5. CASE Upgrade
  <2>1. EmptyBuffer \in Buffers /\ EmptyBuffer[N - 1] = NUL
    BY ReaderAssumption DEF EmptyBuffer, Buffers
  <2>2. buf' \in Buffers /\ buf'[N - 1] = NUL
    BY <1>5, <2>1 DEF Upgrade, TypeOK
  <2>3. lines' = <<>> \/ lines' = lines
    BY <1>5 DEF Upgrade
  <2>4. lines' \in Seq(Seq(Bytes)) /\ \A k \in DOMAIN lines' : lines'[k] \in Seq(Bytes) /\ lines'[k] # <<>>
    <3>1. <<>> \in Seq(Seq(Bytes)) /\ DOMAIN <<>> = {}
      OBVIOUS
    <3>2. lines \in Seq(Seq(Bytes)) /\ \A k \in DOMAIN lines : lines[k] \in Seq(Bytes) /\ lines[k] # <<>>
      BY DEF TypeOK
    <3>. QED BY <2>3, <3>1, <3>2
  <2>5. pc' \in {"answer", pc} /\ up' \in BOOLEAN
    BY <1>5 DEF Upgrade
  <2>6. request' = request /\ asked' = asked /\ want' = want /\ coming' = coming /\ cuts' = cuts
        /\ inbox' = inbox /\ cut' = cut
    BY <1>5 DEF Upgrade, frameVars
  <2>. QED BY <1>0, <2>2, <2>4, <2>5, <2>6 DEF TypeOK
<1>6. CASE Close
  BY <1>0, <1>6 DEF Close, TypeOK, readVars, frameVars
<1>7. CASE SendFrame
  <2>1. asked' \in 1 .. Len(Frames) /\ asked' = asked + 1 /\ asked' \in 0 .. Len(Frames)
    BY <1>7, ConnectionAssumption DEF SendFrame, TypeOK, frameVars
  <2>2. Frames[asked'] \in DOMAIN Size
    BY <2>1, ConnectionAssumption
  <2>3. BytesOf(Frames[asked + 1]) \in Seq(Bytes)
    BY <2>1, <2>2, BytesOfType
  <2>4. coming' \in Seq(Bytes)
    BY <1>7, <2>3, ConcatProperties DEF SendFrame
  <2>. QED BY <1>0, <1>7, <2>1, <2>4 DEF SendFrame, TypeOK, frameVars
<1>8. CASE ReadHeader
  <2>1. inbox' \in Seq(Bytes)
    BY <1>8 DEF ReadHeader, From, Lesser
  <2>2. want' \in Seq(Nat)
    BY <1>8, CallsType DEF ReadHeader, Refused, Missized
  <2>3. pc' \in {"frame", "length", pc} /\ up' \in BOOLEAN /\ cut' \in BOOLEAN
    BY <1>8 DEF ReadHeader, Refused, Missized, TypeOK
  <2>4. buf' = buf /\ lines' = lines /\ request' = request /\ asked' = asked /\ coming' = coming /\ cuts' = cuts
    BY <1>8 DEF ReadHeader, readVars
  <2>. QED BY <1>0, <2>1, <2>2, <2>3, <2>4 DEF TypeOK
<1>9. CASE ReadPart
  <2>1. Head(want) \in Nat /\ want' \in Seq(Nat)
    BY <1>9 DEF ReadPart
  <2>2. inbox' \in Seq(Bytes) /\ cut' \in BOOLEAN
    BY <1>9, <2>1 DEF ReadPart, From, Lesser
  <2>. QED BY <1>0, <1>9, <2>1, <2>2 DEF ReadPart, TypeOK, readVars
<1>10. CASE Dispatch
  <2>1. /\ UNCHANGED <<readVars, want, coming, cuts, inbox, up, cut>>
        /\ pc' \in {"poll", "answer"}
    BY <1>10 DEF Dispatch
  <2>. QED BY <1>0, <2>1 DEF TypeOK, readVars
<1>11. CASE Answered
  BY <1>0, <1>11 DEF Answered, TypeOK, readVars, frameVars
<1>12. CASE ClientReads
  BY <1>0, <1>12 DEF ClientReads, TypeOK, readVars, frameVars
<1>13. ASSUME NEW w \in Writers, WriteStep(w) \/ Broadcast(w) PROVE ConnectionInv'
  BY <1>0, <1>13 DEF WriteStep, Broadcast, TypeOK, readVars, frameVars
<1>14. CASE UNCHANGED vars
  BY <1>0, <1>14 DEF vars, TypeOK, readVars, frameVars
<1>15. CASE ReadLength
  <2>1. inbox' \in Seq(Bytes)
    BY <1>15 DEF ReadLength, From, Lesser
  <2>2. want' \in Seq(Nat)
    BY <1>15, CallsType DEF ReadLength, Missized, LengthOfFrame
  <2>3. pc' = "frame" /\ up' \in BOOLEAN /\ cut' \in BOOLEAN
    BY <1>15 DEF ReadLength, Missized, TypeOK
  <2>4. buf' = buf /\ lines' = lines /\ request' = request /\ asked' = asked /\ coming' = coming /\ cuts' = cuts
    BY <1>15 DEF ReadLength, readVars
  <2>. QED BY <1>0, <2>1, <2>2, <2>3, <2>4 DEF TypeOK
<1>. QED BY <1>1, <1>2, <1>3, <1>4, <1>5, <1>6, <1>7, <1>8, <1>9, <1>10, <1>11, <1>12, <1>13, <1>14, <1>15
     DEF Next, Handle

(* The variables of a connection have their types: the writes of the reader *)
(* stay in its buffer and leave the last byte NUL (buffered-reader.c:21), a *)
(* line is never empty, the wire holds no more than the socket buffer.      *)
THEOREM ConnectionTypes == Spec => []TypeOK
<1>1. Init => ConnectionInv /\ WireInv
  BY TypesHold, WireStarts DEF Init
<1>2. ConnectionInv /\ WireInv /\ [Next]_vars => (ConnectionInv /\ WireInv)'
  BY TypesKept, WireOnly, WireKept
<1>3. ConnectionInv => TypeOK
  BY DEF ConnectionInv
<1>. QED BY <1>1, <1>2, <1>3, PTL DEF Spec

----------------------------------------------------------------------------

(* Where a line lies among the bytes of the first m.                        *)
LEMMA LineAt ==
  ASSUME NEW kinds \in Seq(DOMAIN Size), NEW m \in 0 .. Len(kinds), NEW k \in 0 .. m - 1
  PROVE  /\ Len(UpTo(kinds)[k]) \in Nat /\ Len(UpTo(kinds)[m]) \in Nat
         /\ Len(UpTo(kinds)[k + 1]) = Len(UpTo(kinds)[k]) + Size[kinds[k + 1]]
         /\ Len(UpTo(kinds)[k + 1]) <= Len(UpTo(kinds)[m])
         /\ \A j \in 1 .. Size[kinds[k + 1]] :
               UpTo(kinds)[m][Len(UpTo(kinds)[k]) + j] = <<kinds[k + 1], j>>
<1> DEFINE U == UpTo(kinds)
           L == Len(kinds)
           At(n, l) == /\ Len(U[l + 1]) = Len(U[l]) + Size[kinds[l + 1]]
                       /\ Len(U[l + 1]) <= Len(U[n])
                       /\ \A j \in 1 .. Size[kinds[l + 1]] :
                             U[n][Len(U[l]) + j] = <<kinds[l + 1], j>>
           S == {n \in Nat : n <= L => \A l \in 0 .. n - 1 : At(n, l)}
<1>1. /\ L \in Nat /\ \A n \in 0 .. L : U[n] \in Seq(Bytes) /\ Len(U[n]) \in Nat
      /\ \A n \in 0 .. L - 1 : U[n + 1] = U[n] \o BytesOf(kinds[n + 1])
  <2>1. \A q \in Seq(Bytes) : Len(q) \in Nat
    OBVIOUS
  <2>2. L \in Nat
    OBVIOUS
  <2>3. /\ \A n \in 0 .. L : U[n] \in Seq(Bytes)
        /\ \A n \in 0 .. L - 1 : U[n + 1] = U[n] \o BytesOf(kinds[n + 1])
    BY UpToType, Zenon
  <2> HIDE DEF U, L
  <2>. QED BY <2>1, <2>2, <2>3
<1>2. \A n \in 1 .. L : kinds[n] \in DOMAIN Size
  OBVIOUS
<1> HIDE DEF U, L
<1>3. S = Nat
  <2>1. 0 \in S
    OBVIOUS
  <2>2. ASSUME NEW n \in S PROVE n + 1 \in S
    <3>0. n \in Nat /\ n + 1 \in Nat
      OBVIOUS
    <3>1. SUFFICES ASSUME n + 1 <= L, NEW l \in 0 .. n + 1 - 1 PROVE At(n + 1, l)
      BY <3>0
    <3> DEFINE B == BytesOf(kinds[n + 1])
               s == Size[kinds[n + 1]]
    <3>2. n \in 0 .. L - 1 /\ n \in 0 .. L /\ n + 1 \in 1 .. L /\ l \in 0 .. L /\ n <= L
      BY <3>0, <3>1, <1>1
    <3>3. /\ B \in Seq(Bytes) /\ Len(B) = s /\ s \in Nat
          /\ \A j \in 1 .. s : B[j] = <<kinds[n + 1], j>>
      BY <3>2, <1>2, BytesOfType, SizeType
    <3>4. U[n + 1] = U[n] \o B /\ U[n] \in Seq(Bytes) /\ Len(U[n]) \in Nat /\ Len(U[l]) \in Nat
      BY <3>2, <1>1
    <3> HIDE DEF B, s
    <3>5. /\ Len(U[n + 1]) = Len(U[n]) + s
          /\ \A i \in 1 .. Len(U[n]) + s :
                U[n + 1][i] = IF i <= Len(U[n]) THEN U[n][i] ELSE B[i - Len(U[n])]
      <4>1. /\ Len(U[n] \o B) = Len(U[n]) + Len(B)
            /\ \A i \in 1 .. Len(U[n]) + Len(B) :
                  (U[n] \o B)[i] = IF i <= Len(U[n]) THEN U[n][i] ELSE B[i - Len(U[n])]
        BY <3>3, <3>4, ConcatProperties, Zenon
      <4>. QED BY <4>1, <3>3, <3>4
    <3>6. CASE l = n
      <4>1. ASSUME NEW j \in 1 .. s PROVE U[n + 1][Len(U[n]) + j] = <<kinds[n + 1], j>>
        <5>1. Len(U[n]) + j \in 1 .. Len(U[n]) + s /\ ~(Len(U[n]) + j <= Len(U[n]))
              /\ Len(U[n]) + j - Len(U[n]) = j
          <6> DEFINE b == Len(U[n])
          <6>1. b \in Nat /\ s \in Nat /\ j \in 1 .. s
            BY <4>1, <3>3, <3>4
          <6> HIDE DEF b
          <6>2. b + j \in 1 .. b + s /\ ~(b + j <= b) /\ b + j - b = j
            BY <6>1
          <6>. QED BY <6>2 DEF b
        <5>2. U[n + 1][Len(U[n]) + j] = B[Len(U[n]) + j - Len(U[n])]
          BY <5>1, <3>5
        <5>. QED BY <5>1, <5>2, <3>3
      <4>2. Size[kinds[l + 1]] = s
        BY <3>6 DEF s
      <4>3. Len(U[l + 1]) = Len(U[l]) + s /\ Len(U[l + 1]) <= Len(U[n + 1])
        <5>1. Len(U[n + 1]) \in Nat /\ Len(U[n + 1]) = Len(U[n]) + s
          BY <3>3, <3>4, <3>5
        <5>. QED BY <5>1, <3>6
      <4>4. \A j \in 1 .. s : U[n + 1][Len(U[l]) + j] = <<kinds[l + 1], j>>
        BY <4>1, <3>6
      <4>. QED BY <4>2, <4>3, <4>4
    <3>7. CASE l # n
      <4>1. l \in 0 .. n - 1 /\ l + 1 \in 1 .. L
        <5>1. n \in Int /\ l \in Int /\ 0 <= l /\ l <= n /\ l # n /\ L \in Int /\ n + 1 <= L
          BY <3>7, <3>0, <3>1, <1>1
        <5>. QED BY <5>1
      <4>2. At(n, l)
        BY <4>1, <3>2
      <4>3. Size[kinds[l + 1]] \in Nat
        BY <4>1, <1>2, SizeType
      <4>4. ASSUME NEW j \in 1 .. Size[kinds[l + 1]]
            PROVE  U[n + 1][Len(U[l]) + j] = <<kinds[l + 1], j>>
        <5>1. Len(U[l]) + j \in 1 .. Len(U[n]) + s /\ Len(U[l]) + j <= Len(U[n])
          <6> DEFINE a == Len(U[l])
                     b == Len(U[n])
                     z == Size[kinds[l + 1]]
          <6>1. a \in Nat /\ b \in Nat /\ z \in Nat /\ s \in Nat /\ a + z <= b /\ j \in 1 .. z
            BY <4>2, <4>3, <4>4, <3>3, <3>4
          <6> HIDE DEF a, b, z
          <6>2. a + j \in 1 .. b + s /\ a + j <= b
            BY <6>1
          <6>. QED BY <6>2 DEF a, b
        <5>. QED BY <5>1, <4>2, <4>4, <3>5
      <4>5. Len(U[l + 1]) <= Len(U[n + 1]) /\ Len(U[l + 1]) = Len(U[l]) + Size[kinds[l + 1]]
        BY <4>2, <4>3, <3>3, <3>4, <3>5
      <4>. QED BY <4>4, <4>5
    <3>. QED BY <3>6, <3>7
  <2> HIDE DEF S
  <2>3. S \in SUBSET Nat
    BY DEF S
  <2>. QED BY <2>1, <2>2, <2>3, Induct
<1>4. m \in S /\ m <= L /\ m \in 0 .. L /\ k \in 0 .. L
  <2>1. m \in S
    <3> HIDE DEF S
    <3>1. m \in Nat
      OBVIOUS
    <3>. QED BY <3>1, <1>3
  <2>2. m \in 0 .. L /\ k \in 0 .. m - 1 /\ L \in Nat
    <3>1. m \in 0 .. L
      BY DEF L
    <3>. QED BY <3>1, <1>1
  <2> HIDE DEF S
  <2>. QED BY <2>1, <2>2
<1>5. At(m, k)
  BY <1>4
<1>. QED BY <1>1, <1>4, <1>5 DEF U

----------------------------------------------------------------------------

(* Reading a request.  None has been answered: nothing is on the wire.      *)
Unanswered == packets = <<>> /\ ~begun /\ out = <<>> /\ \A w \in Writers : ~Writing(w)

Asked == AllBytes(request)
Start(k) == Len(UpTo(request)[k])

(* Nothing has been read.                                                   *)
UnderWay ==
    /\ lines = <<>> /\ buf = EmptyBuffer
    /\ Len(inbox) + Len(coming) = Len(Asked)
    /\ \A k \in 1 .. Len(inbox) : Asked[k] = inbox[k]
    /\ \A k \in 1 .. Len(coming) : Asked[Len(inbox) + k] = coming[k]

(* All has been read; the lines not returned yet are at the front of the    *)
(* buffer.                                                                  *)
Held ==
    /\ inbox = <<>> /\ coming = <<>>
    /\ Len(Asked) - Start(Len(lines)) <= N - 1
    /\ \A j \in 0 .. Len(Asked) - Start(Len(lines)) - 1 :
          buf[j] = Asked[Start(Len(lines)) + j + 1]

ReaderInv ==
    /\ WholeIsExact
    /\ pc \in {"route", "headers", "decide"} => Unanswered
    /\ pc \in {"route", "headers"} /\ ~cut =>
          /\ Len(lines) < Len(request) /\ (pc = "route" => lines = <<>>)
          /\ UnderWay \/ Held
    /\ pc = "decide" /\ ~cut => Len(lines) = Len(request) /\ inbox = <<>> /\ coming = <<>>

LEMMA RequestType ==
  ASSUME request \in Requests
  PROVE  /\ request \in Seq(DOMAIN Size) /\ IsRequest(request) /\ Asked \in Seq(Bytes)
         /\ Len(request) \in Nat /\ Len(request) >= 2 /\ Len(Asked) \in Nat
  BY ConnectionAssumption, AllBytesType DEF IsRequest, Asked

LEMMA ReadingStarts == Init => ReaderInv
<1> SUFFICES ASSUME Init PROVE ReaderInv
  OBVIOUS
<1>1. /\ request \in Requests /\ coming = Asked /\ inbox = <<>> /\ Len(inbox) = 0 /\ lines = <<>>
      /\ Len(lines) = 0 /\ DOMAIN lines = {} /\ buf = EmptyBuffer /\ pc = "route"
  BY DEF Init, Asked
<1>2. Len(Asked) \in Nat /\ Len(request) >= 2 /\ Len(request) \in Nat
  BY <1>1, RequestType
<1>3. UnderWay
  <2>1. \A k \in 1 .. Len(inbox) : FALSE
    BY <1>1
  <2>2. \A k \in 1 .. Len(Asked) : Len(inbox) + k = k
    BY <1>1, <1>2
  <2>. QED BY <1>1, <1>2, <2>1, <2>2 DEF UnderWay
<1>4. Unanswered
  BY DEF Init, WireInit, Unanswered, Writing
<1>5. WholeIsExact
  BY <1>1, <1>2 DEF WholeIsExact
<1>. QED BY <1>1, <1>2, <1>3, <1>4, <1>5 DEF ReaderInv

(* The network goes on.                                                     *)
LEMMA ReadingArrives == ReaderInv /\ ConnectionInv /\ Arrive => ReaderInv'
<1> SUFFICES ASSUME ReaderInv, ConnectionInv, Arrive PROVE ReaderInv'
  OBVIOUS
<1>1. /\ request' = request /\ lines' = lines /\ buf' = buf /\ pc' = pc /\ cut' = cut
      /\ packets' = packets /\ UNCHANGED wireVars /\ coming # <<>>
  BY DEF Arrive, readVars, frameVars
<1>2. PICK n \in 1 .. Len(coming) :
        /\ inbox' = inbox \o SubSeq(coming, 1, n)
        /\ coming' = SubSeq(coming, n + 1, Len(coming))
  BY DEF Arrive
<1>3. inbox \in Seq(Bytes) /\ coming \in Seq(Bytes) /\ Len(inbox) \in Nat /\ Len(coming) \in Nat
  BY DEF ConnectionInv
<1>4. /\ Len(coming') = Len(coming) - n
      /\ \A k \in 1 .. Len(coming) - n : coming'[k] = coming[n + k]
  <2>1. n + 1 \in 1 .. Len(coming) + 1
    BY <1>3
  <2>2. /\ Len(coming') = Len(coming) - (n + 1) + 1
        /\ \A k \in 1 .. Len(coming) - (n + 1) + 1 : coming'[k] = coming[n + 1 + k - 1]
    BY <1>2, <1>3, <2>1, SubSeqProperties
  <2>3. \A k \in 1 .. Len(coming) - n : n + 1 + k - 1 = n + k
    BY <1>3
  <2>4. Len(coming) - (n + 1) + 1 = Len(coming) - n
    BY <1>3
  <2>. QED BY <2>2, <2>3, <2>4
<1>5. /\ Len(inbox') = Len(inbox) + n
      /\ \A k \in 1 .. Len(inbox) : inbox'[k] = inbox[k]
      /\ \A k \in Len(inbox) + 1 .. Len(inbox) + n : inbox'[k] = coming[k - Len(inbox)]
  <2> DEFINE piece == SubSeq(coming, 1, n)
  <2>1. piece \in Seq(Bytes) /\ Len(piece) = n /\ \A k \in 1 .. n : piece[k] = coming[k]
    BY <1>3
  <2> HIDE DEF piece
  <2>2. /\ Len(inbox \o piece) = Len(inbox) + n
        /\ \A k \in 1 .. Len(inbox) + n :
              (inbox \o piece)[k] = IF k <= Len(inbox) THEN inbox[k] ELSE piece[k - Len(inbox)]
    BY <1>3, <2>1, ConcatProperties
  <2>3. \A k \in Len(inbox) + 1 .. Len(inbox) + n : k - Len(inbox) \in 1 .. n
    BY <1>3
  <2>4. inbox' = inbox \o piece
    BY <1>2 DEF piece
  <2>. QED BY <1>3, <2>1, <2>2, <2>3, <2>4
<1>6. ASSUME UnderWay PROVE UnderWay'
  <2>1. Asked' = Asked /\ Len(Asked) = Len(inbox) + Len(coming)
    BY <1>1, <1>6 DEF Asked, UnderWay
  <2>2. Len(inbox') + Len(coming') = Len(Asked')
    BY <2>1, <1>3, <1>4, <1>5
  <2>3. ASSUME NEW k \in 1 .. Len(inbox') PROVE Asked[k] = inbox'[k]
    <3>1. CASE k <= Len(inbox)
      <4>1. k \in 1 .. Len(inbox)
        BY <3>1, <2>3, <1>3, <1>5
      <4>. QED BY <4>1, <1>5, <1>6 DEF UnderWay
    <3>2. CASE ~(k <= Len(inbox))
      <4>1. PICK l \in 1 .. n : l = k - Len(inbox) /\ k = Len(inbox) + l
        BY <3>2, <2>3, <1>3, <1>5
      <4>2. l \in 1 .. Len(coming) /\ k \in Len(inbox) + 1 .. Len(inbox) + n
        BY <4>1, <1>3
      <4>. QED BY <4>1, <4>2, <1>5, <1>6 DEF UnderWay
    <3>. QED BY <3>1, <3>2
  <2>4. ASSUME NEW k \in 1 .. Len(coming') PROVE Asked[Len(inbox') + k] = coming'[k]
    <3>1. n + k \in 1 .. Len(coming) /\ Len(inbox') + k = Len(inbox) + (n + k) /\ k \in 1 .. Len(coming) - n
      BY <2>4, <1>3, <1>4, <1>5
    <3>2. Asked[Len(inbox) + (n + k)] = coming[n + k]
      BY <3>1, <1>6 DEF UnderWay
    <3>. QED BY <3>1, <3>2, <1>4
  <2>. QED BY <2>1, <2>2, <2>3, <2>4, <1>1, <1>6 DEF UnderWay
<1>7. ~Held
  BY <1>1 DEF Held
<1>8. WholeIsExact'
  BY <1>1 DEF ReaderInv, WholeIsExact
<1>9. Unanswered' <=> Unanswered
  BY <1>1 DEF Unanswered, wireVars, clientVars, Writing
<1>. QED BY <1>1, <1>6, <1>7, <1>8, <1>9 DEF ReaderInv

(* The read that finds the request.                                         *)
LEMMA ReadingFills == ReaderInv /\ ConnectionInv /\ Fill => ReaderInv'
<1> SUFFICES ASSUME ReaderInv, ConnectionInv, Fill PROVE ReaderInv'
  OBVIOUS
<1> DEFINE n == Lesser(Room(0), Len(inbox))
<1>1. /\ request' = request /\ lines' = lines /\ pc' = pc /\ coming' = coming
      /\ packets' = packets /\ UNCHANGED wireVars /\ inbox # <<>> /\ pc \in {"route", "headers"}
      /\ buf' = br_read(buf, 0, inbox, n) /\ inbox' = From(n)
      /\ cut' = (cut \/ (n > 0 /\ coming # <<>>) \/ n < Len(inbox))
  BY DEF Fill, Take, Reading, frameVars
<1>2. inbox \in Seq(Bytes) /\ Len(inbox) \in Nat /\ Len(inbox) > 0 /\ N \in Nat /\ N >= 3
  BY <1>1, ReaderAssumption DEF ConnectionInv
<1>3. n \in Nat /\ n > 0 /\ n <= Len(inbox) /\ n <= N - 1
  BY <1>2 DEF Lesser, Room
<1> HIDE DEF n
<1>4. WholeIsExact'
  BY <1>1 DEF ReaderInv, WholeIsExact
<1>5. Unanswered'
  BY <1>1 DEF ReaderInv, Unanswered, wireVars, clientVars, Writing
<1>6. ASSUME ~cut'
      PROVE  Len(lines') < Len(request') /\ (pc' = "route" => lines' = <<>>) /\ Held'
  <2>1. ~cut /\ coming = <<>> /\ n = Len(inbox)
    <3>1. ~cut /\ ~(n > 0 /\ coming # <<>>) /\ ~(n < Len(inbox))
      BY <1>6, <1>1, Zenon
    <3>. QED BY <3>1, <1>2, <1>3
  <2>2. Len(lines) < Len(request) /\ (pc = "route" => lines = <<>>) /\ UnderWay
    BY <2>1, <1>1 DEF ReaderInv, Held
  <2>3. Len(Asked) = Len(inbox) /\ Start(0) = 0 /\ Len(lines) = 0
    <3>1. Len(coming) = 0 /\ Len(lines) = 0
      BY <2>1, <2>2 DEF UnderWay
    <3>2. UpTo(request)[0] = <<>>
      BY UpToType, RequestType DEF ConnectionInv, TypeOK
    <3>. QED BY <3>1, <3>2, <2>2, <1>2 DEF UnderWay, Start
  <2>4. inbox' = <<>>
    BY <2>1, <1>1, <1>2 DEF From
  <2>5. ASSUME NEW j \in 0 .. Len(Asked) - 1 PROVE buf'[j] = Asked[j + 1]
    <3>1. j \in 0 .. N - 1 /\ 0 <= j /\ j < 0 + n /\ j - 0 + 1 = j + 1 /\ j + 1 \in 1 .. Len(inbox)
      BY <2>5, <2>1, <2>3, <1>2, <1>3
    <3>2. buf'[j] = inbox[j + 1]
      BY <3>1, <1>1 DEF br_read
    <3>3. Asked[j + 1] = inbox[j + 1]
      BY <3>1, <2>2 DEF UnderWay
    <3>. QED BY <3>2, <3>3
  <2>6. Asked' = Asked /\ Start(0)' = Start(0) /\ Len(lines') = 0 /\ Start(Len(lines))' = 0
    BY <2>3, <1>1 DEF Asked, Start
  <2>7. Len(Asked) - 0 <= N - 1 /\ Len(Asked) - 0 - 1 = Len(Asked) - 1
        /\ \A j \in 0 .. Len(Asked) - 1 : 0 + j + 1 = j + 1
    BY <2>1, <2>3, <1>2, <1>3
  <2>8. Held'
    BY <2>1, <2>4, <2>5, <2>6, <2>7, <1>1 DEF Held
  <2>. QED BY <2>2, <2>8, <1>1
<1>7. pc' \in {"route", "headers"} /\ pc' # "decide"
  BY <1>1
<1>. QED BY <1>4, <1>5, <1>6, <1>7 DEF ReaderInv

(* The line at the front of the buffer is the next of the request.          *)
LEMMA FrontLine ==
  ASSUME ConnectionInv, Held, Len(lines) < Len(request), NEW i \in 1 .. N - 1, LineEnd(buf, i)
  PROVE  /\ Len(lines) + 1 \in DOMAIN request /\ request[Len(lines) + 1] \in DOMAIN Size
         /\ i = Size[request[Len(lines) + 1]] - 1 /\ i <= N - 2
         /\ Line(buf, i) = BytesOf(request[Len(lines) + 1])
         /\ Start(Len(lines) + 1) = Start(Len(lines)) + i + 1
         /\ Start(Len(lines)) \in Nat /\ Start(Len(lines) + 1) <= Len(Asked)
         /\ buf[0] = <<request[Len(lines) + 1], 1>>
<1> DEFINE k == Len(lines)
           kind == request[k + 1]
           s == Size[kind]
<1>1. /\ request \in Seq(DOMAIN Size) /\ IsRequest(request) /\ Len(request) \in Nat
      /\ Len(Asked) \in Nat /\ k \in Nat /\ lines \in Seq(Seq(Bytes)) /\ buf \in Buffers
  BY RequestType DEF ConnectionInv, TypeOK
<1>2. k + 1 \in DOMAIN request /\ k \in 0 .. Len(request) - 1 /\ Len(request) \in 0 .. Len(request)
  BY <1>1
<1>3. kind \in DOMAIN Size
  BY <1>1, <1>2
<1> HIDE DEF k
<1>4. s \in Nat /\ s >= 2
  BY <1>3, SizeType
<1>5. /\ Start(k) \in Nat /\ Start(k + 1) = Start(k) + s /\ Start(k + 1) <= Len(Asked)
      /\ \A j \in 1 .. s : Asked[Start(k) + j] = <<kind, j>>
  BY <1>1, <1>2, LineAt DEF Start, Asked, AllBytes
<1> HIDE DEF kind, s
<1>6. ASSUME NEW j \in 0 .. s - 1 PROVE buf[j] = <<kind, j + 1>>
  <2>1. j \in 0 .. Len(Asked) - Start(k) - 1 /\ j + 1 \in 1 .. s /\ Start(k) + j + 1 = Start(k) + (j + 1)
    <3>1. PICK start \in Nat, all \in Nat : start = Start(k) /\ all = Len(Asked) /\ start + s <= all
      BY <1>4, <1>5
    <3>2. j \in 0 .. all - start - 1 /\ j + 1 \in 1 .. s /\ start + j + 1 = start + (j + 1)
      BY <1>4, <3>1
    <3>. QED BY <3>1, <3>2, Zenon
  <2>2. buf[j] = Asked[Start(k) + j + 1]
    BY <2>1 DEF Held, k
  <2>. QED BY <2>1, <2>2, <1>5
<1>7. \A j \in 1 .. s : <<kind, j>> \in Bytes /\ (<<kind, j>> \in Newlines <=> j = s)
  BY <1>1, <1>2, <1>3, ConnectionAssumption DEF IsRequest, kind, s
<1>8. N \in Nat /\ N >= 3 /\ NUL \notin Bytes
  BY ReaderAssumption
<1>9. i = s - 1
  <2>1. s - 1 \in 0 .. s - 1 /\ s - 1 + 1 = s /\ s \in 1 .. s
    BY <1>4
  <2>2. buf[s - 1] \in Newlines
    <3>1. buf[s - 1] = <<kind, s - 1 + 1>>
      BY <2>1, <1>6
    <3>. QED BY <3>1, <2>1, <1>7
  <2>3. ~(s - 1 < i)
    <3>1. SUFFICES ASSUME s - 1 < i PROVE FALSE
      OBVIOUS
    <3>2. s - 1 \in 0 .. i - 1
      BY <3>1, <1>4
    <3>. QED BY <3>2, <2>2 DEF LineEnd
  <2>4. ~(i < s - 1)
    <3>1. SUFFICES ASSUME i < s - 1 PROVE FALSE
      OBVIOUS
    <3>2. i \in 0 .. s - 1 /\ i + 1 \in 1 .. s /\ i + 1 # s
      BY <3>1, <1>4
    <3>3. buf[i] = <<kind, i + 1>> /\ <<kind, i + 1>> \in Bytes /\ <<kind, i + 1>> \notin Newlines
      BY <3>2, <1>6, <1>7
    <3>. QED BY <3>3, <1>8 DEF LineEnd
  <2>. QED BY <2>3, <2>4, <1>4
<1>10. Line(buf, i) = BytesOf(kind)
  <2>1. buf[i] = <<kind, i + 1>> /\ i + 1 \in 1 .. s /\ i + 1 = s
    BY <1>4, <1>6, <1>9
  <2>2. buf[i] # NUL
    BY <2>1, <1>7, <1>8
  <2>3. LineLength(buf, i) = s
    BY <2>1, <2>2 DEF LineLength
  <2>4. ASSUME NEW l \in 1 .. s PROVE buf[l - 1] = <<kind, l>>
    <3>1. l - 1 \in 0 .. s - 1 /\ l - 1 + 1 = l
      BY <1>4, <2>4
    <3>2. buf[l - 1] = <<kind, l - 1 + 1>>
      BY <3>1, <1>6
    <3>. QED BY <3>1, <3>2
  <2>. QED BY <2>3, <2>4 DEF Line, BytesOf, s
<1>11. buf[0] = <<kind, 1>> /\ Start(k + 1) = Start(k) + i + 1
  <2>1. 0 \in 0 .. s - 1 /\ 0 + 1 = 1
    BY <1>4
  <2>2. buf[0] = <<kind, 0 + 1>>
    BY <2>1, <1>6
  <2>. QED BY <2>2, <1>4, <1>5, <1>9
<1>12. i <= N - 2
  <2>1. Len(Asked) - Start(k) <= N - 1
    BY DEF Held, k
  <2>. QED BY <2>1, <1>1, <1>4, <1>5, <1>8, <1>9
<1>. QED BY <1>2, <1>3, <1>5, <1>9, <1>10, <1>11, <1>12 DEF k, kind, s

LEMMA ReadingReads == ReaderInv /\ ConnectionInv /\ ReadLine => ReaderInv'
<1> SUFFICES ASSUME ReaderInv, ConnectionInv, ReadLine PROVE ReaderInv'
  OBVIOUS
<1>1. PICK i \in 1 .. N - 2 :
        /\ LineEnd(buf, i)
        /\ Take(N - i - 2, Shift(buf, i))
        /\ lines' = Append(lines, Line(buf, i))
  BY DEF ReadLine
<1> DEFINE n == Lesser(Room(N - i - 2), Len(inbox))
           k == Len(lines)
<1>2. /\ request' = request /\ coming' = coming /\ packets' = packets /\ UNCHANGED wireVars
      /\ pc \in {"route", "headers"}
      /\ pc' = IF pc = "headers" /\ CR(buf[0]) THEN "decide" ELSE "headers"
      /\ buf' = br_read(Shift(buf, i), N - i - 2, inbox, n) /\ inbox' = From(n)
      /\ cut' = (cut \/ (n > 0 /\ coming # <<>>) \/ n < Len(inbox))
  BY <1>1 DEF ReadLine, Take, Reading, frameVars
<1>3. N \in Nat /\ N >= 3 /\ inbox \in Seq(Bytes) /\ lines \in Seq(Seq(Bytes)) /\ k \in Nat
  BY ReaderAssumption DEF ConnectionInv
<1>4. Unanswered'
  BY <1>2 DEF ReaderInv, Unanswered, wireVars, clientVars, Writing
<1>5. CASE cut'
  BY <1>4, <1>5 DEF ReaderInv, WholeIsExact
<1>6. CASE ~cut'
  <2>1. ~cut
    BY <1>6, <1>2, Zenon
  <2>2. Len(lines) < Len(request) /\ (pc = "route" => lines = <<>>) /\ (UnderWay \/ Held)
    BY <2>1, <1>2 DEF ReaderInv
  <2>3. Held
    <3>1. SUFFICES ASSUME UnderWay PROVE FALSE
      BY <2>2
    <3>2. buf[0] = NUL /\ 0 \in 0 .. i - 1
      BY <3>1, <1>3 DEF UnderWay, EmptyBuffer
    <3>. QED BY <3>2, <1>1 DEF LineEnd
  <2> DEFINE kind == request[k + 1]
  <2>4. /\ k + 1 \in DOMAIN request /\ kind \in DOMAIN Size /\ i = Size[kind] - 1
        /\ Line(buf, i) = BytesOf(kind) /\ Start(k + 1) = Start(k) + i + 1
        /\ Start(k) \in Nat /\ Start(k + 1) <= Len(Asked) /\ buf[0] = <<kind, 1>>
    <3>1. i \in 1 .. N - 1
      BY <1>3
    <3>. QED BY <3>1, <2>2, <2>3, <1>1, FrontLine
  <2>5. /\ request \in Seq(DOMAIN Size) /\ IsRequest(request) /\ Len(request) \in Nat
        /\ Len(request) >= 2 /\ Len(Asked) \in Nat
    BY RequestType DEF ConnectionInv, TypeOK
  <2>6. BytesOf(kind) \in Seq(Bytes) /\ Size[kind] \in Nat
    BY <2>4, BytesOfType, SizeType
  <2>7. n = 0 /\ inbox = <<>>
    BY <2>3, <1>3 DEF Held, Lesser, Room
  <2>8. buf' = Shift(buf, i)
    <3>1. buf' = br_read(Shift(buf, i), N - i - 2, inbox, 0)
      BY <1>2, <2>7
    <3>2. ASSUME NEW j \in 0 .. N - 1 PROVE ~(N - i - 2 <= j /\ j < N - i - 2 + 0)
      BY <1>3
    <3>3. br_read(Shift(buf, i), N - i - 2, inbox, 0) = [j \in 0 .. N - 1 |-> Shift(buf, i)[j]]
      BY <3>2 DEF br_read
    <3>. QED BY <3>1, <3>3 DEF Shift
  <2>9. inbox' = <<>> /\ coming' = <<>>
    BY <2>3, <2>7, <1>2 DEF Held, From
  <2>10. /\ lines' = Append(lines, BytesOf(kind)) /\ Len(lines') = k + 1
         /\ DOMAIN lines' = 1 .. k + 1 /\ DOMAIN lines = 1 .. k
         /\ \A l \in 1 .. k : lines'[l] = lines[l]
         /\ lines'[k + 1] = BytesOf(kind)
    <3> HIDE DEF kind
    <3>1. lines' = Append(lines, BytesOf(kind))
      BY <2>4, <1>1
    <3>2. BytesOf(kind) \in Seq(Bytes)
      BY <2>6
    <3>. QED BY <3>1, <3>2, <1>3
  <2> HIDE DEF k, n
  <2>11. WholeIsExact'
    <3>1. Len(lines') <= Len(request')
      BY <2>2, <2>5, <2>10, <1>2, <1>3 DEF k
    <3>2. ASSUME NEW l \in DOMAIN lines' PROVE lines'[l] = BytesOf(request[l])
      <4>1. CASE l = k + 1
        BY <4>1, <2>10
      <4>2. CASE l # k + 1
        <5>1. l \in 1 .. k
          BY <3>2, <4>2, <2>10, <1>3
        <5>. QED BY <5>1, <2>1, <2>10 DEF ReaderInv, WholeIsExact
      <4>. QED BY <4>1, <4>2
    <3>. QED BY <3>1, <3>2, <1>2 DEF WholeIsExact, BytesOf
  <2>12. Asked' = Asked /\ Start(Len(lines))' = Start(k + 1)
    BY <2>10, <1>2 DEF Asked, Start
  <2>13. Held'
    <3> DEFINE a == Len(Asked)
               b == Start(k)
    <3>0. a \in Nat /\ b \in Nat /\ i \in Nat /\ i >= 1 /\ a - b <= N - 1 /\ b + i + 1 <= a
          /\ Start(k + 1) = b + i + 1
          /\ \A j \in 0 .. a - b - 1 : buf[j] = Asked[b + j + 1]
      BY <2>3, <2>4, <2>5 DEF Held, k
    <3> HIDE DEF a, b
    <3>1. a - (b + i + 1) <= N - 1
      BY <3>0, <1>3
    <3>2. ASSUME NEW j \in 0 .. a - (b + i + 1) - 1 PROVE buf'[j] = Asked[b + i + 1 + j + 1]
      <4>1. /\ j \in 0 .. N - 1 /\ j + i <= N - 3 /\ j + i + 1 \in 0 .. a - b - 1
            /\ b + i + 1 + j + 1 = b + (j + i + 1) + 1
        BY <3>0, <3>2, <1>3
      <4>2. buf'[j] = buf[j + i + 1]
        BY <4>1, <2>8 DEF Shift
      <4>3. buf[j + i + 1] = Asked[b + (j + i + 1) + 1]
        BY <4>1, <3>0
      <4>. QED BY <4>1, <4>2, <4>3
    <3>. QED BY <3>0, <3>1, <3>2, <2>9, <2>12 DEF Held, a
  <2>14. CR(buf[0]) <=> Size[kind] = 2
    <3>1. 1 \in 1 .. Size[kind] /\ buf[0] = <<kind, 1>>
      BY <2>4, SizeType
    <3>2. Text[<<kind, 1>>] = "CR" <=> 1 = Size[kind] - 1
      BY <2>4, <2>5, <3>1 DEF IsRequest
    <3>. QED BY <2>6, <3>1, <3>2 DEF CR
  <2>15. ASSUME pc' = "decide" PROVE Len(lines') = Len(request')
    <3>1. CR(buf[0])
      BY <2>15, <1>2
    <3>2. Size[kind] = 2
      BY <3>1, <2>14
    <3>3. k + 1 = Len(request)
      BY <3>2, <2>4, <2>5 DEF IsRequest
    <3>. QED BY <3>3, <2>10, <1>2
  <2>16. ASSUME pc' \in {"route", "headers"} PROVE Len(lines') < Len(request') /\ pc' # "route"
    <3>1. pc' = "headers" /\ ~(pc = "headers" /\ CR(buf[0]))
      BY <2>16, <1>2
    <3>2. CASE pc = "route"
      <4>1. k = 0
        BY <3>2, <2>2 DEF k
      <4>. QED BY <4>1, <3>1, <2>5, <2>10, <1>2
    <3>3. CASE pc = "headers"
      <4>1. ~CR(buf[0])
        BY <3>1, <3>3
      <4>2. Size[kind] # 2
        BY <4>1, <2>14
      <4>3. k + 1 # Len(request)
        BY <4>2, <2>4, <2>5 DEF IsRequest
      <4>. QED BY <4>3, <3>1, <2>2, <2>5, <2>10, <1>2, <1>3 DEF k
    <3>. QED BY <3>2, <3>3, <1>2
  <2>. QED BY <2>9, <2>11, <2>13, <2>15, <2>16, <1>2, <1>4 DEF ReaderInv
<1>. QED BY <1>5, <1>6

(* The other steps leave the lines, and do not begin to read again.         *)
LEMMA ReadingKept == ReaderInv /\ ConnectionInv /\ [Next]_vars => ReaderInv'
<1> SUFFICES ASSUME ReaderInv, ConnectionInv, [Next]_vars PROVE ReaderInv'
  OBVIOUS
<1>1. CASE Arrive \/ Fill \/ ReadLine
  BY <1>1, ReadingArrives, ReadingFills, ReadingReads
<1>2. ASSUME request' = request, lines' = lines \/ lines' = <<>>, cut => cut',
             pc' \notin {"route", "headers", "decide"}
      PROVE  ReaderInv'
  <2>1. DOMAIN <<>> = {} /\ Len(<<>>) = 0
    OBVIOUS
  <2>2. Len(request) \in Nat
    BY RequestType DEF ConnectionInv, TypeOK
  <2>. QED BY <1>2, <2>1, <2>2 DEF ReaderInv, WholeIsExact
<1>3. CASE (Upgrade /\ pc' # pc) \/ Close \/ ReadHeader \/ ReadLength \/ ReadPart \/ Dispatch \/ Answered
  <2>1. request' = request /\ (lines' = lines \/ lines' = <<>>) /\ (cut => cut')
    <3>1. CASE Upgrade \/ Close
      BY <3>1 DEF Upgrade, Close, readVars
    <3>2. CASE ReadHeader \/ ReadLength
      BY <3>2 DEF ReadHeader, ReadLength, readVars
    <3>3. CASE ReadPart
      <4>1. UNCHANGED readVars /\ (cut => cut')
        BY <3>3 DEF ReadPart
      <4>. QED BY <4>1 DEF readVars
    <3>4. CASE Dispatch \/ Answered
      BY <3>4 DEF Dispatch, Answered, readVars
    <3>. QED BY <1>3, <3>1, <3>2, <3>3, <3>4
  <2>2. pc' \notin {"route", "headers", "decide"}
    BY <1>3 DEF Upgrade, Close, ReadHeader, ReadLength, Refused, Missized, ReadPart, Dispatch, Answered
  <2>. QED BY <1>2, <2>1, <2>2
<1>4. CASE (Upgrade /\ pc' = pc) \/ TooLong \/ SendFrame \/ ClientReads
           \/ (\E w \in Writers : WriteStep(w) \/ Broadcast(w)) \/ UNCHANGED vars
  <2>1. /\ request' = request /\ lines' = lines /\ cut' = cut /\ pc' = pc /\ buf' = buf
        /\ inbox' = inbox
    BY <1>4
    DEF Upgrade, TooLong, SendFrame, ClientReads, WriteStep, Broadcast, vars, readVars
  <2>2. CASE pc \notin {"route", "headers", "decide"}
    BY <1>2, <2>1, <2>2
  <2>3. CASE pc \in {"route", "headers", "decide"}
    <3>1. Unanswered
      BY <2>3 DEF ReaderInv
    <3>2. ~SendFrame /\ ~ClientReads /\ \A w \in Writers : ~WriteStep(w) /\ ~Broadcast(w)
      BY <3>1
      DEF Unanswered, SendFrame, ClientReads, Drain, WriteStep, Broadcast, Write, WriteReturns
    <3>3. coming' = coming /\ packets' = packets /\ UNCHANGED wireVars
      BY <3>2, <1>4 DEF Upgrade, TooLong, vars, frameVars
    <3>4. Unanswered'
      BY <3>1, <3>3 DEF Unanswered, wireVars, clientVars, Writing
    <3>. QED BY <3>3, <3>4, <2>1
         DEF ReaderInv, WholeIsExact, UnderWay, Held, Asked, Start
  <2>. QED BY <2>2, <2>3
<1>. QED BY <1>1, <1>3, <1>4 DEF Next, Handle

(* A request that has arrived before the reader looks is read as the lines  *)
(* it consists of (br_read_line, buffered-reader.c:38), for every size of   *)
(* the buffer and every request: the bytes that the shifts leave behind are *)
(* never taken for a line.                                                  *)
THEOREM LinesExact == Spec => []WholeIsExact
<1>1. Init => ReaderInv /\ ConnectionInv /\ WireInv
  BY ReadingStarts, TypesHold, WireStarts DEF Init
<1>2. ReaderInv /\ ConnectionInv /\ WireInv /\ [Next]_vars => (ReaderInv /\ ConnectionInv /\ WireInv)'
  BY ReadingKept, TypesKept, WireOnly, WireKept
<1>3. ReaderInv => WholeIsExact
  BY DEF ReaderInv
<1>. QED BY <1>1, <1>2, <1>3, PTL DEF Spec


----------------------------------------------------------------------------

Deciding == pc \in {"route", "headers", "decide"}

LEMMA ExactLines ==
  ASSUME ReaderInv, ConnectionInv, ~cut, pc = "decide"
  PROVE  /\ DOMAIN lines = 1 .. Len(request) /\ DOMAIN request = 1 .. Len(request)
         /\ \A k \in DOMAIN request :
               /\ request[k] \in DOMAIN Size /\ lines[k] = BytesOf(request[k])
               /\ lines[k][1] = <<request[k], 1>>
<1>1. Len(lines) = Len(request) /\ lines \in Seq(Seq(Bytes)) /\ request \in Seq(DOMAIN Size)
  BY RequestType DEF ReaderInv, ConnectionInv, TypeOK
<1>2. DOMAIN lines = 1 .. Len(request) /\ DOMAIN request = 1 .. Len(request)
  BY <1>1
<1>3. ASSUME NEW k \in DOMAIN request
      PROVE  /\ request[k] \in DOMAIN Size /\ lines[k] = BytesOf(request[k])
             /\ lines[k][1] = <<request[k], 1>>
  <2>1. request[k] \in DOMAIN Size
    BY <1>1
  <2>2. lines[k] = BytesOf(request[k])
    BY <1>2 DEF ReaderInv, WholeIsExact
  <2>3. 1 \in 1 .. Size[request[k]]
    BY <2>1, SizeType
  <2>4. BytesOf(request[k])[1] = <<request[k], 1>>
    BY <2>1, <2>3, BytesOfType
  <2>. QED BY <2>1, <2>2, <2>4
<1>. QED BY <1>2, <1>3

(* A header line of a request that is not cut says what was sent.           *)
LEMMA HeaderLine ==
  ASSUME ReaderInv, ConnectionInv, ~cut, pc = "decide", NEW k \in 2 .. Len(request)
  PROVE  /\ k \in DOMAIN request /\ IsHeader(request[k]) /\ Size[request[k]] \in Nat
         /\ Size[request[k]] >= 2 /\ Len(lines[k]) = Size[request[k]]
         /\ \A n \in 1 .. Size[request[k]] :
               /\ Says(request[k])[n] = Text[lines[k][n]]
               /\ lines[k][n] \in Newlines <=> n = Size[request[k]]
               /\ CR(lines[k][n]) <=> n = Size[request[k]] - 1
<1>1. k \in DOMAIN request /\ IsRequest(request)
  BY RequestType, ExactLines DEF ConnectionInv, TypeOK
<1>2. PICK kind : kind = request[k]
  OBVIOUS
<1>3. kind \in DOMAIN Size /\ lines[k] = BytesOf(kind) /\ IsHeader(kind)
  BY <1>1, <1>2, ExactLines DEF IsRequest
<1>4. Size[kind] \in Nat /\ Size[kind] >= 2 /\ Len(lines[k]) = Size[kind]
  BY <1>3, SizeType, BytesOfType
<1>5. ASSUME NEW n \in 1 .. Size[kind]
      PROVE  /\ Says(kind)[n] = Text[lines[k][n]]
             /\ lines[k][n] \in Newlines <=> n = Size[kind]
             /\ CR(lines[k][n]) <=> n = Size[kind] - 1
  <2>1. lines[k][n] = <<kind, n>> /\ Says(kind)[n] = Text[<<kind, n>>]
    BY <1>3, BytesOfType DEF Says
  <2>. QED BY <1>1, <1>2, <2>1 DEF IsRequest, CR
<1>. QED BY <1>1, <1>2, <1>3, <1>4, <1>5

LEMMA HeadersRead ==
  ASSUME ReaderInv, ConnectionInv, ~cut, pc = "decide"
  PROVE  /\ Len(request) \in Nat /\ Len(lines) = Len(request) /\ Nameless = {}
         /\ \A name : Named(name) = {k \in 2 .. Len(request) : SaysHeader(request[k], name)}
         /\ \A name : Found(name) \subseteq Named(name) /\ (Named(name) # {} => Found(name) # {})
<1>1. Len(request) \in Nat /\ Len(lines) = Len(request)
  BY RequestType DEF ReaderInv, ConnectionInv, TypeOK
<1>2. ASSUME NEW k \in 2 .. Len(request)
      PROVE  /\ Text[lines[k][1]] # ":"
             /\ \A name : Names(lines[k], name) <=> SaysHeader(request[k], name)
  <2>1. 1 \in 1 .. Size[request[k]] /\ 2 \in 1 .. Size[request[k]] /\ Len(lines[k]) # 1
    BY HeaderLine
  <2>2. Says(request[k])[1] = Text[lines[k][1]] /\ Says(request[k])[2] = Text[lines[k][2]]
    BY <2>1, HeaderLine
  <2>3. Says(request[k])[1] # ":"
    BY HeaderLine DEF IsHeader
  <2>. QED BY <2>1, <2>2, <2>3 DEF Names, SaysHeader
<1>3. Nameless = {}
  BY <1>1, <1>2 DEF Nameless
<1>4. ASSUME NEW name
      PROVE  /\ Named(name) = {k \in 2 .. Len(request) : SaysHeader(request[k], name)}
             /\ Found(name) \subseteq Named(name) /\ (Named(name) # {} => Found(name) # {})
  <2>1. Named(name) = {k \in 2 .. Len(request) : SaysHeader(request[k], name)}
    BY <1>1, <1>2 DEF Named
  <2>2. PICK T : T = Named(name)
    OBVIOUS
  <2>3. Found(name) = {k \in T : \A l \in T : k <= l}
    BY <1>3, <2>2 DEF Found
  <2>4. T \in SUBSET Nat
    BY <1>1, <2>1, <2>2
  <2>5. T # {} => \E k \in T : \A l \in T : k <= l
    BY <2>4, Least
  <2>. QED BY <2>1, <2>2, <2>3, <2>5
<1>. QED BY <1>1, <1>3, <1>4

LEMMA ValueRead ==
  ASSUME ReaderInv, ConnectionInv, ~cut, pc = "decide",
         NEW k \in 2 .. Len(request), SaysHeader(request[k], "Upgrade")
  PROVE  ~Valueless(k) /\ (RightValue(lines[k]) <=> request[k] = "Upgrade")
<1>1. PICK kind, s, line : kind = request[k] /\ s = Size[request[k]] /\ line = lines[k]
  OBVIOUS
<1>2. /\ s \in Nat /\ s >= 2 /\ Len(line) = s /\ IsHeader(kind)
      /\ \A n \in 1 .. s : /\ Says(kind)[n] = Text[line[n]]
                           /\ line[n] \in Newlines <=> n = s
                           /\ CR(line[n]) <=> n = s - 1
  BY <1>1, HeaderLine
<1>3. s >= 4
  <2>1. 1 \in 1 .. s /\ 2 \in 1 .. s
    BY <1>2
  <2>2. Text[line[1]] = "Upgrade" /\ Text[line[2]] = ":"
    BY <1>1, <1>2, <2>1 DEF SaysHeader
  <2>3. ~CR(line[1]) /\ ~CR(line[2])
    BY <2>2 DEF CR
  <2>4. 1 # s - 1 /\ 2 # s - 1
    BY <1>2, <2>1, <2>3
  <2>. QED BY <1>2, <2>4
<1>4. 3 \in 1 .. s /\ 4 \in 1 .. s /\ Says(kind)[3] = Text[line[3]]
  BY <1>2, <1>3
<1>5. Text[line[3]] # "CR" /\ (Text[line[3]] = "websocket" <=> kind = "Upgrade")
  <2>1. CASE kind = "Upgrade"
    BY <1>2, <1>4, <2>1 DEF IsHeader
  <2>2. CASE kind # "Upgrade"
    BY <1>1, <1>2, <1>4, <2>2 DEF IsHeader
  <2>. QED BY <2>1, <2>2
<1>6. ~Blank(line[3])
  <2>1. ~CR(line[3])
    BY <1>5 DEF CR
  <2>2. 3 # s
    BY <1>2, <1>3
  <2>. QED BY <1>2, <1>4, <2>1, <2>2 DEF Blank
<1>7. ~Valueless(k)
  <2>1. Nameless = {}
    BY HeadersRead
  <2>2. 3 \in 3 .. Len(lines[k])
    BY <1>1, <1>2, <1>3
  <2>. QED BY <1>1, <1>6, <2>1, <2>2 DEF Valueless
<1>8. ASSUME kind = "Upgrade" PROVE RightValue(line)
  <2>1. Says(kind) = <<"Upgrade", ":", "websocket", "CR", "LF">>
    BY <1>2, <1>8 DEF IsHeader
  <2>2. Says(kind)[4] = "CR"
    BY <2>1
  <2>3. CR(line[4])
    BY <1>2, <1>4, <2>2 DEF CR
  <2>4. Lesser(4, Len(line)) = 4
    BY <1>2, <1>3 DEF Lesser
  <2>. QED BY <1>2, <1>3, <1>5, <1>8, <2>3, <2>4 DEF RightValue, Blank
<1>9. RightValue(line) => kind = "Upgrade"
  BY <1>5 DEF RightValue
<1>. QED BY <1>1, <1>7, <1>8, <1>9

(* A header that is asked for is one of the lines after the first.          *)
LEMMA AskedLine ==
  ASSUME ReaderInv, ConnectionInv, ~cut, pc = "decide",
         NEW kind \in {"Upgrade", "Key"}, Asks(kind)
  PROVE  \E k \in 2 .. Len(request) : request[k] = kind /\ SaysHeader(request[k], kind)
<1>1. PICK k \in DOMAIN request : request[k] = kind
  BY DEF Asks
<1>2. IsRequest(request) /\ DOMAIN request = 1 .. Len(request) /\ Len(request) \in Nat
  BY RequestType, ExactLines DEF ConnectionInv, TypeOK
<1>3. k # 1
  BY <1>1, <1>2 DEF IsRequest
<1>4. k \in 2 .. Len(request)
  BY <1>1, <1>2, <1>3
<1>5. IsHeader(kind)
  BY <1>1, <1>4, HeaderLine
<1>6. SaysHeader(kind, kind)
  BY <1>5 DEF IsHeader, SaysHeader
<1>. QED BY <1>1, <1>4, <1>6

LEMMA UpgradesIfAsked ==
  ASSUME ReaderInv, ConnectionInv, ~cut, pc = "decide"
  PROVE  (MayUpgrade => Asks("Upgrade")) /\ (MayClose => ~Asks("Upgrade"))
<1>1. /\ DOMAIN request = 1 .. Len(request) /\ Len(request) \in Nat /\ IsRequest(request)
  BY RequestType, ExactLines DEF ConnectionInv, TypeOK
<1>2. ASSUME NEW k \in Found("Upgrade")
      PROVE  /\ k \in 2 .. Len(request) /\ SaysHeader(request[k], "Upgrade") /\ ~Valueless(k)
             /\ RightValue(lines[k]) <=> request[k] = "Upgrade"
  <2>1. k \in 2 .. Len(request) /\ SaysHeader(request[k], "Upgrade")
    BY <1>2, HeadersRead
  <2>. QED BY <2>1, ValueRead
<1>3. MayUpgrade => Asks("Upgrade")
  BY <1>1, <1>2 DEF MayUpgrade, Asks
<1>4. ASSUME Asks("Upgrade") PROVE ~MayClose
  <2>1. PICK j \in 2 .. Len(request) : request[j] = "Upgrade" /\ SaysHeader(request[j], "Upgrade")
    BY <1>4, AskedLine
  <2>2. Named("Upgrade") # {}
    BY <2>1, HeadersRead
  <2>3. ASSUME NEW k \in Found("Upgrade") PROVE ~Valueless(k) /\ RightValue(lines[k])
    <3>1. k = j
      BY <1>1, <1>2, <2>1, <2>3 DEF IsRequest
    <3>. QED BY <1>2, <2>1, <2>3, <3>1
  <2>. QED BY <2>2, <2>3 DEF MayClose
<1>. QED BY <1>3, <1>4

LEMMA KeyIfAsked ==
  ASSUME ReaderInv, ConnectionInv, ~cut, pc = "decide"
  PROVE  (Found("Key") # {} => Asks("Key")) /\ (Named("Key") = {} => ~Asks("Key"))
<1>1. ASSUME NEW k \in Found("Key") PROVE Asks("Key")
  <2>1. k \in 2 .. Len(request) /\ SaysHeader(request[k], "Key")
    BY <1>1, HeadersRead
  <2>2. k \in DOMAIN request /\ request[k] = "Key"
    BY <2>1, HeaderLine DEF IsHeader
  <2>. QED BY <2>2 DEF Asks
<1>2. ASSUME Asks("Key") PROVE Named("Key") # {}
  BY <1>2, AskedLine, HeadersRead
<1>. QED BY <1>1, <1>2

(* One step per action that answers, closes or ends the process.            *)
LEMMA AnswerKept ==
  AnswerRight /\ ReaderInv /\ ConnectionInv /\ [Next]_vars => AnswerRight'
<1> SUFFICES ASSUME AnswerRight, ReaderInv, ConnectionInv, [Next]_vars
             PROVE  AnswerRight'
  OBVIOUS
<1>0. request' = request /\ \A kind : Asks(kind)' <=> Asks(kind)
  <2>1. request' = request
    BY DEF Next, Handle, Arrive, SendFrame, ClientReads, Fill, ReadLine, TooLong, Upgrade, Close,
           ReadHeader, ReadLength, ReadPart, Dispatch, Answered, WriteStep, Broadcast, readVars, vars
  <2>. QED BY <2>1 DEF Asks
<1>1. CASE Upgrade
  <2>1. pc = "decide" /\ MayUpgrade /\ cut' = cut /\ up
        /\ \/ Found("Key") # {} /\ pc' = "answer" /\ up' = up
           \/ Named("Key") = {} /\ pc' = pc
    BY <1>1 DEF Upgrade
  <2>2. ~cut => Asks("Upgrade")
    BY <2>1, UpgradesIfAsked
  <2>3. ~cut => (Found("Key") # {} => Asks("Key")) /\ (Named("Key") = {} => ~Asks("Key"))
    BY <2>1, KeyIfAsked
  <2>. QED BY <1>0, <2>1, <2>2, <2>3 DEF AnswerRight
<1>2. CASE Close
  <2>1. pc = "decide" /\ pc' = "closed" /\ up /\ up' = up /\ cut' = cut /\ MayClose
    BY <1>2 DEF Close
  <2>2. ~cut => ~Asks("Upgrade")
    BY <2>1, UpgradesIfAsked
  <2>. QED BY <1>0, <2>1, <2>2 DEF AnswerRight
<1>3. CASE TooLong
  <2>1. pc \in {"route", "headers"} /\ pc' = pc /\ cut' = cut /\ LineEnd(buf, N - 1)
    BY <1>3 DEF TooLong, Reading
  <2>2. N \in Nat /\ N >= 3
    BY ReaderAssumption
  <2>3. ASSUME ~cut PROVE FALSE
    <3>1. Len(lines) < Len(request) /\ (UnderWay \/ Held)
      BY <2>1, <2>3 DEF ReaderInv
    <3>2. CASE UnderWay
      <4>1. buf[0] = NUL /\ 0 \in 0 .. N - 1 - 1
        BY <3>2, <2>2 DEF UnderWay, EmptyBuffer
      <4>. QED BY <4>1, <2>1 DEF LineEnd
    <3>3. CASE Held
      <4>1. N - 1 \in 1 .. N - 1
        BY <2>2
      <4>2. N - 1 <= N - 2
        BY <3>1, <3>3, <4>1, <2>1, FrontLine
      <4>. QED BY <4>2, <2>2
    <3>. QED BY <3>1, <3>2, <3>3
  <2>. QED BY <1>0, <2>1, <2>3 DEF AnswerRight
<1>4. CASE ReadHeader \/ ReadLength
  <2>1. /\ pc \in {"poll", "length"} /\ pc' \in {"poll", "length", "frame"}
        /\ up /\ (cut => cut') /\ (~up' => cut')
    BY <1>4 DEF ReadHeader, ReadLength, Refused, Missized
  <2>. QED BY <1>0, <2>1 DEF AnswerRight
<1>5. CASE Fill \/ ReadLine
  <2>1. up /\ up' = up /\ pc' \in {"route", "headers", "decide"}
    BY <1>5 DEF Fill, ReadLine, Reading
  <2>. QED BY <1>0, <2>1 DEF AnswerRight
<1>6. CASE ReadPart \/ Dispatch \/ Answered
  <2>1. /\ pc \in {"answer", "poll", "length", "frame"} /\ pc' \in {"answer", "poll", "length", "frame"}
        /\ up /\ up' = up /\ (cut => cut')
    <3>1. CASE ReadPart
      BY <3>1 DEF ReadPart
    <3>2. CASE Dispatch
      BY <3>2 DEF Dispatch
    <3>3. CASE Answered
      BY <3>3 DEF Answered
    <3>. QED BY <1>6, <3>1, <3>2, <3>3
  <2>. QED BY <1>0, <2>1 DEF AnswerRight
<1>7. CASE \/ Arrive \/ SendFrame \/ ClientReads \/ UNCHANGED vars
           \/ \E w \in Writers : WriteStep(w) \/ Broadcast(w)
  <2>1. pc' = pc /\ up' = up /\ cut' = cut
    BY <1>7 DEF Arrive, SendFrame, ClientReads, WriteStep, Broadcast, vars
  <2>. QED BY <1>0, <2>1 DEF AnswerRight
<1>. QED BY <1>1, <1>2, <1>3, <1>4, <1>5, <1>6, <1>7 DEF Next, Handle

(* A request that is read whole is upgraded by web_server_handle_client     *)
(* only if a header of it asks for a websocket and another gives a key, and *)
(* closed only if none asks: for every buffer size and every request,       *)
(* whatever else its lines say.                                             *)
THEOREM AnswersExact == Spec => []AnswerRight
<1>1. Init => AnswerRight
  BY DEF Init, AnswerRight
<1>2. Init => ReaderInv /\ ConnectionInv /\ WireInv
  BY ReadingStarts, TypesHold, WireStarts DEF Init
<1>3. AnswerRight /\ ReaderInv /\ ConnectionInv /\ WireInv /\ [Next]_vars
        => (AnswerRight /\ ReaderInv /\ ConnectionInv /\ WireInv)'
  BY AnswerKept, ReadingKept, TypesKept, WireOnly, WireKept
<1>. QED BY <1>1, <1>2, <1>3, PTL DEF Spec

----------------------------------------------------------------------------

(* The frames.  Among their bytes, those of packets have been read; then    *)
(* come the frame being read, what has arrived, and what is under way.      *)
Sent == AllBytes(Frames)
Begins(k) == Len(UpTo(Frames)[k])

LEMMA FrameAt ==
  ASSUME NEW k \in 0 .. Len(Frames) - 1
  PROVE  /\ Len(Frames) \in Nat /\ k + 1 \in DOMAIN Frames
         /\ Frames[k + 1] \in DOMAIN Size /\ Frames[k + 1] \in FrameKinds
         /\ Size[Frames[k + 1]] \in Nat /\ HeaderSize(Frames[k + 1]) \in {2, 3}
         /\ Size[Frames[k + 1]] >= HeaderSize(Frames[k + 1]) + 1 /\ Size[Frames[k + 1]] >= 3
         /\ Begins(k) \in Nat /\ Begins(k + 1) = Begins(k) + Size[Frames[k + 1]]
         /\ \A j \in 1 .. Size[Frames[k + 1]] : Sent[Begins(k) + j] = <<Frames[k + 1], j>>
<1>1. Frames \in Seq(DOMAIN Size)
  BY ConnectionAssumption
<1>2. Len(Frames) \in Nat /\ k + 1 \in DOMAIN Frames /\ Len(Frames) \in 0 .. Len(Frames)
  BY <1>1
<1>3. Frames[k + 1] \in DOMAIN Size /\ Frames[k + 1] \in FrameKinds
  BY <1>1, <1>2 DEF FrameKinds
<1>4. k \in 0 .. Len(Frames) - 1
  OBVIOUS
<1>5. /\ Begins(k) \in Nat /\ Begins(k + 1) = Begins(k) + Size[Frames[k + 1]]
      /\ \A j \in 1 .. Size[Frames[k + 1]] : Sent[Begins(k) + j] = <<Frames[k + 1], j>>
  BY <1>1, <1>2, <1>4, LineAt, Zenon DEF Sent, Begins, AllBytes
<1>6. /\ Size[Frames[k + 1]] \in Nat /\ HeaderSize(Frames[k + 1]) \in {2, 3}
      /\ Size[Frames[k + 1]] >= HeaderSize(Frames[k + 1]) + 1
  BY <1>3, FrameType
<1>7. Size[Frames[k + 1]] >= 3
  BY <1>6
<1>. QED BY <1>2, <1>3, <1>5, <1>6, <1>7

LEMMA BeginsType == \A k \in 0 .. Len(Frames) : Begins(k) \in Nat
<1> SUFFICES ASSUME NEW k \in 0 .. Len(Frames) PROVE Begins(k) \in Nat
  OBVIOUS
<1>1. UpTo(Frames)[k] \in Seq(Bytes)
  BY UpToType, ConnectionAssumption
<1>. QED BY <1>1 DEF Begins

(* The calls still to make for a frame follow from what they have got.      *)
Expects(f) ==
    \/ want = Rest(f) /\ Len(body) = HeaderSize(f)
    \/ want = <<Size[f] - HeaderSize(f) - 1>> /\ Len(body) = HeaderSize(f) + 1
    \/ want = <<>> /\ Len(body) = Size[f]

(* Bytes of the frames from base on, first those of q and then those of r.  *)
GoesOn(q, r, base) ==
    /\ q \in Seq(Bytes) /\ r \in Seq(Bytes) /\ base \in Nat
    /\ \A k \in 1 .. Len(q) : q[k] = Sent[base + k]
    /\ \A k \in 1 .. Len(r) : r[k] = Sent[base + Len(q) + k]

Stream(q, r, c, base) == GoesOn(q, r, base) /\ GoesOn(r, c, base + Len(q))

InOrder ==
    /\ Len(packets) \in 0 .. asked /\ packets = SubSeq(Frames, 1, Len(packets))
    /\ Begins(asked) = Begins(Len(packets)) + Len(body) + Len(inbox) + Len(coming)
    /\ Stream(body, inbox, coming, Begins(Len(packets)))
    /\ pc = "length" => /\ Len(packets) < asked /\ Frames[Len(packets) + 1] \in Extended
                        /\ Len(body) = 2 /\ body[1][1] = Frames[Len(packets) + 1]
    /\ pc = "frame" => Len(packets) < asked /\ Expects(Frames[Len(packets) + 1])
    /\ pc \notin {"length", "frame"} => body = <<>>

StreamInv ==
    /\ Deciding => asked = 0 /\ packets = <<>> /\ body = <<>>
    /\ pc = "closed" => packets = <<>>
    /\ pc \in {"answer", "poll", "length", "frame"} /\ ~cut => InOrder

(* They still do when n of the second are moved to the first.               *)
LEMMA Moved ==
  ASSUME NEW q, NEW r, NEW base, GoesOn(q, r, base), NEW n \in 0 .. Len(r)
  PROVE  /\ GoesOn(q \o SubSeq(r, 1, n), SubSeq(r, n + 1, Len(r)), base)
         /\ Len(q) \in Nat /\ Len(r) \in Nat
         /\ Len(q \o SubSeq(r, 1, n)) = Len(q) + n
         /\ Len(SubSeq(r, n + 1, Len(r))) = Len(r) - n
<1> SUFFICES ASSUME NEW q2, q2 = q \o SubSeq(r, 1, n), NEW r2, r2 = SubSeq(r, n + 1, Len(r))
             PROVE  /\ GoesOn(q2, r2, base)
                    /\ Len(q) \in Nat /\ Len(r) \in Nat
                    /\ Len(q2) = Len(q) + n /\ Len(r2) = Len(r) - n
  OBVIOUS
<1> DEFINE a == Len(q)
           c == Len(r)
           h == SubSeq(r, 1, n)
<1>0. /\ q \in Seq(Bytes) /\ r \in Seq(Bytes) /\ base \in Nat
      /\ \A k \in 1 .. a : q[k] = Sent[base + k]
      /\ \A k \in 1 .. c : r[k] = Sent[base + a + k]
  BY DEF GoesOn
<1>1. a \in Nat /\ c \in Nat /\ n \in 0 .. c
  BY <1>0
<1>2. /\ h \in Seq(Bytes) /\ Len(h) = n /\ \A k \in 1 .. n : h[k] = r[k]
      /\ r2 \in Seq(Bytes) /\ Len(r2) = c - n /\ \A k \in 1 .. c - n : r2[k] = r[n + k]
  <2>1. h \in Seq(Bytes) /\ Len(h) = n /\ \A k \in 1 .. n : h[k] = r[k]
    BY <1>0
  <2>2. r2 \in Seq(Bytes) /\ Len(r2) = c - n
    BY <1>0
  <2>3. ASSUME NEW k \in 1 .. c - n PROVE r2[k] = r[n + k]
    BY <1>0
  <2>. QED BY <2>1, <2>2, <2>3
<1>3. /\ q2 \in Seq(Bytes) /\ Len(q2) = a + Len(h)
      /\ \A k \in 1 .. a + Len(h) : q2[k] = IF k <= a THEN q[k] ELSE h[k - a]
  BY <1>0, <1>2, ConcatProperties
<1> HIDE DEF a, c, h
<1>4. ASSUME NEW k \in 1 .. Len(q2) PROVE q2[k] = Sent[base + k]
  <2>1. CASE k <= a
    <3>1. k \in 1 .. a /\ k \in 1 .. a + Len(h)
      BY <1>1, <1>2, <1>3, <1>4, <2>1
    <3>2. q2[k] = q[k] /\ q[k] = Sent[base + k]
      BY <1>0, <1>3, <2>1, <3>1
    <3>. QED BY <3>2
  <2>2. CASE ~(k <= a)
    <3>1. k - a \in 1 .. n /\ k - a \in 1 .. c /\ base + a + (k - a) = base + k
      BY <1>0, <1>1, <1>2, <1>3, <1>4, <2>2
    <3>2. q2[k] = r[k - a]
      BY <1>2, <1>3, <1>4, <2>2, <3>1
    <3>3. r[k - a] = Sent[base + a + (k - a)]
      BY <1>0, <3>1
    <3>. QED BY <3>1, <3>2, <3>3
  <2>. QED BY <2>1, <2>2
<1>5. ASSUME NEW k \in 1 .. Len(r2) PROVE r2[k] = Sent[base + Len(q2) + k]
  <2>0. k \in 1 .. c - n /\ Len(q2) = a + n
    BY <1>2, <1>3, <1>5
  <2> DEFINE e == Len(q2)
  <2>1. n + k \in 1 .. c /\ base + e + k = base + a + (n + k)
    <3>1. base \in Nat /\ a \in Nat /\ c \in Nat /\ n \in Nat /\ n <= c /\ k \in 1 .. c - n /\ e = a + n
      BY <1>0, <1>1, <2>0
    <3> HIDE DEF e
    <3>. QED BY <3>1
  <2>2. r2[k] = r[n + k]
    BY <2>0, <1>2
  <2>3. r[n + k] = Sent[base + a + (n + k)]
    BY <2>1, <1>0
  <2>. QED BY <2>1, <2>2, <2>3, Zenon
<1>. QED BY <1>0, <1>1, <1>2, <1>3, <1>4, <1>5 DEF a, c, GoesOn

(* Bytes that have arrived are still behind those of the frame being read.  *)
LEMMA StreamArrives == InOrder /\ Arrive => InOrder'
<1> SUFFICES ASSUME InOrder, Arrive PROVE InOrder'
  OBVIOUS
<1>1. PICK n \in 1 .. Len(coming) :
        /\ inbox' = inbox \o SubSeq(coming, 1, n)
        /\ coming' = SubSeq(coming, n + 1, Len(coming))
  BY DEF Arrive
<1>2. asked' = asked /\ packets' = packets /\ body' = body /\ want' = want /\ pc' = pc
  BY DEF Arrive, readVars, frameVars
<1> DEFINE b == Begins(Len(packets))
<1>3. GoesOn(body, inbox, b) /\ GoesOn(inbox, coming, b + Len(body))
  BY DEF InOrder, Stream
<1> HIDE DEF b
<1>4. n \in 0 .. Len(coming)
  BY <1>3 DEF GoesOn
<1>5. /\ GoesOn(inbox', coming', b + Len(body))
      /\ Len(inbox) \in Nat /\ Len(coming) \in Nat
      /\ Len(inbox') = Len(inbox) + n /\ Len(coming') = Len(coming) - n
  <2>1. PICK q2, r2, base : q2 = inbox' /\ r2 = coming' /\ base = b + Len(body)
    OBVIOUS
  <2>2. q2 = inbox \o SubSeq(coming, 1, n) /\ r2 = SubSeq(coming, n + 1, Len(coming))
    BY <1>1, <2>1
  <2>3. GoesOn(inbox, coming, base)
    BY <1>3, <2>1
  <2>4. /\ GoesOn(q2, r2, base)
        /\ Len(inbox) \in Nat /\ Len(coming) \in Nat
        /\ Len(q2) = Len(inbox) + n /\ Len(r2) = Len(coming) - n
    <3>1. /\ GoesOn(inbox \o SubSeq(coming, 1, n), SubSeq(coming, n + 1, Len(coming)), base)
          /\ Len(inbox) \in Nat /\ Len(coming) \in Nat
          /\ Len(inbox \o SubSeq(coming, 1, n)) = Len(inbox) + n
          /\ Len(SubSeq(coming, n + 1, Len(coming))) = Len(coming) - n
      BY <1>4, <2>3, Moved
    <3>. QED BY <2>2, <3>1, Zenon
  <2>. QED BY <2>1, <2>4
<1>6. GoesOn(body, inbox', b)
  <2>1. /\ body \in Seq(Bytes) /\ b \in Nat
        /\ \A k \in 1 .. Len(body) : body[k] = Sent[b + k]
    BY <1>3 DEF GoesOn
  <2>2. inbox' \in Seq(Bytes) /\ \A k \in 1 .. Len(inbox') : inbox'[k] = Sent[b + Len(body) + k]
    BY <1>5 DEF GoesOn
  <2>. QED BY <2>1, <2>2 DEF GoesOn
<1>7. Begins(asked) = b + Len(body) + Len(inbox') + Len(coming')
  <2>1. b \in Nat /\ Len(body) \in Nat
    BY <1>3 DEF GoesOn
  <2>2. Begins(asked) = b + Len(body) + Len(inbox) + Len(coming)
    BY DEF InOrder, b
  <2>. QED BY <2>1, <2>2, <1>4, <1>5
<1>. QED BY <1>2, <1>5, <1>6, <1>7 DEF InOrder, Expects, Begins, Sent, Stream, GoesOn, b

(* Bytes of the frame being read come from those that have arrived.         *)
LEMMA ReadOn ==
  ASSUME NEW q, NEW r, NEW c, NEW b, Stream(q, r, c, b), NEW n \in 0 .. Len(r)
  PROVE  /\ Stream(q \o SubSeq(r, 1, n), SubSeq(r, n + 1, Len(r)), c, b)
         /\ Len(q) \in Nat /\ Len(r) \in Nat
         /\ Len(q \o SubSeq(r, 1, n)) = Len(q) + n
         /\ Len(SubSeq(r, n + 1, Len(r))) = Len(r) - n
<1> SUFFICES ASSUME NEW q2, q2 = q \o SubSeq(r, 1, n), NEW r2, r2 = SubSeq(r, n + 1, Len(r))
             PROVE  /\ GoesOn(q2, r2, b) /\ GoesOn(r2, c, b + Len(q2))
                    /\ Len(q) \in Nat /\ Len(r) \in Nat
                    /\ Len(q2) = Len(q) + n /\ Len(r2) = Len(r) - n
  BY DEF Stream
<1>0. GoesOn(q, r, b) /\ GoesOn(r, c, b + Len(q))
  BY DEF Stream
<1>1. /\ GoesOn(q2, r2, b) /\ Len(q) \in Nat /\ Len(r) \in Nat
      /\ Len(q2) = Len(q) + n /\ Len(r2) = Len(r) - n
  <2>1. /\ GoesOn(q \o SubSeq(r, 1, n), SubSeq(r, n + 1, Len(r)), b)
        /\ Len(q) \in Nat /\ Len(r) \in Nat
        /\ Len(q \o SubSeq(r, 1, n)) = Len(q) + n
        /\ Len(SubSeq(r, n + 1, Len(r))) = Len(r) - n
    <3>1. GoesOn(q, r, b)
      BY <1>0
    <3>. QED BY <3>1, Moved
  <2>. QED BY <2>1, Zenon
<1>2. GoesOn(r2, c, b + Len(q2))
  <2>1. /\ r2 \in Seq(Bytes) /\ b \in Nat
        /\ \A k \in 1 .. Len(r2) : r2[k] = Sent[b + Len(q2) + k]
    BY <1>1 DEF GoesOn
  <2>2. c \in Seq(Bytes) /\ \A k \in 1 .. Len(c) : c[k] = Sent[b + Len(q) + Len(r) + k]
    BY <1>0 DEF GoesOn
  <2>3. b + Len(q2) \in Nat /\ b + Len(q) + Len(r) = b + Len(q2) + Len(r2)
    <3> DEFINE lq == Len(q)
               lr == Len(r)
               mq == Len(q2)
               mr == Len(r2)
    <3>1. b \in Nat /\ lq \in Nat /\ lr \in Nat /\ n \in 0 .. lr /\ mq = lq + n /\ mr = lr - n
      BY <1>1, <2>1
    <3> HIDE DEF lq, lr, mq, mr
    <3>2. b + mq \in Nat /\ b + lq + lr = b + mq + mr
      BY <3>1
    <3>. QED BY <3>2 DEF lq, lr, mq, mr
  <2>4. \A k \in 1 .. Len(c) : c[k] = Sent[b + Len(q2) + Len(r2) + k]
    BY <2>2, <2>3
  <2>. QED BY <2>1, <2>2, <2>3, <2>4 DEF GoesOn
<1>. QED BY <1>1, <1>2

LEMMA InOrderType ==
  ASSUME InOrder, ConnectionInv
  PROVE  /\ Len(packets) \in 0 .. Len(Frames) /\ asked \in 0 .. Len(Frames) /\ Len(Frames) \in Nat
         /\ Len(packets) <= asked
         /\ Begins(Len(packets)) \in Nat /\ Begins(asked) \in Nat
         /\ Len(body) \in Nat /\ Len(inbox) \in Nat /\ Len(coming) \in Nat
<1>1. Len(Frames) \in Nat /\ asked \in 0 .. Len(Frames)
  BY ConnectionAssumption DEF ConnectionInv, TypeOK
<1>2. Len(packets) \in 0 .. Len(Frames) /\ Len(packets) <= asked
  BY <1>1 DEF InOrder
<1>3. body \in Seq(Bytes) /\ inbox \in Seq(Bytes) /\ coming \in Seq(Bytes)
  BY DEF InOrder, Stream, GoesOn
<1>. QED BY <1>1, <1>2, <1>3, BeginsType

LEMMA StreamHeader == InOrder /\ ConnectionInv /\ ReadHeader /\ ~cut' => InOrder'
<1> SUFFICES ASSUME InOrder, ConnectionInv, ReadHeader, ~cut' PROVE InOrder'
  OBVIOUS
<1> DEFINE n == Lesser(2, Len(inbox))
           f == inbox[1][1]
           p == Len(packets)
           b == Begins(p)
<1>1. /\ pc = "poll" /\ inbox # <<>> /\ inbox' = From(n) /\ body' = First(n)
      /\ First(n) = <<<<f, 1>>, <<f, 2>>>>
      /\ IF f \in Extended THEN pc' = "length" ELSE pc' = "frame" /\ want' = Rest(f)
      /\ packets' = packets /\ asked' = asked /\ coming' = coming
  BY DEF ReadHeader, readVars
<1>2. body = <<>> /\ Len(body) = 0
  BY <1>1 DEF InOrder
<1>3. GoesOn(body, inbox, b) /\ GoesOn(inbox, coming, b + Len(body)) /\ inbox \in Seq(Bytes)
  BY DEF InOrder, Stream, ConnectionInv
<1>4. n = 2 /\ n \in 0 .. Len(inbox)
  <2>1. Len(inbox) \in Nat /\ n \in 0 .. Len(inbox)
    BY <1>3 DEF Lesser
  <2>2. Len(First(n)) = n
    BY <1>3, <2>1 DEF First
  <2>. QED BY <1>1, <2>1, <2>2
<1>5. body' = body \o SubSeq(inbox, 1, n) /\ inbox' = SubSeq(inbox, n + 1, Len(inbox))
  <2>1. First(n) \in Seq(Bytes) /\ First(n) = SubSeq(inbox, 1, n)
    BY <1>3, <1>4 DEF First
  <2>2. <<>> \o First(n) = First(n)
    BY <2>1
  <2>. QED BY <1>1, <1>2, <2>1, <2>2 DEF From
<1>6. p < asked /\ p \in 0 .. Len(Frames) - 1
  <2>1. p \in 0 .. Len(Frames) /\ asked \in 0 .. Len(Frames) /\ p <= asked /\ Len(Frames) \in Nat
        /\ b \in Nat /\ Len(coming) \in Nat
    BY InOrderType
  <2>2. Len(inbox) >= 2 /\ Len(inbox) \in Nat
    BY <1>3, <1>4
  <2>3. Begins(asked) = b + Len(inbox) + Len(coming)
    BY <1>2, <2>1, <2>2 DEF InOrder
  <2>4. asked # p
    BY <2>1, <2>2, <2>3
  <2>. QED BY <2>1, <2>4
<1>7. Frames[p + 1] = f
  <2>1. 1 \in 1 .. Len(inbox)
    BY <1>4
  <2>2. inbox[1] = Sent[b + Len(body) + 1] /\ b \in Nat
    BY <1>3, <2>1 DEF GoesOn
  <2>3. Sent[b + 1] = <<Frames[p + 1], 1>>
    <3>1. /\ Size[Frames[p + 1]] \in Nat /\ Size[Frames[p + 1]] >= 3
          /\ \A j \in 1 .. Size[Frames[p + 1]] : Sent[b + j] = <<Frames[p + 1], j>>
      <4> HIDE DEF p
      <4>. QED BY <1>6, FrameAt, Zenon
    <3>2. 1 \in 1 .. Size[Frames[p + 1]]
      BY <3>1
    <3>. QED BY <3>1, <3>2
  <2>4. inbox[1] = <<Frames[p + 1], 1>>
    BY <1>2, <2>2, <2>3
  <2>. QED BY <2>4
<1>8. /\ GoesOn(body', inbox', b) /\ GoesOn(inbox', coming', b + Len(body'))
      /\ Len(body') = 2 /\ Len(inbox') = Len(inbox) - 2
  <2>1. PICK q2, r2 : q2 = body' /\ r2 = inbox'
    OBVIOUS
  <2>2. /\ GoesOn(q2, r2, b) /\ GoesOn(r2, coming, b + Len(q2))
        /\ Len(q2) = Len(body) + n /\ Len(r2) = Len(inbox) - n
    <3> HIDE DEF n, b
    <3>1. Stream(body, inbox, coming, b)
      BY <1>3 DEF Stream
    <3>2. /\ Stream(body \o SubSeq(inbox, 1, n), SubSeq(inbox, n + 1, Len(inbox)), coming, b)
          /\ Len(body \o SubSeq(inbox, 1, n)) = Len(body) + n
          /\ Len(SubSeq(inbox, n + 1, Len(inbox))) = Len(inbox) - n
      <4>1. n \in 0 .. Len(inbox)
        BY <1>4
      <4>. QED BY <3>1, <4>1, ReadOn
    <3>3. Stream(q2, r2, coming, b) /\ Len(q2) = Len(body) + n /\ Len(r2) = Len(inbox) - n
      BY <1>5, <2>1, <3>2, Zenon
    <3>. QED BY <3>3 DEF Stream
  <2>. QED BY <1>1, <1>2, <1>4, <2>1, <2>2
<1>9. Begins(asked) = b + Len(body') + Len(inbox') + Len(coming)
  BY <1>2, <1>8, InOrderType DEF InOrder
<1>10. body'[1][1] = f
  <2>1. body' = <<<<f, 1>>, <<f, 2>>>>
    BY <1>1
  <2>. QED BY <2>1
<1>11. PICK g : g = f
  OBVIOUS
<1>. HIDE DEF n, f
<1>12. pc' = "frame" => want' = Rest(g) /\ Len(body') = HeaderSize(g)
  BY <1>1, <1>8, <1>11 DEF HeaderSize
<1>13. pc' = "length" => g \in Extended
  BY <1>1, <1>11
<1>14. Frames[p + 1] = g /\ body'[1][1] = g /\ pc' \in {"length", "frame"}
  BY <1>1, <1>7, <1>10, <1>11
<1>15. p \in 0 .. asked /\ packets = SubSeq(Frames, 1, p)
  BY DEF InOrder
<1>. QED BY <1>1, <1>6, <1>8, <1>9, <1>12, <1>13, <1>14, <1>15
         DEF InOrder, Expects, HeaderSize, Rest, Begins, Sent, Stream, GoesOn

LEMMA StreamLength == InOrder /\ ConnectionInv /\ ReadLength /\ ~cut' => InOrder'
<1> SUFFICES ASSUME InOrder, ConnectionInv, ReadLength, ~cut' PROVE InOrder'
  OBVIOUS
<1> DEFINE p == Len(packets)
           b == Begins(p)
           f == Frames[p + 1]
<1>1. /\ pc = "length" /\ Lesser(1, Len(inbox)) = 1 /\ inbox' = From(1) /\ body' = body \o First(1)
      /\ pc' = "frame" /\ want' = Rest(body[1][1])
      /\ packets' = packets /\ asked' = asked /\ coming' = coming
  BY DEF ReadLength, readVars
<1>2. /\ Stream(body, inbox, coming, b) /\ p < asked
      /\ f \in Extended /\ Len(body) = 2 /\ body[1][1] = f
  BY <1>1 DEF InOrder
<1>3. PICK n : n = 1 /\ n \in 0 .. Len(inbox)
  <2>1. PICK l : l = Len(inbox) /\ l \in Nat
    BY InOrderType
  <2>2. l >= 1
    BY <1>1, <2>1 DEF Lesser
  <2>3. 1 \in 0 .. l
    BY <2>1, <2>2
  <2>. QED BY <2>1, <2>3
<1>4. /\ Stream(body', inbox', coming, b)
      /\ Len(body') = 3 /\ Len(inbox') = Len(inbox) - 1
  <2> HIDE DEF p, b, f
  <2>1. /\ Stream(body \o SubSeq(inbox, 1, n), SubSeq(inbox, n + 1, Len(inbox)), coming, b)
        /\ Len(body \o SubSeq(inbox, 1, n)) = Len(body) + n
        /\ Len(SubSeq(inbox, n + 1, Len(inbox))) = Len(inbox) - n
    <3>1. Stream(body, inbox, coming, b) /\ n \in 0 .. Len(inbox)
      BY <1>2, <1>3
    <3>. QED BY <3>1, ReadOn
  <2>2. body' = body \o SubSeq(inbox, 1, n) /\ inbox' = SubSeq(inbox, n + 1, Len(inbox))
    BY <1>1, <1>3 DEF First, From
  <2>3. PICK q2, r2 : q2 = body' /\ r2 = inbox'
    OBVIOUS
  <2>4. Stream(q2, r2, coming, b) /\ Len(q2) = Len(body) + n /\ Len(r2) = Len(inbox) - n
    BY <2>1, <2>2, <2>3, Zenon
  <2>5. Len(q2) = 3 /\ Len(r2) = Len(inbox) - 1
    BY <1>2, <1>3, <2>4
  <2>. QED BY <1>1, <2>3, <2>4, <2>5
<1>5. want' = Rest(f) /\ Len(body') = HeaderSize(f)
  BY <1>1, <1>2, <1>4 DEF HeaderSize
<1>6. Begins(asked) = b + Len(body') + Len(inbox') + Len(coming)
  BY <1>2, <1>3, <1>4, InOrderType DEF InOrder
<1>7. p \in 0 .. asked /\ packets = SubSeq(Frames, 1, p)
  BY DEF InOrder
<1>. QED BY <1>1, <1>2, <1>4, <1>5, <1>6, <1>7
         DEF InOrder, Expects, HeaderSize, Rest, Begins, Sent, Stream, GoesOn

LEMMA StreamPart == InOrder /\ ConnectionInv /\ ReadPart /\ ~cut' => InOrder'
<1> SUFFICES ASSUME InOrder, ConnectionInv, ReadPart, ~cut' PROVE InOrder'
  OBVIOUS
<1> DEFINE n == Lesser(Head(want), Len(inbox))
           p == Len(packets)
           b == Begins(p)
           f == Frames[p + 1]
<1>1. /\ pc = "frame" /\ want # <<>> /\ inbox' = From(n) /\ body' = body \o First(n)
      /\ ~(n < Head(want)) /\ pc' = pc /\ want' = Tail(want)
      /\ packets' = packets /\ asked' = asked /\ coming' = coming
  BY DEF ReadPart, readVars
<1>2. /\ GoesOn(body, inbox, b) /\ GoesOn(inbox, coming, b + Len(body))
      /\ p < asked /\ Expects(f)
  BY <1>1 DEF InOrder, Stream
<1>3. Head(want) \in Nat /\ Len(inbox) \in Nat
  BY <1>1 DEF ConnectionInv
<1>4. n = Head(want) /\ n \in 0 .. Len(inbox)
  BY <1>1, <1>3 DEF Lesser
<1>5. body' = body \o SubSeq(inbox, 1, n) /\ inbox' = SubSeq(inbox, n + 1, Len(inbox))
  BY <1>1 DEF First, From
<1>6. /\ GoesOn(body', inbox', b) /\ GoesOn(inbox', coming', b + Len(body'))
      /\ Len(body') = Len(body) + n /\ Len(inbox') = Len(inbox) - n
  <2>1. PICK q2, r2 : q2 = body' /\ r2 = inbox'
    OBVIOUS
  <2>2. /\ GoesOn(q2, r2, b) /\ GoesOn(r2, coming, b + Len(q2))
        /\ Len(q2) = Len(body) + n /\ Len(r2) = Len(inbox) - n
    <3> HIDE DEF n, b
    <3>1. Stream(body, inbox, coming, b)
      BY <1>2 DEF Stream
    <3>2. /\ Stream(body \o SubSeq(inbox, 1, n), SubSeq(inbox, n + 1, Len(inbox)), coming, b)
          /\ Len(body \o SubSeq(inbox, 1, n)) = Len(body) + n
          /\ Len(SubSeq(inbox, n + 1, Len(inbox))) = Len(inbox) - n
      <4>1. n \in 0 .. Len(inbox)
        BY <1>4
      <4>. QED BY <3>1, <4>1, ReadOn
    <3>3. Stream(q2, r2, coming, b) /\ Len(q2) = Len(body) + n /\ Len(r2) = Len(inbox) - n
      BY <1>5, <2>1, <3>2, Zenon
    <3>. QED BY <3>3 DEF Stream
  <2>. QED BY <1>1, <2>1, <2>2
<1>7. Expects(f)'
  <2>1. f' = f /\ Size[f] \in Nat /\ HeaderSize(f) \in {2, 3} /\ Size[f] >= HeaderSize(f) + 1
    <3>1. p \in 0 .. Len(Frames) - 1
      BY <1>2, InOrderType
    <3>. QED BY <1>1, <3>1, FrameAt
  <2> DEFINE h == HeaderSize(f)
  <2>2. CASE want = Rest(f) /\ Len(body) = h
    <3>1. Head(want) = 1 /\ Tail(want) = <<Size[f] - h - 1>>
      BY <2>2 DEF Rest
    <3>2. want' = <<Size[f] - h - 1>> /\ Len(body') = h + 1
      BY <1>1, <1>4, <1>6, <2>2, <3>1
    <3>. QED BY <2>1, <3>2 DEF Expects, HeaderSize
  <2>3. CASE want = <<Size[f] - h - 1>> /\ Len(body) = h + 1
    <3>1. Head(want) = Size[f] - h - 1 /\ Tail(want) = <<>>
      BY <2>3
    <3>2. want' = <<>> /\ Len(body') = Size[f]
      BY <1>1, <1>4, <1>6, <2>1, <2>3, <3>1
    <3>. QED BY <2>1, <3>2 DEF Expects, HeaderSize
  <2>. QED BY <1>1, <1>2, <2>2, <2>3 DEF Expects
<1>8. Begins(asked) = b + Len(body') + Len(inbox') + Len(coming)
  BY <1>4, <1>6, InOrderType DEF InOrder
<1>. QED BY <1>1, <1>2, <1>6, <1>7, <1>8, InOrderType DEF InOrder, Begins, Sent, Stream, GoesOn

LEMMA StreamDispatches == InOrder /\ ConnectionInv /\ Dispatch => InOrder'
<1> SUFFICES ASSUME InOrder, ConnectionInv, Dispatch PROVE InOrder'
  OBVIOUS
<1> DEFINE p == Len(packets)
           b == Begins(p)
           f == Frames[p + 1]
<1>1. /\ pc = "frame" /\ want = <<>> /\ body' = <<>> /\ pc' \in {"poll", "answer"}
      /\ inbox' = inbox /\ asked' = asked /\ coming' = coming
      /\ packets' = Append(packets, IF body = BytesOf(body[1][1]) THEN body[1][1] ELSE "garbled")
  BY DEF Dispatch, readVars
<1>2. /\ GoesOn(body, inbox, b) /\ GoesOn(inbox, coming, b + Len(body))
      /\ p < asked /\ Expects(f)
  BY <1>1 DEF InOrder, Stream
<1>3. p \in 0 .. Len(Frames) - 1 /\ p \in Nat
  BY <1>2, InOrderType
<1>4. /\ f \in DOMAIN Size /\ Size[f] \in Nat /\ Size[f] >= 3
      /\ b \in Nat /\ Begins(p + 1) = b + Size[f]
      /\ \A j \in 1 .. Size[f] : Sent[b + j] = <<f, j>>
  BY <1>3, FrameAt
<1>5. Len(body) = Size[f]
  <2>1. <<>> # Rest(f) /\ <<>> # <<Size[f] - HeaderSize(f) - 1>>
    BY DEF Rest
  <2>. QED BY <1>1, <1>2, <2>1 DEF Expects
<1>6. body = BytesOf(f) /\ body[1][1] = f
  <2>1. /\ body \in Seq(Bytes) /\ \A k \in 1 .. Size[f] : body[k] = <<f, k>>
    BY <1>2, <1>4, <1>5 DEF GoesOn
  <2>2. BytesOf(f) = [k \in 1 .. Size[f] |-> <<f, k>>]
    BY DEF BytesOf
  <2>3. body = [k \in 1 .. Size[f] |-> body[k]]
    BY <1>5, <2>1
  <2>4. body = BytesOf(f)
    BY <2>1, <2>2, <2>3
  <2>5. body[1] = <<f, 1>>
    BY <1>4, <2>1
  <2>. QED BY <2>4, <2>5
<1>7. packets' = SubSeq(Frames, 1, p + 1) /\ Len(packets') = p + 1
  <2>1. packets' = Append(packets, f)
    BY <1>1, <1>6
  <2>2. packets = SubSeq(Frames, 1, p) /\ Frames \in Seq(DOMAIN Size) /\ p + 1 <= Len(Frames)
    BY <1>3, ConnectionAssumption, InOrderType DEF InOrder
  <2>3. Append(SubSeq(Frames, 1, p), Frames[p + 1]) = SubSeq(Frames, 1, p + 1)
    BY <1>3, <2>2
  <2>4. Len(SubSeq(Frames, 1, p + 1)) = p + 1
    BY <1>3, <2>2
  <2>. QED BY <2>1, <2>2, <2>3, <2>4
<1>8. Stream(<<>>, inbox, coming, b + Size[f])
  <2>1. <<>> \in Seq(Bytes) /\ Len(<<>>) = 0
    OBVIOUS
  <2>2. GoesOn(inbox, coming, b + Size[f]) /\ b + Size[f] \in Nat /\ b + Size[f] + 0 = b + Size[f]
    BY <1>2, <1>4, <1>5
  <2>3. inbox \in Seq(Bytes) /\ \A k \in 1 .. Len(inbox) : inbox[k] = Sent[b + Size[f] + k]
    BY <2>2 DEF GoesOn
  <2>4. \A k \in 1 .. Len(inbox) : inbox[k] = Sent[b + Size[f] + 0 + k]
    BY <2>2, <2>3
  <2>. QED BY <2>1, <2>2, <2>3, <2>4 DEF Stream, GoesOn
<1>9. Begins(asked) = Begins(p + 1) + 0 + Len(inbox) + Len(coming)
  BY <1>4, <1>5, InOrderType DEF InOrder
<1>10. p + 1 \in 0 .. asked
  BY <1>2, <1>3, InOrderType
<1>11. Len(<<>>) = 0
  OBVIOUS
<1>12. /\ Len(packets') \in 0 .. asked' /\ packets' = SubSeq(Frames, 1, Len(packets'))
       /\ Begins(Len(packets')) = b + Size[f]
  BY <1>1, <1>4, <1>7, <1>10
<1>13. Stream(body', inbox', coming', Begins(Len(packets')))
  <2>1. Stream(<<>>, inbox, coming, Begins(Len(packets')))
    BY <1>8, <1>12
  <2>. QED BY <1>1, <2>1
<1>14. Begins(asked') = Begins(Len(packets')) + Len(body') + Len(inbox') + Len(coming')
  BY <1>1, <1>7, <1>9, <1>11
<1> HIDE DEF p, b, f
<1>15. pc' \notin {"length", "frame"} /\ body' = <<>>
  BY <1>1
<1>. QED BY <1>12, <1>13, <1>14, <1>15 DEF InOrder, Begins, Sent, Stream, GoesOn

LEMMA StreamSends == InOrder /\ ConnectionInv /\ SendFrame => InOrder'
<1> SUFFICES ASSUME InOrder, ConnectionInv, SendFrame PROVE InOrder'
  OBVIOUS
<1> DEFINE p == Len(packets)
           b == Begins(p)
           f == Frames[asked + 1]
           c == coming \o BytesOf(f)
           base == b + Len(body)
<1>1. /\ asked < Len(Frames) /\ asked' = asked + 1 /\ coming' = c /\ inbox' = inbox
      /\ body' = body /\ packets' = packets /\ want' = want /\ pc' = pc
  BY DEF SendFrame, frameVars
<1>2. asked \in 0 .. Len(Frames) - 1 /\ p \in 0 .. asked
  BY <1>1, InOrderType DEF InOrder
<1>3. /\ f \in DOMAIN Size /\ Size[f] \in Nat /\ Begins(asked) \in Nat
      /\ Begins(asked + 1) = Begins(asked) + Size[f]
      /\ \A j \in 1 .. Size[f] : Sent[Begins(asked) + j] = <<f, j>>
  BY <1>2, FrameAt
<1>4. /\ BytesOf(f) \in Seq(Bytes) /\ Len(BytesOf(f)) = Size[f]
      /\ \A k \in 1 .. Size[f] : BytesOf(f)[k] = <<f, k>>
  BY <1>3, BytesOfType
<1>5. GoesOn(body, inbox, b) /\ GoesOn(inbox, coming, base)
  BY DEF InOrder, Stream
<1>6. /\ inbox \in Seq(Bytes) /\ coming \in Seq(Bytes) /\ base \in Nat
      /\ Len(inbox) \in Nat /\ Len(coming) \in Nat
      /\ \A k \in 1 .. Len(inbox) : inbox[k] = Sent[base + k]
      /\ \A k \in 1 .. Len(coming) : coming[k] = Sent[base + Len(inbox) + k]
  <2>1. GoesOn(inbox, coming, base)
    BY <1>5
  <2> HIDE DEF base
  <2>2. /\ inbox \in Seq(Bytes) /\ coming \in Seq(Bytes) /\ base \in Nat
        /\ \A k \in 1 .. Len(inbox) : inbox[k] = Sent[base + k]
        /\ \A k \in 1 .. Len(coming) : coming[k] = Sent[base + Len(inbox) + k]
    BY <2>1, Zenon DEF GoesOn
  <2>. QED BY <2>2
<1>7. Begins(asked) = base + Len(inbox) + Len(coming)
  BY DEF InOrder
<1>8. /\ c \in Seq(Bytes) /\ Len(c) = Len(coming) + Size[f]
      /\ \A k \in 1 .. Len(coming) + Size[f] :
            c[k] = IF k <= Len(coming) THEN coming[k] ELSE BytesOf(f)[k - Len(coming)]
  <2> DEFINE B == BytesOf(f)
  <2>1. B \in Seq(Bytes) /\ Len(B) = Size[f]
    BY <1>4
  <2> HIDE DEF B
  <2>2. /\ coming \o B \in Seq(Bytes) /\ Len(coming \o B) = Len(coming) + Len(B)
        /\ \A k \in 1 .. Len(coming) + Len(B) :
              (coming \o B)[k] = IF k <= Len(coming) THEN coming[k] ELSE B[k - Len(coming)]
    BY <1>6, <2>1, ConcatProperties, Zenon
  <2>3. c = coming \o B
    BY DEF B
  <2> HIDE DEF c, f
  <2>. QED BY <2>1, <2>2, <2>3 DEF B
<1> HIDE DEF c, base, f
<1>9. ASSUME NEW k \in 1 .. Len(c) PROVE c[k] = Sent[base + Len(inbox) + k]
  <2> DEFINE lc == Len(coming)
             li == Len(inbox)
             s == Size[f]
  <2>0. lc \in Nat /\ li \in Nat /\ s \in Nat /\ base \in Nat /\ k \in 1 .. lc + s
    BY <1>3, <1>6, <1>8, <1>9
  <2>1. CASE k <= lc
    <3>1. k \in 1 .. lc
      BY <2>0, <2>1
    <3>. QED BY <1>6, <1>8, <2>0, <2>1, <3>1
  <2>2. CASE ~(k <= lc)
    <3> HIDE DEF lc, li, s
    <3>1. k - lc \in 1 .. s /\ base + li + lc + (k - lc) = base + li + k
      BY <2>0, <2>2
    <3>2. c[k] = BytesOf(f)[k - lc]
      BY <1>8, <2>0, <2>2 DEF lc, s
    <3>3. BytesOf(f)[k - lc] = <<f, k - lc>>
      BY <1>4, <3>1 DEF s
    <3>4. Sent[base + li + lc + (k - lc)] = <<f, k - lc>>
      BY <1>3, <1>7, <3>1 DEF s, lc, li
    <3>5. c[k] = Sent[base + li + k]
      BY <3>1, <3>2, <3>3, <3>4
    <3>. QED BY <3>5 DEF li
  <2>. QED BY <2>1, <2>2
<1>10. GoesOn(inbox, c, base)
  BY <1>6, <1>8, <1>9 DEF GoesOn
<1>11. Begins(asked + 1) = base + Len(inbox) + Len(c)
  BY <1>3, <1>6, <1>7, <1>8
<1>12. p \in 0 .. asked + 1 /\ (p < asked => p < asked + 1)
  BY <1>2
<1>. QED BY <1>1, <1>5, <1>10, <1>11, <1>12
     DEF InOrder, Expects, HeaderSize, Rest, Begins, Sent, Stream, GoesOn, base

(* The frames begin where the request has been read to its end.             *)
LEMMA StreamStarts ==
  ASSUME packets' = <<>>, body' = <<>>, asked' = 0, inbox' = <<>>, coming' = <<>>,
         pc' \notin {"length", "frame"}
  PROVE  InOrder'
<1>1. /\ Len(<<>>) = 0 /\ <<>> \in Seq(Bytes) /\ SubSeq(Frames, 1, 0) = <<>>
  <2>1. Frames \in Seq(DOMAIN Size)
    BY ConnectionAssumption
  <2>. QED BY <2>1
<1>2. Begins(0) \in Nat
  <2>1. 0 \in 0 .. Len(Frames)
    BY ConnectionAssumption
  <2>. QED BY <2>1, BeginsType
<1>3. Stream(<<>>, <<>>, <<>>, Begins(0))
  BY <1>1, <1>2 DEF Stream, GoesOn
<1>4. /\ Len(packets') = 0 /\ Len(body') = 0 /\ Len(inbox') = 0 /\ Len(coming') = 0
      /\ packets' = SubSeq(Frames, 1, 0)
  BY <1>1
<1>5. Begins(0) = Begins(0) + 0 + 0 + 0
  BY <1>2
<1>. QED BY <1>1, <1>3, <1>4, <1>5 DEF InOrder, Begins, Sent, Stream, GoesOn

LEMMA StreamKept == StreamInv /\ ReaderInv /\ ConnectionInv /\ [Next]_vars => StreamInv'
<1> SUFFICES ASSUME StreamInv, ReaderInv, ConnectionInv, [Next]_vars PROVE StreamInv'
  OBVIOUS
<1>1. CASE Arrive
  <2>1. UNCHANGED <<asked, packets, body, pc, cut>>
    BY <1>1 DEF Arrive, readVars, frameVars
  <2>. QED BY <1>1, <2>1, StreamArrives DEF StreamInv, Deciding
<1>2. CASE Fill \/ ReadLine \/ TooLong
  <2>1. UNCHANGED <<asked, packets, body>> /\ Deciding /\ Deciding'
    BY <1>2 DEF Fill, ReadLine, TooLong, Reading, Deciding, readVars, frameVars
  <2>. QED BY <2>1 DEF StreamInv, Deciding
<1>3. CASE Upgrade
  <2>1. /\ UNCHANGED <<asked, packets, body, inbox, coming, cut>> /\ pc = "decide"
        /\ pc' \in {"decide", "answer"}
    BY <1>3 DEF Upgrade, frameVars
  <2>2. asked = 0 /\ packets = <<>> /\ body = <<>> /\ (~cut => inbox = <<>> /\ coming = <<>>)
    BY <2>1 DEF StreamInv, ReaderInv, Deciding
  <2>3. pc' = "answer" /\ ~cut' => InOrder'
    <3> SUFFICES ASSUME pc' = "answer", ~cut' PROVE InOrder'
      OBVIOUS
    <3>1. /\ packets' = <<>> /\ body' = <<>> /\ asked' = 0 /\ inbox' = <<>> /\ coming' = <<>>
          /\ pc' \notin {"length", "frame"}
      BY <2>1, <2>2
    <3>. QED BY <3>1, StreamStarts
  <2>. QED BY <2>1, <2>2, <2>3 DEF StreamInv, Deciding
<1>4. CASE Close
  <2>1. UNCHANGED <<asked, packets>> /\ pc = "decide" /\ pc' = "closed"
    BY <1>4 DEF Close, frameVars, readVars
  <2>. QED BY <2>1 DEF StreamInv, Deciding
<1>5. CASE SendFrame
  <2>1. ~Deciding /\ UNCHANGED <<packets, pc, cut>>
    BY <1>5 DEF SendFrame, frameVars, ReaderInv, Deciding, Unanswered
  <2>. QED BY <1>5, <2>1, StreamSends DEF StreamInv, Deciding
<1>6. CASE ReadHeader
  <2>1. pc = "poll" /\ pc' \in {"poll", "length", "frame"} /\ (cut => cut')
    BY <1>6 DEF ReadHeader, Refused, Missized
  <2>. QED BY <1>6, <2>1, StreamHeader DEF StreamInv, Deciding
<1>7. CASE ReadPart
  <2>1. pc = "frame" /\ pc' = "frame" /\ (cut => cut')
    BY <1>7 DEF ReadPart
  <2>. QED BY <1>7, <2>1, StreamPart DEF StreamInv, Deciding
<1>8. CASE Dispatch
  <2>1. pc = "frame" /\ pc' \in {"poll", "answer"} /\ cut' = cut
    BY <1>8 DEF Dispatch
  <2>. QED BY <1>8, <2>1, StreamDispatches DEF StreamInv, Deciding
<1>9. CASE Answered \/ ClientReads \/ UNCHANGED vars \/ \E w \in Writers : WriteStep(w) \/ Broadcast(w)
  <2>1. /\ UNCHANGED <<asked, packets, body, want, inbox, coming, cut>>
        /\ pc' = pc \/ (pc = "answer" /\ pc' = "poll")
    BY <1>9 DEF Answered, ClientReads, WriteStep, Broadcast, vars, readVars, frameVars
  <2>2. InOrder /\ pc \in {"answer", "poll", "length", "frame"} => InOrder'
    BY <2>1 DEF InOrder, Expects, Begins, Sent, Stream, GoesOn
  <2>. QED BY <2>1, <2>2 DEF StreamInv, Deciding
<1>10. CASE ReadLength
  <2>1. pc = "length" /\ pc' = "frame" /\ (cut => cut')
    BY <1>10 DEF ReadLength, Missized
  <2>. QED BY <1>10, <2>1, StreamLength DEF StreamInv, Deciding
<1>. QED BY <1>1, <1>2, <1>3, <1>4, <1>5, <1>6, <1>7, <1>8, <1>9, <1>10 DEF Next, Handle

(* As long as ws_read and br_read find whole frames and requests, the       *)
(* packets that event_loop_start dispatches are those the client sent, in   *)
(* order, however delivery and reading interleave.                          *)
THEOREM PacketsInOrder == Spec => []PacketsExact
<1>1. Init => StreamInv
  BY DEF Init, StreamInv, Deciding
<1>2. Init => ReaderInv /\ ConnectionInv /\ WireInv
  BY ReadingStarts, TypesHold, WireStarts DEF Init
<1>3. StreamInv /\ ReaderInv /\ ConnectionInv /\ WireInv /\ [Next]_vars
        => (StreamInv /\ ReaderInv /\ ConnectionInv /\ WireInv)'
  BY StreamKept, ReadingKept, TypesKept, WireOnly, WireKept
<1>4. StreamInv /\ ConnectionInv => PacketsExact
  <2> SUFFICES ASSUME StreamInv, ConnectionInv, ~cut
               PROVE  Len(packets) <= asked /\ packets = SubSeq(Frames, 1, Len(packets))
    BY DEF PacketsExact
  <2>1. CASE pc \in {"answer", "poll", "length", "frame"}
    BY <2>1, InOrderType DEF StreamInv, InOrder
  <2>2. CASE packets = <<>>
    <3>1. Frames \in Seq(DOMAIN Size) /\ asked \in Nat
      BY ConnectionAssumption DEF ConnectionInv, TypeOK
    <3>2. Len(packets) = 0 /\ SubSeq(Frames, 1, 0) = <<>>
      BY <2>2, <3>1
    <3>. QED BY <2>2, <3>1, <3>2
  <2>. QED BY <2>1, <2>2 DEF StreamInv, Deciding, ConnectionInv, TypeOK
<1>. QED BY <1>1, <1>2, <1>3, <1>4, PTL DEF Spec

=============================================================================
