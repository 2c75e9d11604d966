---------------------------- MODULE SessionsProofs ----------------------------
(* Proofs about Sessions, for any set of sessions.                          *)
EXTENDS Sessions, TLAPS

(* What a session's own thread has established when it gets to each stage.  *)
(* Nobody else writes state[s], player[s] or opcode[s], so what was verified*)
(* is still so when the packet is routed.                                   *)
Verified ==
    \A s \in Sessions :
        /\ pc[s] \in {"errno", "route"} => session_verify_packet(s)
        /\ pc[s] = "spawn" => opcode[s] = LOGIN_PACKET /\ state[s] = "ROAMING"
        /\ pc[s] \in {"verify", "errno", "route", "spawn"} => out[s] \subseteq {ERROR}
        /\ pc[s] \in {"closed", "read"} => out[s] = {}

Roaming == \A s \in Sessions : state[s] = "ROAMING" <=> player[s] # 0

ErrnoCause == packet_errno # 0 => failed # {}

IInv == TypeOK /\ Verified /\ Roaming /\ ErrnoCause /\ AnswerTrue /\ ErrorHasCause

LEMMA InitInv == Init => IInv
  BY DEF Init, IInv, TypeOK, Verified, Roaming, ErrnoCause, AnswerTrue, ErrorHasCause,
         Opcodes, ERROR, LOGIN_PACKET, SUCCESS_PACKET, FAILURE_PACKET

(* The arrival of a connection or of a frame.                               *)
LEMMA InputInv ==
  ASSUME IInv, NEW s \in Sessions,
         Connect(s) \/ (\E o \in Opcodes : Read(s, o)) \/ ReadEmpty(s) \/ ReadBad(s)
  PROVE  IInv'
<1>. USE DEF IInv, TypeOK, Verified, Roaming, ErrnoCause, AnswerTrue, ErrorHasCause, At, Go,
         session_verify_packet, Opcodes, ERROR, LOGIN_PACKET, SUCCESS_PACKET, FAILURE_PACKET
<1>1. CASE Connect(s)
  BY <1>1 DEF Connect
<1>2. ASSUME NEW o \in Opcodes, Read(s, o)
      PROVE  IInv'
  BY <1>2 DEF Read
<1>3. CASE ReadEmpty(s)
  BY <1>3 DEF ReadEmpty
<1>4. CASE ReadBad(s)
  BY <1>4 DEF ReadBad
<1>. QED
  BY <1>1, <1>2, <1>3, <1>4

(* A step within a round.                                                   *)
LEMMA StepInv ==
  ASSUME IInv, NEW s \in Sessions, Step(s)
  PROVE  IInv'
<1>. USE DEF IInv, TypeOK, Verified, Roaming, ErrnoCause, AnswerTrue, ErrorHasCause, At, Go,
         Send, session_verify_packet, session_valid_packets, Opcodes, ERROR, LOGIN_PACKET,
         SUCCESS_PACKET, FAILURE_PACKET, MOVE_PACKET, BAD_STATE_PACKET, INSPECT_PLAYER_PACKET,
         INVALID_AWAITING_CONNECTION
<1>1. CASE VerifyNull(s)
  BY <1>1 DEF VerifyNull
<1>2. CASE Verify(s)
  BY <1>2 DEF Verify
<1>3. CASE CheckErrno(s)
  BY <1>3 DEF CheckErrno
<1>4. CASE LoginUnknown(s)
  BY <1>4 DEF LoginUnknown, Route
<1>5. CASE LoginNoPlayer(s)
  BY <1>5 DEF LoginNoPlayer, Route
<1>6. CASE LoginFound(s)
  BY <1>6 DEF LoginFound, Route
<1>7. CASE Spawn(s)
  BY <1>7 DEF Spawn
<1>8. CASE HandleMove(s)
  BY <1>8 DEF HandleMove, Route
<1>9. CASE HandleInspect(s)
  BY <1>9 DEF HandleInspect, Route
<1>10. CASE LoopFails(s)
  <2>1. CASE Go(s, "looping") /\ UNCHANGED up
    BY <1>10, <2>1 DEF LoopFails, Route
  <2>2. CASE up' = FALSE /\ UNCHANGED pc
    BY <1>10, <2>2 DEF LoopFails, Route
  <2>. QED
    BY <1>10, <2>1, <2>2 DEF LoopFails
<1>. QED
  BY <1>1, <1>2, <1>3, <1>4, <1>5, <1>6, <1>7, <1>8, <1>9, <1>10 DEF Step

THEOREM SessionInvariant == Spec => []IInv
<1>1. IInv /\ UNCHANGED vars => IInv'
  BY DEF IInv, TypeOK, Verified, Roaming, ErrnoCause, AnswerTrue, ErrorHasCause, vars,
         session_verify_packet
<1>2. IInv /\ [Next]_vars => IInv'
  BY <1>1, InputInv, StepInv DEF Next
<1>. QED
  BY InitInv, <1>2, PTL DEF Spec

(* No session ever makes a second player, and packet_errno holds no code    *)
(* but the one the login handler sets.                                      *)
THEOREM SessionTypes == Spec => []TypeOK
<1>1. IInv => TypeOK
  BY DEF IInv
<1>. QED
  BY SessionInvariant, <1>1, PTL

(* The move handler never meets a null player.                              *)
THEOREM PlayersBound == Spec => []HandlerHasPlayer
<1>1. ASSUME IInv, NEW s \in Sessions, pc[s] = "route", opcode[s] = MOVE_PACKET
      PROVE  state[s] = "ROAMING"
  BY <1>1 DEF IInv, Verified, TypeOK, session_verify_packet, session_valid_packets,
              LOGIN_PACKET, MOVE_PACKET
<1>2. IInv => HandlerHasPlayer
  BY <1>1 DEF IInv, Roaming, HandlerHasPlayer
<1>. QED
  BY SessionInvariant, <1>2, PTL

(* Whatever the clients send, only handlers that return a value run.        *)
THEOREM RoutesDefined == Spec => []RouteDefined
<1>1. IInv => RouteDefined
  BY DEF IInv, Verified, TypeOK, RouteDefined, session_verify_packet, session_valid_packets
<1>. QED
  BY SessionInvariant, <1>1, PTL

(* What a client is told of its login is what became of it.                 *)
THEOREM AnswersTrue == Spec => []AnswerTrue
<1>1. IInv => AnswerTrue
  BY DEF IInv
<1>. QED
  BY SessionInvariant, <1>1, PTL

(* An error goes back to a failed login, be it another session's.           *)
THEOREM ErrorsCaused == Spec => []ErrorHasCause
<1>1. IInv => ErrorHasCause
  BY DEF IInv
<1>. QED
  BY SessionInvariant, <1>1, PTL

(* A session and its player stay together.                                  *)
THEOREM PlayersKept == Spec => PlayerKept
<1>. DEFINE Kept == \A s \in Sessions :
              player[s] # 0 => player'[s] = player[s] /\ state'[s] = state[s]
<1>1. ASSUME IInv, NEW s \in Sessions,
             Route(s, LOGIN_PACKET)
      PROVE  player[s] = 0 /\ state[s] = "DISABLED"
  BY <1>1 DEF IInv, Verified, Roaming, TypeOK, Route, At, session_verify_packet,
              session_valid_packets, LOGIN_PACKET, MOVE_PACKET, INSPECT_PLAYER_PACKET
<1>2. ASSUME IInv, NEW s \in Sessions, Step(s)
      PROVE  Kept
  <2>1. CASE LoginNoPlayer(s) \/ LoginFound(s)
    BY <2>1, <1>1, <1>2 DEF LoginNoPlayer, LoginFound, IInv, TypeOK
  <2>2. CASE ~(LoginNoPlayer(s) \/ LoginFound(s))
    BY <2>2, <1>2 DEF Step, VerifyNull, Verify, CheckErrno, LoginUnknown, Spawn, HandleMove,
                      LoopFails, HandleInspect
  <2>. QED
    BY <2>1, <2>2
<1>3. ASSUME NEW s \in Sessions,
             Connect(s) \/ (\E o \in Opcodes : Read(s, o)) \/ ReadEmpty(s) \/ ReadBad(s)
      PROVE  Kept
  BY <1>3 DEF Connect, Read, ReadEmpty, ReadBad
<1>4. IInv /\ [Next]_vars => [Kept]_vars
  BY <1>2, <1>3 DEF Next
<1>. QED
  BY SessionInvariant, <1>4, PTL DEF Spec, PlayerKept

=============================================================================
