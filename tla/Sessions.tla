------------------------------- MODULE Sessions -------------------------------
(***************************************************************************)
(* The event loop of every session (core/event-loop.c) with the session    *)
(* states (player/session.c), the packet reader (communication/packet.c)   *)
(* and the packet handlers (communication/packet-handlers.c).              *)
(*                                                                         *)
(* One thread runs the loop of one session.  The threads share the global  *)
(* packet_errno, which a failed login sets and nothing resets, and the     *)
(* process: an access through a null pointer in one of them ends all.      *)
(* What a handler does to the world is in Movement and, for the tokens, in *)
(* AwaitingConnections; here it succeeds or fails.                         *)
(***************************************************************************)
EXTENDS Integers

CONSTANTS Sessions

(* packet-types.h                                                           *)
ERROR == 0
LOGIN_PACKET == 1
LOGOUT_PACKET == 2
SUCCESS_PACKET == 3
FAILURE_PACKET == 4
MOVE_PACKET == 5
BAD_STATE_PACKET == 7
INSPECT_PLAYER_PACKET == 8

(* The opcode is an unsigned byte.  11 stands for those without a name.     *)
Opcodes == 0 .. 11

(* errors.h.  BAD_PACKET is never stored in packet_errno.                   *)
INVALID_AWAITING_CONNECTION == 2

VARIABLES
    up,            \* the process runs
    packet_errno,
    state,         \* state[s]: the state of session s
    player,        \* player[s]: 0 for none, else which of the Player objects of s
    pc,            \* pc[s]: where the loop of s is
    opcode,        \* opcode[s]: of the packet s is at
    out,           \* out[s]: the packets the loop has sent in this round, by opcode
    failed         \* the sessions that have presented an unknown token

vars == <<up, packet_errno, state, player, pc, opcode, out, failed>>

Init ==
    /\ up = TRUE
    /\ packet_errno = 0
    /\ state = [s \in Sessions |-> "DISABLED"]
    /\ player = [s \in Sessions |-> 0]
    /\ pc = [s \in Sessions |-> "closed"]
    /\ opcode = [s \in Sessions |-> ERROR]
    /\ out = [s \in Sessions |-> {}]
    /\ failed = {}

Go(s, to) == pc' = [pc EXCEPT ![s] = to]

At(s, stage) == up /\ pc[s] = stage

Send(s, packet) == out' = [out EXCEPT ![s] = @ \cup {packet}]

(* Mutant: a roaming session may log out.                                   *)
LogoutWhenRoaming(st) ==
    IF st = "DISABLED" THEN {LOGIN_PACKET}
    ELSE {MOVE_PACKET, INSPECT_PLAYER_PACKET, LOGOUT_PACKET}

(* Mutant: a roaming session may log in again.                              *)
LoginAlways(st) ==
    IF st = "DISABLED" THEN {LOGIN_PACKET}
    ELSE {MOVE_PACKET, INSPECT_PLAYER_PACKET, LOGIN_PACKET}

(* session_populate_list: the packets a state allows.                       *)
session_valid_packets(st) ==
    IF st = "DISABLED" THEN {LOGIN_PACKET} ELSE {MOVE_PACKET, INSPECT_PLAYER_PACKET}

session_verify_packet(s) == opcode[s] \in session_valid_packets(state[s])

----------------------------------------------------------------------------

(* The thread of a new connection.  Without a connection to the database    *)
(* session_create fails and the thread closes the socket instead.           *)
Connect(s) ==
    /\ At(s, "closed")
    /\ Go(s, "poll")
    /\ UNCHANGED <<up, packet_errno, state, player, opcode, out, failed>>

(* packet_read returns a packet.  Nothing looks at its opcode.              *)
Read(s, o) ==
    /\ At(s, "poll")
    /\ opcode' = [opcode EXCEPT ![s] = o]
    /\ out' = [out EXCEPT ![s] = {}]
    /\ Go(s, "verify")
    /\ UNCHANGED <<up, packet_errno, state, player, failed>>

(* An empty frame, which is also what a closed socket reads as: packet_read *)
(* returns 0x0, the loop answers with an error and passes the null pointer  *)
(* on to session_verify_packet.                                             *)
ReadEmpty(s) ==
    /\ At(s, "poll")
    /\ out' = [out EXCEPT ![s] = {ERROR}]
    /\ Go(s, "null")
    /\ UNCHANGED <<up, packet_errno, state, player, opcode, failed>>

VerifyNull(s) ==
    /\ At(s, "null")
    /\ up' = FALSE
    /\ UNCHANGED <<packet_errno, state, player, pc, opcode, out, failed>>

(* A frame with an invalid frame opcode or size, for which ws_read_frame    *)
(* returns 0x0, or one too short for a packet header, whose length wraps    *)
(* around: packet_read does not return.                                     *)
ReadBad(s) ==
    /\ At(s, "poll")
    /\ out' = [out EXCEPT ![s] = {}]
    /\ up' = FALSE
    /\ Go(s, "read")
    /\ UNCHANGED <<packet_errno, state, player, opcode, failed>>

(* Mutant: the cleanup is not jumped to.                                    *)
VerifyGoesOn(s) ==
    /\ At(s, "verify")
    /\ IF session_verify_packet(s) THEN UNCHANGED out ELSE Send(s, BAD_STATE_PACKET)
    /\ Go(s, "errno")
    /\ UNCHANGED <<up, packet_errno, state, player, opcode, failed>>

Verify(s) ==
    /\ At(s, "verify")
    /\ IF session_verify_packet(s)
       THEN Go(s, "errno") /\ UNCHANGED out
       ELSE Send(s, BAD_STATE_PACKET) /\ Go(s, "poll")
    /\ UNCHANGED <<up, packet_errno, state, player, opcode, failed>>

(* Mutant: the test is inverted.                                            *)
CheckInverted(s) ==
    /\ At(s, "errno")
    /\ IF packet_errno = 0 THEN Send(s, ERROR) ELSE UNCHANGED out
    /\ Go(s, "route")
    /\ UNCHANGED <<up, packet_errno, state, player, opcode, failed>>

(* event_loop_error sends an error and a close frame; the packet is then    *)
(* handled all the same.                                                    *)
CheckErrno(s) ==
    /\ At(s, "errno")
    /\ IF packet_errno # 0 THEN Send(s, ERROR) ELSE UNCHANGED out
    /\ Go(s, "route")
    /\ UNCHANGED <<up, packet_errno, state, player, opcode, failed>>

----------------------------------------------------------------------------

Route(s, o) == At(s, "route") /\ opcode[s] = o

(* packet_handle_login, no such token: no answer, the error is left to      *)
(* whoever looks at packet_errno next.                                      *)
LoginUnknown(s) ==
    /\ Route(s, LOGIN_PACKET)
    /\ packet_errno' = INVALID_AWAITING_CONNECTION
    /\ failed' = failed \cup {s}
    /\ Go(s, "poll")
    /\ UNCHANGED <<up, state, player, opcode, out>>

(* Mutant: the state is set before the player is looked up.                 *)
LoginStateFirst(s) ==
    /\ Route(s, LOGIN_PACKET)
    /\ player' = [player EXCEPT ![s] = 0]
    /\ state' = [state EXCEPT ![s] = "ROAMING"]
    /\ Send(s, FAILURE_PACKET)
    /\ Go(s, "poll")
    /\ UNCHANGED <<up, packet_errno, opcode, failed>>

(* The token's account has no player.                                       *)
LoginNoPlayer(s) ==
    /\ Route(s, LOGIN_PACKET)
    /\ player' = [player EXCEPT ![s] = 0]
    /\ Send(s, FAILURE_PACKET)
    /\ Go(s, "poll")
    /\ UNCHANGED <<up, packet_errno, state, opcode, failed>>

LoginFound(s) ==
    /\ Route(s, LOGIN_PACKET)
    /\ player' = [player EXCEPT ![s] = @ + 1]
    /\ state' = [state EXCEPT ![s] = "ROAMING"]
    /\ Go(s, "spawn")
    /\ UNCHANGED <<up, packet_errno, opcode, out, failed>>

(* Mutant: a spawn that failed is answered and the session destroyed.       *)
SpawnFails(s) ==
    /\ At(s, "spawn")
    /\ state' = [state EXCEPT ![s] = "DISABLED"]
    /\ Send(s, SUCCESS_PACKET)
    /\ Go(s, "poll")
    /\ UNCHANGED <<up, packet_errno, player, opcode, failed>>

(* map_spawn_player never returns -1, so the login succeeds.                *)
Spawn(s) ==
    /\ At(s, "spawn")
    /\ Send(s, SUCCESS_PACKET)
    /\ Go(s, "poll")
    /\ UNCHANGED <<up, packet_errno, state, player, opcode, failed>>

(* packet_handle_move: only a refused move is answered here.                *)
HandleMove(s) ==
    /\ Route(s, MOVE_PACKET)
    /\ Send(s, FAILURE_PACKET) \/ UNCHANGED out
    /\ Go(s, "poll")
    /\ UNCHANGED <<up, packet_errno, state, player, opcode, failed>>

(* map_spawn_player and player_move loop over player lists without a lock.  *)
(* Roster shows how such a loop may never end or end the process.           *)
LoopFails(s) ==
    /\ At(s, "spawn") \/ Route(s, MOVE_PACKET)
    /\ \/ Go(s, "looping") /\ UNCHANGED up
       \/ up' = FALSE /\ UNCHANGED pc
    /\ UNCHANGED <<packet_errno, state, player, opcode, out, failed>>

(* packet_handle_inspect_player: the player is found or is not.             *)
HandleInspect(s) ==
    /\ Route(s, INSPECT_PLAYER_PACKET)
    /\ Send(s, FAILURE_PACKET) \/ Send(s, INSPECT_PLAYER_PACKET)
    /\ Go(s, "poll")
    /\ UNCHANGED <<up, packet_errno, state, player, opcode, failed>>

(* One step in the round of s.                                              *)
Step(s) ==
    \/ VerifyNull(s)
    \/ Verify(s)
    \/ CheckErrno(s)
    \/ LoginUnknown(s)
    \/ LoginNoPlayer(s)
    \/ LoginFound(s)
    \/ Spawn(s)
    \/ HandleMove(s)
    \/ LoopFails(s)
    \/ HandleInspect(s)

Next ==
    \E s \in Sessions :
        \/ Connect(s)
        \/ \E o \in Opcodes : Read(s, o)
        \/ ReadEmpty(s)
        \/ ReadBad(s)
        \/ Step(s)

(* The thread of a session waits for nothing but the next frame: while the  *)
(* process runs it goes on, or loops for ever in a player list (LoopFails). *)
Fairness == \A s \in Sessions : WF_vars(Step(s))

Spec == Init /\ [][Next]_vars /\ Fairness

----------------------------------------------------------------------------

TypeOK ==
    /\ up \in BOOLEAN
    /\ packet_errno \in {0, INVALID_AWAITING_CONNECTION}
    /\ state \in [Sessions -> {"DISABLED", "ROAMING"}]
    /\ player \in [Sessions -> 0 .. 1]
    /\ pc \in [Sessions -> {"closed", "poll", "read", "null", "verify", "errno",
                            "route", "spawn", "looping"}]
    /\ opcode \in [Sessions -> Opcodes]
    /\ out \in [Sessions -> SUBSET Opcodes]
    /\ failed \subseteq Sessions

(* The handlers that use session->player find one: a session roams exactly  *)
(* while it has a player, and moves only while it roams.                    *)
HandlerHasPlayer ==
    \A s \in Sessions :
        /\ state[s] = "ROAMING" <=> player[s] # 0
        /\ pc[s] = "route" /\ opcode[s] = MOVE_PACKET => player[s] # 0

(* The two tables agree: whatever opcode a client sends, a state never      *)
(* admits one for which packet_handle_route has no handler with a result.   *)
(* packet_handle_logout and the ERROR case return nothing at all.           *)
RouteDefined ==
    \A s \in Sessions :
        pc[s] = "route" => opcode[s] \in {LOGIN_PACKET, MOVE_PACKET, INSPECT_PLAYER_PACKET}

(* A session keeps the player of its first login for good: nothing brings   *)
(* it back to DISABLED, and no second login replaces the player and leaks   *)
(* the first, whose tile would stay blocked.                                *)
PlayerKept ==
    [][\A s \in Sessions : player[s] # 0 => player'[s] = player[s] /\ state'[s] = state[s]]_vars

(* A client is told the truth about its login: after SUCCESS it roams, and  *)
(* after FAILURE it is still DISABLED and may try again.                    *)
AnswerTrue ==
    \A s \in Sessions :
        pc[s] = "poll" /\ opcode[s] = LOGIN_PACKET =>
            /\ SUCCESS_PACKET \in out[s] => state[s] = "ROAMING"
            /\ FAILURE_PACKET \in out[s] => state[s] = "DISABLED"

(* No session is told of an error and closed out of the blue: some login    *)
(* has failed, or the session's own frame was empty.                        *)
ErrorHasCause ==
    \A s \in Sessions : ERROR \in out[s] => failed # {} \/ pc[s] = "null"

(* Every packet read is dealt with, and the loop polls again, unless its    *)
(* handler is caught in a player list or the process ends.  No other        *)
(* session, failed login or refused packet can hold a round up.             *)
RoundEnds ==
    \A s \in Sessions :
        (pc[s] \notin {"closed", "poll"}) ~> (pc[s] \in {"poll", "looping"} \/ ~up)

(* event-loop.c:47, "check if packet errored": a session that is told of an *)
(* error has made one.                                                      *)
ErrorIsOwn ==
    \A s \in Sessions : ERROR \in out[s] => s \in failed \/ pc[s] = "null"

=============================================================================
