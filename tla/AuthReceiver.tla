----------------------------- MODULE AuthReceiver -----------------------------
(***************************************************************************)
(* The auth receiver (authentication/auth-reciever.c) and the stream the   *)
(* auth server (auth-server/main.py) sends it: for every sign-in a token   *)
(* and an account id, one behind the other, with nothing between them.     *)
(*                                                                         *)
(* The receiver polls and takes what has arrived on its non-blocking       *)
(* socket, up to the size of a token and of an id in turn.  A byte is      *)
(* named by the sign-in it belongs to and its position there.              *)
(***************************************************************************)
EXTENDS Naturals, Sequences, SequencesExt

CONSTANTS
    TOKEN_SIZE,
    ID_SIZE,
    MaxId,       \* bound: the longest account id somebody signs in with
    MaxSignIns   \* bound: how often somebody signs in

ASSUME ReceiverSizes ==
    /\ TOKEN_SIZE \in Nat \ {0} /\ ID_SIZE \in Nat \ {0}
    /\ MaxId \in Nat /\ MaxId >= ID_SIZE /\ MaxSignIns \in Nat

VARIABLES
    accounts,   \* accounts[n]: the length of the account id of the n-th sign-in
    open,       \* the auth server has not closed the connection
    wire,       \* what each sendall has sent and has not arrived yet
    buf,        \* bytes that have arrived and were not read
    split,      \* some sendall has arrived in pieces
    pc,         \* where start_auth_reciever is
    token, id,  \* the two buffers, up to the bytes read
    table       \* the pairs registered, in order

vars == <<accounts, open, wire, buf, split, pc, token, id, table>>

Token(n) == [k \in 1 .. TOKEN_SIZE |-> <<n, k>>]
Id(n) == [k \in 1 .. accounts[n] |-> <<n, TOKEN_SIZE + k>>]

Init ==
    /\ accounts = <<>> /\ open = TRUE
    /\ wire = <<>> /\ buf = <<>> /\ split = FALSE
    /\ pc = "poll_token"
    /\ token = <<>> /\ id = <<>>
    /\ table = <<>>

----------------------------------------------------------------------------

(* authenticate: both are sent before the next request is served.  A Google *)
(* id has ID_SIZE digits.  The unsafe variant invents a shorter one, or     *)
(* sends what the request gave it, of any length but 0.                     *)
SignIn(len) ==
    /\ open
    /\ Len(accounts) < MaxSignIns
    /\ accounts' = Append(accounts, len)
    /\ wire' = wire \o <<Token(Len(accounts) + 1),
                         [k \in 1 .. len |-> <<Len(accounts) + 1, TOKEN_SIZE + k>>]>>
    /\ UNCHANGED <<open, buf, split, pc, token, id, table>>

(* The next k bytes of a sendall arrive.                                    *)
Deliver(k) ==
    /\ wire # <<>> /\ k <= Len(wire[1])
    /\ buf' = buf \o SubSeq(wire[1], 1, k)
    /\ IF k = Len(wire[1])
       THEN wire' = Tail(wire) /\ UNCHANGED split
       ELSE wire' = [wire EXCEPT ![1] = SubSeq(@, k + 1, Len(@))] /\ split' = TRUE
    /\ UNCHANGED <<accounts, open, pc, token, id, table>>

Close ==
    /\ open
    /\ open' = FALSE
    /\ UNCHANGED <<accounts, wire, buf, split, pc, token, id, table>>

EndOfFile == ~open /\ wire = <<>> /\ buf = <<>>

(* Mutant: the socket is read without polling it first.                     *)
ReadAtOnce(from, to) ==
    /\ pc = from
    /\ pc' = to
    /\ UNCHANGED <<accounts, open, wire, buf, split, token, id, table>>

(* poll returns when there is something to read, the end of file included.  *)
Poll(from, to) ==
    /\ pc = from
    /\ buf # <<>> \/ EndOfFile
    /\ pc' = to
    /\ UNCHANGED <<accounts, open, wire, buf, split, token, id, table>>

(* Mutant: the last byte of the buffer is kept for a terminator.            *)
AllButOne(size, read) == IF Len(buf) < size - 1 - Len(read) THEN Len(buf) ELSE size - 1 - Len(read)

(* Mutant: what was read before does not count against the size.            *)
FromTheStart(size, read) == IF Len(buf) < size THEN Len(buf) ELSE size

(* How much one read returns, of size bytes asked for in all.               *)
Amount(size, read) == IF Len(buf) < size - Len(read) THEN Len(buf) ELSE size - Len(read)

(* Mutant: what the buffer does not take is lost.                           *)
ReadAndDrop(amount) == <<>>

Unread(amount) == SubSeq(buf, amount + 1, Len(buf))

ReadToken ==
    /\ pc = "read_token"
    /\ LET amount == Amount(TOKEN_SIZE, token)
       IN  IF amount > 0
           THEN /\ token' = token \o SubSeq(buf, 1, amount)
                /\ buf' = Unread(amount)
                /\ UNCHANGED pc
           ELSE /\ pc' = IF token = <<>> THEN "exit" ELSE "poll_id"
                /\ UNCHANGED <<token, buf>>
    /\ UNCHANGED <<accounts, open, wire, split, id, table>>

ReadId ==
    /\ pc = "read_id"
    /\ LET amount == Amount(ID_SIZE, id)
       IN  IF amount > 0
           THEN /\ id' = id \o SubSeq(buf, 1, amount)
                /\ buf' = Unread(amount)
                /\ UNCHANGED pc
           ELSE /\ pc' = IF id = <<>> THEN "exit" ELSE "insert"
                /\ UNCHANGED <<id, buf>>
    /\ UNCHANGED <<accounts, open, wire, split, token, table>>

(* awaiting_connections_table_insert, and new buffers for the next pair.    *)
Register ==
    /\ pc = "insert"
    /\ table' = Append(table, [token |-> token, id |-> id])
    /\ token' = <<>> /\ id' = <<>>
    /\ pc' = "poll_token"
    /\ UNCHANGED <<accounts, open, wire, buf, split>>

Receive ==
    \/ Poll("poll_token", "read_token")
    \/ ReadToken
    \/ Poll("poll_id", "read_id")
    \/ ReadId
    \/ Register

Network == \E k \in 1 .. TOKEN_SIZE + MaxId : Deliver(k)

Next ==
    \/ \E len \in 1 .. MaxId : SignIn(len)
    \/ Network
    \/ Close
    \/ Receive

(* The receiver thread runs, and TCP delivers what was sent.                *)
Fairness == WF_vars(Receive) /\ WF_vars(Network)

Spec == Init /\ [][Next]_vars /\ Fairness

----------------------------------------------------------------------------

Bytes == (1 .. MaxSignIns) \X (1 .. TOKEN_SIZE + MaxId)

(* A token and an id fit their buffers.                                     *)
TypeOK ==
    /\ accounts \in Seq(1 .. MaxId) /\ Len(accounts) <= MaxSignIns
    /\ open \in BOOLEAN /\ split \in BOOLEAN
    /\ wire \in Seq(Seq(Bytes)) /\ buf \in Seq(Bytes)
    /\ pc \in {"poll_token", "read_token", "poll_id", "read_id", "insert", "exit"}
    /\ token \in Seq(Bytes) /\ Len(token) <= TOKEN_SIZE
    /\ id \in Seq(Bytes) /\ Len(id) <= ID_SIZE
    /\ table \in Seq([token : Seq(Bytes), id : Seq(Bytes)])

(* The receiver is a faithful reader of the stream: the pairs registered,   *)
(* the buffers and what is still to be read are, in this order, the bytes   *)
(* sent, none lost, doubled or out of order, however they arrive.           *)
StreamKept ==
    FlattenSeq([n \in DOMAIN table |-> table[n].token \o table[n].id])
        \o token \o id \o buf \o FlattenSeq(wire)
      = FlattenSeq([n \in DOMAIN accounts |-> Token(n) \o Id(n)])

(* The receiver needs no separators as long as every sendall arrives in one *)
(* piece and every id so far has exactly ID_SIZE bytes: then the n-th pair  *)
(* registered is the token and the id of the n-th sign-in, however many of  *)
(* them wait unread, and whatever ids come after them.                      *)
PairsMatch ==
    \A n \in DOMAIN table :
        ~split /\ (\A k \in 1 .. n : accounts[k] = ID_SIZE) =>
            table[n] = [token |-> Token(n), id |-> Id(n)]

(* Under the same conditions every sign-in is registered, with its own      *)
(* token and id (PairsMatch), also when the auth server goes away right     *)
(* after it.                                                                *)
SignInsArrive ==
    \A n \in 1 .. MaxSignIns :
        (n <= Len(accounts))
            ~> (\/ n <= Len(table) \/ split
                \/ \E k \in DOMAIN accounts : k <= n /\ accounts[k] # ID_SIZE)

(* auth-reciever.c:68, "Get token": what is registered as a token is one.   *)
TokensWhole == \A n \in DOMAIN table : \E k \in DOMAIN accounts : table[n].token = Token(k)

=============================================================================
