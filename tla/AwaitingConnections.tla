------------------------- MODULE AwaitingConnections -------------------------
(***************************************************************************)
(* Login tokens: authentication/awaiting-connections.c and its use by      *)
(* packet_handle_login.                                                    *)
(*                                                                         *)
(* The auth receiver lists a token with the account it stands for, a       *)
(* client presents the token to log in, which takes it off the list, and a *)
(* cleaner thread removes what nobody has claimed.  Inserting and removing *)
(* hold write_lock; looking up and the two walks over the table, of the    *)
(* cleaner and of the receiver that prints it, do not.  A token is 255     *)
(* random characters and is sent once, so a token also names its           *)
(* AwaitingConnection and the id of its account.                           *)
(*                                                                         *)
(* Time is counted down in seconds, not up, so no bound on it is needed.   *)
(***************************************************************************)
EXTENDS Integers

CONSTANTS
    Tokens,
    Known,     \* tokens of accounts that have a player in the database
    Clients,   \* sessions that log in
    TTL,       \* time_to_live, also the cleaner's sleep, in seconds
    NoToken,
    Garbage    \* an id of no account

ASSUME TTLAssumption == TTL \in Nat \ {0}
ASSUME TokensAssumption == Known \subseteq Tokens /\ NoToken \notin Tokens /\ Garbage \notin Tokens

VARIABLES
    up,        \* the process runs
    entry,     \* entry[t]: "unsent", "listed" or "freed", with its id
    left,      \* left[t]: seconds to the expiration of t, 0 from then on
    sleep,     \* seconds the cleaner still sleeps
    walking,   \* the cleaner walks over the table
    scan,      \* the tokens its walk has yet to visit
    printing,  \* the receiver walks over the table
    torn,      \* the readers under which the table has changed
    pc,        \* pc[c]: where c's packet_handle_login is
    code,      \* code[c]: the token c presented
    id         \* id[c]: c's copy of the account id

cleaner == <<sleep, walking, scan>>
client == <<pc, code, id>>
vars == <<up, entry, left, cleaner, printing, torn, client>>

Init ==
    /\ up = TRUE
    /\ entry = [t \in Tokens |-> "unsent"]
    /\ left = [t \in Tokens |-> 0]
    /\ sleep = TTL
    /\ walking = FALSE
    /\ scan = {}
    /\ printing = FALSE
    /\ torn = {}
    /\ pc = [c \in Clients |-> "disabled"]
    /\ code = [c \in Clients |-> NoToken]
    /\ id = [c \in Clients |-> NoToken]

Listed == {t \in Tokens : entry[t] = "listed"}

At(c, stage) == up /\ pc[c] = stage

Go(c, stage) == pc' = [pc EXCEPT ![c] = stage]

(* The threads inside the table without its lock.                           *)
Reading ==
    {c \in Clients : pc[c] = "find"}
        \cup (IF walking THEN {"cleaner"} ELSE {})
        \cup (IF printing THEN {"receiver"} ELSE {})

(* The table changes, and may be resized, under whoever is reading it.      *)
Changed == torn' = torn \cup Reading

----------------------------------------------------------------------------

(* Mutant: the time to live is added to an expiration that has it already.  *)
InsertTwiceAsLong(t) ==
    /\ up /\ ~printing
    /\ entry[t] = "unsent"
    /\ entry' = [entry EXCEPT ![t] = "listed"]
    /\ left' = [left EXCEPT ![t] = TTL + TTL]
    /\ Changed
    /\ printing' = TRUE
    /\ UNCHANGED <<up, cleaner, client>>

(* awaiting_connections_table_insert, called by the auth receiver, which    *)
(* then begins to print the table.                                          *)
Insert(t) ==
    /\ up /\ ~printing
    /\ entry[t] = "unsent"
    /\ entry' = [entry EXCEPT ![t] = "listed"]
    /\ left' = [left EXCEPT ![t] = TTL]
    /\ Changed
    /\ printing' = TRUE
    /\ UNCHANGED <<up, cleaner, client>>

(* awaiting_connections_table_print_all is through.                         *)
PrintAll ==
    /\ up /\ printing
    /\ printing' = FALSE
    /\ torn' = torn \ {"receiver"}
    /\ UNCHANGED <<up, entry, left, cleaner, client>>

(* A login packet, with any text for a token: the look-up begins.           *)
Present(c, t) ==
    /\ At(c, "disabled")
    /\ code' = [code EXCEPT ![c] = t]
    /\ Go(c, "find")
    /\ UNCHANGED <<up, entry, left, cleaner, printing, torn, id>>

(* Mutant: the token is taken off the list before its id is copied.         *)
FindAndRemove(c) ==
    /\ At(c, "find") /\ entry[code[c]] = "listed"
    /\ entry' = [entry EXCEPT ![code[c]] = "freed"]
    /\ Go(c, "copy")
    /\ torn' = (torn \cup Reading) \ {c}
    /\ UNCHANGED <<up, left, cleaner, printing, code, id>>

(* awaiting_connections_table_find: no lock, and no look at the expiration. *)
(* A look-up that overlaps with a change may find what has just been freed. *)
Find(c) ==
    /\ At(c, "find")
    /\ entry[code[c]] = "listed" \/ (c \in torn /\ entry[code[c]] = "freed")
    /\ Go(c, "copy")
    /\ torn' = torn \ {c}
    /\ UNCHANGED <<up, entry, left, cleaner, printing, code, id>>

(* It finds nothing, and the login is dropped without an answer; one that   *)
(* overlaps with a change may miss a listed token.                          *)
NotFound(c) ==
    /\ At(c, "find")
    /\ entry[code[c]] # "listed" \/ c \in torn
    /\ Go(c, "disabled")
    /\ code' = [code EXCEPT ![c] = NoToken]
    /\ torn' = torn \ {c}
    /\ UNCHANGED <<up, entry, left, cleaner, printing, id>>

(* A reader follows a pointer the change has freed: GLib's table is not     *)
(* made for readers without the lock, nor for a walk whose callback removes.*)
(* README.md:31, "Removing awaiting enteries results in segfault".          *)
Segfault ==
    /\ up /\ torn # {}
    /\ up' = FALSE
    /\ UNCHANGED <<entry, left, cleaner, printing, torn, client>>

(* The id the entry points to is copied.  If it has been freed since, its   *)
(* memory may hold anything by now: the next sign-in's id, the text of an   *)
(* inspect packet, or no id at all.                                         *)
CopyId(c) ==
    /\ At(c, "copy")
    /\ \E i \in IF entry[code[c]] = "freed" THEN Tokens \cup {Garbage} ELSE {code[c]} :
          id' = [id EXCEPT ![c] = i]
    /\ Go(c, "get")
    /\ UNCHANGED <<up, entry, left, cleaner, printing, torn, code>>

(* db_player_get_player finds the player, and the session roams as him.     *)
GetPlayer(c) ==
    /\ At(c, "get") /\ id[c] \in Known
    /\ Go(c, "remove")
    /\ UNCHANGED <<up, entry, left, cleaner, printing, torn, code, id>>

(* There is no such player: a failure packet, and the token stays listed.   *)
NoPlayer(c) ==
    /\ At(c, "get") /\ id[c] \notin Known
    /\ Go(c, "disabled")
    /\ code' = [code EXCEPT ![c] = NoToken]
    /\ id' = [id EXCEPT ![c] = NoToken]
    /\ UNCHANGED <<up, entry, left, cleaner, printing, torn>>

(* Mutant: the entry is left in the table.                                  *)
KeepEntry(t) == UNCHANGED <<entry, torn>>

(* awaiting_connections_table_remove: the entry and its id are freed, if    *)
(* the token is still listed.                                               *)
RemoveEntry(t) ==
    IF entry[t] = "listed"
    THEN entry' = [entry EXCEPT ![t] = "freed"] /\ Changed
    ELSE UNCHANGED <<entry, torn>>

Spend(c) ==
    /\ At(c, "remove")
    /\ RemoveEntry(code[c])
    /\ Go(c, "roaming")
    /\ UNCHANGED <<up, left, cleaner, printing, code, id>>

----------------------------------------------------------------------------

(* The cleaner wakes up and starts its walk over the table.                 *)
Wake ==
    /\ up /\ sleep = 0 /\ ~walking
    /\ walking' = TRUE
    /\ scan' = Listed
    /\ UNCHANGED <<up, entry, left, sleep, printing, torn, client>>

(* Mutant: the comparison is the wrong way round.                           *)
NotYetExpired(t) == left[t] > 0

(* Mutant: everything listed is removed.                                    *)
AlwaysExpired(t) == TRUE

Expired(t) == left[t] = 0

(* awaiting_connections_table_check_if_expired, for one entry of the walk.  *)
Check(t) ==
    /\ up /\ t \in scan
    /\ IF entry[t] = "listed" /\ Expired(t) THEN RemoveEntry(t) ELSE UNCHANGED <<entry, torn>>
    /\ scan' = scan \ {t}
    /\ UNCHANGED <<up, left, sleep, walking, printing, client>>

(* The walk is over, and the cleaner sleeps again.  A GLib with its checks  *)
(* on gives up a walk under which the table has changed, by its own removal *)
(* or by anybody else's.                                                    *)
WalkOver ==
    /\ up /\ walking
    /\ scan = {} \/ "cleaner" \in torn
    /\ scan' = {}
    /\ walking' = FALSE
    /\ sleep' = TTL
    /\ torn' = torn \ {"cleaner"}
    /\ UNCHANGED <<up, entry, left, printing, client>>

(* A second passes; the cleaner's walk takes less than one.                 *)
Tick ==
    /\ up /\ sleep > 0
    /\ sleep' = sleep - 1
    /\ left' = [t \in Tokens |-> IF left[t] > 0 THEN left[t] - 1 ELSE 0]
    /\ UNCHANGED <<up, entry, walking, scan, printing, torn, client>>

Login(c) == Find(c) \/ NotFound(c) \/ CopyId(c) \/ GetPlayer(c) \/ NoPlayer(c) \/ Spend(c)

Cleaner == Wake \/ WalkOver \/ \E t \in Tokens : Check(t)

Next ==
    \/ \E t \in Tokens : Insert(t)
    \/ PrintAll
    \/ \E c \in Clients, t \in Tokens : Present(c, t)
    \/ \E c \in Clients : Login(c)
    \/ Cleaner
    \/ Segfault
    \/ Tick

(* While the process runs the cleaner thread is scheduled, and time passes. *)
Fairness == WF_vars(Cleaner) /\ WF_vars(Tick)

Spec == Init /\ [][Next]_vars /\ Fairness

----------------------------------------------------------------------------

TypeOK ==
    /\ up \in BOOLEAN
    /\ entry \in [Tokens -> {"unsent", "listed", "freed"}]
    /\ left \in [Tokens -> 0 .. TTL]
    /\ sleep \in 0 .. TTL
    /\ walking \in BOOLEAN
    /\ scan \subseteq Tokens
    /\ printing \in BOOLEAN
    /\ torn \subseteq Clients \cup {"cleaner", "receiver"}
    /\ pc \in [Clients -> {"disabled", "find", "copy", "get", "remove", "roaming"}]
    /\ code \in [Clients -> Tokens \cup {NoToken}]
    /\ id \in [Clients -> Tokens \cup {NoToken, Garbage}]

(* A session logs in as the account its token stood for, unless the token   *)
(* has expired by then or a rival has logged in with it: only these two free*)
(* the id while it is looked up and copied, and then the session may become *)
(* any account.                                                             *)
RightAccount ==
    \A c \in Clients :
        pc[c] \in {"remove", "roaming"} =>
            \/ id[c] = code[c]
            \/ left[code[c]] = 0
            \/ \E d \in Clients \ {c} : pc[d] = "roaming" /\ code[d] = code[c]

(* Once a login with a token is complete, nobody gets past the look-up with *)
(* it any more, but for a look-up the removal overlapped with.  Rivals who  *)
(* were past it complete their logins, with the same player: README.md:29,  *)
(* "Mutliple people can log into the same player at once".                  *)
NoLaterLogin ==
    [][\A c, d \in Clients :
         pc[c] = "roaming" /\ pc[d] \in {"disabled", "find"} /\ pc'[d] = "copy" =>
            code[d] # code[c] \/ d \in torn]_vars

(* Nothing takes a token off the list before its time but a login with it.  *)
NoEarlyRemoval ==
    [][\A t \in Tokens :
         entry[t] = "listed" /\ entry'[t] # "listed" =>
            \/ left[t] = 0
            \/ \E c \in Clients : code[c] = t /\ pc[c] = "remove"]_vars

(* Every listed token goes away, claimed or not, as long as the process     *)
(* survives its removals: a walk of the cleaner over a table nobody else    *)
(* changes removes at least one expired entry, however many it leaves.      *)
TokensExpire == \A t \in Tokens : (entry[t] = "listed") ~> (entry[t] = "freed" \/ ~up)

(* packet-handlers.c:33, the id is copied "to allow the awaiting connection *)
(* table to free it's copy": the copy is made before the table frees it.    *)
CopiedBeforeFree == \A c \in Clients : pc[c] = "copy" => entry[code[c]] # "freed"

=============================================================================
