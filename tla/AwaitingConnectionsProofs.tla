---------------------- MODULE AwaitingConnectionsProofs ----------------------
(***************************************************************************)
(* Proofs about AwaitingConnections, for any tokens, clients and time to   *)
(* live.                                                                   *)
(*                                                                         *)
(* The argument: an entry is freed for one of two causes, which last (its  *)
(* time is over, or a session roams on its token), and as long as neither  *)
(* applies to a client's token, the id it has copied is that token's.      *)
(***************************************************************************)
EXTENDS AwaitingConnections, TLAPS

(* The time of c's token is over, or a rival of c roams on it.              *)
Over(c) ==
    \/ left[code[c]] = 0
    \/ \E d \in Clients \ {c} : pc[d] = "roaming" /\ code[d] = code[c]

Caused ==
    \A t \in Tokens :
        entry[t] = "freed" =>
            left[t] = 0 \/ \E d \in Clients : pc[d] = "roaming" /\ code[d] = t

(* What c's login knows of its token.                                       *)
Hand(c) ==
    /\ pc[c] = "find" => code[c] \in Tokens
    /\ pc[c] \in {"copy", "get", "remove", "roaming"} =>
          code[c] \in Tokens /\ entry[code[c]] # "unsent"
    /\ pc[c] \in {"get", "remove", "roaming"} => id[c] = code[c] \/ Over(c)
    /\ pc[c] = "roaming" => entry[code[c]] = "freed"

InHand == \A c \in Clients : Hand(c)

IInv == TypeOK /\ Caused /\ InHand

(* Once sent, a token is never unsent again, and its time only shortens.    *)
Later ==
    \A t \in Tokens :
        /\ entry[t] # "unsent" => entry'[t] # "unsent"
        /\ entry[t] = "freed" => entry'[t] = "freed"
        /\ entry[t] # "unsent" /\ left[t] = 0 => left'[t] = 0

(* A step of c's login leaves the others alone, and who roams roams on.     *)
Own(c) ==
    /\ \A d \in Clients \ {c} : pc'[d] = pc[d] /\ code'[d] = code[d] /\ id'[d] = id[d]
    /\ pc[c] # "roaming"

LEMMA InitIInv == Init => IInv
<1>1. Init => up \in BOOLEAN /\ walking \in BOOLEAN /\ printing \in BOOLEAN
  BY Zenon DEF Init
<1>2. Init => IInv
  BY <1>1, TTLAssumption DEF Init, IInv, TypeOK, Caused, InHand, Hand
<1>. QED
  BY <1>2

(* A client that takes no step keeps what it knows, whoever roams by then.  *)
LEMMA OtherHand ==
  ASSUME Later, NEW d \in Clients, Hand(d),
         pc'[d] = pc[d], code'[d] = code[d], id'[d] = id[d],
         \A e \in Clients : pc[e] = "roaming" => pc'[e] = "roaming" /\ code'[e] = code[e]
  PROVE  Hand(d)'
<1>1. CASE pc[d] \in {"copy", "get", "remove", "roaming"}
  <2>1. code[d] \in Tokens /\ entry[code[d]] # "unsent"
    BY <1>1 DEF Hand
  <2>2. entry'[code[d]] # "unsent" /\ (left[code[d]] = 0 => left'[code[d]] = 0)
        /\ (entry[code[d]] = "freed" => entry'[code[d]] = "freed")
    BY <2>1 DEF Later
  <2>3. Over(d) => Over(d)'
    BY <2>2 DEF Over
  <2>. QED
    BY <1>1, <2>1, <2>2, <2>3 DEF Hand
<1>2. CASE pc[d] \notin {"copy", "get", "remove", "roaming"}
  BY <1>2 DEF Hand
<1>. QED
  BY <1>1, <1>2

(* Steps that no login takes: whoever frees an entry does so after its time.*)
LEMMA KeepLogins ==
  ASSUME IInv, Later, TypeOK', UNCHANGED <<pc, code, id>>,
         \A t \in Tokens : entry'[t] = "freed" => entry[t] = "freed" \/ left'[t] = 0
  PROVE  IInv'
<1>1. Caused'
  <2>1. ASSUME NEW t \in Tokens, entry[t] = "freed"
        PROVE  left'[t] = 0 \/ \E d \in Clients : pc'[d] = "roaming" /\ code'[d] = t
    BY <2>1 DEF IInv, Caused, Later
  <2>. QED
    BY <2>1 DEF Caused
<1>2. InHand'
  BY OtherHand DEF IInv, InHand
<1>. QED
  BY <1>1, <1>2 DEF IInv

(* Steps of c's login that leave the table alone.                           *)
LEMMA LoginStep ==
  ASSUME IInv, TypeOK', UNCHANGED <<entry, left>>, NEW c \in Clients, Own(c), Hand(c)'
  PROVE  IInv'
<1>1. \A e \in Clients : pc[e] = "roaming" => pc'[e] = "roaming" /\ code'[e] = code[e]
  BY DEF Own
<1>2. Caused'
  BY <1>1 DEF IInv, Caused
<1>3. Later
  BY DEF Later
<1>4. ASSUME NEW d \in Clients, d # c
      PROVE  Hand(d)'
  BY <1>1, <1>3, <1>4, OtherHand DEF IInv, InHand, Own
<1>. QED
  BY <1>2, <1>4 DEF IInv, InHand

(* Steps of the environment, of the receiver and of the cleaner.            *)
LEMMA TableSteps ==
  ASSUME IInv, (\E t \in Tokens : Insert(t)) \/ PrintAll \/ Cleaner \/ Segfault \/ Tick
  PROVE  IInv'
<1>. USE TTLAssumption DEF client, cleaner
<1>1. ASSUME NEW t \in Tokens, Insert(t)
      PROVE  IInv'
  <2>1. TypeOK'
    BY <1>1 DEF Insert, Changed, Reading, IInv, TypeOK
  <2>2. Later /\ \A u \in Tokens : entry'[u] = "freed" => entry[u] = "freed"
    BY <1>1 DEF Insert, Later, IInv, TypeOK
  <2>. QED
    BY <1>1, <2>1, <2>2, KeepLogins DEF Insert
<1>2. CASE PrintAll
  <2>1. TypeOK' /\ Later
    BY <1>2 DEF PrintAll, Later, IInv, TypeOK
  <2>. QED
    BY <1>2, <2>1, KeepLogins DEF PrintAll
<1>3. CASE Wake
  <2>1. TypeOK' /\ Later
    BY <1>3 DEF Wake, Listed, Later, IInv, TypeOK
  <2>. QED
    BY <1>3, <2>1, KeepLogins DEF Wake
<1>4. CASE WalkOver
  <2>1. walking' \in BOOLEAN
    BY <1>4, Zenon DEF WalkOver
  <2>2. TypeOK'
    BY <1>4, <2>1 DEF WalkOver, IInv, TypeOK
  <2>3. Later
    BY <1>4 DEF WalkOver, Later
  <2>. QED
    BY <1>4, <2>2, <2>3, KeepLogins DEF WalkOver
<1>5. ASSUME NEW t \in Tokens, Check(t)
      PROVE  IInv'
  <2>1. /\ entry' \in [Tokens -> {"unsent", "listed", "freed"}]
        /\ torn' \subseteq Clients \cup {"cleaner", "receiver"}
        /\ \A u \in Tokens : entry'[u] # entry[u] =>
              entry[u] = "listed" /\ entry'[u] = "freed" /\ left[u] = 0
    BY <1>5 DEF Check, RemoveEntry, Changed, Reading, Expired, IInv, TypeOK
  <2>2. TypeOK' /\ Later
    BY <1>5, <2>1 DEF Check, Later, IInv, TypeOK
  <2>3. \A u \in Tokens : entry'[u] = "freed" => entry[u] = "freed" \/ left'[u] = 0
    BY <1>5, <2>1 DEF Check
  <2>. QED
    BY <1>5, <2>2, <2>3, KeepLogins DEF Check
<1>6. CASE Segfault
  <2>1. TypeOK' /\ Later
    BY <1>6 DEF Segfault, Later, IInv, TypeOK
  <2>. QED
    BY <1>6, <2>1, KeepLogins DEF Segfault
<1>7. CASE Tick
  <2>1. TypeOK'
    BY <1>7 DEF Tick, IInv, TypeOK
  <2>2. Later
    BY <1>7 DEF Tick, Later
  <2>. QED
    BY <1>7, <2>1, <2>2, KeepLogins DEF Tick
<1>. QED
  BY <1>1, <1>2, <1>3, <1>4, <1>5, <1>6, <1>7 DEF Cleaner

(* Steps of a login.                                                        *)
LEMMA LoginSteps ==
  ASSUME IInv, NEW c \in Clients, (\E t \in Tokens : Present(c, t)) \/ Login(c)
  PROVE  IInv'
<1>. USE DEF At, Go, cleaner
<1>1. ASSUME NEW t \in Tokens, Present(c, t)
      PROVE  IInv'
  BY <1>1, LoginStep DEF Present, IInv, TypeOK, Own, Hand
<1>2. CASE Find(c)
  <2>1. Hand(c)' /\ Own(c)
    BY <1>2 DEF Find, IInv, TypeOK, InHand, Hand, Own
  <2>2. TypeOK'
    BY <1>2 DEF Find, IInv, TypeOK
  <2>. QED
    BY <1>2, <2>1, <2>2, LoginStep DEF Find
<1>3. CASE NotFound(c)
  BY <1>3, LoginStep DEF NotFound, IInv, TypeOK, Own, Hand
<1>4. CASE CopyId(c)
  <2>1. PICK i \in Tokens \cup {Garbage} :
           /\ id' = [id EXCEPT ![c] = i]
           /\ entry[code[c]] # "freed" => i = code[c]
    BY <1>4 DEF CopyId, IInv, InHand, Hand
  <2>2. code[c] \in Tokens /\ entry[code[c]] # "unsent"
    BY <1>4 DEF CopyId, IInv, InHand, Hand
  <2>3. entry[code[c]] = "freed" => Over(c)
    BY <1>4, <2>2 DEF CopyId, Over, IInv, Caused
  <2>4. TypeOK' /\ Own(c) /\ UNCHANGED <<entry, left, code>> /\ pc' = [pc EXCEPT ![c] = "get"]
    BY <1>4, <2>1 DEF CopyId, Own, IInv, TypeOK
  <2>5. Over(c) => Over(c)'
    BY <2>4 DEF Over, Own
  <2>6. id'[c] = i /\ pc'[c] = "get"
    BY <2>1, <2>4 DEF IInv, TypeOK
  <2>7. Hand(c)'
    BY <2>1, <2>2, <2>3, <2>4, <2>5, <2>6 DEF Hand
  <2>. QED
    BY <2>4, <2>7, LoginStep
<1>5. CASE GetPlayer(c)
  <2>1. TypeOK' /\ Own(c) /\ UNCHANGED <<entry, left, code, id>> /\ pc'[c] = "remove"
    BY <1>5 DEF GetPlayer, Own, IInv, TypeOK
  <2>2. Over(c) => Over(c)'
    BY <2>1 DEF Over, Own
  <2>3. Hand(c)'
    BY <1>5, <2>1, <2>2 DEF GetPlayer, Hand, IInv, InHand
  <2>. QED
    BY <2>1, <2>3, LoginStep
<1>6. CASE NoPlayer(c)
  BY <1>6, LoginStep DEF NoPlayer, IInv, TypeOK, Own, Hand
<1>7. CASE Spend(c)
  <2>1. /\ pc[c] = "remove" /\ code[c] \in Tokens /\ entry[code[c]] \in {"listed", "freed"}
        /\ (id[c] = code[c] \/ Over(c))
    BY <1>7 DEF Spend, IInv, InHand, Hand, TypeOK
  <2>2. /\ entry' = [entry EXCEPT ![code[c]] = "freed"]
        /\ torn' \subseteq Clients \cup {"cleaner", "receiver"}
    BY <1>7, <2>1 DEF Spend, RemoveEntry, Changed, Reading, IInv, TypeOK
  <2>3. /\ pc' = [pc EXCEPT ![c] = "roaming"]
        /\ UNCHANGED <<up, left, sleep, walking, scan, printing, code, id>>
    BY <1>7 DEF Spend
  <2>4. TypeOK' /\ Later /\ Own(c)
    BY <2>1, <2>2, <2>3 DEF IInv, TypeOK, Later, Own
  <2>5. \A e \in Clients : pc[e] = "roaming" => pc'[e] = "roaming" /\ code'[e] = code[e]
    BY <2>1, <2>3 DEF IInv, TypeOK
  <2>6. pc'[c] = "roaming" /\ code'[c] = code[c] /\ entry'[code[c]] = "freed"
    BY <2>1, <2>2, <2>3 DEF IInv, TypeOK
  <2>7. Caused'
    <3>1. ASSUME NEW t \in Tokens, entry'[t] = "freed", t # code[c]
          PROVE  left'[t] = 0 \/ \E d \in Clients : pc'[d] = "roaming" /\ code'[d] = t
      BY <2>2, <2>3, <2>5, <3>1 DEF IInv, TypeOK, Caused
    <3>. QED
      BY <2>6, <3>1 DEF Caused
  <2>8. Over(c) => Over(c)'
    BY <2>3, <2>4 DEF Over, Own
  <2>9. Hand(c)'
    BY <2>1, <2>3, <2>6, <2>8 DEF Hand
  <2>10. ASSUME NEW d \in Clients, d # c
         PROVE  Hand(d)'
    BY <2>4, <2>5, <2>10, OtherHand DEF IInv, InHand, Own
  <2>. QED
    BY <2>4, <2>7, <2>9, <2>10 DEF IInv, InHand
<1>. QED
  BY <1>1, <1>2, <1>3, <1>4, <1>5, <1>6, <1>7 DEF Login

LEMMA NextIInv == IInv /\ [Next]_vars => IInv'
<1>1. IInv /\ UNCHANGED vars => IInv'
  BY DEF vars, client, cleaner, IInv, TypeOK, Caused, InHand, Hand, Over
<1>. QED
  BY <1>1, TableSteps, LoginSteps DEF Next

THEOREM TokensInvariant == Spec => []IInv
<1>. QED
  BY InitIInv, NextIInv, PTL DEF Spec

(* The variables have their types: remaining times stay within TTL.         *)
THEOREM TokenTypes == Spec => []TypeOK
<1>1. IInv => TypeOK
  BY DEF IInv
<1>. QED
  BY <1>1, TokensInvariant, PTL

(* A session logs in as the account of its token unless the token expired   *)
(* or a rival used it.                                                      *)
THEOREM AccountsMatch == Spec => []RightAccount
<1>1. IInv => RightAccount
  BY DEF IInv, InHand, Hand, Over, RightAccount
<1>. QED
  BY <1>1, TokensInvariant, PTL

(* After a completed login the look-up of its token fails.                  *)
THEOREM NoLaterLogins == Spec => NoLaterLogin
<1>. DEFINE Shut ==
       \A c, d \in Clients :
         pc[c] = "roaming" /\ pc[d] \in {"disabled", "find"} /\ pc'[d] = "copy" =>
            code[d] # code[c] \/ d \in torn
<1>1. IInv /\ [Next]_vars => [Shut]_vars
  <2>. SUFFICES ASSUME IInv, [Next]_vars, NEW c \in Clients, NEW d \in Clients,
                       pc[c] = "roaming", pc[d] \in {"disabled", "find"}, pc'[d] = "copy"
                PROVE  code[d] # code[c] \/ d \in torn
    OBVIOUS
  <2>1. entry[code[c]] = "freed"
    BY DEF IInv, InHand, Hand
  <2>2. PICK e \in Clients : Login(e) \/ \E t \in Tokens : Present(e, t)
    BY DEF Next, vars, client, cleaner, Insert, PrintAll, Cleaner, Wake, WalkOver, Check,
           Segfault, Tick
  <2>3. e = d
    BY <2>2 DEF Login, Find, NotFound, CopyId, GetPlayer, NoPlayer, Spend, Present, Go, IInv,
                TypeOK
  <2>4. Find(d)
    BY <2>2, <2>3 DEF Login, NotFound, CopyId, GetPlayer, NoPlayer, Spend, Present, At, Go, IInv,
                      TypeOK
  <2>. QED
    BY <2>1, <2>4 DEF Find
<1>. QED
  BY <1>1, TokensInvariant, PTL DEF Spec, NoLaterLogin

(* Only time or a login with it removes a token.                            *)
THEOREM NothingEarly == Spec => NoEarlyRemoval
<1>1. IInv /\ [Next]_vars =>
        [\A t \in Tokens :
           entry[t] = "listed" /\ entry'[t] # "listed" =>
              \/ left[t] = 0
              \/ \E c \in Clients : code[c] = t /\ pc[c] = "remove"]_vars
  <2>. SUFFICES ASSUME IInv, [Next]_vars, NEW t \in Tokens,
                       entry[t] = "listed", entry'[t] # "listed"
                PROVE  left[t] = 0 \/ \E c \in Clients : code[c] = t /\ pc[c] = "remove"
    OBVIOUS
  <2>1. ASSUME NEW u \in Tokens, Insert(u)
        PROVE  left[t] = 0
    BY <2>1 DEF Insert, IInv, TypeOK
  <2>2. ASSUME NEW c \in Clients, Spend(c)
        PROVE  code[c] = t /\ pc[c] = "remove"
    BY <2>2 DEF Spend, At, RemoveEntry, IInv, TypeOK
  <2>3. ASSUME NEW u \in Tokens, Check(u)
        PROVE  left[t] = 0
    BY <2>3 DEF Check, RemoveEntry, Expired, IInv, TypeOK
  <2>. QED
    BY <2>1, <2>2, <2>3
       DEF Next, vars, client, cleaner, Login, Cleaner, PrintAll, Present, Find, NotFound, CopyId,
           GetPlayer, NoPlayer, Wake, WalkOver, Segfault, Tick
<1>. QED
  BY <1>1, TokensInvariant, PTL DEF Spec, NoEarlyRemoval

=============================================================================
