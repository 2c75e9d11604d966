-------------------------------- MODULE Roster --------------------------------
(***************************************************************************)
(* Who is on a map, and who knows: the player list of a map                *)
(* (structures/linked-list.c), map_add_player, map_remove_player,          *)
(* map_send_packet and the snapshot of map_spawn_player (maps/map.c), with *)
(* the references of the listed players (player/player.c).                 *)
(*                                                                         *)
(* The lists have no lock.  One action is one access to the shared list or *)
(* one packet; what a thread has read from the list stays in registers     *)
(* until it is used.  The collision bits are in Movement: a spawn always   *)
(* gets past them, a walk does when it is accepted.                        *)
(***************************************************************************)
EXTENDS Naturals, FiniteSets

CONSTANTS
    Players, Maps,
    Saved,       \* Saved[p]: the map in p's database record
    Positions,   \* x and y; a torn read of them is superseded as an old one is
    Unknown,     \* what a client believes of a player it has not heard of
    NoOne,       \* the payload of a freed link
    MaxLinks,    \* bound: links in memory at a time
    Budgets,     \* bound: in one of them, left[p] is how often p logs in or walks
    MaxBusy      \* bound: threads at work at a time

ASSUME RosterAssumption ==
    /\ IsFiniteSet(Players) /\ MaxLinks \in Nat /\ Budgets \subseteq [Players -> Nat] /\ MaxBusy \in Nat
    /\ Saved \in [Players -> Maps]
    /\ NoOne \notin Players /\ Unknown \notin Positions /\ Positions # {}

Links == 1 .. MaxLinks
Null == 0

VARIABLES
    head,               \* map->players
    next, payload,      \* of each link
    refs, map, pos,     \* of each player
    view,               \* view[p][q]: where p's client believes q is
    pc, job, to,        \* p's thread: where it is, in a walk or a spawn, to which map
    left,               \* how many packets p still sends
    cur, prev, nxt,     \* its registers: a link, the one before, the one read or made
    who, seen,          \* the player and the position its snapshot has read
    up,                 \* the process runs
    raced, missed       \* history: see Torn, Unheard and Announce

list == <<head, next, payload>>
player == <<refs, map, pos>>
call == <<job, to, left>>
regs == <<cur, prev, nxt>>
snap == <<who, seen>>
history == <<raced, missed>>
vars == <<list, player, view, pc, call, regs, snap, up, history>>

Init ==
    /\ head = [m \in Maps |-> Null]
    /\ next = [l \in Links |-> Null] /\ payload = [l \in Links |-> NoOne]
    /\ refs = [p \in Players |-> 0] /\ map = Saved
    /\ pos = [p \in Players |-> CHOOSE x \in Positions : TRUE]
    /\ who = [p \in Players |-> NoOne] /\ seen = [p \in Players |-> Unknown]
    /\ view = [p \in Players |-> [q \in Players |-> Unknown]]
    /\ pc = [p \in Players |-> "offline"]
    /\ job = [p \in Players |-> "walk"] /\ to = Saved
    /\ left \in Budgets
    /\ cur = [p \in Players |-> Null] /\ prev = cur /\ nxt = cur
    /\ up = TRUE /\ raced = FALSE /\ missed = {}

At(p, stage) == up /\ pc[p] = stage
Go(p, stage) == pc' = [pc EXCEPT ![p] = stage]
Busy == {q \in Players : pc[q] \notin {"offline", "idle"}}
Live(l) == l # Null /\ payload[l] # NoOne
Listed(l) == {q \in Players : payload[l] = q}

----------------------------------------------------------------------------

(* p's thread starts to handle a packet that logs in or moves.              *)
Handle(p) ==
    /\ Cardinality(Busy) < MaxBusy /\ left[p] > 0
    /\ left' = [left EXCEPT ![p] = @ - 1]

(* The map packet makes p's client start afresh.                            *)
map_send_map_packet(p) == view' = [view EXCEPT ![p] = [q \in Players |-> Unknown]]

(* map_spawn_player up to player_move, which first takes p off the list of  *)
(* player->map.                                                             *)
Enter(p, m, kind) ==
    /\ job' = [job EXCEPT ![p] = kind]
    /\ to' = [to EXCEPT ![p] = m]
    /\ map_send_map_packet(p)
    /\ missed' = {pair \in missed : pair[1] # p}
    /\ cur' = [cur EXCEPT ![p] = head[map[p]]] /\ prev' = [prev EXCEPT ![p] = Null]
    /\ Go(p, "find")
    /\ UNCHANGED <<list, map, pos, nxt, snap, up, raced>>

(* db_player_get_player makes the object, packet_handle_login spawns it.    *)
Login(p) ==
    /\ At(p, "offline") /\ Handle(p)
    /\ refs' = [refs EXCEPT ![p] = 1]
    /\ Enter(p, map[p], "spawn")

FindOther(p) ==
    /\ At(p, "find") /\ Live(cur[p]) /\ payload[cur[p]] # p
    /\ prev' = [prev EXCEPT ![p] = cur[p]]
    /\ cur' = [cur EXCEPT ![p] = next[cur[p]]]
    /\ UNCHANGED <<list, player, view, pc, call, nxt, snap, up, history>>

FindSelf(p) ==
    /\ At(p, "find") /\ Live(cur[p]) /\ payload[cur[p]] = p
    /\ nxt' = [nxt EXCEPT ![p] = next[cur[p]]]
    /\ Go(p, "unlink")
    /\ UNCHANGED <<list, player, view, call, cur, prev, snap, up, history>>

(* Mutant: the first link is not told from the others.                      *)
RelinkHead(p) ==
    head' = [head EXCEPT ![map[p]] = nxt[p]] /\ next' = [next EXCEPT ![cur[p]] = Null]

Relink(p) ==
    IF prev[p] = Null
    THEN head' = [head EXCEPT ![map[p]] = nxt[p]] /\ next' = [next EXCEPT ![cur[p]] = Null]
    ELSE next' = [next EXCEPT ![prev[p]] = nxt[p], ![cur[p]] = Null] /\ UNCHANGED head

(* History: two changes of a list overlap.  What p writes rests on          *)
(* something no longer true, or another thread that is taking a player off  *)
(* a list has in hand the link that p frees.                                *)
Torn(p) ==
    \/ next[cur[p]] # nxt[p]
    \/ IF prev[p] = Null THEN head[map[p]] # cur[p] ELSE next[prev[p]] # cur[p]
    \/ \E q \in Players \ {p} : pc[q] \in {"find", "unlink"} /\ cur[p] \in {cur[q], prev[q]}

(* History: p frees the link on which q's announcement stands, or r's       *)
(* snapshot; whom the one has not told yet, and of whom the other does not  *)
(* know yet, may not be reached any more.                                   *)
Unheard(p) ==
    LET On(stages) == {q \in Players : pc[q] \in stages /\ cur[q] = cur[p]}
    IN  (Players \X On({"announce"})) \cup (On({"snap_read", "snap_write"}) \X Players)

(* p's link is taken out and freed, and a reference to p with it.           *)
Unlink(p) ==
    /\ At(p, "unlink") /\ (prev[p] = Null \/ Live(prev[p]))
    /\ Relink(p)
    /\ payload' = [payload EXCEPT ![cur[p]] = NoOne]
    /\ refs' = [refs EXCEPT ![p] = @ - 1]
    /\ cur' = [cur EXCEPT ![p] = Null]
    /\ prev' = [prev EXCEPT ![p] = Null]
    /\ nxt' = [nxt EXCEPT ![p] = Null]
    /\ Go(p, "leave0")
    /\ raced' = (raced \/ Torn(p))
    /\ missed' = missed \cup Unheard(p)
    /\ UNCHANGED <<map, pos, view, call, snap, up>>

(* A loop over the list of player->map begins.                              *)
Begin(p, from, stage) ==
    /\ At(p, from)
    /\ cur' = [cur EXCEPT ![p] = head[map[p]]]
    /\ Go(p, stage)
    /\ UNCHANGED <<list, player, view, call, prev, nxt, snap, up, history>>

(* Mutant: the loop stays where it is.                                      *)
Stay(p) == UNCHANGED cur

Advance(p) == cur' = [cur EXCEPT ![p] = next[cur[p]]]

(* packet_template_leaving_map to everyone who is still listed.             *)
Leave(p) ==
    /\ At(p, "leave") /\ Live(cur[p])
    /\ view' = [q \in Players |-> IF q \in Listed(cur[p]) THEN [view[q] EXCEPT ![p] = Unknown]
                                                          ELSE view[q]]
    /\ Advance(p)
    /\ UNCHANGED <<list, player, pc, call, prev, nxt, snap, up, history>>

(* Mutant: the reference is forgotten.                                      *)
NoRef(p) == UNCHANGED refs

player_ref(p) == refs' = [refs EXCEPT ![p] = @ + 1]

(* map_add_player, link_add_first: a new link in front of the head just     *)
(* read, then the head is set.  A player who has just logged in was not     *)
(* found, and nobody was told.                                              *)
Add(p) ==
    /\ (At(p, "find") \/ At(p, "leave")) /\ cur[p] = Null
    /\ player_ref(p)
    /\ \E l \in Links :
          /\ payload[l] = NoOne /\ \A k \in Links : payload[k] = NoOne => l <= k
          /\ payload' = [payload EXCEPT ![l] = p]
          /\ next' = [next EXCEPT ![l] = head[to[p]]]
          /\ nxt' = [nxt EXCEPT ![p] = l]
    /\ prev' = [prev EXCEPT ![p] = Null]
    /\ Go(p, "publish")
    /\ UNCHANGED <<head, map, pos, view, call, cur, snap, up, history>>

Publish(p) ==
    /\ At(p, "publish")
    /\ head' = [head EXCEPT ![to[p]] = nxt[p]]
    /\ map' = [map EXCEPT ![p] = to[p]]
    /\ raced' = (raced \/ head[to[p]] # next[nxt[p]])
    /\ nxt' = [nxt EXCEPT ![p] = Null]
    /\ Go(p, "set")
    /\ UNCHANGED <<next, payload, refs, pos, view, call, cur, prev, snap, up, missed>>

----------------------------------------------------------------------------

(* A move packet that player_move accepts.                                  *)
Walk(p) ==
    /\ At(p, "idle") /\ Handle(p)
    /\ Go(p, "set")
    /\ UNCHANGED <<list, player, view, job, to, regs, snap, up, history>>

(* A login spawns the player where he stands.  The new tile of a walk may   *)
(* be a portal; a spawn suppresses events.                                  *)
SetPos(p, x) ==
    /\ At(p, "set") /\ (job[p] = "spawn" => x = pos[p])
    /\ pos' = [pos EXCEPT ![p] = x]
    /\ (job[p] = "walk" /\ Go(p, "event")) \/ Go(p, "announce0")
    /\ UNCHANGED <<list, refs, map, view, call, regs, snap, up, history>>

(* map_spawn_player from within this walk.                                  *)
ChangeMap(p, m) ==
    /\ At(p, "event") /\ m # map[p]
    /\ Enter(p, m, "portal")
    /\ UNCHANGED <<refs, left>>

(* map_send_packet: the new position to everyone listed, p included.        *)
(* History: it is missed by a q who is about to write an older position of  *)
(* p to its client.                                                         *)
Announce(p) ==
    /\ At(p, "announce") /\ Live(cur[p])
    /\ view' = [q \in Players |-> IF q \in Listed(cur[p]) THEN [view[q] EXCEPT ![p] = pos[p]]
                                                          ELSE view[q]]
    /\ missed' = {pair \in missed : ~(pair[1] \in Listed(cur[p]) /\ pair[2] = p)}
                   \cup {<<q, p>> : q \in {r \in Listed(cur[p]) : pc[r] = "snap_write"
                                                                  /\ who[r] = p}}
    /\ Advance(p)
    /\ UNCHANGED <<list, player, pc, call, prev, nxt, snap, up, raced>>

(* A walk is over; a spawn goes on to the snapshot.                         *)
AnnounceDone(p) ==
    /\ At(p, "announce") /\ cur[p] = Null
    /\ IF job[p] = "walk"
       THEN Go(p, "idle") /\ UNCHANGED cur
       ELSE Go(p, "snap_read") /\ cur' = [cur EXCEPT ![p] = head[map[p]]]
    /\ UNCHANGED <<list, player, view, call, prev, nxt, snap, up, history>>

SnapRead(p) ==
    /\ At(p, "snap_read") /\ Live(cur[p])
    /\ IF payload[cur[p]] = p
       THEN Advance(p) /\ UNCHANGED <<pc, snap>>
       ELSE /\ who' = [who EXCEPT ![p] = payload[cur[p]]]
            /\ seen' = [seen EXCEPT ![p] = pos[payload[cur[p]]]]
            /\ Go(p, "snap_write")
            /\ UNCHANGED cur
    /\ UNCHANGED <<list, player, view, call, prev, nxt, up, history>>

(* Mutant: the position goes to the player it is about.                     *)
WriteToOther(p) == view' = [view EXCEPT ![who[p]][p] = seen[p]]

WriteSeen(p) == view' = [view EXCEPT ![p][who[p]] = seen[p]]

SnapWrite(p) ==
    /\ At(p, "snap_write") /\ Live(cur[p])
    /\ WriteSeen(p)
    /\ who' = [who EXCEPT ![p] = NoOne] /\ seen' = [seen EXCEPT ![p] = Unknown]
    /\ Advance(p)
    /\ Go(p, "snap_read")
    /\ UNCHANGED <<list, player, call, prev, nxt, up, history>>

(* The spawn is over; one made by a portal returns into its walk.           *)
SnapDone(p) ==
    /\ At(p, "snap_read") /\ cur[p] = Null
    /\ Go(p, IF job[p] = "portal" THEN "announce0" ELSE "idle")
    /\ job' = [job EXCEPT ![p] = "walk"]
    /\ UNCHANGED <<list, player, view, to, left, regs, snap, up, history>>

(* A freed link is used: the allocator has overwritten next and payload,    *)
(* unless the memory has become a new link.                                 *)
UseFreed(p) ==
    /\ \/ pc[p] \in {"find", "leave", "announce", "snap_read", "snap_write"}
          /\ cur[p] # Null /\ ~Live(cur[p])
       \/ pc[p] = "unlink" /\ prev[p] # Null /\ ~Live(prev[p])
    /\ up /\ up' = FALSE
    /\ UNCHANGED <<list, player, view, pc, call, regs, snap, history>>

Step(p) ==
    \/ FindOther(p) \/ FindSelf(p) \/ Unlink(p)
    \/ Begin(p, "leave0", "leave") \/ Leave(p)
    \/ Add(p) \/ Publish(p)
    \/ \E x \in Positions : SetPos(p, x)
    \/ \E m \in Maps : ChangeMap(p, m)
    \/ Begin(p, "announce0", "announce") \/ Announce(p) \/ AnnounceDone(p)
    \/ SnapRead(p) \/ SnapWrite(p) \/ SnapDone(p)
    \/ UseFreed(p)

Next == \E p \in Players : Login(p) \/ Walk(p) \/ Step(p)

(* A thread inside player_move waits for nothing: it runs as long as the    *)
(* process does, through whatever links it finds.                           *)
Fairness == \A p \in Players : WF_vars(Step(p))

Spec == Init /\ [][Next]_vars /\ Fairness

----------------------------------------------------------------------------

TypeOK ==
    /\ head \in [Maps -> Links \cup {Null}] /\ next \in [Links -> Links \cup {Null}]
    /\ payload \in [Links -> Players \cup {NoOne}]
    /\ refs \in [Players -> Nat] /\ map \in [Players -> Maps] /\ pos \in [Players -> Positions]
    /\ view \in [Players -> [Players -> Positions \cup {Unknown}]]
    /\ pc \in [Players -> {"offline", "idle", "find", "unlink", "leave0", "leave", "publish",
                           "set", "event", "announce0", "announce", "snap_read",
                           "snap_write"}]
    /\ job \in [Players -> {"walk", "spawn", "portal"}] /\ to \in [Players -> Maps]
    /\ cur \in [Players -> Links \cup {Null}] /\ prev \in [Players -> Links \cup {Null}]
    /\ nxt \in [Players -> Links \cup {Null}] /\ left \in [Players -> Nat]
    /\ who \in [Players -> Players \cup {NoOne}] /\ seen \in [Players -> Positions \cup {Unknown}]
    /\ up \in BOOLEAN /\ raced \in BOOLEAN /\ missed \subseteq Players \X Players

(* However the lists are torn, the references to a player are his session's *)
(* and one for each link made and not freed; the session's is never given   *)
(* back, so player_free never frees a player while others hold his links.   *)
RefsCounted ==
    \A p \in Players :
        pc[p] # "offline" => refs[p] = 1 + Cardinality({l \in Links : payload[l] = p})

(* The links from l on: the least set with l that nx does not lead out of.  *)
Closed(nx, T) == \A k \in T : nx[k] \in T \cup {Null}
From(nx, l) ==
    {k \in Links : \A T \in SUBSET Links : l \in T \cup {Null} /\ Closed(nx, T) => k \in T}

Chain(m) == From(next, head[m])

(* p has a link that is published and not yet taken out.                   *)
InList(p) ==
    IF job[p] = "walk"
    THEN pc[p] \notin {"offline", "leave0", "leave", "publish"}
    ELSE \/ pc[p] \in {"set", "announce0", "announce", "snap_read", "snap_write"}
         \/ job[p] = "portal" /\ pc[p] \in {"find", "unlink"}

(* Until two changes of a list overlap (raced), every player has one link,  *)
(* in the list of his map, from when he was added until he is removed,      *)
(* however many loops read the list meanwhile.                              *)
ListsComplete ==
    ~raced => \A m \in Maps :
        /\ {payload[l] : l \in Chain(m)} = {p \in Players : map[p] = m /\ InList(p)}
        /\ \A k, l \in Chain(m) : payload[k] = payload[l] => k = l

(* p has arrived and been told of the others.                               *)
Present(p) == job[p] = "walk" /\ pc[p] \notin {"offline", "find"}

(* Until then, whatever walks, logins and portals interleave, everyone      *)
(* present on a map knows the position of everyone who stands still there,  *)
(* himself included.  Two things may keep it from him (missed), until the   *)
(* next packet about that player or the next map: his own snapshot wrote an *)
(* older position last, or a link was freed under the loop that was to tell *)
(* him, one removal being enough for that.                                  *)
ViewsAgree ==
    \A p, q \in Players :
        Present(p) /\ pc[q] = "idle" /\ map[p] = map[q] /\ ~raced /\ <<p, q>> \notin missed =>
            view[p][q] = pos[q]

(* Every loop over a list ends, also one under which others add and remove  *)
(* links: as the players send finitely many packets, the threads come to    *)
(* rest.  There are two ways out: a thread uses a freed link and the        *)
(* process is gone, or two changes overlap, which may close a list to a     *)
(* ring.                                                                    *)
WalksEnd == <>[](Busy = {} \/ ~up \/ raced)

=============================================================================
