# A TLA+ model of the MMO backend

Specifications, model-checking configurations and machine-checked proofs about
the C server in `backend/` of this repository: threads of many sessions over
shared tile maps and player lists, a token table, a stream from the auth server, and
the sockets of the players. Source paths below are relative to `src/`.

## The system and its parts

| part | source | state | operations |
|---|---|---|---|
| tile maps and movement | `backend/maps/map.c`, `map-events.c`, `map-definitions.c`, `backend/player/player.c`, `movement.c` | one collision bit per tile, a mutex per row; the map, x and y of each player | `player_move`, `map_disable_coord` / `map_enable_coord`, `map_spawn_player`, `map_event_activate`, `map_event_change_map` |
| map registry | `backend/maps/map.c` 323-348 | `tiles[]`, `refs` of each map, `map_locks[]` | `map_load`, `map_unload` |
| player lists | `backend/maps/map.c` 13-26, 104-111, 146-183, `structures/linked-list.c` | `map->players`, an unlocked linked list; `player->refs` | `map_add_player`, `map_remove_player`, `map_send_packet`, the snapshot of `map_spawn_player` |
| player objects and cache | `backend/player/player.c` 5-126 | reference counts, a hash table with one mutex | `player_cache_insert` / `_find`, `player_ref`, `player_free` |
| login tokens | `backend/authentication/awaiting-connections.c` | token -> (account id, expiration), `write_lock` | insert, find, remove; a cleaner thread |
| auth receiver | `backend/authentication/auth-reciever.c`, `auth-server/main.py` | a byte stream, two buffers | poll, read, register |
| sessions and dispatch | `backend/core/event-loop.c`, `backend/player/session.c`, `backend/communication/` | the state and player of each session, the global `packet_errno` | read, verify, route, the handlers of login, move and inspect |
| WebSocket frames | `backend/networking/web-socket.c` | none but the socket's | `ws_read_frame`, `ws_write_frame` |
| web server, reader, headers | `backend/networking/web-server.c`, `buffered-reader.c`, `header-list.c` | a line buffer per connection | accept, upgrade, `br_read_line` |
| database | `backend/db/` | MongoDB | read and write a player |
| program start | `backend/main.c` | | initialises the above, starts the threads |

How they meet. `main` starts the receiver thread and the web server; the receiver
starts the cleaner. The web server starts a thread per connection, which runs
`event_loop_start` for ever. A login packet looks its token up (token table),
reads the player (database, which loads his map through the registry), takes the
token off and spawns the player (movement). A move packet is one `player_move`. A
portal tile calls `map_spawn_player` from within `player_move`. Every move is sent
to all sessions on the map, by the thread of the player who moved, into the
sockets of the others.

What is hard. Nothing but the row mutex orders two moves. A map change updates
`player->map` long before `x` and `y`. `map_load` reads its result after the
mutex is released and `map_unload` tests before it is taken. The token table is
looked up and walked without its lock. `packet_errno` is one for all threads.
Player lists have no lock at all. Sockets are non-blocking and reads and writes
that come up short are taken as complete. `PROJECT.json` lists these hazards, each
at its line.

What makes each part correct:

- movement: no collision bit without a player behind it; away from the tiles where
  logins and portals put people, at most one player on a tile and the tile blocked;
  no move given up half way; nobody moves further than he may; portals do not
  recurse; every request comes back;
- registry: the count is the number of references, and a pointer handed out stays
  the live map;
- tokens: a session becomes the account of its token, nobody begins a login with a used token,
  tokens go in time and never early;
- sessions: only handlers that exist and have a player run; a session keeps its
  player; answers are true; errors have a cause; the loop goes on;
- receiver: no byte is lost, and tokens and ids are paired as they were sent;
- player lists: references are counted, a player is on the list of his map and on no
  other, loops over a list end although others change it, and clients know where the others stand;
- connection: what has arrived whole is read as it was sent, an upgrade is answered
  exactly when it was asked for, and a client gets frames one after the other.

## The modules

| module | models | how |
|---|---|---|
| `Board` | what movement promises | players stand on tiles, `Walk` to a free tile in one step, `Arrive` on arrival tiles; its theorem says players exclude each other elsewhere |
| `Movement` | tile maps and movement | one action per stretch of `player_move` between two accesses to the collision bits; implements `Board` |
| `MapDefinitions` | `map-definitions.c` | the two maps of the program, their sizes and change-map events |
| `MapRegistry` | one entry of `tiles[]` | one action per statement of `map_load` and `map_unload` |
| `Roster` | player lists, references, position updates | one action per access to a shared list and per packet |
| `AwaitingConnections` | login tokens | table, cleaner, clock, and the login handler around the table |
| `Sessions` | event loop and handlers | one action per stage of the loop and per outcome of a handler |
| `AuthReceiver` | receiver and its stream | polls, single reads, registration; the network delivers any part of a message |
| `LineReader` | the buffer of `buffered-reader.c` | operators on its contents: where a line ends, what is returned, what is moved |
| `Wire` | the outgoing half of a WebSocket | one action per `write()`, of any number of threads |
| `Connection` | a connection from its first byte to its frames | composes `LineReader` and `Wire`: request line, headers, upgrade, event loop |

`MC*` modules give constants their values for TLC; `*Proofs` modules hold the
theorems. The `map` of `PROJECT.json` gives the lines behind every definition. Operators
commented "Mutant" are deliberately wrong variants of the definition next to them; no
specification uses them.

**Movement.** `loc[p]` is `player->map`, `x` and `y`; `blocked` the tiles whose bit
is set (a row's bytes are a set here; `map_toggle_coord` reads and writes the bit under
the row's mutex and is one step). `pc[p]` walks through `player_move`: `swap` (the
player lists and `player->map`), `disable`, `enable`, `set`, `event`, `broadcast`.
`frame[p]` keeps the arguments and `old_map` of the innermost call; `depth[p]` counts
the calls around it. One innermost frame is enough: after its event an outer call uses
only `player->x`, `y` and `map`. `player_move` ignores a failed
`map_disable_coord` when `overlap` is set, returns when `map_enable_coord` fails,
and the model does both. `SuppressBit` is what `map_event_change_map` computes: the
one-bit field is loaded from `static_args[2]`, the y of the target, not from
`static_args[3]`. Distances are mathematical integers; in C the difference of two
ints can overflow only for a target far outside the map, which the bounds test then
refuses, so the outcome is the same. `swap` and `broadcast` stand for loops over the player lists, which have
no lock: `LoopFails` is a loop that never ends (`looping`) or that ends the process (`crashed`). `Roster` shows
when that can be so; `Movement` and `Sessions` allow it at any time.

Players start `offline` with the tile of their database record. A player is one
`Player` object: since the cache is never filled, two logins of one account make two
objects, and two members of `Players`.

**MapRegistry.** A reference is one `map_load` and the fate of its result. `Forget` is
a pointer that is overwritten (`map_add_player`) or goes out of scope
(`map_spawn_player`, `packet_template_map`); `UnloadCall` is `map_event_args_free` or
`player_free`. `tile` tells creations of the map apart, so that a pointer to a freed
map differs from one to its successor.

**Roster.** `head`, `next` and `payload` are the linked lists in memory; a link whose
payload is `NoOne` is free. `map_remove_player` looks for the player's link (`FindOther`,
`FindSelf`), keeps what it read in registers (`cur`, `prev`, `nxt`), writes (`Unlink`) and
tells those who are left (`Leave`). `map_add_player` reads the head into its new link
(`Add`) and publishes it (`Publish`). A spawn then announces itself (`Announce`), and
reads and sends the others' positions one by one (`SnapRead`, `SnapWrite`). `view[p][q]`
is what `p`'s client has been told of `q`. A thread that comes upon a freed link
ends the process (`UseFreed`), unless the memory has become a new link by then.
Two history variables say when what the code hopes for is off. `raced`: two changes of
a list have overlapped (`Torn`, `Publish`). `missed`: the pairs of a player who may not know and one he may not
know of, because an old position was sent after a newer one, or because a single removal freed the link on which an
announcement or a snapshot stood (`Unheard`), so that the rest of the list may not be reached.
Collision bits are in `Movement`: here every walk is an accepted one.

**AwaitingConnections.** A token stands for its account id. The memory of an entry that was freed since `Find` may have
been allocated again, for the next sign-in or the text of an inspect packet, so `CopyId` then reads any account's
id, or none (`Garbage`). Three kinds of reader are in the table without its lock: look-ups (`find`), the
cleaner's walk (`walking`) and the walk of the receiver that prints the table after an insert (`printing`). GLib says
nothing of what they meet when the table changes under them. The model remembers them (`torn`) and allows all of it: a look-up misses a
listed token or finds one just freed, a walk is given up (GLib's check) or goes on, or
the process ends (`Segfault`), which `README.md:31` of the repository reports. The cleaner changes the table under its own walk.
`left` and `sleep` count down in seconds. The login handler's spawn is in `Movement`.

**Sessions.** `pc[s]` is the stage of the loop: `poll`, `null` (no packet), `verify`,
`errno`, `route`, `spawn`, or `looping` in a player list. `out[s]` collects what the loop itself sends in a round.
`up` is the process: a null packet ends it at `session_verify_packet`, and a frame
that is invalid or shorter than a packet header ends it within `packet_read`. What
arrives is any opcode or any such frame at any time, which also stands for frames read
before they had arrived completely.

**AuthReceiver.** Bytes are named by their sign-in and position. An id is shorter or longer than `ID_SIZE`
if the request that made it was (`main.py` 62-75). `split` remembers that the network has cut a message.

**Connection**, with **LineReader** and **Wire**. A byte is named by the line or frame
it belongs to and its position there, and a byte of a line says something (`Text`): a name, a colon, a value, `\r` or
`\n`. Other lines may say the same: a URL may hold `Upgrade:websocket`, a header may ask for another upgrade.
What the reader returns as lines, whole or cut, is taken apart as `sscanf` does (`Names`, `Nameless`,
`Valueless`): a line without a colon is all name, and a line that begins with the colon, or has no value, leaves name or value as `malloc` returned them,
so the comparison may go either way. A cut URL can thus become the header that asks for the upgrade.
`coming` is under way, `inbox` has arrived and was not read, `buf` is the
reader's buffer with everything the `memmove` and `memset` of `br_read_line` leave behind.
`pc` follows `web_server_handle_client`: `route`, `headers`, `decide`, and then `closed`, or
`answer`, `poll`, `length` and `frame` of the event loop. A frame is read in three to four calls: its two bytes of header, the
extended length of a frame of 126 bytes or more (every login is one), the key, the data; `want` lists the last two.
A length that was not found whole is anything (`Missized`), and a frame may then be refused (`Refused`).
A line as long as the buffer makes `memmove` move -1 bytes, and an upgrade
without a key makes `g_base64_encode` read a null pointer: both end the process (`up`).
`cut` is history: some read has found part of what was sent, so what follows is read as
something else. In `Wire`, `todo[w]` are the `ws_write` calls that thread `w` still has to
make, and `out` the bytes in the socket buffer; a `write()` takes what fits, and `ws_write` gives up
when nothing does (`short`). `overlap` is history: two threads have been in
`ws_write_frame` for the same socket at once. Frames from several threads are those of
`map_send_packet`: the players of a map write to each other's sockets.

## The runs

| run | checks | result |
|---|---|---|
| `movement` | `Movement` | all properties hold, and `Board` is implemented |
| `walk_through` | `NoOverlap` | violated |
| `registry` | `MapRegistry` | all hold |
| `roster` | `Roster` | all hold |
| `tokens` | `AwaitingConnections` | all hold |
| `copied_before_free` | `CopiedBeforeFree` | violated |
| `sessions` | `Sessions` | all hold |
| `error_is_own` | `ErrorIsOwn` | violated |
| `receiver` | `AuthReceiver` | all hold |
| `tokens_whole` | `TokensWhole` | violated |
| `connection` | `Connection` | all hold |
| `lines_complete` | `LinesComplete` | violated |

What the passing runs show:

- `movement`: whatever logins, walks and portals interleave, `NoGhostTile` (no bit
  outlives its cause), `WalkExclusion`, `MoveNeverHalfDone`, `PortalDepth`,
  `NoTeleport`, `RequestEnds` (a request comes back, unless its own loop over a player list does not or the process is
  gone), and that a step is a step of `Board` or invisible.
  `WalkExclusion` excepts arrival tiles, and has to: see `walk_through`.
- `registry`: `RefsExact`, `NoUseAfterFree` and `NullTestHolds`: the two accesses outside the mutex
  are harmless, because each is made by the holder of a counted reference.
- `roster`: `RefsCounted` holds whatever is torn, so `player_free` never frees a player while
  he is linked or his session lives. The rest holds until changes of a list overlap:
  `ListsComplete` (one link per player, in the list of his map), `ViewsAgree` (everyone on a map
  knows where everyone who stands still there is, unless he is `missed`) and `WalksEnd` (every loop over a list
  ends although others change it, or has ended the process). None of the three can be
  had without these exceptions: overlapping inserts lose a player, overlapping removals bring a freed link
  back, the links can close to a ring, which a broadcast then never leaves, and one removal is enough to free the link
  a broadcast stands on, so that those behind it are not told.
- `tokens`: `RightAccount` (a session is its token's account, unless the token has expired or a rival roams on it: nothing
  else can free the id between look-up and copy, and then it may be any account's). `NoLaterLogin`: after a complete login
  nobody gets past the look-up with its token, but for a look-up the removal overlaps with. Rivals who were past it complete their
  logins: `README.md:29` of the repository knows it. `NoEarlyRemoval`; `TokensExpire`, as long as the process lives.
- `sessions`: `HandlerHasPlayer`, `RouteDefined`, `PlayerKept`, `AnswerTrue`,
  `ErrorHasCause`, `RoundEnds` (unless the handler is caught in a player list).
- `receiver`: `StreamKept` always; `PairsMatch` and `SignInsArrive` while messages arrive whole and
  ids have exactly `ID_SIZE` bytes, and TLC explores what happens beyond that too.
- `connection`: `WholeIsExact` (a request that has arrived whole is read as its lines, whatever
  the shifts of the buffer leave behind), `AnswerRight` (such a request is upgraded only if a header asks for it and
  another gives a key, and closed only if none asks; cut, any of it may fail), `PacketsExact` (while no frame is read in part, packets are the client's
  frames, in order), `FramesWhole` (the client gets whole frames until writers overlap or a write
  is cut short), `HandshakeEnds`, and `WriteEnds` (a client that does not read holds up nobody).

What the failing runs show (details under `findings`): a login enables the very tile
it has just disabled, so that others walk onto a newcomer; the id of a token may be freed before it is
copied; one failed login makes the loop answer every later packet of every session with an error and a
close frame; a token cut in two by the network is registered in two halves; a request line
cut in two by the network is returned as two lines, each "complete".

### Bounds

- `movement`: two players and the two maps of the program with their portals, moves of 1
  and 2. The players are saved next to the portals, and the coordinates asked for are those around
  the portals and one step beyond the borders there; the rest of the maps is like the tiles in
  between. Two players make every race over a tile.
- `walk_through`: a lane of three tiles.
- `registry`: four references, up to three creations (`MaxCreates`): a load that waits
  while an unload frees the map, and a fresh map after that. The four references are
  interchangeable, and the run has no liveness property, so symmetry is used.
- `roster`: three players on two maps, of whom two are at work at a time (`MaxBusy`): the third is the one behind the link
  that is freed. What they do is one of `Budgets`: one player leaves the map under another's loop while the third
  stands there, or two go through portals, or one goes and comes back. Two positions; three links (`MaxLinks`), so that
  freed memory is reused at once.
- `tokens`: two clients, two tokens, one of an account without a player, a time to
  live of two seconds: tokens of different ages in one walk, two clients on one token, one token's id read as the other's.
- `sessions`: two sessions; all opcodes and one without a name.
- `receiver`: three sign-ins (`MaxSignIns`), tokens and ids of two bytes, so that each can be cut, and ids
  of one to three bytes (`MaxId`).
- `connection`: four requests (an upgrade; one without a key; one for another upgrade, with the text of a websocket's in its URL;
  one with a line that does not fit);
  a buffer of 16 bytes, which just holds the longest of the others; one delivery cut anywhere
  (`MaxCuts`), which may fall into the request or a frame; two frames, one of them with an extended length; one other thread with one frame (`MaxBroadcasts`); a socket buffer of three bytes (`Cap`), as much
  as the shortest answer, so that writes fit, fill it, and fall short. In `ws_write_frame` the code makes two to four
  calls; the model gives an answer two and the handshake its three.

Deadlock is not checked: every one of these systems may stop. In `registry` all references may be
lost, in `movement`, `sessions` and `tokens` the process may end, in `receiver` the connection may be closed
and the receiver exits; in `roster` the players may stand still and in `connection` the handler may
be done or the process may have ended.

### Fairness

Weak fairness, and only of code that waits for nothing a client decides. `Movement` and `Roster`:
the steps of a thread inside `player_move` while the process runs, which at most waits for a row mutex held
for a few instructions. That its loops over player lists end is not assumed: in `Movement` and `Sessions`
`LoopFails` satisfies the fairness as well, in `Roster` going round a ring does. `AwaitingConnections`: the cleaner and the clock; logins get
none. `Sessions`: the steps of a round; frames need not come. `AuthReceiver`: the
receiver, and delivery by TCP. `Connection`: delivery by TCP, the handler, and each thread that writes;
a client need not read, and need not send frames. `MapRegistry` states no liveness.

## The proofs

All theorems hold for any sets of players, references, tokens, clients and sessions, maps of any
size, any portals and times, buffers, account ids, requests and frames of any length, under the named assumptions of the modules.

*Assumptions.* `Movement`: sizes are naturals, `max_move` an integer; saved positions and
the far ends of portals are tiles of their maps (the database holds what the program
wrote, and `map-definitions.c` is fixed); portals lead to odd rows (`PortalsAssumption`;
without it `PortalDepth` is false, as its mutant shows). `MapRegistry` and `Roster`: finitely many
references and players. `AwaitingConnections`: a positive time to live; garbage is not an id of a token.
`AuthReceiver`: tokens and ids of at least one byte, and `MaxId` not below `ID_SIZE`. `LineReader`: a buffer of at least three bytes, and NUL is no byte a client sends. `Connection`: a
request has two lines at least, of which the first is no header and only the last is empty, and each ends
in `\r` and its newline and has no others (`IsRequest`); a header does not begin with the colon, and there is
one Upgrade header at most, with a value (`IsHeader`); frames have a header, a key and perhaps data; the calls of an answer cover its bytes in order (`IsCalls`).

*Movement* (`MovementProofs`). Two inductive invariants. `Local` speaks of one player at
a time: types, `Geometry` (where the frame and the coordinates lie at every stage, from which
`MoveNeverHalfDone` follows) and `Nesting` (a nested call is a spawn with
events suppressed, hence `PortalDepth`). `Collision` is `NoGhostTile`, `WalkExclusion` and
`OwnTarget`: between the two toggles a walker's target is blocked. It is needed because
`WalkExclusion` alone does not say that a tile someone is entering is closed to others. `NoTeleports` and
`Implementation` follow by going through the actions once more: a walk of `Board`
is `DisableCoord`, an arrival is `DisableCoord` or `DisableRefused` of a spawn or
`ActivateEvent`'s spawn, every other step leaves `At` alone.

*Board*: exclusion is inductive with its type.

*Map registry* (`MapRegistryProofs`). The invariant adds mutual exclusion of the stages
under the mutex and, for each such stage, how `refs` and `tile` stand to each other; the
count is the cardinality of `Counted`, followed with the finite-set theorems.

*Player lists* (`RosterProofs`). That references are exact does not need the lists to be: the invariant
says that the link a thread is about to free is its player's own and still live (nobody else frees it), that
a link about to be published is its player's own, and that a player who has not
logged in has no link. The count is followed as the cardinality of his links. `PlayersStay` is the corollary that
matters: one reference always remains, so the freeing branch of `player_free` is not reached.

That the lists are complete needs more, and holds until two changes of a list overlap (`raced`). The links from
one on (`From`) are the least set that `next` does not lead out of, so that nothing is counted along
the way and no recursion is needed; `Cut` and `Push` say what taking a link out and putting one in front does to
every such set. For that `ListInv` has to know that a list is a line (`Linear`: no link follows two, and none comes
before the first) besides what it holds (`Listing`, which is `ListsComplete` with one
link for each player), that the registers of every thread inside a list are links of a list
or `Null` if it is taking a player off (`Held`, `Removing`), and that this player is still ahead of the thread that looks for
him (`Changing`). Of threads that only read a list nothing of the kind can be said: the link they stand on
may have been freed.

`ViewInv` is about pairs of players who have settled on the same map: what `p`'s client does not know of `q` yet, `q`
will still tell (`WillTell`: his announcement stands on a link of a list, and `p` is ahead of it), or `p` will still look up
(`WillLook`), or it is `missed`. `Before` is what a removal takes from a reader: whoever stood on the freed link is no longer before anybody, and
`Unheard` has made all those pairs `missed`. The other delicate case is the snapshot, which reads a position in one step and sends it in
another: `Stale` is a thread with an old position in its hands, and an announcement that arrives
meanwhile makes it `missed`. That a walk through a list passes everybody is `ListInv` again.

*Tokens* (`AwaitingConnectionsProofs`). An entry is freed for a cause (`Caused`): its time is over, or a session roams on
its token. Both last, so a client whose token has neither (`Over`) has copied that token's id (`Hand`). Expiry needs only the types.

*Sessions* (`SessionsProofs`). `Verified`: a packet being routed was allowed in the
session's present state, for only its own thread changes that; what has been sent so far in the
round; that state and player agree; that an error code goes back to a failed login.

*Frames* (`ConnectionProofs`). `WireInv`: as long as nothing overlapped or fell short, the bytes in
the socket buffer go on from the last one read (`Chained`), only one thread is writing, and the last byte
under way is the one before that thread's next, or the end of a frame if nobody writes (`WriterFollows`).

*Lines* (`ConnectionProofs`). `ReaderInv`: until a read is cut, either nothing has been read and
`inbox` and `coming` are the request, or all has been, and the lines not returned yet lie at the front of the
buffer (`Held`). What lies behind them is not mentioned, and that is the point: `FrontLine` shows that `br_read_line`
stops at the first newline, which is before it. Where a line begins is a recursive function (`UpTo`), so
this needs induction over the lines. The library's induction theorems take an operator, but its
theorem on minimal elements takes a set: `Least` and `Induct` get induction over Nat from that.

*Answers* (`ConnectionProofs`). From `ReaderInv`: uncut, the lines are the request's, so each header line says what
was sent (`HeaderLine`), none is nameless (`HeadersRead`), the headers of a name are the request's of that name, and the value
of the only Upgrade header is the one it was given (`ValueRead`). A first line is not looked at, whatever it says. That a
line cannot fill the buffer uncut is `FrontLine` again.

*Packets* (`ConnectionProofs`). `StreamInv`: until a read is cut, `body`, `inbox` and `coming` one after
the other are the bytes of the frames from the end of the last packet to the end of the last frame
sent (`Stream`), and what `want` still expects follows from how much of the frame has been
read (`Expects`), for a frame with or without an extended length. The frames begin where the request ends because the reader has then read all there was.

*Auth receiver* (`AuthReceiverProofs`). `FlattenSeq` is defined by a recursive function, so what it makes of a
sequence with one more element at either end (`FlattenAppend`, `FlattenHead`) is proved by the same induction over
Nat as in `ConnectionProofs`. `StreamKept` then is inductive with the types and with `Phases` (no byte of an id
is read before the token is complete): a step only moves bytes from one part of the stream to the next.
`PairsMatch` is not inductive, for it says nothing of what is unread. `InStep` adds it: until a message is split or
an id has another size, the receiver stands between two messages, what has arrived and is unread are whole messages
(`Queued`), tokens and ids in turn, and the number of messages registered, in the buffers, unread and under way
is that of the messages sent. A read then finds a message of just the size it asks for. The conditions of
`PairsMatch` look only at the sign-ins up to the n-th; `Regular` looks one further than the table, which is as far as the
receiver has begun to read.

*Model-checked only:* the liveness properties `RequestEnds`, `TokensExpire`, `RoundEnds`, `SignInsArrive`,
`WalksEnd`, `HandshakeEnds`, `WriteEnds`: fairness is beyond the prover. Every invariant and every action property that a
run checks, and the refinement of `Board`, is also proved.

## Not modelled

- The player cache (`player_cache_*`): `db_player_get_player` finds nothing in it, because the one
  insert (`db-player.c:47`) is commented out.
- `player_free` beyond its early return, `session_destroy`, `db_player_write_player`,
  `awaiting_connections_table_destroy`, `player_cache_destroy`, `cleanup` of `main.c`:
  no live path calls them, or (`PlayersStay`) none reaches them; the server never shuts down in order.
- The bytes of rows and packets: a row is a set of tiles (both maps have widths that are multiples
  of 8), a packet its kind. 64-bit frame lengths
  would lose their upper half (`web-socket.c:135`, 198), at sizes that neither the server nor a client of the game sends.
- The limits of header names and values (`header-list.c:19-28`): what a longer one overwrites is
  undefined.
- `map_spawn_player_random`, `map_random_coord`, `ws_echo_server`, `ws_text_frame`, most of `linked-list.c`: called by tests at most.
- A token inserted twice: the entry just inserted would be freed while it is listed.
  Tokens are 255 random characters.
- Map ids out of range (`id > MAP_COUNT` lets `MAP_COUNT` pass): ids come from the
  database and `map-definitions.c`.
- `main.c`: sequential, before any other thread. MongoDB, GLib's hash table, TCP and the clock are environment; the auth server's
  verification of Google tokens and the manual tester are outside.

## What is left to do

1. A composition of `MapRegistry` with the visits of players in `Movement`, to show that a map
   with a player on it stays loaded.
2. `map_toggle_coord` on bytes against the set of `Movement`.
