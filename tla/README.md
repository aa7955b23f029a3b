# NAEON: TLA+ models of the game's sessions and ledgers, the Blender bridge and the asset pipeline

This directory is the formal model of those parts of the repository whose
correctness depends on the order in which things happen:

* in the game (`godot/`): the UDP session protocol of the visual multiplayer, the
  Aexion Clash match with the War Score ledger it pays into, and the contest
  for a pad base;
* in the Blender add-on (`Tripo3d_Blender_Bridge/`): the server that receives
  models from the browser, and the `websockets` library bundled with it, whose
  connections it and its clients live on;
* in the asset pipeline (`pipeline/`, `logs/`, `scripts/assets/`): the batch
  programs that buy models and leave them on the disk for one another.

The source is the reference. Every definition that stands for code is listed in
`PROJECT.json` ("map") with the file and the lines it models.

## 1. The system

### The game

NAEON is a single-process game per player. Half of its GDScript builds and draws
terrain, stations and interiors. The state that outlives a frame or a scene sits
in the autoloads and a few components.

| Component | State | Operations | Talks to | What makes it hard |
|---|---|---|---|---|
| **SoftENet** (`systems/SoftENet.gd`) | UDP socket, `is_host/is_connected/is_joining`, `local_peer_id`, host tables `_client_addrs`, `_addr_to_id`, `_next_client_id`, `_puppets`, `_last_seen`, `_puppet_root` | `host`, `join`, `leave`, `_process`, packet handlers | other processes by datagrams, the scene tree | loss, duplication, reordering, crashes, ports used twice, deferred `add_child` |
| **AexionClash**, **ClashLocalMatch** (`arena/`) | kills, lane pressure, claimed lanes, `_ended`, result; its mirror | `register_*`, `_tick_objectives`, `_end_match`, `on_core_destroyed` | each other, WarScore, SoftSession | several causes of the end, re-entrant calls, two callbacks for one CORE |
| **WarScore**, **SoftSession** (`systems/`) | the day's total, twice; the file `user://soft_session.json` | `add_match_points`, `grant_war_score`, `save_session`, `load_session` | everyone | a second copy of the ledger, midnight, whole-file saves, restarts |
| **PadBaseController**, **OwnershipData** | owner, previous owner, transition, claim meter and side, `_status`, guard, influence, crystal | `claim_pulse_from`, `claim`, `on_hacked`, `_process`, owner operations | walkers and ships in the ring, the guard's `Turret`, WarScore | many claimants in any order, `_status` beside the owner, a tick that decides and pays |

### The bridge and its library

| Component | State | Operations | Talks to | What makes it hard |
|---|---|---|---|---|
| **TaskManager, Server** (`core/task.py`, `core/ws_server.py`) | the current server, its thread and loop, `_sockets`, `_last_ping_time`, `_client_info`, the sidebar's status | `start`, `stop`, `handle`, `_check_heartbeat`, `_main` | Blender's main thread by timers, clients by WebSocket, `legacy/server.py` | three kinds of thread, awaits in the middle of table changes, cancellation, a thread that outlives its `join` |
| **FileTransferManager** (`core/file_transfer.py`), import | sessions of chunks, the temporary file, import jobs | `add_chunk`, `is_complete`, `assemble`, `import_job` | handle(), the main thread | two connections on one session, a file written while it is imported |
| **Legacy connection** (`legacy/protocol.py`) | `state`, close codes, message queue, fragment lock, pings, three tasks | `recv`, `send`, `close`, `broadcast`, `transfer_data`, `keepalive_ping`, `close_connection` | the TCP transport, asyncio | every await is a point of interleaving; four writers of the close frame |
| **Legacy server** (`legacy/server.py`) | registered connections, `close_task` | `handler`, `close`, `wait_closed` | connections | a handshake under way when the server closes |
| **Sans-I/O protocol** (`protocol.py`, `client.py`, `server.py`, `extensions/`) | `state`, parser, close frames, fragment sizes, compressor contexts | `receive_data`, `receive_eof`, `send_*`, `fail`, the handshake | two byte streams | both ends change at once, who ends the TCP stream, negotiation known from the answer alone |
| **asyncio connection** (`asyncio/connection.py`, `messages.py`) | protocol, queue of frames, `send_in_progress`, `close_deadline`, pings | `recv`, `send`, `close`, `broadcast`, keepalive | the protocol, the transport | cancellation at every await, flow control, deadlines |
| **sync connection** (`sync/`) | the same behind two mutexes, `recv_events` in a thread | the same, with timeouts | the protocol, a socket | threads, `sendall()` that blocks under the mutex |
| **asyncio server and client** (`asyncio/server.py`, `client.py`) | `handlers`, connections, the URI in use | `conn_handler`, `handshake`, `close`; `connect()` as an iterator | callbacks of the application | close() against handshakes, redirects, retries and timeouts sharing one object |

### The asset pipeline

`batch_vertical_slice.py`, `run_phase0_noon_wave.py`, `run_batch_daemon.sh`,
`tripo_image2model.py` and `reprocess_keep_pbr.py` call `generate_tripo.py` (balance,
create, poll, download) and `process_asset.py` (Blender, levels of detail,
manifest, copy to `assets/`); `harvest_tripo_inbox.sh --watch` copies the inbox to a
bucket. They share the disk and the account and nothing else: each skips what it
finds done. Hard: kills between two files, failed requests, programs at the
same time, money that is spent before anything is on the disk.

### What makes them correct

* *SoftENet*: an id names one player; the host's two tables agree; nobody meets
  his own puppet; a join ends; a silent peer's puppet goes away.
* *Clash and War Score*: a match is settled once and everybody shows the same
  result; the day's pay never exceeds the cap whatever is replayed or restarted, as
  long as the saves reach the file; the two ledgers agree.
* *Pad base*: the owner changes by way of a contest; the views of a contest
  agree; no meter and no guard is left over; harvest pays the holder; an
  abandoned contest ends.
* *Bridge*: its tables and the sidebar tell who is connected; only whole uploads
  are saved and each is processed; stopping ends everything.
* *Connections*: one close frame, after everything else; `recv()` yields the
  peer's messages, each once and in order; nobody sleeps beside work; every wait
  ends. (Where the code does not keep one of these, section 4 says so and the property says
  what is left of it.)
* *Handshakes*: both ends agree on what was negotiated and how the connection
  ended; no assertion of the library fails; `close()` of a server leaves nothing
  behind; a client holds one connection and stays on TLS.
* *Pipeline*: a manifest stands for whole files of one model, metadata for the
  model beside it; a model that was bought is used and not replaced; the reserve of credits is kept.

## 2. Modules

| Module | What it is |
|---|---|
| `SoftENet`, `MCSoftENet` | the UDP protocol; symmetry for TLC |
| `ClashMatch`, `DailyAllowance` | match, ledger and session file; the abstract allowance |
| `PadClaim`, `PadHold` | one pad base; the abstract promise of a pad |
| `GameProofs` | proofs about `SoftENet`, `ClashMatch` and `PadClaim` |
| `LegacyProtocol`, `MCLegacyProtocol`, `LegacyProtocolProofs` | one legacy connection with its tasks; its scenarios; proofs |
| `LegacyServer` | the life of connections under a legacy server, the application's handler left open |
| `Bridge`, `MCBridge`, `BridgeProofs` | the add-on, which extends `LegacyServer` by the real handler; its scenarios; proofs |
| `Negotiation` | the opening handshake as a computation on offers, factories and responses |
| `WsProtocol` | the Sans-I/O protocol: one endpoint as a record, its methods as operators |
| `WsPair`, `MCWsPair`, `WsPairProofs` | two endpoints over TCP; its configurations; proofs |
| `PeerStream`, `PeerStreamProofs` | what a peer sends after the handshake and what an endpoint makes of it, shared by the two connections below; lemmas about both |
| `MessageStream` | the abstract promise of `recv()`, refined by all three connections |
| `FallibleStream` | the same for a `recv()` that may fail when it is cancelled, refined by the asyncio one |
| `Connection`, `MCConnection` | the asyncio connection over `WsProtocol`; its scenarios |
| `SyncConnection`, `MCSyncConnection`, `SyncConnectionProofs` | the threaded connection over `WsProtocol`; its scenarios; proofs |
| `AsyncSession`, `MCAsyncSession` | asyncio server and reconnecting clients; scenarios |
| `AsyncioProofs` | proofs about `Connection` and `AsyncSession` |
| `AssetPipeline`, `MCAssetPipeline`, `AssetPipelineProofs` | the batch programs, the disk and the account; scenarios; proofs |

How they are composed: `Bridge` EXTENDS `LegacyServer` and replaces its open
handler by `handle()`; `LegacyServer` in turn sees of each connection only the
`state` that `LegacyProtocol` models in detail. `WsPair`, `Connection` and
`SyncConnection` all run the operators of `WsProtocol`, once two of them against
each other, then one in tasks and one in threads. `MessageStream` is instantiated by the
three connections (by `Connection` through `FallibleStream`), with each one's queue as the refinement mapping.

`SoftENet`, `ClashMatch` and `PadClaim` share one module of proofs, `Connection` and `AsyncSession` another. The
models of a pair have nothing to do with each other; where two would have used the same
name, one of them carries a prefix (`ClashTypeOK`, `PadTypeOK`, `SessionSpec`, ...).

### SoftENet

`udp[n]` is the socket of process `n`; flags, ids and tables carry the source's
names. A dictionary without a key is a function with `NoSocket`, `NoPid` or
`Never` there. A datagram is a record of kind, source, destination and id; the
pose is left out, since no branch reads it. `net` is the set of datagrams in
flight: `Transmit` loses any subset of what is sent, `Remains` leaves a duplicate, and a
step may pick any datagram. Actions are the calls (`Host`, `Join`, `Leave`, ...), the parts
of `_process` (`RetryHello`, `HostBroadcasts`, `PruneStale`, ...), one per kind of packet,
and what surrounds the process: `FlushDeferred`, `SceneChange`, `Tick`, `Crash`, `Undeliverable`.
One process presses F10 and the others F11; each datagram is handled in a step of
its own although `_poll_udp` drains the queue, which only adds interleavings.

### ClashMatch

A handler such as `register_kill` changes AexionClash, WarScore, SoftSession, the
file and the local match in one chain of synchronous calls. Each call is an
operator from the state record `w` to the state after it, and an action applies
the outermost one to `Now`. The order of the calls is the source's. `scene` says
where the player is: TestArena with AexionClash, an isolated local match, or in space. `paid` and
`settled` are history variables. `save_session` returns without a word when the file does
not open (`SoftSession.gd:105-106`): `room` in the record is how many saves of the handler the disk still takes
(it fails the rest; a save writes the whole session, so one that fails before
one that succeeds leaves no trace), and `behind` says that the last save did not reach the file. `Restart` reads the file again,
`RestartUnread` finds that it does not open, `CrashWhileSaving` ends the process after
`FileAccess.WRITE` has truncated it. Each of these that forgets part of the day's record counts in `lost`.
`DailyAllowance` is instantiated with the session's total if it carries
today's key and 0 otherwise (`_roll_ws_day` is lazy).

### PadClaim

`pad` is one record of the fields of `OwnershipData`, of the controller and of the
guard. `Process` is one `_process`, its parts in the order of the source: cooldown,
transition, occupy, guard respawn, influence, harvest or recharge. Time and amounts count in ticks of one
length. `Move` changes who is in the ring between ticks; pulses, hacks (also
through the guard), the console, the seed claim and the owner operations come at any moment.
Left out: the 0.15 s actor cache (any occupant is allowed anyway), a ship that is registered but
far from the centre, and the `amount <= 0.0005` cut-off. `PadHold` knows `owner` (in a
contest: the side `_open_contest` remembered) and `contested`.

### LegacyProtocol

asyncio switches between tasks only at an await, so an action is the code between
two awaits of one task: `Td...` for `transfer_data`, `Ka...` for `keepalive_ping`, `Cc...`
for `close_connection`, and the application's `Recv...`, `Send...`, `Close...`, `Broadcast`.
`td`, `ka`, `cc`, `recvPc`, `sendPc` and `closePc` say where each task is; `wr[task]` is its place in the drain of the write
buffer. Callbacks of the transport are `PeerSends`, `ConnectionLost`, `PauseWriting` and the
like. A payload is the serial number of the peer's frame; `sent` is what is on the
wire. A timeout is an action that may be taken whenever the code waits under it.

### LegacyServer and Bridge

`LegacyServer` gives each connection its `task` (`handler()`: accepted, request,
process, reject, ws, close, done) and its `conn` state, and each server its
`websockets` and the steps of `close()`. `Bridge` adds what the add-on does: `mpc[g]` is
the server's thread with `_main`, `hb[g]` the heartbeat task, `hpc[c]` the handler of a
client, `main` Blender's main thread. While `handle()` writes the file its
loop does nothing else (`Turn`). `_main` cancels every task of its loop, and what becomes of a cancelled task depends on
where it was: `CancelledError` ends the handler (`HandlerCancelled`, `HandleCancelled`, `HbCancelled`), or it arrives inside
`websocket.close()`, which takes it for a cancellation of `transfer_data` (`legacy/protocol.py:767-773`) and goes
on closing and forgetting clients (`CancelSwallowed`, `HandleSwallows`, `HbSwallowed`); a `close()` may also raise an
exception that the bridge catches. A handler cancelled in its opening handshake leaves its TCP connection
open, since `except Exception` (`legacy/server.py:250`) does not catch it and nobody is left to close the transport.
`CloseTasksDone` and `ConnectionsClosed` are `await self.server.wait_closed()` (`:781`), which
returns at once before Python 3.12 and waits for the TCP connections since: both are allowed. The chunks belong to one file id; the sessions of
other ids share nothing but the code. `tm`, `joined` and `abandoned` are TaskManager and the `join` with its two
seconds: a thread that outlives it goes on beside the next server's.

### Negotiation, WsProtocol, WsPair

Parameters of permessage-deflate keep their values, since each end derives its
compressor's configuration from them. A frame carries its kind, `fin`, size in units,
code and the state (`ctx`, `bits`) of the compressor that made it; `dec` and `enc` are the contexts of the
endpoint. `WsProtocol` has one operator per method (`ReceiveFrame`, `ReceiveEof`, `SendClose`,
`Fail`, `Discard`, ...); `broken` remembers that an `assert` failed. `WsPair` drives two of them as the
documentation of the library asks, over two FIFO streams that may be cut; `foreign` replaces one end by another
implementation that sends what it likes.

### Connection and SyncConnection

Both write through `send_context()`, whose stages are `ctx[t]`, and read through
the Assembler, whose fields are variables of their own (`queue`, `paused`, the getter). In
`Connection` an action is the code between two awaits. In `SyncConnection` it is a section under
`protocol_mutex` or under the Assembler's mutex, a step between two of them, or the
end of a blocking call; `holder` is the thread that blocks in `sendall()` with the mutex. `ev` is
`recv_events()` with its finally clauses. The peer, the network and the
application do what they like within `cfg.load`. `sendall()` may raise while the own socket is open
(`Resets`), and any await of `Connection` may be cancelled in the scenarios with `cancels`; `torn` remembers that a fragmented
`send()` was abandoned.

### AsyncSession

A TCP connection occupies a slot; `conn[k]` has both ends of it (`cs`, `ss`), where the
server's `conn_handler()` is (`h`), the answer it decided on, and whether each end knows that
the connection is lost. `cpc`, `slot`, `uri` and `hops` are a client's `async for` over `connect()`. The
server's callbacks may be coroutines or not, redirect, refuse or raise, as the
scenario says; the network cuts and stalls.

### AssetPipeline

`inbox`, `meta`, `exported`, `assets` are the files: a file holds the product of a
task, whole or not; `plan.props` are the names whose brief has the category `props`, into which the second try of the wave copies as well. `run[r]` is a program and its place; generate_tripo.py and
process_asset.py are steps of their caller. `Kill` may come between any two
steps; a step that writes a file may leave a part of it. Blender may crash at any moment up to its end, also during and after the
copy to `assets/`, which runs inside it (`Broken`); the daemon's `mv` may land inside a directory that exists. A
kill ends a program together with the script it called; a script that outlives its caller is a second program at the
same time, which the plans with two runners have. `balance` and `tasks` are the service.

## 3. Runs

| Run | Instance | Shows |
|---|---|---|
| `ids` | 2 clients, 3 fresh ports, 4 ids, 3 joins, 2 datagrams in flight, duplication | ids unique, tables inverse, host and client mean the same id, no puppet of oneself |
| `live` | 1 client, clock, scene change, 2 joins | a join ends; a puppet whose peer was heard is refreshed or freed |
| `clash` | 2 lanes, 2 days, cap 5, 2 kills, pressure 2, any save may fail, one loss of the day's record | cap, ledgers, one settlement, refinement of `DailyAllowance` |
| `pad` | thresholds 9 and 3, two hack strengths, influence, both flags on as in the build | `_status` and owner agree, no meter or guard left over, pay |
| `pad_live` | thresholds 4 and 2, flags off | refinement of `PadHold`: the owner changes through contests only; abandoned contests end, killed guards return |
| `legacy` | 8 scenarios of reading, writing, watching, closing; queue of 1 | the wire, wake-ups, the refinement of `MessageStream`, every wait ends |
| `bridge` | 6 scenarios: upload, shutdown, cancel, heartbeat, clients, restart | tables, uploads, a server that ends is clean, and everything ends but what section 4 lists (items 7, 19) |
| `wspair` | every pair of factories over two windows, two offers against two factories, subprotocols and origins, traffic, cuts, foreign ends | no assertion fails, both agree, both handshakes settle |
| `connection` | scenarios of reading and writing, with cancellation of every await, and of closing; water marks 1 and 0 | hand-over between tasks, refinement of `FallibleStream`, 1000 between messages, waits end |
| `sync` | the same for threads, with `sendall()` that blocks and peers that reset | the same, with `MessageStream` itself |
| `session` | closing, reconnecting, redirecting; 1 client, 2 slots | clean close, one secure connection, ends and reconnects |
| `pipeline` | 9 plans of programs, one after the other or two at a time, with and without the category `props`, 2 faults | disk, money, ends |

A property that joins several statements (`TasksInStep`, `PairAgrees`, ...) is the
conjunction of named parts with a comment each; they are checked together because
they are about one question.

**Bounds.** `MaxHosts`, `MaxJoins`, `MaxScenes`, `MaxNet`, `MaxId`, `MaxDay`, `MaxLost` bound users, datagrams, days
and losses of the record in the game's models. Two clients are enough to compete for an
id, three joins let one come back while datagrams of its earlier life are
under way, two datagrams let a late one be overtaken. The clash prices and the pad's thresholds
are scaled so that the cap is met within a grant, a lane fills in one or two events, and a
contest takes several claims of different strengths. `STALE = 0` makes a peer stale after one tick; the pad needs no bound.

The models of the bridge, the library and the pipeline choose a *scenario* in
their initial state: who takes part, what the peer may send, whether the buffer
fills. The product of everything would be too large, and the hazards meet in few
combinations: a close against a fragmented message and a broadcast
(`Writing`), a keepalive against `close()` on a full buffer (`Watching`, `Closing`),
flow control against cancellation (`Reading`). Within a scenario `load`, `MaxMsgs`, `MaxPings`, `faults`,
`starts` bound how much the environment does; a queue of one message and water marks of 1 and 0 are
met by the second message. `bridge` has two clients on one upload of two chunks with three messages, so that a
chunk comes twice or after the end; three clients that replace one another; two servers of which the first outlives its `join`. Negotiation
uses windows 9 and 12: equal, smaller, larger and absent cover every branch of the
comparisons. In `pipeline` a credit stands for 50; two faults let a failure follow a kill, three
executions let two programs meet what the first left.

**Fairness.** `ids` assumes none. `live`: a datagram sent again and again is
received again and again (strong fairness of the arrival of HELLO and WELCOME),
`_process` retries and prunes, the clock goes on. Nothing forces the user to
press a key. `pad_live`: weak fairness of `Process`, which Godot calls every frame.

`legacy`: the tasks of the library and the timers of the event loop (weak
fairness of each task's next step, of DrainYielded, of `ConnectionLost` once the transport is
closed). `connection` and `sync`: weak fairness of `Loop`, the steps of tasks and threads that can run.
In all three the timeouts of the code are among these steps, since a timer
fires when nothing else happens; nothing is assumed of the peer, the network or the application. `bridge`: weak fairness
of each server's loop, where the user, the clients and their messages are finitely many; a closing connection ends only while
somebody enforces it (`Enforced`: a `close()` under its timeout, the end of its handler, or the shutdown).
`wspair`: both ends read what has arrived and a rejected or ended stream is closed. `session`: as above, and the
application's handler and the body of the client's loop, which await the connection, end when it is
lost. `pipeline`: programs that run go on; nobody has to start one, and the service may
never finish a task.

`CHECK_DEADLOCK FALSE` is set where the bounded environment runs out (everywhere
but the pad).

**Mutants.** A definition that carries the comment "Mutated" is a plausible
mistake in the definition after it; no specification uses it. Substituted for
that definition, it breaks the property that `PROJECT.json` ("mutants") names.

## 4. Where code and documents disagree

Met while modelling; the models follow the code, and the properties are stated so
that they say what the code does.

*In the game*

1. A peer that says HELLO and falls silent keeps its puppet: `_prune_stale`
   (`SoftENet.gd:660`) knows only peers whose STATE was applied.
   `docs/systems/SOFT_NET.md:24` says that peers silent for 8 s lose theirs.
2. The daily cap (`SoftSession.gd:136`: "Daily cap 60.") is not kept over every restart: the file is truncated in place
   (`:104`), a save that cannot open it returns without a word (`:105-106`), a load that cannot does the same (`:47-49`), and
   the copy in `war_score.cfg` is never read back. `DailyCap` counts these losses and allows one allowance more
   for each.
3. Losing the own CORE can win the match: its 60 points of pressure go to the
   player's lane objective before the result is decided (`AexionClash.gd:109`, against the
   comment in line 112).
4. An exhausted pad does not recharge under its owner: the tick takes the harvest
   branch, which returns at once (`PadBaseController.gd:159, 603`; against line 638 and
   `docs/systems/PHASE0_PLAYTEST.md:78`).
5. A second `host()` numbers clients from 2 again while clients of the first session keep
   their ids (`SoftENet.gd:121`); `UniqueIds` is about one session.

*In the bridge and the library*

6. `import_job` reports `success` whatever happened, since `_import_model_file` catches
   every exception (`ws_server.py:438`), and a second upload of the same id may be writing the file it reads.
7. A new client empties `_sockets` and then awaits the closes (`ws_server.py:154`): clients that
   arrive meanwhile stay, although the comment in line 149 says that only the newest is kept. When one of these
   closes raises (the assertion of item 9) its client is left to itself, unregistered (`Forsaken` in `Bridge`).
8. A server whose `loop` is not set yet ignores `_direct_close` (`ws_server.py:83`), and a
   thread that outlives `join` clears the status of its successor (`:79`).
9. Two tasks that drain a full write buffer trip the assertion of
   `legacy/protocol.py:308`; when one of them is `close()`, it raises AssertionError.
10. "Canceling recv() is safe. There's no risk of losing data" (`asyncio/connection.py:268-269`): a cancelled
    `recv()` that had fetched fragments raises AssertionError (`asyncio/messages.py:57-61`, `:169-173`) and loses the message when a
    frame arrives before it has run; the calls after it fail at the rest of that message. `FallibleStream` says how much of the promise is left.
11. Two tasks that send from asynchronous iterators may both pass the wait for
    `send_in_progress` and trip `asyncio/connection.py:564`; such senders are not in the model.
12. "This branch should never run" (`sync/connection.py:904`) does run, when another thread
    has closed the socket; `SafetyNetOnlyAfterClose` says that this is the only way.
13. `drain()` has no timeout and `sendall()` blocks under `protocol_mutex`: a peer that does not read holds
    up `close()` and keepalive (`Clogged` in the liveness properties).
14. With a `process_response` that is a coroutine a connection opens behind the server's `close()`
    (`asyncio/server.py:161`).
15. `connect()` fails at exactly MAX_REDIRECTS redirects with "more than MAX_REDIRECTS" (`asyncio/client.py:577`), keeps the
    URI of a redirect for later reconnections (`:565`), and backs off only after failures to
    open (`:640`): a server that accepts and closes is tried at once.
16. A window of 8 bits may be negotiated, which zlib does not compress with; a PING
    between fragments is measured against what is left of `max_size` (`protocol.py:590`).
17. Two tasks may call `recv()` of a legacy connection at once without the RuntimeError its documentation
    promises (`legacy/protocol.py:511`): once `transfer_data` has notified the first (`:962`) the waiter is free again, a
    second call takes it, and the `finally` of the first (`:541`) clears it; the second then sleeps until the
    connection ends. `NobodyLeftWaiting` therefore assumes one receiver (`OneReceiver`).
18. After a fragmented `send()` that was cancelled or raised, `close()` sends 1000 in the middle of the message, since it asks who is
    sending (`send_in_progress`) and not what the protocol expects; `send()` speaks of cancelling it as
    having the same effect as `close()` (`asyncio/connection.py:440-443`). `CloseBetweenMessages` excuses it by name (`torn`).
19. `wait_closed()` of a legacy server promises that "all TCP connections are closed" (`legacy/server.py:799`). A handler cancelled in its
    opening handshake keeps its own: before Python 3.12 it outlives `wait_closed()`, since then
    `wait_closed()`, and with it the thread of the bridge, waits for the client to end it (`HeldOpen`). `ServerEndsClean` therefore speaks of handlers
    and OPEN connections, and `GoneInTheEnd` excuses a server that is held open.

*In the pipeline*

20. `generate_tripo.py` returns 3 when the model exists (`:345`), so an item whose processing failed is never
    processed again by the slice; the wave skips an asset that has any
    `*_lod0.glb` (`run_phase0_noon_wave.py:38`), manifest or not.
21. Blender exits with 0 when its script raises, so `process_asset.py:433` takes a failed export for done when
    an older manifest is there.
22. One failed poll ends `poll_task` (`generate_tripo.py:244`), and a lost answer to "create" leaves
    a task that is paid for and never fetched: the next execution buys the name again. So it does after a failed download.
23. Programs at the same time, or a `generate_tripo.py` that outlives the batch that called it, may buy a model each for one name, and the later
    download replaces the earlier one (`Alone` in the properties).
24. When the brief itself says `props` (`briefs/phase0_noon_wave.json:32, 39`), the wave's second processing
    (`run_phase0_noon_wave.py:83-89`) copies over the first one's directory: a Blender that crashes after its copy and a kill within the second
    leave a manifest over a cut level of detail. `reprocess_keep_pbr.py` may leave the same (`WrittenOver`), and ends with an
    exception at a level of detail that is cut.
25. The daemon moves `assets/props/<name>` into a directory that may exist (`run_batch_daemon.sh`): the asset then lies one level too deep, where nobody
    finds it.

## 5. Proofs

All theorems hold for every value of the constants that the named assumptions allow.

`GameProofs`, about `SoftENet` (any clients, ports, ids and datagrams; loss, duplication,
reordering and port reuse):

* `TypeCorrect`; `PeerIdsUnique` and `TablesAgree` with at most one host session.
  `UniqueIds` is not inductive: a WELCOME in flight, a STATE in flight and an entry of
  `_addr_to_id` all become somebody's id later. `Claim(a, p)` collects them, and `IInv` says that
  every claimed id was issued and that one id is never claimed for two
  addresses. A new id is above all issued ones, so it adds a claim without a rival;
  every other step only moves claims around.
* `PlayersAlwaysKnown`, with one host session and ports that are not reused. `KInv` adds to `IInv` that a client's port
  is its own, that the host's table, the WELCOMEs and the STATEs in flight give a client at most one id, and that
  no STATE that reaches it carries that id. Neither hypothesis can go: a second `host()` numbers
  from 2 again, and a process that is given the port of another inherits its entry in the table.

`GameProofs`, about `ClashMatch` (any prices, pressures, cap, lanes, days):

* `ClashTypeCorrect`, `CapHolds`, `LedgersStayEqual`, `SettledOnce`, and `AllowanceKept`, saves and loads that fail
  included. `ClashInv` joins types, `Ledger` and `ArenaOK` (mirror equal, recorded results equal to `ended`). The heart of `Ledger` is
  `Accounted`: the file counts for today at least what the session does unless the last save failed, and what was paid is at
  most what the session counts and one cap for each loss. So a restart that hands back an allowance is one that
  is counted.
  Handlers are chains of operators, so there is one lemma per call over state records; `Follows` is what every
  call of a chain keeps, and `Forward` what a step does to the allowance.

`GameProofs`, about `PadClaim` (any rates, strengths, thresholds and delays with which no single claim or
tick of the guard fills a contest's meter, `PadAssumption`; either setting of the flags):

* `PadTypeCorrect`, `ContestAlwaysTracked`, `ContestAlwaysSound`, `HoldKept` (with the flags off: through contests only). `Inv` says that the
  record is `Good`: these invariants and that a contest has a side to fall back to. A
  tick runs two claims, and two steps of `PadHold` in one tick would not
  refine it; `GuardCannotLock` excludes that, since the guard fights for the old owner.
* `HarvestAlwaysPaysHolder`. `NoneGains` is transitive and holds of each part of a tick on an occupied pad: nobody
  comes to hold it, for a lock starts a transition of at least one tick. The decay of a contest does make a holder at
  once, but runs only when the ring is empty, and then nobody is there to be paid.

`LegacyProtocolProofs` (any tasks, queue limits, payloads and scenarios):

* `WireAlwaysInOrder`. `WireOrder` is not inductive: a fragmented message may be open on the wire, so `Wire` says who is
  sending it (the task that waits in the drain between two fragments, which then holds
  `_fragmented_message_waiter`) or that the state has left OPEN, after which no data frame
  is written; and that a close frame is out exactly when the state or the closing task says so.
* `NobodyWaitsInVain`, for one receiver (see item 17 of section 4): `Woken` relates each waiter to the place of the task that
  must wake it.
* `NothingTakenBack`: the connection implements `MessageStream`. `Streamed` orders what was delivered, what sits in the queue, what
  `transfer_data` holds and what is still in the inbox by the peer's serial numbers.

`BridgeProofs` (any finite set of clients, any number of servers one after the other, any scenario, not only those of `MCBridge`):

* `InvariantHolds`, with the conjuncts `Library` (what `LegacyServer` knows of each connection), `Threads` (which server's
  thread is where, and who is joined or abandoned), `Phases` (where `_main`, the heartbeat and a handler may be
  together), `Tables` (who is in `_sockets`, and which handler is replacing whom) and `Files` (which chunks of the upload came, and that
  one handler at a time writes the file).
* From it `TablesAlwaysTellClients`, `UploadsAlwaysWhole` and `ServerAlwaysEndsClean`. None assumes anything of the cancellations: each may be
  swallowed, and a `close()` may raise, wherever the code allows it.

`WsPairProofs` (any windows, factories that `__init__` accepts, offers, subprotocols, sizes and numbers of messages,
`ConfigsAssumption`; with or without another implementation at one end, which sends what it likes of `ForeignItems`):

* `EndpointsAlwaysSound`. The assertions of `protocol.py` are about one endpoint and need `Kept`: the parser discards exactly when
  a close, an error or EOF has been seen, `eof_sent` exactly where `discard()` takes over (the
  server always, the client once it is CLOSED or its handshake failed), CLOSING means that a close frame is out. Each
  method has a lemma that it leaves a `Sound` endpoint and writes at most one frame and an EOF. `StreamInv` joins the two:
  EOF is the last item of a stream and its sender knows that it sent it, nobody is CLOSED with EOF still to come, and the data frames under way
  fit between those heard and those said (`Counted`, a list of partial sums, since a count over a stream would need induction).
* `PairAlwaysJoined` (`NegotiatedAlike`, `CloseLosesNothing`, `ServerClosesFirst`), and `PairAlwaysAgrees` (the whole of `PairAgrees`) for pings
  without a payload, `QuietPings`: item 16 of section 4 lets a ping make an endpoint blame a peer that kept within `max_size`. None of
  them is inductive, since what goes wrong is written into a stream long before it is read. A *mark* is what a reader knows between two items (handshake
  or frames, size of the open message, frames its decompressor saw, data frames heard); `Path` says that a stream leads from the mark of its
  reader, one `Reads` step per item, to what its sender has told. A step writes the last item of a path, takes the first or loses the tail, so
  it needs no induction. `Joint` relates the handshakes (a response under way is the one to the client's request; nothing but EOF
  precedes it), `Own` the ends of the streams to the close codes. `NegotiationAgrees` is the heart of `NegotiatedAlike`: the client's first matching offer is
  the one the server took, because the server passes over an offer only for want of `client_max_window_bits`, and then for all its
  answers with a window.

`PeerStreamProofs`, which the next two build on:

* A read of either connection feeds any number of frames to the endpoint: `Fed(q, items)` is a
  recursive function over them. The library's induction theorem takes an operator, but
  well-founded induction on the set of the numbers for which a claim holds (`NatSetInduction`) does without, so
  `FedKeeps` and `FedLine` hold for every number of frames.
* `Running(q)` is what an endpoint keeps after the handshake. `Line(q, s)` says of a line `s` of data frames that each message
  begins, goes on and ends in it, that their numbers grow, and that it ends inside a message exactly if the endpoint
  expects a continuation. `Messages(s)` are the numbers of the complete ones; the lemmas say what a frame
  at the end adds and what a message taken from the front removes.

`AsyncioProofs`, about `Connection` (any senders, closers, water marks, pings and scenarios of `ScenarioAssumption`, any
number of frames in a read):

* `TasksStayInStep`: no assertion on the deadline fails, no task sleeps beside work, reading is paused only with frames queued, pings
  are settled, senders take turns, ConnectionClosed tells the truth. `IInv` joins what a task in `send_context()` relies on
  (`Contexts`), what is known of an ended connection (`Ends`), who is inside a
  fragmented message (`Sending`), and the Assembler (`QueueInv`, `PingInv`). `Context` is the same code for every
  caller, so it has one lemma, and each caller shows what it brings.
* `ClosesBetweenMessages`: `Sending` says that an open message has its sender in `send_in_progress` or was abandoned
  (`torn`), and `close()` fails the connection in the first case.
* `StreamIsKept`, whatever is cancelled. `StreamInv` says that what the cancelled or waiting `get()` fetched, followed by the queue, is a
  `Line`, and that frames in the inbox are numbered above it. A `get()` whose `reset()` fails drops what it fetched (item 10): what is left
  is a `Line` that may begin inside a message, so `Flow` allows that, and `recv()` fails there, which `FallibleStream` counts.

`SyncConnectionProofs` (any senders, closers, water marks, pings and scenarios):

* `ThreadsHold`, `ThreadsStayInStep` (the whole of `ThreadsInStep`) and `StreamIsDelivered` (`DeliversStream`), without a further
  hypothesis. A frame may be in four places at once under different locks: in the inbox, in the hands of `recv_events()`, in the
  queue, and in the hands of `get()`. `IInv` is about locks, deadlines and ends: whoever closes the
  socket under `recv_events()` is known (`Ends`), a thread that blocks in
  `sendall()` holds the mutex (`Contexts`). `StreamInv` adds three parts. `Held`: the queue is data frames with at most one
  end mark, which is last. `Same`: `recv_events()` holds the events that the endpoint made of the
  frames it has read. `Flow`: what was fetched, what is queued and what is in hand form one `Line`, and the inbox goes on with
  greater numbers. A timeout of `get()` puts what it fetched back at the front,
  and a close under `recv_events()` drops the end of the line; neither breaks it.

`AsyncioProofs`, about `AsyncSession` (any clients, slots, URIs, redirects and scenarios):

* `ServerClosesCleanly`, `ClientKeepsOneAndSecure`. `OneLiveConnection` and `NoneOpensBehindClose` need what each party knows of a connection:
  `Wired` (an end that knows of the loss is right; a live connection has a
  handler and its client is using it), `Registered` (a handler that runs is in `handlers`, one that was only accepted
  exists only before the listening sockets are closed), `Opened` (an open
  connection is in the handler's run and, after `close()`, among those it closes). `Inv` says so of every slot.
  Most steps change one slot: `OneSlot` reduces them to the record they leave there.

`AssetPipelineProofs` (any names, levels, programs, floors, prices, plans):

* `ReserveAlwaysKept`: `Reserve` counts those who looked at the balance and have not
  bought yet (`Pending`): balance plus one task per runner is above each floor that all
  buyers respect by at least what is pending.
* `DiskAlwaysTold`, `AlwaysSpendsOnce`, for one program after the other except the reserve: `Told` follows a name from the inbox to the
  manifest. `NameOk` says what the files may be when nobody works on it, `ProgOk` what they may be at each place of
  the one program that does (a download under way, a model without meta.json, a directory half
  copied, perhaps over an older one), `OthersOff` that the other runners are idle in a plan with one of them. Whether a manifest stands for
  whole files depends on the name (`Strict`): not on those that may be written over.

Only model-checked: every liveness property (the prover has no reasoning about fairness and ENABLED).
Every invariant, action property and refinement of the runs is stated by a theorem; some carry a
hypothesis that their runs meet and which is explained above: `PlayersAlwaysKnown`, `PairAlwaysAgrees` and `NobodyWaitsInVain`. The other theorems about `SoftENet` allow port reuse, which no run does.

## 6. Not modelled

* *SoftENet*: loopback and the ENet/WebSocket transports (off by default). *Clash*: toasts, labels, match XP,
  mastery, the `match_ws` total. *Pad*: repair, refuel, restock, cargo, hangar.
* *Bridge*: what an import builds in Blender's scene, the panels.
* *websockets*: bytes (HTTP, headers, URIs, masking, UTF-8), basic authentication, proxies,
  `max_fragment_size`, `ping()` and `pong()` called by the application, asynchronous iterators in `send()`,
  `recv_streaming()` of the asyncio connection; the trio connection, the sync server and client, the legacy client
  and the routers, which the bridge does not use and which repeat the control of what is modelled.
* *Pipeline*: the scripts that write reports and the manual options of `generate_tripo.py`.
* The components listed as `not_modelled` in `PROJECT.json`, each with its reason.

## 7. Plan

1. Game core, bridge, library, pipeline (done), in the order of what is lost when they fail.
2. `Tripo3d_Godot_Bridge`: one `WebSocketPeer` per client polled every frame, its
   upload sessions beside those of the Blender add-on.
3. The pad with two frame lengths (the 0.0005 cut-off), composed with the influence that
   `emit_soft_influence` gives it.
4. `SoftSession`'s other sections over a file that may be missing or unwritable; the colony's wallets;
   `ClashWaves` against the match end; hangar queue, ramp, channels, pad slots.
