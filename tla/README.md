# covibe, specified

TLA+ modules, TLC runs and TLAPS proofs for covibe: a dashboard that lists
omp agent sessions running on this and on other machines, lets a browser or a
command line join them, and kills them. This file says what the parts of the
program are, which module models which part, what each run and each proof
shows, and what is still to be done.

## The system and its parts

| part | code | state | operations |
|---|---|---|---|
| session registry | `internal/spool`, `internal/dashboard/{remote,server,killed}.go`, `internal/session/remote.go` | one file per session record, the in-memory kill memory | register, heartbeat, list (which prunes), kill, restart |
| collab relay | `internal/dashboard/relay.go` | rooms by id, a room's guests, a send queue per connection | host and guest connect, relay, ping, end |
| terminal hosts | `internal/dashboard/termhost.go` | the wrapper connection offering each session's terminal, its browsers, a channel per browser | add, remove, attach, detach, broadcast, close |
| wrapper | `internal/session/session.go` | the omp process, its pty and the taps on it | start, watch, stop |
| wrapper terminal | `internal/session/termhost.go` | a connection to the dashboard, a send queue, the fan-out | dial, stream, snapshot, input, resize |
| peer-to-peer terminal | `internal/session/p2p*.go`, `p2p/src/main.rs` | two endpoints, their sockets and tickets, the peers | start, serve, stop |
| tmux client | `internal/tmuxctl` | a control-mode process, an output queue | attach, send, resize, read, close |
| browser terminal | `internal/dashboard/terminal.go`, `internal/dashboard/assets/terminal.js` | the page's socket, grid and refit; one tmux client per page | open, snapshot, stream, input, resize, close |
| access lists | `internal/access`, `internal/dashboard/{users,apikey}.go` | users, owner and members per session, in one file | seen, set owner, add, remove, prune, drop |
| creation | `internal/dashboard/create.go`, `internal/launch`, `internal/mux` | none of its own | create |
| attach | `internal/attach`, `internal/termwire` | one stream | resolve, stream, detach |
| failure limiter | `internal/dashboard/ratelimit.go` | failures per client address | blocked, fail |
| login | `internal/dashboard/oidc.go` | provider state, cookies | discover, login, callback |

How they interact. A wrapper announces its session over HTTP and sends
heartbeats; the answer to a heartbeat is how it learns of a kill. It also dials
the dashboard to offer its terminal, and omp itself dials the relay as a host
under the session's room id. Browsers reach the terminal through the terminal
hosts (remote sessions) or a tmux client (local ones), and join the room as
guests. A kill touches three parts in order: it is remembered, the terminal is
dropped, and the record is saved as ended. Listing prunes stale records and,
with the resulting live set, the access lists.

What is hard. Every HTTP request and every connection has a goroutine of its
own. The spool has no lock: handlers load a record, do something that takes
time, and save the whole record back. The relay and the terminal hosts look
things up under one lock and act on what they found under another, send on
channels without holding any, and close channels others may be sending on. A
dashboard that restarts loses the kill memory and every connection and keeps
the records. Wrappers are laptops: they sleep, their requests time out while
the dashboard is still handling them, and they come back.

What makes each part correct, in a sentence each:

- registry: a kill is final, nobody else's session is stopped, a session that
  runs and is reachable stays listed, one that ended leaves the list;
- relay: one host per room, each host talks to its own guests only, both sides
  learn of the other's end, a dead host frees its room;
- terminal hosts: browsers find the connection that works, are released when it
  ends, and a session that is over offers no terminal;
- terminal streams (wrapper, peer-to-peer, tmux): what a viewer is shown is the
  stream from a snapshot on, in order, and where a source may lose output (a full
  channel, a tmux client that is not attached yet or whose pane is paused) no
  more is missing than it lost, unless the connection is dropped;
- access: a session is seen and managed by its owner, its members and admins
  only, and its list lives exactly as long as it does;
- creation: the creator sees the session from the first moment, a failed launch
  leaves nothing behind, the cap holds;
- attach: a name leads to one session or to none;
- limiter: a client is refused once its budget is spent, until its window ends.

## Modules

Seven modules model the system, one of them (TerminalStream) as a promise that
another implements. In each, the state is the variables at the top of the
module, and a handler of the code is a few actions: it is split where the code
lets another goroutine run between a read and the write that depends on it (a
lock released, a request body read, a file listed and removed later). Mutated
forms of definitions, used to show that a property can fail, stand just before
the definition they vary and are marked `Mutant`.

### SessionRegistry

The remote sessions of one dashboard. A session is its collab room; the code
derives the record id from the room, so one value stands for both. Wrapper and
dashboard are one module, because the contract is between them.

| variable | code |
|---|---|
| `status`, `age` | the record file: `Status`, time since `UpdatedAt` |
| `doomed` | files `Live` has judged stale and not yet removed |
| `killedAge` | `killRegistry.seen`; "no entry" and "expired" are one value |
| `client` | where `RemoteSink.Watch` and `Run` of the session's wrapper are |
| `beat`, `reg`, `kill` | a request inside `handleRemotePane`, `handleRegister`, `handleKill` |

`HeartbeatLoad`/`HeartbeatSave` is the heartbeat around the reading of its
body; `RegisterCheck`, `RegisterReclaim` or `RegisterCharge`, and `RegisterSave`
are the registration; `KillFind`, `KillRemember`, `KillSave` the kill;
`ListLive`/`RemoveStale` the two halves of `Live`. `Timeout` is the wrapper's
limit on a request; the request goes on in the dashboard (`LoseRequest` is the
one that never arrived). `Restart` clears what is in memory. Time is a `Tick`
that ages everything, up to the first value no comparison can tell from a
larger one. The wrappers in `Healthy` are neither suspended nor cut off: their
requests do not time out and they beat at least once a tick. That is the code's
ratio (heartbeats every few seconds against a TTL of tens of seconds), as a
guard of `Tick`. `MCSessionRegistry` lets one of the sessions be used, the
reachable or the flaky one, so that the liveness run covers both.

### CollabRelay, MCCollabRelay

One room id. Each accepted host makes a room of its own, so a room is named by
its host, and `room` is the map's entry. `log` and `written` are a connection's
send queue with its history, `sock` how the connection ended if it did,
`blockedOn` the connections a handler is closing because their queue was full
(`enqueue` waits for that close). The host's deferred cleanup is
`HostReadError`, `HostClear`, then `HostNotify`/`HostCloseGuest` for each guest,
then `HostOver`; the guest's is `GuestLeave`, `GuestPart`, `GuestClose`. A send
on a closed queue panics in Go: `HostNotifyPanics`, and the `panicked`
alternatives of the guest's actions. `MCCollabRelay` bounds the load.

### TerminalHosts

One remote session's terminal as the dashboard sees it: the connections its
wrapper offers (`host`, `registered`, `closed`, `up`), the browsers (`viewer`,
`attached`, `out`, `outClosed`), the kills, and what a kill leaves behind. A
wrapper is refused (`Refused`) while a listing gives no record of the session
that is not ended (`live`) or the kill is remembered (`killed`), and neither
lasts: `Forget` is the memory's ten minutes, or a session without a room id,
whose kill `handleTerminalHost` never finds remembered; `Restart` loses it with
every connection; `RecordSaved` is a heartbeat or registration in flight that
saves an ended record as live, which is the race of SessionRegistry seen from
here, and is left free; `RecordGoes` is the listing that prunes. `BeginClose`
is the locked half of `close`, `CloseOut` the channels it closes afterwards,
`EndClose` the connection; `closer` is who runs it. `HostOutput` copies the
viewer set and `HostSend` sends to each without the lock, as `broadcast` does;
a channel closed in between is `HostSendPanics`.

### WrapperTerminal, TerminalStream

The wrapper's end of the same connections. `phase` is where `run` and `serve`
are, `running` the writer, the pump and the pinger, `reader` the read loop.
Output is numbered chunks; `rendered` is what a snapshot shows, `delivered` what
the fan-out (or the tmux client) has passed on, `feed` its channel, `send` the
send queue, `screen` what a browser would see. A snapshot is taken
(`TakeSnapshot`) and queued later (`Paint`), with the pump running in between.
A cancelled context does not stop a goroutine at once: Go's select may still
take a frame and the write may still get through. A socket is `closed` when
reads and writes fail, `gone` when they do not and only a ping notices.
`OverTmux` adds what only a tmux source does: it may fail to start, end by
itself, lag behind the screen, fail to capture it (a blank repaint), and not
send output. `tmuxctl.Attach` starts a process and returns; tmux attaches the
client at some later moment, when hello is out and a snapshot may have been taken
by another client, and it sends nothing of what was put out before, nor while
it has paused the pane. `Deliver` may therefore lose any chunk over tmux, and
only one the feed has no room for off the pty.

`TerminalStream` is the promise: chunks in order and none twice, none skipped
unless the source lost it or the connection is being dropped, and a repaint
never older than the start of the source. Off the pty a chunk is lost only with
`Backlog` chunks waiting before it, so nothing falls between a repaint or the
start and what is shown next; over tmux that is not promised. It is implemented by
`WrapperTerminal` with `up` as "a source is acquired", `dropping` as "and the
context is cancelled" and `Backlog` as the capacity of the feed; the other
variables have the same names.

### BrowserTerminal

A local session's terminal in a browser: the script of the page, the handler
behind it, the connection between them and the control client between the
handler and tmux.

| variable | code |
|---|---|
| `ws`, `onData`, `fitTimer`, `closed` | the variables of `covibeTerminal` |
| `rows`, `shown`, `noted` | the page's xterm: its grid, what was written to it, the read-only note |
| `box`, `observed` | the container, and what the resize observer last reported of it |
| `up`, `down`, `conn` | messages in flight and the connection |
| `srv`, `reader` | where `handleTerminalWS` and `termReadLoop` are |
| `grid`, `out`, `alive` | the tmux client's size, its output channel, the session |
| `typed`, `entered`, `produced` | history: input on both sides, output |
| `dropped`, `unsent` | history: output the channel had no room for, and output tmux did not send |

A browser runs one event at a time, so each callback is one action with all it
calls: `OnOpen`, `OnBinary`, `OnHello`, `OnExitOrError`, `OnClose` are the
socket's, `OnObserve` and `FitFires` the resize observer and the debounced
refit, `Type` what xterm hands to `onData`, `Close` the page's own. `shutdown`
takes the handlers off the socket before it closes it, so a page whose `ws` is
null reads nothing more; its close still travels behind what it sent. The
handler is split at every call that talks to tmux or to the socket
(`Attach`, `Snapshot`, `StartReading`, `Forward`), because output, a resize of
the page or the end of any of the three may come in between; nothing the page
sends is read before `StartReading`. `Attach` starts the control client and does
not wait for tmux to attach it, and the capture is another client, so from there
on any chunk may be `unsent`: put out before the client was attached, or while
tmux had paused the pane for it. The two look the same from outside, so `Output`
has one alternative for both. A grid is its number of rows; a message
from the page is an input, by its place in `typed`, or a resize. `FrameLen` is
what base64 and JSON make of a paste, against the socket library's limit of 32
KiB a message; `MaxInput` is the control client's own limit.

### SessionAccess

The access entry of one session, next to its record. The store's methods hold
a mutex and are operators (`SetOwner`, `AddMember`, `RemoveMember`, `Delete`);
the handlers that call them are split where they do something else in between:
`Create` (ownership) and `Launched` or `LaunchFails`; `RegisterSave` and
`RegisterOwn`; `ChangeCheck` (`manageable`) and `ChangeApply`, after the body is
read; `ListLive` and `Prune`; a request that copies the entry and scans the
member list. The copy shares the member array with the store. `cells` is that array
and `count` the length of the store's slice of it: `RemoveMember` filters in
place, under a scan that reads the array without the mutex, and `append` may or
may not move to a new array (both are tried). `made` and `granted` are what
owners and members were promised; `exposed` marks a promise the code's own
comment on the grace leaves open, `gone` how long the session has been missing.
Ages are in ticks and no handler takes as long as one (a tick stands for days).

### Proof modules

Each module of the system has a proof module that extends it:
`SessionRegistryProofs`, `CollabRelayProofs`, `TerminalHostsProofs`,
`WrapperTerminalProofs` (which also proves the refinement of `TerminalStream`),
`BrowserTerminalProofs` and `SessionAccessProofs`. In the last five, `IInv` is
the inductive invariant, a conjunction of named parts; there is a lemma per part
(or per part and group of actions) that a step keeps it, with a step of the
proof per action, and the theorems about `Spec` stand at the end.

## Runs

| run | module, cfg | shows |
|---|---|---|
| registry_safe | SessionRegistry, RegistrySafe | with a reachable and a flaky session under a cap of one: only killed sessions are stopped, the reachable one keeps its record, a quiet kill stays, its wrapper is never told the session is unknown, an ended record's clock is moved by kills only |
| registry_live | MCSessionRegistry, RegistryLive | a quiet killed session's wrapper stops, an ended record is pruned, a running session whose record was lost comes back |
| registry_kill_lost | SessionRegistry, RegistryKillLost | the one violation of "a kill sticks": see below |
| relay | MCCollabRelay, Relay | one host relays at a time and owns the map's entry; it never sends on a closed queue; generations of a room do not mix; what a connected host was told is what is in its room; a complete cleanup closes every member; a host that is gone, politely or not, frees its room |
| relay_dead_room | CollabRelay, RelayDeadRoom | a guest joins the room of a host that is over |
| terminal | TerminalHosts, Terminal | the working connection is the one found; closed hosts have no browsers; no channel is closed twice; a session that is refused, with nothing registered or past its check, gets no terminal while it is refused; browsers of a closed host are released; broken hosts are unregistered |
| terminal_killed | TerminalHosts, TerminalKilled | a terminal on offer after the kill was answered, while it is remembered |
| wrapper | WrapperTerminal, Wrapper | the stream implements TerminalStream; a connection leaves nothing behind; stop returns; a broken or overflowed connection is given up |
| wrapper_snapshot_late | WrapperTerminal, WrapperGap | a repaint that wipes out newer output |
| browser | BrowserTerminal, Browser | a page is told once that its terminal is over and nothing touches it after its close; output goes on where what was shown ends, but for what was dropped or not sent; input arrives in order; page and session agree on the grid, with the exceptions named below; a session's end is shown; a page that leaves frees the handler and the control client |
| access | SessionAccess, Access | owner and members keep their access through launches, suspensions, registrations and listings; a request's answer was true at some moment of it, or a removal ran beside it; an orphaned entry goes |
| access_downtime | SessionAccess, AccessDowntime | an entry dropped after a short downtime |

Bounds. Registry: two sessions are enough for the cap to matter and for one
session's traffic to race the other's listing; the TTLs are 2 to 3 ticks, so
that every threshold is reached and passed with heartbeats, kills and listings
on both sides of it; kills and faults (a timeout or a restart) so that a retry
meets the late effect of what it retries: in the liveness run two of each for
one session, for without a cap sessions do not affect each other. Relay: two
hosts are a host and its successor, two guests let one be left over from the
first while another joins the second, and let one be skipped in a cleanup; a
queue of one fills at once. A load is three connections, two hosts with a guest
or a host with two guests, and with two guests one binary frame instead of two.
Hosts and guests are interchangeable, so one of each is used first; unlike a
symmetry set this is sound for liveness. Terminal: two connections are a
wrapper and its reconnection; one browser suffices because browsers share
nothing but the host that closes them; a channel of one overflows at the second
frame, and frames, kills and restarts are as many as there may be. Wrapper: two
connections are one that fails and the next; three chunks fill a feed and a
send queue of one and leave one to be lost; one request is a snapshot or an
input that races all of them; the wrapper run reads over tmux, whose behaviours
include the pty's, and the violation is found on the pty. Browser: rows of 0
(hidden), 5 (the least the server accepts, from which the note takes the page
below it) and 30; a key, a paste over tmux's limit and one over the socket's;
two acts of the user, or three chunks of output, or one of each (a user who
acts much and a session that prints much are looked at apart); a queue of one.
Access: two users, so that a removal shifts a member the other request looks
for; a grace of two ticks, so that a downtime can be shorter; two handlers at
work at once, for every race here is between two. A bound on the number of
kills, faults, frames, outputs, connections, requests, acts or handlers is a
guard of the action that counts, or of the MC module's next-state relation.

Deadlock is checked in the registry and in SessionAccess, where time always
passes, and not in the others, where every connection may have come and gone.

Fairness. Handlers that have something to do run (goroutines are scheduled and
the operations in them are bounded by timeouts), the wrapper's ticker fires,
time passes, keepalives ping, and some dashboard page stays open and polls the
list, which is what prunes records. Nothing is assumed of users, peers and
faults: no fairness on kills, exits, connects, closes, timeouts or restarts. In
WrapperTerminal a dial, a write and a ping end (each has its timeout) and the
terminal takes its input; the last is an assumption on omp and tmux, for a
write to a pty has no timeout in the code and `stop` waits for it. In
BrowserTerminal the browser dispatches the socket's events, and the handler and
its read loop run; refits, users, the session and the network may do nothing
at all. In SessionAccess every handler that has begun returns, a page polls the
list, and time passes: `Tick` is strongly fair, because it waits for a moment
without a handler at work, and such moments come again and again while no
handler takes as long as a tick.

## Disagreements met

- `killed.go:14` says a kill sticks. `handleRemotePane` loads the record, reads
  the body, and saves the record back (`remote.go:138-161`). A kill in between
  is overwritten, and the heartbeats that follow find a live record and are
  answered `stop:false` (run registry_kill_lost). `QuietStaysQuiet` is what
  does hold: once no request let in before the kill is left in the dashboard,
  the kill stays for as long as it is remembered.
- `relay.go:27` says the guests of a host that disconnects are told and closed.
  A guest between its look-up of the room and its joining it is missed, and
  stays connected to a room nobody will close (run relay_dead_room).
  `CleanupClosesMembers` is what does hold.
- `termhost.go:210` says a wrapper must not advertise a terminal for a session
  that is over. The check is made before the upgrade and the hello, the
  registration after them, so that a terminal may be on offer after the kill
  was answered and while it is remembered (run terminal_killed).
  `TerminalStaysShut` is what does hold: nothing gets in while the session is
  refused, once nothing is registered or past the check. It says nothing of a
  kill that is forgotten (after ten minutes, at a restart, or at once without a room
  id) next to a record that a late heartbeat saved as live: that wrapper offers its
  terminal again.
- `termhost.go:271` (wrapper) says a snapshot clears the screen and paints the
  terminal's, and `termhost.go:54` that a gap corrupts the screen. The snapshot
  is taken on one goroutine and queued beside another that queues live output:
  output newer than the snapshot but queued before it is wiped out, and nothing
  repaints it (run wrapper_snapshot_late). `StreamsAsPromised` is what does
  hold. It also allows for a loss the comment at `termhost.go:458` rules out:
  the fan-out's channel may fill while the send queue has room, if the pump is
  not scheduled for long enough, and the connection stays up. Over tmux it allows
  for more: output put out after a snapshot and before tmux has attached the
  client is in neither.
- `users.go:14-20` says the grace must outlast any downtime a session can return
  from. `Prune` compares it with `AddedAt`, which is set when the entry appears
  and never again: the age of the session instead of the length of its absence.
  A session older than thirty days whose laptop is closed for longer than the
  record lives loses its owner and members at the next listing (run
  access_downtime). `LastingAccess` is what does hold.

Smaller ones, without a run: `tmuxctl.go:337` says output lost while a pane is
paused is repaired because the caller snapshots again, and `handleTerminalWS`
snapshots once, the wrapper when a browser comes; `tmuxctl.go:214` says
`Attach` begins streaming, and it returns before tmux has attached the client;
`tmuxctl.go:331` says the loop stops on a change of session too, and it stops
on `%exit` only; `create.go:148` says a failed launch leaves an orphan for
`Prune`, and the handler drops it at once; `access.go:78` says `Key` leaves an
opaque sub alone, and it lowercases it; `access.go:111` says the store is safe
for concurrent use, and the member array of the lists it hands out is rewritten
by `RemoveMember` while they are read, so that a request of a member who stays
may be turned away (`AnswerIsCurrent` names the exception).

The two grids of a terminal can differ for good in two ways the code does not
rule out, both named in `GridsAgree`: a resize sent before `hello` was read is
applied by the server after it reported its own size, and the page then adopts
the older one; and a page of fewer rows than the server accepts keeps its own.

## Proofs

Every invariant and every action property that a run finds to hold is a theorem
too, and so is the one refinement. The run shows it on a small instance with the
interesting cases in it; the theorem says it of every number of sessions, hosts,
guests, browsers or users, every size of the queues and every bound on what the
environment does. The constants are only assumed to be what the modules' own
`ASSUME` says: bounds are naturals, a queue has room for at least one, kinds of
connections do not overlap, the sessions are finitely many. The bounds on the
environment (kills, frames, chunks, acts) are constants like the others, so
the theorems hold for any of them. What follows says of each module what had to
be added to make the properties inductive, and why. The inductive invariants of
WrapperTerminal and SessionAccess were also checked by TLC on the bounds of
their runs; those of CollabRelay and BrowserTerminal quantify over all numbers,
which TLC cannot enumerate.

**SessionRegistryProofs.** For every set of sessions, every subset of healthy
ones and every value of the limits (a TTL of at least two ticks):

- `SpecTypeOK`: the type invariant, which every other proof uses;
- `SpecStopOnlyAfterKill`: the inductive invariant adds `KillTraces`: whatever
  could make a heartbeat answer stop (a remembered kill, an ended record, a
  kill being carried out) belongs to a session in `wasKilled`;
- `SpecQuietStaysQuiet`, `SpecQuietWrapperNotForgotten` and
  `SpecEndedClockOnlyMovedByKill`: action properties, from the type invariant,
  one step per action;
- `SpecHealthyStaysListed`: the inductive invariant says for a healthy,
  unkilled session with a running wrapper that its record is `starting`, that
  its age is at most one tick and zero or one according to whether it has
  beaten since the last, hence that no listing finds it stale, and that no
  request of its own that could end it is on its way. This is where the TTL of
  at least two ticks is used.

**CollabRelayProofs.** `RoomIsItsHost`, `GenerationsIsolated` and the type
invariant are parts of `IInv`; the other three follow from it.

- `SpecMembersCanBeSent` needs where a member of a room can be (`Rooms`: between
  its join and its leaving, or stuck in a panicked announcement) and that only
  a handler that is over has closed its queue (`QueuesShut`).
- `SpecCleanupClosesMembers` needs what a cleanup still owes (`Cleanup`): a guest
  that has joined is in the room's set, on the list of the host that is closing
  it, or ended.
- `SpecRosterAgrees` needs what the host was told of a guest at each of the
  guest's steps (`Roster`): nothing before it is announced, once joined until it
  parts, data only between the two. It also needs that a guest waiting on a full
  queue is in its read loop or past its last word (`Blocking`), or the host
  could be told something later than the guest's phase says.

The lemma `EnqueueEffect` is what all of them know of `enqueue`: the queues with
room grow by one frame at the end, the full ones are waited for, no other
changes.

**TerminalHostsProofs.** `ServingHostIsFound` is not inductive: when a host
begins to serve, somebody must already have been found for it. `Replaced` says
the same from the moment the host is in the map. `NeverClosedTwice` follows from
`Channels`: a channel held by a host, or by a close that is under way, belongs to a
browser that attached to that host, so no two can hold it.
`SpecTerminalStaysShut` is an action property, one step per action.

**WrapperTerminalProofs.** For both sources (pty and tmux).

- `SpecNoLeftovers` is about the phases after a connection; `Held` says of every
  phase what may be held in it, and that a goroutine that outlives its source
  finds its socket closed.
- `SpecStreamsAsPromised`: the initial states map to initial states of
  TerminalStream, and every step is one of its steps or leaves its variables
  alone. Four facts about the queues make this work. `Ordered`: the chunks on the
  send queue and then those on the feed go up, and none was shown yet, so
  writing a chunk is the promise's next one. `Gapless`: on an open connection that is
  not being given up, whatever lies between the last chunk shown and one that
  is queued is queued itself or lost by the source, so the promise's condition on
  a gap is met; on one that is being given up the promise allows it. `Spaced`: a
  chunk on the feed, and one shown or on the send queue, is as far behind
  `delivered` as there are chunks on the feed behind it, so a full feed is a
  backlog of that many, as the promise asks of a loss off the pty. `Painted`: a
  snapshot, held by the read loop or queued, is no older than the start of the
  source (or blank, over tmux). Held is used for the steps on a connection whose source is
  gone. The theorem says what is promised and no more: a repaint may wipe out newer
  output, as wrapper_snapshot_late shows.

**BrowserTerminalProofs.** `IInv` follows one message in three directions.

- Output: `OutputPlaced` says where it can be at each step of the handler,
  `OutputGrows` that the chunks' numbers go up from the page over the connection
  to the control client's channel, with the snapshot first, `OutputWhole` that a
  number missing from the three was dropped or not sent. What is left in the channel of a
  stream that was cut never reaches the page, so the last two speak of it only
  while the stream is live. `SpecOutputContinues` follows: what the page shows is in
  order, and a gap in it is what was dropped or not sent, nothing that was queued.
  It does not say that a page starts with the snapshot (a capture may fail) nor
  that none is missing after it.
- Input: `InputGrows` and `InputWhole` say the same of keys. The hard case is
  an input lost with its connection: nothing typed later may arrive, so what is
  lost lies behind everything entered or in flight.
- Grids: the last resize in flight carries the page's rows; if there is none the
  client's grid has them; before hello was read, hello carries the client's.
  `SpecGridsAgree` is the case without one in flight.
- `SpecOneClosingLine` needs `PageShut` (a closing line goes with the socket, and a
  page without one reads nothing more), and `SpecDisposedIsLeftAlone` that a
  closed page has no socket and no timer.

**SessionAccessProofs.** `LastingAccess` needs `Exposure`: an entry as old as
the grace whose session is missing, or was when the listing under way looked,
is already exposed, so `Prune` never takes an entry that is not.
`AnswerIsCurrent` needs `Scan`: while a request reads the array, a user found
in it was in while the request ran, and a user who was never out, with nobody
removed, is still ahead of the scan. What `RemoveMember` leaves in the array is
a loop over the list, `Keep`, a recursive function. The library's induction
rules cannot be used (they take a predicate), so an index for which the claim
fails is taken to be the least (`LeastNat`, from the well-foundedness of the
naturals), and the step before it gives the contradiction (lemmas `KeptExists`,
`KeptStep`, `KeepFacts`).

Only model-checked: liveness (`KilledWrapperStops`, `EndedIsPruned`,
`RunningIsReannounced`, `GoneHostFreesRoom`, `ViewerOfClosedHostReleased`,
`BrokenHostIsUnregistered`, `StopReturns`, `BrokenIsGivenUp`, `SessionEndIsShown`,
`LeavingFreesClient`, `OrphanIsPruned`), for the prover has no rule for fairness
and none for ENABLED; and the five disagreements, which are counterexamples.

## Not modelled

Formatting, HTML and JSON, the link and QR strings, flag parsing, the content
of relayed frames and terminal bytes. The WebSocket library is taken as: a
closed or broken connection makes reads and writes fail, a half-open one makes
neither fail until a ping does. In SessionRegistry a request either reaches the
dashboard once or not at all: the wrapper never repeats one by itself. Errors of
the file system are not modelled, nor what a store that could not save loses in
a restart.

Parts left out, and why:

- the peer-to-peer terminal: a second transport for the stream WrapperTerminal
  models; what is its own is the ticket handshake with a sidecar, whose
  connections live in a library. Its hazards (the end of the terminal racing
  the frames queued for a peer, a read-only peer's snapshot request cut off
  with its other bytes, a sidecar torn down while its reader waits) are met by
  no property here;
- the control-mode parser: reply blocks and pane content that looks like one
  are a matter of tmux's escaping. When tmux attaches a client and when it pauses
  a pane would need a model of tmux's own queues: here it may not send a chunk
  whenever it likes (`unsent`, `lost`), and the command that resumes a paused pane
  is left out;
- half-open connections of a browser or, on the dashboard's side, of a wrapper: the
  handlers there never ping, so only a day's limit, the peer's own ping or a
  reconnection ends them;
- BrowserTerminal over `serveRemoteTerminal`: the remote page's stream is the
  browser of TerminalHosts, at the level of channels;
- the user directory, the store's file, API keys and logins: small tables under
  one mutex, and token checks that are a library's;
- local records (liveness by pid), the session cap (a count without a lock,
  exceeded by as many registrations as are in flight), starting the processes;
- attach (one copy loop each way), the failure limiter, pages, packaging.

In the relay, two orders are left to the writer goroutine and no promise is
stated about them: a close may overtake the queued notice of it, and peer ids
wrap after four thousand million joins.

## Plan

The safety and action properties of the runs and the refinement are proved. What
could be proved beyond them are the state facts the liveness arguments rest on,
each a safety property of its own: that a wrapper waiting in `joining` has its
context cancelled and its socket closed, that a connection which overflowed is on
its way to being dropped, that a host whose queue is shut is out of the map, that
a handler of a page that left has its stream cancelled. The steps from
there to "eventually" stay with TLC.
