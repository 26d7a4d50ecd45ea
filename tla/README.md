# RemoteMaster: a verification development

RemoteMaster lets a support agent see and control the machine of somebody who
asked for help.  A Windows program (`client/`) registers with a relay server
(`server/`) and shows a six-digit code; the agent opens a page of the server
(`server/agent/`), types the code, and after the helped person has said Yes the
server passes frames, input and clipboard texts between the two.

This directory holds TLA+ models of the parts of that system in which the order
of events matters, the TLC configurations that check them on small instances,
and proofs, checked by TLAPS, that hold for instances of every size.
`PROJECT.json` maps each definition to the lines it models and lists the runs,
the mutants that show that each property can fail, the findings, the hazards and
the theorems.

    tlc -workers 2 -config RelayServer.cfg RelayServerMC.tla
    tlapm RelayServerProofs.tla

"Client" below is the helped person's program, "agent" or "page" the supporter's
end.

## The system

| Part | State it keeps | Operations | Talks to |
| --- | --- | --- | --- |
| Session registry, `server/session` | `Store.sessions` under a mutex; per session both connections, two times, the `joined` channel, `probeMu` | Create, Join, Remove, Counts, ProbePending, WaitPendingProbe, expireLoop | called by the handlers and by its own sweeper |
| Handlers, `server/main.go` | the program counter of a goroutine per connection | clientHandler, agentHandler, the consent handshake, monitorPendingClient | registry, limiter, bridge, audit log, both peers |
| Limiter, `server/main.go` | a count, a window and a block per address | Blocked, Fail, cleanupLoop | agentHandler |
| Bridge, `server/relay` | two pumps, one shared context | Bridge, pump | both connections; frees the code at the end |
| Audit log, `server/audit` | a file or stream under a mutex | Log | called by the handlers after what they did |
| Client life cycle, `client/relay` | the connection, `agentCh`, `inputCh`, `readErrCh`, `controlActive` | Run, connect, readPump, injectLoop, requestConsent | server, window, injector |
| Window, `client/ui`, `client/main.go` | code, status and indicator; the window: painted, topmost, minimised | Run, SetCode, SetStatus, SetControlActive, RequestConsent, wndProc | the user; every goroutine of the client |
| Elevation watch, `elevation_windows.go` | what it warned of last | watchElevatedFocus | the window's status line |
| Injector, `client/input` | what is pressed on the machine | Inject | Windows |
| Page input, `control.js` | `heldVKs`, the focus, `controlEnabled`, the pending move | key and mouse listeners, flushMove, releaseHeldKeys | socket |
| Clipboard sync, `client.go`, `viewer.js` | `lastClip` and `clipPrimed`; `lastClipboard` | clipboardLoop, applyRemoteClipboard; pollClipboard, receiveClipboard | each other, two clipboards |
| Screen capture, `client/capture` | a set of GDI objects, the bitmap and its size | Capture, ensure, refreshDimensions, release, Close | Windows |
| Capture loop and encoder, `client/relay` | `lastHash`, `prev`, `lastFull`, quality | captureLoop, Encode, IdleTick, adapt, diffBounds | capturer, socket |
| Page frames, `viewer.js` | the queue, the decoder, the canvas, the status line, `dead` | enqueueImageFrame, enqueueRegionFrame, decodeNextImageFrame, onclose | socket, decoder |
| Configuration, landing page, downloads, metrics, build | read once, stateless, or output only | | |

What is hard here: goroutines on both sides of one connection (a ping against a
handshake, two pumps, a reader against an injector); peers that vanish without
a word at every step; two 30-second limits on the same question; a prompt that
outlives the connection that asked for it; a ticker that loses ticks while its
loop closes connections; clipboard reads that are compared later than they were
made; frames that are differences against what the other end is believed to show;
a window that four goroutines write to and one paints; Windows calls, each of
which may fail, between which the display changes.

What makes each part correct:

- registry and handlers: a code is used once; a live connection is not forgotten;
  nothing is relayed without the approval of the user of that very session; a
  handler leaves nothing behind; every wait ends; no session outlives its time;
- audit log: what it says of a session is so;
- limiter: forgetting entries is invisible, blocks last and are earned;
- bridge: a lossless channel each way, ended and torn down in order;
- client and page: control only with consent and in sight, nothing stuck on the
  machine, an end that is noticed, events that land where they were aimed and
  arrive as what they were;
- window: in sight while the program is controlled, showing what was written last;
- clipboard: both ends agree, nothing older than the session is sent, echoes end;
- frames: differences apply to what they were made against, losses are repaired,
  the region sent is exactly what differs, nothing leaks, the quality comes back
  when the machine has time for it.

Not all of this holds: see the findings and what follows them.

## The modules

| Module | Models | Builds on |
| --- | --- | --- |
| `SessionStore` | the registry, one action per critical section | |
| `SessionExpiry` | the registry with times, the ticker and the sweep | implements `SessionStore` |
| `SessionLinks` | what a session promises both of its ends (abstract) | |
| `RelayServer` | handlers, monitor, bridge as one step, sweeper, peers | EXTENDS `SessionStore`, implements `SessionLinks` |
| `RelayServerMC` | clients and codes that are alike, for TLC | EXTENDS `RelayServer` |
| `AuditTrail` | the server with the records its handlers write | EXTENDS `RelayServer` |
| `JoinLimiter` | the limiter and its caller | |
| `JoinLimiterHistory` | the same with two history variables, and the properties | EXTENDS `JoinLimiter` |
| `ServerClockMC` | the limiter and the registry with times, for TLC | EXTENDS `JoinLimiterHistory`, `SessionExpiry` |
| `DuplexChannel` | what the bridge promises its ends (abstract) | |
| `RelayBridge` | the two pumps, part by part, and the teardown | implements `DuplexChannel` |
| `ClientSession` | the client's goroutines, the prompt, the indicator | |
| `ControlPage` | the page's keyboard and mouse | |
| `RemoteControl` | both, with as much of the server as they can tell apart | EXTENDS `ClientSession`, `ControlPage`; implements `SessionLinks` |
| `InputPath` | coordinates, bytes, keys and the calls of SendInput | |
| `StatusWindow` | the client's window and the goroutines that write to it | |
| `HelpedMachineMC` | the input and the window, for TLC | EXTENDS `InputPath`, `StatusWindow` |
| `ClipboardSync`, `ClipboardSyncMC` | the clipboard sync of both ends; constants for TLC | |
| `FrameEncoder` | captureLoop and the encoder: what reaches the page | |
| `FrameViewer` | the page's queue, decoder, canvas and status line | |
| `ScreenStream` | both, and the channel between them | EXTENDS `FrameEncoder`, `FrameViewer` |
| `ScreenCapture` | the capturer's GDI objects and buffers | |
| `DirtyRegion` | the scan of diffBounds and the strips | |
| `AdaptiveQuality` | adapt | |
| `CaptureLoop` | captureLoop driving these three, and the timers of full frames | EXTENDS `ScreenCapture`, `DirtyRegion`, `AdaptiveQuality` |
| `RelayServerProofs` | theorems of the handlers, the links and the log | EXTENDS `AuditTrail` |
| `ServerClockProofs` | theorems of the limiter and of the lifetimes | EXTENDS `JoinLimiterHistory`, `SessionExpiry` |
| `RelayBridgeProofs`, `RemoteControlProofs`, `ClipboardSyncProofs`, `ScreenStreamProofs`, `CaptureLoopProofs` | theorems | EXTENDS the module they are named after |
| `HelpedMachineProofs` | theorems of the input and the window | EXTENDS `InputPath`, `StatusWindow` |

A definition whose comment begins with "Slip:" is the code with a plausible bug;
the specification does not use it.  `PROJECT.json` names the definition it stands
in for, and the property that is violated then.

### The server: SessionStore, SessionExpiry, SessionLinks, RelayServer

A client connection gets one `Session`, so a session is named by its client.
`sessions` is the map, `code` and `agent` are the fields of the sessions, and a
session is joined when `agent` is set (`JoinedAt`, `AgentConn` and `joined` are
set together, under the lock).  `overdue` stands for the clock: the registered
sessions that are past their TTL.

`clientPC[c]` follows clientHandler and then monitorPendingClient: `registering`
before "registered" is written (an agent can already join), `waiting` in the
select, `ticked` before and `probing` inside the critical section of `probeMu`,
`lost` and `removed` between a failed ping, the removal of the code and the
closing.  `agentPC[a]` follows agentHandler: `joined`, `await_probe`, `notify`,
`consent`, `granted` or `denied`, `bridge`, `bridge_over`, `freeing`, and
`hangup` after a failure.  Each write is two actions, one that succeeds while the
connection is open and one that fails when the peer is `gone` or the connection
closed; a write to a peer that is gone may do either, as TCP allows.  `approved`
and `relayed` only record what happened.

A code that is free again may be drawn again.  A handler that ends late can then
remove another client's session, because `Store.Remove` takes a code and not a
session: run `code_reuse` shows it, and OnlyStaleRemovalsOrphan says that a live
client is forgotten in no other way.  (A handler with a removal still to come and a
sweep before it are all it takes; that the draw hits the code has a chance of one in
900000, which a model does not weigh.)

A ping of a live client may succeed or fail.  nhooyr.io/websocket delivers a
pong through a concurrent read of the connection, and the server reads a pending
client's connection nowhere (`main.go:373`); whether pings can succeed at all is
therefore decided outside this repository, and no property relies on it.

`SessionExpiry` puts the times in: `createdAt` and `joinedAt`, the ticker with
its channel of one tick, and the loop that is not at the ticker while it closes
connections (`busy`).  Its refinement mapping computes `overdue` from the clock, so
that the registry `RelayServer` works with is the one with times.

`SessionLinks` is the seam between the two halves of the project.  A connection
goes from `none` to `pending`, `asked`, `bridge` and `over`, and only a grant of its
own user opens the bridge.  `RelayServer` implements it with the stage of a
connection computed from its `conn` and the program counter of the agent that
joined it; `RemoteControl`, which has the server only as one program sees it,
implements the same module with one connection per session of the program.

`AuditTrail` gives every handler a record that is `due` after the steps that are
followed by a call of `audit.Log`; the handler does nothing else until it is
written, and the log's mutex makes one sequence, `trail`, of all.

### The limiter: JoinLimiter, JoinLimiterHistory

`Admit` is `Blocked` returning false, `FailedJoin` the later call of `Fail`; any
number of requests (`MaxInFlight`) may be between the two.  `Fail` is modelled
decision by decision on an entry, with Go's zero `time.Time` as 0.  The history
variable `uncleaned` is the map as it would be if cleanupLoop never ran, and
`recorded` has, newest first, the times of the last `2 * Limit + 2` failures that
counted, as far as they are no more than one window old.

### The bridge: DuplexChannel, RelayBridge

A message is a number of parts of 32 KiB; `Limit` is `MaxMessageBytes`.  A pump
is `reading`, `copying`, `finishing` or `over`.  A copy that fails in the middle
is followed by `w.Close()`, which ends the message as if it were complete; so
`DuplexChannel` allows a direction to end with one message cut short.  The mapping
takes `sent` and `got` as they are and `live` from the pump.

A peer can be lost in two ways.  One that is `gone` has its reads and writes fail,
sooner or later.  One that is `stalled` keeps its connection and reads nothing more:
a write to it blocks (`TakesWrites`), since the pump sets no deadline, until the other
pump cancels the context or the peer is gone.

### Remote control: ClientSession, ControlPage, RemoteControl, InputPath

`pc` follows Run and connect; `reading` and `injecting` are the other two
goroutines.  A prompt belongs to a connection and stays in `dialogs` when the
connect call that wanted it has returned.  `down` is what was injected as
pressed, `pressed` what the agent holds down for the machine to see.
`link` is all the client sees of the server: `pending`, `asked`, `bridge`, `over`.
`leftover` is what an earlier session left down.  What will be down when all that is
under way has been injected (`Outcome`) is stated key by key: the last message about
a key decides, and if there is none it stays as it is.

`InputPath` has what an event is on its way.  The page turns the mouse's pixel
into a pixel of the last frame (`getCanvasPos`), keeps the latest move for the next
animation frame, and writes bytes; `decodeEvent` reads them as signed or unsigned
words; `CallsOf` is the list of SendInput calls Inject makes, the cursor first,
each of which may fail and end the event (`CallFails`); a call for a key carries the
extended flag and that of a release.  `VK` has the keys of the page's table that have
a twin on the numeric pad or on the other side: all that share a number with it, and
pairs of every kind that do not.  `Absolute` is
scaleToAbsolute with the display's size at the time of the call.  How Windows maps
an absolute position to a pixel (`Pixel`) is external.  TLC gets
sizes in the tens and positions at the corners; halves of a pixel, where a centred
canvas begins, are exact.  The assumptions are those of the formats: a display of
less than 2^16 pixels each way, and turns of the wheel whose lines fit 16 bits.

### The window: StatusWindow

`content` is the three globals the window paints, `shown` what it painted last.
Every writer is an action of the goroutine that calls it, so a code, a status, a
notice of the elevation watch and a change of the indicator interleave freely with
painting and with the two halves of a minimise command (the check in wndProc, and
DefWindowProc).  What is painted is not all that was written: under control the line
below the code is the indicator's (`Displayed`).  The window does not exist until
`Opens`; Run has started by then.

### Clipboard: ClipboardSync

Reading a clipboard (`polled`, `reading`), comparing, recording (`applying`,
`writing`) and installing are separate steps, as they are in the code.  `Canon` is
what the client reads back of a text once it has gone through CRLF.  `own`,
`arrived` and `crossed` are history.

### Frames: FrameEncoder, FrameViewer, ScreenStream, CaptureLoop

In `ScreenStream` an image is a size and a colour per cell, the hash is of the
colours only, as in the code.  `prev`, `lastHash`, `encSize` and `age` are
captureLoop's and the encoder's, `queue`, `decoding`, `discard`, `canvas`, `dead`
and `status` the page's.  `MaxQueue` stands for 120.  `AddsUp` says of a sequence of frames
that drawing them on the canvas gives an image: of every cell, the last frame that
covers it has the image's colour.

`CaptureLoop` is the same loop seen from the other side: what a tick does to the
capturer, to the scan and to the quality.  `ScreenCapture` has one action per call
of Windows that can fail; `held` is what is in the fields and `alive` what Windows
has given out, so that a leak is a difference of the two.  `DirtyRegion` runs the
scan of diffBounds row by row on any set of changed pixels.  `AdaptiveQuality` sees
an encode as slow, fast or between, as `adapt` does; any encode, of whatever size,
may be any of the three.  `age` is the time since the last full frame, which `fresh`,
`due` (10 s: an idle tick refreshes) and `overdue` (30 s: a frame that has changed is
sent whole) tell apart; that time passes is fair.  What is sent is left to
`ScreenStream`, what is on the screen to `FrameEncoder`.

## The runs

| Run | Bounds | Checked | Shows |
| --- | --- | --- | --- |
| `server_clock` | limiter: 2 requesters, limit 2, window 2, block 3, clock to 8, 2 requests in flight each; registry: 2 sessions, TTL 2 and 4, sweep every 2, closing up to 3, time to 11 | EvictionInvisible, BurstBound, BlockLasts, BlockEarned, LifetimeIsBounded, IsStore | three sweeps of the limiter, two blocks in a row and requests on both sides of each edge; late sweeps of the registry and lost ticks, and the refinement of `SessionStore` |
| `relay_server` | 2 clients, 1 agent, 2 codes, both symmetric | ApprovedBeforeRelay, ProbeExcludesRelay, OnlyStaleRemovalsOrphan, DoneMeansClean, IsLinks | safety of the handlers with every failure and with codes drawn again, and the refinement of `SessionLinks` |
| `relay_server_live` | `AuditTrail`: 1 client, 2 agents, 1 code | OneAgentPerSession, GrantsAreOnRecord, GoneClientIsReaped, LostSessionEnds, ConsentIsResolved | a race for a code, that every wait ends, and that the log is true |
| `bridge` | 2 messages each way, of 1 or 2 parts, limit 1 | ClosedInOrder, IsChannel, BridgeIsFreedOrStuck, AllDelivered | the refinement of `DuplexChannel`, with messages at and over the limit, and peers that vanish or stall at any moment |
| `remote_control` | 2 sessions, modifier, shortcut key and button, queue of 1, 2 messages under way, 3 acts | ControlIsConsented, InjectedInSight, IsLinks, RemoteFollowsPage, EndIsNoticed, QuitEndsAll | a late answer to an old prompt, an overflow, a loss of focus |
| `helped_machine` | input: viewport 4 by 2, displays 12 by 8 and 4 by 2, 2 corners, 1 button, a key and its twin and Equal of the pad, 2 turns of the wheel, 1 message on the way, 1 failed call; window: 2 codes, 2 sessions, 2 switches of the focus | LandsWhereAimed, CursorFollows, ArrivesAsMeant, ControlStaysInSight, WritesArePainted | scaling down and not at all, a canvas that begins within a pixel, a display that changes under an event; a start in any order, late notices, minimise commands before, between and during control |
| `clipboard` | 2 sessions, 2 copies, 4 texts | AgreeUnlessCrossed, PrimingKeepsOldText | the sync where it works |
| `screen` | 2 cells, 2 colours, 2 sizes, 2 changes, 1 fault, overflow at the third region | OnlyLossesDiverge, PageCatchesUp | differences stay consistent, losses are repaired |
| `capture_loop` | 2 by 4 pixels, every pattern, up to 3 strips, 2 sizes, 1 change, 2 faults, cap 38 over floor 30 | NothingLeaks, BoxIsExact, StripsTile, CaptureRecovers, QualityRecovers | every call of Windows failing once or twice between any two others, regions of every shape, and a quality that falls and rises |

These expect a violation, and are the findings below:

| Run | Bounds | Property |
| --- | --- | --- |
| `code_reuse` | 2 clients, 1 agent, 1 code | LiveSessionIsTracked |
| `late_minimise` | 1 code, 1 session | ControlInSight |
| `clipboard_echo` | 1 session, 1 copy, 2 texts | EchoesDieOut |

`ServerClockMC` and `HelpedMachineMC` put two modules into one run that have no state
in common and do not call each other.  `part` says which of them moves: with both
moving every state of one would be paired with every state of the other, and neither
would show anything new.

The type invariants are defined in the modules and are proved, not run.
Deadlock is checked in the runs `relay_server` and `relay_server_live`, where `Quiet` is the
one state in which nothing is left to do, and in `capture_loop`, which never
stops; the other systems stop at their bounds or when a session is over.

Why the bounds are enough.  Every interaction the properties speak of is between
two sessions, two requests, two messages or two texts: one that is ending and
one that is beginning, one that is recorded and one that is read.  Two of each,
and for counters a limit that is exceeded by one, make every guard and every
error path fire (each action of each run is taken).  Every safety property in the
table is proved for all sizes in addition, so there TLC is a check of the models and
of the mutants rather than the evidence.  The bounds are constants
named `Max...`, `QueueCap` and `Limit`; `MaxChanges`, `MaxFaults`, `MaxCopies`,
`MaxActs`, `MaxSwitches` and `MaxSessions` bound what the environment does and
appear only in its guards, `MaxWire`, `MaxWay`, `MaxReads` and `MaxSent` the
channels; `MaxTime` and `MaxClock` end a clock.  In `server_clock` closing may take
longer (`MaxClose` 3) than the interval (2), so that ticks are lost.

## Fairness

- `RelayServer`: goroutines run, the ticker fires, a ping and a consent wait have
  deadlines (`main.go:329, 371`), and reads and writes return.  For a peer that is
  gone that is the TCP keep-alive of `net/http`'s listener; a peer that is alive is
  supposed to read what it is sent, because writes have no deadline.  `RelayBridge`
  has peers that do not.  Peers, users and the clock owe nothing else; a write may
  fail rather than succeed only if the peer is gone.
- `AuditTrail`: the same, and a call of `Log` returns.
- `RelayBridge`: a pump and Bridge go on when they can, which a pump cannot while it
  writes to a peer that does not read.  The peers owe nothing, neither to send nor to
  read.
- `RemoteControl`: connect and readPump go on, and injectLoop eventually takes
  the cancelled context (Go's select chooses at random).  A prompt times out
  (`consent.go:30`).  The user, the agent and the server owe nothing.
- `StatusWindow`: the window's thread runs (it starts, paints, and finishes a
  minimise command), and so do the end of connect and Run's callback.
- `ClipboardSync`: both polls and both readers go on; users copy or do not.  Only
  `clipboard_echo` uses it.
- `ScreenStream`: the ticker, the clock, the channel and the decoder go on; the
  screen need not change and the session need not end.
- `CaptureLoop`: the ticker goes on as long as the session lasts, and so does time,
  so that full frames are sent again and again.  Calls of Windows fail a bounded
  number of times (`MaxFaults`).  QualityRecovers supposes that from some moment on
  no encode, whole frames included, takes 40% of a frame's time: no lesser load
  makes the code raise the quality.
- `SessionExpiry` states none: a sweep that can run does so before the clock moves
  on, and closing takes at most `MaxClose`; both are guards of `Clock`.

## What is proved

| Theorem | States | Assumes |
| --- | --- | --- |
| `RelayServerProofs!TypeCorrect` | TypeOK | StoreAssumption |
| `RelayServerProofs!CodesAreSingleUse` | OneAgentPerSession | the same |
| `RelayServerProofs!ProbesExcludeTheRelay` | ProbeExcludesRelay | the same |
| `RelayServerProofs!ApprovalGatesTheRelay` | ApprovedBeforeRelay | the same |
| `RelayServerProofs!EndsAreClean` | DoneMeansClean | the same |
| `RelayServerProofs!OrphansAreMistaken` | OnlyStaleRemovalsOrphan | the same |
| `RelayServerProofs!ServerKeepsLinks` | IsLinks of `RelayServer` | the same |
| `RelayServerProofs!LogTellsTheTruth` | GrantsAreOnRecord | the same |
| `RemoteControlProofs!ControlNeedsConsent` | ControlIsConsented | ClientAssumption, PageAssumption, RemoteAssumption |
| `RemoteControlProofs!InjectionIsInSight` | InjectedInSight | the same |
| `RemoteControlProofs!ControlKeepsLinks` | IsLinks of `RemoteControl` | the same |
| `RemoteControlProofs!TypeCorrect` | TypeOK | the same |
| `RemoteControlProofs!NothingGetsStuck` | RemoteFollowsPage | the same |
| `HelpedMachineProofs!AimIsTrue` | LandsWhereAimed | PathAssumption |
| `HelpedMachineProofs!CursorComesToMouse` | CursorFollows | the same |
| `HelpedMachineProofs!InputArrives` | ArrivesAsMeant | the same |
| `HelpedMachineProofs!ControlIsInSight` | ControlStaysInSight | WindowAssumption |
| `ScreenStreamProofs!TypeCorrect` | TypeOK | EncoderAssumption, ViewerAssumption |
| `ScreenStreamProofs!DiffsMatchPage` | OnlyLossesDiverge | the same |
| `ServerClockProofs!TypeCorrect` | TypeOK | ExpiryAssumption |
| `ServerClockProofs!SessionsEndInTime` | LifetimeIsBounded | the same |
| `ServerClockProofs!ImplementsStore` | IsStore | the same |
| `RelayBridgeProofs!TypeCorrect` | TypeOK | BridgeAssumption |
| `RelayBridgeProofs!TornDownInOrder` | ClosedInOrder | the same |
| `RelayBridgeProofs!BridgeIsChannel` | IsChannel | the same |
| `ServerClockProofs!LimiterTypeCorrect` | LimiterTypeOK | LimiterAssumption |
| `ServerClockProofs!SweepsAreInvisible` | EvictionInvisible | the same |
| `ServerClockProofs!BlocksLast` | BlockLasts | the same |
| `ServerClockProofs!BurstsAreBounded` | BurstBound (of a window no longer than a block) | the same |
| `ServerClockProofs!BlocksAreEarned` | BlockEarned | the same |
| `ClipboardSyncProofs!TypeCorrect` | TypeOK | ClipboardAssumption |
| `ClipboardSyncProofs!OldTextStays` | PrimingKeepsOldText | the same |
| `ClipboardSyncProofs!ClipboardsAgree` | AgreeUnlessCrossed | the same |
| `CaptureLoopProofs!CapturerHoldsAll` | NothingLeaks | CaptureAssumption |
| `CaptureLoopProofs!RegionsAreExact` | BoxIsExact | FrameAssumption |
| `CaptureLoopProofs!RegionsAreTiled` | StripsTile | the same |

The arguments:

- *Server.*  None of the properties is inductive.  `Linked` says that an agent
  past `idle` has a session whose `agent` field names it, which makes a session
  single-use and lets the proof speak of *the* agent of a session.
  ProbeExcludesRelay then follows from two facts that hold together: once a
  session is joined no new ping is begun on it, and `AwaitsProbe` waits out the
  one that was.  `Approval` carries the user's answer to the relay: an agent that
  is `granted`, in the bridge or ending it, and a reply `granted` on its way, stand
  for an `approved` of that very agent; that a prompt names the agent of its
  session is what makes the answer of one session useless in another.  `Tidy`
  says which states of a handler leave a code registered and which connections
  are still open in them; DoneMeansClean is its last case.  `Coded` says that a code
  in the map is that of the session it names.  A goroutine that removes the code of
  its own session while that is in the map therefore removes that session, and is
  about to close its connection; what OnlyStaleRemovalsOrphan adds is that every
  other step leaves the map's other sessions alone.
- *Links.*  The stage of a connection depends on its own `conn` and on the counter
  of its own agent, so a step of one agent moves one connection by one stage or
  none.  `Asking` adds that a prompt is up only while the agent it names reads the
  answer or has hung up, so that a grant falls in `asked` or `over`.
- *Audit log.*  `Trailed` says how far the log is from where each handler is: a record
  is `Written` when it is due or on record, a handler that has gone past a step has
  written of it, and what the user has said of an agent stays so (`ApprovedStays`),
  because nobody else can join the session.
- *Remote control.*  `Numbered` orders the sessions of the program, `Unanswered`
  says that those to come have no prompt and no answer, `Consented`
  carries the Yes of this connection's prompt through the states of connect,
  `InOrder` says that control, indicator and loops are on in this order, and `Heard`
  what each stage of the server stands for in the program: a bridge is open only on
  a Yes of its own prompt, which is what the refinement needs.
- *What gets stuck.*  `KeptInv` adds to this the types and three facts: the page's
  `heldVKs` covers the keys the agent holds (`Held`), so that a blur releases them all;
  before control is active nothing is queued or injected (`Fresh`), and so the machine
  is as the agent found it (`AsFound`).  `DownInTurn` is the lemma the rest hangs on:
  the effect of two sequences of messages is that of the second after that of the
  first.  An event that is queued, and one that is injected, then leave `Outcome` as it
  is; one that is dropped because control is not active yet can give back only what
  was `leftover`; and what the page sends presses nothing but what the agent holds then
  (`Follow`).
- *Input.*  LandsWhereAimed is about integer division: the page rounds to a pixel of
  the frame, the client to a position between 0 and 65535, and Windows back to a pixel,
  which is the same one or the one before as long as a display has less than 2^16
  pixels (`ThereAndBack`).  Two bytes give the word back (`TwoBytes`), and so whatever is
  asked of SendInput is `Asked` by the event that was sent.  `Aimed` says that unless a
  call has failed or the display has changed the cursor is where the last event puts it,
  `Follows` that the mouse is where the last event on the way says, or a pending move
  will, and `ButtonsFollow` that the last event about a button says how the agent holds
  it.
- *Keys.*  A key's number is in the table and less than 2^16, so its two bytes give it
  back (`KeysAreTold`); press and release are two types of message, two types of
  event and two flags (`KeysAreAsked`), and whoever reads number and flag finds the
  keys of `TakenFor` by cases over the table.
- *Window.*  `WindowInv`: the window exists from the prompt on, and while the program is
  controlled the flag that wndProc looks at is set, through all that other goroutines
  write (`WritesKeepActive`).  So no minimise command is let pass any more; none can be
  under way when control begins but one that was let pass after the prompt, which is
  the exception in the statement.
- *Expiry.*  `LoopInv` bounds the last tick and the last sweep by the clock; a
  registered session is `Tended`: the last sweep left none that had expired by then,
  one that had by the last tick finds the channel full, and if it had by the tick
  before, the loop has been closing connections ever since.
- *Bridge.*  `Counted` says that a pump begins no message that was not sent, `InStep` that
  it has let out all it began but the one at hand, and `Teardown` orders the end:
  both pumps, the client's connection, the agent's, the code.
- *Limiter.*  The entries with and without sweeps may differ only where the
  swept one is absent and the other is out of date in both respects, blocked no
  more and out of its window (`EvictionInv`); on such a pair the two verdicts and
  the two results of a failure are the same, now and later.  For BurstBound and
  BlockEarned, `Counts` ties the entry's counter to the history: the last `count`
  failures are those of the window, and those before it are older.  `Bounded` says how
  much can be recent: besides the failures of this window no more than `Limit`, since
  whoever had more in the window before was blocked beyond it, and one more than
  `Limit + 1` only in its last moment.
- *Clipboard.*  Unless the user has copied since the session began, the clipboard,
  every read under way, in the order they were begun, and the noted text are one
  and the same old text (`ClientKeeps`, `ViewerKeeps`); what is compared with it is
  then equal to it and not sent.  A text that arrives ends the
  claim at that end; `Bounded` says what is
  left over between sessions.  For AgreeUnlessCrossed, `InAccord` says that one end at
  a time has the newer text: it has noted what it sent last, and when all of it has
  arrived so has the other.
- *Frames.*  The numbers in AddsUp are a nuisance in a proof, so it is shown equal to
  `Yields`, which speaks of one aspect at a time; lemmas say what a frame added at the
  end, one drawn, and a sequence without regions do to it.  A region of an encoder in
  step covers all cells in which the new frame differs from the one before, so that
  what is under way adds up to the new one; a full frame covers everything; and
  discarding regions before a full frame that is queued changes nothing.
- *Capture.*  `Held`: an initialized capturer holds the whole set, made for its
  size, and Windows has given out nothing else.  For the region, a tick of the loop
  is a step of the scan, or starts another, or leaves it alone; the parts of a row
  the scan does not look at are inside the box already.  The strips are integer
  arithmetic: with `k` strips of height `ceil(h/k)`, the strip of row `r` is
  `(r - y0) div ceil(h/k)`, which is less than `k`.

Only model-checked: everything under fairness (TLAPS 1.4.5 has no ENABLED and so no
fairness), which is GoneClientIsReaped, LostSessionEnds, ConsentIsResolved,
BridgeIsFreedOrStuck, AllDelivered, EndIsNoticed, QuitEndsAll, WritesArePainted,
PageCatchesUp, CaptureRecovers and QualityRecovers, and the violations.  Each safety
property of a passing run is a theorem.

## Findings

Three runs expect a violation; `PROJECT.json` quotes the lines.

- `code_reuse`, a bug: the code of a session that was swept is given to another
  client, and the late `Remove` of the first one's goroutine deletes that client's
  session (`session.go:113`).  It is connected, shows a code nobody can join, and is
  out of the sweep's reach.
- `late_minimise`, a bug: wndProc looks at the flag, control begins, and the command it
  let pass minimises the window of a controlled machine (`window_windows.go:211`).
- `clipboard_echo`: `protocol.md:91` says that each side records the texts it installs
  to avoid echo loops.  It does, and echoes still need not end: after a single copy two
  polls that compare late can keep two texts going back and forth.

In four more places the code does not do what its documentation says.  No run claims
what it says there; the property named states what holds instead.

- A side is lost while the pump writes to the other, which is connected and reads
  nothing.  The write has no deadline (`relay.go:62-74`), so "closes both connections
  and frees the code" (`README.md:90-91`, `relay.go:26-27`) waits for the sweep at the
  end of the 8 hours.  BridgeIsFreedOrStuck.
- The warning that the focused program is elevated is written to a line that onPaint
  does not show under control, which is when the watch runs
  (`window_windows.go:317-327`); `usage.md:115-116`, `elevation_windows.go:22` and
  `client.go:58` say that the client's window shows it.  WritesArePainted.
- The refresh of a still screen is encoded at the quality that motion left, where
  `encoder.go:250-254` says the cap and `usage.md:106-107` that the picture sharpens as
  soon as motion stops.  Each later refresh is one step better, 10 s after the last, if
  it is fast; a slow one, and a whole frame often is, makes the next one worse.
  QualityRecovers.
- Enter of the numeric pad is injected as the other Enter, and Equal of the pad as the
  other Equal: `CODE_TO_VK` has one number for both (`control.js:34, 51, 54`), and the
  extended flag goes by the number.  `control.js:14-16` speaks of "the key the user
  actually pressed".  ArrivesAsMeant.

Seen while modelling, and not made into runs:

- A `readText` that is pending while a text arrives makes the page send what was on
  the agent's clipboard before the session (`viewer.js:140`, `protocol.md:89-91`).
  PrimingKeepsOldText states what holds apart from that.
- A region that could not be encoded is not encoded again by the next iteration,
  because `prev` already holds its pixels; it waits for the next full frame
  (`encoder.go:91`).  OnlyLossesDiverge counts it as a loss.
- A frame decoded across the end of the session sets the status to "Connected" and
  hides the message that the session is over (`viewer.js:63-70`).
- `adapt` raises the quality to the floor of 30 when the configured cap is below it
  (`encoder.go:172-176`).
- A bitmap that could not be selected is not noticed, and captures are black until
  the set is dropped for another reason (`capture_windows.go:204`).
- The page drops regions when 120 are queued (`viewer.js:184`), which
  `protocol.md:107` denies.
- Pending TTL and sweep interval are both 10 minutes: a code can be joined for up to
  20 (`session.go:15`).  A joined session can last an interval, or the closing of
  others, beyond its 8 hours.
- The limiter lets `2 * Limit + 1` failures pass in a span of one window (BurstBound
  says that it is never more).
- When "joined" or "agent_connected" cannot be written, the audit log has
  agent_joined and no event that ends the session (`main.go:276-295`).  So
  GrantsAreOnRecord speaks of sessions that were granted.
- `ui.Run` writes over a code that came before it (`window_windows.go:416-419`).
- Run's back-off is never reset, because connect never returns nil
  (`client.go:126`).
- `getCanvasPos` is -1 where a canvas begins within a pixel, and is sent as 65535
  (`control.js:74`); back and forward are sent as the left button; a turn of the wheel
  of less than half a line is none (`control.js:173`).
- Keys and buttons that are down when a session ends stay down.

## Not modelled

- Time as such: intervals appear as "has passed or not", except in the limiter and
  in `SessionExpiry`.
- Painting, DPI, fonts, the text of the prompt; the page's scaling of the canvas
  beyond its size, and the notice that overrides its status line.
- REMOTEMASTER_AUTO_CONSENT, which skips the prompt; the lengths of the back-off.
- The HTTP checks before the upgrade (origin, token, code format, client address):
  they decide whether a request is admitted or counts as a failure, which the models
  leave open.
- The fields of audit records, a log that cannot be written, and the metrics, which
  no decision reads; configuration, which is read once and is the CONSTANTS here; the
  landing page, the launch script, downloads, health, build and deployment.
- The bytes of WebP, and the pixels GDI copies: only that both may fail.
- The legacy `keyCode` of keys outside the page's table; the encoder of events in
  `proto.go`, which only tests use.

## Plan

Done: the server with its registry, clock, log and proofs; the limiter; the bridge
and its refinement; remote control and the seam to the server, on both sides; input,
window, clipboard, capture and frames, with a theorem for each safety property.  What
is left:

1. Safety lemmas that the liveness properties rest on, as theorems: that a state in
   which a wait is not over has a step that ends it, and that what has been reached is
   not undone (what EndIsNoticed and LostSessionEnds need besides fairness).
2. `ScreenStream` with the region cut by the scan of `DirtyRegion`, whose result is
   proved to be the smallest box, in place of the choice of the box.
3. REMOTEMASTER_AUTO_CONSENT as a constant of `ClientSession`, and the page's notice
   line in `FrameViewer`.
4. Stalled peers in `RelayServer`, where the handshake writes to them, and the sweep
   that ends a stalled bridge.
