# A verification development for mule

Mule tunnels TCP services over QUIC between one *exit server* and any number of
*agents*. This directory models the parts of mule that run concurrently or keep
state, checks them with TLC on small instances, and proves the most important
invariants with TLAPS for all instances.

## The system

| Part | State | Operations | Interacts with |
|---|---|---|---|
| Server connection handling (`internal/server`: `Run`, `register`, `unregister`, `closeConnections`, `handleAgent`, `handleProbeConnection`, `handleLegacyProbeConnection`) | `s.conns` (one connection per agent), the `probes` channel, the goroutines | accept, register, refuse, serve, unregister, shut down | QUIC, metrics, stream handlers |
| Server stream handling (`handleAgentStream`, `handleProbe`, `acceptReverse`, `handleReverseTCP`) | `dials` and `reverseConnections` channels | answer OPEN and PROBE, dial, open reverse streams | registry (`conn`), `Pipe` |
| Agent connection (`internal/agent`: `Run`, `maintainConnection`, `setConn`, `clearConn`, `closeConn`) | `a.conn`, the reconnect delay | dial, publish, wait, back off, close | server, metrics |
| Agent stream handling (`acceptForward`, `handleForwardTCP`, `getConn`, `handleReverseStream`) | forward semaphore | open forward streams, answer reverse ones | `a.conn`, `Pipe` |
| `transport.Pipe` | two copying goroutines | copy, half-close, close | one TCP connection, one QUIC stream |
| `internal/protocol` | none | `WriteFrame`, `ReadFrame` | every stream's first bytes |
| `internal/metrics` | gauge, per-agent flag, counters | updated by all of the above, read by `/status` | HTTP |
| `internal/auth` | secret files | `GenerateSecretFile`, `LoadSecretFile`; keys, certificates and TLS configurations derived from a secret | QUIC handshake |
| `cmd/mule`: `runProbe` | none | one probe, under the probe name or, if that fails, under the agent's | server |
| `cmd/mule`: `runWithMetrics` | two contexts, the channel of results | start both goroutines, wait for a result, a signal or the shutdown timeout | `Run` of agent or server, `metrics.Serve` |
| `cmd/mule`: `runServer`, `runAgent`; `LoadConfig`, `ApplyDefaults`, `ValidateConfig`; `internal/config` | the configuration | flags or a file to a configuration, or a refusal | start-up |
| logging, help texts, `check`, `check-config` | none | printing | |

What is hard here is that the registry, the gauge, the status flag and the life
of a connection are updated by different goroutines in several steps; that the
two processes learn of a lost connection at different times, so an agent
reconnects while the server still holds its old registration; that every
handshake has two deadlines and a dial in the middle; that five counting
channels must be returned on every error path; that a process ends on the first
of several results; that a tunnelled connection is copied by four goroutines that
learn of its end at different times; and that only the equality of two files on
two hosts makes an agent the agent it claims to be. `PROJECT.json` lists the hazards
at their lines, with the properties that cover them.

## Modules

| Module | Models | Used by |
|---|---|---|
| `Registry` | what the registry promises: one tunnel per agent, empty before taken, shut for good | refined by `Server` |
| `Server` | connection handling of the server | `MCServer`, `Sessions`, `ServerProofs` |
| `Agent` | connection maintenance of the agent | `Process`, `Sessions`, `AgentProofs` |
| `Process` | `runWithMetrics` and `metrics.Serve` around an `Agent` | `AgentProofs` |
| `Sessions` | one agent process and the server, each with its own view of every connection; crashes, restarts, one-sided losses, a probe under the agent's name | `SessionsProofs` |
| `Streams` | the opening handshake of streams on both sides, with policies, semaphores, deadlines and stream credit | `MCStreams`, `StreamsProofs` |
| `Pipe` | `transport.Pipe` | `Tunnel`, `PipeProofs` |
| `Channel` | what a tunnelled connection promises: no byte lost or added, an end of data after the last, cut short only by a break | refined by `Tunnel` |
| `Tunnel` | client, `Pipe`, QUIC stream, `Pipe`, target | `MCTunnel`, `TunnelProofs` |
| `Frame` | the frame codec and the stream it is read from | `MCFrame`, `FrameProofs` |
| `Secret` | secret files: their text, cut off anywhere, and how it is decoded | `Startup` |
| `Auth` | identities and TLS configurations, symbolically | `Startup` |
| `Config` | command lines and files to configurations | `Startup` |
| `Startup` | an operator, `keygen`, starting processes, and the handshake between them | `MCStartup`, `StartupProofs` |

How state and actions correspond to the code:

* **Server.** `stage[c]` says which piece of code holds connection `c`: the
  listener's queue, the accept goroutine, a position in `Run`'s loop, or a
  handler. `conns`, `probes`, `quicConnections` and `connected` are `s.conns`,
  the length of the channel, `metrics.QUICConnections` and the true entries of
  `metrics.connectedAgents`. A step is what the code does under one lock, one
  channel operation or one atomic update: registering, counting and announcing
  are three actions (lines 264, 277, 278), and so are unregistering, uncounting
  and withdrawing (387, 388, 389). `run` walks through `Run`'s deferred calls in
  their order; `closeConnections` is split where it releases the mutex.
  `link[c]` is the server's side of the connection; `Dial` and `Drop` are
  the peers and QUIC. A connection without an agent's certificate is rejected in
  the TLS handshake (`auth.MultiClientTLSConfig`), so the loop's own
  "unauthorized" branch is never taken and has no action.
* **Agent.** `pc` is the position of `maintainConnection`, `main` that of
  `Run`; both touch `conn` (`a.conn`) under the mutex. Elapsed time appears
  only as "the connection was stable or not" (a choice in `Withdraw`).
* **Process.** `proc` is the position of `runWithMetrics`, `fn` and `http` are
  its two goroutines, `errCh` the channel of their results. The agent's actions
  are those of `Agent`, guarded by the process being alive; the frame's `cancel`
  and the signal both make the agent's `ctx` done. Exiting stops the goroutines
  where they are. The server command has the same frame around `Server`'s `Run`;
  the two are not composed, because `Run` of the server reaches the frame only
  through its result.
* **Sessions.** A conjunction of actions of `Server` and `Agent` for a
  completed handshake; otherwise one process steps and the other does not. The
  end of a connection on one side reaches the other side in a later step.
  `prober` is the connection of a probe command that fell back to the agent's
  server name (`runProbe`): the server treats it as the agent, registers it if the
  agent is away, and refuses the agent, as a legacy probe, until it ends.
* **Streams.** A session is one client; `ini` and `rsp` are its two handlers,
  `reply` the response frame, `stream` whether the connection it read is still
  alive. A deadline is a step that is possible at any moment of the wait it
  bounds. `getConn` and `conn` read the tunnel once; reading a connection
  that is already dead has the same effect as reading it just before it died.
  Shutdown of either process is not part of this module: it appears as a lost
  tunnel.
* **Pipe.** Bytes are counted, not told apart: that they keep their order is
  `io.Copy`'s contract and is not checked.
* **Tunnel.** The near `Pipe` is the module's own, the far one an instance of the
  same module. A byte written to the stream by one is a byte sent by the other's
  peer; the end of data follows the last byte; reading gives credit back to the
  writer. QUIC is external and does just this, or loses the connection, which the
  two sides notice separately.
* **Frame.** Bytes are numbers below `Base`; a body is built and taken apart
  by the same steps as in `control.go`, the piecewise length checks included.
  `io.ReadFull` is one step, possible once all it waits for has arrived.
* **Secret, Auth, Config, Startup.** A secret file is a prefix of the base64 text
  that `keygen` writes, so what a cut-off file decodes to, as hexadecimal or as
  base64 with or without padding, is a matter of lengths. A derived key is the
  pair of secret and label: HKDF, Ed25519 and X.509 are taken to be perfect. The
  maps of `MultiClientTLSConfig` are functions in which a later entry replaces an
  earlier one, as in the code. In `Config`, strings are classes (well formed or
  not, a host or none), each flag is parsed by the same functions as in
  `main.go`, which return a set that is empty for an error, and one number stands
  for the limits and durations, which all get a default at zero and must be
  positive. `Startup` reads the flags one by one, an action per iteration of the
  loops of `runServer` and `runAgent` (`ReadFlag`, or `RefuseFlag` for the first
  one in error), then validates (`Accept`, `Refuse`); after that it interleaves
  `keygen`, the operator's copies and removals, and processes that read each file
  once.

Definitions named `...Keeping`, `...Early`, and so on, with the comment "Mutant
of", are deliberately wrong versions of the definition below them. Nothing uses
them; replacing the definition by its mutant must make TLC find a violation of
the property `PROJECT.json` pairs it with.

## Runs

| Run | States | Shows |
|---|---|---|
| `Server.cfg` | 65 k | two connections of one agent and a probe of another for one slot: all safety properties, `NoEviction`, refinement of `Registry`; dead tunnels are removed, legacy probes end, shutdown completes |
| `Server_status.cfg` | | *violated*: `StatusAgrees`, see Findings |
| `Server_shutdown.cfg` | | *violated*: `ShutdownClosesConnections`, see Findings |
| `Process.cfg` | 22 k | an agent process with or without a metrics server: delay bounds, one connection, reconnecting, reaching the cap, ending on a signal, no success unasked |
| `Sessions.cfg` | 181 k | two connections, two faults of any kind, the second possibly during the recovery from the first: the tunnel comes back, no reconnect is stuck as a probe, what turns a reconnect away is a leftover with a handler to remove it, and only faults disturb a tunnel |
| `Streams_policy.cfg` | 575 k | two reverse clients for one place, a reverse probe, and an agent that claims to be another: policy, agreement of the two sides, reverse semaphore |
| `Streams_limits.cfg` | 36 k | two forward clients and a probe for one place and one dial: balance, every handshake ends |
| `Streams_credit.cfg` | | *violated*: `LimitIsOnConcurrency`, see Findings |
| `Tunnel.cfg` | 262 k | three bytes one way or one each way through windows of one, every connection able to break: clean half-close, refinement of `Channel`, and a `Pipe` returns unless the party behind the other one reset its connection |
| `Tunnel_reset.cfg` | | *violated*: `ClosedConnectionsAreReleased`, see Findings |
| `Frame.cfg` | 90 k | some 1000 frames, every way to cut and break them off, every single wrong byte |
| `Startup.cfg` | 433 k | some 12 000 command lines; then files made, cut off, copied, mixed up and removed around starting processes: flags mean what the file means, no partial secret, the right identity or none |

**Bounds.** A connection identifier is reused once nothing refers to it, so two
tunnel connections of one agent (the old one and the reconnect) already give
behaviours of any length with overlapping lifetimes; the probe of a second agent
shares the slots with them. One slot makes both "slot free" and "no slot" happen.
More agents, connections and slots at a time are covered by the theorems. In `Sessions`, two connections let a stale tunnel or
a probe's connection exist beside the agent's new one; `MaxFaults` bounds faults
because a property of the form "once the faults stop" needs them to stop, and two
of them let the second hit the recovery from the first.
Delays 3, 6, 12, 20 pass the half-limit test on both sides. In `Tunnel` a window
of one makes every writer block; a `Pipe` that has stopped reading its stream can
only have done so after reading a byte, another one then fits the window, and the
third is the one whose writer waits, so three bytes are needed. `Loads` bounds the
bytes of the two directions: three from the client or one each way. The two
`Pipe`s are alike, so it is no loss that the target never sends more. In `Startup`, a
secret of two bytes has three data characters, one "=" and a newline, which is the
shape of 32 bytes' text (43 characters and one "="), and `HexPrefix` makes one
secret's text consist of hexadecimal digits. `CommandLines` has up to two agents,
two forwards and one reverse, well and badly formed, with and without an agent's
prefix; the files of `Deployed` let two agents name one file or two, in either
order of the map. Two copies suffice to exchange or to mix up two files. In
`Frame`, base 5 is the smallest in which versions,
types and codes are bytes; a limit of 16 leaves three string bytes, and a header
can express lengths above the limit (up to 24), as 16 bits do for 4096.

Deadlock is not checked (`CHECK_DEADLOCK FALSE`) because every one of these
systems may stop: after a signal, when no client comes, or when a stream ended.
That they stop only in good states is what the liveness properties say.

**Fairness.** Weak fairness of each goroutine: Go's scheduler starves none, and
a step that stays possible is taken. Beyond this: a legacy probe's waits expire
(`HandshakeTimeout`, `DialTimeout`); a dial of the agent returns
(`ConnectTimeout`); every wait of a handshake has a deadline; in `Sessions` an
end is noticed (idle timeout), a dial to a listening server succeeds unless a
fault hits it, and a process that ended is started again (the systemd units of
the repository say `Restart=on-failure`; a signal is the first half of an
operator's restart), and a probe command ends (its deadline); in `Process`
`Shutdown` of the metrics server returns (five seconds), while neither the failure
of `ListenAndServe` nor the timer of the shutdown timeout is relied on; in `Tunnel`
QUIC carries what is written and, by its idle timeout, makes a loss known to both
sides, and client and target receive what they are sent and finish after they have
received the end of the other's data. Nothing is assumed of
signals, of arriving clients, of how long a `Pipe` runs in `Streams`, or of the
peers in `Server`. `Startup` has no fairness: nothing in it must happen.

## Findings

1. `StatusAgrees` (`server.go:387`). The old connection's handler unregisters
   before it clears the agent's flag. An agent that reconnects in between is
   registered and flagged, and then the old handler clears the flag: the agent is
   connected but missing from `connected_agents` until its next reconnect.
2. `ShutdownClosesConnections` (`server.go:387`, `372`). After a signal the
   handler of a live connection returns as well and may unregister it before
   `closeConnections` collects the registry. The connection is then never closed
   and its agent waits for the idle timeout, contrary to the changelog of v2.0.6.
   `NoAbandonedConnection` is therefore stated for the time before a signal.
3. `LimitIsOnConcurrency` (`server.go:469` and the other refusals). A refused
   stream is closed for writing, but its reading side is neither read to the end
   nor cancelled, so it keeps counting against `MaxIncomingStreams` until the
   tunnel is replaced. That quic-go counts it so long is modelled as external.
4. `ClosedConnectionsAreReleased` (`proxy.go:41`). When a target resets its
   connection in the middle of a transfer, the far `Pipe`'s copy fails and that
   `Pipe` returns, having ended only the writing side of the stream: the error of
   `io.Copy` is ignored and nobody calls `CancelRead`. The near `Pipe` is not told
   that its data is no longer wanted. It fills the stream's window and then waits
   for ever to write, without a deadline, even after its client is gone, and holds
   its place among the "maximum concurrent local TCP connections" until the QUIC
   connection ends. The same holds with the roles of client and target exchanged,
   for the server's `Pipe`. `TunnelEnds` is therefore stated with this exception,
   and says that it is the only one.

Smaller observations, without a run: README says the reconnect delay is
"capped at one minute", while a configured delay above one minute is its own cap
(as `agent_test.go` expects, and as `DelayBounded` states); `handleProbe`
keeps its dial slot until it has answered, while the changelog of v2.0.3 says
pending-dial limits apply "only while dialing"; `runWithMetrics` takes the first
result after a signal, which may be that of `metrics.Serve`, and the process then
exits before `Run` has closed its connections, so that the peer waits for its idle
timeout (`Recovers` shows that it does recover); `Pipe` ignores `io.Copy`'s
error, so a reset at one end is an ordinary end of data at the other (`Channel`
allows exactly this, and only after a break); a probe connection that stays open
keeps its slot, for `handleProbeConnection` has no timeout; a responder whose OK
comes after the initiator's deadline starts its `Pipe` all the same, on a stream
that nobody reads (`PipedTogether` speaks of the initiator); and `ValidateClientID` takes
identifiers that begin with a hyphen, which Go's certificate verification does not
match against the wildcard of the server's certificate (`Auth` leaves them out).

## Proofs

Every safety property that a passing run checks is also a theorem, proved for every
value of the constants that satisfies the module's named assumptions. What these assume, and why the code grants it:

* finitely many connections or sessions (`ConnsAssumption`, `SessionAssumption`);
* positive limits, delays and windows (`ValidateConfig` refuses others);
* connections that carry the identity of a configured agent (the TLS handshake
  lets no other through, which is what `Authenticates` says);
* a byte has at least five values and a frame's length fits in two of them
  (`WidthAssumption`: 256 and 4096 in the code); the program sends frames in which
  only the fields of their type are set (`FramesAssumption`), as all its calls of
  `WriteFrame` do; nothing is assumed about the strings in them;
* a secret has at least two bytes (`SecretAssumption`; the code asks for 32). For
  one byte the theorem is false: if the two data characters of its base64 text
  happen to be hexadecimal digits, they also decode to one byte, another one;
* command lines have the shape the `flag` package gives them, of any finite
  length and with any strings; the agent command has no `--agent` flag and no
  agent's prefix in its mappings (`CommandLineAssumption`);
* the server whose start-up is followed reads its agents from a file
  (`DeployedAssumption`), which says only which part of the story is told.

The arguments, module by module:

* `ServerProofs`. `SlotsBalanced` proves `TypeOK` and `ProbeSlots` together:
  the number of tokens is a natural number only because each receive from the
  channel has its send. Four lemmas on cardinalities (`CountEnter`,
  `CountLeave`, `SameMembers`, `AtFinite`) say how the number of connections in a
  set of stages changes when one of them moves; `GaugeCorrect` uses the same
  lemmas. `OneTunnelPerAgent` shows that `RegistryCoherent` is inductive given
  the types. From it follow `LiveTunnelStays` (an action property),
  `RegistryImplemented` (each step is a `Join`, a `Leave`, a `Shutdown` or a
  stutter of `Registry`) and `StatusHasNoGhosts`. `NothingAbandoned` needs a
  strengthening, `CloseInv`: while the process was not signalled, `Run` is
  cancelled only after `closeConnections` has taken every registered connection,
  so a served connection is by then closed or still to be closed.
* `AgentProofs`, the agent and the process around it. `NextDelayBounded` is the
  arithmetic of `nextReconnectDelay`: only a delay of at most half the limit is
  doubled. `ConnInv` strengthens `ConnIsCurrent` and `OneConnection` by "a
  goroutine that uses a connection has one" and "`closeConn` has not run before
  the signal". `ProcessRunsAgent` shows that the agent inside the process is
  module `Agent`: a signal, or the frame's `cancel` after a first result, is its
  `Signal`, and everything else the frame does is a stutter. So the agent's
  theorems hold in the process (`AgentInProcess`). `ExitWithoutSignalFails`
  needs `FrameInv`: while no signal has come and the frame still waits, the
  context is live, so that neither `Run` nor `Shutdown` can have returned, and
  every result in the channel is an error (`Undisturbed`).
* `StreamsProofs`. `SessionInv` says, per session, that the answer is given
  once, after the policy was consulted; `PolicyIsEnforced` and
  `HandedOverTogether` are consequences. `TokensAreReturned` counts: for each
  semaphore the set of sessions that hold a token is named, each action moves at
  most one session into or out of each set (`Exchange`), and then the number of
  tokens stays the size of the set (`StaysBalanced`). Stream credit needs
  `CreditInv` besides: only a responder that is still there on a live stream
  returns credit, and at least as many streams count as there are such responders,
  so credit never falls below zero, which is the hard part of
  `StreamsTypeCorrect`.
* `PipeProofs`. `CleanHalfClose` speaks about a flag that is set a step after
  the copy stopped, so `PipeInv` records what was true at that moment
  (`Complete`).
* `TunnelProofs`. `BothArePipes` shows that each half of the tunnel is module
  `Pipe`: to a `Pipe`, QUIC and the other `Pipe` are a peer like any other. So
  `PipeInv` holds of both. `StreamInv` joins them: no more comes out of the stream
  than was written, and its end comes out only behind the last byte. With this
  `TunnelIsAChannel` maps each step of the composition to a step of `Channel` or
  to a stutter; the step that needs the invariant is the one in which client or
  target is shown the end of data, which `Channel` allows early only after a
  break. `BothPipesAreClean` carries `CleanHalfClose` over to both halves
  (the run checks the near one), and `EndMeansAll` is what the half-closes add up
  to: a party that reads the end of data over sound connections has every byte
  the other sent.
* `SessionsProofs`. The lemmas of `ServerProofs` and `AgentProofs` are about single
  steps, so they can be used of processes that crash and start again: a step of
  `Sessions` is, for each process, a step of its module, a stutter, or its start,
  which re-establishes the invariant. `ServerHoldsAcrossRestarts` follows.
  `OnlyLeftoversTurnAway` (an action property) combines the two sides: among all
  steps only the loop after a failed `register` turns away the agent's connection
  (`TurnedAwayByLoop`); then another connection is registered, with its handler
  running (the server's `RegistryCoherent`), and the agent does not have it open
  (the agent's `OneConnection`). `TunnelStaysUp` (an action property) goes through
  all steps that could touch a tunnel both sides use.
* `FrameProofs`, the longest. Numbers: `PutUint16` and `Uint16` are inverse to each
  other within two bytes. Strings: `readString` takes off what `appendString`
  added (`ReadAppended`) and accepts nothing else (`AppendRead`), and so for the
  five in a row. The limit: five piecewise checks amount to one on the whole
  (`AppendOne`, `AppendAll`). Frames: `DecodesBack` and `EncodesBack`, that is,
  decoding and encoding are inverse to each other; `Canonical` is the second. The
  stream: `FrameInv` says that what was read, what is on the way and what is left
  to write make up the frame, or the frame and the payload; `LengthThenBody` cuts
  this sequence where `ReadFrame` cuts it, and finds the length and the body there.
  A reader that fails has seen fewer bytes than the frame has.
* `StartupProofs`. `DecodedIsWhole` is arithmetic on the lengths of texts: a part
  of a base64 text decodes to too few bytes, whether it is taken for hexadecimal
  digits, for padded or for unpadded base64, unless it holds all data characters.
  `StartupInv` says that every file is a prefix of the text of a secret that was
  drawn and that processes keep what they loaded. `DeployedConfig` shows that a
  validated configuration names each agent once; with different secrets for
  different agents (`IdentitiesDistinct`) the maps of `MultiClientTLSConfig`, in
  which a later entry would replace an earlier one, replace nothing
  (`LastIsOnly`), and `AdmitsExactlyKnown` follows for any number of agents.
  `FlagsAreTheFile` proves `FlagsMeanTheFile` for command lines of any length. As
  parsing takes a step per flag, the induction over the list is the induction of
  the invariant: `FlagsOK` says what the flags read so far have made
  (`ServerRead`, `AgentRead`: one agent per `--agent`, in their order, each with
  the services of its own mappings, no service twice; the services are spoken of
  only if the agents have different names, for otherwise no file can hold them and
  validation refuses the flags). A flag keeps this
  (`ServerFlagStep`, `AgentFlagStep`), or it is refused and then the file with
  the same entries is refused as well (`ServerFlagRefused`, `AgentFlagRefused`);
  when all are read, what they made is one of the file's configurations
  (`ServerAllRead`, `AgentAllRead`). The file's agents come from a map in no
  particular order, so it remains to show that the order decides nothing
  (`FlagOrder`, `OrderDoesNotMatter`).

Only model-checked:

* all liveness properties (`DeadTunnelIsRemoved`, `LegacyProbeEnds`,
  `ShutdownCompletes`, `Reconnects`, `BackoffReachesCap`, `SignalEndsProcess`,
  `Recovers`, `NotStuckAsProbe`, `HandshakeEnds`, `TunnelEnds`): they rest on
  fairness, which is out of the prover's reach;
* the four violated properties, of which TLC shows a behaviour.

## Not modelled

* Cryptography itself, certificate serial numbers and validity, PEM.
* The functions of `internal/config` for the types `Forward` and `Exit`
  (`Normalize...`, `Parse...`): only tests call them. The log options; they are
  checked one by one and have no effect on anything else.
* Logging; subcommand dispatch and help; `check` and `check-config`, which print
  what the operations modelled in `Config` and `Secret` return.
* The HTTP rendering of metrics and status, and the monotone counters: nothing
  reads them back.
* Start-up of `Run` before its first `select` beyond loading secrets and binding
  listeners: it is sequential.
* Whether quic-go delivers the answer of a legacy probe before the close that
  follows it: that is not visible in this repository.

## Plan

Done: all components that keep state or run concurrently; two refinements
(`Registry` by `Server`, `Channel` by `Tunnel`), both proved; and eight proof
modules that cover every safety property of the passing runs. Next, in this order:

1. The types of `Process`, `Tunnel` and `Sessions` as theorems of their own; parts
   of them are in the invariants already (`FrameInv`, `TunnelInv`, `ServerInv`,
   `AgentInv`).
2. `Tunnel` started from the handshake of `Streams`, to follow a responder whose OK
   came too late.
