# A TLA+ model of brume

brume is a dual-stack SOCKS5 proxy server in Rust (`src/src/`), with a small
blocking client library and an installer script. This directory holds TLA+
modules for its concurrent core, its encodings, its configuration and its installer, the
TLC configurations that check them on small instances, and theorems that TLAPS proves for
instances of any size. File and
line references are to `src/src/server.rs` unless another file is named.

## 1. Inventory

| component | source | state | operations | interacts with |
|---|---|---|---|---|
| Server lifecycle | `server.rs` 171-308 | listening sockets, `shutdown` token, `next_id`, the 2048 `client_slots` permits, the UDP task | `bind`, `run`, `run_async`: accept loop, sweep at shutdown, join of the UDP task | spawns a task for every accepted connection; cancels everything through one token |
| Handshake | `server.rs` 311-445, `protocol.rs` 56-96 | the bytes read so far | `negotiate`, `read_request_async`, dispatch to `connect` or `associate`; each wait limited by `HANDSHAKE_TIMEOUT` | client library or any SOCKS5 client |
| CONNECT | `server.rs` 447-488 | phase of the request | lookup, race, reply, relay, all dropped on shutdown | resolver, Happy Eyeballs, relay |
| Happy Eyeballs | `happy_eyeballs.rs` | candidates, join set, delay, last error | `interleave_addresses`, `race_connect` | also used by the client library |
| TCP relay | `server.rs` 490-550 | two copy buffers, the `activity` watch, the deadline | `forward_bidirectional`, `copy_direction` | the two peers |
| UDP association registry | `server.rs` 26-119, 552-628 | `entries`, the indexes `endpoints` and `pending`; per association `client_ip`, `requested_port`, `endpoint`, `alive` | `insert`, `find`, `remove`, `accepts`, the task `associate` | UDP loop (lookups), connection tasks, shutdown sweep: one mutex |
| UDP flows | `server.rs` 122-169, 630-902 | per association `flows` and `preferred_addresses`; per flow an `OnceCell`, `active`, `last_activity`, `stopped`; permits for packets and flows | `handle_udp_packet` (a task per datagram), `receive_remote` (a worker per flow), `remove_flow_slot`, `remember_udp_address`, `advance_udp_address` | tasks and workers race on every field |
| DNS resolver | `dns.rs` | hickory-resolver's cache | `lookup`: a non-empty list or an error | CONNECT, UDP flows |
| SOCKS5 encoding | `protocol.rs` | none | requests, replies, datagrams: encode and parse | all of the above |
| Configuration | `config.rs` | `Config`, `Whitelist` | argument and file parsing, `allows` | accept loop and UDP loop |
| Client library | `client.rs` | one control stream, one UDP socket | `connect_proxy`, `negotiate`, `connect`, `associate`, `send`, `recv` | server |
| Command line entry | `main.rs` | none | parse, Ctrl+C handler, run | server |
| Installer | `install.sh` | files, service, firewall rules | install, modify, upgrade, uninstall | operating system |

What is hard to get right here:

* **Shared-memory races between packet tasks and reply workers.** A flow is found
  in a map, filled through a `OnceCell`, renewed through `last_activity`, ended
  through `active.swap(false)` by whoever notices first, and removed from the map,
  each in a separate lock section or atomic operation, on several threads.
* **Two indexes and a lazily bound port.** An association that left its port open
  moves from `pending` to `endpoints` when its first datagram arrives, and has to
  be withdrawn from the right one.
* **Shutdown and close.** Tasks that passed their check of `alive` go on; a
  connection still in its handshake registers after the sweep; a worker without a
  timeout is ended by tokens only.
* **Timers that race the work they guard**: the relay's idle deadline, the delay
  and the total timeout of the race, the flow deadline.
* **Limits**: permits are held by objects that have already left the map.

What makes each part correct: an owner per source and no stale index (registry);
one active flow per target, nothing orphaned, each failed address given up once,
resources within their limits and all given back (flows); no byte lost before a
half close, and a deadline neither early nor late (relay); all addresses tried in
the right order and a truthful reply (CONNECT); every accepted connection gives its
permit back and nobody is served without authentication (lifecycle, handshake);
a payload arrives as it was sent, through both encodings and buffers that are
used again (encoding); a prefix matches exactly its addresses, and the last text
given for a key is in force (configuration); a service definition never lacks the
binary or the file that it needs, and the process runs with the settings that the script
believes it has (installer). The `hazards` of `PROJECT.json` list, line by line, where these can
go wrong and which property would notice.

## 2. Modules

`UdpOwnership` (the promise) is implemented by `AssociationRegistry`; the `*Proofs`
modules extend the module they are about, and `Loops` has the lemmas about loops that
they share; `MCUdpFlow` adds a symmetry to `UdpFlow`.
`Whitelist` extends `Wire`, `Config` extends `Whitelist`, and both `UdpPath` and
`Installer` extend `Config`; `MCUdpPath` and `MCInstaller` give them their values.
`UdpPath` is the composition: it takes the associations from `UdpOwnership`, which
`AssociationRegistry` is proved to implement.

**UdpOwnership** is what the relay promises about UDP sources, with no index and no
lookup: every association is absent, waiting on an IP, or bound to an endpoint;
endpoints have one owner, IPs one waiter, a datagram goes to the owner of its
source or else to the waiter on its IP, and an endpoint is released only after its
control connection has closed.

**AssociationRegistry**: `entries`, `endpoints` and `pending` are the three maps of
the struct (`None` for an absent key), and the fields of the associations are
functions of the connection id. `pc` says where the task of a connection is:
`request` (the handshake), `replying`, `serving` (the loop around `read`),
`closing` (flag down, not removed yet), `done`. A step is what runs under one lock
of the registry, or what a task does between two awaits; `alive` and the registry
are separate steps, as in the code. `InsertPending`, `InsertDeclared` and
`RejectInsert` are the three outcomes of `insert`; `FindBound` and `FindPending`
are the two ways `find` succeeds (when it fails it changes nothing). An address is a
family and a host, and `normalize` maps IPv4-mapped addresses to IPv4, as in the
code. `handed` is history: which source was handed to which association.

**UdpFlow**: associations that are registered, targets, packet tasks (one name per
permit of `packet_slots`) and flow slots (storage names, more of them than
permits). A slot record holds the cell of the `OnceCell`, the fields of `Flow` and
the position of its worker. A step is one lock section, one atomic operation or one
await. `Settle` drops a slot, and with it its permit, when the last `Arc` is gone.
The time of a flow is its age since `last_activity`. `Spawn` joins the lookup, the
acquisition of the permit and the first check of `alive`; a datagram that fails one
of them changes nothing. `CloseFlag` and `CloseToken` are the two stores of
`associate` (and of the sweep) in their order.

**TcpRelay** counts bytes per direction: `sent` by the peer, `held` in the copy
buffer, `delivered`. `Write` takes any part of the buffer, since `write_all` may
need several polls, and reports activity with the last part. `age` is the time since
the value in the `activity` channel, `left` the time to the deadline of the pending
sleep; both are needed, since the deadline is older than the activity until the loop
re-arms. `timeout` is chosen initially from `Timeouts`, with 0 for none.

**Connect**: an address is its family and its position in the lookup. How an attempt
would end (`ok`, `refused`, `unreachable`, `hang`) is fixed when the addresses are
known; when it ends, and when the race sees it, is not. `interleave_addresses` is
the algorithm; `Interleaved` is its reference definition.

**Session** is the life of a control connection before its relay, with both ends:
the accept loop (whitelist, permits, the three ways it ends, the join of the UDP
task), the handshake of `negotiate` and `handle_client`, and as its peer either the
client library (`Dial` to `TakeReply`, the calls of `client.rs` in their order) or a
stranger that sends any messages in any order. `client` and `serve` say where the
two ends are, `up` and `down` hold the messages between them. A message is what its
reader makes of the bytes: bytes that do not parse as what is being read are a
message of another kind, an empty password counts as a wrong one, the comparison of
credentials is equality. Whether the whitelist admits a peer is a choice. The relay
after a success is one step that passes data on (`TcpRelay` has the rest), and
`Serve`/`Refuse` are the outcomes of `connect` and `associate`. `shown` and `granted`
are history: who sent the right credentials, who was answered with success.

**Wire** is `protocol.rs` at a reduced width: a byte has `ByteBits` bits, an IPv4
address `V4Len` bytes, an IPv6 address `V6Len`. Encoding and parsing of addresses,
requests, replies and datagrams go byte by byte with the code's checks in their order,
and return `Ok(value)` or `Err(kind)`. The blocking and the async variants read the
same bytes and are one definition. A name is UTF-8 if no byte of it is the highest.

**Whitelist** is `Whitelist::parse` and `allows` with their masks and shifts at that
width. `Covered` is the reference: an entry covers the addresses that agree with it in
its first bits, with IPv4 addresses inside the mapped network.

**Config** is `Config::parse`: the arguments, the file, the key and value of each, and
the validation at the end. A text is what its reader makes of it (a number or none, the
entries of a list), so that splitting and trimming are left out, and what is in range
is not. A line that not every reader takes alike says so (`spelt`): the server strips white
space beyond ASCII and a second carriage return, and refuses a file that is not UTF-8. `InForce` and `Sound` are the reference: the last text for a key counts, and a
server starts if no text is wrong and name and password go together.

**UdpPath** is the way of a datagram from `UdpAssociation::send` of a client to the
target and back to `recv`. `Start` runs `Config` on a way to start the server; `Ask`,
`Grant` or `Refuse`, and `Confirm` are UDP ASSOCIATE as bytes on the control
connection, with the addresses that a dual-stack listener sees (`Seen`). `UdpLoop` is
one round of `udp_loop`: whitelist, parse, owner of the source, permit. `Forward` is
what a packet task does with the payload, `Answer` what the reply worker does:
`reply_bytes` receives behind room for the longer header and writes the header that
the source needs directly before the payload. `Filled` keeps what a buffer held before
(it is used again for every datagram). `up` and `down` lose, reorder and repeat. `meant`
is a ghost that says what the sender of the bytes wanted to say. Traffic is explored
under the ways to start in `Explored`; for the others only the start is.

**Installer** is `install.sh` as far as it outlives a run of the script: `binary` (what
it supports: arguments, `--config`, `--dns-servers`), `config`, `service` (defined by
`create_service`, or by an older script with the settings in its arguments), what the
definition still `lacks`, the `running` process, the `rules` per port and a `restart` under
way. `Steps` gives each operation as the sequence of its steps, `todo` is what is left of it,
and there is an action per step and per way it may fail; `CutOff` and `Reboot` come between
any two.

`create_service` overwrites the definition in place, and is not one step but six: `Open`
(`tee` has emptied the file, which is `Torn`), `Define` (it is filled; under SysVinit with
`PLACEHOLDER_` paths), and a `Finish` each for the two `sed -i`, the `chmod +x` and the
registration, as far as the manager has them (`Placeholders`, `Marks`). A `tee` that fails
ends the script before or after it has emptied the definition (`DefineFails`); that one of
the others fails is ignored, as by the script (`FinishFails`). Rewriting a definition keeps
its mode and its registration. So there are windows in which the definition does not start
and is no longer what it was:

* empty, between `Open` and `Define`: nothing starts. The script reads it as a definition
  without `--config` and shows the defaults (`Current` of `Torn`). An upgrade begun then
  migrates the defaults and overwrites the configuration file with them, settings and
  password, although an upgrade should not change them (`docs/usage.md` 33);
* with placeholders, under SysVinit between `Define` and the second `sed`: nothing starts, and
  the script finds no valid path and gives up (`Current = None`), as it does for every
  operation but install;
* not executable, or not registered, when there was no definition before: nothing starts, or
  not at a restart of the machine (`Controls`, `Reboot`).

The first is a hazard in `PROJECT.json` without a property; `Whole` in the properties below
tells these windows from a definition that is complete.

`config` is a sequence of lines that has two readers, `load_config_file` of the script and
`Config` for the server, and two writers, `write_config_file` and the administrator
(`EditConfig`, who adds or removes a line, perhaps a wrong one, and restarts the service).
The readers differ in what they check and in what they strip: the script checks no value,
strips one carriage return and `[:space:]`; the server checks all, strips two carriage
returns and what Unicode calls white space, and takes UTF-8 only. A value may be one that the
server refuses, and a line may be spelt `wide`, `return` or `foreign` (see `Config`), where
they disagree. `Plain` leaves these lines out of the properties that compare the readers.

Settings are three of the seven keys, the port, the whitelist and the name servers; the
others behave like one of these. The dialogs check the port and do not check the whitelist
(`Typo`), which the server may refuse. Firewalls differ in whether rules are found by port or
are in a table of their own; a restart of the machine may lose the rules of nftables and
iptables, which are saved only if certain files and programs exist.
`past` is history: `Clean` if every operation got to its end, `Edited` if besides the port or
the whitelist was changed in the file or rules were lost, `Over` if something was installed
over an installed service, and more for every operation that failed, was cut off or ignored a
failure; `skipped` says that an install went on without its binary.

Left out: downloads and the syntax of files and rules, temporary directories of a script that
was cut off, and an empty text for the port. `rm -f`, `mv` of a file that was written and the
stop of a service do not fail by themselves (the script may be cut off instead);
`setup_firewall` and `remove_firewall` are one step each. systemd is taken to have loaded the
definition that lies there. The restart that an upgrade schedules comes before the next dialog
ends.

`map` in `PROJECT.json` gives the lines of each definition. Definitions whose comment
starts with "Mutant:" are wrong on purpose: each is a plausible mistake in the
definition that follows it, and no specification uses it. They document what the
properties are able to notice.

## 3. Runs

| run | checks | shows |
|---|---|---|
| `registry` | `TypeOK`, `IndexExact`, `SourceFidelity`, `NoTakeover`, `ImplementsOwnership`, `HangUpReleases`, `ShutdownDrains` | registration, binding, lookup, hang-up and shutdown in every order |
| `udp_flow` | `TypeOK`, `OneActiveFlow`, `NoOrphan`, `GivenUpOnce` | two tasks and two workers racing on one target, with expiry, send and receive errors and close |
| `udp_live` | `Bounded`, `CloseReleases`, `PacketEnds` | without an idle timeout and with one permit: flows that wind down still count, a close takes every flow down for good, and every task ends |
| `udp_path` | `PayloadsIntact`, `Established`, `OnlyValidBinds`, `WhitelistExact`, `StartExact` | every short command line and file, every kind of whitelist entry; two clients over IPv4 and IPv6 and an unreliable network |
| `tcp_relay` | `TypeOK`, `HalfCloseKeepsData`, `DeadlineSound`, `IdleEnds`, `HalfClosePropagates` | both directions, partial writes, half close, failure, timer, with and without a timeout |
| `connect` | `TypeOK`, `Interleaved`, `NeverIdle`, `ReplyTruthful`, `GoodAddressWins` | all lists of up to three addresses and all outcomes |
| `session` | `TypeOK`, `AuthGate`, `InSync`, `NoMutualWait`, `ResultTruthful`, `HandshakeIsShort`, `ShutdownEndsAll` | library clients and strangers against one permit, with shutdown, a failing UDP task or a failing accept at any time |
| `installer` | `ServiceStarts`, `UpgradeHarmless`, `RulesFollow`, `ProcessCurrent` | any sequence of operations under SysVinit, each failing or cut off at any step, the commands of `create_service` included, with restarts and edits of the file, from a fresh machine or a legacy service |
| `udp_idle_refresh` | `EndsOnlyWhenIdle`, violated | finding 1 |
| `udp_next_address` | `NextStartsElsewhere`, violated | finding 2 |
| `tcp_slow_receiver` | `TimesOutOnlyWhenQuiet`, violated | finding 3 |
| `uninstall_leftovers` | `UninstallRemovesAll`, violated | finding 4 |

### Bounds

* `registry`: two connections of one host, seen as IPv4 and as mapped IPv4, and two
  ports. Every conflict in the code is between two ids (one owner, one candidate).
  Hosts only meet in `normalize`, so a second one adds nothing that a second port
  does not; IPv6 behaves as IPv4 under `normalize`. Two ports tell "same IP, other
  port" from "same endpoint". The theorems hold for any sets.
* `udp_flow`: two tasks cover "one initialises, one waits" and "one ends the flow,
  one still uses it"; two slots cover a flow and its replacement. Code constants
  become `MaxFlows = 2`, `MaxPerAssoc = 1`, `MaxStaleRetries = 1`, and a timeout of one tick
  suffices, as only "before" and "at" the deadline are told apart. `Tasks` and
  `Slots` are symmetric; the symmetry is not used with liveness.
* `udp_live`: `MaxFlows = 1` with two slots, so that a removed flow that still holds its
  permit would be noticed if it were not counted; two addresses, so that a task goes on
  to the next one when its send fails; no timeout, which is the hard case for
  `CloseReleases` (nothing but the tokens ends a worker). `MaxStaleRetries = 0` keeps it
  small: the retry on a stale flow is in `udp_flow`. With one target the limits per
  association bite in no run; the theorem `LimitsHold` has them for any number.
* `udp_path`: bytes of 4 bits, IPv4 addresses of one byte and IPv6 of two, which gives
  headers of 7 and 8 bytes, so that the room before the payload is too long for one
  family, as in the code. `MaxV4 = 20 < 21 < MaxV6 = 25 < BufferSize = 29` are in the
  order of 65507 < 65513 < 65527 < 65535, where the second is the room that is left for
  a payload: there is an answer that fits the IPv4 header only, and one that the buffer
  cuts. Ports differ by the order of their bytes. One datagram is in flight each way;
  since `up` may keep what it delivers, it may come again after anything else has
  happened. Ways to start: one whitelist entry of each kind and length around the
  addresses of the run, pairs of entries, and all pairs of two arguments with two lines.
  Traffic is explored under one whitelist, which admits both families.
* `tcp_relay`: three bytes through a buffer of two, so that a buffer may be
  delivered in two parts and another follow; a timeout of two ticks tells a re-armed
  deadline from a stale one.
* `connect`: three addresses give both families, a family of two, and one attempt
  waiting while two are under way.

* `session`: two connections and one permit, so that one is refused while the other
  is served; a stranger is one message ahead of the server, which is enough to have a
  request waiting before the answer to the greeting is sent; one message of relayed
  data tells "left over from the handshake" from "for the application".

* `installer`: two ports, the old one and the new one. Files are those that the script
  writes and those that are one line off, by a line that is missing, is given twice, is
  wrong, has a value that the server refuses or is spelt in a way that one reader refuses.
  Operations that get to their end are not bounded; after `MaxMishaps = 2` that did not, or
  ignored a failure, none is begun, so that one may begin on what two have left behind. The
  manager is SysVinit, which has all steps of `create_service`; `uninstall_leftovers` has
  systemd. `past` and `skipped` remember what went wrong before, and the properties say which
  of them they except. The theorems hold for each manager and any number of mishaps.

No run uses a state constraint: the bounds are in the guards (`sent[d] < MaxBytes`)
or in the code's own limits. Deadlock is checked in every run but `udp_path`, where a
server that refuses its configuration, or prints its help, has nothing more to do; `Terminated`, `Quiet`,
`Returned`, `Ended` and `Over` are the only places where a model may stop.

### Fairness

* Registry: weak fairness of the task of each connection, the sweep and the end of
  the UDP loop: the runtime polls every task that is ready, and the success reply, a
  few bytes on a fresh connection, either fits the socket buffer or fails. The
  request is fair because of `HANDSHAKE_TIMEOUT`. Clients owe nothing.
* UDP flows: weak fairness of tasks, workers, the cancellation that follows the
  flag, and time. A lookup ends within the resolver's limits. Nothing is assumed of
  replies, of errors or of clients closing.
* Relay: weak fairness of the timer branches and of reading, not of writing: a peer
  may stop taking bytes for ever.
* Connect: weak fairness of the join, of the delay and of attempts that do not
  hang; the total timeout need not come.

* Session: weak fairness of each connection's task, of the UDP loop seeing the token,
  of the accept loop leaving and of the join. Nothing is asked of clients, and nothing
  but the token ends an established session, so `HandshakeIsShort` rests on
  `HANDSHAKE_TIMEOUT` and `ShutdownEndsAll` on the token.

## 4. Findings

1. **A request may be sent on a flow that is being ended** (run `udp_idle_refresh`).
   `receive_remote` decides at line 855 that the deadline has passed and ends the flow at
   898. A datagram in between sees `active`, renews `last_activity` and is sent, and
   the reply finds no flow. `docs/usage.md` 70 and `docs/performance.md` 16 say that
   a request renews the deadline.
2. **The next datagram may start at the failed address** (run `udp_next_address`).
   The worker clears `active` (898) before it advances the remembered address (899);
   a datagram in between reads the old index. `docs/performance.md` 18 says that the
   next datagram starts at the following address.
3. **A slow receiver is timed out while data flows** (run `tcp_slow_receiver`).
   Activity is reported once per buffer of up to 64 KiB, after `write_all`.
   `docs/usage.md` 69 says that data forwarded in either direction renews the timeout.
4. **Uninstall leaves rules of an earlier port** (run `uninstall_leftovers`). Choosing
   install on an installed machine removes no rules, and uninstall removes those of the
   current port only. The prompt at `install.sh` 1647 says that all rules are deleted.

## 5. Proofs

The theorems of `AssociationRegistryProofs`, `UdpFlowProofs`, `UdpPathProofs`,
`TcpRelayProofs`, `ConnectProofs`, `SessionProofs` and `InstallerProofs` hold for any
constants that satisfy the assumptions of their modules. TLC evaluates the assumptions in
every run, and the inductive invariants were model-checked before they were proved.
`Loops` has what several of them need about loops.

**Loops.** What a loop over a list does is proved for lists of any length by its values
after each round: a set of numbers that contains 0 and with every number its successor
contains them all, because the least number outside of it would have a predecessor inside
(`LeastLemma` from the well-foundedness of `<` gives `Induction`). `RecursionLemma` says
that a recursive function over the rounds exists and obeys its equation, and `SameLoop`
that two bodies that agree on what the loop meets give the same loop. The loops of `Connect`
and `Config` are recursive functions for this reason, not `RECURSIVE` operators.

**Registry.** Assumptions: `None` is not an id, an address or a number; families are among
the three that exist and the mapped one comes with IPv4; ports are positive.
* `TypeCorrect`: `TypeOK` is inductive; besides types it says that `entries` are
  exactly the connections between `insert` and `remove`, which every other proof
  needs.
* `IndexExactness`: `IndexExact` is inductive given `TypeOK`. The equivalences go
  both ways because `remove` must find an index entry (or it would be left behind)
  and `find` must not find a foreign one. `OccupiedLemma` says what an entry occupies;
  `NormalizeLemma` and `EndpointKeyLemma`, that keys are normalised.
* `Fidelity` strengthens `SourceFidelity` with both invariants above.
* `Takeover`: an action property, from `IndexExact` in the state before the step.
* `Refinement`: `Spec => Ownership!Spec`. Each action maps to one of `UdpOwnership`
  or to a stutter; `KindsLemma`, `FreeLemma` and `OneBindingLemma` translate between
  the indexes and the bindings read off the associations.

**UDP flows.** Assumptions: the limits are natural numbers and the one per
association is not 0, `None` is nothing else, and slots and targets are finite sets
(they are counted); associations, tasks and the number of addresses are arbitrary.
* `LimitsHold`: `Bounded`. It is not inductive: a step that makes a slot's worker run
  says nothing about permits unless the slot already had one. `HeldInUse` adds that who
  holds a slot (the map, a task, a worker) holds one in use; hence only the creation of
  a slot takes one, and it does so below both limits, while every other step can only
  give slots back (`Settle`). `RememberLemma` is the same for the remembered addresses,
  where at the limit another target makes room.
* `TypeCorrect`: `TypeOK`, from `Typed`, which adds that a working task knows its
  association, that it has a slot exactly where the code holds an `Arc` of one, and that
  it has an attempt left whenever it goes back for another address.
* `OneFlowPerTarget`, `NothingOrphaned` and `AddressGivenUpOnce`:
  `OneActiveFlow`, `NoOrphan` and `GivenUpOnce` from one invariant, `RaceInv`, on the map,
  the slots and the tasks together. None of the three is inductive, since what a task does
  next depends on what it believes of its slot. `AllFit` states that belief and `Alone`
  that at most one task fills a cell and one gives an address up; a second active flow
  would come from a slot that is active or about to be and is not the mapped one
  (`KeepsWanted`, the reason why `remove_flow_slot` compares the slot before it removes),
  an orphan from a mapped slot without a worker that no task looks after (`Attended`), and
  an address given up twice or never from a failed flow without the one task that won the
  swap (`Owed`). A step is one of few kinds for them: a change of one slot by the task
  that holds it (`HolderLemma`) or by its worker (`WorkerRace`), a task that takes a slot
  up (`TakeUpLemma`) or lets it go (`LetGoLemma`), a removal from the map (`UnmapLemma`),
  the drop of the last `Arc` (`SettleLemma`).

**Datagrams.** Assumptions (`WidthAssumption`, `PathAssumption`): addresses have their
lengths and, for clients and the server, are not mapped; ports, bytes and names have their
ranges; the server listens on a specified address of each family; a stray is no SOCKS5
datagram; the buffer is longer than any datagram, and its room behind the header holds the
longest answer from an IPv4 target (65535 - 22 >= 65507 in the code). Widths, prefixes,
targets, payloads and sizes are arbitrary, as are clients other than the library and what
they ask for.
* Encoding: `ReadLemma` says that `read_target` returns what was encoded and leaves what
  follows, for addresses and for names of any length. `HeaderLemma` and `DatagramLemma` draw
  from it that requests, replies and datagrams are read as they were written. They rest on
  lemmas about cutting sequences that were put together (`JoinLemma`, `PieceLemma`,
  `CutLemma`), with no induction.
* Buffers: `ReceivedLemma` says that a datagram that fits is parsed whole, and
  `ReplyBytesLemma` that the worker's header, put in front of the answer at the offset that
  its length leaves, gives exactly header and answer. An answer longer than the room is cut;
  only one from an IPv6 target can be, and it then fills the buffer, which is more than UDP
  sends.
* `Intact` (`PayloadsIntact`), `LibraryEstablished` (`Established`) and the action property
  `ValidBinds` (`OnlyValidBinds`) follow from `PathInv`. None is inductive: `Datagrams` says
  of everything in flight that it parses into what was meant or not at all (`Faithful`), and
  of datagrams to the relay that one that parses was meant (`Meant`); `Agreed` says what lies
  on the control connection while the library asks and waits, and that an association it was
  granted is live and bound to its socket until it hangs up (`Granted`). Another
  connection's steps leave that alone (`OthersLemma`, `FrameLemma`).

**Relay.** Assumption: sizes and timeouts are natural numbers, the buffer is not
empty. The inductive invariant is `TypeOK /\ HalfCloseKeepsData /\ DeadlineSound`
(theorems `TypeCorrect`, `NothingLost`, `DeadlineIsSound`); `TypeOK` supplies "bytes are
held exactly while writing" for the half close and the ranges of the times for the deadline.

**Connect.** Assumption: `MaxAddresses` is a natural number.
* `InterleaveLemma`: for a list of any length, `interleave_addresses` returns a list as
  long that keeps the order within each family and takes turns until one has run out. The
  function that the loop computes is followed round by round (`Loops`).
* `FamiliesTakeTurns`: `Interleaved` is that lemma at the list of the state (`Ordered`).
* `RaceNeverIdle` and `ReplyTellsTruth`: `NeverIdle` and `ReplyTruthful` from `ConnectInv`,
  which adds that attempts that ended did not hang, joined ones failed and the last error
  is that of one of them (`Ends`), that nothing is told while the race runs (`NotTold`),
  and that a stream that is used was accepted (`Accepted`).

**Session.** Assumption: there is at least one permit and one message ahead; the set
of connections is arbitrary.
* `Gate`: `AuthGate` for any number of connections. Alone it is not inductive: that the
  task reads the right credentials says nothing unless they were sent. `SentShown`
  adds that a message with the right credentials is on its way only on a connection
  in `shown`; the conjunction with the types of what is read (`Typed`) is inductive.
* `Truthful`: `ResultTruthful`, from an invariant on the loop, the token and the UDP
  task (`LifeInv`): a UDP task that ended well did so after the token was cancelled,
  and the token is cancelled by a request or by the loop itself.
* `CallsAgree` and `NobodyWaitsForNobody`: `InSync` and `NoMutualWait`, from `TalkInv`.
  Both compare where the library is with where the task is, and neither says what lies
  between them; `Talk` lists, for every place of the library (`AtMethod`, `AtStatus`,
  `AtReply`, `AtOk`), where the task may be and which messages are on their way. A
  success that is on its way was granted (`Granted`), a wait for an answer that lies
  there, or for a task that has its message, is no mutual wait.
* `TypeCorrect`: `TypeOK`, with the permits counted (`Slots`) although the set of
  connections may be infinite: those in use are a finite set that an accept adds one to.

**Installer.** Assumption (`InstallerAssumption`): the script and the server have the same
defaults, which the server accepts; what the dialogs can produce has no carriage return;
`None` and the names of definitions are nothing else. Ports, managers, widths, default name
servers and the number of mishaps are arbitrary. Nothing is assumed of what is typed for the
whitelist or found in a file.
* `ReadersAgree`: for a file of plain lines of any length, with any texts for values, the
  server accepts it if and only if `load_config_file` can read it and every line has a value
  that the server takes; the server then runs with what it would make of the settings that the
  script has read (`Meaning`). The loops go in step: where one has settings, the other has
  their meaning (`LoadLemma`, `ServeLemma`). `ArgumentsLemma` is the same for settings given
  as arguments, `WrittenLemma` says that the script reads back what it has written.
* `Inv`, the inductive invariant of the other four, is there for the moments inside
  `create_service`. `Script` says that what is left to do is the end of an operation's steps,
  and where in it the script is; `PlaceLemma` draws from it what each step may rely on. The
  steps are counted from the end (`Rank`), so that those of `create_service` have the same
  number in every operation. `Fit` says that an existing definition, even an empty one, has a
  file and a binary for it, as far as the script can tell (`Suits`): this is the order of the
  steps, binary and file before definition. `Creating`, `Installing`, `Modifying`, `Upgrading`
  and `Uninstalling` (together `Course`) say what an operation has done so far and relies on.
  `Owed` says, for operations that get to their end, which parts a definition may lack at
  which step: nothing at all before `tee` and after the last step. `Ruled` and `Processed` say
  whose rules and which process there are at each step. There is a lemma per action;
  `ExitStep` has all the ways in which an operation ends early, at whatever step.
* `StartsAlways`: `ServiceStarts` from `Fit`. That a definition has what it needs holds in
  every state but after `skipped`; that it starts is said of one that is whole, with a file
  that the server accepts: neither a definition that is half written nor a refused text starts,
  and the script prevents neither.
* `RulesFollowSettings` and `ProcessIsCurrent`: `RulesFollow` and `ProcessCurrent`, from
  `Ruled`, `Owed` and `Processed`, and `LaunchLemma`, which is `ReadersAgree` and
  `ArgumentsLemma` at the definition of the state.
* `UpgradeDoesNoHarm`: the action property `UpgradeHarmless`. Until the file is written the
  old definition is left alone (`WriteKeeps`), from then on the file has the settings, and the
  definition is overwritten by one for that file (`CreateKeeps`, `FileKeeps`).

Model-checked only: every liveness property (fairness and `ENABLED` are out of the
prover's reach); `WhitelistExact` and `StartExact` of `UdpPath`; the four violated
properties, as they are false. The induction
theorems of the library take an operator as a parameter, which the provers cannot instantiate;
`Loops` does without them for sets of numbers, so that loops over lists are within reach, but
operators declared `RECURSIVE` are not.

## 6. Not modelled

* Text: how an argument, a line or a list is split and trimmed, messages, the dialogs
  of the script. `Config` begins with what the splitting returns; where the script and the
  server split or trim in a different way, the line has a spelling of its own.
* `encode_datagram` as a function of its own: it is `encode_datagram_to` into a new
  buffer. `connect_proxy` of the client library is a choice of success or failure; the
  race inside it is that of `Connect`.
* `Server::bind` up to the accept loop: system calls that succeed or end the program
  before it has any state. The resolver's cache and choice of servers belong to a library.
* A promise about texts that the server refuses: they are written as typed, and the service
  then does not start (`Typo`, `Acceptable`). No document promises a check.
* A promise about a definition that is not whole, see `Installer` in section 2.
* tokio, the kernel's sockets and hickory-resolver are external: they appear as
  choices (a read, an error, a finished attempt, time).
* `Ordering::Relaxed` on `alive` and `active` is modelled as one atomic value each.
  Each flag is one location and no property relies on the order between two of them
  other than through a lock.
* A datagram of a closed association still in the socket buffer may bind the next
  association of that IP that waits for its first datagram. `UdpOwnership` allows it,
  since a datagram does not say whose it is.

## 7. Plan

Done: `UdpOwnership`, `AssociationRegistry`, `UdpFlow`, `TcpRelay`, `Connect`, `Session` and
`Installer`, each with proofs of all its safety properties; `Wire`, `Whitelist`, `Config` and
their composition `UdpPath`, with proofs of what it says about datagrams. Next, in this order:

1. `StartExact` for command lines and files of any length, for which `InstallerProofs` has
   the lemmas about the loops of `Config`.
2. `WhitelistExact` for any width, which compares remainders by powers of two with single
   bits, for numbers that a loop over the bytes computes.
