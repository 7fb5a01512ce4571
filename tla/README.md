# A specification of dual-vpn-router

TLA+ modules for the daemon, the command line and the window in `src/`: the
routing manager, the engine, the DNS manager, the configuration file and the
processes that share it, the resolution of tunnels to interfaces, and the GUI's
calls; model-checked with TLC on small instances and proved about with TLAPS
for every value of their constants.

## The system

dual-vpn-router routes destinations into VPN tunnels and domains to DNS servers
behind them. A root daemon owns the state; a CLI and a GUI talk to it over a
Unix socket.

| Component | Source | State | Operations |
|---|---|---|---|
| routing | `internal/routing/pbr.go` | none of its own: the kernel's `ip rule` band 9000-10999, one routing table per tunnel, the mangle chain `DUALVPN` | ReconcileRules, SyncDNSMarks, SetTableDefault, SetTableBlackhole, FlushTable, Cleanup |
| dns | `internal/dns/dnsmasq.go` | three files; what dnsmasq and systemd-resolved have read of them | Apply, Cleanup |
| vpn | `internal/vpn/vpn.go` | none: interfaces, addresses, NetworkManager | StatusAll, Up, Down, listings |
| config | `internal/config/config.go` | the YAML file | Load (with defaults and the v1 migration), Validate, Save |
| engine | `internal/engine/engine.go` | the configuration in memory, the active flag and its marker file, the last error, one mutex | Start, Stop, Apply, Reload, SetTunnel, eleven edits, State |
| daemon | `cmd/dual-vpn/main.go`, `packaging/dual-vpn.service` | the process | load, a first apply, an apply per tick, restart by systemd |
| api | `internal/api/api.go` | the socket | one route per engine operation |
| CLI | `cmd/dual-vpn/main.go` | none | a client of the socket, or an engine of its own when there is no socket |
| GUI | `cmd/dual-vpn-gui/main.go` | the state last rendered, one flag | polls, calls, drag and drop |

Everything the daemon does is a sequence of commands (`ip`, `iptables`,
`systemctl`, `nmcli`) and file operations. Each of them can fail, the process
can die between any two of them, and interfaces come and go while they run.
Requests are serialised by the engine's mutex, so clients do not interleave
inside one apply; the kernel, the file and the tunnels do.

What is hard, and what each part owes:

* **routing.** After a success the desired rules are in the band, and no other
  that a listing shows; rules of other programs are never touched; a rule that
  does not change is never absent; a destination that moves between tables is
  never without a rule; a cleanup that fails in one part goes on with the others.
* **engine.** An apply that reports no error has brought rules, tables, marks
  and DNS to the configuration and the tunnels it observed, but for rules no
  listing shows. Fail-closed traffic that is held is not let go by a daemon whose
  configuration stays. An edit is in memory and in the file, or in neither. What
  failures leave behind is repaired.
* **dns.** A service has read what the files say; a cleanup hands DNS back
  whatever fails.
* **config.** What is loaded or saved is valid; the file is replaced whole or
  not at all; tables are not shared, and a tunnel keeps its table. An old file
  migrates with all it says.
* **vpn.** A tunnel is resolved to an interface that was its own when the
  interfaces were listed, however other VPNs come and go while it is looked for,
  and to the right one once they are left alone.
* **GUI.** One poll at a time; the window comes to show what the daemon has,
  whatever order replies arrive in.
* **CLI.** It does not interfere with a daemon on the same file: what the daemon
  has in force is what it would read back after a restart, but for an empty list
  of resolvers.

## Modules

| Module | Models | Extends, or relation |
|---|---|---|
| `PolicyRouting` | `pbr.go`, one command per action, and the kernel under it | |
| `Engine` | `engine.go` with its requests, the reconcile loop, apply and stop; what it uses of `config.go` and `vpn.go`; daemon death, reboots, hand edits, links | extends `PolicyRouting` |
| `ConfigStore` | what the engine promises about the configuration | abstract; `Engine` implements it |
| `DnsService` | what the engine may count on when it calls the DNS manager | abstract; `Dnsmasq` implements it, `Engine` stays within it |
| `Dnsmasq` | `dnsmasq.go`, one system call per action, and the two services | |
| `ConfigSchema` | `config.go` as operators: both schemas, the migration, the defaults, Validate; the edits of `engine.go` that hand out tables | |
| `Clients` | the daemon and the CLI as processes: New, the edits, Save one system call at a time, the marker, the socket | extends `ConfigSchema` |
| `Tunnels` | `StatusAll` and `ResolveInterface` of `vpn.go`, against NetworkManager and the kernel | |
| `Gui` | the window's polls, calls and rendering, the client and the routes between it and the daemon | |
| `MCPolicyRouting`, `MCEngine`, `MCClients`, `MCTunnels` | constants of the runs | |
| `PolicyRoutingProofs`, `EngineProofs`, `DnsmasqProofs`, `ConfigSchemaProofs`, `ClientsProofs`, `TunnelsProofs`, `GuiProofs` | theorems | extend the module and `TLAPS` |
| `EngineApplyProofs` | theorems about a whole apply or stop | extends `EngineProofs` |

### PolicyRouting

`ipRules`, `route`, `chain` and `links` are the kernel; `rt` is the call under
way: its function, the command it is at, its arguments, what it has still to do
and which parts reported an error. A command takes `ok`; FALSE is a command
that fails and changes nothing. Commands the kernel refuses (`ip rule add` of a
rule that exists, a route through an interface that is not up, `iptables -X` of
a chain in use) fail whatever `ok` says. The code sorts the keys it loops over;
the model takes them in any order, which includes that one.

A rule is its destination or mark, its table and, in the kernel, its priority.
`Listed` and `NamedTable` are what `ip -j rule show` prints: IPv4 rules only,
and names instead of numbers for the tables 253 to 255. `parseManagedRules`
(`Managed`) drops a rule whose table is not a number, so a rule into the main
table is installed and never recognised again.

Abstracted: the text of commands and listings; the gateway of a route; that a DNS server has a UDP
and a TCP entry in the chain, which are added one after the other and are one
entry here. The model starts from `Foreign`, the rules of other programs, none
of which is managed (the band is the package's own).

Assumed of configurations: networks are written without host bits, so that
`normalizeCIDR` changes nothing. Validate accepts `10.0.0.5/24` (`config.go:213`);
it is added as written (`pbr.go:163`), compared and deleted as `10.0.0.0/24`
(`pbr.go:178`), and whether the kernel takes the two for one rule cannot be read
off this repository.

### Engine

`cfg` and `disk` are the configuration in memory and in the file, with lists as
partial functions by name; `eng` says where the daemon is: idle, in an edit, in
one of the steps of `applyLocked` or `stopLocked`, or dead. Actions of the
engine call the routing manager by `CallReconcileRules`, `CallSyncDNSMarks` and
`CallCleanup`, whose commands are steps of `PolicyRouting`; `links` may change
and the daemon may die between any two. `seen` is the one observation of the
tunnels an apply works with.

`RulesMatch` is what an apply does for the rules, no more and no less: all that
is desired is in the kernel, and of our other rules none is but those no listing
shows (`Unlisted`: into the main table, or IPv6). Such a rule may be left from an
earlier configuration. `ApplyExact` and `Converged` are stated with it, the marks
of the chain (`MarksMatch`), the tables and the servers file.

`Requests` names the requests and disturbances an instance allows: `start`,
`stop`, `reload`, `enable`, `target`, `rule`, `dns`, `fallback`, `tunnels`,
`delete`, `tunnel` (SetTunnel) are clients; `link`, `edit`, `fault`, `crash`,
`reboot` and `settle` are the world.

A tunnel is named by its interface, so how a profile is resolved to one is not
in the model; `ObserveStatus` may miss any of them when commands fail, as
StatusAll does. `Mutate` is one step from the edit to the save, as no other
part of the state can be seen in between; `DeleteTunnel` is two, because it
runs a command inside the edit. Save replaces the file atomically, so a crash
leaves the old or the new one. `conf` is the servers file of dnsmasq, and
`Interrupted` what a DNS call that failed or died may have left of it;
`Dnsmasq` has the rest.

### Dnsmasq

Files are their contents: a listen address for the base file and the resolved
drop-in, a list of upstreams for the servers file. `dnsmasq` and `resolved` are
what the services have read: a restart reads everything, SIGHUP the servers
file only. A restart that fails leaves dnsmasq as it was or stopped. The caller
may die between any two calls, dnsmasq may die, the host may boot. `Changed` is
what `writeIfChanged` reports: a file that cannot be read is written again, and
reported, whatever it holds.

### DnsService and ConfigStore

`DnsService` is the contract of one call of the DNS manager, seen from its
caller: the servers file changes only inside a call and only to what the call
asks for, and a call without an error has brought it there. `Dnsmasq` implements
it (`KeepsDnsService`, with its state mapped by `ServiceState`); `Engine`, which
keeps of all the DNS files the servers file only, does nothing with that file
the contract does not allow (`UsesDnsService`). The two are composed through
it and not as one state space.

`ConfigStore` says what a client of the engine may count on: what is in force
is valid; an edit takes effect in memory and in the file at once or not at all;
whatever else comes into force was read from the file. It does not say that the
two agree: a hand edit is not noticed before Reload. `Engine` implements it
(`KeepsConfigStore`); there a save is one step, and `Clients` has its system
calls and a second process.

### ConfigSchema and Clients

A configuration is its tunnels, the target of one routing rule and of one DNS
rule, which is what tables and references between the parts need, and the list of
fallback resolvers, which is the one thing an edit can leave in force that Load
does not read back (`Filled`); `Engine` has the rules as such. A file is a configuration, a file of the old schema, no file,
or garbage, which includes a file cut short. `Read` is Load up to validation:
`Parse` (with `Migrate` for a version below 2, whatever the file holds) and then
`ApplyDefaults`. The loop of `migrate` is in closed form: a VPN that is not the
corporate one gets the corporate table plus the number of such VPNs up to it
(`OthersUpTo`), which is what `nextTable` has counted, and the rules go to the
last corporate VPN (`CorpName`).

`proc` has one record per process: `pc` is the next system call of New or Save,
`cfg` what the engine has in memory, `old` what `mutate` would roll back to,
`temp` the temporary file, which each process has under a name of its own.
`InForce` is what clients see, under the mutex: not an edit that is still being
saved. Write, Chmod and Close of the temporary file are one step, as nobody
else reads it. The daemon serves when it has its socket; a client of it is any
`Request`. A command line without a socket goes through `Connect`, `Open` and
one `Command`; with one it is a client. Any call may fail, either process may
die anywhere, the socket may be left behind, and a person may replace the file.

`raced` and `edited` are history: a direct command ran beside the daemon, the
file was changed by hand since the daemon read or wrote it. The engine's
configuration and the file then differ until Reload, as the code has it; InSync
and TablesStay are stated for the rest. InSync compares the file with `Refilled`,
what is in force with an empty list of resolvers replaced by the public ones:
SetFallback accepts the empty list and a restart does not bring it back. The
flag and the marker may differ after a start or stop that reported an error.

### Tunnels

`links` and `nm` are the kernel and NetworkManager, which connect and drop VPNs
between any two commands; two VPNs may use one interface name after another,
and an interface may outlive its connection or its connection it. `obs` is the
observation of one tick: the listing, and for each tunnel the interface it was
found on. An interface carries its owner (`of`) for the properties only; no
action of the daemon reads it. For a VPN, NetworkManager names
the interface it runs over, so the code looks for the one that has its address;
`NmDevice` follows it. An interface has its address from the moment it is up.

`ReportsItsOwn` is about the step that answers for one tunnel: the interface was
the profile's when it was listed, and if the profile has kept the only one it
had, it is that one. That the name is still the profile's when NetworkManager
answers is false of the code (below), so it is not stated.

Assumed (`TunnelsAssumption`): profiles do not share addresses, and a profile
that is a device has its interface for itself. Two VPNs that hand out one
address cannot be told apart by the code; that is a limit of it, not of the
model.

### Gui

The daemon is its list of DNS rules (`served`) and serves one request at a time:
`Execute` is an edit under the engine's mutex, `ReadState` the reading of the
state that every route replies with, under the mutex again, so another edit may
come between. `calls` are the goroutines of `call`, `refresh` and
`fetchProfiles`; `PollDone` and `CallDone` are what they leave to the UI thread,
run in any order. A caller gives up (`GiveUp`) when `callTimeout` runs out or
the daemon is gone; the handler of its edit may still be waiting for the mutex
and is kept in `orphans`. `switches` is what the rows show, which a click sets
before the daemon knows of it; `Render` sets them all, and `updating` keeps that
from sending anything. `OtherClient` is anybody else who edits.

A dropped DNS rule is sent again whole from the state last rendered (`DropDNS`),
so it undoes a change of the rule that was not yet rendered.

## Runs

All runs of a module share its definitions; they differ in constants and in the
requests allowed. All of them check deadlock.

| Run | Instance | Shows |
|---|---|---|
| RoutingRules | 1 destination, 1 DNS server, tables 200 and 201, up to 2 jumps | `RoutingTypeOK`, `ForeignUntouched`, `ReconcileExact`, `RoutingInv`, `MarksExact`, `CleanupIsolated`, `OnlyDifferencesTouched`, `AddBeforeDelete`, `CallReturns` |
| EngineFailClosed | 2 tunnels, 1 fail-closed rule; start, retarget, links, failures, crashes | `ArmedStaysArmed`, `ApplyExact` |
| EngineSplitDNS | 1 tunnel, 1 domain; start, stop, reload, edits of the DNS rule and the tunnel, links, failures, crashes, hand edits | `StopExact`, `ApplyExact`, `KeepsConfigStore`, `UsesDnsService` |
| EngineEdits | 1 tunnel, 2 tables, 1 rule; every edit of both, stop, reload, SetTunnel, crashes | `TypeOK`, `ApplyExact` |
| EngineRecovery | 1 tunnel, 1 rule, 1 domain; stop, reload, hand edits, failures, crashes, reboots, then calm | `Heals`, `HealsInOneApply` |
| DnsmasqCalls | 2 addresses, 2 lists | `DnsTypeOK`, `ApplyServesList`, `ApplyReadsWhatItWrote`, `CleanupKeepsOn`, `DnsInv`, `KeepsDnsService` |
| Clients | tables 200 to 202, 3 tunnels, 3 lists of resolvers, 9 files, 3 changes | `ClientsTypeOK`, `InSync`, `MigrationLoads`, `StaysLoadable`, `TablesStay` |
| Tunnels | 2 VPNs, 1 device profile, 3 configured tunnels, 4 interfaces | `TunnelsTypeOK`, `ReportsItsOwn`, `FoundInOneTick`, `PickedUp` |
| GuiWindow | 1 domain, 1 tunnel, 2 calls under way, 1 abandoned edit | `GuiTypeOK`, `OnePoll`, `PollShows`, `Settles` |

The bounds are enough for the cases that matter: two tables and one destination
are what a move of a destination needs; a second destination adds the same
steps again. Two tunnels are needed for a retarget. Two jumps are the first
case a check for one jump gets wrong; `MaxJumps` stops a failing `iptables -C`
from stacking more. Two addresses and two lists make every file differ from
what an earlier call left. Two calls are a poll beside an edit, or two edits, whose
replies overtake each other; one abandoned edit is enough to arrive after the
poll that followed its error. In Clients three tables make the fourth draft
one too many, and let a tunnel without a table collide with one that names it;
`MaxChanges` is three requests, commands or edits by hand, which is an edit, an
edit that undoes it and a reload, or a request, a direct command and another
request; failures, deaths and restarts are not counted. The files are those the
schema treats differently: none, garbage, old ones that migrate and that cannot,
current ones with tables left out, clashing, and without a version. In Tunnels
two VPNs that draw from the names `tun0` and `tun1`, one of them not configured,
are what a mistaken interface needs, and a manual tunnel takes the first that
looks like one. No other quantity grows.

Runs that expect a violation state what a comment or the README promises, and
TLC shows the code doing otherwise; PROJECT.json quotes the lines.

| Run | What is promised | What happens |
|---|---|---|
| RoutingCleanupRemovesEveryTrace | `pbr.go:353` | rules into the main table stay, without an error |
| EngineStopLeavesNoRoute | `engine.go:373` | the route in a tunnel's former table stays |
| DnsmasqApplyConverges | `dnsmasq.go:136` | after an Apply that died with the base file written, the next one only reloads a dnsmasq that has never read it, without an error |

Other places where the model, which follows the code, does not do what a text
of the repository says; no run is spent on them:

* `pbr.go:205`, "a destination stays reachable through the old rule until its
  replacement is in place": the deletes run whatever became of the adds, so
  after a failing add the old rule goes and the destination has none.
  `AddBeforeDelete` is stated for calls in which no command has failed.
* `pbr.go:296`, "repeated calls cannot stack duplicates": an `iptables -C` that
  fails for any reason reads as "not hooked", and a second jump is appended.
* `engine.go:293`, "safe to call repeatedly": a rule into the main table, or an
  IPv6 one, is not in the listing, so every later apply adds it again and
  reports the kernel's refusal.
* `engine.go:293`, "Apply converges the system on the current config": let a rule
  target `direct` and then a fail-closed tunnel. The apply adds the rule into the
  tunnel's table and reports no error; the one into the main table is not listed,
  so it stays, at the same preference and before the new one, and the traffic
  leaves by the main table. `ApplyExact` and `Converged` allow it, by `Unlisted`;
  EngineEdits has these behaviours.
* `README_ENG.md:27`, "never leaks": a retarget of a fail-closed rule empties
  the old table (`engine.go:313`) before the new rule is installed, and a query
  in between finds neither; between the loss of an interface and the next tick
  the table is empty; and nothing fills the IPv6 side of a table.
* `engine.go:574`, "before any system state is touched": DeleteTunnel flushes
  before the edit is validated.
* `engine.go:596`, "discarding nothing that was saved": an empty fallback list
  comes back as the default (`config.go:295`), after a Reload or a restart; the
  first exception of `InSync`.
* `vpn.go:133`, "would hand the tunnel's routes to an unrelated VPN", and
  `vpn.go:176`, "the only trustworthy way back to the real interface": the
  interfaces are listed before NetworkManager is asked. When a VPN drops and comes
  back on another interface with its old address, and another VPN has taken the
  name it had, all between the two commands, the tunnel is reported on that name.
  The same goes for an interface that an earlier connection left behind with the
  address and that sorts first. The next observation has it right
  (`FoundInOneTick`).
* `dnsmasq.go:136` again: systemd-resolved is restarted only when this call wrote
  its drop-in, so an interrupted Apply leaves it unrestarted in the same way.
* `main.go:143`, "the CLI works whether or not the daemon is running": a socket
  that a crash has left behind turns every command away until the daemon is
  back.
* `config.go:265`: a current file without its version line is migrated as an old
  one, which finds no VPNs in it, and New saves the empty result over it.
* `config.go:303`: a tunnel without a table gets 200 and its place in the list,
  and Load fails if another names that table.
* `config.go:390`: with a corporate table of 252 another VPN gets 253, which
  Validate rejects; so are two corporate VPNs, which get one table, and networks
  without a corporate VPN, whose rule targets `corp`. The test that skips the
  corporate table can never be true, as `nextTable` starts there and grows.
* `main.go:209`: a direct command that overlaps the start of the daemon saves an
  edit the daemon does not have, and the daemon's next edit undoes it.
* `dual-vpn-gui/main.go:882` compares a profile's device with an interface; for
  a VPN that is the interface it runs over, so its own is offered once more as
  a manual tunnel.

## Fairness

`FairRoutingSpec`: the call under way takes its next step. Commands end, with
or without an error; one that hangs is outside the model, and the code sets no
timeout for it.

`Fairness` of the engine: its next step is taken; the ticker ticks (every
`reconcileInterval`, `cmd/dual-vpn/main.go:122`), which is weak fairness of
`Apply`, enabled whenever the mutex is free; systemd restarts the daemon
(`Restart=on-failure`, and `WantedBy` after a reboot). Nothing is assumed of
clients, links or files. `Heals` is about behaviours that grow calm: from
`Settle` on commands succeed and nobody disturbs the daemon. Without that no
repair could be expected, and before it anything may happen any number of times.

`Fairness` of Tunnels: the daemon observes at every tick and its commands
return; an interface that is coming up gets its address and NetworkManager shows
it; an interface whose connection has ended goes. Nothing is assumed of VPNs
connecting. `PickedUp` is about behaviours in which they are left alone from
`Settle` on.

`FairGuiSpec`: the daemon serves every request and the main loop runs every
callback, each weakly fair per call, and the timer of `activate` ticks every
`refreshInterval`. `Settles` is again about behaviours that grow calm: from
`Settle` on nothing fails, nobody edits, and requests that were sent are served.

## Proofs

* `PolicyRoutingProofs!RoutingSafety`: `RoutingTypeOK`, `RoutingInv`,
  `ForeignUntouched`, `ReconcileExact`, `MarksExact` and `CleanupIsolated` are invariants of
  `RoutingSpec`. What they say of rules they say of those a listing shows; a
  cleanup without an error may leave others. A property of a call's end is not inductive; `RoutingInv` adds
  what the call knows at each command: which part of the desired rules is in
  the kernel already, that whatever is listed is desired or still to be
  deleted, that a mark is in the chain or still to be added. `Inv`, the
  conjunction with the type invariant and `ForeignUntouched`, is inductive; one
  lemma per action, with commands that leave the rules alone grouped.
  From it follow `ReconcileTouchesDifferences` and
  `ReconcileAddsBeforeItDeletes`, two action properties.
  `PriorityOrdersSpecificFirst` is arithmetic over all prefix lengths.
* `EngineProofs!EngineUsesRouting`: the engine implements the routing manager:
  each of its steps is a step of `RoutingNext` or leaves the kernel alone. The
  theorems above hold of the engine by it. `EngineType` is `TypeOK`: its
  inductive form `EngineInv` adds the routing manager's `Inv`, that the tables
  still to be visited are those of configured tunnels, and which routing call
  may be under way at which step (`Calling`).
* `EngineProofs!FailClosedHolds`: `ArmedStaysArmed`. The argument is that
  ReconcileRules never removes a rule that is desired and that a fail-closed
  rule is desired whatever was observed (`LiveRules`), so every call of it
  during an apply wants the rule (`Calling`); that the table loop replaces a
  route or puts the blackhole there and flushes only a table no fail-closed
  rule selects; and that a dead daemon does nothing. DeleteTunnel's flush is
  harmless as no rule targets the tunnel and no two tunnels share a table,
  which is where `Valid(cfg)` is needed. `FlagsInv` keeps the flags Boolean.
* `EngineApplyProofs!ApplyIsExact`, `StopIsExact`: `ApplyExact` and `StopExact`.
  Both speak of the end of a request; rules no listing shows are excepted in
  both. `ExactInv` says what each step before it
  has achieved as long as none failed (`ApplyInv`, `StopInv`): the tables that
  were visited are settled, then the marks, then the rules, then the servers
  file. An interface that goes takes its route along, so a settled table may be
  empty. `CallInForce` is kept also when steps fail, as a cleanup reports its
  errors only at its end: that the calls of the routing manager were asked for
  what the configuration says, and which tables a cleanup has emptied.
* `EngineApplyProofs!OneApplyHeals`: `HealsInOneApply`, the safety half of
  `Heals`, for what `Converged` says: a rule no listing shows may be left, and
  while SyncDNSMarks runs the marks are being flushed and added again. `Healing`
  is what an apply that began in calm has been through, `Healed` that rules,
  tables and the servers file are right (`Repaired`) and an apply under way has
  seen it so; `MarksHealing` and `MarksHealed` are the same for the chain. The
  rules are followed through each command of ReconcileRules and without regard
  to errors: a rule the listing does not name is added again and refused at every
  apply, so in a system with such a rule every apply reports an error and yet has
  done its work. The theorem is a box within a box: `Healing` is kept until the
  apply is done, is then `Healed`, and `Healed` is kept by every step; likewise
  for the marks.
* `DnsmasqProofs!DnsSafety`: the type invariant, `DnsInv`, which is inductive with
  it, and the three promises of Apply and Cleanup that follow from it.
* `EngineProofs!EngineStores` and `EngineUsesDns`, `DnsmasqProofs!DnsmasqServes`:
  the three refinements, each by mapping the initial states and then every action
  to a step of the abstract specification or a stutter. Each
  takes its inductive invariant along (`EngineInv` and `FlagsInv` for the engine,
  `Inv` for the DNS manager): that the configuration in force is valid, and that
  a call which reports no error has written what it was asked to.
* `ClientsProofs`: `ClientsType`, `ClientsInSync`, `FileStaysLoadable` and
  `TunnelsKeepTheirTables`. Lemmas about the schema come first: what is good is
  read back as it is but for an empty list of resolvers (`GoodReadsBack`), what Load returns is good
  (`LoadedIsGood`), edits leave a configuration in form. `Inv` says that only
  good configurations are in memory, that only whole files are renamed, and
  (`SyncInv`) that unless `raced` nobody but the daemon touches the marker, and
  unless `edited` the file either; one lemma per action. For tables `TablesInv`
  adds that an edit being saved keeps the tables of the others (`Keeps`), and
  that the tunnels of the file are those the daemon has or had in force, also
  while it is down and commands edit the file directly; that is why a restart or
  a second migration finds them. `OldFilesMigrate` is `MigrationLoads`, for files
  with any number of VPNs. The prover cannot do induction over a list, so it is
  done by counting: `OthersUpTo` is the size of a set that grows with each VPN
  that is not corporate, hence their tables are apart, and which lacks the
  corporate one, hence the last table is that many on
  (`ConfigSchemaProofs!MigrationSpreadsTables`); then Validate accepts what
  `Migrate` made of a `Proper` file (`ProperLoads`). `ParseInForm` is what the
  other theorems need of files that are not `Proper`.
* `TunnelsProofs!TunnelsType`, `TunnelsReportTheirOwn`, `TunnelsFound`: every
  interface of a listing belongs to a profile that may get it, with an address of
  that profile (`Listing`), at whatever moment it was listed; so what NetworkManager
  says later leads to an interface that was the same profile's or to none, and to
  the current one if the listing had no other of that profile (`ReportsItsOwn`).
  `Least`, that a set of numbers has a least one, is needed for the first interface
  by name.
  `TunnelsFound` is `FoundInOneTick`, the safety half of `PickedUp`: in a `Steady`
  state only the daemon acts, so an observation that begins is `Found` at each
  tunnel. It needs that an interface which is its profile's current one has no
  address but the current one (`AddrInv`: a profile connects over an interface that
  was not there), hence the address NetworkManager shows is on one interface only.
* `GuiProofs!GuiType`, `GuiPollsOnce`, `GuiPollShows`. `GuiInv` has what a call may
  be like at each stage (`CallOK`, per slot, since a step changes one slot at most)
  and, for the flag, `PollInv`: a poll raises it, no two slots have one, and
  the flag has a poll to wait for. The number of polls follows by cardinality.
  `PollShows` is the safety half of `Settles`: `Quiet`, that no answer under way
  is older than the daemon, is inductive once nobody edits.

The assumptions are the ones named in the modules: table ids of tunnels are
1 to 252 (Validate), prefixes at most 128, another program has no rule that
`parseManagedRules` would adopt, the fixed values are distinct, initial
configurations are valid and in `Config`, the files of Clients are configurations
or old files in form (`Files`), valid or not, the texts of a file include the
fixed ones of the code, and DefaultConfig is valid; for Tunnels see above.

Model-checked only: the liveness properties `CallReturns`, `Heals`, `PickedUp`
and `Settles`, which are out of the prover's reach. Of the last three what is left
to TLC is that the apply, the observation and the poll come, and that VPNs left
alone become steady; what is achieved then is proved. Every other property of a passing run is a theorem. The runs that expect
a violation have nothing to prove.

## Not modelled

* One kernel under two engines: Clients has two processes on one file and one
  marker, but not what a direct command and a starting daemon do to each other's
  rules and tables.
* The GUI's tunnels, routing rules and master switch, which go through the same
  call and rendering as its DNS rules; the lists of its dialogs, which are read
  once and never written.
* The gateway of a tunnel and the listings of profiles in `vpn.go`: pure reading
  and parsing of what `nmcli` and `ip` print.
* HTTP and JSON between client and server.
* Temporary files that a death leaves behind, which nothing reads; and power
  loss, as Save does not sync the file before the rename.
* The packaging. The text of files and commands is abstracted everywhere.

## Plan

1. Done: `PolicyRouting`, `Engine`, `Dnsmasq`, `Gui`, `ConfigSchema`, `Clients`,
   `Tunnels`, the two abstract specifications, their runs, refinements and
   theorems.
2. Done: theorems for every safety property of a passing run, and for the safety
   half of `Heals`, `Settles` and `PickedUp`. Left: how many commands a call of the
   routing manager can still have before it, which bounds `CallReturns`.
3. Two engines over one kernel: `PolicyRouting` with two calls under way, for a
   direct command beside a starting daemon.
4. The GUI's routing rules and master switch beside its DNS rules.
