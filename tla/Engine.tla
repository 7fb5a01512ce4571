------------------------------- MODULE Engine --------------------------------
(***************************************************************************)
(* The engine, src/internal/engine/engine.go, over the routing manager of  *)
(* PolicyRouting: what the daemon does under its mutex, one command of the *)
(* system at a time, with the config file, the active marker, clients,     *)
(* tunnels that come and go, failing commands, crashes and reboots around. *)
(*                                                                         *)
(* A tunnel is named by the interface it resolves to.  The gateway, the    *)
(* profile and the kind of a tunnel are left out; a manual tunnel is one   *)
(* whose Up and Down fail.                                                 *)
(***************************************************************************)
EXTENDS PolicyRouting

CONSTANTS
  RuleId,           \* ids of routing rules
  Domain,           \* domains with a DNS rule
  Direct,           \* the target "direct", also a DNS rule without a tunnel
  DefaultFallback,  \* the resolvers applyDefaults puts into an empty list
  InitialConfigs,   \* what the config file may hold at first
  Edits,            \* what a user may write into it by hand
  Requests,         \* the requests and disturbances of this instance
  NoConf            \* there is no servers file for dnsmasq

ASSUME DirectAssumption == Direct \notin Device

-----------------------------------------------------------------------------
(* Configurations: config.Config with its lists as partial functions.       *)

Target == Device \cup {Direct}

Rule == [target : Target, cidrs : SUBSET Cidr, enabled : BOOLEAN, failClosed : BOOLEAN]

DNSRule == [servers : SUBSET Server, via : Target, enabled : BOOLEAN]

Partial(K, V) == UNION {[S -> V] : S \in SUBSET K}

Config == [tunnels : Partial(Device, TableId), rules : Partial(RuleId, Rule),
           dns : Partial(Domain, DNSRule), fallback : SUBSET Server]

Put(f, k, v) == [x \in DOMAIN f \cup {k} |-> IF x = k THEN v ELSE f[x]]
Drop(f, k) == [x \in DOMAIN f \ {k} |-> f[x]]

\* Validate, for what a Config can express: tables are in range and not shared,
\* targets are known, no list that must not be empty is.
Valid(c) ==
  LET known == DOMAIN c.tunnels \cup {Direct} IN
  /\ \A n, m \in DOMAIN c.tunnels : c.tunnels[n] = c.tunnels[m] => n = m
  /\ \A n \in DOMAIN c.tunnels : c.tunnels[n] \in TableId
  /\ \A i \in DOMAIN c.rules : c.rules[i].target \in known /\ c.rules[i].cidrs # {}
  /\ \A d \in DOMAIN c.dns : c.dns[d].via \in known /\ c.dns[d].servers # {}

\* Load: the file with applyDefaults.
Load(c) == [c EXCEPT !.fallback = IF @ = {} THEN DefaultFallback ELSE @]

ASSUME ConfigsAssumption ==
  /\ InitialConfigs \cup Edits \subseteq Config
  /\ \A c \in InitialConfigs : Valid(c)
  /\ DefaultFallback \subseteq Server

-----------------------------------------------------------------------------
VARIABLES
  cfg,        \* the configuration in memory
  disk,       \* the configuration file
  marker,     \* the active marker file exists
  active,     \* Engine.active
  lastError,  \* Engine.lastError is not empty
  conf,       \* the servers file of dnsmasq
  eng,        \* what the engine is doing
  calm        \* nothing fails, and nobody disturbs the daemon, from now on

ownVars == <<cfg, disk, marker, active, lastError, conf, eng, calm>>
vars == <<links, route, ipRules, chain, rt,
          cfg, disk, marker, active, lastError, conf, eng, calm>>

\* seen: the tunnels StatusAll reported routable.  todo: the tunnels the table
\* loop has still to visit, or the one that is being deleted.
At(pc) == [pc |-> pc, seen |-> {}, todo |-> {}, failed |-> FALSE]

Goto(pc) == eng' = [eng EXCEPT !.pc = pc]
Then(pc, failed) == eng' = [eng EXCEPT !.pc = pc, !.failed = @ \/ failed]

Tunnels == DOMAIN cfg.tunnels

\* desired: the rules that are to be installed for what was observed.
LiveRules(seen) ==
  {i \in DOMAIN cfg.rules :
     /\ cfg.rules[i].enabled
     /\ \/ cfg.rules[i].target = Direct
        \/ /\ cfg.rules[i].target \in Tunnels
           /\ cfg.rules[i].target \in seen \/ cfg.rules[i].failClosed}

TableOf(target) == IF target = Direct THEN MainTable ELSE cfg.tunnels[target]

DesiredMarks(seen) ==
  UNION {[server : cfg.dns[d].servers, mark : {cfg.tunnels[cfg.dns[d].via]}] :
           d \in {d \in DOMAIN cfg.dns : /\ cfg.dns[d].enabled
                                         /\ cfg.dns[d].via \in seen \cap Tunnels}}

DesiredRules(seen) ==
  {ToRule(x[2], TableOf(cfg.rules[x[1]].target)) :
     x \in {x \in LiveRules(seen) \X Cidr : x[2] \in cfg.rules[x[1]].cidrs}}
  \cup {MarkRule(m.mark) : m \in DesiredMarks(seen)}

DesiredConf ==
  [entries |-> {<<d, cfg.dns[d].servers>> : d \in {d \in DOMAIN cfg.dns : cfg.dns[d].enabled}},
   fallback |-> cfg.fallback]

\* tunnelHasFailClosed
HasFailClosed(n) ==
  \E i \in DOMAIN cfg.rules : /\ cfg.rules[i].enabled
                              /\ cfg.rules[i].failClosed
                              /\ cfg.rules[i].target = n

\* applyLocked does nothing while the router is stopped.
Begin(on) == eng' = IF on THEN At("status") ELSE At("idle")

Init ==
  /\ RoutingInit
  /\ disk \in InitialConfigs
  /\ cfg = Load(disk)
  /\ marker = FALSE /\ active = FALSE
  /\ lastError = FALSE
  /\ conf = NoConf
  /\ eng = At("dead")
  /\ calm = FALSE

Outcomes == IF calm \/ "fault" \notin Requests THEN {TRUE} ELSE BOOLEAN

\* A client's request, served when the mutex is free.
Asked(request) == eng.pc = "idle" /\ ~calm /\ request \in Requests

-----------------------------------------------------------------------------
(* Requests. *)

\* (Mutant: a config that could not be saved stays in memory.)
MutateUnsaved(new, ok) ==
  /\ Valid(new)
  /\ cfg' = new
  /\ disk' = IF ok THEN new ELSE disk
  /\ Begin(active /\ ok)
  /\ UNCHANGED <<routingVars, marker, active, lastError, conf, calm>>

\* (Mutant: an edit that Validate rejects is not rolled back.)
MutateNotRolledBack(new, ok) ==
  /\ cfg' = new
  /\ IF Valid(new) /\ ok THEN disk' = new /\ Begin(active)
                         ELSE eng' = At("idle") /\ UNCHANGED disk
  /\ UNCHANGED <<routingVars, marker, active, lastError, conf, calm>>

\* mutate: the edited config is validated and saved, then applied, or else
\* rolled back.
Mutate(new, ok) ==
  /\ IF Valid(new) /\ ok
       THEN cfg' = new /\ disk' = new /\ Begin(active)
       ELSE eng' = At("idle") /\ UNCHANGED <<cfg, disk>>
  /\ UNCHANGED <<routingVars, marker, active, lastError, conf, calm>>

SetRuleEnabled(i, on, ok) ==
  /\ Asked("enable") /\ i \in DOMAIN cfg.rules
  /\ Mutate([cfg EXCEPT !.rules[i].enabled = on], ok)

SetRuleTarget(i, t, ok) ==
  /\ Asked("target") /\ i \in DOMAIN cfg.rules
  /\ Mutate([cfg EXCEPT !.rules[i].target = t], ok)

UpsertRule(i, r, ok) ==
  /\ Asked("rule")
  /\ Mutate([cfg EXCEPT !.rules = Put(@, i, r)], ok)

DeleteRule(i, ok) ==
  /\ Asked("rule") /\ i \in DOMAIN cfg.rules
  /\ Mutate([cfg EXCEPT !.rules = Drop(@, i)], ok)

SetDNSRuleEnabled(d, on, ok) ==
  /\ Asked("dns") /\ d \in DOMAIN cfg.dns
  /\ Mutate([cfg EXCEPT !.dns[d].enabled = on], ok)

UpsertDNSRule(d, r, ok) ==
  /\ Asked("dns")
  /\ Mutate([cfg EXCEPT !.dns = Put(@, d, r)], ok)

DeleteDNSRule(d, ok) ==
  /\ Asked("dns") /\ d \in DOMAIN cfg.dns
  /\ Mutate([cfg EXCEPT !.dns = Drop(@, d)], ok)

SetFallback(servers, ok) ==
  /\ Asked("fallback")
  /\ Mutate([cfg EXCEPT !.fallback = servers], ok)

\* freeTableID, over the tables of this instance; 0 if none is free.
FreeTableID ==
  LET free == TableId \ {cfg.tunnels[n] : n \in Tunnels}
  IN  IF free = {} THEN 0 ELSE CHOOSE t \in free : \A u \in free : t <= u

\* A table 0 keeps the tunnel's table, or takes a free one for a new tunnel.
UpsertTunnel(n, t, ok) ==
  LET table == IF t # 0 THEN t
               ELSE IF n \in Tunnels THEN cfg.tunnels[n] ELSE FreeTableID
  IN  /\ Asked("tunnels")
      /\ Mutate([cfg EXCEPT !.tunnels = Put(@, n, table)], ok)

\* DeleteTunnel flushes the table as part of the edit, before it is validated.
DeleteTunnel(n, ok) ==
  /\ Asked("delete") /\ n \in Tunnels
  /\ \A i \in DOMAIN cfg.rules : cfg.rules[i].target # n
  /\ FlushTable(cfg.tunnels[n], ok)
  /\ eng' = [At("delete") EXCEPT !.todo = {n}]
  /\ UNCHANGED <<cfg, disk, marker, active, lastError, conf, calm>>

CommitDelete(ok) ==
  /\ eng.pc = "delete"
  /\ \E n \in eng.todo : Mutate([cfg EXCEPT !.tunnels = Drop(@, n)], ok)

\* setActive(TRUE), then apply; an error of the marker, which may have been created all
\* the same, ends the request.
Start(ok) ==
  /\ Asked("start")
  /\ active' = TRUE
  /\ marker' \in IF ok THEN {TRUE} ELSE {marker, TRUE}
  /\ Begin(ok)
  /\ UNCHANGED <<routingVars, cfg, disk, lastError, conf, calm>>

Stop ==
  /\ Asked("stop")
  /\ eng' = At("cleanup")
  /\ UNCHANGED <<routingVars, cfg, disk, marker, active, lastError, conf, calm>>

Reload(ok) ==
  /\ Asked("reload")
  /\ ok /\ Valid(disk)
  /\ cfg' = Load(disk)
  /\ Begin(active)
  /\ UNCHANGED <<routingVars, disk, marker, active, lastError, conf, calm>>

\* Up and Down hold the mutex until the command returns.  Whether or not it reports an
\* error the link may have changed by then; after an error nothing is applied.
SetTunnel(n, up, ok) ==
  /\ Asked("tunnel") /\ n \in Tunnels
  /\ \/ up /\ LinkUp(n)
     \/ ~up /\ LinkDown(n)
     \/ UNCHANGED routingVars
  /\ IF ok THEN Begin(active) /\ UNCHANGED lastError
           ELSE lastError' = TRUE /\ UNCHANGED eng
  /\ UNCHANGED <<cfg, disk, marker, active, conf, calm>>

Request(ok) ==
  \/ \E i \in RuleId, on \in BOOLEAN : SetRuleEnabled(i, on, ok)
  \/ \E i \in RuleId, t \in Target : SetRuleTarget(i, t, ok)
  \/ \E i \in RuleId, r \in Rule : UpsertRule(i, r, ok)
  \/ \E i \in RuleId : DeleteRule(i, ok)
  \/ \E d \in Domain, on \in BOOLEAN : SetDNSRuleEnabled(d, on, ok)
  \/ \E d \in Domain, r \in DNSRule : UpsertDNSRule(d, r, ok)
  \/ \E d \in Domain : DeleteDNSRule(d, ok)
  \/ \E servers \in SUBSET Server : SetFallback(servers, ok)
  \/ \E n \in Device, t \in TableId \cup {0} : UpsertTunnel(n, t, ok)
  \/ \E n \in Device : DeleteTunnel(n, ok)
  \/ Start(ok)
  \/ Stop
  \/ Reload(ok)
  \/ \E n \in Device, up \in BOOLEAN : SetTunnel(n, up, ok)

\* (Mutant: an error is left for a person to look at.)
ApplyUnlessFailed ==
  /\ eng.pc = "idle"
  /\ Begin(active /\ ~lastError)
  /\ UNCHANGED <<routingVars, cfg, disk, marker, active, lastError, conf, calm>>

\* The ticker of the daemon, and the Apply request.
Apply ==
  /\ eng.pc = "idle"
  /\ Begin(active)
  /\ UNCHANGED <<routingVars, cfg, disk, marker, active, lastError, conf, calm>>

-----------------------------------------------------------------------------
(* applyLocked *)

\* StatusAll.  Without a listing of the interfaces every tunnel is reported
\* down; a profile NetworkManager does not answer for is reported down alone.
ObserveStatus ==
  /\ eng.pc = "status"
  /\ \E lost \in IF Outcomes = BOOLEAN THEN SUBSET Tunnels ELSE {{}} :
       eng' = [eng EXCEPT !.pc = "tables", !.todo = Tunnels,
                          !.seen = (Tunnels \cap links) \ lost]
  /\ UNCHANGED <<routingVars, cfg, disk, marker, active, lastError, conf, calm>>

\* (Mutant: the table of a tunnel that is down is emptied first.)
SyncTableFlushed(ok) ==
  /\ eng.pc = "tables"
  /\ \E n \in eng.todo :
       /\ IF n \in eng.seen THEN SetTableDefault(cfg.tunnels[n], n, ok)
                            ELSE FlushTable(cfg.tunnels[n], ok)
       /\ eng' = [eng EXCEPT !.todo = @ \ {n}]
  /\ UNCHANGED <<cfg, disk, marker, active, lastError, conf, calm>>

\* (Mutant: the errors of the table loop are dropped.)
SyncTableSilently(ok) ==
  /\ eng.pc = "tables"
  /\ \E n \in eng.todo :
       /\ \/ n \in eng.seen /\ SetTableDefault(cfg.tunnels[n], n, ok)
          \/ /\ n \notin eng.seen /\ HasFailClosed(n)
             /\ SetTableBlackhole(cfg.tunnels[n], ok)
          \/ /\ n \notin eng.seen /\ ~HasFailClosed(n)
             /\ FlushTable(cfg.tunnels[n], ok)
       /\ eng' = [eng EXCEPT !.todo = @ \ {n}]
  /\ UNCHANGED <<cfg, disk, marker, active, lastError, conf, calm>>

\* The table of one tunnel: through its interface, or dropping, or empty.
SyncTable(ok) ==
  /\ eng.pc = "tables"
  /\ \E n \in eng.todo :
       /\ \/ n \in eng.seen /\ SetTableDefault(cfg.tunnels[n], n, ok)
          \/ /\ n \notin eng.seen /\ HasFailClosed(n)
             /\ SetTableBlackhole(cfg.tunnels[n], ok)
          \/ /\ n \notin eng.seen /\ ~HasFailClosed(n)
             /\ FlushTable(cfg.tunnels[n], ok)
       /\ eng' = [eng EXCEPT !.todo = @ \ {n},
                             !.failed = @ \/ ~ok \/ (n \in eng.seen /\ n \notin links)]
  /\ UNCHANGED <<cfg, disk, marker, active, lastError, conf, calm>>

EndTableLoop ==
  /\ eng.pc = "tables" /\ eng.todo = {}
  /\ Goto("marks")
  /\ UNCHANGED <<routingVars, cfg, disk, marker, active, lastError, conf, calm>>

\* (Mutant: an error of SyncDNSMarks is dropped.)
SyncMarksSilently ==
  /\ eng.pc = "marks"
  /\ \/ CallSyncDNSMarks(DesiredMarks(eng.seen)) /\ UNCHANGED eng
     \/ Return /\ Goto("rules")
  /\ UNCHANGED <<cfg, disk, marker, active, lastError, conf, calm>>

SyncMarks ==
  /\ eng.pc = "marks"
  /\ \/ CallSyncDNSMarks(DesiredMarks(eng.seen)) /\ UNCHANGED eng
     \/ Return /\ Then("rules", rt.errs # {})
  /\ UNCHANGED <<cfg, disk, marker, active, lastError, conf, calm>>

SyncRules ==
  /\ eng.pc = "rules"
  /\ \/ CallReconcileRules(DesiredRules(eng.seen)) /\ UNCHANGED eng
     \/ Return /\ Then("dns", rt.errs # {})
  /\ UNCHANGED <<cfg, disk, marker, active, lastError, conf, calm>>

\* The servers file after a dns.Apply or a dns.Cleanup that did not get to its end.
Interrupted == CASE eng.pc = "dns"     -> {conf, DesiredConf}
                 [] eng.pc = "dnsdown" -> {conf, NoConf}
                 [] OTHER              -> {conf}

\* (Mutant: an error of dns.Apply is dropped.)
ApplyDNSSilently(ok) ==
  /\ eng.pc = "dns"
  /\ conf' \in IF ok THEN {DesiredConf} ELSE Interrupted
  /\ Goto("applied")
  /\ UNCHANGED <<routingVars, cfg, disk, marker, active, lastError, calm>>

\* dns.Apply, which Dnsmasq has in full.
ApplyDNS(ok) ==
  /\ eng.pc = "dns"
  /\ conf' \in IF ok THEN {DesiredConf} ELSE Interrupted
  /\ Then("applied", ~ok)
  /\ UNCHANGED <<routingVars, cfg, disk, marker, active, lastError, calm>>

-----------------------------------------------------------------------------
(* stopLocked *)

\* (Mutant: an error of the routing cleanup is dropped.)
CleanupSilently ==
  /\ eng.pc = "cleanup"
  /\ \/ CallCleanup({cfg.tunnels[n] : n \in Tunnels}) /\ UNCHANGED eng
     \/ Return /\ Goto("dnsdown")
  /\ UNCHANGED <<cfg, disk, marker, active, lastError, conf, calm>>

Cleanup ==
  /\ eng.pc = "cleanup"
  /\ \/ CallCleanup({cfg.tunnels[n] : n \in Tunnels}) /\ UNCHANGED eng
     \/ Return /\ Then("dnsdown", rt.errs # {})
  /\ UNCHANGED <<cfg, disk, marker, active, lastError, conf, calm>>

CleanupDNS(ok) ==
  /\ eng.pc = "dnsdown"
  /\ conf' \in IF ok THEN {NoConf} ELSE Interrupted
  /\ Then("deactivate", ~ok)
  /\ UNCHANGED <<routingVars, cfg, disk, marker, active, lastError, calm>>

\* setActive(FALSE): the flag falls whether or not the marker can be removed.
Deactivate(ok) ==
  /\ eng.pc = "deactivate"
  /\ active' = FALSE
  /\ marker' = (marker /\ ~ok)
  /\ Then("stopped", ~ok)
  /\ UNCHANGED <<routingVars, cfg, disk, lastError, conf, calm>>

\* The end of an apply or of a stop.
Finish ==
  /\ eng.pc \in {"applied", "stopped"}
  /\ lastError' = eng.failed
  /\ eng' = At("idle")
  /\ UNCHANGED <<routingVars, cfg, disk, marker, active, conf, calm>>

\* One command of what the daemon is doing.
DaemonStep(ok) ==
  \/ CommitDelete(ok)
  \/ ObserveStatus
  \/ SyncTable(ok)
  \/ EndTableLoop
  \/ SyncMarks
  \/ SyncRules
  \/ RoutingStep(ok) /\ UNCHANGED ownVars
  \/ ApplyDNS(ok)
  \/ Cleanup
  \/ CleanupDNS(ok)
  \/ Deactivate(ok)
  \/ Finish

-----------------------------------------------------------------------------
(* The world around the daemon. *)

Disturbed(by) == ~calm /\ by \in Requests

\* The daemon dies, between two commands of whatever it is doing.
Crash ==
  /\ Disturbed("crash") /\ eng.pc # "dead"
  /\ Abort
  /\ eng' = At("dead") /\ active' = FALSE /\ lastError' = FALSE
  /\ conf' \in Interrupted
  /\ UNCHANGED <<cfg, disk, marker, calm>>

HostReboot ==
  /\ Disturbed("reboot")
  /\ Reboot
  /\ eng' = At("dead") /\ active' = FALSE /\ lastError' = FALSE
  /\ conf' \in Interrupted
  /\ UNCHANGED <<cfg, disk, marker, calm>>

\* systemd starts the daemon: New loads the file and the marker, then runDaemon
\* applies once.  With a file it cannot load it exits, to be started again.
Restart ==
  /\ eng.pc = "dead"
  /\ IF Valid(disk)
       THEN cfg' = Load(disk) /\ active' = marker /\ Begin(marker)
       ELSE UNCHANGED <<cfg, active, eng>>
  /\ UNCHANGED <<routingVars, disk, marker, lastError, conf, calm>>

EditFile ==
  /\ Disturbed("edit")
  /\ disk' \in Edits
  /\ UNCHANGED <<routingVars, cfg, marker, active, lastError, conf, eng, calm>>

LinkChange ==
  /\ Disturbed("link")
  /\ \E n \in Device : LinkUp(n) \/ LinkDown(n)
  /\ UNCHANGED ownVars

\* From here on the daemon is left alone and its commands succeed.
Settle ==
  /\ Disturbed("settle")
  /\ calm' = TRUE
  /\ UNCHANGED <<routingVars, cfg, disk, marker, active, lastError, conf, eng>>

World == Crash \/ HostReboot \/ EditFile \/ LinkChange \/ Settle

Next ==
  \/ \E ok \in Outcomes : Request(ok) \/ DaemonStep(ok)
  \/ Apply
  \/ Restart
  \/ World

Spec == Init /\ [][Next]_vars

\* The daemon's commands return, its ticker ticks, and systemd restarts it.
Fairness ==
  /\ WF_vars(\E ok \in Outcomes : DaemonStep(ok))
  /\ WF_vars(Apply)
  /\ WF_vars(Restart)

FairSpec == Spec /\ Fairness

-----------------------------------------------------------------------------
(* Properties. *)

EngineFrame == [pc : {"idle", "delete", "status", "tables", "marks", "rules", "dns", "applied",
                      "cleanup", "dnsdown", "deactivate", "stopped", "dead"},
                seen : SUBSET Device, todo : SUBSET Device, failed : BOOLEAN]

Conf == [entries : SUBSET (Domain \X SUBSET Server), fallback : SUBSET Server]

\* Type invariant.  The configuration in memory is a valid one at every step: an edit
\* that Validate rejects is rolled back, and Load rejects such a file.
TypeOK ==
  /\ RoutingTypeOK
  /\ cfg \in Config /\ Valid(cfg)
  /\ disk \in Config
  /\ {marker, active, lastError, calm} \subseteq BOOLEAN
  /\ conf \in Conf \cup {NoConf}
  /\ eng \in EngineFrame

\* The rules of ours that no listing shows and no call ever deletes: those into the main
\* table, and the IPv6 ones.
Unlisted == {k \in OurRules : ~Managed(k)}

\* All that is desired is in the kernel, and of our rules nothing else but what a listing
\* does not show.  Such a rule may be left from an earlier configuration, and if it has
\* the destination of a desired one the kernel may go by it.
RulesMatch(seen) ==
  LET desired == {KernelRule(r) : r \in DesiredRules(seen)} IN
  /\ desired \subseteq ipRules
  /\ ipRules \subseteq desired \cup Unlisted \cup Foreign

\* The chain is hooked and has the marks of the DNS rules, and no others.
MarksMatch(seen) == chain.jumps > 0 /\ chain.marks = DesiredMarks(seen)

\* An apply that reports no error has brought rules, marks, tables and the servers file to
\* the config for the tunnels it observed, whatever an earlier failure, crash or edit had
\* left there.  Two things it does not do: a rule into the main table, or an IPv6 one,
\* that is no longer desired stays beside the desired ones (RulesMatch); and a tunnel
\* that went away since it was observed has taken its route along.
ApplyExact ==
  eng.pc = "applied" /\ ~eng.failed
    => /\ RulesMatch(eng.seen)
       /\ MarksMatch(eng.seen)
       /\ conf = DesiredConf
       /\ \A n \in Tunnels :
            route[cfg.tunnels[n]] \in
              IF n \in eng.seen THEN {n, NoRoute}
              ELSE IF HasFailClosed(n) THEN {Blackhole} ELSE {NoRoute}

\* A stop that reports no error leaves nothing a listing of the band, the chain, the
\* tables of the config, dnsmasq's servers file or the marker would show.  (What the
\* listing does not show stays: RoutingCleanupRemovesEveryTrace.)
StopExact ==
  eng.pc = "stopped" /\ ~eng.failed
    => /\ ListManagedRules = {} /\ chain = NoChain
       /\ \A n \in Tunnels : route[cfg.tunnels[n]] = NoRoute
       /\ conf = NoConf
       /\ ~active /\ ~marker

\* Rule i is fail-closed and, for its destination c, in force: the rule is in the
\* kernel and its table routes or drops.
Armed(i, c) ==
  LET r == cfg.rules[i] IN
  /\ r.enabled /\ r.failClosed /\ r.target # Direct /\ c \in r.cidrs
  /\ KernelRule(ToRule(c, TableOf(r.target))) \in ipRules
  /\ route[TableOf(r.target)] # NoRoute

\* Once a fail-closed rule is in force nothing the daemon does lets its traffic out:
\* not an apply, however many of its commands fail and whatever it observes, not an
\* edit of another part of the config, not a crash and not the restart after it.
\* (Stopping the router, an edit of the config in force, a reboot and the kernel
\* taking away the route of a lost interface are what may.)
ArmedStaysArmed ==
  [][cfg' = cfg /\ eng.pc # "cleanup" /\ links \subseteq links' /\ ~HostReboot
       => \A i \in DOMAIN cfg.rules, c \in Cidr : Armed(i, c) => Armed(i, c)'
    ]_vars

\* The engine keeps the promise of ConfigStore: what is in force is valid; an edit takes
\* effect in memory and in the file at once or not at all, however it is rejected, fails
\* to be saved or is cut short by a crash; whatever else comes into force was read from
\* the file, by New or Reload; and the daemon writes nothing into the file but what is in
\* force.  It does not say that the two agree: a file changed by hand is not noticed, and
\* an empty list of fallback servers is read back as the default.
Store == INSTANCE ConfigStore WITH Read <- Load, ByHand <- Edits, mem <- cfg, file <- disk

KeepsConfigStore == Store!StoreSpec

\* Where the engine is in its call of the DNS manager.
ServiceState ==
  CASE eng.pc \in {"dns", "dnsdown"}        -> "busy"
    [] eng.pc \in {"applied", "deactivate"} -> IF eng.failed THEN "failed" ELSE "ok"
    [] OTHER                                -> "none"

ServiceWant == IF eng.pc \in {"dns", "applied"} THEN DesiredConf ELSE NoConf

\* The engine's view of the servers file is that of DnsService, which Dnsmasq keeps:
\* an apply or a stop that goes on as if the file were as asked had no error from it.
Manager == INSTANCE DnsService WITH Contents <- Conf, Nothing <- NoConf,
                                    want <- ServiceWant, state <- ServiceState

UsesDnsService == Manager!ServiceSpec

\* The system is as the config and the interfaces of this moment want it, but for rules
\* of an earlier config that no listing shows (RulesMatch) and, while SyncDNSMarks runs,
\* the marks, which every apply flushes and adds again.
Converged ==
  /\ RulesMatch(Tunnels \cap links)
  /\ rt.fn # "SyncDNSMarks" => MarksMatch(Tunnels \cap links)
  /\ conf = DesiredConf
  /\ \A n \in Tunnels :
       route[cfg.tunnels[n]] = IF n \in links THEN n
                               ELSE IF HasFailClosed(n) THEN Blackhole ELSE NoRoute

\* Once nothing fails any more, a daemon whose file loads runs, and whatever state the
\* failures, crashes, reboots and reconnects left is brought to Converged for good while
\* the router is active (runDaemon's first Apply and its ticker).
Heals ==
  <>calm => <>[](/\ eng.pc = "dead" => ~Valid(disk)
                 /\ active => Converged)

\* The apply that begins once nothing fails any more is the one that brings the system to
\* Converged, and for good: not the second after it, and not until the one after that.
HealsInOneApply ==
  [](calm /\ eng.pc = "status" => [](eng.pc = "applied" => []Converged))

\* Stop: "tears down everything this tool installed".
StopLeavesNoRoute ==
  eng.pc = "stopped" /\ ~eng.failed => \A t \in TableId : route[t] = NoRoute

=============================================================================
