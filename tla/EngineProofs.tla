----------------------------- MODULE EngineProofs -----------------------------
(***************************************************************************)
(* Proofs about Engine: it drives the routing manager only as a step of    *)
(* PolicyRouting allows, so what is proved of the manager holds under the  *)
(* engine; the configuration in memory is always a valid one; and a        *)
(* fail-closed rule that is in force stays in force.                       *)
(***************************************************************************)
EXTENDS Engine, PolicyRoutingProofs

-----------------------------------------------------------------------------
(* Configurations. *)

\* What a partial function maps, and where.
LEMMA PartialMaps ==
  ASSUME NEW K, NEW V, NEW f \in Partial(K, V)
  PROVE  DOMAIN f \subseteq K /\ f \in [DOMAIN f -> V] /\ \A x \in DOMAIN f : f[x] \in V
<1>1. PICK S \in SUBSET K : f \in [S -> V]
  BY DEF Partial
<1> QED
  BY <1>1

\* A function on a subset is a partial function.
LEMMA MapIsPartial ==
  ASSUME NEW K, NEW V, NEW S \in SUBSET K, NEW f \in [S -> V]
  PROVE  f \in Partial(K, V)
BY DEF Partial

\* Putting a value keeps a partial function one.
LEMMA PutIsPartial ==
  ASSUME NEW K, NEW V, NEW f \in Partial(K, V), NEW k \in K, NEW v \in V
  PROVE  Put(f, k, v) \in Partial(K, V)
<1>1. Put(f, k, v) \in [DOMAIN f \cup {k} -> V]
  BY PartialMaps DEF Put
<1>2. DOMAIN f \cup {k} \in SUBSET K
  BY PartialMaps
<1> HIDE DEF Put
<1> QED
  BY <1>1, <1>2, MapIsPartial

\* What is left of a partial function is one.
LEMMA DropIsPartial ==
  ASSUME NEW K, NEW V, NEW f \in Partial(K, V), NEW k
  PROVE  Drop(f, k) \in Partial(K, V)
<1>1. Drop(f, k) \in [DOMAIN f \ {k} -> V]
  BY PartialMaps DEF Drop
<1>2. DOMAIN f \ {k} \in SUBSET K
  BY PartialMaps
<1> QED
  BY <1>1, <1>2, MapIsPartial

\* Changing a value keeps a partial function one.
LEMMA ChangeIsPartial ==
  ASSUME NEW K, NEW V, NEW f \in Partial(K, V), NEW k \in DOMAIN f, NEW v \in V
  PROVE  [f EXCEPT ![k] = v] \in Partial(K, V)
<1>1. [f EXCEPT ![k] = v] \in [DOMAIN f -> V]
  BY PartialMaps
<1>2. DOMAIN f \in SUBSET K
  BY PartialMaps
<1> QED
  BY <1>1, <1>2, MapIsPartial

\* Loading adds the default resolvers and changes nothing that Validate looks at.
LEMMA LoadIsConfig ==
  ASSUME NEW c \in Config
  PROVE  Load(c) \in Config /\ (Valid(c) => Valid(Load(c)))
BY ConfigsAssumption DEF Load, Config, Valid

\* The rules and the marks that are desired are rules and marks.
LEMMA DesiredTypes ==
  ASSUME cfg \in Config, NEW seen
  PROVE  DesiredMarks(seen) \in SUBSET MarkSpec /\ DesiredRules(seen) \in SUBSET RuleSpec
<1>1. \A n \in DOMAIN cfg.tunnels : cfg.tunnels[n] \in TableId
  BY PartialMaps DEF Config
<1>2. \A d \in DOMAIN cfg.dns : cfg.dns[d] \in DNSRule
  BY PartialMaps DEF Config
<1>3. DesiredMarks(seen) \in SUBSET MarkSpec
  <2> SUFFICES ASSUME NEW d \in DOMAIN cfg.dns, cfg.dns[d].via \in seen \cap Tunnels,
                      NEW m \in [server : cfg.dns[d].servers,
                                 mark : {cfg.tunnels[cfg.dns[d].via]}]
               PROVE  m \in MarkSpec
    BY DEF DesiredMarks
  <2> QED
    BY <1>1, <1>2 DEF MarkSpec, DNSRule, Tunnels
<1>4. \A i \in DOMAIN cfg.rules : i \in LiveRules(seen)
        => TableOf(cfg.rules[i].target) \in TableId \cup {MainTable}
  BY <1>1 DEF LiveRules, TableOf, Tunnels
<1> QED
  BY <1>3, <1>4 DEF DesiredRules, RuleSpec, LiveRules, MarkSpec

-----------------------------------------------------------------------------
(* The invariant. *)

\* What the engine is doing while a call of the routing manager runs.
Calling ==
  /\ rt.fn = "SyncDNSMarks" => eng.pc = "marks"
  /\ rt.fn = "ReconcileRules" => eng.pc = "rules" /\ rt.want = DesiredRules(eng.seen)
  /\ rt.fn = "Cleanup" => eng.pc = "cleanup"

EngineInv ==
  /\ Inv
  /\ cfg \in Config /\ Valid(cfg)
  /\ disk \in Config
  /\ eng \in EngineFrame
  /\ eng.pc = "tables" => eng.todo \subseteq Tunnels
  /\ Calling

\* At does nothing yet.
LEMMA AtIsFrame ==
  ASSUME NEW pc \in {"idle", "delete", "status", "cleanup", "dead"}
  PROVE  At(pc) \in EngineFrame /\ At(pc).pc = pc
BY DEF At, EngineFrame

\* The engine starts with a file that loads.
LEMMA EngineInitInv == Init => EngineInv
<1> SUFFICES ASSUME Init PROVE EngineInv
  OBVIOUS
<1>1. disk \in Config /\ Valid(disk)
  BY ConfigsAssumption DEF Init
<1>2. rt.fn = "none"
  BY DEF Init, RoutingInit, Idle
<1> QED
  BY <1>1, <1>2, InitInv, LoadIsConfig, AtIsFrame DEF Init, EngineInv, Calling

\* Between its calls the engine leaves the routing manager idle.
LEMMA IdleBetweenCalls ==
  ASSUME EngineInv, eng.pc \notin {"marks", "rules", "cleanup"}
  PROVE  rt = Idle
BY DEF EngineInv, Calling, Inv, RoutingInv, RoutingTypeOK, Frame

\* The outcomes of a command.
LEMMA OutcomesAreBoolean == Outcomes \subseteq BOOLEAN
BY DEF Outcomes

-----------------------------------------------------------------------------
(* Every step of the engine is a step of the routing manager, or none at all. *)

\* A table that the configuration names is one of the manager's.
LEMMA TablesOfTunnels ==
  ASSUME cfg \in Config
  PROVE  /\ Tunnels \subseteq Device
         /\ \A n \in Tunnels : cfg.tunnels[n] \in TableId
BY PartialMaps DEF Config, Tunnels

\* A request touches the routing state only to flush the table of a tunnel it deletes
\* and to bring a tunnel up or down.
LEMMA RequestRoutes ==
  ASSUME EngineInv, NEW ok \in BOOLEAN, Request(ok)
  PROVE  [RoutingNext]_routingVars
<1>1. ASSUME NEW n \in Device, DeleteTunnel(n, ok)
      PROVE  [RoutingNext]_routingVars
  BY <1>1, TablesOfTunnels DEF EngineInv, DeleteTunnel, RoutingNext, Tables
<1>2. ASSUME NEW n \in Device, NEW up \in BOOLEAN, SetTunnel(n, up, ok)
      PROVE  [RoutingNext]_routingVars
  BY <1>2 DEF SetTunnel, RoutingNext, Environment
<1> QED
  BY <1>1, <1>2
     DEF Request, Mutate, SetRuleEnabled, SetRuleTarget, UpsertRule, DeleteRule,
         SetDNSRuleEnabled, UpsertDNSRule, DeleteDNSRule, SetFallback, UpsertTunnel,
         Start, Stop, Reload

\* A command of the daemon is a command, a call or a return of the manager, or none.
LEMMA DaemonRoutes ==
  ASSUME EngineInv, NEW ok \in BOOLEAN, DaemonStep(ok)
  PROVE  [RoutingNext]_routingVars
<1>1. CASE SyncTable(ok)
  BY <1>1, TablesOfTunnels DEF EngineInv, SyncTable, RoutingNext, Tables
<1>2. CASE SyncMarks
  BY <1>2, DesiredTypes DEF EngineInv, SyncMarks, RoutingNext, Calls
<1>3. CASE SyncRules
  BY <1>3, DesiredTypes DEF EngineInv, SyncRules, RoutingNext, Calls
<1>4. CASE Cleanup
  BY <1>4, TablesOfTunnels DEF EngineInv, Cleanup, RoutingNext, Calls
<1>5. CASE RoutingStep(ok)
  BY <1>5 DEF RoutingNext
<1> QED
  BY <1>1, <1>2, <1>3, <1>4, <1>5
     DEF DaemonStep, CommitDelete, Mutate, ObserveStatus, EndTableLoop, ApplyDNS,
         CleanupDNS, Deactivate, Finish

\* So is everything else that happens.
LEMMA StepRoutes == EngineInv /\ [Next]_vars => [RoutingNext]_routingVars
<1> SUFFICES ASSUME EngineInv, [Next]_vars
             PROVE  [RoutingNext]_routingVars
  OBVIOUS
<1>1. CASE Apply \/ Restart \/ EditFile \/ Settle
  BY <1>1 DEF Apply, Restart, EditFile, Settle
<1>2. CASE LinkChange
  BY <1>2 DEF LinkChange, RoutingNext, Environment
<1>3. CASE HostReboot
  BY <1>3 DEF HostReboot, RoutingNext, Environment
<1>4. CASE Crash
  BY <1>4 DEF Crash, RoutingNext, Environment, Abort, routingVars
<1>5. CASE UNCHANGED vars
  BY <1>5 DEF vars, routingVars
<1> QED
  BY <1>1, <1>2, <1>3, <1>4, <1>5, RequestRoutes, DaemonRoutes, OutcomesAreBoolean
     DEF Next, World

-----------------------------------------------------------------------------
(* The invariant is inductive. *)

\* An edit that mutate commits is a valid configuration; one it rejects changes nothing.
LEMMA MutateConfig ==
  ASSUME EngineInv, NEW new, Valid(new) => new \in Config, NEW ok, Mutate(new, ok)
  PROVE  /\ cfg' \in Config /\ Valid(cfg)' /\ disk' \in Config
         /\ eng' \in {At("status"), At("idle")}
BY DEF EngineInv, Mutate, Begin

\* The parts of a configuration.
LEMMA ConfigParts ==
  ASSUME EngineInv
  PROVE  /\ cfg \in Config
         /\ cfg.tunnels \in Partial(Device, TableId)
         /\ cfg.rules \in Partial(RuleId, Rule)
         /\ cfg.dns \in Partial(Domain, DNSRule)
BY DEF EngineInv, Config

\* A configuration with other rules, DNS rules or tunnels is a configuration.
LEMMA RulesEdit ==
  ASSUME EngineInv, NEW rules \in Partial(RuleId, Rule)
  PROVE  [cfg EXCEPT !.rules = rules] \in Config
BY ConfigParts DEF Config

\* The same for the DNS rules.
LEMMA DNSEdit ==
  ASSUME EngineInv, NEW dns \in Partial(Domain, DNSRule)
  PROVE  [cfg EXCEPT !.dns = dns] \in Config
BY ConfigParts DEF Config

\* The same for the tunnels.
LEMMA TunnelsEdit ==
  ASSUME EngineInv, NEW tunnels \in Partial(Device, TableId)
  PROVE  [cfg EXCEPT !.tunnels = tunnels] \in Config
BY ConfigParts DEF Config

\* Whatever the edit: the configuration and the file hold valid configurations, and the
\* engine goes on to apply or rests.
LEMMA EditConfig ==
  ASSUME EngineInv, NEW ok \in BOOLEAN,
         \/ \E i \in RuleId, on \in BOOLEAN : SetRuleEnabled(i, on, ok)
         \/ \E i \in RuleId, t \in Target : SetRuleTarget(i, t, ok)
         \/ \E i \in RuleId, r \in Rule : UpsertRule(i, r, ok)
         \/ \E i \in RuleId : DeleteRule(i, ok)
         \/ \E d \in Domain, on \in BOOLEAN : SetDNSRuleEnabled(d, on, ok)
         \/ \E d \in Domain, r \in DNSRule : UpsertDNSRule(d, r, ok)
         \/ \E d \in Domain : DeleteDNSRule(d, ok)
         \/ \E servers \in SUBSET Server : SetFallback(servers, ok)
         \/ \E n \in Device, t \in TableId \cup {0} : UpsertTunnel(n, t, ok)
         \/ CommitDelete(ok)
  PROVE  /\ cfg' \in Config /\ Valid(cfg)' /\ disk' \in Config
         /\ eng' \in {At("status"), At("idle")}
<1> DEFINE Goal == /\ cfg' \in Config /\ Valid(cfg)' /\ disk' \in Config
                   /\ eng' \in {At("status"), At("idle")}
<1>1. ASSUME NEW i \in RuleId, NEW on \in BOOLEAN, SetRuleEnabled(i, on, ok)
      PROVE  Goal
  <2>1. i \in DOMAIN cfg.rules /\ cfg.rules[i] \in Rule
    BY <1>1, ConfigParts, PartialMaps DEF SetRuleEnabled
  <2>2. [cfg.rules[i] EXCEPT !.enabled = on] \in Rule
    BY <2>1 DEF Rule
  <2>3. [cfg EXCEPT !.rules[i].enabled = on] \in Config
    BY <2>1, <2>2, ConfigParts, ChangeIsPartial, RulesEdit
  <2> QED
    BY <1>1, <2>3, MutateConfig DEF SetRuleEnabled
<1>2. ASSUME NEW i \in RuleId, NEW t \in Target, SetRuleTarget(i, t, ok)
      PROVE  Goal
  <2>1. i \in DOMAIN cfg.rules /\ cfg.rules[i] \in Rule
    BY <1>2, ConfigParts, PartialMaps DEF SetRuleTarget
  <2>2. [cfg.rules[i] EXCEPT !.target = t] \in Rule
    BY <2>1 DEF Rule
  <2>3. [cfg EXCEPT !.rules[i].target = t] \in Config
    BY <2>1, <2>2, ConfigParts, ChangeIsPartial, RulesEdit
  <2> QED
    BY <1>2, <2>3, MutateConfig DEF SetRuleTarget
<1>3. ASSUME NEW i \in RuleId, NEW r \in Rule, UpsertRule(i, r, ok)
      PROVE  Goal
  BY <1>3, ConfigParts, PutIsPartial, RulesEdit, MutateConfig DEF UpsertRule
<1>4. ASSUME NEW i \in RuleId, DeleteRule(i, ok)
      PROVE  Goal
  BY <1>4, ConfigParts, DropIsPartial, RulesEdit, MutateConfig DEF DeleteRule
<1>5. ASSUME NEW d \in Domain, NEW on \in BOOLEAN, SetDNSRuleEnabled(d, on, ok)
      PROVE  Goal
  <2>1. d \in DOMAIN cfg.dns /\ cfg.dns[d] \in DNSRule
    BY <1>5, ConfigParts, PartialMaps DEF SetDNSRuleEnabled
  <2>2. [cfg.dns[d] EXCEPT !.enabled = on] \in DNSRule
    BY <2>1 DEF DNSRule
  <2>3. [cfg EXCEPT !.dns[d].enabled = on] \in Config
    BY <2>1, <2>2, ConfigParts, ChangeIsPartial, DNSEdit
  <2> QED
    BY <1>5, <2>3, MutateConfig DEF SetDNSRuleEnabled
<1>6. ASSUME NEW d \in Domain, NEW r \in DNSRule, UpsertDNSRule(d, r, ok)
      PROVE  Goal
  BY <1>6, ConfigParts, PutIsPartial, DNSEdit, MutateConfig DEF UpsertDNSRule
<1>7. ASSUME NEW d \in Domain, DeleteDNSRule(d, ok)
      PROVE  Goal
  BY <1>7, ConfigParts, DropIsPartial, DNSEdit, MutateConfig DEF DeleteDNSRule
<1>8. ASSUME NEW servers \in SUBSET Server, SetFallback(servers, ok)
      PROVE  Goal
  <2>1. [cfg EXCEPT !.fallback = servers] \in Config
    BY ConfigParts DEF Config
  <2> QED
    BY <1>8, <2>1, MutateConfig DEF SetFallback
<1>9. ASSUME NEW n \in Device, NEW t \in TableId \cup {0}, UpsertTunnel(n, t, ok)
      PROVE  Goal
  <2>1. PICK table : Mutate([cfg EXCEPT !.tunnels = Put(@, n, table)], ok)
    BY <1>9 DEF UpsertTunnel
  <2> DEFINE new == [cfg EXCEPT !.tunnels = Put(@, n, table)]
  <2>2. ASSUME Valid(new) PROVE new \in Config
    <3>1. new.tunnels = Put(cfg.tunnels, n, table)
      BY ConfigParts DEF Config
    <3>2. n \in DOMAIN new.tunnels /\ new.tunnels[n] = table
      BY <3>1 DEF Put
    <3>3. table \in TableId
      BY <2>2, <3>2 DEF Valid
    <3> QED
      BY <3>3, ConfigParts, PutIsPartial, TunnelsEdit
  <2> HIDE DEF new
  <2> QED
    BY <2>1, <2>2, MutateConfig DEF new
<1>10. CASE CommitDelete(ok)
  BY <1>10, ConfigParts, DropIsPartial, TunnelsEdit, MutateConfig DEF CommitDelete
<1> QED
  BY <1>1, <1>2, <1>3, <1>4, <1>5, <1>6, <1>7, <1>8, <1>9, <1>10

\* A command of a routing call changes neither the call nor what it was asked for.
LEMMA StepKeepsCall ==
  ASSUME rt \in Frame, NEW ok \in BOOLEAN, RoutingStep(ok)
  PROVE  rt'.fn = rt.fn /\ rt'.want = rt.want
<1>1. CASE RulesStep(ok)
  BY <1>1 DEF RulesStep, List, AddRule, DelRule, EndRules, Frame
<1>2. CASE RemoveStep(ok)
  BY <1>2 DEF RemoveStep, CleanTable, EndTables, CheckUnhook, Unhook, EmptyChain,
              DeleteChain, Frame
<1>3. CASE MarksStep(ok)
  BY <1>3 DEF MarksStep, CreateChain, CheckHook, Hook, FlushMarks, AddMark, EndMarks, Fails,
              Frame
<1> QED
  BY <1>1, <1>2, <1>3 DEF RoutingStep

\* The desired rules depend on the configuration and the observation only.
LEMMA DesiredUnchanged ==
  ASSUME cfg' = cfg, eng'.seen = eng.seen
  PROVE  DesiredRules(eng.seen)' = DesiredRules(eng.seen)
BY DEF DesiredRules, DesiredMarks, LiveRules, TableOf, Tunnels

\* No call runs while the manager is idle.
LEMMA IdleCallsNothing == Idle.fn = "none" /\ (rt = Idle => Calling)
BY DEF Idle, Calling

\* The requests keep the engine's invariant.
LEMMA RequestInv ==
  ASSUME EngineInv, Inv', NEW ok \in BOOLEAN, Request(ok)
  PROVE  EngineInv'
<1>1. eng.pc = "idle" /\ rt = Idle
  BY IdleBetweenCalls
     DEF Request, SetRuleEnabled, SetRuleTarget, UpsertRule, DeleteRule, SetDNSRuleEnabled,
         UpsertDNSRule, DeleteDNSRule, SetFallback, UpsertTunnel, DeleteTunnel, Start, Stop,
         Reload, SetTunnel, Asked
<1>2. UNCHANGED rt
  BY DEF Request, Mutate, SetRuleEnabled, SetRuleTarget, UpsertRule, DeleteRule,
         SetDNSRuleEnabled, UpsertDNSRule, DeleteDNSRule, SetFallback, UpsertTunnel,
         DeleteTunnel, FlushTable, Start, Stop, Reload, SetTunnel, LinkUp, LinkDown,
         routingVars
<1>3. Calling'
  BY <1>1, <1>2, IdleCallsNothing DEF Calling
<1>4. ASSUME NEW n \in Device, DeleteTunnel(n, ok)
      PROVE  EngineInv'
  <2>1. [At("delete") EXCEPT !.todo = {n}] \in EngineFrame
        /\ [At("delete") EXCEPT !.todo = {n}].pc = "delete"
    BY DEF At, EngineFrame
  <2> QED
    BY <1>3, <1>4, <2>1 DEF DeleteTunnel, EngineInv
<1>5. CASE Start(ok) \/ Stop \/ \E n \in Device, up \in BOOLEAN : SetTunnel(n, up, ok)
  <2>1. cfg' = cfg /\ disk' = disk
    BY <1>5 DEF Start, Stop, SetTunnel
  <2>2. eng' = eng \/ eng' \in {At("status"), At("idle"), At("cleanup")}
    BY <1>5 DEF Start, Stop, SetTunnel, Begin
  <2> QED
    BY <1>1, <1>3, <2>1, <2>2, AtIsFrame DEF EngineInv
<1>6. CASE Reload(ok)
  <2>1. cfg' = Load(disk) /\ Valid(disk) /\ disk' = disk
        /\ eng' \in {At("status"), At("idle")}
    BY <1>6 DEF Reload, Begin
  <2> QED
    BY <1>3, <2>1, LoadIsConfig, AtIsFrame DEF EngineInv
<1>7. ASSUME cfg' \in Config, Valid(cfg)', disk' \in Config,
             eng' \in {At("status"), At("idle")}
      PROVE  EngineInv'
  BY <1>3, <1>7, AtIsFrame DEF EngineInv
<1> QED
  BY <1>4, <1>5, <1>6, <1>7, EditConfig DEF Request

\* A call is named for its function and knows what it was asked for.
LEMMA CallFields ==
  ASSUME NEW fn, NEW pc, NEW want, NEW specs, NEW tables
  PROVE  Call(fn, pc, want, specs, tables).fn = fn
         /\ Call(fn, pc, want, specs, tables).want = want
BY DEF Call, Idle

\* Then moves on and remembers a failure.
LEMMA ThenFrame ==
  ASSUME eng \in EngineFrame, NEW failed,
         NEW pc \in {"tables", "marks", "rules", "dns", "applied", "dnsdown", "deactivate",
                    "stopped"},
         Then(pc, failed)
  PROVE  eng' \in EngineFrame /\ eng'.pc = pc
<1> DEFINE f == eng.failed \/ failed
<1>1. f \in BOOLEAN
  OBVIOUS
<1>2. eng' = [eng EXCEPT !.pc = pc, !.failed = f]
  BY DEF Then
<1> HIDE DEF f
<1> QED
  BY <1>1, <1>2 DEF EngineFrame

\* The daemon's own commands keep the engine's invariant.
LEMMA DaemonInv ==
  ASSUME EngineInv, Inv', NEW ok \in BOOLEAN, DaemonStep(ok)
  PROVE  EngineInv'
<1>1. CASE CommitDelete(ok)
  <2>1. rt = Idle /\ rt' = rt
    BY <1>1, IdleBetweenCalls DEF CommitDelete, Mutate, routingVars
  <2> QED
    BY <1>1, <2>1, IdleCallsNothing, EditConfig, AtIsFrame DEF EngineInv, Calling
<1>2. CASE ObserveStatus
  <2>1. rt = Idle /\ rt' = rt
    BY <1>2, IdleBetweenCalls DEF ObserveStatus, routingVars
  <2>2. PICK lost : eng' = [eng EXCEPT !.pc = "tables", !.todo = Tunnels,
                                        !.seen = (Tunnels \cap links) \ lost]
    BY <1>2 DEF ObserveStatus
  <2>3. eng' \in EngineFrame /\ eng'.todo = Tunnels
    BY <2>2, TablesOfTunnels DEF EngineInv, EngineFrame
  <2> QED
    BY <1>2, <2>1, <2>3, IdleCallsNothing
       DEF EngineInv, Calling, ObserveStatus, Tunnels
<1>3. CASE SyncTable(ok) \/ EndTableLoop
  <2>1. rt = Idle /\ rt' = rt
    BY <1>3, IdleBetweenCalls
       DEF SyncTable, EndTableLoop, SetTableDefault, SetTableBlackhole, FlushTable, routingVars
  <2> DEFINE Goal == eng' \in EngineFrame /\ eng'.todo \subseteq eng.todo /\ eng.pc = "tables"
  <2>2. ASSUME SyncTable(ok) PROVE Goal
    <3>1. PICK n \in eng.todo :
            eng' = [eng EXCEPT !.todo = @ \ {n},
                               !.failed = @ \/ ~ok \/ (n \in eng.seen /\ n \notin links)]
      BY <2>2 DEF SyncTable
    <3> DEFINE f == eng.failed \/ ~ok \/ (n \in eng.seen /\ n \notin links)
    <3>2. f \in BOOLEAN /\ eng' = [eng EXCEPT !.todo = @ \ {n}, !.failed = f]
      BY <3>1
    <3> HIDE DEF f
    <3> QED
      BY <2>2, <3>2 DEF SyncTable, EngineInv, EngineFrame
  <2>3. ASSUME EndTableLoop PROVE Goal
    BY <2>3 DEF EndTableLoop, Goto, EngineInv, EngineFrame
  <2>4. Goal
    BY <1>3, <2>2, <2>3
  <2> QED
    BY <1>3, <2>1, <2>4, IdleCallsNothing
       DEF EngineInv, Calling, SyncTable, EndTableLoop, Tunnels
<1>4. CASE SyncMarks
  <2>1. eng' \in EngineFrame /\ eng'.pc \in {"marks", "rules"}
    BY <1>4, ThenFrame DEF SyncMarks, EngineInv
  <2>2. \/ rt'.fn = "SyncDNSMarks" /\ eng'.pc = "marks"
        \/ rt'.fn = "none"
    BY <1>4, CallFields, IdleCallsNothing DEF SyncMarks, CallSyncDNSMarks, Return
  <2> QED
    BY <1>4, <2>1, <2>2 DEF SyncMarks, EngineInv, Calling
<1>5. CASE SyncRules
  <2>1. CASE CallReconcileRules(DesiredRules(eng.seen)) /\ UNCHANGED eng
    <3>1. rt'.fn = "ReconcileRules" /\ rt'.want = DesiredRules(eng.seen)
      BY <2>1 DEF CallReconcileRules, Call, Idle
    <3> QED
      BY <1>5, <2>1, <3>1, DesiredUnchanged DEF SyncRules, EngineInv, Calling
  <2>2. CASE Return /\ Then("dns", rt.errs # {})
    <3>1. eng' \in EngineFrame /\ eng'.pc = "dns"
      BY <2>2, ThenFrame DEF EngineInv
    <3>2. rt'.fn = "none"
      BY <2>2 DEF Return, Idle
    <3> QED
      BY <1>5, <3>1, <3>2 DEF SyncRules, EngineInv, Calling
  <2> QED
    BY <1>5, <2>1, <2>2 DEF SyncRules
<1>6. CASE Cleanup
  <2>1. eng' \in EngineFrame /\ eng'.pc \in {"cleanup", "dnsdown"}
    BY <1>6, ThenFrame DEF Cleanup, EngineInv
  <2>2. \/ rt'.fn = "Cleanup" /\ eng'.pc = "cleanup"
        \/ rt'.fn = "none"
    BY <1>6, CallFields, IdleCallsNothing DEF Cleanup, CallCleanup, Return
  <2> QED
    BY <1>6, <2>1, <2>2 DEF Cleanup, EngineInv, Calling
<1>7. CASE RoutingStep(ok) /\ UNCHANGED ownVars
  <2>1. rt \in Frame
    BY DEF EngineInv, Inv, RoutingTypeOK
  <2>2. rt'.fn = rt.fn /\ rt'.want = rt.want
    BY <1>7, <2>1, StepKeepsCall
  <2>3. DesiredRules(eng.seen)' = DesiredRules(eng.seen)
    BY <1>7, DesiredUnchanged DEF ownVars
  <2>4. Calling'
    BY <1>7, <2>2, <2>3 DEF EngineInv, Calling, ownVars
  <2> QED
    BY <1>7, <2>4 DEF EngineInv, ownVars, Tunnels
<1>8. CASE ApplyDNS(ok) \/ CleanupDNS(ok) \/ Deactivate(ok) \/ Finish
  <2>1. rt = Idle /\ rt' = rt
    BY <1>8, IdleBetweenCalls DEF ApplyDNS, CleanupDNS, Deactivate, Finish, routingVars
  <2>2. eng' \in EngineFrame /\ eng'.pc \in {"applied", "deactivate", "stopped", "idle"}
    BY <1>8, AtIsFrame, ThenFrame DEF ApplyDNS, CleanupDNS, Deactivate, Finish, EngineInv
  <2> QED
    BY <1>8, <2>1, <2>2, IdleCallsNothing
       DEF EngineInv, Calling, ApplyDNS, CleanupDNS, Deactivate, Finish
<1> QED
  BY <1>1, <1>2, <1>3, <1>4, <1>5, <1>6, <1>7, <1>8 DEF DaemonStep

\* The engine's invariant holds through every step.
LEMMA EngineStepInv == EngineInv /\ [Next]_vars => EngineInv'
<1> SUFFICES ASSUME EngineInv, [Next]_vars
             PROVE  EngineInv'
  OBVIOUS
<1>1. Inv'
  BY StepRoutes, StepInv DEF EngineInv
<1>2. CASE Crash \/ HostReboot
  <2>1. rt' = Idle
    BY <1>2 DEF Crash, HostReboot, Abort, Reboot
  <2> QED
    BY <1>1, <1>2, <2>1, AtIsFrame DEF Crash, HostReboot, EngineInv, Calling, Idle
<1>3. CASE Apply
  <2>1. rt = Idle /\ rt' = rt /\ eng' \in {At("status"), At("idle")}
    BY <1>3, IdleBetweenCalls DEF Apply, Begin, routingVars
  <2> QED
    BY <1>1, <1>3, <2>1, IdleCallsNothing, AtIsFrame DEF Apply, EngineInv, Calling
<1>4. CASE Restart
  <2>1. rt = Idle /\ rt' = rt /\ disk' = disk
    BY <1>4, IdleBetweenCalls DEF Restart, routingVars
  <2>2. CASE Valid(disk)
    <3>1. cfg' = Load(disk) /\ eng' \in {At("status"), At("idle")}
      BY <1>4, <2>2 DEF Restart, Begin
    <3> QED
      BY <1>1, <2>1, <2>2, <3>1, IdleCallsNothing, LoadIsConfig, AtIsFrame
         DEF EngineInv, Calling
  <2>3. CASE ~Valid(disk)
    BY <1>1, <1>4, <2>1, <2>3 DEF Restart, EngineInv, Calling, Idle, Tunnels
  <2> QED
    BY <2>2, <2>3
<1>5. CASE EditFile \/ LinkChange \/ Settle \/ UNCHANGED vars
  <2>1. cfg' = cfg /\ eng' = eng /\ rt' = rt
    BY <1>5 DEF EditFile, LinkChange, LinkUp, LinkDown, Settle, vars, ownVars, routingVars
  <2>2. disk' \in Config
    BY <1>5, ConfigsAssumption DEF EditFile, LinkChange, Settle, vars, ownVars, EngineInv
  <2>3. Calling'
    BY <2>1, DesiredUnchanged DEF EngineInv, Calling
  <2> QED
    BY <1>1, <2>1, <2>2, <2>3 DEF EngineInv, Tunnels
<1> QED
  BY <1>1, <1>2, <1>3, <1>4, <1>5, RequestInv, DaemonInv, OutcomesAreBoolean
     DEF Next, World

\* The engine's invariant holds in every reachable state.
LEMMA EngineInvariance == Spec => []EngineInv
BY EngineInitInv, EngineStepInv, PTL DEF Spec

-----------------------------------------------------------------------------
(* The engine and the routing manager. *)

\* The engine implements the routing manager's specification: it calls ReconcileRules,
\* SyncDNSMarks and Cleanup one at a time, with rules, marks and tables of their types,
\* and touches a table only between calls.
THEOREM EngineUsesRouting == Spec => RoutingSpec
<1>1. Init => RoutingInit
  BY DEF Init
<1> QED
  BY <1>1, StepRoutes, EngineInvariance, PTL DEF Spec, RoutingSpec

\* The types of what the engine keeps beside the configuration.
FlagsInv ==
  /\ marker \in BOOLEAN /\ active \in BOOLEAN /\ lastError \in BOOLEAN /\ calm \in BOOLEAN
  /\ conf \in Conf \cup {NoConf}

\* The servers file is written from the configuration.
LEMMA InterruptedIsConf ==
  ASSUME EngineInv, FlagsInv
  PROVE  DesiredConf \in Conf /\ Interrupted \subseteq Conf \cup {NoConf}
<1>1. \A d \in DOMAIN cfg.dns : d \in Domain /\ cfg.dns[d].servers \in SUBSET Server
  <2>1. DOMAIN cfg.dns \subseteq Domain /\ \A d \in DOMAIN cfg.dns : cfg.dns[d] \in DNSRule
    BY ConfigParts, PartialMaps
  <2> QED
    BY <2>1 DEF DNSRule
<1>2. cfg.fallback \in SUBSET Server
  BY ConfigParts DEF Config
<1>3. DesiredConf \in Conf
  BY <1>1, <1>2 DEF DesiredConf, Conf
<1> QED
  BY <1>3 DEF Interrupted, FlagsInv

\* The flags stay flags.
LEMMA FlagsStep == EngineInv /\ FlagsInv /\ [Next]_vars => FlagsInv'
<1> SUFFICES ASSUME EngineInv, FlagsInv, [Next]_vars
             PROVE  FlagsInv'
  OBVIOUS
<1>1. ASSUME NEW ok \in BOOLEAN, Request(ok)
      PROVE  FlagsInv'
  BY <1>1 DEF FlagsInv, Request, Mutate, SetRuleEnabled, SetRuleTarget, UpsertRule,
         DeleteRule, SetDNSRuleEnabled, UpsertDNSRule, DeleteDNSRule, SetFallback,
         UpsertTunnel, DeleteTunnel, Start, Stop, Reload, SetTunnel
<1>2. ASSUME NEW ok \in BOOLEAN, DaemonStep(ok)
      PROVE  FlagsInv'
  <2>1. CASE ApplyDNS(ok) \/ CleanupDNS(ok)
    BY <2>1, InterruptedIsConf DEF FlagsInv, ApplyDNS, CleanupDNS
  <2>2. CASE Deactivate(ok)
    BY <2>2 DEF FlagsInv, Deactivate
  <2>3. CASE Finish
    BY <2>3 DEF FlagsInv, Finish, EngineInv, EngineFrame
  <2> QED
    BY <1>2, <2>1, <2>2, <2>3
       DEF FlagsInv, DaemonStep, CommitDelete, Mutate, ObserveStatus, SyncTable, EndTableLoop,
           SyncMarks, SyncRules, Cleanup, ownVars
<1>3. CASE Crash \/ HostReboot
  BY <1>3, InterruptedIsConf DEF FlagsInv, Crash, HostReboot
<1>4. CASE Apply \/ Restart \/ EditFile \/ LinkChange \/ Settle \/ UNCHANGED vars
  BY <1>4 DEF FlagsInv, Apply, Restart, EditFile, LinkChange, Settle, vars, ownVars
<1> QED
  BY <1>1, <1>2, <1>3, <1>4, OutcomesAreBoolean DEF Next, World

\* For every configuration, edit and failure the engine's state has its type; above
\* all, the configuration in memory is one that Validate accepts.
THEOREM EngineType == Spec => []TypeOK
<1>1. Init => FlagsInv
  BY DEF Init, FlagsInv
<1>2. EngineInv /\ FlagsInv => TypeOK
  BY DEF EngineInv, FlagsInv, TypeOK, Inv
<1> QED
  BY <1>1, <1>2, FlagsStep, EngineInvariance, PTL DEF Spec

-----------------------------------------------------------------------------
(* Fail-closed rules. *)

\* Outside of a reboot only DelRule takes a rule out of the kernel.
LEMMA EngineRulesGrow ==
  ASSUME [Next]_vars, ~HostReboot
  PROVE  ipRules \subseteq ipRules' \/ \E ok \in BOOLEAN : DelRule(ok)
<1>1. ASSUME NEW ok \in BOOLEAN, RoutingStep(ok), ~DelRule(ok)
      PROVE  ipRules \subseteq ipRules'
  BY <1>1 DEF RoutingStep, RulesStep, RemoveStep, MarksStep, List, AddRule, EndRules,
              CleanTable, EndTables, CheckUnhook, Unhook, EmptyChain, DeleteChain,
              CreateChain, CheckHook, Hook, FlushMarks, AddMark, EndMarks
<1>2. ASSUME NEW ok \in BOOLEAN, Request(ok)
      PROVE  UNCHANGED ipRules
  BY <1>2 DEF Request, Mutate, SetRuleEnabled, SetRuleTarget, UpsertRule, DeleteRule,
         SetDNSRuleEnabled, UpsertDNSRule, DeleteDNSRule, SetFallback, UpsertTunnel,
         DeleteTunnel, FlushTable, Start, Stop, Reload, SetTunnel, LinkUp, LinkDown,
         routingVars
<1>3. ASSUME NEW ok \in BOOLEAN, DaemonStep(ok)
      PROVE  UNCHANGED ipRules \/ RoutingStep(ok)
  BY <1>3 DEF DaemonStep, CommitDelete, Mutate, ObserveStatus, SyncTable, SetTableDefault,
         SetTableBlackhole, FlushTable, EndTableLoop, SyncMarks, CallSyncDNSMarks, SyncRules,
         CallReconcileRules, Return, ApplyDNS, Cleanup, CallCleanup, CleanupDNS, Deactivate,
         Finish, routingVars
<1>4. CASE Apply \/ Restart \/ Crash \/ EditFile \/ LinkChange \/ Settle \/ UNCHANGED vars
  BY <1>4 DEF Apply, Restart, Crash, Abort, EditFile, LinkChange, LinkUp, LinkDown, Settle,
         vars, routingVars
<1> QED
  BY <1>1, <1>2, <1>3, <1>4, OutcomesAreBoolean DEF Next, World

\* A rule that is desired now is spared by every step outside of a stop and a reboot.
LEMMA DesiredIsSpared ==
  ASSUME EngineInv, [Next]_vars, eng.pc # "cleanup", ~HostReboot,
         NEW r \in DesiredRules(eng.seen), KernelRule(r) \in ipRules
  PROVE  KernelRule(r) \in ipRules'
<1>1. ASSUME NEW ok \in BOOLEAN, DelRule(ok)
      PROVE  KernelRule(r) \in ipRules'
  <2>1. rt.fn = "ReconcileRules"
    BY <1>1 DEF DelRule, EngineInv, Calling, Inv, RoutingTypeOK, RoutingInv, Frame, Idle
  <2> QED
    BY <1>1, <2>1, DelRuleSparesWanted DEF EngineInv, Calling
<1> QED
  BY <1>1, EngineRulesGrow

\* What is known of a fail-closed rule that is in force: it is desired whatever is
\* observed, and its table belongs to its tunnel alone.
LEMMA ArmedFacts ==
  ASSUME EngineInv, NEW i \in DOMAIN cfg.rules, NEW c \in Cidr, Armed(i, c)
  PROVE  /\ cfg.rules[i].target \in Tunnels
         /\ TableOf(cfg.rules[i].target) = cfg.tunnels[cfg.rules[i].target]
         /\ cfg.tunnels[cfg.rules[i].target] \in TableId
         /\ HasFailClosed(cfg.rules[i].target)
         /\ ToRule(c, TableOf(cfg.rules[i].target)) \in DesiredRules(eng.seen)
<1>1. cfg.rules[i].target \in Tunnels
  BY DEF EngineInv, Valid, Armed, Tunnels
<1>2. i \in LiveRules(eng.seen)
  BY <1>1 DEF LiveRules, Armed
<1>3. <<i, c>> \in {x \in LiveRules(eng.seen) \X Cidr : x[2] \in cfg.rules[x[1]].cidrs}
  BY <1>2 DEF Armed
<1>4. ToRule(c, TableOf(cfg.rules[i].target)) \in DesiredRules(eng.seen)
  BY <1>3 DEF DesiredRules
<1> QED
  BY <1>1, <1>4, TablesOfTunnels DEF EngineInv, Armed, TableOf, HasFailClosed

\* The table of a fail-closed tunnel keeps a route, or drops.
LEMMA RouteIsKept ==
  ASSUME EngineInv, [Next]_vars, eng.pc # "cleanup", ~HostReboot, links \subseteq links',
         NEW t \in Tunnels, HasFailClosed(t), route[cfg.tunnels[t]] # NoRoute
  PROVE  route'[cfg.tunnels[t]] # NoRoute
<1>1. /\ cfg.tunnels[t] \in TableId /\ route \in [TableId -> Device \cup {NoRoute, Blackhole}]
      /\ \A n \in Tunnels : cfg.tunnels[n] = cfg.tunnels[t] => n = t
      /\ Tunnels \subseteq Device
  BY TablesOfTunnels DEF EngineInv, Inv, RoutingTypeOK, Valid, Tunnels
<1>2. ASSUME NEW n \in Device, NEW ok \in BOOLEAN, DeleteTunnel(n, ok)
      PROVE  route'[cfg.tunnels[t]] # NoRoute
  <2>1. n \in Tunnels /\ n # t
    BY <1>2 DEF DeleteTunnel, HasFailClosed
  <2> QED
    BY <1>1, <1>2, <2>1 DEF DeleteTunnel, FlushTable
<1>3. ASSUME NEW ok \in BOOLEAN, SyncTable(ok)
      PROVE  route'[cfg.tunnels[t]] # NoRoute
  <2>1. PICK n \in eng.todo :
          \/ SetTableDefault(cfg.tunnels[n], n, ok)
          \/ SetTableBlackhole(cfg.tunnels[n], ok)
          \/ ~HasFailClosed(n) /\ FlushTable(cfg.tunnels[n], ok)
    BY <1>3 DEF SyncTable
  <2>2. n \in Tunnels /\ n \in Device
    BY <1>1, <1>3 DEF SyncTable, EngineInv
  <2> QED
    BY <1>1, <2>1, <2>2, RoutesAssumption
       DEF SetTableDefault, SetTableBlackhole, FlushTable
<1>4. ASSUME NEW ok \in BOOLEAN, RoutingStep(ok)
      PROVE  UNCHANGED route
  <2>1. rt.pc # "tables"
    BY DEF EngineInv, Calling, Inv, RoutingTypeOK, RoutingInv, Frame, Idle
  <2> QED
    BY <1>4, <2>1 DEF RoutingStep, RulesStep, RemoveStep, MarksStep, List, AddRule, DelRule,
         EndRules, CleanTable, EndTables, CheckUnhook, Unhook, EmptyChain, DeleteChain,
         CreateChain, CheckHook, Hook, FlushMarks, AddMark, EndMarks
<1>5. ASSUME NEW n \in Device, LinkUp(n) \/ LinkDown(n)
      PROVE  UNCHANGED route
  BY <1>5 DEF LinkUp, LinkDown
<1>6. ASSUME NEW ok \in BOOLEAN, Request(ok)
      PROVE  route'[cfg.tunnels[t]] # NoRoute
  <2>1. CASE UNCHANGED routingVars
    BY <2>1 DEF routingVars
  <2>2. ASSUME NEW n \in Device, NEW up \in BOOLEAN, SetTunnel(n, up, ok)
        PROVE  UNCHANGED route
    BY <1>5, <2>2 DEF SetTunnel, routingVars
  <2> QED
    BY <1>2, <1>6, <2>1, <2>2
       DEF Request, Mutate, SetRuleEnabled, SetRuleTarget, UpsertRule, DeleteRule,
           SetDNSRuleEnabled, UpsertDNSRule, DeleteDNSRule, SetFallback, UpsertTunnel, Start,
           Stop, Reload
<1>7. ASSUME NEW ok \in BOOLEAN, DaemonStep(ok)
      PROVE  route'[cfg.tunnels[t]] # NoRoute
  BY <1>3, <1>4, <1>7
     DEF DaemonStep, CommitDelete, Mutate, ObserveStatus, EndTableLoop, SyncMarks,
         CallSyncDNSMarks, SyncRules, CallReconcileRules, Return, ApplyDNS, Cleanup,
         CallCleanup, CleanupDNS, Deactivate, Finish, routingVars
<1>8. CASE Apply \/ Restart \/ Crash \/ EditFile \/ Settle \/ UNCHANGED vars
  BY <1>8 DEF Apply, Restart, Crash, Abort, EditFile, Settle, vars, routingVars
<1>9. CASE LinkChange
  BY <1>5, <1>9 DEF LinkChange
<1> QED
  BY <1>6, <1>7, <1>8, <1>9, OutcomesAreBoolean DEF Next, World

\* For every configuration and any number of tunnels: once a fail-closed rule is in
\* force no apply, failed command, false observation, crash, restart or edit that
\* leaves the configuration alone opens a way out for its traffic.
THEOREM FailClosedHolds == Spec => ArmedStaysArmed
<1>1. ASSUME EngineInv, [Next]_vars, cfg' = cfg, eng.pc # "cleanup", links \subseteq links',
             ~HostReboot, NEW i \in DOMAIN cfg.rules, NEW c \in Cidr, Armed(i, c)
      PROVE  Armed(i, c)'
  <2> DEFINE t == cfg.rules[i].target
  <2>1. /\ t \in Tunnels /\ TableOf(t) = cfg.tunnels[t] /\ HasFailClosed(t)
        /\ ToRule(c, TableOf(t)) \in DesiredRules(eng.seen)
    BY <1>1, ArmedFacts
  <2>2. KernelRule(ToRule(c, TableOf(t))) \in ipRules /\ route[TableOf(t)] # NoRoute
    BY <1>1 DEF Armed
  <2>3. KernelRule(ToRule(c, TableOf(t))) \in ipRules'
    BY <1>1, <2>1, <2>2, DesiredIsSpared
  <2>4. route'[TableOf(t)] # NoRoute
    BY <1>1, <2>1, <2>2, RouteIsKept
  <2>5. TableOf(t)' = TableOf(t)
    BY <1>1 DEF TableOf
  <2> HIDE DEF t
  <2> QED
    BY <1>1, <2>3, <2>4, <2>5 DEF Armed, t
<1>2. EngineInv /\ [Next]_vars
        => [cfg' = cfg /\ eng.pc # "cleanup" /\ links \subseteq links' /\ ~HostReboot
              => \A i \in DOMAIN cfg.rules, c \in Cidr : Armed(i, c) => Armed(i, c)'
           ]_vars
  BY <1>1
<1> QED
  BY <1>2, EngineInvariance, PTL DEF Spec, ArmedStaysArmed

-----------------------------------------------------------------------------
(* The abstract specifications. *)

\* One step of the engine edits the configuration, reads it again, or leaves it alone.
LEMMA StepStores == EngineInv /\ [Next]_vars => [Store!StoreNext]_(Store!storeVars)
<1> SUFFICES ASSUME EngineInv, [Next]_vars
             PROVE  Store!Edit \/ Store!Reread \/ Store!HandEdit \/ UNCHANGED <<cfg, disk>>
  BY DEF Store!StoreNext, Store!storeVars
<1>1. ASSUME NEW new, NEW ok, Mutate(new, ok)
      PROVE  Store!Edit \/ UNCHANGED <<cfg, disk>>
  BY <1>1 DEF Mutate, Store!Edit, Valid
<1>2. Valid(disk) => Valid(Load(disk))
  BY DEF EngineInv, Load, Config, Valid
<1>3. ASSUME NEW ok \in BOOLEAN, Request(ok)
      PROVE  Store!Edit \/ Store!Reread \/ UNCHANGED <<cfg, disk>>
  <2>1. CASE Reload(ok)
    BY <1>2, <2>1 DEF Reload, Store!Reread, Valid
  <2> QED
    BY <1>1, <1>3, <2>1
       DEF Request, SetRuleEnabled, SetRuleTarget, UpsertRule, DeleteRule, SetDNSRuleEnabled,
           UpsertDNSRule, DeleteDNSRule, SetFallback, UpsertTunnel, DeleteTunnel, Start, Stop,
           SetTunnel
<1>4. ASSUME NEW ok \in BOOLEAN, DaemonStep(ok)
      PROVE  Store!Edit \/ UNCHANGED <<cfg, disk>>
  BY <1>1, <1>4
     DEF DaemonStep, CommitDelete, ObserveStatus, SyncTable, EndTableLoop, SyncMarks, SyncRules,
         ApplyDNS, Cleanup, CleanupDNS, Deactivate, Finish, ownVars
<1>5. CASE Restart
  BY <1>2, <1>5 DEF Restart, Store!Reread, Valid
<1>6. CASE EditFile
  BY <1>6 DEF EditFile, Store!HandEdit
<1>7. CASE Apply \/ Crash \/ HostReboot \/ LinkChange \/ Settle \/ UNCHANGED vars
  BY <1>7 DEF Apply, Crash, HostReboot, LinkChange, Settle, vars, ownVars
<1> QED
  BY <1>3, <1>4, <1>5, <1>6, <1>7, OutcomesAreBoolean DEF Next, World

\* For every configuration, edit and failure: what is in force is valid; it changes by an
\* edit, which is in memory and in the file at once, or by a reading of the file; and the
\* daemon writes nothing but such an edit.
THEOREM EngineStores == Spec => KeepsConfigStore
<1>1. Init => Store!StoreInit
  BY ConfigsAssumption, LoadIsConfig DEF Init, Store!StoreInit, Valid
<1> QED
  BY <1>1, StepStores, EngineInvariance, PTL DEF Spec, KeepsConfigStore, Store!StoreSpec

\* Where the engine does not call the DNS manager.
ElsewherePcs == {"idle", "delete", "status", "tables", "marks", "rules", "cleanup", "stopped",
                 "dead"}

\* One step of the engine is one of the service's caller, or none of its business.
LEMMA StepCallsDns ==
  EngineInv /\ FlagsInv /\ [Next]_vars => [Manager!ServiceNext]_(Manager!serviceVars)
<1> SUFFICES ASSUME EngineInv, FlagsInv, [Next]_vars
             PROVE  \/ Manager!Ask \/ Manager!End \/ Manager!Leave
                    \/ UNCHANGED <<conf, ServiceWant, ServiceState>>
  BY DEF Manager!ServiceNext, Manager!serviceVars
<1>1. eng \in EngineFrame
  BY DEF EngineInv
<1>2. ASSUME UNCHANGED conf, eng.pc \in ElsewherePcs, eng'.pc \in ElsewherePcs
      PROVE  UNCHANGED <<conf, ServiceWant, ServiceState>>
  BY <1>2 DEF ElsewherePcs, ServiceWant, ServiceState
<1>3. ASSUME UNCHANGED <<conf, cfg, eng>>
      PROVE  UNCHANGED <<conf, ServiceWant, ServiceState>>
  BY <1>3 DEF ServiceWant, ServiceState, DesiredConf
<1>4. ASSUME NEW new, NEW ok, Mutate(new, ok), eng.pc \in {"idle", "delete"}
      PROVE  UNCHANGED <<conf, ServiceWant, ServiceState>>
  BY <1>2, <1>4 DEF Mutate, Begin, At, ElsewherePcs
<1>5. ASSUME NEW ok \in BOOLEAN, Request(ok)
      PROVE  UNCHANGED <<conf, ServiceWant, ServiceState>>
  <2>1. CASE Start(ok) \/ Stop \/ Reload(ok) \/ \E n \in Device : DeleteTunnel(n, ok)
    <3>1. CASE Start(ok)
      <4>1. eng.pc = "idle" /\ UNCHANGED conf /\ Begin(ok)
        BY <3>1 DEF Start, Asked
      <4> QED
        BY <1>2, <4>1 DEF Begin, At, ElsewherePcs
    <3>2. CASE Stop \/ Reload(ok) \/ \E n \in Device : DeleteTunnel(n, ok)
      BY <1>2, <3>2 DEF Stop, Reload, DeleteTunnel, Asked, Begin, At, ElsewherePcs
    <3> QED
      BY <2>1, <3>1, <3>2
  <2>2. ASSUME NEW n \in Device, NEW up \in BOOLEAN, SetTunnel(n, up, ok)
        PROVE  UNCHANGED <<conf, ServiceWant, ServiceState>>
    <3>1. eng.pc = "idle" /\ UNCHANGED <<conf, cfg>>
      BY <2>2 DEF SetTunnel, Asked
    <3>2. UNCHANGED eng \/ Begin(active)
      BY <2>2 DEF SetTunnel
    <3> QED
      BY <1>2, <1>3, <3>1, <3>2 DEF Begin, At, ElsewherePcs
  <2>3. CASE \E new : Mutate(new, ok) /\ eng.pc = "idle"
    BY <1>4, <2>3
  <2> QED
    BY <1>5, <2>1, <2>2, <2>3
       DEF Request, SetRuleEnabled, SetRuleTarget, UpsertRule, DeleteRule, SetDNSRuleEnabled,
           UpsertDNSRule, DeleteDNSRule, SetFallback, UpsertTunnel, Asked
<1>6. ASSUME NEW ok \in BOOLEAN, DaemonStep(ok)
      PROVE  \/ Manager!Ask \/ Manager!End \/ Manager!Leave
             \/ UNCHANGED <<conf, ServiceWant, ServiceState>>
  <2>1. CASE CommitDelete(ok)
    BY <1>4, <2>1 DEF CommitDelete
  <2>10. CASE ObserveStatus \/ SyncTable(ok) \/ EndTableLoop \/ SyncMarks
    <3>1. UNCHANGED conf /\ eng.pc \in {"status", "tables", "marks"}
      BY <2>10 DEF ObserveStatus, SyncTable, EndTableLoop, SyncMarks
    <3>2. eng'.pc \in {"tables", "marks", "rules"}
      BY <1>1, <2>10, <3>1
         DEF ObserveStatus, SyncTable, EndTableLoop, SyncMarks, Goto, Then, EngineFrame
    <3> QED
      BY <1>2, <3>1, <3>2 DEF ElsewherePcs
  <2>2. CASE RoutingStep(ok) /\ UNCHANGED ownVars
    BY <1>3, <2>2 DEF ownVars
  <2>3. CASE SyncRules
    <3>1. CASE UNCHANGED eng
      BY <1>3, <2>3, <3>1 DEF SyncRules
    <3>2. CASE Then("dns", rt.errs # {})
      <4>1. eng.pc = "rules" /\ eng'.pc = "dns" /\ UNCHANGED conf
        BY <1>1, <2>3, <3>2 DEF SyncRules, Then, EngineFrame
      <4>2. DesiredConf' = DesiredConf /\ DesiredConf \in Conf
        BY <2>3, InterruptedIsConf DEF SyncRules, DesiredConf
      <4> QED
        BY <4>1, <4>2 DEF Manager!Ask, ServiceState, ServiceWant
    <3> QED
      BY <2>3, <3>1, <3>2 DEF SyncRules
  <2>4. CASE ApplyDNS(ok)
    <3>1. /\ eng.pc = "dns" /\ eng'.pc = "applied" /\ eng'.failed = (eng.failed \/ ~ok)
          /\ DesiredConf' = DesiredConf
      BY <1>1, <2>4 DEF ApplyDNS, Then, EngineFrame, DesiredConf
    <3>2. conf' \in {conf, DesiredConf} /\ (ok => conf' = DesiredConf)
      BY <2>4, <3>1 DEF ApplyDNS, Interrupted
    <3> QED
      BY <3>1, <3>2 DEF Manager!End, ServiceState, ServiceWant
  <2>5. CASE Cleanup
    <3>1. CASE UNCHANGED eng
      BY <1>3, <2>5, <3>1 DEF Cleanup
    <3>2. CASE Then("dnsdown", rt.errs # {})
      <4>1. eng.pc = "cleanup" /\ eng'.pc = "dnsdown" /\ UNCHANGED conf
        BY <1>1, <2>5, <3>2 DEF Cleanup, Then, EngineFrame
      <4> QED
        BY <4>1 DEF Manager!Ask, ServiceState, ServiceWant
    <3> QED
      BY <2>5, <3>1, <3>2 DEF Cleanup
  <2>6. CASE CleanupDNS(ok)
    <3>1. eng.pc = "dnsdown" /\ eng'.pc = "deactivate" /\ eng'.failed = (eng.failed \/ ~ok)
      BY <1>1, <2>6 DEF CleanupDNS, Then, EngineFrame
    <3>2. conf' \in {conf, NoConf} /\ (ok => conf' = NoConf)
      BY <2>6, <3>1 DEF CleanupDNS, Interrupted
    <3> QED
      BY <3>1, <3>2 DEF Manager!End, ServiceState, ServiceWant
  <2>7. CASE Deactivate(ok)
    <3>1. eng.pc = "deactivate" /\ eng'.pc = "stopped" /\ UNCHANGED conf
      BY <1>1, <2>7 DEF Deactivate, Then, EngineFrame
    <3> QED
      BY <3>1 DEF Manager!Leave, ServiceState, ServiceWant
  <2>8. CASE Finish
    <3>1. eng.pc \in {"applied", "stopped"} /\ eng'.pc = "idle" /\ UNCHANGED conf
      BY <2>8 DEF Finish, At
    <3> QED
      BY <3>1 DEF Manager!Leave, ServiceState, ServiceWant
  <2> QED
    BY <1>6, <2>1, <2>2, <2>3, <2>4, <2>5, <2>6, <2>7, <2>8, <2>10
       DEF DaemonStep
<1>7. CASE Crash \/ HostReboot
  <2>1. conf' \in Interrupted /\ eng'.pc = "dead" /\ UNCHANGED cfg
    BY <1>7 DEF Crash, HostReboot, At
  <2>2. CASE eng.pc \in ElsewherePcs
    BY <1>2, <2>1, <2>2 DEF Interrupted, ElsewherePcs
  <2>3. CASE eng.pc \in {"dns", "dnsdown", "applied", "deactivate"}
    BY <2>1, <2>3 DEF Interrupted, Manager!Leave, ServiceState, ServiceWant
  <2> QED
    BY <1>1, <2>2, <2>3 DEF EngineFrame, ElsewherePcs
<1>8. CASE Apply \/ Restart
  BY <1>2, <1>3, <1>8 DEF Apply, Restart, Begin, At, ElsewherePcs
<1>9. CASE EditFile \/ LinkChange \/ Settle \/ UNCHANGED vars
  BY <1>3, <1>9 DEF EditFile, LinkChange, Settle, vars, ownVars
<1> QED
  BY <1>5, <1>6, <1>7, <1>8, <1>9, OutcomesAreBoolean DEF Next, World

\* For every configuration and failure the engine calls the DNS manager as DnsService
\* allows and believes of the servers file what DnsService promises; with DnsmasqServes
\* the two sides of the call fit.
THEOREM EngineUsesDns == Spec => UsesDnsService
<1>1. Init => FlagsInv
  BY DEF Init, FlagsInv, At
<1>2. Init => Manager!ServiceInit
  <2> SUFFICES ASSUME Init PROVE ServiceState = "none" /\ conf = NoConf
    BY DEF Manager!ServiceInit
  <2>1. eng.pc = "dead"
    BY DEF Init, At
  <2> QED
    BY <2>1 DEF Init, ServiceState
<1> QED
  BY <1>1, <1>2, StepCallsDns, FlagsStep, EngineInvariance, PTL
     DEF Spec, UsesDnsService, Manager!ServiceSpec
=============================================================================
