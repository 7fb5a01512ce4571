---------------------------- MODULE PolicyRouting ----------------------------
(***************************************************************************)
(* The routing manager, src/internal/routing/pbr.go: the `ip rule` band,   *)
(* the per-tunnel routing tables and the mangle chain it owns, and the     *)
(* calls that change them, one command at a time.                          *)
(*                                                                         *)
(* A call is a frame `rt` that runs the commands of one function in the    *)
(* order of the code.  Each command takes `ok`: FALSE is a command that    *)
(* fails and changes nothing (a missing binary, a lock, an expired         *)
(* context).  A command the kernel must refuse fails whatever `ok` says.   *)
(* Loops over sorted keys run in any order, which includes the sorted one. *)
(***************************************************************************)
EXTENDS Integers, FiniteSets

CONSTANTS
  Cidr,        \* destination networks, written without host bits (normalizeCIDR)
  Inet6,       \* those of Cidr that are IPv6
  PrefixLen,   \* the prefix length of each network
  TableId,     \* routing tables of tunnels
  Device,      \* network interfaces of tunnels
  Server,      \* upstream DNS servers
  Foreign,     \* rules of the kernel that other programs own
  MaxJumps,    \* bound on the jumps from OUTPUT to the chain
  NoCidr,      \* a rule that matches a mark and not a destination
  NoRoute,     \* an empty table
  Blackhole    \* a table whose default route drops

MainTable == 254      \* mainTableID, the table of rules that target "direct"

FwmarkPrio == 9000
CIDRPrioBase == 10000
PrioMin == 9000
PrioMax == 10999

-----------------------------------------------------------------------------
(* Rules. *)

\* RuleSpec is one `ip rule` entry: a destination or a mark, and a table.
ToRule(c, t) == [to |-> c, fwmark |-> 0, table |-> t]
MarkRule(t) == [to |-> NoCidr, fwmark |-> t, table |-> t]
RuleSpec == {ToRule(c, t) : c \in Cidr, t \in TableId \cup {MainTable}}
              \cup {MarkRule(t) : t \in TableId}

\* The priority a rule is installed with: marks first, then longer prefixes.
Priority(r) ==
  IF r.fwmark # 0 THEN FwmarkPrio ELSE CIDRPrioBase + (32 - PrefixLen[r.to])

\* The rule as the kernel keeps it once addRule has run.
KernelRule(r) ==
  [to |-> r.to, fwmark |-> r.fwmark, table |-> r.table, pref |-> Priority(r)]
SpecOf(k) == [to |-> k.to, fwmark |-> k.fwmark, table |-> k.table]

\* `ip -j rule show` prints IPv4 rules only, and names these tables.
Listed(k) == k.to \notin Inet6
NamedTable == {253, 254, 255}

\* parseManagedRules: in the band, a numeric table, a mark or a destination.
Managed(k) ==
  /\ Listed(k)
  /\ PrioMin <= k.pref /\ k.pref <= PrioMax
  /\ k.table \notin NamedTable
  /\ k.fwmark # 0 \/ k.to # NoCidr

MarkSpec == [server : Server, mark : TableId]

ASSUME TablesAssumption == TableId \subseteq 1..252
ASSUME PrefixAssumption == /\ PrefixLen \in [Cidr -> 0..128]
                           /\ Inet6 \subseteq Cidr
                           /\ NoCidr \notin Cidr
ASSUME JumpsAssumption == MaxJumps \in Nat \ {0}
ASSUME RoutesAssumption == /\ NoRoute # Blackhole
                           /\ {NoRoute, Blackhole} \cap Device = {}
\* The band is this package's own, so no rule of another program is managed.
ASSUME ForeignAssumption == \A k \in Foreign : ~Managed(k)

-----------------------------------------------------------------------------
VARIABLES
  links,     \* the interfaces that exist and are up
  route,     \* the default route of each table
  ipRules,   \* the policy rules of the kernel
  chain,     \* the mangle chain: does it exist, how often is it hooked, its marks
  rt         \* the routing call under way

routingVars == <<links, route, ipRules, chain, rt>>

NoChain == [exists |-> FALSE, jumps |-> 0, marks |-> {}]

\* want and specs are a call's arguments, add and del the rules it has still to
\* add and delete, tables those it has still to flush, errs the parts that failed.
Idle == [fn |-> "none", pc |-> "idle", want |-> {}, add |-> {}, del |-> {},
         specs |-> {}, todo |-> {}, tables |-> {}, errs |-> {}]

Call(fn, pc, want, specs, tables) ==
  [Idle EXCEPT !.fn = fn, !.pc = pc, !.want = want, !.specs = specs,
               !.todo = specs, !.tables = tables]

RoutingInit ==
  /\ links \in SUBSET Device
  /\ route = [t \in TableId |-> NoRoute]
  /\ ipRules = Foreign
  /\ chain = NoChain
  /\ rt = Idle

-----------------------------------------------------------------------------
(* ReconcileRules, alone or as the first part of Cleanup. *)

CallReconcileRules(desired) ==
  /\ rt = Idle
  /\ rt' = Call("ReconcileRules", "list", desired, {}, {})
  /\ UNCHANGED <<links, route, ipRules, chain>>

CallCleanup(tables) ==
  /\ rt = Idle
  /\ rt' = Call("Cleanup", "list", {}, {}, tables)
  /\ UNCHANGED <<links, route, ipRules, chain>>

\* (Mutant: Cleanup returns once the rules are done.)
AfterRulesReturn == "done"

AfterRules == IF rt.fn = "Cleanup" THEN "tables" ELSE "done"

ListManagedRules == {SpecOf(k) : k \in {k \in ipRules : Managed(k)}}

\* (Mutant: every managed rule is deleted and the desired ones re-added.)
ListAfresh(ok) ==
  /\ rt.pc = "list"
  /\ rt' = [rt EXCEPT !.pc = "rules", !.add = rt.want, !.del = ListManagedRules]
  /\ UNCHANGED <<links, route, ipRules, chain>>

\* (Mutant: rules that are no longer desired are not deleted.)
ListAdditions(ok) ==
  /\ rt.pc = "list"
  /\ rt' = [rt EXCEPT !.pc = "rules", !.add = rt.want \ ListManagedRules]
  /\ UNCHANGED <<links, route, ipRules, chain>>

List(ok) ==
  /\ rt.pc = "list"
  /\ rt' = IF ok
             THEN [rt EXCEPT !.pc = "rules",
                             !.add = rt.want \ ListManagedRules,
                             !.del = ListManagedRules \ rt.want]
             ELSE [rt EXCEPT !.pc = AfterRules, !.errs = @ \cup {"rules"}]
  /\ UNCHANGED <<links, route, ipRules, chain>>

\* (Mutant: an add that fails is tried again.)
AddRuleRetried(ok) ==
  /\ rt.pc = "rules"
  /\ ok
  /\ \E r \in rt.add :
       /\ KernelRule(r) \notin ipRules
       /\ ipRules' = ipRules \cup {KernelRule(r)}
       /\ rt' = [rt EXCEPT !.add = @ \ {r}]
  /\ UNCHANGED <<links, route, chain>>

\* (Mutant: the error of an add is dropped.)
AddRuleSilently(ok) ==
  /\ rt.pc = "rules"
  /\ \E r \in rt.add :
       /\ ipRules' = IF ok THEN ipRules \cup {KernelRule(r)} ELSE ipRules
       /\ rt' = [rt EXCEPT !.add = @ \ {r}]
  /\ UNCHANGED <<links, route, chain>>

\* `ip rule add` refuses a rule that exists already.
AddRule(ok) ==
  /\ rt.pc = "rules"
  /\ \E r \in rt.add :
       LET done == ok /\ KernelRule(r) \notin ipRules
       IN  /\ ipRules' = IF done THEN ipRules \cup {KernelRule(r)} ELSE ipRules
           /\ rt' = [rt EXCEPT !.add = @ \ {r},
                               !.errs = IF done THEN @ ELSE @ \cup {"rules"}]
  /\ UNCHANGED <<links, route, chain>>

\* (Mutant: deletions do not wait for the additions.)
DelRuleEarly(ok) ==
  /\ rt.pc = "rules"
  /\ \E r \in rt.del :
       /\ ipRules' = IF ok THEN ipRules \ {KernelRule(r)} ELSE ipRules
       /\ rt' = [rt EXCEPT !.del = @ \ {r}]
  /\ UNCHANGED <<links, route, chain>>

\* (Mutant: the table is left out of `ip rule del`.)
DelRuleAnyTable(ok) ==
  /\ rt.pc = "rules"
  /\ rt.add = {}
  /\ \E r \in rt.del :
       LET k == KernelRule(r)
       IN  /\ IF ok THEN \E other \in ipRules : /\ [other EXCEPT !.table = k.table] = k
                                               /\ ipRules' = ipRules \ {other}
                    ELSE UNCHANGED ipRules
           /\ rt' = [rt EXCEPT !.del = @ \ {r}]
  /\ UNCHANGED <<links, route, chain>>

DelRule(ok) ==
  /\ rt.pc = "rules"
  /\ rt.add = {}
  /\ \E r \in rt.del :
       LET done == ok /\ KernelRule(r) \in ipRules
       IN  /\ ipRules' = IF done THEN ipRules \ {KernelRule(r)} ELSE ipRules
           /\ rt' = [rt EXCEPT !.del = @ \ {r},
                               !.errs = IF done THEN @ ELSE @ \cup {"rules"}]
  /\ UNCHANGED <<links, route, chain>>

EndRules ==
  /\ rt.pc = "rules"
  /\ rt.add = {} /\ rt.del = {}
  /\ rt' = [rt EXCEPT !.pc = AfterRules]
  /\ UNCHANGED <<links, route, ipRules, chain>>

-----------------------------------------------------------------------------
(* The rest of Cleanup: the tables, then RemoveChain. *)

CleanTable(ok) ==
  /\ rt.pc = "tables"
  /\ \E t \in rt.tables :
       /\ route' = IF ok THEN [route EXCEPT ![t] = NoRoute] ELSE route
       /\ rt' = [rt EXCEPT !.tables = @ \ {t},
                           !.errs = IF ok THEN @ ELSE @ \cup {"tables"}]
  /\ UNCHANGED <<links, ipRules, chain>>

EndTables ==
  /\ rt.pc = "tables"
  /\ rt.tables = {}
  /\ rt' = [rt EXCEPT !.pc = "unhook?"]
  /\ UNCHANGED <<links, route, ipRules, chain>>

\* iptables -C, whose failure reads as "not hooked" and is not an error.
CheckUnhook(ok) ==
  /\ rt.pc = "unhook?"
  /\ rt' = [rt EXCEPT !.pc = IF ok /\ chain.jumps > 0 THEN "unhook" ELSE "empty"]
  /\ UNCHANGED <<links, route, ipRules, chain>>

\* iptables -D removes one jump.
Unhook(ok) ==
  /\ rt.pc = "unhook"
  /\ chain' = IF ok THEN [chain EXCEPT !.jumps = @ - 1] ELSE chain
  /\ rt' = [rt EXCEPT !.pc = "empty", !.errs = IF ok THEN @ ELSE @ \cup {"chain"}]
  /\ UNCHANGED <<links, route, ipRules>>

\* iptables -F; "No chain" is tolerated.
EmptyChain(ok) ==
  /\ rt.pc = "empty"
  /\ chain' = IF ok THEN [chain EXCEPT !.marks = {}] ELSE chain
  /\ rt' = [rt EXCEPT !.pc = "delete", !.errs = IF ok THEN @ ELSE @ \cup {"chain"}]
  /\ UNCHANGED <<links, route, ipRules>>

\* iptables -X refuses a chain that is hooked or not empty; "No chain" is tolerated.
DeleteChain(ok) ==
  /\ rt.pc = "delete"
  /\ LET done == ok /\ chain.jumps = 0 /\ chain.marks = {}
     IN  /\ chain' = IF done THEN NoChain ELSE chain
         /\ rt' = [rt EXCEPT !.pc = "done",
                             !.errs = IF done THEN @ ELSE @ \cup {"chain"}]
  /\ UNCHANGED <<links, route, ipRules>>

-----------------------------------------------------------------------------
(* SyncDNSMarks: EnsureChain, a flush, then the marks; it returns at the    *)
(* first error.  The udp and the tcp entry of a server are one entry here.  *)

CallSyncDNSMarks(marks) ==
  /\ rt = Idle
  /\ rt' = Call("SyncDNSMarks", "create", {}, marks, {})
  /\ UNCHANGED <<links, route, ipRules, chain>>

Fails == rt' = [rt EXCEPT !.pc = "done", !.errs = @ \cup {"chain"}]

\* iptables -N; "already exists" is tolerated.
CreateChain(ok) ==
  /\ rt.pc = "create"
  /\ IF ok THEN /\ chain' = [chain EXCEPT !.exists = TRUE]
                /\ rt' = [rt EXCEPT !.pc = "hook?"]
           ELSE Fails /\ UNCHANGED chain
  /\ UNCHANGED <<links, route, ipRules>>

\* (Mutant: the chain is hooked without the test.)
HookAlways(ok) ==
  /\ rt.pc = "hook?"
  /\ rt' = [rt EXCEPT !.pc = "hook"]
  /\ UNCHANGED <<links, route, ipRules, chain>>

\* iptables -C, whose failure reads as "not hooked".
CheckHook(ok) ==
  /\ rt.pc = "hook?"
  /\ ok \/ chain.jumps < MaxJumps
  /\ rt' = [rt EXCEPT !.pc = IF ok /\ chain.jumps > 0 THEN "flush" ELSE "hook"]
  /\ UNCHANGED <<links, route, ipRules, chain>>

Hook(ok) ==
  /\ rt.pc = "hook"
  /\ IF ok THEN /\ chain' = [chain EXCEPT !.jumps = @ + 1]
                /\ rt' = [rt EXCEPT !.pc = "flush"]
           ELSE Fails /\ UNCHANGED chain
  /\ UNCHANGED <<links, route, ipRules>>

\* (Mutant: the marks of the last call stay.)
FlushNoMarks(ok) ==
  /\ rt.pc = "flush"
  /\ rt' = [rt EXCEPT !.pc = "mark"]
  /\ UNCHANGED <<links, route, ipRules, chain>>

FlushMarks(ok) ==
  /\ rt.pc = "flush"
  /\ IF ok THEN /\ chain' = [chain EXCEPT !.marks = {}]
                /\ rt' = [rt EXCEPT !.pc = "mark"]
           ELSE Fails /\ UNCHANGED chain
  /\ UNCHANGED <<links, route, ipRules>>

AddMark(ok) ==
  /\ rt.pc = "mark"
  /\ \E s \in rt.todo :
       IF ok THEN /\ chain' = [chain EXCEPT !.marks = @ \cup {s}]
                  /\ rt' = [rt EXCEPT !.todo = @ \ {s}]
             ELSE Fails /\ UNCHANGED chain
  /\ UNCHANGED <<links, route, ipRules>>

EndMarks ==
  /\ rt.pc = "mark"
  /\ rt.todo = {}
  /\ rt' = [rt EXCEPT !.pc = "done"]
  /\ UNCHANGED <<links, route, ipRules, chain>>

Return ==
  /\ rt.pc = "done"
  /\ rt' = Idle
  /\ UNCHANGED <<links, route, ipRules, chain>>

\* The commands of the call under way.
RulesStep(ok) == List(ok) \/ AddRule(ok) \/ DelRule(ok) \/ EndRules
RemoveStep(ok) == \/ CleanTable(ok) \/ EndTables
                  \/ CheckUnhook(ok) \/ Unhook(ok) \/ EmptyChain(ok) \/ DeleteChain(ok)
MarksStep(ok) == \/ CreateChain(ok) \/ CheckHook(ok) \/ Hook(ok)
                 \/ FlushMarks(ok) \/ AddMark(ok) \/ EndMarks
RoutingStep(ok) == RulesStep(ok) \/ RemoveStep(ok) \/ MarksStep(ok)

-----------------------------------------------------------------------------
(* Single commands on one table, between calls. *)

\* `ip route replace` refuses an interface that is not up.
SetTableDefault(t, d, ok) ==
  /\ rt = Idle
  /\ route' = IF ok /\ d \in links THEN [route EXCEPT ![t] = d] ELSE route
  /\ UNCHANGED <<links, ipRules, chain, rt>>

SetTableBlackhole(t, ok) ==
  /\ rt = Idle
  /\ route' = IF ok THEN [route EXCEPT ![t] = Blackhole] ELSE route
  /\ UNCHANGED <<links, ipRules, chain, rt>>

FlushTable(t, ok) ==
  /\ rt = Idle
  /\ route' = IF ok THEN [route EXCEPT ![t] = NoRoute] ELSE route
  /\ UNCHANGED <<links, ipRules, chain, rt>>

-----------------------------------------------------------------------------
(* The kernel and the process around the manager. *)

LinkUp(d) ==
  /\ d \notin links
  /\ links' = links \cup {d}
  /\ UNCHANGED <<route, ipRules, chain, rt>>

\* An interface that goes away takes the routes through it along.
LinkDown(d) ==
  /\ d \in links
  /\ links' = links \ {d}
  /\ route' = [t \in TableId |-> IF route[t] = d THEN NoRoute ELSE route[t]]
  /\ UNCHANGED <<ipRules, chain, rt>>

\* The process dies in the middle of a call; the kernel keeps what it has.
Abort ==
  /\ rt' = Idle
  /\ UNCHANGED <<links, route, ipRules, chain>>

\* The host restarts: the kernel keeps nothing of this package.
Reboot ==
  /\ links' \in SUBSET Device
  /\ route' = [t \in TableId |-> NoRoute]
  /\ ipRules' = Foreign
  /\ chain' = NoChain
  /\ rt' = Idle

Calls ==
  \/ \E desired \in SUBSET RuleSpec : CallReconcileRules(desired)
  \/ \E tables \in SUBSET TableId : CallCleanup(tables)
  \/ \E marks \in SUBSET MarkSpec : CallSyncDNSMarks(marks)

Tables ==
  \E t \in TableId, ok \in BOOLEAN :
    \/ \E d \in Device : SetTableDefault(t, d, ok)
    \/ SetTableBlackhole(t, ok)
    \/ FlushTable(t, ok)

Environment == \/ \E d \in Device : LinkUp(d) \/ LinkDown(d)
               \/ rt # Idle /\ Abort
               \/ Reboot

RoutingNext ==
  \/ Calls
  \/ \E ok \in BOOLEAN : RoutingStep(ok)
  \/ Return
  \/ Tables
  \/ Environment

RoutingSpec == RoutingInit /\ [][RoutingNext]_routingVars

\* A call that is under way runs on: each command returns, with or without an error.
FairRoutingSpec ==
  RoutingSpec /\ WF_routingVars((\E ok \in BOOLEAN : RoutingStep(ok)) \/ Return)

-----------------------------------------------------------------------------
(* Properties. *)

OurRules == {KernelRule(r) : r \in RuleSpec}

Pcs == {"idle", "list", "rules", "tables", "unhook?", "unhook", "empty", "delete",
        "create", "hook?", "hook", "flush", "mark", "done"}

Frame == [fn : {"none", "ReconcileRules", "Cleanup", "SyncDNSMarks"}, pc : Pcs,
          want : SUBSET RuleSpec, add : SUBSET RuleSpec, del : SUBSET RuleSpec,
          specs : SUBSET MarkSpec, todo : SUBSET MarkSpec, tables : SUBSET TableId,
          errs : SUBSET {"rules", "tables", "chain"}]

\* Type invariant of pbr.go's view of the kernel: the only rules are the ones
\* addRule builds and the ones of other programs, and a chain that does not
\* exist is neither hooked nor filled.
RoutingTypeOK ==
  /\ links \in SUBSET Device
  /\ route \in [TableId -> Device \cup {NoRoute, Blackhole}]
  /\ ipRules \in SUBSET (OurRules \cup Foreign)
  /\ chain \in [exists : BOOLEAN, jumps : 0..MaxJumps, marks : SUBSET MarkSpec]
  /\ ~chain.exists => chain = NoChain
  /\ rt \in Frame

\* No call ever removes a rule of another program (parseManagedRules adopts only
\* the band, and pbr_test.go says that adopting more would tear down someone
\* else's tunnel).
ForeignUntouched == Foreign \subseteq ipRules

\* When ReconcileRules returns no error every desired rule is in the kernel, and no other
\* that a listing shows to be managed.  (A rule into the main table, or an IPv6 one, is
\* shown by none and may be left: RoutingCleanupRemovesEveryTrace.)
ReconcileExact ==
  rt.fn = "ReconcileRules" /\ rt.pc = "done" /\ rt.errs = {}
    => /\ \A r \in rt.want : KernelRule(r) \in ipRules
       /\ ListManagedRules \subseteq rt.want

\* ReconcileRules touches only the entries that differ: a rule that is desired and
\* installed stays installed through every step of the call, whatever fails.
OnlyDifferencesTouched ==
  [][rt.fn = "ReconcileRules" /\ rt'.fn = "ReconcileRules"
       => \A r \in rt.want : KernelRule(r) \in ipRules => KernelRule(r) \in ipRules'
    ]_routingVars

\* A rule of ours for destination c is in the kernel.
Steered(c) == \E k \in ipRules \cap OurRules : k.to = c

\* A destination that had a rule and is to have one again is never without one
\* while ReconcileRules runs ("add before delete").
StaysSteered(c) ==
  Steered(c) /\ (\E r \in rt.want : r.to = c) => Steered(c)'

\* Add before delete keeps every destination steered as long as no command failed; the
\* deletes run whatever became of the adds, so a failing add does lose a destination.
AddBeforeDelete ==
  [][rt.fn = "ReconcileRules" /\ rt'.fn = "ReconcileRules" /\ rt.errs = {}
       => \A c \in Cidr : StaysSteered(c)
    ]_routingVars

\* One wedged step of Cleanup strands nothing else: when Cleanup returns, a part that
\* reports no error has left no rule that a listing shows to be managed, or no chain,
\* whatever happened to the other parts.
CleanupIsolated ==
  rt.fn = "Cleanup" /\ rt.pc = "done"
    => /\ "rules" \notin rt.errs => ListManagedRules = {}
       /\ "chain" \notin rt.errs => chain = NoChain

\* When SyncDNSMarks returns no error the chain is hooked and holds exactly the
\* marks of the call, whatever an earlier failed call had left in it.
MarksExact ==
  rt.fn = "SyncDNSMarks" /\ rt.pc = "done" /\ rt.errs = {}
    => chain.exists /\ chain.jumps > 0 /\ chain.marks = rt.specs

\* Cleanup removes every trace of this package when it reports no error.
CleanupRemovesEveryTrace ==
  rt.fn = "Cleanup" /\ rt.pc = "done" /\ rt.errs = {}
    => ipRules \cap OurRules = {} /\ chain = NoChain

\* What a call knows between its commands: the part of the kernel it has already
\* brought to what it was asked for.  Inductive together with the type invariant.
RoutingInv ==
  /\ rt.fn = "none" => rt = Idle
  /\ rt.fn = "ReconcileRules" => rt.pc \in {"list", "rules", "done"}
  /\ rt.fn = "Cleanup" => /\ rt.pc \in {"list", "rules", "tables", "unhook?", "unhook",
                                       "empty", "delete", "done"}
                         /\ rt.want = {}
  /\ rt.fn = "SyncDNSMarks" => rt.pc \in {"create", "hook?", "hook", "flush", "mark",
                                         "done"}
  /\ rt.pc = "rules" => /\ rt.add \subseteq rt.want
                        /\ rt.del \cap rt.want = {}
                        /\ \A r \in rt.del : Managed(KernelRule(r))
  /\ rt.pc = "rules" /\ "rules" \notin rt.errs
       => /\ \A r \in rt.want \ rt.add : KernelRule(r) \in ipRules
          /\ ListManagedRules \subseteq rt.want \cup rt.del
  /\ rt.fn = "Cleanup" /\ rt.pc \notin {"list", "rules"} /\ "rules" \notin rt.errs
       => ListManagedRules = {}
  /\ rt.pc = "unhook" => chain.jumps > 0
  /\ rt.pc = "hook" => chain.jumps < MaxJumps
  /\ rt.pc \in {"hook?", "hook", "flush", "mark"} => chain.exists
  /\ rt.pc \in {"flush", "mark"} => chain.jumps > 0
  /\ rt.pc \in {"create", "hook?", "hook", "flush"} => rt.todo = rt.specs
  /\ rt.pc = "mark" => rt.specs = chain.marks \cup rt.todo

\* Every call returns, however many of its commands fail.
CallReturns == rt.fn # "none" ~> rt.fn = "none"
=============================================================================
