-------------------------- MODULE EngineApplyProofs --------------------------
(***************************************************************************)
(* What an apply and a stop of Engine have achieved when they end without  *)
(* an error, and that one apply repairs the system once nothing fails.     *)
(***************************************************************************)
EXTENDS EngineProofs

-----------------------------------------------------------------------------
(* What an apply or a stop has achieved so far. *)

\* The table of tunnel n is as the apply under way wants it, or has lost the interface.
TableSettled(n) ==
  route[cfg.tunnels[n]] \in IF n \in eng.seen THEN {n, NoRoute}
                            ELSE IF HasFailClosed(n) THEN {Blackhole} ELSE {NoRoute}

TableEmpty(n) == route[cfg.tunnels[n]] = NoRoute

\* A call of the manager is asked for what the configuration says; a cleanup has emptied
\* the tables it has done, unless it reports an error.
CallInForce ==
  /\ rt.fn = "SyncDNSMarks" => rt.specs = DesiredMarks(eng.seen)
  /\ rt.fn = "Cleanup" /\ "tables" \notin rt.errs
       => \A n \in Tunnels : cfg.tunnels[n] \in rt.tables \/ TableEmpty(n)
  /\ rt.fn = "Cleanup" /\ rt.pc \notin {"list", "rules", "tables"} => rt.tables = {}

ApplyInv ==
  /\ eng.pc = "tables" => \A n \in Tunnels \ eng.todo : TableSettled(n)
  /\ eng.pc \in {"marks", "rules", "dns", "applied"} => \A n \in Tunnels : TableSettled(n)
  /\ eng.pc \in {"rules", "dns", "applied"} => MarksMatch(eng.seen)
  /\ eng.pc \in {"dns", "applied"} => RulesMatch(eng.seen)
  /\ eng.pc = "applied" => conf = DesiredConf

StopInv ==
  /\ eng.pc \in {"dnsdown", "deactivate", "stopped"}
       => /\ ListManagedRules = {} /\ chain = NoChain
          /\ \A n \in Tunnels : TableEmpty(n)
  /\ eng.pc \in {"deactivate", "stopped"} => conf = NoConf
  /\ eng.pc = "stopped" => ~active /\ ~marker

ExactInv == CallInForce /\ (~eng.failed => ApplyInv /\ StopInv)

-----------------------------------------------------------------------------
(* What depends on what. *)

\* What is wanted depends on the configuration and the observation only.
LEMMA WantedUnchanged ==
  ASSUME cfg' = cfg, eng'.seen = eng.seen
  PROVE  /\ DesiredMarks(eng.seen)' = DesiredMarks(eng.seen)
         /\ DesiredRules(eng.seen)' = DesiredRules(eng.seen)
         /\ DesiredConf' = DesiredConf
         /\ Tunnels' = Tunnels
         /\ \A n : HasFailClosed(n)' = HasFailClosed(n)
BY DEF DesiredRules, DesiredMarks, LiveRules, TableOf, Tunnels, DesiredConf, HasFailClosed

\* A table whose route stays is as settled as before.
LEMMA SettledUnchanged ==
  ASSUME cfg' = cfg, eng'.seen = eng.seen, NEW n,
         route'[cfg.tunnels[n]] = route[cfg.tunnels[n]]
  PROVE  TableSettled(n)' = TableSettled(n) /\ TableEmpty(n)' = TableEmpty(n)
BY DEF TableSettled, TableEmpty, HasFailClosed

\* The same for the rules and the marks.
LEMMA MatchUnchanged ==
  ASSUME cfg' = cfg, eng'.seen = eng.seen, ipRules' = ipRules
  PROVE  RulesMatch(eng.seen)' = RulesMatch(eng.seen)
BY WantedUnchanged DEF RulesMatch

LEMMA MarksUnchanged ==
  ASSUME cfg' = cfg, eng'.seen = eng.seen, chain' = chain
  PROVE  MarksMatch(eng.seen)' = MarksMatch(eng.seen)
BY WantedUnchanged DEF MarksMatch

\* The rules match when a listing shows desired ones only and none of these is missing.
LEMMA MatchOfListing ==
  ASSUME EngineInv, NEW seen, \A r \in DesiredRules(seen) : KernelRule(r) \in ipRules,
         ListManagedRules \subseteq DesiredRules(seen)
  PROVE  RulesMatch(seen)
<1>1. ipRules \subseteq OurRules \cup Foreign
  BY DEF EngineInv, Inv, RoutingTypeOK
<1>2. ASSUME NEW k \in ipRules, Managed(k)
      PROVE  \E r \in DesiredRules(seen) : k = KernelRule(r)
  BY <1>1, <1>2, ManagedIsOurs DEF ListManagedRules
<1> QED
  BY <1>1, <1>2 DEF RulesMatch, Unlisted

\* And the other way round.
LEMMA ListingOfMatch ==
  ASSUME NEW seen, RulesMatch(seen), DesiredRules(seen) \subseteq RuleSpec
  PROVE  /\ \A r \in DesiredRules(seen) : KernelRule(r) \in ipRules
         /\ ListManagedRules \subseteq DesiredRules(seen)
<1>1. ASSUME NEW k \in ipRules, Managed(k) PROVE SpecOf(k) \in DesiredRules(seen)
  <2>1. \E r \in DesiredRules(seen) : k = KernelRule(r)
    BY <1>1, ForeignAssumption DEF RulesMatch, Unlisted
  <2> QED
    BY <2>1, SpecOfKernelRule
<1> QED
  BY <1>1 DEF RulesMatch, ListManagedRules

\* Between the calls of an apply or a stop there is nothing to keep.
LEMMA RestingExact ==
  ASSUME rt' = Idle, eng'.pc \in {"idle", "delete", "status", "cleanup", "dead"}
  PROVE  ExactInv'
BY DEF ExactInv, CallInForce, ApplyInv, StopInv, Idle

\* A step of another process that leaves the kernel alone changes nothing.
LEMMA StutterExact ==
  ASSUME ExactInv, UNCHANGED <<route, ipRules, chain, rt, cfg, eng, conf, active, marker>>
  PROVE  ExactInv'
<1>1. /\ \A n : TableSettled(n)' = TableSettled(n) /\ TableEmpty(n)' = TableEmpty(n)
      /\ RulesMatch(eng.seen)' = RulesMatch(eng.seen)
      /\ MarksMatch(eng.seen)' = MarksMatch(eng.seen)
      /\ ListManagedRules' = ListManagedRules
  BY SettledUnchanged, MatchUnchanged, MarksUnchanged, ListUnchanged
<1> QED
  BY <1>1, WantedUnchanged DEF ExactInv, CallInForce, ApplyInv, StopInv

\* An interface that comes leaves every table settled, and one that goes too.
LEMMA LinkExact ==
  ASSUME EngineInv, ExactInv, LinkChange
  PROVE  ExactInv'
<1>1. UNCHANGED <<ipRules, chain, rt, cfg, eng, conf, active, marker>>
  BY DEF LinkChange, LinkUp, LinkDown, ownVars
<1>2. /\ route \in [TableId -> Device \cup {NoRoute, Blackhole}]
      /\ \A n \in Tunnels : cfg.tunnels[n] \in TableId
  BY TablesOfTunnels DEF EngineInv, Inv, RoutingTypeOK
<1>3. \A t \in TableId : \/ route'[t] = route[t]
                         \/ route[t] \in Device /\ route'[t] = NoRoute
  BY <1>2 DEF LinkChange, LinkUp, LinkDown
<1>4. \A n \in Tunnels : /\ TableEmpty(n) => TableEmpty(n)'
                         /\ TableSettled(n) => TableSettled(n)'
  <2> SUFFICES ASSUME NEW n \in Tunnels
               PROVE  /\ TableEmpty(n) => TableEmpty(n)'
                      /\ TableSettled(n) => TableSettled(n)'
    OBVIOUS
  <2>1. CASE route'[cfg.tunnels[n]] = route[cfg.tunnels[n]]
    BY <1>1, <2>1, SettledUnchanged
  <2>2. CASE route[cfg.tunnels[n]] \in Device /\ route'[cfg.tunnels[n]] = NoRoute
    BY <1>1, <2>2, RoutesAssumption DEF TableEmpty, TableSettled, HasFailClosed
  <2> QED
    BY <1>2, <1>3, <2>1, <2>2
<1>5. /\ RulesMatch(eng.seen)' = RulesMatch(eng.seen)
      /\ MarksMatch(eng.seen)' = MarksMatch(eng.seen)
      /\ ListManagedRules' = ListManagedRules /\ Tunnels' = Tunnels
      /\ DesiredMarks(eng.seen)' = DesiredMarks(eng.seen)
      /\ DesiredConf' = DesiredConf
  BY <1>1, WantedUnchanged, MatchUnchanged, MarksUnchanged, ListUnchanged
<1> QED
  BY <1>1, <1>4, <1>5 DEF ExactInv, CallInForce, ApplyInv, StopInv

-----------------------------------------------------------------------------
(* The commands of a call. *)

\* The commands of SyncDNSMarks touch the chain only.
LEMMA MarksCommands ==
  ASSUME EngineInv, NEW ok \in BOOLEAN, RoutingStep(ok), rt.fn = "SyncDNSMarks"
  PROVE  /\ rt'.fn = rt.fn /\ rt'.specs = rt.specs
         /\ UNCHANGED <<links, route, ipRules>>
<1>1. /\ rt \in Frame
      /\ rt.pc \in {"create", "hook?", "hook", "flush", "mark", "done"}
  BY DEF EngineInv, Inv, RoutingInv, RoutingTypeOK
<1>2. MarksStep(ok)
  BY <1>1 DEF RoutingStep, RulesStep, RemoveStep, List, AddRule, DelRule, EndRules, CleanTable,
         EndTables, CheckUnhook, Unhook, EmptyChain, DeleteChain
<1> QED
  BY <1>1, <1>2 DEF MarksStep, CreateChain, CheckHook, Hook, FlushMarks, AddMark, EndMarks,
         Fails, Frame

\* The commands of ReconcileRules touch the rules only.
LEMMA RulesCommands ==
  ASSUME EngineInv, NEW ok \in BOOLEAN, RoutingStep(ok), rt.fn = "ReconcileRules"
  PROVE  /\ rt'.fn = rt.fn /\ rt'.want = rt.want /\ RulesStep(ok)
         /\ UNCHANGED <<links, route, chain>>
<1>1. rt \in Frame /\ rt.pc \in {"list", "rules", "done"}
  BY DEF EngineInv, Inv, RoutingInv, RoutingTypeOK
<1>2. RulesStep(ok)
  BY <1>1 DEF RoutingStep, RemoveStep, MarksStep, CleanTable, EndTables, CheckUnhook, Unhook,
         EmptyChain, DeleteChain, CreateChain, CheckHook, Hook, FlushMarks, AddMark, EndMarks
<1> QED
  BY <1>1, <1>2 DEF RulesStep, List, AddRule, DelRule, EndRules, Frame

\* Those of Cleanup empty the tables it was given, one after the other, and go on to the
\* chain when none is left.
LEMMA CleanupCommands ==
  ASSUME EngineInv, CallInForce, NEW ok \in BOOLEAN, RoutingStep(ok), rt.fn = "Cleanup",
         UNCHANGED ownVars
  PROVE  rt'.fn = "Cleanup" /\ CallInForce'
<1>1. /\ rt \in Frame
      /\ rt.pc \in {"list", "rules", "tables", "unhook?", "unhook", "empty", "delete", "done"}
      /\ route \in [TableId -> Device \cup {NoRoute, Blackhole}]
      /\ \A n \in Tunnels : cfg.tunnels[n] \in TableId
  BY TablesOfTunnels DEF EngineInv, Inv, RoutingInv, RoutingTypeOK
<1>2. Tunnels' = Tunnels /\ cfg' = cfg /\ eng' = eng
  BY DEF Tunnels, ownVars
<1>3. CASE RulesStep(ok)
  <2>1. /\ rt'.fn = rt.fn /\ rt'.tables = rt.tables /\ route' = route
        /\ rt'.pc \in {"rules", "tables"} /\ rt'.errs \in {rt.errs, rt.errs \cup {"rules"}}
    <3>1. CASE List(ok) \/ EndRules
      BY <1>1, <3>1 DEF List, EndRules, Frame, AfterRules
    <3>2. CASE AddRule(ok)
      BY <1>1, <3>2 DEF AddRule, Frame
    <3>3. CASE DelRule(ok)
      BY <1>1, <3>3 DEF DelRule, Frame
    <3> QED
      BY <1>3, <3>1, <3>2, <3>3 DEF RulesStep
  <2> QED
    BY <1>2, <2>1 DEF CallInForce, TableEmpty
<1>4. CASE CleanTable(ok)
  <2>1. PICK t \in rt.tables :
          /\ route' = IF ok THEN [route EXCEPT ![t] = NoRoute] ELSE route
          /\ rt' = [rt EXCEPT !.tables = @ \ {t},
                              !.errs = IF ok THEN @ ELSE @ \cup {"tables"}]
    BY <1>4 DEF CleanTable
  <2>2. /\ rt'.fn = rt.fn /\ rt'.tables = rt.tables \ {t} /\ rt'.pc = "tables"
        /\ "tables" \notin rt'.errs => ok /\ "tables" \notin rt.errs
    BY <1>1, <1>4, <2>1 DEF CleanTable, Frame
  <2>3. ASSUME NEW n \in Tunnels, ok, cfg.tunnels[n] \in rt.tables \/ TableEmpty(n)
        PROVE  cfg.tunnels[n] \in rt'.tables \/ TableEmpty(n)'
    BY <1>1, <1>2, <2>1, <2>2, <2>3 DEF TableEmpty
  <2> QED
    BY <1>2, <2>2, <2>3 DEF CallInForce
<1>5. CASE EndTables
  <2>1. /\ rt'.fn = rt.fn /\ rt'.tables = rt.tables /\ route' = route
        /\ rt.tables = {} /\ rt'.errs = rt.errs
    BY <1>1, <1>5 DEF EndTables, Frame
  <2> QED
    BY <1>2, <2>1 DEF CallInForce, TableEmpty
<1>6. CASE CheckUnhook(ok) \/ Unhook(ok) \/ EmptyChain(ok) \/ DeleteChain(ok)
  <2>1. /\ rt'.fn = rt.fn /\ rt'.tables = rt.tables /\ route' = route
        /\ rt.pc \notin {"list", "rules", "tables"}
        /\ rt'.errs \in {rt.errs, rt.errs \cup {"chain"}}
    <3>1. CASE CheckUnhook(ok) \/ Unhook(ok)
      BY <1>1, <3>1 DEF CheckUnhook, Unhook, Frame
    <3>2. CASE EmptyChain(ok)
      BY <1>1, <3>2 DEF EmptyChain, Frame
    <3>3. CASE DeleteChain(ok)
      BY <1>1, <3>3 DEF DeleteChain, Frame
    <3> QED
      BY <1>6, <3>1, <3>2, <3>3
  <2> QED
    BY <1>2, <2>1 DEF CallInForce, TableEmpty
<1>7. ~MarksStep(ok)
  BY <1>1 DEF MarksStep, CreateChain, CheckHook, Hook, FlushMarks, AddMark, EndMarks
<1> QED
  BY <1>3, <1>4, <1>5, <1>6, <1>7 DEF RoutingStep, RemoveStep

\* A command of a call keeps what the parts before it have achieved.
LEMMA CommandExact ==
  ASSUME EngineInv, ExactInv, NEW ok \in BOOLEAN, RoutingStep(ok), UNCHANGED ownVars
  PROVE  ExactInv'
<1>1. UNCHANGED <<cfg, eng, conf, active, marker>> /\ rt \in Frame /\ rt.fn # "none"
  <2>1. rt.pc # "idle"
    BY DEF RoutingStep, RulesStep, RemoveStep, MarksStep, List, AddRule, DelRule, EndRules,
           CleanTable, EndTables, CheckUnhook, Unhook, EmptyChain, DeleteChain, CreateChain,
           CheckHook, Hook, FlushMarks, AddMark, EndMarks
  <2> QED
    BY <2>1 DEF ownVars, EngineInv, Inv, RoutingInv, RoutingTypeOK, Idle
<1>2. CASE rt.fn = "SyncDNSMarks"
  <2>1. eng.pc = "marks"
    BY <1>2 DEF EngineInv, Calling
  <2>2. /\ rt'.fn = rt.fn /\ rt'.specs = rt.specs /\ route' = route
    BY <1>2, MarksCommands
  <2>3. \A n : TableSettled(n)' = TableSettled(n)
    BY <1>1, <2>2, SettledUnchanged
  <2> QED
    BY <1>1, <1>2, <2>1, <2>2, <2>3, WantedUnchanged
       DEF ExactInv, CallInForce, ApplyInv, StopInv
<1>3. CASE rt.fn = "ReconcileRules"
  <2>1. eng.pc = "rules"
    BY <1>3 DEF EngineInv, Calling
  <2>2. rt'.fn = rt.fn /\ route' = route /\ chain' = chain
    BY <1>3, RulesCommands
  <2>3. /\ \A n : TableSettled(n)' = TableSettled(n)
        /\ MarksMatch(eng.seen)' = MarksMatch(eng.seen)
    BY <1>1, <2>2, SettledUnchanged, MarksUnchanged
  <2> QED
    BY <1>1, <1>3, <2>1, <2>2, <2>3, WantedUnchanged
       DEF ExactInv, CallInForce, ApplyInv, StopInv
<1>4. CASE rt.fn = "Cleanup"
  <2>1. eng.pc = "cleanup"
    BY <1>4 DEF EngineInv, Calling
  <2>2. CallInForce'
    BY <1>4, CleanupCommands DEF ExactInv
  <2> QED
    BY <1>1, <2>1, <2>2 DEF ExactInv, ApplyInv, StopInv
<1> QED
  BY <1>1, <1>2, <1>3, <1>4 DEF Frame

-----------------------------------------------------------------------------
(* The parts of an apply and of a stop. *)

\* A table the loop has visited without an error is settled, and no other is touched.
LEMMA TableExact ==
  ASSUME EngineInv, ExactInv, NEW ok \in BOOLEAN, SyncTable(ok)
  PROVE  ExactInv'
<1>1. PICK n \in eng.todo :
        /\ \/ n \in eng.seen /\ SetTableDefault(cfg.tunnels[n], n, ok)
           \/ n \notin eng.seen /\ HasFailClosed(n) /\ SetTableBlackhole(cfg.tunnels[n], ok)
           \/ n \notin eng.seen /\ ~HasFailClosed(n) /\ FlushTable(cfg.tunnels[n], ok)
        /\ eng' = [eng EXCEPT !.todo = @ \ {n},
                              !.failed = @ \/ ~ok \/ (n \in eng.seen /\ n \notin links)]
  BY DEF SyncTable
<1>2. /\ eng.pc = "tables" /\ n \in Tunnels /\ eng \in EngineFrame
      /\ UNCHANGED <<cfg, ipRules, chain, rt, conf, active, marker>>
      /\ rt = Idle
  BY <1>1, IdleBetweenCalls
     DEF EngineInv, SyncTable, SetTableDefault, SetTableBlackhole, FlushTable
<1>3. /\ eng'.pc = "tables" /\ eng'.todo = eng.todo \ {n} /\ eng'.seen = eng.seen
      /\ eng'.failed = (eng.failed \/ ~ok \/ (n \in eng.seen /\ n \notin links))
  BY <1>1, <1>2 DEF EngineFrame
<1>4. /\ route \in [TableId -> Device \cup {NoRoute, Blackhole}]
      /\ \A m \in Tunnels : cfg.tunnels[m] \in TableId
      /\ \A m \in Tunnels : cfg.tunnels[m] = cfg.tunnels[n] => m = n
  BY <1>2, TablesOfTunnels DEF EngineInv, Inv, RoutingTypeOK, Valid, Tunnels
<1>5. ASSUME ~eng'.failed, NEW m \in Tunnels, m = n \/ TableSettled(m)
      PROVE  TableSettled(m)'
  <2>1. ok /\ (n \in eng.seen => n \in links)
    BY <1>3, <1>5
  <2>2. CASE m = n
    BY <1>1, <1>2, <1>3, <1>4, <2>1, <2>2
       DEF TableSettled, HasFailClosed, SetTableDefault, SetTableBlackhole, FlushTable
  <2>3. CASE m # n /\ TableSettled(m)
    <3>1. route'[cfg.tunnels[m]] = route[cfg.tunnels[m]]
      BY <1>1, <1>4, <2>3 DEF SetTableDefault, SetTableBlackhole, FlushTable
    <3> QED
      BY <1>2, <1>3, <2>3, <3>1, SettledUnchanged
  <2> QED
    BY <1>5, <2>2, <2>3
<1>6. Tunnels' = Tunnels /\ rt'.fn = "none"
  BY <1>2 DEF Tunnels, Idle
<1>7. ASSUME ~eng'.failed PROVE \A m \in Tunnels \ eng'.todo : TableSettled(m)'
  BY <1>2, <1>3, <1>5, <1>7 DEF ExactInv, ApplyInv
<1> QED
  BY <1>3, <1>6, <1>7 DEF ExactInv, CallInForce, ApplyInv, StopInv

\* A call that is being made knows what it is asked for.
LEMMA CallArguments ==
  ASSUME NEW fn, NEW pc, NEW want, NEW specs, NEW tables
  PROVE  LET c == Call(fn, pc, want, specs, tables) IN
         /\ c.fn = fn /\ c.pc = pc /\ c.want = want /\ c.specs = specs
         /\ c.tables = tables /\ c.errs = {}
BY DEF Call, Idle

\* Going on to the next part remembers the errors of this one.
LEMMA ThenExact ==
  ASSUME eng \in EngineFrame, NEW pc, NEW failed, Then(pc, failed)
  PROVE  /\ eng'.pc = pc /\ eng'.seen = eng.seen /\ eng'.todo = eng.todo
         /\ ~eng'.failed => ~eng.failed /\ ~failed
BY DEF EngineFrame, Then

\* The marks of the apply are in the chain when SyncDNSMarks returns no error.
LEMMA MarksExactly ==
  ASSUME EngineInv, ExactInv, SyncMarks
  PROVE  ExactInv'
<1>1. /\ eng.pc = "marks" /\ eng \in EngineFrame
      /\ UNCHANGED <<cfg, route, ipRules, chain, conf, active, marker>>
  BY DEF SyncMarks, EngineInv, CallSyncDNSMarks, Return
<1>2. CASE CallSyncDNSMarks(DesiredMarks(eng.seen)) /\ UNCHANGED eng
  <2>1. rt'.fn = "SyncDNSMarks" /\ rt'.specs = DesiredMarks(eng.seen)
    BY <1>2, CallArguments DEF CallSyncDNSMarks
  <2>2. \A n : TableSettled(n)' = TableSettled(n)
    BY <1>1, <1>2, SettledUnchanged
  <2> QED
    BY <1>1, <1>2, <2>1, <2>2, WantedUnchanged DEF ExactInv, CallInForce, ApplyInv, StopInv
<1>3. CASE Return /\ Then("rules", rt.errs # {})
  <2>1. /\ eng'.pc = "rules" /\ eng'.seen = eng.seen /\ rt'.fn = "none"
        /\ ~eng'.failed => ~eng.failed /\ rt.errs = {}
    BY <1>1, <1>3, ThenExact DEF Return, Idle
  <2>2. rt.fn = "SyncDNSMarks" /\ rt.pc = "done"
    BY <1>1, <1>3 DEF Return, EngineInv, Calling, Inv, RoutingInv, RoutingTypeOK, Frame, Idle
  <2>3. /\ \A n : TableSettled(n)' = TableSettled(n)
        /\ MarksMatch(eng.seen)' = MarksMatch(eng.seen)
    BY <1>1, <2>1, SettledUnchanged, MarksUnchanged
  <2>4. ~eng'.failed => MarksMatch(eng.seen)
    BY <2>1, <2>2 DEF ExactInv, CallInForce, EngineInv, Inv, MarksExact, MarksMatch
  <2> QED
    BY <1>1, <2>1, <2>3, <2>4, WantedUnchanged
       DEF ExactInv, CallInForce, ApplyInv, StopInv
<1> QED
  BY <1>2, <1>3 DEF SyncMarks

\* The rules are those of the apply when ReconcileRules returns no error.
LEMMA RulesExactly ==
  ASSUME EngineInv, ExactInv, SyncRules
  PROVE  ExactInv'
<1>1. /\ eng.pc = "rules" /\ eng \in EngineFrame
      /\ UNCHANGED <<cfg, route, ipRules, chain, conf, active, marker>>
  BY DEF SyncRules, EngineInv, CallReconcileRules, Return
<1>2. CASE CallReconcileRules(DesiredRules(eng.seen)) /\ UNCHANGED eng
  <2>1. rt'.fn = "ReconcileRules"
    BY <1>2, CallArguments DEF CallReconcileRules
  <2>2. /\ \A n : TableSettled(n)' = TableSettled(n)
        /\ MarksMatch(eng.seen)' = MarksMatch(eng.seen)
    BY <1>1, <1>2, SettledUnchanged, MarksUnchanged
  <2> QED
    BY <1>1, <1>2, <2>1, <2>2, WantedUnchanged DEF ExactInv, CallInForce, ApplyInv, StopInv
<1>3. CASE Return /\ Then("dns", rt.errs # {})
  <2>1. /\ eng'.pc = "dns" /\ eng'.seen = eng.seen /\ rt'.fn = "none"
        /\ ~eng'.failed => ~eng.failed /\ rt.errs = {}
    BY <1>1, <1>3, ThenExact DEF Return, Idle
  <2>2. rt.fn = "ReconcileRules" /\ rt.pc = "done" /\ rt.want = DesiredRules(eng.seen)
    BY <1>1, <1>3 DEF Return, EngineInv, Calling, Inv, RoutingInv, RoutingTypeOK, Frame, Idle
  <2>3. /\ \A n : TableSettled(n)' = TableSettled(n)
        /\ MarksMatch(eng.seen)' = MarksMatch(eng.seen)
    BY <1>1, <2>1, SettledUnchanged, MarksUnchanged
  <2>4. ~eng'.failed => RulesMatch(eng.seen)
    BY <2>1, <2>2, MatchOfListing DEF EngineInv, Inv, ReconcileExact
  <2>5. RulesMatch(eng.seen)' = RulesMatch(eng.seen)
    BY <1>1, <2>1, MatchUnchanged
  <2> QED
    BY <1>1, <2>1, <2>3, <2>4, <2>5, WantedUnchanged
       DEF ExactInv, CallInForce, ApplyInv, StopInv
<1> QED
  BY <1>2, <1>3 DEF SyncRules

\* Nothing of the manager is left when Cleanup returns no error.
LEMMA CleanupExactly ==
  ASSUME EngineInv, ExactInv, Cleanup
  PROVE  ExactInv'
<1>1. /\ eng.pc = "cleanup" /\ eng \in EngineFrame /\ Tunnels' = Tunnels
      /\ UNCHANGED <<cfg, route, ipRules, chain, conf, active, marker>>
  BY DEF Cleanup, EngineInv, CallCleanup, Return, Tunnels
<1>2. CASE CallCleanup({cfg.tunnels[n] : n \in Tunnels}) /\ UNCHANGED eng
  <2>1. rt'.fn = "Cleanup" /\ rt'.pc = "list" /\ rt'.tables = {cfg.tunnels[n] : n \in Tunnels}
    BY <1>2, CallArguments DEF CallCleanup
  <2> QED
    BY <1>1, <1>2, <2>1 DEF ExactInv, CallInForce, ApplyInv, StopInv
<1>3. CASE Return /\ Then("dnsdown", rt.errs # {})
  <2>1. /\ eng'.pc = "dnsdown" /\ eng'.seen = eng.seen /\ rt'.fn = "none"
        /\ ~eng'.failed => rt.errs = {}
    BY <1>1, <1>3, ThenExact DEF Return, Idle
  <2>2. rt.fn = "Cleanup" /\ rt.pc = "done"
    BY <1>1, <1>3 DEF Return, EngineInv, Calling, Inv, RoutingInv, RoutingTypeOK, Frame, Idle
  <2>3. \A n : TableEmpty(n)' = TableEmpty(n)
    BY <1>1, <2>1, SettledUnchanged
  <2>4. ~eng'.failed => /\ ListManagedRules = {} /\ chain = NoChain
                        /\ \A n \in Tunnels : TableEmpty(n)
    BY <2>1, <2>2 DEF ExactInv, CallInForce, EngineInv, Inv, CleanupIsolated
  <2>5. ListManagedRules' = ListManagedRules
    BY <1>1, ListUnchanged
  <2> QED
    BY <1>1, <2>1, <2>3, <2>4, <2>5 DEF ExactInv, CallInForce, ApplyInv, StopInv
<1> QED
  BY <1>2, <1>3 DEF Cleanup

\* The loop over the tables ends when every one has been visited; the files, the flag and
\* the marker come last.
LEMMA LastPartsExact ==
  ASSUME EngineInv, ExactInv, NEW ok \in BOOLEAN,
         EndTableLoop \/ ApplyDNS(ok) \/ CleanupDNS(ok) \/ Deactivate(ok)
  PROVE  ExactInv'
<1>1. /\ eng \in EngineFrame
      /\ UNCHANGED <<cfg, route, ipRules, chain, rt>> /\ rt = Idle
  BY IdleBetweenCalls
     DEF EngineInv, EndTableLoop, ApplyDNS, CleanupDNS, Deactivate, routingVars
<1>2. rt'.fn = "none"
  BY <1>1 DEF Idle
<1>3. eng'.seen = eng.seen
  BY <1>1, ThenExact
     DEF EngineFrame, EndTableLoop, Goto, ApplyDNS, CleanupDNS, Deactivate
<1>4. /\ \A n : TableSettled(n)' = TableSettled(n) /\ TableEmpty(n)' = TableEmpty(n)
      /\ RulesMatch(eng.seen)' = RulesMatch(eng.seen)
      /\ MarksMatch(eng.seen)' = MarksMatch(eng.seen)
      /\ ListManagedRules' = ListManagedRules
  BY <1>1, <1>3, SettledUnchanged, MatchUnchanged, MarksUnchanged, ListUnchanged
<1> USE WantedUnchanged DEF ExactInv, CallInForce, ApplyInv, StopInv
<1>5. CASE EndTableLoop
  <2>1. eng.pc = "tables" /\ eng.todo = {} /\ eng'.pc = "marks" /\ eng'.failed = eng.failed
    BY <1>1, <1>5 DEF EndTableLoop, Goto, EngineFrame
  <2> QED
    BY <1>1, <1>2, <1>3, <1>4, <2>1
<1>6. CASE ApplyDNS(ok)
  <2>1. /\ eng.pc = "dns" /\ eng'.pc = "applied"
        /\ ~eng'.failed => ~eng.failed /\ conf' = DesiredConf
    BY <1>1, <1>6, ThenExact DEF ApplyDNS
  <2> QED
    BY <1>1, <1>2, <1>3, <1>4, <2>1
<1>7. CASE CleanupDNS(ok)
  <2>1. /\ eng.pc = "dnsdown" /\ eng'.pc = "deactivate"
        /\ ~eng'.failed => ~eng.failed /\ conf' = NoConf
    BY <1>1, <1>7, ThenExact DEF CleanupDNS
  <2> QED
    BY <1>1, <1>2, <1>3, <1>4, <2>1
<1>8. CASE Deactivate(ok)
  <2>1. /\ eng.pc = "deactivate" /\ eng'.pc = "stopped" /\ conf' = conf
        /\ ~eng'.failed => ~eng.failed /\ ~active' /\ ~marker'
    BY <1>1, <1>8, ThenExact DEF Deactivate
  <2> QED
    BY <1>1, <1>2, <1>3, <1>4, <2>1
<1> QED
  BY <1>5, <1>6, <1>7, <1>8

-----------------------------------------------------------------------------
(* The invariant and the theorems. *)

\* The daemon's commands keep the invariant.
LEMMA DaemonExact ==
  ASSUME EngineInv, ExactInv, NEW ok \in BOOLEAN, DaemonStep(ok)
  PROVE  ExactInv'
<1>1. CASE CommitDelete(ok)
  <2>1. rt' = Idle
    BY <1>1, IdleBetweenCalls DEF CommitDelete, Mutate, routingVars
  <2>2. eng' \in {At("status"), At("idle")}
    BY <1>1 DEF CommitDelete, Mutate, Begin
  <2> QED
    BY <2>1, <2>2, AtIsFrame, RestingExact
<1>2. CASE ObserveStatus
  <2>1. /\ rt' = Idle /\ cfg' = cfg
    BY <1>2, IdleBetweenCalls DEF ObserveStatus, routingVars
  <2>2. eng'.pc = "tables" /\ eng'.todo = Tunnels
    BY <1>2 DEF ObserveStatus, EngineInv, EngineFrame
  <2> QED
    BY <2>1, <2>2 DEF ExactInv, CallInForce, ApplyInv, StopInv, Idle, Tunnels
<1>3. CASE Finish
  <2>1. rt' = Idle /\ eng' = At("idle")
    BY <1>3, IdleBetweenCalls DEF Finish, routingVars
  <2> QED
    BY <2>1, AtIsFrame, RestingExact
<1> QED
  BY <1>1, <1>2, <1>3, TableExact, MarksExactly, RulesExactly, CommandExact, CleanupExactly,
     LastPartsExact DEF DaemonStep

\* Requests are served between an apply or a stop and the next.
LEMMA RequestExact ==
  ASSUME EngineInv, NEW ok \in BOOLEAN, Request(ok)
  PROVE  ExactInv'
<1>1. eng.pc = "idle" /\ rt = Idle
  BY IdleBetweenCalls
     DEF Request, SetRuleEnabled, SetRuleTarget, UpsertRule, DeleteRule, SetDNSRuleEnabled,
         UpsertDNSRule, DeleteDNSRule, SetFallback, UpsertTunnel, DeleteTunnel, Start, Stop,
         Reload, SetTunnel, Asked
<1>2. UNCHANGED rt
  BY DEF Request, Mutate, SetRuleEnabled, SetRuleTarget, UpsertRule, DeleteRule,
         SetDNSRuleEnabled, UpsertDNSRule, DeleteDNSRule, SetFallback, UpsertTunnel,
         DeleteTunnel, FlushTable, Start, Stop, Reload, SetTunnel, LinkUp, LinkDown,
         routingVars
<1>3. eng'.pc \in {"idle", "status", "cleanup", "delete"}
  <2>1. CASE \E n \in Device : DeleteTunnel(n, ok)
    BY <2>1 DEF DeleteTunnel, At
  <2>2. CASE UNCHANGED eng
    BY <1>1, <2>2
  <2>3. CASE eng' = At("idle") \/ eng' = At("status") \/ eng' = At("cleanup")
    BY <2>3, AtIsFrame
  <2> QED
    BY <2>1, <2>2, <2>3
       DEF Request, SetRuleEnabled, SetRuleTarget, UpsertRule, DeleteRule, SetDNSRuleEnabled,
           UpsertDNSRule, DeleteDNSRule, SetFallback, UpsertTunnel, Start, Stop, Reload,
           SetTunnel, Mutate, Begin
<1> QED
  BY <1>1, <1>2, <1>3, RestingExact

LEMMA ExactStep == EngineInv /\ ExactInv /\ [Next]_vars => ExactInv'
<1> SUFFICES ASSUME EngineInv, ExactInv, [Next]_vars
             PROVE  ExactInv'
  OBVIOUS
<1>1. CASE Crash \/ HostReboot
  <2>1. rt' = Idle /\ eng' = At("dead")
    BY <1>1 DEF Crash, HostReboot, Abort, Reboot
  <2> QED
    BY <2>1, AtIsFrame, RestingExact
<1>2. CASE Apply
  <2>1. rt' = Idle /\ eng' \in {At("status"), At("idle")}
    BY <1>2, IdleBetweenCalls DEF Apply, Begin, routingVars
  <2> QED
    BY <2>1, AtIsFrame, RestingExact
<1>3. CASE Restart
  <2>1. rt' = Idle /\ (eng' = eng \/ eng' \in {At("status"), At("idle")})
    BY <1>3, IdleBetweenCalls DEF Restart, Begin, routingVars
  <2>2. eng.pc = "dead"
    BY <1>3 DEF Restart
  <2> QED
    BY <2>1, <2>2, AtIsFrame, RestingExact
<1>4. CASE EditFile \/ Settle \/ UNCHANGED vars
  BY <1>4, StutterExact DEF EditFile, Settle, vars, routingVars
<1> QED
  BY <1>1, <1>2, <1>3, <1>4, RequestExact, DaemonExact, LinkExact, OutcomesAreBoolean
     DEF Next, World

LEMMA ExactInvariance == Spec => []ExactInv
<1>1. Init => ExactInv
  BY AtIsFrame DEF Init, RoutingInit, Idle, ExactInv, CallInForce, ApplyInv, StopInv
<1> QED
  BY <1>1, ExactStep, EngineInvariance, PTL DEF Spec

\* For every configuration, and whatever earlier failures, crashes and edits left behind:
\* an apply that reports no error has brought rules, tables, marks and the servers file to
\* the configuration, for the tunnels it observed, with no rule of ours beside the desired
\* ones but such as no listing shows (into the main table, or IPv6).
THEOREM ApplyIsExact == Spec => []ApplyExact
<1>1. ExactInv => ApplyExact
  BY DEF ExactInv, ApplyInv, ApplyExact, TableSettled
<1> QED
  BY <1>1, ExactInvariance, PTL

\* A stop that reports no error leaves nothing that a listing, the tables of the
\* configuration, the servers file or the marker would show.
THEOREM StopIsExact == Spec => []StopExact
<1>1. ExactInv => StopExact
  BY DEF ExactInv, StopInv, StopExact, TableEmpty
<1> QED
  BY <1>1, ExactInvariance, PTL

-----------------------------------------------------------------------------
(* One apply heals. *)

\* The table of tunnel n is as the configuration and the interface want it.
TableRight(n) ==
  route[cfg.tunnels[n]] = IF n \in links THEN n
                          ELSE IF HasFailClosed(n) THEN Blackhole ELSE NoRoute

ApplyPcs == {"tables", "marks", "rules", "dns", "applied"}

\* An apply that began when nothing failed any more: what it has been through is right.
\* Of the rules this is said without regard to errors: a rule that is there but cannot be
\* listed is added again and refused at every apply.
Healing ==
  /\ calm /\ eng.pc \in {"status"} \cup ApplyPcs
  /\ eng.pc # "status" => eng.seen = Tunnels \cap links
  /\ eng.pc = "tables" => \A n \in Tunnels \ eng.todo : TableRight(n)
  /\ eng.pc \in {"marks", "rules", "dns", "applied"} => \A n \in Tunnels : TableRight(n)
  /\ rt.fn = "ReconcileRules" /\ rt.pc = "rules"
       => /\ \A r \in rt.want \ rt.add : KernelRule(r) \in ipRules
          /\ ListManagedRules \subseteq rt.want \cup rt.del
  /\ (rt.fn = "ReconcileRules" /\ rt.pc = "done") \/ eng.pc \in {"dns", "applied"}
       => RulesMatch(eng.seen)
  /\ eng.pc = "applied" => conf = DesiredConf

\* Rules, servers file and tables are right: Converged without the marks.
Repaired ==
  /\ RulesMatch(Tunnels \cap links)
  /\ conf = DesiredConf
  /\ \A n \in Tunnels : TableRight(n)

\* They are, and an apply that may be under way has seen it so.
Healed ==
  /\ calm /\ eng.pc \in {"idle", "status"} \cup ApplyPcs
  /\ eng.pc \in ApplyPcs => eng.seen = Tunnels \cap links
  /\ Repaired

\* Once calm only the daemon and its ticker act, and no command fails of itself.
LEMMA CalmSteps ==
  ASSUME calm, eng.pc \in {"idle", "status"} \cup ApplyPcs, Next
  PROVE  /\ calm'
         /\ \/ DaemonStep(TRUE)
            \/ eng.pc = "idle" /\ Apply
<1>1. Outcomes = {TRUE}
  BY DEF Outcomes
<1>2. ASSUME NEW ok, Request(ok) PROVE FALSE
  BY <1>2 DEF Request, SetRuleEnabled, SetRuleTarget, UpsertRule, DeleteRule, SetDNSRuleEnabled,
         UpsertDNSRule, DeleteDNSRule, SetFallback, UpsertTunnel, DeleteTunnel, Start, Stop,
         Reload, SetTunnel, Asked
<1>3. ~World /\ ~Restart
  BY DEF World, Crash, HostReboot, EditFile, LinkChange, Settle, Disturbed, Restart, ApplyPcs
<1>4. DaemonStep(TRUE) \/ Apply
  BY <1>1, <1>2, <1>3 DEF Next
<1>5. DaemonStep(TRUE) => calm'
  BY DEF DaemonStep, CommitDelete, Mutate, ObserveStatus, SyncTable, EndTableLoop, SyncMarks,
         SyncRules, ApplyDNS, Cleanup, CleanupDNS, Deactivate, Finish, ownVars
<1> QED
  BY <1>4, <1>5 DEF Apply

\* The steps an apply is made of.
LEMMA ApplySteps ==
  ASSUME EngineInv, calm, eng.pc \in {"status"} \cup ApplyPcs, Next
  PROVE  /\ calm' /\ UNCHANGED <<cfg, links>>
         /\ \/ eng.pc = "status" /\ ObserveStatus
            \/ eng.pc = "tables" /\ (SyncTable(TRUE) \/ EndTableLoop)
            \/ eng.pc = "marks" /\ (SyncMarks \/ (RoutingStep(TRUE) /\ UNCHANGED ownVars))
            \/ eng.pc = "rules" /\ (SyncRules \/ (RoutingStep(TRUE) /\ UNCHANGED ownVars))
            \/ eng.pc = "dns" /\ ApplyDNS(TRUE)
            \/ eng.pc = "applied" /\ Finish
<1>1. calm' /\ DaemonStep(TRUE)
  BY CalmSteps DEF ApplyPcs
<1>2. RoutingStep(TRUE) => eng.pc \in {"marks", "rules"} /\ UNCHANGED links
  <2> SUFFICES ASSUME RoutingStep(TRUE)
               PROVE  eng.pc \in {"marks", "rules"} /\ UNCHANGED links
    OBVIOUS
  <2>1. rt.pc # "idle" /\ UNCHANGED links
    BY DEF RoutingStep, RulesStep, RemoveStep, MarksStep, List, AddRule, DelRule, EndRules,
           CleanTable, EndTables, CheckUnhook, Unhook, EmptyChain, DeleteChain, CreateChain,
           CheckHook, Hook, FlushMarks, AddMark, EndMarks
  <2>2. rt # Idle
    BY <2>1 DEF Idle
  <2> QED
    BY <2>1, <2>2, IdleBetweenCalls DEF ApplyPcs
<1>3. eng.pc \in {"status", "tables", "marks", "rules", "dns", "applied"}
  BY DEF ApplyPcs
<1>4. CASE RoutingStep(TRUE) /\ UNCHANGED ownVars
  BY <1>1, <1>2, <1>4 DEF ownVars
<1>5. CASE ObserveStatus \/ EndTableLoop \/ ApplyDNS(TRUE) \/ Finish
  <2>1. UNCHANGED <<cfg, links>>
    BY <1>5 DEF ObserveStatus, EndTableLoop, ApplyDNS, Finish, routingVars
  <2> QED
    BY <1>1, <1>3, <1>5, <2>1 DEF ObserveStatus, EndTableLoop, ApplyDNS, Finish
<1>6. CASE SyncTable(TRUE)
  <2>1. UNCHANGED <<cfg, links>> /\ eng.pc = "tables"
    BY <1>6 DEF SyncTable, SetTableDefault, SetTableBlackhole, FlushTable
  <2> QED
    BY <1>1, <1>6, <2>1
<1>7. CASE SyncMarks \/ SyncRules
  <2>1. UNCHANGED <<cfg, links>>
    BY <1>7 DEF SyncMarks, SyncRules, CallSyncDNSMarks, CallReconcileRules, Return
  <2> QED
    BY <1>1, <1>3, <1>7, <2>1 DEF SyncMarks, SyncRules
<1>8. ~(CommitDelete(TRUE) \/ Cleanup \/ CleanupDNS(TRUE) \/ Deactivate(TRUE))
  BY <1>3 DEF CommitDelete, Cleanup, CleanupDNS, Deactivate
<1> QED
  BY <1>1, <1>4, <1>5, <1>6, <1>7, <1>8 DEF DaemonStep

\* A step that leaves an apply's surroundings alone leaves the tables right.
LEMMA RightUnchanged ==
  ASSUME UNCHANGED <<cfg, links, route>>, NEW n
  PROVE  TableRight(n)' = TableRight(n)
BY DEF TableRight, HasFailClosed

\* One turn of the table loop makes one table right and touches no other tunnel's.
LEMMA TableMadeRight ==
  ASSUME EngineInv, eng.seen = Tunnels \cap links, UNCHANGED <<cfg, links>>, SyncTable(TRUE)
  PROVE  \E n \in eng.todo :
           /\ eng'.todo = eng.todo \ {n} /\ eng'.pc = "tables" /\ eng'.seen = eng.seen
           /\ TableRight(n)'
           /\ \A m \in Tunnels \ {n} : TableRight(m)' = TableRight(m)
<1>1. PICK n \in eng.todo :
        /\ \/ n \in eng.seen /\ SetTableDefault(cfg.tunnels[n], n, TRUE)
           \/ /\ n \notin eng.seen /\ HasFailClosed(n)
              /\ SetTableBlackhole(cfg.tunnels[n], TRUE)
           \/ /\ n \notin eng.seen /\ ~HasFailClosed(n)
              /\ FlushTable(cfg.tunnels[n], TRUE)
        /\ eng' = [eng EXCEPT !.todo = @ \ {n},
                              !.failed = @ \/ ~TRUE \/ (n \in eng.seen /\ n \notin links)]
  BY DEF SyncTable
<1>2. eng.pc = "tables" /\ n \in Tunnels /\ cfg.tunnels[n] \in TableId
  BY <1>1, TablesOfTunnels DEF SyncTable, EngineInv
<1>3. route \in [TableId -> Device \cup {NoRoute, Blackhole}]
  BY DEF EngineInv, Inv, RoutingTypeOK
<1>4. route' = [route EXCEPT ![cfg.tunnels[n]] = IF n \in links THEN n
                                                 ELSE IF HasFailClosed(n) THEN Blackhole
                                                 ELSE NoRoute]
  BY <1>1, <1>2 DEF SetTableDefault, SetTableBlackhole, FlushTable
<1>5. HasFailClosed(n)' = HasFailClosed(n)
  BY DEF HasFailClosed
<1>6. TableRight(n)'
  BY <1>2, <1>3, <1>4, <1>5 DEF TableRight
<1>7. ASSUME NEW m \in Tunnels \ {n} PROVE TableRight(m)' = TableRight(m)
  <2>1. cfg.tunnels[m] # cfg.tunnels[n] /\ cfg.tunnels[m] \in TableId
    BY <1>2, TablesOfTunnels DEF EngineInv, Valid, Tunnels
  <2>2. route'[cfg.tunnels[m]] = route[cfg.tunnels[m]]
    BY <1>3, <1>4, <2>1
  <2>3. HasFailClosed(m)' = HasFailClosed(m)
    BY DEF HasFailClosed
  <2> QED
    BY <2>2, <2>3 DEF TableRight
<1>8. /\ eng'.todo = eng.todo \ {n} /\ eng'.pc = "tables" /\ eng'.seen = eng.seen
  BY <1>1, <1>2 DEF EngineInv, EngineFrame
<1> QED
  BY <1>6, <1>7, <1>8

\* An add that no failure stops leaves its rule in the kernel, and lists no other anew.
LEMMA AddRuleSucceeds ==
  ASSUME EngineInv, AddRule(TRUE)
  PROVE  \E r \in rt.add :
           /\ rt'.add = rt.add \ {r} /\ rt'.pc = "rules" /\ rt'.del = rt.del
           /\ KernelRule(r) \in ipRules' /\ ipRules \subseteq ipRules'
           /\ ListManagedRules' \subseteq ListManagedRules \cup {r}
<1>1. PICK r \in rt.add :
        LET done == TRUE /\ KernelRule(r) \notin ipRules
        IN  /\ ipRules' = IF done THEN ipRules \cup {KernelRule(r)} ELSE ipRules
            /\ rt' = [rt EXCEPT !.add = @ \ {r},
                                !.errs = IF done THEN @ ELSE @ \cup {"rules"}]
  BY DEF AddRule
<1>2. rt \in Frame /\ rt.pc = "rules"
  BY DEF AddRule, EngineInv, Inv, RoutingTypeOK
<1>3. r \in RuleSpec
  BY <1>1, <1>2 DEF Frame
<1>4. rt'.add = rt.add \ {r} /\ rt'.pc = "rules" /\ rt'.del = rt.del
  BY <1>1, <1>2 DEF Frame
<1>5. KernelRule(r) \in ipRules' /\ ipRules \subseteq ipRules'
      /\ ipRules' \subseteq ipRules \cup {KernelRule(r)}
  BY <1>1
<1>6. ListManagedRules' \subseteq ListManagedRules \cup {r}
  BY <1>3, <1>5, SpecOfKernelRule DEF ListManagedRules
<1> QED
  BY <1>4, <1>5, <1>6

\* A delete that no failure stops takes its rule out of the listing, and nothing wanted.
LEMMA DelRuleSucceeds ==
  ASSUME EngineInv, DelRule(TRUE)
  PROVE  /\ rt.add = {} /\ rt'.add = {} /\ rt'.pc = "rules"
         /\ \A r \in rt.want : KernelRule(r) \in ipRules => KernelRule(r) \in ipRules'
         /\ \E r \in rt.del : /\ rt'.del = rt.del \ {r}
                              /\ ListManagedRules' \subseteq ListManagedRules \ {r}
<1>1. PICK r \in rt.del :
        LET done == TRUE /\ KernelRule(r) \in ipRules
        IN  /\ ipRules' = IF done THEN ipRules \ {KernelRule(r)} ELSE ipRules
            /\ rt' = [rt EXCEPT !.del = @ \ {r},
                                !.errs = IF done THEN @ ELSE @ \cup {"rules"}]
  BY DEF DelRule
<1>2. Inv /\ rt \in Frame /\ rt.pc = "rules" /\ rt.add = {}
      /\ ipRules \subseteq OurRules \cup Foreign
  BY DEF DelRule, EngineInv, Inv, RoutingTypeOK
<1>3. rt'.add = {} /\ rt'.pc = "rules" /\ rt'.del = rt.del \ {r}
  BY <1>1, <1>2 DEF Frame
<1>4. ipRules' \subseteq ipRules /\ KernelRule(r) \notin ipRules'
  BY <1>1
<1>5. ASSUME NEW k \in ipRules', Managed(k) PROVE SpecOf(k) \in ListManagedRules \ {r}
  <2>1. k \in ipRules /\ KernelRule(SpecOf(k)) = k
    BY <1>2, <1>4, <1>5, ManagedIsOurs
  <2> QED
    BY <1>4, <1>5, <2>1 DEF ListManagedRules
<1>6. ListManagedRules' \subseteq ListManagedRules \ {r}
  <2>1. ListManagedRules' = {SpecOf(k) : k \in {k \in ipRules' : Managed(k)}}
    BY DEF ListManagedRules
  <2> QED
    BY <1>5, <2>1
<1>7. \A q \in rt.want : KernelRule(q) \in ipRules => KernelRule(q) \in ipRules'
  BY <1>2, DelRuleSparesWanted
<1> QED
  BY <1>2, <1>3, <1>6, <1>7

\* In a call that reconciles, what is wanted and done stays done.
LEMMA CallHeals ==
  ASSUME EngineInv, Healing, RoutingStep(TRUE), UNCHANGED ownVars, UNCHANGED links,
         eng.pc \in {"marks", "rules"}
  PROVE  Healing'
<1> DEFINE Half == /\ \A r \in rt.want \ rt.add : KernelRule(r) \in ipRules
                   /\ ListManagedRules \subseteq rt.want \cup rt.del
<1>1. rt.fn # "Cleanup" /\ rt \in Frame /\ rt # Idle
  <2>1. rt \in Frame /\ rt.fn # "Cleanup"
    BY DEF EngineInv, Calling, Inv, RoutingTypeOK
  <2>2. rt.pc # "idle"
    BY DEF RoutingStep, RulesStep, RemoveStep, MarksStep, List, AddRule, DelRule, EndRules,
           CleanTable, EndTables, CheckUnhook, Unhook, EmptyChain, DeleteChain, CreateChain,
           CheckHook, Hook, FlushMarks, AddMark, EndMarks
  <2> QED
    BY <2>1, <2>2 DEF Idle
<1>2. rt.fn \in {"SyncDNSMarks", "ReconcileRules"}
  BY <1>1 DEF Frame, EngineInv, Inv, RoutingInv
<1>3. /\ calm' /\ eng' = eng /\ cfg' = cfg
      /\ eng'.seen = Tunnels' \cap links'
  BY DEF Healing, ownVars, Tunnels
<1>4. ASSUME UNCHANGED route PROVE \A n \in Tunnels' : TableRight(n)'
  BY <1>3, <1>4, RightUnchanged DEF Healing, Tunnels
<1>5. CASE rt.fn = "SyncDNSMarks"
  <2>1. rt'.fn = "SyncDNSMarks" /\ UNCHANGED route /\ eng.pc = "marks"
    BY <1>5, MarksCommands DEF EngineInv, Calling
  <2> QED
    BY <1>3, <1>4, <2>1 DEF Healing, ApplyPcs
<1>6. CASE rt.fn = "ReconcileRules"
  <2>1. rt'.fn = rt.fn /\ rt'.want = rt.want /\ RulesStep(TRUE) /\ UNCHANGED route
    BY <1>6, RulesCommands
  <2>2. eng.pc = "rules" /\ rt.want = DesiredRules(eng.seen)
    BY <1>6 DEF EngineInv, Calling
  <2>3. \A n \in Tunnels' : TableRight(n)'
    BY <1>4, <2>1
  <2>4. ipRules \subseteq OurRules \cup Foreign
    BY DEF EngineInv, Inv, RoutingTypeOK
  <2>5. CASE List(TRUE)
    <3>1. /\ rt'.pc = "rules" /\ rt'.add = rt.want \ ListManagedRules
          /\ rt'.del = ListManagedRules \ rt.want /\ ipRules' = ipRules
      BY <1>1, <2>5 DEF List, Frame
    <3>2. Half'
      BY <2>1, <2>4, <3>1, ListedAreInstalled, ListUnchanged
    <3> QED
      BY <1>3, <2>2, <2>3, <3>1, <3>2 DEF Healing, ApplyPcs
  <2>6. CASE AddRule(TRUE)
    <3>1. PICK r \in rt.add :
            /\ rt'.add = rt.add \ {r} /\ rt'.pc = "rules" /\ rt'.del = rt.del
            /\ KernelRule(r) \in ipRules' /\ ipRules \subseteq ipRules'
            /\ ListManagedRules' \subseteq ListManagedRules \cup {r}
      BY <2>6, AddRuleSucceeds
    <3>2. rt.pc = "rules" /\ rt.add \subseteq rt.want
      BY <2>6 DEF AddRule, EngineInv, Inv, RoutingInv
    <3>3. Half'
      BY <1>6, <2>1, <3>1, <3>2 DEF Healing
    <3> QED
      BY <1>3, <2>2, <2>3, <3>1, <3>3 DEF Healing, ApplyPcs
  <2>7. CASE DelRule(TRUE)
    <3>1. /\ rt.add = {} /\ rt'.add = {} /\ rt'.pc = "rules" /\ rt.pc = "rules"
          /\ \A r \in rt.want : KernelRule(r) \in ipRules => KernelRule(r) \in ipRules'
      BY <2>7, DelRuleSucceeds DEF DelRule
    <3>2. PICK r \in rt.del : /\ rt'.del = rt.del \ {r}
                              /\ ListManagedRules' \subseteq ListManagedRules \ {r}
      BY <2>7, DelRuleSucceeds
    <3>3. Half'
      BY <1>6, <2>1, <3>1, <3>2 DEF Healing
    <3> QED
      BY <1>3, <2>2, <2>3, <3>1, <3>3 DEF Healing, ApplyPcs
  <2>8. CASE EndRules
    <3>1. /\ rt.pc = "rules" /\ rt.add = {} /\ rt.del = {} /\ ipRules' = ipRules
          /\ rt'.pc = "done"
      BY <1>1, <1>6, <2>8 DEF EndRules, AfterRules, Frame
    <3>2. RulesMatch(eng.seen)
      BY <1>6, <2>2, <3>1, MatchOfListing DEF Healing
    <3>3. RulesMatch(eng.seen)'
      BY <1>3, <3>1, <3>2, MatchUnchanged
    <3> QED
      BY <1>3, <2>2, <2>3, <3>1, <3>3 DEF Healing, ApplyPcs
  <2> QED
    BY <2>1, <2>5, <2>6, <2>7, <2>8 DEF RulesStep
<1> QED
  BY <1>2, <1>5, <1>6

\* Whether the system is right depends on these alone.
LEMMA RepairedUnchanged ==
  ASSUME Repaired, UNCHANGED <<cfg, links, route, ipRules, conf>>
  PROVE  Repaired'
<1> DEFINE want == DesiredRules(Tunnels \cap links)
<1>1. want' = want
  BY DEF DesiredRules, DesiredMarks, LiveRules, TableOf, Tunnels
<1>2. RulesMatch(Tunnels \cap links)'
  BY <1>1 DEF Repaired, RulesMatch
<1>3. DesiredConf' = DesiredConf /\ Tunnels' = Tunnels
      /\ \A n : TableRight(n)' = TableRight(n)
  BY RightUnchanged DEF DesiredConf, Tunnels
<1> QED
  BY <1>2, <1>3 DEF Repaired

\* An apply that has come to its end has repaired the system.
LEMMA AppliedIsHealed ==
  ASSUME EngineInv, Healing, eng.pc = "applied"
  PROVE  Healed
BY DEF Healing, Healed, Repaired, TableRight, ApplyPcs

\* An apply that began when nothing failed any more keeps to it, command by command.
LEMMA HealingStep ==
  ASSUME EngineInv, Healing, [Next]_vars
  PROVE  Healing' \/ Healed'
<1>1. CASE UNCHANGED vars
  <2>1. Tunnels' = Tunnels /\ \A n : TableRight(n)' = TableRight(n)
    BY <1>1, RightUnchanged DEF vars, Tunnels
  <2>2. RulesMatch(eng.seen)' = RulesMatch(eng.seen) /\ DesiredConf' = DesiredConf
        /\ ListManagedRules' = ListManagedRules
    BY <1>1, MatchUnchanged, WantedUnchanged, ListUnchanged DEF vars
  <2> QED
    BY <1>1, <2>1, <2>2 DEF Healing, vars
<1>2. CASE Next
  <2>1. calm' /\ UNCHANGED <<cfg, links>> /\ eng.pc \in {"status"} \cup ApplyPcs
    BY <1>2, ApplySteps DEF Healing
  <2>2. Tunnels' = Tunnels /\ eng \in EngineFrame /\ EngineInv'
    BY <1>2, <2>1, EngineStepInv DEF Tunnels, EngineInv
  <2>3. ASSUME eng'.seen = eng.seen, UNCHANGED route
        PROVE  \A n \in Tunnels' : TableRight(n)' = TableRight(n)
    BY <2>1, <2>3, RightUnchanged
  <2>4. ASSUME eng'.pc \notin {"rules"} PROVE rt'.fn # "ReconcileRules"
    BY <2>2, <2>4 DEF EngineInv, Calling
  <2>5. CASE eng.pc = "status" /\ ObserveStatus
    <3>1. eng'.pc = "tables" /\ eng'.todo = Tunnels /\ eng'.seen = Tunnels \cap links
      <4>1. Outcomes # BOOLEAN
        BY DEF Healing, Outcomes
      <4> QED
        BY <2>2, <2>5, <4>1 DEF ObserveStatus, EngineFrame
    <3> QED
      BY <2>1, <2>2, <2>4, <3>1 DEF Healing, ApplyPcs
  <2>6. CASE eng.pc = "tables" /\ SyncTable(TRUE)
    <3>1. PICK n \in eng.todo :
            /\ eng'.todo = eng.todo \ {n} /\ eng'.pc = "tables" /\ eng'.seen = eng.seen
            /\ TableRight(n)'
            /\ \A m \in Tunnels \ {n} : TableRight(m)' = TableRight(m)
      BY <2>1, <2>6, TableMadeRight DEF Healing
    <3>2. \A m \in Tunnels' \ eng'.todo : TableRight(m)'
      BY <2>2, <2>6, <3>1 DEF Healing
    <3> QED
      BY <2>1, <2>2, <2>4, <2>6, <3>1, <3>2 DEF Healing, ApplyPcs
  <2>7. CASE eng.pc = "tables" /\ EndTableLoop
    <3>1. /\ eng'.pc = "marks" /\ eng'.seen = eng.seen /\ UNCHANGED route
          /\ eng.todo = {}
      BY <2>2, <2>7 DEF EndTableLoop, Goto, routingVars, EngineFrame
    <3> QED
      BY <2>1, <2>2, <2>3, <2>4, <2>7, <3>1 DEF Healing, ApplyPcs
  <2>8. CASE RoutingStep(TRUE) /\ UNCHANGED ownVars /\ eng.pc \in {"marks", "rules"}
    BY <2>1, <2>8, CallHeals
  <2>9. CASE eng.pc = "marks" /\ SyncMarks
    <3>1. UNCHANGED route /\ eng'.pc \in {"marks", "rules"} /\ eng'.seen = eng.seen
      BY <2>2, <2>9 DEF SyncMarks, CallSyncDNSMarks, Return, Then, EngineFrame
    <3>2. rt'.fn # "ReconcileRules"
      BY <2>9, CallFields, IdleCallsNothing DEF SyncMarks, CallSyncDNSMarks, Return
    <3> QED
      BY <2>1, <2>2, <2>3, <2>9, <3>1, <3>2 DEF Healing, ApplyPcs
  <2>10. CASE eng.pc = "rules" /\ SyncRules
    <3>1. UNCHANGED <<route, ipRules>> /\ eng'.seen = eng.seen
      BY <2>2, <2>10 DEF SyncRules, CallReconcileRules, Return, Then, EngineFrame
    <3>2. CASE CallReconcileRules(DesiredRules(eng.seen)) /\ UNCHANGED eng
      <4>1. rt'.pc = "list"
        BY <3>2, CallArguments DEF CallReconcileRules
      <4> QED
        BY <2>1, <2>2, <2>3, <2>10, <3>1, <3>2, <4>1 DEF Healing, ApplyPcs
    <3>3. CASE Return /\ Then("dns", rt.errs # {})
      <4>1. rt.pc = "done" /\ eng'.pc = "dns"
        BY <2>2, <3>3 DEF Return, Then, EngineFrame
      <4>2. rt.fn = "ReconcileRules"
        BY <2>10, <4>1
           DEF EngineInv, Calling, Inv, RoutingTypeOK, RoutingInv, Frame, Idle
      <4>3. RulesMatch(eng.seen)'
        BY <2>1, <3>1, <4>1, <4>2, MatchUnchanged DEF Healing
      <4> QED
        BY <2>1, <2>2, <2>3, <2>4, <2>10, <3>1, <4>1, <4>3 DEF Healing, ApplyPcs
    <3> QED
      BY <2>10, <3>2, <3>3 DEF SyncRules
  <2>11. CASE eng.pc = "dns" /\ ApplyDNS(TRUE)
    <3>1. /\ eng'.pc = "applied" /\ eng'.seen = eng.seen /\ UNCHANGED <<route, ipRules>>
          /\ conf' = DesiredConf
      BY <2>2, <2>11 DEF ApplyDNS, Then, routingVars, EngineFrame
    <3>2. RulesMatch(eng.seen)' /\ DesiredConf' = DesiredConf
      BY <2>1, <2>11, <3>1, MatchUnchanged, WantedUnchanged DEF Healing
    <3> QED
      BY <2>1, <2>2, <2>3, <2>4, <2>11, <3>1, <3>2 DEF Healing, ApplyPcs
  <2>12. CASE eng.pc = "applied" /\ Finish
    <3>1. /\ eng'.pc = "idle" /\ UNCHANGED <<route, ipRules, conf, rt>>
      BY <2>12, AtIsFrame DEF Finish, routingVars
    <3>2. Repaired
      BY <2>12, AppliedIsHealed DEF Healed
    <3>3. Repaired'
      BY <2>1, <3>1, <3>2, RepairedUnchanged
    <3> QED
      BY <2>1, <3>1, <3>3 DEF Healed, ApplyPcs
  <2> QED
    BY <1>2, <2>5, <2>6, <2>7, <2>8, <2>9, <2>10, <2>11, <2>12, ApplySteps DEF Healing
<1> QED
  BY <1>1, <1>2

\* A system whose rules match stays so through a reconciliation for what it is.
LEMMA MatchKept ==
  ASSUME EngineInv, EngineInv', RulesStep(TRUE), rt.fn = "ReconcileRules",
         UNCHANGED <<cfg, links>>,
         eng.seen = Tunnels \cap links, RulesMatch(Tunnels \cap links)
  PROVE  RulesMatch(Tunnels \cap links)'
<1> DEFINE want == DesiredRules(Tunnels \cap links)
<1>1. want' = want /\ rt.want = want
  BY DEF EngineInv, Calling, DesiredRules, DesiredMarks, LiveRules, TableOf, Tunnels
<1>2. ASSUME \A r \in want : KernelRule(r) \in ipRules', ListManagedRules' \subseteq want
      PROVE  RulesMatch(Tunnels \cap links)'
  <2>1. ipRules' \subseteq OurRules \cup Foreign
    BY DEF EngineInv, Inv, RoutingTypeOK, OurRules, KernelRule, Priority
  <2>2. ASSUME NEW k \in ipRules', k \in OurRules, Managed(k)
        PROVE  k \in {KernelRule(r) : r \in want}
    <3>1. PICK r \in RuleSpec : k = KernelRule(r)
      BY <2>2 DEF OurRules
    <3>2. r \in ListManagedRules'
      BY <2>2, <3>1, SpecOfKernelRule DEF ListManagedRules
    <3> QED
      BY <1>2, <3>1, <3>2
  <2> QED
    BY <1>1, <1>2, <2>1, <2>2 DEF RulesMatch, Unlisted
<1>3. /\ \A r \in want : KernelRule(r) \in ipRules
      /\ ListManagedRules \subseteq want
  BY DesiredTypes, ListingOfMatch DEF EngineInv
<1>4. CASE List(TRUE) \/ EndRules
  <2>1. ipRules' = ipRules
    BY <1>4 DEF List, EndRules
  <2> QED
    BY <1>2, <1>3, <2>1, ListUnchanged
<1>5. CASE AddRule(TRUE)
  <2>1. rt.add \subseteq want
    BY <1>1, <1>5 DEF AddRule, EngineInv, Inv, RoutingInv
  <2> QED
    BY <1>2, <1>5, <1>3, <2>1, AddRuleSucceeds
<1>6. CASE DelRule(TRUE)
  BY <1>1, <1>2, <1>6, <1>3, DelRuleSucceeds
<1> QED
  BY <1>4, <1>5, <1>6 DEF RulesStep

\* A right system stays right, and every apply sees it so.
LEMMA HealedStep ==
  ASSUME EngineInv, Healed, [Next]_vars
  PROVE  Healed'
<1>1. CASE UNCHANGED vars
  BY <1>1, RepairedUnchanged DEF Healed, vars, Tunnels
<1>2. CASE Next /\ eng.pc = "idle"
  <2>1. calm' /\ (DaemonStep(TRUE) \/ Apply)
    BY <1>2, CalmSteps DEF Healed
  <2>2. ~DaemonStep(TRUE)
    <3>1. rt.pc = "idle"
      BY <1>2, IdleBetweenCalls DEF Idle
    <3> QED
      BY <1>2, <3>1
         DEF DaemonStep, CommitDelete, ObserveStatus, SyncTable, EndTableLoop, SyncMarks,
             SyncRules, ApplyDNS, Cleanup, CleanupDNS, Deactivate, Finish, RoutingStep,
             RulesStep, RemoveStep, MarksStep, List, AddRule, DelRule, EndRules,
             CleanTable, EndTables, CheckUnhook, Unhook, EmptyChain, DeleteChain,
             CreateChain, CheckHook, Hook, FlushMarks, AddMark, EndMarks
  <2>3. eng'.pc \in {"idle", "status"} /\ UNCHANGED <<cfg, links, route, ipRules, conf>>
    BY <2>1, <2>2, AtIsFrame DEF Apply, Begin, routingVars
  <2> QED
    BY <2>1, <2>3, RepairedUnchanged DEF Healed, ApplyPcs
<1>3. CASE Next /\ eng.pc # "idle"
  <2>1. calm' /\ UNCHANGED <<cfg, links>> /\ eng.pc \in {"status"} \cup ApplyPcs
    BY <1>3, ApplySteps DEF Healed
  <2>2. Tunnels' = Tunnels /\ eng \in EngineFrame
    BY <2>1 DEF Tunnels, EngineInv
  <2>3. CASE eng.pc = "status" /\ ObserveStatus
    <3>1. eng'.pc = "tables" /\ eng'.seen = Tunnels \cap links
      <4>1. Outcomes # BOOLEAN
        BY DEF Healed, Outcomes
      <4> QED
        BY <2>2, <2>3, <4>1 DEF ObserveStatus, EngineFrame
    <3>2. UNCHANGED <<cfg, links, route, ipRules, conf>>
      BY <2>1, <2>3 DEF ObserveStatus, routingVars
    <3> QED
      BY <2>1, <2>2, <3>1, <3>2, RepairedUnchanged DEF Healed, ApplyPcs
  <2>4. CASE eng.pc = "tables" /\ SyncTable(TRUE)
    <3>1. PICK n \in eng.todo :
            /\ eng'.todo = eng.todo \ {n} /\ eng'.pc = "tables" /\ eng'.seen = eng.seen
            /\ TableRight(n)'
            /\ \A m \in Tunnels \ {n} : TableRight(m)' = TableRight(m)
      BY <2>1, <2>4, TableMadeRight DEF Healed, ApplyPcs
    <3>2. \A m \in Tunnels' : TableRight(m)'
      BY <2>2, <3>1 DEF Healed, Repaired, TableRight
    <3>3. UNCHANGED <<ipRules, conf>>
      BY <2>4 DEF SyncTable, SetTableDefault, SetTableBlackhole, FlushTable
    <3>4. RulesMatch(Tunnels \cap links)' /\ DesiredConf' = DesiredConf
      BY <2>1, <2>2, <2>4, <3>1, <3>3, MatchUnchanged, WantedUnchanged
         DEF Healed, Repaired, ApplyPcs
    <3>5. Repaired'
      BY <3>2, <3>3, <3>4 DEF Healed, Repaired, TableRight
    <3> QED
      BY <2>1, <2>2, <2>4, <3>1, <3>5 DEF Healed, ApplyPcs
  <2>5. CASE RoutingStep(TRUE) /\ UNCHANGED ownVars /\ eng.pc \in {"marks", "rules"}
    <3>1. eng' = eng /\ UNCHANGED <<conf, cfg>> /\ eng.seen = Tunnels \cap links
      BY <2>5 DEF Healed, ownVars, ApplyPcs
    <3>2. rt.fn \in {"SyncDNSMarks", "ReconcileRules"}
      <4>1. rt.pc # "idle"
        BY <2>5
           DEF RoutingStep, RulesStep, RemoveStep, MarksStep, List, AddRule, DelRule,
               EndRules, CleanTable, EndTables, CheckUnhook, Unhook, EmptyChain,
               DeleteChain, CreateChain, CheckHook, Hook, FlushMarks, AddMark, EndMarks
      <4> QED
        BY <2>5, <4>1
           DEF EngineInv, Calling, Inv, RoutingTypeOK, RoutingInv, Frame, Idle
    <3>3. CASE rt.fn = "SyncDNSMarks"
      BY <2>1, <2>2, <2>5, <3>1, <3>3, MarksCommands, RepairedUnchanged
         DEF Healed, ApplyPcs
    <3>4. CASE rt.fn = "ReconcileRules"
      <4>1. RulesStep(TRUE) /\ UNCHANGED route
        BY <2>5, <3>4, RulesCommands
      <4>2. RulesMatch(Tunnels \cap links)'
        BY <1>3, <2>1, <3>1, <3>4, <4>1, MatchKept, EngineStepInv DEF Healed, Repaired
      <4>3. DesiredConf' = DesiredConf /\ \A n : TableRight(n)' = TableRight(n)
        BY <2>1, <3>1, <4>1, WantedUnchanged, RightUnchanged
      <4>4. Repaired'
        BY <2>1, <2>2, <3>1, <4>1, <4>2, <4>3 DEF Healed, Repaired
      <4> QED
        BY <2>1, <2>2, <3>1, <4>4 DEF Healed
    <3> QED
      BY <3>2, <3>3, <3>4
  <2>6. CASE SyncMarks \/ SyncRules \/ EndTableLoop \/ Finish
    <3>1. UNCHANGED <<cfg, links, route, ipRules, conf>>
      BY <2>1, <2>6 DEF SyncMarks, SyncRules, EndTableLoop, Finish, CallSyncDNSMarks,
                        CallReconcileRules, Return, routingVars
    <3>2. CASE Finish
      BY <2>1, <3>1, <3>2, AtIsFrame, RepairedUnchanged DEF Healed, Finish, ApplyPcs
    <3>3. CASE SyncMarks \/ SyncRules \/ EndTableLoop
      <4>1. eng.pc \in ApplyPcs /\ eng'.pc \in ApplyPcs /\ eng'.seen = eng.seen
        BY <2>2, <3>3 DEF SyncMarks, SyncRules, EndTableLoop, Goto, Then, ApplyPcs,
                          EngineFrame
      <4> QED
        BY <2>1, <2>2, <3>1, <4>1, RepairedUnchanged DEF Healed
    <3> QED
      BY <2>6, <3>2, <3>3
  <2>7. CASE eng.pc = "dns" /\ ApplyDNS(TRUE)
    <3>1. /\ eng'.pc = "applied" /\ eng'.seen = eng.seen /\ UNCHANGED <<route, ipRules>>
          /\ conf' = DesiredConf
      BY <2>2, <2>7 DEF ApplyDNS, Then, routingVars, EngineFrame
    <3>2. conf' = conf
      BY <3>1 DEF Healed, Repaired
    <3> QED
      BY <2>1, <2>2, <2>7, <3>1, <3>2, RepairedUnchanged DEF Healed, ApplyPcs
  <2> QED
    BY <1>3, <2>3, <2>4, <2>5, <2>6, <2>7, ApplySteps DEF Healed
<1> QED
  BY <1>1, <1>2, <1>3

-----------------------------------------------------------------------------
(* The marks, which an apply flushes and adds again. *)

\* A call of SyncDNSMarks in calm is asked for the marks and has met no error.
MarksCall == rt.fn = "SyncDNSMarks" => rt.errs = {} /\ rt.specs = DesiredMarks(eng.seen)

\* An apply that began in calm has the marks right once it is past them.
MarksHealing ==
  /\ calm /\ eng.pc \in {"status"} \cup ApplyPcs
  /\ eng.pc # "status" => eng.seen = Tunnels \cap links
  /\ MarksCall
  /\ eng.pc \in {"rules", "dns", "applied"} => MarksMatch(eng.seen)

\* They are right but while they are being added again.
MarksHealed ==
  /\ calm /\ eng.pc \in {"idle", "status"} \cup ApplyPcs
  /\ eng.pc \in ApplyPcs => eng.seen = Tunnels \cap links
  /\ MarksCall
  /\ rt.fn # "SyncDNSMarks" => MarksMatch(Tunnels \cap links)

\* In calm no command of SyncDNSMarks fails.
LEMMA MarksSucceed ==
  ASSUME EngineInv, MarksCall, RoutingStep(TRUE), UNCHANGED ownVars, rt.fn = "SyncDNSMarks"
  PROVE  rt'.fn = "SyncDNSMarks" /\ MarksCall'
<1>1. /\ rt \in Frame /\ rt'.fn = rt.fn /\ rt'.specs = rt.specs
      /\ rt.pc \in {"create", "hook?", "hook", "flush", "mark", "done"}
  BY MarksCommands DEF EngineInv, Inv, RoutingInv, RoutingTypeOK
<1>2. MarksStep(TRUE)
  BY <1>1 DEF RoutingStep, RulesStep, RemoveStep, List, AddRule, DelRule, EndRules, CleanTable,
         EndTables, CheckUnhook, Unhook, EmptyChain, DeleteChain
<1>3. rt'.errs = rt.errs
  BY <1>1, <1>2 DEF MarksStep, CreateChain, CheckHook, Hook, FlushMarks, AddMark, EndMarks, Frame
<1>4. DesiredMarks(eng.seen)' = DesiredMarks(eng.seen)
  BY WantedUnchanged DEF ownVars
<1> QED
  BY <1>1, <1>3, <1>4 DEF MarksCall

\* The steps of an apply in calm, as the marks see them: one that has to do with neither
\* SyncDNSMarks nor the chain, one that starts or continues SyncDNSMarks, and its return.
LEMMA MarksSteps ==
  ASSUME EngineInv, MarksCall, [Next]_vars, calm, eng.pc \in {"status"} \cup ApplyPcs,
         eng.pc # "status" => eng.seen = Tunnels \cap links
  PROVE  /\ calm' /\ MarksCall'
         /\ (Tunnels \cap links)' = Tunnels \cap links
         /\ \A seen : DesiredMarks(seen)' = DesiredMarks(seen)
         /\ eng'.pc \in {"idle", "status"} \cup ApplyPcs
         /\ eng'.pc \in ApplyPcs => eng'.seen = Tunnels' \cap links'
         /\ \/ /\ rt'.fn # "SyncDNSMarks" /\ rt.fn # "SyncDNSMarks" /\ UNCHANGED chain
               /\ eng'.pc \in {"rules", "dns", "applied"}
                    => eng.pc \in {"rules", "dns", "applied"}
               /\ eng'.pc = "idle" => eng.pc = "applied"
            \/ eng'.pc = "marks" /\ rt'.fn = "SyncDNSMarks"
            \/ eng'.pc = "rules" /\ rt'.fn = "none" /\ MarksMatch(eng.seen)'
<1>1. CASE UNCHANGED vars
  BY <1>1 DEF vars, MarksCall, DesiredMarks, Tunnels, EngineInv, Calling, ApplyPcs
<1>2. CASE Next
  <2>1. /\ calm' /\ UNCHANGED <<cfg, links>> /\ eng \in EngineFrame
        /\ (Tunnels \cap links)' = Tunnels \cap links
        /\ \A seen : DesiredMarks(seen)' = DesiredMarks(seen)
    BY <1>2, ApplySteps DEF Tunnels, DesiredMarks, EngineInv
  <2>2. eng.pc \notin {"marks", "rules"} => rt.fn = "none"
    BY IdleBetweenCalls, IdleCallsNothing DEF ApplyPcs
  <2>3. eng.pc # "marks" => rt.fn # "SyncDNSMarks"
    BY DEF EngineInv, Calling
  <2>4. CASE eng.pc = "status" /\ ObserveStatus
    <3>1. eng'.pc = "tables" /\ eng'.seen = Tunnels \cap links
      <4>1. Outcomes # BOOLEAN
        BY DEF Outcomes
      <4> QED
        BY <2>1, <2>4, <4>1 DEF ObserveStatus, EngineFrame
    <3>2. rt' = rt /\ UNCHANGED chain
      BY <2>4 DEF ObserveStatus, routingVars
    <3> QED
      BY <2>1, <2>3, <2>4, <3>1, <3>2 DEF MarksCall, ApplyPcs
  <2>5. CASE eng.pc = "tables" /\ (SyncTable(TRUE) \/ EndTableLoop)
    <3>1. eng'.pc \in {"tables", "marks"} /\ eng'.seen = eng.seen
      BY <2>1, <2>5 DEF SyncTable, EndTableLoop, Goto, EngineFrame
    <3>2. rt' = rt /\ UNCHANGED chain
      BY <2>5 DEF SyncTable, EndTableLoop, SetTableDefault, SetTableBlackhole, FlushTable,
                  routingVars
    <3> QED
      BY <2>1, <2>3, <2>5, <3>1, <3>2 DEF MarksCall, ApplyPcs
  <2>6. CASE eng.pc = "marks" /\ SyncMarks
    <3>1. CASE CallSyncDNSMarks(DesiredMarks(eng.seen)) /\ UNCHANGED eng
      <4>1. /\ rt'.fn = "SyncDNSMarks" /\ rt'.errs = {}
            /\ rt'.specs = DesiredMarks(eng.seen)
        BY <3>1, CallArguments DEF CallSyncDNSMarks
      <4> QED
        BY <2>1, <2>6, <3>1, <4>1 DEF MarksCall, ApplyPcs
    <3>2. CASE Return /\ Then("rules", rt.errs # {})
      <4>1. /\ eng'.pc = "rules" /\ eng'.seen = eng.seen
            /\ rt'.fn = "none" /\ UNCHANGED chain /\ rt.pc = "done"
        BY <2>1, <3>2, ThenExact, IdleCallsNothing DEF Return
      <4>2. rt.fn = "SyncDNSMarks"
        BY <2>6, <4>1
           DEF EngineInv, Calling, Inv, RoutingTypeOK, RoutingInv, Frame, Idle
      <4>3. MarksMatch(eng.seen)
        BY <4>1, <4>2 DEF MarksCall, MarksMatch, EngineInv, Inv, MarksExact
      <4>4. MarksMatch(eng.seen)'
        BY <2>1, <4>1, <4>3, MarksUnchanged
      <4> QED
        BY <2>1, <2>6, <4>1, <4>4 DEF MarksCall, ApplyPcs
    <3> QED
      BY <2>6, <3>1, <3>2 DEF SyncMarks
  <2>7. CASE eng.pc = "marks" /\ RoutingStep(TRUE) /\ UNCHANGED ownVars
    <3>1. eng' = eng
      BY <2>7 DEF ownVars
    <3>2. rt.fn = "SyncDNSMarks"
      <4>1. rt.pc # "idle"
        BY <2>7
           DEF RoutingStep, RulesStep, RemoveStep, MarksStep, List, AddRule, DelRule,
               EndRules, CleanTable, EndTables, CheckUnhook, Unhook, EmptyChain,
               DeleteChain, CreateChain, CheckHook, Hook, FlushMarks, AddMark, EndMarks
      <4> QED
        BY <2>7, <4>1
           DEF EngineInv, Calling, Inv, RoutingTypeOK, RoutingInv, Frame, Idle
    <3>3. rt'.fn = "SyncDNSMarks" /\ MarksCall'
      BY <2>7, <3>2, MarksSucceed
    <3> QED
      BY <2>1, <2>7, <3>1, <3>3 DEF ApplyPcs
  <2>8. CASE eng.pc = "rules" /\ RoutingStep(TRUE) /\ UNCHANGED ownVars
    <3>1. eng' = eng
      BY <2>8 DEF ownVars
    <3>2. rt.fn = "ReconcileRules"
      <4>1. rt.pc # "idle"
        BY <2>8
           DEF RoutingStep, RulesStep, RemoveStep, MarksStep, List, AddRule, DelRule,
               EndRules, CleanTable, EndTables, CheckUnhook, Unhook, EmptyChain,
               DeleteChain, CreateChain, CheckHook, Hook, FlushMarks, AddMark, EndMarks
      <4> QED
        BY <2>8, <4>1
           DEF EngineInv, Calling, Inv, RoutingTypeOK, RoutingInv, Frame, Idle
    <3>3. rt'.fn = "ReconcileRules" /\ UNCHANGED chain
      BY <2>8, <3>2, RulesCommands
    <3> QED
      BY <2>1, <2>3, <2>8, <3>1, <3>3 DEF MarksCall, ApplyPcs
  <2>9. CASE eng.pc = "rules" /\ SyncRules
    <3>1. eng'.pc \in {"rules", "dns"} /\ eng'.seen = eng.seen /\ UNCHANGED chain
      BY <2>1, <2>9, ThenExact DEF SyncRules, CallReconcileRules, Return
    <3>2. rt'.fn # "SyncDNSMarks"
      BY <2>9, CallFields, IdleCallsNothing DEF SyncRules, CallReconcileRules, Return
    <3> QED
      BY <2>1, <2>3, <2>9, <3>1, <3>2 DEF MarksCall, ApplyPcs
  <2>10. CASE eng.pc = "dns" /\ ApplyDNS(TRUE)
    <3>1. eng'.pc = "applied" /\ eng'.seen = eng.seen
      BY <2>1, <2>10, ThenExact DEF ApplyDNS
    <3>2. rt' = rt /\ UNCHANGED chain
      BY <2>10 DEF ApplyDNS, routingVars
    <3> QED
      BY <2>1, <2>3, <2>10, <3>1, <3>2 DEF MarksCall, ApplyPcs
  <2>11. CASE eng.pc = "applied" /\ Finish
    <3>1. eng'.pc = "idle" /\ rt' = rt /\ UNCHANGED chain
      BY <2>11, AtIsFrame DEF Finish, routingVars
    <3> QED
      BY <2>1, <2>3, <2>11, <3>1 DEF MarksCall, ApplyPcs
  <2> QED
    BY <1>2, <2>4, <2>5, <2>6, <2>7, <2>8, <2>9, <2>10, <2>11, ApplySteps
<1> QED
  BY <1>1, <1>2

\* An apply that began when nothing failed any more puts the marks right.
LEMMA MarksHealingStep ==
  ASSUME EngineInv, MarksHealing, [Next]_vars
  PROVE  MarksHealing' \/ MarksHealed'
<1> USE MarksSteps DEF MarksHealing
<1>1. /\ calm' /\ MarksCall'
      /\ (Tunnels \cap links)' = Tunnels \cap links
      /\ eng'.pc \in {"idle", "status"} \cup ApplyPcs
      /\ eng'.pc \in ApplyPcs => eng'.seen = Tunnels' \cap links'
  OBVIOUS
<1>2. CASE /\ rt'.fn # "SyncDNSMarks" /\ rt.fn # "SyncDNSMarks" /\ UNCHANGED chain
           /\ eng'.pc \in {"rules", "dns", "applied"}
                => eng.pc \in {"rules", "dns", "applied"}
           /\ eng'.pc = "idle" => eng.pc = "applied"
  <2>1. ASSUME MarksMatch(Tunnels \cap links)
        PROVE  MarksMatch(Tunnels \cap links)'
    BY <1>1, <1>2, <2>1 DEF MarksMatch
  <2>2. CASE eng'.pc = "idle"
    BY <1>1, <1>2, <2>1, <2>2 DEF MarksHealed, ApplyPcs
  <2>3. CASE eng'.pc \in {"rules", "dns", "applied"}
    <3>1. MarksMatch(Tunnels \cap links)'
      BY <1>2, <2>1, <2>3
    <3>2. MarksMatch(eng.seen)'
      BY <1>1, <2>3, <3>1 DEF ApplyPcs, MarksMatch
    <3> QED
      BY <1>1, <2>3, <3>2 DEF ApplyPcs
  <2> QED
    BY <1>1, <2>2, <2>3 DEF ApplyPcs
<1>3. CASE eng'.pc = "marks" /\ rt'.fn = "SyncDNSMarks"
  BY <1>1, <1>3 DEF ApplyPcs
<1>4. CASE eng'.pc = "rules" /\ rt'.fn = "none" /\ MarksMatch(eng.seen)'
  BY <1>1, <1>4 DEF ApplyPcs
<1> QED
  BY <1>2, <1>3, <1>4

\* Right marks stay so, but while they are flushed and added again.
LEMMA MarksHealedStep ==
  ASSUME EngineInv, MarksHealed, [Next]_vars
  PROVE  MarksHealed'
<1>1. CASE Next /\ eng.pc = "idle"
  <2>1. rt = Idle /\ calm' /\ (DaemonStep(TRUE) \/ Apply)
    BY <1>1, IdleBetweenCalls, CalmSteps DEF MarksHealed
  <2>2. ~DaemonStep(TRUE)
    BY <1>1, <2>1
       DEF DaemonStep, CommitDelete, ObserveStatus, SyncTable, EndTableLoop, SyncMarks,
           SyncRules, ApplyDNS, Cleanup, CleanupDNS, Deactivate, Finish, RoutingStep,
           RulesStep, RemoveStep, MarksStep, List, AddRule, DelRule, EndRules,
           CleanTable, EndTables, CheckUnhook, Unhook, EmptyChain, DeleteChain,
           CreateChain, CheckHook, Hook, FlushMarks, AddMark, EndMarks, Idle
  <2>3. eng'.pc \in {"idle", "status"} /\ UNCHANGED <<cfg, links, chain, rt>>
    BY <2>1, <2>2, AtIsFrame DEF Apply, Begin, routingVars
  <2>4. rt.fn = "none"
    BY <2>1, IdleCallsNothing
  <2>5. MarksMatch(Tunnels \cap links)'
    BY <2>3, <2>4 DEF MarksHealed, MarksMatch, DesiredMarks, Tunnels
  <2> QED
    BY <2>1, <2>3, <2>4, <2>5 DEF MarksHealed, MarksCall, ApplyPcs
<1>2. CASE UNCHANGED vars
  BY <1>2 DEF vars, MarksHealed, MarksCall, MarksMatch, DesiredMarks, Tunnels
<1>3. CASE Next /\ eng.pc # "idle"
  <2>1. /\ MarksCall /\ calm /\ eng.pc \in {"status"} \cup ApplyPcs
        /\ eng.pc # "status" => eng.seen = Tunnels \cap links
    BY <1>3 DEF MarksHealed
  <2>2. /\ calm' /\ MarksCall'
        /\ (Tunnels \cap links)' = Tunnels \cap links
        /\ eng'.pc \in {"idle", "status"} \cup ApplyPcs
        /\ eng'.pc \in ApplyPcs => eng'.seen = Tunnels' \cap links'
    BY <1>3, <2>1, MarksSteps
  <2>3. ASSUME rt'.fn # "SyncDNSMarks" PROVE MarksMatch(Tunnels \cap links)'
    <3>1. CASE rt.fn # "SyncDNSMarks" /\ UNCHANGED chain
      <4>1. \A seen : DesiredMarks(seen)' = DesiredMarks(seen)
        BY <1>3, <2>1, MarksSteps
      <4> QED
        BY <2>2, <3>1, <4>1 DEF MarksHealed, MarksMatch
    <3>2. CASE eng'.pc = "rules" /\ MarksMatch(eng.seen)'
      BY <2>2, <3>2 DEF ApplyPcs, MarksMatch
    <3> QED
      BY <1>3, <2>1, <2>3, <3>1, <3>2, MarksSteps
  <2> QED
    BY <2>2, <2>3 DEF MarksHealed
<1> QED
  BY <1>1, <1>2, <1>3

\* An apply that has come to its end has put them right.
LEMMA AppliedIsMarked ==
  ASSUME EngineInv, MarksHealing, eng.pc = "applied"
  PROVE  MarksHealed
BY IdleBetweenCalls, IdleCallsNothing DEF MarksHealing, MarksHealed, ApplyPcs

-----------------------------------------------------------------------------
\* For every configuration, and whatever faults, crashes, reboots and edits came before: the
\* apply that begins once nothing fails any more ends with all that the configuration and
\* the interfaces ask for in place, and of ours nothing else but the rules no listing shows
\* (Converged), and no later step undoes that; only the marks are flushed and added again
\* by every apply.
THEOREM OneApplyHeals == Spec => HealsInOneApply
<1> DEFINE Ahead == calm /\ eng.pc = "status"
<1>1. EngineInv /\ Ahead => Healing /\ MarksHealing
  BY IdleBetweenCalls, IdleCallsNothing
     DEF Healing, MarksHealing, MarksCall, ApplyPcs, Idle
<1>2. EngineInv /\ Healing /\ [Next]_vars => Healing' \/ Healed'
  BY HealingStep
<1>3. EngineInv /\ Healed /\ [Next]_vars => Healed'
  BY HealedStep
<1>4. EngineInv /\ (Healing \/ Healed) /\ eng.pc = "applied" => Healed
  BY AppliedIsHealed
<1>5. EngineInv /\ MarksHealing /\ [Next]_vars => MarksHealing' \/ MarksHealed'
  BY MarksHealingStep
<1>6. EngineInv /\ MarksHealed /\ [Next]_vars => MarksHealed'
  BY MarksHealedStep
<1>7. EngineInv /\ (MarksHealing \/ MarksHealed) /\ eng.pc = "applied" => MarksHealed
  BY AppliedIsMarked
<1>8. Healed /\ MarksHealed => Converged
  BY DEF Healed, MarksHealed, Repaired, TableRight, Converged
<1>9. [][Next]_vars /\ []EngineInv
        => [](Ahead => [](eng.pc = "applied" => []Converged))
  BY <1>1, <1>2, <1>3, <1>4, <1>5, <1>6, <1>7, <1>8, PTL
<1> QED
  BY <1>9, EngineInvariance, PTL DEF Spec, HealsInOneApply

=============================================================================
