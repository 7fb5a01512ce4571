------------------------- MODULE PolicyRoutingProofs -------------------------
(* Proofs about the routing manager, for every value of its constants.       *)
EXTENDS PolicyRouting, TLAPS

-----------------------------------------------------------------------------
(* The priority band. *)

\* Every rule addRule builds lies in the band the package owns.
LEMMA PriorityInBand ==
  ASSUME NEW r \in RuleSpec
  PROVE  Priority(r) \in PrioMin..PrioMax
BY TablesAssumption, PrefixAssumption
   DEF RuleSpec, ToRule, MarkRule, Priority, PrioMin, PrioMax, FwmarkPrio,
       CIDRPrioBase, MainTable

\* A longer prefix is consulted before a shorter one, and a mark before both,
\* whatever the tables and the order of the additions (RuleSpec.priority).
THEOREM PriorityOrdersSpecificFirst ==
  ASSUME NEW c \in Cidr, NEW d \in Cidr, PrefixLen[c] > PrefixLen[d],
         NEW t \in TableId \cup {MainTable}, NEW u \in TableId \cup {MainTable},
         NEW m \in TableId
  PROVE  /\ Priority(ToRule(c, t)) < Priority(ToRule(d, u))
         /\ Priority(MarkRule(m)) < Priority(ToRule(c, t))
<1> DEFINE p == PrefixLen[c]
           q == PrefixLen[d]
<1>1. p \in 0..128 /\ q \in 0..128 /\ p > q /\ m # 0
  BY TablesAssumption, PrefixAssumption
<1>2. /\ Priority(ToRule(c, t)) = 10000 + (32 - p)
      /\ Priority(ToRule(d, u)) = 10000 + (32 - q)
      /\ Priority(MarkRule(m)) = 9000
  BY <1>1 DEF ToRule, MarkRule, Priority, FwmarkPrio, CIDRPrioBase
<1> HIDE DEF p, q
<1>3. 10000 + (32 - p) < 10000 + (32 - q) /\ 9000 < 10000 + (32 - p)
  BY <1>1
<1> QED
  BY <1>2, <1>3
-----------------------------------------------------------------------------
(* What a listing of the band contains. *)

\* KernelRule loses nothing of a rule but what Priority computes again.
LEMMA SpecOfKernelRule ==
  ASSUME NEW r \in RuleSpec
  PROVE  SpecOf(KernelRule(r)) = r
BY DEF RuleSpec, ToRule, MarkRule, SpecOf, KernelRule

\* A managed rule is one that addRule built, so deleting what it was parsed to
\* deletes that very rule.
LEMMA ManagedIsOurs ==
  ASSUME ipRules \subseteq OurRules \cup Foreign, NEW k \in ipRules, Managed(k)
  PROVE  SpecOf(k) \in RuleSpec /\ KernelRule(SpecOf(k)) = k
<1>1. k \notin Foreign
  BY ForeignAssumption
<1>2. PICK r \in RuleSpec : k = KernelRule(r)
  BY <1>1 DEF OurRules
<1>3. SpecOf(k) = r
  BY <1>2, SpecOfKernelRule
<1> QED
  BY <1>2, <1>3

\* What ListManagedRules returns is installed, with the priority addRule gives it.
LEMMA ListedAreInstalled ==
  ASSUME ipRules \subseteq OurRules \cup Foreign
  PROVE  /\ ListManagedRules \subseteq RuleSpec
         /\ \A r \in ListManagedRules : KernelRule(r) \in ipRules /\ Managed(KernelRule(r))
<1> SUFFICES ASSUME NEW r \in ListManagedRules
             PROVE  r \in RuleSpec /\ KernelRule(r) \in ipRules /\ Managed(KernelRule(r))
  OBVIOUS
<1>1. PICK k \in ipRules : Managed(k) /\ r = SpecOf(k)
  BY DEF ListManagedRules
<1> QED
  BY <1>1, ManagedIsOurs

-----------------------------------------------------------------------------
(* The inductive invariant. *)

Inv == /\ RoutingTypeOK
       /\ ForeignUntouched
       /\ RoutingInv
       /\ ReconcileExact
       /\ MarksExact
       /\ CleanupIsolated

\* No call is a frame too.
LEMMA IdleIsFrame == Idle \in Frame
BY DEF Idle, Frame, Pcs

\* The manager starts with a kernel that holds nothing of it.
LEMMA InitInv == RoutingInit => Inv
BY IdleIsFrame, JumpsAssumption
   DEF RoutingInit, Inv, RoutingTypeOK, ForeignUntouched, RoutingInv, ReconcileExact,
       MarksExact, CleanupIsolated, NoChain, Idle

\* A step that leaves the rules alone lists the same rules afterwards.
LEMMA ListUnchanged == ipRules' = ipRules => ListManagedRules' = ListManagedRules
BY DEF ListManagedRules

\* Adding a rule makes it one the call need not add any more, or an error.
LEMMA AddRuleInv ==
  ASSUME Inv, NEW ok \in BOOLEAN, AddRule(ok)
  PROVE  Inv'
<1> DEFINE Done(r) == ok /\ KernelRule(r) \notin ipRules
<1>1. PICK r \in rt.add :
        /\ ipRules' = IF Done(r) THEN ipRules \cup {KernelRule(r)} ELSE ipRules
        /\ rt' = [rt EXCEPT !.add = @ \ {r},
                            !.errs = IF Done(r) THEN @ ELSE @ \cup {"rules"}]
  BY DEF AddRule
<1>2. /\ rt.pc = "rules" /\ rt \in Frame /\ r \in rt.want /\ r \in RuleSpec
      /\ UNCHANGED <<links, route, chain>>
  BY <1>1 DEF AddRule, Inv, RoutingTypeOK, RoutingInv, Frame
<1>3. rt' \in Frame
  BY <1>1, <1>2 DEF Frame
<1>4. RoutingTypeOK'
  BY <1>1, <1>2, <1>3 DEF Inv, RoutingTypeOK, OurRules
<1>5. ForeignUntouched'
  BY <1>1 DEF Inv, ForeignUntouched
<1>6. ListManagedRules' \subseteq ListManagedRules \cup {r}
  BY <1>1, <1>2, SpecOfKernelRule DEF ListManagedRules
<1>7. /\ rt'.fn = rt.fn /\ rt'.pc = rt.pc /\ rt'.want = rt.want /\ rt'.del = rt.del
      /\ rt'.specs = rt.specs /\ rt'.todo = rt.todo /\ rt'.add = rt.add \ {r}
      /\ "rules" \notin rt'.errs => "rules" \notin rt.errs /\ Done(r)
  BY <1>1, <1>2 DEF Frame
<1>8. RoutingInv'
  BY <1>1, <1>2, <1>6, <1>7 DEF Inv, RoutingInv, Idle
<1> QED
  BY <1>2, <1>4, <1>5, <1>7, <1>8 DEF Inv, ReconcileExact, MarksExact, CleanupIsolated

\* Deleting a rule makes it one the call need not delete any more, or an error.
LEMMA DelRuleInv ==
  ASSUME Inv, NEW ok \in BOOLEAN, DelRule(ok)
  PROVE  Inv'
<1> DEFINE Done(r) == ok /\ KernelRule(r) \in ipRules
<1>1. PICK r \in rt.del :
        /\ ipRules' = IF Done(r) THEN ipRules \ {KernelRule(r)} ELSE ipRules
        /\ rt' = [rt EXCEPT !.del = @ \ {r},
                            !.errs = IF Done(r) THEN @ ELSE @ \cup {"rules"}]
  BY DEF DelRule
<1>2. /\ rt.pc = "rules" /\ rt.add = {} /\ rt \in Frame /\ r \in RuleSpec
      /\ r \notin rt.want /\ Managed(KernelRule(r))
      /\ UNCHANGED <<links, route, chain>>
  BY <1>1 DEF DelRule, Inv, RoutingTypeOK, RoutingInv, Frame
<1>3. rt' \in Frame
  BY <1>1, <1>2 DEF Frame
<1>4. RoutingTypeOK'
  BY <1>1, <1>2, <1>3 DEF Inv, RoutingTypeOK
<1>5. ForeignUntouched'
  BY <1>1, <1>2, ForeignAssumption DEF Inv, ForeignUntouched
<1>6. /\ rt'.fn = rt.fn /\ rt'.pc = rt.pc /\ rt'.want = rt.want /\ rt'.add = rt.add
      /\ rt'.specs = rt.specs /\ rt'.todo = rt.todo /\ rt'.del = rt.del \ {r}
      /\ "rules" \notin rt'.errs => "rules" \notin rt.errs /\ Done(r)
  BY <1>1, <1>2 DEF Frame
<1>7. ListManagedRules' \subseteq ListManagedRules
  BY <1>1 DEF ListManagedRules
<1>8. Done(r) => r \notin ListManagedRules'
  <2> SUFFICES ASSUME Done(r), NEW k \in ipRules \ {KernelRule(r)}, Managed(k)
               PROVE  SpecOf(k) # r
    BY <1>1 DEF ListManagedRules
  <2> QED
    BY ManagedIsOurs DEF Inv, RoutingTypeOK
<1>9. ASSUME NEW s \in rt.want, KernelRule(s) \in ipRules
      PROVE  KernelRule(s) \in ipRules'
  <2>1. s \in RuleSpec /\ s # r
    BY <1>2 DEF Frame
  <2> QED
    BY <1>1, <1>2, <1>9, <2>1, SpecOfKernelRule
<1>10. RoutingInv'
  BY <1>1, <1>2, <1>6, <1>7, <1>8, <1>9 DEF Inv, RoutingInv, Idle
<1> QED
  BY <1>2, <1>4, <1>5, <1>6, <1>10 DEF Inv, ReconcileExact, MarksExact, CleanupIsolated

\* The steps that move a call on and leave the kernel alone.
LEMMA ListInv ==
  ASSUME Inv, NEW ok \in BOOLEAN, List(ok)
  PROVE  Inv'
<1>1. /\ rt.pc = "list" /\ rt \in Frame
      /\ UNCHANGED <<links, route, ipRules, chain>>
      /\ ListManagedRules' = ListManagedRules
      /\ ListManagedRules \subseteq RuleSpec
      /\ \A r \in ListManagedRules : KernelRule(r) \in ipRules /\ Managed(KernelRule(r))
  BY ListedAreInstalled, ListUnchanged DEF List, Inv, RoutingTypeOK
<1>2. CASE ok
  <2>1. rt' = [rt EXCEPT !.pc = "rules", !.add = rt.want \ ListManagedRules,
                         !.del = ListManagedRules \ rt.want]
    BY <1>2 DEF List
  <2>2. rt' \in Frame
    BY <1>1, <2>1 DEF Frame, Pcs
  <2> QED
    BY <1>1, <2>1, <2>2
       DEF Inv, RoutingTypeOK, ForeignUntouched, RoutingInv, ReconcileExact, MarksExact,
           CleanupIsolated, Frame, Idle
<1>3. CASE ~ok
  <2>1. rt' = [rt EXCEPT !.pc = AfterRules, !.errs = @ \cup {"rules"}]
    BY <1>3 DEF List
  <2>2. rt' \in Frame
    BY <1>1, <2>1 DEF Frame, Pcs, AfterRules
  <2> QED
    BY <1>1, <2>1, <2>2
       DEF Inv, RoutingTypeOK, ForeignUntouched, RoutingInv, ReconcileExact, MarksExact,
           CleanupIsolated, Frame, Idle, AfterRules
<1> QED
  BY <1>2, <1>3

\* With nothing left to add or delete the band is what was asked for.
LEMMA EndRulesInv ==
  ASSUME Inv, EndRules
  PROVE  Inv'
<1>1. /\ rt.pc = "rules" /\ rt.add = {} /\ rt.del = {} /\ rt \in Frame
      /\ rt' = [rt EXCEPT !.pc = AfterRules] /\ rt' \in Frame
      /\ UNCHANGED <<links, route, ipRules, chain>>
      /\ ListManagedRules' = ListManagedRules
  BY ListUnchanged DEF EndRules, Inv, RoutingTypeOK, Frame, Pcs, AfterRules
<1> QED
  BY <1>1 DEF Inv, RoutingTypeOK, ForeignUntouched, RoutingInv, ReconcileExact, MarksExact,
              CleanupIsolated, Frame, Idle, AfterRules

\* The steps on the tables and on the chain.
LEMMA RemoveInv ==
  ASSUME Inv, NEW ok \in BOOLEAN, RemoveStep(ok)
  PROVE  Inv'
<1> USE DEF Inv, ForeignUntouched, RoutingInv, ReconcileExact, MarksExact, CleanupIsolated
<1>1. ipRules' = ipRules /\ ListManagedRules' = ListManagedRules /\ rt \in Frame
  BY ListUnchanged DEF RemoveStep, CleanTable, EndTables, CheckUnhook, Unhook, EmptyChain,
                       DeleteChain, RoutingTypeOK
<1>2. CASE CleanTable(ok)
  <2>1. PICK t \in rt.tables :
          /\ route' = IF ok THEN [route EXCEPT ![t] = NoRoute] ELSE route
          /\ rt' = [rt EXCEPT !.tables = @ \ {t},
                              !.errs = IF ok THEN @ ELSE @ \cup {"tables"}]
    BY <1>2 DEF CleanTable
  <2>2. rt' \in Frame /\ rt.pc = "tables" /\ UNCHANGED <<links, chain>>
    BY <1>1, <1>2, <2>1 DEF CleanTable, Frame
  <2>3. RoutingTypeOK'
    BY <1>1, <2>1, <2>2 DEF RoutingTypeOK, Frame
  <2>4. /\ rt'.fn = rt.fn /\ rt'.pc = rt.pc /\ rt'.want = rt.want
        /\ "rules" \in rt'.errs <=> "rules" \in rt.errs
    BY <1>1, <2>1 DEF Frame
  <2> QED
    BY <1>1, <2>2, <2>3, <2>4 DEF Idle
<1>3. CASE EndTables
  <2>1. rt' = [rt EXCEPT !.pc = "unhook?"] /\ rt' \in Frame /\ rt.pc = "tables"
    BY <1>1, <1>3 DEF EndTables, Frame, Pcs
  <2> QED
    BY <1>1, <1>3, <2>1 DEF EndTables, RoutingTypeOK, Frame, Idle
<1>4. CASE CheckUnhook(ok)
  <2>1. /\ rt' = [rt EXCEPT !.pc = IF ok /\ chain.jumps > 0 THEN "unhook" ELSE "empty"]
        /\ rt' \in Frame /\ rt.pc = "unhook?"
    BY <1>1, <1>4 DEF CheckUnhook, Frame, Pcs
  <2> QED
    BY <1>1, <1>4, <2>1 DEF CheckUnhook, RoutingTypeOK, Frame, Idle
<1>5. CASE Unhook(ok)
  <2>1. /\ rt' = [rt EXCEPT !.pc = "empty", !.errs = IF ok THEN @ ELSE @ \cup {"chain"}]
        /\ rt' \in Frame /\ rt.pc = "unhook" /\ UNCHANGED <<links, route>>
    BY <1>1, <1>5 DEF Unhook, Frame, Pcs
  <2>2. chain.exists /\ chain.jumps > 0 /\ chain.jumps \in 0..MaxJumps
    BY <2>1 DEF RoutingTypeOK, NoChain
  <2>3. chain.jumps - 1 \in 0..MaxJumps
    BY <2>2, JumpsAssumption
  <2>4. RoutingTypeOK'
    BY <1>1, <1>5, <2>1, <2>2, <2>3 DEF Unhook, RoutingTypeOK
  <2> QED
    BY <1>1, <2>1, <2>4 DEF Frame, Idle
<1>6. CASE EmptyChain(ok)
  <2>1. /\ rt' = [rt EXCEPT !.pc = "delete", !.errs = IF ok THEN @ ELSE @ \cup {"chain"}]
        /\ rt' \in Frame /\ rt.pc = "empty" /\ UNCHANGED <<links, route>>
        /\ chain' = IF ok THEN [chain EXCEPT !.marks = {}] ELSE chain
    BY <1>1, <1>6 DEF EmptyChain, Frame, Pcs
  <2>2. chain' \in [exists : BOOLEAN, jumps : 0..MaxJumps, marks : SUBSET MarkSpec]
    BY <2>1 DEF RoutingTypeOK
  <2>3. ~chain.exists => chain' = NoChain
    <3>1. [NoChain EXCEPT !.marks = {}] = NoChain
      BY DEF NoChain
    <3> QED
      BY <2>1, <3>1 DEF RoutingTypeOK
  <2>4. RoutingTypeOK'
    BY <1>1, <2>1, <2>2, <2>3 DEF RoutingTypeOK
  <2> QED
    BY <1>1, <2>1, <2>4 DEF Frame, Idle
<1>7. CASE DeleteChain(ok)
  <2> DEFINE done == ok /\ chain.jumps = 0 /\ chain.marks = {}
  <2>1. /\ rt' = [rt EXCEPT !.pc = "done", !.errs = IF done THEN @ ELSE @ \cup {"chain"}]
        /\ rt' \in Frame /\ rt.pc = "delete" /\ UNCHANGED <<links, route>>
        /\ chain' = IF done THEN NoChain ELSE chain
    BY <1>1, <1>7 DEF DeleteChain, Frame, Pcs
  <2>2. RoutingTypeOK'
    BY <1>1, <2>1, JumpsAssumption DEF RoutingTypeOK, NoChain
  <2>3. /\ rt'.fn = "Cleanup" /\ rt.fn = "Cleanup" /\ rt.pc = "delete" /\ rt'.pc = "done"
        /\ rt'.want = rt.want
        /\ "rules" \in rt'.errs <=> "rules" \in rt.errs
        /\ "chain" \notin rt'.errs => chain' = NoChain
    <3> HIDE DEF done
    <3> QED
      BY <1>1, <2>1 DEF Frame, Idle
  <2> QED
    BY <1>1, <2>2, <2>3 DEF Idle
<1> QED
  BY <1>2, <1>3, <1>4, <1>5, <1>6, <1>7 DEF RemoveStep

\* Filling the chain keeps count of the marks that are in it.
LEMMA MarksInv ==
  ASSUME Inv, NEW ok \in BOOLEAN, MarksStep(ok)
  PROVE  Inv'
<1> USE DEF Inv, ForeignUntouched, RoutingInv, ReconcileExact, MarksExact, CleanupIsolated
<1>1. /\ UNCHANGED <<links, route, ipRules>> /\ ListManagedRules' = ListManagedRules
      /\ rt \in Frame /\ chain \in [exists : BOOLEAN, jumps : 0..MaxJumps, marks : SUBSET MarkSpec]
  BY ListUnchanged DEF MarksStep, CreateChain, CheckHook, Hook, FlushMarks, AddMark, EndMarks,
                       RoutingTypeOK
<1>2. CASE Fails /\ UNCHANGED chain
           /\ rt.pc \in {"create", "hook", "flush", "mark"}
  <2>1. rt' = [rt EXCEPT !.pc = "done", !.errs = @ \cup {"chain"}] /\ rt' \in Frame
    BY <1>1, <1>2 DEF Fails, Frame, Pcs
  <2> QED
    BY <1>1, <1>2, <2>1 DEF RoutingTypeOK, Frame, Idle
<1>3. CASE CreateChain(ok) /\ ok
  <2>1. /\ rt' = [rt EXCEPT !.pc = "hook?"] /\ rt' \in Frame /\ rt.pc = "create"
        /\ chain' = [chain EXCEPT !.exists = TRUE]
    BY <1>1, <1>3 DEF CreateChain, Frame, Pcs
  <2>2. RoutingTypeOK'
    BY <1>1, <2>1 DEF RoutingTypeOK
  <2> QED
    BY <1>1, <2>1, <2>2 DEF Frame, Idle
<1>4. CASE CheckHook(ok)
  <2>1. /\ rt' = [rt EXCEPT !.pc = IF ok /\ chain.jumps > 0 THEN "flush" ELSE "hook"]
        /\ rt' \in Frame /\ rt.pc = "hook?" /\ UNCHANGED chain
        /\ ~(ok /\ chain.jumps > 0) => chain.jumps < MaxJumps
    BY <1>1, <1>4, JumpsAssumption DEF CheckHook, Frame, Pcs
  <2> QED
    BY <1>1, <2>1 DEF RoutingTypeOK, Frame, Idle
<1>5. CASE Hook(ok) /\ ok
  <2>1. /\ rt' = [rt EXCEPT !.pc = "flush"] /\ rt' \in Frame /\ rt.pc = "hook"
        /\ chain' = [chain EXCEPT !.jumps = @ + 1]
    BY <1>1, <1>5 DEF Hook, Frame, Pcs
  <2>2. chain.jumps + 1 \in 0..MaxJumps /\ chain.jumps + 1 > 0
    BY <1>1, <2>1, JumpsAssumption
  <2>3. RoutingTypeOK'
    BY <1>1, <2>1, <2>2 DEF RoutingTypeOK
  <2> QED
    BY <1>1, <2>1, <2>2, <2>3 DEF Frame, Idle
<1>6. CASE FlushMarks(ok) /\ ok
  <2>1. /\ rt' = [rt EXCEPT !.pc = "mark"] /\ rt' \in Frame /\ rt.pc = "flush"
        /\ chain' = [chain EXCEPT !.marks = {}]
    BY <1>1, <1>6 DEF FlushMarks, Frame, Pcs
  <2>2. RoutingTypeOK'
    BY <1>1, <2>1 DEF RoutingTypeOK
  <2> QED
    BY <1>1, <2>1, <2>2 DEF Frame, Idle
<1>7. CASE AddMark(ok) /\ ok
  <2>1. PICK s \in rt.todo : /\ chain' = [chain EXCEPT !.marks = @ \cup {s}]
                            /\ rt' = [rt EXCEPT !.todo = @ \ {s}]
    BY <1>7 DEF AddMark
  <2>2. rt.pc = "mark" /\ rt' \in Frame /\ s \in MarkSpec
    BY <1>1, <1>7, <2>1 DEF AddMark, Frame
  <2>3. RoutingTypeOK'
    BY <1>1, <2>1, <2>2 DEF RoutingTypeOK
  <2>4. rt'.specs = chain'.marks \cup rt'.todo
    BY <1>1, <2>1, <2>2 DEF Frame
  <2> QED
    BY <1>1, <2>1, <2>2, <2>3, <2>4 DEF Frame, Idle
<1>8. CASE EndMarks
  <2>1. /\ rt' = [rt EXCEPT !.pc = "done"] /\ rt' \in Frame /\ rt.pc = "mark" /\ rt.todo = {}
        /\ UNCHANGED chain
    BY <1>1, <1>8 DEF EndMarks, Frame, Pcs
  <2> QED
    BY <1>1, <2>1 DEF RoutingTypeOK, Frame, Idle
<1> QED
  BY <1>2, <1>3, <1>4, <1>5, <1>6, <1>7, <1>8
     DEF MarksStep, CreateChain, CheckHook, Hook, FlushMarks, AddMark

\* A call starts from an idle frame, and a frame that is dropped is idle.
LEMMA CallInv ==
  ASSUME Inv, Calls
  PROVE  Inv'
<1>1. /\ rt = Idle /\ UNCHANGED <<links, route, ipRules, chain>>
      /\ ListManagedRules' = ListManagedRules
  BY ListUnchanged DEF Calls, CallReconcileRules, CallCleanup, CallSyncDNSMarks
<1>2. ASSUME NEW fn \in {"ReconcileRules", "Cleanup", "SyncDNSMarks"},
             NEW want \in SUBSET RuleSpec, NEW specs \in SUBSET MarkSpec,
             NEW tables \in SUBSET TableId,
             fn = "Cleanup" => want = {},
             rt' = Call(fn, IF fn = "SyncDNSMarks" THEN "create" ELSE "list",
                        want, specs, tables)
      PROVE  Inv'
  <2>1. rt' \in Frame
    BY <1>2 DEF Call, Idle, Frame, Pcs
  <2>2. /\ rt'.fn = fn /\ rt'.pc = IF fn = "SyncDNSMarks" THEN "create" ELSE "list"
        /\ rt'.want = want /\ rt'.specs = specs /\ rt'.todo = specs
    BY <1>2 DEF Call, Idle
  <2> QED
    BY <1>1, <1>2, <2>1, <2>2
       DEF Inv, RoutingTypeOK, ForeignUntouched, RoutingInv, ReconcileExact, MarksExact,
           CleanupIsolated
<1> QED
  BY <1>2 DEF Calls, CallReconcileRules, CallCleanup, CallSyncDNSMarks

\* A call that dies leaves nothing behind that the next one relies on.
LEMMA AbortInv ==
  ASSUME Inv, rt' = Idle, UNCHANGED <<links, route, ipRules, chain>>
  PROVE  Inv'
<1>1. ListManagedRules' = ListManagedRules
  BY ListUnchanged
<1>2. rt'.fn = "none" /\ rt'.pc = "idle" /\ rt' \in Frame
  BY IdleIsFrame DEF Idle
<1> QED
  BY <1>1, <1>2 DEF Inv, RoutingTypeOK, ForeignUntouched, RoutingInv, ReconcileExact,
                    MarksExact, CleanupIsolated

\* Routes and interfaces are not part of what a call remembers.
LEMMA RoutesInv ==
  ASSUME Inv, links' \in SUBSET Device,
         route' \in [TableId -> Device \cup {NoRoute, Blackhole}],
         UNCHANGED <<ipRules, chain, rt>>
  PROVE  Inv'
<1>1. ListManagedRules' = ListManagedRules
  BY ListUnchanged
<1> QED
  BY <1>1 DEF Inv, RoutingTypeOK, ForeignUntouched, RoutingInv, ReconcileExact, MarksExact,
              CleanupIsolated

\* The invariant holds through every step.
LEMMA StepInv == Inv /\ [RoutingNext]_routingVars => Inv'
<1> SUFFICES ASSUME Inv, [RoutingNext]_routingVars
             PROVE  Inv'
  OBVIOUS
<1>1. CASE Calls
  BY <1>1, CallInv
<1>2. ASSUME NEW ok \in BOOLEAN, RoutingStep(ok)
      PROVE  Inv'
  BY <1>2, ListInv, AddRuleInv, DelRuleInv, EndRulesInv, RemoveInv, MarksInv
     DEF RoutingStep, RulesStep
<1>3. CASE Return
  BY <1>3, AbortInv DEF Return
<1>4. CASE Tables
  <2>1. route' \in [TableId -> Device \cup {NoRoute, Blackhole}]
    BY <1>4 DEF Tables, SetTableDefault, SetTableBlackhole, FlushTable, Inv, RoutingTypeOK
  <2>2. UNCHANGED <<links, ipRules, chain, rt>>
    BY <1>4 DEF Tables, SetTableDefault, SetTableBlackhole, FlushTable
  <2> QED
    BY <2>1, <2>2, RoutesInv DEF Inv, RoutingTypeOK
<1>5. CASE Environment
  <2>1. ASSUME NEW d \in Device, LinkUp(d) \/ LinkDown(d)
        PROVE  Inv'
    <3>1. UNCHANGED <<ipRules, chain, rt>>
      BY <2>1 DEF LinkUp, LinkDown
    <3>2. links' \in SUBSET Device
      BY <2>1 DEF LinkUp, LinkDown, Inv, RoutingTypeOK
    <3>3. route' \in [TableId -> Device \cup {NoRoute, Blackhole}]
      BY <2>1 DEF LinkUp, LinkDown, Inv, RoutingTypeOK
    <3> QED
      BY <3>1, <3>2, <3>3, RoutesInv
  <2>2. CASE Abort
    BY <2>2, AbortInv DEF Abort
  <2>3. CASE Reboot
    <3>1. /\ rt' = Idle /\ rt'.fn = "none" /\ rt'.pc = "idle" /\ rt' \in Frame
          /\ ipRules' = Foreign /\ chain' = NoChain
      BY <2>3, IdleIsFrame DEF Reboot, Idle
    <3>2. RoutingTypeOK'
      BY <2>3, <3>1, JumpsAssumption DEF Reboot, RoutingTypeOK, NoChain
    <3> QED
      BY <3>1, <3>2 DEF Inv, ForeignUntouched, RoutingInv, ReconcileExact, MarksExact,
                        CleanupIsolated
  <2> QED
    BY <1>5, <2>1, <2>2, <2>3 DEF Environment
<1>6. CASE UNCHANGED routingVars
  <2>1. ListManagedRules' = ListManagedRules
    BY <1>6, ListUnchanged DEF routingVars
  <2> QED
    BY <1>6, <2>1 DEF Inv, RoutingTypeOK, ForeignUntouched, RoutingInv, ReconcileExact,
                      MarksExact, CleanupIsolated, routingVars
<1> QED
  BY <1>1, <1>2, <1>3, <1>4, <1>5, <1>6 DEF RoutingNext

-----------------------------------------------------------------------------
(* The theorems. *)

\* Whatever fails, whoever dies and whenever the host restarts: no rule of another
\* program is touched; a reconcile without an error has every desired rule installed and
\* no other that a listing shows; a mark synchronisation without one has exactly the marks
\* asked for in the chain; and a part of a cleanup that reports none has left no rule that
\* a listing shows, or no chain.  Rules no listing shows, those into the main table and
\* the IPv6 ones, are outside it: a call may leave them without an error.
THEOREM RoutingSafety ==
  RoutingSpec => [](/\ RoutingTypeOK
                    /\ RoutingInv
                    /\ ForeignUntouched
                    /\ ReconcileExact
                    /\ MarksExact
                    /\ CleanupIsolated)
<1>1. Inv => /\ RoutingTypeOK /\ RoutingInv /\ ForeignUntouched /\ ReconcileExact
             /\ MarksExact /\ CleanupIsolated
  BY DEF Inv
<1> QED
  BY <1>1, InitInv, StepInv, PTL DEF RoutingSpec

\* The invariant holds in every reachable state.
LEMMA Invariance == RoutingSpec => []Inv
BY InitInv, StepInv, PTL DEF RoutingSpec

\* Within a call of ReconcileRules only DelRule takes a rule out of the kernel.
LEMMA RulesOnlyGrow ==
  ASSUME [RoutingNext]_routingVars, rt.fn = "ReconcileRules", rt'.fn = "ReconcileRules"
  PROVE  \/ ipRules \subseteq ipRules'
         \/ \E ok \in BOOLEAN : DelRule(ok)
<1>1. rt # Idle /\ rt' # Idle
  BY DEF Idle
<1>2. ASSUME NEW ok \in BOOLEAN, RoutingStep(ok), ~DelRule(ok)
      PROVE  ipRules \subseteq ipRules'
  BY <1>2 DEF RoutingStep, RulesStep, RemoveStep, MarksStep, List, AddRule, EndRules,
              CleanTable, EndTables, CheckUnhook, Unhook, EmptyChain, DeleteChain,
              CreateChain, CheckHook, Hook, FlushMarks, AddMark, EndMarks
<1>3. CASE UNCHANGED routingVars
  BY <1>3 DEF routingVars
<1>4. CASE Environment
  BY <1>1, <1>4 DEF Environment, LinkUp, LinkDown, Abort, Reboot
<1> QED
  BY <1>1, <1>2, <1>3, <1>4
     DEF RoutingNext, Calls, CallReconcileRules, CallCleanup, CallSyncDNSMarks, Return,
         Tables, SetTableDefault, SetTableBlackhole, FlushTable

\* DelRule deletes one rule, and never one that is desired.
LEMMA DelRuleSparesWanted ==
  ASSUME Inv, NEW ok \in BOOLEAN, DelRule(ok),
         NEW r \in rt.want, KernelRule(r) \in ipRules
  PROVE  r \in RuleSpec /\ KernelRule(r) \in ipRules'
<1>1. PICK d \in rt.del : ipRules \ {KernelRule(d)} \subseteq ipRules'
  BY DEF DelRule
<1>2. d \in RuleSpec /\ r \in RuleSpec /\ d # r
  BY DEF DelRule, Inv, RoutingTypeOK, RoutingInv, Frame
<1>3. KernelRule(d) # KernelRule(r)
  BY <1>2, SpecOfKernelRule
<1> QED
  BY <1>1, <1>2, <1>3

\* A rule that is desired and installed is never taken out by a reconcile, so live
\* traffic that has nothing to do with a change is not disturbed by it.
THEOREM ReconcileTouchesDifferences == RoutingSpec => OnlyDifferencesTouched
<1>1. Inv /\ [RoutingNext]_routingVars
        => [rt.fn = "ReconcileRules" /\ rt'.fn = "ReconcileRules"
              => \A r \in rt.want : KernelRule(r) \in ipRules => KernelRule(r) \in ipRules'
           ]_routingVars
  BY RulesOnlyGrow, DelRuleSparesWanted
<1> QED
  BY <1>1, Invariance, PTL DEF RoutingSpec, OnlyDifferencesTouched

\* Add before delete: as long as no command of the call has failed, a destination
\* that had a rule and is to have one again has one after every command.
THEOREM ReconcileAddsBeforeItDeletes == RoutingSpec => AddBeforeDelete
<1>1. ASSUME Inv, [RoutingNext]_routingVars, rt.fn = "ReconcileRules",
             rt'.fn = "ReconcileRules", rt.errs = {}, NEW c \in Cidr
      PROVE  StaysSteered(c)
  <2>1. CASE ipRules \subseteq ipRules'
    BY <2>1 DEF StaysSteered, Steered
  <2>2. ASSUME NEW ok \in BOOLEAN, DelRule(ok), NEW r \in rt.want, r.to = c
        PROVE  Steered(c)'
    <3>1. KernelRule(r) \in ipRules
      BY <1>1, <2>2 DEF DelRule, Inv, RoutingInv
    <3>2. KernelRule(r) \in ipRules' \cap OurRules
      BY <1>1, <2>2, <3>1, DelRuleSparesWanted DEF OurRules
    <3>3. KernelRule(r).to = c
      BY <2>2 DEF KernelRule
    <3> QED
      BY <3>2, <3>3 DEF Steered
  <2> QED
    BY <1>1, <2>1, <2>2, RulesOnlyGrow DEF StaysSteered
<1>2. Inv /\ [RoutingNext]_routingVars
        => [rt.fn = "ReconcileRules" /\ rt'.fn = "ReconcileRules" /\ rt.errs = {}
              => \A c \in Cidr : StaysSteered(c)]_routingVars
  BY <1>1
<1> QED
  BY <1>2, Invariance, PTL DEF RoutingSpec, AddBeforeDelete

=============================================================================
