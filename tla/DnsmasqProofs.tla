---------------------------- MODULE DnsmasqProofs ----------------------------
(* Proofs of the safety properties of Dnsmasq, for all addresses and lists. *)
EXTENDS Dnsmasq, TLAPS

Inv == DnsTypeOK /\ DnsInv

-----------------------------------------------------------------------------
(* Frames. *)

\* A call that is not under way is a frame, with nothing in it.
LEMMA NoCallIsFrame == NoCall \in CallFrame /\ NoCall.fn = "none" /\ NoCall.pc = "idle"
BY DEF NoCall, CallFrame, DnsPcs

\* A service that is stopped has read nothing.
LEMMA StoppedIsService ==
  Stopped \in Service /\ ~Stopped.up /\ Stopped.addr = NoFile /\ Stopped.list = NoFile
BY DEF Stopped, Service

\* A dnsmasq that has started knows the base file, and the servers file through it.
LEMMA StartedIsService ==
  ASSUME DnsTypeOK
  PROVE  /\ Started \in Service /\ Started.up /\ Started.addr = base
         /\ Started.list = IF base = NoFile THEN NoFile ELSE servers
BY DEF Started, Service, DnsTypeOK

\* Step moves the program counter and nothing else.
LEMMA StepFrame ==
  ASSUME call \in CallFrame, NEW pc \in DnsPcs, Step(pc)
  PROVE  /\ call' \in CallFrame /\ call'.pc = pc
         /\ call'.fn = call.fn /\ call'.addr = call.addr /\ call'.list = call.list
         /\ call'.baseChanged = call.baseChanged /\ call'.dropChanged = call.dropChanged
         /\ call'.errs = call.errs
BY DEF Step, CallFrame

Parts == {"base", "servers", "drop", "dnsmasq", "resolved"}

\* Ends ends the call with an error.
LEMMA EndsFrame ==
  ASSUME call \in CallFrame, NEW part \in Parts, Ends(part)
  PROVE  /\ call' \in CallFrame /\ call'.pc = "done"
         /\ call'.fn = call.fn /\ call'.addr = call.addr /\ call'.list = call.list
         /\ call'.errs # {}
BY DEF Ends, CallFrame, DnsPcs, Parts

\* Goes moves on, with an error for the part unless it went well.
LEMMA GoesFrame ==
  ASSUME call \in CallFrame, NEW pc \in DnsPcs, NEW part \in Parts, NEW ok \in BOOLEAN,
         Goes(pc, part, ok)
  PROVE  /\ call' \in CallFrame /\ call'.pc = pc /\ call'.fn = call.fn
         /\ call.errs \subseteq call'.errs
         /\ ~ok => part \in call'.errs
BY DEF Goes, CallFrame, Parts

\* The manager starts idle, with no files.
LEMMA InitInv == DnsInit => Inv
<1> SUFFICES ASSUME DnsInit PROVE Inv
  OBVIOUS
<1> DEFINE Idle == [Stopped EXCEPT !.up = TRUE]
<1>1. Idle \in Service /\ Idle.up /\ Idle.addr = NoFile /\ Idle.list = NoFile
  BY DEF Stopped, Service
<1>2. dnsmasq = Stopped \/ dnsmasq = Idle
  BY DEF DnsInit
<1> HIDE DEF Idle
<1> QED
  BY <1>1, <1>2, NoCallIsFrame, StoppedIsService
     DEF DnsInit, Inv, DnsTypeOK, DnsInv, Written, Told, Removed, Done

-----------------------------------------------------------------------------
(* Steps. *)

\* The steps of Apply keep the invariant.
LEMMA ApplyInv ==
  ASSUME Inv, NEW ok \in BOOLEAN, ApplyStep(ok)
  PROVE  Inv'
<1>1. DnsTypeOK /\ call \in CallFrame
  BY DEF Inv, DnsTypeOK
<1>2. /\ "servers" \in DnsPcs /\ "drop" \in DnsPcs /\ "running?" \in DnsPcs
      /\ "restart" \in DnsPcs /\ "reload" \in DnsPcs /\ "resolved" \in DnsPcs
      /\ "done" \in DnsPcs
      /\ "base" \in Parts /\ "servers" \in Parts /\ "drop" \in Parts
      /\ "dnsmasq" \in Parts /\ "resolved" \in Parts
  BY DEF DnsPcs, Parts
<1>3. call.pc \in ApplyPcs => call.fn = "Apply" /\ call.addr \in Addr /\ call.list \in List
  BY <1>1 DEF Inv, DnsInv, CallFrame, ApplyPcs, CleanupPcs, NoCall
<1>4. CASE WriteBase(ok)
  <2>1. PICK changed \in Changed(base, call.addr) :
          IF changed /\ ~ok
            THEN Ends("base") /\ UNCHANGED base
            ELSE /\ base' = call.addr
                 /\ call' = [call EXCEPT !.pc = "servers", !.baseChanged = changed]
    BY <1>4 DEF WriteBase
  <2>2. changed \in BOOLEAN /\ (~changed => base = call.addr)
    BY DEF Changed
  <2>3. CASE ~(changed /\ ~ok)
    <3>1. /\ call' \in CallFrame /\ call'.pc = "servers"
          /\ call'.fn = call.fn /\ call'.addr = call.addr /\ call'.list = call.list
          /\ call'.errs = call.errs
      BY <1>1, <1>2, <2>1, <2>2, <2>3 DEF CallFrame
    <3> QED
      BY <1>3, <1>4, <2>1, <2>3, <3>1
         DEF WriteBase, services, Inv, DnsTypeOK, DnsInv, Written, Told, Removed, Done, ApplyPcs
  <2>4. CASE changed /\ ~ok
    BY <1>1, <1>2, <1>3, <1>4, <2>1, <2>4, EndsFrame
       DEF WriteBase, services, Inv, DnsTypeOK, DnsInv, Written, Told, Removed, Done, ApplyPcs
  <2> QED
    BY <2>3, <2>4
<1>5. CASE WriteServers(ok)
  <2>1. CASE Ends("servers") /\ UNCHANGED servers
    BY <1>1, <1>2, <1>3, <1>5, <2>1, EndsFrame
       DEF WriteServers, services, Inv, DnsTypeOK, DnsInv, Written, Told, Removed, Done, ApplyPcs
  <2>2. CASE servers' = call.list /\ Step("drop")
    BY <1>1, <1>2, <1>3, <1>5, <2>2, StepFrame
       DEF WriteServers, services, Inv, DnsTypeOK, DnsInv, Written, Told, Removed, Done, ApplyPcs
  <2> QED
    BY <1>5, <2>1, <2>2 DEF WriteServers
<1>6. CASE WriteDrop(ok)
  <2>1. PICK changed \in Changed(drop, call.addr) :
          IF changed /\ ~ok
            THEN Ends("drop") /\ UNCHANGED drop
            ELSE /\ drop' = call.addr
                 /\ call' = [call EXCEPT !.pc = "running?", !.dropChanged = changed]
    BY <1>6 DEF WriteDrop
  <2>2. changed \in BOOLEAN /\ (~changed => drop = call.addr)
    BY DEF Changed
  <2>3. CASE ~(changed /\ ~ok)
    <3>1. /\ call' \in CallFrame /\ call'.pc = "running?"
          /\ call'.fn = call.fn /\ call'.addr = call.addr /\ call'.list = call.list
          /\ call'.errs = call.errs
      BY <1>1, <1>2, <2>1, <2>2, <2>3 DEF CallFrame
    <3> QED
      BY <1>3, <1>6, <2>1, <2>3, <3>1
         DEF WriteDrop, services, Inv, DnsTypeOK, DnsInv, Written, Told, Removed, Done, ApplyPcs
  <2>4. CASE changed /\ ~ok
    BY <1>1, <1>2, <1>3, <1>6, <2>1, <2>4, EndsFrame
       DEF WriteDrop, services, Inv, DnsTypeOK, DnsInv, Written, Told, Removed, Done, ApplyPcs
  <2> QED
    BY <2>3, <2>4
<1>7. CASE CheckRunning(ok)
  <2>1. PICK pc \in {"restart", "reload"} : Step(pc) /\ (pc = "reload" => ~call.baseChanged)
    BY <1>7 DEF CheckRunning
  <2> QED
    BY <1>1, <1>2, <1>3, <1>7, <2>1, StepFrame
       DEF CheckRunning, files, services, Inv, DnsTypeOK, DnsInv, Written, Told, Removed, Done, ApplyPcs
<1>8. /\ AfterDnsmasq \in {"resolved", "done"} /\ AfterDnsmasq \in DnsPcs
      /\ AfterDnsmasq = "resolved" <=> call.dropChanged
  BY <1>2 DEF AfterDnsmasq
<1>9. CASE RestartDnsmasq(ok)
  <2>1. dnsmasq' \in Service /\ (~dnsmasq'.up => dnsmasq' = Stopped)
        /\ (dnsmasq'.addr = NoFile => dnsmasq'.list = NoFile)
    BY <1>1, <1>9, StoppedIsService, StartedIsService DEF RestartDnsmasq, DnsTypeOK
  <2>2. CASE ok
    <3>1. Step(AfterDnsmasq) /\ dnsmasq' = Started
      BY <1>9, <2>2 DEF RestartDnsmasq
    <3> QED
      BY <1>1, <1>2, <1>3, <1>8, <1>9, <2>1, <3>1, StepFrame, StartedIsService
         DEF RestartDnsmasq, files, Inv, DnsTypeOK, DnsInv, Written, Told, Removed, Done, ApplyPcs
  <2>3. CASE ~ok
    <3>1. Ends("dnsmasq")
      BY <1>9, <2>3 DEF RestartDnsmasq
    <3> QED
      BY <1>1, <1>2, <1>3, <1>9, <2>1, <3>1, EndsFrame
         DEF RestartDnsmasq, files, Inv, DnsTypeOK, DnsInv, Written, Told, Removed, Done, ApplyPcs
  <2> QED
    BY <2>2, <2>3
<1>10. CASE ReloadDnsmasq(ok)
  <2>1. CASE ok /\ dnsmasq.up
    <3>1. /\ Step(AfterDnsmasq)
          /\ dnsmasq' = [dnsmasq EXCEPT
               !.list = IF dnsmasq.addr = NoFile THEN NoFile ELSE servers]
      BY <1>10, <2>1 DEF ReloadDnsmasq
    <3>2. /\ dnsmasq' \in Service /\ dnsmasq'.up /\ dnsmasq'.addr = dnsmasq.addr
          /\ dnsmasq'.list = IF dnsmasq.addr = NoFile THEN NoFile ELSE servers
      BY <1>1, <2>1, <3>1 DEF DnsTypeOK, Service
    <3> QED
      BY <1>1, <1>2, <1>3, <1>8, <1>10, <3>1, <3>2, StepFrame
         DEF ReloadDnsmasq, files, Inv, DnsTypeOK, DnsInv, Written, Told, Removed, Done, ApplyPcs
  <2>2. CASE ~(ok /\ dnsmasq.up)
    <3>1. Ends("dnsmasq")
      BY <1>10, <2>2 DEF ReloadDnsmasq
    <3> QED
      BY <1>1, <1>2, <1>3, <1>10, <2>2, <3>1, EndsFrame
         DEF ReloadDnsmasq, files, Inv, DnsTypeOK, DnsInv, Written, Told, Removed, Done, ApplyPcs
  <2> QED
    BY <2>1, <2>2
<1>11. CASE RestartResolved(ok)
  <2>1. CASE ok
    <3>1. Step("done")
      BY <1>11, <2>1 DEF RestartResolved
    <3> QED
      BY <1>1, <1>2, <1>3, <1>11, <2>1, <3>1, StepFrame
         DEF RestartResolved, files, Inv, DnsTypeOK, DnsInv, Written, Told, Removed, Done, ApplyPcs
  <2>2. CASE ~(ok)
    <3>1. Ends("resolved")
      BY <1>11, <2>2 DEF RestartResolved
    <3> QED
      BY <1>1, <1>2, <1>3, <1>11, <2>2, <3>1, EndsFrame
         DEF RestartResolved, files, Inv, DnsTypeOK, DnsInv, Written, Told, Removed, Done, ApplyPcs
  <2> QED
    BY <2>1, <2>2
<1> QED
  BY <1>4, <1>5, <1>6, <1>7, <1>9, <1>10, <1>11 DEF ApplyStep

\* The steps of Cleanup keep the invariant.
LEMMA CleanupInv ==
  ASSUME Inv, NEW ok \in BOOLEAN, CleanupStep(ok)
  PROVE  Inv'
<1>1. DnsTypeOK /\ call \in CallFrame
  BY DEF Inv, DnsTypeOK
<1>2. /\ "removeServers" \in DnsPcs /\ "removeDrop" \in DnsPcs /\ "stop" \in DnsPcs
      /\ "handBack" \in DnsPcs /\ "done" \in DnsPcs
      /\ "base" \in Parts /\ "servers" \in Parts /\ "drop" \in Parts
      /\ "dnsmasq" \in Parts /\ "resolved" \in Parts
  BY DEF DnsPcs, Parts
<1>3. call.pc \in CleanupPcs => call.fn = "Cleanup"
  BY <1>1 DEF Inv, DnsInv, CallFrame, ApplyPcs, CleanupPcs, NoCall
<1>4. CASE RemoveBase(ok)
  <2>1. Goes("removeServers", "base", ok \/ base = NoFile)
    BY <1>4 DEF RemoveBase
  <2> QED
    BY <1>1, <1>2, <1>3, <1>4, <2>1, GoesFrame
       DEF RemoveBase, services, Inv, DnsTypeOK, DnsInv, Written, Told, Removed, Done, CleanupPcs
<1>5. CASE RemoveServers(ok)
  <2>1. Goes("removeDrop", "servers", ok \/ servers = NoFile)
    BY <1>5 DEF RemoveServers
  <2> QED
    BY <1>1, <1>2, <1>3, <1>5, <2>1, GoesFrame
       DEF RemoveServers, services, Inv, DnsTypeOK, DnsInv, Written, Told, Removed, Done, CleanupPcs
<1>6. CASE RemoveDrop(ok)
  <2>1. Goes("stop", "drop", ok \/ drop = NoFile)
    BY <1>6 DEF RemoveDrop
  <2> QED
    BY <1>1, <1>2, <1>3, <1>6, <2>1, GoesFrame
       DEF RemoveDrop, services, Inv, DnsTypeOK, DnsInv, Written, Told, Removed, Done, CleanupPcs
<1>7. CASE StopDnsmasq(ok)
  <2>1. Goes("handBack", "dnsmasq", ok)
    BY <1>7 DEF StopDnsmasq
  <2> QED
    BY <1>1, <1>2, <1>3, <1>7, <2>1, GoesFrame, StoppedIsService
       DEF StopDnsmasq, files, Inv, DnsTypeOK, DnsInv, Written, Told, Removed, Done, CleanupPcs, Stopped
<1>8. CASE HandBack(ok)
  <2>1. Goes("done", "resolved", ok)
    BY <1>8 DEF HandBack
  <2> QED
    BY <1>1, <1>2, <1>3, <1>8, <2>1, GoesFrame
       DEF HandBack, files, Inv, DnsTypeOK, DnsInv, Written, Told, Removed, Done, CleanupPcs
<1> QED
  BY <1>4, <1>5, <1>6, <1>7, <1>8 DEF CleanupStep

\* So do the calls, their ends, and what happens to the host meanwhile.
LEMMA OtherInv ==
  ASSUME Inv,
         \/ \E addr \in Addr, list \in List : CallApply(addr, list)
         \/ CallCleanup \/ Return \/ DnsmasqDies \/ CallerDies \/ HostBoot
  PROVE  Inv'
<1>1. DnsTypeOK
  BY DEF Inv
<1>2. ASSUME NEW addr \in Addr, NEW list \in List, CallApply(addr, list)
      PROVE  Inv'
  <2>1. /\ call' \in CallFrame /\ call'.fn = "Apply" /\ call'.pc = "base"
        /\ call'.addr = addr /\ call'.list = list /\ call'.errs = {}
    BY <1>2 DEF CallApply, NoCall, CallFrame, DnsPcs
  <2> QED
    BY <1>2, <2>1 DEF CallApply, files, services, Inv, DnsTypeOK, DnsInv, Written, Told, Removed, Done, ApplyPcs
<1>3. CASE CallCleanup
  <2>1. call' \in CallFrame /\ call'.fn = "Cleanup" /\ call'.pc = "remove"
    BY <1>3 DEF CallCleanup, NoCall, CallFrame, DnsPcs
  <2> QED
    BY <1>3, <2>1 DEF CallCleanup, files, services, Inv, DnsTypeOK, DnsInv, Written, Told, Removed, Done, CleanupPcs
<1>4. CASE Return \/ CallerDies
  BY <1>4, NoCallIsFrame
     DEF Return, CallerDies, files, services, Inv, DnsTypeOK, DnsInv, Written, Told, Removed, Done, ApplyPcs
<1>5. CASE DnsmasqDies
  BY <1>5, StoppedIsService DEF DnsmasqDies, files, Stopped, Inv, DnsTypeOK, DnsInv, Written, Told, Removed, Done, ApplyPcs
<1>6. CASE HostBoot
  BY <1>1, <1>6, NoCallIsFrame, StoppedIsService, StartedIsService
     DEF HostBoot, files, Inv, DnsTypeOK, DnsInv, Written, Told, Removed, Done, ApplyPcs
<1> QED
  BY <1>2, <1>3, <1>4, <1>5, <1>6

\* The invariant holds in every reachable state.
LEMMA Invariance == DnsSpec => []Inv
<1>1. Inv /\ [DnsNext]_dnsVars => Inv'
  <2> SUFFICES ASSUME Inv, [DnsNext]_dnsVars PROVE Inv'
    OBVIOUS
  <2>1. CASE DnsNext
    BY <2>1, ApplyInv, CleanupInv, OtherInv DEF DnsNext
  <2>2. CASE UNCHANGED dnsVars
    BY <2>2 DEF dnsVars, Inv, DnsTypeOK, DnsInv, Written, Told, Removed, Done
  <2> QED
    BY <2>1, <2>2
<1> QED
  BY InitInv, <1>1, PTL DEF DnsSpec

\* For all addresses and lists: an Apply that reports no error has written its files
\* and had the list read by a dnsmasq that knows of it, and a Cleanup leaves behind
\* only what it reports.
THEOREM DnsSafety ==
  DnsSpec => [](/\ DnsTypeOK
                /\ DnsInv
                /\ ApplyServesList
                /\ ApplyReadsWhatItWrote
                /\ CleanupKeepsOn)
<1>1. Inv => /\ DnsTypeOK /\ DnsInv
             /\ ApplyServesList /\ ApplyReadsWhatItWrote /\ CleanupKeepsOn
  BY DEF Inv, DnsTypeOK, DnsInv, ApplyServesList, ApplyReadsWhatItWrote, CleanupKeepsOn,
         Written, Told, Removed, Done
<1> QED
  BY <1>1, Invariance, PTL

\* One step of the manager is one of the service, or none of its business.
LEMMA StepServes ==
  ASSUME Inv, Inv', DnsNext
  PROVE  [Manager!ServiceNext]_(Manager!serviceVars)
<1> USE DEF Manager!ServiceNext, Manager!serviceVars, ServiceState, Wanted
<1>1. ASSUME NEW addr \in Addr, NEW list \in List, CallApply(addr, list)
      PROVE  Manager!Ask
  BY <1>1 DEF CallApply, NoCall, files, Manager!Ask
<1>2. CASE CallCleanup
  BY <1>2 DEF CallCleanup, NoCall, files, Manager!Ask
<1>3. ASSUME NEW ok \in BOOLEAN, ApplyStep(ok)
      PROVE  Manager!Replace \/ Manager!End \/ UNCHANGED Manager!serviceVars
  <2>1. call \in CallFrame /\ call.pc \in ApplyPcs
    BY <1>3 DEF ApplyStep, WriteBase, WriteServers, WriteDrop, CheckRunning, RestartDnsmasq,
                ReloadDnsmasq, RestartResolved, Inv, DnsTypeOK, ApplyPcs
  <2>2. call.fn = "Apply" /\ call.pc # "done" /\ call.errs = {}
    BY <2>1 DEF Inv, DnsInv, CallFrame, ApplyPcs, CleanupPcs, NoCall
  <2>3. call'.fn = call.fn /\ call'.list = call.list
    BY <1>3, <2>1 DEF ApplyStep, WriteBase, WriteServers, WriteDrop, CheckRunning,
                      RestartDnsmasq, ReloadDnsmasq, RestartResolved, Step, Ends, CallFrame
  <2>4. servers' \in {servers, call.list}
    BY <1>3 DEF ApplyStep, WriteBase, WriteServers, WriteDrop, CheckRunning, RestartDnsmasq,
                ReloadDnsmasq, RestartResolved, files, services, Step
  <2>5. call'.pc = "done" /\ call'.errs = {} => servers' = call.list
    BY <2>2, <2>3 DEF Inv, DnsInv, Written
  <2> QED
    BY <2>2, <2>3, <2>4, <2>5 DEF Manager!Replace, Manager!End
<1>4. ASSUME NEW ok \in BOOLEAN, CleanupStep(ok)
      PROVE  Manager!Replace \/ Manager!End \/ UNCHANGED Manager!serviceVars
  <2>1. call \in CallFrame /\ call.pc \in CleanupPcs
    BY <1>4 DEF CleanupStep, RemoveBase, RemoveServers, RemoveDrop, StopDnsmasq, HandBack,
                Inv, DnsTypeOK, CleanupPcs
  <2>2. call.fn = "Cleanup" /\ call.pc # "done"
    BY <2>1 DEF Inv, DnsInv, CallFrame, ApplyPcs, CleanupPcs, NoCall
  <2>3. call'.fn = call.fn
    BY <1>4, <2>1 DEF CleanupStep, RemoveBase, RemoveServers, RemoveDrop, StopDnsmasq,
                      HandBack, Goes, CallFrame
  <2>4. servers' \in {servers, NoFile}
    BY <1>4, <2>1 DEF CleanupStep, RemoveBase, RemoveServers, RemoveDrop, StopDnsmasq,
                      HandBack, Goes, CallFrame, files, services
  <2>5. call'.pc = "done" /\ call'.errs = {} => servers' = NoFile
    BY <2>2, <2>3 DEF Inv, DnsInv, Removed
  <2> QED
    BY <2>2, <2>3, <2>4, <2>5 DEF Manager!Replace, Manager!End
<1>5. CASE Return \/ CallerDies
  BY <1>5 DEF Return, CallerDies, NoCall, files, Inv, DnsInv, Manager!Leave
<1>6. CASE DnsmasqDies
  BY <1>6 DEF DnsmasqDies, files
<1>7. CASE HostBoot
  BY <1>7 DEF HostBoot, NoCall, files, Inv, DnsInv, Manager!Leave
<1> QED
  BY <1>1, <1>2, <1>3, <1>4, <1>5, <1>6, <1>7 DEF DnsNext

\* For all addresses and lists, the manager is the service the engine counts on: the
\* servers file is touched only inside a call, only towards what the call asks for,
\* and a call that returns no error has brought it there.
THEOREM DnsmasqServes == DnsSpec => KeepsDnsService
<1>1. DnsInit => Manager!ServiceInit
  BY DEF DnsInit, Manager!ServiceInit, ServiceState, NoCall
<1>2. Inv /\ Inv' /\ [DnsNext]_dnsVars => [Manager!ServiceNext]_(Manager!serviceVars)
  BY StepServes DEF dnsVars, Manager!serviceVars, ServiceState, Wanted
<1> QED
  BY <1>1, <1>2, Invariance, PTL DEF DnsSpec, KeepsDnsService, Manager!ServiceSpec
=============================================================================
