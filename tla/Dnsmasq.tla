------------------------------- MODULE Dnsmasq -------------------------------
(***************************************************************************)
(* The DNS manager, src/internal/dns/dnsmasq.go: three files, the dnsmasq  *)
(* and systemd-resolved services that read them, and the calls Apply and   *)
(* Cleanup, one system call or command at a time.                          *)
(*                                                                         *)
(* A file is its content, and the content is what it tells apart: the base *)
(* configuration and the resolved drop-in differ in the listen address     *)
(* only (renderBase, renderResolved), the servers file in the list of      *)
(* upstreams (renderServers).  writeIfChanged replaces a file atomically.  *)
(***************************************************************************)
EXTENDS Naturals, FiniteSets

CONSTANTS
  Addr,     \* listen addresses
  List,     \* lists of upstream servers, per domain and fallback
  NoFile    \* the file does not exist, or the service has not read it

ASSUME ContentAssumption == NoFile \notin Addr \cup List

VARIABLES
  base,      \* /etc/dnsmasq.d/dual-vpn.conf
  servers,   \* the servers file
  drop,      \* the systemd-resolved drop-in
  dnsmasq,   \* the dnsmasq service, and what it has read
  resolved,  \* what systemd-resolved has read
  call       \* the call under way

files == <<base, servers, drop>>
services == <<dnsmasq, resolved>>
dnsVars == <<base, servers, drop, dnsmasq, resolved, call>>

NoCall == [fn |-> "none", pc |-> "idle", addr |-> NoFile, list |-> NoFile,
           baseChanged |-> FALSE, dropChanged |-> FALSE, errs |-> {}]

Stopped == [up |-> FALSE, addr |-> NoFile, list |-> NoFile]

\* (Mutant: the servers file is in the directory dnsmasq reads by itself.)
StartedFromDir == [up |-> TRUE, addr |-> base, list |-> servers]

\* What dnsmasq knows after a start: the servers file only through the base file.
Started == [up |-> TRUE, addr |-> base,
            list |-> IF base = NoFile THEN NoFile ELSE servers]

DnsInit ==
  /\ base = NoFile /\ servers = NoFile /\ drop = NoFile
  /\ dnsmasq \in {Stopped, [Stopped EXCEPT !.up = TRUE]}
  /\ resolved = NoFile
  /\ call = NoCall

Step(pc) == call' = [call EXCEPT !.pc = pc]
Ends(part) == call' = [call EXCEPT !.pc = "done", !.errs = @ \cup {part}]

-----------------------------------------------------------------------------
(* Apply *)

\* writeIfChanged: a file that is right is left alone, but one that cannot be read is
\* replaced whatever it holds.
Changed(content, wanted) == IF content = wanted THEN BOOLEAN ELSE {TRUE}

CallApply(addr, list) ==
  /\ call = NoCall
  /\ call' = [NoCall EXCEPT !.fn = "Apply", !.pc = "base", !.addr = addr, !.list = list]
  /\ UNCHANGED <<files, services>>

\* (Mutant: an error of the write is reported as "not changed".)
WriteBaseSilently(ok) ==
  /\ call.pc = "base"
  /\ base' = IF ok THEN call.addr ELSE base
  /\ call' = [call EXCEPT !.pc = "servers", !.baseChanged = ok /\ base # call.addr]
  /\ UNCHANGED <<servers, drop, services>>

WriteBase(ok) ==
  /\ call.pc = "base"
  /\ \E changed \in Changed(base, call.addr) :
       IF changed /\ ~ok
         THEN Ends("base") /\ UNCHANGED base
         ELSE /\ base' = call.addr
              /\ call' = [call EXCEPT !.pc = "servers", !.baseChanged = changed]
  /\ UNCHANGED <<servers, drop, services>>

\* (Mutant: an error of the write is dropped.)
WriteServersSilently(ok) ==
  /\ call.pc = "servers"
  /\ servers' = IF ok THEN call.list ELSE servers
  /\ Step("drop")
  /\ UNCHANGED <<base, drop, services>>

WriteServers(ok) ==
  /\ call.pc = "servers"
  /\ \E changed \in Changed(servers, call.list) :
       IF changed /\ ~ok THEN Ends("servers") /\ UNCHANGED servers
                         ELSE servers' = call.list /\ Step("drop")
  /\ UNCHANGED <<base, drop, services>>

WriteDrop(ok) ==
  /\ call.pc = "drop"
  /\ \E changed \in Changed(drop, call.addr) :
       IF changed /\ ~ok
         THEN Ends("drop") /\ UNCHANGED drop
         ELSE /\ drop' = call.addr
              /\ call' = [call EXCEPT !.pc = "running?", !.dropChanged = changed]
  /\ UNCHANGED <<base, servers, services>>

\* (Mutant: a running dnsmasq is always reloaded.)
CheckRunningOnly(ok) ==
  /\ call.pc = "running?"
  /\ Step(IF ok /\ dnsmasq.up THEN "reload" ELSE "restart")
  /\ UNCHANGED <<files, services>>

\* systemctl is-active: a command that fails reads as "not running".
CheckRunning(ok) ==
  /\ call.pc = "running?"
  /\ Step(IF call.baseChanged \/ ~(ok /\ dnsmasq.up) THEN "restart" ELSE "reload")
  /\ UNCHANGED <<files, services>>

AfterDnsmasq == IF call.dropChanged THEN "resolved" ELSE "done"

\* A restart that fails did not happen, or left dnsmasq stopped.
RestartDnsmasq(ok) ==
  /\ call.pc = "restart"
  /\ dnsmasq' \in IF ok THEN {Started} ELSE {dnsmasq, Stopped}
  /\ IF ok THEN Step(AfterDnsmasq) ELSE Ends("dnsmasq")
  /\ UNCHANGED <<files, resolved>>

\* (Mutant: an error of the reload is dropped.)
ReloadSilently(ok) ==
  /\ call.pc = "reload"
  /\ dnsmasq' = IF ok /\ dnsmasq.up THEN Started ELSE dnsmasq
  /\ Step(AfterDnsmasq)
  /\ UNCHANGED <<files, resolved>>

\* SIGHUP: dnsmasq reads the servers file again, and only that, if it knows of one.
ReloadDnsmasq(ok) ==
  /\ call.pc = "reload"
  /\ IF ok /\ dnsmasq.up
       THEN /\ dnsmasq' = [dnsmasq EXCEPT
                 !.list = IF dnsmasq.addr = NoFile THEN NoFile ELSE servers]
            /\ Step(AfterDnsmasq)
       ELSE Ends("dnsmasq") /\ UNCHANGED dnsmasq
  /\ UNCHANGED <<files, resolved>>

RestartResolved(ok) ==
  /\ call.pc = "resolved"
  /\ resolved' = IF ok THEN drop ELSE resolved
  /\ IF ok THEN Step("done") ELSE Ends("resolved")
  /\ UNCHANGED <<files, dnsmasq>>

-----------------------------------------------------------------------------
(* Cleanup goes on past every failure. *)

CallCleanup ==
  /\ call = NoCall
  /\ call' = [NoCall EXCEPT !.fn = "Cleanup", !.pc = "remove"]
  /\ UNCHANGED <<files, services>>

Goes(pc, part, ok) ==
  call' = [call EXCEPT !.pc = pc, !.errs = IF ok THEN @ ELSE @ \cup {part}]

RemoveBase(ok) ==
  /\ call.pc = "remove"
  /\ base' = IF ok THEN NoFile ELSE base
  /\ Goes("removeServers", "base", ok \/ base = NoFile)
  /\ UNCHANGED <<servers, drop, services>>

RemoveServers(ok) ==
  /\ call.pc = "removeServers"
  /\ servers' = IF ok THEN NoFile ELSE servers
  /\ Goes("removeDrop", "servers", ok \/ servers = NoFile)
  /\ UNCHANGED <<base, drop, services>>

RemoveDrop(ok) ==
  /\ call.pc = "removeDrop"
  /\ drop' = IF ok THEN NoFile ELSE drop
  /\ Goes("stop", "drop", ok \/ drop = NoFile)
  /\ UNCHANGED <<base, servers, services>>

\* systemctl stop succeeds for a service that is not running.
StopDnsmasq(ok) ==
  /\ call.pc = "stop"
  /\ dnsmasq' = IF ok THEN Stopped ELSE dnsmasq
  /\ Goes("handBack", "dnsmasq", ok)
  /\ UNCHANGED <<files, resolved>>

\* (Mutant: resolved is restarted only if all went well so far.)
HandBackUnlessFailed(ok) ==
  /\ call.pc = "handBack"
  /\ resolved' = IF ok /\ call.errs = {} THEN drop ELSE resolved
  /\ Goes("done", "resolved", ok)
  /\ UNCHANGED <<files, dnsmasq>>

HandBack(ok) ==
  /\ call.pc = "handBack"
  /\ resolved' = IF ok THEN drop ELSE resolved
  /\ Goes("done", "resolved", ok)
  /\ UNCHANGED <<files, dnsmasq>>

Return ==
  /\ call.pc = "done"
  /\ call' = NoCall
  /\ UNCHANGED <<files, services>>

-----------------------------------------------------------------------------
(* The host around the manager. *)

DnsmasqDies ==
  /\ dnsmasq.up
  /\ dnsmasq' = Stopped
  /\ UNCHANGED <<files, resolved, call>>

\* The process that made the call dies; the services run on.
CallerDies ==
  /\ call # NoCall
  /\ call' = NoCall
  /\ UNCHANGED <<files, services>>

\* The services read what the disk holds; dnsmasq may not be enabled, or not start.
HostBoot ==
  /\ call' = NoCall
  /\ dnsmasq' \in {Started, Stopped}
  /\ resolved' = drop
  /\ UNCHANGED files

ApplyStep(ok) == \/ WriteBase(ok) \/ WriteServers(ok) \/ WriteDrop(ok)
                 \/ CheckRunning(ok) \/ RestartDnsmasq(ok) \/ ReloadDnsmasq(ok)
                 \/ RestartResolved(ok)
CleanupStep(ok) == \/ RemoveBase(ok) \/ RemoveServers(ok) \/ RemoveDrop(ok)
                   \/ StopDnsmasq(ok) \/ HandBack(ok)

DnsNext ==
  \/ \E addr \in Addr, list \in List : CallApply(addr, list)
  \/ CallCleanup
  \/ \E ok \in BOOLEAN : ApplyStep(ok) \/ CleanupStep(ok)
  \/ Return
  \/ DnsmasqDies \/ CallerDies \/ HostBoot

DnsSpec == DnsInit /\ [][DnsNext]_dnsVars

-----------------------------------------------------------------------------
(* Properties. *)

DnsPcs == {"idle", "base", "servers", "drop", "running?", "restart", "reload", "resolved",
           "remove", "removeServers", "removeDrop", "stop", "handBack", "done"}

CallFrame ==
  [fn : {"none", "Apply", "Cleanup"}, pc : DnsPcs,
   addr : Addr \cup {NoFile}, list : List \cup {NoFile},
   baseChanged : BOOLEAN, dropChanged : BOOLEAN,
   errs : SUBSET {"base", "servers", "drop", "dnsmasq", "resolved"}]

Service == [up : BOOLEAN, addr : Addr \cup {NoFile}, list : List \cup {NoFile}]

\* Type invariant of dnsmasq.go's files and services: a service that is stopped has
\* read nothing, and one that never read the base file knows no upstreams of ours.
DnsTypeOK ==
  /\ base \in Addr \cup {NoFile}
  /\ servers \in List \cup {NoFile}
  /\ drop \in Addr \cup {NoFile}
  /\ dnsmasq \in Service
  /\ ~dnsmasq.up => dnsmasq = Stopped
  /\ dnsmasq.addr = NoFile => dnsmasq.list = NoFile
  /\ resolved \in Addr \cup {NoFile}
  /\ call \in CallFrame

Done(fn) == call.fn = fn /\ call.pc = "done"

\* When Apply returns no error the files are those of the call, and a dnsmasq that
\* knows of the servers file answers from this list, whatever an earlier call that
\* failed or died had left unread: Reload does not depend on what changed.
ApplyServesList ==
  Done("Apply") /\ call.errs = {}
    => /\ base = call.addr /\ servers = call.list /\ drop = call.addr
       /\ dnsmasq.up /\ dnsmasq.addr # NoFile => dnsmasq.list = call.list

\* An Apply that wrote a file itself and returns no error has had it read.
ApplyReadsWhatItWrote ==
  Done("Apply") /\ call.errs = {}
    => /\ call.baseChanged /\ dnsmasq.up => dnsmasq.addr = call.addr
       /\ call.dropChanged => resolved = call.addr

\* One step of Cleanup that fails strands nothing else: what it reports no error
\* for is gone, and DNS is back with resolved if its own two steps succeeded.
CleanupKeepsOn ==
  Done("Cleanup")
    => /\ "base" \notin call.errs => base = NoFile
       /\ "servers" \notin call.errs => servers = NoFile
       /\ "dnsmasq" \notin call.errs => ~dnsmasq.up
       /\ {"drop", "resolved"} \cap call.errs = {} => drop = NoFile /\ resolved = NoFile

\* Apply: "converges DNS on the given entries", here for an Apply that returns no error
\* while dnsmasq stays up: dnsmasq has read the base file and answers from the entries.
ApplyConverges ==
  Done("Apply") /\ call.errs = {} /\ dnsmasq.up
    => dnsmasq.addr = call.addr /\ dnsmasq.list = call.list

\* What the call asks for, and where it is for the one who made it.
Wanted == IF call.fn = "Apply" THEN call.list ELSE NoFile

ServiceState == IF call.fn = "none" THEN "none"
                ELSE IF call.pc # "done" THEN "busy"
                ELSE IF call.errs = {} THEN "ok" ELSE "failed"

\* The manager keeps the promise of DnsService: the servers file changes only inside a
\* call and only to what the call asks for, and a call that says it went well has
\* brought it there, whatever failed on the way and whoever died.
Manager == INSTANCE DnsService WITH Contents <- List, Nothing <- NoFile, conf <- servers,
                                    want <- Wanted, state <- ServiceState

KeepsDnsService == Manager!ServiceSpec

ApplyPcs == {"base", "servers", "drop", "running?", "restart", "reload", "resolved"}
CleanupPcs == {"remove", "removeServers", "removeDrop", "stop", "handBack"}

\* The files that are right from the step on that wrote them.
Written ==
  call.fn = "Apply" /\ call.errs = {}
    => /\ call.pc # "base" => base = call.addr
       /\ call.pc \notin {"base", "servers"} => servers = call.list
       /\ call.pc \notin {"base", "servers", "drop"} => drop = call.addr

\* What dnsmasq has read once Apply is past it.
Told ==
  call.fn = "Apply" /\ call.errs = {} /\ call.pc \in {"resolved", "done"}
    => /\ dnsmasq.up /\ dnsmasq.addr # NoFile => dnsmasq.list = call.list
       /\ call.baseChanged /\ dnsmasq.up => dnsmasq.addr = call.addr

\* What Cleanup has removed so far, unless it reports the part.
Removed ==
  call.fn = "Cleanup" /\ call.pc # "remove"
    => /\ "base" \notin call.errs => base = NoFile
       /\ call.pc # "removeServers"
            => /\ "servers" \notin call.errs => servers = NoFile
               /\ call.pc # "removeDrop"
                    => /\ "drop" \notin call.errs => drop = NoFile
                       /\ call.pc # "stop" /\ "dnsmasq" \notin call.errs => ~dnsmasq.up

\* What a call knows between its steps; inductive together with the type invariant.
DnsInv ==
  /\ call.fn = "none" => call = NoCall
  /\ call.fn = "Apply" => /\ call.pc \in ApplyPcs \cup {"done"}
                          /\ call.addr \in Addr /\ call.list \in List
                          /\ call.pc # "done" => call.errs = {}
                          /\ call.pc = "reload" => ~call.baseChanged
                          /\ call.pc = "resolved" => call.dropChanged
  /\ call.fn = "Cleanup" => call.pc \in CleanupPcs \cup {"done"}
  /\ Written /\ Told /\ Removed
  /\ Done("Apply") /\ call.errs = {} /\ call.dropChanged => resolved = call.addr
  /\ Done("Cleanup") /\ {"drop", "resolved"} \cap call.errs = {} => resolved = NoFile

=============================================================================
