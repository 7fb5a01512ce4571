------------------------------- MODULE Clients -------------------------------
(***************************************************************************)
(* The processes that use one configuration file: the daemon and a command *)
(* line, which goes through the daemon's socket or runs an engine of its   *)
(* own (src/cmd/dual-vpn/main.go), with New and the edits of the engine,   *)
(* the active marker, config.Save one system call at a time, and the       *)
(* socket.  Every call may fail, either process may die, and a person may  *)
(* put another file in place.  What an engine does to the kernel is in     *)
(* Engine.                                                                 *)
(***************************************************************************)
EXTENDS ConfigSchema

CONSTANTS
  InitialFiles,  \* what the file may be at first
  Edits,         \* what a person may put in its place later
  Drafts,        \* the tunnels a client of the daemon may add or replace
  Targets,       \* where a client may send the routing rule
  Lists,         \* the lists of resolvers it may set
  MaxChanges,    \* bound on requests, commands and edits by hand
  Daemon, Cli    \* the processes

ASSUME ProcessAssumption == Daemon # Cli /\ MaxChanges \in Nat

ASSUME FileAssumption ==
  /\ InitialFiles \cup Edits \subseteq Files
  /\ Drafts \subseteq TunnelSet /\ Targets \subseteq Text /\ Lists \subseteq Resolvers
  /\ DefaultConfig \in Docs /\ Valid(DefaultConfig)

Process == {Daemon, Cli}

VARIABLES
  file,    \* the configuration file
  marker,  \* the active marker file exists
  socket,  \* "none", "live", or "stale": nobody listens any more
  proc,    \* the engine of each process
  raced,   \* a direct command was under way beside the daemon
  edited,  \* a person has changed the file since the daemon read or wrote it
  changes  \* how many of those there have been

vars == <<file, marker, socket, proc, raced, edited, changes>>

\* pc: "out" if the process has no engine, "stat" if the command line has seen no
\* socket, "idle" between two calls of the engine, "done" when the command line has had
\* its one; the others are the next system call.  fresh: New has not returned.  old: the
\* configuration before the one that is being saved.  temp: the file it is saved to.
\* erred: its last setActive returned an error.
Out(c) == [pc |-> "out", fresh |-> TRUE, cfg |-> c, old |-> c, temp |-> "none",
           active |-> FALSE, erred |-> FALSE]

Saving == {"create", "write", "rename", "remove"}

\* What a process has in force: an edit that is being saved is not.
InForce(p) == IF proc[p].pc \in Saving THEN proc[p].old ELSE proc[p].cfg

Empty == Doc(CurrentVersion, <<>>, None, None, None)

Init ==
  /\ file \in InitialFiles
  /\ marker = FALSE
  /\ socket = "none"
  /\ proc = [p \in Process |-> Out(Empty)]
  /\ raced = FALSE /\ edited = TRUE
  /\ changes = 0

\* Where a call of the engine leaves the process.
Returned(p) == IF p = Daemon THEN "idle" ELSE "done"

Set(p, new) == proc' = [proc EXCEPT ![p] = new]
Goto(p, pc) == proc' = [proc EXCEPT ![p].pc = pc]

\* The daemon has the file's contents in force from here on.
Taken(p) ==
  IF p = Daemon THEN /\ raced' = (proc[Cli].pc # "out" \/ (raced /\ ~proc[p].fresh))
                     /\ edited' = FALSE
                ELSE UNCHANGED <<raced, edited>>

-----------------------------------------------------------------------------
(* config.Save: a temporary file of its own, renamed over the old file. *)

\* The edited configuration is validated and then saved, or rolled back.
Save(p, new) ==
  /\ IF Valid(new) THEN Set(p, [proc[p] EXCEPT !.pc = "create", !.cfg = new])
                   ELSE Goto(p, Returned(p))
  /\ UNCHANGED <<file, marker, socket, raced, edited>>

\* (Mutant: the temporary file has one name for everybody.)
CreateTempShared(p, ok) ==
  /\ proc[p].pc = "create"
  /\ proc' = [q \in Process |->
                IF q = p THEN [proc[q] EXCEPT !.pc = IF ok THEN "write" ELSE "remove",
                                              !.temp = IF ok THEN "part" ELSE "none"]
                ELSE [proc[q] EXCEPT !.temp = IF ok /\ @ # "none" THEN "part" ELSE @]]
  /\ UNCHANGED <<file, marker, socket, raced, edited>>

CreateTemp(p, ok) ==
  /\ proc[p].pc = "create"
  /\ Set(p, [proc[p] EXCEPT !.pc = IF ok THEN "write" ELSE "remove",
                            !.temp = IF ok THEN "part" ELSE "none"])
  /\ UNCHANGED <<file, marker, socket, raced, edited>>

\* Write, Chmod and Close.
WriteTemp(p, ok) ==
  /\ proc[p].pc = "write"
  /\ Set(p, [proc[p] EXCEPT !.pc = IF ok THEN "rename" ELSE "remove",
                            !.temp = IF ok THEN "full" ELSE "part"])
  /\ UNCHANGED <<file, marker, socket, raced, edited>>

\* From here the edit is in force.  New goes on to the marker.
RenameTemp(p, ok) ==
  /\ proc[p].pc = "rename"
  /\ IF ok THEN /\ file' = IF proc[p].temp = "full" THEN proc[p].cfg ELSE Garbage
                /\ Set(p, [proc[p] EXCEPT !.pc = IF proc[p].fresh THEN "marker" ELSE Returned(p),
                                          !.old = proc[p].cfg, !.temp = "none"])
                /\ Taken(p)
           ELSE Goto(p, "remove") /\ UNCHANGED <<file, raced, edited>>
  /\ UNCHANGED <<marker, socket>>

\* (Mutant: without the deferred os.Remove.)
RemoveNoTemp(p) ==
  /\ proc[p].pc = "remove"
  /\ IF proc[p].fresh THEN Set(p, Out(proc[p].old))
                      ELSE Set(p, [proc[p] EXCEPT !.pc = Returned(p), !.cfg = proc[p].old])
  /\ UNCHANGED <<file, marker, socket, raced, edited>>

\* The deferred os.Remove of a save that failed, and the rollback; New fails with it.
RemoveTemp(p) ==
  /\ proc[p].pc = "remove"
  /\ IF proc[p].fresh THEN Set(p, Out(proc[p].old))
                      ELSE Set(p, [proc[p] EXCEPT !.pc = Returned(p), !.cfg = proc[p].old,
                                                  !.temp = "none"])
  /\ UNCHANGED <<file, marker, socket, raced, edited>>

-----------------------------------------------------------------------------
(* engine.New *)

\* A file of the old schema is saved in the new one before anything else is done.
New(p) ==
  /\ IF ~Loads(file) THEN Set(p, Out(proc[p].cfg)) /\ UNCHANGED <<raced, edited>>
     ELSE IF Migrated(file)
       THEN Set(p, [proc[p] EXCEPT !.pc = "create", !.cfg = Read(file)])
            /\ UNCHANGED <<raced, edited>>
       ELSE Set(p, [proc[p] EXCEPT !.pc = "marker", !.cfg = Read(file), !.old = Read(file)])
            /\ Taken(p)
  /\ UNCHANGED <<file, marker, socket>>

StatMarker(p) ==
  /\ proc[p].pc = "marker"
  /\ Set(p, [proc[p] EXCEPT !.pc = "idle", !.fresh = FALSE, !.active = marker])
  /\ UNCHANGED <<file, marker, socket, raced, edited>>

-----------------------------------------------------------------------------
(* The daemon. *)

StartDaemon == proc[Daemon].pc = "out" /\ New(Daemon)

\* NewServer takes away whatever is at the socket's path.
Listen(ok) ==
  /\ proc[Daemon].pc = "idle" /\ socket # "live"
  /\ IF ok THEN socket' = "live" /\ UNCHANGED proc
           ELSE socket' \in {socket, "none"} /\ Set(Daemon, Out(proc[Daemon].cfg))
  /\ UNCHANGED <<file, marker, raced, edited>>

\* A route of the daemon, for a client; the mutex is free.
Served == proc[Daemon].pc = "idle" /\ socket = "live"

Edit(new) == Served /\ Save(Daemon, new)

\* setActive, in Start and Stop: the flag in memory first, then the marker.  A write that
\* fails may have created it.
SetActive(p, on, ok) ==
  /\ marker' \in IF ok THEN {on} ELSE IF on THEN {marker, TRUE} ELSE {marker}
  /\ Set(p, [proc[p] EXCEPT !.pc = Returned(p), !.active = on, !.erred = ~ok])
  /\ UNCHANGED <<file, socket, raced, edited>>

Reload ==
  /\ Served /\ Loads(file)
  /\ Set(Daemon, [proc[Daemon] EXCEPT !.cfg = Read(file), !.old = Read(file)])
  /\ Taken(Daemon)
  /\ UNCHANGED <<file, marker, socket>>

Cfg == proc[Daemon].cfg

Request ==
  \/ \E t \in Drafts : Edit(Upserted(Cfg, t))
  \/ \E n \in Names(Cfg) : Cfg.rule # n /\ Edit(Without(Cfg, n))
  \/ \E n \in Targets : Cfg.rule # None /\ Edit([Cfg EXCEPT !.rule = n])
  \/ \E list \in Lists : Edit([Cfg EXCEPT !.fallback = list])
  \/ \E on, ok \in BOOLEAN : Served /\ SetActive(Daemon, on, ok)
  \/ Reload

\* It shuts down, which removes its socket, or dies, and nobody or systemd, with the
\* runtime directory, does.
Exit ==
  /\ proc[Daemon].pc # "out"
  /\ socket' \in IF socket = "live" THEN {"none", "stale"} ELSE {socket}
  /\ Set(Daemon, Out(InForce(Daemon)))
  /\ UNCHANGED <<file, marker, raced, edited>>

-----------------------------------------------------------------------------
(* The command line. *)

\* (Mutant: a root's command acts directly whether there is a daemon or not.)
ConnectDirectly ==
  /\ proc[Cli].pc = "out"
  /\ Goto(Cli, "stat")
  /\ raced' = (raced \/ (proc[Daemon].pc # "out" /\ socket # "live"))
  /\ UNCHANGED <<file, marker, socket, edited>>

\* connect, for root: without a socket it will run an engine of its own.  With one it is
\* a client of the daemon, whose requests are those above, or fails if nobody listens.
Connect ==
  /\ proc[Cli].pc = "out" /\ socket = "none"
  /\ Goto(Cli, "stat")
  /\ raced' = (raced \/ proc[Daemon].pc # "out")
  /\ UNCHANGED <<file, marker, socket, edited>>

Open == proc[Cli].pc = "stat" /\ New(Cli)

\* One edit or start or stop; apply, status and the tunnels change nothing here.
Command ==
  /\ proc[Cli].pc = "idle"
  /\ LET c == proc[Cli].cfg IN
     \/ \E n \in Targets : c.rule # None /\ Save(Cli, [c EXCEPT !.rule = n])
     \/ \E on, ok \in BOOLEAN : SetActive(Cli, on, ok)

\* The command has been carried out, or failed, or is killed.
Leave ==
  /\ proc[Cli].pc # "out"
  /\ Set(Cli, Out(Empty))
  /\ UNCHANGED <<file, marker, socket, raced, edited>>

\* runInit, when there is no file: it saves the default configuration.
WriteDefault ==
  /\ proc[Cli].pc = "out" /\ file = NoFile
  /\ Set(Cli, [Out(Empty) EXCEPT !.pc = "create", !.fresh = FALSE, !.cfg = DefaultConfig])
  /\ UNCHANGED <<file, marker, socket, raced, edited>>

-----------------------------------------------------------------------------

HandEdit ==
  /\ file' \in Edits
  /\ edited' = TRUE
  /\ UNCHANGED <<marker, socket, proc, raced>>

EngineStep(p) ==
  \/ \E ok \in BOOLEAN : CreateTemp(p, ok) \/ WriteTemp(p, ok) \/ RenameTemp(p, ok)
  \/ RemoveTemp(p)
  \/ StatMarker(p)

\* What a person does, in as many steps as are counted.
Change ==
  /\ changes < MaxChanges /\ changes' = changes + 1
  /\ Request \/ Command \/ WriteDefault \/ HandEdit

Run ==
  \/ \E p \in Process : EngineStep(p)
  \/ StartDaemon
  \/ \E ok \in BOOLEAN : Listen(ok)
  \/ Exit
  \/ Connect
  \/ Open
  \/ Leave

Next == Change \/ (Run /\ UNCHANGED changes)

Spec == Init /\ [][Next]_vars

-----------------------------------------------------------------------------
(* Properties. *)

\* Type invariant.  What a process has in force is valid, and only what is being written
\* is in a temporary file.
ClientsTypeOK ==
  /\ {marker, raced, edited} \subseteq BOOLEAN
  /\ socket \in {"none", "live", "stale"}
  /\ changes \in 0..MaxChanges
  /\ \A p \in Process :
       /\ proc[p].pc \in Saving \cup {"out", "stat", "marker", "idle", "done"}
       /\ Valid(proc[p].cfg) /\ Valid(proc[p].old)
       /\ proc[p].temp # "none" => proc[p].pc \in Saving
  /\ socket = "live" => ~proc[Daemon].fresh

\* A file that loads is never replaced by one that does not, whatever fails, whoever
\* dies in the middle of a save, and with two processes saving at once: only a person
\* does that.
StaysLoadable == [][Loads(file) => Loads(file') \/ HandEdit]_vars

\* A daemon that serves has in force what a restart would bring back, and thinks itself
\* active when a restart would, after any edits, failed saves, migrations, direct commands
\* and restarts before.  There are four exceptions.  An empty list of resolvers, which
\* SetFallback accepts, comes back as the public ones.  A file changed by hand is not read
\* until Reload.  A direct command that was under way when the daemon read the file is not
\* noticed.  And after a start or a stop that reported an error the flag may differ from
\* the marker.
InSync ==
  socket = "live" /\ ~raced /\ ~edited
    => /\ Loads(file) /\ Read(file) = Refilled(InForce(Daemon))
       /\ proc[Daemon].erred \/ proc[Daemon].active = marker

\* No tunnel moves to another table behind the back of the rules and routes that are in
\* the old one: not by an edit that names no table, not by the deletion of another, not
\* by a restart or a migration.
TablesStay ==
  [][~raced /\ ~edited =>
       LET old == InForce(Daemon)
           new == InForce(Daemon)'
       IN  \A n \in Names(old) \cap Names(new) :
             LET t == new.tunnels[At(new, n)].table IN
             \/ t = old.tunnels[At(old, n)].table
             \/ \E d \in Drafts : d.name = n /\ d.table = t
    ]_vars

\* A proper file of the old schema loads with all its VPNs, the corporate one in its table
\* and with the rules.
MigrationLoads ==
  file \notin {NoFile, Garbage} =>
    ("vpns" \in DOMAIN file /\ Proper(file) =>
       LET c == Read(file) IN
       /\ Loads(file) /\ Len(c.tunnels) = Len(file.vpns)
       /\ \A i \in DOMAIN file.vpns :
            file.vpns[i].corp =>
              /\ c.tunnels[i].table = CorpTable(file)
              /\ file.networks => c.rule = c.tunnels[i].name
              /\ file.domains => c.via = c.tunnels[i].name)
=============================================================================
